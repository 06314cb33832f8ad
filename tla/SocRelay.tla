------------------------------ MODULE SocRelay ------------------------------
(***************************************************************************)
(* What udp_interface relays to the SoC (udp_communication.cpp): the error *)
(* list, the robot's state and moving state, the docking status and the    *)
(* station pose.  The callbacks run on the executor thread, everything     *)
(* that is sent is sent by the UDP thread; SocLink puts the operations in  *)
(* the order of a pass of that thread.                                     *)
(*                                                                         *)
(* A robot state stands for the pair of state and status it comes with,    *)
(* a moving state for the pair of state and reason.                        *)
(***************************************************************************)
EXTENDS Naturals, Sequences, SequencesExt

CONSTANTS
  Codes,          \* error codes
  RobotStates,    \* ROBOT_STATE, as far as told apart
  MovingStates,   \* NAVI_STATE, as far as told apart
  NodeStates,     \* NODE_STATUS, as far as told apart
  Docked          \* upper bits of the docking status

ASSUME RelayConstants ==
  /\ "station" \in RobotStates /\ "factory" \notin RobotStates
  /\ "moving" \in MovingStates
  /\ {"idle", "navi"} \subseteq NodeStates
  /\ "away" \in Docked

VARIABLES
  comm,                      \* m_is_starting_comm_SoC
  errorList,                 \* socData.errorList
  mainQueue, movingQueue,    \* main_state_queue_, moving_state_queue_
  robotStatus, movingStatus, \* socData.robotStatus, socData.movingStatus
  nodeState, bOnStation, bFactoryNaviMode,
  docking, prevDocking,      \* socData.dockingInfo.status, prev_docking_status
  \* The two ends of the relay (external).
  active,                    \* the error codes that are present on the robot
  robot,                     \* the state and moving state it published last
  listening,                 \* the SoC receives what is sent
  told,                      \* what it was told last
  known,                     \* the error codes it takes for present
  \* History, read by properties only.
  early,                     \* codes in the list that were sent already
  lost,                      \* codes on which a word never reached the SoC
  bounced                    \* the docking status came back unnoticed

errorVars == <<errorList, active, known, early, lost>>
stateVars == <<robot, mainQueue, movingQueue, robotStatus, movingStatus, nodeState, bOnStation>>
dockingVars == <<docking, prevDocking, bounced>>
relayVars == <<comm, errorVars, stateVars, bFactoryNaviMode, dockingVars, listening, told>>

\* robotStatus, movingStatus and the docking status are not initialised.
RelayInit ==
  /\ comm = FALSE /\ listening = FALSE
  /\ errorList = <<>> /\ active = {} /\ known = {} /\ early = {} /\ lost = {}
  /\ robot = [state |-> "none", moving |-> "none"]
  /\ mainQueue = <<>> /\ movingQueue = <<>>
  /\ robotStatus \in RobotStates /\ movingStatus \in MovingStates
  /\ nodeState = "idle" /\ bOnStation = FALSE /\ bFactoryNaviMode = FALSE
  /\ docking \in Docked /\ prevDocking = "away" /\ bounced = FALSE
  /\ told = [state |-> "none", moving |-> "none", pose |-> "none", docking |-> "none"]
-----------------------------------------------------------------------------
(* Error list.  An entry is [code, resolved], resolved 1 for occurred and  *)
(* 2 for released; a release erases the first entry of its code, whatever  *)
(* that says.                                                              *)
EntriesOf(c) == {i \in DOMAIN errorList : errorList[i].code = c}
FirstOf(c) == CHOOSE i \in EntriesOf(c) : \A j \in EntriesOf(c) : i <= j

SetSocError(c, resolved) ==
  IF resolved = 2 /\ EntriesOf(c) # {} THEN RemoveAt(errorList, FirstOf(c))
  ELSE Append(errorList, [code |-> c, resolved |-> resolved])

\* The erased entry is the only word on its code, and nobody has heard it.
TakenBack(c) ==
  /\ c \notin early
  /\ \A i \in EntriesOf(c) : i = FirstOf(c) /\ errorList[i].resolved = 1

\* The error manager reports a change.
ErrorListCallback(c) ==
  LET gone == c \in active IN
  /\ errorList' = SetSocError(c, IF gone THEN 2 ELSE 1)
  /\ active' = IF gone THEN active \ {c} ELSE active \cup {c}
  /\ lost' = IF gone /\ EntriesOf(c) # {} /\ ~TakenBack(c) THEN lost \cup {c} ELSE lost
  /\ early' = IF gone THEN early \ {c} ELSE early
  /\ UNCHANGED <<comm, known, stateVars, bFactoryNaviMode, dockingVars, listening, told>>

\* What the SoC makes of a list: the last word on each code counts.
LastWord(list, c, resolved) ==
  \E i \in DOMAIN list :
    /\ list[i] = [code |-> c, resolved |-> resolved]
    /\ \A j \in DOMAIN list : j > i => list[j].code # c

Heard(list) ==
  {c \in Codes : LastWord(list, c, 1) \/ (c \in known /\ ~LastWord(list, c, 2))}

ClearAlways == <<>>   \* mutant: cleared before the communication has started
NeverCleared == errorList   \* mutant: kept although it was sent

KeptErrors == IF comm THEN <<>> ELSE errorList

ResSocErrorList ==
  LET sent == {e.code : e \in Range(errorList)} IN
  /\ known' = IF listening THEN Heard(errorList) ELSE known
  /\ errorList' = KeptErrors
  /\ early' = IF listening /\ ~comm THEN sent ELSE {}
  /\ lost' = IF listening THEN lost \ {c \in sent : c \in known' <=> c \in active}
             ELSE IF comm THEN lost \cup sent
             ELSE lost
  /\ UNCHANGED active
-----------------------------------------------------------------------------
(* Robot state and moving state.                                           *)
RobotStateCallback(s) ==
  /\ mainQueue' = Append(mainQueue, s)
  /\ robot' = [robot EXCEPT !.state = s]
  /\ UNCHANGED <<comm, errorVars, movingQueue, robotStatus, movingStatus, nodeState,
                 bOnStation, bFactoryNaviMode, dockingVars, listening, told>>

MovingStateCallback(s) ==
  /\ movingQueue' = Append(movingQueue, s)
  /\ robot' = [robot EXCEPT !.moving = s]
  /\ UNCHANGED <<comm, errorVars, mainQueue, robotStatus, movingStatus, nodeState,
                 bOnStation, bFactoryNaviMode, dockingVars, listening, told>>

NodeStateCallback(s) ==
  /\ nodeState' = s
  /\ UNCHANGED <<comm, errorVars, robot, mainQueue, movingQueue, robotStatus, movingStatus,
                 bOnStation, bFactoryNaviMode, dockingVars, listening, told>>

Told(field, value) == IF listening THEN [told EXCEPT ![field] = value] ELSE told

\* A robot in factory mode is told to navigate in the factory.
ToldState(s) == IF bFactoryNaviMode THEN "factory" ELSE s

ResSocRobotState ==
  /\ told' = Told("state", ToldState(robotStatus))
  /\ UNCHANGED stateVars

DropBurst(queue) == <<>>   \* mutant: the rest of a burst is dropped

AfterFront(queue) == Tail(queue)

\* dequeueMainState, setSocRobotState: one state a pass.
RelayMain ==
  /\ robotStatus' = Head(mainQueue)
  /\ mainQueue' = AfterFront(mainQueue)
  /\ told' = Told("state", ToldState(robotStatus'))
  /\ UNCHANGED <<robot, movingQueue, movingStatus, nodeState, bOnStation>>

\* sendstationPoseChecker, for the moving state that is about to be sent.
NeverLeft(moving) ==   \* mutant: a robot without navigation stays on the station
  robotStatus = "station" \/ (bOnStation /\ moving # "moving")

OnStation(moving) ==
  \/ robotStatus = "station"
  \/ bOnStation /\ nodeState = "navi" /\ moving # "moving"

ToldMoving(moving) ==
  LET pose == IF OnStation(moving) THEN "station" ELSE "own"
  IN  IF listening THEN [told EXCEPT !.moving = moving, !.pose = pose] ELSE told

ResSocMovingInfo ==
  /\ bOnStation' = OnStation(movingStatus)
  /\ told' = ToldMoving(movingStatus)
  /\ UNCHANGED <<robot, mainQueue, movingQueue, robotStatus, movingStatus, nodeState>>

\* dequeueMovingState, setSocMovingState and resSocMovingInfo.
RelayMoving ==
  /\ movingStatus' = Head(movingQueue)
  /\ movingQueue' = AfterFront(movingQueue)
  /\ bOnStation' = OnStation(movingStatus')
  /\ told' = ToldMoving(movingStatus')
  /\ UNCHANGED <<robot, mainQueue, robotStatus, nodeState>>
-----------------------------------------------------------------------------
(* Docking status: sent when it is asked for or its upper bits change.     *)
StationDataCallback(d) ==
  /\ docking' = d
  /\ bounced' = (d = prevDocking /\ told.docking # d)
  /\ UNCHANGED <<comm, errorVars, stateVars, bFactoryNaviMode, prevDocking, listening, told>>

DockingMade == docking \notin {prevDocking, "away"}   \* mutant: contact made, not lost

CheckDockingStatusOnDemend == docking # prevDocking

ResSocDockingStatus == told' = Told("docking", docking)
=============================================================================
