------------------------------ MODULE SocLink -------------------------------
(***************************************************************************)
(* The UDP thread of udp_interface: one pass after the other serves what   *)
(* the SoC asks for, relays what the callbacks have collected and executes *)
(* at most one command.  The callbacks of SocRelay run between any two     *)
(* steps of a pass.                                                        *)
(***************************************************************************)
EXTENDS SocRelay

CONSTANT Limit   \* bound: how often each kind of input comes, a function

VARIABLES
  pc,            \* where the pass is
  jig,           \* a jig mode is on (communication mode)
  sent,          \* bOndemandSendState, bOndemandSendMovingState of this pass
  spent          \* inputs so far, by kind

vars == <<relayVars, pc, jig, sent, spent>>
Kinds == {"error", "state", "docking", "soc"}

ASSUME LinkConstants == Limit \in [Kinds -> Nat]

Init == RelayInit /\ pc = "mode" /\ jig = FALSE /\ sent = {}
        /\ spent = [k \in Kinds |-> 0]

Input(kind) ==
  /\ spent[kind] < Limit[kind]
  /\ spent' = [spent EXCEPT ![kind] = @ + 1]
-----------------------------------------------------------------------------
(* The robot and the SoC (external), and the callbacks they lead to.       *)
Callback ==
  /\ \/ Input("error") /\ \E c \in Codes : ErrorListCallback(c)
     \/ Input("state") /\ \/ \E s \in RobotStates : RobotStateCallback(s)
                          \/ \E s \in MovingStates : MovingStateCallback(s)
                          \/ \E s \in NodeStates \ {nodeState} : NodeStateCallback(s)
     \/ Input("docking") /\ \E d \in Docked \ {docking} : StationDataCallback(d)
  /\ UNCHANGED <<pc, jig, sent>>

SocComesUp ==
  /\ ~listening /\ listening' = TRUE
  /\ UNCHANGED <<comm, errorVars, stateVars, bFactoryNaviMode, dockingVars, told, pc, jig,
                 sent, spent>>

\* The SoC asks for something.
Asked == listening /\ Input("soc")
NotAsked == UNCHANGED spent

Step(from, to) == pc = from /\ pc' = to
RelayUnchanged == UNCHANGED <<errorVars, stateVars, bFactoryNaviMode, dockingVars, listening, told>>
-----------------------------------------------------------------------------
\* udp_callback: a jig mode replaces the pass and counts as communication.
UdpCallback ==
  /\ pc = "mode"
  /\ jig' \in BOOLEAN /\ (IF jig' = jig THEN NotAsked ELSE Input("soc"))
  /\ IF jig' THEN comm' = TRUE /\ pc' = "mode" ELSE pc' = "ask" /\ UNCHANGED comm
  /\ RelayUnchanged /\ UNCHANGED sent

\* Requests before the docking status whose answers are not followed.
Ask(from, to) ==
  /\ Step(from, to)
  /\ \/ NotAsked /\ UNCHANGED comm
     \/ Asked /\ comm' = TRUE
  /\ RelayUnchanged /\ UNCHANGED <<jig, sent>>

\* A request leaves prev_docking_status as it is.
DockingStatus ==
  /\ pc = "docking"
  /\ \/ Asked /\ pc' = "dockingAsked" /\ UNCHANGED prevDocking
     \/ /\ NotAsked
        /\ pc' = IF CheckDockingStatusOnDemend THEN "dockingSend" ELSE "moving"
        /\ prevDocking' = docking
  /\ UNCHANGED <<comm, errorVars, stateVars, bFactoryNaviMode, docking, bounced,
                 listening, told, jig, sent>>

SendDockingStatus ==
  /\ pc \in {"dockingAsked", "dockingSend"} /\ pc' = "moving"
  /\ ResSocDockingStatus
  /\ comm' = (comm \/ pc = "dockingAsked")
  /\ UNCHANGED <<errorVars, stateVars, bFactoryNaviMode, dockingVars, listening, jig, sent, spent>>

MovingInfo ==
  /\ Step("moving", "errors")
  /\ \/ Asked /\ ResSocMovingInfo /\ comm' = TRUE
     \/ NotAsked /\ UNCHANGED <<comm, stateVars, told>>
  /\ UNCHANGED <<errorVars, bFactoryNaviMode, dockingVars, listening, jig, sent>>

\* The flag is set after the list was sent and kept.
ErrorList ==
  /\ Step("errors", "late")
  /\ \/ Asked /\ ResSocErrorList /\ comm' = TRUE
     \/ /\ NotAsked /\ UNCHANGED comm
        /\ IF errorList # <<>> THEN ResSocErrorList ELSE UNCHANGED errorVars
  /\ UNCHANGED <<stateVars, bFactoryNaviMode, dockingVars, listening, told, jig, sent>>

\* The requests after the error list: robot state, lidar, sensors.
RobotState ==
  /\ Step("late", "main")
  /\ \/ Asked /\ comm' = TRUE /\ (ResSocRobotState \/ UNCHANGED <<stateVars, told>>)
     \/ NotAsked /\ UNCHANGED <<comm, stateVars, told>>
  /\ UNCHANGED <<errorVars, bFactoryNaviMode, dockingVars, listening, jig, sent>>

\* dequeueMainState, setSocRobotState, resSocRobotState.
MainState ==
  /\ Step("main", "movingQueue")
  /\ IF mainQueue = <<>> THEN UNCHANGED <<stateVars, told, sent>>
                         ELSE RelayMain /\ sent' = sent \cup {"state"}
  /\ UNCHANGED <<comm, errorVars, bFactoryNaviMode, dockingVars, listening, jig, spent>>

MovingState ==
  /\ Step("movingQueue", "auto")
  /\ IF movingQueue = <<>> THEN UNCHANGED <<stateVars, told, sent>>
                           ELSE RelayMoving /\ sent' = sent \cup {"moving"}
  /\ UNCHANGED <<comm, errorVars, bFactoryNaviMode, dockingVars, listening, jig, spent>>

\* Every second or two; what this pass has sent is not sent again.
AutoSend ==
  /\ Step("auto", "command")
  /\ bOnStation' = IF "moving" \in sent THEN bOnStation ELSE OnStation(movingStatus)
  /\ told' = IF ~listening THEN told
             ELSE [told EXCEPT
               !.state = IF "state" \in sent THEN @ ELSE ToldState(robotStatus),
               !.moving = IF "moving" \in sent THEN @ ELSE movingStatus,
               !.pose = IF "moving" \in sent THEN @
                        ELSE IF bOnStation' THEN "station" ELSE "own"]
  /\ UNCHANGED <<comm, errorVars, robot, mainQueue, movingQueue, robotStatus, movingStatus,
                 nodeState, bFactoryNaviMode, dockingVars, listening, jig, sent, spent>>

NoAutoSend ==
  /\ Step("auto", "command")
  /\ RelayUnchanged /\ UNCHANGED <<comm, jig, sent, spent>>

\* generateSocCommand: a start of the factory mode, its stop or a stop of the
\* navigation, any other command.  Commands do not count as communication.
Command ==
  /\ Step("command", "mode")
  /\ sent' = {}
  /\ \/ NotAsked /\ UNCHANGED bFactoryNaviMode
     \/ Asked /\ bFactoryNaviMode' = ~bFactoryNaviMode
  /\ UNCHANGED <<comm, errorVars, stateVars, dockingVars, listening, told, jig>>
-----------------------------------------------------------------------------
Pass ==
  \/ UdpCallback \/ Ask("ask", "docking") \/ DockingStatus \/ SendDockingStatus
  \/ MovingInfo \/ ErrorList \/ RobotState \/ MainState \/ MovingState
  \/ AutoSend \/ NoAutoSend \/ Command

Next == Pass \/ Callback \/ SocComesUp

Spec == Init /\ [][Next]_vars

\* The thread goes on, and its clock sends now and then.
FairSpec == Spec /\ WF_vars(Pass) /\ SF_vars(AutoSend)
-----------------------------------------------------------------------------
(* Once the communication has started and no entry is pending, the SoC     *)
(* takes for present exactly the errors that are.  The exceptions are the  *)
(* codes on which entries erased one another within a pass, or after the   *)
(* SoC had heard one of them, and those sent while only a jig listened.    *)
ErrorsAgree ==
  comm /\ errorList = <<>> => \A c \in Codes \ lost : c \in known <=> c \in active

\* The SoC is up and the robot serves it.
Serving == listening /\ ~jig

(* Errors do not stay in the list once the communication has started.      *)
ErrorsTold ==
  <>[](Serving /\ comm) /\ <>[][UNCHANGED active]_vars =>
    <>[](\A c \in Codes \ lost : c \in known <=> c \in active)

(* A state the robot stays in is what the SoC is told in the end, from     *)
(* whatever order of bursts, requests and factory modes.                   *)
StatesTold ==
  <>[]Serving /\ <>[][UNCHANGED <<robot, bFactoryNaviMode>>]_vars =>
    <>[](/\ robot.state # "none" => told.state = ToldState(robot.state)
         /\ robot.moving # "none" => told.moving = robot.moving)

(* A robot that has left the station and moves, or whose navigation is     *)
(* not running, is told at its own pose in the end.                        *)
PoseTold ==
  <>[](/\ Serving /\ robot.state \notin {"station", "none"}
       /\ nodeState # "navi" \/ robot.moving = "moving") =>
    <>[](told.pose = "own")

(* A docking status that stays is told in the end, unless it came back to  *)
(* the value remembered for the last pass while the SoC knew another, or   *)
(* nothing was ever told.                                                  *)
DockingTold ==
  <>[](Serving /\ ~bounced) /\ <>[][UNCHANGED docking]_vars =>
    <>[](told.docking \in {docking, "none"})
=============================================================================
