------------------------------ MODULE MapStore ------------------------------
(***************************************************************************)
(* The maps of udp_interface (udp_communication.cpp): the realtime map     *)
(* kept in memory while a mapping runs, the stored map in map/, and what   *)
(* the SoC is sent of them, as it is or encrypted.                         *)
(*                                                                         *)
(* The UDP thread serves requests and replaces the stored map; callbacks   *)
(* on the executor thread write the realtime map under a mutex that the    *)
(* UDP thread does not take to read it; the state manager (external)       *)
(* starts and ends mappings and stores their maps in the same files.       *)
(* A stored map is a picture (pgm) and its description (yaml).             *)
(***************************************************************************)
EXTENDS Naturals

CONSTANTS
  Sizes,         \* sizes of a picture, as far as told apart
  MaxInputs      \* bound: mappings, uploads, jobs and restarts in a behaviour

ASSUME StoreConstants == Sizes # {} /\ 0 \notin Sizes /\ MaxInputs \in Nat

Halves == {"pgm", "yaml"}

\* What a file holds is named by where it came from, <<origin, number>>: a
\* mapping while it ran ("live") or as it was stored ("session"), an "upload",
\* the "factory", an edit of the SoC ("edited"); or there is no file, or half of one.
None == <<"none", 0>>
Broken == <<"broken", 0>>
Pair(c) == [h \in Halves |-> c]

Places == {"map", "factorymap", "mapEnc", "factorymapEnc", "tempmap", "copy", "copyEnc"}
EncOf(place) == IF place = "map" THEN "mapEnc" ELSE "factorymapEnc"

VARIABLES
  file,          \* the pairs of files, by place
  unsynced,      \* halves of the stored map that a loss of power may destroy
  live,          \* socData.mapInfo: whether received, its size, its data
  incoming,      \* the map message setSocMapData is copying, or NoMap
  queued,        \* a message waiting for mapCallback and the mutex, or NoMap
  robotStatus,
  nodeState,     \* map_sub exists while it is a mapping, enableMapSub, disableMapSub
  job,           \* what the UDP thread is doing, a record or Idle
  mapper, session,      \* the state manager's mapping, and which it is
  started, uploads, jobs, losses,
  \* History, read by properties only.
  overlap,       \* when the last mapping was started the one before went on, had
                 \* not begun, or a map of it had not been delivered yet
  raced,         \* the state manager stored a map during this job
  expected,      \* the pair that was stored when this job began
  sentLive, sentStored,  \* what this job has sent
  reported, sure,        \* the map last reported copied, the halves that must be there
  syncFailed

NoMap == [session |-> 0, size |-> 0]
Cleared == [received |-> FALSE, size |-> 0, data |-> NoMap]

memoryVars == <<live, incoming, queued, robotStatus, nodeState>>
others == <<mapper, session, started, uploads, losses>>
outside == <<others, jobs>>
sentVars == <<sentLive, sentStored>>
copyVars == <<reported, sure, syncFailed>>
historyVars == <<overlap, raced, expected, sentVars, copyVars>>
vars == <<file, unsynced, memoryVars, job, outside, historyVars>>

NothingSent == [size |-> 0, data |-> NoMap]

\* A job: its next step, what was asked for, the place of the files, whether
\* all went well so far, the copy of mapInfo, the halves read or encrypted.
Idle == [step |-> "idle", kind |-> "map", place |-> "map", ok |-> TRUE,
         got |-> NothingSent, taken |-> Pair(None)]

Memory ==
  /\ live = Cleared /\ incoming = NoMap /\ queued = NoMap
  /\ robotStatus \in {"other", "factory"} /\ nodeState = "other" /\ job = Idle

Init ==
  /\ \E m, f \in {None, <<"factory", 0>>} :
       file = [p \in Places |-> IF p = "map" THEN Pair(m)
                                ELSE IF p = "factorymap" THEN Pair(f) ELSE Pair(None)]
  /\ unsynced = {} /\ Memory
  /\ mapper = "off" /\ session = 0 /\ started = 0 /\ uploads = 0 /\ losses = 0 /\ jobs = 0
  /\ overlap = FALSE /\ raced = FALSE /\ expected = Pair(None)
  /\ sentLive = NothingSent /\ sentStored = Pair(None)
  /\ reported = None /\ sure = {} /\ syncFailed = FALSE
-----------------------------------------------------------------------------
Input == started + uploads + jobs + losses < MaxInputs

(* The state manager and the mapping (external).                           *)
MapperStarts ==
  /\ mapper = "off" /\ session < started
  /\ mapper' = "mapping" /\ session' = started
  /\ UNCHANGED <<file, unsynced, memoryVars, job, started, uploads, jobs, losses, historyVars>>

MapSub == nodeState = "mapping"

MapperPublishes ==
  /\ mapper = "mapping" /\ MapSub
  /\ \E n \in Sizes : queued' = [session |-> session, size |-> n]
  /\ UNCHANGED <<file, unsynced, live, incoming, robotStatus, nodeState, job,
                 outside, historyVars>>

MapperStops ==
  /\ mapper = "mapping" /\ mapper' \in {"off", "pgm"}
  /\ UNCHANGED <<file, unsynced, memoryVars, job, session, started, uploads, jobs,
                 losses, historyVars>>

\* The map of the mapping is stored, the picture before its description.
MapperStores ==
  /\ mapper \in Halves
  /\ file' = [file EXCEPT !["map"][mapper] = <<"session", session>>]
  /\ unsynced' = unsynced \cup {mapper}
  /\ mapper' = IF mapper = "pgm" THEN "yaml" ELSE "off"
  /\ raced' = (raced \/ job # Idle) /\ reported' = None
  /\ UNCHANGED <<memoryVars, job, session, started, uploads, jobs, losses,
                 overlap, expected, sentVars, sure, syncFailed>>

\* The SoC hands over a map to copy, not while one is being copied.
Upload ==
  /\ Input /\ job.step \notin {"decrypt", "copyPgm", "copyYaml"}
  /\ uploads' = uploads + 1
  /\ file' = [file EXCEPT !["copyEnc"] = Pair(<<"upload", uploads + 1>>)]
  /\ UNCHANGED <<unsynced, memoryVars, job, mapper, session, started, jobs, losses, historyVars>>

\* While a map is being stored it is not known which state is published.
Published(state) == IF state = "mapping" THEN mapper # "off" ELSE mapper # "mapping"
-----------------------------------------------------------------------------
(* Executor thread.                                                        *)
ExecutorUnchanged ==
  UNCHANGED <<file, unsynced, robotStatus, outside, historyVars>>

NodeStateCallback(state) ==
  /\ incoming = NoMap /\ Published(state) /\ state # nodeState
  /\ nodeState' = state
  /\ queued' = NoMap
  /\ ExecutorUnchanged /\ UNCHANGED <<live, incoming, job>>

\* setSocMapData under the mutex: the size is written before the data.
MapCallback ==
  /\ incoming = NoMap /\ queued # NoMap
  /\ incoming' = queued /\ queued' = NoMap
  /\ live' = [live EXCEPT !.size = incoming'.size]
  /\ ExecutorUnchanged /\ UNCHANGED <<nodeState, job>>

\* The points are exchanged while another thread copies them: it gets the old
\* ones, the new ones or a mixture, which is of no mapping and as large as either.
Overwritten(old, new) ==
  {old, new} \cup {[session |-> 0, size |-> n] : n \in {old.size, new.size}}

MapCallbackEnds ==
  /\ incoming # NoMap
  /\ live' = [live EXCEPT !.received = TRUE, !.data = incoming]
  /\ incoming' = NoMap
  /\ IF job.step = "copy"
     THEN \E points \in Overwritten(live.data, incoming) :
            job' = [job EXCEPT !.got.data = points]
     ELSE UNCHANGED job
  /\ ExecutorUnchanged /\ UNCHANGED <<queued, nodeState>>
-----------------------------------------------------------------------------
(* UDP thread: the start of a mapping, the state last relayed.             *)
Unsent == sentLive' = NothingSent /\ sentStored' = Pair(None)

ClearUnlocked ==   \* mutant: without the mutex, a map being copied in goes on
  live' = Cleared /\ UNCHANGED incoming

ClearMapInfo == incoming = NoMap /\ live' = Cleared /\ UNCHANGED incoming

StartMapping ==
  /\ job = Idle /\ Input
  /\ ClearMapInfo
  /\ started' = started + 1
  /\ overlap' = (queued # NoMap \/ mapper # "off" \/ session < started)
  /\ Unsent
  /\ UNCHANGED <<file, unsynced, queued, robotStatus, nodeState, job, mapper,
                 session, uploads, jobs, losses, raced, expected, copyVars>>

SetSocRobotState ==
  /\ job = Idle
  /\ robotStatus' \in {"mapping", "factory", "other"} \ {robotStatus}
  /\ Published(robotStatus')
  /\ UNCHANGED <<file, unsynced, live, incoming, queued, nodeState, job, outside, historyVars>>
-----------------------------------------------------------------------------
(* Requests: resSocMap, resSocEncMap and resSocModifiedMap.                *)
Mapping == robotStatus = "mapping" \/ nodeState = "mapping"

Counted == Input /\ jobs' = jobs + 1

Begin(step, k, p) ==
  /\ job = Idle /\ Counted
  /\ job' = [Idle EXCEPT !.step = step, !.kind = k, !.place = p]
  /\ raced' = FALSE /\ Unsent

Then(step) == job' = [job EXCEPT !.step = step]

Request(k) ==
  /\ IF k # "modified" /\ Mapping THEN Begin("size", k, "map")
     ELSE Begin("pgm", k, IF k # "modified" /\ robotStatus = "factory" THEN "factorymap" ELSE "map")
  /\ expected' = file[job'.place]
  /\ UNCHANGED <<file, unsynced, memoryVars, others, overlap, copyVars>>

\* getMapInfo copies the members in their order and without the mutex, the
\* points last, which takes a while.
CopySize ==
  /\ job.step = "size"
  /\ job' = [job EXCEPT !.step = "points", !.got.size = live.size, !.ok = live.received]
  /\ UNCHANGED <<file, unsynced, memoryVars, outside, historyVars>>

CopyPoints ==
  /\ job.step = "points"
  /\ job' = [job EXCEPT !.step = "copy", !.got.data = live.data]
  /\ UNCHANGED <<file, unsynced, memoryVars, outside, historyVars>>

SizeCorrect(map) == map.size = map.data.size

\* The realtime map has a place of its own.
TempPlace == "tempmap"

SendRealtimeMap ==
  /\ job.step = "copy" /\ job' = Idle
  /\ LET map == job.got IN
     IF job.ok /\ map.data # NoMap /\ SizeCorrect(map)
     THEN \/ job.kind = "map" /\ sentLive' = map /\ UNCHANGED file
          \/ /\ job.kind = "enc"
             /\ \E saved \in SUBSET Halves :
                  /\ file' = [file EXCEPT ![TempPlace] = [h \in Halves |->
                       IF h \in saved THEN <<"live", map.data.session>> ELSE @[h]]]
                  /\ sentLive' = IF saved = Halves THEN map ELSE sentLive
     ELSE UNCHANGED <<file, sentLive>>
  /\ UNCHANGED <<unsynced, memoryVars, outside, overlap, raced, expected, sentStored, copyVars>>

Stored(h) == file[job.place][h]

EncryptedOnce(h) ==   \* mutant: only when there is no encrypted file yet
  IF file[EncOf(job.place)][h] # None THEN file[EncOf(job.place)][h] ELSE Stored(h)
Encrypted(h) == Stored(h)

\* One half of the stored map is read or encrypted; the library may fail.
\* Both are encrypted in any case, and sent if both could be.
Encrypting == job.kind = "enc"
Takes(h) == {FALSE, Stored(h) # None /\ (h = "pgm" /\ ~Encrypting => Stored(h) # Broken)}

TakeHalf(h) ==
  /\ job.step = h
  /\ \E done \in Takes(h) :
       LET half == IF Encrypting THEN Encrypted(h) ELSE Stored(h)
           after == [job EXCEPT !.step = "yaml", !.ok = @ /\ done,
                                !.taken[h] = IF done THEN half ELSE @]
       IN
       /\ file' = IF done /\ Encrypting
                  THEN [file EXCEPT ![EncOf(job.place)][h] = half] ELSE file
       /\ job' = IF h = "pgm" /\ (Encrypting \/ done) THEN after ELSE Idle
       /\ sentStored' = IF h = "yaml" /\ after.ok THEN after.taken ELSE sentStored
  /\ UNCHANGED <<unsynced, memoryVars, outside, overlap, raced, expected, sentLive, copyVars>>
-----------------------------------------------------------------------------
(* Replacing the stored map: by an edited picture, by an uploaded map, by  *)
(* the factory's.                                                          *)
Replacing == UNCHANGED <<memoryVars, others, overlap, expected>>

\* savePGMFile does not look at its writes; when the file cannot be opened the
\* program ends (Restart).
SetModifiedMap ==
  /\ job = Idle /\ Counted /\ UNCHANGED <<job, raced>> /\ Unsent
  /\ \E half \in {<<"edited", 0>>, Broken} : file' = [file EXCEPT !["map"].pgm = half]
  /\ unsynced' = unsynced \cup {"pgm"} /\ reported' = None
  /\ Replacing /\ UNCHANGED <<sure, syncFailed>>

\* MapCopyAlarm, refused in some states of the robot.
MapCopyAlarm ==
  /\ robotStatus # "mapping"
  /\ Begin("decrypt", "map", "copy")
  /\ Replacing /\ UNCHANGED <<file, unsynced, copyVars>>

\* What was decrypted is removed, even if the other half fails.
Decrypt ==
  /\ job.step = "decrypt"
  /\ \E done \in SUBSET {h \in Halves : file["copyEnc"][h] # None} :
       /\ file' = [file EXCEPT
            !["copy"] = [h \in Halves |-> IF h \in done THEN file["copyEnc"][h] ELSE @[h]],
            !["copyEnc"] = [h \in Halves |-> IF h \in done THEN None ELSE @[h]]]
       /\ IF done = Halves THEN Then("copyPgm") ELSE job' = Idle
  /\ Replacing /\ UNCHANGED <<jobs, unsynced, raced, sentVars, copyVars>>

StartFactoryMode ==
  /\ Begin("copyPgm", "map", "factorymap")
  /\ Replacing /\ UNCHANGED <<file, unsynced, copyVars>>

NeverSynced(synced) == unsynced \cup {"pgm"}   \* mutant: without the fsync
SyncAfterCopy(synced) == IF synced THEN unsynced \ {"pgm"} ELSE unsynced \cup {"pgm"}

\* copyFile: a failing fsync is only logged.
CopyPgm ==
  /\ job.step = "copyPgm"
  /\ \/ /\ Stored("pgm") # None
        /\ file' = [file EXCEPT !["map"].pgm = Stored("pgm")]
        /\ \E synced \in BOOLEAN :
             unsynced' = SyncAfterCopy(synced) /\ syncFailed' = ~synced
        /\ Then("copyYaml")
     \/ /\ \E half \in {file["map"].pgm, Broken} : file' = [file EXCEPT !["map"].pgm = half]
        /\ unsynced' = unsynced \cup {"pgm"} /\ job' = Idle /\ UNCHANGED syncFailed
  /\ reported' = None
  /\ Replacing /\ UNCHANGED <<jobs, raced, sentVars, sure>>

\* convertYamlImagePath; its writes are not synced and not looked at.
CopyYaml ==
  /\ job.step = "copyYaml" /\ job' = Idle
  /\ \/ UNCHANGED <<file, unsynced, reported, sure>>
     \/ /\ Stored("yaml") # None
        /\ unsynced' = unsynced \cup {"yaml"}
        /\ \E half \in {Stored("yaml"), Broken} :
             LET new == [file EXCEPT !["map"].yaml = half] IN
             IF job.place = "copy"
             THEN /\ file' = [new EXCEPT !["mapEnc"] = Pair(None)]
                  /\ reported' = IF raced THEN None ELSE file["copy"].pgm
                  /\ sure' = IF half = Broken THEN {"pgm"} ELSE Halves
             ELSE file' = new /\ UNCHANGED <<reported, sure>>
  /\ Replacing /\ UNCHANGED <<jobs, raced, sentVars, syncFailed>>
-----------------------------------------------------------------------------
(* The program ends at any point and is started again; if the power is     *)
(* lost, what is not on the disk may be lost, and the mapping with it.     *)
BeingWritten ==
  IF job.step = "copyPgm" THEN {"pgm"} ELSE IF job.step = "copyYaml" THEN {"yaml"} ELSE {}

Restart ==
  /\ Input /\ losses' = losses + 1
  /\ live' = Cleared /\ incoming' = NoMap /\ queued' = NoMap
  /\ robotStatus' \in {"other", "factory"} /\ nodeState' = "other"
  /\ job' = Idle /\ Unsent
  /\ reported' = IF BeingWritten = {} THEN reported ELSE None
  /\ UNCHANGED <<started, uploads, jobs, overlap, raced, expected, syncFailed>>

ProcessDies ==
  /\ Restart
  /\ \E gone \in SUBSET BeingWritten :
       file' = [file EXCEPT !["map"] = [h \in Halves |-> IF h \in gone THEN Broken ELSE @[h]]]
  /\ UNCHANGED <<unsynced, mapper, session, sure>>

PowerLoss ==
  /\ Restart
  /\ \E gone \in SUBSET (unsynced \cup BeingWritten) :
       file' = [file EXCEPT !["map"] = [h \in Halves |-> IF h \in gone THEN Broken ELSE @[h]]]
  /\ unsynced' = {} /\ mapper' = "off" /\ session' = started
  /\ sure' = sure \cap (IF syncFailed THEN {} ELSE {"pgm"})
-----------------------------------------------------------------------------
StateManager == MapperStarts \/ MapperPublishes \/ MapperStops \/ MapperStores

Executor ==
  \/ \E state \in {"mapping", "other"} : NodeStateCallback(state)
  \/ MapCallback \/ MapCallbackEnds

UdpThread ==
  \/ StartMapping \/ SetSocRobotState
  \/ \E k \in {"map", "enc", "modified"} : Request(k)
  \/ CopySize \/ CopyPoints \/ SendRealtimeMap \/ \E h \in Halves : TakeHalf(h)
  \/ SetModifiedMap \/ MapCopyAlarm \/ Decrypt \/ StartFactoryMode \/ CopyPgm \/ CopyYaml

Next == StateManager \/ Upload \/ Executor \/ UdpThread \/ ProcessDies \/ PowerLoss

Spec == Init /\ [][Next]_vars
-----------------------------------------------------------------------------
(* During a mapping the SoC gets no map of an earlier one, even if one was *)
(* being taken over when the mapping was started, or its subscription still*)
(* lasts.  Not if that mapping was still going on, or a map of it was still*)
(* on its way: the code then takes it over and sends it.  Points torn by   *)
(* the unlocked copy (session 0) are of no mapping; they can be sent.      *)
MapOfThisMapping == sentLive.data.session \in {0, started} \/ overlap

(* Outside of a mapping the SoC gets the pair of files that is stored, not *)
(* an earlier encryption of another map nor a realtime map that was never  *)
(* stored; unless the state manager stores a map in the meantime.          *)
StoredMapSent ==
  sentStored # Pair(None) /\ ~raced =>
    /\ sentStored = expected
    /\ \A h \in Halves : sentStored[h][1] # "live"

(* A map that was reported copied is stored whole until somebody writes    *)
(* another one, as far as its writes did not fail unseen, and its picture  *)
(* even survives a loss of power if the sync after the copy succeeded.     *)
CopyWhole == reported # None => \A h \in sure : file["map"][h] = reported
=============================================================================
