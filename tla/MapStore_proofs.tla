--------------------------- MODULE MapStore_proofs ---------------------------
(***************************************************************************)
(* Theorems about the maps of udp_interface, for all sizes of a picture    *)
(* and any number of mappings, uploads, jobs and restarts.                 *)
(***************************************************************************)
EXTENDS MapStore, TLAPS

-----------------------------------------------------------------------------
(* Messages and jobs.  Storable is what a stored map may consist of:       *)
(* anything but a realtime map.                                            *)
Messages == [session : Nat, size : Sizes \cup {0}]
Taken == [size : Sizes \cup {0}, data : Messages]
Storable == {"none", "broken", "factory", "session", "upload", "edited"} \X Nat
Contents == Storable \cup ({"live"} \X Nat)

JobTypes ==
  /\ DOMAIN job = {"step", "kind", "place", "ok", "got", "taken"}
  /\ job.got \in Taken
  /\ job.taken \in [Halves -> Contents]
  /\ job.place \in {"map", "factorymap", "copy"}
  /\ job.step \in {"pgm", "yaml"} => job.place # "copy"

(* The realtime map.                                                       *)

RealtimeTypes ==
  /\ DOMAIN live = {"received", "size", "data"}
  /\ live.size \in Sizes \cup {0} /\ live.data \in Messages
  /\ incoming \in Messages /\ queued \in Messages
  /\ sentLive \in Taken
  /\ started \in Nat /\ session \in Nat

(* Unless the mapping was started while the one before went on or a map of *)
(* it was on its way, every map that is waiting, being taken over, kept,   *)
(* copied by a job or sent is of the mapping started last, or of none.     *)
OfThisMapping(message) == message.session \in {0, started}
MappingInv ==
  ~overlap =>
    /\ mapper # "off" => session = started
    /\ OfThisMapping(live.data) /\ OfThisMapping(incoming) /\ OfThisMapping(queued)
    /\ OfThisMapping(job.got.data) /\ OfThisMapping(sentLive.data)

RealtimeInv == RealtimeTypes /\ MappingInv

realtimeVars == <<live, incoming, queued, sentLive, started, session, mapper, overlap,
                  job.got.data>>

LEMMA RealtimeInit == Init => RealtimeInv
  BY SMT DEF Init, Memory, Cleared, NoMap, NothingSent, Idle, RealtimeInv, RealtimeTypes,
     MappingInv, OfThisMapping, Messages, Taken

(* What leaves the realtime map, its mapping and what was sent alone.      *)
LEMMA RealtimeUnchanged ==
  ASSUME RealtimeInv, UNCHANGED realtimeVars
  PROVE  RealtimeInv'
  BY SMT DEF realtimeVars, RealtimeInv, RealtimeTypes, MappingInv, OfThisMapping

(* A callback that exchanges the points changes at most the points of the  *)
(* copy that is being made.                                                *)
LEMMA CopyOverwritten ==
  ASSUME RealtimeTypes, JobTypes, MapCallbackEnds
  PROVE  /\ JobTypes'
         /\ \A field \in {"step", "kind", "place", "ok", "taken"} : job'[field] = job[field]
         /\ job'.got.data.session \in
              {0, live.data.session, incoming.session, job.got.data.session}
<1>1. CASE UNCHANGED job
  BY <1>1, SMT DEF JobTypes
<1>2. ASSUME NEW points \in Overwritten(live.data, incoming),
             job' = [job EXCEPT !.got.data = points]
      PROVE  /\ JobTypes'
             /\ \A field \in {"step", "kind", "place", "ok", "taken"} :
                  job'[field] = job[field]
             /\ job'.got.data.session \in {0, live.data.session, incoming.session}
  <2>1. points \in Messages /\ points.session \in {0, live.data.session, incoming.session}
    BY <1>2, SMT DEF Overwritten, RealtimeTypes, Messages
  <2>2. job'.got \in Taken /\ job'.got.data = points
    BY <1>2, <2>1, SMT DEF JobTypes, Taken
  <2>3. /\ DOMAIN job' = DOMAIN job
        /\ \A field \in {"step", "kind", "place", "ok", "taken"} : job'[field] = job[field]
    BY <1>2, SMT DEF JobTypes
  <2>4. QED
    BY <2>1, <2>2, <2>3, SMT DEF JobTypes
<1>3. QED
  BY <1>1, <1>2, Zenon DEF MapCallbackEnds

LEMMA StateManagerRealtime ==
  ASSUME RealtimeInv, StateManager
  PROVE  RealtimeInv'
<1>1. CASE MapperStarts
  BY <1>1, SMT DEF MapperStarts, memoryVars, historyVars, sentVars, RealtimeInv, RealtimeTypes,
     MappingInv, OfThisMapping
<1>2. CASE MapperPublishes
  BY <1>2, SMT DEF MapperPublishes, outside, others, historyVars, sentVars, RealtimeInv,
     RealtimeTypes, MappingInv, OfThisMapping, Messages
<1>3. CASE MapperStops
  BY <1>3, SMT DEF MapperStops, memoryVars, historyVars, sentVars, RealtimeInv, RealtimeTypes,
     MappingInv, OfThisMapping
<1>4. CASE MapperStores
  BY <1>4, SMT DEF MapperStores, Halves, memoryVars, historyVars, sentVars, RealtimeInv,
     RealtimeTypes, MappingInv, OfThisMapping
<1>5. QED
  BY <1>1, <1>2, <1>3, <1>4 DEF StateManager

LEMMA ExecutorRealtime ==
  ASSUME RealtimeInv, JobTypes, Executor
  PROVE  RealtimeInv'
<1>1. ASSUME NEW state \in {"mapping", "other"}, NodeStateCallback(state)
      PROVE  RealtimeInv'
  BY <1>1, SMT DEF NodeStateCallback, ExecutorUnchanged, outside, others, historyVars, sentVars,
     RealtimeInv, RealtimeTypes, MappingInv, OfThisMapping, NoMap, Messages
<1>2. CASE MapCallback
  BY <1>2, SMT DEF MapCallback, ExecutorUnchanged, outside, others, historyVars, sentVars,
     RealtimeInv, RealtimeTypes, MappingInv, OfThisMapping, NoMap, Messages
<1>3. CASE MapCallbackEnds
  <2>1. /\ DOMAIN live' = {"received", "size", "data"}
        /\ live'.size = live.size /\ live'.data = incoming
    BY <1>3, SMT DEF MapCallbackEnds, RealtimeInv, RealtimeTypes
  <2>2. /\ incoming' = NoMap
        /\ UNCHANGED <<queued, sentLive, started, session, mapper, overlap>>
    BY <1>3 DEF MapCallbackEnds, ExecutorUnchanged, outside, others, historyVars, sentVars
  <2>3. job'.got.data.session \in
          {0, live.data.session, incoming.session, job.got.data.session}
    BY <1>3, CopyOverwritten DEF RealtimeInv
  <2>4. QED
    BY <2>1, <2>2, <2>3, SMT DEF RealtimeInv, RealtimeTypes, MappingInv, OfThisMapping,
       NoMap, Messages
<1>4. QED
  BY <1>1, <1>2, <1>3 DEF Executor

LEMMA StartRealtime ==
  ASSUME RealtimeInv, StartMapping
  PROVE  RealtimeInv'
<1>1. /\ incoming = NoMap /\ incoming' = NoMap /\ live' = Cleared /\ sentLive' = NothingSent
      /\ started' = started + 1 /\ job' = Idle
      /\ UNCHANGED <<queued, mapper, session>>
  BY DEF StartMapping, ClearMapInfo, Unsent
<1>2. RealtimeTypes'
  BY <1>1, SMT DEF RealtimeInv, RealtimeTypes, Cleared, NothingSent, NoMap, Messages, Taken
<1>3. ASSUME ~overlap' PROVE mapper = "off" /\ queued = NoMap
  <2>1. overlap' = (queued # NoMap \/ mapper # "off" \/ session < started)
    BY DEF StartMapping
  <2>2. QED
    BY <1>3, <2>1, Zenon
<1>4. MappingInv'
  BY <1>1, <1>3, SMT DEF MappingInv, OfThisMapping, Cleared, NothingSent, NoMap, Idle
<1>5. QED
  BY <1>2, <1>4 DEF RealtimeInv

LEMMA CopyPointsRealtime ==
  ASSUME RealtimeInv, job.got \in Taken, CopyPoints
  PROVE  RealtimeInv'
<1>1. UNCHANGED <<live, incoming, queued, sentLive, started, session, mapper, overlap>>
  BY DEF CopyPoints, memoryVars, outside, others, historyVars, sentVars
<1>2. job' = [job EXCEPT !.step = "copy", !.got.data = live.data]
  BY DEF CopyPoints
<1>3. job'.got.data = live.data
  BY <1>2, SMT DEF Taken
<1>4. QED
  BY <1>1, <1>3, SMT DEF RealtimeInv, RealtimeTypes, MappingInv, OfThisMapping

LEMMA SendRealtime ==
  ASSUME RealtimeInv, job.got \in Taken, SendRealtimeMap
  PROVE  RealtimeInv'
<1>1. /\ UNCHANGED <<live, incoming, queued, started, session, mapper, overlap>>
      /\ job' = Idle
  BY DEF SendRealtimeMap, memoryVars, outside, others
<1>2. sentLive' \in {sentLive, job.got}
  BY Zenon DEF SendRealtimeMap
<1>3. QED
  BY <1>1, <1>2, SMT DEF RealtimeInv, RealtimeTypes, MappingInv, OfThisMapping, Idle,
     NothingSent, NoMap

(* Requests and jobs leave the realtime map alone and at most forget what  *)
(* was sent before.                                                        *)
LEMMA RequestRealtime ==
  ASSUME RealtimeInv, sentLive' \in {sentLive, NothingSent},
         job'.got \in {job.got, NothingSent},
         UNCHANGED <<live, incoming, queued, started, session, mapper, overlap>>
  PROVE  RealtimeInv'
<1>1. CASE sentLive' = sentLive
  BY <1>1, SMT DEF RealtimeInv, RealtimeTypes, MappingInv, OfThisMapping, NothingSent, NoMap
<1>2. CASE sentLive' = NothingSent
  BY <1>2, SMT DEF RealtimeInv, RealtimeTypes, MappingInv, OfThisMapping,
     NothingSent, NoMap, Messages, Taken
<1>3. QED
  BY <1>1, <1>2

LEMMA RestartRealtime ==
  ASSUME RealtimeInv, ProcessDies \/ PowerLoss
  PROVE  RealtimeInv'
<1>1. /\ live' = Cleared /\ incoming' = NoMap /\ queued' = NoMap /\ sentLive' = NothingSent
      /\ job' = Idle /\ UNCHANGED <<started, overlap>>
  BY Zenon DEF ProcessDies, PowerLoss, Restart, Unsent
<1>2. UNCHANGED <<mapper, session>> \/ (mapper' = "off" /\ session' = started)
  BY Zenon DEF ProcessDies, PowerLoss
<1>3. RealtimeTypes'
  BY <1>1, <1>2, SMT DEF RealtimeInv, RealtimeTypes, Cleared, NothingSent, NoMap, Messages, Taken
<1>4. MappingInv'
  BY <1>1, <1>2, SMT DEF RealtimeInv, MappingInv, OfThisMapping, Cleared,
     NothingSent, NoMap, Idle
<1>5. QED
  BY <1>3, <1>4 DEF RealtimeInv

-----------------------------------------------------------------------------
(* The files and the jobs.                                                 *)
Stores == {"map", "factorymap", "copy", "copyEnc"}

FileTypes ==
  /\ file \in [Places -> [Halves -> Contents]]
  /\ \A p \in Stores : file[p] \in [Halves -> Storable]
  /\ expected \in [Halves -> Storable]
  /\ uploads \in Nat /\ unsynced \subseteq Halves /\ sure \subseteq Halves

LEMMA FilesInit == Init => FileTypes
<1> SUFFICES ASSUME Init PROVE FileTypes
  OBVIOUS
<1>1. PICK m, f \in {None, <<"factory", 0>>} :
        file = [p \in Places |-> IF p = "map" THEN Pair(m)
                                 ELSE IF p = "factorymap" THEN Pair(f) ELSE Pair(None)]
  BY DEF Init
<1>2. \A c \in {None, <<"factory", 0>>} : Pair(c) \in [Halves -> Storable]
  BY SMT DEF Pair, None, Storable
<1>3. None \in {None, <<"factory", 0>>} /\ m \in {None, <<"factory", 0>>}
      /\ f \in {None, <<"factory", 0>>}
  OBVIOUS
<1>4. \A p \in Places : file[p] \in [Halves -> Storable]
  BY <1>1, <1>2, <1>3, Zenon
<1>5. file \in [Places -> [Halves -> Contents]]
  BY <1>1, <1>4, SMT DEF Contents
<1>6. \A p \in Stores : file[p] \in [Halves -> Storable]
  BY <1>4 DEF Stores, Places
<1>7. expected = Pair(None) /\ uploads = 0 /\ unsynced = {} /\ sure = {}
  BY DEF Init
<1>8. QED
  BY <1>2, <1>5, <1>6, <1>7, SMT DEF FileTypes

LEMMA IdleTypes ==
  ASSUME job' = Idle
  PROVE  JobTypes'
  BY SMT DEF Idle, JobTypes, NothingSent, NoMap, Messages, Taken, Pair, None, Contents, Storable

(* What makes a reported copy whole: both halves were decrypted from the   *)
(* same upload, nobody stored a map since, and the report is withdrawn     *)
(* before the next copy touches anything.                                  *)
CopyInv ==
  /\ CopyWhole
  /\ reported # None /\ ~syncFailed => "pgm" \notin unsynced
  /\ \/ file["copyEnc"]["pgm"] = None \/ file["copyEnc"]["yaml"] = None
     \/ file["copyEnc"]["pgm"] = file["copyEnc"]["yaml"]
  /\ job.step \in {"copyPgm", "copyYaml"} /\ job.place = "copy" =>
       file["copy"]["pgm"] = file["copy"]["yaml"]
  /\ job.step = "copyYaml" => reported = None
  /\ job.step = "copyYaml" /\ job.place = "copy" /\ ~raced =>
       /\ file["map"]["pgm"] = file["copy"]["pgm"]
       /\ ~syncFailed => "pgm" \notin unsynced

(* What is sent was the stored pair when the job began: until somebody     *)
(* stores another one it still is, and so is the half taken first.         *)
SentInv ==
  /\ StoredMapSent
  /\ job.step \in {"pgm", "yaml"} /\ ~raced => file[job.place] = expected
  /\ job.step = "yaml" /\ job.ok /\ ~raced => job.taken["pgm"] = expected["pgm"]

StoreInv == FileTypes /\ JobTypes /\ CopyInv /\ SentInv

storeVars == <<file, unsynced, job, uploads, raced, expected, sentStored, reported, sure,
               syncFailed>>

LEMMA StoreUnchanged ==
  ASSUME StoreInv, UNCHANGED storeVars
  PROVE  StoreInv'
<1>1. FileTypes' /\ JobTypes'
  BY SMT DEF StoreInv, storeVars, FileTypes, JobTypes
<1>2. CopyInv'
  BY SMT DEF StoreInv, storeVars, CopyInv, CopyWhole
<1>3. SentInv'
  BY SMT DEF StoreInv, storeVars, SentInv, StoredMapSent
<1>4. QED
  BY <1>1, <1>2, <1>3 DEF StoreInv

LEMMA StorableNotLive == \A c \in Storable : c[1] # "live"
  BY SMT DEF Storable

LEMMA StoreInit == Init => StoreInv
<1> SUFFICES ASSUME Init PROVE StoreInv
  OBVIOUS
<1>1. /\ job = Idle /\ reported = None /\ sentStored = Pair(None)
      /\ file["copyEnc"] = Pair(None)
  BY SMT DEF Init, Memory, Places
<1>2. JobTypes
  BY <1>1, SMT DEF Idle, JobTypes, NothingSent, NoMap, Messages, Taken, Pair, None,
     Contents, Storable
<1>3. CopyInv
  BY <1>1, SMT DEF CopyInv, CopyWhole, Idle, Pair, Halves
<1>4. SentInv
  BY <1>1, SMT DEF SentInv, StoredMapSent, Idle
<1>5. QED
  BY <1>2, <1>3, <1>4, FilesInit DEF StoreInv

LEMMA MapperStoresKeeps ==
  ASSUME StoreInv, RealtimeTypes, MapperStores
  PROVE  StoreInv'
<1>1. /\ file' = [file EXCEPT !["map"][mapper] = <<"session", session>>] /\ mapper \in Halves
      /\ unsynced' = unsynced \cup {mapper} /\ reported' = None
      /\ UNCHANGED <<job, uploads, expected, sentStored, sure, syncFailed>>
  BY DEF MapperStores, sentVars
<1>2. raced' <=> raced \/ job # Idle
  BY Zenon DEF MapperStores
<1>3. <<"session", session>> \in Storable
  BY SMT DEF RealtimeTypes, Storable
<1>4. FileTypes'
  BY <1>1, <1>3, SMT DEF StoreInv, FileTypes, Contents, Places, Stores
<1>5. JobTypes'
  BY <1>1, SMT DEF StoreInv, JobTypes
<1>6. CopyInv'
  <2>1. job.step = "copyYaml" => raced'
    BY <1>2, SMT DEF Idle
  <2>2. file'["copyEnc"] = file["copyEnc"] /\ file'["copy"] = file["copy"]
    BY <1>1, SMT DEF StoreInv, FileTypes, Places
  <2>3. QED
    BY <1>1, <2>1, <2>2, SMT DEF StoreInv, CopyInv, CopyWhole
<1>7. SentInv'
  <2>1. job.step \in {"pgm", "yaml"} => raced'
    BY <1>2, SMT DEF Idle
  <2>2. raced => raced'
    BY <1>2
  <2>3. QED
    BY <1>1, <2>1, <2>2, SMT DEF StoreInv, SentInv, StoredMapSent
<1>8. QED
  BY <1>4, <1>5, <1>6, <1>7 DEF StoreInv

LEMMA UploadKeeps ==
  ASSUME StoreInv, Upload
  PROVE  StoreInv'
<1>1. /\ file' = [file EXCEPT !["copyEnc"] = Pair(<<"upload", uploads + 1>>)]
      /\ uploads' = uploads + 1 /\ job.step \notin {"decrypt", "copyPgm", "copyYaml"}
      /\ UNCHANGED <<unsynced, job, raced, expected, sentStored, reported, sure, syncFailed>>
  BY DEF Upload, historyVars, sentVars, copyVars
<1>2. Pair(<<"upload", uploads + 1>>) \in [Halves -> Storable]
  BY SMT DEF StoreInv, FileTypes, Pair, Storable
<1>3. FileTypes'
  BY <1>1, <1>2, SMT DEF StoreInv, FileTypes, Contents, Places, Stores
<1>4. JobTypes'
  BY <1>1, SMT DEF StoreInv, JobTypes
<1>5. /\ \A p \in Places \ {"copyEnc"} : file'[p] = file[p]
      /\ file'["copyEnc"]["pgm"] = file'["copyEnc"]["yaml"]
  BY <1>1, SMT DEF StoreInv, FileTypes, Places, Pair, Halves
<1>6. CopyInv'
  BY <1>1, <1>5, SMT DEF StoreInv, CopyInv, CopyWhole, Places
<1>7. SentInv'
  BY <1>1, <1>5, SMT DEF StoreInv, SentInv, StoredMapSent, JobTypes, Places
<1>8. QED
  BY <1>3, <1>4, <1>6, <1>7 DEF StoreInv

(* A job begins: nothing has been sent or taken yet.                       *)
LEMMA BeginKeeps ==
  ASSUME StoreInv, NEW step, NEW k, NEW p \in {"map", "factorymap", "copy"},
         Begin(step, k, p), UNCHANGED <<file, unsynced, uploads, copyVars>>,
         \/ step \in {"size", "decrypt"} /\ expected' \in {expected, file[p]}
         \/ step = "pgm" /\ p # "copy" /\ expected' = file[p]
         \/ step = "copyPgm" /\ p # "copy" /\ expected' = expected
  PROVE  StoreInv'
<1>1. /\ job' = [Idle EXCEPT !.step = step, !.kind = k, !.place = p]
      /\ raced' = FALSE /\ sentStored' = Pair(None)
      /\ UNCHANGED <<file, unsynced, uploads, reported, sure, syncFailed>>
  BY DEF Begin, Unsent, copyVars
<1>2. job'.step = step /\ job'.place = p
  BY <1>1, SMT DEF Idle
<1>3. FileTypes'
  BY <1>1, SMT DEF StoreInv, FileTypes, Stores
<1>4. JobTypes'
  BY <1>1, SMT DEF Idle, JobTypes, NothingSent, NoMap, Messages, Taken, Pair, None,
     Contents, Storable
<1>5. CopyInv'
  BY <1>1, <1>2, SMT DEF StoreInv, CopyInv, CopyWhole
<1>6. SentInv'
  BY <1>1, <1>2, SMT DEF SentInv, StoredMapSent
<1>7. QED
  BY <1>3, <1>4, <1>5, <1>6 DEF StoreInv

LEMMA RequestKeeps ==
  ASSUME StoreInv, NEW k \in {"map", "enc", "modified"}, Request(k)
  PROVE  StoreInv'
<1>1. UNCHANGED <<file, unsynced, uploads, copyVars>> /\ expected' = file[job'.place]
  BY DEF Request, others
<1>2. CASE Begin("size", k, "map")
  <2>1. job'.place = "map"
    BY <1>2, SMT DEF Begin, Idle
  <2>2. QED
    BY <1>1, <1>2, <2>1, BeginKeeps
<1>3. ASSUME NEW p \in {"map", "factorymap"}, Begin("pgm", k, p)
      PROVE  StoreInv'
  <2>1. job'.place = p
    BY <1>3, SMT DEF Begin, Idle
  <2>2. QED
    BY <1>1, <1>3, <2>1, BeginKeeps
<1>4. QED
  BY <1>2, <1>3, Zenon DEF Request

LEMMA CopyBegins ==
  ASSUME StoreInv, MapCopyAlarm \/ StartFactoryMode
  PROVE  StoreInv'
<1>1. UNCHANGED <<file, unsynced, uploads, copyVars>> /\ expected' = expected
  BY DEF MapCopyAlarm, StartFactoryMode, Replacing, others
<1>2. \/ Begin("decrypt", "map", "copy") \/ Begin("copyPgm", "map", "factorymap")
  BY DEF MapCopyAlarm, StartFactoryMode
<1>3. QED
  BY <1>1, <1>2, BeginKeeps

(* A job ends, or goes on with what concerns the realtime map.             *)
LEMMA CopySizeKeeps ==
  ASSUME StoreInv, RealtimeTypes, CopySize
  PROVE  StoreInv'
<1>1. /\ job.step = "size"
      /\ job' = [job EXCEPT !.step = "points", !.got.size = live.size, !.ok = live.received]
      /\ UNCHANGED <<file, unsynced, uploads, raced, expected, sentStored,
                     reported, sure, syncFailed>>
  BY DEF CopySize, outside, others, historyVars, sentVars, copyVars
<1>2. JobTypes' /\ job'.step = "points"
  BY <1>1, SMT DEF StoreInv, JobTypes, RealtimeTypes, Taken
<1>3. FileTypes'
  BY <1>1, SMT DEF StoreInv, FileTypes
<1>4. CopyInv' /\ SentInv'
  BY <1>1, <1>2, SMT DEF StoreInv, CopyInv, CopyWhole, SentInv, StoredMapSent
<1>5. QED
  BY <1>2, <1>3, <1>4 DEF StoreInv

LEMMA CopyPointsKeeps ==
  ASSUME StoreInv, RealtimeTypes, CopyPoints
  PROVE  StoreInv'
<1>1. /\ job.step = "points"
      /\ job' = [job EXCEPT !.step = "copy", !.got.data = live.data]
      /\ UNCHANGED <<file, unsynced, uploads, raced, expected, sentStored,
                     reported, sure, syncFailed>>
  BY DEF CopyPoints, outside, others, historyVars, sentVars, copyVars
<1>2. JobTypes' /\ job'.step = "copy"
  BY <1>1, SMT DEF StoreInv, JobTypes, RealtimeTypes, Taken
<1>3. FileTypes'
  BY <1>1, SMT DEF StoreInv, FileTypes
<1>4. CopyInv' /\ SentInv'
  BY <1>1, <1>2, SMT DEF StoreInv, CopyInv, CopyWhole, SentInv, StoredMapSent
<1>5. QED
  BY <1>2, <1>3, <1>4 DEF StoreInv

LEMMA ExecutorKeeps ==
  ASSUME StoreInv, RealtimeTypes, Executor
  PROVE  StoreInv'
<1>1. UNCHANGED <<file, unsynced, uploads, raced, expected, sentStored, reported, sure,
                  syncFailed>>
  BY DEF Executor, NodeStateCallback, MapCallback, MapCallbackEnds, ExecutorUnchanged,
     historyVars, sentVars, copyVars, outside, others
<1>2. CASE UNCHANGED job
  BY <1>1, <1>2, StoreUnchanged DEF storeVars
<1>3. CASE MapCallbackEnds
  <2>1. /\ JobTypes'
        /\ \A field \in {"step", "kind", "place", "ok", "taken"} : job'[field] = job[field]
    BY <1>3, CopyOverwritten DEF StoreInv
  <2>2. FileTypes'
    BY <1>1, SMT DEF StoreInv, FileTypes
  <2>3. CopyInv' /\ SentInv'
    BY <1>1, <2>1, SMT DEF StoreInv, CopyInv, CopyWhole, SentInv, StoredMapSent
  <2>4. QED
    BY <2>1, <2>2, <2>3 DEF StoreInv
<1>4. QED
  BY <1>2, <1>3 DEF Executor, NodeStateCallback, MapCallback

(* Where a job is over, what matters is only what it did to the files that *)
(* are not the stored map.                                                 *)
LEMMA JobOver ==
  ASSUME StoreInv, job' = Idle, FileTypes',
         \A p \in Stores : file'[p] = file[p],
         sentStored' = sentStored,
         UNCHANGED <<unsynced, raced, expected, reported, sure, syncFailed>>
  PROVE  StoreInv'
<1>1. job'.step = "idle"
  BY SMT DEF Idle
<1>2. CopyInv' /\ SentInv'
  BY <1>1, SMT DEF StoreInv, CopyInv, CopyWhole, SentInv, StoredMapSent, Stores
<1>3. QED
  BY <1>2, IdleTypes DEF StoreInv

LEMMA SendRealtimeMapKeeps ==
  ASSUME StoreInv, RealtimeTypes, SendRealtimeMap
  PROVE  StoreInv'
<1>1. /\ job' = Idle /\ sentStored' = sentStored
      /\ UNCHANGED <<unsynced, uploads, raced, expected, reported, sure, syncFailed>>
  BY DEF SendRealtimeMap, outside, others, copyVars
<1> DEFINE content == <<"live", job.got.data.session>>
           written(saved) == [h \in Halves |-> IF h \in saved THEN content ELSE file["tempmap"][h]]
<1>2. \/ UNCHANGED file
      \/ \E saved \in SUBSET Halves : file' = [file EXCEPT !["tempmap"] = written(saved)]
  BY Zenon DEF SendRealtimeMap, TempPlace
<1>3. content \in Contents
  BY SMT DEF StoreInv, JobTypes, Taken, Messages, Contents
<1> HIDE DEF content
<1>4. CASE UNCHANGED file
  BY <1>1, <1>4, JobOver, SMT DEF StoreInv, FileTypes
<1>5. ASSUME NEW saved \in SUBSET Halves, file' = [file EXCEPT !["tempmap"] = written(saved)]
      PROVE  StoreInv'
  <2>1. written(saved) \in [Halves -> Contents]
    BY <1>3, SMT DEF StoreInv, FileTypes, Places
  <2>2. /\ file' \in [Places -> [Halves -> Contents]]
        /\ \A p \in Stores : file'[p] = file[p]
    BY <1>5, <2>1, SMT DEF StoreInv, FileTypes, Places, Stores
  <2>3. FileTypes'
    BY <1>1, <2>2, SMT DEF StoreInv, FileTypes
  <2>4. QED
    BY <1>1, <2>2, <2>3, JobOver
<1>6. QED
  BY <1>2, <1>4, <1>5

LEMMA TakeHalfKeeps ==
  ASSUME StoreInv, NEW h \in Halves, TakeHalf(h)
  PROVE  StoreInv'
<1> DEFINE half == IF Encrypting THEN Encrypted(h) ELSE Stored(h)
<1>1. /\ job.step = h
      /\ UNCHANGED <<unsynced, uploads, raced, expected, reported, sure, syncFailed>>
  BY DEF TakeHalf, outside, others, copyVars
<1>2. PICK done \in Takes(h) :
        LET after == [job EXCEPT !.step = "yaml", !.ok = @ /\ done,
                                 !.taken[h] = IF done THEN half ELSE @] IN
        /\ file' = IF done /\ Encrypting
                   THEN [file EXCEPT ![EncOf(job.place)][h] = half] ELSE file
        /\ job' = IF h = "pgm" /\ (Encrypting \/ done) THEN after ELSE Idle
        /\ sentStored' = IF h = "yaml" /\ after.ok THEN after.taken ELSE sentStored
  BY Zenon DEF TakeHalf
<1> DEFINE after == [job EXCEPT !.step = "yaml", !.ok = @ /\ done,
                                !.taken[h] = IF done THEN half ELSE @]
<1>3. /\ half = file[job.place][h] /\ half \in Storable
      /\ job.place \in {"map", "factorymap"}
  BY <1>1, SMT DEF Encrypted, Stored, StoreInv, FileTypes, JobTypes, Halves, Stores
<1> HIDE DEF half
<1>4. /\ DOMAIN after = {"step", "kind", "place", "ok", "got", "taken"}
      /\ after.got = job.got /\ after.place = job.place /\ after.step = "yaml"
      /\ after.taken = [job.taken EXCEPT ![h] = IF done THEN half ELSE @]
  BY SMT DEF StoreInv, JobTypes
<1>5. after.ok <=> job.ok /\ done
  BY Zenon DEF StoreInv, JobTypes
<1> HIDE DEF after
<1>6. job' = after \/ job' = Idle
  BY <1>2 DEF after
<1>7. /\ \A p \in Stores : file'[p] = file[p]
      /\ file' \in [Places -> [Halves -> Contents]]
  BY <1>2, <1>3, SMT DEF EncOf, StoreInv, FileTypes, Places, Stores, Contents
<1>8. FileTypes'
  BY <1>1, <1>7, SMT DEF StoreInv, FileTypes
<1>9. JobTypes'
  <2>1. CASE job' = after
    BY <2>1, <1>3, <1>4, SMT DEF StoreInv, JobTypes, Contents
  <2>2. QED
    BY <2>1, <1>6, IdleTypes
<1>10. job'.step \in {"idle", "yaml"}
  BY <1>4, <1>6, SMT DEF Idle
<1>11. CopyInv'
  BY <1>1, <1>7, <1>10, SMT DEF StoreInv, CopyInv, CopyWhole, Stores
<1>12. SentInv'
  <2>1. ASSUME job'.step = "yaml", ~raced'
        PROVE  /\ file'[job'.place] = expected'
               /\ job'.ok => job'.taken["pgm"] = expected'["pgm"]
    <3>1. job' = after /\ h = "pgm"
      BY <1>2, <2>1, SMT DEF Idle, after
    <3>2. QED
      BY <1>1, <1>3, <1>4, <1>5, <1>7, <2>1, <3>1, SMT
         DEF StoreInv, SentInv, JobTypes, Stores, Halves
  <2>2. StoredMapSent'
    <3>1. CASE h = "yaml" /\ after.ok
      <4>1. sentStored' = after.taken /\ job.ok /\ done
        BY <1>2, <1>5, <3>1 DEF after
      <4>2. ASSUME ~raced' PROVE after.taken = expected
        <5>1. /\ after.taken \in [Halves -> Contents]
              /\ after.taken["pgm"] = job.taken["pgm"] /\ after.taken["yaml"] = half
          BY <1>3, <1>4, <3>1, <4>1, SMT DEF StoreInv, JobTypes, Halves, Contents
        <5>2. job.taken["pgm"] = expected["pgm"] /\ half = expected["yaml"]
          BY <1>1, <1>3, <3>1, <4>1, <4>2, SMT DEF StoreInv, SentInv
        <5>3. QED
          BY <5>1, <5>2, SMT DEF StoreInv, FileTypes, Halves
      <4>3. QED
        BY <1>1, <4>1, <4>2, StorableNotLive, SMT DEF StoredMapSent, StoreInv, FileTypes
    <3>2. CASE ~(h = "yaml" /\ after.ok)
      <4>1. sentStored' = sentStored
        BY <1>2, <3>2 DEF after
      <4>2. QED
        BY <1>1, <4>1 DEF StoreInv, SentInv, StoredMapSent
    <3>3. QED
      BY <3>1, <3>2
  <2>3. QED
    BY <1>10, <2>1, <2>2, SMT DEF SentInv
<1>13. QED
  BY <1>8, <1>9, <1>11, <1>12 DEF StoreInv

LEMMA SetModifiedMapKeeps ==
  ASSUME StoreInv, SetModifiedMap
  PROVE  StoreInv'
<1>1. PICK half \in {<<"edited", 0>>, Broken} : file' = [file EXCEPT !["map"].pgm = half]
  BY DEF SetModifiedMap
<1>2. /\ job = Idle /\ sentStored' = Pair(None) /\ reported' = None
      /\ unsynced' = unsynced \cup {"pgm"}
      /\ UNCHANGED <<job, uploads, raced, expected, sure, syncFailed>>
  BY DEF SetModifiedMap, Replacing, others, Unsent
<1>3. half \in Storable
  BY SMT DEF Storable, Broken
<1>4. /\ FileTypes'
      /\ \A p \in Places \ {"map"} : file'[p] = file[p]
  BY <1>1, <1>2, <1>3, SMT DEF StoreInv, FileTypes, Places, Stores, Halves, Contents
<1>5. JobTypes'
  BY <1>2, SMT DEF StoreInv, JobTypes
<1>6. CopyInv'
  BY <1>2, <1>4, SMT DEF StoreInv, CopyInv, CopyWhole, Places, Idle
<1>7. SentInv'
  BY <1>2, SMT DEF SentInv, StoredMapSent, Idle
<1>8. QED
  BY <1>4, <1>5, <1>6, <1>7 DEF StoreInv

(* A job goes on to its next step.                                         *)
LEMMA ThenTypes ==
  ASSUME JobTypes, NEW step \in {"copyPgm", "copyYaml"}, Then(step)
  PROVE  /\ JobTypes' /\ job'.step = step /\ job'.place = job.place /\ job'.got = job.got
  BY SMT DEF Then, JobTypes

LEMMA DecryptKeeps ==
  ASSUME StoreInv, Decrypt
  PROVE  StoreInv'
<1>1. PICK done \in SUBSET {h \in Halves : file["copyEnc"][h] # None} :
        /\ file' = [file EXCEPT
             !["copy"] = [h \in Halves |-> IF h \in done THEN file["copyEnc"][h] ELSE @[h]],
             !["copyEnc"] = [h \in Halves |-> IF h \in done THEN None ELSE @[h]]]
        /\ IF done = Halves THEN Then("copyPgm") ELSE job' = Idle
  BY DEF Decrypt
<1>2. UNCHANGED <<uploads, expected, unsynced, raced, sentStored, reported, sure, syncFailed>>
  BY DEF Decrypt, Replacing, others, sentVars, copyVars
<1>3. None \in Storable
  BY SMT DEF None, Storable
<1>4. /\ file'["copy"] = [h \in Halves |-> IF h \in done THEN file["copyEnc"][h]
                                        ELSE file["copy"][h]]
      /\ file'["copyEnc"] = [h \in Halves |-> IF h \in done THEN None ELSE file["copyEnc"][h]]
      /\ \A p \in Places \ {"copy", "copyEnc"} : file'[p] = file[p]
      /\ DOMAIN file' = Places /\ file' = [p \in Places |-> file'[p]]
  <2> DEFINE plain == [h \in Halves |-> IF h \in done THEN file["copyEnc"][h] ELSE file["copy"][h]]
             left == [h \in Halves |-> IF h \in done THEN None ELSE file["copyEnc"][h]]
  <2>1. file' = [file EXCEPT !["copy"] = plain, !["copyEnc"] = left]
    BY <1>1, Zenon
  <2> HIDE DEF plain, left
  <2>2. /\ file'["copy"] = plain /\ file'["copyEnc"] = left
        /\ \A p \in Places \ {"copy", "copyEnc"} : file'[p] = file[p]
        /\ DOMAIN file' = Places /\ file' = [p \in Places |-> file'[p]]
    <3>1. file \in [Places -> [Halves -> Contents]]
      BY DEF StoreInv, FileTypes
    <3>2. file' = [p \in Places |-> IF p = "copyEnc" THEN left
                                    ELSE IF p = "copy" THEN plain ELSE file[p]]
      BY <2>1, <3>1, Zenon DEF Places
    <3>3. QED
      BY <3>2, Zenon DEF Places
  <2>3. QED
    BY <2>2 DEF plain, left
<1>5. \A p \in {"copy", "copyEnc"} : file'[p] \in [Halves -> Storable]
  BY <1>3, <1>4, SMT DEF StoreInv, FileTypes, Stores
<1>6. FileTypes'
  <2>1. \A p \in Places : file'[p] \in [Halves -> Contents]
    BY <1>4, <1>5, SMT DEF StoreInv, FileTypes, Contents
  <2>2. file' \in [Places -> [Halves -> Contents]]
    BY <1>4, <2>1
  <2>3. \A p \in Stores : file'[p] \in [Halves -> Storable]
    BY <1>4, <1>5, SMT DEF StoreInv, FileTypes, Stores, Places
  <2>4. QED
    BY <1>2, <2>2, <2>3, SMT DEF StoreInv, FileTypes
<1>7. CASE done = Halves
  <2>1. JobTypes' /\ job'.step = "copyPgm" /\ job'.place = job.place
    BY <1>1, <1>7, ThenTypes DEF StoreInv
  <2>2. file'["copy"]["pgm"] = file'["copy"]["yaml"]
    BY <1>1, <1>4, <1>7, SMT DEF StoreInv, CopyInv, Halves
  <2>3. CopyInv'
    BY <1>2, <1>3, <1>4, <1>7, <2>1, <2>2, SMT DEF StoreInv, CopyInv, CopyWhole, Places, Halves
  <2>4. SentInv'
    BY <1>2, <2>1, SMT DEF StoreInv, SentInv, StoredMapSent
  <2>5. QED
    BY <1>6, <2>1, <2>3, <2>4 DEF StoreInv
<1>8. CASE done # Halves
  <2>1. job' = Idle /\ job'.step = "idle"
    BY <1>1, <1>8, SMT DEF Idle
  <2>2. \/ file'["copyEnc"]["pgm"] = None \/ file'["copyEnc"]["yaml"] = None
        \/ file'["copyEnc"]["pgm"] = file'["copyEnc"]["yaml"]
    BY <1>4, SMT DEF StoreInv, CopyInv, Halves
  <2>3. CopyInv'
    BY <1>2, <1>4, <2>1, <2>2, SMT DEF StoreInv, CopyInv, CopyWhole, Places
  <2>4. SentInv'
    BY <1>2, <2>1, SMT DEF StoreInv, SentInv, StoredMapSent
  <2>5. QED
    BY <1>6, <2>1, <2>3, <2>4, IdleTypes DEF StoreInv
<1>9. QED
  BY <1>7, <1>8

LEMMA CopyPgmKeeps ==
  ASSUME StoreInv, CopyPgm
  PROVE  StoreInv'
<1>1. /\ job.step = "copyPgm" /\ reported' = None
      /\ UNCHANGED <<uploads, expected, raced, sentStored, sure>>
  BY DEF CopyPgm, Replacing, others, sentVars
<1>2. ASSUME NEW half \in Storable, file' = [file EXCEPT !["map"].pgm = half],
             unsynced' \subseteq Halves
      PROVE  /\ FileTypes'
             /\ \A p \in Places \ {"map"} : file'[p] = file[p]
             /\ file'["map"]["pgm"] = half
  BY <1>1, <1>2, SMT DEF StoreInv, FileTypes, Places, Stores, Halves, Contents
<1>3. ASSUME Stored("pgm") # None, file' = [file EXCEPT !["map"].pgm = Stored("pgm")],
             NEW synced \in BOOLEAN,
             unsynced' = SyncAfterCopy(synced), syncFailed' = ~synced, Then("copyYaml")
      PROVE  StoreInv'
  <2>1. Stored("pgm") \in Storable /\ Stored("pgm") = file[job.place]["pgm"]
    BY SMT DEF Stored, StoreInv, FileTypes, JobTypes, Stores, Halves
  <2>2. /\ unsynced' \subseteq Halves
        /\ ~syncFailed' => "pgm" \notin unsynced'
    <3>1. CASE synced
      BY <1>3, <3>1, SMT DEF SyncAfterCopy, StoreInv, FileTypes
    <3>2. CASE ~synced
      <4>1. syncFailed'
        BY <1>3, <3>2, Zenon
      <4>2. QED
        BY <1>3, <3>2, <4>1, SMT DEF SyncAfterCopy, StoreInv, FileTypes, Halves
    <3>3. QED
      BY <3>1, <3>2
  <2>3. /\ FileTypes'
        /\ \A p \in Places \ {"map"} : file'[p] = file[p]
        /\ file'["map"]["pgm"] = file[job.place]["pgm"]
    BY <1>2, <1>3, <2>1, <2>2
  <2>4. JobTypes' /\ job'.step = "copyYaml" /\ job'.place = job.place
    BY <1>3, ThenTypes DEF StoreInv
  <2>5. CopyInv'
    BY <1>1, <2>2, <2>3, <2>4, SMT DEF StoreInv, CopyInv, CopyWhole, Places
  <2>6. SentInv'
    BY <1>1, <2>4, SMT DEF StoreInv, SentInv, StoredMapSent
  <2>7. QED
    BY <2>3, <2>4, <2>5, <2>6 DEF StoreInv
<1>4. ASSUME NEW half \in {file["map"].pgm, Broken}, file' = [file EXCEPT !["map"].pgm = half],
             unsynced' = unsynced \cup {"pgm"}, job' = Idle, UNCHANGED syncFailed
      PROVE  StoreInv'
  <2>1. half \in Storable /\ unsynced' \subseteq Halves
    BY <1>4, SMT DEF Broken, Storable, StoreInv, FileTypes, Stores, Halves
  <2>2. FileTypes' /\ \A p \in Places \ {"map"} : file'[p] = file[p]
    BY <1>2, <1>4, <2>1
  <2>3. job'.step = "idle"
    BY <1>4, SMT DEF Idle
  <2>4. CopyInv'
    BY <1>1, <2>2, <2>3, SMT DEF StoreInv, CopyInv, CopyWhole, Places
  <2>5. SentInv'
    BY <1>1, <2>3, SMT DEF StoreInv, SentInv, StoredMapSent
  <2>6. QED
    BY <1>4, <2>2, <2>4, <2>5, IdleTypes DEF StoreInv
<1>5. QED
  BY <1>3, <1>4, Zenon DEF CopyPgm

LEMMA CopyYamlKeeps ==
  ASSUME StoreInv, CopyYaml
  PROVE  StoreInv'
<1>1. /\ job.step = "copyYaml" /\ job' = Idle /\ job'.step = "idle"
      /\ UNCHANGED <<uploads, expected, raced, sentStored, syncFailed>>
  BY SMT DEF CopyYaml, Idle, Replacing, others, sentVars
<1>2. JobTypes'
  BY <1>1, IdleTypes
<1>3. SentInv'
  BY <1>1, SMT DEF StoreInv, SentInv, StoredMapSent
<1>4. CASE UNCHANGED <<file, unsynced, reported, sure>>
  <2>1. FileTypes'
    BY <1>1, <1>4, SMT DEF StoreInv, FileTypes
  <2>2. CopyInv'
    BY <1>1, <1>4, SMT DEF StoreInv, CopyInv, CopyWhole
  <2>3. QED
    BY <1>2, <1>3, <2>1, <2>2 DEF StoreInv
<1>5. ASSUME NEW half \in {Stored("yaml"), Broken}, unsynced' = unsynced \cup {"yaml"},
             LET new == [file EXCEPT !["map"].yaml = half] IN
             IF job.place = "copy"
             THEN /\ file' = [new EXCEPT !["mapEnc"] = Pair(None)]
                  /\ reported' = IF raced THEN None ELSE file["copy"].pgm
                  /\ sure' = IF half = Broken THEN {"pgm"} ELSE Halves
             ELSE file' = new /\ UNCHANGED <<reported, sure>>
      PROVE  StoreInv'
  <2> DEFINE new == [file EXCEPT !["map"].yaml = half]
  <2>1. half \in Storable /\ Stored("yaml") = file[job.place]["yaml"]
    BY SMT DEF Stored, Broken, Storable, StoreInv, FileTypes, JobTypes, Stores, Halves
  <2>2. /\ new \in [Places -> [Halves -> Contents]]
        /\ \A p \in Stores : new[p] \in [Halves -> Storable]
        /\ \A p \in Places \ {"map"} : new[p] = file[p]
        /\ new["map"]["yaml"] = half /\ new["map"]["pgm"] = file["map"]["pgm"]
    BY <2>1, SMT DEF StoreInv, FileTypes, Places, Stores, Halves, Contents
  <2> HIDE DEF new
  <2>3. CASE job.place = "copy"
    <3>1. /\ file' = [new EXCEPT !["mapEnc"] = Pair(None)]
          /\ reported' = IF raced THEN None ELSE file["copy"].pgm
          /\ sure' = IF half = Broken THEN {"pgm"} ELSE Halves
      BY <1>5, <2>3 DEF new
    <3>2. Pair(None) \in [Halves -> Contents]
      BY SMT DEF Pair, None, Contents, Storable
    <3>3. /\ file' \in [Places -> [Halves -> Contents]]
          /\ \A p \in Stores : file'[p] = new[p]
      BY <2>2, <3>1, <3>2, SMT DEF Places, Stores
    <3>4. FileTypes'
      BY <1>1, <1>5, <2>2, <3>1, <3>3, SMT DEF StoreInv, FileTypes, Halves
    <3>5. CopyWhole'
      <4>1. ASSUME ~raced PROVE \A h \in sure' : file'["map"][h] = file["copy"]["pgm"]
        BY <1>1, <2>1, <2>2, <2>3, <3>1, <3>3, <4>1, SMT DEF StoreInv, CopyInv, Halves, Stores
      <4>2. QED
        BY <3>1, <4>1 DEF CopyWhole
    <3>6. CopyInv'
      BY <1>1, <1>5, <2>2, <2>3, <3>1, <3>3, <3>5, SMT DEF StoreInv, CopyInv, Stores, Places
    <3>7. QED
      BY <1>2, <1>3, <3>4, <3>6 DEF StoreInv
  <2>4. CASE job.place # "copy"
    <3>1. file' = new /\ UNCHANGED <<reported, sure>>
      BY <1>5, <2>4 DEF new
    <3>2. FileTypes'
      BY <1>1, <1>5, <2>2, <3>1, SMT DEF StoreInv, FileTypes, Halves
    <3>3. CopyInv'
      BY <1>1, <1>5, <2>2, <3>1, SMT DEF StoreInv, CopyInv, CopyWhole, Places
    <3>4. QED
      BY <1>2, <1>3, <3>2, <3>3 DEF StoreInv
  <2>5. QED
    BY <2>3, <2>4
<1>6. QED
  BY <1>4, <1>5, Zenon DEF CopyYaml

LEMMA RestartKeeps ==
  ASSUME StoreInv, ProcessDies \/ PowerLoss
  PROVE  StoreInv'
<1>1. /\ job' = Idle /\ job'.step = "idle" /\ sentStored' = Pair(None)
      /\ reported' = IF BeingWritten = {} THEN reported ELSE None
      /\ UNCHANGED <<uploads, raced, expected, syncFailed>>
  BY SMT DEF ProcessDies, PowerLoss, Restart, Unsent, Idle
<1>2. PICK gone \in SUBSET (unsynced \cup BeingWritten) :
        /\ file' = [file EXCEPT !["map"] = [h \in Halves |-> IF h \in gone THEN Broken ELSE @[h]]]
        /\ \/ gone \subseteq BeingWritten /\ UNCHANGED <<unsynced, sure>>
           \/ unsynced' = {} /\ sure' = sure \cap (IF syncFailed THEN {} ELSE {"pgm"})
  BY SMT DEF ProcessDies, PowerLoss
<1>3. Broken \in Storable
  BY SMT DEF Broken, Storable
<1>4. /\ file' \in [Places -> [Halves -> Contents]]
      /\ \A p \in Stores : file'[p] \in [Halves -> Storable]
      /\ \A p \in Places \ {"map"} : file'[p] = file[p]
      /\ \A h \in Halves : file'["map"][h] = IF h \in gone THEN Broken ELSE file["map"][h]
  BY <1>2, <1>3, SMT DEF StoreInv, FileTypes, Places, Stores, Contents
<1>5. FileTypes'
  BY <1>1, <1>2, <1>4, SMT DEF StoreInv, FileTypes
<1>6. CopyInv'
  <2>1. CASE BeingWritten # {}
    BY <1>1, <1>4, <2>1, SMT DEF StoreInv, CopyInv, CopyWhole, Places
  <2>2. CASE BeingWritten = {}
    BY <1>1, <1>2, <1>4, <2>2, SMT DEF StoreInv, FileTypes, CopyInv, CopyWhole, Places
  <2>3. QED
    BY <2>1, <2>2
<1>7. SentInv'
  BY <1>1, SMT DEF SentInv, StoredMapSent
<1>8. QED
  BY <1>1, <1>5, <1>6, <1>7, IdleTypes DEF StoreInv

LEMMA StartMappingKeeps ==
  ASSUME StoreInv, StartMapping
  PROVE  StoreInv'
<1>1. /\ sentStored' = Pair(None)
      /\ UNCHANGED <<file, unsynced, job, uploads, raced, expected, reported, sure, syncFailed>>
  BY DEF StartMapping, Unsent, copyVars
<1>2. FileTypes' /\ JobTypes'
  BY <1>1, SMT DEF StoreInv, FileTypes, JobTypes
<1>3. CopyInv' /\ SentInv'
  BY <1>1, SMT DEF StoreInv, CopyInv, CopyWhole, SentInv, StoredMapSent
<1>4. QED
  BY <1>2, <1>3 DEF StoreInv
-----------------------------------------------------------------------------
(* Both halves together: the realtime map and the stored one.              *)
LEMMA BeginGot ==
  ASSUME NEW step, NEW k, NEW p, Begin(step, k, p)
  PROVE  job'.got = NothingSent
  BY SMT DEF Begin, Idle

LEMMA TakeHalfGot ==
  ASSUME JobTypes, NEW h \in Halves, TakeHalf(h)
  PROVE  job'.got \in {job.got, NothingSent}
<1>1. CASE job' = Idle
  BY <1>1, SMT DEF Idle
<1>2. ASSUME NEW done \in Takes(h), NEW half,
             job' = [job EXCEPT !.step = "yaml", !.ok = @ /\ done,
                                !.taken[h] = IF done THEN half ELSE @]
      PROVE  job'.got = job.got
  BY <1>2, SMT DEF JobTypes
<1>3. QED
  BY <1>1, <1>2, Zenon DEF TakeHalf

MapInv == RealtimeInv /\ StoreInv

LEMMA MapInit == Init => MapInv
  BY RealtimeInit, StoreInit DEF MapInv

LEMMA MapStep == MapInv /\ [Next]_vars => MapInv'
<1> SUFFICES ASSUME MapInv, [Next]_vars PROVE MapInv'
  OBVIOUS
<1>1. RealtimeInv /\ RealtimeTypes /\ StoreInv /\ JobTypes /\ job.got \in Taken
  BY DEF MapInv, RealtimeInv, StoreInv, JobTypes
<1>2. CASE StateManager
  <2>1. UNCHANGED storeVars \/ MapperStores
    BY <1>2, SMT DEF StateManager, MapperStarts, MapperPublishes, MapperStops, storeVars,
       historyVars, sentVars, copyVars, outside, others
  <2>2. QED
    BY <1>1, <1>2, <2>1, StateManagerRealtime, StoreUnchanged, MapperStoresKeeps DEF MapInv
<1>3. CASE Upload
  <2>1. UNCHANGED realtimeVars
    BY <1>3 DEF Upload, realtimeVars, memoryVars, historyVars, sentVars
  <2>2. QED
    BY <1>1, <1>3, <2>1, RealtimeUnchanged, UploadKeeps DEF MapInv
<1>4. CASE Executor
  BY <1>1, <1>4, ExecutorRealtime, ExecutorKeeps DEF MapInv
<1>5. CASE UdpThread
  <2>1. CASE StartMapping
    BY <1>1, <2>1, StartRealtime, StartMappingKeeps DEF MapInv
  <2>2. CASE SetSocRobotState
    <3>1. UNCHANGED realtimeVars /\ UNCHANGED storeVars
      BY <2>2 DEF SetSocRobotState, realtimeVars, storeVars, historyVars, sentVars, copyVars,
         outside, others
    <3>2. QED
      BY <1>1, <3>1, RealtimeUnchanged, StoreUnchanged DEF MapInv
  <2>3. ASSUME NEW k \in {"map", "enc", "modified"}, Request(k) PROVE MapInv'
    <3>1. /\ sentLive' = NothingSent
          /\ UNCHANGED <<live, incoming, queued, started, session, mapper, overlap>>
      BY <2>3, Zenon DEF Request, Begin, Unsent, memoryVars, others
    <3>2. job'.got = NothingSent
      BY <2>3, BeginGot DEF Request
    <3>3. QED
      BY <1>1, <2>3, <3>1, <3>2, RequestRealtime, RequestKeeps DEF MapInv
  <2>4. CASE CopySize
    <3>1. /\ UNCHANGED <<live, incoming, queued, sentLive, started, session, mapper, overlap>>
          /\ job' = [job EXCEPT !.step = "points", !.got.size = live.size,
                                !.ok = live.received]
      BY <2>4 DEF CopySize, memoryVars, outside, others, historyVars, sentVars
    <3>2. job'.got.data = job.got.data
      BY <1>1, <3>1, SMT DEF JobTypes, Taken
    <3>3. QED
      BY <1>1, <2>4, <3>1, <3>2, RealtimeUnchanged, CopySizeKeeps DEF MapInv, realtimeVars
  <2>5. CASE CopyPoints \/ SendRealtimeMap
    BY <1>1, <2>5, CopyPointsRealtime, CopyPointsKeeps, SendRealtime, SendRealtimeMapKeeps
       DEF MapInv
  <2>6. ASSUME NEW h \in Halves, TakeHalf(h) PROVE MapInv'
    <3>1. /\ sentLive' = sentLive
          /\ UNCHANGED <<live, incoming, queued, started, session, mapper, overlap>>
      BY <2>6 DEF TakeHalf, memoryVars, outside, others
    <3>2. job'.got \in {job.got, NothingSent}
      BY <1>1, <2>6, TakeHalfGot
    <3>3. QED
      BY <1>1, <2>6, <3>1, <3>2, RequestRealtime, TakeHalfKeeps DEF MapInv
  <2>7. CASE SetModifiedMap \/ MapCopyAlarm \/ Decrypt \/ StartFactoryMode \/ CopyPgm \/ CopyYaml
    <3>1. /\ sentLive' \in {sentLive, NothingSent}
          /\ UNCHANGED <<live, incoming, queued, started, session, mapper, overlap>>
      BY <2>7, Zenon DEF SetModifiedMap, MapCopyAlarm, Decrypt, StartFactoryMode, CopyPgm,
         CopyYaml, Begin, Unsent, Replacing, memoryVars, others, sentVars
    <3>2. job'.got \in {job.got, NothingSent}
      <4>1. \/ UNCHANGED job \/ job' = Idle \/ (\E step \in {"copyPgm", "copyYaml"} : Then(step))
            \/ Begin("decrypt", "map", "copy") \/ Begin("copyPgm", "map", "factorymap")
        BY <2>7, Zenon DEF SetModifiedMap, MapCopyAlarm, Decrypt, StartFactoryMode, CopyPgm,
           CopyYaml
      <4>2. QED
        BY <1>1, <4>1, BeginGot, ThenTypes, SMT DEF Idle
    <3>3. QED
      BY <1>1, <2>7, <3>1, <3>2, RequestRealtime, SetModifiedMapKeeps, CopyBegins, DecryptKeeps,
         CopyPgmKeeps, CopyYamlKeeps DEF MapInv
  <2>8. QED
    BY <1>5, <2>1, <2>2, <2>3, <2>4, <2>5, <2>6, <2>7 DEF UdpThread
<1>6. CASE ProcessDies \/ PowerLoss
  BY <1>1, <1>6, RestartRealtime, RestartKeeps DEF MapInv
<1>7. CASE UNCHANGED vars
  <2>1. UNCHANGED realtimeVars /\ UNCHANGED storeVars
    BY <1>7 DEF vars, realtimeVars, storeVars, memoryVars, historyVars, sentVars, copyVars,
       outside, others
  <2>2. QED
    BY <1>1, <2>1, RealtimeUnchanged, StoreUnchanged DEF MapInv
<1>8. QED
  BY <1>2, <1>3, <1>4, <1>5, <1>6, <1>7 DEF Next

LEMMA MapInvHolds == Spec => []MapInv
  BY MapInit, MapStep, PTL DEF Spec

(* A realtime map the SoC gets is of the mapping it has started last, and  *)
(* what a callback was taking over at the start (clearMapInfo and the mutex*)
(* of setSocMapData) does not come back, but for the case of overlap.      *)
THEOREM MapOfThisMappingHolds == Spec => []MapOfThisMapping
<1>1. MapInv => MapOfThisMapping
  BY DEF MapInv, RealtimeInv, MappingInv, MapOfThisMapping, OfThisMapping
<1>2. QED
  BY MapInvHolds, <1>1, PTL

(* A stored map the SoC gets, encrypted or not, is the pair of files that  *)
(* is stored (resSocMap, resSocEncMap, resSocModifiedMap).                 *)
THEOREM StoredMapSentHolds == Spec => []StoredMapSent
<1>1. MapInv => StoredMapSent
  BY DEF MapInv, StoreInv, SentInv
<1>2. QED
  BY MapInvHolds, <1>1, PTL

(* A map reported copied is stored whole, over restarts and losses of      *)
(* power (MapCopyAlarm, updateMapFiles, copyFile).                         *)
THEOREM CopyWholeHolds == Spec => []CopyWhole
<1>1. MapInv => CopyWhole
  BY DEF MapInv, StoreInv, CopyInv
<1>2. QED
  BY MapInvHolds, <1>1, PTL
=============================================================================
