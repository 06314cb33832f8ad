# Verification of the robot's control nodes

TLA+ models of the control logic of this workspace, checked with TLC and, where
a statement should hold for every value of the parameters, proved with TLAPS.
All file names below are relative to the repository.

## 1. The system

The repository is the ROS 2 workspace of an autonomous mobile robot. An
application processor runs the nodes below; it talks to a micro-controller
(MCU) over a serial line and to a system-on-chip (SoC, the customer's side)
over UDP through a binary library.

```
   SoC / jig tool
        |  UDP (libNetwork.so)
  udp_interface  --- topics --->  everybot_bringup  --- serial --->  MCU
        |  ^                            |
        |  | /tof_calib_state, _data    | /tof_data, /docking ...
        v  |                            v
  everybot_sensor_manager  --- /calibration/complete --->  A1_perception (external)

  everybot_lidar  --- /scan, /scan_state ---> ...  <--- /cmd_lidar --- state manager (external)
     | serial
   lidar
```

### Components

| Component | State it keeps | Operations | Hard behaviour |
|---|---|---|---|
| **MCU link, transmitting half** (`everybot_bringup/src/uart_communication.cpp`) | one command record `g_transmission_data`; e-stop flag; jig latch; time of the last Twist; last docking report; copies of what was sent last | eleven topic callbacks that edit nibbles of the record; the 10 ms timer that builds and writes a packet; the received frame that withdraws the docking command | commands persist in the record until something overwrites them; "clear" means writing zero and zero is a command; writes fail |
| MCU link, receiving half (same file) | byte buffer | search header, check length and checksum, decode fields, publish | partial and damaged frames |
| **ToF calibrator** (`everybot_sensor_manager/src/utils/multizone_tof_calibrator.cpp`, `sensor_manager_node.cpp`) | session (attempts, samples, staleness per zone), side under calibration, done flags, result of each side | start, activate/deactivate, feed a message, hand over a pair | sessions restarted, failing halves, dead zones, two timers feeding one message |
| Sensor buffers, converters, self diagnosis (`sensor_manager_node.cpp`, `cloud_converter/`, `utils/`) | latest messages, parameters | convert and publish at a rate | a message used twice or stale |
| **ToF self test and jig calibration** (`udp_interface/src/udp_communication.cpp`) | state byte, command, two timers, tick counter, done flags, data, file flag | request (UDP thread), three callbacks and two timers (executor thread) | two threads without a lock, three topics without mutual order, giving up against late results |
| **Fan control** (`udp_communication.cpp`, `resSocTemperatureNotice`) | fan flag and its previous value, overheat count | one call on the UDP thread every two seconds | counts over many calls, hysteresis, override while mapping |
| **Motor self test** (`udp_communication.cpp`, `processLinearMoving`) | drive timer, ramp, base odometry, reset confirmation | start, stop, inspection mode, arrival on the station (UDP thread); 20 ms timer and odometry callbacks (executor thread) | cancelled in the middle of a callback that sleeps |
| **Error list, state relays** (`udp_communication.cpp`) | error list; queues of robot and moving states; last state, pose and docking status told; whether the communication has started | callbacks append (executor thread); a pass of the UDP thread serves requests, empties queues, sends by itself every second or two | entries that erase one another, an SoC that comes up late, a jig mode in between, three orders in which a state can be told |
| **Map storage and transfer** (`udp_communication.cpp`) | the realtime map in memory; eight places with a picture and a description each | three map requests, encryption, edit, copy, factory copy, start of a mapping (UDP thread); map and node state callbacks (executor thread); the state manager stores maps in the same files | a mutex on one side only, maps of two files, stale encrypted files, failing calls, restarts and losses of power |
| **Lidar driver** (`everybot_lidar/src/lidar/node_lidar_ros.cpp`, reader thread in `sdk/node_lidar.cpp`) | command, run and error flags, five counters; the reader's ready, restart and close flags | command callback (executor thread); the loop with its waits (lidar thread); start, restart and read (reader thread) | three threads over plain variables; the command is read again at every test of a pass; waits of three seconds; a line that fails |
| SoC commands and reserved resume, versions, communication modes (`udp_communication.cpp`) | flags, a counter of three ticks, one record | publish one to one under a guard on the state | the factory mode and the jig mode, which the relays depend on, are in `SocLink` |
| Scan merger, navigation, SLAM, logging, messages, lidar SDK, serial library | - | - | geometry, vendored code, launch files |

### How they interact

* Inside `everybot_bringup` and `everybot_sensor_manager` one thread spins the
  node, so a callback or timer is one atomic step of a model.
* `udp_interface` has two threads: `rclcpp::spin` and `udpCommunicationThread`.
  They share the members of `UdpCommunication`; only the maps, scans, the error
  list and the two state queues have a mutex. Where a handler of one thread has
  several effects the other thread can see apart, it is several steps.
* Topics keep the order of one publisher; two topics have no order among each
  other. In the models a topic whose messages may wait is a sequence.

### What makes each component correct

* MCU link: a stop is a stop; one packet carries one kind of drive command; a
  command that was withdrawn or answered does not come back; a command the
  robot's situation forbids does not reach the MCU more than the code allows.
* Calibrator: a measurement is used for one calibration; a session ends.
* Self test: an answer is about the request it answers, in both sides' data and
  in the calibration file; nothing leaks into the next request; it ends.
* Fan: while no jig is connected heat is cooled in the end and a cool robot is
  quiet in the end; the fan does not flutter.
* Motor self test: a cancelled test stands still, and an undisturbed one ends.
* Relays: the SoC's view of the errors, the state, the pose and the docking
  contact agrees with the robot's once nothing is pending, and nothing stays
  pending.
* Maps: a map is what it says it is - of this mapping, the one that is stored -
  and a copy that was reported is there.
* Lidar: never running and in error; a stop is a stop; an error is released by
  readings in a row; what is commanded happens in the end, and is told.

## 2. The modules

| Module | Models | Used by |
|---|---|---|
| `McuLink` | the transmitting half of the MCU link | `MCMcuLink`, `McuLink_proofs` |
| `TofCalibrator` | the calibrator in the sensor manager, alone or as a part | `MCTofCalibrator`, `TofCalibration`, `TofCalibrator_proofs` |
| `TofSelfTest` | the requester in `udp_interface`: SoC self test and jig | `TofCalibration` |
| `TofCalibration` | requester, calibrator and A1_perception composed over topics | `MCTofCalibration`, `TofCalibration_proofs` |
| `TofService` | what the self test promises the SoC (abstract) | `TofCalibration` (refinement) |
| `FanControl` | the fan decision with its pacing loop | `MCFanControl`, `FanControl_proofs` |
| `FrameParser` | the receiving half of the MCU link: frames out of a byte stream | `MCFrameParser`, `McuLink_proofs` |
| `InspectionDrive` | the motor self test, composed with `McuLink` | `MCInspectionDrive`, `InspectionDrive_proofs` |
| `LidarDriver` | the lidar thread, the command callback, the reader thread and the lidar | `LidarDriver.cfg`, `LidarDriver_proofs` |
| `SocRelay` | the operations on the error list, the state queues, the pose and the docking status | `SocLink` |
| `SocLink` | the pass of the UDP thread that orders them, with the robot and the SoC | `MCSocLink`, `SocLink_proofs` |
| `MapStore` | realtime map, stored map, requests, copies, with the state manager and restarts | `MCMapStore`, `MapStore_proofs` |
| `MC...` | values for the constants | the configurations |
| `..._proofs` | theorems and their proofs | - |

### McuLink

`tx` is `g_transmission_data` as a record of commands instead of bytes and
nibbles: every setter that writes a nibble is one `SetField`, and the value the
zero byte stands for is spelled out in `DefaultTransmissionData`. `cmdAge` is
the age of `last_cmd_vel_time_` in units of which `WatchdogLimit` make the 1000
ms of the watchdog; `wire` is the motion part of the packet written last.
`TimerCallback` is the whole timer: the sleep command is withdrawn, a copy of
the record is passed through the watchdog (`Built`), the copy is written or
lost. `McuFrame` is a received frame as far as the transmitting half reads it.
The history variables `estopAge`, `remoteAsked`, `sleepsAtContact` and
`dockAsked` record what a property needs to know of the past; no guard reads
them.

### TofCalibrator, TofSelfTest, TofCalibration

A ToF message is what it says of every zone: dead, the same as before, or
fresh. `AfterSample` is the loop over the zones of `ProcessCalibration` with
its early exits; the statistics of a full session are a free verdict among
pass, out of range and unstable. `RunMultizoneToFCalibration` is one message
through the node: result, state byte, data message, done flags, array.

In `TofSelfTest` the steps of `directRequestCommand` on the UDP thread
(`RequestClear`, `RequestLaunch`, `RequestArm`) interleave with the callbacks
and timers of the executor thread. The five outcomes of a tick of
`selftestCalibrationTimerCallback` are five actions. Data is the number of the
request it was measured for, so that a property can tell an old measurement
from a new one.

`TofCalibration` joins the two by `/start_tofcalib`, `/tof_calib_state`,
`/tof_calib_data` and the array to A1_perception, which is outside the
repository and is modelled by the report the code waits for, of success or of
failure; after a failure the file that was there stays. `undisturbed` is
history: no jig mode, no switching of the sensor node and no report later than
the tick that gives up; what a property says of a self test it says of an
undisturbed one, because the code has no means to keep the others apart.
`overdue` states the only assumption about time: between two ticks of the 1 s
timer, what was pending at the first tick is dealt with.

`TofService` is the abstract promise: a request is accepted when idle, goes
from left to right, and ends without an answer or with one answer whose data is
all its own; when the test is disturbed the service is withdrawn (`off`).
`ServiceKept` checks the refinement under the mapping given there.

### FanControl

Temperatures are the side of the thresholds they are on. `Counted`, `TurnsOn`,
`TurnsOff`, `FanAfter`, `Level` and `CountAfter` are the paragraphs of
`resSocTemperatureNotice` in their order; the battery reading may change
between the places that read it. `Loop` is one pass of the UDP thread: in the
communication mode NORMAL (`NormalLoop`) the robot's state is taken over and
the truncating clock paces the call, in a jig mode (`JigLoop`) the call is not
made and its time stamp ages. `NotStamped` is the stamp before the first call.

### FrameParser

`ReceiveData` appends what one read delivers, all of what is there or less, and
starts the loop of `searchAndParseData`; `parsing` says that the loop goes on.
Each turn of it is an action: `NoPreamble` drops one byte, `CutFrame` takes the
first frame out of the buffer, `WaitForMore` ends the loop. Nothing else of the
node runs during the loop (one thread), so the next read waits for its end;
only the line goes on delivering. Bytes have `Byte` values, so size and
checksum wrap as in the code. `received` and `frames` are history: the whole
stream, and where in it each frame began and whether it reached the setters of
`parseDataFields`. The reference for them is the stream read as a whole, whose
frames are the chain of first preambles, each behind the frame before.

### InspectionDrive

The motor test of the inspection mode drives half a metre with Twists, so it is
composed with `McuLink` (an instance without e-stop, jig and docking frames):
what moves the robot is the packet the link sends. A start is `MotorTestStart`
(flags) and `EnableTimer` (odometry reset, timer); a cancel is `CancelTwist`
and `CancelTimer`. `processLinearMoving` is `FindBase`, the second it sleeps
(`WakeUp`), `DriveCheck` and `Drive`, because the UDP thread may act between
any two of them. `/cmd_vel` and `/odom_imu_reset_cmd` are queues with their
history depth; odometry is read as the MCU has it, since a unit of time
(`Elapse`) passes only when everything sent has been delivered. `travelled`,
`fresh` and `sinceCancel` are history.

### LidarDriver

`pc` is where the loop of `lidar_thread` is: every test of the command
(`TurnOn`, `TestAgain`, `TurnOff`, `Idle`) and every return of `data_handling`
(`AfterStart`, `AfterRetry`, `AfterRun`, `AfterStop`) is a step, because the
callback may change the command between any two of them. `Launch` is "set
`lidar_ready`, write the start command, wait". The reader thread is
`lidar_state_judgment`, split where it has read `lidar_ready` and not yet
written the start (`Kick`), and one read (`Scan`, `NoScan`). A wait comes back
with the event or, when no scan can come, in vain: that a wait of three seconds
is longer than a turn of the lidar is the only assumption about time. The line
may fail and come back and the lidar may lose its power with it. `goods` and
`stopped` are history.

### SocRelay and SocLink

`SocRelay` has the operations, each of one thread; `SocLink` puts those of the
UDP thread in the order of a pass of `udpCommunicationThread` (`pc`) and lets
the callbacks run between any two steps. A state stands for the pair of state
and status it comes with. `listening` is an SoC that is up: what is sent before
is gone, and the code's own idea of that is `comm`. `Heard` is what the SoC
takes for present once the list is sent: the last entry of a code counts. The library's requests are
inputs. `early`, `lost` and `bounced` are history and name the cases in which
the code tells the SoC something else than the robot's state: entries that
erase one another within a pass, entries sent while only a jig listened, a
docking status that comes back to the value of the last pass.

### MapStore

A file is named by where its content came from; a map is a pair of files, the
picture and the description. A job of the UDP thread is a record with its next
step, so that callbacks, the state manager and a restart come in between.
`CopySize` and `CopyPoints` begin the two parts of the unlocked copy in
`getMapInfo`, and the points are being copied until `SendRealtimeMap`, which
checks and sends the copy; `MapCallback` and `MapCallbackEnds` are the two
halves of the write under the mutex. If the second comes while the points are
copied, the copy gets the old points, the new ones or a mixture of both
(`Overwritten`), which is of no mapping. The size of a map is its number of points: two maps of the
same number of points and different width are not told apart, nor are they by
the code. `unsynced` is what a loss of power may destroy; `ProcessDies` leaves
the file that was being written torn, `PowerLoss` the unsynced ones too. Walls,
areas and the station pose are published one to one and left out.

## 3. The runs

| Run | What it shows | Instance |
|---|---|---|
| `McuLink` | An e-stop older than the watchdog limit leaves no linear motion; no packet drives in two ways; at most one sleep packet at the charge terminal; no docking start nobody asked for since the last report; an e-stop that stays on ends in packets without linear motion, and in packets that stand still altogether if Twists keep coming and no jig command drives | linear and angular velocities 0 and 1, limit 1, four docking reports |
| `McuLinkRemote` (violation) | A jig command unblocks the remote control, against the comment in `initializeData` | as above |
| `TofCalib` | No measurement is handed over twice; a session ends | 2 zones, 3 samples, 4 commands |
| `TofSelfTest` | Answers, files and data belong to their own request, with jigs, mode switches and deactivation mixed in; the abstract service is implemented; every self test ends | 2 requests, gives up after 10 ticks as in the code, both modes |
| `TofJigFile` (violation) | From the second jig calibration on the answer does not wait for the new file | 2 calibrations |
| `FanControl` | A hot board is counted afresh; once the mode stays NORMAL, heat is cooled and a cool robot is quiet | duration 3, day cap 5, both modes |
| `FrameParser` | The accepted frames do not depend on how the stream is cut; the buffer is bounded; damage is forgotten | bytes of 3 values, 10 bytes, reads of 2 |
| `InspectionDrive` | A cancelled motor test stands still, no test ends before its distance, an undisturbed test ends | one velocity step, distance 3, sleep 1, watchdog 1 |
| `LidarDriver` | Never running with an error; a stop is not undone by the reader thread; an error is released by readings in a row; a lidar left on ends up running, one left off is told to be off | 2 readings discarded, 1 confirms, 1 retry, one failure of the line |
| `SocLink` | The SoC's errors agree with the robot's but for the cases named; errors, states, pose and docking status are told in the end | 2 codes, 2 states each, 4 errors or 3 of another kind, 2 requests |
| `MapStore` | A realtime map is of this mapping if the one before had ended and delivered its maps; the stored map is sent, not an older encryption; a map reported copied is whole after restarts, and after a loss of power its picture is there if its sync succeeded | 2 sizes, 4 inputs |
| `FanDuration` (violation) | The configured seconds take twice as long | 2 loops per second |

**Bounds and why they are enough.** The link compares velocities with zero
only, so two values are all cases; the age of a Twist is counted to one past
the limit, which a limit of one lets be fresh, at the limit and past it.
`OneSpare` moves the four fields of the record that nothing but the send reads
one at a time.

Two zones let the zone loop stop at the first, at the second or not at all;
three samples with one topic place and an attempt limit of two order the
thresholds as the code does (a session is longer than a reader's backlog, and
attempts may run out before samples). `CalibrationConstants` states the order
that matters, and TLC shows that it does: with a session as short as the
backlog an answer can wait for a file of another round, and with `GiveUp` at 7
a self test that gave up can leave a done flag to the next one. Four commands are a left and right pair
followed by another pair, and all shorter mixtures. Two self tests are what
leaking from one into the next needs; `MixedOnce` follows what jigs and
switches mix up for one calibration and its first tick, and undisturbed tests
to their end. `GiveUp` keeps its value 10 where the giving up races with
answers.

The fan counts to a duration of three, which lets a count go up, down, and up
again below the threshold; the thresholds of the temperatures are all that the
code compares with.

The motor test needs a slow zone out of reach of what an earlier test's last
Twist moves the robot (two units: the sleep and the watchdog), a topic that can
overflow, and any number of starts; a watchdog of one unit is the least that
lets a Twist be older than the sleep and still be driven.

Three byte values give sizes of 0, 1 and 2 and every mixture of preamble bytes
with them; ten bytes are two longest frames, and with the junk of a read more
than the buffer's bound. The bound is tight: one byte less is violated.

The counts of the lidar driver are scaled down in their order (more readings
are discarded than a stray one can make, a confirmed error needs more than one,
the start may be tried again); its commands are not bounded and its counters
are followed to the first value that no longer matters; one failure and one
return of the line is what brings an error and releases it.

Four error reports over two codes are two changes of each within a pass, three
states a burst longer than a pass relays; `OneKind` lets one kind of the
robot's inputs come in a behaviour, since what they write is disjoint but for
what the SoC's requests (`soc`, with every kind) connect.

Both communication modes come and go in the run of the fan; the AMR and the AP
jig mode are one, because neither makes the call.

Four inputs of `MapStore` are an upload, its copy, a loss of power and a
request, or two requests around an edit; `OneStory` allows three where a
mapping is started, which is the start of a second mapping and a request.

`MaxBytes`, `MaxUnread`, `MaxRounds`, `TopicDepth`, `Patience`, `Far`,
`Settled`, `MaxFaults`, `Limit` and `MaxInputs` are the bounds named in the
modules.

`CHECK_DEADLOCK FALSE` is set where the system may stop: the rounds or inputs
are used up (`TofJigFile`, `TofSelfTest`, `MapStore`), the line falls silent
(`FrameParser`), the node is shut down (`LidarDriver`).

**Fairness.** `McuLink`: the wall timer fires, time passes, and a serial write
succeeds now and then (a line that is never written to cannot be stopped by
anything). `TofCalibrator`: sensor messages go on and readers read.
`TofCalibration`: timers fire, executors serve their topics, a thread finishes
the handler it is in, A1_perception reports success or failure. Requests, mode switches, Twists
and e-stops are never assumed to happen: that Twists keep coming and that no
jig command drives are premises of the second half of `EStopStops`.
`FanControl`: the UDP thread's loop goes on, whichever mode it is in; that the
mode stays NORMAL is a premise of both properties. `InspectionDrive`: both threads and the link go on, and time passes
infinitely often; the odometry callbacks and the drive timer share an executor,
so their fairness is strong. `LidarDriver`: the lidar thread and the reader
thread go on; that a command stays, that commands come to an end and that the
line has come back are premises of the properties. `SocLink`: the UDP thread
goes on, and the automatic send, which a clock lets through each second or two,
happens in infinitely many of the passes that reach it (strong, because a pass
goes by it most of the time). `MapStore` has safety properties only. Each is
what the ROS executor, a wall timer and a `while (rclcpp::ok())` loop give;
elsewhere weak fairness is enough, because no action that is waited for is
disabled again by another actor.

**Findings.** The three violation runs contradict a comment or a configuration
file of the repository; `PROJECT.json` quotes the lines. Further observations
have no run of their own.

* The comment above `resSocTemperatureNotice` (`udp_communication.cpp:749-757`)
  makes a battery at 43 degrees or more a reason of its own for the fan, and
  one at 40 or more a reason not to stop it. The code asks for charging (817)
  and ignores the battery off the charger (823). `FanControl` models the code
  and its properties claim the battery only while it charges.
* In a jig mode `resSocTemperatureNotice` is not called (3302-3309): a hot board
  is not cooled and a running fan is not stopped.
* A pure rotation is never cleared by the watchdog (2584 of
  `uart_communication.cpp` looks at the linear velocity only), and
  `jig_motor_callback` (476) sets wheel speeds under an emergency stop; the
  jig's motor latch is released only by a restart.
* A map of the last mapping that is still queued when the next mapping is
  started is taken over after `clearMapInfo` (2733) and can be sent as this
  mapping's. The points of a realtime map are copied without the mutex (3338):
  a torn copy whose size fits can be sent.
* `time_out_sec` (`sensor_param.yaml:49`) is read and used nowhere.
* A lidar that is switched off while it is starting is told to be off and keeps
  spinning, while State4 of `docs/lidar_state_diagram.puml` means a lidar at
  rest.

## 4. The proofs

Every theorem is proved from the named assumptions on the constants of its
module (`ConstantsOK`, `ParserConstants`, `CalibratorConstants`,
`SelfTestConstants`, `CalibrationConstants`, `FanConstants`,
`InspectionConstants`, `LidarConstants`, `RelayConstants`, `LinkConstants`,
`StoreConstants`), for all values that satisfy them; each is evaluated by TLC
in the module's run. The strengthened invariants were model-checked on the same
instances before they were proved.

* `McuLink_proofs`. `TypeCorrect` is inductive as it stands.
  `OneDriveOnlyHolds` needs `DriveInv`: a wheel speed in the record implies
  that the jig latch is set and the body velocity is zero; the latch is never
  released, and a Twist under it changes nothing. `EStopHaltsLinearHolds` needs
  `EStopInv`: under an e-stop a moving record is at least as old as the stop,
  because the only way to become younger is a Twist and that writes zero.
  `SleepWithdrawnHolds` needs `SleepInv`: after one sleep packet at the contact
  the remembered nibble is "sleep", so the next timer withdraws it, and a new
  one is refused. `DockingStartNotRevivedHolds` is inductive as it stands: a
  callback keeps the docking nibble or clears it, and only a command sets it.
* `McuLink_proofs`, receiving half. `DecodedAsWholeHolds`, `BufferBoundedHolds`
  and `IntactFrameAcceptedHolds` rest on `ParserInv`. Its core is `BufferInv`:
  the buffer is the end of the stream, and between the last frame and the
  buffer no preamble begins. A cut of the stream through a preamble cannot
  break it: a turn drops a byte only when a header's worth of bytes is there
  and no preamble among them, so the byte dropped begins none, and the last
  bytes wait for what follows them. So the first preamble of the buffer is the
  first of the stream behind the last frame.
  `FramesInv` keeps the frames already cut (the stream only grows),
  `WaitInv` says why the loop ended, and `JunkInv` bounds the buffer: what was
  left over waits behind a header shorter than its frame, plus one read. For an
  intact frame one takes the first frame of the chain that does not begin
  before it: the one before begins more than a longest frame earlier and so
  ends in time, and the first preamble behind that end is the intact frame's.
* `TofCalibrator_proofs`. `CalibratorTypeCorrect` needs `SessionInv`: a running
  session has room for one more sample, because the verdict of a full one ends
  it. `ArraysShareNoResultHolds` needs `ArrayInv`: what was handed over is no
  younger than its side's result, strictly older when the side is done again,
  and a side under calibration is measured for a command younger than its
  result.
* `TofCalibration_proofs`. `TypesHold` is inductive with the types of both ends
  and the topics. The four others follow from `TestInv`: in an undisturbed test
  the pair of processes is in one of six stages (`Resting`; for each side
  `Commanded`, `Unseen` while the calibrator has begun and its state has not
  been read, `Seen`; then for each outcome `Judged` and `Known`), and each stage
  fixes every flag and every message of the three topics. What has no place in
  the code is time, so each stage carries a budget: how many ticks of the timer
  may have passed (`Waited`), which grows by one only for a duty that was pending at
  the last tick. Left and right side need seven ticks in the worst case:
  `CalibrationConstants` therefore asks for `GiveUp > 7` (the code has 10), and
  for a session longer than the backlog of a reader, since the requester must
  have read "Running" before the session can end (the code has 300 against 10).
  `AnswersOfTheRound`, `FilesOfTheRound` and `NothingIsLeftBehind` are the
  properties of the run `TofSelfTest`; `ServiceIsKept` is the refinement of
  `TofService` under the mapping of `TofCalibration`: every step of the
  composition is a step of the service or a stutter, by the stage it is in.
* `FanControl_proofs`. `FanInv` strengthens the type invariant with: the
  overheat count is at most the number of hot calls since the fan last ran, and
  stays below the duration, so that the reset after a day's worth of
  overheating is never taken. `FanTypeCorrect` and the action property
  `OverheatEarnedHolds` (no map being made, the battery not hot) follow; passes
  in a jig mode leave everything they speak of alone.
* `InspectionDrive_proofs`. `StandsAfterCancelHolds` needs `StandInv`, which
  says how long after a cancel each bearer of a motion can exist: the sleeping
  callback no longer than it sleeps, the Twist it sends no longer than that,
  the link's record and the packet a watchdog's limit longer.
  `DrivesItsDistanceHolds` needs `FreshInv`: from the start of a test until its
  timer is there nothing of an earlier test drives; then the base is a position
  taken after the reset, and the MCU has not counted more from it than the
  robot has driven.
* `LidarDriver_proofs`. `TypesHold` is the type invariant, for any thresholds.
  `RunExcludesErrorHolds` needs `ErrorInv`: behind a test
  of `bLidarRun` no error is pending, so the tests of one pass cannot disagree
  about it. `ReleaseEarnedHolds` needs `CountInv`: `lidar_run_cnt` exceeds the
  readings in a row by one at most (it is incremented once more after its
  reset). `StoppedStaysStoppedHolds` needs `StopInv`, which relates the
  reader's place and what it remembers of `lidar_ready` to the driver's place.
  It holds because a stop can only follow a run, a run only enough readings,
  and a reading only a reader that is past its start command. `LidarConstants`
  therefore asks for more than one discarded and at least one confirming
  reading: a scan read just before a stop may be taken for one of the next
  start (the code has 10 and 10).
* `SocLink_proofs`. `ErrorsAgreeHolds` needs `ErrorInv`. `WillAgree` looks ahead:
  the list as it stands, were it sent, would make the SoC agree with the robot,
  for every code that no entry was lost of. That alone is not inductive: a
  release erases the entry of an occurrence it finds in the list, which is right
  only if the SoC has not heard of the error before. `NewToTheSoC` says so of
  all codes but those in `early`, whose entry has been sent and is still in the
  list (their release puts them into `lost`), and `DeafKnowsNothing` makes it
  hold when the SoC comes up. The argument uses
  nothing of `comm`: when the list is sent decides when the SoC agrees, not
  whether.
* `MapStore_proofs`. `MapOfThisMappingHolds` needs `MappingInv`: every map that
  waits, is taken over, kept, copied by a running job or sent is of the mapping
  started last or torn, unless that mapping was started on top of another or of
  a map that was still queued. A message being taken over at that moment is
  harmless because the clearing waits for the mutex. `CopyWholeHolds`
  needs `CopyInv` (what is between the copy of the picture and the report) and
  `StoredMapSentHolds` `SentInv` (what a job has taken so far is what was
  stored when it began, and no file of the stored places is a realtime map).

Every invariant and every safety property of the passing runs is proved.
Model-checked only are the twelve properties that need fairness (`EStopStops`,
`SessionEnds`, `SelfTestEnds`, `HeatIsCooled`, `CoolFanStops`, `TestEnds`,
`ComesToRun`, `OffIsTold`, `ErrorsTold`, `StatesTold`, `PoseTold`,
`DockingTold`): liveness and ENABLED are beyond the prover. The bounds named in
section 3 are constants or made of constants, so the theorems hold for all their
values; only the runs fix them.

## 5. What is not modelled, and the plan

What is left, in order:

1. The rest of `generateSocCommand`: guards on the state relayed last, and the
   reserved resume, a counter of three ticks. They publish one to one, so a
   model is worth its while only with the state manager that receives them,
   which is not in the repository.
2. The versions: a timer that collects them and stops when all are there.

Left out for good: the lidar SDK's geometry and parameters, the serial library,
the JSON and network headers and libNetwork (vendored: more than half of the
lines of the repository), point cloud, scan merging and odometry arithmetic (no
control), the one-threshold self diagnosis, log copying, launch files and
message definitions. The share of lines the modules stand for is small for that
reason, and because much of `udp_communication.cpp` and of
`uart_communication.cpp` copies fields between messages. The MCU, the state
manager and A1_perception are not in the repository; where a model needs them
they are free inputs or marked external.
