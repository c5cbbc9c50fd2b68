# Kinect Remold: TLA+ models, checks and proofs

Kinect Remold drives Kinect sensors of two generations on Linux and Windows. Driver services own the hardware and publish it
over local sockets and pipes; SynKinect Studio and other programs are their clients. This directory models the parts in
which several threads, processes and a USB device that may fail or disappear have to agree, checks the models with TLC and
proves some of their properties with TLAPS. It covers the services of the Xbox 360 sensor: on Linux the Broker, the
CameraBridge and the AudioBridge, on Windows the Broker and the CameraBridge with its shared colour frame.

Paths are relative to `src/drivers/modules/kinect-xbox-360-remold/` unless they begin with `src/`; file names without a
path are under its `linux/source/src/`.

## 1. The system

### Inventory

**Broker** (`broker.cpp`). Owns the motor, LED and accelerometer of each sensor. State per sensor (`MotorSession`): the USB
handle and whether it is primed, the last angle read, `mutex_`, the counter `tilt_in_flight_`. Operations: Ping, Status, Tilt, Led,
PrepareCamera, called by a thread per connection of the binary protocol, and LED actions of the SDK's text protocol, served by one
thread. Hard: a tilt takes seconds and everything else has to go around it; a failure closes the handle and repeats the
operation, but a tilt the motor took must not be sent again; the 1473's control interface must be primed and must be silent while the motor
travels. Correct when operations exclude each other, no command follows one that was taken, the answer is honest, and
the 1473 rules hold.

**CameraBridge: hub and USB engines** (`camera_bridge.cpp`, `kinect_usb_camera.cpp`). One `CameraHub` per sensor owns the camera
handle, the subscriptions (`clients_`, one per process), the demand counters per stream, and drives two firmware engines (video:
RGB, RGB HQ or IR; depth) to what is asked for. Operations: acquire (which supersedes the process's older
subscription), release, the worker's apply and event loop, reconnects, timeouts. Hard: the acquire takes leases away before it
knows whether it succeeds; superseded clients are woken after the lock is released; USB register writes may fail with or without effect;
RGB HQ may be given up while somebody subscribes to it. Correct when counters and subscriptions agree, a refusal disturbs nobody,
everybody who has lost a subscription is told, and the engines end up at what is asked for.

**CameraBridge: frames** (`kinect_usb_camera.cpp`, `camera_bridge.cpp`). `FrameAssembler` builds frames of ISO packets with
8-bit sequence numbers; bounded queues per stream hand them to a thread per subscriber, which merges its streams by
time. Hard: packets are lost, short, oversized, or left over from before a restart; queues overflow and are cleared while others
read. Correct when what is published is one frame of the sensor or is flagged, the assembler always finds back, and a
subscriber gets frames in time order and misses none it could have had.

**CameraBridge: nodes** (`camera_bridge.cpp`). `CameraNode` per sensor (listener, hub, grace time over a reconnect), the discovery
manifest that other services read, the motion sampler that polls the Broker while somebody streams, the settings file.

**AudioBridge** (`audio_bridge.cpp`). Two loops. `firmware_loop` uploads the audio firmware, page by page, to sensors whose audio
function is in its boot ROM, and launches it. `audio_coordinator_loop` makes an `AudioNode` per sensor, binds it to the sound card of the
sensor as cards come and go, and gives it one of a fixed set of system-audio slots; each node has a capture thread, an acceptor and a
`Fanout` of subscribers. Hard: late acknowledgements and new attempts get mixed up; a card's number changes under an open device; a
node is stopped while its threads are in calls. Correct when only whole images run, every subscriber that stays gets every frame,
counters tell what the threads do, and a stopped node leaves nothing behind.

**Virtual cameras** (`v4l2_bridge.cpp`). A video loopback node per sensor, chosen once and remembered on disk; a worker that
subscribes to the CameraBridge only while somebody watches.

**IP camera** (`camera_ip.cpp`). HTTP server of MJPEG and snapshots: authentication with back-off, a feeder that subscribes while
clients are there, a bounded number of client threads.

**Smart tilt** (`shared/Kinect360RemoldSmartTilt.h`). Controller that levels the sensor or follows a target through tilt
commands which may have no effect.

**Windows Broker** (`…/broker/Kinect360RemoldBroker.cpp`). A context per device id (session, mutex, tilt counter) and one for requests
without an id; a second mutex per control interface, since contexts can share one. Threads of the control pipe and one for
the SDK pipe. Hard: the interface a request gets depends on what is present; a failed command is repeated once, a
committed tilt must not be; two locks and a join at the end. Correct when a tilt is written once and answered as success, travels are
undisturbed, and a request reaches the sensor it names.

**Windows CameraBridge** (`…/bridge/Kinect360RemoldCameraBridge.cpp`). Per sensor a `CameraNode` with a `ScannerPortServer` (leases,
client sessions and their queues), a USB session of two threads (`StreamVideo`, `DepthLoop`) that share the control channel and the
projector, conversion workers with a double buffer, and a shared-memory section through which virtual and IP camera read frames without
a lock; one loop makes the nodes, registers virtual cameras with Windows and writes the manifest. Hard: leases, masks and threads change
under different locks; modes change while reads are queued; passes of the loop take as long as the registrar does; cameras and manifest
survive a crash. Correct when leases have threads and the revoked are told, no frame mixes modes, engines follow the demand, the newest
frame is taken, virtual cameras outlive short absences and everything converges.

**Windows AudioBridge**: the duties of the Linux one over WASAPI.

**Kinect One driver** (`src/drivers/modules/kinect-one-remold/`). Sensor leases, transport, depth decoding, an audio service.

**SynKinect Studio** (`src/applications/processing/SynKinectStudio/`). RGB-D transport with workers and reconnects that are
replaced while they run, pairing of depth and colour, body tracking with latest-only mailboxes, surveillance, scanner, audio.

`PROJECT.json` lists all of them with what is modelled of each and, under `hazards`, the places of the modelled code that are hard to
test. Places of the same kind in what is not modelled: the motion sampler stores the answer of a query that began before
`disable()` (`camera_bridge.cpp:187`); a `server_loop` that cannot bind resets `running_` itself, so `stop()` returns without joining
(`camera_bridge.cpp:863`); a crash between choosing, saving and using a video node (`v4l2_bridge.cpp:637`); the feeder of the IP camera
that must let go when its last client leaves (`camera_ip.cpp:396`); a tilt that is accepted and has no effect
(`shared/Kinect360RemoldSmartTilt.h:193`); Studio workers replaced while they run (`RgbdTransport.pde:78`, `BodyTracking.pde:151`) and the
pairing of depth and colour over dropped frames (`RgbdTransport.pde:355`).

### How they interact

Services talk over local stream sockets (named pipes on Windows): a request, a reply, then a stream of frames. A thread per
connection serves each. Services find sensors through the manifest the CameraBridge writes. A CameraBridge asks the Broker to
prepare the camera of a 1473 and polls motion from it. The device is shared by the USB topology: camera, motor and audio of one
sensor are separate USB functions behind one hub.

## 2. Modules

| Module | Models | State ↔ code | Actions ↔ code |
|---|---|---|---|
| `MotorSession` | one `MotorSession` of the Broker, its callers and the motor | `mutex`, `inFlight`, `handle`, `primed`, `lastTilt`: members of the same names (closing the handle forgets the angle); `attempt`, `polls`, `result`: locals of the running call; `issued`, `accepted`: its commands on the wire and those reported complete; `kind`, `present`, `gen`, `angle`, `goal`, `moving`: the device | one action per piece of an operation between two points where another thread or the bus can act |
| `UsbCamera` | the camera object and the two firmware engines | fields of a record: what the object believes (`running`, `vmode`, `depthRunning`, `projector`) and what the registers say (`fw`, `laser`) | operators from a record to the set of records an operation may end in |
| `CameraHub` (extends `UsbCamera`) | the hub, its clients' threads and the worker | `subs`: `clients_`, counters, flags; `dev`: hub and camera object | what runs under `dev_mu_` is one step; the check before it, the waking after it, the reply, streaming and the close of the socket are steps of their own |
| `FrameAssembler` | the assemblers of Linux and of Windows and the packets they are fed | `system`: which of the two; `asm`: its members; `first`, `ending`: the session of the sensor | `Receive` (a packet after any number of lost ones; `Process` or `Push`), `Restart`, `NewSession`, `NewStream` |
| `FrameQueue` | queues, publication and the reading threads | `queue`, `counter`: members; `seen`, `out`: locals of the thread | publish to one of four streams (RGB, RGB HQ, IR, depth), subscribe, choose, send, give up, release |
| `ClientDrain` | listeners, detached client threads and the shutdown of the three services | `count`: `active_clients`, `scanner_clients`, `open_clients`; `holder`: the mutex of the condition variable | each access to count, mutex and condition variable is a step |
| `FrameTransport` | the Windows shared frame: the bridge's writers, the life of a sensor's node, the virtual and the IP camera reading | `mem`: `SharedHeader` and the slots, word by word; `seq`: `colorSequence`; `job`: what the holder of `m_writeLock` has still to store; `before`, `got`: locals of a read | set up, enter, store a word, leave, load a word, accept or refuse; the bridge closed or killed |
| `SharedFrame` | what that memory promises, without sequence, slots or words | `frame`, `online`, `out` | publish, offline, give |
| `Drain` | what that shutdown promises, without counts, mutexes or notifications | `serving`, `closed`, `exited` | admit, leave, stop, exit |
| `FirmwareLoader` | `firmware_loop`, `upload_firmware` and the boot ROM as they use it | `launched`, `absent`, `tag`, `flags`: locals; `pipe`: unread replies; `image`, `mixed`: pages the sensor has, and whether a stale status stood in for one | a command, a page, a status, the launch; each may fail, answer late or lose the sensor |
| `AudioNodes` | coordinator, nodes, capture threads, fan-outs, system-audio slots | `node`: `AudioNode`; `capture`, `acceptor`, `clients`: its threads and `Fanout`; `card`, `substream`: ALSA | a look at the bus, a visit of a node, open, check, read, publish, accept, the steps of stop |
| `ScannerPort` | the Windows pipe server of one sensor | `m_clients`, `streamMask`: members; `pc`, `queue`, `ended`: a session and its thread; `superseded`, `released`: who has still to be told | each section under `m_clientsLock` or a session's lock is a step |
| `VideoEngine` | the USB session of a sensor: video thread, depth thread, the node's thread around them | `vpc`, `dpc`: where they are; `activeMode`, `videoRunning`, `reads`: locals; `streaming`, `modeRegs`, `projector`, `fills`: the sensor | a command, a look at the demand, the queueing and cancelling of reads |
| `ConversionWorker` | a worker and its double buffer | `rawA`, `rawB`, `m_writeA`, `m_pendingA`, `m_hasPending`: members | submit, sleep, take, one publication |
| `BridgeNodes` | `RunBridgeLoop`: nodes, virtual cameras, manifest | `nodes`, `desired`, `todo`, and ages instead of times: locals; `cameras`, `manifest`: Windows and the disk | scan, reconcile, find, install, remove, publish; stop, crash, start |
| `BrokerContexts` | the Windows Broker's contexts, threads and end | `session`, `mutex`, `tiltInFlight`: a context; `io`: `gPhysicalIoMutexes`; `pc`, `attempt`, `committed`: a command | check, lock, open, one transaction, travel, verify, recover, unlock, reply; the steps of the end |

`MC_*` modules define the instances; `MC_FrameQueue` also gives the queues names that do not clash with the assembler's. `MC_Frames`,
`MC_LinuxAudio` and `MC_WindowsCamera` put parts that share no state into one run: the variable `part` says which of them a behaviour is
about and the others rest in an initial state; every part keeps its own fairness. `MC_BrokerContexts` puts two sizes of one model into a run. `*_proofs` modules hold
the theorems. Definitions named `Mut_...` are faulty variants of the definition they stand before; each shows, put in its place, that a
property notices the fault.

Left open rather than modelled are time, where a timeout is a flag that may rise whenever its condition lasts (`CameraHub`) or a bound on
how many packets a silence can hide (`FrameAssembler`) or an age that may have advanced at any scan (`BridgeNodes`); and the sensor, which
may refuse any command the instance names, with or without having carried it out.

## 3. Runs

| Run | Question | Bounds |
|---|---|---|
| `motor_session` | Is a tilt whose transfer was reported complete the last of its request and answered with success, is the motor's owner visible, is the 1473 primed and left alone during a travel the session knows? | two client threads and the SDK thread; the two ends of the tilt range; two enumerations of the sensor; two polls instead of forty |
| `motor_session_reissue` | Does the motor get one command per request? Not when it took one whose transfer was reported as failed. | one client thread and the SDK thread |
| `camera_hub` | Do subscriptions, counters and engines agree through takeovers, refusals, failures, replugs and shutdown? | two connections, of one process or unknown; RGB+Depth, RGB HQ, IR; failing starts and stops |
| `camera_hub_live` | Is what is asked for served in the end; do revoked threads end? | two connections, RGB HQ against IR; failing stops |
| `frames` | Is a published frame one frame of the sensor or flagged; does the assembler find back, on Linux and on Windows? Are frames delivered in time order and none skipped without need? | assembler: frames of four packets, numbers modulo five, recoverable losses of two, twelve packets, one restart or new stream; queues: two clients of one or two processes, RGB with depth, RGB with RGB HQ or IR, queues of two, three frames |
| `frame_transport` | Does the shared frame implement `SharedFrame`; is a sensor between sessions offline? | one reader, two workers, the picture one word, two set-ups with three and one writes |
| `linux_audio` | Do only whole images run and pending sensors get tried? Do nodes, captures, slots and clients agree over replugs, failures and stops? | loader: two sensors, images of two pages, two bus events, two faults; nodes: two sensors that want the same of two slots, two cards, one client, three events, two frames |
| `windows_camera` | Do leases and threads of the scanner port agree? Do the engines follow the demand without mixing modes? Is the newest frame taken? Do nodes, virtual cameras and manifest converge without losing a camera early? | port: two connections of one process or unknown, colour against IR, HQ failing, queues of one, two frames; engines: five demands, two changes, one failure; worker: four frames; nodes: one sensor with two paths, a grace of two scans, four events, two failures |
| `windows_broker` | Is a tilt written once and answered as success, alone on its interface also where requests fall back to another class or to the only function there is, and visible while it lasts? Can the locks and the join block each other? | one sensor of either class under its id and without, two connections and the SDK thread; or two sensors of any two classes, one connection with tilts and LED commands and the SDK thread, and no stop; one bus event, one fault |
| `windows_broker_routing` | Does a request reach the sensor it names? Not while the control function of that one is missing. | two sensors, one connection |
| `client_drain` | Does the guarded shutdown implement `Drain`? | two listeners, three clients, limit two |
| `client_drain_lost` | And without the guard? A wakeup may be lost. | one listener |

Why the bounds are enough. *MotorSession*: three threads are one owner, one that waits having checked the counter before and one that
arrives; an operation tries twice, so two enumerations let a replug fall between the attempts; angles matter only through the
distance a travel is believed to have, and the ends of the range give none and the full one. *CameraHub*: a takeover involves two
connections, and the theorems of section 5 hold for any number; the three masks are one for each mode of
the video engine, with and without depth. *FrameAssembler*: the modulus is not a multiple of the frame length and
larger than the recoverable loss, as 256 is against 162, 687, 205 and 242 packets, so numbers come round at
every place of a frame; twelve packets are three frames and more than two revolutions. `Stall` stands for the watchdog: to
lose a multiple of 256 packets that is also a multiple of the frame length takes four seconds of silence or more, and after 2.5 the hub
restarts the stream. *FrameQueue*: one more frame than a queue holds, so that the oldest is dropped; the masks
hold two streams of equal and of different rank, and one that excludes them. *FrameTransport*: readers do not touch the
memory, so one is enough; three writes bring a slot round that a reader began to copy; a picture in parts is left to the proofs, which
hold for any number of them. *ClientDrain*: one client more than the limit, and one listener
more than one. *LinuxAudio*: two sensors are what slots and cards can be exchanged between, two pages have a first and a
last, and two faults fail a page and its repetition. *WindowsCamera*: a takeover involves two connections; two changes of demand lead away
from a mode and back while the other thread is anywhere; four frames fill both slots and overwrite each; sensors meet in the loop only in the
time a pass takes, which is free. *BrokerContexts*: two contexts of one sensor are what the second mutex is for, and three threads are one
that travels, one that queues and one that looks; two sensors are what a fallback can confuse, and two threads one that travels and one
that is led astray.

`CHECK_DEADLOCK FALSE` is set where the system really stops: a service that has exited (`ClientDrain`, `LinuxAudio`,
`WindowsCamera`), a bridge that is gone for good (`FrameTransport`) and a sensor that has sent its last packet (`Frames`, a
bound). `windows_broker` checks deadlock as a question of its own: the end of its host stutters, so any other state without a successor
would be threads that wait for each other.

### Fairness

`ClientDrain`: threads are scheduled; a mutex that is free again and again is taken in the end, which is strong fairness of the threads that
take it; clients end, because their sockets have timeouts and their loops look at `run`. `CameraHub`: threads are scheduled (weak), the
worker runs (weak), a stream whose engine does not run times out (weak: nothing lowers the flag meanwhile), and a sensor that stays on the
bus does not refuse its commands for ever (strong fairness of an apply that leaves the hub online). Clients need not come, frames need not
arrive, sensors need not stay. `FirmwareLoader`: the loop's thread is scheduled (weak); its reads have timeouts. `VideoEngine`: the threads
of video and depth are scheduled (weak); their waits have timeouts (`kIsoWaitMs`, `kScannerStatePollMs`). `BridgeNodes`: the loop is
scheduled (weak; a run of the registrar is ended after 20 s), and the thread of a node opens its sensor and ends (weak). In these instances
failures and events are finitely many, a bound, so that their liveness speaks of what happens after the last one: nothing stays wrong for
good. Nothing else is assumed; the other specifications have no fairness and their runs check safety.

## 4. What the code does and its comments do not say

With a run that shows it:

- **A tilt that is issued twice** (`motor_session_reissue`). A 1414 command is one control transfer; when it times out or fails in a late
  stage after the motor took it, `issue_tilt_1414_locked` reports an error (`broker.cpp:543`), `with_fresh_handle_retry_locked` (666–684)
  closes the handle and issues the command again. Line 183 says why that should not be: "a retry would restart the travel".
- **A lost wakeup at shutdown** (`client_drain_lost`). The Broker's and the CameraBridge's last client thread counts down and notifies
  without the mutex `main` waits with (`broker.cpp:735`, `camera_bridge.cpp:747`). Between `main`'s test and its sleep both can happen, and
  `main` waits for ever. `camera_ip.cpp:323` takes the mutex and says why.
- **A request that reaches another sensor** (`windows_broker_routing`). The only control interface of a class that is present is taken
  whatever its id, so with two Kinects of which one has lost its control function a request for that one tilts the other
  (`…/broker/Kinect360RemoldBroker.cpp:326`; lines 317–319 say that this must not be). So does one whose function is there but cannot be
  opened: the code falls through to the next class (399–403).

Seen while modelling, and why the properties above are stated as they are. Linux:

- Status and the SDK's LED look at `tilt_in_flight_` before they take the mutex, so a tilt that starts in between is waited for
  (`broker.cpp:139`; `src/docs/MOTION.md:93` says they are answered at once).
- A tilt transfer may take effect and be reported as failed. On the 1414 the command is repeated (above), and if the second attempt does
  not get through the answer is a failure although the motor travels; on the 1473 the same holds of the OUT transfer, without a repetition.
  `CompletedIsLast` and `CompletedTiltSucceeds` are about the transfers that were reported complete, which is what the code can know.
- The 1414 path returns success whatever `wait_tilt_1414_locked` ends with, after one attempt (`broker.cpp:183`), while
  `src/docs/ARCHITECTURE.md:212` and `src/docs/FUNCTIONALITY-STATUS.md:26` say that it "retries once with a fresh handle when its
  verification fails".
- The 1473 tilt is committed by its OUT transfer; an error of the acknowledgement releases the session while the motor travels, and the quiet
  time is computed from the last angle read, which may be older than the last travel (`broker.cpp:566`, 528–530); once the handle has been
  closed no angle is known and the full range is assumed (346, 537). `SilentKnownTravel` is about the travels the session knows: acknowledged,
  and begun at the angle it believes in or at none.
- A subscription that was granted and whose reply cannot be written is not released (`camera_bridge.cpp:817`), so after the process has
  ended motion is polled and the engines run for nobody; `camera_bridge.cpp:130` and `src/docs/MOTION.md:51` say that polling runs only
  while "a frame consumer is active". No property speaks of the consumers; the counters of `UsersAreLeases` count such a subscription.
- Superseded sockets are shut down by number after the lock is released (`camera_bridge.cpp:366`), when the number may belong to somebody
  else.
- A device-scoped Ping through a handle opened before an unplug succeeds (`broker.cpp:155`).
- The mark that RGB HQ is unavailable is never cleared while the hub lives (`camera_bridge.cpp:590`), and it may be made for an engine that a
  refused subscription had switched off.
- A projector command that took effect but whose reply was lost leaves the projector on (`kinect_usb_camera.cpp:479`).
  `Arbitrated` therefore says nothing about the projector.
- Without an ISO queue a lost sensor is not noticed, and a sensor replugged within the grace time before anything streamed is not
  reopened (`camera_bridge.cpp:703`). `DemandServed` is about sensors that stay.
- A packet of the old session that arrives after `restart()` may begin a frame the new session completes (`kinect_usb_camera.cpp:366`).
  `WholeUnlessFlagged` and `NoForeignPixels` leave such a frame out (`OfSession`).
- A superseding subscription does not clear the queues its predecessor leaves unused (`camera_bridge.cpp:331`, `466`), so the next
  subscriber begins with old frames. `NothingSkipped` and `TimeOrder` hold for those too.
- In the Broker and the CameraBridge `main` may see the count at zero and return while the last thread has still to notify
  (`broker.cpp:736`). `NoneAfterExit` is proved for the guarded service.
- The audio node keeps the name of a PCM that has left the bus (`audio_bridge.cpp:268` against `mark_missing`), so for a moment it may open
  the card another sensor got; the slot of a node depends on the set of sensors when it was made (`src/docs/linux/RUNTIME.md:62`); and a
  node that ever had a PCM never expires (line 21 there). `CountersBalanced` and `StopLeavesNothing` do not depend on it.
- An upload that is stopped in the middle launches what it has; a stale reply of the boot ROM shifts all acknowledgements that follow, and
  `RunsWholeImage` leaves those sensors out (`mixed`); a launched sensor that is back in its boot ROM within six scans is not tried again, and
  `PendingIsTried` is about those not taken for launched.

Windows Broker:

- Status and the SDK's LED look at `tiltInFlight` before they lock, so one that looked just before queues behind the travel (lines 882, 1166).
- Two contexts may hold handles of one sensor under different keys of `gPhysicalIoMutexes`: a control function can carry another id than the
  camera, a session opened without an id before anything was published keeps the key it had (125–128), and a fallback leads to somebody
  else's interface (above). `TravelAlone` is about threads that are routed to the sensor they name, or to any if they name none, under the
  camera's id (`Routed`).
- After a failed command `Recover1473ControlAfterFailure` aborts, resets and flushes the control pipes (527–541, called at 946) when the
  mutex of the interface has been released, and a tilt through the other context of the sensor may travel by then; line 525 says that
  healthy interfaces "are never reset or flushed", 903–906 that the mutex is there so that nothing can "cut into a 1473 motor
  transaction". `TravelAlone` is about transactions, and about recoveries in the context that travels.
- `Wait1473Overlapped` reports a timeout also when the transfer completed while it was cancelled (429–445), so a tilt could be written twice
  on the wire; `CommittedOnce` is about what the Broker knows to be written.

Windows CameraBridge:

- `Open` sets the shared memory up with the sequence back at 2 (`windows/…/Kinect360RemoldCameraBridge.cpp:256`, 271). A reader that was
  copying while the bridge was replaced may find the number it began with and return a mixture of both; `SharedFrame` promises nothing to
  such a reader. A conversion worker that still holds a frame when colour stops publishes it after `SetOnline(false)` (line 1939) and the
  sensor reads as online again; `OfflineBetweenSessions` holds because the node sets it offline once more after the workers have been joined
  (line 2585).
- A session may begin with a video engine that still runs from a session that ended badly: until it is stopped, registers are
  written while it streams (`inherited`; `FramesOfOneMode` and `ModeSetWhileStopped` leave it out).
- A projector command whose reply is lost takes effect and is taken for failed (`Late`): the projector may stay lit, and
  `EnginesFollowDemand` is checked without it.
- The depth assembler is not reset when the projector pauses (2219–2227): with the first packet lost and a number that happens to fit, a
  frame may hold depth of before and after the pause (`OfSession`).
- The RGB and the RGB HQ worker both publish RGB, so frames around a change of mode may come out of order. Infrared has no priority: a
  subscription that conflicts is refused (`src/docs/windows/ARCHITECTURE.md:54` reads otherwise).
- A client whose RGB HQ was accepted before the sensor was marked and that is added after `MarkRgbHqUnavailable` has removed the others keeps
  it until the next timeout marks the sensor again (491–509).
- A node expires three seconds after the last *scan* that saw its sensor (2688), not after the sensor left, and the end of the service
  ignores a manifest it cannot remove (2773).

## 5. Proofs

All theorems hold for every value of the constants that the modules' assumptions admit. The assumptions are: finite sets of threads,
connections, clients and listeners; a finite set of audio sensors that is not empty; distinct names for "nobody"; angles within
-27..27; valid masks; positive bounds; parts of a picture not named like its metadata; and of the sequence numbers that the hub gives up on
a silent stream before they come round to the same place of a frame (`StallAssumption`; section 3 has the numbers). The bounds on events,
faults and frames are constants too: what is proved holds for any number of them.

Every safety invariant and every action property that a passing run checks is a theorem. Hardly one of them is inductive as it stands; what
each proof adds is the invariant that is.

- `MotorSession_proofs`: `TypeCorrect`, `MutualExclusion`, `TiltVisible`, `NoCommandAfterCompleted`, `CompletedIsSuccess`, `PrimingFirst`,
  `QuietCoversTravel`, `VerifiedMeansThere`. Failing transfers take effect or not in all of them. That no command follows one reported
  complete needs to know that up to the `act` place none has been, and that every attempt has its own command still to issue
  (`Issuance`); that the counter is positive while a tilt owns the motor needs that it *is* the number of threads inside `tilt()`
  (`Counted`, a cardinality); that a known travel is silent needs that its owner still waits for the very goal and knew its start
  (`TravelWatched`), and an arithmetic fact about the time budget; that a verified tilt is where it was asked to go needs that while the
  handle is live nobody has sent the motor elsewhere (`GoalIsRequest`). `IInv` is the conjunction; one lemma per conjunct goes
  through the actions.
- `CameraHub_proofs`: `CountersAreLeases`, `OneLease`, `LostLeasesAreTold`, `Arbitration`, `RefusalIsLocal`, `TypeCorrect`, for
  any number of connections, processes and any masks. The heart of the bookkeeping is `Counted`: each counter is the number of leases with that
  stream, shown through erasing, adding, revoking and rolling back leases by lemmas about cardinalities; `LostIsTold` strengthens the
  telling to the moment of the grant, and `Fresh` says that a connection that has not been answered has no lease. The device has an
  invariant of its own: a stream that is on is sent in its mode or not at all (`VideoKnown`), for which there is a lemma for every operation of `UsbCamera` and for every stage of `apply_locked`, each through every failure of every command.
- `Frames_proofs`, first half: `TypeCorrect`, `FramesAreWhole`, `PixelsOfOneFrame`, `BackInStep`, for any frame size, modulus and bound on
  losses below it, on Linux and on Windows. An assembler cannot see that a whole round of numbers is missing, so "what it holds is one frame" is
  not inductive: `InFrame` lets each place be off by the rounds that were not seen, and the flag of the last packet, which is like no
  other's, shows with `StallAssumption` that there were none. `Resynchronises` is a bound on a count of packets; `Following` and
  `Completed` say where the assembler is after each number of clean ones.
- `Frames_proofs`, second half: `QueueTypeCorrect`, `SentInOrder`, `NoFrameSkipped`, for any number of subscribers and any length of queues. Queues
  are sorted by number and time, what a subscriber has not seen is not older than what it was sent last (`UnseenLater`), and
  they hold the newest frames without a gap (`LatestKept`): a queue that is full and drops its oldest keeps the last `Limit`, by a
  pigeonhole argument (`Pushed`).
- `LinuxAudio_proofs`: `SlotsApart`, `NodesTypeCorrect`, `CountersFollowThreads`, `ClientsMissNoFrame`, `StoppedNodesLeaveNothing`,
  `SensorsRunWholeImage`. The slot assignment is a recursive function over the list of sensors; that it gives each one a slot of its own
  is shown by looking at the first sensor for which it would not. The invariant of the nodes says where every client is (`Served`), what a
  node that is gone has given back (`Idle`), and that the stream counter is the number of substreams taken. The loader's says that the pages
  acknowledged so far are in the device (`AckedAreWritten`), which rests on what a status that carries the tag of
  the last page means (`OwnStatusIsTrue`).
- `BrokerContexts_proofs`: `TypeCorrect`, `TiltCommittedOnce`, `TiltSeen`, `TravelIsAlone`. The counter of a context
  is the number of threads inside a tilt of it (`CounterIsTilts`); who is inside a context holds its mutex and who uses an interface holds that
  one's (`MutexHeld`, `IoHeld`); `OnTheWire` relates the place of a thread to what has been written. `TravelIsAlone` needs no more than
  `IoHeld` and `MutexHeld`: a thread that is routed to its own sensor has the key of that sensor, so two of them at one sensor would hold one
  mutex, and two in one context the other. It holds for any number of sensors, aliases and contexts, through every fallback; that the fallbacks lead threads astray, who
  may then disturb each other, is the violation of section 4.
- `WindowsCamera_proofs`: `PortTypeCorrect`, `LeasesFollowThreads`, `LeasesArbitrated`, `EngineFramesOfOneMode`, `EngineModeSetWhileStopped`, `WorkerTakesNewest`,
  `CamerasKeepGrace`. Each part has its own invariant. Port: `m_streamMask` is what the sessions in `m_clients` want, a lease has its
  thread, and a session that lost its lease has been or is about to be told (`OrphanIsTold`). Engine: in a session that found the engine stopped, it is stopped from `StopEngine` to
  `StartEngine`, its reads are empty from `CancelReads` on, and the registers hold the mode it is started in; `EngineInv` says what remains
  true of an inherited one. Worker: the double buffer has one pending frame at most, the newest. Nodes: a camera is missing for no longer than the
  scans have missed its sensor, and what a pass is about to remove is overdue.
- `ClientDrain_proofs`: `CountRight`, `LimitHolds`, `NoThreadOutlivesMain` and `ImplementsDrain`, for any number of listeners, clients and
  any limit, the first two with and without the mutex. The invariant says that the count is the threads plus the connections between count
  and thread, that listeners hold different ones (`PendingApart`), and that main waits only when no listener can admit (`ServiceClosed`).
  `ImplementsDrain` maps every step to a step of `Drain` or a stutter.
- `FrameTransport_proofs`: `TypeCorrect`, `Odd`, `Offline` and `Implements`, for any number of readers, workers and picture parts. The
  invariant says what an even sequence means (`Whole`: memory holds the last published frame), what the writer inside has stored so far
  (`JobsStored`), where in the life of the node each kind of job is done (`Placed`), and of readers that as long as the sequence is the one
  they began with every word they have loaded is the word in memory (`Current`). Two slots are not needed for any of it: the sequence alone
  protects the copy.

`OwnerInside` (`MutualExclusion`), `OneLeasePerProcess` (`OneLease`), `AtMostMax` (`LimitHolds`), `OddWhileWriting` (`Odd`) and the type
invariants of `MotorSession`, `CameraHub`, `FrameAssembler`, `FrameQueue`, `FrameTransport`, `AudioNodes`, `ScannerPort` and `BrokerContexts` are proved for
every instance and not checked again by the runs.

Only model-checked: liveness (`DemandServed`, `LostLeaseEnds`, `SignalEnds`, the fairness of `DrainSpec`, `PendingIsTried`,
`EnginesFollowDemand`, `Converges`), as the prover has no reasoning about ENABLED; and that the three violations of section 4 happen.
Induction over data and recursive operators are out of its reach as well; the modules declare no recursive operator, and their one
recursive function (the slots) is reasoned about by its equation.

## 6. Not modelled, and what is left

What remains to be proved about the modules there are: the type invariants of the engine, the worker and the loop of the Windows camera and of
the firmware loader, of which the proofs carry what they need; and more refinement: a scanner port, a frame queue and an audio fan-out promise the same thing,
that a subscriber is served until it is told, which an abstract specification could say once.

Not modelled, in the order of what a model would add: the Windows AudioBridge; Studio's RGB-D workers and the pairing of depth and colour;
the Linux virtual cameras' slots on disk and Smart tilt; the IP camera's feeder, back-off and snapshots; the Linux camera nodes, the motion
samplers and settings files; USB command tags and the completion of ISO transfers; the Kinect One driver's leases, body tracking's
mailboxes, surveillance.

Left out for good: image, depth and audio arithmetic, geometry, inference and user interface, in which TLA+ has nothing to say; wire layout,
parsing and configuration files; installation, build scripts and packaging.

Run a model with `tlc -config <cfg> <module>` as `PROJECT.json` pairs them, a proof with `tlapm <module>_proofs.tla`.
