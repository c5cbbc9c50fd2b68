--------------------------- MODULE FirmwareLoader ---------------------------
(***************************************************************************)
(* firmware_loop and upload_firmware of the Linux AudioBridge: the thread  *)
(* that finds Kinect audio functions in their boot ROM, writes the USB     *)
(* audio firmware page by page and launches it.                            *)
(*                                                                         *)
(* The boot ROM is code outside the repository and modelled by the way     *)
(* the loader uses it: it answers a version request with a packet of its   *)
(* own and a status, every page and the launch with a status that carries  *)
(* the tag of the command.  A reply the host does not read in time stays   *)
(* in the pipe of the device, where the next read finds it.                *)
(***************************************************************************)
EXTENDS Naturals, Sequences, FiniteSets

CONSTANTS
    Sensors,            \* physical sensors
    Pages,              \* pages of the firmware image
    kDisconnectPasses,  \* scans without a sensor until its launch is forgotten
    MaxEvents,          \* bound: times a sensor is plugged, unplugged or reset
    MaxFaults           \* bound: transfers that fail although the device is there

\* Assumed of the constants, by the module that gives them values.
LoaderConstants ==
    /\ Pages \in Nat \ {0} /\ kDisconnectPasses \in Nat \ {0}
    /\ MaxEvents \in Nat /\ MaxFaults \in Nat

VARIABLES
    run,        \* the flag the signal handler clears
    camera,     \* sensors whose camera function is on the bus
    audio,      \* what each sensor's audio function is
    pipe,       \* replies of each boot ROM that nobody has read
    image,      \* pages in the memory of each sensor since it was powered
    launched,   \* firmware_loop: sensors that are not tried again
    absent,     \* firmware_loop: absent_passes
    pc,         \* where the loader is
    boot,       \* boot_devices still to visit: sensor -> its handle is good
    cur,        \* the sensor of the session being uploaded
    tag,        \* upload_firmware: tag of the current command
    mixed,      \* sensors with a page acknowledged by the status of an earlier attempt
    flags,      \* attempted, launched_any, failed
    firmwareState,
    spent       \* events and faults so far

bus == <<camera, audio, image>>
world == <<bus, mixed>>
pass == <<launched, absent, flags, firmwareState>>
vars == <<run, world, pipe, pass, pc, boot, cur, tag, spent>>

None == "none"
NoFlags == [attempted |-> FALSE, launchedAny |-> FALSE, failed |-> FALSE]

\* A packet in the pipe of a boot ROM; "own" when it answers the command sent
\* last, which the host cannot see.
Packet == [kind : {"version", "ok", "error"}, tag : 1..(Pages + 2), own : BOOLEAN]
Reply(kind) == [kind |-> kind, tag |-> tag, own |-> TRUE]

\* find_physical_sensors: any function of the sensor is enough.
Physical == {s \in Sensors : s \in camera \/ audio[s] \in {"boot", "uac"}}

TypeOK ==
    /\ run \in BOOLEAN
    /\ camera \subseteq Sensors
    /\ audio \in [Sensors -> {"out", "boot", "leaving", "uac"}]
    /\ pipe \in [Sensors -> Seq(Packet)]
    /\ image \in [Sensors -> SUBSET (1..Pages)]
    /\ mixed \subseteq Sensors /\ launched \subseteq Sensors
    /\ absent \in [Sensors -> 0..kDisconnectPasses]
    /\ \A s \in launched : absent[s] < kDisconnectPasses
    /\ pc \in {"scan", "open", "pick", "probe", "version", "probed", "page",
               "written", "launch", "final", "rest", "done"}
    /\ boot \in [Sensors -> {None, "good", "dead"}]
    /\ cur \in Sensors \cup {None}
    /\ (cur = None) = (pc \in {"scan", "open", "pick", "rest", "done"})
    /\ tag \in 0..(Pages + 2)
    /\ flags \in [attempted : BOOLEAN, launchedAny : BOOLEAN, failed : BOOLEAN]
    /\ firmwareState \in {"Idle", "Uploading", "Launched", "ErrorRetrying"}
    /\ spent \in [events : 0..MaxEvents, faults : 0..MaxFaults]

Init ==
    /\ run = TRUE
    /\ camera = {} /\ audio = [s \in Sensors |-> "out"]
    /\ pipe = [s \in Sensors |-> <<>>] /\ image = [s \in Sensors |-> {}]
    /\ mixed = {} /\ launched = {} /\ absent = [s \in Sensors |-> 0]
    /\ pc = "scan" /\ boot = [s \in Sensors |-> None] /\ cur = None
    /\ tag = 0 /\ flags = NoFlags /\ firmwareState = "Idle"
    /\ spent = [events |-> 0, faults |-> 0]

-----------------------------------------------------------------------------
(* The bus.                                                                *)

Event == /\ spent.events < MaxEvents
         /\ spent' = [spent EXCEPT !.events = @ + 1]

\* The boot ROM starts anew.
Reset(s) ==
    /\ pipe' = [pipe EXCEPT ![s] = <<>>] /\ image' = [image EXCEPT ![s] = {}]
    /\ mixed' = mixed \ {s}

\* A sensor is plugged in: its audio function starts in the boot ROM, its
\* camera function comes with it or later.
Plug(s) ==
    /\ audio[s] = "out" /\ s \notin camera
    /\ Event
    /\ audio' = [audio EXCEPT ![s] = "boot"]
    /\ \E c \in SUBSET {s} : camera' = camera \cup c
    /\ Reset(s)
    /\ UNCHANGED <<run, pass, pc, boot, cur, tag>>

\* It is taken away: every handle of its functions is dead from then on.
Unplug(s) ==
    /\ audio[s] # "out" \/ s \in camera
    /\ Event
    /\ audio' = [audio EXCEPT ![s] = "out"]
    /\ camera' = camera \ {s}
    /\ boot' = [boot EXCEPT ![s] = IF @ = "good" THEN "dead" ELSE @]
    /\ Reset(s)
    /\ UNCHANGED <<run, pass, pc, cur, tag>>

CameraAppears(s) ==
    /\ audio[s] # "out" /\ s \notin camera
    /\ camera' = camera \cup {s}
    /\ UNCHANGED <<run, audio, image, mixed, pipe, pass, pc, boot, cur, tag, spent>>

\* A launched function comes back as a USB audio device, or in its boot ROM
\* when the image did not run.
Reenumerate(s) ==
    /\ audio[s] = "leaving"
    /\ \/ /\ audio' = [audio EXCEPT ![s] = "uac"]
          /\ pipe' = [pipe EXCEPT ![s] = <<>>] /\ UNCHANGED <<image, mixed, spent>>
       \/ Event /\ Reset(s) /\ audio' = [audio EXCEPT ![s] = "boot"]
    /\ boot' = [boot EXCEPT ![s] = IF @ = "good" THEN "dead" ELSE @]
    /\ UNCHANGED <<run, camera, pass, pc, cur, tag>>

\* SIGINT or SIGTERM.
Stop == /\ run
        /\ run' = FALSE
        /\ UNCHANGED <<world, pipe, pass, pc, boot, cur, tag, spent>>

-----------------------------------------------------------------------------
(* Transfers of the session with cur.                                      *)

Fault == /\ spent.faults < MaxFaults
         /\ spent' = [spent EXCEPT !.faults = @ + 1]

Alive == boot[cur] = "good"

\* The command reaches the boot ROM, which answers with packets.
Answer(packets) ==
    pipe' = [pipe EXCEPT ![cur] =
        [i \in DOMAIN @ |-> [@[i] EXCEPT !.own = FALSE]] \o packets]

\* upload_firmware returns false: the sensor stays eligible.
Fail ==
    /\ flags' = [flags EXCEPT !.failed = TRUE]
    /\ firmwareState' = "ErrorRetrying"
    /\ boot' = [boot EXCEPT ![cur] = None] /\ cur' = None /\ pc' = "pick"
    /\ UNCHANGED <<launched, absent, tag>>

\* It returns true.
\* Mutant: every device that was opened counts as launched.
Mut_Succeed ==
    /\ launched' = launched \cup {s \in Sensors : boot[s] # None}
    /\ absent' = [absent EXCEPT ![cur] = 0]
    /\ flags' = [flags EXCEPT !.launchedAny = TRUE]
    /\ firmwareState' = "Launched"
    /\ boot' = [boot EXCEPT ![cur] = None] /\ cur' = None /\ pc' = "pick"
    /\ UNCHANGED tag

Succeed ==
    /\ launched' = launched \cup {cur} /\ absent' = [absent EXCEPT ![cur] = 0]
    /\ flags' = [flags EXCEPT !.launchedAny = TRUE]
    /\ firmwareState' = "Launched"
    /\ boot' = [boot EXCEPT ![cur] = None] /\ cur' = None /\ pc' = "pick"
    /\ UNCHANGED tag

Proceed(next) == pc' = next /\ UNCHANGED <<pass, boot, cur>>

\* bulk_write fails: the device is gone, or the transfer is.
WriteFails ==
    /\ \/ ~Alive /\ UNCHANGED spent
       \/ Alive /\ Fault
    /\ Fail
    /\ UNCHANGED <<run, world, pipe>>

\* The packet the next read takes.
Oldest == Head(pipe[cur])

\* bulk_read_packet: a packet, when there is one, taken out of the pipe ...
Read(accepted, next) ==
    /\ Alive /\ pipe[cur] # <<>>
    /\ pipe' = [pipe EXCEPT ![cur] = Tail(@)]
    /\ IF accepted THEN Proceed(next) ELSE Fail
    /\ UNCHANGED <<run, bus, spent>>

\* ... or an error; after a timeout the reply is still to come.
ReadFails ==
    /\ \/ (~Alive \/ pipe[cur] = <<>>) /\ UNCHANGED spent
       \/ Alive /\ Fault
    /\ Fail
    /\ UNCHANGED <<run, world, pipe>>

\* boot_status_ok for the current tag.
StatusOk(p) == p.kind = "ok" /\ p.tag = tag

-----------------------------------------------------------------------------
(* upload_firmware.                                                        *)

Probe ==
    /\ pc = "probe"
    /\ \/ Alive /\ Answer(<<Reply("version"), Reply("ok")>>) /\ Proceed("version") /\ UNCHANGED <<run, world, spent, tag>>
       \/ WriteFails

ReadVersion ==
    /\ pc = "version"
    /\ (Read(TRUE, "probed") /\ UNCHANGED <<tag, mixed>>) \/ ReadFails

ProbeStatus ==
    /\ pc = "probed"
    /\ \/ /\ Read(StatusOk(Oldest), "page") /\ UNCHANGED mixed
          /\ tag' = IF pc' = "page" THEN tag + 1 ELSE tag
       \/ ReadFails

\* The loop over the pages, which is left early when the service stops.
\* Mutant: the last page is left out.
Mut_LastPage == tag > Pages \/ ~run
LastPage == tag - 1 > Pages \/ ~run

WritePage ==
    /\ pc = "page" /\ ~LastPage
    /\ \/ /\ Alive
          /\ \/ /\ Answer(<<Reply("ok")>>)
                /\ image' = [image EXCEPT ![cur] = @ \cup {tag - 1}]
                /\ UNCHANGED spent
             \/ Fault /\ Answer(<<Reply("error")>>) /\ UNCHANGED image
          /\ Proceed("written")
          /\ UNCHANGED <<run, camera, audio, tag, mixed>>
       \/ WriteFails

PageStatus ==
    /\ pc = "written"
    /\ \/ /\ Read(StatusOk(Oldest), "page")
          /\ tag' = IF pc' = "page" THEN tag + 1 ELSE tag
          /\ mixed' = IF pc' = "page" /\ ~Oldest.own THEN mixed \cup {cur} ELSE mixed
       \/ ReadFails

\* The launch; the ROM may answer before it leaves the bus.
Launch ==
    /\ pc = "page" /\ LastPage
    /\ \/ /\ Alive
          /\ \E reply \in {<<>>, <<Reply("ok")>>} : Answer(reply)
          /\ audio' = [audio EXCEPT ![cur] = "leaving"]
          /\ Proceed("final")
          /\ UNCHANGED <<run, camera, image, mixed, spent, tag>>
       \/ WriteFails

\* The final read: a status, the disconnection, which counts as success, or a
\* timeout, which does not.
FinalRead ==
    /\ pc = "final"
    /\ \/ /\ Alive /\ pipe[cur] # <<>>
          /\ pipe' = [pipe EXCEPT ![cur] = Tail(@)]
          /\ IF StatusOk(Oldest) THEN Succeed ELSE Fail
          /\ UNCHANGED <<run, world, spent>>
       \/ (~Alive \/ audio[cur] # "boot") /\ Succeed /\ UNCHANGED <<run, world, pipe, spent>>
       \/ Alive /\ Fault /\ Fail /\ UNCHANGED <<run, world, pipe>>

-----------------------------------------------------------------------------
(* firmware_loop.                                                          *)

\* What becomes of the launches after a scan that saw these sensors.
Forgotten(seen) ==
    {s \in launched \ seen : absent[s] + 1 >= kDisconnectPasses}

Scan ==
    /\ pc = "scan" /\ run
    /\ LET seen == Physical IN
       /\ launched' = launched \ Forgotten(seen)
       /\ absent' = [s \in Sensors |->
            IF s \in launched \ (seen \cup Forgotten(seen)) THEN absent[s] + 1 ELSE 0]
    /\ flags' = NoFlags /\ pc' = "open"
    /\ UNCHANGED <<run, world, pipe, firmwareState, boot, cur, tag, spent>>

\* open_boot_devices: a device that cannot be claimed is left out.
OpenBootDevices ==
    /\ pc = "open"
    /\ LET found == {s \in Sensors : audio[s] = "boot"} IN
       \E opened \in SUBSET found :
          /\ IF opened = found THEN UNCHANGED spent ELSE Fault
          /\ boot' = [s \in Sensors |-> IF s \in opened THEN "good" ELSE None]
    /\ pc' = "pick"
    /\ UNCHANGED <<run, world, pipe, pass, cur, tag>>

Skipped(s) == s \in launched

Upload(s) ==
    /\ pc = "pick" /\ run /\ boot[s] # None /\ ~Skipped(s)
    /\ flags' = [flags EXCEPT !.attempted = TRUE]
    /\ firmwareState' = "Uploading"
    /\ cur' = s /\ tag' = 1 /\ pc' = "probe"
    /\ UNCHANGED <<run, world, pipe, launched, absent, boot, spent>>

\* The end of the visits: every handle is closed.
Rest ==
    /\ pc = "pick"
    /\ ~run \/ \A s \in Sensors : boot[s] # None => Skipped(s)
    /\ boot' = [s \in Sensors |-> None]
    /\ firmwareState' = IF flags.launchedAny \/ flags.attempted THEN firmwareState ELSE "Idle"
    /\ pc' = "rest"
    /\ UNCHANGED <<run, world, pipe, launched, absent, flags, cur, tag, spent>>

\* After the delay a launch counts as over.
EndPass ==
    /\ pc = "rest"
    /\ firmwareState' =
         IF (flags.launchedAny /\ run) \/ ~(flags.failed \/ flags.launchedAny)
         THEN "Idle" ELSE firmwareState
    /\ pc' = "scan"
    /\ UNCHANGED <<run, world, pipe, launched, absent, flags, boot, cur, tag, spent>>

Finish ==
    /\ pc = "scan" /\ ~run
    /\ pc' = "done"
    /\ UNCHANGED <<run, world, pipe, pass, boot, cur, tag, spent>>

Loader ==
    \/ Scan \/ OpenBootDevices \/ Rest \/ EndPass \/ Finish
    \/ Probe \/ ReadVersion \/ ProbeStatus \/ WritePage \/ PageStatus
    \/ Launch \/ FinalRead
    \/ \E s \in Sensors : Upload(s)

Next ==
    \/ Stop
    \/ \E s \in Sensors : Plug(s) \/ Unplug(s) \/ CameraAppears(s) \/ Reenumerate(s)
    \/ Loader

Fairness == WF_vars(Loader)

Spec == Init /\ [][Next]_vars /\ Fairness

-----------------------------------------------------------------------------
\* A sensor that runs the firmware has every page of it, although pages are
\* lost, refused and written again; except when the service was stopped in the
\* middle of an upload, or when the late status of an earlier attempt stood in
\* for the one of a page (the loop of upload_firmware, boot_status_ok).
RunsWholeImage ==
    \A s \in Sensors :
        run /\ audio[s] \in {"leaving", "uac"} => image[s] = 1..Pages \/ s \in mixed

\* A boot function that stays and is not taken for launched is tried, also
\* when other sensors fail all the time (firmware_loop).
PendingIsTried ==
    \A s \in Sensors :
        (audio[s] = "boot" /\ s \notin launched)
            ~> (cur = s \/ audio[s] # "boot" \/ ~run)
=============================================================================
