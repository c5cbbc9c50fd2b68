------------------------------ MODULE UsbCamera ------------------------------
(***************************************************************************)
(* The libusb camera object of one Kinect 360 and the two firmware engines *)
(* behind it.  The object keeps its own idea of what runs; the firmware    *)
(* registers say what really runs.  The two part when a register write     *)
(* fails: it may have been lost, or only its reply may have been.          *)
(*                                                                         *)
(* An operation maps a record d to the set of records it may end in.  The  *)
(* fields it uses, of a larger record, are                                 *)
(*   live         the handle refers to the sensor that is on the bus       *)
(*   armed        an ISO queue has been submitted in this session          *)
(*   running, vmode, depthRunning, projector                               *)
(*                video_running_, video_mode_, depth_running_,             *)
(*                projector_on_                                            *)
(*   fw           what firmware register 0x05 makes endpoint 0x81 send     *)
(*   laser        firmware register 0x06: the projector and the depth      *)
(*   rc           result of the operation                                  *)
(***************************************************************************)
CONSTANT Faulty  \* commands that may fail although the sensor is there

Modes    == {"rgb", "hq", "ir"}
Commands == {"videoConfig", "videoEnable", "videoStop",
             "depthIdle", "depthConfig", "depthEnable", "depthStop",
             "projector", "events"}

ASSUME FaultyAssumption == Faulty \subseteq Commands

\* A register write of new over old: its result and the value it leaves.
Write(d, cmd, old, new) ==
  IF ~d.live THEN {[rc |-> "fail", val |-> old]}
  ELSE {[rc |-> "ok", val |-> new]}
         \cup IF cmd \in Faulty THEN {[rc |-> "fail", val |-> v] : v \in {old, new}} ELSE {}

\* The engine counts as stopped even when the write that stops it failed.
SuspendVideo(d) ==
  IF ~d.running THEN {[d EXCEPT !.rc = "ok"]}
  ELSE {[d EXCEPT !.running = FALSE, !.rc = o.rc, !.fw = o.val] :
          o \in Write(d, "videoStop", d.fw, "off")}

\* Configure the stopped engine, arm its ISO queue once, then enable it.  A
\* failed enable is followed by a write that disables it again.
EnableVideo(d, m) ==
  LET configured == {[d EXCEPT !.vmode = m, !.rc = o.rc, !.fw = o.val] :
                       o \in Write(d, "videoConfig", d.fw, "off")}
      Enabled(i) == {[i EXCEPT !.armed = TRUE, !.running = (o.rc = "ok"),
                               !.rc = o.rc, !.fw = o.val] :
                       o \in Write(i, "videoEnable", "off", m)}
  IN  UNION {IF i.rc = "ok" THEN Enabled(i) ELSE {i} : i \in configured}

StartVideo(d, m) ==
  IF d.running /\ d.vmode = m THEN {[d EXCEPT !.rc = "ok"]}
  ELSE UNION {IF i.rc = "ok" THEN EnableVideo(i, m) ELSE {i} : i \in SuspendVideo(d)}

\* Written only when the object thinks that the register changes.
SetProjector(d, cmd, on) ==
  IF d.projector = on THEN {[d EXCEPT !.rc = "ok"]}
  ELSE {[d EXCEPT !.projector = (IF o.rc = "ok" THEN on ELSE d.projector),
                  !.laser = o.val, !.rc = o.rc] :
          o \in Write(d, cmd, d.laser, on)}

\* The depth engine is configured with the projector off.  A projector that
\* failed to turn on counts as off, so it is not turned off again.
StartDepth(d) ==
  LET idle == {[d EXCEPT !.laser = o.val, !.rc = o.rc,
                         !.projector = (o.rc # "ok" /\ d.projector)] :
                 o \in Write(d, "depthIdle", d.laser, FALSE)}
      Configured(i) == {[i EXCEPT !.rc = o.rc] : o \in Write(i, "depthConfig", 0, 0)}
      Enabled(i) == {[r EXCEPT !.depthRunning = (r.rc = "ok")] :
                       r \in SetProjector([i EXCEPT !.armed = TRUE], "depthEnable", TRUE)}
  IN  IF d.depthRunning THEN {[d EXCEPT !.rc = "ok"]}
      ELSE UNION {IF i.rc = "ok" THEN Enabled(i) ELSE {i} :
                    i \in UNION {IF j.rc = "ok" THEN Configured(j) ELSE {j} : j \in idle}}

SuspendDepth(d) ==
  IF ~d.depthRunning THEN {[d EXCEPT !.rc = "ok"]}
  ELSE {[r EXCEPT !.depthRunning = FALSE] : r \in SetProjector(d, "depthStop", FALSE)}

\* A handle to the sensor on the bus: nothing runs as far as the object knows,
\* the registers keep what an earlier session left in them.
OpenCamera(d) ==
  [d EXCEPT !.live = TRUE, !.armed = FALSE, !.running = FALSE,
            !.depthRunning = FALSE, !.projector = FALSE, !.rc = "none"]

\* Stop what the object thinks is running and forget the handle.
CloseCamera(d) ==
  LET quiet == UNION {UNION {SetProjector(j, "projector", FALSE) : j \in SuspendDepth(i)} :
                        i \in SuspendVideo(d)}
  IN  {[q EXCEPT !.live = FALSE, !.armed = FALSE, !.running = FALSE,
                 !.depthRunning = FALSE, !.projector = FALSE] : q \in quiet}
==============================================================================
