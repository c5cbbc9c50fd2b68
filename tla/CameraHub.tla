------------------------------ MODULE CameraHub ------------------------------
(***************************************************************************)
(* The CameraHub of one Kinect 360 in the Linux CameraBridge: it owns the  *)
(* sensor, counts what its subscribers want and drives the two firmware    *)
(* engines accordingly.  IR has priority on the video engine, and a        *)
(* process owns at most one subscription.                                  *)
(*                                                                         *)
(* dev_mu_ serialises Acquire, Release and the worker, so each is a step.  *)
(* What a connection does without it is not: the look at                   *)
(* rgb_hq_unavailable_ before the lock, the waking of superseded           *)
(* connections after it, the reply, and the streaming.                     *)
(*                                                                         *)
(* Timeouts are flags that may rise at any time while a stream runs; a     *)
(* frame lowers them.                                                      *)
(***************************************************************************)
EXTENDS UsbCamera, Integers, FiniteSets

CONSTANTS
  Conns,    \* connections that may be open at a time
  Pids,     \* processes; NoPid when the kernel does not tell
  NoPid,
  Masks     \* stream masks clients ask for

Streams == {"rgb", "hq", "ir", "depth"}

\* A mask names a stream and does not combine IR with colour.
ValidMask(m) == m # {} /\ ("ir" \in m => m \cap {"rgb", "hq"} = {})

ASSUME ConnsAssumption  == IsFiniteSet(Conns)
ASSUME MasksAssumption  == \A m \in Masks : m \subseteq Streams /\ ValidMask(m)

VARIABLES
  subs,     \* the subscriptions, see SubsType
  dev,      \* the hub's device state and the camera object, see DevType
  present,  \* the sensor is on the bus
  running,  \* running_
  \* connections
  pc, pid, fd, mask,
  wake      \* the connections a connection has superseded and not yet woken

conns == <<pc, pid, fd, mask, wake>>
vars  == <<subs, dev, present, running, conns>>

Places == {"off", "check", "acquire", "wake", "reply", "stream", "release", "close"}

\* users      rgb_users_, hq_rgb_users_, ir_users_, depth_users_
\* lease      the mask of the connection's entry in clients_, {} without one
\* alive      the connection's client_alive flag
\* cut        its socket was shut down by the hub
\* active     active_clients_, which the motion sampler polls by
\* hqBad      rgb_hq_unavailable_
SubsType ==
  [users : [Streams -> Nat], lease : [Conns -> SUBSET Streams],
   alive : [Conns -> BOOLEAN], cut : [Conns -> BOOLEAN],
   active : Nat, hqBad : BOOLEAN]

\* online     online_
\* videoOn    video_on_
\* mode       ir_mode_ and hq_mode_
\* seen       a video frame has arrived since the start
\* late       no video frame for the timeout of the mode
\* depthOn, depthLate   the same for depth
DevType ==
  [online : BOOLEAN, videoOn : BOOLEAN, mode : Modes, seen : BOOLEAN, late : BOOLEAN,
   depthOn : BOOLEAN, depthLate : BOOLEAN,
   live : BOOLEAN, armed : BOOLEAN, running : BOOLEAN, vmode : Modes,
   depthRunning : BOOLEAN, projector : BOOLEAN,
   fw : Modes \cup {"off"}, laser : BOOLEAN, rc : {"ok", "fail", "none"}]

TypeOK ==
  /\ subs \in SubsType
  /\ dev \in DevType
  /\ present \in BOOLEAN /\ running \in BOOLEAN
  /\ pc \in [Conns -> Places]
  /\ pid \in [Conns -> Pids \cup {NoPid}]
  /\ fd \in [Conns -> Nat]
  /\ mask \in [Conns -> SUBSET Streams]
  /\ wake \in [Conns -> SUBSET Conns]

Init ==
  /\ subs = [users |-> [s \in Streams |-> 0], lease |-> [c \in Conns |-> {}],
             alive |-> [c \in Conns |-> FALSE], cut |-> [c \in Conns |-> FALSE],
             active |-> 0, hqBad |-> FALSE]
  /\ dev = [online |-> FALSE, videoOn |-> FALSE, mode |-> "rgb", seen |-> FALSE,
            late |-> FALSE, depthOn |-> FALSE, depthLate |-> FALSE,
            live |-> FALSE, armed |-> FALSE, running |-> FALSE, vmode |-> "rgb",
            depthRunning |-> FALSE, projector |-> FALSE,
            fw |-> "off", laser |-> FALSE, rc |-> "none"]
  /\ present = TRUE /\ running = TRUE
  /\ pc = [c \in Conns |-> "off"]
  /\ pid = [c \in Conns |-> NoPid]
  /\ fd = [c \in Conns |-> 0]
  /\ mask = [c \in Conns |-> {}]
  /\ wake = [c \in Conns |-> {}]

-----------------------------------------------------------------------------
(* The subscriptions.                                                      *)

Leased(s) == {c \in Conns : s.lease[c] # {}}

\* Counters never go below zero.
AddUsers(users, m) == [s \in Streams |-> IF s \in m THEN users[s] + 1 ELSE users[s]]
DropUsers(users, n) ==
  [s \in Streams |-> IF users[s] > n[s] THEN users[s] - n[s] ELSE 0]

One(m) == [s \in Streams |-> IF s \in m THEN 1 ELSE 0]

\* How many leases of the connections in D name each stream.
Held(lease, D) == [s \in Streams |-> Cardinality({c \in D : s \in lease[c]})]

\* The leases of D are erased and no longer counted.
Erase(s, D) ==
  [s EXCEPT !.lease = [c \in Conns |-> IF c \in D THEN {} ELSE s.lease[c]],
            !.users = DropUsers(s.users, Held(s.lease, D))]

\* Sockets that are shut down when descriptor number n is: the open one.
Open(c)    == pc[c] # "off"
Holders(N) == {c \in Conns : Open(c) /\ fd[c] \in N}

\* Shut down the sockets numbered N and clear the alive flags of D.
Revoke(s, D, N) ==
  [s EXCEPT !.alive = [c \in Conns |-> c \notin D /\ s.alive[c]],
            !.cut   = [c \in Conns |-> c \in Holders(N) \/ s.cut[c]]]

\* Mutant: the HQ subscribers are not told.
Mut_MarkHqUnavailable(s) ==
  LET e == Erase(s, {c \in Conns : "hq" \in s.lease[c]})
  IN  [e EXCEPT !.hqBad = TRUE, !.active = Cardinality(Leased(e))]

\* mark_rgb_hq_unavailable_locked
MarkHqUnavailable(s) ==
  LET D == {c \in Conns : "hq" \in s.lease[c]}
      e == Revoke(Erase(s, D), D, {fd[c] : c \in D})
  IN  [e EXCEPT !.hqBad = TRUE, !.active = Cardinality(Leased(e))]

\* The first check of apply_locked: HQ has not delivered a single frame.
HqOverdue(d) == d.online /\ d.videoOn /\ d.mode = "hq" /\ ~d.seen /\ d.late

Applied(s, d) == IF HqOverdue(d) THEN MarkHqUnavailable(s) ELSE s

-----------------------------------------------------------------------------
(* apply_locked: drive the engines to what the counters ask for.           *)

\* Mutant: RGB HQ wins the video engine.
Mut_Want(users) ==
  [video |-> users["rgb"] + users["hq"] + users["ir"] > 0,
   mode  |-> IF users["hq"] > 0 THEN "hq" ELSE IF users["ir"] > 0 THEN "ir" ELSE "rgb",
   depth |-> users["depth"] > 0]

\* IR wins the video engine, then RGB HQ.
Want(users) ==
  [video |-> users["rgb"] + users["hq"] + users["ir"] > 0,
   mode  |-> IF users["ir"] > 0 THEN "ir" ELSE IF users["hq"] > 0 THEN "hq" ELSE "rgb",
   depth |-> users["depth"] > 0]

\* Mutant: a video stream is not watched.
Mut_Stalled(d, w) == d.depthOn /\ w.depth /\ d.depthLate

\* A stream that is still wanted has stopped.
Stalled(d, w) ==
  \/ d.videoOn /\ w.video /\ d.late /\ (w.mode = "hq" <=> d.mode = "hq")
  \/ d.depthOn /\ w.depth /\ d.depthLate

\* Each stage runs when the ones before it succeeded.
StopVideoStage(d, w) ==
  IF d.videoOn /\ (~w.video \/ w.mode # d.mode)
  THEN {[e EXCEPT !.videoOn = (e.rc # "ok"), !.seen = (e.rc # "ok" /\ d.seen),
                  !.late = (e.rc # "ok" /\ d.late)] : e \in SuspendVideo(d)}
  ELSE {d}

StartVideoStage(d, w) ==
  IF d.rc = "ok" /\ w.video /\ ~d.videoOn
  THEN {[e EXCEPT !.mode = w.mode, !.videoOn = (e.rc = "ok"),
                  !.seen = FALSE, !.late = FALSE] : e \in StartVideo(d, w.mode)}
  ELSE {d}

StopDepthStage(d, w) ==
  IF d.rc = "ok" /\ d.depthOn /\ ~w.depth
  THEN {[e EXCEPT !.depthOn = (e.rc # "ok"), !.depthLate = (e.rc # "ok" /\ d.depthLate)] :
          e \in SuspendDepth(d)}
  ELSE {d}

StartDepthStage(d, w) ==
  IF d.rc = "ok" /\ w.depth /\ ~d.depthOn
  THEN {[e EXCEPT !.depthOn = (e.rc = "ok"), !.depthLate = FALSE] : e \in StartDepth(d)}
  ELSE {d}

ProjectorStage(d, w) ==
  IF d.rc = "ok"
  THEN SetProjector(d, "projector", (w.video /\ w.mode = "ir") \/ w.depth)
  ELSE {d}

Apply(d, w) ==
  IF ~d.online \/ Stalled(d, w) THEN {[d EXCEPT !.rc = "fail"]}
  ELSE LET S1 == StopVideoStage([d EXCEPT !.rc = "ok"], w)
           S2 == UNION {StartVideoStage(e, w) : e \in S1}
           S3 == UNION {StopDepthStage(e, w)  : e \in S2}
           S4 == UNION {StartDepthStage(e, w) : e \in S3}
       IN  UNION {ProjectorStage(e, w) : e \in S4}

OpenDevice(d) ==
  [OpenCamera(d) EXCEPT !.online = TRUE, !.videoOn = FALSE, !.mode = "rgb",
                        !.seen = FALSE, !.late = FALSE,
                        !.depthOn = FALSE, !.depthLate = FALSE]

CloseDevice(d) ==
  {[e EXCEPT !.online = FALSE, !.videoOn = FALSE, !.seen = FALSE, !.late = FALSE,
             !.depthOn = FALSE, !.depthLate = FALSE] : e \in CloseCamera(d)}

-----------------------------------------------------------------------------
(* The connections.                                                        *)

Goto(c, place) == pc' = [pc EXCEPT ![c] = place]

FreeFd == CHOOSE n \in 0..Cardinality(Conns) :
            /\ Holders({n}) = {}
            /\ \A k \in 0..(n - 1) : Holders({k}) # {}

\* Nothing in the hub refers to the connection any more.
Forgotten(c) == subs.lease[c] = {} /\ \A x \in Conns : c \notin wake[x]

\* A client connects and asks for m.  Its descriptor is the lowest free number.
Connect(c, p, m) ==
  /\ running
  /\ pc[c] = "off" /\ Forgotten(c)
  /\ Goto(c, "check")
  /\ pid' = [pid EXCEPT ![c] = p]
  /\ fd' = [fd EXCEPT ![c] = FreeFd]
  /\ mask' = [mask EXCEPT ![c] = m]
  /\ UNCHANGED <<subs, dev, present, running, wake>>

\* The look at rgb_hq_unavailable_, without dev_mu_.
Check(c) ==
  /\ pc[c] = "check"
  /\ Goto(c, IF "hq" \in mask[c] /\ subs.hqBad THEN "close" ELSE "acquire")
  /\ UNCHANGED <<subs, dev, present, running, pid, fd, mask, wake>>

\* The subscriptions of the same process.
Superseded(c) ==
  IF pid[c] = NoPid THEN {} ELSE {x \in Leased(subs) : pid[x] = pid[c]}

Granted(s, c) ==
  LET g == [s EXCEPT !.lease[c] = mask[c], !.alive[c] = TRUE]
  IN  [g EXCEPT !.active = Cardinality(Leased(g))]

\* Mutant: the superseded subscriptions come back uncounted.
Mut_RolledBack(s, c, old) ==
  [s EXCEPT !.lease = [x \in Conns |-> IF x \in old THEN subs.lease[x] ELSE s.lease[x]],
            !.users = DropUsers(s.users, One(mask[c]))]

\* Mutant: the superseded subscriptions stay erased.
Mut_Forgets(s, c, old) == [s EXCEPT !.users = DropUsers(s.users, One(mask[c]))]

\* The superseded subscriptions come back.
RolledBack(s, c, old) ==
  LET back == Held(subs.lease, old)
      less == DropUsers(s.users, One(mask[c]))
  IN  [s EXCEPT !.lease = [x \in Conns |-> IF x \in old THEN subs.lease[x] ELSE s.lease[x]],
                !.users = [t \in Streams |-> less[t] + back[t]]]

\* acquire under dev_mu_
Acquire(c) ==
  /\ pc[c] = "acquire"
  /\ IF ~dev.online
     THEN Goto(c, "close") /\ UNCHANGED <<subs, dev, wake>>
     ELSE LET old   == Superseded(c)
              fewer == Erase(subs, old)
              asked == [fewer EXCEPT !.users = AddUsers(fewer.users, mask[c])]
              s     == Applied(asked, dev)
          IN  /\ dev' \in Apply(dev, Want(s.users))
              /\ \/ /\ dev'.rc = "ok"
                    /\ subs' = Granted(s, c)
                    /\ wake' = [wake EXCEPT ![c] = old]
                    /\ Goto(c, IF old = {} THEN "reply" ELSE "wake")
                 \/ /\ dev'.rc # "ok"
                    /\ subs' = RolledBack(s, c, old)
                    /\ Goto(c, "close")
                    /\ UNCHANGED wake
  /\ UNCHANGED <<present, running, pid, fd, mask>>

\* Mutant: the superseded threads are not told.
Mut_Wake(c) ==
  /\ pc[c] = "wake"
  /\ subs' = Revoke(subs, {}, {fd[x] : x \in wake[c]} \ {fd[c]})
  /\ wake' = [wake EXCEPT ![c] = {}]
  /\ Goto(c, "reply")
  /\ UNCHANGED <<dev, present, running, pid, fd, mask>>

\* Tell the superseded connections, after dev_mu_ was released.
Wake(c) ==
  /\ pc[c] = "wake"
  /\ subs' = Revoke(subs, wake[c], {fd[x] : x \in wake[c]} \ {fd[c]})
  /\ wake' = [wake EXCEPT ![c] = {}]
  /\ Goto(c, "reply")
  /\ UNCHANGED <<dev, present, running, pid, fd, mask>>

\* The reply is written.  When that fails nothing releases the subscription.
Reply(c) ==
  /\ pc[c] = "reply"
  /\ \/ ~subs.cut[c] /\ Goto(c, "stream")
     \/ Goto(c, "close")
  /\ UNCHANGED <<subs, dev, present, running, pid, fd, mask, wake>>

\* wait_next tells the thread to leave, or its socket fails.
EndStream(c) ==
  /\ pc[c] = "stream"
  /\ ~running \/ ~dev.online \/ ~subs.alive[c] \/ subs.cut[c]
  /\ Goto(c, "release")
  /\ UNCHANGED <<subs, dev, present, running, pid, fd, mask, wake>>

\* The client goes away.
HangUp(c) ==
  /\ pc[c] = "stream"
  /\ Goto(c, "release")
  /\ UNCHANGED <<subs, dev, present, running, pid, fd, mask, wake>>

Left(c) ==
  LET e == Revoke(Erase(subs, {c}), {c}, {})
  IN  [e EXCEPT !.active = Cardinality(Leased(e))]

\* release: nothing is left to do for a superseded connection.
Release(c) ==
  /\ pc[c] = "release"
  /\ IF subs.lease[c] = {}
     THEN UNCHANGED <<subs, dev>>
     ELSE /\ subs' = Applied(Left(c), dev)
          /\ dev' \in Apply(dev, Want(subs'.users))
  /\ Goto(c, "close")
  /\ UNCHANGED <<present, running, pid, fd, mask, wake>>

\* The socket is closed and the thread ends; a subscription it left behind and
\* the threads that still have to wake it keep its number.
Close(c) ==
  /\ pc[c] = "close"
  /\ Goto(c, "off")
  /\ subs' = [subs EXCEPT !.cut[c] = FALSE]
  /\ mask' = [mask EXCEPT ![c] = {}]
  /\ IF Forgotten(c)
     THEN pid' = [pid EXCEPT ![c] = NoPid] /\ fd' = [fd EXCEPT ![c] = 0]
     ELSE UNCHANGED <<pid, fd>>
  /\ UNCHANGED <<dev, present, running, wake>>

-----------------------------------------------------------------------------
(* The worker and the shutdown of the hub.                                 *)

\* open_device_locked; the mark of rgb_hq_unavailable_ stays.
OpenStep ==
  /\ running /\ ~dev.online
  /\ present
  /\ dev' = OpenDevice(dev)
  /\ UNCHANGED <<subs, present, running, conns>>

\* Event handling notices a lost sensor by its ISO transfers; without them there
\* is nothing to fail.
Lost(d) == ~d.live /\ d.armed

\* Apply the subscriptions, then handle USB events.
ApplyStep ==
  /\ running /\ dev.online
  /\ subs' = Applied(subs, dev)
  /\ \E d \in Apply(dev, Want(subs'.users)) :
       \/ d.rc = "ok" /\ ~Lost(d) /\ dev' = d
       \/ /\ d.rc # "ok" \/ Lost(d) \/ "events" \in Faulty
          /\ dev' \in CloseDevice(d)
  /\ UNCHANGED <<present, running, conns>>

\* The worker has ended; shutdown closes the device.
CloseStep ==
  /\ ~running /\ dev.online
  /\ dev' \in CloseDevice(dev)
  /\ UNCHANGED <<subs, present, running, conns>>

Shutdown ==
  /\ running
  /\ running' = FALSE
  /\ UNCHANGED <<subs, dev, present, conns>>

-----------------------------------------------------------------------------
(* The sensor.                                                             *)

VideoFrame ==
  /\ dev.online /\ dev.live /\ dev.videoOn
  /\ dev.fw = dev.vmode
  /\ dev' = [dev EXCEPT !.seen = TRUE, !.late = FALSE]
  /\ UNCHANGED <<subs, present, running, conns>>

VideoTimeout ==
  /\ dev.videoOn /\ ~dev.late
  /\ dev' = [dev EXCEPT !.late = TRUE]
  /\ UNCHANGED <<subs, present, running, conns>>

DepthFrame ==
  /\ dev.online /\ dev.live /\ dev.depthOn /\ dev.laser
  /\ dev' = [dev EXCEPT !.depthLate = FALSE]
  /\ UNCHANGED <<subs, present, running, conns>>

DepthTimeout ==
  /\ dev.depthOn /\ ~dev.depthLate
  /\ dev' = [dev EXCEPT !.depthLate = TRUE]
  /\ UNCHANGED <<subs, present, running, conns>>

Unplug ==
  /\ present
  /\ present' = FALSE
  /\ dev' = [dev EXCEPT !.live = FALSE, !.fw = "off", !.laser = FALSE]
  /\ UNCHANGED <<subs, running, conns>>

Replug ==
  /\ ~present
  /\ present' = TRUE
  /\ UNCHANGED <<subs, dev, running, conns>>

Thread(c) ==
  \/ Check(c) \/ Acquire(c) \/ Wake(c) \/ Reply(c)
  \/ EndStream(c) \/ Release(c) \/ Close(c)

Worker == OpenStep \/ ApplyStep \/ CloseStep

Next ==
  \/ \E c \in Conns, p \in Pids \cup {NoPid}, m \in Masks : Connect(c, p, m)
  \/ \E c \in Conns : Thread(c) \/ HangUp(c)
  \/ Worker \/ Shutdown
  \/ VideoFrame \/ VideoTimeout \/ DepthFrame \/ DepthTimeout
  \/ Unplug \/ Replug

Spec == Init /\ [][Next]_vars

\* Threads are scheduled; a sensor that stays does not refuse its commands for
\* ever; a stream whose engine does not run times out.  Clients need not come,
\* and frames need not arrive.
FairSpec ==
  /\ Spec
  /\ \A c \in Conns : WF_vars(Thread(c))
  /\ WF_vars(Worker)
  /\ SF_vars(ApplyStep /\ dev'.online)
  /\ WF_vars(dev.fw # dev.vmode /\ VideoTimeout)

-----------------------------------------------------------------------------
(* Properties.                                                             *)

\* The counters are exactly the subscriptions on record, whatever was
\* superseded, rolled back or revoked (camera_bridge.cpp:326-357, 448-454, 588-600).
UsersAreLeases == subs.users = Held(subs.lease, Conns)

\* A process owns at most one subscription (camera_bridge.cpp:325-326).
OneLeasePerProcess ==
  \A c, x \in Leased(subs) : c # x /\ pid[c] = pid[x] => pid[c] = NoPid

\* A connection that streams without a subscription has been told to leave, or
\* the connection that superseded it is about to (camera_bridge.cpp:365-369).
LostLeaseIsTold ==
  \A c \in Conns :
    pc[c] = "stream" /\ subs.lease[c] = {} =>
      ~subs.alive[c] \/ \E x \in Conns : pc[x] = "wake" /\ c \in wake[x]

Asked(s) == \E c \in Conns : s \in subs.lease[c]

AskedVideo == {s \in {"rgb", "hq", "ir"} : Asked(s)}

\* After a successful apply_locked exactly the streams somebody subscribes to
\* are on, and the firmware sends nobody colour while IR is subscribed to, nor
\* RGB while HQ is (camera_bridge.cpp:340-344, 602-681).
Arbitrated ==
  dev.online /\ dev.live /\ dev.rc = "ok" =>
    /\ dev.videoOn <=> AskedVideo # {}
    /\ dev.depthOn <=> Asked("depth")
    /\ Asked("ir") => dev.mode = "ir" /\ dev.fw \in {"ir", "off"}
    /\ Asked("hq") /\ ~Asked("ir") => dev.mode = "hq" /\ dev.fw \in {"hq", "off"}
    /\ AskedVideo # {} /\ dev.running => dev.fw \in AskedVideo

\* A refused subscription changes no other one, except that RGB HQ may be
\* found unavailable at that moment (camera_bridge.cpp:350-357).
RefusalChangesNothing ==
  [][\A c \in Conns : pc[c] = "acquire" /\ pc'[c] = "close" =>
       \A x \in Conns : subs'.lease[x] = subs.lease[x]
                          \/ (subs'.hqBad /\ "hq" \in subs.lease[x] /\ subs'.lease[x] = {})]_vars

\* What is asked for is served in the end, as long as somebody asks, the sensor
\* stays and the hub runs.
DemandServed ==
  (running /\ present /\ AskedVideo # {})
    ~> (~running \/ ~present \/ AskedVideo = {} \/ dev.fw \in AskedVideo)

\* A streaming thread whose subscription is gone ends.
LostLeaseEnds ==
  \A c \in Conns : (pc[c] = "stream" /\ subs.lease[c] = {}) ~> pc[c] # "stream"
=============================================================================
