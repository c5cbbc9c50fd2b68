---------------------------- MODULE MotorSession ----------------------------
(***************************************************************************)
(* One MotorSession of the Linux Broker: the object that owns the motor,   *)
(* LED and accelerometer control path of one physical Kinect, and the      *)
(* client threads that call it.                                            *)
(*                                                                         *)
(* A call is split where another thread, the motor or the USB bus can act: *)
(* the in-flight check, the mutex, the opening of the handle, and each USB *)
(* transaction is a step of its own.  Everything between Lock and Unlock   *)
(* runs with mutex_ held, so the locals of the running call are scalars.   *)
(*                                                                         *)
(* The device is modelled as far as the Broker can tell: its enumeration   *)
(* number (a handle opened before a replug is dead), the angle and the     *)
(* target of the motor, and whether the motor is travelling.               *)
(***************************************************************************)
EXTENDS Integers, FiniteSets

CONSTANTS
  Clients,   \* threads that serve the binary protocol, one per connection
  Sdk,       \* the single thread that serves the SDK text protocol
  NoThread,  \* owner of a free mutex
  Angles,    \* degrees a tilt may ask for
  MaxGen,    \* bound: how often the sensor may be plugged in
  MaxPolls   \* bound: status polls of one classic tilt (40 in the code)

ASSUME ThreadsAssumption ==
  /\ IsFiniteSet(Clients)
  /\ Sdk \notin Clients
  /\ NoThread \notin Clients \cup {Sdk}
ASSUME AnglesAssumption  == Angles \subseteq -27..27 /\ Angles # {}
ASSUME BoundsAssumption  == MaxGen \in Nat \ {0} /\ MaxPolls \in Nat \ {0}

Threads == Clients \cup {Sdk}
Kinds   == {"Classic1414", "Audio1473"}

\* Operations of the two protocols; SdkLed is an LED action of the text protocol.
ClientOps == {"Ping", "Status", "Tilt", "Led", "PrepareCamera"}
Ops       == ClientOps \cup {"SdkLed", "None"}

\* Operations that look at tilt_in_flight_ before they take the mutex.
CheckedOps == {"Ping", "Status", "SdkLed"}

\* Places of a thread; the ones in Critical are reached with mutex_ held.
Critical == {"open", "prepare", "act", "wait", "read", "reply"}
Places   == {"idle", "check", "lock", "leave"} \cup Critical

VARIABLES
  \* the physical sensor
  kind,       \* which control protocol its model uses
  present,    \* on the bus
  gen,        \* enumeration number of the last plug-in
  angle,      \* where the motor stands (where it started while moving)
  goal,       \* target of the last tilt command the motor received
  moving,     \* the motor is travelling
  \* the session
  mutex,      \* owner of mutex_
  inFlight,   \* tilt_in_flight_
  handle,     \* motor_: enumeration number it was opened at, 0 when null
  primed,     \* primed_
  lastValid,  \* last_tilt_valid_
  lastTilt,   \* last_tilt_tenths_, in degrees
  \* the call that holds the mutex
  attempt,    \* attempt of with_fresh_handle_retry_locked
  polls,      \* polls left in wait_tilt_1414_locked
  result,     \* reply.result of the call
  verified,   \* kStateTiltVerified of the reply
  \* the threads
  pc, op, req,
  \* history
  issued,     \* tilt commands the motor has received from the running call
  accepted,   \* which of them was reported as transferred; 0 if none was
  greened,    \* the open handle has carried the priming LED command
  disturbed,  \* a transaction hit the motor during the current travel
  excused     \* the session has no exact knowledge of the current travel

device  == <<kind, present, gen, angle, goal, moving>>
session == <<handle, primed, lastValid, lastTilt>>
call    == <<attempt, polls, result, verified, issued, accepted>>
thread  == <<pc, op, req>>
history == <<greened, disturbed, excused>>
vars    == <<device, mutex, inFlight, session, call, thread, history>>

Results == {"none", "ok", "nodev", "error", "ackerror"}

TypeOK ==
  /\ kind \in Kinds
  /\ present \in BOOLEAN
  /\ gen \in 0..MaxGen
  /\ angle \in Angles /\ goal \in Angles
  /\ moving \in BOOLEAN
  /\ mutex \in Threads \cup {NoThread}
  /\ inFlight \in Nat
  /\ handle \in 0..MaxGen
  /\ primed \in BOOLEAN /\ lastValid \in BOOLEAN
  /\ lastTilt \in Angles \cup {0}
  /\ attempt \in 1..2
  /\ polls \in 0..MaxPolls
  /\ result \in Results
  /\ verified \in BOOLEAN
  /\ issued \in Nat /\ accepted \in Nat
  /\ pc \in [Threads -> Places]
  /\ op \in [Threads -> Ops]
  /\ req \in [Threads -> Angles]
  /\ greened \in BOOLEAN /\ disturbed \in BOOLEAN /\ excused \in BOOLEAN

Init ==
  /\ kind \in Kinds
  /\ present = TRUE /\ gen = 1
  /\ angle \in Angles /\ goal = angle /\ moving = FALSE
  /\ mutex = NoThread /\ inFlight = 0
  /\ handle = 0 /\ primed = FALSE
  /\ lastValid = FALSE /\ lastTilt = 0
  /\ attempt = 1 /\ polls = 0 /\ result = "none" /\ verified = FALSE
  /\ issued = 0 /\ accepted = 0
  /\ pc = [t \in Threads |-> "idle"]
  /\ op = [t \in Threads |-> "None"]
  /\ req = [t \in Threads |-> angle]
  /\ greened = FALSE /\ disturbed = FALSE /\ excused = FALSE

-----------------------------------------------------------------------------
(* Travel budget of the 1473 motor (tilt_1473_quiet_ms).                   *)

Distance(a, b) == IF a > b THEN a - b ELSE b - a

FullRange == 54

BelievedDistance(target) ==
  IF lastValid THEN Distance(target, lastTilt) ELSE FullRange

\* Mutant: the settle time only, whatever the distance.
Mut_QuietMs(target) == 1500

QuietMs(target) ==
  LET budget == 600 + 85 * BelievedDistance(target)
  IN  IF budget < 1500 THEN 1500 ELSE budget

\* The motor moves at the speed the budget is computed from.
TravelMs == 85 * Distance(goal, angle)

-----------------------------------------------------------------------------
(* Helpers of the steps.                                                   *)

Live == handle # 0 /\ present /\ handle = gen

Goto(t, place) == pc' = [pc EXCEPT ![t] = place]

\* A transaction on the control interface of the handle.  On the 1473 the
\* motor stops and restarts when one arrives during its travel.
Touch == disturbed' = (disturbed \/ (Live /\ kind = "Audio1473" /\ moving))

\* Operations wrapped in with_fresh_handle_retry_locked.
Retries(t) == op[t] # "Ping" /\ (op[t] = "Tilt" => kind = "Classic1414")

Finish(t, r) ==
  /\ Goto(t, "reply")
  /\ result' = r

\* close_locked: the handle and everything that belongs to it is forgotten, the
\* last angle included.
CloseHandle ==
  /\ handle' = 0 /\ primed' = FALSE /\ greened' = FALSE
  /\ lastValid' = FALSE /\ lastTilt' = 0

KeepHandle == UNCHANGED <<handle, primed, greened>>
KeepAngle  == UNCHANGED <<lastValid, lastTilt>>

\* An attempt failed: a wrapped operation closes the handle and tries once
\* more with a fresh one, the others give up and keep it.
AttemptFailed(t, r) ==
  IF Retries(t)
  THEN /\ CloseHandle
       /\ IF attempt = 1
          THEN attempt' = 2 /\ Goto(t, "open") /\ UNCHANGED result
          ELSE Finish(t, r) /\ UNCHANGED attempt
  ELSE Finish(t, r) /\ KeepHandle /\ KeepAngle /\ UNCHANGED attempt

-----------------------------------------------------------------------------
(* Outside the mutex.                                                      *)

\* A request arrives.  A tilt is counted before it waits for the mutex.
Start(t, o, a) ==
  /\ pc[t] = "idle"
  /\ op' = [op EXCEPT ![t] = o]
  /\ req' = [req EXCEPT ![t] = a]
  /\ Goto(t, IF o \in CheckedOps THEN "check" ELSE "lock")
  /\ inFlight' = IF o = "Tilt" THEN inFlight + 1 ELSE inFlight
  /\ UNCHANGED <<device, mutex, session, call, history>>

\* Status and the SDK answer "busy", Ping answers success, while a tilt is
\* counted; otherwise the thread goes on to the mutex.
Check(t) ==
  /\ pc[t] = "check"
  /\ IF inFlight > 0
     THEN Goto(t, "idle") /\ op' = [op EXCEPT ![t] = "None"]
     ELSE Goto(t, "lock") /\ UNCHANGED op
  /\ UNCHANGED <<device, mutex, inFlight, session, call, req, history>>

Lock(t) ==
  /\ pc[t] = "lock"
  /\ mutex = NoThread
  /\ mutex' = t
  /\ Goto(t, "open")
  /\ attempt' = 1 /\ polls' = MaxPolls /\ result' = "none"
  /\ verified' = FALSE /\ issued' = 0 /\ accepted' = 0
  /\ UNCHANGED <<device, inFlight, session, op, req, history>>

\* The guard is released before the in-flight counter is.
Unlock(t) ==
  /\ pc[t] = "reply"
  /\ mutex' = NoThread
  /\ IF op[t] = "Tilt"
     THEN Goto(t, "leave") /\ UNCHANGED op
     ELSE Goto(t, "idle") /\ op' = [op EXCEPT ![t] = "None"]
  /\ UNCHANGED <<device, inFlight, session, call, req, history>>

\* Mutant: a flag instead of a counter.
Mut_Leave(t) ==
  /\ pc[t] = "leave"
  /\ inFlight' = 0
  /\ Goto(t, "idle")
  /\ op' = [op EXCEPT ![t] = "None"]
  /\ UNCHANGED <<device, mutex, session, call, req, history>>

Leave(t) ==
  /\ pc[t] = "leave"
  /\ inFlight' = inFlight - 1
  /\ Goto(t, "idle")
  /\ op' = [op EXCEPT ![t] = "None"]
  /\ UNCHANGED <<device, mutex, session, call, req, history>>

-----------------------------------------------------------------------------
(* Under the mutex.                                                        *)

\* ensure_open_locked: an existing handle is taken as it is.
Open(t) ==
  /\ pc[t] = "open"
  /\ \/ /\ handle # 0 \/ present
        /\ IF handle # 0
           THEN KeepHandle
           ELSE handle' = gen /\ primed' = FALSE /\ greened' = FALSE
        /\ IF op[t] = "Ping"
           THEN Finish(t, "ok")
           ELSE Goto(t, "prepare") /\ UNCHANGED result
        /\ KeepAngle /\ UNCHANGED attempt
     \/ /\ handle = 0
        /\ IF op[t] = "Tilt" \/ ~Retries(t) \/ attempt = 2
           THEN Finish(t, "nodev") /\ UNCHANGED attempt
           ELSE attempt' = 2 /\ UNCHANGED <<pc, result>>
        /\ CloseHandle
  /\ UNCHANGED <<device, mutex, inFlight, polls, verified, issued, accepted, op, req,
                 disturbed, excused>>

\* Mutant: the handle counts as primed although the LED command failed.
Mut_Prepare(t) ==
  /\ pc[t] = "prepare"
  /\ IF primed \/ kind = "Classic1414"
     THEN UNCHANGED <<greened, disturbed>>
     ELSE Touch /\ greened' \in {FALSE, Live}
  /\ Goto(t, "act") /\ primed' = TRUE
  /\ KeepAngle
  /\ UNCHANGED <<device, mutex, inFlight, handle, attempt, polls, result, verified,
                 issued, accepted, op, req, excused>>

\* prepare_control_locked: a fresh 1473 handle carries the solid-green LED
\* command first; the classic motor needs no priming.
Prepare(t) ==
  /\ pc[t] = "prepare"
  /\ IF primed \/ kind = "Classic1414"
     THEN /\ Goto(t, "act") /\ primed' = TRUE
          /\ KeepAngle /\ UNCHANGED <<handle, attempt, result, greened, disturbed>>
     ELSE /\ Touch
          /\ \/ /\ Live
                /\ Goto(t, "act") /\ primed' = TRUE /\ greened' = TRUE
                /\ KeepAngle /\ UNCHANGED <<handle, attempt, result>>
             \/ AttemptFailed(t, "error")
  /\ UNCHANGED <<device, mutex, inFlight, polls, verified, issued, accepted, op, req,
                 excused>>

PrepareCamera(t) ==
  /\ pc[t] = "act" /\ op[t] = "PrepareCamera"
  /\ Finish(t, "ok")
  /\ UNCHANGED <<device, mutex, inFlight, session, attempt, polls, verified,
                 issued, accepted, op, req, history>>

SetLed(t) ==
  /\ pc[t] = "act" /\ op[t] \in {"Led", "SdkLed"}
  /\ Touch
  /\ \/ Live /\ Finish(t, "ok") /\ KeepHandle /\ KeepAngle /\ UNCHANGED attempt
     \/ AttemptFailed(t, "error")
  /\ UNCHANGED <<device, mutex, inFlight, polls, verified, issued, accepted, op, req,
                 excused>>

\* Mutant: the marker of a moving classic motor is taken for the last angle.
Mut_AngleReported ==
  {IF kind = "Classic1414" /\ moving THEN lastTilt ELSE angle}

\* The angle a status carries: the classic motor sends a marker while it moves.
AngleReported == IF kind = "Classic1414" /\ moving THEN {} ELSE {angle}

\* A status that carries an angle is remembered (read_status_locked).
RememberAngle ==
  \/ AngleReported = {} /\ KeepAngle
  \/ lastValid' = TRUE /\ lastTilt' \in AngleReported

ReadStatus(t) ==
  /\ pc[t] = "act" /\ op[t] = "Status"
  /\ Touch
  /\ \/ /\ Live
        /\ RememberAngle
        /\ Finish(t, "ok") /\ KeepHandle /\ UNCHANGED attempt
     \/ AttemptFailed(t, "error")
  /\ UNCHANGED <<device, mutex, inFlight, polls, verified, issued, accepted, op, req,
                 excused>>

\* The motor takes a tilt command: from here on it travels, whatever becomes
\* of the rest of the call.
Commit(t) ==
  /\ Live
  /\ goal' = req[t] /\ moving' = TRUE
  /\ issued' = issued + 1
  /\ disturbed' = (kind = "Audio1473" /\ moving)
  /\ UNCHANGED <<kind, present, gen, angle>>

BeliefWrong == lastValid /\ lastTilt # angle

\* The transfer is reported complete.  A late acknowledgement is ignored, one
\* that reports an error fails the call of the 1473.
Transferred(t) ==
  /\ Commit(t)
  /\ accepted' = issued + 1
  /\ \/ excused' = (BeliefWrong \/ (moving /\ excused)) /\ Goto(t, "wait") /\ UNCHANGED result
     \/ kind = "Audio1473" /\ excused' = TRUE /\ Finish(t, "ackerror")
  /\ KeepHandle /\ KeepAngle /\ UNCHANGED attempt

\* The transfer is reported as failed, whether the motor took the command (a
\* timeout or an error of the later stages) or not.
NotTransferred(t) ==
  /\ \/ Commit(t) /\ excused' = TRUE
     \/ Touch /\ UNCHANGED <<kind, present, gen, angle, goal, moving, issued, excused>>
  /\ AttemptFailed(t, "error")
  /\ UNCHANGED accepted

\* issue_tilt_1414_locked, issue_tilt_1473_locked
IssueTilt(t) ==
  /\ pc[t] = "act" /\ op[t] = "Tilt"
  /\ Transferred(t) \/ NotTransferred(t)
  /\ UNCHANGED <<mutex, inFlight, polls, verified, op, req>>

\* Mutant: a failed poll fails the attempt.
Mut_Poll1414(t) ==
  /\ pc[t] = "wait" /\ kind = "Classic1414"
  /\ IF Live /\ req[t] \in AngleReported
     THEN /\ verified' = TRUE
          /\ Finish(t, "ok") /\ KeepHandle /\ KeepAngle /\ UNCHANGED attempt
     ELSE AttemptFailed(t, "error") /\ UNCHANGED verified
  /\ UNCHANGED <<device, mutex, inFlight, polls, issued, accepted, op, req, disturbed,
                 excused>>

\* wait_tilt_1414_locked: one poll.  Whatever it ends with, the call succeeds.
Poll1414(t) ==
  /\ pc[t] = "wait" /\ kind = "Classic1414"
  /\ \/ /\ Live                               \* a status arrived
        /\ RememberAngle
        /\ IF req[t] \in AngleReported
           THEN verified' = TRUE /\ Finish(t, "ok") /\ UNCHANGED polls
           ELSE /\ UNCHANGED verified
                /\ IF polls > 1
                   THEN polls' = polls - 1 /\ UNCHANGED <<pc, result>>
                   ELSE Finish(t, "ok") /\ polls' = 0
     \/ /\ polls > 1                          \* it timed out
        /\ polls' = polls - 1
        /\ KeepAngle /\ UNCHANGED <<pc, result, verified>>
     \/ /\ Finish(t, "ok") /\ polls' = 0      \* it failed, or the polls are used up
        /\ KeepAngle /\ UNCHANGED verified
  /\ UNCHANGED <<device, mutex, inFlight, handle, primed, attempt, issued, accepted, op,
                 req, history>>

\* tilt_1473_locked: the sleep covers the travel when its budget does.
QuietElapsed1473(t) ==
  /\ pc[t] = "wait" /\ kind = "Audio1473"
  /\ QuietMs(req[t]) >= TravelMs => ~moving
  /\ Goto(t, "read")
  /\ UNCHANGED <<device, mutex, inFlight, session, call, op, req, history>>

\* Mutant: a failed read fails the tilt.
Mut_FinalRead1473(t) ==
  /\ pc[t] = "read"
  /\ Touch
  /\ \/ /\ Live
        /\ RememberAngle
        /\ verified' = (req[t] \in AngleReported)
        /\ Finish(t, "ok")
     \/ Finish(t, "error") /\ KeepAngle /\ UNCHANGED verified
  /\ UNCHANGED <<device, mutex, inFlight, handle, primed, attempt, polls, issued,
                 accepted, op, req, greened, excused>>

\* The angle is read exactly once; a failed read does not fail the tilt.
FinalRead1473(t) ==
  /\ pc[t] = "read"
  /\ Touch
  /\ \/ /\ Live
        /\ RememberAngle
        /\ verified' = (req[t] \in AngleReported)
     \/ KeepAngle /\ UNCHANGED verified
  /\ Finish(t, "ok")
  /\ UNCHANGED <<device, mutex, inFlight, handle, primed, attempt, polls, issued,
                 accepted, op, req, greened, excused>>

-----------------------------------------------------------------------------
(* The sensor.                                                             *)

\* The motor arrives, or stops where it was because something blocks it.
MotorStops ==
  /\ moving
  /\ moving' = FALSE
  /\ angle' \in {angle, goal}
  /\ disturbed' = FALSE /\ excused' = FALSE
  /\ UNCHANGED <<kind, present, gen, goal, mutex, inFlight, session, call, thread, greened>>

\* An unplugged sensor loses its power and may be turned by hand.
Unplug ==
  /\ present
  /\ present' = FALSE /\ moving' = FALSE
  /\ angle' \in Angles
  /\ disturbed' = FALSE /\ excused' = FALSE
  /\ UNCHANGED <<kind, gen, goal, mutex, inFlight, session, call, thread, greened>>

Replug ==
  /\ ~present
  /\ gen < MaxGen
  /\ present' = TRUE /\ gen' = gen + 1
  /\ UNCHANGED <<kind, angle, goal, moving, mutex, inFlight, session, call, thread, history>>

Step(t) ==
  \/ Check(t) \/ Lock(t) \/ Unlock(t) \/ Leave(t)
  \/ Open(t) \/ Prepare(t) \/ PrepareCamera(t) \/ SetLed(t) \/ ReadStatus(t)
  \/ IssueTilt(t) \/ Poll1414(t) \/ QuietElapsed1473(t) \/ FinalRead1473(t)

Next ==
  \/ \E c \in Clients, o \in ClientOps, a \in Angles :
        (o # "Tilt" => a = req[c]) /\ Start(c, o, a)
  \/ Start(Sdk, "SdkLed", req[Sdk])
  \/ \E t \in Threads : Step(t)
  \/ MotorStops \/ Unplug \/ Replug

Spec == Init /\ [][Next]_vars

-----------------------------------------------------------------------------
(* Properties.                                                             *)

InTilt(t) == op[t] = "Tilt"

\* Exactly the owner of mutex_ is between Lock and Unlock (broker.cpp:140,154,167).
OwnerInside == \A t \in Threads : pc[t] \in Critical <=> mutex = t

\* A tilt that owns the motor is always visible in tilt_in_flight_, also when
\* another tilt has just finished (broker.cpp:686, "queued and running tilts").
TiltOwnerVisible ==
  \A t \in Threads : InTilt(t) /\ pc[t] \in Critical => inFlight > 0

\* A tilt command whose transfer was reported complete is the last of its
\* request, and the 1473 gets one at most; only a classic command reported as
\* failed may be followed by another, once (broker.cpp:183 "never re-issue it",
\* ARCHITECTURE.md:212).
CompletedIsLast ==
  /\ accepted > 0 => issued = accepted
  /\ kind = "Audio1473" => issued <= 1
  /\ issued <= attempt

\* A tilt is answered with success exactly when the transfer of a command was
\* reported complete, whatever fails after it; on the 1473 only a failed
\* acknowledgement makes it an error (broker.cpp:183-188, 562).
CompletedTiltSucceeds ==
  \A t \in Threads :
    pc[t] = "reply" /\ InTilt(t) =>
      /\ accepted > 0 => result = "ok" \/ (kind = "Audio1473" /\ result = "ackerror")
      /\ result = "ok" => accepted > 0

\* One request makes the motor travel once: "The command reached the motor: never
\* re-issue it (a retry would restart the travel)" (broker.cpp:183).
AtMostOneTravel == issued <= 1

\* The verified bit is set only when the motor stands where this very request
\* sent it (broker.cpp:612-618, 644).
VerifiedIsOwnMove ==
  \A t \in Threads :
    pc[t] = "reply" /\ verified /\ Live =>
      accepted > 0 /\ angle = req[t] /\ goal = req[t]

\* On the 1473 nothing but priming is sent on a handle that has not carried
\* the priming command (broker.cpp:442 "before motor/status traffic").
PrimedBeforeTraffic ==
  \A t \in Threads :
    pc[t] \in {"act", "wait", "read"} /\ kind = "Audio1473" => greened

\* The 1473 control interface is silent during a travel the session knows
\* exactly: its start was the last angle read and its command was acknowledged
\* (broker.cpp:528-532).
SilentKnownTravel == disturbed => excused
=============================================================================
