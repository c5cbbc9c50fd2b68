--------------------------- MODULE BrokerContexts ---------------------------
(***************************************************************************)
(* The Windows Broker: the threads of its control pipe, the thread of its  *)
(* SDK pipe, and the contexts through which they reach the control         *)
(* interfaces of several Kinects (TryPhysicalNuiCommand, RunHost).         *)
(*                                                                         *)
(* A context belongs to a device id, or to the requests without an id that *)
(* came while nothing was published.  Its mutex is held for a whole        *)
(* command; the mutex of the interface, found by the id of the session, is *)
(* held while the interface is used.  Between any two of the steps below   *)
(* another thread can run, and the bus can change.                         *)
(***************************************************************************)
EXTENDS Naturals, FiniteSets

CONSTANTS
    Kinects,      \* device ids of the sensors, as the CameraBridge publishes them
    Aliased,      \* sensors whose control function has another id than the camera
    Clients,      \* connections of the control pipe at a time
    Sdk,          \* the thread of the SDK pipe
    None,
    MaxEvents, MaxFaults   \* bounds: changes of bus and manifest, transfers that fail

ASSUME BrokerAssumption ==
    /\ Aliased \subseteq Kinects /\ IsFiniteSet(Clients)
    /\ Sdk \notin Clients /\ None \notin Kinects \cup Clients \cup {Sdk}
    /\ MaxEvents \in Nat /\ MaxFaults \in Nat

Threads == Clients \cup {Sdk}

\* None is the context of requests without an id: key "__auto__".
Contexts == Kinects \cup {None}

\* Keys of gPhysicalIoMutexes: the id of a camera, or of a control function
\* that has one of its own.
Keys == Kinects \X BOOLEAN

Commands == {"Ping", "Status", "Tilt", "Led", "PrepareCamera"}

Closed == [on |-> None, live |-> FALSE, alias |-> FALSE, prepared |-> FALSE]

VARIABLES
    gRun,
    published,    \* ids in the device manifest
    control,      \* sensors whose control function is on the bus
    kind,         \* sensor -> "classic" (1414, 1517) or "audio" (1473): never changes
    spent,        \* events and faults so far
    server,       \* control and SDK loops: "listen" or "ended"
    host,         \* RunHost: "run", "joined", "closed"
    session,      \* context -> its session
    mutex,        \* context -> thread that holds it
    tiltInFlight, \* context -> tilts queued or travelling
    io,           \* key -> thread that holds it
    \* the command of each thread
    pc, command, target, attempt, committed, result

env == <<published, control, kind>>
life == <<gRun, server, host>>
locks == <<mutex, tiltInFlight, io>>
call == <<pc, command, target, attempt, committed, result>>
vars == <<env, life, spent, session, locks, call>>

Places == {"idle", "ask", "check", "lock", "open", "io", "prepare", "act", "travel", "verify",
           "recover", "unlock", "uncount", "reply"}

TypeOK ==
    /\ gRun \in BOOLEAN
    /\ published \subseteq Kinects /\ control \subseteq Kinects
    /\ kind \in [Kinects -> {"classic", "audio"}]
    /\ spent \in [events : 0..MaxEvents, faults : 0..MaxFaults]
    /\ server \in {"listen", "ended"} /\ host \in {"run", "joined", "closed"}
    /\ session \in [Contexts -> [on : Kinects \cup {None}, live : BOOLEAN,
                                 alias : BOOLEAN, prepared : BOOLEAN]]
    /\ mutex \in [Contexts -> Threads \cup {None}]
    /\ tiltInFlight \in [Contexts -> 0..Cardinality(Threads)]
    /\ io \in [Keys -> Threads \cup {None}]
    /\ pc \in [Threads -> Places]
    /\ command \in [Threads -> Commands]
    /\ target \in [Threads -> Contexts]
    /\ attempt \in [Threads -> {1, 2}]
    /\ committed \in [Threads -> BOOLEAN]
    /\ result \in [Threads -> {"ok", "busy", "failed"}]

Init ==
    /\ gRun = TRUE /\ server = "listen" /\ host = "run"
    /\ published \in SUBSET Kinects /\ control \in SUBSET Kinects
    /\ kind \in [Kinects -> {"classic", "audio"}]
    /\ spent = [events |-> 0, faults |-> 0]
    /\ session = [c \in Contexts |-> Closed]
    /\ mutex = [c \in Contexts |-> None] /\ tiltInFlight = [c \in Contexts |-> 0]
    /\ io = [k \in Keys |-> None]
    /\ pc = [t \in Threads |-> "idle"] /\ command = [t \in Threads |-> "Ping"]
    /\ target = [t \in Threads |-> None] /\ attempt = [t \in Threads |-> 1]
    /\ committed = [t \in Threads |-> FALSE]
    /\ result = [t \in Threads |-> "ok"]

-----------------------------------------------------------------------------
(* The bus, the manifest and the faults.                                   *)

Spend(what, most) == spent[what] < most /\ spent' = [spent EXCEPT ![what] = @ + 1]
Event == Spend("events", MaxEvents)
Fault == Spend("faults", MaxFaults)

Publish ==
    /\ Event
    /\ \E P \in SUBSET Kinects \ {published} : published' = P
    /\ UNCHANGED <<control, kind, life, session, locks, call>>

Appear(k) ==
    /\ k \notin control /\ Event
    /\ control' = control \cup {k}
    /\ UNCHANGED <<published, kind, life, session, locks, call>>

\* Handles of the function are dead from then on.
Disappear(k) ==
    /\ k \in control /\ Event
    /\ control' = control \ {k}
    /\ session' = [c \in Contexts |->
         IF session[c].on = k THEN [session[c] EXCEPT !.live = FALSE] ELSE session[c]]
    /\ UNCHANGED <<published, kind, life, locks, call>>

-----------------------------------------------------------------------------
(* A request.                                                              *)

Goto(t, place) == pc' = [pc EXCEPT ![t] = place]
OnlyCall == UNCHANGED <<env, life, session, locks>>

\* ResolvePhysicalTargetId: the first row of the manifest stands for no id.
Resolved(id) == IF id # None \/ published = {} THEN id ELSE CHOOSE k \in published : TRUE

\* ControlServerLoop and SdkServerLoop accept a client and read its request.  A
\* Ping without an id is answered at once; the SDK has LED actions for published
\* ids only, and looks at the counter of the context first.
Request(t, what, id) ==
    /\ server = "listen" /\ pc[t] = "idle"
    /\ IF t = Sdk THEN what = "Led" /\ id \in published ELSE ~(what = "Ping" /\ id = None)
    /\ command' = [command EXCEPT ![t] = what]
    /\ target' = [target EXCEPT ![t] = Resolved(id)]
    /\ Goto(t, IF t = Sdk THEN "ask" ELSE "check")
    /\ UNCHANGED <<spent, attempt, committed, result>> /\ OnlyCall

Answer(t, outcome) == Goto(t, "reply") /\ result' = [result EXCEPT ![t] = outcome]

\* PhysicalTiltInFlight
Ask(t) ==
    /\ pc[t] = "ask"
    /\ IF tiltInFlight[target[t]] > 0 THEN Answer(t, "busy")
       ELSE Goto(t, "check") /\ UNCHANGED result
    /\ UNCHANGED <<spent, command, target, attempt, committed>> /\ OnlyCall

\* A Status does not queue behind a tilt, and a Ping knows its answer.
Check(t) ==
    /\ pc[t] = "check"
    /\ IF tiltInFlight[target[t]] > 0 /\ command[t] \in {"Status", "Ping"}
       THEN Answer(t, IF command[t] = "Ping" THEN "ok" ELSE "busy") /\ UNCHANGED tiltInFlight
       ELSE /\ Goto(t, "lock") /\ UNCHANGED result
            /\ tiltInFlight' = IF command[t] # "Tilt" THEN tiltInFlight
                               ELSE [tiltInFlight EXCEPT ![target[t]] = @ + 1]
    /\ UNCHANGED <<env, life, spent, session, mutex, io, command, target, attempt, committed>>

Lock(t) ==
    /\ pc[t] = "lock" /\ mutex[target[t]] = None
    /\ mutex' = [mutex EXCEPT ![target[t]] = t]
    /\ Goto(t, "open")
    /\ UNCHANGED <<env, life, spent, session, tiltInFlight, io, command, target, attempt,
                   committed, result>>

-----------------------------------------------------------------------------
(* The attempts (execute).                                                 *)

My(t) == session[target[t]]

\* Replaces the session of the thread's context.
Put(t, s) == session' = [session EXCEPT ![target[t]] = s]

\* What an attempt that has ended leads to: a tilt that reached the device is
\* reported as accepted, another failure is repeated once with a new handle.
\* Mutant: a tilt is repeated like everything else.
Mut_Failed(t, done) ==
    IF attempt[t] = 1
    THEN Goto(t, "recover") /\ UNCHANGED <<session, result>>
    ELSE Goto(t, "unlock") /\ Put(t, Closed) /\ result' = [result EXCEPT ![t] = "failed"]

Failed(t, done) ==
    IF done THEN Goto(t, "unlock") /\ Put(t, Closed) /\ result' = [result EXCEPT ![t] = "ok"]
    ELSE IF attempt[t] = 1
    THEN Goto(t, "recover") /\ UNCHANGED <<session, result>>
    ELSE Goto(t, "unlock") /\ Put(t, Closed) /\ result' = [result EXCEPT ![t] = "failed"]

Succeeded(t, s) == Goto(t, "unlock") /\ Put(t, s) /\ result' = [result EXCEPT ![t] = "ok"]

\* OpenPhysicalInterface: the function with the id; the only one of its class,
\* whatever its id; without an id any of them.
Selected(class, id) ==
    LET candidates == {k \in control : kind[k] = class}
        exact == candidates \cap ({id} \ Aliased)
    IN  IF exact # {} THEN exact
        ELSE IF id = None \/ Cardinality(candidates) = 1 THEN candidates ELSE {}

\* OpenPhysicalNui: the class of the camera, if it is there to tell, else the
\* classic function before the one of the audio device.
Openable(id, modelKnown) ==
    IF id # None /\ modelKnown THEN Selected(kind[id], id)
    ELSE IF Selected("classic", id) # {} THEN Selected("classic", id)
    ELSE Selected("audio", id)

\* What it goes on to when the classic function is there and cannot be opened.
FallsThrough(id, modelKnown) ==
    IF (id # None /\ modelKnown) \/ Selected("classic", id) = {} THEN {}
    ELSE Selected("audio", id)

Opened(t, k) ==
    /\ Put(t, [on |-> k, live |-> TRUE, prepared |-> FALSE,
               alias |-> target[t] = None /\ k \in Aliased])
    /\ Goto(t, "io") /\ UNCHANGED result

\* EnsurePhysicalNui: a session that is open is used, also one that is dead.
Open(t) ==
    /\ pc[t] = "open"
    /\ \/ /\ My(t).on # None
          /\ Goto(t, "io") /\ UNCHANGED <<session, spent, result>>
       \/ /\ My(t).on = None
          /\ \E known \in BOOLEAN :
               \/ \E k \in Openable(target[t], known) : Opened(t, k) /\ UNCHANGED spent
               \/ \E k \in FallsThrough(target[t], known) : Opened(t, k) /\ Fault
               \/ /\ IF Openable(target[t], known) = {} THEN UNCHANGED spent ELSE Fault
                  /\ Failed(t, FALSE)
    /\ UNCHANGED <<env, life, locks, command, target, attempt, committed>>

\* PhysicalIoMutexFor(session.deviceId)
Key(t) == IF target[t] # None THEN <<target[t], FALSE>> ELSE <<My(t).on, My(t).alias>>

\* Mutant: every context has a mutex of its own.
Mut_Io(t) ==
    /\ pc[t] = "io"
    /\ Goto(t, "prepare")
    /\ UNCHANGED <<env, life, spent, session, mutex, tiltInFlight, io, command, target,
                   attempt, committed, result>>

Io(t) ==
    /\ pc[t] = "io" /\ io[Key(t)] = None
    /\ io' = [io EXCEPT ![Key(t)] = t]
    /\ Goto(t, "prepare")
    /\ UNCHANGED <<env, life, spent, session, mutex, tiltInFlight, command, target,
                   attempt, committed, result>>

\* ioGuard is gone when execute returns.
LeaveIo(t) == io' = [k \in Keys |-> IF io[k] = t THEN None ELSE io[k]]
InIo == UNCHANGED <<env, life, mutex, tiltInFlight, command, target>>

Works(t) == My(t).live /\ UNCHANGED spent
Breaks(t) == IF My(t).live THEN Fault ELSE UNCHANGED spent

\* Prepare1414Control, Prepare1473Control; a Ping needs neither.
Prepare(t) ==
    /\ pc[t] = "prepare"
    /\ \/ /\ command[t] = "Ping"
          /\ Succeeded(t, My(t)) /\ LeaveIo(t) /\ UNCHANGED spent
       \/ /\ command[t] # "Ping"
          /\ IF kind[My(t).on] = "classic" \/ My(t).prepared THEN UNCHANGED spent ELSE Works(t)
          /\ IF command[t] = "PrepareCamera"
             THEN Succeeded(t, [My(t) EXCEPT !.prepared = TRUE]) /\ LeaveIo(t)
             ELSE /\ Put(t, [My(t) EXCEPT !.prepared = TRUE])
                  /\ Goto(t, "act") /\ UNCHANGED <<io, result>>
       \/ /\ command[t] # "Ping" /\ kind[My(t).on] = "audio" /\ ~My(t).prepared
          /\ Breaks(t) /\ Failed(t, FALSE) /\ LeaveIo(t)
    /\ UNCHANGED <<attempt, committed>> /\ InIo

\* ReadPhysicalStatus, SetPhysicalLed: one transaction.
Transact(t) ==
    /\ pc[t] = "act" /\ command[t] \in {"Status", "Led"}
    /\ \/ Works(t) /\ Succeeded(t, My(t))
       \/ Breaks(t) /\ Failed(t, FALSE)
    /\ LeaveIo(t)
    /\ UNCHANGED <<attempt, committed>> /\ InIo

\* IssueTilt1414, IssueTilt1473: written, and committed; or reported as failed,
\* whatever the device has got of it.
IssueTilt(t) ==
    /\ pc[t] = "act" /\ command[t] = "Tilt"
    /\ \/ /\ Works(t)
          /\ committed' = [committed EXCEPT ![t] = TRUE]
          /\ Goto(t, "travel") /\ UNCHANGED <<session, io, result>>
       \/ /\ Breaks(t) /\ Failed(t, FALSE) /\ LeaveIo(t)
          /\ UNCHANGED committed
    /\ UNCHANGED attempt /\ InIo

\* The interface of a 1473 is left alone for the time of the travel.
Travel(t) ==
    /\ pc[t] = "travel"
    /\ Goto(t, "verify")
    /\ UNCHANGED <<spent, session, io, attempt, committed, result>> /\ InIo

\* VerifyTiltTarget1473 succeeds in any case; WaitForTiltTarget1414 polls, and
\* fails with an error that is not a timeout.
Verify(t) ==
    /\ pc[t] = "verify"
    /\ \/ Works(t) /\ Succeeded(t, My(t))
       \/ Breaks(t) /\ IF kind[My(t).on] = "audio" THEN Succeeded(t, My(t))
                       ELSE Failed(t, committed[t])
    /\ LeaveIo(t)
    /\ UNCHANGED <<attempt, committed>> /\ InIo

\* Recover1473ControlAfterFailure aborts, resets and flushes the control pipes of
\* an audio session that is still there, without the mutex of the interface.
ResetsPipes(t) ==
    /\ pc[t] = "recover" /\ My(t).on # None
    /\ My(t).live /\ kind[My(t).on] = "audio"

\* After it the handle is closed and the command tried again.
Recover(t) ==
    /\ pc[t] = "recover"
    /\ Put(t, Closed)
    /\ attempt' = [attempt EXCEPT ![t] = 2]
    /\ Goto(t, "open")
    /\ UNCHANGED <<spent, io, committed, result>> /\ InIo

\* The guards are left in the opposite order of their making.
Unlock(t) ==
    /\ pc[t] = "unlock"
    /\ mutex' = [mutex EXCEPT ![target[t]] = None]
    /\ Goto(t, IF command[t] = "Tilt" THEN "uncount" ELSE "reply")
    /\ UNCHANGED <<env, life, spent, session, tiltInFlight, io, command, target, attempt,
                   committed, result>>

\* Mutant: the counter is a flag, which the first tilt to end lowers.
Mut_Uncount(t) ==
    /\ pc[t] = "uncount"
    /\ tiltInFlight' = [tiltInFlight EXCEPT ![target[t]] = 0]
    /\ Goto(t, "reply")
    /\ UNCHANGED <<env, life, spent, session, mutex, io, command, target, attempt,
                   committed, result>>

Uncount(t) ==
    /\ pc[t] = "uncount"
    /\ tiltInFlight' = [tiltInFlight EXCEPT ![target[t]] = @ - 1]
    /\ Goto(t, "reply")
    /\ UNCHANGED <<env, life, spent, session, mutex, io, command, target, attempt,
                   committed, result>>

\* ServeControlClient writes the reply, or does not get it through; the locals
\* of the command are gone.
Reply(t) ==
    /\ pc[t] = "reply"
    /\ Goto(t, "idle")
    /\ command' = [command EXCEPT ![t] = "Ping"] /\ target' = [target EXCEPT ![t] = None]
    /\ attempt' = [attempt EXCEPT ![t] = 1] /\ committed' = [committed EXCEPT ![t] = FALSE]
    /\ result' = [result EXCEPT ![t] = "ok"]
    /\ UNCHANGED spent /\ OnlyCall

Step(t) ==
    \/ Ask(t) \/ Check(t) \/ Lock(t) \/ Open(t) \/ Io(t) \/ Prepare(t) \/ Transact(t)
    \/ IssueTilt(t) \/ Travel(t) \/ Verify(t) \/ Recover(t) \/ Unlock(t) \/ Uncount(t)
    \/ Reply(t)

-----------------------------------------------------------------------------
(* RunHost.                                                                *)

Stop == /\ gRun
        /\ gRun' = FALSE
        /\ UNCHANGED <<env, server, host, spent, session, locks, call>>

\* Both loops look at gRun at least every 250 ms.
LoopsEnd ==
    /\ ~gRun /\ server = "listen" /\ pc[Sdk] = "idle"
    /\ server' = "ended"
    /\ UNCHANGED <<env, gRun, host, spent, session, locks, call>>

\* reap(true) at the end of ControlServerLoop.
Reaped == \A t \in Clients : pc[t] = "idle"

Join ==
    /\ host = "run" /\ server = "ended" /\ Reaped
    /\ host' = "joined"
    /\ UNCHANGED <<env, gRun, server, spent, session, locks, call>>

\* ClosePhysicalContexts takes the mutex of each context.
CloseContexts ==
    /\ host = "joined" /\ \A c \in Contexts : mutex[c] = None
    /\ session' = [c \in Contexts |-> Closed]
    /\ host' = "closed"
    /\ UNCHANGED <<env, gRun, server, spent, locks, call>>

\* RunHost has returned.  Any other state without a successor is a deadlock of
\* the two locks and the join.
Done == host = "closed" /\ UNCHANGED vars

Next ==
    \/ Publish \/ Stop \/ LoopsEnd \/ Join \/ CloseContexts \/ Done
    \/ \E k \in Kinects : Appear(k) \/ Disappear(k)
    \/ \E t \in Threads :
         \/ Step(t)
         \/ \E what \in Commands, id \in Contexts : Request(t, what, id)

Spec == Init /\ [][Next]_vars

-----------------------------------------------------------------------------
(* Properties.                                                             *)

\* "From then on a failure must never cause the command to be resent": whatever
\* fails after the tilt was written, over new handles and replugs, the command
\* does not come to be written again (TryPhysicalNuiCommand).
NotResent == \A t \in Threads : pc[t] = "act" /\ command[t] = "Tilt" => ~committed[t]

\* A tilt that was put on the wire is never answered as failed, which would
\* make the caller repeat it (reportCommittedTilt).
CommittedSucceeds == \A t \in Threads : pc[t] = "reply" /\ committed[t] => result[t] = "ok"

\* Whatever becomes of a tilt that was put on the wire, it is neither written
\* again nor reported as a failure to a caller who would ask again.
CommittedOnce == NotResent /\ CommittedSucceeds

\* A thread whose session is with the sensor its id names, or with any sensor
\* for no id, under the key of that sensor.
Routed(t) == target[t] \in {None, My(t).on} /\ ~My(t).alias

Travels(t) == pc[t] = "travel" /\ kind[My(t).on] = "audio"
UsesInterface == {"prepare", "act", "travel", "verify"}

\* "so status/LED traffic cannot cut into a 1473 motor transaction": while a 1473
\* travels nobody else has a transaction with it, through whatever context and
\* however many sensors there are, as long as both are routed to their own; nor
\* does anybody reset its pipes, unless he recovers in another context (see
\* Recover: the mutex of the interface does not exclude him).
TravelAlone ==
    \A t, u \in Threads :
        /\ t # u /\ Travels(t) /\ Routed(t) /\ Routed(u)
        /\ \/ pc[u] \in UsesInterface
           \/ ResetsPipes(u) /\ target[u] = target[t]
        => My(u).on # My(t).on

\* The counter is positive from before a tilt takes the mutex until it has left
\* it, however tilts overlap: nobody who looks queues behind one.
TiltVisible ==
    \A t \in Threads :
        pc[t] \in {"lock", "open", "io", "prepare", "act", "travel", "verify", "recover", "unlock"}
            /\ command[t] = "Tilt" => tiltInFlight[target[t]] > 0

\* "multi-Kinect systems must retain exact per-device routing"
\* (OpenPhysicalInterface): a session for an id is a session with that sensor.
ExactRouting == \A k \in Kinects : session[k].on \in {k, None}
=============================================================================
