------------------------ MODULE BrokerContexts_proofs ------------------------
(***************************************************************************)
(* The contexts of the Windows Broker, for any number of sensors, of       *)
(* connections, and of changes of the bus: a tilt that reached the wire is *)
(* never repeated and never reported as a failure, a tilt is visible as    *)
(* long as somebody could queue behind it, and no transaction cuts into a  *)
(* travel but through a session that is with another sensor than its id's. *)
(***************************************************************************)
EXTENDS BrokerContexts, FiniteSetTheorems, TLAPS

\* Only a control function with an id of its own has one.
Session ==
    {s \in [on : Kinects \cup {None}, live : BOOLEAN, alias : BOOLEAN, prepared : BOOLEAN] :
       s.alias => s.on \in Aliased}

Typed ==
    /\ gRun \in BOOLEAN
    /\ published \subseteq Kinects /\ control \subseteq Kinects
    /\ kind \in [Kinects -> {"classic", "audio"}]
    /\ spent \in [events : 0..MaxEvents, faults : 0..MaxFaults]
    /\ server \in {"listen", "ended"} /\ host \in {"run", "joined", "closed"}
    /\ session \in [Contexts -> Session]
    /\ mutex \in [Contexts -> Threads \cup {None}]
    /\ tiltInFlight \in [Contexts -> Nat]
    /\ io \in [Keys -> Threads \cup {None}]
    /\ pc \in [Threads -> Places]
    /\ command \in [Threads -> Commands]
    /\ target \in [Threads -> Contexts]
    /\ attempt \in [Threads -> {1, 2}]
    /\ committed \in [Threads -> BOOLEAN]
    /\ result \in [Threads -> {"ok", "busy", "failed"}]

HoldsContext == {"open", "io", "recover", "unlock"} \cup UsesInterface
Counting == {"lock", "uncount"} \cup HoldsContext

\* The tilts of a context between their two changes of its counter.
Tilts(c) == {t \in Threads : pc[t] \in Counting /\ command[t] = "Tilt" /\ target[t] = c}

CounterIsTilts == \A c \in Contexts : tiltInFlight[c] = Cardinality(Tilts(c))

\* A thread between Lock and Unlock has the mutex of its context.
MutexHeld == \A t \in Threads : pc[t] \in HoldsContext => mutex[target[t]] = t

\* A thread that uses an interface has a session, and the mutex of its key.
Connected == \A t \in Threads : pc[t] \in {"io"} \cup UsesInterface => My(t).on # None
IoHeld == \A t \in Threads : pc[t] \in UsesInterface => io[Key(t)] = t

\* A tilt on the wire only travels, is verified, and then is a success.
OnTheWire ==
    \A t \in Threads : committed[t] =>
        \/ pc[t] \in {"travel", "verify"}
        \/ pc[t] \in {"unlock", "uncount", "reply"} /\ result[t] = "ok"

\* Only a tilt has a counter to lower.
TiltsUncount == \A t \in Threads : pc[t] = "uncount" => command[t] = "Tilt"

IInv == Typed /\ CounterIsTilts /\ MutexHeld /\ Connected /\ IoHeld /\ OnTheWire /\ TiltsUncount

-----------------------------------------------------------------------------
(* Facts about the values of the model.                                    *)

LEMMA Names ==
    /\ \A t \in Threads : t # None
    /\ \A k \in Kinects : k \in Contexts /\ k # None
    /\ None \in Contexts /\ Sdk \in Threads /\ Clients \subseteq Threads
BY BrokerAssumption DEF Threads, Contexts

LEMMA Finite ==
    ASSUME NEW S, S \subseteq Threads
    PROVE  IsFiniteSet(S) /\ Cardinality(S) \in Nat
<1>1. IsFiniteSet(Threads)
  BY BrokerAssumption, FS_AddElement DEF Threads
<1> QED
  BY <1>1, FS_Subset, FS_CardinalityType

LEMMA TiltsFinite ==
    ASSUME NEW c
    PROVE  Tilts(c) \subseteq Threads /\ IsFiniteSet(Tilts(c)) /\ Cardinality(Tilts(c)) \in Nat
<1>1. Tilts(c) \subseteq Threads
  BY DEF Tilts
<1> QED
  BY <1>1, Finite

LEMMA SessionValues ==
    /\ Closed \in Session /\ Closed.on = None
    /\ \A s \in Session : [s EXCEPT !.prepared = TRUE] \in Session
         /\ [s EXCEPT !.prepared = TRUE].on = s.on
         /\ [s EXCEPT !.prepared = TRUE].alias = s.alias
         /\ [s EXCEPT !.live = FALSE] \in Session
         /\ [s EXCEPT !.live = FALSE].on = s.on
         /\ [s EXCEPT !.live = FALSE].alias = s.alias
BY DEF Closed, Session

LEMMA OpenableOnBus ==
    ASSUME NEW id \in Contexts, NEW known \in BOOLEAN,
           NEW k \in Openable(id, known) \cup FallsThrough(id, known)
    PROVE  k \in control
<1>1. ASSUME NEW class, NEW x \in Selected(class, id)
      PROVE  x \in control
  BY <1>1 DEF Selected
<1> QED
  BY <1>1 DEF Openable, FallsThrough

-----------------------------------------------------------------------------
(* What any step of a thread does: it moves that thread, keeps every other  *)
(* one its locks, and touches only its own context, which it then holds.    *)

Moves(t) ==
    /\ \A u \in Threads : u # t =>
         /\ pc'[u] = pc[u] /\ command'[u] = command[u] /\ target'[u] = target[u]
         /\ committed'[u] = committed[u] /\ result'[u] = result[u]
    /\ \/ session' = session
       \/ /\ pc[t] \in HoldsContext
          /\ \A c \in Contexts : c # target[t] => session'[c] = session[c]
    /\ \A c \in Contexts, u \in Threads : u # t /\ mutex[c] = u => mutex'[c] = u
    /\ \A k \in Keys, u \in Threads : u # t /\ io[k] = u => io'[k] = u

InTilt(t) == pc[t] \in Counting /\ command[t] = "Tilt"

\* How the counters follow a thread.
Counts(t) ==
    \/ /\ tiltInFlight' = tiltInFlight /\ InTilt(t)' = InTilt(t)
       /\ InTilt(t) => target'[t] = target[t]
    \/ /\ ~InTilt(t) /\ InTilt(t)' /\ target'[t] = target[t]
       /\ tiltInFlight' = [tiltInFlight EXCEPT ![target[t]] = @ + 1]
    \/ /\ InTilt(t) /\ ~InTilt(t)'
       /\ tiltInFlight' = [tiltInFlight EXCEPT ![target[t]] = @ - 1]

\* The parts of the invariant that speak of one thread.
Good(t) ==
    /\ pc[t] \in HoldsContext => mutex[target[t]] = t
    /\ pc[t] \in {"io"} \cup UsesInterface => My(t).on # None
    /\ pc[t] \in UsesInterface => io[Key(t)] = t
    /\ committed[t] =>
         \/ pc[t] \in {"travel", "verify"}
         \/ pc[t] \in {"unlock", "uncount", "reply"} /\ result[t] = "ok"
    /\ pc[t] = "uncount" => command[t] = "Tilt"

LEMMA Parts ==
    MutexHeld /\ Connected /\ IoHeld /\ OnTheWire /\ TiltsUncount <=> \A t \in Threads : Good(t)
BY DEF MutexHeld, Connected, IoHeld, OnTheWire, TiltsUncount, Good

\* A tilt on its way makes the counter of its context positive.
LEMMA Positive ==
    ASSUME Typed, CounterIsTilts, NEW t \in Threads, InTilt(t)
    PROVE  tiltInFlight[target[t]] > 0
<1>1. t \in Tilts(target[t]) /\ target[t] \in Contexts
  BY DEF InTilt, Tilts, Typed
<1>2. Cardinality(Tilts(target[t])) \in Nat /\ Cardinality(Tilts(target[t])) # 0
  BY <1>1, TiltsFinite, FS_EmptySet
<1> QED
  BY <1>1, <1>2 DEF CounterIsTilts

LEMMA PutStep ==
    ASSUME Typed, NEW t \in Threads, NEW s \in Session, Put(t, s)
    PROVE  /\ session' \in [Contexts -> Session]
           /\ session'[target[t]] = s
           /\ \A c \in Contexts : c # target[t] => session'[c] = session[c]
BY DEF Typed, Put

LEMMA LeaveStep ==
    ASSUME Typed, NEW t \in Threads, LeaveIo(t)
    PROVE  /\ io' \in [Keys -> Threads \cup {None}]
           /\ \A k \in Keys, u \in Threads : u # t /\ io[k] = u => io'[k] = u
BY DEF Typed, LeaveIo

LEMMA FaultStep ==
    ASSUME Typed
    PROVE  /\ Fault => spent' \in [events : 0..MaxEvents, faults : 0..MaxFaults]
           /\ Event => spent' \in [events : 0..MaxEvents, faults : 0..MaxFaults]
BY BrokerAssumption DEF Typed, Fault, Event, Spend

LEMMA FailedStep ==
    ASSUME Typed, NEW t \in Threads, NEW done \in BOOLEAN, Failed(t, done)
    PROVE  /\ session' \in [Contexts -> Session]
           /\ \A c \in Contexts : c # target[t] => session'[c] = session[c]
           /\ pc' = [pc EXCEPT ![t] = pc'[t]] /\ result' = [result EXCEPT ![t] = result'[t]]
           /\ \/ pc'[t] = "unlock" /\ result'[t] = IF done THEN "ok" ELSE "failed"
              \/ pc'[t] = "recover" /\ ~done /\ result'[t] = result[t]
BY PutStep, SessionValues DEF Typed, Failed, Goto

LEMMA SucceededStep ==
    ASSUME Typed, NEW t \in Threads, NEW s \in Session, Succeeded(t, s)
    PROVE  /\ session' \in [Contexts -> Session]
           /\ \A c \in Contexts : c # target[t] => session'[c] = session[c]
           /\ pc' = [pc EXCEPT ![t] = "unlock"] /\ result' = [result EXCEPT ![t] = "ok"]
BY PutStep DEF Typed, Succeeded, Goto

LEMMA MyTyped ==
    ASSUME Typed, NEW t \in Threads
    PROVE  My(t) \in Session /\ target[t] \in Contexts
BY DEF Typed, My

LEMMA KeyTyped ==
    ASSUME Typed, NEW t \in Threads, My(t).on # None
    PROVE  Key(t) \in Keys
<1>1. My(t) \in Session /\ target[t] \in Contexts
  BY MyTyped
<1> QED
  BY <1>1 DEF Key, Keys, Session, Contexts

-----------------------------------------------------------------------------
(* One lemma per step of a thread.                                         *)

LEMMA AskThread ==
    ASSUME IInv, NEW t \in Threads, Ask(t)
    PROVE  Typed' /\ Moves(t) /\ Counts(t) /\ Good(t)'
<1>1. Typed /\ Good(t) /\ My(t) \in Session /\ target[t] \in Contexts
  BY MyTyped, Parts DEF IInv
<1>2. Typed'
  BY <1>1, Names DEF Ask, OnlyCall, Goto, Answer, env, life, locks, Typed, Places
<1>3. Moves(t)
  BY <1>1, Names DEF Ask, OnlyCall, Goto, Answer, env, life, locks, Typed, Moves, UsesInterface,
      HoldsContext, Counting
<1>4. Counts(t)
  BY <1>1 DEF Ask, OnlyCall, Goto, Answer, env, life, locks, Typed, Counts, InTilt, UsesInterface,
      HoldsContext, Counting
<1>5. Good(t)'
  BY <1>1, Names DEF Ask, OnlyCall, Goto, Answer, env, life, locks, Typed, Good, My, Key,
      UsesInterface, HoldsContext, Counting
<1> QED
  BY <1>2, <1>3, <1>4, <1>5

LEMMA CheckThread ==
    ASSUME IInv, NEW t \in Threads, Check(t)
    PROVE  Typed' /\ Moves(t) /\ Counts(t) /\ Good(t)'
<1>1. Typed /\ Good(t) /\ My(t) \in Session /\ target[t] \in Contexts
  BY MyTyped, Parts DEF IInv
<1>2. Typed'
  BY <1>1, Names DEF Check, env, life, Goto, Answer, Typed, Places
<1>3. Moves(t)
  BY <1>1, Names DEF Check, env, life, Goto, Answer, Typed, Moves, UsesInterface, HoldsContext,
      Counting
<1>4. Counts(t)
  BY <1>1 DEF Check, env, life, Goto, Answer, Typed, Counts, InTilt, UsesInterface, HoldsContext,
      Counting
<1>5. Good(t)'
  BY <1>1, Names DEF Check, env, life, Goto, Answer, Typed, Good, My, Key, UsesInterface,
      HoldsContext, Counting
<1> QED
  BY <1>2, <1>3, <1>4, <1>5

LEMMA LockThread ==
    ASSUME IInv, NEW t \in Threads, Lock(t)
    PROVE  Typed' /\ Moves(t) /\ Counts(t) /\ Good(t)'
<1>1. Typed /\ Good(t) /\ My(t) \in Session /\ target[t] \in Contexts
  BY MyTyped, Parts DEF IInv
<1>2. Typed'
  BY <1>1, Names DEF Lock, env, life, Goto, Typed, Places
<1>3. Moves(t)
  BY <1>1, Names DEF Lock, env, life, Goto, Typed, Moves, UsesInterface, HoldsContext, Counting
<1>4. Counts(t)
  BY <1>1 DEF Lock, env, life, Goto, Typed, Counts, InTilt, UsesInterface, HoldsContext, Counting
<1>5. Good(t)'
  BY <1>1, Names DEF Lock, env, life, Goto, Typed, Good, My, Key, UsesInterface, HoldsContext,
      Counting
<1> QED
  BY <1>2, <1>3, <1>4, <1>5

LEMMA IoThread ==
    ASSUME IInv, NEW t \in Threads, Io(t)
    PROVE  Typed' /\ Moves(t) /\ Counts(t) /\ Good(t)'
<1>1. Typed /\ Good(t) /\ My(t) \in Session /\ target[t] \in Contexts
  BY MyTyped, Parts DEF IInv
<1>a. Key(t) \in Keys
  BY <1>1, KeyTyped DEF Good, Io
<1>2. Typed'
  BY <1>1, <1>a, Names DEF Io, env, life, Goto, Typed, Places
<1>3. Moves(t)
  BY <1>1, <1>a, Names DEF Io, env, life, Goto, Typed, Moves, UsesInterface, HoldsContext, Counting
<1>4. Counts(t)
  BY <1>1, <1>a DEF Io, env, life, Goto, Typed, Counts, InTilt, UsesInterface, HoldsContext,
      Counting
<1>5. Good(t)'
  BY <1>1, <1>a, Names DEF Io, env, life, Goto, Typed, Good, My, Key, UsesInterface, HoldsContext,
      Counting
<1> QED
  BY <1>2, <1>3, <1>4, <1>5

LEMMA TravelThread ==
    ASSUME IInv, NEW t \in Threads, Travel(t)
    PROVE  Typed' /\ Moves(t) /\ Counts(t) /\ Good(t)'
<1>1. Typed /\ Good(t) /\ My(t) \in Session /\ target[t] \in Contexts
  BY MyTyped, Parts DEF IInv
<1>2. Typed'
  BY <1>1, Names DEF Travel, InIo, Goto, env, life, Typed, Places
<1>3. Moves(t)
  BY <1>1, Names DEF Travel, InIo, Goto, env, life, Typed, Moves, UsesInterface, HoldsContext,
      Counting
<1>4. Counts(t)
  BY <1>1 DEF Travel, InIo, Goto, env, life, Typed, Counts, InTilt, UsesInterface, HoldsContext,
      Counting
<1>5. Good(t)'
  BY <1>1, Names DEF Travel, InIo, Goto, env, life, Typed, Good, My, Key, UsesInterface,
      HoldsContext, Counting
<1> QED
  BY <1>2, <1>3, <1>4, <1>5

LEMMA UnlockThread ==
    ASSUME IInv, NEW t \in Threads, Unlock(t)
    PROVE  Typed' /\ Moves(t) /\ Counts(t) /\ Good(t)'
<1>1. Typed /\ Good(t) /\ My(t) \in Session /\ target[t] \in Contexts
  BY MyTyped, Parts DEF IInv
<1>a. mutex[target[t]] = t
  BY <1>1 DEF Good, Unlock, HoldsContext
<1>2. Typed'
  BY <1>1, <1>a, Names DEF Unlock, env, life, Goto, Typed, Places
<1>3. Moves(t)
  BY <1>1, <1>a, Names DEF Unlock, env, life, Goto, Typed, Moves, UsesInterface, HoldsContext,
      Counting
<1>4. Counts(t)
  BY <1>1, <1>a DEF Unlock, env, life, Goto, Typed, Counts, InTilt, UsesInterface, HoldsContext,
      Counting
<1>5. Good(t)'
  BY <1>1, <1>a, Names DEF Unlock, env, life, Goto, Typed, Good, My, Key, UsesInterface,
      HoldsContext, Counting
<1> QED
  BY <1>2, <1>3, <1>4, <1>5

LEMMA UncountThread ==
    ASSUME IInv, NEW t \in Threads, Uncount(t)
    PROVE  Typed' /\ Moves(t) /\ Counts(t) /\ Good(t)'
<1>1. Typed /\ Good(t) /\ My(t) \in Session /\ target[t] \in Contexts
  BY MyTyped, Parts DEF IInv
<1>a. command[t] = "Tilt" /\ tiltInFlight[target[t]] \in Nat /\ tiltInFlight[target[t]] > 0
  <2>1. InTilt(t)
    BY <1>1 DEF Good, Uncount, InTilt, Counting
  <2> QED
    BY <1>1, <2>1, Positive DEF IInv, Typed, InTilt
<1>2. Typed'
  BY <1>1, <1>a, Names DEF Uncount, env, life, Goto, Typed, Places
<1>3. Moves(t)
  BY <1>1, <1>a, Names DEF Uncount, env, life, Goto, Typed, Moves, UsesInterface, HoldsContext,
      Counting
<1>4. Counts(t)
  BY <1>1, <1>a DEF Uncount, env, life, Goto, Typed, Counts, InTilt, UsesInterface, HoldsContext,
      Counting
<1>5. Good(t)'
  BY <1>1, <1>a, Names DEF Uncount, env, life, Goto, Typed, Good, My, Key, UsesInterface,
      HoldsContext, Counting
<1> QED
  BY <1>2, <1>3, <1>4, <1>5

LEMMA ReplyThread ==
    ASSUME IInv, NEW t \in Threads, Reply(t)
    PROVE  Typed' /\ Moves(t) /\ Counts(t) /\ Good(t)'
<1>1. Typed /\ Good(t) /\ My(t) \in Session /\ target[t] \in Contexts
  BY MyTyped, Parts DEF IInv
<1>2. Typed'
  BY <1>1, Names DEF Reply, OnlyCall, Goto, env, life, locks, Typed, Places, Commands
<1>3. Moves(t)
  BY <1>1, Names DEF Reply, OnlyCall, Goto, env, life, locks, Typed, Moves, UsesInterface,
      HoldsContext, Counting
<1>4. Counts(t)
  BY <1>1 DEF Reply, OnlyCall, Goto, env, life, locks, Typed, Counts, InTilt, UsesInterface,
      HoldsContext, Counting
<1>5. Good(t)'
  BY <1>1, Names DEF Reply, OnlyCall, Goto, env, life, locks, Typed, Good, My, Key, UsesInterface,
      HoldsContext, Counting
<1> QED
  BY <1>2, <1>3, <1>4, <1>5

\* An attempt that ends leaves the interface; what has been on the wire does not
\* end as a failure.
LEMMA AttemptEnds ==
    ASSUME IInv, NEW t \in Threads,
           pc[t] \in {"open"} \cup UsesInterface,
           \/ \E s \in Session : Succeeded(t, s)
           \/ \E done \in BOOLEAN : Failed(t, done) /\ (committed[t] => done),
           spent' \in [events : 0..MaxEvents, faults : 0..MaxFaults],
           LeaveIo(t) \/ UNCHANGED io,
           UNCHANGED <<env, life, mutex, tiltInFlight, command, target, attempt, committed>>
    PROVE  Typed' /\ Moves(t) /\ Counts(t) /\ Good(t)'
<1>1. Typed /\ Good(t) /\ target[t] \in Contexts
  BY MyTyped, Parts DEF IInv
<1>2. /\ session' \in [Contexts -> Session]
      /\ \A c \in Contexts : c # target[t] => session'[c] = session[c]
      /\ pc' = [pc EXCEPT ![t] = pc'[t]] /\ result' = [result EXCEPT ![t] = result'[t]]
      /\ \/ pc'[t] = "unlock" /\ result'[t] \in {"ok", "failed"}
         \/ pc'[t] = "recover" /\ result'[t] = result[t]
      /\ committed[t] => pc'[t] = "unlock" /\ result'[t] = "ok"
  <2>1. ASSUME NEW s \in Session, Succeeded(t, s)
        PROVE  <1>2!:
    BY <1>1, <2>1, SucceededStep DEF Typed
  <2>2. ASSUME NEW done \in BOOLEAN, Failed(t, done), committed[t] => done
        PROVE  <1>2!:
    BY <1>1, <2>2, FailedStep
  <2> QED
    BY <2>1, <2>2
<1>3. /\ io' \in [Keys -> Threads \cup {None}]
      /\ \A k \in Keys, u \in Threads : u # t /\ io[k] = u => io'[k] = u
  BY <1>1, LeaveStep DEF Typed
<1>4. Typed'
  BY <1>1, <1>2, <1>3 DEF Typed, env, life, Places
<1>5. Moves(t)
  BY <1>1, <1>2, <1>3 DEF Typed, Moves, HoldsContext, UsesInterface
<1>6. Counts(t)
  BY <1>1, <1>2 DEF Typed, Counts, InTilt, HoldsContext, UsesInterface, Counting
<1>7. Good(t)'
  BY <1>1, <1>2 DEF Typed, Good, HoldsContext, UsesInterface, Counting
<1> QED
  BY <1>4, <1>5, <1>6, <1>7

\* An attempt that goes on keeps the interface it has.
LEMMA AttemptGoesOn ==
    ASSUME IInv, NEW t \in Threads,
           NEW s \in Session, Put(t, s) \/ (UNCHANGED session /\ s = My(t)), s.on # None,
           \/ pc[t] = "open" /\ Goto(t, "io")
           \/ pc[t] = "prepare" /\ Goto(t, "act") /\ s.on = My(t).on /\ s.alias = My(t).alias
           \/ pc[t] = "act" /\ Goto(t, "travel") /\ UNCHANGED session,
           spent' \in [events : 0..MaxEvents, faults : 0..MaxFaults],
           UNCHANGED <<env, life, locks, command, target, attempt, result>>,
           committed' \in [Threads -> BOOLEAN],
           \A u \in Threads : committed'[u] # committed[u] => u = t /\ pc[t] = "act"
    PROVE  Typed' /\ Moves(t) /\ Counts(t) /\ Good(t)'
<1>1. Typed /\ Good(t) /\ target[t] \in Contexts
  BY MyTyped, Parts DEF IInv
<1>2. /\ session' \in [Contexts -> Session] /\ session'[target[t]] = s
      /\ \A c \in Contexts : c # target[t] => session'[c] = session[c]
  BY <1>1, PutStep DEF Typed, My
<1>3. Typed'
  BY <1>1, <1>2 DEF Typed, env, life, locks, Goto, Places
<1>4. Moves(t)
  BY <1>1, <1>2 DEF Typed, Moves, HoldsContext, UsesInterface, locks, Goto
<1>5. Counts(t)
  BY <1>1 DEF Typed, Counts, InTilt, HoldsContext, UsesInterface, Counting, locks, Goto
<1>6. Good(t)'
  BY <1>1, <1>2 DEF Typed, Good, HoldsContext, UsesInterface, Counting, locks, Goto, My, Key
<1> QED
  BY <1>3, <1>4, <1>5, <1>6

LEMMA OpenThread ==
    ASSUME IInv, NEW t \in Threads, Open(t)
    PROVE  Typed' /\ Moves(t) /\ Counts(t) /\ Good(t)'
<1>1. /\ Typed /\ Good(t) /\ My(t) \in Session /\ target[t] \in Contexts
      /\ committed \in [Threads -> BOOLEAN]
      /\ spent \in [events : 0..MaxEvents, faults : 0..MaxFaults]
      /\ Fault => spent' \in [events : 0..MaxEvents, faults : 0..MaxFaults]
  BY MyTyped, Parts, FaultStep DEF IInv, Typed
<1>2. pc[t] = "open"
      /\ UNCHANGED <<env, life, locks, command, target, attempt, committed>>
      /\ ~committed[t]
  BY <1>1 DEF Open, Good
<1>3. CASE My(t).on # None /\ Goto(t, "io") /\ UNCHANGED <<session, spent, result>>
  BY <1>1, <1>2, <1>3, AttemptGoesOn
<1>4. ASSUME NEW known \in BOOLEAN,
             NEW k \in Openable(target[t], known) \cup FallsThrough(target[t], known),
             Opened(t, k), Fault \/ UNCHANGED spent
      PROVE  Typed' /\ Moves(t) /\ Counts(t) /\ Good(t)'
  <2>1. k \in Kinects /\ k # None
    BY <1>1, OpenableOnBus, Names DEF Typed
  <2> DEFINE s == [on |-> k, live |-> TRUE, prepared |-> FALSE,
                   alias |-> target[t] = None /\ k \in Aliased]
  <2>2. s \in Session /\ s.on # None
    BY <2>1 DEF Session
  <2>3. Put(t, s) /\ Goto(t, "io") /\ UNCHANGED result
    BY <1>4 DEF Opened
  <2> HIDE DEF s
  <2> QED
    BY <1>1, <1>2, <1>4, <2>2, <2>3, AttemptGoesOn
<1>5. CASE (Fault \/ UNCHANGED spent) /\ Failed(t, FALSE)
  BY <1>1, <1>2, <1>5, AttemptEnds DEF locks
<1> QED
  BY <1>3, <1>4, <1>5 DEF Open

LEMMA PrepareThread ==
    ASSUME IInv, NEW t \in Threads, Prepare(t)
    PROVE  Typed' /\ Moves(t) /\ Counts(t) /\ Good(t)'
<1>1. /\ Typed /\ Good(t) /\ My(t) \in Session /\ target[t] \in Contexts
      /\ committed \in [Threads -> BOOLEAN]
      /\ spent \in [events : 0..MaxEvents, faults : 0..MaxFaults]
      /\ Fault => spent' \in [events : 0..MaxEvents, faults : 0..MaxFaults]
  BY MyTyped, Parts, FaultStep DEF IInv, Typed
<1>2. pc[t] = "prepare"
      /\ UNCHANGED <<env, life, mutex, tiltInFlight, command, target, attempt, committed>>
      /\ ~committed[t]
  BY <1>1 DEF Prepare, Good, InIo
<1>3. [My(t) EXCEPT !.prepared = TRUE] \in Session /\ My(t).on # None
      /\ [My(t) EXCEPT !.prepared = TRUE].on = My(t).on
      /\ [My(t) EXCEPT !.prepared = TRUE].alias = My(t).alias
  BY <1>1, <1>2, SessionValues DEF Good, UsesInterface
<1>4. CASE /\ \/ Succeeded(t, My(t)) \/ Failed(t, FALSE)
              \/ Succeeded(t, [My(t) EXCEPT !.prepared = TRUE])
           /\ LeaveIo(t) /\ (Fault \/ UNCHANGED spent)
  BY <1>1, <1>2, <1>3, <1>4, AttemptEnds DEF UsesInterface
<1>5. CASE /\ Put(t, [My(t) EXCEPT !.prepared = TRUE]) /\ Goto(t, "act")
           /\ UNCHANGED <<io, result, spent>>
  BY <1>1, <1>2, <1>3, <1>5, AttemptGoesOn DEF locks
<1> QED
  BY <1>4, <1>5 DEF Prepare, Works, Breaks

LEMMA TransactThread ==
    ASSUME IInv, NEW t \in Threads, Transact(t)
    PROVE  Typed' /\ Moves(t) /\ Counts(t) /\ Good(t)'
<1>1. /\ Typed /\ Good(t) /\ My(t) \in Session /\ target[t] \in Contexts
      /\ committed \in [Threads -> BOOLEAN]
      /\ spent \in [events : 0..MaxEvents, faults : 0..MaxFaults]
      /\ Fault => spent' \in [events : 0..MaxEvents, faults : 0..MaxFaults]
  BY MyTyped, Parts, FaultStep DEF IInv, Typed
<1>2. pc[t] = "act"
      /\ UNCHANGED <<env, life, mutex, tiltInFlight, command, target, attempt, committed>>
      /\ ~committed[t]
  BY <1>1 DEF Transact, Good, InIo
<1>3. /\ Succeeded(t, My(t)) \/ Failed(t, FALSE)
      /\ LeaveIo(t) /\ (Fault \/ UNCHANGED spent)
  BY DEF Transact, Works, Breaks
<1> QED
  BY <1>1, <1>2, <1>3, AttemptEnds DEF UsesInterface

LEMMA IssueTiltThread ==
    ASSUME IInv, NEW t \in Threads, IssueTilt(t)
    PROVE  Typed' /\ Moves(t) /\ Counts(t) /\ Good(t)'
<1>1. /\ Typed /\ Good(t) /\ My(t) \in Session /\ target[t] \in Contexts
      /\ committed \in [Threads -> BOOLEAN]
      /\ spent \in [events : 0..MaxEvents, faults : 0..MaxFaults]
      /\ Fault => spent' \in [events : 0..MaxEvents, faults : 0..MaxFaults]
  BY MyTyped, Parts, FaultStep DEF IInv, Typed
<1>2. pc[t] = "act"
      /\ UNCHANGED <<env, life, mutex, tiltInFlight, command, target, attempt>>
      /\ ~committed[t] /\ My(t).on # None
  BY <1>1 DEF IssueTilt, Good, InIo, UsesInterface
<1>3. CASE Failed(t, FALSE) /\ LeaveIo(t) /\ UNCHANGED committed /\ (Fault \/ UNCHANGED spent)
  BY <1>1, <1>2, <1>3, AttemptEnds DEF UsesInterface
<1>4. CASE /\ committed' = [committed EXCEPT ![t] = TRUE]
           /\ Goto(t, "travel") /\ UNCHANGED <<session, io, result, spent>>
  <2>1. /\ committed' \in [Threads -> BOOLEAN]
        /\ \A u \in Threads : committed'[u] # committed[u] => u = t
    BY <1>1, <1>4
  <2> QED
    BY <1>1, <1>2, <1>4, <2>1, AttemptGoesOn DEF locks
<1> QED
  BY <1>3, <1>4 DEF IssueTilt, Works, Breaks

LEMMA VerifyThread ==
    ASSUME IInv, NEW t \in Threads, Verify(t)
    PROVE  Typed' /\ Moves(t) /\ Counts(t) /\ Good(t)'
<1>1. /\ Typed /\ Good(t) /\ My(t) \in Session /\ target[t] \in Contexts
      /\ committed \in [Threads -> BOOLEAN]
      /\ spent \in [events : 0..MaxEvents, faults : 0..MaxFaults]
      /\ Fault => spent' \in [events : 0..MaxEvents, faults : 0..MaxFaults]
  BY MyTyped, Parts, FaultStep DEF IInv, Typed
<1>2. pc[t] = "verify"
      /\ UNCHANGED <<env, life, mutex, tiltInFlight, command, target, attempt, committed>>
      /\ LeaveIo(t) /\ (Fault \/ UNCHANGED spent)
  BY DEF Verify, InIo, Works, Breaks
<1>3. Succeeded(t, My(t)) \/ Failed(t, committed[t])
  BY DEF Verify
<1> QED
  BY <1>1, <1>2, <1>3, AttemptEnds DEF UsesInterface

LEMMA RecoverThread ==
    ASSUME IInv, NEW t \in Threads, Recover(t)
    PROVE  Typed' /\ Moves(t) /\ Counts(t) /\ Good(t)'
<1>1. Typed /\ Good(t) /\ My(t) \in Session /\ target[t] \in Contexts
  BY MyTyped, Parts DEF IInv
<1>a. /\ session' \in [Contexts -> Session]
      /\ \A c \in Contexts : c # target[t] => session'[c] = session[c]
  BY <1>1, PutStep, SessionValues DEF Recover
<1>2. Typed'
  BY <1>1, <1>a, Names DEF Recover, InIo, Goto, env, life, Typed, Places
<1>3. Moves(t)
  BY <1>1, <1>a, Names DEF Recover, InIo, Goto, env, life, Typed, Moves, UsesInterface,
      HoldsContext, Counting
<1>4. Counts(t)
  BY <1>1, <1>a DEF Recover, InIo, Goto, env, life, Typed, Counts, InTilt, UsesInterface,
      HoldsContext, Counting
<1>5. Good(t)'
  BY <1>1, <1>a, Names DEF Recover, InIo, Goto, env, life, Typed, Good, My, Key, UsesInterface,
      HoldsContext, Counting
<1> QED
  BY <1>2, <1>3, <1>4, <1>5

LEMMA RequestThread ==
    ASSUME IInv, NEW t \in Threads, NEW what \in Commands, NEW id \in Contexts, Request(t, what, id)
    PROVE  Typed' /\ Moves(t) /\ Counts(t) /\ Good(t)'
<1>1. Typed /\ Good(t)
  BY Parts DEF IInv
<1>2. Resolved(id) \in Contexts
  BY <1>1 DEF Resolved, Typed, Contexts
<1>3. Typed'
  BY <1>1, <1>2 DEF Request, OnlyCall, env, life, locks, Goto, Typed, Places
<1>4. Moves(t)
  BY <1>1 DEF Request, OnlyCall, locks, Goto, Typed, Moves
<1>5. Counts(t)
  BY <1>1 DEF Request, OnlyCall, locks, Goto, Typed, Counts, InTilt, Counting, HoldsContext,
              UsesInterface
<1>6. Good(t)'
  BY <1>1 DEF Request, OnlyCall, Goto, Typed, Good, HoldsContext, UsesInterface
<1> QED
  BY <1>3, <1>4, <1>5, <1>6

-----------------------------------------------------------------------------
(* The step of one thread and the parts of the invariant.                  *)

\* The other threads stay as good as they were: what a thread changes of the
\* sessions is in the context whose mutex it holds.
LEMMA OthersGood ==
    ASSUME IInv, NEW t \in Threads, Moves(t), NEW u \in Threads, u # t
    PROVE  Good(u)'
<1>1. Typed /\ Good(u) /\ Good(t) /\ target[u] \in Contexts /\ target[t] \in Contexts
  BY MyTyped, Parts DEF IInv
<1>2. /\ pc'[u] = pc[u] /\ command'[u] = command[u] /\ target'[u] = target[u]
      /\ committed'[u] = committed[u] /\ result'[u] = result[u]
  BY DEF Moves
<1>3. pc[u] \in HoldsContext => mutex'[target[u]] = u /\ session'[target[u]] = session[target[u]]
  BY <1>1 DEF Good, Moves
<1>4. pc[u] \in {"io"} \cup UsesInterface => Key(u) \in Keys /\ Key(u)' = Key(u) /\ My(u)' = My(u)
  BY <1>1, <1>2, <1>3, KeyTyped DEF Good, Key, My, HoldsContext
<1>5. pc[u] \in UsesInterface => io'[Key(u)] = u
  BY <1>1, <1>4 DEF Good, Moves
<1> QED
  BY <1>1, <1>2, <1>3, <1>4, <1>5 DEF Good

LEMMA CountsStep ==
    ASSUME IInv, NEW t \in Threads, Typed', Moves(t), Counts(t)
    PROVE  CounterIsTilts'
<1> SUFFICES ASSUME NEW c \in Contexts
             PROVE  tiltInFlight'[c] = Cardinality(Tilts(c)')
  BY DEF CounterIsTilts
<1>1. \A u \in Threads : u # t => (u \in Tilts(c)' <=> u \in Tilts(c))
  BY DEF Moves, Tilts
<1>2. (t \in Tilts(c) <=> InTilt(t) /\ target[t] = c)
        /\ (t \in Tilts(c)' <=> InTilt(t)' /\ target'[t] = c)
  BY DEF Tilts, InTilt
<1>3. tiltInFlight[c] = Cardinality(Tilts(c)) /\ IsFiniteSet(Tilts(c))
        /\ Tilts(c) \subseteq Threads /\ Tilts(c)' \subseteq Threads
        /\ tiltInFlight \in [Contexts -> Nat] /\ target[t] \in Contexts
  <2>1. Tilts(c)' \subseteq Threads
    BY DEF Tilts
  <2> QED
    BY <2>1, TiltsFinite DEF IInv, Typed, CounterIsTilts
<1>4. CASE /\ tiltInFlight' = tiltInFlight /\ InTilt(t)' = InTilt(t)
           /\ InTilt(t) => target'[t] = target[t]
  <2>1. Tilts(c)' = Tilts(c)
    BY <1>1, <1>2, <1>3, <1>4
  <2> QED
    BY <1>3, <1>4, <2>1
<1>5. CASE /\ ~InTilt(t) /\ InTilt(t)' /\ target'[t] = target[t]
           /\ tiltInFlight' = [tiltInFlight EXCEPT ![target[t]] = @ + 1]
  <2>1. CASE target[t] = c
    <3>1. Tilts(c)' = Tilts(c) \cup {t} /\ t \notin Tilts(c)
      BY <1>1, <1>2, <1>3, <1>5, <2>1
    <3>2. Cardinality(Tilts(c)') = Cardinality(Tilts(c)) + 1
      BY <1>3, <3>1, FS_AddElement
    <3> QED
      BY <1>3, <1>5, <2>1, <3>2
  <2>2. CASE target[t] # c
    <3>1. Tilts(c)' = Tilts(c)
      BY <1>1, <1>2, <1>3, <1>5, <2>2
    <3> QED
      BY <1>3, <1>5, <2>2, <3>1
  <2> QED
    BY <2>1, <2>2
<1>6. CASE /\ InTilt(t) /\ ~InTilt(t)'
           /\ tiltInFlight' = [tiltInFlight EXCEPT ![target[t]] = @ - 1]
  <2>1. CASE target[t] = c
    <3>1. Tilts(c)' = Tilts(c) \ {t} /\ t \in Tilts(c)
      BY <1>1, <1>2, <1>3, <1>6, <2>1
    <3>2. Cardinality(Tilts(c)') = Cardinality(Tilts(c)) - 1
      BY <1>3, <3>1, FS_RemoveElement
    <3> QED
      BY <1>3, <1>6, <2>1, <3>2
  <2>2. CASE target[t] # c
    <3>1. Tilts(c)' = Tilts(c)
      BY <1>1, <1>2, <1>3, <1>6, <2>2
    <3> QED
      BY <1>3, <1>6, <2>2, <3>1
  <2> QED
    BY <2>1, <2>2
<1> QED
  BY <1>4, <1>5, <1>6 DEF Counts

LEMMA ThreadStep ==
    ASSUME IInv, NEW t \in Threads, Typed', Moves(t), Counts(t), Good(t)'
    PROVE  IInv'
<1>1. \A u \in Threads : Good(u)'
  BY OthersGood
<1>2. (MutexHeld /\ Connected /\ IoHeld /\ OnTheWire /\ TiltsUncount)'
  BY <1>1 DEF MutexHeld, Connected, IoHeld, OnTheWire, TiltsUncount, Good
<1> QED
  BY <1>2, CountsStep DEF IInv

-----------------------------------------------------------------------------
(* The steps of the bus, the manifest and the host.                        *)

\* Threads, locks and counters are left alone, and no session that a thread
\* holds comes to be with another function.
LEMMA SurroundingsStep ==
    ASSUME IInv, Typed', UNCHANGED <<locks, call>>,
           \A t \in Threads : pc[t] \in HoldsContext =>
             My(t)'.on = My(t).on /\ My(t)'.alias = My(t).alias
    PROVE  IInv'
<1>1. CounterIsTilts'
  BY DEF IInv, CounterIsTilts, Tilts, locks, call
<1>2. (MutexHeld /\ OnTheWire /\ TiltsUncount)'
  BY DEF IInv, MutexHeld, OnTheWire, TiltsUncount, locks, call
<1>3. \A t \in Threads : pc[t] \in {"io"} \cup UsesInterface =>
        My(t)'.on = My(t).on /\ Key(t)' = Key(t)
  BY DEF Key, HoldsContext, call
<1>4. Connected' /\ IoHeld'
  BY <1>3 DEF IInv, Connected, IoHeld, locks, call
<1> QED
  BY <1>1, <1>2, <1>4 DEF IInv

LEMMA BusStep ==
    ASSUME IInv, Publish \/ \E k \in Kinects : Appear(k) \/ Disappear(k)
    PROVE  IInv'
<1>1. Typed
  BY DEF IInv
<1>2. CASE Publish
  <2>1. Typed'
    BY <1>1, <1>2, FaultStep DEF Publish, life, locks, call, Typed
  <2> QED
    BY <1>2, <2>1, SurroundingsStep DEF Publish, My, call
<1>3. ASSUME NEW k \in Kinects, Appear(k)
      PROVE  IInv'
  <2>1. Typed'
    BY <1>1, <1>3, FaultStep DEF Appear, life, locks, call, Typed
  <2> QED
    BY <1>3, <2>1, SurroundingsStep DEF Appear, My, call
<1>4. ASSUME NEW k \in Kinects, Disappear(k)
      PROVE  IInv'
  <2>1. \A c \in Contexts :
          /\ session'[c] \in Session
          /\ session'[c].on = session[c].on /\ session'[c].alias = session[c].alias
    <3> SUFFICES ASSUME NEW c \in Contexts
                 PROVE  /\ session'[c] \in Session
                        /\ session'[c].on = session[c].on /\ session'[c].alias = session[c].alias
      OBVIOUS
    <3>1. session[c] \in Session
      BY <1>1 DEF Typed
    <3>2. session'[c] = IF session[c].on = k THEN [session[c] EXCEPT !.live = FALSE] ELSE session[c]
      BY <1>4 DEF Disappear
    <3> QED
      BY <3>1, <3>2, SessionValues
  <2>2. session' \in [Contexts -> Session]
    BY <1>4, <2>1 DEF Disappear
  <2>3. Typed'
    BY <1>1, <1>4, <2>2, FaultStep DEF Disappear, life, locks, call, Typed
  <2>4. \A t \in Threads : My(t)'.on = My(t).on /\ My(t)'.alias = My(t).alias
    BY <1>1, <1>4, <2>1 DEF Disappear, call, My, Typed
  <2> QED
    BY <1>4, <2>3, <2>4, SurroundingsStep DEF Disappear
<1> QED
  BY <1>2, <1>3, <1>4

LEMMA HostStep ==
    ASSUME IInv, Stop \/ LoopsEnd \/ Join \/ CloseContexts \/ Done
    PROVE  IInv'
<1>1. Typed /\ \A t \in Threads : Good(t)
  BY Parts DEF IInv
<1>2. CASE Stop \/ LoopsEnd \/ Join
  <2>1. Typed'
    BY <1>1, <1>2 DEF Stop, LoopsEnd, Join, env, locks, call, Typed
  <2> QED
    BY <1>2, <2>1, SurroundingsStep DEF Stop, LoopsEnd, Join, My, call
<1>3. CASE CloseContexts
  <2>1. Typed'
    BY <1>1, <1>3, SessionValues DEF CloseContexts, env, locks, call, Typed
  <2>2. \A t \in Threads : pc[t] \notin HoldsContext
    BY <1>1, <1>3, MyTyped, Names DEF CloseContexts, Good
  <2> QED
    BY <1>3, <2>1, <2>2, SurroundingsStep DEF CloseContexts
<1>4. CASE Done
  <2>1. Typed'
    BY <1>1, <1>4 DEF Done, vars, env, life, locks, call, Typed
  <2> QED
    BY <1>4, <2>1, SurroundingsStep DEF Done, vars, My, call
<1> QED
  BY <1>2, <1>3, <1>4

LEMMA InitIInv == Init => IInv
<1> SUFFICES ASSUME Init
             PROVE  IInv
  OBVIOUS
<1>1. Typed
  <2>1. spent \in [events : 0..MaxEvents, faults : 0..MaxFaults]
    BY BrokerAssumption DEF Init
  <2>2. session \in [Contexts -> Session]
    BY SessionValues DEF Init
  <2> QED
    BY <2>1, <2>2, Names DEF Init, Typed, Places, Commands
<1>2. CounterIsTilts
  <2>1. \A c \in Contexts : Tilts(c) = {}
    BY DEF Init, Tilts, Counting, HoldsContext, UsesInterface
  <2> QED
    BY <2>1, FS_EmptySet DEF Init, CounterIsTilts
<1>3. \A t \in Threads : Good(t)
  BY DEF Init, Good, HoldsContext, UsesInterface
<1> QED
  BY <1>1, <1>2, <1>3, Parts DEF IInv

LEMMA StepIInv == IInv /\ [Next]_vars => IInv'
<1> SUFFICES ASSUME IInv, [Next]_vars
             PROVE  IInv'
  OBVIOUS
<1>1. ASSUME NEW t \in Threads, Step(t)
      PROVE  IInv'
  <2>1. Typed' /\ Moves(t) /\ Counts(t) /\ Good(t)'
    BY <1>1, AskThread, CheckThread, LockThread, OpenThread, IoThread, PrepareThread,
       TransactThread, IssueTiltThread, TravelThread, VerifyThread, RecoverThread, UnlockThread,
       UncountThread, ReplyThread DEF Step
  <2> QED
    BY <2>1, ThreadStep
<1>2. ASSUME NEW t \in Threads, NEW what \in Commands, NEW id \in Contexts, Request(t, what, id)
      PROVE  IInv'
  BY <1>2, RequestThread, ThreadStep
<1>3. CASE UNCHANGED vars
  <2>1. Typed'
    BY <1>3 DEF vars, env, life, locks, call, IInv, Typed
  <2> QED
    BY <1>3, <2>1, SurroundingsStep DEF vars, My, call
<1> QED
  BY <1>1, <1>2, <1>3, BusStep, HostStep DEF Next

-----------------------------------------------------------------------------
(* The theorems.                                                           *)

\* The invariant of the Broker's contexts: every counter is the tilts inside, whoever is
\* inside a context or uses an interface has its mutex, and what was written is known
\* (TryPhysicalNuiCommand).
THEOREM Invariance == Spec => []IInv
BY InitIInv, StepIInv, PTL DEF Spec

\* Every variable has its type; in particular no counter of tilts is lowered
\* below zero or raised above the number of threads (Kinect360RemoldBroker.cpp:
\* 886-900).
THEOREM TypeCorrect == Spec => []TypeOK
<1>1. IInv => TypeOK
  <2> SUFFICES ASSUME IInv
               PROVE  TypeOK
    OBVIOUS
  <2>1. \A c \in Contexts : tiltInFlight[c] \in 0..Cardinality(Threads)
    <3> SUFFICES ASSUME NEW c \in Contexts
                 PROVE  tiltInFlight[c] \in 0..Cardinality(Threads)
      OBVIOUS
    <3>1. Tilts(c) \subseteq Threads /\ IsFiniteSet(Threads)
      BY TiltsFinite, Finite
    <3>2. /\ Cardinality(Tilts(c)) <= Cardinality(Threads)
          /\ Cardinality(Tilts(c)) \in Nat /\ Cardinality(Threads) \in Nat
      BY <3>1, FS_Subset, FS_CardinalityType
    <3> QED
      BY <3>2 DEF IInv, CounterIsTilts
  <2> QED
    BY <2>1 DEF IInv, Typed, TypeOK, Session
<1> QED
  BY <1>1, Invariance, PTL

\* Whatever fails after a tilt was written, over new handles, replugs and the
\* end of the host, it is neither written again nor answered as a failure
\* (TryPhysicalNuiCommand, Kinect360RemoldBroker.cpp:903-985).
THEOREM TiltCommittedOnce == Spec => []CommittedOnce
<1>1. IInv => CommittedOnce
  BY DEF IInv, OnTheWire, CommittedOnce, NotResent, CommittedSucceeds
<1> QED
  BY <1>1, Invariance, PTL

\* However tilts of several connections overlap, a look at the counter of their
\* context sees that one is on its way (Kinect360RemoldBroker.cpp:886-900).
THEOREM TiltSeen == Spec => []TiltVisible
<1>1. IInv => TiltVisible
  BY Positive DEF IInv, TiltVisible, InTilt, Counting, HoldsContext, UsesInterface
<1> QED
  BY <1>1, Invariance, PTL

\* No two threads use an interface under one key, whatever the sessions.
LEMMA OneUserPerKey ==
    ASSUME IInv, NEW t \in Threads, NEW u \in Threads, t # u,
           pc[t] \in UsesInterface, pc[u] \in UsesInterface
    PROVE  Key(t) # Key(u)
BY DEF IInv, IoHeld

\* With any number of sensors and contexts: no transaction cuts into the travel of
\* a 1473 while the two sessions are with the sensors their ids name.  The key of
\* the session is then the sensor's own, and the mutex of the key is enough
\* (PhysicalIoMutexFor, Kinect360RemoldBroker.cpp:903-908).  Who recovers in the
\* context of the travel would hold its mutex too.
THEOREM TravelIsAlone == Spec => []TravelAlone
<1>1. IInv => TravelAlone
  <2> SUFFICES ASSUME IInv, NEW t \in Threads, NEW u \in Threads, t # u, pc[t] = "travel",
                      pc[u] \in UsesInterface, Routed(t), Routed(u)
               PROVE  My(u).on # My(t).on
    <3>1. ASSUME IInv, NEW x \in Threads, NEW y \in Threads, x # y, pc[x] = "travel",
                 ResetsPipes(y)
          PROVE  target[y] # target[x]
      BY <3>1 DEF IInv, MutexHeld, HoldsContext, UsesInterface, ResetsPipes
    <3> QED
      BY <3>1 DEF TravelAlone, Travels
  <2>1. \A x \in {t, u} : Key(x) = <<My(x).on, FALSE>>
    <3> SUFFICES ASSUME NEW x \in {t, u}
                 PROVE  Key(x) = <<My(x).on, FALSE>>
      OBVIOUS
    <3>1. My(x).on # None
      BY DEF IInv, Connected, UsesInterface
    <3>2. My(x) \in Session
      BY MyTyped DEF IInv
    <3> QED
      BY <3>1, <3>2 DEF Routed, Key, Session
  <2>2. Key(t) # Key(u)
    BY OneUserPerKey DEF UsesInterface
  <2> QED
    BY <2>1, <2>2
<1> QED
  BY <1>1, Invariance, PTL
=============================================================================
