-------------------------- MODULE ClientDrain_proofs --------------------------
(***************************************************************************)
(* The count of client threads and the shutdown, for any number of         *)
(* listeners, clients and any limit: with or without the mutex the count   *)
(* is right and the limit holds, and the service implements what Drain     *)
(* promises as far as safety goes; with the mutex no thread outlives main. *)
(***************************************************************************)
EXTENDS ClientDrain, FiniteSetTheorems, TLAPS

Typed ==
  /\ lpc \in [Listeners -> {"loop", "accept", "spawn", "refuse", "done"}]
  /\ conn \in [Listeners -> Clients \cup {Nobody}]
  /\ thread \in [Clients -> {"off", "work", "lock", "sub", "notify", "unlock"}]
  /\ main \in {"serve", "lock", "test", "block", "waiting", "woken", "exited"}
  /\ count \in Int
  /\ holder \in Clients \cup {Main, Nobody}

Spawning == {l \in Listeners : lpc[l] = "spawn"}

\* Listeners hold different connections, without a thread yet.
PendingApart ==
  \A l \in Pending :
    /\ conn[l] \in Clients /\ thread[conn[l]] = "off"
    /\ \A k \in Pending : k # l => conn[k] # conn[l]

\* Main waits only when no listener can admit any more.
ServiceClosed == main # "serve" => ~run /\ \A l \in Listeners : lpc[l] = "done"

\* With the mutex: who holds it is where the mutex is held.
Exclusive ==
  Guarded => /\ \A c \in Clients : thread[c] \in {"sub", "notify", "unlock"} <=> holder = c
             /\ main \in {"test", "block"} <=> holder = Main

IInv == Typed /\ PendingApart /\ CountIsThreads /\ AtMostMax /\ ServiceClosed
          /\ Exclusive /\ (Guarded => NoneAfterExit)

-----------------------------------------------------------------------------
\* Sets of threads and of listeners are finite.
LEMMA Finite ==
  /\ \A S : S \subseteq Clients => IsFiniteSet(S) /\ Cardinality(S) \in Nat
  /\ \A S : S \subseteq Listeners => IsFiniteSet(S) /\ Cardinality(S) \in Nat
BY SetsAssumption, FS_Subset, FS_CardinalityType

LEMMA Subsets == Counted \subseteq Clients /\ Spawning \subseteq Pending /\ Pending \subseteq Listeners
BY DEF Counted, Pending, Spawning

LEMMA InitIInv == Init => IInv
<1> SUFFICES ASSUME Init
             PROVE  IInv
  OBVIOUS
<1>1. Counted = {} /\ Pending = {} /\ Spawning = {}
  BY DEF Init, Counted, Pending, Spawning
<1>2. Cardinality(Counted) = 0 /\ Cardinality(Pending) = 0 /\ Cardinality(Spawning) = 0
  BY <1>1, FS_EmptySet
<1>3. Typed
  BY NamesAssumption DEF Init, Typed
<1>4. PendingApart /\ ServiceClosed
  BY <1>1 DEF Init, PendingApart, ServiceClosed
<1>5. CountIsThreads /\ AtMostMax
  <2>1. count = 0
    BY DEF Init
  <2> QED
    BY <1>2, <2>1, MaxAssumption DEF CountIsThreads, AtMostMax, Spawning
<1>6. Exclusive /\ NoneAfterExit
  BY NamesAssumption DEF Init, Exclusive, NoneAfterExit
<1> QED
  BY <1>3, <1>4, <1>5, <1>6 DEF IInv

\* A step that moves no thread across the count and no listener across pending.
LEMMA SameCount ==
  ASSUME IInv, Counted' = Counted, Pending' = Pending, Spawning' = Spawning, count' = count
  PROVE  CountIsThreads' /\ AtMostMax'
BY DEF IInv, CountIsThreads, AtMostMax, Spawning

LEMMA AcceptStep ==
  ASSUME IInv, NEW l \in Listeners, NEW c \in Clients, Accept(l, c)
  PROVE  IInv'
<1> DEFINE to == IF count >= MaxClients THEN "refuse" ELSE "spawn"
<1>1. /\ lpc[l] = "accept" /\ thread[c] = "off" /\ c \notin Taken
      /\ count' = count + 1 /\ conn' = [conn EXCEPT ![l] = c]
      /\ lpc' = [lpc EXCEPT ![l] = to]
      /\ UNCHANGED <<run, thread, main, holder>>
  BY DEF Accept
<1>2. Typed /\ to \in {"refuse", "spawn"}
  BY DEF IInv
<1>3. /\ Pending' = Pending \cup {l} /\ l \notin Pending
      /\ Counted' = Counted
      /\ Spawning' = IF to = "spawn" THEN Spawning \cup {l} ELSE Spawning
      /\ l \notin Spawning
  <2> HIDE DEF to
  <2>1. \A k \in Listeners : lpc'[k] = IF k = l THEN to ELSE lpc[k]
    BY <1>1, <1>2 DEF Typed
  <2> QED
    BY <1>1, <1>2, <2>1 DEF Pending, Counted, Spawning
<1>4. /\ IsFiniteSet(Pending) /\ IsFiniteSet(Spawning)
      /\ Cardinality(Pending) \in Nat /\ Cardinality(Spawning) \in Nat
      /\ Cardinality(Counted) \in Nat
      /\ Cardinality(Spawning) <= Cardinality(Pending)
  BY Finite, Subsets, FS_Subset
<1>5. Cardinality(Pending \cup {l}) = Cardinality(Pending) + 1
  BY <1>3, <1>4, FS_AddElement
<1>6. CountIsThreads'
  BY <1>1, <1>3, <1>4, <1>5 DEF IInv, CountIsThreads
<1>7. AtMostMax'
  <2>1. CASE to = "spawn"
    <3>1. Cardinality(Spawning') = Cardinality(Spawning) + 1
      BY <1>3, <1>4, <2>1, FS_AddElement
    <3>2. count < MaxClients /\ count \in Int
      BY <1>2, <2>1, MaxAssumption DEF Typed
    <3>3. count = Cardinality(Counted) + Cardinality(Pending)
      BY DEF IInv, CountIsThreads
    <3> QED
      BY <1>3, <1>4, <3>1, <3>2, <3>3, MaxAssumption DEF AtMostMax, Spawning
  <2>2. CASE to # "spawn"
    BY <1>3, <2>2 DEF IInv, AtMostMax, Spawning
  <2> QED
    BY <2>1, <2>2
<1>8. Typed'
  BY <1>1, <1>2 DEF Typed
<1>9. PendingApart'
  <2>1. \A k \in Pending : conn'[k] = conn[k] /\ conn[k] # c
    BY <1>1, <1>2, <1>3, Subsets DEF Typed, Taken
  <2>2. conn'[l] = c
    BY <1>1, <1>2 DEF Typed
  <2> QED
    BY <1>1, <1>3, <2>1, <2>2 DEF IInv, PendingApart
<1>10. ServiceClosed'
  <2>1. lpc[l] # "done"
    BY <1>1
  <2> QED
    BY <1>1, <2>1 DEF IInv, ServiceClosed
<1>11. Exclusive' /\ (Guarded => NoneAfterExit')
  BY <1>1 DEF IInv, Exclusive, NoneAfterExit
<1> QED
  BY <1>6, <1>7, <1>8, <1>9, <1>10, <1>11 DEF IInv

\* A listener gives a connection up, uncounted again or with a thread of its own.
LEMMA ListenerGivesUp ==
  ASSUME IInv, NEW l \in Pending,
         lpc' = [lpc EXCEPT ![l] = "loop"], conn' = [conn EXCEPT ![l] = Nobody],
         UNCHANGED <<run, main, holder>>,
         \/ thread' = [thread EXCEPT ![conn[l]] = "work"] /\ count' = count /\ lpc[l] = "spawn"
         \/ thread' = thread /\ count' = count - 1
  PROVE  IInv'
<1> DEFINE c == conn[l]
<1>1. Typed /\ l \in Listeners /\ c \in Clients /\ thread[c] = "off" /\ lpc[l] \in {"spawn", "refuse"}
  BY Subsets DEF IInv, PendingApart, Pending
<1>2. /\ Pending' = Pending \ {l} /\ Spawning' = Spawning \ {l}
      /\ Pending' \subseteq Listeners /\ Spawning' \subseteq Listeners
  <2>1. \A k \in Listeners : lpc'[k] = IF k = l THEN "loop" ELSE lpc[k]
    BY <1>1 DEF Typed
  <2> QED
    BY <1>1, <2>1 DEF Pending, Spawning
<1>3. /\ IsFiniteSet(Pending) /\ IsFiniteSet(Spawning) /\ IsFiniteSet(Counted)
      /\ Cardinality(Pending) \in Nat /\ Cardinality(Spawning) \in Nat
      /\ Cardinality(Counted) \in Nat
  BY Finite, Subsets
<1>4. Cardinality(Pending \ {l}) = Cardinality(Pending) - 1
  BY <1>3, FS_RemoveElement
<1>5. count = Cardinality(Counted) + Cardinality(Pending)
        /\ Cardinality(Counted) + Cardinality(Spawning) <= MaxClients
  BY DEF IInv, CountIsThreads, AtMostMax, Spawning
<1>6. Typed'
  BY <1>1 DEF Typed
<1>7. PendingApart'
  <2>1. ASSUME NEW k \in Pending, k # l
        PROVE  conn'[k] = conn[k] /\ thread'[conn[k]] = thread[conn[k]]
    <3>1. conn[k] # c /\ k \in Listeners /\ conn[k] \in Clients
      BY <2>1, Subsets DEF IInv, PendingApart
    <3> QED
      BY <1>1, <2>1, <3>1 DEF Typed
  <2> QED
    BY <1>2, <2>1 DEF IInv, PendingApart
<1>8. ServiceClosed'
  <2>1. lpc[l] # "done"
    BY <1>1
  <2> QED
    BY <1>1, <2>1 DEF IInv, ServiceClosed
<1>9. main = "serve"
  <2>1. lpc[l] # "done"
    BY <1>1
  <2> QED
    BY <1>1, <2>1 DEF IInv, ServiceClosed
<1>10. CASE thread' = [thread EXCEPT ![c] = "work"] /\ count' = count /\ lpc[l] = "spawn"
  <2>1. Counted' = Counted \cup {c} /\ c \notin Counted
    <3>1. \A x \in Clients : thread'[x] = IF x = c THEN "work" ELSE thread[x]
      BY <1>1, <1>10 DEF Typed
    <3> QED
      BY <1>1, <3>1 DEF Counted
  <2>2. Cardinality(Counted') = Cardinality(Counted) + 1
    BY <1>3, <2>1, FS_AddElement
  <2>3. l \in Spawning
    BY <1>1, <1>10 DEF Spawning
  <2>4. Cardinality(Spawning \ {l}) = Cardinality(Spawning) - 1
    BY <1>3, <2>3, FS_RemoveElement
  <2>5. CountIsThreads'
    BY <1>2, <1>3, <1>4, <1>5, <1>10, <2>2 DEF CountIsThreads
  <2>6. AtMostMax'
    <3>1. Cardinality(Counted') + Cardinality(Spawning') <= MaxClients
      BY <1>2, <1>3, <1>5, <2>2, <2>4, MaxAssumption
    <3> QED
      BY <3>1 DEF AtMostMax, Spawning
  <2>7. Exclusive' /\ NoneAfterExit'
    <3>1. \A x \in Clients : thread'[x] = IF x = c THEN "work" ELSE thread[x]
      BY <1>1, <1>10 DEF Typed
    <3> QED
      BY <1>1, <1>9, <3>1 DEF IInv, Exclusive, NoneAfterExit
  <2> QED
    BY <1>6, <1>7, <1>8, <2>5, <2>6, <2>7 DEF IInv
<1>11. CASE thread' = thread /\ count' = count - 1
  <2>1. Counted' = Counted
    BY <1>11 DEF Counted
  <2>2. CountIsThreads'
    BY <1>2, <1>3, <1>4, <1>5, <1>11, <2>1 DEF CountIsThreads
  <2>3. Cardinality(Spawning \ {l}) <= Cardinality(Spawning)
          /\ Cardinality(Spawning \ {l}) \in Nat
    BY <1>2, <1>3, Finite, FS_Subset
  <2>4. AtMostMax'
    <3>1. Cardinality(Counted') + Cardinality(Spawning') <= MaxClients
      BY <1>2, <1>3, <1>5, <2>1, <2>3, MaxAssumption
    <3> QED
      BY <3>1 DEF AtMostMax, Spawning
  <2>5. Exclusive' /\ NoneAfterExit'
    BY <1>9, <1>11 DEF IInv, Exclusive, NoneAfterExit
  <2> QED
    BY <1>6, <1>7, <1>8, <2>2, <2>4, <2>5 DEF IInv
<1> QED
  BY <1>10, <1>11

LEMMA ListenerStep ==
  ASSUME IInv, NEW l \in Listeners, Listener(l)
  PROVE  IInv'
<1>1. CASE Loop(l) \/ NoConnection(l)
  <2>1. /\ lpc[l] \in {"loop", "accept"} /\ UNCHANGED <<run, conn, thread, main, count, holder>>
        /\ lpc' = [lpc EXCEPT ![l] = lpc'[l]] /\ lpc'[l] \in {"loop", "accept", "done"}
    BY <1>1 DEF Loop, NoConnection, IInv, Typed
  <2>2. Typed /\ Typed'
    BY <2>1 DEF IInv, Typed
  <2>3. \A k \in Listeners : k # l => lpc'[k] = lpc[k]
    BY <2>1, <2>2 DEF Typed
  <2>4. Pending' = Pending /\ Spawning' = Spawning /\ Counted' = Counted
    BY <2>1, <2>3 DEF Pending, Spawning, Counted
  <2>5. CountIsThreads' /\ AtMostMax'
    BY <2>1, <2>4, SameCount
  <2>6. PendingApart'
    BY <2>1, <2>4 DEF IInv, PendingApart
  <2>7. ServiceClosed'
    BY <2>1 DEF IInv, ServiceClosed
  <2>8. Exclusive' /\ (Guarded => NoneAfterExit')
    BY <2>1 DEF IInv, Exclusive, NoneAfterExit
  <2> QED
    BY <2>2, <2>5, <2>6, <2>7, <2>8 DEF IInv
<1>2. CASE Refuse(l)
  <2>1. l \in Pending
    BY <1>2 DEF Refuse, Pending
  <2> QED
    BY <1>2, <2>1, ListenerGivesUp DEF Refuse
<1>3. CASE Spawn(l)
  <2>1. l \in Pending
    BY <1>3 DEF Spawn, Pending
  <2> QED
    BY <1>3, <2>1, ListenerGivesUp DEF Spawn
<1> QED
  BY <1>1, <1>2, <1>3 DEF Listener

LEMMA ThreadStep ==
  ASSUME IInv, NEW c \in Clients, Thread(c)
  PROVE  IInv'
<1>1. /\ UNCHANGED <<run, lpc, conn>> /\ Typed
      /\ thread[c] # "off"
      /\ \A x \in Clients : x # c => thread'[x] = thread[x]
  BY DEF Thread, Finish, Lock, Subtract, Notify, Unlock, At, IInv, Typed
<1>2. /\ Typed'
      /\ main' # main => main = "waiting" /\ main' = "woken"
  BY <1>1, NamesAssumption, GuardedAssumption
  DEF Thread, Finish, Lock, Subtract, Notify, Unlock, At, Typed
<1>3. Pending' = Pending /\ Spawning' = Spawning
  BY <1>1 DEF Pending, Spawning
<1>4. PendingApart'
  <2>1. \A l \in Pending : conn[l] \in Clients /\ conn[l] # c
    BY <1>1 DEF IInv, PendingApart
  <2> QED
    BY <1>1, <1>3, <2>1 DEF IInv, PendingApart
<1>5. ServiceClosed'
  BY <1>1, <1>2 DEF IInv, ServiceClosed
<1>6. CountIsThreads' /\ AtMostMax'
  <2>1. CASE Subtract(c)
    <3>1. thread[c] = "sub" /\ thread' = [thread EXCEPT ![c] = "notify"] /\ count' = count - 1
      BY <2>1 DEF Subtract, At
    <3>2. Counted' = Counted \ {c} /\ c \in Counted
      BY <1>1, <3>1 DEF Counted, Typed
    <3>3. /\ IsFiniteSet(Counted) /\ Cardinality(Counted) \in Nat
          /\ Cardinality(Pending) \in Nat /\ Cardinality(Spawning) \in Nat
      BY Finite, Subsets
    <3>4. Cardinality(Counted \ {c}) = Cardinality(Counted) - 1
      BY <3>2, <3>3, FS_RemoveElement
    <3>5. count = Cardinality(Counted) + Cardinality(Pending)
            /\ Cardinality(Counted) + Cardinality(Spawning) <= MaxClients
      BY DEF IInv, CountIsThreads, AtMostMax, Spawning
    <3>6. CountIsThreads'
      BY <1>3, <3>1, <3>2, <3>3, <3>4, <3>5 DEF CountIsThreads
    <3>7. AtMostMax'
      <4>1. Cardinality(Counted') + Cardinality(Spawning') <= MaxClients
        BY <1>3, <3>2, <3>3, <3>4, <3>5, MaxAssumption
      <4> QED
        BY <4>1 DEF AtMostMax, Spawning
    <3> QED
      BY <3>6, <3>7
  <2>2. CASE Finish(c) \/ Lock(c) \/ Notify(c) \/ Unlock(c)
    <3>1. count' = count /\ (thread[c] \in {"work", "lock", "sub"} <=> thread'[c] \in {"work", "lock", "sub"})
      BY <1>1, <2>2 DEF Finish, Lock, Notify, Unlock, At, Typed
    <3>2. Counted' = Counted
      BY <1>1, <3>1 DEF Counted
    <3> QED
      BY <1>3, <3>1, <3>2, SameCount
  <2> QED
    BY <2>1, <2>2 DEF Thread
<1>7. ASSUME Guarded
      PROVE  Exclusive' /\ NoneAfterExit'
  <2>1. Exclusive /\ NoneAfterExit /\ main # "exited"
    BY <1>1, <1>7 DEF IInv, NoneAfterExit
  <2>2. NoneAfterExit'
    BY <1>2, <2>1 DEF NoneAfterExit
  <2>3. main' \in {"test", "block"} <=> main \in {"test", "block"}
    BY <1>2
  <2>4. c # Main /\ c # Nobody
    BY NamesAssumption
  <2>5. CASE Finish(c)
    <3>1. thread[c] = "work" /\ thread'[c] = "lock" /\ holder' = holder
      BY <1>1, <1>7, <2>5 DEF Finish, At, Typed
    <3> QED
      BY <1>1, <1>7, <2>1, <2>2, <2>3, <3>1 DEF Exclusive
  <2>6. CASE Lock(c)
    <3>1. thread'[c] = "sub" /\ holder = Nobody /\ holder' = c /\ main' = main
      BY <1>1, <2>6 DEF Lock, At, Typed
    <3> QED
      BY <1>1, <1>7, <2>1, <2>2, <2>4, <3>1, NamesAssumption DEF Exclusive
  <2>7. CASE Subtract(c) \/ Notify(c)
    <3>1. thread[c] \in {"sub", "notify"} /\ thread'[c] \in {"notify", "unlock"} /\ holder' = holder
      BY <1>1, <1>7, <2>7 DEF Subtract, Notify, At, Typed
    <3> QED
      BY <1>1, <1>7, <2>1, <2>2, <2>3, <3>1 DEF Exclusive
  <2>8. CASE Unlock(c)
    <3>1. thread[c] = "unlock" /\ thread'[c] = "off" /\ holder' = Nobody /\ main' = main
      BY <1>1, <2>8 DEF Unlock, At, Typed
    <3>2. holder = c
      BY <1>7, <2>1, <3>1 DEF Exclusive
    <3> QED
      BY <1>1, <1>7, <2>1, <2>2, <2>4, <3>1, <3>2, NamesAssumption DEF Exclusive
  <2> QED
    BY <2>5, <2>6, <2>7, <2>8 DEF Thread
<1> QED
  BY <1>2, <1>4, <1>5, <1>6, <1>7 DEF IInv, Exclusive

LEMMA MainStepIInv ==
  ASSUME IInv, MainStep \/ Signal
  PROVE  IInv'
<1>1. /\ UNCHANGED <<lpc, conn, thread, count>> /\ Typed
      /\ run' => run
  BY DEF MainStep, Join, MainLock, Test, Block, Signal, IInv
<1>2. Counted' = Counted /\ Pending' = Pending /\ Spawning' = Spawning
  BY <1>1 DEF Counted, Pending, Spawning
<1>3. CountIsThreads' /\ AtMostMax'
  BY <1>1, <1>2, SameCount
<1>4. PendingApart'
  BY <1>1, <1>2 DEF IInv, PendingApart
<1>5. CASE Signal
  BY <1>1, <1>3, <1>4, <1>5
  DEF Signal, IInv, Typed, ServiceClosed, Exclusive, NoneAfterExit
<1>6. CASE Join
  BY <1>1, <1>3, <1>4, <1>6
  DEF Join, IInv, Typed, ServiceClosed, Exclusive, NoneAfterExit
<1>7. CASE MainLock
  BY <1>1, <1>3, <1>4, <1>7, NamesAssumption
  DEF MainLock, IInv, Typed, ServiceClosed, Exclusive, NoneAfterExit
<1>8. CASE Block
  BY <1>1, <1>3, <1>4, <1>8, NamesAssumption
  DEF Block, IInv, Typed, ServiceClosed, Exclusive, NoneAfterExit
<1>9. CASE Test /\ count # 0
  BY <1>1, <1>3, <1>4, <1>9
  DEF Test, IInv, Typed, ServiceClosed, Exclusive, NoneAfterExit
<1>10. CASE Test /\ count = 0
  <2>1. main = "test" /\ main' = "exited" /\ holder' = Nobody /\ run' = run
    BY <1>10 DEF Test
  <2>2. ASSUME Guarded
        PROVE  \A c \in Clients : thread[c] = "off"
    <3>1. Cardinality(Counted) = 0 /\ IsFiniteSet(Counted)
      <4>1. Cardinality(Counted) \in Nat /\ Cardinality(Pending) \in Nat
        BY Finite, Subsets
      <4>2. 0 = Cardinality(Counted) + Cardinality(Pending)
        BY <1>10 DEF IInv, CountIsThreads
      <4> QED
        BY <4>1, <4>2, Finite, Subsets
    <3>2. Counted = {}
      BY <3>1, FS_EmptySet
    <3>3. holder = Main
      BY <2>1, <2>2 DEF IInv, Exclusive
    <3>4. \A c \in Clients : thread[c] \notin {"sub", "notify", "unlock"}
      BY <2>2, <3>3, NamesAssumption DEF IInv, Exclusive
    <3> QED
      BY <1>1, <3>2, <3>4 DEF Counted, Typed
  <2>3. Exclusive' /\ (Guarded => NoneAfterExit')
    BY <1>1, <2>1, <2>2, NamesAssumption DEF Exclusive, NoneAfterExit
  <2>4. Typed' /\ ServiceClosed'
    BY <1>1, <2>1 DEF IInv, Typed, ServiceClosed
  <2> QED
    BY <1>3, <1>4, <2>3, <2>4 DEF IInv
<1> QED
  BY <1>5, <1>6, <1>7, <1>8, <1>9, <1>10 DEF MainStep

LEMMA StepIInv == IInv /\ [Next]_vars => IInv'
<1> SUFFICES ASSUME IInv, [Next]_vars
             PROVE  IInv'
  OBVIOUS
<1>1. CASE UNCHANGED vars
  BY <1>1 DEF vars, IInv, Typed, PendingApart, Pending, CountIsThreads, Counted, AtMostMax,
              ServiceClosed, Exclusive, NoneAfterExit
<1>2. CASE Next
  BY <1>2, AcceptStep, ListenerStep, ThreadStep, MainStepIInv DEF Next
<1> QED
  BY <1>1, <1>2

-----------------------------------------------------------------------------
(* The theorems.                                                           *)

\* The invariant of the listeners, the client threads and the shutdown: every admitted
\* connection is counted once until its thread has ended.
THEOREM Invariance == Spec => []IInv
BY InitIInv, StepIInv, PTL DEF Spec

\* The count is what runs and what is being admitted, whether or not the lease
\* takes the mutex (broker.cpp:731-738, camera_ip.cpp:339-347).
THEOREM CountRight == Spec => []CountIsThreads
<1>1. IInv => CountIsThreads
  BY DEF IInv
<1> QED
  BY <1>1, Invariance, PTL

\* Any number of listeners that count before they look admit at most MaxClients
\* (broker.cpp:943-948, camera_bridge.cpp:872-877, camera_ip.cpp:692-698).
THEOREM LimitHolds == Spec => []AtMostMax
<1>1. IInv => AtMostMax
  BY DEF IInv
<1> QED
  BY <1>1, Invariance, PTL

\* With the mutex no client thread is left when main tears down
\* (camera_ip.cpp:339-347, 727-735).
THEOREM NoThreadOutlivesMain ==
  ASSUME Guarded
  PROVE  Spec => []NoneAfterExit
<1>1. IInv => NoneAfterExit
  BY DEF IInv
<1> QED
  BY <1>1, Invariance, PTL

\* A service, with or without the mutex, shuts down as Drain says it may: it
\* admits within the limit and only before it closes, and exits only when
\* nobody is served (broker.cpp:933-979).
THEOREM ImplementsDrain == Spec => D!Spec
<1>1. Init => D!Init
  BY DEF Init, D!Init, Counted
<1>2. IInv /\ IInv' /\ [Next]_vars => [D!Next]_D!vars
  <2> SUFFICES ASSUME IInv, IInv', [Next]_vars
               PROVE  [D!Next]_D!vars
    OBVIOUS
  <2> DEFINE Closed == ~run /\ \A l \in Listeners : lpc[l] = "done"
  <2>1. Typed
    BY DEF IInv
  <2>2. ASSUME UNCHANGED <<Counted, main>>, Closed => Closed'
        PROVE  [D!Next]_D!vars
    <3>1. CASE Closed' <=> Closed
      BY <2>2, <3>1 DEF D!vars
    <3>2. CASE ~Closed /\ Closed'
      BY <2>2, <3>2 DEF D!Next, D!Stop
    <3> QED
      BY <2>2, <3>1, <3>2
  <2>3. CASE UNCHANGED vars
    BY <2>2, <2>3 DEF vars, Counted
  <2>4. ASSUME NEW l \in Listeners, NEW c \in Clients, Accept(l, c)
        PROVE  [D!Next]_D!vars
    <3>1. lpc[l] # "done" /\ UNCHANGED <<Counted, main>>
      BY <2>4 DEF Accept, Counted
    <3> QED
      BY <2>2, <3>1
  <2>5. ASSUME NEW l \in Listeners, Listener(l)
        PROVE  [D!Next]_D!vars
    <3>1. lpc[l] # "done" /\ UNCHANGED <<run, main>>
      BY <2>5 DEF Listener, Loop, Refuse, Spawn, NoConnection
    <3>2. CASE UNCHANGED thread
      BY <2>2, <3>1, <3>2 DEF Counted
    <3>3. CASE Spawn(l) /\ thread' = [thread EXCEPT ![conn[l]] = "work"]
      <4> DEFINE c == conn[l]
      <4>1. l \in Pending /\ l \in Spawning /\ c \in Clients /\ thread[c] = "off"
        BY <3>3 DEF Spawn, Pending, Spawning, IInv, PendingApart
      <4>2. Counted' = Counted \cup {c} /\ c \notin Counted
        <5>1. \A x \in Clients : thread'[x] = IF x = c THEN "work" ELSE thread[x]
          BY <2>1, <3>3, <4>1 DEF Typed
        <5> QED
          BY <4>1, <5>1 DEF Counted
      <4>3. Cardinality(Counted) < MaxClients
        <5>1. Cardinality(Spawning) \in Nat /\ Cardinality(Counted) \in Nat
                /\ Cardinality(Spawning) # 0
          BY <4>1, Finite, Subsets, FS_EmptySet
        <5>2. Cardinality(Counted) + Cardinality(Spawning) <= MaxClients
          BY DEF IInv, AtMostMax, Spawning
        <5> QED
          BY <5>1, <5>2, MaxAssumption
      <4>4. ~Closed /\ ~Closed'
        <5>1. lpc'[l] = "loop"
          BY <2>1, <3>3 DEF Spawn, Typed
        <5> QED
          BY <3>1, <5>1
      <4>5. D!Admit(c)
        <5>1. Closed' = Closed /\ (main' = "exited") = (main = "exited")
          BY <3>1, <4>4
        <5> HIDE DEF Closed
        <5>2. ~Closed
          BY <4>4
        <5>3. D!Cardinality(Counted) = Cardinality(Counted)
          BY DEF Cardinality, D!Cardinality
        <5> QED
          BY <4>2, <4>3, <5>1, <5>2, <5>3 DEF D!Admit, Closed
      <4> QED
        BY <4>1, <4>5 DEF D!Next
    <3> QED
      BY <2>5, <3>2, <3>3 DEF Listener, Loop, Refuse, Spawn, NoConnection
  <2>6. ASSUME NEW c \in Clients, Thread(c)
        PROVE  [D!Next]_D!vars
    <3>1. UNCHANGED <<run, lpc>> /\ (main' = "exited" <=> main = "exited")
      BY <2>6 DEF Thread, Finish, Lock, Subtract, Notify, Unlock
    <3>2. \A x \in Clients : x # c => thread'[x] = thread[x]
      BY <2>1, <2>6 DEF Thread, Finish, Lock, Subtract, Notify, Unlock, At, Typed
    <3>3. CASE Subtract(c)
      <4>1. Counted' = Counted \ {c} /\ c \in Counted
        BY <2>1, <3>2, <3>3 DEF Subtract, At, Counted, Typed
      <4> QED
        BY <3>1, <4>1 DEF D!Next, D!Leave
    <3>4. CASE Finish(c) \/ Lock(c) \/ Notify(c) \/ Unlock(c)
      <4>1. thread[c] \in {"work", "lock", "sub"} <=> thread'[c] \in {"work", "lock", "sub"}
        BY <2>1, <3>4 DEF Finish, Lock, Notify, Unlock, At, Typed
      <4>2. Counted' = Counted
        BY <3>2, <4>1 DEF Counted
      <4> QED
        BY <3>1, <4>2 DEF D!vars
    <3> QED
      BY <2>6, <3>3, <3>4 DEF Thread
  <2>7. CASE Signal
    <3>1. UNCHANGED <<Counted, main, lpc>> /\ run /\ ~run'
      BY <2>7 DEF Signal, Counted
    <3> QED
      BY <2>2, <3>1
  <2>8. CASE MainStep
    <3>1. UNCHANGED <<Counted, run, lpc, count>>
      BY <2>8 DEF MainStep, Join, MainLock, Test, Block, Counted
    <3>2. CASE main' = "exited" <=> main = "exited"
      BY <3>1, <3>2 DEF D!vars
    <3>3. CASE ~(main' = "exited" <=> main = "exited")
      <4>1. main = "test" /\ main' = "exited" /\ count = 0
        BY <2>8, <3>3 DEF MainStep, Join, MainLock, Test, Block
      <4>2. Closed
        BY <4>1 DEF IInv, ServiceClosed
      <4>3. Cardinality(Counted) = 0
        <5>1. Cardinality(Counted) \in Nat /\ Cardinality(Pending) \in Nat
          BY Finite, Subsets
        <5>2. 0 = Cardinality(Counted) + Cardinality(Pending)
          BY <4>1 DEF IInv, CountIsThreads
        <5> QED
          BY <5>1, <5>2
      <4>4. Counted = {}
        BY <4>3, Finite, Subsets, FS_EmptySet
      <4>5. D!Exit
        BY <3>1, <4>1, <4>2, <4>4 DEF D!Exit
      <4> QED
        BY <4>5 DEF D!Next
    <3> QED
      BY <3>2, <3>3
  <2> QED
    BY <2>3, <2>4, <2>5, <2>6, <2>7, <2>8 DEF Next
<1> QED
  BY <1>1, <1>2, Invariance, PTL DEF Spec, D!Spec
==============================================================================
