----------------------------- MODULE ClientDrain -----------------------------
(***************************************************************************)
(* The detached client threads of the Linux services and the shutdown that *)
(* waits for them: a listener counts a connection before it starts the     *)
(* thread, the thread's lease takes it off the count when it ends, and     *)
(* main waits on a condition variable for the count to be zero.            *)
(*                                                                         *)
(* Three services do this.  The IP camera changes the count under the      *)
(* mutex that main waits with (Guarded); the Broker and the CameraBridge   *)
(* do not.  The CameraBridge has one listener per camera and one count.    *)
(***************************************************************************)
EXTENDS Integers, FiniteSets

CONSTANTS
  Listeners,   \* threads that accept connections
  Clients,     \* client threads that may live at a time
  MaxClients,  \* kMaxBrokerClients, kMaxScannerClients, ip.max_clients
  Guarded,     \* the lease takes the mutex
  Main, Nobody \* the main thread, and no thread, as holders of the mutex

ASSUME SetsAssumption == IsFiniteSet(Listeners) /\ IsFiniteSet(Clients)
ASSUME MaxAssumption  == MaxClients \in Nat \ {0}
ASSUME GuardedAssumption == Guarded \in BOOLEAN
ASSUME NamesAssumption == Main # Nobody /\ {Main, Nobody} \cap Clients = {}

VARIABLES
  run,      \* run, ~stop_requested: no signal yet
  lpc,      \* where each listener is
  conn,     \* the connection a listener is about to serve
  thread,   \* where each client thread is
  main,     \* where main is
  count,    \* active_clients, scanner_clients, open_clients
  holder    \* who holds the mutex of the condition variable

vars == <<run, lpc, conn, thread, main, count, holder>>

\* Threads that are counted, listeners that have counted a connection they have
\* not started a thread for, and those connections.
Counted == {c \in Clients : thread[c] \in {"work", "lock", "sub"}}
Pending == {l \in Listeners : lpc[l] \in {"spawn", "refuse"}}
Taken   == {conn[l] : l \in Pending}

TypeOK ==
  /\ run \in BOOLEAN
  /\ lpc \in [Listeners -> {"loop", "accept", "spawn", "refuse", "done"}]
  /\ conn \in [Listeners -> Clients \cup {Nobody}]
  /\ thread \in [Clients -> {"off", "work", "lock", "sub", "notify", "unlock"}]
  /\ main \in {"serve", "lock", "test", "block", "waiting", "woken", "exited"}
  /\ count \in 0..(MaxClients + Cardinality(Listeners))
  /\ holder \in Clients \cup {Main, Nobody}

Init ==
  /\ run = TRUE
  /\ lpc = [l \in Listeners |-> "loop"]
  /\ conn = [l \in Listeners |-> Nobody]
  /\ thread = [c \in Clients |-> "off"]
  /\ main = "serve" /\ count = 0 /\ holder = Nobody

-----------------------------------------------------------------------------
(* The listeners.                                                          *)

Loop(l) ==
  /\ lpc[l] = "loop"
  /\ lpc' = [lpc EXCEPT ![l] = IF run THEN "accept" ELSE "done"]
  /\ UNCHANGED <<run, conn, thread, main, count, holder>>

\* Mutant: the limit is off by one.
Mut_Accept(l, c) ==
  /\ lpc[l] = "accept"
  /\ thread[c] = "off" /\ c \notin Taken
  /\ count' = count + 1
  /\ conn' = [conn EXCEPT ![l] = c]
  /\ lpc' = [lpc EXCEPT ![l] = IF count > MaxClients THEN "refuse" ELSE "spawn"]
  /\ UNCHANGED <<run, thread, main, holder>>

\* A connection is counted, then the count before it is looked at.
Accept(l, c) ==
  /\ lpc[l] = "accept"
  /\ thread[c] = "off" /\ c \notin Taken
  /\ count' = count + 1
  /\ conn' = [conn EXCEPT ![l] = c]
  /\ lpc' = [lpc EXCEPT ![l] = IF count >= MaxClients THEN "refuse" ELSE "spawn"]
  /\ UNCHANGED <<run, thread, main, holder>>

\* accept times out or fails, or main has shut the listening socket.
NoConnection(l) ==
  /\ lpc[l] = "accept" /\ ~run
  /\ lpc' = [lpc EXCEPT ![l] = "loop"]
  /\ UNCHANGED <<run, conn, thread, main, count, holder>>

Refuse(l) ==
  /\ lpc[l] = "refuse"
  /\ count' = count - 1
  /\ lpc' = [lpc EXCEPT ![l] = "loop"]
  /\ conn' = [conn EXCEPT ![l] = Nobody]
  /\ UNCHANGED <<run, thread, main, holder>>

\* Mutant: a thread that could not be started stays counted.
Mut_Spawn(l) ==
  /\ lpc[l] = "spawn"
  /\ \/ thread' = [thread EXCEPT ![conn[l]] = "work"]
     \/ UNCHANGED thread
  /\ lpc' = [lpc EXCEPT ![l] = "loop"]
  /\ conn' = [conn EXCEPT ![l] = Nobody]
  /\ UNCHANGED <<run, main, count, holder>>

\* The thread is started, unless the system has none left.
Spawn(l) ==
  /\ lpc[l] = "spawn"
  /\ \/ thread' = [thread EXCEPT ![conn[l]] = "work"] /\ UNCHANGED count
     \/ count' = count - 1 /\ UNCHANGED thread
  /\ lpc' = [lpc EXCEPT ![l] = "loop"]
  /\ conn' = [conn EXCEPT ![l] = Nobody]
  /\ UNCHANGED <<run, main, holder>>

-----------------------------------------------------------------------------
(* The client threads: the destructor of the lease.                        *)

At(c, here, there) == thread[c] = here /\ thread' = [thread EXCEPT ![c] = there]

\* The client has been served.
Finish(c) ==
  /\ At(c, "work", IF Guarded THEN "lock" ELSE "sub")
  /\ UNCHANGED <<run, lpc, conn, main, count, holder>>

Lock(c) ==
  /\ At(c, "lock", "sub")
  /\ holder = Nobody /\ holder' = c
  /\ UNCHANGED <<run, lpc, conn, main, count>>

Subtract(c) ==
  /\ At(c, "sub", "notify")
  /\ count' = count - 1
  /\ UNCHANGED <<run, lpc, conn, main, holder>>

\* Mutant: nobody is notified.
Mut_Notify(c) ==
  /\ At(c, "notify", IF Guarded THEN "unlock" ELSE "off")
  /\ UNCHANGED <<run, lpc, conn, main, count, holder>>

Notify(c) ==
  /\ At(c, "notify", IF Guarded THEN "unlock" ELSE "off")
  /\ main' = IF main = "waiting" THEN "woken" ELSE main
  /\ UNCHANGED <<run, lpc, conn, count, holder>>

Unlock(c) ==
  /\ At(c, "unlock", "off")
  /\ holder' = Nobody
  /\ UNCHANGED <<run, lpc, conn, main, count>>

-----------------------------------------------------------------------------
(* Main: the signal, the join of the listeners, and the wait.              *)

Signal ==
  /\ run
  /\ run' = FALSE
  /\ UNCHANGED <<lpc, conn, thread, main, count, holder>>

\* Mutant: the wait begins while a listener may still admit.
Mut_Join ==
  /\ main = "serve" /\ ~run
  /\ main' = "lock"
  /\ UNCHANGED <<run, lpc, conn, thread, count, holder>>

Join ==
  /\ main = "serve" /\ ~run /\ \A l \in Listeners : lpc[l] = "done"
  /\ main' = "lock"
  /\ UNCHANGED <<run, lpc, conn, thread, count, holder>>

MainLock ==
  /\ main \in {"lock", "woken"} /\ holder = Nobody
  /\ main' = "test" /\ holder' = Main
  /\ UNCHANGED <<run, lpc, conn, thread, count>>

\* The predicate of the wait.  Its end begins the teardown.
Test ==
  /\ main = "test"
  /\ IF count = 0
     THEN main' = "exited" /\ holder' = Nobody
     ELSE main' = "block" /\ UNCHANGED holder
  /\ UNCHANGED <<run, lpc, conn, thread, count>>

\* The mutex is released and main sleeps, in one step.
Block ==
  /\ main = "block"
  /\ main' = "waiting" /\ holder' = Nobody
  /\ UNCHANGED <<run, lpc, conn, thread, count>>

Listener(l) == Loop(l) \/ Refuse(l) \/ Spawn(l) \/ NoConnection(l)
Thread(c) == Finish(c) \/ Lock(c) \/ Subtract(c) \/ Notify(c) \/ Unlock(c)
MainStep  == Join \/ MainLock \/ Test \/ Block

Next ==
  \/ \E l \in Listeners : Listener(l) \/ \E c \in Clients : Accept(l, c)
  \/ \E c \in Clients : Thread(c)
  \/ MainStep \/ Signal

Spec == Init /\ [][Next]_vars

\* Threads are scheduled and clients end: their sockets have timeouts, and the
\* loops that serve them look at run.  A mutex that is free again and again is
\* taken in the end.
FairSpec ==
  /\ Spec
  /\ \A l \in Listeners : WF_vars(Listener(l))
  /\ \A c \in Clients : SF_vars(Thread(c))
  /\ SF_vars(MainStep)

-----------------------------------------------------------------------------
(* Properties.                                                             *)

\* The count is what runs and what is being admitted, so the wait ends neither
\* early nor late (broker.cpp:943-964, camera_bridge.cpp:872-895).
CountIsThreads == count = Cardinality(Counted) + Cardinality(Pending)

\* Several listeners that count before they look never admit too many
\* (camera_bridge.cpp:872-877).
AtMostMax ==
  Cardinality(Counted) + Cardinality({l \in Listeners : lpc[l] = "spawn"}) <= MaxClients

\* "none can touch globals while their destructors are running":
\* main tears down only after the last thread has ended (camera_ip.cpp:728-730).
NoneAfterExit == main = "exited" => \A c \in Clients : thread[c] = "off"

\* A signal ends the service (camera_ip.cpp:731-734).
SignalEnds == ~run ~> main = "exited"

\* The shutdown a service promises.
D == INSTANCE Drain WITH
       serving <- Counted,
       closed  <- ~run /\ \A l \in Listeners : lpc[l] = "done",
       exited  <- main = "exited"

DrainSpec == D!FairSpec
=============================================================================
