------------------------------ MODULE FrameQueue ------------------------------
(***************************************************************************)
(* How the frames of a CameraHub reach its subscribers                     *)
(* (camera_bridge.cpp): one bounded queue per stream, filled by the USB    *)
(* events under frame_mu_, read by one thread per subscriber that takes    *)
(* the oldest frame it has not seen and sends it without the lock.         *)
(*                                                                         *)
(* Of the leases only what the queues depend on is kept; CameraHub has the *)
(* rest.  A lock is taken and released within an action: a frame is        *)
(* published, chosen or dropped in one step.                               *)
(***************************************************************************)
EXTENDS Integers, FiniteSets

CONSTANTS
  Clients,    \* threads that serve a subscriber
  Pids,       \* processes
  Requests,   \* the masks they ask for
  Limit,      \* kFrameQueueDepth
  MaxFrames,  \* bound on the frames of all streams
  MaxTime     \* bound on the clock

VARIABLES
  online,   \* online_
  queue,    \* rgb_queue_, hq_rgb_queue_, ir_queue_, depth_queue_: the frames of each stream
  counter,  \* rgb_seq_counter_, ...: frames published of each stream
  now,      \* monotonic_ms
  lease,    \* the clients in clients_
  pid,      \* the process of each
  mask,     \* request.streamMask of each
  alive,    \* client_alive
  pc,       \* where the thread of a client is
  seen,     \* rgb_seq, hq_rgb_seq, ir_seq, depth_seq of wait_next
  out,      \* header.tickMs of the frame it sends or has sent last
  joined,   \* frames published of each stream when it subscribed
  held      \* the device has been online since it subscribed

hub  == <<online, queue, counter, now>>
vars == <<online, queue, counter, now, lease, pid, mask, alive, pc, seen, out, joined, held>>

\* "hq" is RGB HQ.
Streams == {"rgb", "hq", "ir", "depth"}

\* valid_mask
Masks == {m \in SUBSET Streams : m # {} /\ ("ir" \in m => m \cap {"rgb", "hq"} = {})}

\* Assumed of the constants, by the module that gives them values.
QueueConstants ==
  /\ Limit \in Nat \ {0} /\ MaxFrames \in Nat /\ MaxTime \in Nat
  /\ Requests \subseteq Masks

Numbers == 1..MaxFrames
Times   == 0..MaxTime
Frame   == [seq : Numbers, tick : Times]
None    == [s \in Streams |-> 0]

TypeOK ==
  /\ online \in BOOLEAN
  /\ queue \in [Streams -> SUBSET Frame]
  /\ \A s \in Streams : Cardinality(queue[s]) <= Limit
  /\ counter \in [Streams -> 0..MaxFrames] /\ now \in Times
  /\ lease \subseteq Clients /\ alive \in [Clients -> BOOLEAN]
  /\ pid \in [Clients -> Pids] /\ mask \in [Clients -> Masks]
  /\ pc \in [Clients -> {"out", "wait", "send", "leave"}]
  /\ seen \in [Clients -> [Streams -> 0..MaxFrames]]
  /\ out \in [Clients -> Times]
  /\ joined \in [Clients -> [Streams -> 0..MaxFrames]] /\ held \in [Clients -> BOOLEAN]

Init ==
  /\ online = FALSE /\ now = 0
  /\ queue = [s \in Streams |-> {}] /\ counter = None
  /\ lease = {} /\ pid \in [Clients -> Pids]
  /\ mask = [c \in Clients |-> {"depth"}] /\ alive = [c \in Clients |-> FALSE]
  /\ pc = [c \in Clients |-> "out"]
  /\ seen = [c \in Clients |-> None] /\ out = [c \in Clients |-> 0]
  /\ joined = [c \in Clients |-> None] /\ held = [c \in Clients |-> FALSE]

\* The stream has users.
Used(s) == \E c \in lease : s \in mask[c]

-----------------------------------------------------------------------------
(* The hub's worker.                                                       *)

OpenDevice ==
  /\ ~online /\ online' = TRUE
  /\ UNCHANGED <<queue, counter, now, lease, pid, mask, alive, pc, seen, out, joined, held>>

\* close_device_locked, clear_all_queues_locked
CloseDevice ==
  /\ online /\ online' = FALSE
  /\ queue' = [s \in Streams |-> {}]
  /\ held' = [c \in Clients |-> FALSE]
  /\ UNCHANGED <<counter, now, lease, pid, mask, alive, pc, seen, out, joined>>

\* The engine of the stream runs; infrared has the video engine before colour, and
\* RGB HQ before RGB.
Running(s) ==
  /\ Used(s)
  /\ s \in {"rgb", "hq"} => ~Used("ir")
  /\ s = "rgb" => ~Used("hq")

Oldest(q) == CHOOSE f \in q : \A g \in q : f.seq <= g.seq

\* push_frame: the oldest frame goes when there are too many.
PushFrame(q, f) ==
  LET r == q \union {f}
  IN  IF Cardinality(r) > Limit THEN r \ {Oldest(r)} ELSE r

\* on_rgb, on_hq_rgb, on_ir, on_depth, all called by the thread that holds dev_mu_.
Publish(s, time) ==
  /\ online /\ Running(s) /\ time \in Times
  /\ counter["rgb"] + counter["hq"] + counter["ir"] + counter["depth"] < MaxFrames
  /\ now' = time
  /\ counter' = [counter EXCEPT ![s] = @ + 1]
  /\ queue' = [queue EXCEPT ![s] = PushFrame(@, [seq |-> counter[s] + 1, tick |-> time])]
  /\ UNCHANGED <<online, lease, pid, mask, alive, pc, seen, out, joined, held>>

-----------------------------------------------------------------------------
(* A subscriber.                                                           *)

\* acquire: older leases of the process go, the queues stay as they are.
Acquire(c, p, m) ==
  /\ pc[c] = "out" /\ online
  /\ lease' = {d \in lease : pid[d] # p} \union {c}
  /\ pid' = [pid EXCEPT ![c] = p]
  /\ mask' = [mask EXCEPT ![c] = m]
  /\ alive' = [alive EXCEPT ![c] = TRUE]
  /\ pc' = [pc EXCEPT ![c] = "wait"]
  /\ seen' = [seen EXCEPT ![c] = None]
  /\ out' = [out EXCEPT ![c] = 0]
  /\ joined' = [joined EXCEPT ![c] = counter]
  /\ held' = [held EXCEPT ![c] = TRUE]
  /\ UNCHANGED hub

\* The thread that superseded it tells a client so, after it has let go of dev_mu_.
Tell(c) ==
  /\ c \notin lease /\ alive[c]
  /\ alive' = [alive EXCEPT ![c] = FALSE]
  /\ UNCHANGED <<hub, lease, pid, mask, pc, seen, out, joined, held>>

\* next_after: the first frame of the stream it has not seen.
NextAfter(c, s) ==
  {f \in queue[s] : /\ f.seq > seen[c][s]
                    /\ \A g \in queue[s] : g.seq > seen[c][s] => f.seq <= g.seq}

\* Mutant: depth comes before every other stream.
Mut_Chosen(c, s, f) ==
  /\ s \in mask[c] /\ f \in NextAfter(c, s)
  /\ s # "depth" => \A t \in mask[c] \ {s} : NextAfter(c, t) = {}

\* consider: the oldest of them, depth before the others.
Chosen(c, s, f) ==
  /\ s \in mask[c] /\ f \in NextAfter(c, s)
  /\ \A t \in mask[c] \ {s} : \A g \in NextAfter(c, t) :
       f.tick < g.tick \/ (f.tick = g.tick /\ s = "depth")

\* wait_next with a frame; nothing it may have missed while it was not waiting
\* is lost, as it looks at the queues before it waits and once a second.
Choose(c) ==
  /\ pc[c] = "wait" /\ online /\ alive[c]
  /\ \E s \in Streams, f \in UNION {queue[t] : t \in Streams} :
       /\ Chosen(c, s, f)
       /\ out' = [out EXCEPT ![c] = f.tick]
       /\ seen' = [seen EXCEPT ![c][s] = f.seq]
  /\ pc' = [pc EXCEPT ![c] = "send"]
  /\ UNCHANGED <<hub, lease, pid, mask, alive, joined, held>>

\* wait_next returns false.
GiveUp(c) ==
  /\ pc[c] = "wait" /\ (~online \/ ~alive[c])
  /\ pc' = [pc EXCEPT ![c] = "leave"]
  /\ UNCHANGED <<hub, lease, pid, mask, alive, seen, out, joined, held>>

\* write_all, without frame_mu_; it fails when the peer has gone or is too slow.
Sent(c) ==
  /\ pc[c] = "send"
  /\ \E next \in {"wait", "leave"} : pc' = [pc EXCEPT ![c] = next]
  /\ UNCHANGED <<hub, lease, pid, mask, alive, seen, out, joined, held>>

\* Mutant: the queues of all streams of the mask are cleared.
Mut_Unused(c) == mask[c]

\* Streams without users when the client has left.
Unused(c) == {s \in Streams : \A d \in lease \ {c} : s \notin mask[d]}

\* The thread has ended and its locals with it.
Gone(c) ==
  /\ alive' = [alive EXCEPT ![c] = FALSE]
  /\ mask' = [mask EXCEPT ![c] = {"depth"}]
  /\ seen' = [seen EXCEPT ![c] = None]
  /\ out' = [out EXCEPT ![c] = 0]
  /\ joined' = [joined EXCEPT ![c] = None]
  /\ held' = [held EXCEPT ![c] = FALSE]

\* release; a client that was superseded returns before the queues are cleared.
Release(c) ==
  /\ pc[c] = "leave"
  /\ pc' = [pc EXCEPT ![c] = "out"]
  /\ IF c \in lease
     THEN /\ lease' = lease \ {c}
          /\ queue' = [s \in Streams |-> IF s \in Unused(c) THEN {} ELSE queue[s]]
     ELSE UNCHANGED <<lease, queue>>
  /\ Gone(c)
  /\ UNCHANGED <<online, counter, now, pid>>

Thread(c) == Choose(c) \/ GiveUp(c) \/ Sent(c) \/ Release(c)

Next ==
  \/ OpenDevice \/ CloseDevice
  \/ \E s \in Streams, time \in {now, now + 1} : Publish(s, time)
  \/ \E c \in Clients : Thread(c) \/ Tell(c) \/ \E p \in Pids, m \in Requests : Acquire(c, p, m)

Spec == Init /\ [][Next]_vars

-----------------------------------------------------------------------------
(* Properties.                                                             *)

\* What a subscriber is sent never goes back in time, over all its streams and
\* however far it is behind (camera_bridge.cpp:403-414).
TimeOrder ==
  [][\A c \in Clients : pc[c] = "wait" /\ pc'[c] = "send" => out[c] <= out'[c]]_vars

\* A subscriber misses a frame only if the device was lost or it is more than a
\* queue behind: others who come, leave or are superseded take nothing from it
\* (camera_bridge.cpp:434, 459-471).
NothingSkipped ==
  [][\A c \in lease : pc[c] = "wait" /\ pc'[c] = "send" /\ held[c] =>
       \A s \in Streams : \A n \in (seen[c][s] + 1)..(seen'[c][s] - 1) :
         n <= joined[c][s] \/ n <= counter[s] - Limit]_vars
=============================================================================
