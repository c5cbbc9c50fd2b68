----------------------------- MODULE ScannerPort -----------------------------
(***************************************************************************)
(* ScannerPortServer of the Windows CameraBridge for one Kinect: the pipe  *)
(* server that leases streams to clients and sends them the frames which   *)
(* the conversion workers publish.                                         *)
(*                                                                         *)
(* A connection is a thread of its own (ServeClient).  m_clientsLock makes *)
(* a change of m_clients and of the aggregate mask one step, the lock of a *)
(* session each change of its queue; what a thread does between two locks  *)
(* can be interleaved with every other thread.                             *)
(***************************************************************************)
EXTENDS Naturals, Sequences, FiniteSets

CONSTANTS
    Conns,      \* connections that can be open at a time
    Pids,       \* client processes
    NoPid,      \* what the pipe tells when it does not know the process
    Masks,      \* stream masks clients ask for
    kMaxQueuedFramesPerClient,
    MaxFrames,  \* bound: frames that are published
    HqFails     \* the sensor may prove unable to deliver RGB HQ

Streams == {"rgb", "hq", "ir", "depth"}
Workers == {"rgb", "hq"}
Colour  == {"rgb", "hq"}

\* IsValidStreamMask
ValidMask(m) == m # {} /\ ("ir" \in m => m \cap Colour = {})

ASSUME PortAssumption ==
    /\ \A m \in Masks : m \subseteq Streams /\ ValidMask(m)
    /\ NoPid \notin Pids
    /\ kMaxQueuedFramesPerClient \in Nat \ {0}
    /\ MaxFrames \in Nat /\ HqFails \in BOOLEAN

VARIABLES
    m_clients,    \* sessions the frames are sent to
    streamMask,   \* m_streamMask, read without the lock
    stopping,     \* m_stopping and m_stopEvent
    hqBad,        \* m_rgbHqUnavailable
    server,       \* where ServerLoop is
    stop,         \* where Stop is
    \* ClientSession and the thread that serves it
    pc, pid, mask, queue, ended, superseded,
    \* MarkRgbHqUnavailable: where it is, and the sessions still to be told
    fallback, released,
    \* Publish: frames so far, the frame of each worker and where it still goes
    published, frame, targets

session == <<pc, pid, mask, queue, ended, superseded>>
leases == <<m_clients, streamMask>>
control == <<stopping, hqBad, server, stop>>
hqFallback == <<fallback, released>>
publishers == <<published, frame, targets>>
vars == <<leases, control, session, hqFallback, publishers>>

Places == {"off", "request", "add", "supersede", "reply", "stream", "leave", "remove", "done"}

\* A frame in a queue: the worker that published it and its number.
Frame == [worker : Workers, number : 1..MaxFrames]

TypeOK ==
    /\ m_clients \subseteq Conns /\ streamMask \subseteq Streams
    /\ stopping \in BOOLEAN /\ hqBad \in BOOLEAN
    /\ server \in {"listen", "spawn", "ended"}
    /\ stop \in {"no", "tell", "join", "reap", "yes"}
    /\ pc \in [Conns -> Places]
    /\ pid \in [Conns -> Pids \cup {NoPid}]
    /\ mask \in [Conns -> SUBSET Streams]
    /\ queue \in [Conns -> Seq(Frame)]
    /\ \A c \in Conns : Len(queue[c]) <= kMaxQueuedFramesPerClient
    /\ ended \in [Conns -> BOOLEAN]
    /\ superseded \in [Conns -> SUBSET Conns]
    /\ fallback \in {"idle", "erase", "tell"} /\ released \subseteq Conns
    /\ published \in 0..MaxFrames
    /\ frame \in [Workers -> 0..MaxFrames]
    /\ targets \in [Workers -> SUBSET Conns]

Init ==
    /\ m_clients = {} /\ streamMask = {}
    /\ stopping = FALSE /\ hqBad = FALSE /\ server = "listen" /\ stop = "no"
    /\ pc = [c \in Conns |-> "off"] /\ pid = [c \in Conns |-> NoPid]
    /\ mask = [c \in Conns |-> {}] /\ queue = [c \in Conns |-> <<>>]
    /\ ended = [c \in Conns |-> FALSE]
    /\ superseded = [c \in Conns |-> {}]
    /\ fallback = "idle" /\ released = {}
    /\ published = 0
    /\ frame = [w \in Workers |-> 0] /\ targets = [w \in Workers |-> {}]

-----------------------------------------------------------------------------
(* ServerLoop and ServeClient.                                             *)

Goto(c, place) == pc' = [pc EXCEPT ![c] = place]

\* RecomputeMaskLocked, for the sessions C.
Aggregate(C) == UNION {mask[c] : c \in C}
SetClients(C) == m_clients' = C /\ streamMask' = Aggregate(C)

\* The session is told to end: nothing stays in its queue.
Tell(C) ==
    /\ ended' = [c \in Conns |-> c \in C \/ ended[c]]
    /\ queue' = [c \in Conns |-> IF c \in C THEN <<>> ELSE queue[c]]

\* No thread refers to the session of the connection any more.
Forgotten(c) ==
    /\ pc[c] \in {"off", "done"}
    /\ c \notin released /\ \A x \in Conns : c \notin superseded[x]
    /\ \A w \in Workers : c \notin targets[w]

\* A client is connected and nobody has asked the server to stop.
Accept ==
    /\ server = "listen" /\ ~stopping
    /\ \E c \in Conns : Forgotten(c)
    /\ server' = "spawn"
    /\ UNCHANGED <<leases, stopping, hqBad, stop, session, hqFallback, publishers>>

\* ReapClientThreads: the threads that are done are joined.
Reaped == [x \in Conns |-> IF pc[x] = "done" THEN "off" ELSE pc[x]]

\* ReapClientThreads(false), then a thread for the connection.
Spawn(c, p, m) ==
    /\ server = "spawn" /\ Forgotten(c)
    /\ server' = "listen"
    /\ pc' = [Reaped EXCEPT ![c] = "request"]
    /\ pid' = [pid EXCEPT ![c] = p] /\ mask' = [mask EXCEPT ![c] = m]
    /\ ended' = [ended EXCEPT ![c] = FALSE]
    /\ UNCHANGED <<leases, stopping, hqBad, stop, queue, superseded, hqFallback, publishers>>

\* The loop leaves; Stop waits for it.
LoopEnds ==
    /\ server = "listen" /\ stopping
    /\ server' = "ended"
    /\ UNCHANGED <<leases, stopping, hqBad, stop, session, hqFallback, publishers>>

\* A connection that gets no further than its request: it does not come, is not
\* a subscription, asks for RGB HQ in vain, or is answered busy.
Refuse(c) ==
    /\ Goto(c, "done")
    /\ pid' = [pid EXCEPT ![c] = NoPid] /\ mask' = [mask EXCEPT ![c] = {}]

\* The request is read; the look at m_rgbHqUnavailable.
Request(c) ==
    /\ pc[c] = "request"
    /\ \/ Refuse(c)
       \/ /\ ~stopping /\ ~("hq" \in mask[c] /\ hqBad)
          /\ Goto(c, "add") /\ UNCHANGED <<pid, mask>>
    /\ UNCHANGED <<leases, control, queue, ended, superseded, hqFallback, publishers>>

\* The sessions of the same process, which a new one supersedes.
SameProcess(c) == {x \in m_clients : pid[c] # NoPid /\ pid[x] = pid[c]}

\* Mutant: the streams of every other session are looked at only by depth users.
Mut_Busy(c) == "ir" \in mask[c] /\ Aggregate(m_clients \ SameProcess(c)) \cap Colour # {}

\* The video engine is used by the other kind of stream.
Busy(c) ==
    LET others == Aggregate(m_clients \ SameProcess(c))
    IN  \/ mask[c] \cap Colour # {} /\ "ir" \in others
        \/ "ir" \in mask[c] /\ others \cap Colour # {}

\* TryAddClient, the part under m_clientsLock.
TryAddClient(c) ==
    /\ pc[c] = "add"
    /\ IF stopping \/ Busy(c)
       THEN Refuse(c) /\ UNCHANGED <<leases, superseded>>
       ELSE /\ superseded' = [superseded EXCEPT ![c] = SameProcess(c)]
            /\ SetClients((m_clients \ SameProcess(c)) \cup {c})
            /\ Goto(c, "supersede") /\ UNCHANGED <<pid, mask>>
    /\ UNCHANGED <<control, queue, ended, hqFallback, publishers>>

\* The superseded sessions are told, one after the other.
Supersede(c) ==
    /\ pc[c] = "supersede"
    /\ IF superseded[c] = {}
       THEN Goto(c, "reply") /\ UNCHANGED <<ended, queue, superseded>>
       ELSE \E x \in superseded[c] :
              /\ Tell({x})
              /\ superseded' = [superseded EXCEPT ![c] = @ \ {x}]
              /\ UNCHANGED pc
    /\ UNCHANGED <<leases, control, pid, mask, hqFallback, publishers>>

\* The reply is written, or the client has gone.
Reply(c) ==
    /\ pc[c] = "reply"
    /\ \/ ~stopping /\ Goto(c, "stream")
       \/ Goto(c, "leave")
    /\ UNCHANGED <<leases, control, pid, mask, queue, ended, superseded, hqFallback, publishers>>

\* The oldest frame of the queue is sent.
SendFrame(c) ==
    /\ pc[c] = "stream" /\ ~ended[c] /\ ~stopping /\ queue[c] # <<>>
    /\ queue' = [queue EXCEPT ![c] = Tail(@)]
    /\ UNCHANGED <<leases, control, pc, pid, mask, ended, superseded, hqFallback, publishers>>

\* The session has ended, the server stops, the client is gone, or it takes
\* longer than a frame may take.
EndStream(c) ==
    /\ pc[c] = "stream"
    /\ Goto(c, "leave")
    /\ UNCHANGED <<leases, control, pid, mask, queue, ended, superseded, hqFallback, publishers>>

\* RemoveClient: first the session, then m_clients.
Leave(c) ==
    /\ pc[c] = "leave"
    /\ Tell({c})
    /\ Goto(c, "remove")
    /\ UNCHANGED <<leases, control, pid, mask, superseded, hqFallback, publishers>>

RemoveClient(c) ==
    /\ pc[c] = "remove"
    /\ SetClients(m_clients \ {c})
    /\ Refuse(c)
    /\ UNCHANGED <<control, queue, ended, superseded, hqFallback, publishers>>

-----------------------------------------------------------------------------
(* MarkRgbHqUnavailable, called by the video thread.                       *)

HqFail ==
    /\ HqFails /\ fallback = "idle"
    /\ hqBad' = TRUE /\ fallback' = "erase"
    /\ UNCHANGED <<leases, stopping, server, stop, session, released, publishers>>

EraseHq ==
    /\ fallback = "erase"
    /\ released' = {c \in m_clients : "hq" \in mask[c]}
    /\ SetClients({c \in m_clients : "hq" \notin mask[c]})
    /\ fallback' = "tell"
    /\ UNCHANGED <<control, session, publishers>>

\* Mutant: the released sessions are not told.
Mut_TellHq ==
    /\ fallback = "tell"
    /\ released' = {} /\ fallback' = "idle"
    /\ UNCHANGED <<leases, control, session, publishers>>

TellHq ==
    /\ fallback = "tell"
    /\ IF released = {}
       THEN fallback' = "idle" /\ UNCHANGED <<released, ended, queue>>
       ELSE \E c \in released :
              Tell({c}) /\ released' = released \ {c} /\ UNCHANGED fallback
    /\ UNCHANGED <<leases, control, pc, pid, mask, superseded, publishers>>

-----------------------------------------------------------------------------
(* Publish, called by the worker of each stream; that of RGB HQ publishes  *)
(* RGB frames too.                                                         *)

Modes(w) == IF w = "hq" THEN {"hq", "rgb"} ELSE {w}

\* Somebody wants the stream: the frame is copied and the sessions chosen.
Publish(w, m) ==
    /\ targets[w] = {} /\ published < MaxFrames
    /\ m \in streamMask /\ ~stopping
    /\ LET T == {c \in m_clients : m \in mask[c]}
       IN  T # {} /\ targets' = [targets EXCEPT ![w] = T]
    /\ published' = published + 1
    /\ frame' = [frame EXCEPT ![w] = published + 1]
    /\ UNCHANGED <<leases, control, session, hqFallback>>

\* The queue of a session after a frame: the oldest make room.
Queued(c, f) ==
    IF ended[c] THEN queue[c]
    ELSE Append(IF Len(queue[c]) >= kMaxQueuedFramesPerClient
                THEN Tail(queue[c]) ELSE queue[c], f)

\* One session after the other.
Push(w, c) ==
    /\ c \in targets[w]
    /\ queue' = [queue EXCEPT ![c] = Queued(c, [worker |-> w, number |-> frame[w]])]
    /\ targets' = [targets EXCEPT ![w] = @ \ {c}]
    /\ frame' = [frame EXCEPT ![w] = IF targets[w] = {c} THEN 0 ELSE @]
    /\ UNCHANGED <<leases, control, pc, pid, mask, ended, superseded, hqFallback, published>>

-----------------------------------------------------------------------------
(* Stop.                                                                   *)

StopRequest ==
    /\ stop = "no"
    /\ stopping' = TRUE /\ stop' = "tell"
    /\ UNCHANGED <<leases, hqBad, server, session, hqFallback, publishers>>

\* The sessions of the moment are told.
StopTells ==
    /\ stop = "tell"
    /\ Tell(m_clients)
    /\ stop' = "join"
    /\ UNCHANGED <<leases, stopping, hqBad, server, pc, pid, mask, superseded,
                   hqFallback, publishers>>

\* The server thread is joined.
StopJoins ==
    /\ stop = "join" /\ server = "ended"
    /\ stop' = "reap"
    /\ UNCHANGED <<leases, stopping, hqBad, server, session, hqFallback, publishers>>

\* ReapClientThreads(true), and m_clients is emptied.
StopReaps ==
    /\ stop = "reap"
    /\ \A c \in Conns : pc[c] \in {"off", "done"}
    /\ pc' = Reaped
    /\ SetClients({})
    /\ stop' = "yes"
    /\ UNCHANGED <<stopping, hqBad, server, pid, mask, queue, ended, superseded,
                   hqFallback, publishers>>

Serve(c) ==
    \/ Request(c) \/ TryAddClient(c) \/ Supersede(c) \/ Reply(c)
    \/ SendFrame(c) \/ EndStream(c) \/ Leave(c) \/ RemoveClient(c)

Next ==
    \/ Accept \/ LoopEnds
    \/ \E c \in Conns, p \in Pids \cup {NoPid}, m \in Masks : Spawn(c, p, m)
    \/ \E c \in Conns : Serve(c)
    \/ HqFail \/ EraseHq \/ TellHq
    \/ \E w \in Workers : \E m \in Modes(w) : Publish(w, m)
    \/ \E w \in Workers, c \in Conns : Push(w, c)
    \/ StopRequest \/ StopTells \/ StopJoins \/ StopReaps

Spec == Init /\ [][Next]_vars

-----------------------------------------------------------------------------
(* Properties.                                                             *)

\* A session that is streaming and no longer in m_clients has been told to end,
\* or somebody is about to tell it: no client waits forever for frames.
OrphanIsTold ==
    \A c \in Conns : pc[c] \in {"supersede", "reply", "stream"} /\ c \notin m_clients =>
        \/ ended[c] \/ stopping \/ c \in released
        \/ \E x \in Conns : pc[x] = "supersede" /\ c \in superseded[x]

\* Every session in m_clients has a thread that will take it out again: the
\* mask never keeps an engine running for a connection that is gone.
LeaseHasThread == \A c \in m_clients : pc[c] \notin {"off", "request", "add", "done"}

\* The leases and the threads that serve them agree, over the three places that
\* change them apart: TryAddClient, MarkRgbHqUnavailable and RemoveClient.
LeasesAndThreads == OrphanIsTold /\ LeaseHasThread

\* Clients never hold IR and a colour stream at the same time.
Arbitrated == ~("ir" \in streamMask /\ streamMask \cap Colour # {})
=============================================================================
