------------------------- MODULE WindowsCamera_proofs -------------------------
(***************************************************************************)
(* The parts of the Windows CameraBridge, each by its own specification    *)
(* and for every value of its constants: the leases of the scanner port,   *)
(* the mode of the video engine, the frames of a conversion worker and the *)
(* virtual cameras that the loop removes.                                  *)
(***************************************************************************)
EXTENDS MC_WindowsCamera, TLAPS

-----------------------------------------------------------------------------
(* The scanner port.                                                       *)

\* A frame that is on its way to sessions has a number.
FrameNumbered == \A w \in Workers : targets[w] # {} => frame[w] \in 1..MaxFrames

\* m_streamMask is what the sessions in m_clients want.
MaskIsAggregate == streamMask = Aggregate(m_clients)

\* No session wants IR and a colour stream.
MasksValid == \A c \in Conns : "ir" \in mask[c] => mask[c] \cap Colour = {}

\* Sessions still to be told of the fallback are there only while it tells.
ReleasedInTell == fallback # "tell" => released = {}

PortInv ==
    /\ TypeOK /\ FrameNumbered
    /\ MaskIsAggregate /\ MasksValid /\ Arbitrated
    /\ ReleasedInTell /\ OrphanIsTold /\ LeaseHasThread

LEMMA QueueAppends ==
    ASSUME NEW q \in Seq(Frame), Len(q) <= kMaxQueuedFramesPerClient, NEW f \in Frame
    PROVE  LET r == Append(IF Len(q) >= kMaxQueuedFramesPerClient THEN Tail(q) ELSE q, f)
           IN  r \in Seq(Frame) /\ Len(r) <= kMaxQueuedFramesPerClient
<1>1. kMaxQueuedFramesPerClient \in Nat /\ kMaxQueuedFramesPerClient # 0 /\ Len(q) \in Nat
  BY PortAssumption
<1>2. CASE Len(q) >= kMaxQueuedFramesPerClient
  <2>1. q # <<>>
    BY <1>1, <1>2
  <2>2. Tail(q) \in Seq(Frame) /\ Len(Tail(q)) = Len(q) - 1
    BY <2>1
  <2> QED
    BY <1>1, <1>2, <2>2
<1>3. CASE ~(Len(q) >= kMaxQueuedFramesPerClient)
  BY <1>1, <1>3
<1> QED
  BY <1>2, <1>3

\* Sessions told: their queues are emptied, the others' stay.
LEMMA TellTyped ==
    ASSUME TypeOK, NEW C, Tell(C)
    PROVE  /\ ended' \in [Conns -> BOOLEAN] /\ queue' \in [Conns -> Seq(Frame)]
           /\ \A c \in Conns : Len(queue'[c]) <= kMaxQueuedFramesPerClient
           /\ \A c \in Conns : ended'[c] <=> c \in C \/ ended[c]
<1>1. ended' \in [Conns -> BOOLEAN] /\ \A c \in Conns : ended'[c] <=> c \in C \/ ended[c]
  BY DEF Tell, TypeOK
<1>2. \A c \in Conns : queue'[c] = IF c \in C THEN <<>> ELSE queue[c]
  BY DEF Tell
<1>3. <<>> \in Seq(Frame) /\ Len(<<>>) <= kMaxQueuedFramesPerClient
  BY PortAssumption
<1>4. \A c \in Conns : queue'[c] \in Seq(Frame) /\ Len(queue'[c]) <= kMaxQueuedFramesPerClient
  BY <1>2, <1>3 DEF TypeOK
<1>5. queue' \in [Conns -> Seq(Frame)]
  BY <1>4 DEF Tell
<1> QED
  BY <1>1, <1>4, <1>5

LEMMA AggregateStreams ==
    ASSUME TypeOK, NEW C \in SUBSET Conns
    PROVE  Aggregate(C) \subseteq Streams
BY DEF TypeOK, Aggregate

LEMMA AggregateSame ==
    ASSUME NEW C, \A c \in C : mask'[c] = mask[c]
    PROVE  UNION {mask'[c] : c \in C} = Aggregate(C)
BY DEF Aggregate

LEMMA AggregateMonotone ==
    ASSUME NEW C, NEW S, C \subseteq S
    PROVE  Aggregate(C) \subseteq Aggregate(S)
BY DEF Aggregate

\* What a thread does to the leases and to its own session leaves the others
\* with what they had.
LEMMA LeasesStep ==
    ASSUME PortInv, TypeOK', m_clients' \subseteq m_clients,
           streamMask' = Aggregate(m_clients'),
           \A c \in m_clients' : mask'[c] = mask[c],
           \A c \in Conns : mask'[c] = mask[c] \/ ("ir" \in mask'[c] => mask'[c] \cap Colour = {})
    PROVE  MaskIsAggregate' /\ MasksValid' /\ Arbitrated'
<1>1. MaskIsAggregate'
  <2>1. UNION {mask'[c] : c \in m_clients'} = Aggregate(m_clients')
    BY AggregateSame
  <2> QED
    BY <2>1 DEF MaskIsAggregate, Aggregate
<1>2. MasksValid'
  BY DEF PortInv, MasksValid
<1>3. streamMask' \subseteq streamMask
  BY AggregateMonotone DEF PortInv, MaskIsAggregate
<1>4. Arbitrated'
  BY <1>3 DEF PortInv, Arbitrated
<1> QED
  BY <1>1, <1>2, <1>4

\* A step that moves no thread and takes no lease: what was told stays told.
LEMMA QuietStep ==
    ASSUME PortInv, TypeOK', UNCHANGED <<leases, pc, mask, superseded>>,
           \A c \in Conns : ended[c] => ended'[c],
           stopping => stopping', released \subseteq released' \cup {c \in Conns : ended'[c]}
    PROVE  /\ MaskIsAggregate' /\ MasksValid' /\ Arbitrated'
           /\ OrphanIsTold' /\ LeaseHasThread'
<1>1. MaskIsAggregate' /\ MasksValid' /\ Arbitrated'
  <2>1. streamMask' = Aggregate(m_clients')
    BY DEF PortInv, MaskIsAggregate, leases
  <2> QED
    BY <2>1, LeasesStep DEF leases
<1>2. OrphanIsTold'
  BY DEF PortInv, OrphanIsTold, leases
<1>3. LeaseHasThread'
  BY DEF PortInv, LeaseHasThread, leases
<1> QED
  BY <1>1, <1>2, <1>3

LEMMA AcceptStep ==
    ASSUME PortInv, Accept
    PROVE  PortInv'
<1>1. TypeOK /\ FrameNumbered
  BY DEF PortInv
<1>2. TypeOK' /\ FrameNumbered'
  BY <1>1 DEF Accept, TypeOK, FrameNumbered, leases, control, session, hqFallback, publishers
<1>3. /\ MaskIsAggregate' /\ MasksValid' /\ Arbitrated'
      /\ OrphanIsTold' /\ LeaseHasThread'
  BY <1>2, QuietStep DEF Accept, leases, control, session, hqFallback, publishers
<1>4. ReleasedInTell'
  BY DEF PortInv, ReleasedInTell, Accept, leases, control, session, hqFallback, publishers
<1> QED
  BY <1>2, <1>3, <1>4 DEF PortInv

LEMMA LoopEndsStep ==
    ASSUME PortInv, LoopEnds
    PROVE  PortInv'
<1>1. TypeOK /\ FrameNumbered
  BY DEF PortInv
<1>2. TypeOK' /\ FrameNumbered'
  BY <1>1 DEF LoopEnds, TypeOK, FrameNumbered, leases, control, session, hqFallback, publishers
<1>3. /\ MaskIsAggregate' /\ MasksValid' /\ Arbitrated'
      /\ OrphanIsTold' /\ LeaseHasThread'
  BY <1>2, QuietStep DEF LoopEnds, leases, control, session, hqFallback, publishers
<1>4. ReleasedInTell'
  BY DEF PortInv, ReleasedInTell, LoopEnds, leases, control, session, hqFallback, publishers
<1> QED
  BY <1>2, <1>3, <1>4 DEF PortInv

LEMMA StopRequestStep ==
    ASSUME PortInv, StopRequest
    PROVE  PortInv'
<1>1. TypeOK /\ FrameNumbered
  BY DEF PortInv
<1>2. TypeOK' /\ FrameNumbered'
  BY <1>1 DEF StopRequest, TypeOK, FrameNumbered, leases, control, session, hqFallback, publishers
<1>3. /\ MaskIsAggregate' /\ MasksValid' /\ Arbitrated'
      /\ OrphanIsTold' /\ LeaseHasThread'
  BY <1>2, QuietStep DEF StopRequest, leases, control, session, hqFallback, publishers
<1>4. ReleasedInTell'
  BY DEF PortInv, ReleasedInTell, StopRequest, leases, control, session, hqFallback, publishers
<1> QED
  BY <1>2, <1>3, <1>4 DEF PortInv

LEMMA StopJoinsStep ==
    ASSUME PortInv, StopJoins
    PROVE  PortInv'
<1>1. TypeOK /\ FrameNumbered
  BY DEF PortInv
<1>2. TypeOK' /\ FrameNumbered'
  BY <1>1 DEF StopJoins, TypeOK, FrameNumbered, leases, control, session, hqFallback, publishers
<1>3. /\ MaskIsAggregate' /\ MasksValid' /\ Arbitrated'
      /\ OrphanIsTold' /\ LeaseHasThread'
  BY <1>2, QuietStep DEF StopJoins, leases, control, session, hqFallback, publishers
<1>4. ReleasedInTell'
  BY DEF PortInv, ReleasedInTell, StopJoins, leases, control, session, hqFallback, publishers
<1> QED
  BY <1>2, <1>3, <1>4 DEF PortInv

LEMMA HqFailStep ==
    ASSUME PortInv, HqFail
    PROVE  PortInv'
<1>1. TypeOK /\ FrameNumbered
  BY DEF PortInv
<1>2. TypeOK' /\ FrameNumbered'
  BY <1>1 DEF HqFail, TypeOK, FrameNumbered, leases, control, session, hqFallback, publishers
<1>3. /\ MaskIsAggregate' /\ MasksValid' /\ Arbitrated'
      /\ OrphanIsTold' /\ LeaseHasThread'
  BY <1>2, QuietStep DEF HqFail, leases, control, session, hqFallback, publishers
<1>4. ReleasedInTell'
  BY DEF PortInv, ReleasedInTell, HqFail, leases, control, session, hqFallback, publishers
<1> QED
  BY <1>2, <1>3, <1>4 DEF PortInv

LEMMA SendFrameStep ==
    ASSUME PortInv, NEW c \in Conns, SendFrame(c)
    PROVE  PortInv'
<1>1. TypeOK /\ FrameNumbered
  BY DEF PortInv
<1>2. TypeOK' /\ FrameNumbered'
  <2>1. Tail(queue[c]) \in Seq(Frame) /\ Len(Tail(queue[c])) <= kMaxQueuedFramesPerClient
    <3>1. queue[c] \in Seq(Frame) /\ queue[c] # <<>> /\ Len(queue[c]) <= kMaxQueuedFramesPerClient
      BY <1>1 DEF SendFrame, TypeOK
    <3>2. Tail(queue[c]) \in Seq(Frame) /\ Len(Tail(queue[c])) = Len(queue[c]) - 1
      BY <3>1
    <3> QED
      BY <3>1, <3>2, PortAssumption
  <2>2. \A x \in Conns : queue'[x] = IF x = c THEN Tail(queue[c]) ELSE queue[x]
    BY <1>1 DEF SendFrame, TypeOK
  <2>3. queue' \in [Conns -> Seq(Frame)]
          /\ \A x \in Conns : Len(queue'[x]) <= kMaxQueuedFramesPerClient
    BY <1>1, <2>1, <2>2 DEF SendFrame, TypeOK
  <2> QED
    BY <1>1, <2>3 DEF SendFrame, TypeOK, FrameNumbered, leases, control, hqFallback, publishers
<1>3. /\ MaskIsAggregate' /\ MasksValid' /\ Arbitrated'
      /\ OrphanIsTold' /\ LeaseHasThread'
  BY <1>2, QuietStep DEF SendFrame, leases, control, session, hqFallback, publishers
<1>4. ReleasedInTell'
  BY DEF PortInv, ReleasedInTell, SendFrame, leases, control, session, hqFallback, publishers
<1> QED
  BY <1>2, <1>3, <1>4 DEF PortInv

LEMMA StopTellsStep ==
    ASSUME PortInv, StopTells
    PROVE  PortInv'
<1>1. TypeOK /\ FrameNumbered /\ Tell(m_clients)
  BY DEF PortInv, StopTells
<1>2. TypeOK' /\ FrameNumbered'
  BY <1>1, TellTyped DEF StopTells, TypeOK, FrameNumbered, leases, hqFallback, publishers
<1>3. /\ MaskIsAggregate' /\ MasksValid' /\ Arbitrated'
      /\ OrphanIsTold' /\ LeaseHasThread'
  BY <1>1, <1>2, TellTyped, QuietStep DEF StopTells, hqFallback
<1>4. ReleasedInTell'
  BY DEF PortInv, ReleasedInTell, StopTells, hqFallback
<1> QED
  BY <1>2, <1>3, <1>4 DEF PortInv

LEMMA PublishStep ==
    ASSUME PortInv, NEW w \in Workers, NEW m \in Modes(w), Publish(w, m)
    PROVE  PortInv'
<1>1. TypeOK /\ FrameNumbered /\ MaxFrames \in Nat
  BY PortAssumption DEF PortInv
<1>2. TypeOK' /\ FrameNumbered'
  <2>1. published' \in 1..MaxFrames
    BY <1>1 DEF Publish, TypeOK
  <2>2. frame' \in [Workers -> 0..MaxFrames] /\ frame'[w] \in 1..MaxFrames
          /\ \A x \in Workers : x # w => frame'[x] = frame[x]
    BY <1>1, <2>1 DEF Publish, TypeOK
  <2>3. targets' \in [Workers -> SUBSET Conns]
          /\ \A x \in Workers : x # w => targets'[x] = targets[x]
    BY <1>1 DEF Publish, TypeOK
  <2> QED
    BY <1>1, <2>1, <2>2, <2>3 DEF Publish, TypeOK, FrameNumbered, leases, control, session,
        hqFallback
<1>3. /\ MaskIsAggregate' /\ MasksValid' /\ Arbitrated'
      /\ OrphanIsTold' /\ LeaseHasThread'
  BY <1>2, QuietStep DEF Publish, control, session, hqFallback
<1>4. ReleasedInTell'
  BY DEF PortInv, ReleasedInTell, Publish, hqFallback
<1> QED
  BY <1>2, <1>3, <1>4 DEF PortInv

LEMMA PushStep ==
    ASSUME PortInv, NEW w \in Workers, NEW c \in Conns, Push(w, c)
    PROVE  PortInv'
<1>1. TypeOK /\ FrameNumbered /\ MaxFrames \in Nat
  BY PortAssumption DEF PortInv
<1>2. TypeOK' /\ FrameNumbered'
  <2> DEFINE f == [worker |-> w, number |-> frame[w]]
  <2>1. f \in Frame
    BY <1>1 DEF Push, FrameNumbered, Frame
  <2>2. Queued(c, f) \in Seq(Frame) /\ Len(Queued(c, f)) <= kMaxQueuedFramesPerClient
    BY <1>1, <2>1, QueueAppends DEF Queued, TypeOK
  <2>3. \A x \in Conns : queue'[x] = IF x = c THEN Queued(c, f) ELSE queue[x]
    BY <1>1 DEF Push, TypeOK
  <2>4. queue' \in [Conns -> Seq(Frame)]
          /\ \A x \in Conns : Len(queue'[x]) <= kMaxQueuedFramesPerClient
    BY <1>1, <2>2, <2>3 DEF Push, TypeOK
  <2>5. targets' \in [Workers -> SUBSET Conns] /\ targets'[w] = targets[w] \ {c}
          /\ \A x \in Workers : x # w => targets'[x] = targets[x]
    BY <1>1 DEF Push, TypeOK
  <2>6. frame' \in [Workers -> 0..MaxFrames]
          /\ frame'[w] = (IF targets[w] = {c} THEN 0 ELSE frame[w])
          /\ \A x \in Workers : x # w => frame'[x] = frame[x]
    BY <1>1 DEF Push, TypeOK
  <2>7. FrameNumbered'
    BY <1>1, <2>5, <2>6 DEF Push, FrameNumbered
  <2> QED
    BY <1>1, <2>4, <2>5, <2>6, <2>7 DEF Push, TypeOK, leases, control, hqFallback
<1>3. /\ MaskIsAggregate' /\ MasksValid' /\ Arbitrated'
      /\ OrphanIsTold' /\ LeaseHasThread'
  BY <1>2, QuietStep DEF Push, control, hqFallback
<1>4. ReleasedInTell'
  BY DEF PortInv, ReleasedInTell, Push, hqFallback
<1> QED
  BY <1>2, <1>3, <1>4 DEF PortInv

LEMMA TellHqStep ==
    ASSUME PortInv, TellHq
    PROVE  PortInv'
<1>1. TypeOK /\ FrameNumbered
  BY DEF PortInv
<1>2. CASE released = {}
  <2>1. TypeOK' /\ FrameNumbered'
    BY <1>1, <1>2 DEF TellHq, TypeOK, FrameNumbered, leases, control, publishers
  <2>2. /\ MaskIsAggregate' /\ MasksValid' /\ Arbitrated'
        /\ OrphanIsTold' /\ LeaseHasThread'
    BY <1>2, <2>1, QuietStep DEF TellHq, control
  <2>3. ReleasedInTell'
    BY <1>2 DEF ReleasedInTell, TellHq
  <2> QED
    BY <2>1, <2>2, <2>3 DEF PortInv
<1>3. ASSUME NEW c \in released, Tell({c}), released' = released \ {c}, UNCHANGED fallback
      PROVE  PortInv'
  <2>1. TypeOK' /\ FrameNumbered'
    BY <1>1, <1>3, TellTyped DEF TellHq, TypeOK, FrameNumbered, leases, control, publishers
  <2>2. released \subseteq released' \cup {x \in Conns : ended'[x]}
    BY <1>1, <1>3, TellTyped DEF TypeOK
  <2>3. /\ MaskIsAggregate' /\ MasksValid' /\ Arbitrated'
        /\ OrphanIsTold' /\ LeaseHasThread'
    BY <1>1, <1>3, <2>1, <2>2, TellTyped, QuietStep DEF TellHq, control
  <2>4. ReleasedInTell'
    BY <1>3 DEF PortInv, ReleasedInTell
  <2> QED
    BY <2>1, <2>3, <2>4 DEF PortInv
<1> QED
  BY <1>2, <1>3 DEF TellHq

\* The steps that move a thread or change the leases.
LEMMA EraseHqStep ==
    ASSUME PortInv, EraseHq
    PROVE  PortInv'
<1>1. TypeOK /\ FrameNumbered
  BY DEF PortInv
<1>2. TypeOK' /\ FrameNumbered'
  BY <1>1, AggregateStreams DEF EraseHq, SetClients, TypeOK, FrameNumbered, control, session,
      publishers
<1>3. MaskIsAggregate' /\ MasksValid' /\ Arbitrated'
  BY <1>2, LeasesStep DEF EraseHq, SetClients, session
<1>4. ReleasedInTell' /\ LeaseHasThread' /\ OrphanIsTold'
  <2>1. released = {}
    BY DEF PortInv, ReleasedInTell, EraseHq
  <2> QED
    BY <2>1 DEF PortInv, ReleasedInTell, LeaseHasThread, OrphanIsTold, EraseHq, SetClients,
        session, control
<1> QED
  BY <1>2, <1>3, <1>4 DEF PortInv

LEMMA SpawnStep ==
    ASSUME PortInv, NEW c \in Conns, NEW p \in Pids \cup {NoPid}, NEW m \in Masks, Spawn(c, p, m)
    PROVE  PortInv'
<1>1. TypeOK /\ FrameNumbered /\ LeaseHasThread /\ m \subseteq Streams /\ ValidMask(m)
  BY PortAssumption DEF PortInv
<1>2. TypeOK' /\ FrameNumbered'
  BY <1>1 DEF Spawn, Reaped, TypeOK, FrameNumbered, Places, leases, hqFallback, publishers
<1>3. MaskIsAggregate' /\ MasksValid' /\ Arbitrated'
  <2>1. c \notin m_clients
    BY <1>1 DEF Spawn, Forgotten, LeaseHasThread
  <2>2. \A x \in Conns : mask'[x] = IF x = c THEN m ELSE mask[x]
    BY <1>1 DEF Spawn, TypeOK
  <2>3. m_clients' = m_clients /\ streamMask' = Aggregate(m_clients) /\ m_clients \subseteq Conns
    BY <1>1 DEF Spawn, leases, PortInv, MaskIsAggregate, TypeOK
  <2>4. "ir" \in m => m \cap Colour = {}
    BY <1>1 DEF ValidMask
  <2> QED
    BY <1>2, <2>1, <2>2, <2>3, <2>4, LeasesStep
<1>4. ReleasedInTell' /\ LeaseHasThread' /\ OrphanIsTold'
  <2>1. /\ \A x \in Conns : pc'[x] = IF x = c THEN "request"
                                     ELSE IF pc[x] = "done" THEN "off" ELSE pc[x]
        /\ \A x \in Conns : x # c => ended'[x] = ended[x]
    BY <1>1 DEF Spawn, Reaped, TypeOK
  <2>2. c \notin m_clients /\ pc[c] \in {"off", "done"}
    BY <1>1 DEF Spawn, Forgotten, LeaseHasThread
  <2>3. ReleasedInTell' /\ LeaseHasThread'
    BY <1>1, <2>1, <2>2 DEF PortInv, ReleasedInTell, LeaseHasThread, Spawn, TypeOK, leases,
        hqFallback
  <2>4. OrphanIsTold'
    BY <2>1, <2>2 DEF PortInv, OrphanIsTold, Spawn, leases, hqFallback
  <2> QED
    BY <2>3, <2>4
<1> QED
  BY <1>2, <1>3, <1>4 DEF PortInv

LEMMA ReplyStep ==
    ASSUME PortInv, NEW c \in Conns, Reply(c)
    PROVE  PortInv'
<1>1. TypeOK /\ FrameNumbered /\ LeaseHasThread
  BY DEF PortInv
<1>2. TypeOK' /\ FrameNumbered'
  BY <1>1 DEF Reply, Goto, Refuse, SetClients, TypeOK, FrameNumbered, Places, leases, control,
      session, hqFallback, publishers
<1>3. MaskIsAggregate' /\ MasksValid' /\ Arbitrated'
  <2>1. streamMask' = Aggregate(m_clients')
    BY DEF Reply, leases, PortInv, MaskIsAggregate
  <2> QED
    BY <1>2, <2>1, LeasesStep DEF Reply, leases
<1>4. ReleasedInTell' /\ LeaseHasThread' /\ OrphanIsTold'
  BY <1>1 DEF PortInv, ReleasedInTell, LeaseHasThread, OrphanIsTold, Reply, Goto, Refuse,
      SetClients, TypeOK, leases, control, session, hqFallback, publishers
<1> QED
  BY <1>2, <1>3, <1>4 DEF PortInv

LEMMA EndStreamStep ==
    ASSUME PortInv, NEW c \in Conns, EndStream(c)
    PROVE  PortInv'
<1>1. TypeOK /\ FrameNumbered /\ LeaseHasThread
  BY DEF PortInv
<1>2. TypeOK' /\ FrameNumbered'
  BY <1>1 DEF EndStream, Goto, Refuse, SetClients, TypeOK, FrameNumbered, Places, leases, control,
      session, hqFallback, publishers
<1>3. MaskIsAggregate' /\ MasksValid' /\ Arbitrated'
  <2>1. streamMask' = Aggregate(m_clients')
    BY DEF EndStream, leases, PortInv, MaskIsAggregate
  <2> QED
    BY <1>2, <2>1, LeasesStep DEF EndStream, leases
<1>4. ReleasedInTell' /\ LeaseHasThread' /\ OrphanIsTold'
  BY <1>1 DEF PortInv, ReleasedInTell, LeaseHasThread, OrphanIsTold, EndStream, Goto, Refuse,
      SetClients, TypeOK, leases, control, session, hqFallback, publishers
<1> QED
  BY <1>2, <1>3, <1>4 DEF PortInv

LEMMA LeaveStep ==
    ASSUME PortInv, NEW c \in Conns, Leave(c)
    PROVE  PortInv'
<1>1. TypeOK /\ FrameNumbered /\ LeaseHasThread
  BY DEF PortInv
<1>2. TypeOK' /\ FrameNumbered'
  BY <1>1, TellTyped DEF Leave, Goto, Refuse, SetClients, TypeOK, FrameNumbered, Places, leases,
      control, session, hqFallback, publishers
<1>3. MaskIsAggregate' /\ MasksValid' /\ Arbitrated'
  <2>1. streamMask' = Aggregate(m_clients')
    BY DEF Leave, leases, PortInv, MaskIsAggregate
  <2> QED
    BY <1>2, <2>1, LeasesStep DEF Leave, leases
<1>4. ReleasedInTell' /\ LeaseHasThread' /\ OrphanIsTold'
  BY <1>1, TellTyped DEF PortInv, ReleasedInTell, LeaseHasThread, OrphanIsTold, Leave, Goto,
      Refuse, SetClients, TypeOK, leases, control, session, hqFallback, publishers
<1> QED
  BY <1>2, <1>3, <1>4 DEF PortInv

LEMMA RequestStep ==
    ASSUME PortInv, NEW c \in Conns, Request(c)
    PROVE  PortInv'
<1>1. TypeOK /\ FrameNumbered /\ LeaseHasThread
  BY DEF PortInv
<1>2. TypeOK' /\ FrameNumbered'
  BY <1>1 DEF Request, Goto, Refuse, SetClients, TypeOK, FrameNumbered, Places, leases, control,
      session, hqFallback, publishers
<1>3. MaskIsAggregate' /\ MasksValid' /\ Arbitrated'
  <2>1. c \notin m_clients
    BY <1>1 DEF Request, LeaseHasThread
  <2>2. \A x \in Conns : mask'[x] = mask[x] \/ (x = c /\ mask'[x] = {})
    BY <1>1 DEF Request, Refuse, TypeOK
  <2>3. streamMask' = Aggregate(m_clients') /\ m_clients' = m_clients /\ m_clients \subseteq Conns
    BY <1>1 DEF Request, leases, PortInv, MaskIsAggregate, TypeOK
  <2> QED
    BY <1>2, <2>1, <2>2, <2>3, LeasesStep
<1>4. ReleasedInTell' /\ LeaseHasThread' /\ OrphanIsTold'
  <2>1. c \notin m_clients /\ pc[c] = "request" /\ m_clients \subseteq Conns
    BY <1>1 DEF Request, LeaseHasThread, TypeOK
  <2>2. \A x \in Conns : pc'[x] = pc[x] \/ (x = c /\ pc'[x] \in {"done", "add"})
    BY <1>1 DEF Request, Refuse, Goto, TypeOK
  <2>3. UNCHANGED <<leases, ended, superseded, hqFallback, stopping>>
    BY DEF Request, control
  <2>4. ReleasedInTell' /\ LeaseHasThread'
    BY <1>1, <2>1, <2>2, <2>3 DEF PortInv, ReleasedInTell, LeaseHasThread, leases, hqFallback
  <2>5. OrphanIsTold'
    BY <2>1, <2>2, <2>3 DEF PortInv, OrphanIsTold, leases, hqFallback
  <2> QED
    BY <2>4, <2>5
<1> QED
  BY <1>2, <1>3, <1>4 DEF PortInv

LEMMA RemoveClientStep ==
    ASSUME PortInv, NEW c \in Conns, RemoveClient(c)
    PROVE  PortInv'
<1>1. TypeOK /\ FrameNumbered /\ LeaseHasThread
  BY DEF PortInv
<1>2. TypeOK' /\ FrameNumbered'
  BY <1>1, AggregateStreams DEF RemoveClient, Refuse, Goto, SetClients, TypeOK, FrameNumbered,
     Places, control, hqFallback, publishers
<1>3. MaskIsAggregate' /\ MasksValid' /\ Arbitrated'
  <2>1. \A x \in Conns : mask'[x] = mask[x] \/ (x = c /\ mask'[x] = {})
    BY <1>1 DEF RemoveClient, Refuse, TypeOK
  <2>2. m_clients' = m_clients \ {c} /\ streamMask' = Aggregate(m_clients') /\ m_clients
  \subseteq Conns
    BY <1>1 DEF RemoveClient, SetClients, TypeOK
  <2> QED
    BY <1>2, <2>1, <2>2, LeasesStep
<1>4. ReleasedInTell' /\ LeaseHasThread' /\ OrphanIsTold'
  BY <1>1 DEF PortInv, ReleasedInTell, LeaseHasThread, OrphanIsTold, RemoveClient, Refuse, Goto,
     SetClients, TypeOK, control, hqFallback
<1> QED
  BY <1>2, <1>3, <1>4 DEF PortInv

LEMMA SupersedeStep ==
    ASSUME PortInv, NEW c \in Conns, Supersede(c)
    PROVE  PortInv'
<1>1. TypeOK /\ FrameNumbered /\ LeaseHasThread /\ pc[c] = "supersede"
  BY DEF PortInv, Supersede
<1>2. CASE superseded[c] = {} /\ Goto(c, "reply") /\ UNCHANGED <<ended, queue, superseded>>
  <2>1. TypeOK' /\ FrameNumbered'
    BY <1>1, <1>2 DEF Supersede, Goto, TypeOK, FrameNumbered, Places, leases, control, hqFallback,
       publishers
  <2>2. streamMask' = Aggregate(m_clients')
    BY DEF Supersede, leases, PortInv, MaskIsAggregate
  <2>3. MaskIsAggregate' /\ MasksValid' /\ Arbitrated'
    BY <2>1, <2>2, LeasesStep DEF Supersede, leases
  <2>4. ReleasedInTell' /\ LeaseHasThread' /\ OrphanIsTold'
    BY <1>1, <1>2 DEF PortInv, ReleasedInTell, LeaseHasThread, OrphanIsTold, Supersede, Goto,
       TypeOK, leases, control, hqFallback
  <2> QED
    BY <2>1, <2>3, <2>4 DEF PortInv
<1>3. ASSUME NEW x \in superseded[c], Tell({x}), UNCHANGED pc,
             superseded' = [superseded EXCEPT ![c] = @ \ {x}]
      PROVE  PortInv'
  <2>1. TypeOK' /\ FrameNumbered'
    BY <1>1, <1>3, TellTyped DEF Supersede, TypeOK, FrameNumbered, leases, control, hqFallback,
       publishers
  <2>2. streamMask' = Aggregate(m_clients')
    BY DEF Supersede, leases, PortInv, MaskIsAggregate
  <2>3. MaskIsAggregate' /\ MasksValid' /\ Arbitrated'
    BY <2>1, <2>2, LeasesStep DEF Supersede, leases
  <2>4. OrphanIsTold'
    <3>1. \A y \in Conns : ended'[y] <=> y = x \/ ended[y]
      BY <1>1, <1>3, TellTyped
    <3>2. \A y \in Conns : superseded'[y] = IF y = c THEN superseded[c] \ {x} ELSE superseded[y]
      BY <1>1, <1>3 DEF TypeOK
    <3> QED
      BY <1>3, <3>1, <3>2 DEF PortInv, OrphanIsTold, Supersede, leases, control, hqFallback
  <2>5. ReleasedInTell' /\ LeaseHasThread'
    BY <1>3 DEF PortInv, ReleasedInTell, LeaseHasThread, Supersede, leases, hqFallback
  <2> QED
    BY <2>1, <2>3, <2>4, <2>5 DEF PortInv
<1> QED
  BY <1>2, <1>3 DEF Supersede

LEMMA StopReapsStep ==
    ASSUME PortInv, StopReaps
    PROVE  PortInv'
<1>1. TypeOK /\ FrameNumbered /\ Aggregate({}) = {}
  BY DEF PortInv, Aggregate
<1>2. TypeOK' /\ FrameNumbered'
  BY <1>1 DEF StopReaps, SetClients, Reaped, TypeOK, FrameNumbered, Places, hqFallback, publishers
<1>3. MaskIsAggregate' /\ MasksValid' /\ Arbitrated'
  BY <1>2, LeasesStep DEF StopReaps, SetClients
<1>4. ReleasedInTell' /\ LeaseHasThread' /\ OrphanIsTold'
  BY <1>1 DEF PortInv, ReleasedInTell, LeaseHasThread, OrphanIsTold, StopReaps, SetClients, Reaped,
     TypeOK, hqFallback
<1> QED
  BY <1>2, <1>3, <1>4 DEF PortInv

\* The session of a client that is refused is not in m_clients; one that is
\* accepted shares no engine with another kind of stream.
LEMMA TryAddClientStep ==
    ASSUME PortInv, NEW c \in Conns, TryAddClient(c)
    PROVE  PortInv'
<1>1. TypeOK /\ FrameNumbered /\ LeaseHasThread /\ pc[c] = "add" /\ c \notin m_clients
  BY DEF PortInv, TryAddClient, LeaseHasThread
<1>2. CASE Refuse(c) /\ UNCHANGED <<leases, superseded>>
  <2>1. TypeOK' /\ FrameNumbered'
    BY <1>1, <1>2 DEF TryAddClient, Refuse, Goto, TypeOK, FrameNumbered, Places, leases, control,
       hqFallback, publishers
  <2>2. \A x \in Conns : mask'[x] = mask[x] \/ (x = c /\ mask'[x] = {})
    BY <1>1, <1>2 DEF Refuse, TypeOK
  <2>3. m_clients' = m_clients /\ streamMask' = Aggregate(m_clients') /\ m_clients \subseteq Conns
    BY <1>1, <1>2 DEF leases, PortInv, MaskIsAggregate, TypeOK
  <2>4. MaskIsAggregate' /\ MasksValid' /\ Arbitrated'
    BY <1>1, <2>1, <2>2, <2>3, LeasesStep
  <2>5. ReleasedInTell' /\ LeaseHasThread' /\ OrphanIsTold'
    BY <1>1, <1>2 DEF PortInv, ReleasedInTell, LeaseHasThread, OrphanIsTold, TryAddClient, Refuse,
       Goto, TypeOK, leases, control, hqFallback
  <2> QED
    BY <2>1, <2>4, <2>5 DEF PortInv
<1>3. CASE /\ ~Busy(c) /\ superseded' = [superseded EXCEPT ![c] = SameProcess(c)]
           /\ SetClients((m_clients \ SameProcess(c)) \cup {c})
           /\ Goto(c, "supersede") /\ UNCHANGED <<pid, mask>>
  <2> DEFINE others == Aggregate(m_clients \ SameProcess(c))
  <2>1. SameProcess(c) \subseteq m_clients /\ m_clients \subseteq Conns
    BY <1>1 DEF SameProcess, TypeOK
  <2>2. TypeOK' /\ FrameNumbered'
    <3>1. m_clients' \subseteq Conns /\ streamMask' \subseteq Streams
      BY <1>1, <1>3, <2>1, AggregateStreams DEF SetClients
    <3> QED
      BY <1>1, <1>3, <2>1, <3>1 DEF TryAddClient, Goto, TypeOK, FrameNumbered, Places, control,
         hqFallback, publishers
  <2>3. streamMask' = others \cup mask[c]
    BY <1>3 DEF SetClients, Aggregate
  <2>4. Arbitrated'
    <3>1. others \subseteq streamMask
      BY AggregateMonotone DEF PortInv, MaskIsAggregate
    <3>2. "ir" \in others => others \cap Colour = {}
      BY <3>1 DEF PortInv, Arbitrated
    <3>3. "ir" \in mask[c] => mask[c] \cap Colour = {}
      BY DEF PortInv, MasksValid
    <3>4. ~(mask[c] \cap Colour # {} /\ "ir" \in others) /\ ~("ir" \in mask[c] /\ others \cap
    Colour # {})
      BY <1>3 DEF Busy
    <3> HIDE DEF others
    <3> QED
      BY <2>3, <3>2, <3>3, <3>4 DEF Arbitrated
  <2>5. MaskIsAggregate' /\ MasksValid'
    BY <1>3 DEF SetClients, MaskIsAggregate, Aggregate, PortInv, MasksValid
  <2>6. /\ \A x \in Conns : pc'[x] = IF x = c THEN "supersede" ELSE pc[x]
        /\ \A x \in Conns : superseded'[x] = IF x = c THEN SameProcess(c) ELSE superseded[x]
    BY <1>1, <1>3 DEF Goto, TypeOK
  <2>7. ReleasedInTell' /\ LeaseHasThread'
    BY <1>1, <1>3, <2>1, <2>6 DEF PortInv, ReleasedInTell, LeaseHasThread, SetClients, TryAddClient,
       hqFallback
  <2>8. OrphanIsTold'
    BY <1>1, <1>3, <2>1, <2>6 DEF PortInv, OrphanIsTold, SetClients, TryAddClient, control,
        hqFallback
  <2> QED
    BY <2>2, <2>4, <2>5, <2>7, <2>8 DEF PortInv
<1> QED
  BY <1>2, <1>3 DEF TryAddClient

LEMMA InitPortInv == Init => PortInv
<1> SUFFICES ASSUME Init
             PROVE  PortInv
  OBVIOUS
<1>1. TypeOK
  <2>1. queue \in [Conns -> Seq(Frame)]
          /\ \A c \in Conns : Len(queue[c]) <= kMaxQueuedFramesPerClient
    <3>1. <<>> \in Seq(Frame) /\ Len(<<>>) <= kMaxQueuedFramesPerClient
      BY PortAssumption
    <3> QED
      BY <3>1 DEF Init
  <2>2. /\ published \in 0..MaxFrames /\ frame \in [Workers -> 0..MaxFrames]
        /\ targets \in [Workers -> SUBSET Conns]
    BY PortAssumption DEF Init
  <2>3. /\ mask \in [Conns -> SUBSET Streams] /\ superseded \in [Conns -> SUBSET Conns]
        /\ pid \in [Conns -> Pids \cup {NoPid}] /\ pc \in [Conns -> Places]
    BY DEF Init, Places
  <2> QED
    BY <2>1, <2>2, <2>3 DEF Init, TypeOK
<1>2. MaskIsAggregate
  BY DEF Init, MaskIsAggregate, Aggregate
<1> QED
  BY <1>1, <1>2 DEF Init, PortInv, FrameNumbered, MasksValid, Arbitrated, ReleasedInTell,
     OrphanIsTold, LeaseHasThread

LEMMA StepPortInv == PortInv /\ [Next]_vars => PortInv'
<1> SUFFICES ASSUME PortInv, [Next]_vars
             PROVE  PortInv'
  OBVIOUS
<1>1. CASE UNCHANGED vars
  <2>1. TypeOK' /\ FrameNumbered' /\ ReleasedInTell'
    BY <1>1 DEF PortInv, TypeOK, FrameNumbered, ReleasedInTell, vars, leases, control, session,
       hqFallback, publishers
  <2> QED
    BY <1>1, <2>1, QuietStep DEF vars, control, session, hqFallback, PortInv
<1>2. ASSUME NEW c \in Conns, Serve(c)
      PROVE  PortInv'
  BY <1>2, RequestStep, TryAddClientStep, SupersedeStep, ReplyStep, SendFrameStep, EndStreamStep,
     LeaveStep, RemoveClientStep DEF Serve
<1> QED
  BY <1>1, <1>2, AcceptStep, LoopEndsStep, SpawnStep, HqFailStep, EraseHqStep, TellHqStep,
     PublishStep, PushStep, StopRequestStep, StopTellsStep, StopJoinsStep, StopReapsStep DEF Next

\* The invariant of the scanner port: the mask is what its clients want, every lease has a
\* thread, and who lost its lease has been or is about to be told (ScannerPortServer).
THEOREM PortInvariance == Spec => []PortInv
BY InitPortInv, StepPortInv, PTL DEF Spec

\* Every variable of the scanner port keeps its type; in particular no client's
\* queue is longer than kMaxQueuedFramesPerClient (Publish).
THEOREM PortTypeCorrect == Spec => []TypeOK
<1>1. PortInv => TypeOK
  BY DEF PortInv
<1> QED
  BY <1>1, PortInvariance, PTL

\* No client waits for frames that nobody sends it, and no lease outlives the
\* thread that gives it back, for any number of connections and processes
\* (TryAddClient, MarkRgbHqUnavailable and RemoveClient,
\* Kinect360RemoldCameraBridge.cpp).
THEOREM LeasesFollowThreads == Spec => []LeasesAndThreads
<1>1. PortInv => LeasesAndThreads
  BY DEF PortInv, LeasesAndThreads
<1> QED
  BY <1>1, PortInvariance, PTL

\* IR and colour are never leased together, whatever sessions supersede each
\* other, end and are released meanwhile (TryAddClient).
THEOREM LeasesArbitrated == Spec => []Arbitrated
<1>1. PortInv => Arbitrated
  BY DEF PortInv
<1> QED
  BY <1>1, PortInvariance, PTL

-----------------------------------------------------------------------------
(* The video engine: what the sensor and its reads are at each place of    *)
(* StreamVideo, in a session that found the engine stopped.                *)

\* Modes the thread configures are modes.
EngineTyped ==
    /\ eInherited \in BOOLEAN /\ eVideoRunning \in BOOLEAN /\ eReads \in BOOLEAN
    /\ eVpc \in E!VideoPlaces

\* Without reads nothing is filled, whoever runs the session.
NothingUnread == ~eReads => eFills = {}
NoReads == eVpc \in {"finish", "join", "dark", "halt", "close", "closed", "open"} => ~eReads

\* The engine is stopped from StopEngine to StartEngine.
Stopped ==
    /\ eVpc \in {"cancel", "light", "configure", "queue", "start"} => eStreaming = "off"
    /\ eVpc = "loop" /\ ~eVideoRunning => eStreaming = "off"

\* Its reads are empty from CancelReads to StartEngine.
Emptied ==
    /\ eVpc \in {"light", "configure", "queue", "start"} => eFills = {}
    /\ eVpc = "loop" /\ ~eVideoRunning => ~eReads
    /\ eVpc \in {"light", "configure", "queue"} => ~eReads

\* The registers hold the mode it is started in, and the engine runs in it.
InMode ==
    /\ eVpc \in {"queue", "start"} => eModeRegs = eNext
    /\ eVpc = "loop" /\ eVideoRunning => eStreaming = eActiveMode

OwnEngine == ~eInherited => Stopped /\ Emptied /\ InMode /\ FramesOfOneMode

EngineInv == EngineTyped /\ NothingUnread /\ NoReads /\ OwnEngine

LEMMA InitEngineInv == E!Init => EngineInv
BY DEF E!Init, EngineInv, EngineTyped, NothingUnread, NoReads, OwnEngine, Stopped, Emptied, InMode,
   FramesOfOneMode, E!FramesOfOneMode, E!VideoPlaces

\* The depth thread, the clients and the service touch neither the video engine
\* nor its reads.
LEMMA DepthLeavesVideo ==
    ASSUME E!DepthThread \/ E!Change \/ E!Stop \/ UNCHANGED E!vars
    PROVE  UNCHANGED <<eStreaming, eModeRegs, eFills, eInherited, eVpc, eActiveMode, eNext,
                       eVideoRunning, eReads>>
<1>1. CASE E!DepthThread
  BY <1>1 DEF E!DepthThread, E!DepthLooks, E!DepthLights, E!DepthLeaves, E!DepthConfigures,
     E!DepthQueues, E!DepthEmits, E!DepthFollows, E!DepthEnds, E!DepthRemembers, E!DepthFinishes,
     E!DepthCancels, E!DepthRestores, E!OnlyProjector, E!demand, E!sensor, E!transport, E!video
<1>2. CASE E!Change \/ E!Stop \/ UNCHANGED E!vars
  BY <1>2 DEF E!Change, E!Stop, E!vars, E!sensor, E!transport, E!video
<1> QED
  BY <1>1, <1>2

LEMMA OpenEngine == EngineInv /\ E!Open => EngineInv'
BY DEF EngineInv, E!Open, E!Goto, E!demand, E!sensor, E!transport, E!video, EngineTyped,
    NothingUnread, NoReads, OwnEngine, Stopped, Emptied, InMode, FramesOfOneMode,
    E!FramesOfOneMode, E!VideoPlaces

LEMMA StartSessionEngine == EngineInv /\ E!StartSession => EngineInv'
BY DEF EngineInv, E!StartSession, E!Goto, E!demand, E!sensor, E!transport, E!video, EngineTyped,
    NothingUnread, NoReads, OwnEngine, Stopped, Emptied, InMode, FramesOfOneMode,
    E!FramesOfOneMode, E!VideoPlaces

LEMMA TellDepthEngine == EngineInv /\ E!TellDepth => EngineInv'
BY DEF EngineInv, E!TellDepth, E!Goto, E!demand, E!sensor, E!transport, E!video, EngineTyped,
    NothingUnread, NoReads, OwnEngine, Stopped, Emptied, InMode, FramesOfOneMode,
    E!FramesOfOneMode, E!VideoPlaces

LEMMA JoinEngine == EngineInv /\ E!Join => EngineInv'
BY DEF EngineInv, E!Join, E!Goto, E!demand, E!sensor, E!transport, E!video, EngineTyped,
    NothingUnread, NoReads, OwnEngine, Stopped, Emptied, InMode, FramesOfOneMode,
    E!FramesOfOneMode, E!VideoPlaces

LEMMA FinalDarkEngine == EngineInv /\ E!FinalDark => EngineInv'
BY DEF EngineInv, E!FinalDark, E!Goto, E!demand, E!sensor, E!transport, E!video, EngineTyped,
    NothingUnread, NoReads, OwnEngine, Stopped, Emptied, InMode, FramesOfOneMode,
    E!FramesOfOneMode, E!VideoPlaces

LEMMA FinalHaltEngine == EngineInv /\ E!FinalHalt => EngineInv'
BY DEF EngineInv, E!FinalHalt, E!StopVideoCapture, E!Goto, E!demand, E!sensor, E!transport,
    E!video, EngineTyped, NothingUnread, NoReads, OwnEngine, Stopped, Emptied, InMode,
    FramesOfOneMode, E!FramesOfOneMode, E!VideoPlaces

LEMMA CloseEngine == EngineInv /\ E!Close => EngineInv'
BY DEF EngineInv, E!Close, E!Goto, E!demand, E!sensor, E!transport, E!video, EngineTyped,
    NothingUnread, NoReads, OwnEngine, Stopped, Emptied, InMode, FramesOfOneMode,
    E!FramesOfOneMode, E!VideoPlaces

LEMMA IdleEngine == EngineInv /\ E!Idle => EngineInv'
BY DEF EngineInv, E!Idle, E!Begin, E!Goto, E!demand, E!sensor, E!transport, E!video, EngineTyped,
    NothingUnread, NoReads, OwnEngine, Stopped, Emptied, InMode, FramesOfOneMode,
    E!FramesOfOneMode, E!VideoPlaces

LEMMA WakeEngine == EngineInv /\ E!Wake => EngineInv'
BY DEF EngineInv, E!Wake, E!Begin, E!Goto, E!demand, E!sensor, E!transport, E!video, EngineTyped,
    NothingUnread, NoReads, OwnEngine, Stopped, Emptied, InMode, FramesOfOneMode,
    E!FramesOfOneMode, E!VideoPlaces

LEMMA SwitchEngine == EngineInv /\ E!Switch => EngineInv'
BY DEF EngineInv, E!Switch, E!Begin, E!Goto, E!demand, E!sensor, E!transport, E!video, EngineTyped,
    NothingUnread, NoReads, OwnEngine, Stopped, Emptied, InMode, FramesOfOneMode,
    E!FramesOfOneMode, E!VideoPlaces

LEMMA HqFallbackEngine == EngineInv /\ E!HqFallback => EngineInv'
BY DEF EngineInv, E!HqFallback, E!Goto, E!demand, E!sensor, E!transport, E!video, EngineTyped,
    NothingUnread, NoReads, OwnEngine, Stopped, Emptied, InMode, FramesOfOneMode,
    E!FramesOfOneMode, E!VideoPlaces

LEMMA VideoFaultEngine == EngineInv /\ E!VideoFault => EngineInv'
BY DEF EngineInv, E!VideoFault, E!Goto, E!demand, E!sensor, E!transport, E!video, EngineTyped,
    NothingUnread, NoReads, OwnEngine, Stopped, Emptied, InMode, FramesOfOneMode,
    E!FramesOfOneMode, E!VideoPlaces

LEMMA VideoLeavesEngine == EngineInv /\ E!VideoLeaves => EngineInv'
BY DEF EngineInv, E!VideoLeaves, E!Goto, E!demand, E!sensor, E!transport, E!video, EngineTyped,
    NothingUnread, NoReads, OwnEngine, Stopped, Emptied, InMode, FramesOfOneMode,
    E!FramesOfOneMode, E!VideoPlaces

LEMMA StopEngineEngine == EngineInv /\ E!StopEngine => EngineInv'
BY DEF EngineInv, E!StopEngine, E!StopVideoCapture, E!Goto, E!demand, E!sensor, E!transport,
    E!video, EngineTyped, NothingUnread, NoReads, OwnEngine, Stopped, Emptied, InMode,
    FramesOfOneMode, E!FramesOfOneMode, E!VideoPlaces

LEMMA LightEngine == EngineInv /\ E!Light => EngineInv'
BY DEF EngineInv, E!Light, E!Goto, E!demand, E!sensor, E!transport, E!video, EngineTyped,
    NothingUnread, NoReads, OwnEngine, Stopped, Emptied, InMode, FramesOfOneMode,
    E!FramesOfOneMode, E!VideoPlaces

LEMMA ConfigureEngine == EngineInv /\ E!Configure => EngineInv'
BY DEF EngineInv, E!Configure, E!ConfigureVideoModeRegisters, E!Goto, E!demand, E!sensor,
    E!transport, E!video, EngineTyped, NothingUnread, NoReads, OwnEngine, Stopped, Emptied,
    InMode, FramesOfOneMode, E!FramesOfOneMode, E!VideoPlaces

LEMMA QueueReadsEngine == EngineInv /\ E!QueueReads => EngineInv'
BY DEF EngineInv, E!QueueReads, E!Goto, E!demand, E!sensor, E!transport, E!video, EngineTyped,
    NothingUnread, NoReads, OwnEngine, Stopped, Emptied, InMode, FramesOfOneMode,
    E!FramesOfOneMode, E!VideoPlaces

LEMMA EndVideoEngine == EngineInv /\ E!EndVideo => EngineInv'
BY DEF EngineInv, E!EndVideo, E!StopVideoCapture, E!Goto, E!demand, E!sensor, E!transport, E!video,
    EngineTyped, NothingUnread, NoReads, OwnEngine, Stopped, Emptied, InMode, FramesOfOneMode,
    E!FramesOfOneMode, E!VideoPlaces

LEMMA DeliverEngine == EngineInv /\ E!Deliver => EngineInv'
BY DEF EngineInv, E!Deliver, E!Goto, E!demand, E!sensor, E!transport, E!video, EngineTyped,
    NothingUnread, NoReads, OwnEngine, Stopped, Emptied, InMode, FramesOfOneMode,
    E!FramesOfOneMode, E!VideoPlaces

LEMMA FrameEngine == EngineInv /\ E!Frame => EngineInv'
BY DEF EngineInv, E!Frame, E!Goto, E!demand, E!sensor, E!transport, E!video, EngineTyped,
    NothingUnread, NoReads, OwnEngine, Stopped, Emptied, InMode, FramesOfOneMode,
    E!FramesOfOneMode, E!VideoPlaces

LEMMA CancelReadsEngine == EngineInv /\ E!CancelReads => EngineInv'
<1> SUFFICES ASSUME EngineInv, E!CancelReads
             PROVE  EngineInv'
  OBVIOUS
<1>1. /\ eVpc = "cancel" /\ UNCHANGED <<eStreaming, eModeRegs, eInherited, eActiveMode, eNext>>
      /\ \/ eReads' = FALSE /\ eFills' = {} /\ eVideoRunning' = FALSE /\ eVpc' = "loop"
         \/ eReads' = FALSE /\ eFills' = {} /\ UNCHANGED eVideoRunning /\ eVpc' = "light"
         \/ UNCHANGED <<eReads, eFills, eVideoRunning>> /\ eVpc' = "end"
  BY DEF E!CancelReads, E!Goto, E!transport
<1> QED
  BY <1>1 DEF EngineInv, EngineTyped, NothingUnread, NoReads, OwnEngine, Stopped, Emptied, InMode,
     FramesOfOneMode, E!FramesOfOneMode, E!VideoPlaces

LEMMA StartEngineEngine == EngineInv /\ E!StartEngine => EngineInv'
<1> SUFFICES ASSUME EngineInv, E!StartEngine
             PROVE  EngineInv'
  OBVIOUS
<1> USE DEF EngineInv, E!StartEngine, E!Goto, E!demand, E!transport, EngineTyped,
      NothingUnread, NoReads,
            OwnEngine, Stopped, Emptied, InMode, FramesOfOneMode, E!FramesOfOneMode, E!VideoPlaces
<1>1. CASE /\ eVpc' = "loop" /\ eActiveMode' = eNext /\ eVideoRunning' = TRUE
           /\ eStreaming' = eModeRegs
  BY <1>1
<1>2. CASE eVpc' = "end" /\ UNCHANGED <<eActiveMode, eVideoRunning>>
  BY <1>2
<1> QED
  BY <1>1, <1>2 DEF E!StartVideoCapture

LEMMA StepEngineInv == EngineInv /\ [E!Next]_E!vars => EngineInv'
<1> SUFFICES ASSUME EngineInv, [E!Next]_E!vars
             PROVE  EngineInv'
  OBVIOUS
<1>1. CASE E!DepthThread \/ E!Change \/ E!Stop \/ UNCHANGED E!vars
  BY <1>1, DepthLeavesVideo DEF EngineInv, EngineTyped, NothingUnread, NoReads, OwnEngine, Stopped,
     Emptied, InMode, FramesOfOneMode, E!FramesOfOneMode
<1>2. CASE E!VideoThread
  BY <1>2, OpenEngine, StartSessionEngine, TellDepthEngine, JoinEngine, FinalDarkEngine,
      FinalHaltEngine, CloseEngine, IdleEngine, WakeEngine, SwitchEngine, HqFallbackEngine,
      VideoFaultEngine, VideoLeavesEngine, StopEngineEngine, CancelReadsEngine, LightEngine,
      ConfigureEngine, QueueReadsEngine, StartEngineEngine, EndVideoEngine DEF E!VideoThread
<1> QED
  BY <1>1, <1>2, DeliverEngine, FrameEngine DEF E!Next

\* The invariant of the video engine: in a session that found it stopped, what the sensor
\* sends and the reads hold is known from where StreamVideo is.
THEOREM EngineInvariance == E!Spec => []EngineInv
BY InitEngineInv, StepEngineInv, PTL DEF E!Spec

\* A frame is assembled from data of the mode that runs, whatever commands and
\* transfers fail, also late, and however the demand changes meanwhile; but for
\* a session that begins with an engine an earlier one could not stop
\* (StreamVideo, Kinect360RemoldCameraBridge.cpp).
THEOREM EngineFramesOfOneMode == E!Spec => []FramesOfOneMode
<1>1. EngineInv => FramesOfOneMode
  BY DEF EngineInv, EngineTyped, OwnEngine, FramesOfOneMode, E!FramesOfOneMode
<1> QED
  BY <1>1, EngineInvariance, PTL

\* The registers of the mode are written only while the engine is stopped, with
\* the same exception (StreamVideo, ConfigureVideoModeRegisters).
THEOREM EngineModeSetWhileStopped == E!Spec => ModeSetWhileStopped
<1>1. EngineInv /\ [E!Next]_E!vars =>
        [eModeRegs' # eModeRegs => eStreaming = "off" \/ eInherited]_E!vars
  <2> SUFFICES ASSUME EngineInv, E!Next, eModeRegs' # eModeRegs
               PROVE  eStreaming = "off" \/ eInherited
    OBVIOUS
  <2>1. ~(E!DepthThread \/ E!Change \/ E!Stop)
    BY DepthLeavesVideo
  <2>2. E!Configure
    BY <2>1 DEF E!Next, E!VideoThread, E!Open, E!StartSession, E!TellDepth, E!Join, E!FinalDark,
        E!FinalHalt, E!Close, E!Idle, E!Wake, E!Switch, E!HqFallback, E!VideoFault, E!VideoLeaves,
            E!StopEngine, E!CancelReads, E!Light, E!QueueReads, E!StartEngine, E!EndVideo,
                E!Deliver, E!Frame, E!StopVideoCapture, E!StartVideoCapture, E!sensor
  <2> QED
    BY <2>2 DEF EngineInv, EngineTyped, OwnEngine, Stopped, E!Configure
<1> QED
  BY <1>1, EngineInvariance, PTL DEF E!Spec, ModeSetWhileStopped, E!ModeSetWhileStopped

-----------------------------------------------------------------------------
(* The conversion worker.                                                  *)

\* The slot the worker would take.
Pending == IF wPendingA THEN wRawA ELSE wRawB

\* A slot that is pending holds the newest frame handed over, and the worker has
\* not had that one yet.
WorkerInv ==
    /\ wCaptured \in Nat /\ wSubmitted \in Nat /\ wWork \in Nat
    /\ wSubmitted <= wCaptured /\ wWork <= wSubmitted
    /\ wHasPending => wSubmitted = Pending /\ wWork < wSubmitted

LEMMA InitWorkerInv == W!Init => WorkerInv
<1> SUFFICES ASSUME W!Init
             PROVE  WorkerInv
  OBVIOUS
<1>1. ~wHasPending
  BY DEF W!Init
<1>2. wCaptured = 0 /\ wSubmitted = 0 /\ wWork = 0
  BY DEF W!Init
<1> QED
  BY <1>1, <1>2 DEF WorkerInv

LEMMA StepWorkerInv == WorkerInv /\ [W!Next]_W!vars => WorkerInv'
<1> SUFFICES ASSUME WorkerInv, [W!Next]_W!vars
             PROVE  WorkerInv'
  OBVIOUS
<1>1. CASE UNCHANGED <<wSubmitted, wWork, wRawA, wRawB, wPendingA, wHasPending>>
             /\ (UNCHANGED wCaptured \/ wCaptured' = wCaptured + 1)
  <2>1. Pending' = Pending
    BY <1>1 DEF Pending
  <2> QED
    BY <1>1, <2>1 DEF WorkerInv
<1>2. CASE W!Submit
  <2>1. Pending' = wCaptured
    <3>1. CASE wWriteA
      BY <1>2, <3>1 DEF W!Submit, Pending
    <3>2. CASE ~wWriteA
      BY <1>2, <3>2 DEF W!Submit, Pending
    <3> QED
      BY <3>1, <3>2
  <2>2. wSubmitted < wCaptured /\ wSubmitted' = wCaptured /\ UNCHANGED <<wCaptured, wWork>>
    BY <1>2 DEF W!Submit
  <2> QED
    BY <2>1, <2>2 DEF WorkerInv
<1>3. CASE W!Take
  <2>1. ~wHasPending' /\ wHasPending /\ wWork' = Pending /\ UNCHANGED <<wCaptured, wSubmitted>>
    BY <1>3 DEF W!Take, Pending
  <2> QED
    BY <2>1 DEF WorkerInv
<1> QED
  BY <1>1, <1>2, <1>3 DEF W!Next, W!Capture, W!Stop, W!Reader, W!Worker, W!Sleep, W!Wake,
      W!PublishScanner, W!PublishCamera, W!PublishVga, W!To, W!End, W!vars, W!slots

\* The invariant of a conversion worker: a slot that is pending holds the newest frame
\* handed over, which the worker has not had (the double buffer m_rawA, m_rawB).
THEOREM WorkerInvariance == W!Spec => []WorkerInv
BY InitWorkerInv, StepWorkerInv, PTL DEF W!Spec

\* However many frames the USB thread hands over while the worker converts one,
\* the next it takes is the newest, and no frame is taken twice
\* (FrameConversionWorker::Submit and Run).
THEOREM WorkerTakesNewest == W!Spec => TakesNewest
<1>1. WorkerInv /\ [W!Next]_W!vars =>
        [wWork' # wWork \/ (wPc = "look" /\ wPc' = "scanner")
           => wWork' = wSubmitted /\ wWork' > wWork]_W!vars
  <2> SUFFICES ASSUME WorkerInv, W!Next, wWork' # wWork \/ (wPc = "look" /\ wPc' = "scanner")
               PROVE  wWork' = wSubmitted /\ wWork' > wWork
    OBVIOUS
  <2>1. W!Take
    BY DEF W!Next, W!Capture, W!Submit, W!Stop, W!Reader, W!Worker, W!Sleep, W!Wake,
        W!PublishScanner,
       W!PublishCamera, W!PublishVga, W!To, W!End
  <2> QED
    BY <2>1 DEF W!Take, WorkerInv, Pending
<1> QED
  BY <1>1, WorkerInvariance, PTL DEF W!Spec, TakesNewest, W!TakesNewest

-----------------------------------------------------------------------------
(* The loop of the nodes and the virtual cameras.                          *)

\* The ages that the removal of a camera rests on, and the snapshot.
NodesTyped ==
    /\ nMissing \in [Ids -> N!Ages] /\ nAbsent \in [Ids -> N!Ages]
    /\ nDesired \in [Ids -> Paths \cup {None}] /\ nBus \in [Ids -> Paths \cup {None}]

\* A camera is missing for no longer than the scans have missed its sensor.
MissingIsAbsent ==
    \A i \in Ids : nMissing[i] # None => nAbsent[i] # None /\ nMissing[i] <= nAbsent[i]

\* During a pass, what the snapshot has no sensor for was missed by the scan.
AbsentInPass ==
    nPc \in {"nodes", "find", "install", "remove"} =>
      \A i \in Ids : nDesired[i] = None => nAbsent[i] # None

\* The cameras a pass is about to remove are overdue.
OverdueInTodo == nPc = "remove" => \A i \in nTodo \cap Ids : nAbsent[i] = Grace

NodesInv == NodesTyped /\ MissingIsAbsent /\ AbsentInPass /\ OverdueInTodo

LEMMA GraceIsAge ==
    /\ Grace \in Nat /\ Grace # 0 /\ None \notin Nat /\ None \notin Paths
    /\ 0 \in N!Ages /\ Grace \in N!Ages /\ None \in N!Ages
    /\ \A a \in N!Ages : a # None => a \in Nat /\ a <= Grace
BY PartsAssumption DEF N!NodesConstants, N!Ages

LEMMA OlderAges ==
    ASSUME NEW a \in N!Ages, NEW b \in N!Ages, NEW d \in 1..Grace
    PROVE  /\ N!Older(a, d) \in N!Ages
           /\ N!Older(a, d) = None <=> a = None
           /\ a # None /\ b # None /\ a <= b => N!Older(a, d) <= N!Older(b, d)
<1>1. Grace \in Nat /\ None \notin Nat /\ d \in Nat
  BY GraceIsAge
<1>2. ASSUME NEW x \in N!Ages, x # None
      PROVE  /\ x \in 0..Grace
             /\ N!Older(x, d) = (IF x + d < Grace THEN x + d ELSE Grace)
             /\ N!Older(x, d) \in 0..Grace
  <2>1. x \in 0..Grace
    BY <1>2 DEF N!Ages
  <2>2. N!Older(x, d) = (IF x + d < Grace THEN x + d ELSE Grace)
    BY <1>2 DEF N!Older
  <2> QED
    BY <1>1, <2>1, <2>2
<1>3. N!Older(None, d) = None
  BY DEF N!Older
<1>4. N!Older(a, d) \in N!Ages /\ (N!Older(a, d) = None <=> a = None)
  <2>1. CASE a = None
    BY <1>3, <2>1 DEF N!Ages
  <2>2. CASE a # None
    BY <1>1, <1>2, <2>2 DEF N!Ages
  <2> QED
    BY <2>1, <2>2
<1>5. ASSUME a # None, b # None, a <= b
      PROVE  N!Older(a, d) <= N!Older(b, d)
  BY <1>1, <1>2, <1>5
<1> QED
  BY <1>4, <1>5

LEMMA InitNodesInv == N!Init => NodesInv
<1> SUFFICES ASSUME N!Init
             PROVE  NodesInv
  OBVIOUS
<1>1. \A i \in Ids : nMissing[i] = None
  BY DEF N!Init, N!Nothing
<1> QED
  BY <1>1, GraceIsAge DEF N!Init, N!Nothing, NodesInv, NodesTyped, MissingIsAbsent, AbsentInPass,
     OverdueInTodo

\* A scan ages what it misses and forgets what it sees.
LEMMA ScanNodes ==
    ASSUME NodesInv, N!Scan
    PROVE  NodesInv'
<1>1. PICK d \in 1..Grace :
        /\ nMissing' = [i \in Ids |-> IF nBus[i] # None THEN None ELSE N!Older(nMissing[i], d)]
        /\ nAbsent' = [i \in Ids |-> IF nBus[i] # None THEN None
                                     ELSE IF nAbsent[i] = None THEN 0 ELSE N!Older(nAbsent[i], d)]
  BY DEF N!Scan
<1>2. NodesTyped /\ nDesired' = nBus /\ nBus' = nBus /\ nPc' = "nodes"
  BY DEF NodesInv, N!Scan, N!world
<1>3. ASSUME NEW i \in Ids
      PROVE  /\ nMissing'[i] \in N!Ages /\ nAbsent'[i] \in N!Ages
             /\ nMissing'[i] # None => nAbsent'[i] # None /\ nMissing'[i] <= nAbsent'[i]
             /\ nDesired'[i] = None => nAbsent'[i] # None
  <2>1. nMissing[i] \in N!Ages /\ nAbsent[i] \in N!Ages
          /\ (nMissing[i] # None => nAbsent[i] # None /\ nMissing[i] <= nAbsent[i])
    BY <1>2 DEF NodesTyped, NodesInv, MissingIsAbsent
  <2>2. /\ nMissing'[i] = IF nBus[i] # None THEN None ELSE N!Older(nMissing[i], d)
        /\ nAbsent'[i] = IF nBus[i] # None THEN None
                         ELSE IF nAbsent[i] = None THEN 0 ELSE N!Older(nAbsent[i], d)
    BY <1>1
  <2>3. 0 # None
    BY GraceIsAge
  <2> DEFINE m == nMissing[i]
             a == nAbsent[i]
  <2>4. /\ N!Older(m, d) \in N!Ages /\ N!Older(a, d) \in N!Ages
        /\ N!Older(m, d) = None <=> m = None
        /\ N!Older(a, d) = None <=> a = None
        /\ m # None /\ a # None /\ m <= a => N!Older(m, d) <= N!Older(a, d)
    BY <2>1, OlderAges
  <2>5. CASE nBus[i] # None
    BY <1>2, <2>2, <2>5, GraceIsAge
  <2>6. CASE nBus[i] = None /\ a = None
    BY <2>1, <2>2, <2>3, <2>4, <2>6, GraceIsAge
  <2>7. CASE nBus[i] = None /\ a # None
    BY <2>1, <2>2, <2>4, <2>7
  <2> QED
    BY <2>5, <2>6, <2>7
<1>4. NodesTyped'
  BY <1>1, <1>2, <1>3 DEF NodesTyped
<1> QED
  BY <1>2, <1>3, <1>4 DEF NodesInv, MissingIsAbsent, AbsentInPass, OverdueInTodo

\* A camera is found to be missing when the scan has missed its sensor; it is
\* to be removed when it has been missing for the grace.
LEMMA FindAbsentNodes ==
    ASSUME NodesInv, N!FindAbsent
    PROVE  NodesInv'
<1>1. /\ NodesTyped /\ UNCHANGED <<nAbsent, nDesired, nBus>> /\ nPc = "install" /\ nPc' = "remove"
      /\ nTodo' = {i \in nVirtual \ N!Present : N!Overdue(i)}
      /\ nMissing' = [i \in Ids |-> IF i \in nVirtual \ N!Present /\ nMissing[i] = None THEN 0
                                    ELSE nMissing[i]]
  BY DEF NodesInv, N!FindAbsent, N!world
<1>2. ASSUME NEW i \in Ids
      PROVE  /\ nMissing'[i] \in N!Ages
             /\ nMissing'[i] # None => nAbsent[i] # None /\ nMissing'[i] <= nAbsent[i]
             /\ nDesired[i] = None => nAbsent[i] # None
             /\ i \in nTodo' => nAbsent[i] = Grace
  <2>1. /\ nMissing[i] \in N!Ages /\ nAbsent[i] \in N!Ages
        /\ nMissing[i] # None => nAbsent[i] # None /\ nMissing[i] <= nAbsent[i]
        /\ nDesired[i] = None => nAbsent[i] # None
    BY <1>1 DEF NodesTyped, NodesInv, MissingIsAbsent, AbsentInPass
  <2>2. nMissing'[i] = IF i \in nVirtual /\ nDesired[i] = None /\ nMissing[i] = None THEN 0
                       ELSE nMissing[i]
    BY <1>1 DEF N!Present
  <2>3. i \in nTodo' => nMissing[i] = Grace
    BY <1>1 DEF N!Overdue
  <2>4. nAbsent[i] # None => 0 <= nAbsent[i] /\ nAbsent[i] <= Grace /\ nAbsent[i] \in Nat
    <3> SUFFICES ASSUME nAbsent[i] # None
                 PROVE  0 <= nAbsent[i] /\ nAbsent[i] <= Grace /\ nAbsent[i] \in Nat
      OBVIOUS
    <3>1. nAbsent[i] \in Nat /\ nAbsent[i] <= Grace
      BY <2>1, GraceIsAge
    <3> QED
      BY <3>1
  <2>5. i \in nTodo' => nAbsent[i] = Grace
    BY <2>1, <2>3, <2>4, GraceIsAge
  <2> QED
    BY <2>1, <2>2, <2>4, <2>5, GraceIsAge
<1>3. NodesTyped'
  BY <1>1, <1>2 DEF NodesTyped
<1> QED
  BY <1>1, <1>2, <1>3 DEF NodesInv, MissingIsAbsent, AbsentInPass, OverdueInTodo

LEMMA StepNodesInv == NodesInv /\ [N!Next]_N!vars => NodesInv'
<1> SUFFICES ASSUME NodesInv, [N!Next]_N!vars
             PROVE  NodesInv'
  OBVIOUS
<1> USE DEF NodesInv, NodesTyped, MissingIsAbsent, AbsentInPass, OverdueInTodo
<1>1. CASE UNCHANGED <<nMissing, nAbsent, nDesired, nBus>>
           /\ \/ nPc' = nPc /\ nTodo' \subseteq nTodo
              \/ nPc' \in {"scan", "publish", "find"} /\ nPc = "nodes"
              \/ nPc' = "install" /\ nPc = "find"
              \/ nPc' \in {"scan", "publish"}
  BY <1>1
<1>2. CASE N!Crash \/ N!End
  BY <1>2, InitNodesInv, GraceIsAge DEF N!Crash, N!End, N!Fresh, N!Nothing, N!world
<1>3. ASSUME NEW i \in Ids, N!Replug(i)
      PROVE  NodesInv'
  BY <1>3 DEF N!Replug, N!local
<1>4. ASSUME NEW i \in Ids, N!Remove(i)
      PROVE  NodesInv'
  BY <1>4, GraceIsAge DEF N!Remove
<1>5. CASE N!Forget
  BY <1>5, GraceIsAge DEF N!Forget, N!world
<1> QED
  BY <1>1, <1>2, <1>3, <1>4, <1>5, ScanNodes, FindAbsentNodes DEF N!Next, N!Start, N!Stop, N!Loop,
      N!Reconcile, N!Find, N!Publish, N!Install, N!NodeOpens, N!NodeEnds, N!NodeFails, N!vars,
      N!local, N!world

\* The invariant of the loop: no camera has been missing longer than the scans have missed
\* its sensor, and what a pass is about to remove is overdue (RunBridgeLoop).
THEOREM NodesInvariance == N!Spec => []NodesInv
BY InitNodesInv, StepNodesInv, PTL DEF N!Spec

\* A virtual camera goes only after scans of this process have missed its sensor
\* over a whole grace, for any number of sensors, stops and crashes
\* (RunBridgeLoop).
THEOREM CamerasKeepGrace == N!Spec => GraceIsKept
<1>1. NodesInv /\ [N!Next]_N!vars => [\A i \in nCameras \ nCameras' : nAbsent[i] = Grace]_N!vars
  <2> SUFFICES ASSUME NodesInv, N!Next, NEW c \in nCameras, c \notin nCameras'
               PROVE  nAbsent[c] = Grace
    OBVIOUS
  <2>1. PICK i \in Ids : N!Remove(i) /\ c = i
    BY DEF N!Next, N!Start, N!Stop, N!Crash, N!Loop, N!Scan, N!Reconcile, N!Find, N!Install,
        N!FindAbsent, N!Remove, N!Forget, N!Publish, N!End, N!Replug, N!NodeOpens, N!NodeEnds,
            N!NodeFails, N!world
  <2> QED
    BY <2>1 DEF N!Remove, NodesInv, OverdueInTodo
<1> QED
  BY <1>1, NodesInvariance, PTL DEF N!Spec, GraceIsKept, N!GraceIsKept
=============================================================================
