----------------------------- MODULE AudioNodes -----------------------------
(***************************************************************************)
(* The audio nodes of the Linux AudioBridge: audio_coordinator_loop, which *)
(* makes one AudioNode per sensor and binds it to an ALSA capture device;  *)
(* the capture thread of each node; the fan-out of its frames to clients   *)
(* and to a substream of the system's loopback card.                       *)
(*                                                                         *)
(* A sound card is known by its number, and ALSA gives the lowest free     *)
(* number to a function that appears.  A capture device and a playback     *)
(* substream can be open once.  A read from a card that left fails.        *)
(***************************************************************************)
EXTENDS Integers, Sequences, FiniteSets

CONSTANTS
    Sensors,
    Order,              \* the sensors in the order of their names
    Hash,               \* sensor -> where assign_system_audio_slots starts to look
    kSystemAudioSlots,
    Cards,              \* card numbers of the sound system
    Clients,
    kMaxAudioSubscribers,
    Grace,              \* passes of the coordinator in kReconnectGraceSeconds
    MaxFrames,          \* bound: frames a capture thread publishes
    MaxEvents           \* bound: changes on the bus and failed calls

None == "none"
NoCard == -1
NoNode == [pcm |-> NoCard, slot |-> -1, age |-> 0]
Slots == 0..(kSystemAudioSlots - 1)

ASSUME NodesAssumption ==
    /\ IsFiniteSet(Sensors) /\ Sensors # {}
    /\ Cards \subseteq Nat /\ Grace \in Nat \ {0} /\ MaxFrames \in Nat /\ MaxEvents \in Nat
    /\ kSystemAudioSlots \in Nat \ {0} /\ kMaxAudioSubscribers \in Nat
    /\ Hash \in [Sensors -> Slots]
    /\ Order \in [1..Cardinality(Sensors) -> Sensors]
    /\ \A i, j \in DOMAIN Order : i # j => Order[i] # Order[j]
    /\ {None, "accept", "ended"} \cap (Sensors \cup Clients) = {}

VARIABLES
    run,
    present,    \* sensors on the bus
    camera,     \* those whose camera function is there
    card,       \* card number -> the sensor whose microphones it is
    events,
    pc,         \* coordinator: what it does next
    sensors,    \* coordinator: the sensors of this pass ...
    todo,       \* ... those it has not come to yet ...
    bound,      \* ... and the card it found for each
    node,       \* nodes of the coordinator: NoNode, or pcm, slot and age
    stopping,   \* the node whose stop() runs
    capture,    \* capture thread of each node
    frame,      \* frames it has published
    active,     \* active_capture_sessions
    substream,  \* the node that has opened a playback substream, or None
    publishers, \* system_audio_publishers
    acceptor,   \* accept thread of each node: None, "accept", "ended" or its client
    clients,    \* clients_ of each fan-out
    client      \* what each client has seen

bus == <<present, camera, card, events>>
pass == <<pc, sensors, todo, bound>>
threads == <<capture, frame, active>>
system == <<substream, publishers>>
fanout == <<acceptor, clients, client>>
vars == <<run, bus, pass, node, stopping, threads, system, fanout>>

NoCapture == [at |-> "none", name |-> NoCard, from |-> None]
Outside == [at |-> "out", of |-> None, last |-> 0, joined |-> FALSE]

TypeOK ==
    /\ run \in BOOLEAN
    /\ camera \subseteq present /\ present \subseteq Sensors
    /\ card \in [Cards -> present \cup {None}]
    /\ events \in 0..MaxEvents
    /\ pc \in {"look", "visit", "expire", "join", "fanout", "done"}
    /\ sensors \subseteq Sensors /\ todo \subseteq sensors
    /\ bound \in [Sensors -> Cards \cup {NoCard}]
    /\ node \in [Sensors -> {NoNode} \cup [pcm : Cards \cup {NoCard}, slot : Slots, age : 0..Grace]]
    /\ stopping \in Sensors \cup {None}
    /\ capture \in [Sensors -> [at : {"none", "name", "open", "check", "test", "read"},
                                name : Cards \cup {NoCard}, from : Sensors \cup {None}]]
    /\ frame \in [Sensors -> 0..MaxFrames]
    /\ active \in 0..Cardinality(Sensors)
    /\ substream \in [Slots -> Sensors \cup {None}]
    /\ publishers \in 0..kSystemAudioSlots
    /\ acceptor \in [Sensors -> {None, "accept", "ended"} \cup Clients]
    /\ clients \in [Sensors -> SUBSET Clients]
    /\ \A s \in Sensors : Cardinality(clients[s]) <= kMaxAudioSubscribers
    /\ client \in [Clients -> [at : {"out", "backlog", "handled", "in", "cut"},
                               of : Sensors \cup {None}, last : 0..MaxFrames, joined : BOOLEAN]]

Init ==
    /\ run = TRUE
    /\ events = 0
    /\ present \in {{}, {Order[1]}} \* the service may start with one plugged in
    /\ card \in {[c \in Cards |-> IF \A d \in Cards : c <= d THEN s ELSE None]
                  : s \in IF present = {} THEN {None} ELSE present}
    /\ camera = present
    /\ pc = "look" /\ sensors = {} /\ todo = {} /\ bound = [s \in Sensors |-> NoCard]
    /\ node = [s \in Sensors |-> NoNode] /\ stopping = None
    /\ capture = [s \in Sensors |-> NoCapture] /\ frame = [s \in Sensors |-> 0] /\ active = 0
    /\ substream = [i \in Slots |-> None] /\ publishers = 0
    /\ acceptor = [s \in Sensors |-> None] /\ clients = [s \in Sensors |-> {}]
    /\ client = [c \in Clients |-> Outside]

-----------------------------------------------------------------------------
(* The bus and the sound system.                                           *)

Event == events < MaxEvents /\ events' = events + 1
CardsOf(s) == {c \in Cards : card[c] = s}
FreeCards == {c \in Cards : card[c] = None}

Appear(s) ==
    /\ Event
    /\ \/ s \notin present /\ present' = present \cup {s} /\ UNCHANGED <<camera, card>>
       \/ s \in present \ camera /\ camera' = camera \cup {s} /\ UNCHANGED <<present, card>>
       \/ /\ s \in present /\ CardsOf(s) = {} /\ FreeCards # {}
          /\ card' = [card EXCEPT ![CHOOSE c \in FreeCards : \A d \in FreeCards : c <= d] = s]
          /\ UNCHANGED <<present, camera>>
    /\ UNCHANGED <<run, pass, node, stopping, threads, system, fanout>>

\* The sensor leaves, or its audio function alone.
Disappear(s) ==
    /\ s \in present /\ Event
    /\ card' = [c \in Cards |-> IF card[c] = s THEN None ELSE card[c]]
    /\ capture' = [n \in Sensors |-> IF capture[n].from = s
                                     THEN [capture[n] EXCEPT !.from = None] ELSE capture[n]]
    /\ \/ present' = present \ {s} /\ camera' = camera \ {s}
       \/ CardsOf(s) # {} /\ UNCHANGED <<present, camera>>
    /\ UNCHANGED <<run, pass, node, stopping, frame, active, system, fanout>>

Stop == /\ run
        /\ run' = FALSE
        /\ UNCHANGED <<bus, pass, node, stopping, threads, system, fanout>>

-----------------------------------------------------------------------------
(* SystemAudioPublisher.                                                   *)

Holds(s) == {i \in Slots : substream[i] = s}

\* ensure_open: opened, unless another node has the substream, the card is
\* missing, or it is too early to try again.
Opened(s, slot) ==
    IF substream[slot] = None
    THEN \/ substream' = [substream EXCEPT ![slot] = s] /\ publishers' = publishers + 1
         \/ UNCHANGED system
    ELSE UNCHANGED system

\* Mutant: the publisher is counted off although it was not open.
Mut_CloseSystemAudio(s) ==
    /\ substream' = [i \in Slots |-> IF substream[i] = s THEN None ELSE substream[i]]
    /\ publishers' = publishers - 1

CloseSystemAudio(s) ==
    /\ substream' = [i \in Slots |-> IF substream[i] = s THEN None ELSE substream[i]]
    /\ publishers' = publishers - Cardinality(Holds(s))

\* SystemAudioPublisher::publish: an open substream may fail for good and is
\* closed.
SystemPublish(s) ==
    IF Holds(s) = {} THEN Opened(s, node[s].slot)
    ELSE UNCHANGED system \/ CloseSystemAudio(s)

-----------------------------------------------------------------------------
(* audio_coordinator_loop.                                                 *)

\* assign_system_audio_slots: in the order of the names, the first free slot
\* from the hash of the name on.
FirstFree(used, from) ==
    LET At(d) == (from + d) % kSystemAudioSlots
    IN  At(CHOOSE d \in Slots : /\ At(d) \notin used
                                /\ \A e \in Slots : e < d => At(e) \in used)

Assigned(found) ==
    LET after[i \in 0..Len(Order)] ==
          IF i = 0 THEN [s \in {} |-> 0]
          ELSE LET before == after[i - 1]
                   used == {before[s] : s \in DOMAIN before}
               IN  IF Order[i] \notin found \/ used = Slots THEN before
                   ELSE [s \in DOMAIN before \cup {Order[i]} |->
                           IF s = Order[i] THEN FirstFree(used, Hash[s]) ELSE before[s]]
    IN  after[Len(Order)]

SlotOf(s) == IF s \in DOMAIN Assigned(sensors) THEN Assigned(sensors)[s] ELSE 0

\* A pass looks for sensors by their cameras, or by any function when there is
\* no camera at all, and for the card of each (find_pcms, bind_pcms_to_sensors).
Look ==
    /\ pc = "look" /\ run
    /\ sensors' = IF camera = {} THEN present ELSE camera
    /\ todo' = sensors'
    /\ bound' = [s \in Sensors |->
         IF s \in sensors' /\ CardsOf(s) # {} THEN CHOOSE c \in CardsOf(s) : TRUE ELSE NoCard]
    /\ node' = [s \in Sensors |->
         IF node[s] = NoNode \/ node[s].age = Grace THEN node[s] ELSE [node[s] EXCEPT !.age = @ + 1]]
    /\ pc' = "visit"
    /\ UNCHANGED <<run, bus, stopping, threads, system, fanout>>

\* update_pcm and mark_present; mark_missing does nothing, so that a card that
\* went away stays bound.
Rebound(s, n) == [n EXCEPT !.pcm = IF bound[s] = NoCard THEN @ ELSE bound[s], !.age = 0]

\* AudioNode::start: the fan-out with its substream, then the threads.
StartNode(s) ==
    /\ node' = [node EXCEPT ![s] = Rebound(s, [pcm |-> NoCard, slot |-> SlotOf(s), age |-> 0])]
    /\ acceptor' = [acceptor EXCEPT ![s] = "accept"]
    /\ capture' = [capture EXCEPT ![s] = [NoCapture EXCEPT !.at = "name"]]
    /\ frame' = [frame EXCEPT ![s] = 0]
    /\ Opened(s, SlotOf(s))

\* ensure_node, which makes a node in vain when it cannot make its sockets.
Visit(s) ==
    /\ pc = "visit" /\ s \in todo
    /\ todo' = todo \ {s}
    /\ \/ /\ node[s] # NoNode
          /\ node' = [node EXCEPT ![s] = Rebound(s, @)]
          /\ UNCHANGED <<events, threads, system, acceptor>>
       \/ node[s] = NoNode /\ StartNode(s) /\ UNCHANGED <<events, active>>
       \/ node[s] = NoNode /\ Event /\ UNCHANGED <<node, threads, system, acceptor>>
    /\ UNCHANGED <<run, present, camera, card, pc, sensors, bound, stopping, clients, client>>

Visited == /\ pc = "visit" /\ todo = {}
           /\ pc' = "expire"
           /\ UNCHANGED <<run, bus, sensors, todo, bound, node, stopping, threads, system, fanout>>

\* AudioNode::expired
Expired(s) == node[s] # NoNode /\ node[s].pcm = NoCard /\ node[s].age >= Grace

\* The nodes to stop: those that have expired, or all when the service ends.
Ending == pc = "look" /\ ~run
ToStop == IF Ending THEN {s \in Sensors : node[s] # NoNode} ELSE {s \in Sensors : Expired(s)}

\* AudioNode::stop; from here on the capture thread finds started_ false.
StopNode(s) ==
    /\ pc = "expire" \/ Ending
    /\ s \in ToStop
    /\ stopping' = s /\ pc' = "join"
    /\ UNCHANGED <<run, bus, sensors, todo, bound, node, threads, system, fanout>>

CaptureJoined ==
    /\ pc = "join" /\ capture[stopping].at = "none"
    /\ pc' = "fanout"
    /\ client' = [c \in Clients |-> IF client[c].at = "backlog" /\ client[c].of = stopping
                                    THEN [client[c] EXCEPT !.at = "cut"] ELSE client[c]]
    /\ UNCHANGED <<run, bus, sensors, todo, bound, node, stopping, threads, system, acceptor, clients>>

\* Fanout::stop joins the accept thread before it closes the clients.
\* Mutant: it does not wait.
Mut_Joined(s) == TRUE
Joined(s) == acceptor[s] = "ended"

CloseFanout ==
    /\ pc = "fanout" /\ Joined(stopping)
    /\ client' = [c \in Clients |-> IF c \in clients[stopping]
                                    THEN [client[c] EXCEPT !.at = "cut"] ELSE client[c]]
    /\ clients' = [clients EXCEPT ![stopping] = {}]
    /\ acceptor' = [acceptor EXCEPT ![stopping] = None]
    /\ CloseSystemAudio(stopping)
    /\ node' = [node EXCEPT ![stopping] = NoNode] /\ stopping' = None
    /\ pc' = IF run THEN "expire" ELSE "look"
    /\ UNCHANGED <<run, bus, sensors, todo, bound, threads>>

EndPass ==
    /\ ToStop = {}
    /\ \/ pc = "expire" /\ pc' = "look"
       \/ Ending /\ pc' = "done"
    /\ UNCHANGED <<run, bus, sensors, todo, bound, node, stopping, threads, system, fanout>>

Coordinator == Look \/ Visited \/ CaptureJoined \/ CloseFanout \/ EndPass
               \/ \E s \in Sensors : Visit(s) \/ StopNode(s)

-----------------------------------------------------------------------------
(* AudioNode::capture_loop.                                                *)

Started(s) == run /\ stopping # s
Set(s, at) == capture' = [capture EXCEPT ![s].at = at]
\* snd_pcm_close and the next turn of the outer loop.
Reopen(s) == capture' = [capture EXCEPT ![s] = [NoCapture EXCEPT !.at = "name"]]
ThreadOnly == UNCHANGED <<run, pass, node, stopping, system, fanout>>

ReadName(s) ==
    /\ capture[s].at = "name"
    /\ IF Started(s)
       THEN /\ node[s].pcm # NoCard
            /\ capture' = [capture EXCEPT ![s].at = "open", ![s].name = node[s].pcm]
       ELSE Set(s, "none")
    /\ UNCHANGED <<bus, frame, active>> /\ ThreadOnly

\* snd_pcm_open and configure_capture.
InUse(from) == \E n \in Sensors : capture[n].from = from

OpenPcm(s) ==
    /\ capture[s].at = "open"
    /\ LET from == card[capture[s].name] IN
       \/ /\ from # None /\ ~InUse(from)
          /\ capture' = [capture EXCEPT ![s].at = "check", ![s].from = from]
          /\ UNCHANGED events
       \/ /\ IF from = None \/ InUse(from) THEN UNCHANGED events ELSE Event
          /\ Reopen(s)
    /\ UNCHANGED <<present, camera, card, frame, active>> /\ ThreadOnly

CheckName(s) ==
    /\ capture[s].at = "check"
    /\ IF node[s].pcm = capture[s].name
       THEN Set(s, "test") /\ active' = active + 1
       ELSE Reopen(s) /\ UNCHANGED active
    /\ UNCHANGED <<bus, frame>> /\ ThreadOnly

\* The condition of the inner loop; a session ends by one decrement.
EndSession(s) == Reopen(s) /\ active' = active - 1

TestName(s) ==
    /\ capture[s].at = "test"
    /\ IF Started(s) /\ node[s].pcm = capture[s].name
       THEN Set(s, "read") /\ UNCHANGED active
       ELSE EndSession(s)
    /\ UNCHANGED <<bus, frame>> /\ ThreadOnly

\* snd_pcm_readi and snd_pcm_recover.  A read need not complete a frame.
ReadPcm(s) ==
    /\ capture[s].at = "read"
    /\ \/ capture[s].from # None /\ Set(s, "test") /\ UNCHANGED <<events, active>>
       \/ /\ IF capture[s].from = None THEN UNCHANGED events ELSE Event
          /\ EndSession(s)
    /\ UNCHANGED <<present, camera, card, frame>> /\ ThreadOnly

\* Mutant: a client that was too slow for a frame stays.
Mut_Kept(s, whole) == clients[s]
\* A client that does not take the whole frame at once is closed.
Kept(s, whole) == clients[s] \cap whole

\* Fanout::publish: one frame to the system and to every client.
Publish(s) ==
    /\ capture[s].at = "read" /\ capture[s].from # None /\ frame[s] < MaxFrames
    /\ frame' = [frame EXCEPT ![s] = @ + 1]
    /\ SystemPublish(s)
    /\ \E whole \in SUBSET clients[s] :
         /\ clients' = [clients EXCEPT ![s] = Kept(s, whole)]
         /\ client' = [c \in Clients |->
              IF c \in whole THEN [client[c] EXCEPT !.last = frame'[s], !.joined = TRUE]
              ELSE IF c \in clients[s] \ Kept(s, whole) THEN [client[c] EXCEPT !.at = "cut"]
              ELSE client[c]]
    /\ Set(s, "test")
    /\ UNCHANGED <<run, bus, pass, node, stopping, active, acceptor>>

Capture(s) == \/ ReadName(s) \/ OpenPcm(s) \/ CheckName(s) \/ TestName(s)
              \/ ReadPcm(s) \/ Publish(s)

-----------------------------------------------------------------------------
(* Fanout::accept_loop and the clients.                                    *)

ServerOpen(s) == node[s] # NoNode /\ ~(stopping = s /\ pc = "fanout")
FanoutOnly == UNCHANGED <<run, bus, pass, node, stopping, threads, system>>

Connect(c, s) ==
    /\ client[c].at \in {"out", "cut"} /\ ServerOpen(s)
    /\ client' = [client EXCEPT ![c] = [Outside EXCEPT !.at = "backlog", !.of = s]]
    /\ UNCHANGED <<acceptor, clients>> /\ FanoutOnly

Accept(c, s) ==
    /\ acceptor[s] = "accept" /\ ServerOpen(s)
    /\ client[c].at = "backlog" /\ client[c].of = s
    /\ acceptor' = [acceptor EXCEPT ![s] = c]
    /\ client' = [client EXCEPT ![c].at = "handled"]
    /\ UNCHANGED clients /\ FanoutOnly

\* The request is refused or times out, there are too many subscribers, or the
\* client joins, whether or not the fan-out is being stopped.
Handle(c, s) ==
    /\ acceptor[s] = c
    /\ \/ /\ Cardinality(clients[s]) < kMaxAudioSubscribers
          /\ clients' = [clients EXCEPT ![s] = @ \cup {c}]
          /\ client' = [client EXCEPT ![c].at = "in"]
       \/ client' = [client EXCEPT ![c].at = "cut"] /\ UNCHANGED clients
    /\ acceptor' = [acceptor EXCEPT ![s] = IF run /\ ServerOpen(s) THEN "accept" ELSE "ended"]
    /\ FanoutOnly

AcceptEnds(s) ==
    /\ acceptor[s] = "accept" /\ ~ServerOpen(s)
    /\ acceptor' = [acceptor EXCEPT ![s] = "ended"]
    /\ UNCHANGED <<clients, client>> /\ FanoutOnly

Acceptor(s) == AcceptEnds(s) \/ \E c \in Clients : Accept(c, s) \/ Handle(c, s)

\* main returns.
Done == pc = "done" /\ UNCHANGED vars

Next ==
    \/ Stop \/ Coordinator \/ Done
    \/ \E s \in Sensors : \/ Appear(s) \/ Disappear(s) \/ Capture(s) \/ Acceptor(s)
                          \/ \E c \in Clients : Connect(c, s)

Spec == Init /\ [][Next]_vars

-----------------------------------------------------------------------------
\* What the status file reports is what the threads do: a session is counted
\* once from its first to its last read, a publisher while it has its substream
\* (active_capture_sessions, system_audio_publishers).
CountersBalanced ==
    /\ active = Cardinality({s \in Sensors : capture[s].at \in {"test", "read"}})
    /\ publishers = Cardinality({i \in Slots : substream[i] # None})

\* A client misses no frame: one that could not be written whole ends the
\* connection, also when clients come and go (Fanout::publish).
NoFrameMissed ==
    \A s \in Sensors : \A c \in clients[s] : client[c].joined => client[c].last = frame[s]

\* A node that was stopped leaves no thread, no open substream and no client,
\* not even one that was accepted while it stopped (AudioNode::stop, Fanout::stop).
StopLeavesNothing ==
    \A s \in Sensors : node[s] = NoNode =>
        /\ capture[s].at = "none" /\ acceptor[s] = None /\ Holds(s) = {}
        /\ \A c \in Clients : client[c].of = s => client[c].at \in {"out", "cut"}
=============================================================================
