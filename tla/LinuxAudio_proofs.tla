-------------------------- MODULE LinuxAudio_proofs --------------------------
(***************************************************************************)
(* The two loops of the Linux AudioBridge, each by its own specification   *)
(* and for every value of its constants: the audio nodes with their        *)
(* threads, substreams and clients, and the firmware loader.               *)
(***************************************************************************)
EXTENDS MC_LinuxAudio, FiniteSetTheorems, WellFoundedInduction, TLAPS

-----------------------------------------------------------------------------
(* assign_system_audio_slots.                                              *)

LEMMA LeastNumber ==
    ASSUME NEW S, S \subseteq Nat, S # {}
    PROVE  \E n \in S : \A m \in S : n <= m
<1> DEFINE Less == {p \in Nat \X Nat : p[1] < p[2]}
<1>1. IsWellFoundedOn(Less, Nat)
  BY NatLessThanWellFounded DEF OpToRel
<1>2. PICK n \in S : \A m \in S : <<m, n>> \notin Less
  BY <1>1, WFMin
<1>3. ASSUME NEW m \in S PROVE n <= m
  <2>1. <<m, n>> \in Nat \X Nat /\ <<m, n>> \notin Less
    BY <1>2
  <2>2. ~(m < n)
    BY <2>1
  <2> QED
    BY <2>2
<1> QED
  BY <1>3

\* Going round from any slot reaches every slot.
LEMMA Around ==
    ASSUME NEW from \in Slots, NEW i \in Slots
    PROVE  /\ (from + i) % kSystemAudioSlots \in Slots
           /\ \E d \in Slots : (from + d) % kSystemAudioSlots = i
<1> DEFINE k == kSystemAudioSlots
<1>1. k \in Nat \ {0} /\ from \in 0..(k - 1) /\ i \in 0..(k - 1)
  BY NodesAssumption DEF Slots
<1> HIDE DEF k
<1>2. (from + i) % k \in 0..(k - 1)
  BY <1>1
<1>3. CASE from <= i
  <2>1. i - from \in 0..(k - 1) /\ from + (i - from) = i /\ i % k = i
    BY <1>1, <1>3
  <2> QED
    BY <1>2, <2>1 DEF Slots, k
<1>4. CASE from > i
  <2>1. (i + k) - from \in 0..(k - 1) /\ from + ((i + k) - from) = i + k /\ (i + k) % k = i
    BY <1>1, <1>4
  <2> QED
    BY <1>2, <2>1 DEF Slots, k
<1> QED
  BY <1>1, <1>3, <1>4

LEMMA FirstFreeIsFree ==
    ASSUME NEW used \in SUBSET Slots, used # Slots, NEW from \in Slots
    PROVE  FirstFree(used, from) \in Slots \ used
<1> DEFINE At(d) == (from + d) % kSystemAudioSlots
           Free == {d \in Slots : At(d) \notin used}
<1>1. Free # {} /\ Free \subseteq Nat
  <2>1. PICK i \in Slots : i \notin used
    OBVIOUS
  <2>2. PICK d \in Slots : At(d) = i
    BY Around
  <2>3. Slots \subseteq Nat
    BY NodesAssumption DEF Slots
  <2> QED
    BY <2>1, <2>2, <2>3
<1>2. PICK n \in Free : \A m \in Free : n <= m
  BY <1>1, LeastNumber
<1>3. n \in Slots /\ At(n) \notin used /\ \A e \in Slots : e < n => At(e) \in used
  <2>1. \A e \in Slots : e < n => ~(n <= e)
    BY <1>2, NodesAssumption DEF Slots
  <2> QED
    BY <1>2, <2>1
<1> DEFINE d0 == CHOOSE d \in Slots : /\ At(d) \notin used
                                      /\ \A e \in Slots : e < d => At(e) \in used
<1>4. d0 \in Slots /\ At(d0) \notin used
  BY <1>3
<1>5. At(d0) \in Slots
  BY <1>4, Around
<1> QED
  BY <1>4, <1>5 DEF FirstFree

\* One turn of the loop, for sensor Order[i] ...
After(found, before, i) ==
    LET used == {before[s] : s \in DOMAIN before}
    IN  IF Order[i] \notin found \/ used = Slots THEN before
        ELSE [s \in DOMAIN before \cup {Order[i]} |->
                IF s = Order[i] THEN FirstFree(used, Hash[s]) ELSE before[s]]

\* ... and the first n of them.
Turns(found, f, n) ==
    f = [i \in 0..n |-> IF i = 0 THEN [s \in {} |-> 0] ELSE After(found, f[i - 1], i)]

\* Every sensor that got a slot got one of the card's, and no slot twice.
Apart(slots) ==
    /\ DOMAIN slots \subseteq Sensors
    /\ \A s \in DOMAIN slots : slots[s] \in Slots
    /\ \A s, t \in DOMAIN slots : s # t => slots[s] # slots[t]

LEMMA OrderLength ==
    Len(Order) \in Nat /\ \A i \in 1..Len(Order) : Order[i] \in Sensors
<1>1. Cardinality(Sensors) \in Nat
  BY FS_CardinalityType, NodesAssumption
<1>2. Order \in [1..Cardinality(Sensors) -> Sensors]
  BY NodesAssumption
<1>3. Order \in Seq(Sensors)
  BY <1>1, <1>2
<1> QED
  BY <1>3

LEMMA TurnsExist ==
    ASSUME NEW found
    PROVE  \E f : Turns(found, f, Len(Order))
<1> DEFINE Bad == {n \in Nat : ~ \E f : Turns(found, f, n)}
<1>1. ASSUME NEW n \in Bad, \A m \in Bad : n <= m PROVE FALSE
  <2>1. CASE n = 0
    <3>1. [i \in 0..0 |-> [s \in {} |-> 0]] =
             [i \in 0..0 |-> IF i = 0 THEN [s \in {} |-> 0]
                             ELSE After(found, [j \in 0..0 |-> [s \in {} |-> 0]][i - 1], i)]
      OBVIOUS
    <3>2. Turns(found, [i \in 0..0 |-> [s \in {} |-> 0]], 0)
      BY <3>1 DEF Turns
    <3> QED
      BY <2>1, <3>2
  <2>2. CASE n # 0
    <3>1. n - 1 \in Nat /\ n - 1 \notin Bad
      BY <1>1, <2>2
    <3>2. PICK f : Turns(found, f, n - 1)
      BY <3>1
    <3> DEFINE g == [i \in 0..n |-> IF i = n THEN After(found, f[n - 1], n) ELSE f[i]]
    <3>3. \A i \in 0..(n - 1) :
             f[i] = IF i = 0 THEN [s \in {} |-> 0] ELSE After(found, f[i - 1], i)
      BY <3>2 DEF Turns
    <3>4. ASSUME NEW i \in 0..n
          PROVE  g[i] = IF i = 0 THEN [s \in {} |-> 0] ELSE After(found, g[i - 1], i)
      <4>1. CASE i = n
        <5>1. n - 1 \in 0..n /\ n - 1 # n /\ g[n - 1] = f[n - 1]
          BY <2>2
        <5> QED
          BY <4>1, <5>1, <2>2
      <4>2. CASE i = 0
        <5>1. g[i] = f[0] /\ 0 \in 0..(n - 1)
          BY <4>2, <2>2
        <5> QED
          BY <5>1, <3>3, <4>2
      <4>3. CASE i # n /\ i # 0
        <5>1. i \in 0..(n - 1) /\ i - 1 \in 0..n /\ i - 1 # n
          BY <4>3
        <5>2. g[i] = f[i] /\ g[i - 1] = f[i - 1]
          BY <5>1, <4>3
        <5> QED
          BY <5>1, <5>2, <3>3, <4>3
      <4> QED
        BY <4>1, <4>2, <4>3
    <3> HIDE DEF g
    <3>5. g = [i \in 0..n |-> g[i]]
      BY DEF g
    <3>6. Turns(found, g, n)
      BY <3>4, <3>5 DEF Turns
    <3> QED
      BY <3>6
  <2> QED
    BY <2>1, <2>2
<1>2. Bad = {}
  BY <1>1, LeastNumber
<1> QED
  BY <1>2, OrderLength

LEMMA TurnApart ==
    ASSUME NEW found, NEW before, Apart(before), NEW i \in 1..Len(Order)
    PROVE  Apart(After(found, before, i))
<1> DEFINE used == {before[s] : s \in DOMAIN before}
           o == Order[i]
<1>1. CASE o \notin found \/ used = Slots
  BY <1>1 DEF After
<1>2. CASE ~(o \notin found \/ used = Slots)
  <2>1. used \subseteq Slots /\ o \in Sensors /\ Hash[o] \in Slots
    BY OrderLength, NodesAssumption DEF Apart
  <2>2. FirstFree(used, Hash[o]) \in Slots \ used
    BY <2>1, <1>2, FirstFreeIsFree
  <2> DEFINE r == [s \in DOMAIN before \cup {o} |->
                     IF s = o THEN FirstFree(used, Hash[s]) ELSE before[s]]
  <2>3. After(found, before, i) = r
    BY <1>2 DEF After
  <2>4. r[o] \in Slots \ used /\ \A s \in DOMAIN before : s # o => r[s] = before[s]
    BY <2>2
  <2>5. DOMAIN r = DOMAIN before \cup {o}
    OBVIOUS
  <2> HIDE DEF r
  <2>6. Apart(r)
    BY <2>1, <2>4, <2>5 DEF Apart
  <2> QED
    BY <2>3, <2>6
<1> QED
  BY <1>1, <1>2

\* The slots are given apart, whatever the order, the hashes and the number of
\* sensors (assign_system_audio_slots of audio_bridge.cpp).
THEOREM SlotsApart ==
    ASSUME NEW found
    PROVE  Apart(Assigned(found))
<1> DEFINE n == Len(Order)
           f == CHOOSE g : Turns(found, g, n)
<1>1. Assigned(found) = f[n]
  BY DEF Assigned, Turns, After
<1>2. Turns(found, f, n)
  BY TurnsExist
<1>3. \A i \in 0..n : f[i] = IF i = 0 THEN [s \in {} |-> 0] ELSE After(found, f[i - 1], i)
  BY <1>2 DEF Turns
<1> HIDE DEF f
<1> DEFINE Bad == {i \in 0..n : ~Apart(f[i])}
<1>4. ASSUME NEW i \in Bad, \A m \in Bad : i <= m PROVE FALSE
  <2>1. n \in Nat
    BY OrderLength
  <2>2. CASE i = 0
    <3>1. f[0] = [s \in {} |-> 0]
      BY <1>3, <2>1
    <3>2. Apart([s \in {} |-> 0])
      BY DEF Apart
    <3> QED
      BY <2>2, <3>1, <3>2
  <2>3. CASE i # 0
    <3>1. i \in 1..n /\ i - 1 \in 0..n /\ ~(i <= i - 1)
      BY <2>1, <2>3
    <3>2. Apart(f[i - 1])
      BY <3>1, <1>4
    <3>3. f[i] = After(found, f[i - 1], i)
      BY <1>3, <2>3
    <3> QED
      BY <3>1, <3>2, <3>3, TurnApart
  <2> QED
    BY <2>2, <2>3
<1>5. Bad = {}
  <2>1. Bad \subseteq Nat
    BY OrderLength
  <2> QED
    BY <2>1, <1>4, LeastNumber
<1> QED
  BY <1>1, <1>5, OrderLength

LEMMA SlotTyped ==
    ASSUME NEW s \in Sensors
    PROVE  SlotOf(s) \in Slots
BY SlotsApart, NodesAssumption DEF SlotOf, Apart, Slots

-----------------------------------------------------------------------------
(* The audio nodes.                                                        *)

BusTyped ==
    /\ run \in BOOLEAN /\ events \in 0..MaxEvents
    /\ camera \subseteq present /\ present \subseteq Sensors
    /\ card \in [Cards -> present \cup {None}]

PassTyped ==
    /\ pc \in {"look", "visit", "expire", "join", "fanout", "done"}
    /\ sensors \subseteq Sensors /\ todo \subseteq sensors
    /\ bound \in [Sensors -> Cards \cup {NoCard}]

NodeTyped ==
    /\ node \in [Sensors -> {NoNode} \cup [pcm : Cards \cup {NoCard}, slot : Slots, age : 0..Grace]]
    /\ stopping \in Sensors \cup {None}
    /\ stopping # None <=> pc \in {"join", "fanout"}
    /\ stopping # None => node[stopping] # NoNode

\* A thread past "name" has read the name of a card.
CaptureTyped ==
    /\ capture \in [Sensors -> [at : {"none", "name", "open", "check", "test", "read"},
                                name : Cards \cup {NoCard}, from : Sensors \cup {None}]]
    /\ frame \in [Sensors -> 0..MaxFrames]
    /\ \A s \in Sensors : capture[s].at = "open" => capture[s].name \in Cards

SystemTyped == substream \in [Slots -> Sensors \cup {None}]

FanoutTyped ==
    /\ acceptor \in [Sensors -> {None, "accept", "ended"} \cup Clients]
    /\ clients \in [Sensors -> SUBSET Clients]
    /\ client \in [Clients -> [at : {"out", "backlog", "handled", "in", "cut"},
                               of : Sensors \cup {None}, last : 0..MaxFrames, joined : BOOLEAN]]

Subscribed ==
    \A s \in Sensors : /\ IsFiniteSet(clients[s])
                       /\ Cardinality(clients[s]) <= kMaxAudioSubscribers

\* Nothing runs for a node that is not there, and its capture thread is joined
\* before its fan-out is closed.
Idle ==
    /\ \A s \in Sensors : node[s] = NoNode =>
         /\ capture[s].at = "none" /\ acceptor[s] = None
         /\ \A i \in Slots : substream[i] # s
         /\ clients[s] = {}
    /\ pc = "fanout" => capture[stopping].at = "none"

\* A client is where its fan-out has it: before an open socket, with the accept
\* thread, or among the clients.
Served ==
    \A c \in Clients :
       /\ client[c].at = "backlog" => client[c].of \in Sensors /\ ServerOpen(client[c].of)
       /\ \A s \in Sensors :
            /\ acceptor[s] = c <=> client[c].at = "handled" /\ client[c].of = s
            /\ c \in clients[s] <=> client[c].at = "in" /\ client[c].of = s
       /\ client[c].at \in {"handled", "in"} => client[c].of \in Sensors

NotYetJoined == \A c \in Clients : client[c].at \in {"backlog", "handled"} => ~client[c].joined

NodesTyped ==
    /\ BusTyped /\ PassTyped /\ NodeTyped /\ CaptureTyped /\ SystemTyped /\ FanoutTyped

NodesInv ==
    /\ NodesTyped
    /\ Subscribed /\ Idle /\ Served /\ NotYetJoined /\ NoFrameMissed /\ CountersBalanced

LEMMA SlotsKnown == -1 \notin Slots /\ Slots \subseteq Nat /\ IsFiniteSet(Slots)
BY FS_Interval, NodesAssumption DEF Slots

LEMMA AppearKeeps ==
    ASSUME NodesInv, NEW s \in Sensors, Appear(s)
    PROVE  NodesInv'
<1>1. /\ BusTyped /\ PassTyped /\ NodeTyped /\ CaptureTyped /\ SystemTyped /\ FanoutTyped
      /\ Subscribed /\ Idle /\ Served /\ NotYetJoined /\ NoFrameMissed /\ CountersBalanced
  BY DEF NodesInv, NodesTyped
<1>2. PassTyped' /\ NodeTyped' /\ CaptureTyped' /\ SystemTyped' /\ FanoutTyped' /\ Subscribed' /\
Idle' /\ Served' /\ NotYetJoined' /\ NoFrameMissed' /\ CountersBalanced'
  BY <1>1 DEF Appear, bus, pass, threads, system, fanout, PassTyped, NodeTyped, CaptureTyped,
      SystemTyped, FanoutTyped, Subscribed, Idle, Served, NotYetJoined, NoFrameMissed,
      CountersBalanced, ServerOpen
<1>3. BusTyped'
  <2>1. CASE s \in present /\ CardsOf(s) = {} /\ FreeCards # {}
               /\ card' = [card EXCEPT ![CHOOSE c \in FreeCards : \A d \in FreeCards : c <= d] = s]
               /\ UNCHANGED <<present, camera>>
    <3> DEFINE c0 == CHOOSE c \in FreeCards : \A d \in FreeCards : c <= d
    <3>1. card' \in [Cards -> present \cup {None}]
      BY <1>1, <2>1 DEF BusTyped
    <3>2. events' \in 0..MaxEvents /\ run' = run
      BY <1>1, NodesAssumption DEF Appear, Event, BusTyped
    <3> QED
      BY <1>1, <2>1, <3>1, <3>2 DEF BusTyped
  <2>2. CASE ~(s \in present /\ CardsOf(s) = {} /\ FreeCards # {}
               /\ card' = [card EXCEPT ![CHOOSE c \in FreeCards : \A d \in FreeCards : c <= d] = s]
               /\ UNCHANGED <<present, camera>>)
    BY <1>1, <2>2, NodesAssumption DEF Appear, Event, BusTyped
  <2> QED
    BY <2>1, <2>2
<1> QED
  BY <1>2, <1>3 DEF NodesInv, NodesTyped

LEMMA DisappearKeeps ==
    ASSUME NodesInv, NEW s \in Sensors, Disappear(s)
    PROVE  NodesInv'
<1>1. /\ BusTyped /\ PassTyped /\ NodeTyped /\ CaptureTyped /\ SystemTyped /\ FanoutTyped
      /\ Subscribed /\ Idle /\ Served /\ NotYetJoined /\ NoFrameMissed /\ CountersBalanced
  BY DEF NodesInv, NodesTyped
<1>2. \A n \in Sensors : /\ capture'[n].at = capture[n].at /\ capture'[n].name = capture[n].name
                            /\ capture'[n].from \in {capture[n].from, None}
                            /\ capture'[n] \in [
                                 at : {"none", "name", "open", "check", "test", "read"},
                                 name : Cards \cup {NoCard}, from : Sensors \cup {None}]
  BY <1>1 DEF Disappear, CaptureTyped
<1>3. PassTyped' /\ NodeTyped' /\ SystemTyped' /\ FanoutTyped' /\ Subscribed' /\ Served' /\
NotYetJoined' /\ NoFrameMissed'
  BY <1>1 DEF Disappear, bus, pass, threads, system, fanout, PassTyped, NodeTyped, SystemTyped,
      FanoutTyped, Subscribed, Served, NotYetJoined, NoFrameMissed, ServerOpen
<1>4. BusTyped'
  <2>1. \A c \in Cards : card'[c] \in (present \ {s}) \cup {None}
    BY <1>1 DEF Disappear, BusTyped
  <2>2. card' \in [Cards -> present' \cup {None}]
    BY <2>1 DEF Disappear
  <2> QED
    BY <1>1, <2>2, NodesAssumption DEF Disappear, Event, BusTyped
<1>5. CaptureTyped'
  <2>1. capture' \in [Sensors -> [at : {"none", "name", "open", "check", "test", "read"},
                                name : Cards \cup {NoCard}, from : Sensors \cup {None}]]
    BY <1>2 DEF Disappear
  <2> QED
    BY <1>1, <1>2, <2>1 DEF Disappear, CaptureTyped
<1>6. Idle'
  BY <1>1, <1>2 DEF Disappear, system, fanout, Idle, NodeTyped, pass
<1>7. CountersBalanced'
  <2>1. {n \in Sensors : capture'[n].at \in {"test", "read"}}
           = {n \in Sensors : capture[n].at \in {"test", "read"}}
    BY <1>2
  <2> QED
    BY <1>1, <2>1 DEF Disappear, system, CountersBalanced
<1> QED
  BY <1>3, <1>4, <1>5, <1>6, <1>7 DEF NodesInv, NodesTyped

LEMMA StopKeeps ==
    ASSUME NodesInv, Stop
    PROVE  NodesInv'
<1>1. /\ BusTyped /\ PassTyped /\ NodeTyped /\ CaptureTyped /\ SystemTyped /\ FanoutTyped
      /\ Subscribed /\ Idle /\ Served /\ NotYetJoined /\ NoFrameMissed /\ CountersBalanced
  BY DEF NodesInv, NodesTyped
<1>2. PassTyped' /\ NodeTyped' /\ CaptureTyped' /\ SystemTyped' /\ FanoutTyped' /\ Subscribed' /\
Idle' /\ Served' /\ NotYetJoined' /\ NoFrameMissed' /\ CountersBalanced'
  BY <1>1 DEF Stop, bus, pass, threads, system, fanout, PassTyped, NodeTyped, CaptureTyped,
      SystemTyped, FanoutTyped, Subscribed, Idle, Served, NotYetJoined, NoFrameMissed,
      CountersBalanced, ServerOpen
<1>3. BusTyped'
  BY <1>1 DEF Stop, bus, pass, threads, system, fanout, BusTyped
<1> QED
  BY <1>2, <1>3 DEF NodesInv, NodesTyped

LEMMA LookKeeps ==
    ASSUME NodesInv, Look
    PROVE  NodesInv'
<1>1. /\ BusTyped /\ PassTyped /\ NodeTyped /\ CaptureTyped /\ SystemTyped /\ FanoutTyped
      /\ Subscribed /\ Idle /\ Served /\ NotYetJoined /\ NoFrameMissed /\ CountersBalanced
  BY DEF NodesInv, NodesTyped
<1>2. ASSUME NEW s \in Sensors
      PROVE  /\ node'[s] \in {NoNode} \cup [pcm : Cards \cup {NoCard}, slot : Slots, age : 0..Grace]
             /\ node'[s] = NoNode <=> node[s] = NoNode
  <2>1. CASE node[s] = NoNode \/ node[s].age = Grace
    BY <1>1, <2>1 DEF Look, NodeTyped
  <2>2. CASE ~(node[s] = NoNode \/ node[s].age = Grace)
    <3>1. node'[s] = [node[s] EXCEPT !.age = @ + 1]
      BY <2>2 DEF Look
    <3>2. node[s] \in [pcm : Cards \cup {NoCard}, slot : Slots, age : 0..Grace]
      BY <1>1, <2>2 DEF NodeTyped
    <3>3. node'[s] \in [pcm : Cards \cup {NoCard}, slot : Slots, age : 0..Grace]
      BY <2>2, <3>1, <3>2, NodesAssumption
    <3> QED
      BY <2>2, <3>3, SlotsKnown DEF NoNode
  <2> QED
    BY <2>1, <2>2
<1>3. BusTyped' /\ CaptureTyped' /\ SystemTyped' /\ FanoutTyped' /\ Subscribed' /\ NotYetJoined'
/\ NoFrameMissed' /\ CountersBalanced'
  BY <1>1 DEF Look, bus, pass, threads, system, fanout, BusTyped, CaptureTyped, SystemTyped,
      FanoutTyped, Subscribed, NotYetJoined, NoFrameMissed, CountersBalanced
<1>4. PassTyped'
  <2>1. sensors' \subseteq Sensors
    BY <1>1 DEF Look, BusTyped
  <2>2. ASSUME NEW s \in Sensors PROVE bound'[s] \in Cards \cup {NoCard}
    <3>1. CASE s \in sensors' /\ CardsOf(s) # {}
      <4>1. bound'[s] = CHOOSE c \in CardsOf(s) : TRUE
        BY <3>1 DEF Look
      <4> QED
        BY <3>1, <4>1 DEF CardsOf
    <3>2. CASE ~(s \in sensors' /\ CardsOf(s) # {})
      BY <3>2 DEF Look
    <3> QED
      BY <3>1, <3>2
  <2>3. bound' \in [Sensors -> Cards \cup {NoCard}]
    BY <2>2 DEF Look
  <2> QED
    BY <1>1, <2>1, <2>3 DEF Look, PassTyped
<1>5. NodeTyped'
  <2>1. node' \in [Sensors -> {NoNode}
                      \cup [pcm : Cards \cup {NoCard}, slot : Slots, age : 0..Grace]]
    BY <1>1, <1>2 DEF Look
  <2> QED
    BY <1>1, <2>1 DEF Look, NodeTyped
<1>6. Idle'
  BY <1>1, <1>2 DEF Look, threads, system, fanout, Idle
<1>7. Served'
  BY <1>1, <1>2 DEF Look, fanout, Served, ServerOpen, NodeTyped
<1> QED
  BY <1>3, <1>4, <1>5, <1>6, <1>7 DEF NodesInv, NodesTyped

\* A substream that is opened or closed is counted.
PublishersCounted == publishers = Cardinality({i \in Slots : substream[i] # None})

LEMMA OpenedCounts ==
    ASSUME NEW s \in Sensors, NEW slot \in Slots, SystemTyped, PublishersCounted, Opened(s, slot)
    PROVE  /\ SystemTyped' /\ PublishersCounted'
           /\ \A i \in Slots : substream'[i] # substream[i] => substream'[i] = s
<1> DEFINE open == {i \in Slots : substream[i] # None}
<1>1. CASE UNCHANGED system
  BY <1>1 DEF system, SystemTyped, PublishersCounted
<1>2. CASE /\ substream[slot] = None
           /\ substream' = [substream EXCEPT ![slot] = s] /\ publishers' = publishers + 1
  <2>1. s # None
    BY NodesAssumption
  <2>2. substream' \in [Slots -> Sensors \cup {None}]
    BY <1>2 DEF SystemTyped
  <2>3. {i \in Slots : substream'[i] # None} = open \cup {slot}
    BY <1>2, <2>1 DEF SystemTyped
  <2>4. IsFiniteSet(open) /\ slot \notin open
    BY <1>2, SlotsKnown, FS_Subset
  <2>5. Cardinality(open \cup {slot}) = Cardinality(open) + 1
    BY <2>4, FS_AddElement
  <2>6. PublishersCounted'
    BY <1>2, <2>3, <2>5 DEF PublishersCounted
  <2> QED
    BY <1>2, <2>2, <2>6 DEF SystemTyped
<1> QED
  BY <1>1, <1>2 DEF Opened

LEMMA CloseCounts ==
    ASSUME NEW s \in Sensors, SystemTyped, PublishersCounted, CloseSystemAudio(s)
    PROVE  /\ SystemTyped' /\ PublishersCounted'
           /\ \A i \in Slots : substream'[i] = IF substream[i] = s THEN None ELSE substream[i]
<1> DEFINE open == {i \in Slots : substream[i] # None}
<1>1. s # None /\ IsFiniteSet(open)
  BY NodesAssumption, SlotsKnown, FS_Subset
<1>2. SystemTyped' /\ \A i \in Slots : substream'[i] = IF substream[i] = s THEN None ELSE
substream[i]
  BY DEF CloseSystemAudio, SystemTyped
<1>3. {i \in Slots : substream'[i] # None} = open \ Holds(s)
  BY <1>1, <1>2 DEF Holds
<1>4. open \cap Holds(s) = Holds(s)
  BY <1>1 DEF Holds
<1>5. Cardinality(open \ Holds(s)) = Cardinality(open) - Cardinality(Holds(s))
  BY <1>1, <1>4, FS_Difference
<1>6. PublishersCounted'
  BY <1>3, <1>5 DEF PublishersCounted, CloseSystemAudio
<1> QED
  BY <1>2, <1>6

LEMMA StartNodeKeeps ==
    ASSUME NodesInv, NEW s \in Sensors, pc = "visit", s \in todo, node[s] = NoNode, StartNode(s),
           todo' = todo \ {s},
           UNCHANGED <<events, active, run, present, camera, card, pc, sensors, bound, stopping,
                       clients, client>>
    PROVE  NodesInv'
<1>1. /\ BusTyped /\ PassTyped /\ NodeTyped /\ CaptureTyped /\ SystemTyped /\ FanoutTyped
      /\ Subscribed /\ Idle /\ Served /\ NotYetJoined /\ NoFrameMissed /\ CountersBalanced
  BY DEF NodesInv, NodesTyped
<1>2. /\ node'[s] \in [pcm : Cards \cup {NoCard}, slot : Slots, age : 0..Grace]
      /\ node'[s] # NoNode /\ \A n \in Sensors : n # s => node'[n] = node[n]
  <2>1. [pcm |-> NoCard, slot |-> SlotOf(s), age |-> 0]
           \in [pcm : Cards \cup {NoCard}, slot : Slots, age : 0..Grace]
    BY SlotTyped, NodesAssumption
  <2>2. node'[s] \in [pcm : Cards \cup {NoCard}, slot : Slots, age : 0..Grace]
    BY <1>1, <2>1, NodesAssumption DEF StartNode, Rebound, NodeTyped, PassTyped
  <2> QED
    BY <1>1, <2>2, SlotsKnown DEF StartNode, NodeTyped, NoNode
<1>3. /\ SystemTyped' /\ PublishersCounted'
      /\ \A i \in Slots : substream'[i] # substream[i] => substream'[i] = s
  BY <1>1, SlotTyped, OpenedCounts DEF StartNode, CountersBalanced, PublishersCounted
<1>4. BusTyped' /\ Subscribed' /\ NotYetJoined'
  BY <1>1 DEF StartNode, bus, pass, threads, system, fanout, BusTyped, Subscribed, NotYetJoined
<1>5. PassTyped'
  BY <1>1 DEF StartNode, bus, pass, threads, system, fanout, PassTyped
<1>6. NodeTyped'
  <2>1. node' \in [Sensors -> {NoNode}
                      \cup [pcm : Cards \cup {NoCard}, slot : Slots, age : 0..Grace]]
    BY <1>1, <1>2 DEF NodeTyped, StartNode
  <2> QED
    BY <1>1, <1>2, <2>1 DEF NodeTyped
<1>7. CaptureTyped'
  BY <1>1, NodesAssumption DEF StartNode, NoCapture, CaptureTyped
<1>8. SystemTyped'
  BY <1>1, <1>3 DEF CountersBalanced
<1>9. FanoutTyped'
  BY <1>1 DEF StartNode, FanoutTyped
<1>10. Idle'
  <2>1. ASSUME NEW n \in Sensors, node'[n] = NoNode
        PROVE  /\ capture'[n].at = "none" /\ acceptor'[n] = None /\ clients'[n] = {}
               /\ \A i \in Slots : substream'[i] # n
    <3>1. n # s /\ node[n] = NoNode
      BY <1>2, <2>1
    <3>2. capture'[n] = capture[n] /\ acceptor'[n] = acceptor[n]
      BY <3>1 DEF StartNode
    <3> QED
      BY <1>1, <1>3, <3>1, <3>2 DEF Idle
  <2> QED
    BY <1>1, <2>1 DEF Idle
<1>11. Served'
  BY <1>1, <1>2, NodesAssumption DEF StartNode, Served, ServerOpen, Idle, FanoutTyped
<1>12. NoFrameMissed'
  BY <1>1 DEF StartNode, NoFrameMissed, Idle, CaptureTyped
<1>13. CountersBalanced'
  <2>1. {n \in Sensors : capture'[n].at \in {"test", "read"}}
           = {n \in Sensors : capture[n].at \in {"test", "read"}}
    <3>1. capture[s].at = "none" /\ capture'[s].at = "name"
      BY <1>1 DEF StartNode, NoCapture, CaptureTyped, Idle
    <3>2. \A n \in Sensors : n # s => capture'[n] = capture[n]
      BY <1>1 DEF StartNode, CaptureTyped
    <3> QED
      BY <3>1, <3>2
  <2> QED
    BY <1>1, <1>3, <2>1 DEF CountersBalanced, PublishersCounted
<1> QED
  BY <1>4, <1>5, <1>6, <1>7, <1>8, <1>9, <1>10, <1>11, <1>12, <1>13 DEF NodesInv, NodesTyped

LEMMA RebindKeeps ==
    ASSUME NodesInv, NEW s \in Sensors, pc = "visit", node[s] # NoNode,
           node' = [node EXCEPT ![s] = Rebound(s, @)],
           todo' = todo \ {s}, UNCHANGED <<events, threads, system, acceptor>>,
           UNCHANGED <<run, present, camera, card, pc, sensors, bound, stopping, clients, client>>
    PROVE  NodesInv'
<1>1. /\ BusTyped /\ PassTyped /\ NodeTyped /\ CaptureTyped /\ SystemTyped /\ FanoutTyped
      /\ Subscribed /\ Idle /\ Served /\ NotYetJoined /\ NoFrameMissed /\ CountersBalanced
  BY DEF NodesInv, NodesTyped
<1>2. /\ node'[s] \in [pcm : Cards \cup {NoCard}, slot : Slots, age : 0..Grace]
      /\ node'[s] # NoNode /\ \A n \in Sensors : n # s => node'[n] = node[n]
  <2>1. node[s] \in [pcm : Cards \cup {NoCard}, slot : Slots, age : 0..Grace]
    BY <1>1 DEF NodeTyped
  <2>2. node'[s] = Rebound(s, node[s])
    BY <1>1 DEF NodeTyped
  <2>3. bound[s] \in Cards \cup {NoCard} /\ 0 \in 0..Grace
    BY <1>1, NodesAssumption DEF PassTyped
  <2>4. node'[s] \in [pcm : Cards \cup {NoCard}, slot : Slots, age : 0..Grace]
    BY <2>1, <2>2, <2>3 DEF Rebound
  <2> QED
    BY <1>1, <2>4, SlotsKnown DEF NodeTyped, NoNode
<1>3. BusTyped' /\ CaptureTyped' /\ SystemTyped' /\ FanoutTyped' /\ Subscribed' /\ NotYetJoined'
/\ NoFrameMissed' /\ CountersBalanced'
  BY <1>1 DEF threads, system, pass, bus, fanout, BusTyped, CaptureTyped, SystemTyped,
      FanoutTyped, Subscribed, NotYetJoined, NoFrameMissed, CountersBalanced
<1>4. PassTyped'
  BY <1>1 DEF threads, system, pass, bus, fanout, PassTyped
<1>5. NodeTyped'
  <2>1. node' \in [Sensors -> {NoNode}
                      \cup [pcm : Cards \cup {NoCard}, slot : Slots, age : 0..Grace]]
    BY <1>1, <1>2 DEF NodeTyped
  <2> QED
    BY <1>1, <1>2, <2>1 DEF NodeTyped
<1>6. Idle'
  BY <1>1, <1>2 DEF threads, system, Idle
<1>7. Served'
  BY <1>1, <1>2 DEF Served, ServerOpen
<1> QED
  BY <1>3, <1>4, <1>5, <1>6, <1>7 DEF NodesInv, NodesTyped

LEMMA InVainKeeps ==
    ASSUME NodesInv, NEW s \in Sensors, Event, todo' = todo \ {s},
           UNCHANGED <<node, threads, system, acceptor>>,
           UNCHANGED <<run, present, camera, card, pc, sensors, bound, stopping, clients, client>>
    PROVE  NodesInv'
<1>1. /\ BusTyped /\ PassTyped /\ NodeTyped /\ CaptureTyped /\ SystemTyped /\ FanoutTyped
      /\ Subscribed /\ Idle /\ Served /\ NotYetJoined /\ NoFrameMissed /\ CountersBalanced
  BY DEF NodesInv, NodesTyped
<1>2. NodeTyped' /\ CaptureTyped' /\ SystemTyped' /\ FanoutTyped' /\ Subscribed' /\ Idle' /\
Served' /\ NotYetJoined' /\ NoFrameMissed' /\ CountersBalanced'
  BY <1>1 DEF Event, bus, pass, threads, system, fanout, NodeTyped, CaptureTyped, SystemTyped,
      FanoutTyped, Subscribed, Idle, Served, NotYetJoined, NoFrameMissed, CountersBalanced,
      ServerOpen
<1>3. BusTyped'
  BY <1>1, NodesAssumption DEF Event, BusTyped
<1>4. PassTyped'
  BY <1>1 DEF Event, bus, pass, threads, system, fanout, PassTyped
<1> QED
  BY <1>2, <1>3, <1>4 DEF NodesInv, NodesTyped

LEMMA VisitKeeps ==
    ASSUME NodesInv, NEW s \in Sensors, Visit(s)
    PROVE  NodesInv'
<1>1. CASE node[s] # NoNode /\ node' = [node EXCEPT ![s] = Rebound(s, @)]
           /\ UNCHANGED <<events, threads, system, acceptor>>
  BY <1>1, RebindKeeps DEF Visit
<1>2. CASE node[s] = NoNode /\ StartNode(s) /\ UNCHANGED <<events, active>>
  BY <1>2, StartNodeKeeps DEF Visit
<1>3. CASE node[s] = NoNode /\ Event /\ UNCHANGED <<node, threads, system, acceptor>>
  BY <1>3, InVainKeeps DEF Visit
<1> QED
  BY <1>1, <1>2, <1>3 DEF Visit

LEMMA VisitedKeeps ==
    ASSUME NodesInv, Visited
    PROVE  NodesInv'
<1>1. /\ BusTyped /\ PassTyped /\ NodeTyped /\ CaptureTyped /\ SystemTyped /\ FanoutTyped
      /\ Subscribed /\ Idle /\ Served /\ NotYetJoined /\ NoFrameMissed /\ CountersBalanced
  BY DEF NodesInv, NodesTyped
<1>2. BusTyped' /\ CaptureTyped' /\ SystemTyped' /\ FanoutTyped' /\ Subscribed' /\ NotYetJoined'
/\ NoFrameMissed' /\ CountersBalanced'
  BY <1>1 DEF Visited, bus, pass, threads, system, fanout, BusTyped, CaptureTyped, SystemTyped,
      FanoutTyped, Subscribed, NotYetJoined, NoFrameMissed, CountersBalanced
<1>3. PassTyped'
  BY <1>1 DEF Visited, bus, pass, threads, system, fanout, PassTyped
<1>4. NodeTyped'
  BY <1>1 DEF Visited, bus, pass, threads, system, fanout, NodeTyped
<1>5. Idle'
  BY <1>1 DEF Visited, bus, pass, threads, system, fanout, Idle
<1>6. Served'
  BY <1>1 DEF Visited, bus, pass, threads, system, fanout, Served, ServerOpen
<1> QED
  BY <1>2, <1>3, <1>4, <1>5, <1>6 DEF NodesInv, NodesTyped

LEMMA StopNodeKeeps ==
    ASSUME NodesInv, NEW s \in Sensors, StopNode(s)
    PROVE  NodesInv'
<1>1. /\ BusTyped /\ PassTyped /\ NodeTyped /\ CaptureTyped /\ SystemTyped /\ FanoutTyped
      /\ Subscribed /\ Idle /\ Served /\ NotYetJoined /\ NoFrameMissed /\ CountersBalanced
  BY DEF NodesInv, NodesTyped
<1>2. BusTyped' /\ CaptureTyped' /\ SystemTyped' /\ FanoutTyped' /\ Subscribed' /\ NotYetJoined'
/\ NoFrameMissed' /\ CountersBalanced'
  BY <1>1 DEF StopNode, bus, pass, threads, system, fanout, BusTyped, CaptureTyped, SystemTyped,
      FanoutTyped, Subscribed, NotYetJoined, NoFrameMissed, CountersBalanced
<1>3. PassTyped'
  BY <1>1 DEF StopNode, bus, pass, threads, system, fanout, PassTyped
<1>4. NodeTyped'
  BY <1>1, NodesAssumption DEF StopNode, NodeTyped, ToStop, Expired, Ending
<1>5. Idle'
  BY <1>1 DEF StopNode, bus, pass, threads, system, fanout, Idle
<1>6. Served'
  BY <1>1 DEF StopNode, Ending, fanout, Served, ServerOpen, NodeTyped
<1> QED
  BY <1>2, <1>3, <1>4, <1>5, <1>6 DEF NodesInv, NodesTyped

LEMMA CaptureJoinedKeeps ==
    ASSUME NodesInv, CaptureJoined
    PROVE  NodesInv'
<1>1. /\ BusTyped /\ PassTyped /\ NodeTyped /\ CaptureTyped /\ SystemTyped /\ FanoutTyped
      /\ Subscribed /\ Idle /\ Served /\ NotYetJoined /\ NoFrameMissed /\ CountersBalanced
  BY DEF NodesInv, NodesTyped
<1>2. \A c \in Clients :
         \/ client'[c] = client[c] /\ ~(client[c].at = "backlog" /\ client[c].of = stopping)
         \/ /\ client'[c] = [client[c] EXCEPT !.at = "cut"] /\ client'[c].at = "cut"
            /\ client[c].at = "backlog" /\ client[c].of = stopping
  BY <1>1 DEF CaptureJoined, FanoutTyped
<1>3. BusTyped' /\ CaptureTyped' /\ SystemTyped' /\ Subscribed' /\ CountersBalanced'
  BY <1>1 DEF CaptureJoined, bus, pass, threads, system, fanout, BusTyped, CaptureTyped,
      SystemTyped, Subscribed, CountersBalanced
<1>4. PassTyped'
  BY <1>1 DEF CaptureJoined, bus, pass, threads, system, fanout, PassTyped
<1>5. NodeTyped'
  BY <1>1 DEF CaptureJoined, bus, pass, threads, system, fanout, NodeTyped
<1>6. FanoutTyped'
  BY <1>1, <1>2 DEF CaptureJoined, FanoutTyped
<1>7. Idle'
  BY <1>1 DEF CaptureJoined, threads, system, Idle
<1>8. Served'
  <2>1. ASSUME NEW c \in Clients, client'[c].at = "backlog"
        PROVE  client'[c].of \in Sensors /\ ServerOpen(client[c].of)'
    BY <1>1, <1>2, <2>1 DEF CaptureJoined, Served, ServerOpen
  <2>2. ASSUME NEW c \in Clients, NEW s \in Sensors
        PROVE  /\ acceptor'[s] = c <=> client'[c].at = "handled" /\ client'[c].of = s
               /\ c \in clients'[s] <=> client'[c].at = "in" /\ client'[c].of = s
    BY <1>1, <1>2 DEF CaptureJoined, Served
  <2>3. \A c \in Clients : client'[c].at \in {"handled", "in"} => client'[c].of \in Sensors
    BY <1>1, <1>2 DEF Served
  <2> QED
    BY <2>1, <2>2, <2>3 DEF Served
<1>9. NotYetJoined'
  BY <1>1, <1>2 DEF NotYetJoined
<1>10. NoFrameMissed'
  BY <1>1, <1>2 DEF CaptureJoined, threads, NoFrameMissed, Served, FanoutTyped
<1> QED
  BY <1>3, <1>4, <1>5, <1>6, <1>7, <1>8, <1>9, <1>10 DEF NodesInv, NodesTyped

LEMMA CloseFanoutKeeps ==
    ASSUME NodesInv, CloseFanout
    PROVE  NodesInv'
<1>1. /\ BusTyped /\ PassTyped /\ NodeTyped /\ CaptureTyped /\ SystemTyped /\ FanoutTyped
      /\ Subscribed /\ Idle /\ Served /\ NotYetJoined /\ NoFrameMissed /\ CountersBalanced
  BY DEF NodesInv, NodesTyped
<1>2. stopping \in Sensors
  BY <1>1 DEF CloseFanout, NodeTyped
<1>3. /\ SystemTyped' /\ PublishersCounted'
      /\ \A i \in Slots : substream'[i] = IF substream[i] = stopping THEN None ELSE substream[i]
  BY <1>1, <1>2, CloseCounts DEF CloseFanout, CountersBalanced, PublishersCounted
<1>4. \A c \in Clients :
         \/ client'[c] = client[c] /\ c \notin clients[stopping]
         \/ /\ client'[c] = [client[c] EXCEPT !.at = "cut"] /\ client'[c].at = "cut"
            /\ c \in clients[stopping]
  BY <1>1 DEF CloseFanout, FanoutTyped
<1>5. BusTyped' /\ CaptureTyped'
  BY <1>1 DEF CloseFanout, bus, pass, threads, system, fanout, BusTyped, CaptureTyped
<1>6. PassTyped'
  BY <1>1 DEF CloseFanout, PassTyped
<1>7. NodeTyped'
  BY <1>1, NodesAssumption DEF CloseFanout, NodeTyped, BusTyped
<1>8. SystemTyped'
  BY <1>1, <1>3
<1>9. FanoutTyped'
  BY <1>1, <1>2, <1>4 DEF CloseFanout, FanoutTyped
<1>10. Subscribed'
  BY <1>1, <1>2, FS_EmptySet, NodesAssumption DEF CloseFanout, Subscribed, FanoutTyped
<1>11. Idle'
  <2>1. ASSUME NEW n \in Sensors, node'[n] = NoNode
        PROVE  /\ capture'[n].at = "none" /\ acceptor'[n] = None /\ clients'[n] = {}
               /\ \A i \in Slots : substream'[i] # n
    <3>1. CASE n = stopping
      <4>1. capture'[n].at = "none"
        BY <1>1, <3>1 DEF CloseFanout, threads, Idle
      <4>2. acceptor'[n] = None /\ clients'[n] = {}
        BY <1>1, <3>1 DEF CloseFanout, FanoutTyped
      <4>3. \A i \in Slots : substream'[i] # n
        BY <1>3, <3>1, NodesAssumption
      <4> QED
        BY <4>1, <4>2, <4>3
    <3>2. CASE n # stopping
      <4>1. /\ node[n] = NoNode /\ acceptor'[n] = acceptor[n]
            /\ clients'[n] = clients[n] /\ capture'[n] = capture[n]
        BY <1>1, <2>1, <3>2 DEF CloseFanout, NodeTyped, FanoutTyped, threads
      <4>2. \A i \in Slots : substream'[i] # n
        BY <1>1, <1>3, <4>1, NodesAssumption DEF Idle
      <4> QED
        BY <1>1, <4>1, <4>2 DEF Idle
    <3> QED
      BY <3>1, <3>2
  <2>2. pc' # "fanout"
    BY DEF CloseFanout
  <2> QED
    BY <2>1, <2>2 DEF Idle
<1>12. Served'
  <2>1. ASSUME NEW c \in Clients, client'[c].at = "backlog"
        PROVE  client'[c].of \in Sensors /\ ServerOpen(client[c].of)'
    <3>1. client'[c] = client[c] /\ client[c].at = "backlog"
      BY <1>4, <2>1
    <3>2. client[c].of \in Sensors /\ ServerOpen(client[c].of)
      BY <1>1, <3>1 DEF Served
    <3>3. client[c].of # stopping
      BY <3>2 DEF ServerOpen, CloseFanout
    <3>4. node'[client[c].of] = node[client[c].of] /\ stopping' = None
      BY <3>2, <3>3 DEF CloseFanout
    <3> QED
      BY <3>1, <3>2, <3>4, NodesAssumption DEF ServerOpen
  <2>2. ASSUME NEW c \in Clients, NEW s \in Sensors
        PROVE  /\ acceptor'[s] = c <=> client'[c].at = "handled" /\ client'[c].of = s
               /\ c \in clients'[s] <=> client'[c].at = "in" /\ client'[c].of = s
    <3>1. acceptor'[s] = IF s = stopping THEN None ELSE acceptor[s]
      BY <1>1 DEF CloseFanout, FanoutTyped
    <3>2. clients'[s] = IF s = stopping THEN {} ELSE clients[s]
      BY <1>1 DEF CloseFanout, FanoutTyped
    <3>3. acceptor[stopping] = "ended" /\ c # "ended" /\ c # None
      BY NodesAssumption DEF CloseFanout, Joined
    <3>4. /\ acceptor[s] = c <=> client[c].at = "handled" /\ client[c].of = s
          /\ acceptor[stopping] = c <=> client[c].at = "handled" /\ client[c].of = stopping
          /\ c \in clients[s] <=> client[c].at = "in" /\ client[c].of = s
          /\ c \in clients[stopping] <=> client[c].at = "in" /\ client[c].of = stopping
      BY <1>1, <1>2 DEF Served
    <3>5. CASE c \in clients[stopping]
      <4>1. client'[c].at = "cut"
        BY <1>4, <3>5
      <4>2. client[c].at = "in" /\ client[c].of = stopping
        BY <3>4, <3>5
      <4> QED
        BY <3>1, <3>2, <3>3, <3>4, <4>1, <4>2
    <3>6. CASE c \notin clients[stopping]
      <4>1. client'[c] = client[c]
        BY <1>4, <3>6
      <4> QED
        BY <3>1, <3>2, <3>3, <3>4, <3>6, <4>1
    <3> QED
      BY <3>5, <3>6
  <2>3. \A c \in Clients : client'[c].at \in {"handled", "in"} => client'[c].of \in Sensors
    BY <1>1, <1>4 DEF Served
  <2> QED
    BY <2>1, <2>2, <2>3 DEF Served
<1>13. NotYetJoined'
  BY <1>1, <1>4 DEF NotYetJoined
<1>14. NoFrameMissed'
  <2>1. ASSUME NEW s \in Sensors, NEW c \in clients'[s] PROVE s # stopping /\ c \in clients[s]
    BY <1>1, <2>1 DEF CloseFanout, FanoutTyped
  <2>2. ASSUME NEW s \in Sensors, NEW c \in clients'[s] PROVE client'[c] = client[c]
    <3>1. s # stopping /\ c \in clients[s] /\ c \in Clients
      BY <1>1, <2>1 DEF FanoutTyped
    <3>2. client[c].of = s
      BY <1>1, <3>1 DEF Served
    <3>3. c \notin clients[stopping]
      BY <1>1, <1>2, <3>1, <3>2 DEF Served
    <3> QED
      BY <1>4, <3>1, <3>3
  <2>3. frame' = frame
    BY DEF CloseFanout, threads
  <2> QED
    BY <1>1, <2>1, <2>2, <2>3 DEF NoFrameMissed
<1>15. CountersBalanced'
  BY <1>1, <1>3 DEF CloseFanout, threads, CountersBalanced, PublishersCounted
<1> QED
  BY <1>5, <1>6, <1>7, <1>8, <1>9, <1>10, <1>11, <1>12, <1>13, <1>14, <1>15 DEF NodesInv, NodesTyped

LEMMA EndPassKeeps ==
    ASSUME NodesInv, EndPass
    PROVE  NodesInv'
<1>1. /\ BusTyped /\ PassTyped /\ NodeTyped /\ CaptureTyped /\ SystemTyped /\ FanoutTyped
      /\ Subscribed /\ Idle /\ Served /\ NotYetJoined /\ NoFrameMissed /\ CountersBalanced
  BY DEF NodesInv, NodesTyped
<1>2. BusTyped' /\ CaptureTyped' /\ SystemTyped' /\ FanoutTyped' /\ Subscribed' /\ NotYetJoined'
/\ NoFrameMissed' /\ CountersBalanced'
  BY <1>1 DEF EndPass, bus, pass, threads, system, fanout, BusTyped, CaptureTyped, SystemTyped,
      FanoutTyped, Subscribed, NotYetJoined, NoFrameMissed, CountersBalanced
<1>3. PassTyped'
  BY <1>1 DEF EndPass, PassTyped
<1>4. NodeTyped'
  BY <1>1 DEF EndPass, Ending, NodeTyped
<1>5. Idle'
  BY <1>1 DEF EndPass, bus, pass, threads, system, fanout, Idle
<1>6. Served'
  BY <1>1 DEF EndPass, Ending, fanout, Served, ServerOpen
<1> QED
  BY <1>2, <1>3, <1>4, <1>5, <1>6 DEF NodesInv, NodesTyped

\* What every step of a capture thread keeps for the others.
LEMMA CaptureStep ==
    ASSUME NodesInv, NEW s \in Sensors, capture[s].at # "none", NEW r,
           capture' = [capture EXCEPT ![s] = r],
           r \in [at : {"none", "name", "open", "check", "test", "read"},
                  name : Cards \cup {NoCard}, from : Sensors \cup {None}],
           r.at = "open" => r.name \in Cards,
           frame' \in [Sensors -> 0..MaxFrames]
    PROVE  /\ CaptureTyped'
           /\ \A n \in Sensors : capture[n].at = "none" => capture'[n].at = "none"
           /\ node[s] # NoNode
<1>1. capture' \in [Sensors -> [at : {"none", "name", "open", "check", "test", "read"},
                              name : Cards \cup {NoCard}, from : Sensors \cup {None}]]
  BY DEF NodesInv, NodesTyped, CaptureTyped
<1>2. \A n \in Sensors : capture'[n] = IF n = s THEN r ELSE capture[n]
  BY DEF NodesInv, NodesTyped, CaptureTyped
<1>3. CaptureTyped'
  BY <1>1, <1>2 DEF NodesInv, NodesTyped, CaptureTyped
<1>4. \A n \in Sensors : capture[n].at = "none" => capture'[n].at = "none"
  BY <1>2
<1>5. node[s] # NoNode
  BY DEF NodesInv, Idle
<1> QED
  BY <1>3, <1>4, <1>5

\* A session is counted from its first test to its end.
InSession(thread) == thread.at \in {"test", "read"}
Sessions == {n \in Sensors : capture[n].at \in {"test", "read"}}

LEMMA SessionCount ==
    ASSUME NodesInv, NEW s \in Sensors, NEW r, capture' = [capture EXCEPT ![s] = r],
           \/ active' = active /\ (InSession(r) <=> InSession(capture[s]))
           \/ active' = active + 1 /\ InSession(r) /\ ~InSession(capture[s])
           \/ active' = active - 1 /\ ~InSession(r) /\ InSession(capture[s])
    PROVE  active' = Cardinality(Sessions')
<1>1. \A n \in Sensors : capture'[n] = IF n = s THEN r ELSE capture[n]
  BY DEF NodesInv, NodesTyped, CaptureTyped
<1>2. IsFiniteSet(Sessions) /\ active = Cardinality(Sessions) /\ Cardinality(Sessions) \in Nat
  BY NodesAssumption, FS_Subset, FS_CardinalityType DEF NodesInv, CountersBalanced, Sessions
<1>3. CASE InSession(r)
  <2>1. Sessions' = Sessions \cup {s}
    BY <1>1, <1>3 DEF Sessions, InSession
  <2>2. s \in Sessions <=> InSession(capture[s])
    BY DEF Sessions, InSession
  <2>3. Cardinality(Sessions \cup {s}) = IF s \in Sessions THEN Cardinality(Sessions)
                                        ELSE Cardinality(Sessions) + 1
    BY <1>2, FS_AddElement
  <2> QED
    BY <1>2, <1>3, <2>1, <2>2, <2>3
<1>4. CASE ~InSession(r)
  <2>1. Sessions' = Sessions \ {s}
    BY <1>1, <1>4 DEF Sessions, InSession
  <2>2. s \in Sessions <=> InSession(capture[s])
    BY DEF Sessions, InSession
  <2>3. Cardinality(Sessions \ {s}) = IF s \in Sessions THEN Cardinality(Sessions) - 1
                                      ELSE Cardinality(Sessions)
    BY <1>2, FS_RemoveElement
  <2> QED
    BY <1>2, <1>4, <2>1, <2>2, <2>3
<1> QED
  BY <1>3, <1>4

\* A step of a capture thread that publishes nothing.
LEMMA ThreadKeeps ==
    ASSUME NodesInv, NEW s \in Sensors, capture[s].at # "none", NEW r,
           capture' = [capture EXCEPT ![s] = r],
           r \in [at : {"none", "name", "open", "check", "test", "read"},
                  name : Cards \cup {NoCard}, from : Sensors \cup {None}],
           r.at = "open" => r.name \in Cards,
           \/ active' = active /\ (InSession(r) <=> InSession(capture[s]))
           \/ active' = active + 1 /\ InSession(r) /\ ~InSession(capture[s])
           \/ active' = active - 1 /\ ~InSession(r) /\ InSession(capture[s]),
           BusTyped', UNCHANGED frame, ThreadOnly
    PROVE  NodesInv'
<1>1. /\ BusTyped /\ PassTyped /\ NodeTyped /\ CaptureTyped /\ SystemTyped /\ FanoutTyped
      /\ Subscribed /\ Idle /\ Served /\ NotYetJoined /\ NoFrameMissed /\ CountersBalanced
  BY DEF NodesInv, NodesTyped
<1>2. PassTyped' /\ NodeTyped' /\ SystemTyped' /\ FanoutTyped' /\ Subscribed' /\ NotYetJoined'
  BY <1>1 DEF ThreadOnly, pass, system, fanout, PassTyped, NodeTyped, SystemTyped, FanoutTyped,
      Subscribed, NotYetJoined
<1>3. CaptureTyped' /\ \A n \in Sensors : capture[n].at = "none" => capture'[n].at = "none"
  BY <1>1, CaptureStep DEF CaptureTyped
<1>4. Served'
  BY <1>1 DEF ThreadOnly, pass, fanout, Served, ServerOpen
<1>5. Idle'
  BY <1>1, <1>3 DEF ThreadOnly, pass, system, fanout, Idle, NodeTyped
<1>6. NoFrameMissed'
  BY <1>1 DEF ThreadOnly, fanout, NoFrameMissed
<1>7. CountersBalanced'
  BY <1>1, SessionCount DEF ThreadOnly, system, CountersBalanced, Sessions
<1> QED
  BY <1>2, <1>3, <1>4, <1>5, <1>6, <1>7 DEF NodesInv, NodesTyped

\* A node that is bound has the number of a card.
LEMMA NamesCard ==
    ASSUME NodesInv, NEW s \in Sensors, node[s].pcm # NoCard
    PROVE  node[s].pcm \in Cards
<1>1. node[s] # NoNode
  BY DEF NoNode
<1> QED
  BY <1>1 DEF NodesInv, NodesTyped, NodeTyped

LEMMA ReadNameKeeps ==
    ASSUME NodesInv, NEW s \in Sensors, ReadName(s)
    PROVE  NodesInv'
<1>1. /\ BusTyped /\ CaptureTyped /\ NodeTyped /\ CountersBalanced
      /\ capture[s].at # "none" /\ ThreadOnly
  BY DEF NodesInv, NodesTyped, ReadName
<1>2. /\ active \in Int
      /\ capture[s] \in [at : {"none", "name", "open", "check", "test", "read"},
                         name : Cards \cup {NoCard}, from : Sensors \cup {None}]
      /\ \A at \in {"none", "check", "test", "read"}, from \in Sensors \cup {None} :
            [capture[s] EXCEPT !.at = at, !.from = from]
               \in [at : {"none", "name", "open", "check", "test", "read"},
                   name : Cards \cup {NoCard}, from : Sensors \cup {None}]
  <2>1. IsFiniteSet({n \in Sensors : capture[n].at \in {"test", "read"}})
    BY NodesAssumption, FS_Subset
  <2>2. active \in Int
    BY <1>1, <2>1, FS_CardinalityType DEF CountersBalanced
  <2> QED
    BY <1>1, <2>2 DEF CaptureTyped
<1>3. BusTyped' /\ UNCHANGED frame
  BY <1>1, NodesAssumption DEF ReadName, BusTyped, bus, ThreadOnly, Event
<1>4. CASE Started(s)
  <2> DEFINE r == [capture[s] EXCEPT !.at = "open", !.name = node[s].pcm]
  <2>1. capture' = [capture EXCEPT ![s] = r]
    BY <1>1, <1>4 DEF ReadName, CaptureTyped, Set
  <2>2. r \in [at : {"none", "name", "open", "check", "test", "read"},
               name : Cards \cup {NoCard}, from : Sensors \cup {None}]
    BY <1>1, <1>2, <1>4, NamesCard DEF ReadName
  <2>3. active' = active /\ (InSession(r) <=> InSession(capture[s]))
    BY <1>1, <1>4 DEF ReadName, InSession, Set
  <2>4. r.at = "open" => r.name \in Cards
    BY <1>1, <1>2, <1>4, <1>4, NamesCard DEF ReadName
  <2> HIDE DEF r
  <2> QED
    BY <1>1, <1>3, <2>1, <2>2, <2>3, <2>4, ThreadKeeps
<1>5. CASE ~Started(s)
  <2> DEFINE r == [capture[s] EXCEPT !.at = "none"]
  <2>1. capture' = [capture EXCEPT ![s] = r]
    BY <1>1, <1>5 DEF ReadName, CaptureTyped, Set
  <2>2. r \in [at : {"none", "name", "open", "check", "test", "read"},
               name : Cards \cup {NoCard}, from : Sensors \cup {None}]
    BY <1>1, <1>2
  <2>3. active' = active /\ (InSession(r) <=> InSession(capture[s]))
    BY <1>1, <1>5 DEF ReadName, InSession, Set
  <2>4. r.at = "open" => r.name \in Cards
    BY <1>1, <1>2, <1>5
  <2> HIDE DEF r
  <2> QED
    BY <1>1, <1>3, <2>1, <2>2, <2>3, <2>4, ThreadKeeps
<1> QED
  BY <1>1, <1>4, <1>5 DEF ReadName, Set

LEMMA OpenPcmKeeps ==
    ASSUME NodesInv, NEW s \in Sensors, OpenPcm(s)
    PROVE  NodesInv'
<1>1. /\ BusTyped /\ CaptureTyped /\ NodeTyped /\ CountersBalanced
      /\ capture[s].at # "none" /\ ThreadOnly
  BY DEF NodesInv, NodesTyped, OpenPcm
<1>2. /\ active \in Int
      /\ capture[s] \in [at : {"none", "name", "open", "check", "test", "read"},
                         name : Cards \cup {NoCard}, from : Sensors \cup {None}]
      /\ \A at \in {"none", "check", "test", "read"}, from \in Sensors \cup {None} :
            [capture[s] EXCEPT !.at = at, !.from = from]
               \in [at : {"none", "name", "open", "check", "test", "read"},
                   name : Cards \cup {NoCard}, from : Sensors \cup {None}]
  <2>1. IsFiniteSet({n \in Sensors : capture[n].at \in {"test", "read"}})
    BY NodesAssumption, FS_Subset
  <2>2. active \in Int
    BY <1>1, <2>1, FS_CardinalityType DEF CountersBalanced
  <2> QED
    BY <1>1, <2>2 DEF CaptureTyped
<1>3. BusTyped' /\ UNCHANGED frame
  BY <1>1, NodesAssumption DEF OpenPcm, BusTyped, bus, ThreadOnly, Event
<1>4. CASE /\ card[capture[s].name] \in Sensors
            /\ capture' = [capture EXCEPT ![s].at = "check", ![s].from = card[capture[s].name]]
  <2> DEFINE r == [capture[s] EXCEPT !.at = "check", !.from = card[capture[s].name]]
  <2>1. capture' = [capture EXCEPT ![s] = r]
    BY <1>1, <1>4 DEF OpenPcm, CaptureTyped
  <2>2. r \in [at : {"none", "name", "open", "check", "test", "read"},
               name : Cards \cup {NoCard}, from : Sensors \cup {None}]
    BY <1>1, <1>2, <1>4
  <2>3. active' = active /\ (InSession(r) <=> InSession(capture[s]))
    BY <1>1, <1>4 DEF OpenPcm, InSession
  <2>4. r.at = "open" => r.name \in Cards
    BY <1>1, <1>2, <1>4, <1>4
  <2> HIDE DEF r
  <2> QED
    BY <1>1, <1>3, <2>1, <2>2, <2>3, <2>4, ThreadKeeps
<1>5. CASE Reopen(s)
  <2> DEFINE r == [NoCapture EXCEPT !.at = "name"]
  <2>1. capture' = [capture EXCEPT ![s] = r]
    BY <1>1, <1>5 DEF OpenPcm, CaptureTyped, Reopen, NoCapture
  <2>2. r \in [at : {"none", "name", "open", "check", "test", "read"},
               name : Cards \cup {NoCard}, from : Sensors \cup {None}]
    BY <1>1, <1>2, NodesAssumption DEF NoCapture
  <2>3. active' = active /\ (InSession(r) <=> InSession(capture[s]))
    BY <1>1, <1>5 DEF OpenPcm, InSession, Reopen, NoCapture
  <2>4. r.at = "open" => r.name \in Cards
    BY <1>1, <1>2, <1>5, NodesAssumption DEF NoCapture
  <2> HIDE DEF r
  <2> QED
    BY <1>1, <1>3, <2>1, <2>2, <2>3, <2>4, ThreadKeeps
<1>6. card[capture[s].name] \in Sensors \cup {None}
  BY <1>1 DEF OpenPcm, BusTyped, CaptureTyped
<1> QED
  BY <1>1, <1>4, <1>5, <1>6 DEF OpenPcm

LEMMA CheckNameKeeps ==
    ASSUME NodesInv, NEW s \in Sensors, CheckName(s)
    PROVE  NodesInv'
<1>1. /\ BusTyped /\ CaptureTyped /\ NodeTyped /\ CountersBalanced
      /\ capture[s].at # "none" /\ ThreadOnly
  BY DEF NodesInv, NodesTyped, CheckName
<1>2. /\ active \in Int
      /\ capture[s] \in [at : {"none", "name", "open", "check", "test", "read"},
                         name : Cards \cup {NoCard}, from : Sensors \cup {None}]
      /\ \A at \in {"none", "check", "test", "read"}, from \in Sensors \cup {None} :
            [capture[s] EXCEPT !.at = at, !.from = from]
               \in [at : {"none", "name", "open", "check", "test", "read"},
                   name : Cards \cup {NoCard}, from : Sensors \cup {None}]
  <2>1. IsFiniteSet({n \in Sensors : capture[n].at \in {"test", "read"}})
    BY NodesAssumption, FS_Subset
  <2>2. active \in Int
    BY <1>1, <2>1, FS_CardinalityType DEF CountersBalanced
  <2> QED
    BY <1>1, <2>2 DEF CaptureTyped
<1>3. BusTyped' /\ UNCHANGED frame
  BY <1>1, NodesAssumption DEF CheckName, BusTyped, bus, ThreadOnly, Event
<1>4. CASE node[s].pcm = capture[s].name
  <2> DEFINE r == [capture[s] EXCEPT !.at = "test"]
  <2>1. capture' = [capture EXCEPT ![s] = r]
    BY <1>1, <1>4 DEF CheckName, CaptureTyped, Set, Reopen, NoCapture
  <2>2. r \in [at : {"none", "name", "open", "check", "test", "read"},
               name : Cards \cup {NoCard}, from : Sensors \cup {None}]
    BY <1>1, <1>2
  <2>3. active' = active + 1 /\ InSession(r) /\ ~InSession(capture[s])
    BY <1>1, <1>4 DEF CheckName, InSession, Set, Reopen, NoCapture
  <2>4. r.at = "open" => r.name \in Cards
    BY <1>1, <1>2, <1>4
  <2> HIDE DEF r
  <2> QED
    BY <1>1, <1>3, <2>1, <2>2, <2>3, <2>4, ThreadKeeps
<1>5. CASE node[s].pcm # capture[s].name
  <2> DEFINE r == [NoCapture EXCEPT !.at = "name"]
  <2>1. capture' = [capture EXCEPT ![s] = r]
    BY <1>1, <1>5 DEF CheckName, CaptureTyped, Set, Reopen, NoCapture
  <2>2. r \in [at : {"none", "name", "open", "check", "test", "read"},
               name : Cards \cup {NoCard}, from : Sensors \cup {None}]
    BY <1>1, <1>2, NodesAssumption DEF NoCapture
  <2>3. active' = active /\ (InSession(r) <=> InSession(capture[s]))
    BY <1>1, <1>5 DEF CheckName, InSession, Set, Reopen, NoCapture
  <2>4. r.at = "open" => r.name \in Cards
    BY <1>1, <1>2, <1>5, NodesAssumption DEF NoCapture
  <2> HIDE DEF r
  <2> QED
    BY <1>1, <1>3, <2>1, <2>2, <2>3, <2>4, ThreadKeeps
<1> QED
  BY <1>1, <1>4, <1>5 DEF CheckName, Set, Reopen, NoCapture

LEMMA TestNameKeeps ==
    ASSUME NodesInv, NEW s \in Sensors, TestName(s)
    PROVE  NodesInv'
<1>1. /\ BusTyped /\ CaptureTyped /\ NodeTyped /\ CountersBalanced
      /\ capture[s].at # "none" /\ ThreadOnly
  BY DEF NodesInv, NodesTyped, TestName
<1>2. /\ active \in Int
      /\ capture[s] \in [at : {"none", "name", "open", "check", "test", "read"},
                         name : Cards \cup {NoCard}, from : Sensors \cup {None}]
      /\ \A at \in {"none", "check", "test", "read"}, from \in Sensors \cup {None} :
            [capture[s] EXCEPT !.at = at, !.from = from]
               \in [at : {"none", "name", "open", "check", "test", "read"},
                   name : Cards \cup {NoCard}, from : Sensors \cup {None}]
  <2>1. IsFiniteSet({n \in Sensors : capture[n].at \in {"test", "read"}})
    BY NodesAssumption, FS_Subset
  <2>2. active \in Int
    BY <1>1, <2>1, FS_CardinalityType DEF CountersBalanced
  <2> QED
    BY <1>1, <2>2 DEF CaptureTyped
<1>3. BusTyped' /\ UNCHANGED frame
  BY <1>1, NodesAssumption DEF TestName, BusTyped, bus, ThreadOnly, Event
<1>4. CASE Started(s) /\ node[s].pcm = capture[s].name
  <2> DEFINE r == [capture[s] EXCEPT !.at = "read"]
  <2>1. capture' = [capture EXCEPT ![s] = r]
    BY <1>1, <1>4 DEF TestName, CaptureTyped, Set, EndSession, Reopen, NoCapture
  <2>2. r \in [at : {"none", "name", "open", "check", "test", "read"},
               name : Cards \cup {NoCard}, from : Sensors \cup {None}]
    BY <1>1, <1>2
  <2>3. active' = active /\ (InSession(r) <=> InSession(capture[s]))
    BY <1>1, <1>4 DEF TestName, InSession, Set, EndSession, Reopen, NoCapture
  <2>4. r.at = "open" => r.name \in Cards
    BY <1>1, <1>2, <1>4
  <2> HIDE DEF r
  <2> QED
    BY <1>1, <1>3, <2>1, <2>2, <2>3, <2>4, ThreadKeeps
<1>5. CASE ~(Started(s) /\ node[s].pcm = capture[s].name)
  <2> DEFINE r == [NoCapture EXCEPT !.at = "name"]
  <2>1. capture' = [capture EXCEPT ![s] = r]
    BY <1>1, <1>5 DEF TestName, CaptureTyped, Set, EndSession, Reopen, NoCapture
  <2>2. r \in [at : {"none", "name", "open", "check", "test", "read"},
               name : Cards \cup {NoCard}, from : Sensors \cup {None}]
    BY <1>1, <1>2, NodesAssumption DEF NoCapture
  <2>3. active' = active - 1 /\ ~InSession(r) /\ InSession(capture[s])
    BY <1>1, <1>5 DEF TestName, InSession, Set, EndSession, Reopen, NoCapture
  <2>4. r.at = "open" => r.name \in Cards
    BY <1>1, <1>2, <1>5, NodesAssumption DEF NoCapture
  <2> HIDE DEF r
  <2> QED
    BY <1>1, <1>3, <2>1, <2>2, <2>3, <2>4, ThreadKeeps
<1> QED
  BY <1>1, <1>4, <1>5 DEF TestName, Set, EndSession, Reopen, NoCapture

LEMMA ReadPcmKeeps ==
    ASSUME NodesInv, NEW s \in Sensors, ReadPcm(s)
    PROVE  NodesInv'
<1>1. /\ BusTyped /\ CaptureTyped /\ NodeTyped /\ CountersBalanced
      /\ capture[s].at # "none" /\ ThreadOnly
  BY DEF NodesInv, NodesTyped, ReadPcm
<1>2. /\ active \in Int
      /\ capture[s] \in [at : {"none", "name", "open", "check", "test", "read"},
                         name : Cards \cup {NoCard}, from : Sensors \cup {None}]
      /\ \A at \in {"none", "check", "test", "read"}, from \in Sensors \cup {None} :
            [capture[s] EXCEPT !.at = at, !.from = from]
               \in [at : {"none", "name", "open", "check", "test", "read"},
                   name : Cards \cup {NoCard}, from : Sensors \cup {None}]
  <2>1. IsFiniteSet({n \in Sensors : capture[n].at \in {"test", "read"}})
    BY NodesAssumption, FS_Subset
  <2>2. active \in Int
    BY <1>1, <2>1, FS_CardinalityType DEF CountersBalanced
  <2> QED
    BY <1>1, <2>2 DEF CaptureTyped
<1>3. BusTyped' /\ UNCHANGED frame
  BY <1>1, NodesAssumption DEF ReadPcm, BusTyped, bus, ThreadOnly, Event
<1>4. CASE Set(s, "test") /\ UNCHANGED active
  <2> DEFINE r == [capture[s] EXCEPT !.at = "test"]
  <2>1. capture' = [capture EXCEPT ![s] = r]
    BY <1>1, <1>4 DEF ReadPcm, CaptureTyped, Set
  <2>2. r \in [at : {"none", "name", "open", "check", "test", "read"},
               name : Cards \cup {NoCard}, from : Sensors \cup {None}]
    BY <1>1, <1>2
  <2>3. active' = active /\ (InSession(r) <=> InSession(capture[s]))
    BY <1>1, <1>4 DEF ReadPcm, InSession, Set
  <2>4. r.at = "open" => r.name \in Cards
    BY <1>1, <1>2, <1>4
  <2> HIDE DEF r
  <2> QED
    BY <1>1, <1>3, <2>1, <2>2, <2>3, <2>4, ThreadKeeps
<1>5. CASE EndSession(s)
  <2> DEFINE r == [NoCapture EXCEPT !.at = "name"]
  <2>1. capture' = [capture EXCEPT ![s] = r]
    BY <1>1, <1>5 DEF ReadPcm, CaptureTyped, EndSession, Reopen, NoCapture
  <2>2. r \in [at : {"none", "name", "open", "check", "test", "read"},
               name : Cards \cup {NoCard}, from : Sensors \cup {None}]
    BY <1>1, <1>2, NodesAssumption DEF NoCapture
  <2>3. active' = active - 1 /\ ~InSession(r) /\ InSession(capture[s])
    BY <1>1, <1>5 DEF ReadPcm, InSession, EndSession, Reopen, NoCapture
  <2>4. r.at = "open" => r.name \in Cards
    BY <1>1, <1>2, <1>5, NodesAssumption DEF NoCapture
  <2> HIDE DEF r
  <2> QED
    BY <1>1, <1>3, <2>1, <2>2, <2>3, <2>4, ThreadKeeps
<1> QED
  BY <1>1, <1>4, <1>5 DEF ReadPcm, Set

\* Removing clients keeps the others within the limit.
LEMMA SubsetSubscribed ==
    ASSUME NEW C, IsFiniteSet(C), Cardinality(C) <= kMaxAudioSubscribers, NEW B \in SUBSET C
    PROVE  IsFiniteSet(B) /\ Cardinality(B) <= kMaxAudioSubscribers
<1>1. IsFiniteSet(B) /\ Cardinality(B) <= Cardinality(C)
  BY FS_Subset
<1>2. Cardinality(B) \in Nat /\ Cardinality(C) \in Nat
  BY <1>1, FS_CardinalityType
<1> QED
  BY <1>1, <1>2, NodesAssumption

LEMMA PublishKeeps ==
    ASSUME NodesInv, NEW s \in Sensors, Publish(s)
    PROVE  NodesInv'
<1>1. /\ BusTyped /\ PassTyped /\ NodeTyped /\ CaptureTyped /\ SystemTyped /\ FanoutTyped
      /\ Subscribed /\ Idle /\ Served /\ NotYetJoined /\ NoFrameMissed /\ CountersBalanced
  BY DEF NodesInv, NodesTyped
<1>2. PICK whole \in SUBSET clients[s] :
         /\ clients' = [clients EXCEPT ![s] = Kept(s, whole)]
         /\ client' = [c \in Clients |->
              IF c \in whole THEN [client[c] EXCEPT !.last = frame'[s], !.joined = TRUE]
              ELSE IF c \in clients[s] \ Kept(s, whole) THEN [client[c] EXCEPT !.at = "cut"]
              ELSE client[c]]
  BY DEF Publish
<1>3. clients'[s] = whole /\ \A n \in Sensors : n # s => clients'[n] = clients[n]
  BY <1>1, <1>2 DEF Kept, FanoutTyped
<1>4. frame' \in [Sensors -> 0..MaxFrames] /\ \A n \in Sensors : n # s => frame'[n] = frame[n]
  <2>1. frame' = [frame EXCEPT ![s] = frame[s] + 1] /\ frame[s] < MaxFrames
    BY <1>1 DEF Publish, CaptureTyped
  <2>2. frame \in [Sensors -> 0..MaxFrames] /\ frame[s] + 1 \in 0..MaxFrames
    BY <1>1, <2>1, NodesAssumption DEF CaptureTyped
  <2> QED
    BY <2>1, <2>2
<1>5. ASSUME NEW c \in Clients
      PROVE  \/ /\ c \in whole
                /\ client'[c] = [client[c] EXCEPT !.last = frame'[s], !.joined = TRUE]
             \/ /\ c \in clients[s] /\ c \notin whole
                /\ client'[c] = [client[c] EXCEPT !.at = "cut"]
             \/ c \notin clients[s] /\ client'[c] = client[c]
  BY <1>2 DEF Kept
<1>6. /\ node[s] # NoNode /\ node[s].slot \in Slots
      /\ capture' = [capture EXCEPT ![s] = [capture[s] EXCEPT !.at = "test"]]
  <2>1. node[s] # NoNode
    BY <1>1 DEF Publish, Idle
  <2> QED
    BY <1>1, <2>1 DEF Publish, Set, NodeTyped, CaptureTyped
<1>7. /\ SystemTyped' /\ PublishersCounted'
      /\ \A i \in Slots : substream'[i] # substream[i] => substream'[i] \in {s, None}
  <2>1. PublishersCounted
    BY <1>1 DEF CountersBalanced, PublishersCounted
  <2>2. CASE Opened(s, node[s].slot)
    BY <1>1, <1>6, <2>1, <2>2, OpenedCounts
  <2>3. CASE UNCHANGED system
    BY <1>1, <2>1, <2>3 DEF system, SystemTyped, PublishersCounted
  <2>4. CASE CloseSystemAudio(s)
    BY <1>1, <2>1, <2>4, CloseCounts
  <2> QED
    BY <2>2, <2>3, <2>4 DEF Publish, SystemPublish
<1>8. CaptureTyped' /\ \A n \in Sensors : capture[n].at = "none" => capture'[n].at = "none"
  <2> DEFINE r == [capture[s] EXCEPT !.at = "test"]
  <2>1. r \in [at : {"none", "name", "open", "check", "test", "read"},
               name : Cards \cup {NoCard}, from : Sensors \cup {None}]
    BY <1>1 DEF CaptureTyped
  <2>2. r.at # "open" /\ capture[s].at # "none"
    BY <1>1 DEF Publish, CaptureTyped
  <2> HIDE DEF r
  <2> QED
    BY <1>4, <1>6, <2>1, <2>2, CaptureStep DEF r
<1>9. BusTyped' /\ PassTyped' /\ NodeTyped'
  BY <1>1 DEF Publish, bus, pass, BusTyped, PassTyped, NodeTyped
<1>10. FanoutTyped'
  <2>1. \A c \in Clients : client'[c] \in [at : {"out", "backlog", "handled", "in", "cut"},
           of : Sensors \cup {None}, last : 0..MaxFrames, joined : BOOLEAN]
    <3>1. ASSUME NEW c \in Clients
          PROVE  client'[c] \in [at : {"out", "backlog", "handled", "in", "cut"},
                    of : Sensors \cup {None}, last : 0..MaxFrames, joined : BOOLEAN]
      <4>1. client[c] \in [at : {"out", "backlog", "handled", "in", "cut"},
               of : Sensors \cup {None}, last : 0..MaxFrames, joined : BOOLEAN]
        BY <1>1 DEF FanoutTyped
      <4>2. frame'[s] \in 0..MaxFrames
        BY <1>4
      <4>3. [client[c] EXCEPT !.last = frame'[s], !.joined = TRUE]
               \in [at : {"out", "backlog", "handled", "in", "cut"},
                   of : Sensors \cup {None}, last : 0..MaxFrames, joined : BOOLEAN]
        BY <4>1, <4>2
      <4>4. [client[c] EXCEPT !.at = "cut"]
               \in [at : {"out", "backlog", "handled", "in", "cut"},
                   of : Sensors \cup {None}, last : 0..MaxFrames, joined : BOOLEAN]
        BY <4>1
      <4> QED
        BY <1>5, <4>1, <4>3, <4>4
    <3> QED
      BY <3>1
  <2>2. client' = [c \in Clients |-> client'[c]]
    BY <1>2
  <2>3. client' \in [Clients -> [at : {"out", "backlog", "handled", "in", "cut"},
           of : Sensors \cup {None}, last : 0..MaxFrames, joined : BOOLEAN]]
    BY <2>1, <2>2
  <2>4. clients' \in [Sensors -> SUBSET Clients]
    BY <1>1, <1>2 DEF Kept, FanoutTyped
  <2> QED
    BY <1>1, <2>3, <2>4 DEF Publish, FanoutTyped
<1>11. Subscribed'
  <2>1. IsFiniteSet(whole) /\ Cardinality(whole) <= kMaxAudioSubscribers
    BY <1>1, SubsetSubscribed DEF Subscribed
  <2> QED
    BY <1>1, <1>3, <2>1 DEF Subscribed
<1>12. Idle'
  <2>1. ASSUME NEW n \in Sensors, node'[n] = NoNode
        PROVE  /\ capture'[n].at = "none" /\ acceptor'[n] = None /\ clients'[n] = {}
               /\ \A i \in Slots : substream'[i] # n
    <3>1. node[n] = NoNode /\ n # s /\ acceptor'[n] = acceptor[n] /\ n # None
      BY <1>6, <2>1, NodesAssumption DEF Publish
    <3>2. \A i \in Slots : substream'[i] # n
      BY <1>1, <1>7, <3>1 DEF Idle
    <3> QED
      BY <1>1, <1>3, <1>8, <3>1, <3>2 DEF Idle
  <2>2. (pc = "fanout" => capture[stopping].at = "none") /\ (pc = "fanout" => stopping \in Sensors)
    BY <1>1 DEF Idle, NodeTyped
  <2> QED
    BY <1>8, <2>1, <2>2 DEF Idle, Publish, pass
<1>13. Served'
  <2>1. ASSUME NEW c \in Clients, client'[c].at = "backlog"
        PROVE  /\ client'[c].of \in Sensors /\ ServerOpen(client[c].of)'
               /\ client'[c].of = client[c].of
    <3>1. client[c].at = "backlog" /\ client'[c].of = client[c].of
      BY <1>1, <1>5, <2>1 DEF FanoutTyped
    <3> QED
      BY <1>1, <3>1 DEF Served, ServerOpen, Publish, pass
  <2>2. ASSUME NEW c \in Clients, NEW n \in Sensors
        PROVE  /\ acceptor'[n] = c <=> client'[c].at = "handled" /\ client'[c].of = n
               /\ c \in clients'[n] <=> client'[c].at = "in" /\ client'[c].of = n
    <3>1. /\ acceptor[n] = c <=> client[c].at = "handled" /\ client[c].of = n
          /\ c \in clients[n] <=> client[c].at = "in" /\ client[c].of = n
          /\ c \in clients[s] <=> client[c].at = "in" /\ client[c].of = s
      BY <1>1 DEF Served
    <3>2. /\ c \in whole => client'[c].at = client[c].at /\ client'[c].of = client[c].of
          /\ c \in clients[s] /\ c \notin whole =>
               client'[c].at = "cut" /\ client'[c].of = client[c].of
          /\ c \notin clients[s] => client'[c] = client[c]
      BY <1>1, <1>5 DEF FanoutTyped
    <3>8. acceptor' = acceptor
      BY DEF Publish
    <3>3. clients'[n] = IF n = s THEN whole ELSE clients[n]
      BY <1>3
    <3>4. whole \subseteq clients[s]
      BY <1>2
    <3>5. CASE c \in whole
      BY <3>1, <3>2, <3>3, <3>4, <3>5, <3>8
    <3>6. CASE c \in clients[s] /\ c \notin whole
      BY <3>1, <3>2, <3>3, <3>4, <3>6, <3>8
    <3>7. CASE c \notin clients[s]
      BY <3>1, <3>2, <3>3, <3>4, <3>7, <3>8
    <3> QED
      BY <3>5, <3>6, <3>7
  <2>3. \A c \in Clients : client'[c].at \in {"handled", "in"} => client'[c].of \in Sensors
    <3>1. \A c \in Clients : /\ client'[c].of = client[c].of
                             /\ client'[c].at \in {client[c].at, "cut"}
      BY <1>1, <1>5 DEF FanoutTyped
    <3> QED
      BY <1>1, <3>1 DEF Served
  <2> QED
    BY <2>1, <2>2, <2>3 DEF Served
<1>14. NotYetJoined'
  <2>1. \A c \in clients[s] : c \in Clients /\ client[c].at = "in"
    BY <1>1 DEF Served, FanoutTyped
  <2> QED
    <3>1. ASSUME NEW c \in Clients, client'[c].at \in {"backlog", "handled"}
          PROVE  client'[c] = client[c]
      <4>1. client[c] \in [at : {"out", "backlog", "handled", "in", "cut"},
               of : Sensors \cup {None}, last : 0..MaxFrames, joined : BOOLEAN]
        BY <1>1 DEF FanoutTyped
      <4>2. c \in whole => client'[c].at = "in"
        BY <1>2, <1>5, <2>1, <4>1
      <4> QED
        BY <1>5, <3>1, <4>1, <4>2
    <3> QED
      BY <1>1, <3>1 DEF NotYetJoined
<1>15. NoFrameMissed'
  <2>1. ASSUME NEW n \in Sensors, NEW c \in clients'[n], client'[c].joined
        PROVE  client'[c].last = frame'[n]
    <3>1. c \in clients[n] /\ c \in Clients
      BY <1>1, <1>2, <1>3 DEF FanoutTyped
    <3>2. CASE n = s
      BY <1>1, <1>3, <1>5, <2>1, <3>1, <3>2 DEF FanoutTyped
    <3>3. CASE n # s
      <4>1. c \notin clients[s]
        BY <1>1, <3>1, <3>3 DEF Served
      <4>2. client'[c] = client[c] /\ frame'[n] = frame[n]
        BY <1>4, <1>5, <3>1, <3>3, <4>1
      <4> QED
        BY <1>1, <2>1, <3>1, <4>2 DEF NoFrameMissed
    <3> QED
      BY <3>2, <3>3
  <2> QED
    BY <2>1 DEF NoFrameMissed
<1>16. CountersBalanced'
  <2> DEFINE r == [capture[s] EXCEPT !.at = "test"]
  <2>1. InSession(r) /\ InSession(capture[s]) /\ active' = active
    BY <1>1 DEF InSession, Publish, CaptureTyped
  <2> HIDE DEF r
  <2>2. active' = Cardinality(Sessions')
    BY <1>6, <2>1, SessionCount DEF r
  <2> QED
    BY <1>7, <2>2 DEF CountersBalanced, PublishersCounted, Sessions
<1> QED
  BY <1>7, <1>8, <1>9, <1>10, <1>11, <1>12, <1>13, <1>14, <1>15, <1>16 DEF NodesInv, NodesTyped

LEMMA ConnectKeeps ==
    ASSUME NodesInv, NEW s \in Sensors, NEW c \in Clients, Connect(c, s)
    PROVE  NodesInv'
<1>1. /\ BusTyped /\ PassTyped /\ NodeTyped /\ CaptureTyped /\ SystemTyped /\ FanoutTyped
      /\ Subscribed /\ Idle /\ Served /\ NotYetJoined /\ NoFrameMissed /\ CountersBalanced
  BY DEF NodesInv, NodesTyped
<1>2. client' \in [Clients -> [at : {"out", "backlog", "handled", "in", "cut"},
           of : Sensors \cup {None}, last : 0..MaxFrames, joined : BOOLEAN]]
  <2>1. [Outside EXCEPT !.at = "backlog", !.of = s]
           \in [at : {"out", "backlog", "handled", "in", "cut"},
               of : Sensors \cup {None}, last : 0..MaxFrames, joined : BOOLEAN]
    <3>1. 0 \in 0..MaxFrames
      BY NodesAssumption
    <3>2. Outside \in [at : {"out", "backlog", "handled", "in", "cut"},
                       of : Sensors \cup {None}, last : 0..MaxFrames, joined : BOOLEAN]
      BY <3>1 DEF Outside
    <3> QED
      BY <3>2
  <2> QED
    BY <1>1, <2>1 DEF Connect, FanoutTyped
<1>3. /\ client'[c].at = "backlog" /\ client'[c].of = s /\ ~client'[c].joined
      /\ \A d \in Clients : d # c => client'[d] = client[d]
  BY <1>1 DEF Connect, Outside, FanoutTyped
<1>4. BusTyped' /\ PassTyped' /\ NodeTyped' /\ CaptureTyped' /\ SystemTyped' /\ Subscribed' /\
Idle' /\ CountersBalanced'
  BY <1>1 DEF Connect, FanoutOnly, bus, pass, threads, system, fanout, BusTyped, PassTyped,
      NodeTyped, CaptureTyped, SystemTyped, Subscribed, Idle, CountersBalanced
<1>5. FanoutTyped'
  BY <1>1, <1>2 DEF Connect, FanoutTyped
<1>6. Served'
  BY <1>1, <1>3, NodesAssumption DEF Connect, FanoutOnly, pass, Served, ServerOpen
<1>7. NotYetJoined'
  BY <1>1, <1>3 DEF NotYetJoined
<1>8. NoFrameMissed'
  BY <1>1, <1>3 DEF Connect, FanoutOnly, threads, NoFrameMissed, Served, FanoutTyped
<1> QED
  BY <1>4, <1>5, <1>6, <1>7, <1>8 DEF NodesInv, NodesTyped

LEMMA AcceptKeeps ==
    ASSUME NodesInv, NEW s \in Sensors, NEW c \in Clients, Accept(c, s)
    PROVE  NodesInv'
<1>1. /\ BusTyped /\ PassTyped /\ NodeTyped /\ CaptureTyped /\ SystemTyped /\ FanoutTyped
      /\ Subscribed /\ Idle /\ Served /\ NotYetJoined /\ NoFrameMissed /\ CountersBalanced
  BY DEF NodesInv, NodesTyped
<1>2. client' \in [Clients -> [at : {"out", "backlog", "handled", "in", "cut"},
           of : Sensors \cup {None}, last : 0..MaxFrames, joined : BOOLEAN]]
  BY <1>1 DEF Accept, FanoutTyped
<1>3. /\ client'[c].at = "handled" /\ client'[c].of = s /\ client'[c].joined = client[c].joined
      /\ \A d \in Clients : d # c => client'[d] = client[d]
      /\ \A n \in Sensors : acceptor'[n] = IF n = s THEN c ELSE acceptor[n]
  BY <1>1 DEF Accept, FanoutTyped
<1>4. BusTyped' /\ PassTyped' /\ NodeTyped' /\ CaptureTyped' /\ SystemTyped' /\ Subscribed' /\
CountersBalanced'
  BY <1>1 DEF Accept, FanoutOnly, bus, pass, threads, system, fanout, BusTyped, PassTyped,
      NodeTyped, CaptureTyped, SystemTyped, Subscribed, CountersBalanced
<1>5. FanoutTyped'
  BY <1>1, <1>2 DEF Accept, FanoutTyped
<1>6. Idle'
  BY <1>1, <1>3 DEF Accept, FanoutOnly, threads, system, pass, Idle, ServerOpen
<1>7. Served'
  BY <1>1, <1>3, NodesAssumption DEF Accept, FanoutOnly, pass, Served, ServerOpen
<1>8. NotYetJoined'
  BY <1>1, <1>3 DEF NotYetJoined, Accept
<1>9. NoFrameMissed'
  BY <1>1, <1>3 DEF Accept, FanoutOnly, threads, NoFrameMissed, Served, FanoutTyped
<1> QED
  BY <1>4, <1>5, <1>6, <1>7, <1>8, <1>9 DEF NodesInv, NodesTyped

LEMMA HandleKeeps ==
    ASSUME NodesInv, NEW s \in Sensors, NEW c \in Clients, Handle(c, s)
    PROVE  NodesInv'
<1>1. /\ BusTyped /\ PassTyped /\ NodeTyped /\ CaptureTyped /\ SystemTyped /\ FanoutTyped
      /\ Subscribed /\ Idle /\ Served /\ NotYetJoined /\ NoFrameMissed /\ CountersBalanced
  BY DEF NodesInv, NodesTyped
<1>2. client' \in [Clients -> [at : {"out", "backlog", "handled", "in", "cut"},
           of : Sensors \cup {None}, last : 0..MaxFrames, joined : BOOLEAN]]
  BY <1>1 DEF Handle, FanoutTyped
<1>3. /\ client'[c].at \in {"in", "cut"} /\ client'[c].of = client[c].of
      /\ client'[c].joined = client[c].joined
      /\ \A d \in Clients : d # c => client'[d] = client[d]
      /\ \/ /\ clients'[s] = clients[s] \cup {c} /\ client'[c].at = "in"
            /\ Cardinality(clients[s]) < kMaxAudioSubscribers
         \/ clients'[s] = clients[s] /\ client'[c].at = "cut"
      /\ \A n \in Sensors : n # s => clients'[n] = clients[n]
  BY <1>1 DEF Handle, FanoutTyped
<1>4. client[c].at = "handled" /\ client[c].of = s /\ node[s] # NoNode
  BY <1>1, NodesAssumption DEF Handle, Served, Idle
<1>5. BusTyped' /\ PassTyped' /\ NodeTyped' /\ CaptureTyped' /\ SystemTyped' /\ CountersBalanced'
  BY <1>1 DEF Handle, FanoutOnly, bus, pass, threads, system, fanout, BusTyped, PassTyped,
      NodeTyped, CaptureTyped, SystemTyped, CountersBalanced
<1>6. FanoutTyped'
  BY <1>1, <1>2 DEF Handle, FanoutTyped
<1>7. Subscribed'
  <2>1. CASE clients'[s] = clients[s]
    BY <1>1, <1>3, <2>1 DEF Subscribed
  <2>2. CASE clients'[s] = clients[s] \cup {c} /\ Cardinality(clients[s]) < kMaxAudioSubscribers
    <3>1. /\ IsFiniteSet(clients[s]) /\ Cardinality(clients[s]) \in Nat
      BY <1>1, FS_CardinalityType DEF Subscribed
    <3>2. /\ IsFiniteSet(clients[s] \cup {c})
          /\ Cardinality(clients[s] \cup {c}) =
               IF c \in clients[s] THEN Cardinality(clients[s]) ELSE Cardinality(clients[s]) + 1
      BY <3>1, FS_AddElement
    <3>3. Cardinality(clients'[s]) <= kMaxAudioSubscribers
      BY <2>2, <3>1, <3>2, NodesAssumption
    <3> QED
      BY <1>1, <1>3, <2>2, <3>2, <3>3 DEF Subscribed
  <2> QED
    BY <1>3, <2>1, <2>2
<1>8. Idle'
  BY <1>1, <1>3, <1>4 DEF FanoutOnly, threads, system, pass, Idle, Handle
<1>9. Served'
  <2>1. ASSUME NEW d \in Clients, client'[d].at = "backlog"
        PROVE  /\ client'[d].of \in Sensors /\ ServerOpen(client[d].of)'
               /\ client'[d].of = client[d].of
    BY <1>1, <1>3, <2>1 DEF Served, ServerOpen, Handle, FanoutOnly, pass
  <2>2. ASSUME NEW d \in Clients, NEW n \in Sensors
        PROVE  /\ acceptor'[n] = d <=> client'[d].at = "handled" /\ client'[d].of = n
               /\ d \in clients'[n] <=> client'[d].at = "in" /\ client'[d].of = n
    <3>1. /\ acceptor[n] = d <=> client[d].at = "handled" /\ client[d].of = n
          /\ d \in clients[n] <=> client[d].at = "in" /\ client[d].of = n
          /\ c \in clients[n] <=> client[c].at = "in" /\ client[c].of = n
          /\ acceptor[s] = d <=> client[d].at = "handled" /\ client[d].of = s
          /\ d \notin {"accept", "ended"}
      BY <1>1, NodesAssumption DEF Served
    <3>2. acceptor[s] = c /\ acceptor'[s] \in {"accept", "ended"} /\ \A m \in Sensors : m # s =>
    acceptor'[m] = acceptor[m]
      BY <1>1 DEF Handle, FanoutTyped
    <3>3. CASE d = c
      BY <1>3, <1>4, <3>1, <3>2, <3>3
    <3>4. CASE d # c
      BY <1>3, <1>4, <3>1, <3>2, <3>4
    <3> QED
      BY <3>3, <3>4
  <2>3. \A d \in Clients : client'[d].at \in {"handled", "in"} => client'[d].of \in Sensors
    <3>1. client'[c].of \in Sensors
      BY <1>3, <1>4
    <3>2. \A d \in Clients : d # c => client'[d] = client[d]
      BY <1>3
    <3> QED
      BY <1>1, <3>1, <3>2 DEF Served
  <2> QED
    BY <2>1, <2>2, <2>3 DEF Served
<1>10. NotYetJoined'
  BY <1>1, <1>3 DEF NotYetJoined
<1>11. NoFrameMissed'
  <2>1. ASSUME NEW n \in Sensors, NEW d \in clients'[n], client'[d].joined
        PROVE  client'[d].last = frame'[n]
    <3>1. d # c /\ d \in clients[n]
      BY <1>1, <1>3, <1>4, <2>1 DEF NotYetJoined, Served
    <3> QED
      BY <1>1, <1>3, <2>1, <3>1 DEF NoFrameMissed, FanoutTyped, Handle, FanoutOnly, threads
  <2> QED
    BY <2>1 DEF NoFrameMissed
<1> QED
  BY <1>5, <1>6, <1>7, <1>8, <1>9, <1>10, <1>11 DEF NodesInv, NodesTyped

LEMMA AcceptEndsKeeps ==
    ASSUME NodesInv, NEW s \in Sensors, AcceptEnds(s)
    PROVE  NodesInv'
<1>1. /\ BusTyped /\ PassTyped /\ NodeTyped /\ CaptureTyped /\ SystemTyped /\ FanoutTyped
      /\ Subscribed /\ Idle /\ Served /\ NotYetJoined /\ NoFrameMissed /\ CountersBalanced
  BY DEF NodesInv, NodesTyped
<1>2. BusTyped' /\ PassTyped' /\ NodeTyped' /\ CaptureTyped' /\ SystemTyped' /\ Subscribed' /\
NotYetJoined' /\ NoFrameMissed' /\ CountersBalanced'
  BY <1>1 DEF AcceptEnds, FanoutOnly, bus, pass, threads, system, fanout, BusTyped, PassTyped,
      NodeTyped, CaptureTyped, SystemTyped, Subscribed, NotYetJoined, NoFrameMissed,
      CountersBalanced
<1>3. FanoutTyped'
  BY <1>1 DEF AcceptEnds, FanoutOnly, bus, pass, threads, system, fanout, FanoutTyped
<1>4. Idle'
  BY <1>1, NodesAssumption DEF AcceptEnds, FanoutOnly, threads, system, pass, Idle, FanoutTyped,
      None
<1>5. Served'
  BY <1>1, NodesAssumption DEF AcceptEnds, FanoutOnly, pass, Served, ServerOpen, FanoutTyped
<1> QED
  BY <1>2, <1>3, <1>4, <1>5 DEF NodesInv, NodesTyped

LEMMA NodesInvInit == Init => NodesInv
<1> SUFFICES ASSUME Init PROVE NodesInv
  OBVIOUS
<1>1. NodesTyped
  <2>1. Order[1] \in Sensors
    <3>1. Cardinality(Sensors) \in Nat /\ Cardinality(Sensors) # 0
      BY NodesAssumption, FS_CardinalityType, FS_EmptySet
    <3> QED
      BY <3>1, NodesAssumption
  <2>2. BusTyped
    <3>1. present \subseteq Sensors /\ camera = present /\ run = TRUE /\ events \in 0..MaxEvents
      BY <2>1, NodesAssumption DEF Init
    <3>2. card \in [Cards -> present \cup {None}]
      BY DEF Init
    <3> QED
      BY <3>1, <3>2 DEF BusTyped
  <2>3. PassTyped /\ SystemTyped
    BY DEF Init, PassTyped, SystemTyped
  <2>4. NodeTyped
    BY NodesAssumption DEF Init, NodeTyped
  <2>5. CaptureTyped
    BY NodesAssumption DEF Init, CaptureTyped, NoCapture
  <2>6. FanoutTyped
    <3>1. Outside \in [at : {"out", "backlog", "handled", "in", "cut"},
                       of : Sensors \cup {None}, last : 0..MaxFrames, joined : BOOLEAN]
      <4>1. 0 \in 0..MaxFrames
        BY NodesAssumption
      <4> QED
        BY <4>1 DEF Outside
    <3> QED
      BY <3>1 DEF Init, FanoutTyped
  <2> QED
    BY <2>2, <2>3, <2>4, <2>5, <2>6 DEF NodesTyped
<1>2. Subscribed
  BY FS_EmptySet, NodesAssumption DEF Init, Subscribed
<1>3. Idle
  BY NodesAssumption DEF Init, Idle, NoCapture
<1>4. Served /\ NotYetJoined
  <2>1. \A c \in Clients : client[c].at = "out" /\ c # None
    BY NodesAssumption DEF Init, Outside
  <2> QED
    BY <2>1 DEF Init, Served, NotYetJoined
<1>5. NoFrameMissed
  BY DEF Init, NoFrameMissed
<1>6. CountersBalanced
  <2>1. {s \in Sensors : capture[s].at \in {"test", "read"}} = {}
    BY DEF Init, NoCapture
  <2>2. {i \in Slots : substream[i] # None} = {}
    BY DEF Init
  <2> QED
    BY <2>1, <2>2, FS_EmptySet DEF Init, CountersBalanced
<1> QED
  BY <1>1, <1>2, <1>3, <1>4, <1>5, <1>6 DEF NodesInv

LEMMA NodesInvStep == NodesInv /\ [Next]_vars => NodesInv'
<1> SUFFICES ASSUME NodesInv, [Next]_vars PROVE NodesInv'
  OBVIOUS
<1>1. CASE Stop
  BY <1>1, StopKeeps
<1>2. CASE Coordinator
  BY <1>2, LookKeeps, VisitedKeeps, CaptureJoinedKeeps, CloseFanoutKeeps, EndPassKeeps,
     VisitKeeps, StopNodeKeeps DEF Coordinator
<1>3. ASSUME NEW s \in Sensors, Appear(s) \/ Disappear(s) PROVE NodesInv'
  BY <1>3, AppearKeeps, DisappearKeeps
<1>4. ASSUME NEW s \in Sensors, Capture(s) PROVE NodesInv'
  BY <1>4, ReadNameKeeps, OpenPcmKeeps, CheckNameKeeps, TestNameKeeps, ReadPcmKeeps, PublishKeeps
     DEF Capture
<1>5. ASSUME NEW s \in Sensors, Acceptor(s) PROVE NodesInv'
  BY <1>5, AcceptEndsKeeps, AcceptKeeps, HandleKeeps DEF Acceptor
<1>6. ASSUME NEW s \in Sensors, NEW c \in Clients, Connect(c, s) PROVE NodesInv'
  BY <1>6, ConnectKeeps
<1>7. CASE UNCHANGED vars
  BY <1>7 DEF vars, bus, pass, threads, system, fanout, NodesInv, NodesTyped, BusTyped, PassTyped,
      NodeTyped, CaptureTyped, SystemTyped, FanoutTyped, Subscribed, Idle, Served, ServerOpen,
      NotYetJoined, NoFrameMissed, CountersBalanced
<1> QED
  BY <1>1, <1>2, <1>3, <1>4, <1>5, <1>6, <1>7 DEF Next, Done

\* The invariant of the nodes: where each client is, what a node that is gone has given
\* back, and that the counters of the status count (audio_coordinator_loop, AudioNode).
THEOREM NodesInvariance == Spec => []NodesInv
BY NodesInvInit, NodesInvStep, PTL DEF Spec

\* Every variable of the audio nodes has its type, the numbers of the status
\* file stay in their ranges and no fan-out has more than its clients
\* (audio_coordinator_loop and the threads of audio_bridge.cpp).
THEOREM NodesTypeCorrect == Spec => []TypeOK
<1>1. NodesInv => TypeOK
  <2> SUFFICES ASSUME NodesInv PROVE TypeOK
    OBVIOUS
  <2>1. active \in 0..Cardinality(Sensors)
    <3> DEFINE S == {s \in Sensors : capture[s].at \in {"test", "read"}}
    <3>1. S \subseteq Sensors /\ active = Cardinality(S)
      BY DEF NodesInv, CountersBalanced
    <3>2. IsFiniteSet(S) /\ Cardinality(S) <= Cardinality(Sensors)
      BY <3>1, NodesAssumption, FS_Subset
    <3> HIDE DEF S
    <3>3. Cardinality(S) \in Nat /\ Cardinality(Sensors) \in Nat
      BY <3>2, NodesAssumption, FS_CardinalityType
    <3> QED
      BY <3>1, <3>2, <3>3
  <2>2. publishers \in 0..kSystemAudioSlots
    <3> DEFINE S == {i \in Slots : substream[i] # None}
    <3>1. S \subseteq Slots /\ publishers = Cardinality(S)
      BY DEF NodesInv, CountersBalanced
    <3>2. IsFiniteSet(S) /\ Cardinality(S) <= Cardinality(Slots)
      BY <3>1, SlotsKnown, FS_Subset
    <3>3. Cardinality(Slots) = kSystemAudioSlots
      BY FS_Interval, NodesAssumption DEF Slots
    <3> HIDE DEF S
    <3>4. Cardinality(S) \in Nat /\ kSystemAudioSlots \in Nat
      BY <3>2, NodesAssumption, FS_CardinalityType
    <3> QED
      BY <3>1, <3>2, <3>3, <3>4
  <2> QED
    BY <2>1, <2>2 DEF NodesInv, NodesTyped, BusTyped, PassTyped, NodeTyped, CaptureTyped,
        SystemTyped, FanoutTyped, Subscribed, TypeOK
<1> QED
  BY <1>1, NodesInvariance, PTL

\* The numbers of the status file are those of the threads and substreams that
\* run, whatever the number of sensors (active_capture_sessions and
\* system_audio_publishers of audio_bridge.cpp).
THEOREM CountersFollowThreads == Spec => []CountersBalanced
<1>1. NodesInv => CountersBalanced
  BY DEF NodesInv
<1> QED
  BY <1>1, NodesInvariance, PTL

\* No client that stays misses a frame, whatever the number of sensors and of
\* clients (Fanout::publish and Fanout::accept_loop).
THEOREM ClientsMissNoFrame == Spec => []NoFrameMissed
<1>1. NodesInv => NoFrameMissed
  BY DEF NodesInv
<1> QED
  BY <1>1, NodesInvariance, PTL

\* When a node is gone, so are its threads, its substream and its clients, in
\* whatever order they came and went (AudioNode::stop, Fanout::stop).
THEOREM StoppedNodesLeaveNothing == Spec => []StopLeavesNothing
<1>1. NodesInv => StopLeavesNothing
  <2> SUFFICES ASSUME NodesInv, NEW s \in Sensors, node[s] = NoNode
               PROVE  /\ capture[s].at = "none" /\ acceptor[s] = None /\ Holds(s) = {}
                      /\ \A c \in Clients : client[c].of = s => client[c].at \in {"out", "cut"}
    BY DEF StopLeavesNothing
  <2>1. capture[s].at = "none" /\ acceptor[s] = None /\ clients[s] = {}
    BY DEF NodesInv, Idle
  <2>2. Holds(s) = {}
    BY DEF NodesInv, Idle, Holds
  <2>3. ASSUME NEW c \in Clients, client[c].of = s PROVE client[c].at \in {"out", "cut"}
    <3>1. c # None /\ client[c].at \in {"out", "backlog", "handled", "in", "cut"}
      BY NodesAssumption DEF NodesInv, NodesTyped, FanoutTyped
    <3> QED
      BY <2>1, <2>3, <3>1 DEF NodesInv, Served, ServerOpen
  <2> QED
    BY <2>1, <2>2, <2>3
<1> QED
  BY <1>1, NodesInvariance, PTL

-----------------------------------------------------------------------------
(* The firmware loader.                                                    *)

\* Where upload_firmware is in a session with a device.
InUpload(place) == place \notin {"scan", "open", "pick", "rest", "done"}

LoaderTyped ==
    /\ lPc \in {"scan", "open", "pick", "probe", "version", "probed", "page",
               "written", "launch", "final", "rest", "done"}
    /\ lCur \in Sensors \cup {L!None} /\ (lCur # L!None <=> InUpload(lPc))
    /\ lAudio \in [Sensors -> {"out", "boot", "leaving", "uac"}]
    /\ lBoot \in [Sensors -> {L!None, "good", "dead"}]
    /\ lImage \in [Sensors -> SUBSET (1..Pages)]
    /\ lPipe \in [Sensors -> Seq(L!Packet)]
    /\ lTag \in 0..(Pages + 2)
    /\ lPc \in {"probe", "version", "probed"} => lTag = 1
    /\ lPc = "page" => lTag \in 2..(Pages + 2)
    /\ lPc = "written" => lTag \in 2..(Pages + 1)

\* A good handle is one of a boot ROM, which leaves by the launch alone.
GoodIsBoot ==
    \A s \in Sensors : lBoot[s] = "good" =>
        lAudio[s] = "boot" \/ (s = lCur /\ lPc = "final" /\ lAudio[s] = "leaving")

\* The pages before the one of the tag are in the device, or an earlier status
\* stood in for one.
AckedAreWritten ==
    lPc \in {"page", "written"} /\ lBoot[lCur] = "good" =>
        1..(lTag - 2) \subseteq lImage[lCur] \/ lCur \in lMixed

\* A status that answers the page that was sent last says that it is there.
OwnStatusIsTrue ==
    lPc = "written" /\ lBoot[lCur] = "good" =>
        \A i \in DOMAIN lPipe[lCur] :
            lPipe[lCur][i].own /\ lPipe[lCur][i].kind = "ok" => lTag - 1 \in lImage[lCur]

LoaderInv ==
    /\ LoaderTyped /\ GoodIsBoot /\ AckedAreWritten /\ OwnStatusIsTrue
    /\ L!RunsWholeImage

\* The replies to a command come after all others, which are no longer its own.
LEMMA AnswerAppends ==
    ASSUME NEW q \in Seq(L!Packet), NEW packets \in Seq(L!Packet)
    PROVE  LET r == [i \in DOMAIN q |-> [q[i] EXCEPT !.own = FALSE]] \o packets
           IN  /\ r \in Seq(L!Packet)
               /\ \A i \in DOMAIN r : r[i].own =>
                     \E j \in DOMAIN packets : r[i].kind = packets[j].kind
<1> DEFINE old == [i \in DOMAIN q |-> [q[i] EXCEPT !.own = FALSE]]
           r == old \o packets
<1>1. \A i \in DOMAIN q : old[i] \in L!Packet /\ old[i].own = FALSE
  <2>1. ASSUME NEW i \in DOMAIN q
        PROVE  LET p == [q[i] EXCEPT !.own = FALSE] IN p \in L!Packet /\ p.own = FALSE
    <3>1. q[i] \in L!Packet
      BY <2>1
    <3> QED
      BY <3>1 DEF L!Packet
  <2> QED
    BY <2>1
<1>2. old \in Seq(L!Packet) /\ Len(old) = Len(q)
  <2>1. DOMAIN q = 1..Len(q) /\ Len(q) \in Nat
    OBVIOUS
  <2>2. old \in [1..Len(q) -> L!Packet]
    BY <1>1, <2>1
  <2> QED
    BY <2>1, <2>2
<1>3. DOMAIN old = DOMAIN q
  OBVIOUS
<1> HIDE DEF old
<1>4. r \in Seq(L!Packet)
  BY <1>2
<1>5. ASSUME NEW i \in DOMAIN r, r[i].own
      PROVE  \E j \in DOMAIN packets : r[i].kind = packets[j].kind
  <2>1. CASE i <= Len(old)
    <3>1. r[i] = old[i] /\ i \in DOMAIN q
      BY <1>2, <1>3, <1>5, <2>1
    <3> QED
      BY <1>1, <1>5, <3>1
  <2>2. CASE ~(i <= Len(old))
    <3>1. i - Len(old) \in DOMAIN packets /\ r[i] = packets[i - Len(old)]
      BY <1>2, <1>5, <2>2
    <3> QED
      BY <3>1
  <2> QED
    BY <1>2, <1>5, <2>1, <2>2
<1> QED
  BY <1>4, <1>5 DEF old

LEMMA ReplyTyped ==
    ASSUME LoaderTyped, lTag # 0, NEW kind \in {"version", "ok", "error"}
    PROVE  L!Reply(kind) \in L!Packet /\ L!Reply(kind).kind = kind
BY LoaderAssumption DEF LoaderTyped, L!Reply, L!Packet, L!LoaderConstants

\* The command of a session is answered: the pipe of its device alone changes.
LEMMA Answered ==
    ASSUME LoaderTyped, lCur \in Sensors, NEW packets \in Seq(L!Packet), L!Answer(packets)
    PROVE  /\ lPipe' \in [Sensors -> Seq(L!Packet)]
           /\ \A i \in DOMAIN lPipe'[lCur] : lPipe'[lCur][i].own =>
                 \E j \in DOMAIN packets : lPipe'[lCur][i].kind = packets[j].kind
<1> DEFINE r == [i \in DOMAIN lPipe[lCur] |-> [lPipe[lCur][i] EXCEPT !.own = FALSE]] \o packets
<1>1. lPipe[lCur] \in Seq(L!Packet)
  BY DEF LoaderTyped
<1>2. /\ r \in Seq(L!Packet)
      /\ \A i \in DOMAIN r : r[i].own => \E j \in DOMAIN packets : r[i].kind = packets[j].kind
  BY <1>1, AnswerAppends
<1>3. lPipe' = [lPipe EXCEPT ![lCur] = r]
  BY DEF L!Answer
<1> HIDE DEF r
<1>4. lPipe'[lCur] = r
  BY <1>3 DEF LoaderTyped
<1> QED
  BY <1>2, <1>3, <1>4 DEF LoaderTyped

\* upload_firmware returns.
LEMMA SessionEnds ==
    ASSUME LoaderInv, InUpload(lPc), lPc' = "pick", lCur' = L!None,
           lBoot' = [lBoot EXCEPT ![lCur] = L!None], lPipe' \in [Sensors -> Seq(L!Packet)],
           UNCHANGED <<lRun, lAudio, lImage, lMixed, lTag>>
    PROVE  LoaderInv'
<1>1. LoaderTyped'
  BY DEF LoaderInv, LoaderTyped, InUpload
<1>2. \A s \in Sensors : lBoot'[s] = IF s = lCur THEN L!None ELSE lBoot[s]
  BY DEF LoaderInv, LoaderTyped
<1>3. GoodIsBoot'
  BY <1>2 DEF LoaderInv, GoodIsBoot, L!None
<1>4. AckedAreWritten' /\ OwnStatusIsTrue' /\ L!RunsWholeImage'
  BY DEF LoaderInv, AckedAreWritten, OwnStatusIsTrue, L!RunsWholeImage
<1> QED
  BY <1>1, <1>3, <1>4 DEF LoaderInv

LEMMA FailEnds ==
    ASSUME LoaderInv, InUpload(lPc), L!Fail, lPipe' \in [Sensors -> Seq(L!Packet)],
           UNCHANGED <<lRun, lAudio, lImage, lMixed>>
    PROVE  LoaderInv'
BY SessionEnds DEF L!Fail

LEMMA SucceedEnds ==
    ASSUME LoaderInv, InUpload(lPc), L!Succeed, lPipe' \in [Sensors -> Seq(L!Packet)],
           UNCHANGED <<lRun, lAudio, lImage, lMixed>>
    PROVE  LoaderInv'
BY SessionEnds DEF L!Succeed

LEMMA TransferFails ==
    ASSUME LoaderInv, InUpload(lPc), L!WriteFails \/ L!ReadFails
    PROVE  LoaderInv'
<1>1. /\ L!Fail /\ UNCHANGED <<lRun, lAudio, lImage, lMixed>>
      /\ lPipe' \in [Sensors -> Seq(L!Packet)]
  BY DEF L!WriteFails, L!ReadFails, L!world, L!bus, LoaderInv, LoaderTyped
<1> QED
  BY <1>1, FailEnds

LEMMA PlugKeeps ==
    ASSUME LoaderInv, NEW s \in Sensors, L!Plug(s)
    PROVE  LoaderInv'
<1>1. /\ LoaderTyped /\ GoodIsBoot /\ AckedAreWritten /\ OwnStatusIsTrue /\ L!RunsWholeImage
  BY DEF LoaderInv
<1>2. LoaderTyped'
  <2>1. <<>> \in Seq(L!Packet)
    OBVIOUS
  <2>2. lPipe' \in [Sensors -> Seq(L!Packet)]
    BY <1>1, <2>1 DEF L!Plug, L!Reset, LoaderTyped
  <2>3. lImage' \in [Sensors -> SUBSET (1..Pages)]
    BY <1>1 DEF L!Plug, L!Reset, LoaderTyped
  <2> QED
    BY <1>1, <2>2, <2>3 DEF L!Plug, LoaderTyped
<1>3. lBoot'[s] # "good" /\ lAudio'[s] \in {"out", "boot"}
  BY <1>1 DEF L!Plug, L!Reset, LoaderTyped, GoodIsBoot, L!None
<1>4. \A t \in Sensors : t # s =>
         /\ lBoot'[t] = lBoot[t] /\ lAudio'[t] = lAudio[t]
         /\ lImage'[t] = lImage[t] /\ lPipe'[t] = lPipe[t]
         /\ (t \in lMixed' <=> t \in lMixed)
  BY <1>1 DEF L!Plug, L!Reset, LoaderTyped
<1>5. UNCHANGED <<lRun, lPc, lCur, lTag>>
  BY DEF L!Plug, L!pass
<1>6. GoodIsBoot'
  BY <1>1, <1>3, <1>4, <1>5 DEF GoodIsBoot
<1>7. AckedAreWritten' /\ OwnStatusIsTrue'
  <2>1. lPc \in {"page", "written"} => lCur \in Sensors
    BY <1>1 DEF LoaderTyped, InUpload
  <2> QED
    BY <1>1, <1>3, <1>4, <1>5, <2>1 DEF AckedAreWritten, OwnStatusIsTrue
<1>8. L!RunsWholeImage'
  BY <1>1, <1>3, <1>4, <1>5 DEF L!RunsWholeImage
<1> QED
  BY <1>2, <1>6, <1>7, <1>8 DEF LoaderInv

LEMMA UnplugKeeps ==
    ASSUME LoaderInv, NEW s \in Sensors, L!Unplug(s)
    PROVE  LoaderInv'
<1>1. /\ LoaderTyped /\ GoodIsBoot /\ AckedAreWritten /\ OwnStatusIsTrue /\ L!RunsWholeImage
  BY DEF LoaderInv
<1>2. LoaderTyped'
  <2>1. <<>> \in Seq(L!Packet)
    OBVIOUS
  <2>2. lPipe' \in [Sensors -> Seq(L!Packet)]
    BY <1>1, <2>1 DEF L!Unplug, L!Reset, LoaderTyped
  <2>3. lImage' \in [Sensors -> SUBSET (1..Pages)]
    BY <1>1 DEF L!Unplug, L!Reset, LoaderTyped
  <2> QED
    BY <1>1, <2>2, <2>3 DEF L!Unplug, LoaderTyped
<1>3. lBoot'[s] # "good" /\ lAudio'[s] \in {"out", "boot"}
  BY <1>1 DEF L!Unplug, L!Reset, LoaderTyped, GoodIsBoot, L!None
<1>4. \A t \in Sensors : t # s =>
         /\ lBoot'[t] = lBoot[t] /\ lAudio'[t] = lAudio[t]
         /\ lImage'[t] = lImage[t] /\ lPipe'[t] = lPipe[t]
         /\ (t \in lMixed' <=> t \in lMixed)
  BY <1>1 DEF L!Unplug, L!Reset, LoaderTyped
<1>5. UNCHANGED <<lRun, lPc, lCur, lTag>>
  BY DEF L!Unplug, L!pass
<1>6. GoodIsBoot'
  BY <1>1, <1>3, <1>4, <1>5 DEF GoodIsBoot
<1>7. AckedAreWritten' /\ OwnStatusIsTrue'
  <2>1. lPc \in {"page", "written"} => lCur \in Sensors
    BY <1>1 DEF LoaderTyped, InUpload
  <2> QED
    BY <1>1, <1>3, <1>4, <1>5, <2>1 DEF AckedAreWritten, OwnStatusIsTrue
<1>8. L!RunsWholeImage'
  BY <1>1, <1>3, <1>4, <1>5 DEF L!RunsWholeImage
<1> QED
  BY <1>2, <1>6, <1>7, <1>8 DEF LoaderInv

LEMMA ReenumerateKeeps ==
    ASSUME LoaderInv, NEW s \in Sensors, L!Reenumerate(s)
    PROVE  LoaderInv'
<1>1. /\ LoaderTyped /\ GoodIsBoot /\ AckedAreWritten /\ OwnStatusIsTrue /\ L!RunsWholeImage
  BY DEF LoaderInv
<1>2. LoaderTyped'
  <2>1. <<>> \in Seq(L!Packet)
    OBVIOUS
  <2>2. lPipe' \in [Sensors -> Seq(L!Packet)]
    BY <1>1, <2>1 DEF L!Reenumerate, L!Reset, LoaderTyped
  <2>3. lImage' \in [Sensors -> SUBSET (1..Pages)]
    BY <1>1 DEF L!Reenumerate, L!Reset, LoaderTyped
  <2> QED
    BY <1>1, <2>2, <2>3 DEF L!Reenumerate, LoaderTyped
<1>3. lBoot'[s] # "good"
  BY <1>1 DEF L!Reenumerate, LoaderTyped, L!None
<1>4. \A t \in Sensors : t # s =>
         /\ lBoot'[t] = lBoot[t] /\ lAudio'[t] = lAudio[t]
         /\ lImage'[t] = lImage[t] /\ lPipe'[t] = lPipe[t]
         /\ (t \in lMixed' <=> t \in lMixed)
  BY <1>1 DEF L!Reenumerate, L!Reset, LoaderTyped
<1>5. UNCHANGED <<lRun, lPc, lCur, lTag>>
  BY DEF L!Reenumerate, L!pass
<1>6. \/ lAudio'[s] = "boot"
      \/ lAudio[s] = "leaving" /\ UNCHANGED <<lImage, lMixed>>
  BY <1>1 DEF L!Reenumerate, LoaderTyped
<1>7. GoodIsBoot'
  BY <1>1, <1>3, <1>4, <1>5 DEF GoodIsBoot
<1>8. AckedAreWritten' /\ OwnStatusIsTrue'
  <2>1. lPc \in {"page", "written"} => lCur \in Sensors
    BY <1>1 DEF LoaderTyped, InUpload
  <2> QED
    BY <1>1, <1>3, <1>4, <1>5, <2>1 DEF AckedAreWritten, OwnStatusIsTrue
<1>9. L!RunsWholeImage'
  BY <1>1, <1>4, <1>5, <1>6 DEF L!RunsWholeImage
<1> QED
  BY <1>2, <1>7, <1>8, <1>9 DEF LoaderInv

\* Steps of the loader outside of a session.
LEMMA AsideKeeps ==
    ASSUME LoaderInv, \/ L!Stop \/ L!Scan \/ L!OpenBootDevices \/ L!Rest \/ L!EndPass \/ L!Finish
           \/ \E s \in Sensors : L!CameraAppears(s) \/ L!Upload(s)
    PROVE  LoaderInv'
<1>1. /\ LoaderTyped /\ GoodIsBoot /\ AckedAreWritten /\ OwnStatusIsTrue /\ L!RunsWholeImage
  BY DEF LoaderInv
<1>2. UNCHANGED <<lAudio, lImage, lPipe, lMixed>> /\ (lRun' => lRun)
  BY DEF L!Stop, L!Scan, L!OpenBootDevices, L!Rest, L!EndPass, L!Finish, L!CameraAppears, L!Upload,
      L!world, L!bus, L!pass
<1>3. \/ UNCHANGED <<lPc, lCur, lTag, lBoot>>
      \/ /\ ~InUpload(lPc) /\ ~InUpload(lPc') /\ UNCHANGED <<lCur, lTag>>
         /\ lPc' \in {"open", "pick", "rest", "scan", "done"}
         /\ \/ UNCHANGED lBoot \/ lBoot' = [s \in Sensors |-> L!None]
            \/ \E opened \in SUBSET {s \in Sensors : lAudio[s] = "boot"} :
                  lBoot' = [s \in Sensors |-> IF s \in opened THEN "good" ELSE L!None]
      \/ \E s \in Sensors : /\ lPc = "pick" /\ lCur' = s /\ lTag' = 1 /\ lPc' = "probe"
                           /\ UNCHANGED lBoot
  BY <1>1 DEF L!Stop, L!Scan, L!OpenBootDevices, L!Rest, L!EndPass, L!Finish, L!CameraAppears,
      L!Upload,
      L!world, L!bus, L!pass, InUpload
<1>4. L!RunsWholeImage'
  BY <1>1, <1>2 DEF L!RunsWholeImage
<1>5. CASE UNCHANGED <<lPc, lCur, lTag, lBoot>>
  BY <1>1, <1>2, <1>4, <1>5 DEF LoaderInv, LoaderTyped, GoodIsBoot, AckedAreWritten, OwnStatusIsTrue
<1>6. CASE /\ ~InUpload(lPc) /\ ~InUpload(lPc') /\ UNCHANGED <<lCur, lTag>>
           /\ lPc' \in {"open", "pick", "rest", "scan", "done"}
           /\ \/ UNCHANGED lBoot \/ lBoot' = [s \in Sensors |-> L!None]
              \/ \E opened \in SUBSET {s \in Sensors : lAudio[s] = "boot"} :
                    lBoot' = [s \in Sensors |-> IF s \in opened THEN "good" ELSE L!None]
  <2>1. lBoot' \in [Sensors -> {L!None, "good", "dead"}]
    BY <1>1, <1>6 DEF LoaderTyped
  <2>2. LoaderTyped'
    BY <1>1, <1>2, <1>6, <2>1 DEF LoaderTyped
  <2>3. GoodIsBoot'
    BY <1>1, <1>2, <1>6 DEF GoodIsBoot, InUpload, L!None
  <2>4. AckedAreWritten' /\ OwnStatusIsTrue'
    BY <1>6 DEF AckedAreWritten, OwnStatusIsTrue
  <2> QED
    BY <1>4, <2>2, <2>3, <2>4 DEF LoaderInv
<1>7. CASE \E s \in Sensors : /\ lPc = "pick" /\ lCur' = s /\ lTag' = 1 /\ lPc' = "probe"
                             /\ UNCHANGED lBoot
  <2>1. LoaderTyped'
    BY <1>1, <1>2, <1>7, LoaderAssumption, NodesAssumption
       DEF LoaderTyped, InUpload, L!None, None, L!LoaderConstants
  <2>2. GoodIsBoot' /\ AckedAreWritten' /\ OwnStatusIsTrue'
    BY <1>1, <1>2, <1>7 DEF GoodIsBoot, AckedAreWritten, OwnStatusIsTrue
  <2> QED
    BY <1>4, <2>1, <2>2 DEF LoaderInv
<1> QED
  BY <1>3, <1>5, <1>6, <1>7

LEMMA ProbeKeeps ==
    ASSUME LoaderInv, L!Probe
    PROVE  LoaderInv'
<1>1. /\ LoaderTyped /\ GoodIsBoot /\ AckedAreWritten /\ OwnStatusIsTrue /\ L!RunsWholeImage
  BY DEF LoaderInv
<1>2. InUpload(lPc) /\ lCur \in Sensors
  BY <1>1 DEF L!Probe, LoaderTyped, InUpload
<1>3. CASE L!WriteFails
  BY <1>2, <1>3, TransferFails
<1>4. CASE L!Answer(<<L!Reply("version"), L!Reply("ok")>>) /\ L!Proceed("version")
           /\ UNCHANGED <<lRun, L!world, lTag>>
  <2>1. L!Reply("version") \in L!Packet /\ L!Reply("ok") \in L!Packet
    BY <1>1, ReplyTyped DEF L!Probe, LoaderTyped
  <2>2. <<L!Reply("version"), L!Reply("ok")>> \in Seq(L!Packet)
    BY <2>1
  <2>3. lPipe' \in [Sensors -> Seq(L!Packet)]
    BY <1>1, <1>2, <1>4, <2>2, Answered
  <2>4. LoaderTyped'
    BY <1>1, <1>2, <1>4, <2>3 DEF L!Probe, L!Proceed, L!world, L!bus, LoaderTyped, InUpload
  <2>5. GoodIsBoot' /\ AckedAreWritten' /\ OwnStatusIsTrue' /\ L!RunsWholeImage'
    BY <1>1, <1>4 DEF L!Probe, L!Proceed, L!world, L!bus, GoodIsBoot, AckedAreWritten,
        OwnStatusIsTrue, L!RunsWholeImage
  <2> QED
    BY <2>4, <2>5 DEF LoaderInv
<1> QED
  BY <1>3, <1>4 DEF L!Probe

LEMMA ReadVersionKeeps ==
    ASSUME LoaderInv, L!ReadVersion
    PROVE  LoaderInv'
<1>1. /\ LoaderTyped /\ GoodIsBoot /\ AckedAreWritten /\ OwnStatusIsTrue /\ L!RunsWholeImage
  BY DEF LoaderInv
<1>2. InUpload(lPc) /\ lCur \in Sensors
  BY <1>1 DEF L!ReadVersion, LoaderTyped, InUpload
<1>3. CASE L!ReadFails
  BY <1>2, <1>3, TransferFails
<1>4. ASSUME ~L!ReadFails
      PROVE  /\ lPipe[lCur] # <<>> /\ lPipe' = [lPipe EXCEPT ![lCur] = Tail(@)]
             /\ lPipe' \in [Sensors -> Seq(L!Packet)]
             /\ UNCHANGED <<lRun, lAudio, lImage>> /\ L!Alive
  <2>1. /\ lPipe[lCur] # <<>> /\ lPipe' = [lPipe EXCEPT ![lCur] = Tail(@)]
        /\ UNCHANGED <<lRun, lAudio, lImage>> /\ L!Alive
    BY <1>4 DEF L!ReadVersion, L!Read, L!bus
  <2>2. lPipe[lCur] \in Seq(L!Packet) /\ Tail(lPipe[lCur]) \in Seq(L!Packet)
    BY <1>1, <1>2, <2>1 DEF LoaderTyped
  <2> QED
    BY <1>1, <2>1, <2>2 DEF LoaderTyped
<1>5. CASE ~L!ReadFails
  <2>1. L!Proceed("probed") /\ UNCHANGED <<lTag, lMixed>>
    BY <1>5 DEF L!ReadVersion, L!Read
  <2>2. LoaderTyped'
    BY <1>1, <1>2, <1>4, <1>5, <2>1 DEF L!ReadVersion, L!Proceed, LoaderTyped, InUpload
  <2>3. GoodIsBoot' /\ AckedAreWritten' /\ OwnStatusIsTrue' /\ L!RunsWholeImage'
    BY <1>1, <1>4, <1>5, <2>1 DEF L!ReadVersion, L!Proceed, GoodIsBoot, AckedAreWritten,
        OwnStatusIsTrue, L!RunsWholeImage
  <2> QED
    BY <2>2, <2>3 DEF LoaderInv
<1> QED
  BY <1>3, <1>5

LEMMA ProbeStatusKeeps ==
    ASSUME LoaderInv, L!ProbeStatus
    PROVE  LoaderInv'
<1>1. /\ LoaderTyped /\ GoodIsBoot /\ AckedAreWritten /\ OwnStatusIsTrue /\ L!RunsWholeImage
  BY DEF LoaderInv
<1>2. InUpload(lPc) /\ lCur \in Sensors
  BY <1>1 DEF L!ProbeStatus, LoaderTyped, InUpload
<1>3. CASE L!ReadFails
  BY <1>2, <1>3, TransferFails
<1>4. ASSUME ~L!ReadFails
      PROVE  /\ lPipe[lCur] # <<>> /\ lPipe' = [lPipe EXCEPT ![lCur] = Tail(@)]
             /\ lPipe' \in [Sensors -> Seq(L!Packet)]
             /\ UNCHANGED <<lRun, lAudio, lImage>> /\ L!Alive
  <2>1. /\ lPipe[lCur] # <<>> /\ lPipe' = [lPipe EXCEPT ![lCur] = Tail(@)]
        /\ UNCHANGED <<lRun, lAudio, lImage>> /\ L!Alive
    BY <1>4 DEF L!ProbeStatus, L!Read, L!bus
  <2>2. lPipe[lCur] \in Seq(L!Packet) /\ Tail(lPipe[lCur]) \in Seq(L!Packet)
    BY <1>1, <1>2, <2>1 DEF LoaderTyped
  <2> QED
    BY <1>1, <2>1, <2>2 DEF LoaderTyped
<1>5. CASE ~L!ReadFails /\ L!StatusOk(L!Oldest)
  <2>1. L!Proceed("page") /\ lTag' = lTag + 1 /\ UNCHANGED lMixed
    BY <1>5 DEF L!ProbeStatus, L!Read, L!Proceed
  <2>2. LoaderTyped'
    BY <1>1, <1>2, <1>4, <1>5, <2>1, LoaderAssumption
       DEF L!ProbeStatus, L!Proceed, L!pass, LoaderTyped, InUpload, L!LoaderConstants
  <2>3. GoodIsBoot' /\ L!RunsWholeImage' /\ OwnStatusIsTrue'
    BY <1>1, <1>4, <1>5, <2>1 DEF L!ProbeStatus, L!Proceed, GoodIsBoot, L!RunsWholeImage,
        OwnStatusIsTrue
  <2>4. AckedAreWritten'
    <3>1. lTag' = 2
      BY <1>1, <2>1 DEF L!ProbeStatus, LoaderTyped
    <3>2. 1..(lTag' - 2) = {}
      BY <3>1
    <3> QED
      BY <3>2 DEF AckedAreWritten
  <2> QED
    BY <2>2, <2>3, <2>4 DEF LoaderInv
<1>6. CASE ~L!ReadFails /\ ~L!StatusOk(L!Oldest)
  <2>1. L!Fail /\ UNCHANGED lMixed
    BY <1>6 DEF L!ProbeStatus, L!Read
  <2> QED
    BY <1>2, <1>4, <1>6, <2>1, FailEnds
<1> QED
  BY <1>3, <1>5, <1>6

LEMMA WritePageKeeps ==
    ASSUME LoaderInv, L!WritePage
    PROVE  LoaderInv'
<1>1. /\ LoaderTyped /\ GoodIsBoot /\ AckedAreWritten /\ OwnStatusIsTrue /\ L!RunsWholeImage
  BY DEF LoaderInv
<1>2. InUpload(lPc) /\ lCur \in Sensors
  BY <1>1 DEF L!WritePage, LoaderTyped, InUpload
<1>3. CASE L!WriteFails
  BY <1>2, <1>3, TransferFails
<1>4. CASE ~L!WriteFails
  <2>1. /\ lPc = "page" /\ ~(lTag - 1 > Pages) /\ L!Alive /\ L!Proceed("written")
        /\ UNCHANGED <<lRun, lAudio, lTag, lMixed>>
    BY <1>4 DEF L!WritePage, L!LastPage
  <2>2. lTag \in 2..(Pages + 1) /\ lTag # 0 /\ Pages \in Nat
    BY <1>1, <2>1, LoaderAssumption DEF LoaderTyped, L!LoaderConstants
  <2>3. \/ /\ L!Answer(<<L!Reply("ok")>>)
           /\ lImage' = [lImage EXCEPT ![lCur] = @ \cup {lTag - 1}]
        \/ L!Answer(<<L!Reply("error")>>) /\ UNCHANGED lImage
    BY <1>4 DEF L!WritePage
  <2>4. /\ L!Reply("ok") \in L!Packet /\ L!Reply("error") \in L!Packet
        /\ L!Reply("error").kind = "error"
    BY <1>1, <2>2, ReplyTyped
  <2>5. <<L!Reply("ok")>> \in Seq(L!Packet) /\ <<L!Reply("error")>> \in Seq(L!Packet)
    BY <2>4
  <2>6. lPipe' \in [Sensors -> Seq(L!Packet)]
    BY <1>1, <1>2, <2>3, <2>5, Answered
  <2>7. /\ lImage' \in [Sensors -> SUBSET (1..Pages)]
        /\ \A s \in Sensors : lImage[s] \subseteq lImage'[s]
        /\ \A s \in Sensors : s # lCur => lImage'[s] = lImage[s]
    <3>1. CASE lImage' = lImage
      BY <1>1, <3>1 DEF LoaderTyped
    <3>2. CASE lImage' = [lImage EXCEPT ![lCur] = @ \cup {lTag - 1}]
      <4>1. lTag - 1 \in 1..Pages
        BY <2>2
      <4> QED
        BY <1>1, <1>2, <3>2, <4>1 DEF LoaderTyped
    <3> QED
      BY <2>3, <3>1, <3>2
  <2>8. LoaderTyped'
    BY <1>1, <1>2, <2>1, <2>2, <2>6, <2>7 DEF L!Proceed, LoaderTyped, InUpload
  <2>9. GoodIsBoot' /\ AckedAreWritten'
    BY <1>1, <1>2, <2>1, <2>7 DEF L!Proceed, GoodIsBoot, AckedAreWritten
  <2>10. OwnStatusIsTrue'
    <3>1. CASE lImage' = [lImage EXCEPT ![lCur] = @ \cup {lTag - 1}]
      <4>1. lTag' - 1 \in lImage'[lCur] /\ lCur' = lCur
        BY <1>1, <1>2, <2>1, <3>1 DEF L!Proceed, LoaderTyped
      <4> QED
        BY <4>1 DEF OwnStatusIsTrue
    <3>2. CASE L!Answer(<<L!Reply("error")>>)
      <4>1. \A i \in DOMAIN lPipe'[lCur] : lPipe'[lCur][i].own => lPipe'[lCur][i].kind = "error"
        <5>1. ASSUME NEW i \in DOMAIN lPipe'[lCur], lPipe'[lCur][i].own
              PROVE  lPipe'[lCur][i].kind = "error"
          <6>1. PICK j \in DOMAIN <<L!Reply("error")>> :
                   lPipe'[lCur][i].kind = <<L!Reply("error")>>[j].kind
            BY <1>1, <1>2, <2>5, <3>2, <5>1, Answered
          <6>2. <<L!Reply("error")>>[j] = L!Reply("error")
            OBVIOUS
          <6> QED
            BY <2>4, <6>1, <6>2
        <5> QED
          BY <5>1
      <4> QED
        BY <2>1, <4>1 DEF OwnStatusIsTrue, L!Proceed
    <3> QED
      BY <2>3, <3>1, <3>2
  <2>11. L!RunsWholeImage'
    <3>1. lAudio[lCur] = "boot"
      BY <1>1, <1>2, <2>1 DEF GoodIsBoot, L!Alive
    <3> QED
      BY <1>1, <2>1, <2>7, <3>1 DEF L!RunsWholeImage
  <2> QED
    BY <2>8, <2>9, <2>10, <2>11 DEF LoaderInv
<1> QED
  BY <1>3, <1>4

LEMMA PageStatusKeeps ==
    ASSUME LoaderInv, L!PageStatus
    PROVE  LoaderInv'
<1>1. /\ LoaderTyped /\ GoodIsBoot /\ AckedAreWritten /\ OwnStatusIsTrue /\ L!RunsWholeImage
  BY DEF LoaderInv
<1>2. InUpload(lPc) /\ lCur \in Sensors
  BY <1>1 DEF L!PageStatus, LoaderTyped, InUpload
<1>3. CASE L!ReadFails
  BY <1>2, <1>3, TransferFails
<1>4. ASSUME ~L!ReadFails
      PROVE  /\ lPipe[lCur] # <<>> /\ lPipe' = [lPipe EXCEPT ![lCur] = Tail(@)]
             /\ lPipe' \in [Sensors -> Seq(L!Packet)]
             /\ UNCHANGED <<lRun, lAudio, lImage>> /\ L!Alive
  <2>1. /\ lPipe[lCur] # <<>> /\ lPipe' = [lPipe EXCEPT ![lCur] = Tail(@)]
        /\ UNCHANGED <<lRun, lAudio, lImage>> /\ L!Alive
    BY <1>4 DEF L!PageStatus, L!Read, L!bus
  <2>2. lPipe[lCur] \in Seq(L!Packet) /\ Tail(lPipe[lCur]) \in Seq(L!Packet)
    BY <1>1, <1>2, <2>1 DEF LoaderTyped
  <2> QED
    BY <1>1, <2>1, <2>2 DEF LoaderTyped
<1>5. CASE ~L!ReadFails /\ L!StatusOk(L!Oldest)
  <2>1. /\ L!Proceed("page") /\ lTag' = lTag + 1 /\ lPc = "written"
        /\ lMixed' = IF ~L!Oldest.own THEN lMixed \cup {lCur} ELSE lMixed
    BY <1>5 DEF L!PageStatus, L!Read, L!Proceed
  <2>2. LoaderTyped'
    BY <1>1, <1>2, <1>4, <1>5, <2>1, LoaderAssumption
       DEF L!Proceed, L!pass, LoaderTyped, InUpload, L!LoaderConstants
  <2>3. GoodIsBoot' /\ L!RunsWholeImage' /\ OwnStatusIsTrue'
    BY <1>1, <1>4, <1>5, <2>1 DEF L!Proceed, GoodIsBoot, L!RunsWholeImage, OwnStatusIsTrue
  <2>4. AckedAreWritten'
    <3>1. CASE ~L!Oldest.own
      <4>1. lCur' = lCur /\ lCur \in lMixed'
        BY <2>1, <3>1 DEF L!Proceed
      <4> QED
        BY <4>1 DEF AckedAreWritten
    <3>2. CASE L!Oldest.own
      <4>1. 1 \in DOMAIN lPipe[lCur] /\ L!Oldest = lPipe[lCur][1]
        <5>1. lPipe[lCur] \in Seq(L!Packet) /\ lPipe[lCur] # <<>>
          BY <1>1, <1>2, <1>4, <1>5 DEF LoaderTyped
        <5> QED
          BY <5>1 DEF L!Oldest
      <4>2. lTag - 1 \in lImage[lCur]
        BY <1>1, <1>4, <1>5, <2>1, <3>2, <4>1 DEF OwnStatusIsTrue, L!StatusOk, L!Alive
      <4>3. 1..(lTag - 2) \subseteq lImage[lCur] \/ lCur \in lMixed
        BY <1>1, <1>4, <1>5, <2>1 DEF AckedAreWritten, L!Alive
      <4>4. lTag \in Int /\ lTag' - 2 = lTag - 1
        BY <1>1, <2>1 DEF LoaderTyped
      <4>5. 1..(lTag' - 2) \subseteq (1..(lTag - 2)) \cup {lTag - 1}
        BY <4>4
      <4>6. lCur' = lCur /\ lImage' = lImage /\ lMixed' = lMixed
        BY <1>4, <1>5, <2>1, <3>2 DEF L!Proceed
      <4> QED
        BY <4>2, <4>3, <4>5, <4>6 DEF AckedAreWritten
    <3> QED
      BY <3>1, <3>2
  <2> QED
    BY <2>2, <2>3, <2>4 DEF LoaderInv
<1>6. CASE ~L!ReadFails /\ ~L!StatusOk(L!Oldest)
  <2>1. L!Fail /\ UNCHANGED lMixed
    BY <1>6 DEF L!PageStatus, L!Read, L!Fail
  <2> QED
    BY <1>2, <1>4, <1>6, <2>1, FailEnds
<1> QED
  BY <1>3, <1>5, <1>6

LEMMA LaunchKeeps ==
    ASSUME LoaderInv, L!Launch
    PROVE  LoaderInv'
<1>1. /\ LoaderTyped /\ GoodIsBoot /\ AckedAreWritten /\ OwnStatusIsTrue /\ L!RunsWholeImage
  BY DEF LoaderInv
<1>2. InUpload(lPc) /\ lCur \in Sensors
  BY <1>1 DEF L!Launch, LoaderTyped, InUpload
<1>3. CASE L!WriteFails
  BY <1>2, <1>3, TransferFails
<1>4. CASE ~L!WriteFails
  <2>1. /\ lPc = "page" /\ L!LastPage /\ L!Alive /\ L!Proceed("final")
        /\ lAudio' = [lAudio EXCEPT ![lCur] = "leaving"]
        /\ UNCHANGED <<lRun, lImage, lMixed, lTag>>
    BY <1>4 DEF L!Launch
  <2>2. lTag \in 2..(Pages + 2) /\ lTag # 0 /\ Pages \in Nat
    BY <1>1, <2>1, LoaderAssumption DEF LoaderTyped, L!LoaderConstants
  <2>3. PICK reply \in {<<>>, <<L!Reply("ok")>>} : L!Answer(reply)
    BY <1>4 DEF L!Launch
  <2>4. reply \in Seq(L!Packet)
    <3>1. L!Reply("ok") \in L!Packet
      BY <1>1, <2>2, ReplyTyped
    <3>2. <<L!Reply("ok")>> \in Seq(L!Packet) /\ <<>> \in Seq(L!Packet)
      BY <3>1
    <3> QED
      BY <3>2
  <2>5. lPipe' \in [Sensors -> Seq(L!Packet)]
    BY <1>1, <1>2, <2>3, <2>4, Answered
  <2>6. LoaderTyped'
    BY <1>1, <1>2, <2>1, <2>2, <2>5 DEF L!Proceed, LoaderTyped, InUpload
  <2>7. \A s \in Sensors : lAudio'[s] = IF s = lCur THEN "leaving" ELSE lAudio[s]
    BY <1>1, <2>1 DEF LoaderTyped
  <2>8. GoodIsBoot' /\ AckedAreWritten' /\ OwnStatusIsTrue'
    BY <1>1, <2>1, <2>7 DEF L!Proceed, GoodIsBoot, AckedAreWritten, OwnStatusIsTrue
  <2>9. lRun => lImage[lCur] = 1..Pages \/ lCur \in lMixed
    <3>1. CASE lTag - 1 > Pages
      <4>1. lTag - 2 = Pages
        BY <2>2, <3>1
      <4>2. 1..Pages \subseteq lImage[lCur] \/ lCur \in lMixed
        BY <1>1, <2>1, <4>1 DEF AckedAreWritten, L!Alive
      <4>3. lImage[lCur] \subseteq 1..Pages
        BY <1>1, <1>2 DEF LoaderTyped
      <4> QED
        BY <4>2, <4>3
    <3>2. CASE ~lRun
      BY <3>2
    <3> QED
      BY <2>1, <3>1, <3>2 DEF L!LastPage
  <2>10. L!RunsWholeImage'
    BY <1>1, <2>1, <2>7, <2>9 DEF L!RunsWholeImage
  <2> QED
    BY <2>6, <2>8, <2>10 DEF LoaderInv
<1> QED
  BY <1>3, <1>4

LEMMA FinalReadKeeps ==
    ASSUME LoaderInv, L!FinalRead
    PROVE  LoaderInv'
<1>1. /\ LoaderTyped /\ GoodIsBoot /\ AckedAreWritten /\ OwnStatusIsTrue /\ L!RunsWholeImage
  BY DEF LoaderInv
<1>2. InUpload(lPc) /\ lCur \in Sensors
  BY <1>1 DEF L!FinalRead, LoaderTyped, InUpload
<1>3. UNCHANGED <<lRun, lAudio, lImage, lMixed>> /\ (L!Succeed \/ L!Fail)
  BY DEF L!FinalRead, L!world, L!bus
<1>4. lPipe' \in [Sensors -> Seq(L!Packet)]
  <2>1. CASE UNCHANGED lPipe
    BY <1>1, <2>1 DEF LoaderTyped
  <2>2. CASE lPipe[lCur] # <<>> /\ lPipe' = [lPipe EXCEPT ![lCur] = Tail(@)]
    <3>1. Tail(lPipe[lCur]) \in Seq(L!Packet)
      BY <1>1, <1>2, <2>2 DEF LoaderTyped
    <3> QED
      BY <1>1, <2>2, <3>1 DEF LoaderTyped
  <2> QED
    BY <2>1, <2>2 DEF L!FinalRead
<1> QED
  BY <1>2, <1>3, <1>4, SucceedEnds, FailEnds

LEMMA LoaderInvInit == L!Init => LoaderInv
<1> SUFFICES ASSUME L!Init PROVE LoaderInv
  OBVIOUS
<1>1. <<>> \in Seq(L!Packet)
  OBVIOUS
<1>2. LoaderTyped
  BY <1>1, LoaderAssumption DEF L!Init, LoaderTyped, InUpload, L!LoaderConstants
<1>3. GoodIsBoot /\ AckedAreWritten /\ OwnStatusIsTrue /\ L!RunsWholeImage
  BY DEF L!Init, GoodIsBoot, AckedAreWritten, OwnStatusIsTrue, L!RunsWholeImage, L!None
<1> QED
  BY <1>2, <1>3 DEF LoaderInv

LEMMA LoaderInvStep == LoaderInv /\ [L!Next]_L!vars => LoaderInv'
<1> SUFFICES ASSUME LoaderInv, [L!Next]_L!vars PROVE LoaderInv'
  OBVIOUS
<1>1. ASSUME NEW s \in Sensors,
             L!Plug(s) \/ L!Unplug(s) \/ L!CameraAppears(s) \/ L!Reenumerate(s)
      PROVE  LoaderInv'
  BY <1>1, PlugKeeps, UnplugKeeps, ReenumerateKeeps, AsideKeeps
<1>2. CASE L!Stop \/ L!Loader
  BY <1>2, AsideKeeps, ProbeKeeps, ReadVersionKeeps, ProbeStatusKeeps, WritePageKeeps,
     PageStatusKeeps, LaunchKeeps, FinalReadKeeps DEF L!Loader
<1>3. CASE UNCHANGED L!vars
  BY <1>3 DEF L!vars, L!world, L!bus, LoaderInv, LoaderTyped, GoodIsBoot, AckedAreWritten,
      OwnStatusIsTrue, L!RunsWholeImage
<1> QED
  BY <1>1, <1>2, <1>3 DEF L!Next

\* The invariant of the loader: while a sensor is uploaded to, the pages whose status came
\* are in it, unless a stale status stood in for one (upload_firmware).
THEOREM LoaderInvariance == L!Spec => []LoaderInv
BY LoaderInvInit, LoaderInvStep, PTL DEF L!Spec

\* A sensor that runs the firmware runs the whole image, whatever the number of
\* pages, sensors, losses and retries, unless the service was stopped during the
\* upload or a late status stood in for one (upload_firmware, boot_status_ok).
THEOREM SensorsRunWholeImage == L!Spec => []RunsWholeImage
<1>1. LoaderInv => RunsWholeImage
  BY DEF LoaderInv, RunsWholeImage
<1> QED
  BY <1>1, LoaderInvariance, PTL
==============================================================================
