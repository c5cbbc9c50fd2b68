------------------------ MODULE FrameTransport_proofs ------------------------
(***************************************************************************)
(* The shared frame for any number of readers, workers and picture parts:  *)
(* writers keep one another out, a sensor between sessions is offline, and *)
(* what a reader is given is the last published frame.                     *)
(***************************************************************************)
EXTENDS FrameTransport, TLAPS

\* What even a sequence number says of the memory, but for the word Online.
Shows ==
  IF shown = NoFrame
    THEN mem[Bytes] = Vga /\ mem[Length(mem[Active])] = 0
    ELSE LET s == mem[Active]
         IN  /\ mem[Bytes] = shown.size /\ mem[Length(s)] = shown.size
             /\ mem[Number(s)] = shown.number
             /\ \A p \in Parts : mem[Part(s, p)] = shown.content

\* While nobody is inside, memory holds the last published frame.
Whole == seq > 0 /\ seq % 2 = 0 => Shows /\ mem[Online] = online

\* A job has stored what is no longer left to store.
Storing(j) ==
  CASE j.kind = "open" ->
         /\ shown = NoFrame /\ online = FALSE
         /\ \A x \in Words \ j.left : mem[x] = Blank[x]
    [] j.kind = "frame" ->
         /\ j.frame \in SF!Frames /\ j.frame.number = number
         /\ j.left \subseteq Header \cup SlotWords(j.slot)
         /\ shown # NoFrame => shown.number < number
         /\ \A x \in (Header \cup SlotWords(j.slot)) \ j.left : mem[x] = Stored(j.frame, j.slot)[x]
    [] OTHER ->
         /\ Shows /\ j.left \subseteq {Online}
         /\ Online \notin j.left => mem[Online] = FALSE

JobsStored == \A w \in Writers : Inside(w) => Storing(job[w])

Numbered == shown # NoFrame => shown \in SF!Frames /\ shown.number <= number

\* Where in the life of the node each kind of job is done.
Placed ==
  \A w \in Writers : Inside(w) =>
    /\ job[w].kind = "frame" => w \in Workers /\ phase = "running"
    /\ job[w].kind = "open" <=> phase = "opening"
    /\ job[w].kind = "close" => phase = "closing"

Locked == \A v, w \in Writers : Inside(v) /\ Inside(w) => v = w

Sequence ==
  /\ phase = "closed" => Unlocked
  /\ phase # "closed" => seq > 0
  /\ (\E w \in Writers : Inside(w)) => seq % 2 = 1
  /\ phase # "closed" /\ Unlocked => seq % 2 = 0

\* What a reader has loaded so far.
Loaded ==
  /\ DOMAIN got = Readers
  /\ \A r \in Readers :
       /\ before[r] = 0 => DOMAIN got[r] = {}
       /\ DOMAIN got[r] \subseteq Words
       /\ \A x \in DOMAIN got[r] : got[r][x] \in Holds(x)

\* As long as the sequence has not moved, it is what memory holds.
Current ==
  \A r \in fresh :
    /\ before[r] <= seq /\ before[r] % 2 = 0
    /\ before[r] = seq => \A x \in DOMAIN got[r] : got[r][x] = mem[x]

IInv == /\ TypeOK /\ Locked /\ Sequence /\ Placed /\ Numbered /\ JobsStored
        /\ Whole /\ Loaded /\ Current /\ OfflineBetweenSessions

-----------------------------------------------------------------------------
\* The words of memory differ, and every word is in the header or in a slot.
LEMMA WordsApart ==
  /\ Size # Bytes /\ Size # Active /\ Size # Online
  /\ Bytes # Active /\ Bytes # Online /\ Active # Online
  /\ Header \cap Metadata = {}
  /\ \A s \in Slots :
       /\ Number(s) \notin Header /\ Length(s) \notin Header /\ Number(s) # Length(s)
       /\ \A p \in Parts : Part(s, p) \notin Header \cup Metadata
<1> USE ConstantsAssumption DEF Size, Bytes, Active, Online, Header, Number, Length, Part, Slots, Metadata
<1> QED
  OBVIOUS

LEMMA WordsKnown ==
  /\ {Size, Bytes, Active, Online} = Header /\ Header \subseteq Words
  /\ \A s \in Slots : SlotWords(s) \subseteq Words /\ Number(s) \in SlotWords(s)
       /\ Length(s) \in SlotWords(s) /\ Number(s) \in Metadata /\ Length(s) \in Metadata
       /\ \A p \in Parts : Part(s, p) \in SlotWords(s)
  /\ \A x \in Words : x \in Header \/ \E s \in Slots : x \in SlotWords(s)
BY DEF Header, Words, SlotWords, Metadata

\* What each word may hold, what Open leaves in it and what a frame does.
LEMMA HoldsWhat ==
  /\ Holds(Size) = Sizes /\ Holds(Bytes) = Sizes /\ Holds(Active) = Slots /\ Holds(Online) = BOOLEAN
  /\ \A s \in Slots :
       /\ Holds(Number(s)) = Nat /\ Holds(Length(s)) = Nat
       /\ \A p \in Parts : Holds(Part(s, p)) = Contents
<1>1. Holds(Size) = Sizes /\ Holds(Bytes) = Sizes
  BY WordsApart, WordsKnown DEF Holds
<1>2. Holds(Active) = Slots
  BY WordsApart, WordsKnown DEF Holds
<1>3. Holds(Online) = BOOLEAN
  BY WordsApart, WordsKnown DEF Holds
<1>4. ASSUME NEW s \in Slots
      PROVE  Holds(Number(s)) = Nat /\ Holds(Length(s)) = Nat
  BY WordsApart, WordsKnown DEF Holds
<1>5. ASSUME NEW s \in Slots, NEW p \in Parts
      PROVE  Holds(Part(s, p)) = Contents
  BY WordsApart, WordsKnown DEF Holds
<1> QED
  BY <1>1, <1>2, <1>3, <1>4, <1>5

LEMMA BlankHolds ==
  /\ DOMAIN Blank = Words /\ \A x \in Words : Blank[x] \in Holds(x)
  /\ Blank[Bytes] = Vga /\ Blank[Active] = "a" /\ Blank[Online] = FALSE
  /\ Blank[Length("a")] = 0
<1>1. DOMAIN Blank = Words /\ \A x \in Words : Blank[x] \in Holds(x)
  <2>1. /\ Vga \in Sizes /\ "a" \in Slots /\ FALSE \in BOOLEAN /\ 0 \in Nat
        /\ <<0, 0>> \in Contents
    BY DEF Sizes, Slots, Contents
  <2>2. ASSUME NEW x \in Words, x \in {Size, Bytes}
        PROVE  Blank[x] \in Holds(x)
    BY <2>1, <2>2, HoldsWhat, WordsApart, WordsKnown DEF Blank
  <2>3. ASSUME NEW x \in Words, x = Active
        PROVE  Blank[x] \in Holds(x)
    BY <2>1, <2>3, HoldsWhat, WordsApart, WordsKnown DEF Blank
  <2>4. ASSUME NEW x \in Words, x = Online
        PROVE  Blank[x] \in Holds(x)
    BY <2>1, <2>4, HoldsWhat, WordsApart, WordsKnown DEF Blank
  <2>5. ASSUME NEW x \in Words, x \in Metadata
        PROVE  Blank[x] \in Holds(x)
    <3>1. x \notin {Size, Bytes, Active, Online}
      BY <2>5, WordsApart, WordsKnown
    <3> QED
      BY <2>1, <2>5, <3>1 DEF Blank, Holds
  <2>6. ASSUME NEW x \in Words, x \notin {Size, Bytes, Active, Online} \cup Metadata
        PROVE  Blank[x] \in Holds(x)
    BY <2>1, <2>6 DEF Blank, Holds
  <2> QED
    BY <2>2, <2>3, <2>4, <2>5, <2>6 DEF Blank
<1>2. Blank[Bytes] = Vga /\ Blank[Active] = "a" /\ Blank[Online] = FALSE
  BY WordsApart, WordsKnown DEF Blank
<1>3. "a" \in Slots
  BY DEF Slots
<1>4. Length("a") \in Words /\ Length("a") \in Metadata /\ Length("a") \notin {Size, Bytes, Active, Online}
  BY <1>3, WordsApart, WordsKnown
<1>5. Blank[Length("a")] = 0
  BY <1>4 DEF Blank
<1> QED
  BY <1>1, <1>2, <1>5

LEMMA StoredHolds ==
  ASSUME NEW f \in SF!Frames, NEW s \in Slots
  PROVE  /\ \A x \in Header \cup SlotWords(s) : Stored(f, s)[x] \in Holds(x)
         /\ Stored(f, s)[Bytes] = f.size /\ Stored(f, s)[Active] = s
         /\ Stored(f, s)[Online] = TRUE /\ Stored(f, s)[Number(s)] = f.number
         /\ Stored(f, s)[Length(s)] = f.size
         /\ \A p \in Parts : Stored(f, s)[Part(s, p)] = f.content
<1> DEFINE D == Header \cup SlotWords(s)
<1>0. f.size \in Sizes /\ f.number \in Nat /\ f.content \in Contents /\ f.size \in Nat
  BY ConstantsAssumption DEF SF!Frames, Sizes
<1>1. Stored(f, s)[Bytes] = f.size /\ Stored(f, s)[Size] = f.size
  BY WordsKnown, WordsApart DEF Stored
<1>2. Stored(f, s)[Active] = s
  BY WordsKnown, WordsApart DEF Stored
<1>3. Stored(f, s)[Online] = TRUE
  BY WordsKnown, WordsApart DEF Stored
<1>4. Stored(f, s)[Length(s)] = f.size
  BY WordsKnown, WordsApart DEF Stored
<1>5. Stored(f, s)[Number(s)] = f.number
  <2>1. Number(s) \in D /\ Number(s) \notin {Size, Bytes, Length(s), Active, Online}
    BY WordsKnown, WordsApart
  <2> QED
    BY <2>1 DEF Stored
<1>6. ASSUME NEW p \in Parts
      PROVE  Stored(f, s)[Part(s, p)] = f.content
  <2>1. Part(s, p) \in D /\ Part(s, p) \notin {Size, Bytes, Length(s), Number(s), Active, Online}
    BY WordsKnown, WordsApart
  <2> QED
    BY <2>1 DEF Stored
<1>7. ASSUME NEW x \in D
      PROVE  Stored(f, s)[x] \in Holds(x)
  <2>1. CASE x \in {Size, Bytes}
    BY <2>1, <1>0, <1>1, HoldsWhat
  <2>2. CASE x \in {Active, Online}
    BY <2>2, <1>2, <1>3, HoldsWhat
  <2>3. CASE x \in {Length(s), Number(s)}
    BY <2>3, <1>0, <1>4, <1>5, HoldsWhat
  <2>4. CASE \E p \in Parts : x = Part(s, p)
    BY <2>4, <1>0, <1>6, HoldsWhat
  <2> QED
    BY <2>1, <2>2, <2>3, <2>4, WordsKnown DEF SlotWords
<1> QED
  BY <1>1, <1>2, <1>3, <1>4, <1>5, <1>6, <1>7

-----------------------------------------------------------------------------
\* TypeOK by parts: the memory, the bridge, the readers and the histories.
MemTyped == DOMAIN mem = Words /\ \A x \in Words : mem[x] \in Holds(x)
BridgeTyped ==
  /\ seq \in Nat /\ number \in Nat /\ opens \in Nat
  /\ phase \in {"closed", "opening", "between", "running", "ending", "closing"}
  /\ job \in [Writers -> Jobs \cup {NoJob}]
ReaderTyped ==
  /\ before \in [Readers -> Nat] /\ out \in [Readers -> SF!Pictures \cup {NoFrame}]
  /\ fresh \subseteq Readers
HistoryTyped == shown \in SF!Frames \cup {NoFrame} /\ online \in BOOLEAN

LEMMA Types == TypeOK <=> MemTyped /\ BridgeTyped /\ ReaderTyped /\ HistoryTyped
BY DEF TypeOK, MemTyped, BridgeTyped, ReaderTyped, HistoryTyped

\* What is said of the bridge, and what is said of the readers.
BridgeInv ==
  /\ MemTyped /\ BridgeTyped /\ HistoryTyped /\ Locked /\ Sequence /\ Placed
  /\ Numbered /\ JobsStored /\ Whole /\ OfflineBetweenSessions
ReaderInv == ReaderTyped /\ Loaded /\ Current

LEMMA IInvParts == IInv <=> BridgeInv /\ ReaderInv
BY Types DEF IInv, BridgeInv, ReaderInv

LEMMA IInvPartsNext == IInv' <=> BridgeInv' /\ ReaderInv'
BY DEF IInv, BridgeInv, ReaderInv, TypeOK, MemTyped, BridgeTyped, ReaderTyped, HistoryTyped

\* A step of a reader leaves all that is said of the bridge.
LEMMA BridgeSame ==
  ASSUME BridgeInv, UNCHANGED <<mem, seq, bridge, shown, online>>
  PROVE  BridgeInv'
<1>1. UNCHANGED <<mem, seq, phase, job, number, opens, shown, online>>
  BY DEF bridge
<1>2. (MemTyped /\ BridgeTyped /\ HistoryTyped)'
  BY <1>1 DEF BridgeInv, MemTyped, BridgeTyped, HistoryTyped
<1>3. (Locked /\ Sequence /\ Placed /\ OfflineBetweenSessions)'
  BY <1>1 DEF BridgeInv, Locked, Sequence, Placed, OfflineBetweenSessions, Unlocked, Inside
<1>4. (Numbered /\ Whole)'
  BY <1>1 DEF BridgeInv, Numbered, Whole, Shows
<1>5. JobsStored'
  BY <1>1 DEF BridgeInv, JobsStored, Inside, Storing, Shows
<1> QED
  BY <1>2, <1>3, <1>4, <1>5 DEF BridgeInv

\* A step of the bridge that moves the sequence forward, or moves neither it nor any
\* word, leaves all that is said of the readers.
LEMMA ReaderSame ==
  ASSUME BridgeInv, ReaderInv, UNCHANGED <<reader, fresh>>, seq' \in Nat, seq' >= seq,
         seq' = seq => UNCHANGED mem \/ seq % 2 = 1
  PROVE  ReaderInv'
<1>1. UNCHANGED <<before, got, out, fresh>>
  BY DEF reader
<1>2. ReaderTyped'
  BY <1>1 DEF ReaderInv, ReaderTyped
<1>3. Loaded'
  BY <1>1 DEF ReaderInv, Loaded
<1>4. ASSUME NEW r \in fresh
      PROVE  /\ before[r] <= seq' /\ before[r] % 2 = 0
             /\ before[r] = seq' => \A x \in DOMAIN got[r] : got[r][x] = mem'[x]
  <2>1. before[r] \in Nat /\ seq \in Nat /\ before[r] <= seq /\ before[r] % 2 = 0
    BY DEF ReaderInv, ReaderTyped, Current, BridgeInv, BridgeTyped
  <2>2. before[r] <= seq'
    BY <2>1
  <2>3. ASSUME before[r] = seq'
        PROVE  before[r] = seq /\ UNCHANGED mem
    <3>1. before[r] = seq /\ seq' = seq
      BY <2>1, <2>3
    <3>2. seq % 2 # 1
      BY <2>1, <3>1
    <3> QED
      BY <3>1, <3>2
  <2> QED
    BY <2>1, <2>2, <2>3 DEF ReaderInv, Current
<1>5. Current'
  BY <1>1, <1>4 DEF Current
<1> QED
  BY <1>2, <1>3, <1>5 DEF ReaderInv

LEMMA StartReadStep ==
  ASSUME IInv, NEW r \in Readers, StartRead(r)
  PROVE  IInv'
<1>1. BridgeInv /\ ReaderInv
  BY IInvParts
<1>2. BridgeInv'
  BY <1>1, BridgeSame DEF StartRead
<1>3. /\ before[r] = 0 /\ seq > 0 /\ seq % 2 = 0 /\ before' = [before EXCEPT ![r] = seq]
      /\ fresh' = fresh \cup {r} /\ UNCHANGED <<mem, seq, got, out>>
  BY DEF StartRead
<1>4. ReaderTyped'
  BY <1>1, <1>3 DEF ReaderInv, ReaderTyped, BridgeInv, BridgeTyped
<1>5. Loaded'
  BY <1>1, <1>3 DEF ReaderInv, ReaderTyped, Loaded
<1>6. DOMAIN got[r] = {}
  BY <1>1, <1>3 DEF ReaderInv, Loaded
<1>7. ASSUME NEW q \in fresh'
      PROVE  /\ before'[q] <= seq /\ before'[q] % 2 = 0
             /\ before'[q] = seq => \A x \in DOMAIN got[q] : got[q][x] = mem[x]
  <2>1. CASE q = r
    <3>1. before'[q] = seq /\ seq \in Nat
      BY <2>1, <1>1, <1>3 DEF ReaderInv, ReaderTyped, BridgeInv, BridgeTyped
    <3> QED
      BY <2>1, <3>1, <1>3, <1>6
  <2>2. CASE q # r
    <3>1. before'[q] = before[q] /\ q \in fresh
      BY <2>2, <1>1, <1>3 DEF ReaderInv, ReaderTyped
    <3> QED
      BY <3>1, <1>1 DEF ReaderInv, Current
  <2> QED
    BY <2>1, <2>2
<1>8. Current'
  BY <1>3, <1>7 DEF Current
<1> QED
  BY <1>2, <1>4, <1>5, <1>8, IInvPartsNext DEF ReaderInv

LEMMA NeededWords ==
  ASSUME IInv, NEW r \in Readers
  PROVE  Needed(r) \subseteq Words
<1>1. CASE Header \subseteq DOMAIN got[r]
  <2>1. got[r][Active] \in Slots
    <3>1. Active \in DOMAIN got[r]
      BY <1>1 DEF Header
    <3> QED
      BY <3>1, HoldsWhat DEF IInv, Loaded
  <2> QED
    BY <1>1, <2>1, WordsKnown DEF Needed
<1>2. CASE ~(Header \subseteq DOMAIN got[r])
  BY <1>2, WordsKnown DEF Needed
<1> QED
  BY <1>1, <1>2

LEMMA ReadWordStep ==
  ASSUME IInv, NEW r \in Readers, NEW x \in Words, ReadWord(r, x)
  PROVE  IInv'
<1>1. BridgeInv /\ ReaderInv
  BY IInvParts
<1>2. BridgeInv'
  BY <1>1, BridgeSame DEF ReadWord, history
<1> DEFINE g == [y \in DOMAIN got[r] \cup {x} |-> IF y = x THEN mem[x] ELSE got[r][y]]
<1>3. /\ before[r] # 0 /\ got' = [got EXCEPT ![r] = g]
      /\ UNCHANGED <<mem, seq, before, out, fresh>>
  BY DEF ReadWord, history
<1>4. ReaderTyped'
  BY <1>1, <1>3 DEF ReaderInv, ReaderTyped
<1>5. mem[x] \in Holds(x)
  BY <1>1 DEF BridgeInv, MemTyped
<1>6. DOMAIN got' = Readers /\ got'[r] = g /\ \A q \in Readers : q # r => got'[q] = got[q]
  BY <1>1, <1>3 DEF ReaderInv, Loaded
<1>7. Loaded'
  <2>1. ASSUME NEW q \in Readers
        PROVE  /\ before[q] = 0 => DOMAIN got'[q] = {}
               /\ DOMAIN got'[q] \subseteq Words
               /\ \A y \in DOMAIN got'[q] : got'[q][y] \in Holds(y)
    BY <1>1, <1>3, <1>5, <1>6 DEF ReaderInv, Loaded
  <2> QED
    BY <1>3, <1>6, <2>1 DEF Loaded
<1>8. Current'
  <2>1. fresh \subseteq Readers
    BY <1>1 DEF ReaderInv, ReaderTyped
  <2>2. ASSUME NEW q \in fresh, before[q] = seq, NEW y \in DOMAIN got'[q]
        PROVE  got'[q][y] = mem[y]
    BY <1>1, <1>6, <2>1, <2>2 DEF ReaderInv, Current
  <2> QED
    BY <1>1, <1>3, <2>2 DEF ReaderInv, Current
<1> QED
  BY <1>2, <1>4, <1>7, <1>8, IInvPartsNext DEF ReaderInv

\* A reader stops: what it had loaded is gone.
LEMMA StopStep ==
  ASSUME IInv, NEW r \in Readers, Stop(r), out' \in [Readers -> SF!Pictures \cup {NoFrame}]
  PROVE  IInv'
<1>1. BridgeInv /\ ReaderInv
  BY IInvParts
<1>2. BridgeInv'
  BY <1>1, BridgeSame DEF Stop, history
<1>3. /\ before' = [before EXCEPT ![r] = 0] /\ got' = [got EXCEPT ![r] = << >>]
      /\ UNCHANGED <<mem, seq, fresh>>
  BY DEF Stop, history
<1>4. ReaderTyped'
  BY <1>1, <1>3 DEF ReaderInv, ReaderTyped
<1>5. /\ DOMAIN got' = Readers /\ DOMAIN got'[r] = {} /\ before'[r] = 0
      /\ \A q \in Readers : q # r => got'[q] = got[q] /\ before'[q] = before[q]
  <2>1. DOMAIN << >> = {}
    OBVIOUS
  <2> QED
    BY <1>1, <1>3, <2>1 DEF ReaderInv, ReaderTyped, Loaded
<1>6. Loaded'
  BY <1>1, <1>5 DEF ReaderInv, Loaded
<1>7. Current'
  <2>1. seq \in Nat /\ fresh \subseteq Readers
    BY <1>1 DEF ReaderInv, ReaderTyped, BridgeInv, BridgeTyped
  <2>2. ASSUME NEW q \in fresh
        PROVE  /\ before'[q] <= seq /\ before'[q] % 2 = 0
               /\ before'[q] = seq => \A x \in DOMAIN got'[q] : got'[q][x] = mem[x]
    <3>1. CASE q = r
      BY <1>5, <2>1, <3>1
    <3>2. CASE q # r
      BY <1>1, <1>5, <2>1, <3>2 DEF ReaderInv, Current
    <3> QED
      BY <3>1, <3>2
  <2> QED
    BY <1>3, <2>2 DEF Current
<1> QED
  BY <1>2, <1>4, <1>6, <1>7, IInvPartsNext DEF ReaderInv

-----------------------------------------------------------------------------
LEMMA InitIInv == Init => IInv
<1> SUFFICES ASSUME Init
             PROVE  IInv
  OBVIOUS
<1>1. MemTyped
  BY BlankHolds DEF Init, MemTyped
<1>2. BridgeTyped /\ HistoryTyped
  BY DEF Init, BridgeTyped, HistoryTyped
<1>3. Unlocked
  BY DEF Init, Unlocked, Inside
<1>4. Locked /\ Sequence /\ Placed /\ JobsStored
  BY <1>3 DEF Init, Unlocked, Locked, Sequence, Placed, JobsStored
<1>5. Numbered /\ Whole /\ OfflineBetweenSessions
  BY DEF Init, Numbered, Whole, OfflineBetweenSessions
<1>6. ReaderTyped
  BY DEF Init, ReaderTyped
<1>7. Loaded /\ Current
  <2>1. DOMAIN << >> = {}
    OBVIOUS
  <2> QED
    BY <2>1 DEF Init, Loaded, Current
<1> QED
  BY <1>1, <1>2, <1>4, <1>5, <1>6, <1>7, IInvParts DEF BridgeInv, ReaderInv

\* Steps of the node that store nothing.
LEMMA PhaseStep ==
  ASSUME IInv, Run \/ EndRun \/ Crash
  PROVE  IInv'
<1>1. BridgeInv /\ ReaderInv
  BY IInvParts
<1>2. UNCHANGED <<mem, seq, number, opens, reader, shown, online, fresh>>
  BY DEF Run, EndRun, Crash, history
<1>3. ReaderInv'
  BY <1>1, <1>2, ReaderSame DEF BridgeInv, BridgeTyped
<1>4. MemTyped' /\ HistoryTyped' /\ Numbered'
  BY <1>1, <1>2 DEF BridgeInv, MemTyped, HistoryTyped, Numbered
<1>5. Whole'
  BY <1>1, <1>2 DEF BridgeInv, Whole, Shows
<1>6. CASE Run
  <2>1. phase = "between" /\ phase' = "running" /\ job' = job
    BY <1>6 DEF Run
  <2>2. BridgeTyped'
    BY <1>1, <1>2, <2>1 DEF BridgeInv, BridgeTyped
  <2>3. (Locked /\ Sequence /\ Placed /\ OfflineBetweenSessions)'
    BY <1>1, <1>2, <2>1 DEF BridgeInv, Locked, Sequence, Placed, OfflineBetweenSessions, Unlocked, Inside
  <2>4. JobsStored'
    BY <1>1, <1>2, <2>1 DEF BridgeInv, JobsStored, Inside, Storing, Shows
  <2> QED
    BY <1>3, <1>4, <1>5, <2>2, <2>3, <2>4, IInvPartsNext DEF BridgeInv
<1>7. CASE EndRun
  <2>1. /\ phase = "running" /\ phase' = "ending" /\ job' = job
        /\ \A w \in Workers : ~Inside(w)
    BY <1>7 DEF EndRun
  <2>2. BridgeTyped'
    BY <1>1, <1>2, <2>1 DEF BridgeInv, BridgeTyped
  <2>3. (Locked /\ Sequence /\ Placed /\ OfflineBetweenSessions)'
    BY <1>1, <1>2, <2>1 DEF BridgeInv, Locked, Sequence, Placed, OfflineBetweenSessions, Unlocked, Inside
  <2>4. JobsStored'
    BY <1>1, <1>2, <2>1 DEF BridgeInv, JobsStored, Inside, Storing, Shows
  <2> QED
    BY <1>3, <1>4, <1>5, <2>2, <2>3, <2>4, IInvPartsNext DEF BridgeInv
<1>8. CASE Crash
  <2>1. phase' = "closed" /\ job' = [w \in Writers |-> NoJob]
    BY <1>8 DEF Crash
  <2>2. BridgeTyped'
    BY <1>1, <1>2, <2>1 DEF BridgeInv, BridgeTyped
  <2>3. \A w \in Writers : ~Inside(w)'
    BY <2>1 DEF Inside
  <2>4. (Locked /\ Sequence /\ Placed /\ OfflineBetweenSessions /\ JobsStored)'
    BY <2>1, <2>3 DEF Locked, Sequence, Placed, OfflineBetweenSessions, Unlocked, JobsStored
  <2> QED
    BY <1>3, <1>4, <1>5, <2>2, <2>4, IInvPartsNext DEF BridgeInv
<1> QED
  BY <1>6, <1>7, <1>8

LEMMA OpenStep ==
  ASSUME IInv, Open
  PROVE  IInv'
<1>1. BridgeInv /\ ReaderInv
  BY IInvParts
<1>2. /\ phase = "closed" /\ phase' = "opening" /\ opens' = opens + 1 /\ number' = 0 /\ seq' = 1
      /\ job' = [job EXCEPT !["service"] = OpenJob]
      /\ shown' = NoFrame /\ online' = FALSE /\ fresh' = {}
      /\ UNCHANGED <<mem, before, got, out>>
  BY DEF Open, reader
<1>3. "service" \in Writers /\ Unlocked /\ OpenJob \in Jobs /\ OpenJob # NoJob
  BY <1>1, <1>2, ConstantsAssumption DEF Writers, BridgeInv, Sequence, OpenJob, Jobs, Kinds, Slots
<1>4. MemTyped' /\ BridgeTyped' /\ HistoryTyped'
  <2>1. MemTyped'
    BY <1>1, <1>2 DEF BridgeInv, MemTyped
  <2>2. job' \in [Writers -> Jobs \cup {NoJob}]
    BY <1>1, <1>2, <1>3 DEF BridgeInv, BridgeTyped
  <2>3. seq' \in Nat /\ number' \in Nat /\ opens' \in Nat
    BY <1>1, <1>2 DEF BridgeInv, BridgeTyped
  <2>4. BridgeTyped'
    BY <1>2, <2>2, <2>3 DEF BridgeTyped
  <2>5. HistoryTyped'
    BY <1>2 DEF HistoryTyped
  <2> QED
    BY <2>1, <2>4, <2>5
<1>5. \A w \in Writers : Inside(w)' <=> w = "service"
  BY <1>1, <1>2, <1>3 DEF BridgeInv, BridgeTyped, Unlocked, Inside
<1>6. job'["service"] = OpenJob
  BY <1>1, <1>2, <1>3 DEF BridgeInv, BridgeTyped
<1>7. (Locked /\ OfflineBetweenSessions)'
  BY <1>2, <1>5 DEF Locked, OfflineBetweenSessions
<1>8. Sequence'
  <2>1. ~Unlocked'
    BY <1>3, <1>5 DEF Unlocked
  <2> QED
    BY <1>2, <2>1 DEF Sequence
<1>9. Placed'
  BY <1>2, <1>5, <1>6 DEF Placed, OpenJob
<1>10. Numbered' /\ Whole'
  BY <1>2 DEF Numbered, Whole
<1>11. JobsStored'
  <2>1. OpenJob.kind = "open" /\ OpenJob.left = Words
    BY DEF OpenJob
  <2>2. Storing(OpenJob)'
    BY <1>2, <2>1 DEF Storing
  <2> QED
    BY <1>5, <1>6, <2>2 DEF JobsStored, Storing, Shows
<1>12. ReaderInv'
  BY <1>1, <1>2 DEF ReaderInv, ReaderTyped, Loaded, Current
<1> QED
  BY <1>4, <1>7, <1>8, <1>9, <1>10, <1>11, <1>12, IInvPartsNext DEF BridgeInv

\* A writer enters: the sequence is odd, and nothing has been stored yet.
LEMMA EnterStep ==
  ASSUME IInv, NEW w \in Writers, NEW j \in Jobs, Enter(w, j), phase # "closed",
         Placed', phase' \in {"between", "running", "ending", "closing"}, number' \in Nat,
         number' >= number, Storing(j)'
  PROVE  IInv'
<1>1. BridgeInv /\ ReaderInv
  BY IInvParts
<1>2. /\ Unlocked /\ seq' = seq + 1 /\ job' = [job EXCEPT ![w] = j]
      /\ UNCHANGED <<mem, opens, reader, shown, online, fresh>>
  BY DEF Enter, history
<1>3. seq \in Nat /\ seq > 0 /\ seq % 2 = 0
  BY <1>1, <1>2 DEF BridgeInv, BridgeTyped, Sequence
<1>4. seq' \in Nat /\ seq' > 0 /\ seq' % 2 = 1 /\ seq' % 2 # 0 /\ seq' > seq
  BY <1>2, <1>3
<1>5. j # NoJob
  BY ConstantsAssumption
<1>6. MemTyped' /\ BridgeTyped' /\ HistoryTyped'
  BY <1>1, <1>2, <1>4 DEF BridgeInv, MemTyped, BridgeTyped, HistoryTyped
<1>7. \A v \in Writers : Inside(v)' <=> v = w
  BY <1>1, <1>2, <1>5 DEF BridgeInv, BridgeTyped, Unlocked, Inside
<1>8. job'[w] = j
  BY <1>1, <1>2 DEF BridgeInv, BridgeTyped
<1>9. Locked' /\ ~Unlocked'
  BY <1>7 DEF Locked, Unlocked
<1>10. OfflineBetweenSessions'
  BY <1>9 DEF OfflineBetweenSessions
<1>11. Sequence'
  BY <1>4, <1>9 DEF Sequence
<1>12. Numbered'
  BY <1>1, <1>2, <1>6 DEF BridgeInv, Numbered, BridgeTyped, SF!Frames
<1>13. Whole'
  BY <1>4, Zenon DEF Whole
<1>14. JobsStored'
  BY <1>7, <1>8 DEF JobsStored, Storing, Shows
<1>15. ReaderInv'
  BY <1>1, <1>2, <1>3, <1>4, ReaderSame
<1> QED
  BY <1>6, <1>9, <1>10, <1>11, <1>12, <1>13, <1>14, <1>15, IInvPartsNext DEF BridgeInv

\* While nobody is inside, the memory and the places of the jobs are as a writer that
\* enters needs them.
LEMMA BeforeEnter ==
  ASSUME IInv, Unlocked, phase # "closed"
  PROVE  Shows
<1>1. seq > 0 /\ seq % 2 = 0
  BY DEF IInv, Sequence
<1> QED
  BY <1>1 DEF IInv, Whole

LEMMA OfflineJobs ==
  ASSUME NEW k \in {"offline", "close"}
  PROVE  /\ OfflineJob(k) \in Jobs /\ OfflineJob(k).kind = k
         /\ OfflineJob(k).left = {Online}
BY WordsKnown DEF OfflineJob, Jobs, Kinds, Slots

LEMMA SetOfflineStep ==
  ASSUME IInv, NEW w \in Writers, SetOffline(w)
  PROVE  IInv'
<1>1. /\ phase \in {"between", "running", "ending"} /\ phase' = phase /\ number' = number
      /\ Unlocked /\ Enter(w, OfflineJob("offline")) /\ UNCHANGED <<mem, shown, online>>
      /\ job' = [job EXCEPT ![w] = OfflineJob("offline")]
  BY DEF SetOffline, Enter, history
<1>2. Shows'
  BY <1>1, BeforeEnter DEF Shows
<1>3. Storing(OfflineJob("offline"))'
  BY <1>1, <1>2, OfflineJobs DEF Storing, Shows
<1>4. Placed'
  BY <1>1, OfflineJobs DEF IInv, TypeOK, Placed, Unlocked, Inside
<1> QED
  BY <1>1, <1>3, <1>4, OfflineJobs, EnterStep DEF IInv, TypeOK

LEMMA CloseStep ==
  ASSUME IInv, Close
  PROVE  IInv'
<1>1. /\ phase = "between" /\ phase' = "closing" /\ number' = number
      /\ Unlocked /\ Enter("service", OfflineJob("close")) /\ UNCHANGED <<mem, shown, online>>
      /\ job' = [job EXCEPT !["service"] = OfflineJob("close")]
  BY DEF Close, Enter, history
<1>2. Shows'
  BY <1>1, BeforeEnter DEF Shows
<1>3. Storing(OfflineJob("close"))'
  BY <1>1, <1>2, OfflineJobs DEF Storing, Shows
<1>4. "service" \in Writers
  BY DEF Writers
<1>5. Placed'
  BY <1>1, OfflineJobs DEF IInv, TypeOK, Placed, Unlocked, Inside
<1> QED
  BY <1>1, <1>3, <1>4, <1>5, OfflineJobs, EnterStep DEF IInv, TypeOK

LEMMA PublishFrameStep ==
  ASSUME IInv, NEW w \in Writers, PublishFrame(w)
  PROVE  IInv'
<1>1. PICK size \in SizesOf[w], s \in Slots \ {mem[Active]} :
        Enter(w, FrameJob([number |-> number', size |-> size, content |-> <<opens, number'>>], s))
  BY DEF PublishFrame
<1>2. /\ w \in Workers /\ phase = "running" /\ phase' = phase /\ number' = number + 1
      /\ Unlocked /\ UNCHANGED <<mem, shown, online>>
  BY <1>1 DEF PublishFrame, Enter, history
<1>3. number \in Nat /\ opens \in Nat /\ number' \in Nat /\ number' > number
  BY <1>2 DEF IInv, TypeOK
<1>4. size \in Sizes
  BY <1>2, ConstantsAssumption
<1>5. [number |-> number', size |-> size, content |-> <<opens, number'>>] \in SF!Frames
  BY <1>3, <1>4 DEF SF!Frames, Contents
<1>6. PICK f \in SF!Frames :
        /\ f = [number |-> number', size |-> size, content |-> <<opens, number'>>]
        /\ f.number = number'
  BY <1>5
<1> DEFINE j == FrameJob(f, s)
<1>7. Enter(w, j) /\ job' = [job EXCEPT ![w] = j]
  BY <1>1, <1>6 DEF Enter
<1>8. j \in Jobs /\ j.kind = "frame" /\ j.frame = f /\ j.left = Header \cup SlotWords(j.slot)
  BY WordsKnown DEF FrameJob, Jobs, Kinds
<1> HIDE DEF j
<1>9. shown # NoFrame => shown.number < number'
  BY <1>3 DEF IInv, Numbered, SF!Frames
<1>10. Storing(j)'
  <2>1. (Header \cup SlotWords(j.slot)) \ j.left = {}
    BY <1>8
  <2> QED
    BY <1>2, <1>6, <1>8, <1>9, <2>1 DEF Storing
<1>11. Placed'
  BY <1>2, <1>7, <1>8 DEF IInv, TypeOK, Placed, Unlocked, Inside
<1>12. number' >= number
  BY <1>3
<1> QED
  BY <1>2, <1>3, <1>7, <1>8, <1>10, <1>11, <1>12, EnterStep

-----------------------------------------------------------------------------
\* What a job has stored, kind by kind.
LEMMA StoringKinds ==
  ASSUME NEW j
  PROVE  /\ j.kind = "open" =>
              (Storing(j) <=> /\ shown = NoFrame /\ online = FALSE
                              /\ \A x \in Words \ j.left : mem[x] = Blank[x])
         /\ j.kind = "frame" =>
              (Storing(j) <=>
                 /\ j.frame \in SF!Frames /\ j.frame.number = number
                 /\ j.left \subseteq Header \cup SlotWords(j.slot)
                 /\ shown # NoFrame => shown.number < number
                 /\ \A x \in (Header \cup SlotWords(j.slot)) \ j.left :
                      mem[x] = Stored(j.frame, j.slot)[x])
         /\ j.kind \notin {"open", "frame"} =>
              (Storing(j) <=> /\ Shows /\ j.left \subseteq {Online}
                              /\ Online \notin j.left => mem[Online] = FALSE)
BY DEF Storing

LEMMA StoreStep ==
  ASSUME IInv, NEW w \in Writers, NEW x \in Words, Store(w, x)
  PROVE  IInv'
<1>1. BridgeInv /\ ReaderInv
  BY IInvParts
<1> DEFINE j == job[w]
           k == job'[w]
<1>2. /\ Inside(w) /\ x \in j.left
      /\ mem' = [mem EXCEPT ![x] = Value(j, x)] /\ job' = [job EXCEPT ![w].left = @ \ {x}]
      /\ UNCHANGED <<seq, phase, number, opens, reader, shown, online, fresh>>
  BY DEF Store, Ready, history
<1>3. j \in Jobs /\ j # NoJob
  BY <1>1, <1>2 DEF BridgeInv, BridgeTyped, Inside
<1>4. /\ k \in Jobs /\ k.kind = j.kind /\ k.slot = j.slot /\ k.frame = j.frame /\ k.left = j.left \ {x}
      /\ \A v \in Writers : v # w => job'[v] = job[v]
      /\ job' \in [Writers -> Jobs \cup {NoJob}]
  <2>1. job' = [job EXCEPT ![w] = [j EXCEPT !.left = j.left \ {x}]]
    BY <1>2
  <2>2. [j EXCEPT !.left = j.left \ {x}] \in Jobs
    BY <1>3 DEF Jobs
  <2>3. k = [j EXCEPT !.left = j.left \ {x}]
    BY <1>1, <2>1 DEF BridgeInv, BridgeTyped
  <2> QED
    BY <1>1, <1>3, <2>1, <2>2, <2>3 DEF BridgeInv, BridgeTyped, Jobs
<1>5. k # NoJob
  BY <1>4, ConstantsAssumption
<1>6. \A v \in Writers : Inside(v)' <=> v = w
  BY <1>1, <1>2, <1>4, <1>5 DEF BridgeInv, Locked, Inside
<1>7. Storing(j)
  BY <1>1, <1>2 DEF BridgeInv, JobsStored
<1>8. Value(j, x) \in Holds(x)
  <2>1. CASE j.kind = "open"
    BY <2>1, BlankHolds DEF Value
  <2>2. CASE j.kind = "frame"
    <3>1. j.frame \in SF!Frames /\ x \in Header \cup SlotWords(j.slot) /\ j.slot \in Slots
      BY <2>2, <1>2, <1>3, <1>7, StoringKinds DEF Jobs
    <3> QED
      BY <2>2, <3>1, StoredHolds DEF Value
  <2>3. CASE j.kind \notin {"open", "frame"}
    <3>1. x = Online
      BY <2>3, <1>2, <1>7, StoringKinds
    <3> QED
      BY <2>3, <3>1, HoldsWhat DEF Value
  <2> QED
    BY <2>1, <2>2, <2>3
<1>9. /\ DOMAIN mem' = Words /\ mem'[x] = Value(j, x)
      /\ \A y \in Words : y # x => mem'[y] = mem[y]
  BY <1>1, <1>2 DEF BridgeInv, MemTyped
<1>10. MemTyped'
  BY <1>1, <1>8, <1>9 DEF BridgeInv, MemTyped
<1>11. BridgeTyped' /\ HistoryTyped' /\ Numbered'
  BY <1>1, <1>2, <1>4 DEF BridgeInv, BridgeTyped, HistoryTyped, Numbered
<1>12. Locked' /\ ~Unlocked' /\ OfflineBetweenSessions'
  BY <1>6 DEF Locked, Unlocked, OfflineBetweenSessions
<1>13. seq % 2 = 1 /\ seq \in Nat
  BY <1>1, <1>2 DEF BridgeInv, BridgeTyped, Sequence
<1>14. Sequence'
  BY <1>1, <1>2, <1>12, <1>13 DEF BridgeInv, Sequence, Unlocked
<1>15. Placed'
  BY <1>1, <1>2, <1>4, <1>6 DEF BridgeInv, Placed
<1>16. Whole'
  <2>1. seq' % 2 # 0
    BY <1>2, <1>13
  <2> QED
    BY <2>1, Zenon DEF Whole
<1>17. JobsStored'
  <2>1. CASE j.kind = "open"
    <3>1. \A y \in Words \ k.left : mem'[y] = Blank[y]
      <4>1. \A y \in Words \ j.left : mem[y] = Blank[y]
        BY ONLY <2>1, <1>7, StoringKinds
      <4>2. mem'[x] = Blank[x]
        BY <2>1, <1>9 DEF Value
      <4>3. \A y \in Words : y # x => mem'[y] = mem[y]
        BY <1>9
      <4>4. k.left = j.left \ {x}
        BY <1>4
      <4> HIDE DEF j, k
      <4> QED
        BY ONLY <4>1, <4>2, <4>3, <4>4
    <3> QED
      BY <3>1, <2>1, <1>2, <1>4, <1>6, <1>7, StoringKinds DEF JobsStored, Storing
  <2>2. CASE j.kind = "frame"
    <3>1. /\ j.frame \in SF!Frames /\ j.frame.number = number
          /\ k.left \subseteq Header \cup SlotWords(j.slot)
          /\ shown # NoFrame => shown.number < number
      BY <2>2, <1>4, <1>7, StoringKinds
    <3>2. Header \cup SlotWords(j.slot) \subseteq Words
      BY <1>3, WordsKnown DEF Jobs
    <3>3. \A y \in (Header \cup SlotWords(j.slot)) \ k.left : mem'[y] = Stored(j.frame, j.slot)[y]
      <4> DEFINE D == Header \cup SlotWords(j.slot)
                 f == Stored(j.frame, j.slot)
      <4>1. \A y \in D \ j.left : mem[y] = f[y]
        BY ONLY <2>2, <1>7, StoringKinds
      <4>2. mem'[x] = f[x]
        BY <2>2, <1>9 DEF Value
      <4>3. \A y \in Words : y # x => mem'[y] = mem[y]
        BY <1>9
      <4>4. k.left = j.left \ {x} /\ D \subseteq Words
        BY <1>4, <3>2
      <4> HIDE DEF j, k, D, f
      <4>5. \A y \in D \ k.left : mem'[y] = f[y]
        BY ONLY <4>1, <4>2, <4>3, <4>4
      <4> QED
        BY <4>5 DEF D, f
    <3> QED
      BY <3>1, <3>3, <2>2, <1>2, <1>4, <1>6 DEF JobsStored, Storing
  <2>3. CASE j.kind \notin {"open", "frame"}
    <3>1. Shows /\ j.left \subseteq {Online} /\ x = Online
      BY <2>3, <1>2, <1>7, StoringKinds
    <3>2. mem'[Online] = FALSE
      BY <2>3, <1>9, <3>1 DEF Value
    <3>3. mem'[Bytes] = mem[Bytes] /\ mem'[Active] = mem[Active] /\ mem[Active] \in Slots
      BY <1>1, <1>9, <3>1, WordsApart, WordsKnown, HoldsWhat DEF BridgeInv, MemTyped
    <3>4. \A s \in Slots : /\ mem'[Length(s)] = mem[Length(s)] /\ mem'[Number(s)] = mem[Number(s)]
                           /\ \A p \in Parts : mem'[Part(s, p)] = mem[Part(s, p)]
      BY <1>9, <3>1, WordsApart, WordsKnown
    <3>5. Shows'
      BY <1>2, <3>1, <3>3, <3>4 DEF Shows
    <3> QED
      BY <3>1, <3>2, <3>5, <2>3, <1>4, <1>6 DEF JobsStored, Storing
  <2> QED
    BY <2>1, <2>2, <2>3
<1>18. ReaderInv'
  BY <1>1, <1>2, <1>13, ReaderSame
<1> QED
  BY <1>10, <1>11, <1>12, <1>14, <1>15, <1>16, <1>17, <1>18, IInvPartsNext DEF BridgeInv

\* What a writer leaves behind it: the frame it stored, all of it, or the sensor
\* offline with the frame that was there.
LEMMA LeaveWhole ==
  ASSUME IInv, NEW w \in Writers, Leave(w)
  PROVE  /\ Shows' /\ mem'[Online] = online'
         /\ job[w].kind = "frame" =>
              /\ shown' \in SF!Frames /\ shown'.number = number
              /\ shown # NoFrame => shown.number < number
         /\ job[w].kind # "frame" => shown' = shown
<1> DEFINE j == job[w]
<1>1. /\ Inside(w) /\ j.left = {} /\ UNCHANGED mem
      /\ shown' = IF j.kind = "frame" THEN j.frame ELSE shown
      /\ online' = (j.kind = "frame")
  BY DEF Leave
<1>2. j \in Jobs /\ Storing(j) /\ mem[Active] \in Slots
  BY <1>1, WordsKnown, HoldsWhat DEF IInv, TypeOK, Inside, JobsStored
<1>3. CASE j.kind = "open"
  <2>1. shown = NoFrame /\ online = FALSE /\ \A x \in Words : mem[x] = Blank[x]
    BY <1>1, <1>2, <1>3, StoringKinds
  <2>2. mem[Bytes] = Vga /\ mem[Active] = "a" /\ mem[Online] = FALSE /\ mem[Length("a")] = 0
    BY <2>1, BlankHolds, WordsKnown DEF Slots
  <2> QED
    BY <1>1, <1>3, <2>1, <2>2 DEF Shows
<1>4. CASE j.kind = "frame"
  <2>1. /\ j.frame \in SF!Frames /\ j.frame.number = number /\ j.slot \in Slots
        /\ shown # NoFrame => shown.number < number
        /\ \A x \in Header \cup SlotWords(j.slot) : mem[x] = Stored(j.frame, j.slot)[x]
    BY <1>1, <1>2, <1>4, StoringKinds DEF Jobs
  <2>2. /\ mem[Bytes] = j.frame.size /\ mem[Active] = j.slot /\ mem[Online] = TRUE
        /\ mem[Length(j.slot)] = j.frame.size /\ mem[Number(j.slot)] = j.frame.number
        /\ \A p \in Parts : mem[Part(j.slot, p)] = j.frame.content
    <3>1. {Bytes, Active, Online, Length(j.slot), Number(j.slot)} \subseteq Header \cup SlotWords(j.slot)
      BY <2>1, WordsKnown
    <3>2. \A p \in Parts : Part(j.slot, p) \in Header \cup SlotWords(j.slot)
      BY <2>1, WordsKnown
    <3>3. /\ mem[Bytes] = j.frame.size /\ mem[Active] = j.slot /\ mem[Online] = TRUE
          /\ mem[Length(j.slot)] = j.frame.size /\ mem[Number(j.slot)] = j.frame.number
      <4> DEFINE f == Stored(j.frame, j.slot)
      <4>1. /\ mem[Bytes] = f[Bytes] /\ mem[Active] = f[Active] /\ mem[Online] = f[Online]
            /\ mem[Length(j.slot)] = f[Length(j.slot)] /\ mem[Number(j.slot)] = f[Number(j.slot)]
        BY <2>1, <3>1
      <4>2. /\ f[Bytes] = j.frame.size /\ f[Active] = j.slot /\ f[Online] = TRUE
            /\ f[Length(j.slot)] = j.frame.size /\ f[Number(j.slot)] = j.frame.number
        BY <2>1, StoredHolds
      <4> HIDE DEF f
      <4> QED
        BY ONLY <4>1, <4>2
    <3>4. \A p \in Parts : mem[Part(j.slot, p)] = j.frame.content
      <4>1. \A p \in Parts : mem[Part(j.slot, p)] = Stored(j.frame, j.slot)[Part(j.slot, p)]
        BY <2>1, <3>2
      <4>2. \A p \in Parts : Stored(j.frame, j.slot)[Part(j.slot, p)] = j.frame.content
        BY <2>1, StoredHolds
      <4> QED
        BY <4>1, <4>2
    <3> QED
      BY <3>3, <3>4
  <2>3. shown' # NoFrame /\ shown' = j.frame
    BY <1>1, <1>4, <2>1, ConstantsAssumption
  <2>4. Shows'
    BY <1>1, <2>2, <2>3 DEF Shows
  <2> QED
    BY <1>1, <1>4, <2>1, <2>2, <2>3, <2>4
<1>5. CASE j.kind \notin {"open", "frame"}
  <2>1. Shows /\ mem[Online] = FALSE
    BY <1>1, <1>2, <1>5, StoringKinds
  <2>2. shown' = shown /\ online' = FALSE
    BY <1>1, <1>5
  <2>3. Shows'
    BY <1>1, <2>1, <2>2 DEF Shows
  <2> QED
    BY <1>1, <1>5, <2>1, <2>2, <2>3
<1> QED
  BY <1>3, <1>4, <1>5

LEMMA LeaveStep ==
  ASSUME IInv, NEW w \in Writers, Leave(w)
  PROVE  IInv'
<1>1. BridgeInv /\ ReaderInv
  BY IInvParts
<1>2. /\ Inside(w) /\ seq' = seq + 1 /\ job' = [job EXCEPT ![w] = NoJob] /\ phase' = PhaseAfter(w)
      /\ online' = (job[w].kind = "frame") /\ UNCHANGED <<mem, number, opens, reader, fresh>>
  BY DEF Leave
<1>3. seq \in Nat /\ seq % 2 = 1 /\ phase # "closed"
  BY <1>1, <1>2 DEF BridgeInv, BridgeTyped, Sequence, Unlocked
<1>4. seq' \in Nat /\ seq' > 0 /\ seq' % 2 = 0 /\ seq' > seq
  BY <1>2, <1>3
<1>5. \A v \in Writers : ~Inside(v)'
  BY <1>1, <1>2 DEF BridgeInv, BridgeTyped, Locked, Inside
<1>6. Locked' /\ Unlocked' /\ JobsStored' /\ Placed'
  BY <1>5 DEF Locked, Unlocked, JobsStored, Placed
<1>7. job[w] \in Jobs /\ job[w].kind \in Kinds
  BY <1>1, <1>2 DEF BridgeInv, BridgeTyped, Inside, Jobs
<1>8. phase' \in {"closed", "opening", "between", "running", "ending", "closing"}
  BY <1>1, <1>2, Zenon DEF BridgeInv, BridgeTyped, PhaseAfter
<1>9. MemTyped' /\ BridgeTyped'
  BY <1>1, <1>2, <1>4, <1>8 DEF BridgeInv, MemTyped, BridgeTyped
<1>10. HistoryTyped'
  <2>1. online' \in BOOLEAN
    BY <1>2
  <2>2. shown' \in SF!Frames \cup {NoFrame}
    BY <1>1, LeaveWhole DEF BridgeInv, HistoryTyped
  <2> QED
    BY <2>1, <2>2 DEF HistoryTyped
<1>11. Numbered'
  <2>1. CASE job[w].kind = "frame"
    <3>1. shown' \in SF!Frames /\ shown'.number = number /\ number \in Nat
      BY <1>1, <2>1, LeaveWhole DEF BridgeInv, BridgeTyped
    <3> QED
      BY <1>2, <3>1 DEF Numbered
  <2>2. CASE job[w].kind # "frame"
    BY <1>1, <1>2, <2>2, LeaveWhole DEF BridgeInv, Numbered
  <2> QED
    BY <2>1, <2>2
<1>12. Whole'
  BY LeaveWhole, Zenon DEF Whole
<1>13. Sequence'
  <2>1. ~(\E v \in Writers : Inside(v)')
    BY <1>5
  <2> QED
    BY <1>4, <1>6, <2>1 DEF Sequence
<1>14. OfflineBetweenSessions'
  <2>1. CASE job[w].kind = "frame"
    <3>1. phase = "running" /\ phase' = phase
      BY <1>1, <1>2, <2>1 DEF BridgeInv, Placed, PhaseAfter
    <3> QED
      BY <3>1 DEF OfflineBetweenSessions
  <2>2. CASE job[w].kind # "frame"
    <3>1. online' = FALSE
      BY <1>2, <2>2
    <3>2. mem'[Online] = FALSE
      BY <3>1, LeaveWhole
    <3> QED
      BY <3>2 DEF OfflineBetweenSessions
  <2> QED
    BY <2>1, <2>2
<1>15. ReaderInv'
  BY <1>1, <1>2, <1>3, <1>4, ReaderSame
<1> QED
  BY <1>6, <1>9, <1>10, <1>11, <1>12, <1>13, <1>14, <1>15, IInvPartsNext DEF BridgeInv

-----------------------------------------------------------------------------
\* What a reader returns has the type of a picture; if the reader began since the
\* memory was set up, it is the last published frame.
LEMMA AcceptGives ==
  ASSUME IInv, NEW r \in Readers, Accept(r)
  PROVE  /\ Copied(r) \in SF!Pictures
         /\ r \in fresh => shown # NoFrame /\ Copied(r) = SF!Picture(shown, online)
<1> DEFINE s == got[r][Active]
<1>1. /\ before[r] # 0 /\ DOMAIN got[r] = Header \cup SlotWords(s) /\ Has(r, Active)
      /\ got[r][Bytes] = got[r][Size] /\ got[r][Length(s)] = got[r][Bytes] /\ seq = before[r]
  BY DEF Accept
<1>2. \A x \in Header \cup SlotWords(s) : got[r][x] \in Holds(x)
  BY <1>1 DEF IInv, Loaded
<1>3. s \in Slots
  BY <1>2, WordsKnown, HoldsWhat
<1>4. got[r][Number(s)] \in Nat /\ got[r][Bytes] \in Sizes /\ got[r][Online] \in BOOLEAN
  BY <1>2, <1>3, WordsKnown, HoldsWhat
<1>5. \A p \in Parts : got[r][Part(s, p)] \in Contents
  BY <1>2, <1>3, WordsKnown, HoldsWhat
<1>6. Copied(r) \in SF!Pictures
  BY <1>1, <1>4, <1>5 DEF Copied, SF!Pictures
<1>7. ASSUME r \in fresh
      PROVE  shown # NoFrame /\ Copied(r) = SF!Picture(shown, online)
  <2>1. seq > 0 /\ seq % 2 = 0
    <3>1. seq \in Nat /\ before[r] % 2 = 0
      BY <1>7 DEF IInv, TypeOK, Current
    <3> QED
      BY <1>1, <3>1
  <2>2. \A x \in Header \cup SlotWords(s) : got[r][x] = mem[x]
    BY <1>1, <1>7 DEF IInv, Current
  <2>3. /\ s = mem[Active] /\ got[r][Bytes] = mem[Bytes] /\ got[r][Online] = mem[Online]
        /\ got[r][Length(s)] = mem[Length(s)] /\ got[r][Number(s)] = mem[Number(s)]
        /\ \A p \in Parts : got[r][Part(s, p)] = mem[Part(s, p)]
    BY <1>3, <2>2, WordsKnown
  <2>4. Shows /\ mem[Online] = online
    BY <2>1 DEF IInv, Whole
  <2>5. mem[Length(s)] # 0
    BY <1>1, <1>4, <2>3, ConstantsAssumption DEF Sizes
  <2>6. shown # NoFrame
    BY <2>3, <2>4, <2>5 DEF Shows
  <2>7. /\ mem[Length(s)] = shown.size /\ mem[Number(s)] = shown.number
        /\ \A p \in Parts : mem[Part(s, p)] = shown.content
    BY <2>3, <2>4, <2>6 DEF Shows
  <2>8. Copied(r).part = [p \in Parts |-> shown.content]
    BY <2>3, <2>7 DEF Copied
  <2>9. Copied(r) = SF!Picture(shown, online)
    BY <2>3, <2>4, <2>7, <2>8 DEF Copied, SF!Picture
  <2> QED
    BY <2>6, <2>9
<1> QED
  BY <1>6, <1>7

LEMMA AcceptStep ==
  ASSUME IInv, NEW r \in Readers, Accept(r)
  PROVE  IInv'
<1>1. out' = [out EXCEPT ![r] = Copied(r)] /\ Stop(r)
  BY DEF Accept
<1>2. out' \in [Readers -> SF!Pictures \cup {NoFrame}]
  BY <1>1, AcceptGives DEF IInv, TypeOK
<1> QED
  BY <1>1, <1>2, StopStep

LEMMA RefuseStep ==
  ASSUME IInv, NEW r \in Readers, Refuse(r)
  PROVE  IInv'
BY StopStep DEF Refuse, IInv, TypeOK

LEMMA NextIInv == IInv /\ [Next]_vars => IInv'
<1> SUFFICES ASSUME IInv, [Next]_vars
             PROVE  IInv'
  OBVIOUS
<1>1. CASE Open
  BY <1>1, OpenStep
<1>2. CASE Run \/ EndRun \/ Crash
  BY <1>2, PhaseStep
<1>3. CASE Close
  BY <1>3, CloseStep
<1>4. ASSUME NEW w \in Writers, SetOffline(w) \/ PublishFrame(w) \/ Leave(w)
      PROVE  IInv'
  BY <1>4, SetOfflineStep, PublishFrameStep, LeaveStep
<1>5. ASSUME NEW w \in Writers, NEW x \in Words, Store(w, x)
      PROVE  IInv'
  BY <1>5, StoreStep
<1>6. ASSUME NEW r \in Readers, StartRead(r) \/ Accept(r) \/ Refuse(r)
      PROVE  IInv'
  BY <1>6, StartReadStep, AcceptStep, RefuseStep
<1>7. ASSUME NEW r \in Readers, NEW x \in Words, ReadWord(r, x)
      PROVE  IInv'
  BY <1>7, ReadWordStep
<1>8. CASE UNCHANGED vars
  <2>1. UNCHANGED <<mem, seq, bridge, shown, online>> /\ UNCHANGED <<before, got, out, fresh, seq, mem>>
    BY <1>8 DEF vars, reader, history
  <2>2. BridgeInv'
    BY <2>1, BridgeSame, IInvParts
  <2>3. ReaderInv'
    BY <2>1, IInvParts DEF ReaderInv, ReaderTyped, Loaded, Current
  <2> QED
    BY <2>2, <2>3, IInvPartsNext
<1> QED
  BY <1>1, <1>2, <1>3, <1>4, <1>5, <1>6, <1>7, <1>8 DEF Next

\* The strengthened invariant holds of every behaviour.
THEOREM Invariance == Spec => []IInv
<1>1. Init => IInv
  BY InitIInv
<1>2. IInv /\ [Next]_vars => IInv'
  BY NextIInv
<1> QED
  BY <1>1, <1>2, PTL DEF Spec

\* Every word, counter and thread has its type, for any number of threads and parts.
THEOREM TypeCorrect == Spec => []TypeOK
<1>1. IInv => TypeOK
  BY DEF IInv
<1> QED
  BY <1>1, Invariance, PTL

\* One writer at a time, and the sequence is odd exactly while it is inside.
THEOREM Odd == Spec => []OddWhileWriting
<1>1. IInv => OddWhileWriting
  <2> SUFFICES ASSUME IInv
               PROVE  OddWhileWriting
    OBVIOUS
  <2>1. Locked /\ Sequence
    BY DEF IInv
  <2>2. ASSUME phase # "closed", seq % 2 = 1
        PROVE  \E w \in Writers : Inside(w)
    <3>1. seq % 2 # 0
      BY <2>2
    <3> QED
      BY <2>1, <2>2, <3>1, Zenon DEF Sequence, Unlocked
  <2> QED
    BY <2>1, <2>2 DEF Locked, Sequence, OddWhileWriting
<1> QED
  BY <1>1, Invariance, PTL

\* Between two sessions the sensor reads as offline.
THEOREM Offline == Spec => []OfflineBetweenSessions
<1>1. IInv => OfflineBetweenSessions
  BY DEF IInv
<1> QED
  BY <1>1, Invariance, PTL

-----------------------------------------------------------------------------
LEMMA LeaveMaps ==
  ASSUME IInv, NEW w \in Writers, Leave(w)
  PROVE  [SF!Next]_(SF!vars)
<1>1. fresh' = fresh /\ out' = out /\ online' = (job[w].kind = "frame")
  BY DEF Leave, reader
<1>2. CASE job[w].kind = "frame"
  <2>1. shown' \in SF!Frames /\ shown'.number = number /\ online' = TRUE
    BY <1>1, <1>2, LeaveWhole
  <2>2. shown # NoFrame => shown'.number > shown.number
    BY <1>2, <2>1, LeaveWhole DEF IInv, TypeOK, Numbered, SF!Frames
  <2>3. SF!Publish
    BY <1>1, <2>1, <2>2 DEF SF!Publish
  <2> QED
    BY <2>3 DEF SF!Next
<1>3. CASE job[w].kind # "frame"
  <2>1. shown' = shown /\ online' = FALSE
    BY <1>1, <1>3, LeaveWhole
  <2> QED
    BY <1>1, <2>1 DEF SF!Next, SF!Offline
<1> QED
  BY <1>2, <1>3

LEMMA AcceptMaps ==
  ASSUME IInv, NEW r \in Readers, Accept(r)
  PROVE  SF!Give(r)
<1>1. out' = [out EXCEPT ![r] = Copied(r)] /\ UNCHANGED <<shown, online, fresh>>
  BY DEF Accept, Stop, history
<1>2. out'[r] = Copied(r)
  BY <1>1 DEF IInv, TypeOK
<1> QED
  BY <1>1, <1>2, AcceptGives DEF SF!Give

\* Every step of bridge and readers is a step of the promise or changes nothing of it.
LEMMA NextMaps ==
  ASSUME IInv, [Next]_vars
  PROVE  [SF!Next]_(SF!vars)
<1>1. CASE Open
  BY <1>1 DEF Open, reader, SF!Next, SF!SetUp
<1>2. ASSUME NEW w \in Writers, Leave(w)
      PROVE  [SF!Next]_(SF!vars)
  BY <1>2, LeaveMaps
<1>3. ASSUME NEW r \in Readers, Accept(r)
      PROVE  [SF!Next]_(SF!vars)
  BY <1>3, AcceptMaps DEF SF!Next
<1>4. ASSUME NEW r \in Readers, StartRead(r)
      PROVE  [SF!Next]_(SF!vars)
  BY <1>4 DEF StartRead, SF!Next, SF!Begin
<1>5. CASE Run \/ EndRun \/ Close \/ Crash
  BY <1>5 DEF Run, EndRun, Close, Crash, Enter, reader, history, SF!vars
<1>6. ASSUME NEW w \in Writers, NEW x \in Words, Store(w, x)
      PROVE  [SF!Next]_(SF!vars)
  BY <1>6 DEF Store, reader, history, SF!vars
<1>7. ASSUME NEW r \in Readers, NEW x \in Words, ReadWord(r, x)
      PROVE  [SF!Next]_(SF!vars)
  BY <1>7 DEF ReadWord, history, SF!vars
<1>8. CASE UNCHANGED vars
  BY <1>8 DEF vars, reader, history, SF!vars
<1>9. ASSUME NEW w \in Writers, SetOffline(w) \/ PublishFrame(w)
      PROVE  [SF!Next]_(SF!vars)
  BY <1>9 DEF SetOffline, PublishFrame, Enter, reader, history, SF!vars
<1>10. ASSUME NEW r \in Readers, Refuse(r)
       PROVE  [SF!Next]_(SF!vars)
  BY <1>10 DEF Refuse, Stop, history, SF!vars
<1> QED
  BY <1>1, <1>2, <1>3, <1>4, <1>5, <1>6, <1>7, <1>8, <1>9, <1>10 DEF Next

\* The shared memory implements its promise: a reader that began since the memory was
\* set up gets the last published frame, all of it, or nothing.
THEOREM Implements == Spec => ReadsAreFrames
<1>1. Init => SF!Init
  BY DEF Init, SF!Init
<1>2. IInv /\ [Next]_vars => [SF!Next]_(SF!vars)
  BY NextMaps
<1> QED
  BY <1>1, <1>2, Invariance, PTL DEF Spec, ReadsAreFrames, SF!Spec
==============================================================================
