----------------------------- MODULE Frames_proofs -----------------------------
(***************************************************************************)
(* From the packets of a sensor to the frames its subscribers are sent:    *)
(* FrameAssembler, and behind it FrameQueue.                               *)
(*                                                                         *)
(* FrameAssembler for every frame size, every modulus of the sequence      *)
(* numbers and every bound on the losses that is below it, provided that   *)
(* the hub gives up on a silent stream before the numbers come round to    *)
(* the same place of a frame (StallAssumption).                            *)
(*                                                                         *)
(* An assembler cannot see that a multiple of Modulus packets is missing.  *)
(* The invariant InFrame therefore does not say that what it holds is one  *)
(* frame: it bounds how far each place is off by the offset that the       *)
(* unseen losses have added up to, and the last place of the frame, whose  *)
(* flag is like no other's, shows that this offset is zero.                *)
(***************************************************************************)
EXTENDS FrameAssembler, MC_FrameQueue, FiniteSets, FiniteSetTheorems, WellFoundedInduction, TLAPS

-----------------------------------------------------------------------------
(* Remainders.                                                              *)

LEMMA Division ==
  ASSUME NEW a \in Int, NEW N \in Nat \ {0}
  PROVE  a % N \in 0..(N - 1) /\ a \div N \in Int /\ a = (a \div N) * N + (a % N)
OBVIOUS

\* Quotient and remainder are determined.
LEMMA UniqueDivision ==
  ASSUME NEW N \in Nat \ {0}, NEW q \in Int, NEW r \in 0..(N - 1),
         NEW p \in Int, NEW s \in 0..(N - 1), q * N + r = p * N + s
  PROVE  q = p /\ r = s
<1>1. (q - p) * N = s - r
  OBVIOUS
<1>2. CASE q - p >= 1
  <2>1. (q - p) * N >= N
    BY <1>2
  <2> QED
    BY <1>1, <2>1
<1>3. CASE q - p <= -1
  <2>1. (q - p) * N <= -N
    BY <1>3
  <2> QED
    BY <1>1, <2>1
<1> QED
  BY <1>1, <1>2, <1>3

LEMMA Remainder ==
  ASSUME NEW N \in Nat \ {0}, NEW q \in Int, NEW r \in 0..(N - 1)
  PROVE  (q * N + r) % N = r
<1> DEFINE a == q * N + r
<1>1. a \in Int
  OBVIOUS
<1> HIDE DEF a
<1>2. a % N \in 0..(N - 1) /\ a \div N \in Int /\ a = (a \div N) * N + (a % N)
  BY <1>1, Division
<1>3. q * N + r = (a \div N) * N + (a % N)
  BY <1>2 DEF a
<1>4. a % N = r
  BY <1>2, <1>3, UniqueDivision
<1> QED
  BY <1>4 DEF a

\* Adding to a remainder.
LEMMA AddToRemainder ==
  ASSUME NEW N \in Nat \ {0}, NEW a \in Int, NEW b \in Int
  PROVE  ((a % N) + b) % N = (a + b) % N
<1>1. PICK r \in 0..(N - 1), q \in Int : a = q * N + r /\ a % N = r
  BY Division
<1>2. r + b \in Int
  OBVIOUS
<1>3. PICK s \in 0..(N - 1), p \in Int : r + b = p * N + s /\ (r + b) % N = s
  BY <1>2, Division
<1>4. a + b = (q + p) * N + s /\ q + p \in Int
  BY <1>1, <1>3
<1>5. (a + b) % N = s
  BY <1>4, Remainder
<1> QED
  BY <1>1, <1>3, <1>5

\* The difference of two remainders.
LEMMA DifferenceOfRemainders ==
  ASSUME NEW N \in Nat \ {0}, NEW a \in Int, NEW g \in Int
  PROVE  (((a + g) % N) - (a % N)) % N = g % N
<1>1. PICK r \in 0..(N - 1), q \in Int : a = q * N + r /\ a % N = r
  BY Division
<1>2. a + g \in Int
  OBVIOUS
<1>3. PICK s \in 0..(N - 1), p \in Int : a + g = p * N + s /\ (a + g) % N = s
  BY <1>2, Division
<1>4. PICK t \in 0..(N - 1), o \in Int : g = o * N + t /\ g % N = t
  BY Division
<1>5. s - r = (q + o - p) * N + t /\ q + o - p \in Int
  BY <1>1, <1>3, <1>4
<1>6. (s - r) % N = t
  BY <1>5, Remainder
<1> QED
  BY <1>1, <1>3, <1>4, <1>6

\* Multiples add up.
LEMMA SumOfMultiples ==
  ASSUME NEW N \in Nat \ {0}, NEW a \in Int, NEW g \in Int, a % N = 0
  PROVE  (a + g - (g % N)) % N = 0
<1> DEFINE q == a \div N
           t == g % N
           o == g \div N
<1>1. q \in Int /\ a = q * N + 0
  BY Division
<1>2. t \in 0..(N - 1) /\ o \in Int /\ g = o * N + t
  BY Division
<1> HIDE DEF q, t, o
<1>3. a + g - t = (q + o) * N + 0 /\ q + o \in Int /\ 0 \in 0..(N - 1)
  BY <1>1, <1>2
<1>4. (a + g - t) % N = 0
  BY <1>3, Remainder
<1> QED
  BY <1>4 DEF t

\* From the first packet of a frame to the last packet of one.
LEMMA WholeFrames ==
  ASSUME NEW N \in Nat \ {0}, NEW a \in Int, NEW b \in Int, a % N = 0, b % N = N - 1
  PROVE  (b - a - (N - 1)) % N = 0
<1> DEFINE q == a \div N
           p == b \div N
<1>1. q \in Int /\ a = q * N + 0
  BY Division
<1>2. p \in Int /\ b = p * N + (N - 1)
  BY Division
<1> HIDE DEF q, p
<1>3. b - a - (N - 1) = (p - q) * N + 0 /\ p - q \in Int /\ 0 \in 0..(N - 1)
  BY <1>1, <1>2
<1> QED
  BY <1>3, Remainder

-----------------------------------------------------------------------------
(* The headers of the packets.                                              *)

LEMMA Sizes == Packets \in Nat \ {0} /\ Packets >= 2 /\ Modulus \in Nat \ {0}
  BY SizeAssumption, LossAssumption

LEMMA HeaderTypes ==
  ASSUME first.k \in Int, first.seq \in Int, NEW k \in Int
  PROVE  Index(k) \in Places /\ Sequence(k) \in 0..(Modulus - 1)
<1>1. k - first.k \in Int /\ first.seq + (k - first.k) \in Int
  OBVIOUS
<1> QED
  BY <1>1, Sizes, Division DEF Index, Sequence, Places

\* The next packet has the next place, or begins a frame.
LEMMA NextIndex ==
  ASSUME first.k \in Int, NEW k \in Int
  PROVE  Index(k + 1) = IF Index(k) = Packets - 1 THEN 0 ELSE Index(k) + 1
<1> DEFINE a == k - first.k
           r == a % Packets
           q == a \div Packets
<1>1. a \in Int /\ k + 1 - first.k = a + 1
  OBVIOUS
<1> HIDE DEF a
<1>2. r \in 0..(Packets - 1) /\ q \in Int /\ a = q * Packets + r
  BY <1>1, Sizes, Division
<1> HIDE DEF r, q
<1>3. CASE r = Packets - 1
  <2>1. a + 1 = (q + 1) * Packets + 0 /\ q + 1 \in Int /\ 0 \in 0..(Packets - 1)
    BY <1>1, <1>2, <1>3, Sizes
  <2>2. (a + 1) % Packets = 0
    BY <2>1, Sizes, Remainder
  <2> QED
    BY <1>1, <1>3, <2>2 DEF Index, r, a
<1>4. CASE r # Packets - 1
  <2>1. a + 1 = q * Packets + (r + 1) /\ r + 1 \in 0..(Packets - 1)
    BY <1>1, <1>2, <1>4, Sizes
  <2>2. (a + 1) % Packets = r + 1
    BY <1>2, <2>1, Sizes, Remainder
  <2> QED
    BY <1>1, <1>4, <2>2 DEF Index, r, a
<1> QED
  BY <1>3, <1>4

\* The number after a packet's is the next packet's.
LEMMA NextSeq ==
  ASSUME first.k \in Int, first.seq \in Int, NEW k \in Int
  PROVE  (Sequence(k) + 1) % Modulus = Sequence(k + 1)
<1>1. PICK a \in Int : a = first.seq + (k - first.k)
  OBVIOUS
<1>2. first.seq + (k + 1 - first.k) = a + 1
  BY <1>1
<1>3. 1 \in Int /\ Modulus \in Nat \ {0}
  BY Sizes
<1>4. ((a % Modulus) + 1) % Modulus = (a + 1) % Modulus
  BY <1>3, AddToRemainder
<1> QED
  BY <1>1, <1>2, <1>4 DEF Sequence

\* Of a loss the assembler sees what is left after whole rounds of numbers.
LEMMA SeenLoss ==
  ASSUME first.k \in Int, first.seq \in Int, NEW n \in Int, NEW gap \in Nat,
         NEW a, a.expected = Sequence(n)
  PROVE  Lost(a, n + gap) = gap % Modulus
<1>1. PICK x \in Int : x = first.seq + (n - first.k)
  OBVIOUS
<1>2. first.seq + (n + gap - first.k) = x + gap
  BY <1>1
<1>3. gap \in Int /\ Modulus \in Nat \ {0}
  BY Sizes
<1>4. (((x + gap) % Modulus) - (x % Modulus)) % Modulus = gap % Modulus
  BY <1>3, DifferenceOfRemainders
<1>5. Sequence(n) = x % Modulus
  BY <1>1 DEF Sequence
<1>6. Sequence(n + gap) = (x + gap) % Modulus
  BY <1>2 DEF Sequence
<1>7. Lost(a, n + gap) = (Sequence(n + gap) - Sequence(n)) % Modulus
  BY DEF Lost
<1>8. Sequence(n + gap) - Sequence(n) = ((x + gap) % Modulus) - (x % Modulus)
  BY <1>5, <1>6
<1> HIDE DEF Sequence
<1> QED
  BY <1>4, <1>7, <1>8

LEMMA LostType ==
  ASSUME first.k \in Int, first.seq \in Int, NEW k \in Int, NEW a, a.expected \in Int
  PROVE  Lost(a, k) \in 0..(Modulus - 1)
<1>1. Sequence(k) - a.expected \in Int
  BY HeaderTypes
<1> QED
  BY <1>1, Sizes, Division DEF Lost

\* The flags tell the first and the last place from all others.
LEMMA Flags ==
  ASSUME NEW i \in Places, NEW j \in Places, Flag(i) = Flag(j)
  PROVE  (i = 0 <=> j = 0) /\ (i = Packets - 1 <=> j = Packets - 1)
  BY Sizes DEF Flag, Places

LEMMA BeginsFrame ==
  ASSUME NEW i \in Places
  PROVE  Flag(i) = "sof" <=> i = 0
  BY Sizes DEF Flag, Places

-----------------------------------------------------------------------------
(* The assembler.                                                           *)

Assemblers == [synced : BOOLEAN, recovered : BOOLEAN, index : Places,
               expected : 0..(Modulus - 1), frame : [Places -> Content]]

\* The packet from which the frame being assembled was begun.
Base == asm.frame[0].k

\* A frame that was begun has its first packet.
Started == asm.synced => asm.index # 0 /\ Base \in 0..(sent - 1)

\* An assembler that begins a frame with packet k, and one that goes on with
\* the frame there is.
Fresh(a, k) == a.index = 0 /\ Index(k) = 0
Continued(a, k) ==
  /\ asm.synced
  /\ a.index = asm.index + Lost(asm, k)
  /\ ~a.recovered => ~asm.recovered /\ Lost(asm, k) = 0
  /\ \A i \in 0..(asm.index - 1) : a.frame[i] = asm.frame[i]
  /\ \A i \in asm.index..(a.index - 1) : a.frame[i] = Fill

Ready(a, k) == a \in Assemblers /\ (a.synced => Fresh(a, k) \/ Continued(a, k))

\* An assembler that takes packet k to its place.
Joined(a, k) == Ready(a, k) /\ a.synced /\ Flag(Index(k)) = Flag(a.index)

\* The packet that the assembler waits for, or the first of a frame.
InStep(k) == \/ Index(k) = 0
             \/ asm.synced /\ asm.index = Index(k) /\ Lost(asm, k) = 0

LEMMA IdleType ==
  ASSUME NEW a, a \in [synced : BOOLEAN, recovered : BOOLEAN, index : Int,
                       expected : 0..(Modulus - 1), frame : [Places -> Content]]
  PROVE  Idle(a) \in Assemblers /\ ~Idle(a).synced
<1>1. 0 \in Places /\ 0 \in 0..(Modulus - 1)
  BY Sizes DEF Places
<1>2. Idle(a) = [a EXCEPT !.synced = FALSE, !.recovered = FALSE, !.index = 0, !.expected = 0]
  BY Zenon DEF Idle
<1> QED
  BY <1>1, <1>2 DEF Assemblers

LEMMA FilledType == Fill \in Content /\ Filled \in [Places -> Content]
  BY BoundAssumption DEF Fill, Filled, Content, NoPacket

LEMMA ResyncReady ==
  ASSUME first.k \in Int, first.seq \in Int, NEW a \in Assemblers, NEW k \in Int
  PROVE  /\ Ready(Resync(a, k), k)
         /\ Resync(a, k).synced => Flag(Index(k)) = Flag(Resync(a, k).index)
         /\ Index(k) = 0 => Resync(a, k).synced
<1>1. Index(k) \in Places /\ Sequence(k) \in 0..(Modulus - 1)
  BY HeaderTypes
<1>2. CASE Index(k) = 0
  <2>1. Resync(a, k) = Start(a, k)
    BY <1>2 DEF Resync, Flag
  <2>2. /\ Start(a, k) \in Assemblers
        /\ Start(a, k).index = 0 /\ Start(a, k).synced
    <3>1. 0 \in Places
      BY Sizes DEF Places
    <3> QED
      BY <1>1, <3>1, FilledType DEF Start, Assemblers
  <2> QED
    BY <1>2, <2>1, <2>2 DEF Ready, Fresh
<1>3. CASE Index(k) # 0
  <2>1. Resync(a, k) = Idle(a)
    BY <1>1, <1>3, BeginsFrame DEF Resync
  <2>2. Idle(a) \in Assemblers /\ ~Idle(a).synced
    BY IdleType DEF Assemblers, Places
  <2> QED
    BY <1>3, <2>1, <2>2 DEF Ready
<1> QED
  BY <1>2, <1>3

\* A short gap is filled.
LEMMA SkipReady ==
  ASSUME first.k \in Int, first.seq \in Int, asm \in Assemblers, NEW k \in Int,
         asm.synced, asm.index + Lost(asm, k) < Packets
  PROVE  /\ Ready(Skip(asm, k), k) /\ Skip(asm, k).synced
         /\ Skip(asm, k).index = asm.index + Lost(asm, k)
<1> DEFINE n == asm.index + Lost(asm, k)
           f == [i \in Places |-> IF i \in asm.index..(asm.index + Lost(asm, k) - 1)
                                  THEN Fill ELSE asm.frame[i]]
           a == Skip(asm, k)
<1>1. Index(k) \in Places /\ Sequence(k) \in 0..(Modulus - 1)
  BY HeaderTypes
<1>2. asm.index \in Places /\ asm.expected \in Int /\ asm.frame \in [Places -> Content]
  BY Sizes DEF Assemblers
<1>3. Lost(asm, k) \in 0..(Modulus - 1)
  BY <1>2, LostType
<1>4. n \in Places /\ asm.index <= n
  BY <1>2, <1>3, Sizes DEF Places
<1>5. f \in [Places -> Content]
  BY <1>2, FilledType
<1>6. a = [asm EXCEPT !.index = n, !.recovered = TRUE, !.expected = Sequence(k), !.frame = f]
  <2>1. Skip(asm, k)
          = [asm EXCEPT !.index = asm.index + Lost(asm, k), !.recovered = TRUE, !.expected = Sequence(k),
               !.frame = [i \in Places |-> IF i \in asm.index..(asm.index + Lost(asm, k) - 1)
                                           THEN Fill ELSE asm.frame[i]]]
    BY DEF Skip
  <2> QED
    BY <2>1
<1>7. asm.index + Lost(asm, k) - 1 = n - 1
  BY <1>2, <1>3 DEF Places
<1>8. \A i \in Places : f[i] = IF i \in asm.index..(n - 1) THEN Fill ELSE asm.frame[i]
  BY <1>7
<1> HIDE DEF n, f, a
<1>9. /\ a \in Assemblers
      /\ a.index = n /\ a.recovered = TRUE /\ a.frame = f /\ a.synced = asm.synced
  BY <1>1, <1>4, <1>5, <1>6 DEF Assemblers
<1>10. /\ \A i \in 0..(asm.index - 1) : a.frame[i] = asm.frame[i]
       /\ \A i \in asm.index..(a.index - 1) : a.frame[i] = Fill
  <2>1. \A i \in 0..(n - 1) : i \in Places
    BY <1>4, Sizes DEF Places
  <2>2. \A i \in 0..(asm.index - 1) : i \in Places /\ i \notin asm.index..(n - 1)
    BY <1>2, <1>4, Sizes DEF Places
  <2> QED
    BY <1>2, <1>8, <1>9, <2>1, <2>2 DEF Places
<1>11. Continued(a, k)
  BY <1>9, <1>10 DEF Continued, n
<1> QED
  BY <1>9, <1>11 DEF Ready, n, a

\* Nothing is missing.
LEMMA SameReady ==
  ASSUME asm \in Assemblers, NEW k, asm.synced => Lost(asm, k) = 0
  PROVE  Ready(asm, k)
<1>1. asm.index \in Places /\ asm.index \in Int
  BY DEF Assemblers, Places
<1>2. ASSUME asm.synced PROVE Continued(asm, k)
  BY <1>1, <1>2 DEF Continued
<1> QED
  BY <1>2 DEF Ready

\* What a packet in step does not find is a loss: the place is right then.
LEMMA JoinsInStep ==
  ASSUME Started, asm \in Assemblers, first.k \in Int, first.seq \in Int,
         NEW k \in Int, InStep(k), NEW a, Joined(a, k)
  PROVE  a.index = Index(k)
<1>1. Index(k) \in Places /\ a.index \in Places /\ asm.index \in Places
  BY HeaderTypes DEF Joined, Ready, Assemblers
<1>2. /\ Index(k) = 0 <=> a.index = 0
  BY <1>1, Flags DEF Joined
<1>3. CASE Index(k) = 0
  BY <1>2, <1>3
<1>4. CASE Index(k) # 0 /\ asm.synced /\ asm.index = Index(k) /\ Lost(asm, k) = 0
  <2>1. Continued(a, k)
    BY <1>4 DEF Joined, Ready, Fresh
  <2> QED
    BY <1>1, <1>4, <2>1 DEF Continued, Places
<1> QED
  BY <1>3, <1>4 DEF InStep

\* process: where a packet is put on Linux.
LEMMA LinuxReady ==
  ASSUME Started, asm \in Assemblers, first.k \in Int, first.seq \in Int, NEW k \in Int,
         NEW a, a = InPlace(InOrder(asm, k), k)
  PROVE  /\ a \in Assemblers
         /\ a.synced => Joined(a, k)
         /\ InStep(k) => a.synced
<1> DEFINE b == InOrder(asm, k)
<1>1. Index(k) \in Places /\ asm.index \in Places /\ asm.expected \in Int
  BY HeaderTypes, Sizes DEF Assemblers
<1>2. Lost(asm, k) \in 0..(Modulus - 1)
  BY <1>1, LostType
<1>3. /\ Ready(b, k)
      /\ Index(k) = 0 => b.synced
      /\ asm.synced /\ Lost(asm, k) = 0 => b = asm
  <2>1. CASE ~asm.synced
    BY <2>1, ResyncReady DEF InOrder
  <2>2. CASE asm.synced /\ Lost(asm, k) = 0
    BY <2>2, SameReady DEF InOrder
  <2>3. CASE /\ asm.synced /\ Lost(asm, k) # 0
             /\ Lost(asm, k) > MaxLoss \/ asm.index + Lost(asm, k) >= Packets
    BY <2>3, ResyncReady DEF InOrder
  <2>4. CASE /\ asm.synced /\ Lost(asm, k) # 0
             /\ ~(Lost(asm, k) > MaxLoss \/ asm.index + Lost(asm, k) >= Packets)
    <3>1. asm.index + Lost(asm, k) < Packets
      BY <1>1, <1>2, <2>4, Sizes DEF Places
    <3> QED
      BY <2>4, <3>1, SkipReady DEF InOrder
  <2> QED
    BY <2>1, <2>2, <2>3, <2>4
<1> HIDE DEF b
<1>4. b \in Assemblers /\ b.index \in Places /\ ~(b.index >= Packets)
  BY <1>3, Sizes DEF Ready, Assemblers, Places
<1>5. CASE b.synced /\ Flag(Index(k)) # Flag(b.index)
  <2>1. a = Resync(b, k)
    BY <1>4, <1>5 DEF InPlace, b
  <2>2. ~(asm.synced /\ asm.index = Index(k) /\ Lost(asm, k) = 0)
    BY <1>3, <1>5
  <2> QED
    BY <1>4, <2>1, <2>2, ResyncReady DEF InStep, Joined, Ready
<1>6. CASE ~(b.synced /\ Flag(Index(k)) # Flag(b.index))
  <2>1. a = b
    BY <1>4, <1>6 DEF InPlace, b
  <2> QED
    BY <1>3, <1>4, <1>6, <2>1 DEF InStep, Joined
<1> QED
  BY <1>5, <1>6

\* Push: where a packet is put on Windows.
LEMMA WindowsReady ==
  ASSUME Started, asm \in Assemblers, first.k \in Int, first.seq \in Int, NEW k \in Int,
         NEW a, a = Sequenced(asm, k)
  PROVE  /\ a \in Assemblers
         /\ a.synced /\ Flag(Index(k)) = Flag(a.index) => Joined(a, k)
         /\ InStep(k) => a.synced /\ Flag(Index(k)) = Flag(a.index)
<1>1. /\ Index(k) \in Places /\ asm.index \in Places /\ asm.expected \in Int
      /\ Sequence(k) \in 0..(Modulus - 1)
  BY HeaderTypes, Sizes DEF Assemblers
<1>2. Lost(asm, k) \in 0..(Modulus - 1)
  BY <1>1, LostType
<1>3. CASE Index(k) = 0
  <2>1. a = Begun(asm, k)
    BY <1>3 DEF Sequenced, Flag
  <2>2. a \in Assemblers /\ a.synced /\ a.index = 0
    BY <1>1, <1>3, <2>1 DEF Begun, Assemblers
  <2> QED
    BY <1>3, <2>2 DEF Joined, Ready, Fresh
<1>4. CASE Index(k) # 0
  <2>1. Flag(Index(k)) # "sof"
    BY <1>1, <1>4, BeginsFrame
  <2>2. CASE ~asm.synced \/ Lost(asm, k) = 0
    <3>1. a = asm
      BY <2>1, <2>2 DEF Sequenced
    <3>2. Ready(a, k)
      BY <2>2, <3>1, SameReady
    <3> QED
      BY <1>4, <3>1, <3>2 DEF Joined, Ready, InStep
  <2>3. CASE /\ asm.synced /\ Lost(asm, k) # 0
             /\ Lost(asm, k) > MaxLoss \/ asm.index + Lost(asm, k) >= Packets
    <3>1. a = Idle(asm)
      BY <2>1, <2>3 DEF Sequenced, ResetSync
    <3>2. a \in Assemblers /\ ~a.synced
      BY <3>1, IdleType DEF Assemblers, Places
    <3> QED
      BY <1>4, <2>3, <3>2 DEF InStep
  <2>4. CASE /\ asm.synced /\ Lost(asm, k) # 0
             /\ ~(Lost(asm, k) > MaxLoss \/ asm.index + Lost(asm, k) >= Packets)
    <3>1. asm.index + Lost(asm, k) < Packets
      BY <1>1, <1>2, <2>4, Sizes DEF Places
    <3>2. a = Skip(asm, k)
      BY <2>1, <2>4 DEF Sequenced
    <3>3. Ready(a, k) /\ a.synced
      BY <2>4, <3>1, <3>2, SkipReady
    <3> QED
      BY <1>4, <2>4, <3>3 DEF InStep, Joined, Ready
  <2> QED
    BY <2>2, <2>3, <2>4
<1> QED
  BY <1>3, <1>4

\* The packet is put in its place.
LEMMA StoreFacts ==
  ASSUME first.k \in Int, first.seq \in Int, NEW a \in Assemblers,
         NEW k \in 0..(MaxPackets - 1), NEW size
  PROVE  LET s == Store(a, k, size)
         IN  /\ s.synced = a.synced /\ s.index = a.index + 1 /\ s.expected = Sequence(k + 1)
             /\ s \in [synced : BOOLEAN, recovered : BOOLEAN, index : Int,
                       expected : 0..(Modulus - 1), frame : [Places -> Content]]
             /\ s.frame[a.index].k = k
             /\ s.frame[a.index].whole <=> size = "whole"
             /\ \A i \in Places : i # a.index => s.frame[i] = a.frame[i]
             /\ ~s.recovered => ~a.recovered /\ size # "short"
<1> DEFINE p == [k |-> k, whole |-> size = "whole"]
           f == [a.frame EXCEPT ![a.index] = p]
           x == Store(a, k, size)
<1>1. k \in Int /\ k + 1 \in Int /\ a.index \in Places /\ a.index + 1 \in Int
  BY Sizes, BoundAssumption DEF Assemblers, Places
<1>2. (Sequence(k) + 1) % Modulus = Sequence(k + 1) /\ Sequence(k + 1) \in 0..(Modulus - 1)
  BY <1>1, NextSeq, HeaderTypes
<1>3. p \in Content
  BY BoundAssumption DEF Content, NoPacket
<1>4. a.frame \in [Places -> Content]
  BY DEF Assemblers
<1>5. f \in [Places -> Content] /\ f[a.index] = p /\ \A i \in Places : i # a.index => f[i] = a.frame[i]
  BY <1>1, <1>3, <1>4
<1>6. /\ x.frame = f /\ x.index = a.index + 1 /\ x.expected = (Sequence(k) + 1) % Modulus
      /\ x.synced = a.synced /\ x.recovered = (a.recovered \/ size = "short")
  BY DEF Store, Assemblers
<1>7. x \in [synced : BOOLEAN, recovered : BOOLEAN, index : Int,
             expected : 0..(Modulus - 1), frame : [Places -> Content]]
  BY <1>1, <1>2, <1>5 DEF Store, Assemblers
<1>8. p.k = k /\ (p.whole <=> size = "whole")
  OBVIOUS
<1> HIDE DEF p, f, x
<1>9. ~x.recovered => ~a.recovered /\ size # "short"
  BY <1>6
<1>10. /\ x.frame[a.index].k = k
       /\ x.frame[a.index].whole <=> size = "whole"
       /\ \A i \in Places : i # a.index => x.frame[i] = a.frame[i]
  BY <1>5, <1>6, <1>8
<1> QED
  BY <1>2, <1>6, <1>7, <1>9, <1>10 DEF x

-----------------------------------------------------------------------------
(* What becomes of a packet, on either system.                              *)

\* Nothing is assembled any more.
Dropped(k, size) ==
  /\ asm' \in Assemblers /\ ~asm'.synced
  /\ UNCHANGED <<out, last>>
  /\ InStep(k) => size = "long"

\* It is put in a place that is not the last one.
Stored(a, k, size) ==
  /\ Joined(a, k) /\ size # "long"
  /\ a.index < Packets - 1
  /\ asm' = Store(a, k, size)
  /\ UNCHANGED <<out, last>>

\* It completes the frame.
Completes(a, k, size) ==
  /\ Joined(a, k) /\ size # "long"
  /\ a.index = Packets - 1
  /\ out'.frame = Store(a, k, size).frame
  /\ out'.recovered = Store(a, k, size).recovered
  /\ out' \in [frame : [Places -> Content], recovered : BOOLEAN]
  /\ last' = k + 1
  /\ asm' \in Assemblers /\ ~asm'.synced

LEMMA Outcome ==
  ASSUME Started, asm \in Assemblers, first.k \in Int, first.seq \in Int,
         NEW k \in 0..(MaxPackets - 1), NEW size,
         NEW a, Joined(a, k), size # "long",
         \/ a.index < Packets - 1 /\ asm' = Store(a, k, size) /\ UNCHANGED <<out, last>>
         \/ /\ ~(a.index < Packets - 1)
            /\ out' = [frame |-> Store(a, k, size).frame, recovered |-> Store(a, k, size).recovered]
            /\ last' = k + 1
            /\ asm' = Idle(Store(a, k, size))
  PROVE  Stored(a, k, size) \/ Completes(a, k, size)
<1>1. a \in Assemblers /\ a.index \in Places
  BY DEF Joined, Ready, Assemblers
<1>2. CASE a.index < Packets - 1
  BY <1>2 DEF Stored
<1>3. CASE ~(a.index < Packets - 1)
  <2>1. a.index = Packets - 1
    BY <1>1, <1>3, Sizes DEF Places
  <2>2. Store(a, k, size) \in [synced : BOOLEAN, recovered : BOOLEAN, index : Int,
                               expected : 0..(Modulus - 1), frame : [Places -> Content]]
    BY <1>1, StoreFacts
  <2>3. Idle(Store(a, k, size)) \in Assemblers /\ ~Idle(Store(a, k, size)).synced
    BY <2>2, IdleType
  <2> QED
    BY <1>3, <2>1, <2>2, <2>3 DEF Completes
<1> QED
  BY <1>2, <1>3

LEMMA ReceiveCases ==
  ASSUME Started, asm \in Assemblers, first.k \in Int, first.seq \in Int,
         NEW k \in 0..(MaxPackets - 1), NEW size,
         Process(k, size) \/ Push(k, size)
  PROVE  Dropped(k, size) \/ \E a : Stored(a, k, size) \/ Completes(a, k, size)
<1>0. k \in Int
  BY BoundAssumption
<1>1. CASE Process(k, size)
  <2> DEFINE a == InPlace(InOrder(asm, k), k)
  <2>1. a \in Assemblers /\ (a.synced => Joined(a, k)) /\ (InStep(k) => a.synced)
    BY <1>0, LinuxReady
  <2>2. \/ ~a.synced /\ asm' = a /\ UNCHANGED <<out, last>>
        \/ a.synced /\ size = "long" /\ asm' = Idle(a) /\ UNCHANGED <<out, last>>
        \/ a.synced /\ size # "long" /\
           \/ a.index < Packets - 1 /\ asm' = Store(a, k, size) /\ UNCHANGED <<out, last>>
           \/ /\ ~(a.index < Packets - 1)
              /\ out' = [frame |-> Store(a, k, size).frame,
                         recovered |-> Store(a, k, size).recovered]
              /\ last' = k + 1
              /\ asm' = Idle(Store(a, k, size))
    BY <1>1 DEF Process
  <2> HIDE DEF a
  <2>3. CASE ~a.synced /\ asm' = a /\ UNCHANGED <<out, last>>
    BY <2>1, <2>3 DEF Dropped
  <2>4. CASE a.synced /\ size = "long" /\ asm' = Idle(a) /\ UNCHANGED <<out, last>>
    <3>1. asm' \in Assemblers /\ ~asm'.synced
      BY <2>1, <2>4, IdleType DEF Assemblers, Places
    <3> QED
      BY <2>4, <3>1 DEF Dropped
  <2> QED
    BY <2>1, <2>2, <2>3, <2>4, Outcome
<1>2. CASE Push(k, size)
  <2> DEFINE a == Sequenced(asm, k)
  <2>1. /\ a \in Assemblers
        /\ a.synced /\ Flag(Index(k)) = Flag(a.index) => Joined(a, k)
        /\ InStep(k) => a.synced /\ Flag(Index(k)) = Flag(a.index)
    BY <1>0, WindowsReady
  <2>2. \/ ~a.synced /\ asm' = a /\ UNCHANGED <<out, last>>
        \/ /\ a.synced /\ (Flag(Index(k)) # Flag(a.index) \/ size = "long")
           /\ asm' = Idle(a) /\ UNCHANGED <<out, last>>
        \/ a.synced /\ Flag(Index(k)) = Flag(a.index) /\ size # "long" /\
           \/ a.index < Packets - 1 /\ asm' = Store(a, k, size) /\ UNCHANGED <<out, last>>
           \/ /\ ~(a.index < Packets - 1)
              /\ out' = [frame |-> Store(a, k, size).frame,
                         recovered |-> Store(a, k, size).recovered]
              /\ last' = k + 1
              /\ asm' = Idle(Store(a, k, size))
    BY <1>2 DEF Push, ResetSync
  <2> HIDE DEF a
  <2>3. CASE ~a.synced /\ asm' = a /\ UNCHANGED <<out, last>>
    BY <2>1, <2>3 DEF Dropped
  <2>4. CASE /\ a.synced /\ (Flag(Index(k)) # Flag(a.index) \/ size = "long")
             /\ asm' = Idle(a) /\ UNCHANGED <<out, last>>
    <3>1. asm' \in Assemblers /\ ~asm'.synced
      BY <2>1, <2>4, IdleType DEF Assemblers, Places
    <3> QED
      BY <2>1, <2>4, <3>1 DEF Dropped
  <2> QED
    BY <2>1, <2>2, <2>3, <2>4, Outcome
<1> QED
  BY <1>1, <1>2

-----------------------------------------------------------------------------
(* The inductive invariant.                                                 *)

\* The frame being assembled was begun in this session.
Current == asm.synced /\ Base >= first.k

\* How many packets went by unseen while the frame was assembled.
Offset == sent - Base - asm.index

Ordered == first.k <= sent /\ last <= sent /\ clean <= sent

\* What the places of a frame hold that was begun with packet b and has been
\* filled up to place n, when d packets went by unseen.
Held(frame, recovered, b, n, d) ==
  \A i \in 0..(n - 1) :
    /\ frame[i].k # NoPacket => frame[i].k \in (b + i)..(b + i + d)
    /\ ~recovered => frame[i].k # NoPacket /\ frame[i].whole

\* Only whole rounds of the sequence numbers go by unseen.
InFrame == Current =>
  /\ Index(Base) = 0 /\ last <= Base
  /\ Offset >= 0 /\ Offset % Modulus = 0
  /\ asm.expected = Sequence(sent)
  /\ Held(asm.frame, asm.recovered, Base, asm.index, Offset)

\* The frame that was published was begun before the next packet; or there was none.
Published ==
  /\ out.frame[0].k < sent
  /\ out.frame[0].k = NoPacket =>
       out.recovered /\ \A i \in Places : out.frame[i].k = NoPacket

\* After as many clean packets as the place of the next one, the assembler is in step.
Following == Index(sent) # 0 /\ clean >= Index(sent) =>
  asm.synced /\ asm.index = Index(sent) /\ asm.expected = Sequence(sent)

\* After a frame more, one has been published.
Completed == clean >= Index(sent) + Packets => sent - last <= Index(sent)

IInv ==
  /\ TypeOK /\ Ordered /\ Started /\ InFrame /\ Published /\ Following /\ Completed
  /\ WholeUnlessFlagged /\ NoForeignPixels

\* A packet that joins the frame.
LEMMA Grown ==
  ASSUME TypeOK, Ordered, Started, InFrame,
         NEW gap \in Nat, NEW k \in 0..(MaxPackets - 1), k = sent + gap,
         NEW size, size \in {"whole", "short"},
         NEW a, Joined(a, k), NEW x, x = Store(a, k, size), NEW b, b = x.frame[0].k
  PROVE  /\ b \in 0..k
         /\ b >= first.k =>
              /\ Index(b) = 0 /\ last <= b
              /\ k - b - a.index >= 0 /\ (k - b - a.index) % Modulus = 0
              /\ Held(x.frame, x.recovered, b, a.index + 1, k - b - a.index)
<1>1. /\ first.k \in Nat /\ first.seq \in Nat /\ sent \in Nat /\ last \in Nat
      /\ asm \in Assemblers /\ k \in Nat /\ k \in Int
  BY Sizes, BoundAssumption DEF TypeOK, Assemblers
<1>2. a \in Assemblers /\ a.index \in Places /\ a.index \in Nat /\ 0 \in Places
  BY Sizes DEF Joined, Ready, Assemblers, Places
<1>3. /\ x.frame[a.index].k = k
      /\ x.frame[a.index].whole <=> size = "whole"
      /\ \A i \in Places : i # a.index => x.frame[i] = a.frame[i]
      /\ ~x.recovered => ~a.recovered /\ size # "short"
  BY <1>1, <1>2, StoreFacts
<1>4. CASE Fresh(a, k)
  <2>1. a.index = 0 /\ Index(k) = 0 /\ b = k
    BY <1>3, <1>4 DEF Fresh
  <2>2. last <= b /\ k - b - a.index = 0
    BY <1>1, <2>1 DEF Ordered
  <2>3. 0 % Modulus = 0
    BY Sizes
  <2>4. Held(x.frame, x.recovered, b, a.index + 1, k - b - a.index)
    <3> SUFFICES ASSUME NEW i \in 0..0
                 PROVE  /\ x.frame[i].k # NoPacket => x.frame[i].k \in (b + i)..(b + i + 0)
                        /\ ~x.recovered => x.frame[i].k # NoPacket /\ x.frame[i].whole
      BY <2>1, <2>2 DEF Held
    <3>1. i = 0 /\ x.frame[i].k = k
      BY <1>3, <2>1
    <3>2. k \in (b + i)..(b + i + 0) /\ k # NoPacket
      BY <1>1, <2>1, <3>1 DEF NoPacket
    <3> QED
      BY <1>3, <2>1, <3>1, <3>2
  <2>5. b \in 0..k
    BY <1>1, <2>1
  <2>6. Index(b) = 0 /\ (k - b - a.index) % Modulus = 0 /\ k - b - a.index >= 0
    <3>1. k - b - a.index = 0 /\ b = k
      BY <2>1, <2>2
    <3> QED
      BY <2>1, <2>3, <3>1
  <2> QED
    BY <2>2, <2>4, <2>5, <2>6
<1>5. CASE Continued(a, k)
  <2> DEFINE n == asm.index
             l == Lost(asm, k)
  <2>1. n \in Places /\ n \in Nat /\ n # 0 /\ asm.synced /\ Base \in 0..(sent - 1)
    BY <1>1, <1>5, Sizes DEF Continued, Started, Assemblers, Places
  <2>2. asm.expected \in Int
    BY <1>1, Sizes DEF Assemblers
  <2>3. l \in 0..(Modulus - 1) /\ l \in Nat
    BY <1>1, <2>2, LostType, Sizes
  <2>4. a.index = n + l /\ a.index # 0
    BY <1>5, <2>1, <2>3 DEF Continued
  <2>5. b = Base
    <3>1. x.frame[0] = a.frame[0]
      BY <1>2, <1>3, <2>4
    <3>2. 0 \in 0..(n - 1)
      BY <2>1
    <3> QED
      BY <1>5, <3>1, <3>2 DEF Continued, Base
  <2> HIDE DEF n, l
  <2>6. b \in 0..k
    BY <1>1, <2>1, <2>5
  <2>7. ASSUME b >= first.k
        PROVE  /\ Index(b) = 0 /\ last <= b
               /\ k - b - a.index >= 0 /\ (k - b - a.index) % Modulus = 0
               /\ Held(x.frame, x.recovered, b, a.index + 1, k - b - a.index)
    <3>1. Current
      BY <2>1, <2>5, <2>7 DEF Current
    <3> DEFINE o == Offset
               e == k - b - a.index
    <3>2. /\ Index(b) = 0 /\ last <= b /\ o >= 0 /\ o % Modulus = 0 /\ asm.expected = Sequence(sent)
          /\ Held(asm.frame, asm.recovered, b, n, o)
      BY <2>5, <3>1 DEF InFrame, n
    <3>3. l = gap % Modulus
      BY <1>1, <3>2, SeenLoss DEF l
    <3>4. o \in Int /\ o = sent - b - n
      BY <1>1, <2>1, <2>5 DEF Offset, n
    <3>5. e = o + gap - l /\ e \in Int
      BY <1>1, <2>1, <2>3, <2>4, <2>6, <3>4
    <3>6. gap % Modulus <= gap
      BY Sizes
    <3> HIDE DEF o, e
    <3>7. e >= o
      BY <2>3, <3>3, <3>4, <3>5, <3>6
    <3>8. (o + gap - (gap % Modulus)) % Modulus = 0
      <4>1. gap \in Int /\ Modulus \in Nat \ {0}
        BY Sizes
      <4> QED
        BY <3>2, <3>4, <4>1, SumOfMultiples
    <3>9. e % Modulus = 0
      BY <3>3, <3>5, <3>8
    <3>10. Held(x.frame, x.recovered, b, a.index + 1, e)
      <4> SUFFICES ASSUME NEW i \in 0..a.index
                   PROVE  /\ x.frame[i].k # NoPacket => x.frame[i].k \in (b + i)..(b + i + e)
                          /\ ~x.recovered => x.frame[i].k # NoPacket /\ x.frame[i].whole
        BY <1>2 DEF Held
      <4>1. i \in Places
        BY <1>2, Sizes DEF Places
      <4>2. CASE i = a.index
        <5>1. x.frame[i].k = k
          BY <1>3, <4>2
        <5>2. k \in (b + i)..(b + i + e) /\ k # NoPacket
          BY <1>1, <1>2, <2>6, <3>2, <3>4, <3>5, <3>7, <4>2 DEF NoPacket, e
        <5> QED
          BY <1>3, <4>2, <5>1, <5>2
      <4>3. CASE i \in 0..(n - 1)
        <5>1. i # a.index
          BY <2>1, <2>3, <2>4, <4>3
        <5>2. x.frame[i] = a.frame[i] /\ a.frame[i] = asm.frame[i]
          BY <1>3, <1>5, <4>1, <4>3, <5>1 DEF Continued, n
        <5>3. /\ asm.frame[i].k # NoPacket => asm.frame[i].k \in (b + i)..(b + i + o)
              /\ ~asm.recovered => asm.frame[i].k # NoPacket /\ asm.frame[i].whole
          BY <3>2, <4>3 DEF Held
        <5>4. (b + i)..(b + i + o) \subseteq (b + i)..(b + i + e)
          BY <2>6, <3>4, <3>5, <3>7
        <5> QED
          BY <1>3, <1>5, <5>2, <5>3, <5>4 DEF Continued
      <4>4. CASE i \in n..(a.index - 1)
        <5>1. i # a.index /\ l # 0
          BY <1>2, <2>1, <2>3, <2>4, <4>4
        <5>2. x.frame[i] = Fill
          BY <1>3, <1>5, <4>1, <4>4, <5>1 DEF Continued, n
        <5>3. x.recovered
          BY <1>3, <1>5, <5>1 DEF Continued, l
        <5> QED
          BY <5>2, <5>3 DEF Fill
      <4> QED
        BY <1>2, <2>1, <2>3, <2>4, <4>2, <4>3, <4>4
    <3> QED
      BY <3>2, <3>4, <3>5, <3>7, <3>9, <3>10 DEF e
  <2> QED
    BY <2>6, <2>7
<1> QED
  BY <1>4, <1>5 DEF Joined, Ready

\* The last place of a frame shows that nothing went by unseen.
LEMMA FrameComplete ==
  ASSUME TypeOK, Ordered, Started, InFrame,
         NEW gap \in Nat, NEW k \in 0..(MaxPackets - 1), k = sent + gap, k - last < Stall,
         NEW size, size \in {"whole", "short"},
         NEW a, Joined(a, k), a.index = Packets - 1,
         NEW x, x = Store(a, k, size), NEW b, b = x.frame[0].k
  PROVE  /\ b \in 0..k
         /\ b >= first.k =>
              /\ Index(b) = 0
              /\ \A i \in Places : /\ x.frame[i].k # NoPacket => x.frame[i].k = b + i
                                   /\ ~x.recovered => x.frame[i].k # NoPacket /\ x.frame[i].whole
<1>1. b \in 0..k
  BY Grown
<1>2. ASSUME b >= first.k
      PROVE  /\ Index(b) = 0
             /\ \A i \in Places : /\ x.frame[i].k # NoPacket => x.frame[i].k = b + i
                                  /\ ~x.recovered => x.frame[i].k # NoPacket /\ x.frame[i].whole
  <2>1. /\ Index(b) = 0 /\ last <= b
        /\ k - b - a.index >= 0 /\ (k - b - a.index) % Modulus = 0
        /\ Held(x.frame, x.recovered, b, a.index + 1, k - b - a.index)
    BY <1>2, Grown
  <2>2. first.k \in Int /\ last \in Int /\ k \in Int /\ b \in Int
    BY <1>1, Sizes, BoundAssumption DEF TypeOK
  <2>3. Index(k) \in Places /\ a.index \in Places
    <3>1. k - first.k \in Int /\ Packets \in Nat \ {0}
      BY <2>2, Sizes
    <3>2. Index(k) \in Places
      BY <3>1, Division DEF Index, Places
    <3> QED
      BY <3>2 DEF Joined, Ready, Assemblers
  <2>4. Index(k) = Packets - 1
    BY <2>3, Flags DEF Joined
  <2> DEFINE d == k - b - (Packets - 1)
             p == k - first.k
             q == b - first.k
  <2>5. p \in Int /\ q \in Int /\ d \in Int /\ d = p - q - (Packets - 1)
    BY <2>2, Sizes
  <2>6. p % Packets = Packets - 1 /\ q % Packets = 0
    BY <2>1, <2>4 DEF Index
  <2> HIDE DEF p, q, d
  <2>7. d % Packets = 0
    <3>1. Packets \in Nat \ {0}
      BY Sizes
    <3>2. (p - q - (Packets - 1)) % Packets = 0
      BY <2>5, <2>6, <3>1, WholeFrames
    <3> QED
      BY <2>5, <3>2
  <2>8. d % Modulus = 0 /\ d >= 0
    BY <2>1 DEF d
  <2>9. d < Stall
    BY <2>1, <2>2, Sizes, StallAssumption DEF d
  <2>10. d = 0
    BY <2>5, <2>7, <2>8, <2>9, StallAssumption
  <2>11. Held(x.frame, x.recovered, b, Packets, 0)
    <3>1. a.index + 1 = Packets /\ k - b - a.index = 0
      BY <2>10, Sizes DEF d
    <3> QED
      BY <2>1, <3>1
  <2>12. \A i \in Places : (b + i)..(b + i + 0) = {b + i}
    BY <2>2, Sizes DEF Places
  <2> QED
    BY <2>1, <2>11, <2>12 DEF Held, Places
<1> QED
  BY <1>1, <1>2

\* A frame that is published is one frame of the sensor, or flagged, or was
\* begun before the session.
LEMMA CompletesStep ==
  ASSUME TypeOK, Ordered, Started, InFrame, first' = first,
         NEW gap \in Nat, NEW k \in 0..(MaxPackets - 1), k = sent + gap, sent' = k + 1,
         k - last < Stall, NEW size, size \in {"whole", "short"},
         NEW a, Completes(a, k, size)
  PROVE  Published' /\ WholeUnlessFlagged' /\ NoForeignPixels'
<1> DEFINE x == Store(a, k, size)
           b == x.frame[0].k
<1>1. /\ Joined(a, k) /\ a.index = Packets - 1
      /\ out'.frame = x.frame /\ out'.recovered = x.recovered
      /\ out'.frame \in [Places -> Content]
  BY DEF Completes
<1>2. /\ b \in 0..k
      /\ b >= first.k =>
           /\ Index(b) = 0
           /\ \A i \in Places : /\ x.frame[i].k # NoPacket => x.frame[i].k = b + i
                                /\ ~x.recovered => x.frame[i].k # NoPacket /\ x.frame[i].whole
  BY <1>1, FrameComplete
<1>3. out'.frame[0].k = b
  BY <1>1
<1> HIDE DEF x, b
<1>4. k \in Nat /\ 0 \in Places
  BY Sizes, BoundAssumption DEF Places
<1>5. Published'
  BY <1>2, <1>3, <1>4 DEF Published, NoPacket
<1>6. ASSUME OfSession(out.frame)'
      PROVE  /\ Index(b) = 0
             /\ \A i \in Places : /\ x.frame[i].k # NoPacket => x.frame[i].k = b + i
                                  /\ ~x.recovered => x.frame[i].k # NoPacket /\ x.frame[i].whole
  BY <1>2, <1>3, <1>4, <1>6 DEF OfSession, NoPacket
<1>7. WholeUnlessFlagged'
  <2> SUFFICES ASSUME OfSession(out.frame)', ~out'.recovered
               PROVE  /\ \A i \in Places : out'.frame[i] = [k |-> out'.frame[0].k + i, whole |-> TRUE]
                      /\ Index(out.frame[0].k)' = 0
    BY DEF WholeUnlessFlagged
  <2>1. Index(out.frame[0].k)' = 0
    BY <1>3, <1>6 DEF Index
  <2>2. ASSUME NEW i \in Places
        PROVE  out'.frame[i] = [k |-> out'.frame[0].k + i, whole |-> TRUE]
    <3>1. out'.frame[i] \in Content
      BY <1>1
    <3>2. out'.frame[i].k = out'.frame[0].k + i /\ out'.frame[i].whole
      BY <1>1, <1>3, <1>6
    <3> QED
      BY <3>1, <3>2 DEF Content
  <2> QED
    BY <2>1, <2>2
<1>8. NoForeignPixels'
  <2> SUFFICES ASSUME OfSession(out.frame)', NEW i \in Places, NEW j \in Places,
                      out'.frame[i].k # NoPacket, out'.frame[j].k # NoPacket
               PROVE  out'.frame[j].k - out'.frame[i].k = j - i
    BY DEF NoForeignPixels
  <2>1. out'.frame[i].k = b + i /\ out'.frame[j].k = b + j
    BY <1>1, <1>6
  <2>2. b \in Int /\ i \in Int /\ j \in Int
    BY <1>2, <1>4, Sizes DEF Places
  <2> QED
    BY <2>1, <2>2
<1> QED
  BY <1>5, <1>7, <1>8

\* The frame goes on, or was begun in an earlier session.
LEMMA StoredStep ==
  ASSUME TypeOK, Ordered, Started, InFrame, first' = first,
         NEW gap \in Nat, NEW k \in 0..(MaxPackets - 1), k = sent + gap, sent' = k + 1,
         NEW size, size \in {"whole", "short"},
         NEW a, Stored(a, k, size)
  PROVE  asm' \in Assemblers /\ Started' /\ InFrame'
<1> DEFINE x == Store(a, k, size)
           b == x.frame[0].k
<1>1. /\ Joined(a, k) /\ a \in Assemblers /\ a.synced /\ a.index < Packets - 1
      /\ asm' = x /\ last' = last
  BY DEF Stored, Joined, Ready
<1>2. /\ b \in 0..k
      /\ b >= first.k =>
           /\ Index(b) = 0 /\ last <= b
           /\ k - b - a.index >= 0 /\ (k - b - a.index) % Modulus = 0
           /\ Held(x.frame, x.recovered, b, a.index + 1, k - b - a.index)
  BY <1>1, Grown
<1>3. first.k \in Int /\ first.seq \in Int /\ k \in Nat /\ a.index \in Nat
  BY <1>1, Sizes, BoundAssumption DEF TypeOK, Assemblers, Places
<1>4. /\ x.synced = a.synced /\ x.index = a.index + 1 /\ x.expected = Sequence(k + 1)
      /\ x \in [synced : BOOLEAN, recovered : BOOLEAN, index : Int,
                expected : 0..(Modulus - 1), frame : [Places -> Content]]
  <2>1. a \in Assemblers
    BY <1>1
  <2> QED
    BY <1>3, <2>1, StoreFacts
<1>5. Base' = b
  BY <1>1 DEF Base
<1> HIDE DEF x
<1>6. x.index \in Places
  BY <1>1, <1>3, <1>4, Sizes DEF Places
<1>7. asm' \in Assemblers
  BY <1>1, <1>4, <1>6 DEF Assemblers
<1> HIDE DEF b
<1>8. Started'
  BY <1>1, <1>2, <1>3, <1>4, <1>5 DEF Started
<1>9. InFrame'
  <2> SUFFICES ASSUME Current'
               PROVE  /\ Index(Base)' = 0 /\ last' <= Base'
                      /\ Offset' >= 0 /\ Offset' % Modulus = 0
                      /\ asm'.expected = Sequence(sent)'
                      /\ Held(asm.frame, asm.recovered, Base, asm.index, Offset)'
    BY DEF InFrame
  <2>1. b >= first.k
    BY <1>5 DEF Current
  <2>2. Offset' = k - b - a.index
    <3>1. Offset' = (k + 1) - b - (a.index + 1)
      BY <1>1, <1>4, <1>5 DEF Offset
    <3> QED
      BY <1>2, <1>3, <3>1
  <2>3. Index(Base)' = 0
    <3>1. Index(Base)' = Index(b)
      BY <1>5 DEF Index
    <3> QED
      BY <1>2, <2>1, <3>1
  <2>4. Sequence(sent)' = Sequence(k + 1)
    BY DEF Sequence
  <2>5. Held(asm.frame, asm.recovered, Base, asm.index, Offset)'
          = Held(x.frame, x.recovered, b, a.index + 1, k - b - a.index)
    BY <1>1, <1>4, <1>5, <2>2 DEF Held
  <2> QED
    BY <1>1, <1>2, <1>4, <1>5, <2>1, <2>2, <2>3, <2>4, <2>5
<1> QED
  BY <1>7, <1>8, <1>9

\* Clean packets bring the assembler in step, and a frame in step completes.
LEMMA CountingStep ==
  ASSUME TypeOK, Ordered, Started, Following, Completed, first' = first,
         NEW gap \in Nat, NEW k \in 0..(MaxPackets - 1), k = sent + gap, sent' = k + 1,
         NEW size, clean' = IF gap = 0 /\ size = "whole" THEN clean + 1 ELSE 0,
         Dropped(k, size) \/ \E a : Stored(a, k, size) \/ Completes(a, k, size)
  PROVE  Following' /\ Completed'
<1>1. /\ first.k \in Int /\ first.seq \in Int /\ sent \in Nat /\ last \in Nat /\ clean \in Nat
      /\ asm \in Assemblers /\ k \in Nat /\ k \in Int /\ k + 1 \in Int /\ Packets \in Nat
      /\ Packets >= 2
  BY Sizes, BoundAssumption DEF TypeOK, Assemblers
<1>2. Index(k) \in Nat /\ Index(k + 1) \in Nat /\ Index(k) < Packets
  BY <1>1, HeaderTypes DEF Places
<1>3. Index(sent)' = Index(k + 1) /\ Sequence(sent)' = Sequence(k + 1)
  BY DEF Index, Sequence
<1>4. Index(k + 1) = IF Index(k) = Packets - 1 THEN 0 ELSE Index(k) + 1
  BY <1>1, NextIndex
<1>5. last' = last \/ last' = k + 1
  BY DEF Dropped, Stored, Completes
<1>6. CASE ~(gap = 0 /\ size = "whole")
  <2>1. clean' = 0
    BY <1>6
  <2> QED
    BY <1>1, <1>2, <1>3, <2>1 DEF Following, Completed
<1>7. CASE gap = 0 /\ size = "whole" /\ InStep(k)
  <2>1. k = sent /\ clean' = clean + 1
    BY <1>1, <1>7
  <2>2. PICK a : Stored(a, k, size) \/ Completes(a, k, size)
    BY <1>7 DEF Dropped
  <2>3. a.index = Index(k) /\ a \in Assemblers /\ a.synced
    <3>1. Joined(a, k)
      BY <2>2 DEF Stored, Completes
    <3> QED
      BY <1>1, <1>7, <3>1, JoinsInStep DEF Joined, Ready
  <2>4. CASE Stored(a, k, size)
    <3>1. asm' = Store(a, k, size) /\ last' = last /\ Index(k) < Packets - 1
      BY <2>3, <2>4 DEF Stored
    <3>2. asm'.synced /\ asm'.index = Index(k) + 1 /\ asm'.expected = Sequence(k + 1)
      BY <1>1, <2>3, <3>1, StoreFacts
    <3>3. Index(k + 1) = Index(k) + 1
      BY <1>1, <1>2, <1>4, <3>1
    <3>4. Following'
      BY <1>3, <3>2, <3>3 DEF Following
    <3>5. Completed'
      <4> SUFFICES ASSUME clean' >= Index(sent)' + Packets
                   PROVE  sent' - last' <= Index(sent)'
        BY DEF Completed
      <4>1. clean >= Index(k) + Packets
        BY <1>1, <1>2, <1>3, <2>1, <3>3
      <4>2. k - last <= Index(k)
        BY <2>1, <4>1 DEF Completed
      <4> QED
        BY <1>1, <1>2, <1>3, <3>1, <3>3, <4>2
    <3> QED
      BY <3>4, <3>5
  <2>5. CASE Completes(a, k, size)
    <3>1. last' = k + 1 /\ Index(k) = Packets - 1
      BY <2>3, <2>5 DEF Completes
    <3>2. Index(k + 1) = 0
      BY <1>4, <3>1
    <3> QED
      BY <1>1, <1>3, <3>1, <3>2 DEF Following, Completed
  <2> QED
    BY <2>2, <2>4, <2>5
<1>8. CASE gap = 0 /\ size = "whole" /\ ~InStep(k)
  <2>1. k = sent /\ clean' = clean + 1
    BY <1>1, <1>8
  <2>2. Index(k) # 0
    BY <1>8 DEF InStep
  <2>3. clean < Index(k)
    <3> SUFFICES ASSUME clean >= Index(k)
                 PROVE  FALSE
      BY <1>1, <1>2
    <3>1. asm.synced /\ asm.index = Index(k) /\ asm.expected = Sequence(k)
      BY <2>1, <2>2 DEF Following
    <3>2. k + 0 = k /\ 0 \in Nat /\ 0 % Modulus = 0
      BY <1>1, Sizes
    <3>3. Lost(asm, k + 0) = 0 % Modulus
      BY <1>1, <3>1, <3>2, SeenLoss
    <3> QED
      BY <1>8, <3>1, <3>2, <3>3 DEF InStep
  <2>4. Following'
    BY <1>1, <1>2, <1>3, <1>4, <2>1, <2>3 DEF Following
  <2>5. Completed'
    BY <1>1, <1>2, <1>3, <1>4, <2>1, <2>2, <2>3 DEF Completed
  <2> QED
    BY <2>4, <2>5
<1> QED
  BY <1>6, <1>7, <1>8

-----------------------------------------------------------------------------
(* The steps.                                                               *)

LEMMA InitIInv == Init => IInv
<1> SUFFICES ASSUME Init
             PROVE  IInv
  OBVIOUS
<1>1. 0 \in Places /\ 0 \in 0..(Modulus - 1)
  BY Sizes DEF Places
<1>2. /\ sent = 0 /\ last = 0 /\ clean = 0 /\ first.k = 0 /\ first.seq \in 0..(Modulus - 1)
      /\ asm.synced = FALSE /\ out.recovered = TRUE /\ out.frame = Filled
      /\ asm \in Assemblers
      /\ out \in [frame : [Places -> Content], recovered : BOOLEAN]
  BY <1>1, FilledType DEF Init, Assemblers
<1>3. TypeOK
  <2>1. first \in [k : 0..MaxPackets, seq : 0..(Modulus - 1)]
    BY BoundAssumption DEF Init
  <2>2. 0 \in 0..MaxPackets /\ 0 \in 0..MaxRestarts
    BY BoundAssumption
  <2> QED
    BY <1>2, <2>1, <2>2 DEF Init, TypeOK, Assemblers
<1>4. \A i \in Places : out.frame[i].k = NoPacket
  BY <1>2 DEF Filled, Fill
<1>5. Index(sent) = 0
  <2>1. 0 % Packets = 0 /\ sent - first.k = 0
    BY <1>2, Sizes
  <2> QED
    BY <2>1 DEF Index
<1>6. Ordered /\ Started /\ InFrame /\ Published /\ Following /\ Completed
  BY <1>1, <1>2, <1>4, <1>5, Sizes
  DEF Ordered, Started, InFrame, Current, Published, NoPacket, Following, Completed
<1>7. WholeUnlessFlagged /\ NoForeignPixels
  BY <1>2, <1>4 DEF WholeUnlessFlagged, NoForeignPixels
<1> QED
  BY <1>3, <1>6, <1>7 DEF IInv

LEMMA ReceiveStep ==
  ASSUME IInv, NEW gap \in 0..Stall, NEW size \in {"whole", "short", "long"},
         Receive(gap, size)
  PROVE  IInv'
<1> DEFINE k == sent + gap
<1>1. /\ first.k \in Int /\ first.seq \in Int /\ first.k \in Nat /\ sent \in Nat /\ last \in Nat
      /\ clean \in Nat /\ asm \in Assemblers /\ gap \in Nat
  BY Sizes, StallAssumption DEF IInv, TypeOK, Assemblers
<1>2. /\ k \in 0..(MaxPackets - 1) /\ k \in Nat /\ k = sent + gap
      /\ k - last < Stall /\ sent' = k + 1
      /\ clean' = IF gap = 0 /\ size = "whole" THEN clean + 1 ELSE 0
      /\ Process(k, size) \/ Push(k, size)
      /\ UNCHANGED <<system, first, ending, restarts>>
  BY <1>1, BoundAssumption DEF Receive
<1> HIDE DEF k
<1>3. TypeOK /\ Ordered /\ Started /\ InFrame /\ Published /\ Following /\ Completed
      /\ WholeUnlessFlagged /\ NoForeignPixels
  BY DEF IInv
<1>4. Dropped(k, size) \/ \E a : Stored(a, k, size) \/ Completes(a, k, size)
  BY <1>1, <1>2, <1>3, ReceiveCases
<1>5. Following' /\ Completed'
  BY <1>1, <1>2, <1>3, <1>4, CountingStep
<1>6. ASSUME UNCHANGED out
      PROVE  Published' /\ WholeUnlessFlagged' /\ NoForeignPixels'
  <2>1. 0 \in Places /\ out.frame[0] \in Content
    BY <1>3, Sizes DEF TypeOK, Places
  <2>2. out.frame[0].k \in Int
    BY <2>1, BoundAssumption DEF Content, NoPacket
  <2>3. Published'
    BY <1>1, <1>2, <1>3, <1>6, <2>2 DEF Published
  <2>4. WholeUnlessFlagged'
    BY <1>2, <1>3, <1>6 DEF WholeUnlessFlagged, OfSession, Index
  <2>5. NoForeignPixels'
    BY <1>2, <1>3, <1>6 DEF NoForeignPixels, OfSession
  <2> QED
    BY <2>3, <2>4, <2>5
<1>7. /\ asm' \in Assemblers /\ Started' /\ InFrame'
      /\ out' \in [frame : [Places -> Content], recovered : BOOLEAN]
      /\ last' = last \/ last' = k + 1
      /\ Published' /\ WholeUnlessFlagged' /\ NoForeignPixels'
  <2>1. CASE Dropped(k, size)
    <3>1. /\ asm' \in Assemblers /\ ~asm'.synced /\ out' = out /\ last' = last
      BY <2>1 DEF Dropped
    <3> QED
      BY <1>3, <1>6, <3>1 DEF Started, InFrame, Current, TypeOK
  <2>2. ASSUME NEW a, Stored(a, k, size)
        PROVE  /\ asm' \in Assemblers /\ Started' /\ InFrame' /\ out' = out /\ last' = last
    <3>1. size \in {"whole", "short"} /\ out' = out /\ last' = last
      BY <2>2 DEF Stored
    <3> QED
      BY <1>1, <1>2, <1>3, <2>2, <3>1, StoredStep
  <2>3. ASSUME NEW a, Completes(a, k, size)
        PROVE  /\ asm' \in Assemblers /\ ~asm'.synced /\ last' = k + 1
               /\ out' \in [frame : [Places -> Content], recovered : BOOLEAN]
               /\ Published' /\ WholeUnlessFlagged' /\ NoForeignPixels'
    <3>1. size \in {"whole", "short"} /\ last' = k + 1
          /\ out' \in [frame : [Places -> Content], recovered : BOOLEAN]
          /\ asm' \in Assemblers /\ ~asm'.synced
      BY <2>3 DEF Completes
    <3>2. Published' /\ WholeUnlessFlagged' /\ NoForeignPixels'
      BY <1>1, <1>2, <1>3, <2>3, <3>1, CompletesStep
    <3> QED
      BY <3>1, <3>2
  <2>4. CASE \E a : Stored(a, k, size)
    BY <1>3, <1>6, <2>2, <2>4 DEF TypeOK
  <2>5. CASE \E a : Completes(a, k, size)
    BY <2>3, <2>5 DEF Started, InFrame, Current
  <2> QED
    BY <1>4, <2>1, <2>4, <2>5
<1>8. Ordered'
  BY <1>1, <1>2, <1>3, <1>7 DEF Ordered
<1>9. sent' \in 0..MaxPackets /\ last' \in 0..MaxPackets /\ clean' \in 0..MaxPackets
  BY <1>1, <1>2, <1>7, <1>8, BoundAssumption DEF Ordered
<1>10. TypeOK'
  BY <1>2, <1>3, <1>7, <1>9 DEF TypeOK, Assemblers
<1> QED
  BY <1>3, <1>5, <1>7, <1>8, <1>10 DEF IInv

\* A frame that was published before a session began is not of that session.
LEMMA EarlierFrame ==
  ASSUME IInv, out' = out, first'.k = sent
  PROVE  WholeUnlessFlagged' /\ NoForeignPixels'
<1>1. 0 \in Places /\ out.frame[0] \in Content /\ sent \in Int
  BY Sizes, BoundAssumption DEF IInv, TypeOK, Places
<1>2. out.frame[0].k \in Int
  BY <1>1, BoundAssumption DEF Content, NoPacket
<1>3. out.frame[0].k < sent
  BY DEF IInv, Published
<1>4. CASE out.frame[0].k = NoPacket
  <2>1. out.recovered /\ \A i \in Places : out.frame[i].k = NoPacket
    BY <1>4 DEF IInv, Published
  <2> QED
    BY <2>1 DEF WholeUnlessFlagged, NoForeignPixels
<1>5. CASE out.frame[0].k # NoPacket
  <2>1. ~OfSession(out.frame)'
    BY <1>1, <1>2, <1>3, <1>5 DEF OfSession
  <2> QED
    BY <2>1 DEF WholeUnlessFlagged, NoForeignPixels
<1> QED
  BY <1>4, <1>5

\* Neither does a session go on with a count, nor complete anything at once.
LEMMA NothingClean ==
  ASSUME clean' = 0, first'.k \in Int, sent' \in Int
  PROVE  Following' /\ Completed'
<1>1. sent' - first'.k \in Int
  OBVIOUS
<1>2. Index(sent)' \in Places
  <2>1. (sent' - first'.k) % Packets \in 0..(Packets - 1)
    BY <1>1, Sizes, Division
  <2> QED
    BY <2>1 DEF Index, Places
<1> QED
  BY <1>2, Sizes DEF Following, Completed, Places

LEMMA RestartStep ==
  ASSUME IInv, Restart
  PROVE  IInv'
<1>1. /\ asm' = Idle(asm) /\ clean' = 0 /\ last' = sent /\ restarts' = restarts + 1
      /\ ending' = TRUE /\ UNCHANGED <<system, sent, first, out>> /\ restarts < MaxRestarts
  BY DEF Restart
<1>2. /\ TypeOK /\ first.k \in Int /\ sent \in Nat
  BY Sizes, BoundAssumption DEF IInv, TypeOK
<1>3. asm' \in Assemblers /\ ~asm'.synced
  <2>1. asm \in Assemblers
    BY <1>2 DEF TypeOK, Assemblers
  <2> QED
    BY <1>1, <2>1, IdleType DEF Assemblers, Places
<1>4. TypeOK'
  BY <1>1, <1>2, <1>3, BoundAssumption DEF TypeOK, Assemblers
<1>5. Following' /\ Completed'
  BY <1>1, <1>2, NothingClean
<1>6. Ordered' /\ Started' /\ InFrame' /\ Published'
  BY <1>1, <1>2, <1>3 DEF IInv, Ordered, Started, InFrame, Current, Published
<1>7. WholeUnlessFlagged' /\ NoForeignPixels'
  BY <1>1 DEF IInv, WholeUnlessFlagged, NoForeignPixels, OfSession, Index
<1> QED
  BY <1>4, <1>5, <1>6, <1>7 DEF IInv

LEMMA SessionStep ==
  ASSUME IInv, NewSession \/ NewStream
  PROVE  IInv'
<1>1. /\ first' \in [k : {sent}, seq : 0..(Modulus - 1)]
      /\ clean' = 0 /\ last' \in {last, sent} /\ UNCHANGED <<system, sent, out>>
      /\ asm' \in {asm, Idle(asm)}
      /\ \/ restarts' = restarts /\ ending' = FALSE
         \/ restarts < MaxRestarts /\ restarts' = restarts + 1 /\ ending' = ending
  BY DEF NewSession, NewStream, ResetSync
<1>2. TypeOK /\ sent \in Nat /\ sent \in 0..MaxPackets /\ last \in 0..MaxPackets
      /\ asm \in Assemblers /\ first'.k = sent /\ first'.seq \in 0..(Modulus - 1)
  BY <1>1, BoundAssumption DEF IInv, TypeOK, Assemblers
<1>3. asm' \in Assemblers /\ (asm'.synced => asm.synced /\ asm' = asm)
  BY <1>1, <1>2, IdleType DEF Assemblers, Places
<1>4. TypeOK'
  <2>1. first' \in [k : 0..MaxPackets, seq : 0..(Modulus - 1)]
    BY <1>1, <1>2
  <2>2. restarts \in 0..MaxRestarts /\ ending \in BOOLEAN
    BY <1>2 DEF TypeOK
  <2>3. ending' \in BOOLEAN
    BY <1>1, <2>2
  <2>4. restarts' \in 0..MaxRestarts
    <3>1. restarts' = restarts \/ (restarts < MaxRestarts /\ restarts' = restarts + 1)
      BY <1>1
    <3> QED
      BY <2>2, <3>1, BoundAssumption
  <2>5. last' \in 0..MaxPackets /\ clean' \in 0..MaxPackets
    BY <1>1, <1>2, BoundAssumption
  <2>6. /\ system' \in {"linux", "windows"} /\ sent' \in 0..MaxPackets
        /\ out' \in [frame : [Places -> Content], recovered : BOOLEAN]
    BY <1>1, <1>2 DEF TypeOK
  <2> QED
    BY <1>3, <2>1, <2>3, <2>4, <2>5, <2>6 DEF TypeOK, Assemblers
<1>5. Following' /\ Completed'
  BY <1>1, <1>2, NothingClean
<1>6. Started'
  BY <1>1, <1>3 DEF IInv, Started, Base
<1>7. InFrame'
  <2> SUFFICES ASSUME asm'.synced, Base' >= first'.k
               PROVE  FALSE
    BY DEF InFrame, Current
  <2>1. Base' \in 0..(sent - 1)
    BY <1>3 DEF IInv, Started, Base
  <2> QED
    BY <1>2, <2>1
<1>8. Ordered' /\ Published'
  BY <1>1, <1>2 DEF IInv, Ordered, Published
<1>9. WholeUnlessFlagged' /\ NoForeignPixels'
  BY <1>1, <1>2, EarlierFrame
<1> QED
  BY <1>4, <1>5, <1>6, <1>7, <1>8, <1>9 DEF IInv

LEMMA StepIInv == IInv /\ [Next]_vars => IInv'
<1> SUFFICES ASSUME IInv, [Next]_vars
             PROVE  IInv'
  OBVIOUS
<1>1. CASE \E gap \in 0..Stall, size \in {"whole", "short", "long"} : Receive(gap, size)
  BY <1>1, ReceiveStep
<1>2. CASE Restart
  BY <1>2, RestartStep
<1>3. CASE NewSession \/ NewStream
  BY <1>3, SessionStep
<1>4. CASE UNCHANGED vars
  BY <1>4
  DEF vars, IInv, TypeOK, Ordered, Started, InFrame, Current, Offset, Base, Held, Published,
      Following, Completed, Index, Sequence, WholeUnlessFlagged, NoForeignPixels, OfSession
<1> QED
  BY <1>1, <1>2, <1>3, <1>4 DEF Next

-----------------------------------------------------------------------------
(* The theorems.                                                            *)

\* The inductive invariant of the assembler, for any frame size, any modulus
\* and any bound on the losses.
THEOREM Invariance == Spec => []IInv
BY InitIInv, StepIInv, PTL DEF Spec

\* The place in the frame stays within the frame and the numbers within their
\* width, so no packet is written behind the frame (frame_.data() +
\* packet_index_ * payload in FrameAssembler::process).
THEOREM TypeCorrect == Spec => []TypeOK
<1>1. IInv => TypeOK
  BY DEF IInv
<1> QED
  BY <1>1, Invariance, PTL

\* A frame that is not flagged is one frame of the sensor, complete and in
\* order, although the assembler cannot see that a whole round of sequence
\* numbers is missing (FrameAssembler::process and Push).
THEOREM FramesAreWhole == Spec => []WholeUnlessFlagged
<1>1. IInv => WholeUnlessFlagged
  BY DEF IInv
<1> QED
  BY <1>1, Invariance, PTL

\* What a published frame holds that is not fill is of one frame of the sensor
\* and in its place, flagged or not (FrameAssembler::process and Push).
THEOREM PixelsOfOneFrame == Spec => []NoForeignPixels
<1>1. IInv => NoForeignPixels
  BY DEF IInv
<1> QED
  BY <1>1, Invariance, PTL

\* When packets arrive whole and in order again, less than a frame goes by
\* after two frames' worth of them without one being published
\* (FrameAssembler::process and Push).
THEOREM BackInStep == Spec => []Resynchronises
<1>1. IInv => Resynchronises
  <2> SUFFICES ASSUME IInv, clean >= 2 * Packets - 1
               PROVE  sent - last < Packets
    BY DEF Resynchronises
  <2>1. first.k \in Int /\ sent \in Int /\ last \in Int /\ clean \in Int
    BY Sizes, BoundAssumption DEF IInv, TypeOK
  <2>2. Index(sent) \in Places
    <3>1. sent - first.k \in Int /\ Packets \in Nat \ {0}
      BY <2>1, Sizes
    <3> QED
      BY <3>1, Division DEF Index, Places
  <2>3. clean >= Index(sent) + Packets
    BY <2>1, <2>2, Sizes DEF Places
  <2>4. sent - last <= Index(sent)
    BY <2>3 DEF IInv, Completed
  <2> QED
    BY <2>1, <2>2, <2>4, Sizes DEF Places
<1> QED
  BY <1>1, Invariance, PTL

-----------------------------------------------------------------------------
(***************************************************************************)
(* FrameQueue: how the frames reach the subscribers, for any number of     *)
(* them, any masks and any length of the queues.                           *)
(***************************************************************************)

LEMMA LeastNumber ==
  ASSUME NEW S, S \subseteq Nat, S # {}
  PROVE  \E n \in S : \A m \in S : n <= m
<1> DEFINE Less == {p \in Nat \X Nat : p[1] < p[2]}
<1>1. IsWellFoundedOn(Less, Nat)
  BY NatLessThanWellFounded DEF OpToRel
<1>2. PICK n \in S : \A m \in S : <<m, n>> \notin Less
  BY <1>1, WFMin
<1>3. ASSUME NEW m \in S
      PROVE  n <= m
  <2>1. <<m, n>> \in Nat \X Nat /\ <<m, n>> \notin Less
    BY <1>2
  <2>2. ~(m < n)
    BY <2>1
  <2> QED
    BY <2>2
<1> QED
  BY <1>3

\* A set of frames that is not empty has an oldest one.
LEMMA LeastFrame ==
  ASSUME NEW q, q \subseteq Q!Frame, q # {}
  PROVE  \E f \in q : \A g \in q : f.seq <= g.seq
<1> DEFINE S == {f.seq : f \in q}
<1>1. \A f \in q : f.seq \in Nat
  BY QueueAssumption DEF Q!Frame, Q!Numbers, Q!QueueConstants
<1>2. S \subseteq Nat /\ S # {}
  BY <1>1
<1>3. PICK n \in S : \A m \in S : n <= m
  BY <1>2, LeastNumber
<1>4. PICK f \in q : f.seq = n
  BY <1>3
<1> QED
  BY <1>3, <1>4

\* FrameQueue has the operator of its own instance of FiniteSets.
LEMMA SameCardinality ==
  ASSUME NEW S
  PROVE  Q!Cardinality(S) = Cardinality(S)
BY DEF Q!Cardinality, Cardinality

\* There are no more frames than numbers.
LEMMA FramesCounted ==
  ASSUME NEW u, NEW lo \in Int, NEW hi \in Int, lo <= hi,
         \A f \in u : f.seq \in lo..hi, \A f, g \in u : f.seq = g.seq => f = g
  PROVE  Cardinality(u) <= (hi - lo) + 1
<1> DEFINE I == lo..hi
           F == [f \in u |-> f.seq]
<1>1. IsFiniteSet(I) /\ Cardinality(I) = (hi - lo) + 1
  BY FS_Interval
<1>2. F \in [u -> I]
  OBVIOUS
<1>3. \A f, g \in u : F[f] = F[g] => f = g
  OBVIOUS
<1> HIDE DEF I, F
<1>4. F \in Injection(u, I)
  BY <1>2, <1>3 DEF Injection, IsInjective
<1>5. Cardinality(u) <= Cardinality(I)
  BY <1>1, <1>4, FS_Injection
<1> QED
  BY <1>1, <1>5

\* push_frame: a frame that goes is more than a queue behind.
LEMMA Pushed ==
  ASSUME NEW q, q \subseteq Q!Frame, IsFiniteSet(q), Cardinality(q) <= Limit,
         NEW n \in Nat, \A f \in q : f.seq <= n, \A f, g \in q : f.seq = g.seq => f = g,
         NEW p \in Q!Frame, p.seq = n + 1,
         NEW r, r = Q!PushFrame(q, p)
  PROVE  /\ r \subseteq q \cup {p} /\ IsFiniteSet(r) /\ Cardinality(r) <= Limit
         /\ \A f \in q \cup {p} : f \notin r => f.seq <= (n + 1) - Limit
<1>1. PICK u : u = q \cup {p}
  OBVIOUS
<1>2. /\ u \subseteq Q!Frame /\ u # {} /\ \A f \in u : f.seq \in Nat /\ f.seq <= n + 1
      /\ \A f, g \in u : f.seq = g.seq => f = g
  <2>1. \A f \in Q!Frame : f.seq \in Nat
    BY QueueAssumption DEF Q!Frame, Q!Numbers, Q!QueueConstants
  <2> QED
    BY <1>1, <2>1
<1>3. IsFiniteSet(u) /\ Cardinality(u) \in Nat /\ Cardinality(u) <= Limit + 1 /\ Limit \in Nat
  <2>1. p \notin q
    OBVIOUS
  <2>2. IsFiniteSet(u) /\ Cardinality(u) = Cardinality(q) + 1
    BY <1>1, <2>1, FS_AddElement
  <2>3. Cardinality(q) \in Nat
    BY FS_CardinalityType
  <2> QED
    BY <2>2, <2>3, QueueAssumption DEF Q!QueueConstants
<1>4. PICK o : o = Q!Oldest(u)
  OBVIOUS
<1>5. o \in u /\ \A g \in u : o.seq <= g.seq
  <2>1. \E f \in u : \A g \in u : f.seq <= g.seq
    BY <1>2, LeastFrame
  <2> QED
    BY <1>4, <2>1 DEF Q!Oldest
<1>6. r = IF Cardinality(u) > Limit THEN u \ {o} ELSE u
  BY <1>1, <1>4, SameCardinality DEF Q!PushFrame
<1>7. CASE Cardinality(u) > Limit
  <2>1. IsFiniteSet(u \ {o}) /\ Cardinality(u \ {o}) = Cardinality(u) - 1
    BY <1>3, <1>5, FS_RemoveElement
  <2>2. o.seq \in Int /\ n + 1 \in Int /\ o.seq <= n + 1
    BY <1>2, <1>5
  <2>3. \A f \in u : f.seq \in o.seq..(n + 1)
    BY <1>2, <1>5, <2>2
  <2>4. Cardinality(u) <= ((n + 1) - o.seq) + 1
    BY <1>2, <2>2, <2>3, FramesCounted
  <2>5. o.seq <= (n + 1) - Limit
    BY <1>3, <1>7, <2>2, <2>4
  <2>6. Cardinality(r) <= Limit
    BY <1>3, <1>6, <1>7, <2>1
  <2> QED
    BY <1>1, <1>6, <1>7, <2>1, <2>5, <2>6
<1>8. CASE ~(Cardinality(u) > Limit)
  BY <1>1, <1>3, <1>6, <1>8
<1> QED
  BY <1>7, <1>8

\* The types of FrameQueue; the queues are finite sets.
QueueTyped ==
  /\ qQueue \in [Q!Streams -> SUBSET Q!Frame]
  /\ \A s \in Q!Streams : IsFiniteSet(qQueue[s]) /\ Cardinality(qQueue[s]) <= Limit
HubTyped ==
  /\ qOnline \in BOOLEAN
  /\ qCounter \in [Q!Streams -> 0..MaxFrames] /\ qNow \in Q!Times
ClientsTyped ==
  /\ qLease \subseteq Clients /\ qAlive \in [Clients -> BOOLEAN]
  /\ qPid \in [Clients -> Pids] /\ qMask \in [Clients -> Q!Masks]
  /\ qPc \in [Clients -> {"out", "wait", "send", "leave"}]
  /\ qSeen \in [Clients -> [Q!Streams -> 0..MaxFrames]]
  /\ qOut \in [Clients -> Q!Times]
  /\ qJoined \in [Clients -> [Q!Streams -> 0..MaxFrames]] /\ qHeld \in [Clients -> BOOLEAN]
Typed == QueueTyped /\ HubTyped /\ ClientsTyped

\* A queue is in the order of its numbers, and of time.
Sorted(q, n, time) ==
  \A f \in q : /\ f.seq <= n /\ f.tick <= time
               /\ \A g \in q : /\ f.seq <= g.seq => f.tick <= g.tick
                               /\ f.seq = g.seq => f = g
QueuesSorted == \A s \in Q!Streams : Sorted(qQueue[s], qCounter[s], qNow)

\* What a client has not seen is not older than what it was sent last.
UnseenLater ==
  \A c \in Clients :
    /\ qOut[c] <= qNow
    /\ \A s \in qMask[c] : \A f \in qQueue[s] : f.seq > qSeen[c][s] => qOut[c] <= f.tick

\* The queues of a subscriber hold all that was published since it subscribed
\* and that is not more than a queue behind.
LatestKept ==
  \A c \in qLease : qHeld[c] =>
    \A s \in qMask[c] : \A n \in (qJoined[c][s] + 1)..qCounter[s] :
      n > qCounter[s] - Limit => \E f \in qQueue[s] : f.seq = n

QueueInv == Typed /\ QueuesSorted /\ UnseenLater /\ LatestKept

LEMMA FrameTypes ==
  /\ \A f \in Q!Frame : f.seq \in Nat /\ f.tick \in Nat
  /\ \A m \in Q!Masks : m \subseteq Q!Streams
  /\ {"depth"} \in Q!Masks
  /\ 0 \in Q!Times /\ 0 \in 0..MaxFrames
BY QueueAssumption DEF Q!Frame, Q!Numbers, Q!Times, Q!Masks, Q!Streams, Q!QueueConstants

LEMMA QueueInit == Q!Init => QueueInv
<1> SUFFICES ASSUME Q!Init
             PROVE  QueueInv
  OBVIOUS
<1>1. qQueue = [s \in Q!Streams |-> {}] /\ qCounter = [s \in Q!Streams |-> 0] /\ qNow = 0
  BY DEF Q!Init, Q!None
<1>2. \A s \in Q!Streams : qQueue[s] = {} /\ qCounter[s] = 0
  BY <1>1
<1>3. QueueTyped
  <2>1. IsFiniteSet({}) /\ Cardinality({}) = 0 /\ 0 <= Limit
    BY FS_EmptySet, QueueAssumption DEF Q!QueueConstants
  <2> QED
    BY <1>1, <1>2, <2>1 DEF QueueTyped
<1>4. HubTyped
  BY <1>1, FrameTypes DEF Q!Init, HubTyped
<1>5. ClientsTyped
  <2>1. [s \in Q!Streams |-> 0] \in [Q!Streams -> 0..MaxFrames]
    BY FrameTypes
  <2> QED
    BY <2>1, FrameTypes DEF Q!Init, Q!None, ClientsTyped
<1>6. QueuesSorted
  BY <1>2 DEF QueuesSorted, Sorted
<1>7. UnseenLater
  <2>1. \A c \in Clients : qOut[c] = 0 /\ qMask[c] = {"depth"}
    BY DEF Q!Init
  <2>2. "depth" \in Q!Streams
    BY DEF Q!Streams
  <2> QED
    BY <1>1, <1>2, <2>1, <2>2 DEF UnseenLater
<1>8. LatestKept
  BY DEF Q!Init, LatestKept
<1> QED
  BY <1>3, <1>4, <1>5, <1>6, <1>7, <1>8 DEF QueueInv, Typed

\* A step that leaves the queues, the leases and what the clients have seen.
LEMMA QuietStep ==
  ASSUME QueueInv,
         UNCHANGED <<qQueue, qCounter, qNow, qLease, qPid, qMask, qSeen, qOut, qJoined, qHeld>>,
         qOnline' \in BOOLEAN, qAlive' \in [Clients -> BOOLEAN],
         qPc' \in [Clients -> {"out", "wait", "send", "leave"}]
  PROVE  QueueInv'
<1>1. Typed'
  BY DEF QueueInv, Typed, QueueTyped, HubTyped, ClientsTyped
<1>2. QueuesSorted' /\ UnseenLater' /\ LatestKept'
  BY DEF QueueInv, QueuesSorted, Sorted, UnseenLater, LatestKept
<1> QED
  BY <1>1, <1>2 DEF QueueInv

\* on_rgb, on_hq_rgb, on_ir, on_depth.
LEMMA PublishStep ==
  ASSUME QueueInv, NEW s \in Q!Streams, NEW time \in {qNow, qNow + 1},
         Q!Publish(s, time)
  PROVE  QueueInv'
<1> DEFINE n == qCounter[s]
           p == [seq |-> n + 1, tick |-> time]
           q == qQueue[s]
           r == Q!PushFrame(q, p)
<1>1. /\ QueueTyped /\ HubTyped /\ ClientsTyped
      /\ QueuesSorted /\ UnseenLater /\ LatestKept
  BY DEF QueueInv, Typed
<1>2. /\ n \in Nat /\ qNow \in Nat /\ time \in Q!Times /\ time \in Nat /\ qNow <= time
      /\ n + 1 \in 1..MaxFrames /\ MaxFrames \in Nat /\ Limit \in Nat
  <2>1. {"rgb", "hq", "ir", "depth"} = Q!Streams
    BY DEF Q!Streams
  <2>2. \A t \in Q!Streams : qCounter[t] \in 0..MaxFrames
    BY <1>1 DEF HubTyped
  <2>3. /\ qCounter["rgb"] \in Nat /\ qCounter["hq"] \in Nat
        /\ qCounter["ir"] \in Nat /\ qCounter["depth"] \in Nat
        /\ qCounter["rgb"] + qCounter["hq"] + qCounter["ir"] + qCounter["depth"] < MaxFrames
    BY <2>1, <2>2, QueueAssumption DEF Q!Publish, Q!QueueConstants
  <2>4. s = "rgb" \/ s = "hq" \/ s = "ir" \/ s = "depth"
    BY <2>1
  <2>5. n \in Nat /\ n + 1 <= MaxFrames /\ MaxFrames \in Nat
    BY <2>2, <2>3, <2>4, QueueAssumption DEF Q!QueueConstants
  <2>6. qNow \in Nat /\ time \in Q!Times
    BY <1>1, QueueAssumption DEF HubTyped, Q!Times, Q!QueueConstants, Q!Publish
  <2> QED
    BY <2>5, <2>6, QueueAssumption DEF Q!QueueConstants, Q!Times
<1>3. /\ qNow' = time
      /\ qCounter' = [qCounter EXCEPT ![s] = n + 1]
      /\ qQueue' = [qQueue EXCEPT ![s] = r]
      /\ UNCHANGED <<qOnline, qLease, qPid, qMask, qAlive, qPc, qSeen, qOut, qJoined, qHeld>>
  BY DEF Q!Publish
<1>4. p \in Q!Frame /\ p.seq = n + 1 /\ p.tick = time
  BY <1>2 DEF Q!Frame, Q!Numbers
<1>5. /\ q \subseteq Q!Frame /\ IsFiniteSet(q) /\ Cardinality(q) <= Limit
      /\ Sorted(q, n, qNow)
  BY <1>1 DEF QueueTyped, QueuesSorted
<1> HIDE DEF n, p, q
<1>6. /\ r \subseteq q \cup {p} /\ IsFiniteSet(r) /\ Cardinality(r) <= Limit
      /\ \A f \in q \cup {p} : f \notin r => f.seq <= (n + 1) - Limit
  BY <1>2, <1>4, <1>5, Pushed DEF Sorted
<1> HIDE DEF r
<1>7. /\ qQueue'[s] = r /\ \A t \in Q!Streams : t # s => qQueue'[t] = qQueue[t]
      /\ qCounter'[s] = n + 1 /\ \A t \in Q!Streams : t # s => qCounter'[t] = qCounter[t]
  BY <1>1, <1>3 DEF QueueTyped, HubTyped
<1>8. QueueTyped'
  <2>1. r \in SUBSET Q!Frame
    BY <1>4, <1>5, <1>6
  <2> QED
    BY <1>1, <1>3, <1>6, <1>7, <2>1 DEF QueueTyped
<1>9. HubTyped'
  BY <1>1, <1>2, <1>3 DEF HubTyped
<1>10. ClientsTyped'
  BY <1>1, <1>3 DEF ClientsTyped
<1>11. QueuesSorted'
  <2>1. Sorted(r, n + 1, time)
    <3> SUFFICES ASSUME NEW f \in r, NEW g \in r
                 PROVE  /\ f.seq <= n + 1 /\ f.tick <= time
                        /\ f.seq <= g.seq => f.tick <= g.tick
                        /\ f.seq = g.seq => f = g
      BY DEF Sorted
    <3>1. \A h \in q : h.seq \in Nat /\ h.tick \in Nat /\ h.seq <= n /\ h.tick <= qNow
      BY <1>5, FrameTypes DEF Sorted
    <3>2. (f \in q \/ f = p) /\ (g \in q \/ g = p)
      BY <1>6
    <3>3. f.seq <= n + 1 /\ f.tick <= time
      BY <1>2, <1>4, <3>1, <3>2
    <3>4. CASE f \in q /\ g \in q
      BY <1>5, <3>3, <3>4 DEF Sorted
    <3>5. CASE f = p /\ g \in q
      BY <1>2, <1>4, <3>1, <3>3, <3>5
    <3>6. CASE g = p /\ f \in q
      BY <1>2, <1>4, <3>1, <3>3, <3>6
    <3>7. CASE f = p /\ g = p
      BY <1>2, <1>4, <3>3, <3>7
    <3> QED
      BY <3>2, <3>4, <3>5, <3>6, <3>7
  <2>2. ASSUME NEW t \in Q!Streams, t # s
        PROVE  Sorted(qQueue[t], qCounter[t], time)
    <3>1. Sorted(qQueue[t], qCounter[t], qNow) /\ qQueue[t] \subseteq Q!Frame
      BY <1>1 DEF QueuesSorted, QueueTyped
    <3>2. \A f \in qQueue[t] : f.tick \in Nat /\ f.tick <= qNow
      BY <3>1, FrameTypes DEF Sorted
    <3>3. \A f \in qQueue[t] : f.tick <= time
      BY <1>2, <3>2
    <3> QED
      BY <3>1, <3>3 DEF Sorted
  <2>3. ASSUME NEW t \in Q!Streams
        PROVE  Sorted(qQueue[t], qCounter[t], qNow)'
    <3>1. CASE t = s
      BY <1>3, <1>7, <2>1, <3>1 DEF Sorted
    <3>2. CASE t # s
      BY <1>3, <1>7, <2>2, <3>2 DEF Sorted
    <3> QED
      BY <3>1, <3>2
  <2> QED
    BY <2>3 DEF QueuesSorted
<1>12. UnseenLater'
  <2> SUFFICES ASSUME NEW c \in Clients
               PROVE  /\ qOut[c] <= time
                      /\ \A t \in qMask[c] : \A f \in qQueue'[t] :
                            f.seq > qSeen[c][t] => qOut[c] <= f.tick
    BY <1>3 DEF UnseenLater
  <2>1. qOut[c] \in Nat /\ qMask[c] \subseteq Q!Streams
    BY <1>1, FrameTypes DEF ClientsTyped, Q!Times
  <2>2. qOut[c] <= qNow /\ qOut[c] <= time
    BY <1>1, <1>2, <2>1 DEF UnseenLater
  <2>3. ASSUME NEW t \in qMask[c], NEW f \in qQueue'[t], f.seq > qSeen[c][t]
        PROVE  qOut[c] <= f.tick
    <3>1. f \in qQueue[t] \/ f = p
      BY <1>6, <1>7, <2>1 DEF q
    <3> QED
      BY <1>1, <1>4, <2>2, <2>3, <3>1 DEF UnseenLater
  <2> QED
    BY <2>2, <2>3
<1>13. LatestKept'
  <2> SUFFICES ASSUME NEW c \in qLease, qHeld[c], NEW t \in qMask[c],
                      NEW i \in (qJoined[c][t] + 1)..qCounter'[t], i > qCounter'[t] - Limit
               PROVE  \E f \in qQueue'[t] : f.seq = i
    BY <1>3 DEF LatestKept
  <2>1. t \in Q!Streams /\ qJoined[c][t] \in Nat
    BY <1>1, FrameTypes DEF ClientsTyped
  <2>2. CASE t # s
    BY <1>1, <1>7, <2>1, <2>2 DEF LatestKept
  <2>3. CASE t = s
    <3>1. i \in Int /\ i <= n + 1 /\ i > (n + 1) - Limit /\ i >= qJoined[c][t] + 1
      BY <1>2, <1>7, <2>1, <2>3
    <3>2. PICK f \in q \cup {p} : f.seq = i
      <4>1. CASE i = n + 1
        BY <1>4, <4>1
      <4>2. CASE i # n + 1
        <5>1. i \in (qJoined[c][s] + 1)..n /\ i > n - Limit
          BY <1>2, <2>1, <2>3, <3>1, <4>2
        <5> QED
          BY <1>1, <2>3, <5>1 DEF LatestKept, n, q
      <4> QED
        BY <4>1, <4>2
    <3>3. f \in r
      BY <1>2, <1>6, <3>1, <3>2
    <3> QED
      BY <1>7, <2>3, <3>2, <3>3
  <2> QED
    BY <2>2, <2>3
<1> QED
  BY <1>8, <1>9, <1>10, <1>11, <1>12, <1>13 DEF QueueInv, Typed

\* close_device_locked.
LEMMA CloseDeviceStep ==
  ASSUME QueueInv, Q!CloseDevice
  PROVE  QueueInv'
<1>1. /\ qOnline' = FALSE
      /\ qQueue' = [s \in Q!Streams |-> {}]
      /\ qHeld' = [c \in Clients |-> FALSE]
      /\ UNCHANGED <<qCounter, qNow, qLease, qPid, qMask, qAlive, qPc, qSeen, qOut, qJoined>>
  BY DEF Q!CloseDevice
<1>2. \A s \in Q!Streams : qQueue'[s] = {}
  BY <1>1
<1>3. IsFiniteSet({}) /\ Cardinality({}) = 0 /\ 0 <= Limit
  BY FS_EmptySet, QueueAssumption DEF Q!QueueConstants
<1>4. QueueTyped'
  BY <1>1, <1>2, <1>3 DEF QueueTyped
<1>5. HubTyped' /\ ClientsTyped'
  BY <1>1 DEF QueueInv, Typed, HubTyped, ClientsTyped
<1>6. QueuesSorted'
  BY <1>2 DEF QueuesSorted, Sorted
<1>7. UnseenLater'
  <2>1. \A c \in Clients : qMask[c] \subseteq Q!Streams
    BY FrameTypes DEF QueueInv, Typed, ClientsTyped
  <2> QED
    BY <1>1, <1>2, <2>1 DEF QueueInv, UnseenLater
<1>8. LatestKept'
  <2>1. \A c \in qLease : ~qHeld'[c]
    BY <1>1 DEF QueueInv, Typed, ClientsTyped
  <2> QED
    BY <1>1, <2>1 DEF LatestKept
<1> QED
  BY <1>4, <1>5, <1>6, <1>7, <1>8 DEF QueueInv, Typed

\* acquire.
LEMMA AcquireStep ==
  ASSUME QueueInv, NEW c \in Clients, NEW p \in Pids, NEW m \in Requests,
         Q!Acquire(c, p, m)
  PROVE  QueueInv'
<1>1. /\ qLease' = {d \in qLease : qPid[d] # p} \cup {c}
      /\ qPid' = [qPid EXCEPT ![c] = p]
      /\ qMask' = [qMask EXCEPT ![c] = m]
      /\ qAlive' = [qAlive EXCEPT ![c] = TRUE]
      /\ qPc' = [qPc EXCEPT ![c] = "wait"]
      /\ qSeen' = [qSeen EXCEPT ![c] = Q!None]
      /\ qOut' = [qOut EXCEPT ![c] = 0]
      /\ qJoined' = [qJoined EXCEPT ![c] = qCounter]
      /\ qHeld' = [qHeld EXCEPT ![c] = TRUE]
      /\ UNCHANGED <<qOnline, qQueue, qCounter, qNow>>
  BY DEF Q!Acquire, Q!hub
<1>2. QueueTyped /\ HubTyped /\ ClientsTyped /\ QueuesSorted /\ UnseenLater /\ LatestKept
  BY DEF QueueInv, Typed
<1>3. m \in Q!Masks /\ m \subseteq Q!Streams /\ Q!None \in [Q!Streams -> 0..MaxFrames]
  BY FrameTypes, QueueAssumption DEF Q!QueueConstants, Q!None
<1>4. ClientsTyped'
  BY <1>1, <1>2, <1>3, FrameTypes DEF ClientsTyped, HubTyped
<1>5. QueueTyped' /\ HubTyped' /\ QueuesSorted'
  BY <1>1, <1>2 DEF QueueTyped, HubTyped, QueuesSorted, Sorted
<1>6. UnseenLater'
  <2>1. ASSUME NEW d \in Clients, d # c
        PROVE  qOut'[d] = qOut[d] /\ qMask'[d] = qMask[d] /\ qSeen'[d] = qSeen[d]
    BY <1>1, <1>2, <2>1 DEF ClientsTyped
  <2>2. qOut'[c] = 0 /\ qMask'[c] = m
    BY <1>1, <1>2 DEF ClientsTyped
  <2>3. qNow \in Nat /\ \A s \in Q!Streams : \A f \in qQueue[s] : f.tick \in Nat
    BY <1>2, FrameTypes DEF HubTyped, QueueTyped, Q!Times
  <2>4. ASSUME NEW d \in Clients
        PROVE  /\ qOut'[d] <= qNow
               /\ \A s \in qMask'[d] : \A f \in qQueue[s] : f.seq > qSeen'[d][s] => qOut'[d] <= f.tick
    <3>1. CASE d # c
      BY <1>2, <2>1, <3>1 DEF UnseenLater
    <3>2. CASE d = c
      BY <1>3, <2>2, <2>3, <3>2
    <3> QED
      BY <3>1, <3>2
  <2> QED
    BY <1>1, <2>4 DEF UnseenLater
<1>7. LatestKept'
  <2> SUFFICES ASSUME NEW d \in qLease', qHeld'[d], NEW s \in qMask'[d],
                      NEW n \in (qJoined'[d][s] + 1)..qCounter[s], n > qCounter[s] - Limit
               PROVE  \E f \in qQueue[s] : f.seq = n
    BY <1>1 DEF LatestKept
  <2>1. CASE d = c
    <3>1. s \in Q!Streams /\ qJoined'[d] = qCounter
      BY <1>1, <1>2, <1>3, <2>1 DEF ClientsTyped
    <3>2. qCounter[s] \in Nat
      BY <1>2, <3>1 DEF HubTyped
    <3> QED
      BY <3>1, <3>2
  <2>2. CASE d # c
    <3>1. d \in qLease /\ d \in Clients
      BY <1>1, <1>2, <2>2 DEF ClientsTyped
    <3>2. qHeld'[d] = qHeld[d] /\ qMask'[d] = qMask[d] /\ qJoined'[d] = qJoined[d]
      BY <1>1, <1>2, <2>2, <3>1 DEF ClientsTyped
    <3> QED
      BY <1>2, <3>1, <3>2 DEF LatestKept
  <2> QED
    BY <2>1, <2>2
<1> QED
  BY <1>2, <1>4, <1>5, <1>6, <1>7 DEF QueueInv, Typed

\* Of the frames it has not seen, a client takes the first of its queue, and of
\* these the oldest.
LEMMA ChosenFirst ==
  ASSUME QueueInv, NEW c \in Clients, NEW s \in Q!Streams,
         NEW f, Q!Chosen(c, s, f)
  PROVE  /\ s \in qMask[c] /\ f \in qQueue[s] /\ f.seq > qSeen[c][s]
         /\ \A g \in qQueue[s] : g.seq > qSeen[c][s] => f.seq <= g.seq
         /\ qOut[c] <= f.tick
         /\ \A t \in qMask[c] : \A g \in qQueue[t] : g.seq > qSeen[c][t] => f.tick <= g.tick
<1>1. QueueTyped /\ HubTyped /\ ClientsTyped /\ QueuesSorted /\ UnseenLater
  BY DEF QueueInv, Typed
<1>2. /\ s \in qMask[c] /\ f \in qQueue[s] /\ f.seq > qSeen[c][s]
      /\ \A g \in qQueue[s] : g.seq > qSeen[c][s] => f.seq <= g.seq
  BY DEF Q!Chosen, Q!NextAfter
<1>3. qMask[c] \subseteq Q!Streams /\ \A t \in Q!Streams : qSeen[c][t] \in Nat
  BY <1>1, FrameTypes DEF ClientsTyped
<1>4. qOut[c] <= f.tick
  BY <1>1, <1>2 DEF UnseenLater
<1>5. \A t \in Q!Streams : \A g \in qQueue[t] : g \in Q!Frame /\ g.seq \in Nat /\ g.tick \in Nat
  BY <1>1, FrameTypes DEF QueueTyped
<1>6. ASSUME NEW t \in qMask[c], NEW g \in qQueue[t], g.seq > qSeen[c][t]
      PROVE  f.tick <= g.tick
  <2>1. CASE t = s
    BY <1>1, <1>2, <1>6, <2>1 DEF QueuesSorted, Sorted
  <2>2. CASE t # s
    <3> DEFINE U == {h \in qQueue[t] : h.seq > qSeen[c][t]}
    <3>1. t \in Q!Streams /\ U \subseteq Q!Frame /\ U # {}
      BY <1>3, <1>5, <1>6
    <3>2. PICK h \in U : \A k \in U : h.seq <= k.seq
      BY <3>1, LeastFrame
    <3>3. h \in Q!NextAfter(c, t)
      BY <3>2 DEF Q!NextAfter
    <3>4. f.tick <= h.tick
      <4>1. f.tick < h.tick \/ f.tick = h.tick
        BY <2>2, <3>3 DEF Q!Chosen
      <4> QED
        BY <1>2, <1>3, <1>5, <3>1, <3>2, <4>1
    <3>5. h.tick <= g.tick
      BY <1>1, <1>6, <3>1, <3>2 DEF QueuesSorted, Sorted
    <3> QED
      BY <1>2, <1>3, <1>5, <3>1, <3>2, <3>4, <3>5
  <2> QED
    BY <2>1, <2>2
<1> QED
  BY <1>2, <1>4, <1>6

\* wait_next.
LEMMA ChooseStep ==
  ASSUME QueueInv, NEW c \in Clients, Q!Choose(c)
  PROVE  QueueInv'
<1>1. PICK s \in Q!Streams, f \in UNION {qQueue[t] : t \in Q!Streams} :
         /\ Q!Chosen(c, s, f)
         /\ qOut' = [qOut EXCEPT ![c] = f.tick]
         /\ qSeen' = [qSeen EXCEPT ![c][s] = f.seq]
  BY DEF Q!Choose
<1>2. /\ qPc' = [qPc EXCEPT ![c] = "send"]
      /\ UNCHANGED <<qOnline, qQueue, qCounter, qNow, qLease, qPid, qMask, qAlive, qJoined, qHeld>>
  BY DEF Q!Choose, Q!hub
<1>3. QueueTyped /\ HubTyped /\ ClientsTyped /\ QueuesSorted /\ UnseenLater /\ LatestKept
  BY DEF QueueInv, Typed
<1>4. /\ s \in qMask[c] /\ f \in qQueue[s] /\ f.seq > qSeen[c][s]
      /\ \A t \in qMask[c] : \A g \in qQueue[t] : g.seq > qSeen[c][t] => f.tick <= g.tick
  BY <1>1, ChosenFirst
<1>5. f \in Q!Frame /\ f.seq \in 0..MaxFrames /\ f.tick \in Q!Times /\ f.tick <= qNow
  <2>1. f \in Q!Frame
    BY <1>3, <1>4 DEF QueueTyped
  <2> QED
    BY <1>3, <1>4, <2>1, QueueAssumption
       DEF QueuesSorted, Sorted, Q!Frame, Q!Numbers, Q!QueueConstants
<1>6. qSeen[c] \in [Q!Streams -> 0..MaxFrames]
  BY <1>3 DEF ClientsTyped
<1>7. /\ qSeen' = [qSeen EXCEPT ![c] = [qSeen[c] EXCEPT ![s] = f.seq]]
      /\ [qSeen[c] EXCEPT ![s] = f.seq] \in [Q!Streams -> 0..MaxFrames]
  BY <1>1, <1>5, <1>6
<1>8. ClientsTyped'
  BY <1>1, <1>2, <1>3, <1>5, <1>7 DEF ClientsTyped
<1>9. QueueTyped' /\ HubTyped' /\ QueuesSorted' /\ LatestKept'
  BY <1>2, <1>3 DEF QueueTyped, HubTyped, QueuesSorted, Sorted, LatestKept
<1>10. UnseenLater'
  <2>1. ASSUME NEW d \in Clients, d # c
        PROVE  qOut'[d] = qOut[d] /\ qSeen'[d] = qSeen[d]
    BY <1>1, <1>3, <1>7, <2>1 DEF ClientsTyped
  <2>2. qOut'[c] = f.tick /\ \A t \in Q!Streams : qSeen'[c][t] = IF t = s THEN f.seq ELSE qSeen[c][t]
    BY <1>1, <1>3, <1>6, <1>7 DEF ClientsTyped
  <2>3. ASSUME NEW t \in qMask[c], NEW g \in qQueue[t], g.seq > qSeen'[c][t]
        PROVE  f.tick <= g.tick
    <3>1. t \in Q!Streams /\ qSeen[c][t] \in Nat /\ qSeen[c][s] \in Nat /\ f.seq \in Nat
          /\ g.seq \in Nat
      BY <1>3, <1>5, <1>6, FrameTypes DEF ClientsTyped, QueueTyped
    <3>2. g.seq > qSeen[c][t]
      BY <1>4, <2>2, <2>3, <3>1
    <3> QED
      BY <1>4, <3>2
  <2>4. ASSUME NEW d \in Clients
        PROVE  /\ qOut'[d] <= qNow
               /\ \A t \in qMask[d] : \A g \in qQueue[t] : g.seq > qSeen'[d][t] => qOut'[d] <= g.tick
    <3>1. CASE d # c
      BY <1>3, <2>1, <3>1 DEF UnseenLater
    <3>2. CASE d = c
      BY <1>5, <2>2, <2>3, <3>2
    <3> QED
      BY <3>1, <3>2
  <2> QED
    BY <1>2, <2>4 DEF UnseenLater
<1> QED
  BY <1>8, <1>9, <1>10 DEF QueueInv, Typed

\* release: queues that somebody uses are left as they are.
LEMMA ReleaseStep ==
  ASSUME QueueInv, NEW c \in Clients, Q!Release(c)
  PROVE  QueueInv'
<1>1. /\ qPc' = [qPc EXCEPT ![c] = "out"]
      /\ qAlive' = [qAlive EXCEPT ![c] = FALSE]
      /\ qMask' = [qMask EXCEPT ![c] = {"depth"}]
      /\ qSeen' = [qSeen EXCEPT ![c] = Q!None]
      /\ qOut' = [qOut EXCEPT ![c] = 0]
      /\ qJoined' = [qJoined EXCEPT ![c] = Q!None]
      /\ qHeld' = [qHeld EXCEPT ![c] = FALSE]
      /\ UNCHANGED <<qOnline, qCounter, qNow, qPid>>
  BY DEF Q!Release, Q!Gone
<1>2. /\ qLease' = qLease \ {c}
      /\ \/ qQueue' = qQueue
         \/ qQueue' = [s \in Q!Streams |-> IF s \in Q!Unused(c) THEN {} ELSE qQueue[s]]
  BY DEF Q!Release
<1>3. QueueTyped /\ HubTyped /\ ClientsTyped /\ QueuesSorted /\ UnseenLater /\ LatestKept
  BY DEF QueueInv, Typed
<1>4. ASSUME NEW s \in Q!Streams
      PROVE  /\ qQueue'[s] = qQueue[s] \/ qQueue'[s] = {}
             /\ \A d \in qLease' : s \in qMask[d] => qQueue'[s] = qQueue[s]
  <2>1. CASE qQueue' = qQueue
    BY <2>1
  <2>2. CASE qQueue' = [t \in Q!Streams |-> IF t \in Q!Unused(c) THEN {} ELSE qQueue[t]]
    <3>1. qQueue'[s] = IF s \in Q!Unused(c) THEN {} ELSE qQueue[s]
      BY <2>2
    <3> QED
      BY <1>2, <3>1 DEF Q!Unused
  <2> QED
    BY <1>2, <2>1, <2>2
<1>5. QueueTyped'
  <2>1. qQueue' \in [Q!Streams -> SUBSET Q!Frame]
    BY <1>2, <1>3 DEF QueueTyped
  <2>2. IsFiniteSet({}) /\ Cardinality({}) = 0 /\ 0 <= Limit
    BY FS_EmptySet, QueueAssumption DEF Q!QueueConstants
  <2>3. ASSUME NEW s \in Q!Streams
        PROVE  IsFiniteSet(qQueue'[s]) /\ Cardinality(qQueue'[s]) <= Limit
    BY <1>3, <1>4, <2>2 DEF QueueTyped
  <2> QED
    BY <2>1, <2>3 DEF QueueTyped
<1>6. HubTyped'
  BY <1>1, <1>3 DEF HubTyped
<1>7. ClientsTyped'
  <2>1. Q!None \in [Q!Streams -> 0..MaxFrames]
    BY FrameTypes DEF Q!None
  <2> QED
    BY <1>1, <1>2, <1>3, <2>1, FrameTypes DEF ClientsTyped
<1>8. QueuesSorted'
  <2>1. ASSUME NEW s \in Q!Streams
        PROVE  Sorted(qQueue[s], qCounter[s], qNow)'
    BY <1>1, <1>3, <1>4 DEF QueuesSorted, Sorted
  <2> QED
    BY <2>1 DEF QueuesSorted
<1>9. UnseenLater'
  <2>1. qOut'[c] = 0 /\ qMask'[c] = {"depth"}
    BY <1>1, <1>3 DEF ClientsTyped
  <2>2. qNow \in Nat /\ \A s \in Q!Streams : \A f \in qQueue[s] : f.tick \in Nat
    BY <1>3, FrameTypes DEF HubTyped, QueueTyped, Q!Times
  <2>3. "depth" \in Q!Streams
    BY DEF Q!Streams
  <2>4. ASSUME NEW d \in Clients
        PROVE  /\ qOut'[d] <= qNow
               /\ \A s \in qMask'[d] : \A f \in qQueue'[s] : f.seq > qSeen'[d][s] => qOut'[d] <= f.tick
    <3>1. CASE d # c
      <4>1. qOut'[d] = qOut[d] /\ qMask'[d] = qMask[d] /\ qSeen'[d] = qSeen[d]
        BY <1>1, <1>3, <3>1 DEF ClientsTyped
      <4>2. qMask[d] \subseteq Q!Streams
        BY <1>3, FrameTypes DEF ClientsTyped
      <4> QED
        BY <1>3, <1>4, <4>1, <4>2 DEF UnseenLater
    <3>2. CASE d = c
      BY <1>4, <2>1, <2>2, <2>3, <3>2
    <3> QED
      BY <3>1, <3>2
  <2> QED
    BY <1>1, <2>4 DEF UnseenLater
<1>10. LatestKept'
  <2> SUFFICES ASSUME NEW d \in qLease', qHeld'[d], NEW s \in qMask'[d],
                      NEW n \in (qJoined'[d][s] + 1)..qCounter[s], n > qCounter[s] - Limit
               PROVE  \E f \in qQueue'[s] : f.seq = n
    BY <1>1 DEF LatestKept
  <2>1. d \in qLease /\ d \in Clients /\ d # c
    BY <1>2, <1>3 DEF ClientsTyped
  <2>2. qHeld'[d] = qHeld[d] /\ qMask'[d] = qMask[d] /\ qJoined'[d] = qJoined[d]
    BY <1>1, <1>3, <2>1 DEF ClientsTyped
  <2>3. s \in Q!Streams /\ qQueue'[s] = qQueue[s]
    BY <1>3, <1>4, <2>1, <2>2, FrameTypes DEF ClientsTyped
  <2> QED
    BY <1>3, <2>1, <2>2, <2>3 DEF LatestKept
<1> QED
  BY <1>5, <1>6, <1>7, <1>8, <1>9, <1>10 DEF QueueInv, Typed

LEMMA QueueStep == QueueInv /\ [Q!Next]_(Q!vars) => QueueInv'
<1> SUFFICES ASSUME QueueInv, [Q!Next]_(Q!vars)
             PROVE  QueueInv'
  OBVIOUS
<1>1. HubTyped /\ ClientsTyped
  BY DEF QueueInv, Typed
<1>2. CASE Q!OpenDevice
  BY <1>1, <1>2, QuietStep DEF Q!OpenDevice, HubTyped, ClientsTyped
<1>3. CASE Q!CloseDevice
  BY <1>3, CloseDeviceStep
<1>4. ASSUME NEW s \in Q!Streams, NEW time \in {qNow, qNow + 1}, Q!Publish(s, time)
      PROVE  QueueInv'
  BY <1>4, PublishStep
<1>5. ASSUME NEW c \in Clients, Q!Choose(c)
      PROVE  QueueInv'
  BY <1>5, ChooseStep
<1>6. ASSUME NEW c \in Clients, Q!GiveUp(c)
      PROVE  QueueInv'
  BY <1>1, <1>6, QuietStep DEF Q!GiveUp, Q!hub, HubTyped, ClientsTyped
<1>7. ASSUME NEW c \in Clients, Q!Sent(c)
      PROVE  QueueInv'
  BY <1>1, <1>7, QuietStep DEF Q!Sent, Q!hub, HubTyped, ClientsTyped
<1>8. ASSUME NEW c \in Clients, Q!Release(c)
      PROVE  QueueInv'
  BY <1>8, ReleaseStep
<1>9. ASSUME NEW c \in Clients, Q!Tell(c)
      PROVE  QueueInv'
  BY <1>1, <1>9, QuietStep DEF Q!Tell, Q!hub, HubTyped, ClientsTyped
<1>10. ASSUME NEW c \in Clients, NEW p \in Pids, NEW m \in Requests, Q!Acquire(c, p, m)
       PROVE  QueueInv'
  BY <1>10, AcquireStep
<1>11. CASE UNCHANGED Q!vars
  BY <1>1, <1>11, QuietStep DEF Q!vars, HubTyped, ClientsTyped
<1> QED
  BY <1>2, <1>3, <1>4, <1>5, <1>6, <1>7, <1>8, <1>9, <1>10, <1>11 DEF Q!Next, Q!Thread

\* Only wait_next takes a client from waiting to sending.
LEMMA SendIsChoose ==
  ASSUME ClientsTyped, [Q!Next]_(Q!vars), NEW c \in Clients, qPc[c] = "wait", qPc'[c] = "send"
  PROVE  Q!Choose(c)
<1>1. ASSUME NEW d \in Clients, Q!Choose(d)
      PROVE  Q!Choose(c)
  <2>1. qPc' = [qPc EXCEPT ![d] = "send"]
    BY <1>1 DEF Q!Choose
  <2>2. d = c
    BY <2>1 DEF ClientsTyped
  <2> QED
    BY <1>1, <2>2
<1>2. ASSUME NEW d \in Clients,
             Q!GiveUp(d) \/ Q!Sent(d) \/ Q!Release(d) \/ Q!Tell(d)
      PROVE  FALSE
  BY <1>2 DEF Q!GiveUp, Q!Sent, Q!Release, Q!Tell, ClientsTyped
<1>3. ASSUME NEW d \in Clients, NEW p \in Pids, NEW m \in Requests, Q!Acquire(d, p, m)
      PROVE  FALSE
  BY <1>3 DEF Q!Acquire, ClientsTyped
<1>4. ASSUME Q!OpenDevice \/ Q!CloseDevice \/ \E s \in Q!Streams, t \in {qNow, qNow + 1} : Q!Publish(s, t)
      PROVE  FALSE
  BY <1>4 DEF Q!OpenDevice, Q!CloseDevice, Q!Publish
<1>5. ASSUME UNCHANGED Q!vars
      PROVE  FALSE
  BY <1>5 DEF Q!vars
<1> QED
  BY <1>1, <1>2, <1>3, <1>4, <1>5 DEF Q!Next, Q!Thread

-----------------------------------------------------------------------------
(* The theorems about the queues.                                           *)

\* The inductive invariant of the queues, for any number of subscribers.
THEOREM QueueInvariance == Q!Spec => []QueueInv
<1>1. Q!Init => QueueInv
  BY QueueInit
<1>2. QueueInv /\ [Q!Next]_(Q!vars) => QueueInv'
  BY QueueStep
<1> QED
  BY <1>1, <1>2, PTL DEF Q!Spec

\* Every variable of the queues keeps its type; in particular no queue is ever
\* longer than kFrameQueueDepth (push_frame).
THEOREM QueueTypeCorrect == Q!Spec => []Q!TypeOK
<1>1. QueueInv => Q!TypeOK
  BY SameCardinality DEF QueueInv, Typed, QueueTyped, HubTyped, ClientsTyped, Q!TypeOK
<1>2. Q!Spec => []QueueInv
  BY QueueInvariance
<1> QED
  BY <1>1, <1>2, PTL

\* What a subscriber is sent never goes back in time, over all its streams and
\* however far it is behind (wait_next, consider).
THEOREM SentInOrder == Q!Spec => TimeOrder
<1> DEFINE InTime == \A c \in Clients : qPc[c] = "wait" /\ qPc'[c] = "send" => qOut[c] <= qOut'[c]
<1>1. QueueInv /\ [Q!Next]_(Q!vars) => InTime
  <2> SUFFICES ASSUME QueueInv, [Q!Next]_(Q!vars),
                      NEW c \in Clients, qPc[c] = "wait", qPc'[c] = "send"
               PROVE  qOut[c] <= qOut'[c]
    OBVIOUS
  <2>1. ClientsTyped /\ Q!Choose(c)
    BY SendIsChoose DEF QueueInv, Typed
  <2>2. PICK s \in Q!Streams, f \in UNION {qQueue[t] : t \in Q!Streams} :
           Q!Chosen(c, s, f) /\ qOut' = [qOut EXCEPT ![c] = f.tick]
    BY <2>1 DEF Q!Choose
  <2>3. qOut[c] <= f.tick
    BY <2>2, ChosenFirst
  <2> QED
    BY <2>1, <2>2, <2>3 DEF ClientsTyped
<1>2. QueueInv /\ [Q!Next]_(Q!vars) => [InTime]_(Q!vars)
  BY <1>1
<1>3. Q!Spec => []QueueInv
  BY QueueInvariance
<1> QED
  BY <1>2, <1>3, PTL DEF Q!Spec, TimeOrder, Q!TimeOrder

\* Who holds the subscription misses a frame only if the device was lost or it
\* is more than a queue behind, whoever else comes, leaves or is superseded
\* (push_frame, release, wait_next).
THEOREM NoFrameSkipped == Q!Spec => NothingSkipped
<1> DEFINE Whole == \A c \in qLease : qPc[c] = "wait" /\ qPc'[c] = "send" /\ qHeld[c] =>
              \A s \in Q!Streams : \A n \in (qSeen[c][s] + 1)..(qSeen'[c][s] - 1) :
                n <= qJoined[c][s] \/ n <= qCounter[s] - Limit
<1>1. QueueInv /\ [Q!Next]_(Q!vars) => Whole
  <2> SUFFICES ASSUME QueueInv, [Q!Next]_(Q!vars), NEW c \in qLease,
                      qPc[c] = "wait", qPc'[c] = "send", qHeld[c], NEW s \in Q!Streams,
                      NEW n \in (qSeen[c][s] + 1)..(qSeen'[c][s] - 1)
               PROVE  n <= qJoined[c][s] \/ n <= qCounter[s] - Limit
    OBVIOUS
  <2>1. QueueTyped /\ HubTyped /\ ClientsTyped /\ QueuesSorted /\ LatestKept /\ c \in Clients
    BY DEF QueueInv, Typed, ClientsTyped
  <2>2. Q!Choose(c)
    BY <2>1, SendIsChoose
  <2>3. PICK t \in Q!Streams, f \in UNION {qQueue[r] : r \in Q!Streams} :
           Q!Chosen(c, t, f) /\ qSeen' = [qSeen EXCEPT ![c][t] = f.seq]
    BY <2>2 DEF Q!Choose
  <2>4. /\ t \in qMask[c] /\ f \in qQueue[t]
        /\ \A g \in qQueue[t] : g.seq > qSeen[c][t] => f.seq <= g.seq
    BY <2>1, <2>3, ChosenFirst
  <2>5. qSeen[c] \in [Q!Streams -> 0..MaxFrames] /\ qJoined[c][s] \in Nat /\ qCounter[s] \in Nat
        /\ qSeen[c][s] \in Nat /\ MaxFrames \in Nat /\ Limit \in Nat
    BY <2>1, QueueAssumption DEF ClientsTyped, HubTyped, Q!QueueConstants
  <2>6. qSeen'[c][s] = IF s = t THEN f.seq ELSE qSeen[c][s]
    BY <2>1, <2>3, <2>5 DEF ClientsTyped
  <2>7. CASE s # t
    BY <2>5, <2>6, <2>7
  <2>8. CASE s = t
    <3>1. f.seq \in Nat /\ f.seq <= qCounter[t]
      BY <2>1, <2>4, FrameTypes DEF QueueTyped, QueuesSorted, Sorted
    <3>2. n \in Int /\ n > qSeen[c][t] /\ n < f.seq /\ n < qCounter[t]
      BY <2>5, <2>6, <2>8, <3>1
    <3> SUFFICES ASSUME n > qJoined[c][t], n > qCounter[t] - Limit
                 PROVE  FALSE
      BY <2>5, <2>8, <3>2
    <3>3. n \in (qJoined[c][t] + 1)..qCounter[t]
      BY <2>5, <2>8, <3>2
    <3>4. PICK g \in qQueue[t] : g.seq = n
      BY <2>1, <2>4, <3>3 DEF LatestKept
    <3> QED
      BY <2>4, <3>1, <3>2, <3>4
  <2> QED
    BY <2>7, <2>8
<1>2. QueueInv /\ [Q!Next]_(Q!vars) => [Whole]_(Q!vars)
  BY <1>1
<1>3. Q!Spec => []QueueInv
  BY QueueInvariance
<1> QED
  BY <1>2, <1>3, PTL DEF Q!Spec, NothingSkipped, Q!NothingSkipped

=============================================================================
