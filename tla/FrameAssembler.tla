---------------------------- MODULE FrameAssembler ----------------------------
(***************************************************************************)
(* The FrameAssembler of kinect_usb_camera.cpp, that of the Windows        *)
(* CameraBridge, and the ISO packets they are fed: they put the packets of *)
(* one stream together to frames, fill short gaps and flag the frame, and  *)
(* resynchronise after longer ones.  They see a loss only as a gap between *)
(* sequence numbers of eight bits.                                         *)
(*                                                                         *)
(* Packets are numbered in the order the sensor sends them, over all its   *)
(* sessions; each session begins with a frame and any sequence number.     *)
(* On Linux the session ends some time after restart(): until the engine   *)
(* has stopped, packets of the old session still arrive.  On Windows the   *)
(* reads are cancelled first, but a depth engine that pauses leaves its    *)
(* assembler as it is.                                                     *)
(***************************************************************************)
EXTENDS Integers

CONSTANTS
  Packets,     \* packets_per_frame_
  Modulus,     \* 256: sequence numbers wrap
  MaxLoss,     \* kMaxRecoverablePacketLoss
  Stall,       \* packets without a frame until the hub restarts the stream
  MaxPackets,  \* bound on the packets of a behaviour
  MaxRestarts  \* bound on the restarts of a behaviour

ASSUME SizeAssumption == Packets \in Nat /\ Packets >= 2
ASSUME LossAssumption == MaxLoss \in Nat /\ Modulus \in Nat /\ MaxLoss < Modulus
\* The hub gives up on a silent stream before the sequence numbers can come
\* round to a packet of the same place in a later frame.
ASSUME StallAssumption ==
  Stall \in Nat /\ \A p \in 1..Stall : p % Modulus = 0 => p % Packets # 0
ASSUME BoundAssumption == MaxPackets \in Nat /\ MaxRestarts \in Nat

VARIABLES
  system,    \* "linux" or "windows"
  sent,      \* packets the sensor has sent
  first,     \* number and sequence number of the first packet of the session
  ending,    \* restart() was called, the session has not ended yet
  restarts,  \* restarts so far
  asm,       \* the assembler
  out,       \* the last published frame
  last,      \* sent when it was published, or the stream was restarted
  clean      \* packets received in a row without loss or defect

vars == <<system, sent, first, ending, restarts, asm, out, last, clean>>

Places == 0..(Packets - 1)
NoPacket == -1

\* What a place of the frame holds: bytes of packet k, all of them or only some;
\* fill where none arrived.
Fill    == [k |-> NoPacket, whole |-> FALSE]
Filled  == [i \in Places |-> Fill]
Content == [k : NoPacket..(MaxPackets - 1), whole : BOOLEAN]

TypeOK ==
  /\ system \in {"linux", "windows"}
  /\ sent \in 0..MaxPackets
  /\ first \in [k : 0..MaxPackets, seq : 0..(Modulus - 1)]
  /\ ending \in BOOLEAN /\ restarts \in 0..MaxRestarts
  /\ asm \in [synced : BOOLEAN, recovered : BOOLEAN, index : Places,
              expected : 0..(Modulus - 1), frame : [Places -> Content]]
  /\ out \in [frame : [Places -> Content], recovered : BOOLEAN]
  /\ last \in 0..MaxPackets /\ clean \in 0..MaxPackets

Idle(a) == [a EXCEPT !.synced = FALSE, !.recovered = FALSE, !.index = 0, !.expected = 0]

Init ==
  /\ system \in {"linux", "windows"}
  /\ sent = 0 /\ ending = FALSE /\ restarts = 0
  /\ first \in [k : {0}, seq : 0..(Modulus - 1)]
  /\ asm = [synced |-> FALSE, recovered |-> FALSE, index |-> 0, expected |-> 0,
            frame |-> Filled]
  /\ out = [frame |-> Filled, recovered |-> TRUE]
  /\ last = 0 /\ clean = 0

-----------------------------------------------------------------------------
(* The header of packet k.                                                 *)

Index(k)    == (k - first.k) % Packets
Sequence(k) == (first.seq + (k - first.k)) % Modulus
Flag(i)     == IF i = 0 THEN "sof" ELSE IF i = Packets - 1 THEN "eof" ELSE "mof"

-----------------------------------------------------------------------------
(* process (Linux)                                                         *)

\* start_frame
Start(a, k) ==
  [a EXCEPT !.synced = TRUE, !.recovered = FALSE, !.index = 0,
            !.expected = Sequence(k), !.frame = Filled]

\* Mutant: packets that break the synchronisation never begin a frame.
Mut_Resync(a, k) == Idle(a)

\* The assembler starts over, with this packet if it begins a frame.
Resync(a, k) == IF Flag(Index(k)) = "sof" THEN Start(a, k) ELSE Idle(a)

\* How many packets are missing before packet k, as far as eight bits tell.
Lost(a, k) == (Sequence(k) - a.expected) % Modulus

\* Mutant: the places of lost packets keep what they held.
Mut_Skip(a, k) ==
  [a EXCEPT !.index = a.index + Lost(a, k), !.recovered = TRUE, !.expected = Sequence(k)]

\* A short gap is filled and the frame flagged.
Skip(a, k) ==
  [a EXCEPT !.index = a.index + Lost(a, k), !.recovered = TRUE, !.expected = Sequence(k),
            !.frame = [i \in Places |-> IF i \in a.index..(a.index + Lost(a, k) - 1)
                                        THEN Fill ELSE a.frame[i]]]

\* A packet out of sequence is filled up to, or breaks the synchronisation.
InOrder(a, k) ==
  IF ~a.synced THEN Resync(a, k)
  ELSE IF Lost(a, k) = 0 THEN a
  ELSE IF Lost(a, k) > MaxLoss \/ a.index + Lost(a, k) >= Packets THEN Resync(a, k)
  ELSE Skip(a, k)

\* The flag must be the one of the place the packet goes to.
InPlace(a, k) ==
  IF a.index >= Packets THEN Idle(a)
  ELSE IF a.synced /\ Flag(Index(k)) # Flag(a.index) THEN Resync(a, k)
  ELSE a

\* Mutant: a truncated packet does not flag the frame.
Mut_Store(a, k, size) ==
  [a EXCEPT !.frame[a.index] = [k |-> k, whole |-> size = "whole"],
            !.index = a.index + 1, !.expected = (Sequence(k) + 1) % Modulus]

\* The bytes go to their place, what a truncated packet lacks is filled.
Store(a, k, size) ==
  [a EXCEPT !.frame[a.index] = [k |-> k, whole |-> size = "whole"],
            !.recovered = @ \/ size = "short",
            !.index = a.index + 1, !.expected = (Sequence(k) + 1) % Modulus]

Process(k, size) ==
  LET a == InPlace(InOrder(asm, k), k)
      s == Store(a, k, size)
  IN  IF ~a.synced THEN asm' = a /\ UNCHANGED <<out, last>>
      ELSE IF size = "long" THEN asm' = Idle(a) /\ UNCHANGED <<out, last>>
      ELSE IF a.index < Packets - 1 THEN asm' = s /\ UNCHANGED <<out, last>>
      ELSE /\ out' = [frame |-> s.frame, recovered |-> s.recovered]
           /\ last' = k + 1
           /\ asm' = Idle(s)

-----------------------------------------------------------------------------
(* Push (Windows): a packet that begins a frame begins it, and the frame    *)
(* keeps what the last one left in its places.                             *)

\* The sequence number is left, and not looked at before a frame begins.
ResetSync(a) == Idle(a)

Begun(a, k) == [a EXCEPT !.synced = TRUE, !.recovered = FALSE, !.index = 0, !.expected = Sequence(k)]

\* The assembler when the packet has been put in sequence.
Sequenced(a, k) ==
  IF Flag(Index(k)) = "sof" THEN Begun(a, k)
  ELSE IF ~a.synced \/ Lost(a, k) = 0 THEN a
  ELSE IF Lost(a, k) > MaxLoss \/ a.index + Lost(a, k) >= Packets THEN ResetSync(a)
  ELSE Skip(a, k)

Push(k, size) ==
  LET a == Sequenced(asm, k)
      s == Store(a, k, size)
  IN  IF ~a.synced THEN asm' = a /\ UNCHANGED <<out, last>>
      ELSE IF Flag(Index(k)) # Flag(a.index) \/ size = "long"
      THEN asm' = ResetSync(a) /\ UNCHANGED <<out, last>>
      ELSE IF a.index < Packets - 1 THEN asm' = s /\ UNCHANGED <<out, last>>
      ELSE /\ out' = [frame |-> s.frame, recovered |-> s.recovered]
           /\ last' = k + 1
           /\ asm' = ResetSync(s)

-----------------------------------------------------------------------------

\* The next packet arrives after gap lost ones; no silence is longer than the
\* hub endures.
Receive(gap, size) ==
  LET k == sent + gap
  IN  /\ k < MaxPackets
      /\ k - last < Stall
      /\ sent' = k + 1
      /\ clean' = IF gap = 0 /\ size = "whole" THEN clean + 1 ELSE 0
      /\ IF system = "linux" THEN Process(k, size) ELSE Push(k, size)
      /\ UNCHANGED <<system, first, ending, restarts>>

\* restart(), before the firmware engine is configured anew.
Restart ==
  /\ system = "linux" /\ restarts < MaxRestarts
  /\ restarts' = restarts + 1
  /\ asm' = Idle(asm)
  /\ ending' = TRUE
  /\ clean' = 0 /\ last' = sent
  /\ UNCHANGED <<system, sent, first, out>>

\* The engine has been stopped and enabled again.
NewSession ==
  /\ ending
  /\ ending' = FALSE
  /\ first' \in [k : {sent}, seq : 0..(Modulus - 1)]
  /\ clean' = 0
  /\ UNCHANGED <<system, sent, restarts, asm, out, last>>

\* StreamVideo has stopped the engine, cancelled its reads, started it in
\* another mode and calls Reset; or the projector was off for a while and
\* DepthLoop goes on with what the assembler holds.
NewStream ==
  /\ system = "windows" /\ restarts < MaxRestarts
  /\ restarts' = restarts + 1
  /\ asm' \in {asm, ResetSync(asm)}
  /\ first' \in [k : {sent}, seq : 0..(Modulus - 1)]
  /\ clean' = 0 /\ last' = sent
  /\ UNCHANGED <<system, sent, ending, out>>

Next ==
  \/ \E gap \in 0..Stall, size \in {"whole", "short", "long"} : Receive(gap, size)
  \/ Restart \/ NewSession \/ NewStream

Spec == Init /\ [][Next]_vars

-----------------------------------------------------------------------------
(* Properties.                                                             *)

\* Nothing of it was sent before the session began.  A packet that arrives
\* between restart() and the end of the old session, or before a pause of the
\* depth engine, may begin a frame that the new session completes; such a frame
\* is left out of the two properties below.
OfSession(f) == \A i \in Places : f[i].k # NoPacket => f[i].k >= first.k

\* A frame that is not flagged is one frame of the sensor, complete and in
\* order, whatever was lost and however the numbers wrapped
\* (kinect_usb_camera.cpp:142-163, 204-211).
WholeUnlessFlagged ==
  OfSession(out.frame) /\ ~out.recovered =>
    /\ \A i \in Places : out.frame[i] = [k |-> out.frame[0].k + i, whole |-> TRUE]
    /\ Index(out.frame[0].k) = 0

\* The pixels of a published frame are of one frame of the sensor, in place;
\* the rest is fill (kinect_usb_camera.cpp:104-107, 145-146).
NoForeignPixels ==
  OfSession(out.frame) =>
    \A i, j \in Places :
      out.frame[i].k # NoPacket /\ out.frame[j].k # NoPacket =>
        out.frame[j].k - out.frame[i].k = j - i

\* Once packets arrive in order and whole again, a frame is published before
\* two have been sent (kinect_usb_camera.cpp:138-141, 176-183).
Resynchronises == clean >= 2 * Packets - 1 => sent - last < Packets
=============================================================================
