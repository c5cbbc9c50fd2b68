--------------------------- MODULE FrameTransport ---------------------------
(***************************************************************************)
(* The Windows CameraBridge hands colour frames to the virtual camera and  *)
(* the IP camera through shared memory without a lock: a sequence number   *)
(* that is odd while a writer is inside, two picture slots and a header.   *)
(* The bridge writes from several threads, a reader only reads, and either *)
(* process may be gone at any moment; the memory outlives the bridge as    *)
(* long as a reader has it mapped, and the next bridge sets it up anew.    *)
(*                                                                         *)
(* Memory is a function from words to values.  A word is a header field,   *)
(* the metadata of a slot or one part of its picture: stores and loads of  *)
(* different words interleave freely, in any order the barriers allow.     *)
(***************************************************************************)
EXTENDS Naturals

CONSTANTS
  Readers,    \* the virtual camera and the IP camera
  Workers,    \* conversion threads that publish: RGB and RGB HQ
  SizesOf,    \* the sizes each of them publishes
  Vga, Hq,    \* the two sizes, in bytes
  Parts,      \* parts of a picture that are copied one after another
  MaxSeq, MaxFrames, MaxOpens,  \* bounds: sequence and frames of each bridge, bridges
  NoFrame, NoJob

Sizes == {Vga, Hq}

Slots == {"a", "b"}
Size == <<"header", "size">>       \* width and height
Bytes == <<"header", "bytes">>     \* frameBytes
Active == <<"header", "active">>
Online == <<"header", "online">>
Header == {Size, Bytes, Active, Online}
Number(s) == <<s, "number">>
Length(s) == <<s, "length">>       \* slot[s].bytes
Part(s, p) == <<s, p>>
SlotWords(s) == {Number(s), Length(s)} \cup {Part(s, p) : p \in Parts}
Metadata == UNION {{Number(s), Length(s)} : s \in Slots}
Words == Header \cup UNION {SlotWords(s) : s \in Slots}

\* The threads of the bridge that write: the service thread, which starts and stops
\* the node of a sensor, the node's own thread, and its conversion workers.
Writers == {"service", "node"} \cup Workers


VARIABLES
  mem,      \* the shared memory, without its sequence number
  seq,      \* colorSequence
  phase,    \* of the sensor's node in the bridge
  job,      \* what each writer is storing
  number,   \* m_frameNumber
  opens,    \* how often the memory was set up
  before,   \* each reader's first look at the sequence, 0 when it is not reading
  got,      \* the words it has loaded since
  out,      \* what its last successful read returned
  shown,    \* history: the last frame whose writer has left
  online,   \* history: what the last writer left in mem[Online]
  fresh     \* history: readers that began since the memory was set up

bridge == <<phase, job, number, opens>>
reader == <<before, got, out>>
history == <<shown, online, fresh>>
vars == <<mem, seq, bridge, reader, history>>

\* A part of a picture shows which bridge published it and its number there.
Contents == Nat \X Nat
SF == INSTANCE SharedFrame WITH frame <- shown

Kinds == {"open", "offline", "close", "frame"}
Jobs == [kind : Kinds, slot : Slots, frame : SF!Frames \cup {NoFrame}, left : SUBSET Words]

ASSUME ConstantsAssumption ==
  /\ Vga \in Nat \ {0} /\ Hq \in Nat \ {0}
  /\ SizesOf \in [Workers -> SUBSET Sizes]
  /\ {"service", "node"} \cap Workers = {}
  /\ Parts \cap {"number", "length"} = {}
  /\ NoFrame \notin SF!Frames \cup SF!Pictures
  /\ NoJob \notin Jobs
  /\ MaxSeq \in [1 .. MaxOpens -> Nat] /\ MaxFrames \in Nat /\ MaxOpens \in Nat

-----------------------------------------------------------------------------
\* What Open leaves in memory: no frame in either slot.
Blank == [x \in Words |->
  CASE x \in {Size, Bytes} -> Vga
    [] x = Active -> "a"
    [] x = Online -> FALSE
    [] x \in Metadata -> 0
    [] OTHER -> <<0, 0>>]

\* What a frame leaves in the words it is stored to.
Stored(f, s) == [x \in Header \cup SlotWords(s) |->
  CASE x \in {Size, Bytes, Length(s)} -> f.size
    [] x = Active -> s
    [] x = Online -> TRUE
    [] x = Number(s) -> f.number
    [] OTHER -> f.content]

Value(j, x) ==
  CASE j.kind = "open" -> Blank[x]
    [] j.kind = "frame" -> Stored(j.frame, j.slot)[x]
    [] OTHER -> FALSE

OpenJob == [kind |-> "open", slot |-> "a", frame |-> NoFrame, left |-> Words]
OfflineJob(kind) == [kind |-> kind, slot |-> "a", frame |-> NoFrame, left |-> {Online}]
FrameJob(f, s) == [kind |-> "frame", slot |-> s, frame |-> f, left |-> Header \cup SlotWords(s)]

Inside(w) == job[w] # NoJob

Unlocked == \A w \in Writers : ~Inside(w)      \* m_writeLock

Init ==
  /\ mem = Blank /\ seq = 0
  /\ phase = "closed" /\ job = [w \in Writers |-> NoJob] /\ number = 0 /\ opens = 0
  /\ before = [r \in Readers |-> 0] /\ got = [r \in Readers |-> << >>]
  /\ out = [r \in Readers |-> NoFrame]
  /\ shown = NoFrame /\ online = FALSE /\ fresh = {}

-----------------------------------------------------------------------------
\* CameraNode::Start: the publisher of a new node sets the memory up before any
\* other thread of the node runs.  No lock: the sequence is 1 until it is done.
Open ==
  /\ phase = "closed" /\ opens < MaxOpens
  /\ phase' = "opening" /\ opens' = opens + 1 /\ number' = 0
  /\ seq' = 1 /\ job' = [job EXCEPT !["service"] = OpenJob]
  /\ shown' = NoFrame /\ online' = FALSE /\ fresh' = {}
  /\ UNCHANGED <<mem, reader>>

\* Mutant: a writer moves the sequence only when it leaves.
Mut_Enter(w, j) ==
  /\ Unlocked /\ seq + 2 <= MaxSeq[opens]
  /\ seq' = seq /\ job' = [job EXCEPT ![w] = j]
  /\ UNCHANGED <<mem, opens, reader, history>>

\* Every other writer holds m_writeLock and makes the sequence odd first.
Enter(w, j) ==
  /\ Unlocked /\ seq + 2 <= MaxSeq[opens]
  /\ seq' = seq + 1 /\ job' = [job EXCEPT ![w] = j]
  /\ UNCHANGED <<mem, opens, reader, history>>

\* SetOnline(false): by the node's thread when the camera cannot be opened, when
\* colour stops or its mode changes, and after a session; by the service in Stop.
SetOffline(w) ==
  /\ w \in {"service", "node"} /\ phase \in {"between", "running", "ending"}
  /\ Enter(w, OfflineJob("offline"))
  /\ UNCHANGED <<phase, number>>

\* The camera is open and its conversion workers run.
Run ==
  /\ phase = "between" /\ ~Inside("node")
  /\ phase' = "running"
  /\ UNCHANGED <<mem, seq, job, number, opens, reader, history>>

\* A worker publishes a converted frame to the slot that is not active.
PublishFrame(w) ==
  /\ w \in Workers /\ phase = "running" /\ number < MaxFrames
  /\ number' = number + 1
  /\ \E size \in SizesOf[w], s \in Slots \ {mem[Active]} :
       Enter(w, FrameJob([number |-> number', size |-> size, content |-> <<opens, number'>>], s))
  /\ UNCHANGED phase

\* Mutant: the node does not set the sensor offline after a session.
Mut_EndRun ==
  /\ phase = "running" /\ \A w \in Workers \cup {"node"} : ~Inside(w)
  /\ phase' = "between"
  /\ UNCHANGED <<mem, seq, job, number, opens, reader, history>>

\* The session ends: its workers are joined, then the node sets the sensor offline.
EndRun ==
  /\ phase = "running" /\ \A w \in Workers \cup {"node"} : ~Inside(w)
  /\ phase' = "ending"
  /\ UNCHANGED <<mem, seq, job, number, opens, reader, history>>

\* The node is gone and the publisher with it.
Close ==
  /\ phase = "between" /\ ~Inside("node")
  /\ Enter("service", OfflineJob("close"))
  /\ phase' = "closing"
  /\ UNCHANGED number

\* Open clears the header, then the metadata of the slots, then the pictures.  Of a
\* frame the picture, the header and the metadata are stored in any order, the active
\* slot after them and online last.
Ready(j, x) ==
  /\ x \in j.left
  /\ j.kind = "open" =>
       /\ x \notin Header => j.left \cap Header = {}
       /\ x \notin Header \cup Metadata => j.left \cap Metadata = {}
  /\ j.kind = "frame" =>
       /\ x = Active => j.left \subseteq {Active, Online}
       /\ x = Online => j.left = {Online}

Store(w, x) ==
  /\ Inside(w) /\ Ready(job[w], x)
  /\ mem' = [mem EXCEPT ![x] = Value(job[w], x)]
  /\ job' = [job EXCEPT ![w].left = @ \ {x}]
  /\ UNCHANGED <<seq, phase, number, opens, reader, history>>

PhaseAfter(w) ==
  CASE job[w].kind = "open" -> "between"
    [] job[w].kind = "close" -> "closed"
    [] job[w].kind = "offline" /\ w = "node" /\ phase = "ending" -> "between"
    [] OTHER -> phase

Leave(w) ==
  /\ Inside(w) /\ job[w].left = {}
  /\ seq' = seq + 1 /\ job' = [job EXCEPT ![w] = NoJob] /\ phase' = PhaseAfter(w)
  /\ shown' = IF job[w].kind = "frame" THEN job[w].frame ELSE shown
  /\ online' = (job[w].kind = "frame")
  /\ UNCHANGED <<mem, number, opens, reader, fresh>>

\* The bridge is killed, inside a store or not.
Crash ==
  /\ phase # "closed"
  /\ phase' = "closed" /\ job' = [w \in Writers |-> NoJob]
  /\ UNCHANGED <<mem, seq, number, opens, reader, history>>

-----------------------------------------------------------------------------
\* A reader waits for an even sequence.  (Memory that was never set up has no magic.)
StartRead(r) ==
  /\ before[r] = 0 /\ seq > 0 /\ seq % 2 = 0
  /\ before' = [before EXCEPT ![r] = seq]
  /\ fresh' = fresh \cup {r}
  /\ UNCHANGED <<mem, seq, bridge, got, out, shown, online>>

Has(r, x) == x \in DOMAIN got[r]

\* It reads the header, then the metadata and the picture of the slot named there.
Needed(r) ==
  IF Header \subseteq DOMAIN got[r] THEN Header \cup SlotWords(got[r][Active]) ELSE Header

ReadWord(r, x) ==
  /\ before[r] # 0 /\ x \in Needed(r) /\ ~Has(r, x)
  /\ got' = [got EXCEPT ![r] = [y \in DOMAIN @ \cup {x} |-> IF y = x THEN mem[x] ELSE @[y]]]
  /\ UNCHANGED <<mem, seq, bridge, before, out, history>>

Stop(r) ==
  /\ before' = [before EXCEPT ![r] = 0] /\ got' = [got EXCEPT ![r] = << >>]
  /\ UNCHANGED <<mem, seq, bridge, history>>

Copied(r) ==
  LET s == got[r][Active]
  IN  [number |-> got[r][Number(s)], size |-> got[r][Length(s)],
       part |-> [p \in Parts |-> got[r][Part(s, p)]], online |-> got[r][Online]]

\* Mutant: a copy is returned though the sequence has moved.
Mut_Accept(r) ==
  /\ before[r] # 0 /\ Has(r, Active) /\ DOMAIN got[r] = Header \cup SlotWords(got[r][Active])
  /\ got[r][Bytes] = got[r][Size] /\ got[r][Length(got[r][Active])] = got[r][Bytes]
  /\ out' = [out EXCEPT ![r] = Copied(r)]
  /\ Stop(r)

\* The sizes agree and the sequence has not moved: the copy is returned.
Accept(r) ==
  /\ before[r] # 0 /\ Has(r, Active) /\ DOMAIN got[r] = Header \cup SlotWords(got[r][Active])
  /\ got[r][Bytes] = got[r][Size] /\ got[r][Length(got[r][Active])] = got[r][Bytes]
  /\ seq = before[r]
  /\ out' = [out EXCEPT ![r] = Copied(r)]
  /\ Stop(r)

\* The read returns nothing or tries again: the sizes disagree, the sequence has
\* moved, or, in the virtual camera, the sensor is offline or the frame too old.
Refuse(r) ==
  /\ before[r] # 0
  /\ UNCHANGED out
  /\ Stop(r)

-----------------------------------------------------------------------------
Next ==
  \/ Open \/ Run \/ EndRun \/ Close \/ Crash
  \/ \E w \in Writers :
       SetOffline(w) \/ PublishFrame(w) \/ Leave(w) \/ \E x \in Words : Store(w, x)
  \/ \E r \in Readers :
       StartRead(r) \/ Accept(r) \/ Refuse(r) \/ \E x \in Words : ReadWord(r, x)

Spec == Init /\ [][Next]_vars

-----------------------------------------------------------------------------
Holds(x) ==
  CASE x \in {Size, Bytes} -> Sizes
    [] x = Active -> Slots
    [] x = Online -> BOOLEAN
    [] x \in Metadata -> Nat
    [] OTHER -> Contents

TypeOK ==
  /\ DOMAIN mem = Words /\ \A x \in Words : mem[x] \in Holds(x)
  /\ seq \in Nat /\ number \in Nat /\ opens \in Nat
  /\ phase \in {"closed", "opening", "between", "running", "ending", "closing"}
  /\ job \in [Writers -> Jobs \cup {NoJob}]
  /\ before \in [Readers -> Nat]
  /\ out \in [Readers -> SF!Pictures \cup {NoFrame}]
  /\ shown \in SF!Frames \cup {NoFrame} /\ online \in BOOLEAN
  /\ fresh \subseteq Readers

\* Whatever threads of the bridge meet, one at a time is inside, and the sequence is
\* odd exactly then, as long as the bridge is up.
OddWhileWriting ==
  /\ \A v, w \in Writers : Inside(v) /\ Inside(w) => v = w
  /\ phase # "closed" => (seq % 2 = 1 <=> \E w \in Writers : Inside(w))

\* A sensor without a session reads as offline, however late its last frame was
\* published and whoever stopped it.
OfflineBetweenSessions == phase = "between" /\ Unlocked => mem[Online] = FALSE

\* A read by a reader that began since the memory was set up returns every part of
\* the last published frame and nothing else, and frames do not go back: the module
\* implements SharedFrame.
ReadsAreFrames == SF!Spec
=============================================================================
