----------------------------- MODULE SharedFrame -----------------------------
(***************************************************************************)
(* What the shared memory between the Windows CameraBridge and the readers *)
(* of its frames promises: a reader is given the last frame that was       *)
(* published, all of it, or nothing, and frames do not go back.  Only a    *)
(* reader that was copying while the bridge set the memory up anew may be  *)
(* given anything.                                                         *)
(***************************************************************************)
EXTENDS Naturals

CONSTANTS Readers, Parts, Sizes, Contents, NoFrame

Frames == [number : Nat, size : Sizes, content : Contents]

\* What a reader is given: a number, a size, the content of every part and whether
\* the sensor was online.
Pictures == [number : Nat, size : Sizes, part : [Parts -> Contents], online : BOOLEAN]

Picture(f, o) ==
  [number |-> f.number, size |-> f.size, part |-> [p \in Parts |-> f.content], online |-> o]

VARIABLES
  frame,   \* the last published frame
  online,
  fresh,   \* readers that have begun since the memory was set up
  out      \* what each reader was given last

vars == <<frame, online, fresh, out>>

Init ==
  /\ frame = NoFrame /\ online = FALSE /\ fresh = {}
  /\ out = [r \in Readers |-> NoFrame]

SetUp ==
  /\ frame' = NoFrame /\ online' = FALSE /\ fresh' = {}
  /\ UNCHANGED out

Publish ==
  /\ frame' \in Frames
  /\ frame # NoFrame => frame'.number > frame.number
  /\ online' = TRUE
  /\ UNCHANGED <<fresh, out>>

Offline ==
  /\ online' = FALSE
  /\ UNCHANGED <<frame, fresh, out>>

Begin(r) ==
  /\ fresh' = fresh \cup {r}
  /\ UNCHANGED <<frame, online, out>>

Give(r) ==
  /\ r \in fresh => frame # NoFrame /\ out'[r] = Picture(frame, online)
  /\ out'[r] \in Pictures
  /\ out' = [out EXCEPT ![r] = out'[r]]
  /\ UNCHANGED <<frame, online, fresh>>

Next == SetUp \/ Publish \/ Offline \/ \E r \in Readers : Begin(r) \/ Give(r)

Spec == Init /\ [][Next]_vars
=============================================================================
