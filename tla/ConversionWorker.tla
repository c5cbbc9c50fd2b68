-------------------------- MODULE ConversionWorker --------------------------
(***************************************************************************)
(* FrameConversionWorker of the Windows CameraBridge: the USB thread hands *)
(* over complete frames in two slots, the thread of the worker converts    *)
(* the newest and publishes it to the scanner port and the virtual camera. *)
(*                                                                         *)
(* A frame is its number; its tick, motion sample and flags go with it.    *)
(***************************************************************************)
EXTENDS Naturals

CONSTANTS
    Mode,      \* "rgb", "hq", "ir" or "depth"
    MaxFrames  \* bound: frames that the sensor completes

\* Assumed of the constants, by the module that gives them values.
WorkerConstants == Mode \in {"rgb", "hq", "ir", "depth"} /\ MaxFrames \in Nat

VARIABLES
    captured,   \* frames completed by the sensor
    submitted,  \* the newest frame handed over
    rawA, rawB, \* the slots
    m_writeA, m_pendingA, m_hasPending, m_stopping,
    awake,      \* the worker has been notified since it looked
    work,       \* m_work
    wantsRgb,   \* a client of the scanner port reads the VGA stream
    out,        \* destination -> the frame it got last
    pc          \* "look", "sleep", "scanner", "camera", "vga", "ended"

slots == <<rawA, rawB, m_writeA, m_pendingA, m_hasPending>>
vars == <<captured, submitted, slots, m_stopping, awake, work, wantsRgb, out, pc>>

Destinations == {"scanner", "camera", "vga"}
Frames == 0..MaxFrames

TypeOK ==
    /\ captured \in Frames /\ submitted \in Frames /\ work \in Frames
    /\ rawA \in Frames /\ rawB \in Frames
    /\ m_writeA \in BOOLEAN /\ m_pendingA \in BOOLEAN /\ m_hasPending \in BOOLEAN
    /\ m_stopping \in BOOLEAN /\ awake \in BOOLEAN /\ wantsRgb \in BOOLEAN
    /\ out \in [Destinations -> Frames]
    /\ pc \in {"look", "sleep", "scanner", "camera", "vga", "ended"}

Init ==
    /\ captured = 0 /\ submitted = 0 /\ rawA = 0 /\ rawB = 0
    /\ m_writeA = TRUE /\ m_pendingA = TRUE /\ m_hasPending = FALSE
    /\ m_stopping = FALSE /\ awake = FALSE /\ work = 0
    /\ wantsRgb \in BOOLEAN /\ out = [d \in Destinations |-> 0] /\ pc = "look"

-----------------------------------------------------------------------------
(* The USB thread.                                                         *)

\* The sensor completes a frame; StreamVideo may have no reader for it.
Capture == /\ captured < MaxFrames
           /\ captured' = captured + 1
           /\ UNCHANGED <<submitted, slots, m_stopping, awake, work, wantsRgb, out, pc>>

\* Mutant: the slot is named after the next one has been chosen.
Mut_Submit ==
    /\ submitted < captured
    /\ submitted' = captured
    /\ IF m_writeA THEN rawA' = captured /\ UNCHANGED rawB
       ELSE rawB' = captured /\ UNCHANGED rawA
    /\ m_writeA' = ~m_writeA /\ m_pendingA' = ~m_writeA
    /\ m_hasPending' = TRUE /\ awake' = TRUE
    /\ UNCHANGED <<captured, m_stopping, work, wantsRgb, out, pc>>

\* The frame that waits in the other slot is given up.
Submit ==
    /\ submitted < captured
    /\ submitted' = captured
    /\ IF m_writeA THEN rawA' = captured /\ UNCHANGED rawB
       ELSE rawB' = captured /\ UNCHANGED rawA
    /\ m_pendingA' = m_writeA /\ m_writeA' = ~m_writeA
    /\ m_hasPending' = TRUE /\ awake' = TRUE
    /\ UNCHANGED <<captured, m_stopping, work, wantsRgb, out, pc>>

\* The first half of Stop; the other half waits for the thread to end.
Stop ==
    /\ ~m_stopping
    /\ m_stopping' = TRUE /\ awake' = TRUE
    /\ UNCHANGED <<captured, submitted, slots, work, wantsRgb, out, pc>>

\* Wants(StreamMode::Rgb) changes with the clients.
Reader ==
    /\ wantsRgb' = ~wantsRgb
    /\ UNCHANGED <<captured, submitted, slots, m_stopping, awake, work, out, pc>>

-----------------------------------------------------------------------------
(* The thread of the worker.                                               *)

\* m_cv.wait: the predicate is looked at, and the thread sleeps if it is false.
Sleep ==
    /\ pc = "look" /\ ~m_stopping /\ ~m_hasPending
    /\ pc' = "sleep" /\ awake' = FALSE
    /\ UNCHANGED <<captured, submitted, slots, m_stopping, work, wantsRgb, out>>

Wake ==
    /\ pc = "sleep" /\ awake
    /\ pc' = "look"
    /\ UNCHANGED <<captured, submitted, slots, m_stopping, awake, work, wantsRgb, out>>

Take ==
    /\ pc = "look" /\ ~m_stopping /\ m_hasPending
    /\ work' = IF m_pendingA THEN rawA ELSE rawB
    /\ m_hasPending' = FALSE
    /\ pc' = "scanner"
    /\ UNCHANGED <<captured, submitted, rawA, rawB, m_writeA, m_pendingA, m_stopping, awake,
                   wantsRgb, out>>

\* Publishes m_work to a destination: the scanner port first, the virtual camera
\* next, and for HQ a VGA picture if the port has a reader for it.
To(destination, next) ==
    /\ pc = destination
    /\ out' = [out EXCEPT ![destination] = work]
    /\ pc' = next
    /\ UNCHANGED <<captured, submitted, slots, m_stopping, awake, work, wantsRgb>>

PublishScanner == To("scanner", IF Mode \in {"rgb", "hq"} THEN "camera" ELSE "look")
PublishCamera == To("camera", IF Mode = "hq" /\ wantsRgb THEN "vga" ELSE "look")
PublishVga == To("vga", "look")

End ==
    /\ pc = "look" /\ m_stopping
    /\ pc' = "ended"
    /\ UNCHANGED <<captured, submitted, slots, m_stopping, awake, work, wantsRgb, out>>

Worker == Sleep \/ Wake \/ Take \/ PublishScanner \/ PublishCamera \/ PublishVga \/ End

Next == Capture \/ Submit \/ Stop \/ Reader \/ Worker

Spec == Init /\ [][Next]_vars

-----------------------------------------------------------------------------
(* The property.                                                           *)

\* "Latest-frame semantics": whatever the worker takes is the newest frame handed
\* over, complete, and no frame is taken twice (FrameConversionWorker::Run).
TakesNewest == [][work' # work \/ (pc = "look" /\ pc' = "scanner")
                    => work' = submitted /\ work' > work]_vars
=============================================================================
