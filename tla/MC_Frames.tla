------------------------------ MODULE MC_Frames ------------------------------
(***************************************************************************)
(* The frames of the Linux CameraBridge in one run: the assembler that     *)
(* makes them (and the one of Windows) and the queues they wait in.  Each  *)
(* is checked alone: a behaviour is one of the assembler or one of the     *)
(* queues, the other rests in an initial state.                            *)
(***************************************************************************)
EXTENDS FrameAssembler, MC_FrameQueue

VARIABLE part   \* "assembler" or "queue"

queueVars == <<qOnline, qQueue, qCounter, qNow, qLease, qPid, qMask, qAlive, qPc, qSeen, qOut,
               qJoined, qHeld>>

MCInit ==
    /\ part \in {"assembler", "queue"}
    /\ Init /\ Q!Init
    /\ part = "queue" => system = "linux" /\ first.seq = 0
    /\ part = "assembler" => \A c, d \in Clients : qPid[c] = qPid[d]

MCNext ==
    /\ UNCHANGED part
    /\ \/ part = "assembler" /\ Next /\ UNCHANGED queueVars
       \/ part = "queue" /\ Q!Next /\ UNCHANGED vars

MCVars == <<part, vars, queueVars>>
MCSpec == MCInit /\ [][MCNext]_MCVars
==============================================================================
