---------------------------- MODULE MC_FrameQueue ----------------------------
(***************************************************************************)
(* The queues under names of their own, so that a module can speak of them *)
(* and of the assembler that feeds them.  The instance: two clients, of    *)
(* one process or of two, and masks that compete for the video engine.     *)
(***************************************************************************)
EXTENDS TLC

CONSTANTS Clients, Pids, Requests, Limit, MaxFrames, MaxTime

VARIABLES qOnline, qQueue, qCounter, qNow, qLease, qPid, qMask, qAlive, qPc, qSeen, qOut,
          qJoined, qHeld

Q == INSTANCE FrameQueue WITH
       online <- qOnline, queue <- qQueue, counter <- qCounter, now <- qNow, lease <- qLease,
       pid <- qPid, mask <- qMask, alive <- qAlive, pc <- qPc, seen <- qSeen, out <- qOut,
       joined <- qJoined, held <- qHeld

ASSUME QueueAssumption == Q!QueueConstants

\* Colour with depth; RGB HQ or RGB, whichever runs; and infrared, which takes the
\* engine from both.
MCRequests == {{"rgb", "depth"}, {"rgb", "hq"}, {"ir"}}

Symm == Permutations(Clients) \cup Permutations(Pids)

QueueSpec == Q!Spec

\* TimeOrder and NothingSkipped of the queues.
TimeOrder == Q!TimeOrder
NothingSkipped == Q!NothingSkipped
==============================================================================
