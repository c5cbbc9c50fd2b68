-------------------------------- MODULE Drain --------------------------------
(***************************************************************************)
(* What the shutdown of a Linux service promises about its client threads: *)
(* it stops admitting, waits until the last one has ended, and then, not   *)
(* before and not never, tears the process down.                           *)
(***************************************************************************)
EXTENDS FiniteSets, Naturals

CONSTANTS Clients, MaxClients

VARIABLES serving, closed, exited

vars == <<serving, closed, exited>>

Init == serving = {} /\ closed = FALSE /\ exited = FALSE

\* At most MaxClients are served at a time.
Admit(c) ==
  /\ ~closed
  /\ c \notin serving /\ Cardinality(serving) < MaxClients
  /\ serving' = serving \cup {c}
  /\ UNCHANGED <<closed, exited>>

Leave(c) ==
  /\ c \in serving
  /\ serving' = serving \ {c}
  /\ UNCHANGED <<closed, exited>>

Stop ==
  /\ ~closed
  /\ closed' = TRUE
  /\ UNCHANGED <<serving, exited>>

Exit ==
  /\ closed /\ serving = {} /\ ~exited
  /\ exited' = TRUE
  /\ UNCHANGED <<serving, closed>>

Next == Stop \/ Exit \/ \E c \in Clients : Admit(c) \/ Leave(c)

Spec == Init /\ [][Next]_vars

\* Clients end, and so does the process.
FairSpec == Spec /\ WF_vars(Exit) /\ \A c \in Clients : WF_vars(Leave(c))
=============================================================================
