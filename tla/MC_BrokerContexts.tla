------------------------- MODULE MC_BrokerContexts -------------------------
(***************************************************************************)
(* Two instances of the Windows Broker in one run: one sensor with every   *)
(* thread, and two sensors with the SDK thread and one connection that     *)
(* sends tilts and LED commands, of a Broker that is not stopped.          *)
(***************************************************************************)
EXTENDS BrokerContexts, TLC

VARIABLE sensors   \* of the instance

Unused(c) == pc[c] = "idle" /\ command[c] = "Ping" /\ target[c] = None /\ result[c] = "ok"

\* The other sensor is never there, or the other connection never made.
Instance ==
    \/ /\ Cardinality(sensors) = 1 /\ published \cup control \subseteq sensors
       /\ \A k \in Kinects \ sensors : kind[k] = "classic"
       /\ \A t \in Threads : target[t] \in sensors \cup {None}
    \/ /\ sensors = Kinects /\ gRun
       /\ Cardinality({c \in Clients : ~Unused(c)}) <= 1
       /\ \A c \in Clients : Unused(c) \/ command[c] \in {"Tilt", "Led"}

MCInit == sensors \in SUBSET Kinects /\ Init /\ Instance
MCNext == Next /\ UNCHANGED sensors /\ Instance'
MCSpec == MCInit /\ [][MCNext]_<<vars, sensors>>

Symm == Permutations(Clients) \cup Permutations(Kinects)
=============================================================================
