----------------------------- MODULE BridgeNodes -----------------------------
(***************************************************************************)
(* RunBridgeLoop of the Windows CameraBridge: the loop that makes a        *)
(* CameraNode for every sensor it enumerates, registers a virtual camera   *)
(* of Windows 11 for it, removes both when the sensor has been away for    *)
(* the reconnect grace, and publishes the device manifest.                 *)
(*                                                                         *)
(* A pass works on the snapshot it took of the bus, and with the time it   *)
(* took it at; the tool that registers a virtual camera can take 20 s, so  *)
(* any time may have gone by at the next scan.  The service can be stopped *)
(* and can crash at any step; cameras and manifest outlive the process.    *)
(***************************************************************************)
EXTENDS Naturals, FiniteSets

CONSTANTS
    Ids,        \* device ids: one for each USB location
    Paths,      \* paths the interface at a location can have
    None,
    Grace,      \* reconnectGrace, and the pause before a camera is tried again
    MaxEvents,  \* bound: changes of the bus, stops and crashes of the service
    MaxFaults   \* bound: calls of Windows that fail

\* Assumed of the constants, by the module that gives them values.
NodesConstants ==
    /\ None \notin Paths /\ None \notin Nat /\ Grace \in Nat \ {0}
    /\ MaxEvents \in Nat /\ MaxFaults \in Nat

VARIABLES
    bus,        \* id -> path of the interface that is there, or None
    cameras,    \* ids with a virtual camera registered with Windows
    manifest,   \* devices.tsv: id -> its row
    run,        \* g_run
    pc,         \* where RunBridgeLoop is
    desired,    \* the snapshot: id -> path
    nodes,      \* id -> CameraNode: the path it was made with, and m_online
    unseen,     \* id -> now - lastSeen, at most Grace; None without an entry
    missing,    \* id -> now - virtualCameraMissingSince, likewise
    pause,      \* id -> nextVirtualCameraAttempt - now, or None
    virtual,    \* virtualCameras: the cameras this pass has found
    todo,       \* cameras this pass has still to register or to remove
    absent,     \* history: age of the first of the last scans, all without the id
    spent       \* events and faults so far

world == <<bus, cameras, manifest>>
local == <<desired, nodes, unseen, missing, pause, virtual, todo, absent>>
vars == <<world, run, pc, local, spent>>

Ages == 0..Grace \cup {None}
NoNode == [path |-> None, online |-> FALSE]
NoRow == [state |-> "none", camera |-> FALSE]
Present == {i \in Ids : desired[i] # None}

TypeOK ==
    /\ bus \in [Ids -> Paths \cup {None}] /\ cameras \subseteq Ids
    /\ manifest \in [Ids -> [state : {"none", "Ready", "Booting", "Reconnecting"},
                             camera : BOOLEAN]]
    /\ run \in BOOLEAN
    /\ pc \in {"down", "scan", "nodes", "find", "install", "absent", "remove", "publish"}
    /\ desired \in [Ids -> Paths \cup {None}]
    /\ nodes \in [Ids -> [path : Paths \cup {None}, online : BOOLEAN]]
    /\ unseen \in [Ids -> Ages] /\ missing \in [Ids -> Ages] /\ pause \in [Ids -> Ages]
    /\ virtual \subseteq Ids /\ todo \subseteq Ids
    /\ absent \in [Ids -> Ages]
    /\ spent \in [events : 0..MaxEvents, faults : 0..MaxFaults]

Nothing == [i \in Ids |-> None]

\* The locals of RunBridgeLoop before its first pass.
Fresh ==
    /\ desired' = Nothing /\ nodes' = [i \in Ids |-> NoNode]
    /\ unseen' = Nothing /\ missing' = Nothing /\ pause' = Nothing /\ absent' = Nothing
    /\ virtual' = {} /\ todo' = {}

\* The machine was on before: cameras and a manifest may be left.
Init ==
    /\ bus \in [Ids -> Paths \cup {None}] /\ cameras \in SUBSET Ids
    /\ \E left \in SUBSET Ids :
         manifest = [i \in Ids |-> IF i \in left THEN [state |-> "Ready", camera |-> TRUE]
                                   ELSE NoRow]
    /\ run = FALSE /\ pc = "down"
    /\ desired = Nothing /\ nodes = [i \in Ids |-> NoNode]
    /\ unseen = Nothing /\ missing = Nothing /\ pause = Nothing /\ absent = Nothing
    /\ virtual = {} /\ todo = {}
    /\ spent = [events |-> 0, faults |-> 0]

Spend(what, most) == spent[what] < most /\ spent' = [spent EXCEPT ![what] = @ + 1]
Event == Spend("events", MaxEvents)
Fault == Spend("faults", MaxFaults)
Fine == UNCHANGED spent

-----------------------------------------------------------------------------
(* The bus, and the life of the service.                                   *)

\* A sensor is plugged in or out, or its device is made anew with another path.
Replug(i) ==
    /\ Event
    /\ \E p \in Paths \cup {None} : p # bus[i] /\ bus' = [bus EXCEPT ![i] = p]
    /\ UNCHANGED <<cameras, manifest, run, pc, local>>

\* ServiceMain; RunBridgeLoop begins with the manifest of no node.
Start ==
    /\ pc = "down" /\ Event
    /\ run' = TRUE /\ pc' = "scan"
    /\ \E written \in BOOLEAN :
         manifest' = IF written THEN [i \in Ids |-> NoRow] ELSE manifest
    /\ UNCHANGED <<bus, cameras, local>>

\* ServiceControl
Stop ==
    /\ run /\ Event
    /\ run' = FALSE
    /\ UNCHANGED <<world, pc, local>>

Crash ==
    /\ pc # "down" /\ Event
    /\ run' = FALSE /\ pc' = "down" /\ Fresh
    /\ UNCHANGED world

\* The end of RunBridgeLoop: nodes are stopped and the manifest is removed, and
\* nobody looks whether that worked.
End ==
    /\ pc = "scan" /\ ~run
    /\ pc' = "down" /\ Fresh
    /\ \/ manifest' = [i \in Ids |-> NoRow] /\ Fine
       \/ Fault /\ UNCHANGED manifest
    /\ UNCHANGED <<bus, cameras, run>>

-----------------------------------------------------------------------------
(* CameraNode::Loop of the node of a sensor.                               *)

\* camera.Open succeeds, after as many attempts as it takes.
NodeOpens(i) ==
    /\ run /\ nodes[i] # NoNode /\ ~nodes[i].online /\ nodes[i].path = bus[i]
    /\ nodes' = [nodes EXCEPT ![i].online = TRUE]
    /\ UNCHANGED <<world, run, pc, desired, unseen, missing, pause, virtual, todo, absent, spent>>

\* camera.Run returns: the interface is gone or the service stops; or the
\* transport fails.
NodeEnds(i) ==
    /\ nodes[i].online /\ ~(run /\ nodes[i].path = bus[i])
    /\ nodes' = [nodes EXCEPT ![i].online = FALSE]
    /\ UNCHANGED <<world, run, pc, desired, unseen, missing, pause, virtual, todo, absent, spent>>

NodeFails(i) ==
    /\ nodes[i].online /\ Fault
    /\ nodes' = [nodes EXCEPT ![i].online = FALSE]
    /\ UNCHANGED <<world, run, pc, desired, unseen, missing, pause, virtual, todo, absent>>

-----------------------------------------------------------------------------
(* A pass of the loop.                                                     *)

\* EnumerateCameraInterfaces, after a time of d.
Older(age, d) == IF age = None THEN None ELSE IF age + d < Grace THEN age + d ELSE Grace
Sooner(left, d) == IF left = None THEN None ELSE IF left > d THEN left - d ELSE 0

Scan ==
    /\ pc = "scan" /\ run
    /\ desired' = bus
    /\ \E d \in 1..Grace :
         /\ unseen' = [i \in Ids |-> IF bus[i] # None THEN 0 ELSE Older(unseen[i], d)]
         /\ missing' = [i \in Ids |-> IF bus[i] # None THEN None ELSE Older(missing[i], d)]
         /\ pause' = [i \in Ids |-> Sooner(pause[i], d)]
         /\ absent' = [i \in Ids |-> IF bus[i] # None THEN None
                                     ELSE IF absent[i] = None THEN 0 ELSE Older(absent[i], d)]
    /\ pc' = "nodes"
    /\ UNCHANGED <<world, run, nodes, virtual, todo, spent>>

Expired(i) == desired[i] = None /\ unseen[i] \in {None, Grace}

\* Mutant: a node is known by its id alone.
Mut_PathChanged(i) == FALSE
PathChanged(i) == desired[i] \notin {None, nodes[i].path}

\* Nodes that expired, or whose path is another one now, are stopped; then every
\* sensor without a node gets one, if it can be started.
Reconcile ==
    LET gone == {i \in Ids : nodes[i] # NoNode /\ (Expired(i) \/ PathChanged(i))}
        without == {i \in Present : nodes[i] = NoNode \/ i \in gone}
    IN  /\ pc = "nodes"
        /\ \E failing \in SUBSET without :
             /\ IF failing = {} THEN Fine ELSE Fault
             /\ nodes' = [i \in Ids |-> IF i \in without \ failing
                                        THEN [path |-> desired[i], online |-> FALSE]
                                        ELSE IF i \in gone \cup failing THEN NoNode ELSE nodes[i]]
        /\ unseen' = [i \in Ids |-> IF i \in gone /\ Expired(i) THEN None ELSE unseen[i]]
        /\ pause' = [i \in Ids |-> IF i \in gone /\ Expired(i) THEN None ELSE pause[i]]
        /\ pc' = "find"
        /\ UNCHANGED <<world, run, desired, missing, virtual, todo, absent>>

\* EnumerateVirtualCameraIds.  Cameras that are not there are tried, unless it
\* is too early after the last attempt.
Find ==
    /\ pc = "find"
    /\ virtual' = cameras
    /\ todo' = {i \in Present \ cameras : pause[i] \in {None, 0}}
    /\ pause' = [i \in Ids |-> IF i \in Present \cap cameras THEN None ELSE pause[i]]
    /\ pc' = "install"
    /\ UNCHANGED <<world, run, desired, nodes, unseen, missing, absent, spent>>

\* InstallVirtualCamera: the tool registers the camera; or it fails, or is
\* terminated after 20 s, and may have registered it.
Install(i) ==
    /\ pc = "install" /\ i \in todo
    /\ todo' = todo \ {i}
    /\ \/ /\ cameras' = cameras \cup {i} /\ Fine
          /\ pause' = [pause EXCEPT ![i] = None]
       \/ /\ cameras' \in {cameras, cameras \cup {i}} /\ Fault
          /\ pause' = [pause EXCEPT ![i] = Grace]
    /\ UNCHANGED <<bus, manifest, run, pc, desired, nodes, unseen, missing, virtual, absent>>

\* Mutant: removed at the second scan that misses the sensor.
Mut_Overdue(i) == missing[i] # None
Overdue(i) == missing[i] = Grace

\* Cameras whose sensor is missing, and of these the ones for long enough.
FindAbsent ==
    /\ pc = "install" /\ todo = {}
    /\ todo' = {i \in virtual \ Present : Overdue(i)}
    /\ missing' = [i \in Ids |-> IF i \in virtual \ Present /\ missing[i] = None THEN 0
                                 ELSE missing[i]]
    /\ pc' = "remove"
    /\ UNCHANGED <<world, run, desired, nodes, unseen, pause, virtual, absent, spent>>

\* RemoveVirtualCamera: the outcome is not looked at.
Remove(i) ==
    /\ pc = "remove" /\ i \in todo
    /\ todo' = todo \ {i}
    /\ missing' = [missing EXCEPT ![i] = None]
    /\ \/ cameras' = cameras \ {i} /\ Fine
       \/ Fault /\ UNCHANGED cameras
    /\ UNCHANGED <<bus, manifest, run, pc, desired, nodes, unseen, pause, virtual, absent>>

\* Ages of sensors that are back and of cameras that are gone are forgotten; the
\* cameras are enumerated again if the pass changed them.
Forget ==
    /\ pc = "remove" /\ todo = {}
    /\ missing' = [i \in Ids |-> IF i \in virtual \ Present THEN missing[i] ELSE None]
    /\ virtual' = cameras
    /\ pc' = "publish"
    /\ UNCHANGED <<world, run, desired, nodes, unseen, pause, todo, absent, spent>>

\* WriteDeviceManifest: written beside the old one and renamed over it, or not.
Row(i) ==
    IF nodes[i] = NoNode THEN NoRow
    ELSE [camera |-> i \in virtual,
          state |-> IF i \notin Present THEN "Reconnecting"
                    ELSE IF nodes[i].online THEN "Ready" ELSE "Booting"]

Publish ==
    /\ pc = "publish"
    /\ \/ manifest' = [i \in Ids |-> Row(i)] /\ Fine
       \/ Fault /\ UNCHANGED manifest
    /\ pc' = "scan"
    /\ virtual' = {}
    /\ UNCHANGED <<bus, cameras, run, desired, nodes, unseen, missing, pause, todo, absent>>

Loop ==
    \/ Scan \/ Reconcile \/ Find \/ FindAbsent \/ Forget \/ Publish \/ End
    \/ \E i \in Ids : Install(i) \/ Remove(i)

Next ==
    \/ Start \/ Stop \/ Crash \/ Loop
    \/ \E i \in Ids : Replug(i) \/ NodeOpens(i) \/ NodeEnds(i) \/ NodeFails(i)

\* The loop runs, the tool ends or is ended; a sensor that is there is opened by
\* its node in the end, and one that is gone is noticed.
Fairness ==
    /\ WF_vars(Loop)
    /\ \A i \in Ids : WF_vars(NodeOpens(i)) /\ WF_vars(NodeEnds(i))

Spec == Init /\ [][Next]_vars /\ Fairness

-----------------------------------------------------------------------------
(* Properties.                                                             *)

\* "preserves that logical instance during the reconnect grace window": a
\* virtual camera is removed only by a process whose scans have all missed its
\* sensor over a whole grace, however long its passes take and whatever happened
\* before it was started (RunBridgeLoop).
GraceIsKept == [][\A i \in cameras \ cameras' : absent[i] = Grace]_vars

\* What the loop works towards.
Settled ==
    \A i \in Ids :
        /\ nodes[i] = IF bus[i] = None THEN NoNode ELSE [path |-> bus[i], online |-> TRUE]
        /\ i \in cameras <=> bus[i] # None
        /\ manifest[i] = IF bus[i] = None THEN NoRow ELSE [state |-> "Ready", camera |-> TRUE]

\* Once the bus is left alone and the service is neither stopped nor crashes,
\* nodes, virtual cameras and manifest come to agree with the sensors and stay
\* so, over installations that half succeeded, nodes that could not be started,
\* manifests that were not written and what an earlier process left
\* (RunBridgeLoop).
Converges == <>[](run /\ pc # "down") => <>[]Settled
=============================================================================
