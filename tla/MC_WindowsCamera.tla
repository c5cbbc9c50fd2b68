-------------------------- MODULE MC_WindowsCamera --------------------------
(***************************************************************************)
(* The parts of the Windows CameraBridge in one run: the scanner port, the *)
(* video and depth engines, a conversion worker, and the loop that makes   *)
(* the nodes.  Each is checked alone: a behaviour is one of the parts, the *)
(* others rest in an initial state.                                        *)
(***************************************************************************)
EXTENDS ScannerPort

CONSTANTS
    Demands, MaxChanges, MaxFaults, Late,       \* VideoEngine
    WorkerFrames,                               \* ConversionWorker
    Ids, Paths, None, Grace, MaxEvents, NodeFaults  \* BridgeNodes

VARIABLES
    part,   \* "port", "engine", "worker" or "nodes"
    eWant, eHqBad, eRun, eSpent, eStreaming, eModeRegs, eProjector, eFills, eHqWorks,
    eSessionRun, eProjectorOn, eInherited, eVpc, eActiveMode, eNext, eVideoRunning, eReads,
    eCompleted, eDpc, eSaw, eDepthReads,
    wCaptured, wSubmitted, wRawA, wRawB, wWriteA, wPendingA, wHasPending, wStopping, wAwake,
    wWork, wWantsRgb, wOut, wPc,
    nBus, nCameras, nManifest, nRun, nPc, nDesired, nNodes, nUnseen, nMissing, nPause, nVirtual,
    nTodo, nAbsent, nSpent

engineVars == <<eWant, eHqBad, eRun, eSpent, eStreaming, eModeRegs, eProjector, eFills, eHqWorks,
                eSessionRun, eProjectorOn, eInherited, eVpc, eActiveMode, eNext, eVideoRunning,
                eReads, eCompleted, eDpc, eSaw, eDepthReads>>
workerVars == <<wCaptured, wSubmitted, wRawA, wRawB, wWriteA, wPendingA, wHasPending, wStopping,
                wAwake, wWork, wWantsRgb, wOut, wPc>>
nodeVars == <<nBus, nCameras, nManifest, nRun, nPc, nDesired, nNodes, nUnseen, nMissing, nPause,
              nVirtual, nTodo, nAbsent, nSpent>>

E == INSTANCE VideoEngine WITH
       want <- eWant, hqBad <- eHqBad, run <- eRun, spent <- eSpent, streaming <- eStreaming,
       modeRegs <- eModeRegs, projector <- eProjector, fills <- eFills, hqWorks <- eHqWorks,
       sessionRun <- eSessionRun, projectorOn <- eProjectorOn, inherited <- eInherited,
       vpc <- eVpc, activeMode <- eActiveMode, next <- eNext, videoRunning <- eVideoRunning,
       reads <- eReads, completed <- eCompleted, dpc <- eDpc, saw <- eSaw,
       depthReads <- eDepthReads

W == INSTANCE ConversionWorker WITH
       Mode <- "hq", MaxFrames <- WorkerFrames, captured <- wCaptured, submitted <- wSubmitted,
       rawA <- wRawA, rawB <- wRawB, m_writeA <- wWriteA, m_pendingA <- wPendingA,
       m_hasPending <- wHasPending, m_stopping <- wStopping, awake <- wAwake, work <- wWork,
       wantsRgb <- wWantsRgb, out <- wOut, pc <- wPc

N == INSTANCE BridgeNodes WITH
       MaxFaults <- NodeFaults, bus <- nBus, cameras <- nCameras, manifest <- nManifest,
       run <- nRun, pc <- nPc, desired <- nDesired, nodes <- nNodes, unseen <- nUnseen,
       missing <- nMissing, pause <- nPause, virtual <- nVirtual, todo <- nTodo,
       absent <- nAbsent, spent <- nSpent

ASSUME PartsAssumption == E!EngineConstants /\ W!WorkerConstants /\ N!NodesConstants

MCMasks == {{"hq", "rgb"}, {"ir"}}
MCDemands == {{}, {"ir"}, {"hq", "depth"}, {"lease", "setting"}, {"rgb"}}

MCInit ==
    /\ part \in {"port", "engine", "worker", "nodes"}
    /\ Init /\ E!Init /\ W!Init /\ N!Init
    /\ part # "engine" => eHqWorks
    /\ part # "worker" => wWantsRgb
    /\ part # "nodes" => /\ nCameras = {} /\ \A i \in Ids : nBus[i] = None
                         /\ \A i \in Ids : nManifest[i] = N!NoRow

Port   == part = "port" /\ Next /\ UNCHANGED <<part, engineVars, workerVars, nodeVars>>
Engine == part = "engine" /\ E!Next /\ UNCHANGED <<part, vars, workerVars, nodeVars>>
Worker == part = "worker" /\ W!Next /\ UNCHANGED <<part, vars, engineVars, nodeVars>>
Nodes  == part = "nodes" /\ N!Next /\ UNCHANGED <<part, vars, engineVars, workerVars>>

MCNext == Port \/ Engine \/ Worker \/ Nodes
MCVars == <<part, vars, engineVars, workerVars, nodeVars>>

\* The fairness of each part, while it is the one that runs.
Rest == UNCHANGED <<part, vars, workerVars>>
MCFairness ==
    /\ WF_MCVars(part = "engine" /\ E!VideoThread /\ Rest /\ UNCHANGED nodeVars)
    /\ WF_MCVars(part = "engine" /\ E!DepthThread /\ Rest /\ UNCHANGED nodeVars)
    /\ WF_MCVars(part = "nodes" /\ N!Loop /\ Rest /\ UNCHANGED engineVars)
    /\ \A i \in Ids :
         /\ WF_MCVars(part = "nodes" /\ N!NodeOpens(i) /\ Rest /\ UNCHANGED engineVars)
         /\ WF_MCVars(part = "nodes" /\ N!NodeEnds(i) /\ Rest /\ UNCHANGED engineVars)

MCSpec == MCInit /\ [][MCNext]_MCVars /\ MCFairness

\* Properties of the engines, which says nothing of the other parts.
FramesOfOneMode == E!FramesOfOneMode
ModeSetWhileStopped == E!ModeSetWhileStopped
EnginesFollowDemand == part = "engine" => E!EnginesFollowDemand

\* The property of the worker.
TakesNewest == W!TakesNewest

\* Properties of the loop.
GraceIsKept == N!GraceIsKept
Converges == part = "nodes" => N!Converges
=============================================================================
