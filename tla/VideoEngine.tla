----------------------------- MODULE VideoEngine -----------------------------
(***************************************************************************)
(* CameraUsbTransport of the Windows CameraBridge and the thread of the    *)
(* CameraNode that opens and runs it.  In a session two threads drive one  *)
(* sensor: StreamVideo the video engine behind endpoint 0x81, DepthLoop    *)
(* the depth engine behind 0x82.  They share the control channel, whose    *)
(* lock makes a command (or a group of register writes) one step, and the  *)
(* projector, which either switches after a look at the demand that the    *)
(* other thread, or a client, may have outdated by then.                   *)
(*                                                                         *)
(* The sensor is outside the repository.  It streams in the mode its       *)
(* registers had when register 0x05 was last set, into the reads that are  *)
(* queued.  A command can fail without having reached it, or, with Late,   *)
(* after it has: the reply does not come in time.                          *)
(***************************************************************************)
EXTENDS Naturals, FiniteSets

CONSTANTS
    Demands,    \* what clients may want at a time
    MaxChanges, \* bound: changes of the demand
    MaxFaults,  \* bound: commands and transfers that fail
    Late        \* a failed command may have been carried out

Modes == {"rgb", "hq", "ir"}

\* "lease" is a virtual or IP camera, "setting" the driver setting VirtualRgbHq.
Wants == Modes \cup {"depth", "lease", "setting"}

\* Assumed of the constants, by the module that gives them values.
EngineConstants ==
    /\ Demands \subseteq SUBSET Wants
    /\ MaxChanges \in Nat /\ MaxFaults \in Nat /\ Late \in BOOLEAN

VARIABLES
    want,       \* what clients want
    hqBad,      \* m_rgbHqUnavailable
    run,        \* g_run and m_run
    spent,      \* changes and faults so far
    \* the sensor
    streaming,  \* the mode the video engine runs in, or "off"
    modeRegs,   \* the mode its registers are set to, or "mixed"
    projector,  \* register 0x06
    fills,      \* modes of the data in the queued video reads
    hqWorks,    \* it can deliver RGB HQ
    \* CameraUsbTransport
    sessionRun, \* m_sessionRun
    projectorOn, \* m_projectorOn
    inherited,  \* the session began with a video engine that was running
    \* StreamVideo: its place, activeMode, the mode it is about to start,
    \* videoRunning, reads queued, and whether the mode has completed a frame
    vpc, activeMode, next, videoRunning, reads, completed,
    \* DepthLoop: its place, what it saw of the demand, reads queued on 0x82
    dpc, saw, depthReads

sensor == <<streaming, modeRegs, projector, fills, hqWorks>>
demand == <<want, hqBad, run>>
transport == <<sessionRun, projectorOn, inherited>>
video == <<vpc, activeMode, next, videoRunning, reads, completed>>
depth == <<dpc, saw, depthReads>>
vars == <<demand, spent, sensor, transport, video, depth>>

VideoPlaces == {"closed", "open", "loop", "stop", "cancel", "light", "configure",
                "queue", "start", "end", "finish", "join", "dark", "halt", "close"}
DepthPlaces == {"off", "loop", "dark", "light", "configure", "queue", "emit", "stream",
                "follow", "end", "finish", "cancel", "restore", "leave"}

TypeOK ==
    /\ want \in Demands \cup {D \ {"hq"} : D \in Demands}
    /\ hqBad \in BOOLEAN /\ run \in BOOLEAN
    /\ spent \in [changes : 0..MaxChanges, faults : 0..MaxFaults]
    /\ streaming \in Modes \cup {"off", "mixed"}
    /\ modeRegs \in Modes \cup {"mixed"}
    /\ projector \in BOOLEAN /\ fills \subseteq Modes \cup {"mixed"}
    /\ hqWorks \in BOOLEAN /\ sessionRun \in BOOLEAN
    /\ projectorOn \in BOOLEAN /\ inherited \in BOOLEAN
    /\ vpc \in VideoPlaces /\ activeMode \in Modes /\ next \in Modes \cup {"none"}
    /\ videoRunning \in BOOLEAN /\ reads \in BOOLEAN /\ completed \in BOOLEAN
    /\ dpc \in DepthPlaces /\ saw \in BOOLEAN /\ depthReads \in BOOLEAN

Init ==
    /\ want = {} /\ hqBad = FALSE /\ run = TRUE
    /\ spent = [changes |-> 0, faults |-> 0]
    /\ streaming = "off" /\ modeRegs = "rgb" /\ projector = FALSE /\ fills = {}
    /\ hqWorks \in BOOLEAN
    /\ sessionRun = FALSE /\ projectorOn = FALSE /\ inherited = FALSE
    /\ vpc = "closed" /\ activeMode = "rgb" /\ next = "none"
    /\ videoRunning = FALSE /\ reads = FALSE /\ completed = FALSE
    /\ dpc = "off" /\ saw = FALSE /\ depthReads = FALSE

-----------------------------------------------------------------------------
(* The demand.                                                             *)

VideoDemand == want \cap {"rgb", "hq", "ir", "lease"} # {}
NeedsProjector == want \cap {"ir", "depth"} # {}

DemandedMode ==
    IF "ir" \in want THEN "ir"
    ELSE IF "hq" \in want \/ ("setting" \in want /\ ~hqBad) THEN "hq" ELSE "rgb"

\* Clients subscribe and leave.  A client that looked before the fallback may
\* still come to want RGB HQ after it.
Change ==
    /\ spent.changes < MaxChanges
    /\ \E D \in Demands : D # want /\ want' = D
    /\ spent' = [spent EXCEPT !.changes = @ + 1]
    /\ UNCHANGED <<hqBad, run, sensor, transport, video, depth>>

\* CameraNode::Stop, or the service stops.
Stop ==
    /\ run /\ run' = FALSE
    /\ UNCHANGED <<want, hqBad, spent, sensor, transport, video, depth>>

SessionRunning == run /\ sessionRun

\* A transfer fails although the sensor is there.
Fault == spent.faults < MaxFaults /\ spent' = [spent EXCEPT !.faults = @ + 1]

-----------------------------------------------------------------------------
(* Commands: ok is what their caller is told.                              *)

\* Mutant: the state of the software is set before the register.
Mut_SetProjector(on, ok) ==
    IF projectorOn = on
    THEN ok /\ UNCHANGED <<projector, projectorOn, spent>>
    ELSE /\ projectorOn' = on
         /\ \/ ok /\ projector' = on /\ UNCHANGED spent
            \/ ~ok /\ Fault /\ UNCHANGED projector
            \/ ~ok /\ Late /\ Fault /\ projector' = on

\* SetProjector writes register 0x06 when it is not what the software thinks.
SetProjector(on, ok) ==
    IF projectorOn = on
    THEN ok /\ UNCHANGED <<projector, projectorOn, spent>>
    ELSE \/ ok /\ projector' = on /\ projectorOn' = on /\ UNCHANGED spent
         \/ ~ok /\ Fault /\ UNCHANGED <<projector, projectorOn>>
         \/ ~ok /\ Late /\ Fault /\ projector' = on /\ UNCHANGED projectorOn

\* StopVideoCapture: register 0x05 is cleared.
StopVideoCapture(ok) ==
    \/ ok /\ streaming' = "off" /\ UNCHANGED spent
    \/ ~ok /\ Fault /\ UNCHANGED streaming
    \/ ~ok /\ Late /\ Fault /\ streaming' = "off"

\* ConfigureVideoModeRegisters: some of the registers when it fails.
ConfigureVideoModeRegisters(mode, ok) ==
    \/ ok /\ modeRegs' = mode /\ UNCHANGED spent
    \/ ~ok /\ Fault /\ modeRegs' \in {modeRegs, "mixed"}

\* StartVideoCapture: register 0x05, then the flip register of the mode.
StartVideoCapture(ok) ==
    \/ ok /\ streaming' = modeRegs /\ UNCHANGED spent
    \/ ~ok /\ Fault /\ streaming' \in {streaming, modeRegs}

\* ConfigureDepthPath begins with the depth engine off.
ConfigureDepthPath(ok) ==
    \/ ok /\ projector' = FALSE /\ projectorOn' = FALSE /\ UNCHANGED spent
    \/ ~ok /\ Fault /\ UNCHANGED <<projector, projectorOn>>
    \/ ~ok /\ Fault /\ projector' = FALSE /\ projectorOn' = FALSE

-----------------------------------------------------------------------------
(* CameraNode::Loop and Run.                                               *)

\* The sensor is opened and its endpoints are found, or it is tried again later.
Open ==
    /\ vpc = "closed" /\ run
    /\ \/ vpc' = "open" /\ UNCHANGED spent
       \/ Fault /\ UNCHANGED vpc
    /\ UNCHANGED <<demand, sensor, transport, activeMode, next, videoRunning,
                   reads, completed, depth>>

\* Run: the workers, the depth thread, then StreamVideo on this one.
StartSession ==
    /\ vpc = "open"
    /\ sessionRun' = TRUE /\ inherited' = (streaming # "off")
    /\ vpc' = "loop" /\ dpc' = "loop"
    /\ activeMode' = DemandedMode /\ next' = "none"
    /\ videoRunning' = FALSE /\ reads' = FALSE /\ completed' = FALSE
    /\ saw' = FALSE /\ depthReads' = FALSE
    /\ UNCHANGED <<demand, spent, sensor, projectorOn>>

Goto(place) == vpc' = place

\* StreamVideo has returned: the depth thread is told and waited for.
TellDepth ==
    /\ vpc = "finish"
    /\ sessionRun' = FALSE /\ Goto("join")
    /\ UNCHANGED <<demand, spent, sensor, projectorOn, inherited, activeMode, next,
                   videoRunning, reads, completed, depth>>

Join ==
    /\ vpc = "join" /\ dpc = "off"
    /\ Goto("dark")
    /\ UNCHANGED <<demand, spent, sensor, transport, activeMode, next, videoRunning, reads,
                   completed, depth>>

\* Then the projector and the video engine are stopped again; nobody looks at
\* the results.
FinalDark ==
    /\ vpc = "dark"
    /\ \E ok \in BOOLEAN : SetProjector(FALSE, ok)
    /\ Goto("halt")
    /\ UNCHANGED <<demand, streaming, modeRegs, fills, hqWorks, sessionRun, inherited,
                   activeMode, next, videoRunning, reads, completed, depth>>

FinalHalt ==
    /\ vpc = "halt"
    /\ \E ok \in BOOLEAN : StopVideoCapture(ok)
    /\ Goto("close")
    /\ UNCHANGED <<demand, modeRegs, projector, fills, hqWorks, transport,
                   activeMode, next, videoRunning, reads, completed, depth>>

\* Close darkens the projector once more and forgets its state.
Close ==
    /\ vpc = "close"
    /\ \E ok \in BOOLEAN :
         IF projectorOn
         THEN \/ ok /\ projector' = FALSE /\ UNCHANGED spent
              \/ ~ok /\ Fault /\ projector' \in (IF Late THEN {projector, FALSE} ELSE {projector})
         ELSE ok /\ UNCHANGED <<projector, spent>>
    /\ projectorOn' = FALSE
    /\ Goto("closed")
    /\ UNCHANGED <<demand, streaming, modeRegs, fills, hqWorks, sessionRun, inherited,
                   activeMode, next, videoRunning, reads, completed, depth>>

-----------------------------------------------------------------------------
(* StreamVideo.                                                            *)

\* The video engine is to run in the mode m, or in none.
Begin(place, m) == Goto(place) /\ next' = m

\* Nobody wants video: the engine is stopped, its reads are cancelled.
Idle ==
    /\ vpc = "loop" /\ SessionRunning /\ ~VideoDemand /\ videoRunning
    /\ Begin("stop", "none")
    /\ UNCHANGED <<demand, spent, sensor, transport, activeMode, videoRunning, reads,
                   completed, depth>>

\* Somebody does: the engine starts in the mode that is wanted now.
Wake ==
    /\ vpc = "loop" /\ SessionRunning /\ VideoDemand /\ ~videoRunning
    /\ Begin(IF DemandedMode = "ir" THEN "light" ELSE "configure", DemandedMode)
    /\ UNCHANGED <<demand, spent, sensor, transport, activeMode, videoRunning, reads,
                   completed, depth>>

\* Mutant: the engine goes on while its mode is changed.
Mut_Switch ==
    /\ vpc = "loop" /\ SessionRunning /\ VideoDemand /\ videoRunning
    /\ DemandedMode # activeMode
    /\ Begin("cancel", DemandedMode)
    /\ UNCHANGED <<demand, spent, sensor, transport, activeMode, videoRunning, reads,
                   completed, depth>>

\* Another mode is wanted than the one that runs.
Switch ==
    /\ vpc = "loop" /\ SessionRunning /\ VideoDemand /\ videoRunning
    /\ DemandedMode # activeMode
    /\ Begin("stop", DemandedMode)
    /\ UNCHANGED <<demand, spent, sensor, transport, activeMode, videoRunning, reads,
                   completed, depth>>

\* The sensor sends data of the mode it is in.
Deliver ==
    /\ streaming # "off" /\ reads /\ streaming \notin fills
    /\ streaming = "hq" => hqWorks
    /\ fills' = fills \cup {streaming}
    /\ UNCHANGED <<demand, spent, streaming, modeRegs, projector, hqWorks, transport, video,
                   depth>>

\* Reads have completed: their packets are assembled and the reads queued again.
Frame ==
    /\ vpc = "loop" /\ SessionRunning /\ VideoDemand /\ videoRunning /\ fills # {}
    /\ fills' = {} /\ completed' = TRUE
    /\ UNCHANGED <<demand, spent, streaming, modeRegs, projector, hqWorks, transport,
                   vpc, activeMode, next, videoRunning, reads, depth>>

\* No frame for the time of the mode: RGB HQ that never had one is given up,
\* in place, and its subscribers are released.
HqFallback ==
    /\ vpc = "loop" /\ SessionRunning /\ VideoDemand /\ videoRunning
    /\ activeMode = "hq" /\ ~completed /\ ~hqWorks
    /\ hqBad' = TRUE /\ want' = want \ {"hq"}
    /\ UNCHANGED <<run, spent, sensor, transport, video, depth>>

\* Any other stream that stalls, or a transfer that fails, ends the session.
VideoFault ==
    /\ vpc = "loop" /\ SessionRunning /\ VideoDemand /\ videoRunning
    /\ Fault /\ Goto("end")
    /\ UNCHANGED <<demand, sensor, transport, activeMode, next, videoRunning, reads,
                   completed, depth>>

VideoLeaves ==
    /\ vpc = "loop" /\ ~SessionRunning
    /\ Goto("end")
    /\ UNCHANGED <<demand, spent, sensor, transport, activeMode, next, videoRunning, reads,
                   completed, depth>>

StopEngine ==
    /\ vpc = "stop"
    /\ \E ok \in BOOLEAN : StopVideoCapture(ok) /\ Goto(IF ok THEN "cancel" ELSE "end")
    /\ UNCHANGED <<demand, modeRegs, projector, fills, hqWorks, transport, activeMode, next,
                   videoRunning, reads, completed, depth>>

\* Mutant: the reads stay queued over a change of mode.
Mut_CancelReads ==
    /\ vpc = "cancel"
    /\ IF next = "none" THEN videoRunning' = FALSE /\ Goto("loop")
       ELSE Goto("light") /\ UNCHANGED videoRunning
    /\ UNCHANGED <<demand, spent, sensor, transport, reads,
                   activeMode, next, completed, depth>>

\* cancelVideoReads drops what the reads hold, or fails.
CancelReads ==
    /\ vpc = "cancel"
    /\ \/ /\ reads' = FALSE /\ fills' = {} /\ UNCHANGED spent
          /\ IF next = "none" THEN videoRunning' = FALSE /\ Goto("loop")
             ELSE Goto("light") /\ UNCHANGED videoRunning
       \/ Fault /\ Goto("end") /\ UNCHANGED <<reads, fills, videoRunning>>
    /\ UNCHANGED <<demand, streaming, modeRegs, projector, hqWorks, transport,
                   activeMode, next, completed, depth>>

\* IR needs the projector; another mode leaves it to depth.
Light ==
    /\ vpc = "light"
    /\ IF next # "ir" /\ NeedsProjector
       THEN Goto("configure") /\ UNCHANGED <<projector, projectorOn, spent>>
       ELSE \E ok \in BOOLEAN :
              SetProjector(next = "ir", ok) /\ Goto(IF ok THEN "configure" ELSE "end")
    /\ UNCHANGED <<demand, streaming, modeRegs, fills, hqWorks, sessionRun, inherited,
                   activeMode, next, videoRunning, reads, completed, depth>>

Configure ==
    /\ vpc = "configure"
    /\ \E ok \in BOOLEAN :
         ConfigureVideoModeRegisters(next, ok) /\ Goto(IF ok THEN "queue" ELSE "end")
    /\ UNCHANGED <<demand, streaming, projector, fills, hqWorks, transport, activeMode, next,
                   videoRunning, reads, completed, depth>>

\* queueAllVideoReads: some are queued when it fails.
QueueReads ==
    /\ vpc = "queue"
    /\ reads' = TRUE
    /\ \/ Goto("start") /\ UNCHANGED spent
       \/ Fault /\ Goto("end")
    /\ UNCHANGED <<demand, sensor, transport, activeMode, next, videoRunning, completed, depth>>

StartEngine ==
    /\ vpc = "start"
    /\ \E ok \in BOOLEAN :
         /\ StartVideoCapture(ok)
         /\ IF ok THEN Goto("loop") /\ activeMode' = next /\ videoRunning' = TRUE /\ completed' = FALSE
            ELSE Goto("end") /\ UNCHANGED <<activeMode, videoRunning, completed>>
    /\ UNCHANGED <<demand, modeRegs, projector, fills, hqWorks, transport, next, reads, depth>>

\* The end of StreamVideo: the engine is stopped, then the reads are cancelled
\* and the buffer is released.
EndVideo ==
    /\ vpc = "end"
    /\ \E ok \in BOOLEAN : StopVideoCapture(ok)
    /\ reads' = FALSE /\ fills' = {}
    /\ Goto("finish")
    /\ UNCHANGED <<demand, modeRegs, projector, hqWorks, transport, activeMode, next,
                   videoRunning, completed, depth>>

-----------------------------------------------------------------------------
(* DepthLoop and StreamDepthSession.                                       *)

DGoto(place) == dpc' = place

\* A look at the demand, between two commands.
DepthLooks ==
    /\ dpc = "loop"
    /\ DGoto(IF ~SessionRunning THEN "leave"
             ELSE IF ~NeedsProjector THEN "dark"
             ELSE IF "depth" \notin want THEN "light" ELSE "configure")
    /\ UNCHANGED <<demand, spent, sensor, transport, video, saw, depthReads>>

\* What a step of the depth thread leaves alone when it switches the projector.
OnlyProjector == UNCHANGED <<demand, streaming, modeRegs, fills, hqWorks, sessionRun,
                             inherited, video, depthReads>>

\* Without a session on 0x82 the projector is what IR needs.
DepthLights ==
    /\ dpc \in {"dark", "light"}
    /\ \E ok \in BOOLEAN : SetProjector(dpc = "light", ok)
    /\ DGoto("loop") /\ UNCHANGED saw /\ OnlyProjector

DepthLeaves ==
    /\ dpc = "leave"
    /\ \E ok \in BOOLEAN : SetProjector(FALSE, ok)
    /\ DGoto("off") /\ UNCHANGED saw /\ OnlyProjector

DepthConfigures ==
    /\ dpc = "configure"
    /\ \E ok \in BOOLEAN : ConfigureDepthPath(ok) /\ DGoto(IF ok THEN "queue" ELSE "loop")
    /\ UNCHANGED saw /\ OnlyProjector

\* The reads are queued before the engine starts.
DepthQueues ==
    /\ dpc = "queue"
    /\ depthReads' = TRUE
    /\ \/ DGoto("emit") /\ UNCHANGED spent
       \/ Fault /\ DGoto("end")
    /\ UNCHANGED <<demand, sensor, transport, video, saw>>

\* SetProjector(NeedsProjector()): the look, and then the command.
DepthEmits ==
    /\ dpc \in {"emit", "stream"} /\ SessionRunning
    /\ saw' = NeedsProjector /\ DGoto("follow")
    /\ UNCHANGED <<demand, spent, sensor, transport, video, depthReads>>

DepthFollows ==
    /\ dpc = "follow"
    /\ \E ok \in BOOLEAN : SetProjector(saw, ok) /\ DGoto(IF ok THEN "stream" ELSE "end")
    /\ UNCHANGED saw /\ OnlyProjector

\* A stall, a transfer that fails, or the session is over.
DepthEnds ==
    /\ dpc \in {"emit", "stream"}
    /\ \/ ~SessionRunning /\ UNCHANGED spent
       \/ SessionRunning /\ "depth" \in want /\ Fault
    /\ DGoto("end")
    /\ UNCHANGED <<demand, sensor, transport, video, saw, depthReads>>

\* Is IR to have its light back?
DepthRemembers ==
    /\ dpc = "end"
    /\ saw' = (SessionRunning /\ "ir" \in want)
    /\ DGoto("finish")
    /\ UNCHANGED <<demand, spent, sensor, transport, video, depthReads>>

DepthFinishes ==
    /\ dpc = "finish"
    /\ \E ok \in BOOLEAN : SetProjector(FALSE, ok)
    /\ DGoto("cancel") /\ UNCHANGED saw /\ OnlyProjector

DepthCancels ==
    /\ dpc = "cancel"
    /\ depthReads' = FALSE
    /\ DGoto(IF saw THEN "restore" ELSE "loop")
    /\ UNCHANGED <<demand, spent, sensor, transport, video, saw>>

DepthRestores ==
    /\ dpc = "restore"
    /\ \E ok \in BOOLEAN : SetProjector(TRUE, ok)
    /\ DGoto("loop") /\ UNCHANGED saw /\ OnlyProjector

-----------------------------------------------------------------------------

VideoThread ==
    \/ Open \/ StartSession \/ TellDepth \/ Join \/ FinalDark \/ FinalHalt \/ Close
    \/ Idle \/ Wake \/ Switch \/ HqFallback \/ VideoFault \/ VideoLeaves
    \/ StopEngine \/ CancelReads \/ Light \/ Configure \/ QueueReads \/ StartEngine
    \/ EndVideo

DepthThread ==
    \/ DepthLooks \/ DepthLights \/ DepthLeaves \/ DepthConfigures \/ DepthQueues
    \/ DepthEmits \/ DepthFollows \/ DepthEnds \/ DepthRemembers \/ DepthFinishes
    \/ DepthCancels \/ DepthRestores

Next == Change \/ Stop \/ VideoThread \/ DepthThread \/ Deliver \/ Frame

\* Both threads run, and poll the demand, as long as there is a session.
Fairness == WF_vars(VideoThread) /\ WF_vars(DepthThread)

Spec == Init /\ [][Next]_vars /\ Fairness

-----------------------------------------------------------------------------
(* Properties.                                                             *)

\* A frame is assembled from data of the mode the thread believes to be in:
\* nothing of an earlier mode is left in the reads when another one starts.
\* It does not hold for a session that inherits a running engine.
FramesOfOneMode ==
    vpc = "loop" /\ videoRunning /\ ~inherited => fills \subseteq {activeMode}

\* "Endpoint 0x81 is stopped while mode registers are changed", but for such a
\* session.
ModeSetWhileStopped ==
    [][modeRegs' # modeRegs => streaming = "off" \/ inherited]_vars

\* The engines end up doing what is wanted, RGB HQ that the sensor cannot
\* deliver replaced by RGB, and stop with the service.
EnginesFollowDemand ==
    <>[](/\ projector = (run /\ NeedsProjector)
         /\ streaming = IF ~run \/ ~VideoDemand THEN "off"
                        ELSE IF DemandedMode = "hq" /\ ~hqWorks THEN "rgb"
                        ELSE DemandedMode)
=============================================================================
