---------------------------- MODULE MC_LinuxAudio ----------------------------
(***************************************************************************)
(* The two loops of the Linux AudioBridge in one run.  They share nothing  *)
(* but the bus, and each is checked alone: a behaviour is one of the nodes *)
(* or one of the loader, the other rests in its initial state.             *)
(***************************************************************************)
EXTENDS AudioNodes

CONSTANTS k1, k2, c1, Pages, kDisconnectPasses, MaxLoaderEvents, MaxFaults

VARIABLES
    part,       \* "nodes" or "loader"
    lRun, lCamera, lAudio, lPipe, lImage, lMixed, lLaunched, lAbsent, lPc, lBoot, lCur, lTag,
    lFlags, lFirmwareState, lSpent

loaderVars == <<lRun, lCamera, lAudio, lPipe, lImage, lMixed, lLaunched, lAbsent, lPc, lBoot,
                lCur, lTag, lFlags, lFirmwareState, lSpent>>

L == INSTANCE FirmwareLoader WITH
       MaxEvents <- MaxLoaderEvents,
       run <- lRun, camera <- lCamera, audio <- lAudio, pipe <- lPipe, image <- lImage,
       mixed <- lMixed, launched <- lLaunched, absent <- lAbsent, pc <- lPc, boot <- lBoot,
       cur <- lCur, tag <- lTag, flags <- lFlags, firmwareState <- lFirmwareState,
       spent <- lSpent

ASSUME LoaderAssumption == L!LoaderConstants

MCOrder == <<k1, k2>>
MCHash == [s \in Sensors |-> 0]
MCCards == {0, 1}

MCInit == part \in {"nodes", "loader"} /\ Init /\ L!Init
MCNext == /\ UNCHANGED part
          /\ \/ part = "nodes" /\ Next /\ UNCHANGED loaderVars
             \/ part = "loader" /\ L!Next /\ UNCHANGED vars

MCVars == <<part, vars, loaderVars>>
MCSpec == /\ MCInit /\ [][MCNext]_MCVars
          /\ WF_MCVars(part = "loader" /\ L!Loader /\ UNCHANGED <<part, vars>>)

LoaderTypeOK == L!TypeOK

\* RunsWholeImage and PendingIsTried of the firmware loader.
RunsWholeImage == L!RunsWholeImage
PendingIsTried == part = "loader" => L!PendingIsTried
=============================================================================
