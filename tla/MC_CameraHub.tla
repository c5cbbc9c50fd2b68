----------------------------- MODULE MC_CameraHub -----------------------------
(* Small instances of CameraHub.  The masks compete for the video engine;    *)
(* NoPid also stands for a second process.                                   *)
EXTENDS CameraHub, TLC

AllMasks   == {{"rgb", "depth"}, {"hq"}, {"ir"}}
TwoColours == {{"hq"}, {"ir"}}
StopFault  == {"videoStop"}

\* Register writes of either engine, to start one and to stop one.
EngineFaults == {"videoStop", "videoEnable", "depthStop"}

Symm == Permutations(Conns)
==============================================================================
