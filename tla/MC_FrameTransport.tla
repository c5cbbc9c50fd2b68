------------------------- MODULE MC_FrameTransport -------------------------
EXTENDS FrameTransport

\* The HQ worker publishes in either size, the RGB worker only in VGA.
MCSizesOf == [w \in Workers |-> IF w = "hq" THEN Sizes ELSE {Vga}]

\* The first bridge may write three times, the second twice.
MCMaxSeq == <<8, 4>>
=============================================================================
