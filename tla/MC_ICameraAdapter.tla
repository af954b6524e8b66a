------------------------- MODULE MC_ICameraAdapter -------------------------
(* Instantiation of ICameraAdapter for TLC: three application buffers,   *)
(* two of them dma buffers and one allocated through allocateMemory().   *)
EXTENDS ICameraAdapter

CONSTANTS t1, t2, b1, b2, b3

OneThread == {t1}
TwoThreads == {t1, t2}
MCBuffers == {b1, b2, b3}
MCDmaBuffers == {b1, b2}
TwoBuffers == {b1, b2}
=============================================================================
