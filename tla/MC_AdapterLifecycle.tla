------------------------- MODULE MC_AdapterLifecycle -------------------------
EXTENDS AdapterLifecycle

CONSTANTS t1, t2, b1, b2, s1, s2, s3

OneThread == {t1}
TwoThreads == {t1, t2}
\* b1 is imported by dma fd, b2 is allocated by allocateMemory
MCBuffers == {b1, b2}
MCDmaBuffers == {b1}
MCSettings == {s1, s2, s3}
=============================================================================
