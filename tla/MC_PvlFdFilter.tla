--------------------------- MODULE MC_PvlFdFilter ---------------------------
EXTENDS PvlFdFilter

CONSTANTS a1, a2

MCAppThreads == {a1, a2}
=============================================================================
