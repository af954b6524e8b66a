---------------------------- MODULE MC_PvlFrFilter ----------------------------
(* Two database files of one and two faces, a database of two faces, and *)
(* max-recognizable-faces 1 or 2.                                        *)
EXTENDS PvlFrFilter

CONSTANTS f1, f2, f3

MCDbFiles == {<<f1>>, <<f2, f3>>}
=============================================================================
