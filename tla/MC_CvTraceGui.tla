---------------------------- MODULE MC_CvTraceGui ----------------------------
(* The instance is given in the cfg: the check buttons toggled, one      *)
(* detection per message, two messages on the bus, a camera source.     *)
EXTENDS CvTraceGui
=============================================================================
