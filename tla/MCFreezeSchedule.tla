--------------------------- MODULE MCFreezeSchedule ---------------------------
(* FreezeSchedule's constants are numbers and flags, which the configurations *)
(* give it.                                                                   *)
EXTENDS FreezeSchedule
=============================================================================
