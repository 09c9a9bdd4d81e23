---------------------------- MODULE MCFreezeLog ----------------------------
(* FreezeLog on a flash of three sectors of two pages.                     *)
EXTENDS FreezeLog

CONSTANTS m1, m2
=============================================================================
