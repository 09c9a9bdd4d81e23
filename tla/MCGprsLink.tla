------------------------------ MODULE MCGprsLink ------------------------------
(* GprsLink has no constants but numbers and flags, which the configurations  *)
(* give it.                                                                   *)
EXTENDS GprsLink
=============================================================================
