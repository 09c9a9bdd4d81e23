----------------------------- MODULE MCMeterValues -----------------------------
(* MeterValues with the codes of requests as model values, but for the two of *)
(* the IP addresses.  Only the places of a list's other codes and that they   *)
(* differ matter to it.                                                       *)
EXTENDS MeterValues

CONSTANTS k1, k2

MCKnown == {k1, k2, "05C1", "08C1"}
MCRequested == {<<>>, <<"08C1">>, <<k1, k2>>, <<k2, "05C1", k1>>}
=============================================================================
