--------------------------- MODULE MCServerRequests ---------------------------
(***************************************************************************)
(* The digits of two codes with their values fit into the buffer.          *)
(***************************************************************************)
EXTENDS ServerRequests
===============================================================================
