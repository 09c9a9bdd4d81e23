------------------------------ MODULE MCEeprom ------------------------------
(***************************************************************************)
(* Two slots of one page of four cells, a frame of two cells and one.      *)
(***************************************************************************)
EXTENDS Eeprom
=============================================================================
