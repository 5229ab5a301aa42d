------------------------------ MODULE MCEeprom ------------------------------
(***************************************************************************)
(* Instances of Eeprom: 2 variables on pages of 5 slots keep the ratio of  *)
(* the code (100 variables, 255 slots): two full copy loops fit in a page, *)
(* three do not.                                                           *)
(***************************************************************************)
EXTENDS Eeprom, TLC

CONSTANTS v1, v2

MCValues == {v1, v2}
OneValue == {v1}
Symmetry == Permutations(MCValues)
=============================================================================
