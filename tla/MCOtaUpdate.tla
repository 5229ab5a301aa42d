---------------------------- MODULE MCOtaUpdate ----------------------------
(***************************************************************************)
(* Instances of OtaUpdate.  Three chunks on sectors of two: backing off    *)
(* happens at the start of a sector, in its middle and in the last one.    *)
(***************************************************************************)
EXTENDS OtaUpdate
=============================================================================
