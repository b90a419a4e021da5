------------------------------ MODULE MCFwLine ------------------------------
(***************************************************************************)
(* Instances of FwLine for TLC.                                             *)
(***************************************************************************)
EXTENDS FwLine
=============================================================================
