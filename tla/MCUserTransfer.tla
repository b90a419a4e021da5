--------------------------- MODULE MCUserTransfer ---------------------------
(***************************************************************************)
(* Instances of UserTransfer for TLC: a device with three users.  The last   *)
(* one may be removed; it is imported, by an array that names it twice.      *)
(***************************************************************************)
EXTENDS UserTransfer

MCDb == <<1, 2, 3>>
MCImport == <<3, 3>>
=============================================================================
