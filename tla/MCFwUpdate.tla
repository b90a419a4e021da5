----------------------------- MODULE MCFwUpdate -----------------------------
(***************************************************************************)
(* Instances of FwUpdate for TLC: modules of two blocks, current, changed in *)
(* either block, or of another size on the device.                          *)
(***************************************************************************)
EXTENDS FwUpdate

MCOldModules == {<<"new", "new">>, <<"new", "old">>, <<"new", "new", "old">>}
=============================================================================
