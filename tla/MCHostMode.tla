----------------------------- MODULE MCHostMode -----------------------------
(***************************************************************************)
(* Vectors of two features: faces 45, 60 and 66 degrees apart, one of low   *)
(* norm, one that is out of range; with and without mask, of both types.    *)
(***************************************************************************)
EXTENDS HostMode

Face(v, x, y, t, m) == [version |-> v, type |-> t, masked |-> m, features |-> <<x, y>>]

MCUsers == {1, 2}
MCFeatures == {1, 2}
MCSamples == {
    Face(1, 260, 0, "W10", FALSE), Face(1, 685, -760, "W10", FALSE), Face(1, 800, 600, "W10", TRUE),
    Face(1, 59, 81, "RGB", FALSE), Face(1, 60, 80, "W10", FALSE), Face(2, 1024, 5, "W10", FALSE)}
=============================================================================
