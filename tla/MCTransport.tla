---------------------------- MODULE MCTransport ----------------------------
(***************************************************************************)
(* An instance of Transport for TLC: two short packets behind a long one,   *)
(* with payloads that hold sync bytes.                                      *)
(***************************************************************************)
EXTENDS Transport

MCPayloads == <<<<"x", "@", "F", "@">>, <<"@">>, <<"x">>>>
=============================================================================
