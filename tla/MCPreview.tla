----------------------------- MODULE MCPreview -----------------------------
(***************************************************************************)
(* Two previews, that one application thread creates, starts, pauses, stops *)
(* and destroys in any order.                                               *)
(***************************************************************************)
EXTENDS Preview

MCHandles == {1, 2}
=============================================================================
