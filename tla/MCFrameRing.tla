---------------------------- MODULE MCFrameRing ----------------------------
(* The ring of the code, with room for four messages. *)
EXTENDS FrameRing
=============================================================================
