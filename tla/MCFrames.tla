------------------------------ MODULE MCFrames ------------------------------
(***************************************************************************)
(* Small instances of Frames.                                              *)
(***************************************************************************)
EXTENDS Frames

=============================================================================
