--------------------------- MODULE MCFrameHandoff ---------------------------
(* TLC instance of FrameHandoff; the cfg files give the sizes.             *)
EXTENDS FrameHandoff
=============================================================================
