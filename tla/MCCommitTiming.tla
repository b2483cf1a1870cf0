--------------------------- MODULE MCCommitTiming ----------------------------
(* TLC instance of CommitTiming; the cfg file gives the sizes.             *)
EXTENDS CommitTiming
=============================================================================
