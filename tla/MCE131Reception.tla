--------------------------- MODULE MCE131Reception ---------------------------
(* TLC instance of E131Reception; the cfg files give the sizes.            *)
EXTENDS E131Reception, TLC

(* Senders are told apart by comparison alone.                             *)
SourceSymmetry == Permutations(Sources)
=============================================================================
