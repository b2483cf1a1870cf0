-------------------------- MODULE MCProfileReport --------------------------
(***************************************************************************)
(* Three contracts beside the committed one: other parameters that change  *)
(* no register, one that fills the frame aperture to its last byte with a  *)
(* number of outputs that is a power of two, and one too large.            *)
(***************************************************************************)
EXTENDS ProfileReport

MCCandidates == <<"current", "pool1024">>

OtherParameters == [Committed EXCEPT !.other = 2]
FullAperture == [Committed EXCEPT !.outputs = 16, !.pixels = 2048]
TooLarge == [Committed EXCEPT !.pixels = 2048]

MCContracts == {Committed, OtherParameters, FullAperture, TooLarge}
=============================================================================
