---------------------------- MODULE MCFlashUpload ----------------------------
(* Instantiates FlashUpload for TLC.                                       *)
EXTENDS FlashUpload, TLC

\* Callers are interchangeable.
MCSymmetry == Permutations(Callers)
=============================================================================
