---------------------------- MODULE MCFlashFiles ----------------------------
(***************************************************************************)
(* Four chunks; files of two chunks, the second partly used, and of three; *)
(* failed copies end in each chunk and at each edge of one.                *)
(***************************************************************************)
EXTENDS FlashFiles, TLC

MCSymmetry == Permutations(Names)

=============================================================================
