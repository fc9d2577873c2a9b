------------------------------- MODULE MCHext -------------------------------
(* Small instances of Hext: two files on a few data blocks, and a journal  *)
(* with room for a whole commit.                                            *)
EXTENDS Hext, TLC

\* File 1 has one block, file 2 two.
MCSizes == [f \in Files |-> {f}]

ContentSymmetry == Permutations(Contents)
=============================================================================
