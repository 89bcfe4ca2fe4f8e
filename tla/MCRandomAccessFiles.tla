------------------------ MODULE MCRandomAccessFiles ------------------------
(* RandomAccessFiles by itself, instantiated for TLC.                      *)
EXTENDS RandomAccessFiles, TLC

(* Objects run the same code on files of their own.                        *)
Symmetry == Permutations(Object)

=============================================================================
