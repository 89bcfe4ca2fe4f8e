--------------------------- MODULE MCWritableFiles ---------------------------
(* WritableFiles by itself, instantiated for TLC: one table, a MANIFEST and*)
(* CURRENT.                                                                *)
EXTENDS WritableFiles

CONSTANT t1

=============================================================================
