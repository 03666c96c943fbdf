--------------------------- MODULE MCTableReader ---------------------------
EXTENDS TableReader, TLC

(* Neither the code nor the properties tell databases, or names, apart. *)
Symmetry == Permutations(Dbs) \cup Permutations(Names)
=============================================================================
