------------------------- MODULE MCGenomeRepository -------------------------
(* GenomeRepository on a small instance.                                   *)
EXTENDS GenomeRepository, TLC

\* Ids, contents and buckets are interchangeable.
Symmetry == Permutations(Ids) \cup Permutations(Contents) \cup Permutations(Buckets)
=============================================================================
