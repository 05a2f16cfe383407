----------------------------- MODULE MCMetaFile -----------------------------
(* Values of the constants of MetaFile for TLC. *)
EXTENDS MetaFile, TLC

CONSTANTS u1, u2, r1, r2

WriterSymmetry == Permutations(Uploaders) \cup Permutations(Downloaders)

=============================================================================
