----------------------------- MODULE MCSlabCache -----------------------------
(* Instances of SlabCache for TLC. *)
EXTENDS SlabCache, TLC

Perms == Permutations(Page)
=============================================================================
