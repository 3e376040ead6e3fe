------------------------- MODULE MC_InspectionCache -------------------------
(* Two servers that share a cache, and a data file, local or remote, that   *)
(* is replaced twice and removed and put back at any time: an entry may be  *)
(* looked up, written and damaged under four keys, or under one.            *)
EXTENDS InspectionCache, TLC

CONSTANTS s1, s2

ServerSymmetry == Permutations(Servers)
=============================================================================
