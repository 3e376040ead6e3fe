---------------------------- MODULE MC_SliceStore ----------------------------
(* Two launches of the reader, so that a start meets a running server, one  *)
(* in the middle of read_slice or one that has died; a slice read again and *)
(* again, and a renderer that opens and draws it, while the data file is    *)
(* replaced.                                                                *)
EXTENDS SliceStore, TLC

CONSTANTS s1, s2, q1, r1

ServerSymmetry == Permutations(Servers)
=============================================================================
