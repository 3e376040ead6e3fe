------------------------------ MODULE SourceFile ------------------------------
(***************************************************************************)
(* What the tools of the netcdf-reader share: the server processes of one  *)
(* project directory and the data file they read.  A simulation or another *)
(* tool may replace the file at any time; a replacement changes its        *)
(* modification time or size, so a version stands for the contents and for *)
(* what stat says of them.                                                 *)
(***************************************************************************)
EXTENDS Naturals

CONSTANTS Servers,        \* launches of the netcdf-reader in the directory
          MaxRewrites     \* bound on the replacements of the file

ASSUME MaxRewritesAssumption == MaxRewrites \in Nat

VARIABLE stamp            \* the version of the file at the path

Versions == 0..MaxRewrites

SourceInit == stamp = 0

Rewrite ==
    /\ stamp < MaxRewrites
    /\ stamp' = stamp + 1
=============================================================================
