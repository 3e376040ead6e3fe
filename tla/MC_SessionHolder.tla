-------------------------- MODULE MC_SessionHolder --------------------------
(* Three threads call the holder: enough for one to hold the lock while two *)
(* wait, which covers every pair of methods around a third.                 *)
EXTENDS SessionHolder

CONSTANTS c1, c2, c3
=============================================================================
