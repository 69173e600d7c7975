----------------------------- MODULE MCRunDirs -----------------------------
(***************************************************************************)
(* Two runs at once, and as many after each other as there are.            *)
(***************************************************************************)
EXTENDS RunDirs

CONSTANTS r1, r2, d1, d2
=============================================================================
