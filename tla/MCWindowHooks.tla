---------------------------- MODULE MCWindowHooks ----------------------------
(* Three window handles: enough for a main window, one beside it and one     *)
(* that either of them gives back.                                           *)
EXTENDS WindowHooks, TLC

Symmetry == Permutations(Windows)
=============================================================================
