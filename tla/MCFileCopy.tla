----------------------------- MODULE MCFileCopy -----------------------------
(***************************************************************************)
(* Sizes around the buffer (2) and around 2^32 (4 here), up to where the   *)
(* buffer overruns (7). The bytes of a file say where in it they belong.   *)
(***************************************************************************)
EXTENDS FileCopy

MCBytes    == 0 .. 7
MCContents == {Missing} \cup {[i \in 1 .. n |-> i] : n \in {3, 4, 5, 7}}

CONSTANTS a, b
MCCalls == [from : {a}, to : {a, b}, failIfExists : BOOLEAN]
=============================================================================
