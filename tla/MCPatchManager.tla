-------------------------- MODULE MCPatchManager --------------------------
(* Two hooks of one function that call on, and at another address a        *)
(* function patch that calls nobody and a memory patch with a backup.      *)
EXTENDS PatchManager, TLC

CONSTANTS f1, f2, g1, m1, siteA, siteB

MCFunctionPatches == {f1, f2, g1}
MCMemoryPatches   == {m1}
MCCallsOn         == {f1, f2}
MCSites           == {siteA, siteB}
MCSiteOf ==
    [p \in {f1, f2, g1, m1} |-> IF p \in {f1, f2} THEN siteA ELSE siteB]
Symmetry == Permutations(Blocks)
=============================================================================
