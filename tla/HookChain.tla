----------------------------- MODULE HookChain -----------------------------
(***************************************************************************)
(* What the patch manager promises of the code it patches: at every moment *)
(* a call of a patched function runs through a definite chain of hooks,    *)
(* newest first, each calling on to the one below through its stub, and    *)
(* ends in the original code or in a replacement that calls nobody.        *)
(* Installing and removing a hook happen in one step.                      *)
(***************************************************************************)
EXTENDS Sequences

CONSTANTS
    Patches,    \* the patches that can be installed
    Sites,      \* the pieces of code they patch
    SiteOf,     \* the site of each patch
    CallsOn,    \* the patches whose replacement calls what was there before
    Original    \* the code as loaded from the image

VARIABLE chain  \* chain[s]: what a call of s runs through

Init == chain = [s \in Sites |-> <<Original>>]

Install(p) ==
    LET s == SiteOf[p] IN
    chain' = [chain EXCEPT
                ![s] = IF p \in CallsOn THEN <<p>> \o @ ELSE <<p>>]

Remove(p) ==
    LET s == SiteOf[p] IN
    /\ p \in CallsOn
    /\ Head(chain[s]) = p
    /\ chain' = [chain EXCEPT ![s] = Tail(@)]

Next == \E p \in Patches : Install(p) \/ Remove(p)

Spec == Init /\ [][Next]_chain
=============================================================================
