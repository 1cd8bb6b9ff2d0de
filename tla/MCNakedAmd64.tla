---------------------------- MODULE MCNakedAmd64 ----------------------------
(***************************************************************************)
(* The x64 naked trampoline, executed instruction by instruction.          *)
(***************************************************************************)
EXTENDS NakedTrampoline

VARIABLES
    isCall, executeTrampoline,  \* the options of the patch
    done                        \* the instructions executed

vars == <<isCall, executeTrampoline, done>>

Code == GenerateNakedTrampoline("amd64", isCall, executeTrampoline,
                                Op("nop", "ax", 0))

Machine ==
    FoldLeft(LAMBDA m, i : Step("amd64", {}, m, i), Start("amd64", isCall),
             SubSeq(Code, 1, done))

Init ==
    /\ isCall \in BOOLEAN /\ executeTrampoline \in BOOLEAN
    /\ done = 0

Next ==
    /\ done < Len(Code)
    /\ done' = done + 1
    /\ UNCHANGED <<isCall, executeTrampoline>>

Spec == Init /\ [][Next]_vars

\* The comment of GenerateNakedTrampoline says that rcx, the address of the
\* first value stored, is a PTRAMPOLINE_NAKED_CONTEXT: then the callback
\* would find every register in its field.
ContextIsTrueAmd64 ==
    Machine.calls = 1 =>
        ContextIsTrue("amd64", Start("amd64", isCall), Machine)
=============================================================================
