---------------------------- MODULE MCTrampoline ----------------------------
(***************************************************************************)
(* Functions of three instructions out of every form the code tells apart, *)
(* going forward, back, to themselves and away; and, on an ordinary        *)
(* prologue, patches with the option NakedTrampoline, whose trampoline has *)
(* the code of NakedTrampoline around the stub.                            *)
(***************************************************************************)
EXTENDS Trampoline, NakedTrampoline, Sequences

VARIABLE naked  \* how a naked patch is entered, and what its Target writes

MCElsewhere == 100

I(op, len, targets) == [op : {op}, len : {len}, to : targets]

MCKinds ==
    UNION { I("plain", 1, {1}), I("plain", 2, {1}), I("plain", 5, {1}),
            I("jcc", 2, {1, 2, 3, 4, MCElsewhere}),
            I("jmp", 2, {1, 2, 3, MCElsewhere}),
            I("jcc", 6, {1}), I("jmp", 5, {1, 2, MCElsewhere}),
            I("call", 5, {3, MCElsewhere}), I("loop", 2, {1, 3, MCElsewhere}),
            I("jmpmem", 6, {1, 2, MCElsewhere}), I("ret", 1, {1}),
            I("jmpreg", 2, {MCElsewhere}), I("retf", 2, {1}) }

Plain(n) == [op |-> "plain", len |-> n, arg |-> 0]
Ret      == [op |-> "ret", len |-> 1, arg |-> 0]

\* Three instructions, laid out one behind the other, a plain one and a ret;
\* elsewhere, within a short jump, an ordinary prologue.
Layout(k1, k2, k3) ==
    LET k      == <<k1, k2, k3, Plain(5), Ret>>
        E      == MCElsewhere
        pos    == <<0, k1.len, k1.len + k2.len, k1.len + k2.len + k3.len,
                    k1.len + k2.len + k3.len + 5>>
        Dest(i) == IF k[i].to = E THEN E ELSE pos[k[i].to]
        Asm(i) == [op |-> k[i].op, len |-> k[i].len, arg |->
                      CASE k[i].op \in Relative -> Dest(i) - pos[i] - k[i].len
                        [] k[i].op \in Absolute -> Dest(i)
                        [] OTHER                -> 0]
        Where(a) == CHOOSE i \in 1 .. 5 : pos[i] = a
    IN  [a \in {pos[i] : i \in 1 .. 5} \cup {E, E + 2, E + 3, E + 8} |->
            CASE a < E      -> IF Where(a) > 3 THEN k[Where(a)]
                                               ELSE Asm(Where(a))
              [] a = E      -> Plain(2)
              [] a = E + 2  -> Plain(1)
              [] a = E + 3  -> Plain(5)
              [] a = E + 8  -> Ret]

MCFunctions == {Layout(k1, k2, k3) : k1, k2, k3 \in MCKinds}

NotNaked == [isCall |-> FALSE, executeTrampoline |-> FALSE,
             displaced |-> Return, writes |-> {}]

\* OpCall and OpJump have 5 bytes.
MCInit ==
    /\ TrampolineInit
    /\ \/ naked = NotNaked
       \/ /\ hookSize = 5 /\ ~callHook
          /\ text[0] = Plain(1) /\ text[1] = Plain(2) /\ text[3] = Plain(5)
          /\ naked \in [isCall : BOOLEAN, executeTrampoline : BOOLEAN,
                        displaced : Displaced, writes : SUBSET Registers("x86")]

MCSpec ==
    /\ MCInit /\ [][TrampolineNext /\ UNCHANGED naked]_<<trampolineVars, naked>>
    /\ Fairness

\* On x86, however it is entered, whatever it displaces and whatever fields
\* Target writes, a naked trampoline that has gone live shows Target the
\* registers of the hooked place and gives them back with what Target wrote,
\* with the stack, and the displaced instruction has its effect once. In one
\* case, and in all of it, this is not so: the option ExecuteTrampoline with a
\* hook that is a call. The displaced instruction then runs on top of the
\* address the hook pushed, while "mov [esp + 24h], eax" and the ret take the
\* top of the stack for that address; it must leave the stack alone.
NakedKeepsX86 ==
    (phase = "run" /\ naked # NotNaked /\ in = StubAt) =>
        (NakedKeeps("x86", naked.isCall, naked.executeTrampoline,
                    naked.displaced, naked.writes)
         <=> \/ ~(naked.isCall /\ naked.executeTrampoline)
             \/ naked.displaced = Op("nop", "ax", 0))
=============================================================================
