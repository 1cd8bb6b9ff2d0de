--------------------------- MODULE NakedTrampoline ---------------------------
(***************************************************************************)
(* GenerateNakedTrampoline of Mp::MemoryPatchManager (NativeLib/my.cpp):   *)
(* the code that saves the registers at the hooked place, calls Target     *)
(* with their TRAMPOLINE_NAKED_CONTEXT, loads them again and goes on at    *)
(* ReturnAddress. It is run here by folding its instructions over a        *)
(* machine of registers and stack, in units of a pointer.                  *)
(*                                                                         *)
(* Every register but the stack pointer holds a number that tells it from  *)
(* the others; the callback reads the context by the layout of the C       *)
(* structure, may write fields of it, and destroys what its calling        *)
(* convention lets it destroy. The instruction displaced may push, pop or  *)
(* read what is on the stack. The hook is a jmp, a push and ret, or a      *)
(* call; one through eax (OpJRax and after) has destroyed eax before.      *)
(***************************************************************************)
EXTENDS Integers, Sequences, FiniteSets, SequencesExt

\* Where the code is: behind the instructions displaced, or at the trampoline
\* or the stub behind it, which has yet to run them.
Past == 400
Here == 401
Junk == 300

Archs == {"x86", "amd64"}

\* TRAMPOLINE_NAKED_CONTEXT, in the order of its fields.
Fields(arch) ==
    IF arch = "x86"
    THEN <<"flags", "di", "si", "bp", "bx", "dx", "cx", "ax", "sp", "ip">>
    ELSE <<"flags", "ax", "cx", "dx", "bx", "bp", "si", "di", "r8", "r9",
           "r10", "r11", "r12", "r13", "r14", "r15", "ip">>

Registers(arch) == ToSet(Fields(arch)) \ {"sp", "ip"}
OffsetOf(arch, field) == IndexFirstSubSeq(<<field>>, Fields(arch)) - 1

Op(name, reg, n) == [op |-> name, reg |-> reg, n |-> n]
Push(reg)        == Op("push", reg, 0)
Pop(reg)         == Op("pop", reg, 0)
Store(n, reg)    == Op("store", reg, n)
Load(reg, n)     == Op("load", reg, n)
Lea(n)           == Op("lea", "sp", n)
Mov(reg, n)      == Op("imm", reg, n)
Callback         == Op("callback", "ax", 0)
Return           == Op("ret", "ip", 0)

\* Instructions a hook may displace: one that leaves the stack alone, push
\* ebp, pop ebx, and mov ecx, [esp].
Displaced        == {Op("nop", "ax", 0), Push("bp"), Pop("bx"), Load("cx", 0)}

Each(F(_, _), regs) == [i \in 1 .. Len(regs) |-> F(i, regs[i])]

Saved64 == <<"ax", "cx", "dx", "bx", "bp", "si", "di", "r8", "r9", "r10",
             "r11", "r12", "r13", "r14", "r15">>

\* Mutant: the flags are restored by what saves them, edi by popfd.
BugNakedX86(return) ==
    Each(LAMBDA i, r : Push(r), <<"sp", "ax", "cx", "dx", "bx", "bp", "si",
                                  "di", "flags">>)
    \o <<Mov("ax", return), Store(9, "ax"), Callback>>
    \o Each(LAMBDA i, r : Pop(r), <<"di", "flags", "si", "bp", "bx", "dx",
                                    "cx", "ax", "sp">>)
    \o <<Return>>

\* After the slot of the return address, which "push eax" or the hook's own
\* call makes. "mov [esp + 24h], eax" fills it.
NakedX86(return) ==
    Each(LAMBDA i, r : Push(r), <<"sp", "ax", "cx", "dx", "bx", "bp", "si",
                                  "di", "flags">>)
    \o <<Mov("ax", return), Store(9, "ax"), Callback>>
    \o Each(LAMBDA i, r : Pop(r), <<"flags", "di", "si", "bp", "bx", "dx",
                                    "cx", "ax", "sp">>)
    \o <<Return>>

\* SIZE_OF_CONTEXT is 78h: 15 registers; 80h is 16 pointers.
NakedAmd64(return) ==
    <<Push("flags"), Lea(-15)>>
    \o Each(LAMBDA i, r : Store(i - 1, r), Saved64)
    \o <<Mov("ax", return), Store(16, "ax"), Lea(-4), Callback, Lea(4)>>
    \o Each(LAMBDA i, r : Load(r, i - 1), Saved64)
    \o <<Lea(15), Pop("flags"), Return>>

\* The trampoline from its first byte. With ExecuteTrampoline the displaced
\* instructions are copied before it and ReturnAddress is what follows them
\* in the function; without, they come behind it, and ReturnAddress is there.
GenerateNakedTrampoline(arch, isCall, executeTrampoline, displaced) ==
    LET return == IF executeTrampoline THEN Past ELSE Here
    IN  (IF executeTrampoline THEN <<displaced>> ELSE <<>>)
        \o (IF isCall THEN <<>> ELSE <<Push("ax")>>)
        \o (IF arch = "x86" THEN NakedX86(return) ELSE NakedAmd64(return))
        \o (IF executeTrampoline THEN <<>> ELSE <<displaced, Mov("ip", Past)>>)

(***************************************************************************)
(* The machine: registers with the stack pointer, memory of the stack, and *)
(* what the callback found in the context when it was called.              *)
(***************************************************************************)
Depth == 40
Value(arch, reg) == 100 + OffsetOf(arch, reg)
Written(arch, reg) == 200 + OffsetOf(arch, reg)

\* At the hooked place; the hook's own call has pushed an address. From Depth
\* up is what the hooked code has on its stack.
Start(arch, isCall) ==
    [reg |-> [r \in Registers(arch) \cup {"sp", "ip"} |->
                CASE r = "sp" -> IF isCall THEN Depth - 1 ELSE Depth
                  [] r = "ip" -> Here
                  [] OTHER    -> Value(arch, r)],
     mem |-> [a \in 0 .. Depth + 3 |-> IF a < Depth THEN Junk ELSE 500 + a],
     found |-> Junk, calls |-> 0]

\* Target(PTRAMPOLINE_NAKED_CONTEXT) writes the fields of writes.
CallTarget(arch, m, shadow, writes) ==
    LET ctx == m.reg["sp"] + shadow
        At(f) == ctx + OffsetOf(arch, f)
        destroyed == {"ax", "cx", "dx", "flags"} \cup
            (IF arch = "x86" THEN {} ELSE {"r8", "r9", "r10", "r11"})
    IN  [m EXCEPT
            !.found = [f \in ToSet(Fields(arch)) |-> m.mem[At(f)]],
            !.calls = @ + 1,
            !.mem = [a \in DOMAIN @ |->
                        IF \E f \in writes : At(f) = a
                        THEN 200 + a - ctx ELSE @[a]],
            !.reg = [r \in DOMAIN @ |->
                        IF r \in destroyed THEN Junk ELSE @[r]]]

\* Where a ret has gone anywhere else the trampoline has lost control.
Step(arch, writes, m, i) ==
    LET sp == m.reg["sp"]
    IN  IF m.reg["ip"] # Here THEN m
        ELSE CASE i.op = "push" -> [m EXCEPT !.mem[sp - 1] = m.reg[i.reg],
                                             !.reg["sp"] = sp - 1]
               [] i.op = "pop"  -> [m EXCEPT !.reg["sp"] = sp + 1,
                                             !.reg[i.reg] = m.mem[sp]]
               [] i.op = "ret"  -> [m EXCEPT !.reg["sp"] = sp + 1,
                                             !.reg["ip"] = m.mem[sp]]
               [] i.op = "store" -> [m EXCEPT !.mem[sp + i.n] = m.reg[i.reg]]
               [] i.op = "load" -> [m EXCEPT !.reg[i.reg] = m.mem[sp + i.n]]
               [] i.op = "lea"  -> [m EXCEPT !.reg["sp"] = sp + i.n]
               [] i.op = "imm"  -> [m EXCEPT !.reg[i.reg] = i.n]
               [] i.op = "nop"  -> m
               [] i.op = "callback" ->
                    CallTarget(arch, m, IF arch = "x86" THEN 0 ELSE 4, writes)

Run(arch, isCall, executeTrampoline, displaced, writes) ==
    FoldLeft(LAMBDA m, i : Step(arch, writes, m, i), Start(arch, isCall),
             GenerateNakedTrampoline(arch, isCall, executeTrampoline, displaced))

(***************************************************************************)
(* Properties.                                                             *)
(***************************************************************************)
\* Every register is in its field of the context when Target is called, as it
\* is in the machine m.
ContextIsTrue(arch, m, end) ==
    \A r \in Registers(arch) : end.found[r] = m.reg[r]

\* What Target is to do to the registers.
Wrote(arch, writes, m) ==
    [m EXCEPT !.reg = [r \in DOMAIN @ |->
                          IF r \in writes THEN Written(arch, r) ELSE @[r]]]

\* The trampoline does what the displaced instruction and Target, called once,
\* would do one after the other at the hooked place were it not hooked:
\* Target finds the registers there, and the hooked code goes on behind the
\* instruction with these registers and this stack.
NakedKeeps(arch, isCall, executeTrampoline, displaced, writes) ==
    LET end    == Run(arch, isCall, executeTrampoline, displaced, writes)
        Do(m)  == Step(arch, {}, m, displaced)
        place  == Start(arch, FALSE)
        before == IF executeTrampoline THEN Do(place) ELSE place
        wrote  == Wrote(arch, writes, before)
        after  == IF executeTrampoline THEN wrote ELSE Do(wrote)
        stack  == after.reg["sp"] .. Depth + 3
    IN  /\ end.calls = 1 /\ ContextIsTrue(arch, before, end)
        /\ \A r \in Registers(arch) \cup {"sp"} : end.reg[r] = after.reg[r]
        /\ \A a \in stack : end.mem[a] = after.mem[a]
        /\ end.reg["ip"] = Past
=============================================================================
