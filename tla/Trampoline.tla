----------------------------- MODULE Trampoline -----------------------------
(***************************************************************************)
(* The machine-code side of Mp::MemoryPatchManager (NativeLib/my.cpp) on   *)
(* x86: GetHookAddressAndSize follows jumps from the function to the code  *)
(* to patch and measures the instructions a hook displaces,                *)
(* CopyTrampolineStub copies them, relocating the branches that leave      *)
(* them, GenerateJumpBack ends the copy, or a call hook on a call makes it *)
(* a jump, and the hook is written. Then a replacement calls the stub,     *)
(* side by side with the function as loaded.                               *)
(*                                                                         *)
(* Memory maps the address of an instruction to [op, len, arg]: arg is the *)
(* offset of a relative branch, or the destination of an absolute jump.    *)
(* What an instruction computes is left out, which way a branch goes is    *)
(* chosen for both runs alike. The scan knows few of the instructions that *)
(* control does not leave forward: a jmpreg (FF /4 but FF 25: jmp eax, jmp *)
(* [eax + n]) and a retf (a ret with a prefix, CA, CB) it passes over.     *)
(* System calls and their failures: PatchManager, with whose proofs those  *)
(* of this module are, hence the long names.                               *)
(***************************************************************************)
EXTENDS Integers

CONSTANTS
    Functions,    \* functions to hook, with the code they jump to
    HookOpSizes,  \* GetSizeOfHookOpSize: 5 jmp/call, 6 push, 7 mov reg
    StubAt        \* address of TrampolineData->Trampoline

Relative == {"jcc", "jmp", "call", "loop"}     \* loop: E0 .. E3, 8 bits only
Absolute == {"jmpmem", "jmpreg"}               \* jmpmem: FF 25
Returns  == {"ret", "retf"}                    \* ret: C2, C3
Branches == Relative \cup Absolute
Ops      == Branches \cup Returns \cup {"plain"}

Lengths(op) == CASE op = "jcc"    -> {2, 6}
                 [] op = "jmp"    -> {2, 5}
                 [] op = "call"   -> {5}
                 [] op = "loop"   -> {2}
                 [] op = "jmpmem" -> {6}
                 [] op = "jmpreg" -> 2 .. 7
                 [] op = "retf"   -> 1 .. 4
                 [] OTHER         -> 1 .. 15

Destination(m, a) == IF m[a].op \in Absolute THEN m[a].arg
                                             ELSE a + m[a].len + m[a].arg

\* A function at 0 with what is around it: behind every instruction but a ret
\* there is another, maybe of the next function or padding; branches go to
\* instructions, no two overlap, and the stub is not next to them.
IsCode(f) ==
    /\ 0 \in DOMAIN f /\ DOMAIN f \subseteq Nat
    /\ \A a \in DOMAIN f :
          /\ f[a] \in [op : Ops, len : 1 .. 15, arg : Int]
          /\ f[a].len \in Lengths(f[a].op)
          /\ f[a].op = "loop" => f[a].arg \in -128 .. 127
          /\ f[a].op # "ret" => a + f[a].len \in DOMAIN f
          /\ f[a].op \in Branches => Destination(f, a) \in DOMAIN f
          /\ \A b \in DOMAIN f : a < b => a + f[a].len <= b
          /\ a + 256 < StubAt \/ StubAt + 256 < a

ASSUME TrampolineAssumption ==
    /\ StubAt \in Nat /\ HookOpSizes \subseteq 5 .. 7
    /\ \A f \in Functions : IsCode(f)

VARIABLES
    text,      \* the memory the patch manager finds
    hookSize,  \* HookOpSize
    callHook,  \* HookOp = OpCall, and KeepRawTrampoline is not asked for
    phase,     \* "scan", "copy", "write", "run" or "refused"
    buffer,    \* Buffer of GetHookAddressAndSize, then Source
    opSize,    \* OpSize, then CopyOpSize
    final,     \* *FinalAddress
    written,   \* the code written at Trampoline
    ip,        \* Trampoline, the address written next
    copies,    \* history: where the copy of each instruction is
    at,        \* where the function as loaded is
    in         \* where the stub, called by the replacement, is

found == <<text, hookSize, callHook>>
made  == <<written, ip, copies>>
runs  == <<at, in>>
trampolineVars == <<found, phase, buffer, opSize, final, made, runs>>

TrampolineInit ==
    /\ text \in Functions
    /\ hookSize \in HookOpSizes
    /\ callHook \in BOOLEAN /\ (callHook => hookSize = 5)
    /\ phase = "scan"
    /\ buffer = 0 /\ opSize = 0 /\ final = 0
    /\ written = <<>> /\ ip = StubAt /\ copies = <<>>
    /\ at = 0 /\ in = 0

(***************************************************************************)
(* GetHookAddressAndSize.                                                  *)
(***************************************************************************)
This == text[buffer]

IsShortJump == This.op = "jmp" /\ This.len = 2       \* EB

\* Mutant: only a ret is looked for.
BugEnds == This.op = "ret"

\* The function ends too early for a hook: STATUS_BUFFER_TOO_SMALL.
Ends ==
    \/ This.op = "ret"
    \/ IsShortJump /\ opSize # 0 /\ opSize < hookSize - This.len
    \/ This.op = "jmpmem" /\ opSize # 0 /\ opSize + This.len < hookSize

\* A jump at the very start is followed; EB 00 goes to what is next anyway.
Follows ==
    /\ opSize = 0
    /\ \/ IsShortJump /\ This.arg # 0
       \/ This.op = "jmpmem" /\ hookSize > This.len

ScanRefused ==
    /\ phase = "scan" /\ opSize < hookSize /\ Ends
    /\ phase' = "refused"
    /\ UNCHANGED <<found, buffer, opSize, final, made, runs>>

\* Mutant: only *FinalAddress is moved, not Buffer.
BugScanFollow ==
    /\ phase = "scan" /\ opSize < hookSize /\ Follows
    /\ final' = Destination(text, buffer)
    /\ UNCHANGED <<found, phase, buffer, opSize, made, runs>>

ScanFollow ==
    /\ phase = "scan" /\ opSize < hookSize /\ Follows
    /\ buffer' = Destination(text, buffer)
    /\ final' = buffer'
    /\ UNCHANGED <<found, phase, opSize, made, runs>>

ScanOne ==
    /\ phase = "scan" /\ opSize < hookSize /\ ~Ends /\ ~Follows
    /\ buffer' = buffer + This.len
    /\ opSize' = opSize + This.len
    /\ UNCHANGED <<found, phase, final, made, runs>>

ScanEnd ==
    /\ phase = "scan" /\ opSize >= hookSize
    /\ phase' = "copy"
    /\ buffer' = final
    /\ UNCHANGED <<found, opSize, final, made, runs>>

(***************************************************************************)
(* CopyTrampolineStub: one call of CopyOneOpCode per instruction, with     *)
(* BackwardSize = Source - final and ForwardSize = what is left.           *)
(***************************************************************************)
\* Mutant: BackwardSize stays 0.
BugStaysInside(source, distance) ==
    distance >= 0 /\ distance < final + opSize - source

\* A branch to an instruction that is copied too, by its distance from this.
\* One back to the first instruction is not counted as such (< , not <=).
StaysInside(source, distance) ==
    IF distance < 0 THEN -distance < source - final
                    ELSE distance < final + opSize - source

\* The form with a 32-bit offset: 0F 8x, E8 or E9.
LongLen(op) == IF op = "jcc" THEN 6 ELSE 5

\* CopyOneOpCode: what is written at Target for the instruction at source.
Copied(source, target) ==
    LET this == text[source] IN
    IF /\ this.op \in Relative \ {"loop"}
       /\ ~StaysInside(source, this.len + this.arg)
    THEN [op |-> this.op, len |-> LongLen(this.op), arg |->
             Destination(text, source) - (target + LongLen(this.op))]
    ELSE this

With(f, x, y) ==
    [a \in DOMAIN f \cup {x} |-> IF a = x THEN y ELSE f[a]]

CopyOne ==
    /\ phase = "copy" /\ buffer < final + opSize
    /\ written' = With(written, ip, Copied(buffer, ip))
    /\ copies' = With(copies, buffer, ip)
    /\ ip' = ip + Copied(buffer, ip).len
    /\ buffer' = buffer + This.len
    /\ UNCHANGED <<found, phase, opSize, final, runs>>

\* The hook takes the place of a call: what it displaces is as long.
ReplacesCall == callHook /\ opSize = hookSize

\* GenerateJumpBack: jmp [JumpBackAddress], followed by two unused bytes.
JumpBack ==
    /\ phase = "copy" /\ buffer >= final + opSize /\ ~ReplacesCall
    /\ written' = With(written, ip,
                       [op |-> "jmpmem", len |-> 6, arg |-> final + opSize])
    /\ ip' = ip + 8
    /\ phase' = "write"
    /\ UNCHANGED <<found, buffer, opSize, final, copies, runs>>

\* Trampoline[0] = 0xE9 makes a call of 5 bytes a jmp to where it goes, and
\* leaves a jmp of 5 bytes what it is; the offset after another opcode was
\* not one, and its jmp is lost.
AsJump(i) ==
    IF i.op \in {"call", "jmp"} /\ i.len = 5 THEN [i EXCEPT !.op = "jmp"]
                                             ELSE [i EXCEPT !.op = "lost"]

MakeJump ==
    /\ phase = "copy" /\ buffer >= final + opSize /\ ReplacesCall
    /\ written' = [written EXCEPT ![StubAt] = AsJump(@)]
    /\ phase' = "write"
    /\ UNCHANGED <<found, buffer, opSize, final, ip, copies, runs>>

\* The hook and nops replace opSize bytes; the replacement calls the stub.
PutHook ==
    /\ phase = "write"
    /\ phase' = "run"
    /\ at' = final /\ in' = StubAt
    /\ UNCHANGED <<found, buffer, opSize, final, made>>

(***************************************************************************)
(* Calling the stub, beside the function as loaded.                        *)
(***************************************************************************)
Patched == {a \in DOMAIN text : a >= final /\ a < final + opSize}

\* The stub is where the function is: at the copy of the same instruction,
\* at the same instruction, or at the jump back to it.
Together ==
    \/ at \in Patched /\ in = copies[at]
    \/ at \notin Patched /\ in = at
    \/ at = final + opSize /\ in = ip - 8 /\ ~ReplacesCall

InStub  == in \in DOMAIN written
Running == IF InStub THEN written ELSE text

CanRun == phase = "run" /\ Together /\ at \in DOMAIN text

\* The jump at the end of the stub has no counterpart in the function.
RunBack ==
    /\ CanRun /\ InStub /\ at \notin Patched
    /\ in' = Destination(written, in)
    /\ UNCHANGED <<found, phase, buffer, opSize, final, made, at>>

\* Where the jmp made of an opcode that was not a call's goes.
Nowhere == -1

\* Where the stub is after an instruction that goes on: behind it. The call
\* that was made a jmp returns to the replacement, and that, called by the
\* hook, to what is behind the hook.
OnFrom(a) == CASE Running[a].op = "lost" -> Nowhere
               [] Running[a].op = "jmp"  -> final + hookSize
               [] OTHER                  -> a + Running[a].len

RunOn ==
    /\ CanRun /\ (InStub => at \in Patched)
    /\ text[at].op \notin {"jmp"} \cup Absolute \cup Returns
    /\ at' = at + text[at].len /\ in' = OnFrom(in)
    /\ UNCHANGED <<found, phase, buffer, opSize, final, made>>

RunBranch ==
    /\ CanRun /\ (InStub => at \in Patched)
    /\ text[at].op \in Branches
    /\ at' = Destination(text, at)
    /\ in' = IF Running[in].op = "lost" THEN Nowhere
                                       ELSE Destination(Running, in)
    /\ UNCHANGED <<found, phase, buffer, opSize, final, made>>

TrampolineNext ==
    \/ ScanRefused \/ ScanFollow \/ ScanOne \/ ScanEnd
    \/ CopyOne \/ JumpBack \/ MakeJump \/ PutHook
    \/ RunBack \/ RunOn \/ RunBranch

\* HandleFunctionPatch is a sequential call: the thread that makes it goes
\* on.
Fairness ==
    WF_trampolineVars(ScanRefused \/ ScanFollow \/ ScanOne \/ ScanEnd
                      \/ CopyOne \/ JumpBack \/ MakeJump \/ PutHook)

TrampolineSpec ==
    TrampolineInit /\ [][TrampolineNext]_trampolineVars /\ Fairness

-----------------------------------------------------------------------------
(***************************************************************************)
(* Properties.                                                             *)
(***************************************************************************)
\* A short branch of a loop instruction that leaves the displaced code: the
\* copy keeps the offset, there is no long form CopyOneOpCode could use.
LoopLeaves ==
    \E a \in Patched :
        text[a].op = "loop" /\ Destination(text, a) \notin Patched

\* A branch inside the displaced code over an instruction whose copy is
\* longer: the copy keeps the offset, which is then too short.
AcrossLonger ==
    \E a, b \in Patched :
        /\ text[a].op \in Relative /\ Destination(text, a) \in Patched
        /\ text[b].len < LongLen(text[b].op)
        /\ \/ a < b /\ b < Destination(text, a)
           \/ Destination(text, a) <= b /\ b < a
        /\ text[b].op \in Relative \ {"loop"}

\* The rest of the program jumps over the hook into what it displaced, or a
\* displaced absolute jump, which is copied as it is, does.
EnteredBehindHook ==
    \E a \in DOMAIN text :
        /\ a \notin Patched \/ text[a].op \in Absolute
        /\ text[a].op \in Branches
        /\ Destination(text, a) \in Patched \ {final}

\* A call hook where there is no call, without KeepRawTrampoline.
NoCallThere ==
    /\ ReplacesCall
    /\ ~(text[final].op \in {"call", "jmp"} /\ text[final].len = 5)

\* Calling the stub is calling the original: instruction by instruction it
\* does what the function did before it was hooked, up to four limits of the
\* code that depend on the function and the hook only. A branch back to the
\* very first instruction goes to the hook and calls the replacement again
\* (the comparison with BackwardSize leaves the first instruction out); loop
\* instructions are never relocated; a branch inside the copy is not
\* adjusted when it spans an instruction that became longer; a call hook
\* makes a jmp of whatever 5 bytes it displaces, a call or not.
StubRunsOriginal ==
    phase = "run" =>
        \/ Together
        \/ in = at /\ at = final
        \/ in = at /\ EnteredBehindHook
        \/ in \notin Patched /\ (LoopLeaves \/ AcrossLonger)
        \/ in = Nowhere /\ NoCallThere

\* What the scan does not take for the end of a function: E9, after which it
\* goes on when a hook of 6 or 7 bytes asks for more, any indirect jump but
\* FF 25, and any return but C2 and C3.
PassedOver(i) == i.op \in {"jmpreg", "retf"} \/ (i.op = "jmp" /\ i.len = 5)

\* The hook overwrites whole instructions of one stretch of code: control
\* goes from each of them to the next, so that nothing behind the end of the
\* function is overwritten and CopyTrampolineStub, which looks for a ret as
\* well, finds none. The limit is the ends that the scan passes over: behind
\* one of these the hook takes what it needs from whatever comes next. The
\* trampoline, longer than what it copies, fits its TRAMPOLINE_SIZE bytes.
HookAndStubFit ==
    /\ phase \in {"copy", "write", "run"} =>
          /\ final + opSize \in DOMAIN text
          /\ \A a \in Patched :
                /\ text[a].op # "ret"
                /\ \/ a + text[a].len = final + opSize
                   \/ text[a].op \in {"plain", "jcc", "call", "loop"}
                   \/ text[a].op = "jmp" /\ text[a].arg = 0
                   \/ PassedOver(text[a])
    /\ ip - StubAt <= 64

\* Functions that only jump in a circle (EB FE) have no code to hook.
JumpsInCircle ==
    LET Followed == {a \in DOMAIN text :
                        \/ text[a].op = "jmp" /\ text[a].len = 2
                           /\ text[a].arg # 0
                        \/ text[a].op = "jmpmem" /\ hookSize > text[a].len}
    IN  \E S \in SUBSET Followed :
           0 \in S /\ \A a \in S : Destination(text, a) \in S

\* The search for the code to patch ends: PatchMemory installs or refuses
\* the hook of every function that does not merely jump in a circle, for
\* which GetHookAddressAndSize never returns.
HookDecided ==
    (phase = "scan" /\ ~JumpsInCircle) ~> (phase \in {"run", "refused"})
=============================================================================
