---------------------------- MODULE PatchManager ----------------------------
(***************************************************************************)
(* Mp::MemoryPatchManager (NativeLib/my.cpp): PatchMemory installs a list  *)
(* of patches one after the other and stops at the first that fails;       *)
(* RestoreMemory undoes a function patch through the stub it filled in.    *)
(*                                                                         *)
(* Code is abstracted to what executing it does: run the original function *)
(* or jump to the replacement of a patch. A trampoline is a heap block     *)
(* with a copy of what it displaced; its bytes and the disassembly are     *)
(* left out (any patch may fail there). Each system call may fail.         *)
(* The manager has no lock: one thread at a time patches, which is how the *)
(* DLL uses it. Other threads may run the patched code between any two     *)
(* steps, so the properties are about every state. But the copy of a hook  *)
(* over the code (my.cpp:8918) and back is one step here: a thread that    *)
(* executes the very bytes meanwhile, or is inside a trampoline when that  *)
(* is freed, is left out.                                                  *)
(***************************************************************************)
EXTENDS Integers, Sequences, FiniteSets, SequencesExt

CONSTANTS
    FunctionPatches,  \* PatchType = FunctionPatch
    MemoryPatches,    \* PatchType = MemoryPatch, Data in the structure
    BackupPatches,    \* those of them with the option BackupData
    CallsOn,          \* the function patches with Function.Trampoline set
    Sites,            \* the addresses patched, jumps already followed
    SiteOf,           \* the site of each patch
    Blocks,           \* the heap blocks trampolines can occupy
    MaxCall,          \* bound: the longest list given to PatchMemory
    MaxList,          \* bound: TrampolineList; the code grows it beyond 16
    Original,         \* the code of a site as loaded
    Free,             \* the content of a block that is not allocated
    NoBlock           \* nullptr

Patches == FunctionPatches \cup MemoryPatches
Code    == Patches \cup {Original}
Saved   == [site : Sites, code : Code]

ASSUME PatchAssumption ==
    /\ FunctionPatches \cap MemoryPatches = {}
    /\ BackupPatches \subseteq MemoryPatches
    /\ CallsOn \subseteq FunctionPatches /\ IsFiniteSet(CallsOn)
    /\ SiteOf \in [Patches -> Sites]
    /\ Original \notin Patches
    /\ Free \notin Saved
    /\ NoBlock \notin Blocks
    /\ MaxCall \in Nat /\ MaxList \in 1 .. 16

VARIABLES
    code,       \* what executing each site does
    writable,   \* the sites whose page is PAGE_EXECUTE_READWRITE
    heap,       \* ExecutableHeap: what each block holds
    stub,       \* *Function.Trampoline of each patch
    list,       \* TrampolineList
    hasBuffer,  \* its buffer is allocated
    unlisted,   \* history: the blocks in use that Add did not put on it
    pc,         \* what PatchMemory or RestoreMemory does next
    todo,       \* the patches still to install, the current one first
    block,      \* TrampolineData of the current patch
    installed   \* history: the patches installed and not removed since

vars == <<code, writable, heap, stub, list, hasBuffer, unlisted, pc, todo,
          block, installed>>

Labels == {"idle", "patch", "unprotect", "write", "protect",
           "backup", "memWrite", "restore", "remove"}

TypeOK ==
    /\ code \in [Sites -> Code]
    /\ writable \in SUBSET Sites
    /\ heap \in [Blocks -> Saved \cup {Free}]
    /\ stub \in [Patches -> Blocks \cup {NoBlock}]
    /\ list \in Seq(Blocks)
    /\ hasBuffer \in BOOLEAN
    /\ unlisted \in SUBSET Blocks
    /\ pc \in Labels
    /\ todo \in Seq(Patches)
    /\ block \in Blocks \cup {NoBlock}
    /\ installed \in SUBSET Patches

Init ==
    /\ code = [s \in Sites |-> Original]
    /\ writable = {}
    /\ heap = [b \in Blocks |-> Free]
    /\ stub = [p \in Patches |-> NoBlock]
    /\ list = <<>>
    /\ hasBuffer = FALSE
    /\ unlisted = {}
    /\ pc = "idle"
    /\ todo = <<>>
    /\ block = NoBlock
    /\ installed = {}

Goto(from, to) == pc = from /\ pc' = to

Current == Head(todo)
Site    == SiteOf[Current]

\* FAIL_RETURN: PatchMemory gives up, with what it did so far left in place.
Return == todo' = <<>> /\ block' = NoBlock

(***************************************************************************)
(* PatchMemory.                                                            *)
(***************************************************************************)

\* A caller passes a list of patches that are not installed.
CallPatch ==
    /\ Goto("idle", "patch")
    /\ \E n \in 1 .. MaxCall : \E ps \in [1 .. n -> Patches \ installed] :
          IsInjective(ps) /\ todo' = ps
    /\ UNCHANGED <<code, writable, heap, stub, list, hasBuffer, unlisted,
                   block, installed>>

\* The loop is over: STATUS_SUCCESS.
PatchDone ==
    /\ todo = <<>>
    /\ Goto("patch", "idle")
    /\ UNCHANGED <<code, writable, heap, stub, list, hasBuffer, unlisted,
                   todo, block, installed>>

\* HandleFunctionPatch gives up before it changes anything: the code cannot
\* be disassembled (GetHookAddressAndSize, GenerateHookCode) or no trampoline
\* can be allocated.
FunctionFails ==
    /\ todo # <<>> /\ Current \in FunctionPatches
    /\ Goto("patch", "idle")
    /\ Return
    /\ UNCHANGED <<code, writable, heap, stub, list, hasBuffer, unlisted,
                   installed>>

\* A patch whose replacement does not call on needs no trampoline.
NoTrampoline ==
    /\ todo # <<>> /\ Current \in FunctionPatches \ CallsOn
    /\ Goto("patch", "unprotect")
    /\ UNCHANGED <<code, writable, heap, stub, list, hasBuffer, unlisted,
                   todo, block, installed>>

\* TrampolineList.Add(b): the first Add allocates a buffer of 16 entries and
\* may fail, which the manager does not notice.
ListAdd(b) ==
    /\ Len(list) < MaxList
    /\ \/ list' = Append(list, b) /\ hasBuffer' = TRUE /\ UNCHANGED unlisted
       \/ /\ ~hasBuffer /\ UNCHANGED <<list, hasBuffer>>
          /\ unlisted' = unlisted \cup {b}

\* Mutant: the stub is not set before the hook goes live.
BugStubNotSet ==
    /\ todo # <<>> /\ Current \in CallsOn
    /\ Goto("patch", "unprotect")
    /\ \E b \in Blocks :
          /\ heap[b] = Free
          /\ heap' = [heap EXCEPT ![b] = [site |-> Site, code |-> code[Site]]]
          /\ block' = b
          /\ ListAdd(b)
    /\ UNCHANGED <<code, writable, stub, todo, installed>>

\* Mutant: the block is not a fresh one.
BugBlockInUse ==
    /\ todo # <<>> /\ Current \in CallsOn
    /\ Goto("patch", "unprotect")
    /\ \E b \in Blocks :
          /\ heap' = [heap EXCEPT ![b] = [site |-> Site, code |-> code[Site]]]
          /\ stub' = [stub EXCEPT ![Current] = b]
          /\ block' = b
          /\ ListAdd(b)
    /\ UNCHANGED <<code, writable, todo, installed>>

\* Mutant: the original code is saved, not what the patch displaces.
BugSavesOriginal ==
    /\ todo # <<>> /\ Current \in CallsOn
    /\ Goto("patch", "unprotect")
    /\ \E b \in Blocks :
          /\ heap[b] = Free
          /\ heap' = [heap EXCEPT ![b] = [site |-> Site, code |-> Original]]
          /\ stub' = [stub EXCEPT ![Current] = b]
          /\ block' = b
          /\ ListAdd(b)
    /\ UNCHANGED <<code, writable, todo, installed>>

\* The trampoline is allocated and filled, the stub set, the list extended.
BuildTrampoline ==
    /\ todo # <<>> /\ Current \in CallsOn
    /\ Goto("patch", "unprotect")
    /\ \E b \in Blocks :
          /\ heap[b] = Free
          /\ heap' = [heap EXCEPT ![b] = [site |-> Site, code |-> code[Site]]]
          /\ stub' = [stub EXCEPT ![Current] = b]
          /\ block' = b
          /\ ListAdd(b)
    /\ UNCHANGED <<code, writable, todo, installed>>

\* ProtectMemory(PAGE_EXECUTE_READWRITE).
Unprotect ==
    /\ Goto("unprotect", "write")
    /\ writable' = writable \cup {Site}
    /\ UNCHANGED <<code, heap, stub, list, hasBuffer, unlisted, todo, block,
                   installed>>

\* It failed: the trampoline is freed and the patch given up; the stub and
\* the list keep pointing at the block.
UnprotectFails ==
    /\ Goto("unprotect", "idle")
    /\ heap' = [b \in Blocks |-> IF b = block THEN Free ELSE heap[b]]
    /\ unlisted' = unlisted \ {block}
    /\ Return
    /\ UNCHANGED <<code, writable, stub, list, hasBuffer, installed>>

\* The hook is copied over the code: from here on it is live.
WriteHook ==
    /\ Goto("write", "protect")
    /\ code' = [code EXCEPT ![Site] = Current]
    /\ installed' = installed \cup {Current}
    /\ UNCHANGED <<writable, heap, stub, list, hasBuffer, unlisted, todo,
                   block>>

\* The protection is put back, a failure of that being ignored, and the loop
\* goes to the next patch.
Reprotect ==
    /\ Goto("protect", "patch")
    /\ writable' \in {writable, writable \ {Site}}
    /\ todo' = Tail(todo)
    /\ block' = NoBlock
    /\ UNCHANGED <<code, heap, stub, list, hasBuffer, unlisted, installed>>

\* HandleMemoryPatch: the page is made writable, or the patch fails.
MemoryUnprotect ==
    /\ todo # <<>> /\ Current \in MemoryPatches
    /\ Goto("patch",
            IF Current \in BackupPatches THEN "backup" ELSE "memWrite")
    /\ writable' = writable \cup {Site}
    /\ UNCHANGED <<code, heap, stub, list, hasBuffer, unlisted, todo, block,
                   installed>>

MemoryFails ==
    /\ todo # <<>> /\ Current \in MemoryPatches
    /\ Goto("patch", "idle")
    /\ Return
    /\ UNCHANGED <<code, writable, heap, stub, list, hasBuffer, unlisted,
                   installed>>

\* BackupData: a trampoline record keeps the bytes; nothing points to it but
\* the list.
MemoryBackup ==
    /\ Goto("backup", "memWrite")
    /\ \E b \in Blocks :
          /\ heap[b] = Free
          /\ heap' = [heap EXCEPT ![b] = [site |-> Site, code |-> code[Site]]]
          /\ ListAdd(b)
    /\ UNCHANGED <<code, writable, stub, todo, block, installed>>

\* No memory for it: the patch fails with the page left writable.
MemoryBackupFails ==
    /\ Goto("backup", "idle")
    /\ Return
    /\ UNCHANGED <<code, writable, heap, stub, list, hasBuffer, unlisted,
                   installed>>

MemoryWrite ==
    /\ Goto("memWrite", "protect")
    /\ code' = [code EXCEPT ![Site] = Current]
    /\ installed' = installed \cup {Current}
    /\ UNCHANGED <<writable, heap, stub, list, hasBuffer, unlisted, todo,
                   block>>

(***************************************************************************)
(* RestoreMemory(stub).                                                    *)
(***************************************************************************)

\* A caller undoes a patch that PatchMemory installed and that no later patch
\* of the same site covers. (The manager checks neither; see README.)
CallRestore ==
    /\ Goto("idle", "restore")
    /\ \E p \in CallsOn \cap installed :
          /\ code[SiteOf[p]] = p
          /\ todo' = <<p>>
          /\ block' = stub[p]
    /\ UNCHANGED <<code, writable, heap, stub, list, hasBuffer, unlisted,
                   installed>>

\* Mutant: the newest trampoline of the list is undone, not the caller's.
BugRestoresNewest ==
    LET b == IF list # <<>> /\ heap[Last(list)] # Free
             THEN Last(list) ELSE block
    IN
    /\ Goto("restore", "remove")
    /\ code' = [code EXCEPT ![heap[b].site] = heap[b].code]
    /\ writable' = writable \ {heap[b].site}
    /\ installed' = installed \ {Current}
    /\ UNCHANGED <<heap, stub, list, hasBuffer, unlisted, todo, block>>

\* MemoryPatchVa copies OriginalCode to where the trampoline record says.
RestoreCode ==
    /\ Goto("restore", "remove")
    /\ code' = [code EXCEPT ![heap[block].site] = heap[block].code]
    /\ writable' \in {writable \ {heap[block].site},
                      writable \cup {heap[block].site}}
    /\ installed' = installed \ {Current}
    /\ UNCHANGED <<heap, stub, list, hasBuffer, unlisted, todo, block>>

\* ProtectMemory failed: nothing is undone.
RestoreFails ==
    /\ Goto("restore", "idle")
    /\ Return
    /\ UNCHANGED <<code, writable, heap, stub, list, hasBuffer, unlisted,
                   installed>>

\* Mutant: the trampoline is neither unlinked nor freed.
BugTrampolineKept ==
    /\ Goto("remove", "idle")
    /\ stub' = [stub EXCEPT ![Current] = NoBlock]
    /\ Return
    /\ UNCHANGED <<code, writable, heap, list, hasBuffer, unlisted,
                   installed>>

\* RemoveTrampolineData unlinks and frees the block, if the list has it, and
\* the template wrapper clears the stub in either case.
RemoveTrampoline ==
    /\ Goto("remove", "idle")
    /\ \/ /\ Contains(list, block)
          /\ list' = RemoveFirst(list, block)
          /\ heap' = [heap EXCEPT ![block] = Free]
       \/ /\ ~Contains(list, block)
          /\ UNCHANGED <<list, heap>>
    /\ stub' = [stub EXCEPT ![Current] = NoBlock]
    /\ Return
    /\ UNCHANGED <<code, writable, hasBuffer, unlisted, installed>>

Next ==
    \/ CallPatch         \/ PatchDone         \/ FunctionFails
    \/ NoTrampoline      \/ BuildTrampoline   \/ Unprotect
    \/ UnprotectFails    \/ WriteHook         \/ Reprotect
    \/ MemoryUnprotect   \/ MemoryFails       \/ MemoryBackup
    \/ MemoryBackupFails \/ MemoryWrite       \/ CallRestore
    \/ RestoreCode       \/ RestoreFails      \/ RemoveTrampoline

Spec == Init /\ [][Next]_vars

-----------------------------------------------------------------------------
(***************************************************************************)
(* Properties.                                                             *)
(***************************************************************************)

\* The trampoline a live hook p jumps through is allocated and is p's own.
StubUsable(p) ==
    /\ stub[p] # NoBlock
    /\ heap[stub[p]] # Free
    /\ heap[stub[p]].site = SiteOf[p]

\* What a call of s runs, hook after hook, following at most n stubs.
Reached(s) ==
    LET run[n \in 0 .. Cardinality(CallsOn)] ==
          IF n = 0 THEN <<code[s]>>
          ELSE LET path == run[n - 1]
                   p    == Last(path)
               IN  IF p \in CallsOn /\ StubUsable(p)
                   THEN Append(path, heap[stub[p]].code)
                   ELSE path
    IN  run[Cardinality(CallsOn)]

\* Whenever another thread calls a patched function, between any two steps of
\* the manager and after any failure, every hook on its way finds a stub that
\* is set, allocated and its own: the stub is filled before the hook is live
\* and freed after it is gone (HandleFunctionPatch, RestoreMemory).
LiveHooksCanCallOn ==
    \A s \in Sites : \A p \in ToSet(Reached(s)) \cap CallsOn : StubUsable(p)

\* Two installed hooks never share a trampoline, although a failed patch
\* leaves a stub and a list entry that point at a block given to another.
TrampolinesNotShared ==
    \A p, q \in installed \cap CallsOn :
       stub[p] = stub[q] /\ stub[p] # NoBlock => p = q

\* TrampolineList.Add may fail unnoticed, and RemoveTrampolineData frees only
\* what is on the list. That is the one way to lose a block: every block in
\* use is the trampoline of an installed hook or of the patch in progress, or
\* on the list as the backup of a memory patch, or its Add failed. In the
\* last case nothing gives it back but the failure of its own patch.
NoTrampolineLost ==
    \A b \in Blocks :
       /\ heap[b] # Free =>
             \/ \E p \in installed \cap CallsOn : stub[p] = b
             \/ b = block
             \/ Contains(list, b) /\ \E p \in BackupPatches :
                                       heap[b].site = SiteOf[p]
             \/ b \in unlisted
       /\ b \in unlisted => heap[b] # Free /\ ~Contains(list, b)

\* A step of the manager changes only the site of the patch it is working on;
\* restoring never writes through a block that has changed hands.
OnlyOwnSiteWritten ==
    [][\A s \in Sites : code'[s] # code[s] =>
         todo # <<>> /\ s = Site]_vars

\* The manager implements HookChain: whatever fails and in whatever order
\* hooks come and go, a call runs through the installed hooks, newest first.
Abstract == INSTANCE HookChain WITH
    chain <- [s \in Sites |-> Reached(s)]

ImplementsHookChain == Abstract!Spec
=============================================================================
