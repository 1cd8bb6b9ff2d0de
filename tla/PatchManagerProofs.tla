------------------------- MODULE PatchManagerProofs -------------------------
(***************************************************************************)
(* Proofs about the patch manager. PatchManager, for any patches, sites,   *)
(* heap and list: the inductive invariant says that the hooks of a site    *)
(* form a chain without branches through trampolines of their own, and     *)
(* what the operation in progress holds. Trampoline, for any functions,    *)
(* hook sizes and place of the stub, from the second half on: its          *)
(* inductive invariant says which displaced instructions have a copy, of   *)
(* what form and how far from each other.                                  *)
(***************************************************************************)
EXTENDS PatchManager, Trampoline, FiniteSetTheorems, SequenceTheorems,
        WellFoundedInduction, TLAPS

\* The installed hooks that call on, and what is below one of them.
Hooks    == installed \cap CallsOn
Below(p) == heap[stub[p]].code

\* Every installed hook jumps through its own trampoline.
OwnStubs == \A p \in Hooks : StubUsable(p)

\* What is live, and what is below a hook, is installed on the same site.
Chained ==
    /\ \A s \in Sites : code[s] \in Patches =>
          code[s] \in installed /\ SiteOf[code[s]] = s
    /\ \A p \in Hooks : Below(p) \in Patches =>
          Below(p) \in installed /\ SiteOf[Below(p)] = SiteOf[p]

\* A patch is live, or below one hook, never both.
OnePlace ==
    /\ \A p \in Hooks : Below(p) \in Patches => code[SiteOf[p]] # Below(p)
    /\ \A p, q \in Hooks : Below(p) = Below(q) /\ Below(p) \in Patches => p = q

\* The patches still to install are distinct and none is installed; once the
\* hook is written, that is so of all but the first.
Fresh ==
    /\ IsInjective(todo)
    /\ \A i \in 1 .. Len(todo) :
          pc \notin {"protect", "restore", "remove"} \/ i > 1
            => todo[i] \notin installed

\* What each program point knows of the current patch.
Phase ==
    /\ pc = "idle" => todo = <<>>
    /\ todo = <<>> => pc \in {"idle", "patch"}
    /\ pc \in {"restore", "remove"} => Len(todo) = 1
    /\ pc \in {"unprotect", "write"} => Current \in FunctionPatches
    /\ pc = "memWrite" => Current \in MemoryPatches
    /\ pc = "backup" => Current \in BackupPatches
    /\ pc \in {"protect", "restore"} => Current \in installed
    /\ pc = "restore" => Current \in CallsOn /\ code[Site] = Current
    /\ pc = "remove" => Current \in CallsOn \ installed

\* What the operation in progress holds in block.
Held ==
    /\ pc \in {"idle", "patch", "backup", "memWrite"} => block = NoBlock
    /\ block # NoBlock => Current \in CallsOn /\ stub[Current] = block
    /\ pc \in {"unprotect", "write"} /\ Current \in CallsOn =>
          /\ block # NoBlock
          /\ heap[block] = [site |-> Site, code |-> code[Site]]
    /\ pc \in {"unprotect", "write", "remove"} =>
          \A q \in Hooks : stub[q] # block
    /\ pc \in {"restore", "remove"} => block # NoBlock /\ heap[block] # Free

\* A block in use is the trampoline of an installed hook or of the patch in
\* progress, a backup, or not on the list; and it is on the list if its Add
\* did not fail, which takes a list without buffer.
Kept ==
    /\ ~hasBuffer => list = <<>>
    /\ \A b \in Blocks :
       /\ heap[b] # Free =>
             \/ \E p \in Hooks : stub[p] = b
             \/ b = block
             \/ \E p \in BackupPatches : heap[b].site = SiteOf[p]
             \/ b \in unlisted
       /\ b \in unlisted => heap[b] # Free /\ ~Contains(list, b)
       /\ heap[b] # Free => b \in unlisted \/ Contains(list, b)

IInv ==
    /\ TypeOK
    /\ OwnStubs
    /\ TrampolinesNotShared
    /\ Chained
    /\ OnePlace
    /\ Fresh
    /\ Phase
    /\ Held
    /\ Kept

-----------------------------------------------------------------------------
LEMMA InitInv == Init => IInv
<1>0. <<>> \in Seq(Blocks) /\ <<>> \in Seq(Patches)
    OBVIOUS
<1>1. Init => TypeOK
    BY <1>0, PatchAssumption DEF Init, TypeOK, Labels, Code
<1>2. Init => Fresh
    BY DEF Init, Fresh, IsInjective
<1> QED
    BY <1>1, <1>2, PatchAssumption
    DEF Init, IInv, OwnStubs, Hooks, TrampolinesNotShared, Chained, Code,
        OnePlace, Phase, Held, Kept

\* The chains depend on the code, the installed hooks and their trampolines.
LEMMA ChainsFrame ==
    ASSUME OwnStubs, TrampolinesNotShared, Chained, OnePlace,
           UNCHANGED <<code, installed>>,
           \A p \in Hooks :
              stub'[p] = stub[p] /\ heap'[stub[p]] = heap[stub[p]]
    PROVE  OwnStubs' /\ TrampolinesNotShared' /\ Chained' /\ OnePlace'
BY DEF OwnStubs, Hooks, Below, StubUsable, TrampolinesNotShared, Chained,
       OnePlace

LEMMA CallPatchInv == IInv /\ CallPatch => IInv'
<1> SUFFICES ASSUME IInv, CallPatch PROVE IInv'
    OBVIOUS
<1> USE DEF CallPatch, Goto, IInv
<1>0. PICK n \in 1 .. MaxCall :
          \E ps \in [1 .. n -> Patches \ installed] :
             IsInjective(ps) /\ todo' = ps
    OBVIOUS
<1>1. PICK ps \in [1 .. n -> Patches \ installed] :
          IsInjective(ps) /\ todo' = ps
    BY <1>0
<1>2. todo' \in Seq(Patches) /\ Len(todo') = n
    BY <1>1, PatchAssumption
<1>3. \A i \in 1 .. Len(todo') : todo'[i] \notin installed
    BY <1>1, <1>2
<1>4. TypeOK'
    BY <1>2 DEF TypeOK, Labels
<1>5. Fresh'
    BY <1>1, <1>3 DEF Fresh, IsInjective
<1>6. Phase' /\ Held'
    BY <1>1, <1>2 DEF Phase, Held
<1>7. Kept'
    BY DEF Kept, Hooks
<1> QED BY ChainsFrame, <1>4, <1>5, <1>6, <1>7

\* The operation ends, or gives up with what it did so far left in place.
LEMMA ReturnInv ==
    ASSUME IInv, pc' = "idle", todo' = <<>>, block' = NoBlock,
           \/ block = NoBlock
           \/ pc = "restore",
           UNCHANGED <<code, heap, stub, list, hasBuffer, installed>>,
           UNCHANGED <<unlisted, writable>>
    PROVE  IInv'
<1> USE DEF IInv
<1>1. TypeOK'
    BY PatchAssumption DEF TypeOK, Labels
<1>2. Fresh' /\ Phase' /\ Held'
    BY DEF Fresh, Phase, Held, IsInjective
<1>3. Kept'
  <2>1. block # NoBlock => Current \in Hooks /\ stub[Current] = block
      BY DEF Phase, Held, Hooks
  <2> QED
      BY <2>1 DEF Kept, Hooks, TypeOK
<1> QED BY ChainsFrame, <1>1, <1>2, <1>3

LEMMA ReturnsInv ==
    IInv /\ (\/ PatchDone \/ FunctionFails \/ MemoryFails
             \/ MemoryBackupFails \/ RestoreFails) => IInv'
BY ReturnInv
DEF PatchDone, FunctionFails, MemoryFails, MemoryBackupFails, RestoreFails,
    Goto, Return, IInv, Held, TypeOK

\* Steps that change neither the chains nor the heap, and keep todo.
LEMMA NoTrampolineInv == IInv /\ NoTrampoline => IInv'
<1> SUFFICES ASSUME IInv, NoTrampoline PROVE IInv'
    OBVIOUS
<1> USE DEF NoTrampoline, Goto, IInv
<1>1. TypeOK'
    BY DEF TypeOK, Labels
<1>2. Fresh' /\ Phase'
    BY DEF Fresh, Phase, Current
<1>3. Held'
    BY DEF Held, Hooks, OwnStubs, StubUsable, Current
<1>4. Kept'
    BY DEF Kept, Hooks
<1> QED BY ChainsFrame, <1>1, <1>2, <1>3, <1>4

LEMMA UnprotectInv == IInv /\ Unprotect => IInv'
<1> SUFFICES ASSUME IInv, Unprotect PROVE IInv'
    OBVIOUS
<1> USE DEF Unprotect, Goto, IInv
<1>1. TypeOK'
  <2>1. Site \in Sites
      BY PatchAssumption DEF Phase, TypeOK, Site, Patches
  <2> QED BY <2>1 DEF TypeOK, Labels
<1>2. Fresh' /\ Phase'
    BY DEF Fresh, Phase, Current
<1>3. Held'
    BY DEF Held, Hooks, Current, Site
<1>4. Kept'
    BY DEF Kept, Hooks
<1> QED BY ChainsFrame, <1>1, <1>2, <1>3, <1>4

LEMMA MemoryUnprotectInv == IInv /\ MemoryUnprotect => IInv'
<1> SUFFICES ASSUME IInv, MemoryUnprotect PROVE IInv'
    OBVIOUS
<1> USE DEF MemoryUnprotect, Goto, IInv
<1>1. TypeOK'
  <2>1. Site \in Sites
      BY PatchAssumption DEF Phase, TypeOK, Site, Patches
  <2> QED BY <2>1 DEF TypeOK, Labels
<1>2. Fresh' /\ Phase'
    BY DEF Fresh, Phase, Current
<1>3. Held'
    BY DEF Held, Hooks, Current, Site
<1>4. Kept'
    BY DEF Kept, Hooks
<1> QED BY ChainsFrame, <1>1, <1>2, <1>3, <1>4

LEMMA CallRestoreInv == IInv /\ CallRestore => IInv'
<1> SUFFICES ASSUME IInv, CallRestore PROVE IInv'
    OBVIOUS
<1> USE DEF CallRestore, Goto, IInv
<1>1. PICK p \in Hooks :
         code[SiteOf[p]] = p /\ todo' = <<p>> /\ block' = stub[p]
    BY DEF Hooks
<1>2. p \in Patches /\ Len(todo') = 1 /\ Current' = p /\ Site' = SiteOf[p]
    BY <1>1, PatchAssumption DEF Hooks, TypeOK, Current, Site
<1>3. TypeOK'
    BY <1>1, <1>2 DEF TypeOK, Labels
<1>4. Fresh'
    BY <1>1, <1>2 DEF Fresh, IsInjective
<1>5. Phase'
    BY <1>1, <1>2 DEF Phase, Hooks
<1>6. Held'
    BY <1>1, <1>2 DEF Held, Hooks, OwnStubs, StubUsable
<1>7. Kept'
    BY PatchAssumption DEF Kept, Hooks, Held, TypeOK
<1> QED BY ChainsFrame, <1>3, <1>4, <1>5, <1>6, <1>7

\* What TrampolineList.Add and Remove do to the contents of the list.
LEMMA ListAddContents ==
    ASSUME TypeOK, NEW b \in Blocks, ListAdd(b)
    PROVE  /\ list' \in Seq(Blocks)
           /\ hasBuffer' \in BOOLEAN
           /\ unlisted' \in SUBSET Blocks
           /\ \A c : Contains(list', c) => Contains(list, c) \/ c = b
           /\ \A c : Contains(list, c) => Contains(list', c)
           /\ \/ unlisted' = unlisted /\ hasBuffer' /\ Contains(list', b)
              \/ unlisted' = unlisted \cup {b} /\ ~hasBuffer
                 /\ UNCHANGED <<list, hasBuffer>>
<1>1. CASE list' = Append(list, b) /\ hasBuffer' = TRUE /\ UNCHANGED unlisted
  <2>1. /\ list' \in Seq(Blocks) /\ Len(list') = Len(list) + 1
        /\ \A i \in 1 .. Len(list) : list'[i] = list[i]
        /\ list'[Len(list) + 1] = b
      BY <1>1, AppendProperties DEF TypeOK
  <2>2. Len(list) \in Nat /\ unlisted' \in SUBSET Blocks
      BY <1>1, LenProperties DEF TypeOK
  <2>3. /\ \A i \in 1 .. Len(list) : i \in 1 .. Len(list')
        /\ Len(list) + 1 \in 1 .. Len(list')
        /\ \A i \in 1 .. Len(list') : i \in 1 .. Len(list) \/ i = Len(list) + 1
      BY <2>1, <2>2
  <2>4. \A c : Contains(list', c) <=> Contains(list, c) \/ c = b
      BY <2>1, <2>3 DEF Contains
  <2> QED BY <1>1, <2>1, <2>2, <2>4
<1>2. CASE /\ ~hasBuffer /\ UNCHANGED <<list, hasBuffer>>
           /\ unlisted' = unlisted \cup {b}
    BY <1>2 DEF TypeOK
<1> QED BY <1>1, <1>2 DEF ListAdd

\* A set of natural numbers that is not empty has a least element.
Smaller == {pair \in Nat \X Nat : pair[1] < pair[2]}

LEMMA SmallerWellFounded == IsWellFoundedOn(Smaller, Nat)
<1>1. OpToRel(<, Nat) = Smaller
    BY Zenon DEF OpToRel, Smaller
<1> QED BY <1>1, NatLessThanWellFounded

LEMMA LeastNat ==
    ASSUME NEW I \in SUBSET Nat, I # {}
    PROVE  \E m \in I : \A j \in I : m <= j
<1>1. PICK m \in I : \A j \in I : ~ (<<j, m>> \in Smaller)
    BY WFMin, SmallerWellFounded
<1>2. \A j \in I : j < m => <<j, m>> \in Smaller
    BY DEF Smaller
<1>3. m \in Nat /\ \A j \in I : j \in Nat /\ ~ (j < m)
    BY <1>1, <1>2
<1>4. \A j \in I : m <= j
    BY <1>3
<1> QED BY <1>4

LEMMA RemoveFirstContents ==
    ASSUME NEW l \in Seq(Blocks), NEW b, Contains(l, b)
    PROVE  /\ RemoveFirst(l, b) \in Seq(Blocks)
           /\ \A c : Contains(RemoveFirst(l, b), c) => Contains(l, c)
           /\ \A c : Contains(l, c) /\ c # b => Contains(RemoveFirst(l, b), c)
<1> DEFINE I == {i \in 1 .. Len(l) : l[i] = b}
           k == Min(I)
           x == SubSeq(l, 1, k - 1)
           y == SubSeq(l, k + 1, Len(l))
<1>1. Len(l) \in Nat
    BY LenProperties
<1>2. k \in 1 .. Len(l) /\ l[k] = b
  <2>1. I \in SUBSET Nat /\ I # {}
      BY <1>1 DEF Contains
  <2>2. Min(I) \in I
      BY <2>1, LeastNat DEF Min
  <2> QED BY <2>2
<1>3. RemoveFirst(l, b) = x \o y
    BY DEF RemoveFirst, Contains, RemoveAt, SelectInSeq
<1> HIDE DEF k
<1>4. x \in Seq(Blocks) /\ Len(x) = k - 1
      /\ \A i \in 1 .. k - 1 : x[i] = l[i]
    BY <1>1, <1>2, SubSeqProperties
<1>5. y \in Seq(Blocks) /\ Len(y) = Len(l) - k
      /\ \A i \in 1 .. Len(l) - k : y[i] = l[k + i]
    BY <1>1, <1>2, SubSeqProperties
<1> HIDE DEF x, y
<1>6. x \o y \in Seq(Blocks) /\ Len(x \o y) = Len(x) + Len(y)
      /\ \A i \in 1 .. Len(x) + Len(y) :
            (x \o y)[i] = IF i <= Len(x) THEN x[i] ELSE y[i - Len(x)]
    BY <1>4, <1>5, ConcatProperties
<1>7. \A i \in 1 .. Len(x \o y) :
         \E j \in 1 .. Len(l) : (x \o y)[i] = l[j]
  <2> TAKE i \in 1 .. Len(x \o y)
  <2>0. k \in Nat /\ i \in 1 .. Len(x) + Len(y)
      BY <1>2, <1>6
  <2>1. CASE i <= Len(x)
    <3>1. i \in 1 .. k - 1 /\ i \in 1 .. Len(l)
        BY <1>1, <1>2, <1>4, <1>5, <2>0, <2>1
    <3> QED BY <1>4, <1>6, <2>0, <2>1, <3>1
  <2>2. CASE ~(i <= Len(x))
    <3>1. i - Len(x) \in 1 .. Len(l) - k /\ k + (i - Len(x)) \in 1 .. Len(l)
        BY <1>1, <1>2, <1>4, <1>5, <2>0, <2>2
    <3>2. (x \o y)[i] = y[i - Len(x)]
        BY <1>6, <2>0, <2>2
    <3> QED BY <1>5, <3>1, <3>2
  <2> QED BY <2>1, <2>2
<1>8. \A c : Contains(x \o y, c) => Contains(l, c)
    BY <1>7 DEF Contains
<1>9. ASSUME NEW i \in 1 .. Len(l), i # k
      PROVE  \E j \in 1 .. Len(x \o y) : (x \o y)[j] = l[i]
  <2>1. CASE i < k
    <3>1. i \in 1 .. Len(x) + Len(y) /\ i <= Len(x) /\ i \in 1 .. k - 1
        BY <1>1, <1>2, <1>4, <1>5, <2>1
    <3> QED BY <1>4, <1>6, <3>1
  <2>2. CASE ~(i < k)
    <3>1. /\ i - 1 \in 1 .. Len(x) + Len(y) /\ ~(i - 1 <= Len(x))
          /\ (i - 1) - Len(x) = i - k /\ i - k \in 1 .. Len(l) - k
          /\ k + (i - k) = i
        BY <1>1, <1>2, <1>4, <1>5, <1>9, <2>2
    <3>2. (x \o y)[i - 1] = y[i - k]
        BY <1>6, <3>1
    <3> QED BY <1>5, <1>6, <3>1, <3>2
  <2> QED BY <2>1, <2>2
<1>10. \A c : Contains(l, c) /\ c # b => Contains(x \o y, c)
    BY <1>2, <1>9 DEF Contains
<1> QED BY <1>3, <1>6, <1>8, <1>10

LEMMA BuildTrampolineInv == IInv /\ BuildTrampoline => IInv'
<1> SUFFICES ASSUME IInv, BuildTrampoline PROVE IInv'
    OBVIOUS
<1> USE DEF BuildTrampoline, Goto, IInv
<1>1. PICK b \in Blocks :
          /\ heap[b] = Free
          /\ heap' = [heap EXCEPT ![b] = [site |-> Site, code |-> code[Site]]]
          /\ stub' = [stub EXCEPT ![Current] = b]
          /\ block' = b
          /\ ListAdd(b)
    OBVIOUS
<1>2. Current \in CallsOn /\ Current \notin installed /\ Current' = Current
  <2>1. 1 \in 1 .. Len(todo) /\ Current = todo[1]
      BY LenProperties, EmptySeq DEF TypeOK, Current
  <2> QED BY <2>1 DEF Fresh, Current
<1>3. Site \in Sites /\ Site' = Site /\ Current \in Patches
    BY <1>2, PatchAssumption DEF Patches, Site
<1>4. [site |-> Site, code |-> code[Site]] \in Saved
    BY <1>3 DEF TypeOK, Saved
<1>5. TypeOK'
    BY <1>1, <1>3, <1>4, ListAddContents DEF TypeOK, Labels
<1>6. Fresh' /\ Phase'
    BY <1>2, PatchAssumption DEF Fresh, Phase
<1>7. heap'[b] = [site |-> Site, code |-> code[Site]] /\ heap'[b] # Free
      /\ stub'[Current] = b /\ b # NoBlock
    BY <1>1, <1>3, <1>4, PatchAssumption DEF TypeOK
<1>8. \A p \in Hooks : /\ stub'[p] = stub[p] /\ stub[p] # b
                      /\ heap'[stub[p]] = heap[stub[p]]
    BY <1>1, <1>2, PatchAssumption DEF Hooks, OwnStubs, StubUsable, TypeOK
<1>9. Held'
    BY <1>1, <1>2, <1>3, <1>7, <1>8 DEF Held, Hooks
<1>10. Kept'
  <2>1. \A c \in Blocks \ {b} : heap'[c] = heap[c]
      BY <1>1 DEF TypeOK
  <2>2. block = NoBlock /\ b \notin unlisted /\ list \in Seq(Blocks)
      BY <1>1 DEF Held, Kept, TypeOK
  <2>3. ~Contains(<<>>, b)
      BY DEF Contains
  <2> QED
      BY <1>1, <1>7, <1>8, <2>1, <2>2, <2>3, ListAddContents, PatchAssumption
      DEF Kept, Hooks
<1> QED BY ChainsFrame, <1>5, <1>6, <1>8, <1>9, <1>10

LEMMA UnprotectFailsInv == IInv /\ UnprotectFails => IInv'
<1> SUFFICES ASSUME IInv, UnprotectFails PROVE IInv'
    OBVIOUS
<1> USE DEF UnprotectFails, Goto, Return, IInv
<1>1. TypeOK'
    BY PatchAssumption DEF TypeOK, Labels
<1>2. \A p \in Hooks : stub[p] \in Blocks /\ heap'[stub[p]] = heap[stub[p]]
    BY PatchAssumption DEF Hooks, OwnStubs, StubUsable, TypeOK, Held
<1>3. Fresh' /\ Phase' /\ Held'
    BY DEF Fresh, Phase, Held, IsInjective
<1>4. Kept'
    BY <1>2 DEF Kept, Hooks, TypeOK
<1> QED BY ChainsFrame, <1>1, <1>2, <1>3, <1>4

LEMMA MemoryBackupInv == IInv /\ MemoryBackup => IInv'
<1> SUFFICES ASSUME IInv, MemoryBackup PROVE IInv'
    OBVIOUS
<1> USE DEF MemoryBackup, Goto, IInv
<1>1. PICK b \in Blocks :
          /\ heap[b] = Free
          /\ heap' = [heap EXCEPT ![b] = [site |-> Site, code |-> code[Site]]]
          /\ ListAdd(b)
    OBVIOUS
<1>2. Site \in Sites /\ Site' = Site /\ Current' = Current
    BY PatchAssumption DEF Phase, TypeOK, Patches, Site, Current
<1>3. [site |-> Site, code |-> code[Site]] \in Saved
    BY <1>2 DEF TypeOK, Saved
<1>4. TypeOK'
    BY <1>1, <1>3, ListAddContents DEF TypeOK, Labels
<1>5. Fresh' /\ Phase' /\ Held'
    BY <1>2, PatchAssumption DEF Fresh, Phase, Held
<1>6. \A p \in Hooks : stub[p] # b /\ heap'[stub[p]] = heap[stub[p]]
    BY <1>1, PatchAssumption DEF Hooks, OwnStubs, StubUsable, TypeOK
<1>7. Kept'
  <2>1. heap'[b].site = SiteOf[Current] /\ Current \in BackupPatches
      BY <1>1, <1>2, <1>3 DEF Phase, TypeOK, Site
  <2>2. \A c \in Blocks \ {b} : heap'[c] = heap[c]
      BY <1>1 DEF TypeOK
  <2>3. b \notin unlisted /\ ~Contains(<<>>, b) /\ heap'[b] # Free
      BY <1>1, <1>3, PatchAssumption DEF Kept, Contains, TypeOK
  <2> QED
      BY <1>1, <1>6, <2>1, <2>2, <2>3, ListAddContents DEF Kept, Hooks
<1> QED BY ChainsFrame, <1>4, <1>5, <1>6, <1>7

\* What a step that writes a patch over the live code of its site does.
Written ==
    /\ pc \in {"write", "memWrite"} /\ pc' = "protect"
    /\ code' = [code EXCEPT ![Site] = Current]
    /\ installed' = installed \cup {Current}
    /\ UNCHANGED <<writable, heap, stub, list, hasBuffer, todo, block>>
    /\ unlisted' = unlisted
    /\ Current \in Patches \ installed /\ Site \in Sites
    /\ Current' = Current /\ Site = SiteOf[Current]
    /\ code' \in [Sites -> Code] /\ code'[Site] = Current
    /\ \A s \in Sites \ {Site} : code'[s] = code[s]
    /\ Hooks' = IF Current \in CallsOn THEN Hooks \cup {Current} ELSE Hooks
    /\ Current \in CallsOn =>
          /\ StubUsable(Current) /\ Below(Current) = code[Site]
          /\ stub[Current] = block /\ \A q \in Hooks : stub[q] # block

LEMMA WrittenFacts == IInv /\ (WriteHook \/ MemoryWrite) => Written
<1> SUFFICES ASSUME IInv, WriteHook \/ MemoryWrite PROVE Written
    OBVIOUS
<1> USE DEF Goto, IInv
<1>1. /\ pc \in {"write", "memWrite"} /\ pc' = "protect"
      /\ code' = [code EXCEPT ![Site] = Current]
      /\ installed' = installed \cup {Current}
      /\ UNCHANGED <<writable, heap, stub, list, hasBuffer, todo, block>>
      /\ unlisted' = unlisted
    BY DEF WriteHook, MemoryWrite
<1>2. /\ Current \in Patches \ installed /\ Site \in Sites
      /\ Current' = Current /\ Site = SiteOf[Current]
      /\ Current \in CallsOn =>
            /\ pc = "write" /\ block \in Blocks /\ stub[Current] = block
            /\ heap[block] = [site |-> Site, code |-> code[Site]]
            /\ heap[block] # Free
            /\ \A q \in Hooks : stub[q] # block
  <2>1. 1 \in 1 .. Len(todo) /\ Current = todo[1]
      BY <1>1, LenProperties, EmptySeq DEF TypeOK, Current, Phase
  <2>2. Current \in Patches \ installed /\ Site \in Sites
      BY <1>1, <2>1, PatchAssumption DEF Fresh, Site, TypeOK, Patches, Phase
  <2>3. Current \in CallsOn => pc = "write"
      BY <1>1, PatchAssumption DEF Phase
  <2>4. [site |-> Site, code |-> code[Site]] \in Saved
      BY <2>2 DEF TypeOK, Saved
  <2> QED
      BY <1>1, <2>2, <2>3, <2>4, PatchAssumption
      DEF Held, TypeOK, Current, Site
<1>3. code' \in [Sites -> Code] /\ code'[Site] = Current
      /\ \A s \in Sites \ {Site} : code'[s] = code[s]
    BY <1>1, <1>2 DEF TypeOK, Code
<1>4. Hooks' = IF Current \in CallsOn THEN Hooks \cup {Current} ELSE Hooks
    BY <1>1 DEF Hooks
<1>5. Current \in CallsOn => StubUsable(Current) /\ Below(Current) = code[Site]
    BY <1>2, PatchAssumption DEF StubUsable, Below, TypeOK
<1> QED BY <1>1, <1>2, <1>3, <1>4, <1>5 DEF Written

LEMMA WriteHookInv == IInv /\ (WriteHook \/ MemoryWrite) => IInv'
<1> SUFFICES ASSUME IInv, WriteHook \/ MemoryWrite PROVE IInv'
    OBVIOUS
<1> USE DEF IInv
<1>1. Written
    BY WrittenFacts
<1> USE DEF Written
<1>2. TypeOK'
    BY <1>1 DEF TypeOK, Labels
<1>3. OwnStubs'
    BY <1>1 DEF OwnStubs, StubUsable
<1>4. TrampolinesNotShared'
    BY <1>1 DEF TrampolinesNotShared, Hooks
<1>5. Chained'
  <2>1. ASSUME NEW s \in Sites, code'[s] \in Patches
        PROVE  code'[s] \in installed' /\ SiteOf[code'[s]] = s
      BY <1>1, <2>1 DEF Chained
  <2>2. ASSUME NEW p \in Hooks', Below(p)' \in Patches
        PROVE  Below(p)' \in installed' /\ SiteOf[Below(p)'] = SiteOf[p]
      BY <1>1, <2>2 DEF Chained, Below
  <2> QED BY <2>1, <2>2 DEF Chained
<1>6. OnePlace'
  <2>1. ASSUME NEW p \in Hooks', Below(p)' \in Patches
        PROVE  code'[SiteOf[p]] # Below(p)'
      BY <1>1, <2>1, PatchAssumption
      DEF OnePlace, Chained, Below, Hooks, TypeOK
  <2>2. ASSUME NEW p \in Hooks', NEW q \in Hooks', Below(p)' = Below(q)',
               Below(p)' \in Patches
        PROVE  p = q
      BY <1>1, <2>2 DEF OnePlace, Below, Chained
  <2> QED BY <2>1, <2>2 DEF OnePlace
<1>7. Fresh'
  <2>1. \A i \in 1 .. Len(todo) : i > 1 => todo[i] # Current
    <3>1. 1 \in 1 .. Len(todo) /\ Current = todo[1]
        BY <1>1, LenProperties, EmptySeq DEF TypeOK, Current, Phase
    <3>2. DOMAIN todo = 1 .. Len(todo) /\ Len(todo) \in Nat
        BY LenProperties DEF TypeOK
    <3> QED BY <3>1, <3>2 DEF Fresh, IsInjective
  <2> QED BY <1>1, <2>1 DEF Fresh
<1>8. Phase'
    BY <1>1 DEF Phase
<1>9. Held'
    BY <1>1 DEF Held
<1>10. Kept'
    BY <1>1 DEF Kept
<1> QED BY <1>2, <1>3, <1>4, <1>5, <1>6, <1>7, <1>8, <1>9, <1>10

LEMMA ReprotectInv == IInv /\ Reprotect => IInv'
<1> SUFFICES ASSUME IInv, Reprotect PROVE IInv'
    OBVIOUS
<1> USE DEF Reprotect, Goto, IInv
<1>1. todo # <<>> /\ Site \in Sites /\ Current \in installed
    BY PatchAssumption DEF Phase, TypeOK, Site, Patches
<1>2. /\ todo' \in Seq(Patches) /\ Len(todo) \in Nat \ {0}
      /\ Len(todo') = Len(todo) - 1
      /\ \A i \in 1 .. Len(todo') : todo'[i] = todo[i + 1]
      /\ DOMAIN todo = 1 .. Len(todo) /\ DOMAIN todo' = 1 .. Len(todo')
    BY <1>1, HeadTailProperties, LenProperties, EmptySeq DEF TypeOK
<1>3. TypeOK'
    BY <1>1, <1>2, PatchAssumption DEF TypeOK, Labels
<1>4. Fresh'
  <2>1. \A i \in 1 .. Len(todo') : i + 1 \in 1 .. Len(todo) /\ i + 1 > 1
      BY <1>2
  <2>2. \A i \in 1 .. Len(todo') : todo'[i] \notin installed
      BY <1>2, <2>1 DEF Fresh
  <2>3. \A i, j \in 1 .. Len(todo') : todo'[i] = todo'[j] => i = j
    <3> SUFFICES ASSUME NEW i \in 1 .. Len(todo'),
                        NEW j \in 1 .. Len(todo'), todo'[i] = todo'[j]
                 PROVE  i = j
        OBVIOUS
    <3>1. i + 1 = j + 1
        BY <1>2, <2>1 DEF Fresh, IsInjective
    <3> QED BY <1>2, <3>1
  <2> QED BY <1>2, <2>2, <2>3 DEF Fresh, IsInjective
<1>5. Phase' /\ Held'
    BY DEF Phase, Held
<1>6. Kept'
    BY <1>1 DEF Kept, Hooks, Held
<1> QED BY ChainsFrame, <1>3, <1>4, <1>5, <1>6

\* The patch undone is the live one, and the block still its trampoline.
LEMMA RestoredFacts ==
    ASSUME IInv, pc = "restore"
    PROVE  /\ Current \in Hooks /\ Site \in Sites /\ Site = SiteOf[Current]
           /\ block \in Blocks /\ block = stub[Current]
           /\ heap[block] \in Saved
           /\ heap[block].site = Site /\ heap[block].code = Below(Current)
           /\ code[Site] = Current
           /\ \A q \in Hooks : Below(q) # Current
           /\ \A q \in Hooks : stub[q] = block => q = Current
<1>1. Current \in Hooks /\ code[Site] = Current /\ Site = SiteOf[Current]
    BY DEF IInv, Phase, Hooks, Site
<1>2. block \in Blocks /\ block = stub[Current] /\ heap[block] # Free
      /\ Site \in Sites /\ Current \in Patches
    BY <1>1, PatchAssumption DEF IInv, Held, TypeOK, Hooks
<1>3. heap[block] \in Saved /\ heap[block].site = Site
    BY <1>1, <1>2 DEF IInv, TypeOK, OwnStubs, StubUsable
<1>4. \A q \in Hooks : Below(q) # Current
    BY <1>1, <1>2 DEF IInv, Chained, OnePlace
<1>5. \A q \in Hooks : stub[q] = block => q = Current
    BY <1>1, <1>2, PatchAssumption DEF IInv, TrampolinesNotShared, Hooks
<1> QED BY <1>1, <1>2, <1>3, <1>4, <1>5 DEF Below

LEMMA RestoreCodeInv == IInv /\ RestoreCode => IInv'
<1> SUFFICES ASSUME IInv, RestoreCode PROVE IInv'
    OBVIOUS
<1> USE DEF RestoreCode, Goto, IInv
<1>1. /\ Current \in Hooks /\ Site \in Sites /\ Site = SiteOf[Current]
      /\ block \in Blocks /\ block = stub[Current]
      /\ heap[block] \in Saved
      /\ heap[block].site = Site /\ heap[block].code = Below(Current)
      /\ code[Site] = Current
      /\ \A q \in Hooks : Below(q) # Current
      /\ \A q \in Hooks : stub[q] = block => q = Current
    BY RestoredFacts
<1>2. /\ code' \in [Sites -> Code] /\ code'[Site] = Below(Current)
      /\ \A s \in Sites \ {Site} : code'[s] = code[s]
    BY <1>1 DEF TypeOK, Saved
<1>3. Hooks' = Hooks \ {Current}
    BY DEF Hooks
<1>4. TypeOK'
    BY <1>1, <1>2 DEF TypeOK, Labels
<1>5. OwnStubs'
    BY <1>3 DEF OwnStubs, StubUsable
<1>6. TrampolinesNotShared'
    BY <1>3 DEF TrampolinesNotShared, Hooks
<1>7. Chained'
  <2>1. ASSUME NEW s \in Sites, code'[s] \in Patches
        PROVE  code'[s] \in installed' /\ SiteOf[code'[s]] = s
      BY <1>1, <1>2, <2>1 DEF Chained
  <2>2. ASSUME NEW q \in Hooks', Below(q)' \in Patches
        PROVE  Below(q)' \in installed' /\ SiteOf[Below(q)'] = SiteOf[q]
      BY <1>1, <1>3, <2>2 DEF Chained, Below
  <2> QED BY <2>1, <2>2 DEF Chained
<1>8. OnePlace'
  <2>1. ASSUME NEW q \in Hooks', Below(q)' \in Patches
        PROVE  code'[SiteOf[q]] # Below(q)'
      BY <1>1, <1>2, <1>3, <2>1, PatchAssumption
      DEF OnePlace, Below, Hooks, TypeOK
  <2>2. ASSUME NEW q \in Hooks', NEW r \in Hooks', Below(q)' = Below(r)',
               Below(q)' \in Patches
        PROVE  q = r
      BY <1>3, <2>2 DEF OnePlace, Below
  <2> QED BY <2>1, <2>2 DEF OnePlace
<1>9. Fresh'
    BY DEF Fresh, IsInjective, Phase
<1>10. Phase'
    BY <1>1 DEF Phase, Hooks, Current
<1>11. Held'
    BY <1>1, <1>3 DEF Held, Hooks, Current, Site
<1>12. Kept'
    BY <1>1, <1>3 DEF Kept
<1> QED BY <1>4, <1>5, <1>6, <1>7, <1>8, <1>9, <1>10, <1>11, <1>12

LEMMA RemoveTrampolineInv == IInv /\ RemoveTrampoline => IInv'
<1> SUFFICES ASSUME IInv, RemoveTrampoline PROVE IInv'
    OBVIOUS
<1> USE DEF RemoveTrampoline, Goto, Return, IInv
<1>1. block \in Blocks /\ Current \notin installed
    BY DEF Held, Phase, TypeOK
<1>2. list' \in Seq(Blocks) /\ heap' \in [Blocks -> Saved \cup {Free}]
      /\ \A b \in Blocks \ {block} :
            heap'[b] = heap[b] /\ (Contains(list, b) <=> Contains(list', b))
      /\ \/ Contains(list, block) /\ heap'[block] = Free
         \/ UNCHANGED <<list, heap>> /\ ~Contains(list, block)
    BY <1>1, RemoveFirstContents DEF TypeOK
<1>3. \A p \in Hooks : /\ stub'[p] = stub[p] /\ stub[p] # block
                      /\ heap'[stub[p]] = heap[stub[p]]
  <2>1. \A p \in Hooks : stub[p] \in Blocks /\ stub[p] # block
      BY PatchAssumption DEF Hooks, Held, TypeOK, OwnStubs, StubUsable
  <2>2. \A b \in Blocks \ {block} : heap'[b] = heap[b]
      BY <1>1 DEF TypeOK
  <2> QED BY <1>1, <2>1, <2>2 DEF Hooks, TypeOK
<1>4. TypeOK'
  <2>1. stub' \in [Patches -> Blocks \cup {NoBlock}]
      BY DEF TypeOK
  <2>2. todo' = <<>> /\ pc' = "idle" /\ block' = NoBlock
        /\ UNCHANGED <<code, writable, hasBuffer, installed>>
      OBVIOUS
  <2> QED BY <1>2, <2>1, <2>2 DEF TypeOK, Labels
<1>5. Fresh' /\ Phase' /\ Held'
    BY DEF Fresh, Phase, Held, IsInjective
<1>6. Kept'
  <2>1. ~hasBuffer => list' = <<>>
      BY <1>2 DEF Kept, Contains
  <2> QED BY <1>1, <1>2, <1>3, <2>1 DEF Kept, Hooks, Held
<1> QED BY ChainsFrame, <1>3, <1>4, <1>5, <1>6

LEMMA StutterInv == IInv /\ UNCHANGED vars => IInv'
<1> SUFFICES ASSUME IInv, UNCHANGED vars PROVE IInv'
    OBVIOUS
<1> USE DEF vars, IInv
<1>1. TypeOK' /\ Fresh' /\ Kept'
    BY DEF TypeOK, Fresh, Kept, Hooks
<1>2. Phase' /\ Held'
    BY DEF Phase, Held, Hooks, Current, Site
<1> QED BY ChainsFrame, <1>1, <1>2

\* The invariant: whatever fails, each installed hook keeps the stub and the
\* bytes it was built with, allocated and its own, and the hooks of one site
\* are stacked from the newest down to its code.
THEOREM Invariance == Spec => []IInv
<1>1. IInv /\ [Next]_vars => IInv'
    BY CallPatchInv, ReturnsInv, NoTrampolineInv, BuildTrampolineInv,
       UnprotectInv, UnprotectFailsInv, WriteHookInv, ReprotectInv,
       MemoryUnprotectInv, MemoryBackupInv, CallRestoreInv, RestoreCodeInv,
       RemoveTrampolineInv, StutterInv
    DEF Next
<1> QED BY InitInv, <1>1, PTL DEF Spec

\* The types of the manager's state.
THEOREM TypeCorrect == Spec => []TypeOK
BY Invariance, PTL DEF IInv

\* Two installed hooks never share a trampoline, although a failed patch
\* leaves its stub and its list entry pointing at the block it freed
\* (HandleFunctionPatch), which another patch may get.
THEOREM NotShared == Spec => []TrampolinesNotShared
BY Invariance, PTL DEF IInv

\* No block is lost, on the list or not, unless its Add failed: each belongs
\* to an installed hook, to the patch in progress or to a backup on the list.
\* One whose Add failed (PatchMemory ignores it) stays allocated for good.
THEOREM NoneLost == Spec => []NoTrampolineLost
<1>1. IInv => NoTrampolineLost
    BY DEF IInv, Kept, NoTrampolineLost, Hooks
<1> QED BY <1>1, Invariance, PTL

\* Each step changes only the site of the patch it works on; RestoreMemory
\* never writes through a block that has changed hands.
THEOREM OwnSiteOnly == Spec => OnlyOwnSiteWritten
<1> DEFINE A == \A s \in Sites : code'[s] # code[s] => todo # <<>> /\ s = Site
<1>1. IInv /\ [Next]_vars => A
  <2> SUFFICES ASSUME IInv, [Next]_vars PROVE A
      OBVIOUS
  <2>1. CASE code' = code
      BY <2>1
  <2>2. CASE WriteHook \/ MemoryWrite
      BY <2>2 DEF WriteHook, MemoryWrite, Goto, IInv, TypeOK, Phase
  <2>3. CASE RestoreCode
    <3>1. todo # <<>> /\ heap[block].site = Site
        BY <2>3, RestoredFacts DEF RestoreCode, Goto, IInv, Phase
    <3> QED BY <2>3, <3>1 DEF RestoreCode, IInv, TypeOK
  <2> QED
      BY <2>1, <2>2, <2>3
      DEF vars, Next, CallPatch, PatchDone, FunctionFails, NoTrampoline,
          BuildTrampoline, Unprotect, UnprotectFails, Reprotect,
          MemoryUnprotect, MemoryFails, MemoryBackup, MemoryBackupFails,
          CallRestore, RestoreFails, RemoveTrampoline
<1> QED
    BY <1>1, Invariance, PTL DEF Spec, OnlyOwnSiteWritten

-----------------------------------------------------------------------------
(***************************************************************************)
(* What a call runs. Reached follows stubs a bounded number of times; by   *)
(* induction on that number (the least number at which a claim fails leads *)
(* to a contradiction) it ends in code that calls nobody.                  *)
(***************************************************************************)

\* P starts with what is live at s and follows the trampolines of installed
\* hooks.
FollowsStubs(P, s) ==
    /\ P \in Seq(Code) /\ Len(P) \in Nat \ {0}
    /\ P[1] = code[s]
    /\ \A i \in 1 .. Len(P) - 1 : P[i] \in Hooks /\ P[i + 1] = Below(P[i])

IsChain(P, s) == FollowsStubs(P, s) /\ P[Len(P)] \notin CallsOn

\* One more stub is followed, if there is one.
Follow(path) ==
    IF Last(path) \in CallsOn /\ StubUsable(Last(path))
    THEN Append(path, Below(Last(path)))
    ELSE path

LEMMA FollowProperties ==
    ASSUME IInv, NEW s \in Sites, NEW P, FollowsStubs(P, s)
    PROVE  /\ FollowsStubs(Follow(P), s)
           /\ IF P[Len(P)] \in CallsOn
              THEN Len(Follow(P)) = Len(P) + 1
              ELSE Follow(P) = P
<1> DEFINE m == Len(P)
           p == P[m]
<1>1. P \in Seq(Code) /\ m \in Nat \ {0} /\ m \in 1 .. m /\ Last(P) = p
    BY DEF FollowsStubs, Last
<1>2. CASE p \notin CallsOn
    BY <1>1, <1>2 DEF Follow
<1>3. CASE p \in CallsOn
  <2>1. p \in Hooks
    <3>1. p \in Patches
        BY <1>3, PatchAssumption DEF Patches
    <3>2. CASE m = 1
        BY <1>3, <3>1, <3>2 DEF FollowsStubs, Hooks, IInv, Chained
    <3>3. CASE m # 1
      <4>1. m - 1 \in 1 .. m - 1 /\ (m - 1) + 1 = m
        <5>1. \A k \in Nat \ {0} : k # 1 => k - 1 \in 1 .. k - 1
                                         /\ (k - 1) + 1 = k
            OBVIOUS
        <5> HIDE DEF m
        <5> QED BY <1>1, <3>3, <5>1
      <4>2. P[m - 1] \in Hooks /\ p = Below(P[m - 1])
          BY <4>1 DEF FollowsStubs
      <4> QED BY <1>3, <3>1, <4>2 DEF Hooks, IInv, Chained
    <3> QED BY <3>2, <3>3
  <2>2. StubUsable(p) /\ stub[p] \in Blocks /\ Below(p) \in Code
      BY <2>1, PatchAssumption
      DEF IInv, OwnStubs, StubUsable, TypeOK, Hooks, Below, Saved
  <2>3. Follow(P) = Append(P, Below(p))
      BY <1>1, <1>3, <2>2 DEF Follow
  <2>4. Append(P, Below(p)) \in Seq(Code)
        /\ Len(Append(P, Below(p))) = m + 1
        /\ Append(P, Below(p))[m + 1] = Below(p)
        /\ \A i \in 1 .. m : Append(P, Below(p))[i] = P[i]
      BY <1>1, <2>2, AppendProperties
  <2> HIDE DEF m, p
  <2>5. \A i \in 1 .. m : i \in 1 .. m - 1 \/ i = m
      BY <1>1
  <2>6. p = P[m] /\ m = Len(P)
      BY DEF p, m
  <2>7. \A i \in 1 .. m :
           /\ Follow(P)[i] \in Hooks
           /\ Follow(P)[i + 1] = Below(Follow(P)[i])
    <3> TAKE i \in 1 .. m
    <3>1. CASE i = m
        BY <1>1, <2>1, <2>3, <2>4, <2>6, <3>1
    <3>2. CASE i \in 1 .. m - 1
      <4>1. i + 1 \in 1 .. m
          BY <1>1, <3>2
      <4> QED BY <2>3, <2>4, <2>6, <3>2, <4>1 DEF FollowsStubs
    <3> QED BY <2>5, <3>1, <3>2
  <2>8. Follow(P)[1] = code[s] /\ (m + 1) - 1 = m
      BY <1>1, <2>3, <2>4, <2>6 DEF FollowsStubs
  <2> QED BY <1>1, <1>3, <2>3, <2>4, <2>6, <2>7, <2>8 DEF FollowsStubs
<1> QED BY <1>2, <1>3

\* Reached is the recursive function it is written as.
LEMMA ReachedDefined ==
    ASSUME NEW s, NEW N \in Nat, N = Cardinality(CallsOn)
    PROVE  \E run :
              /\ run = [n \in 0 .. N |-> IF n = 0 THEN <<code[s]>>
                                       ELSE Follow(run[n - 1])]
              /\ Reached(s) = run[N]
<1> DEFINE Runs(f, k) == f = [n \in 0 .. k |-> IF n = 0 THEN <<code[s]>>
                                              ELSE Follow(f[n - 1])]
           Bad == {k \in Nat : ~ \E f : Runs(f, k)}
<1>1. Bad = {}
  <2> SUFFICES ASSUME Bad # {} PROVE FALSE
      OBVIOUS
  <2>1. PICK k \in Bad : \A j \in Bad : k <= j
      BY LeastNat
  <2>2. CASE k = 0
    <3>1. Runs([n \in 0 .. 0 |-> <<code[s]>>], 0)
        OBVIOUS
    <3> QED BY <2>1, <2>2, <3>1
  <2>3. CASE k # 0
    <3>1. k \in Nat
        OBVIOUS
    <3>2. k - 1 \notin Bad
      <4>1. ~(k <= k - 1)
          BY <3>1
      <4> HIDE DEF Bad
      <4> QED BY <2>1, <4>1
    <3>3. k - 1 \in Nat
        BY <2>3, <3>1
    <3>4. PICK f : Runs(f, k - 1)
        BY <3>2, <3>3
    <3> DEFINE g == [n \in 0 .. k |-> IF n = k THEN Follow(f[k - 1])
                                     ELSE f[n]]
    <3>5. \A n \in 0 .. k - 1 : g[n] = IF n = 0 THEN <<code[s]>>
                                      ELSE Follow(g[n - 1])
      <4> TAKE n \in 0 .. k - 1
      <4>1. n \in 0 .. k /\ n # k
          BY <3>1, <3>3
      <4>2. n # 0 => n - 1 \in 0 .. k /\ n - 1 # k
          BY <3>1, <3>3
      <4> HIDE DEF Follow
      <4> QED BY <3>4, <4>1, <4>2
    <3>6. g[k] = Follow(g[k - 1])
      <4>1. k \in 0 .. k /\ k - 1 \in 0 .. k /\ k - 1 # k
          BY <3>1, <3>3
      <4> QED BY <4>1
    <3>7. Runs(g, k)
      <4>1. \A n \in 0 .. k : n \in 0 .. k - 1 \/ n = k
          BY <3>1
      <4> DEFINE h == [n \in 0 .. k |-> IF n = 0 THEN <<code[s]>>
                                       ELSE Follow(g[n - 1])]
      <4>2. \A n \in 0 .. k : g[n] = h[n]
          BY <2>3, <3>5, <3>6, <4>1
      <4> QED BY <4>2
    <3> QED BY <2>1, <3>7
  <2> QED BY <2>2, <2>3
<1>2. PICK f : Runs(f, N)
    BY <1>1
<1>3. PICK run : Runs(run, N) /\ Reached(s) = run[N]
    BY <1>2 DEF Reached, Follow, Below
<1> QED BY <1>3

\* A path from the live code visits every patch at most once, so it is no
\* longer than there are patches that call on.
LEMMA PathInjective ==
    ASSUME IInv, NEW s \in Sites, NEW P, FollowsStubs(P, s),
           \A i \in 1 .. Len(P) : P[i] \in CallsOn
    PROVE  Len(P) <= Cardinality(CallsOn)
<1>1. Len(P) \in Nat \ {0} /\ P \in [1 .. Len(P) -> CallsOn]
    BY LenProperties DEF FollowsStubs
<1>2. \A i \in 1 .. Len(P) : P[i] \in Patches
    BY PatchAssumption DEF Patches
<1> DEFINE Twice == {i \in 1 .. Len(P) :
                       \E j \in 1 .. Len(P) : i < j /\ P[i] = P[j]}
<1>3. Twice = {}
  <2> SUFFICES ASSUME Twice # {} PROVE FALSE
      OBVIOUS
  <2>1. Twice \in SUBSET Nat
      BY <1>1
  <2>2. PICK i \in Twice : \A k \in Twice : i <= k
    <3> HIDE DEF Twice
    <3> QED BY <2>1, LeastNat
  <2>3. PICK j \in 1 .. Len(P) : i < j /\ P[i] = P[j]
      OBVIOUS
  <2>4. i \in 1 .. Len(P) /\ i \in Nat /\ j \in Nat
      BY <1>1
  <2>5. j - 1 \in 1 .. Len(P) - 1 /\ (j - 1) + 1 = j
      BY <1>1, <2>3, <2>4
  <2>6. P[j - 1] \in Hooks /\ P[j] = Below(P[j - 1])
      BY <2>5 DEF FollowsStubs
  <2>7. CASE i = 1
    <3>1. code[s] = Below(P[j - 1])
        BY <2>3, <2>6, <2>7 DEF FollowsStubs
    <3>2. P[j] = code[s] /\ P[j] \in Patches /\ Below(P[j - 1]) = P[j]
        BY <1>2, <2>3, <2>6, <3>1
    <3>3. SiteOf[P[j - 1]] = s
      <4>1. SiteOf[P[j]] = s
          BY <3>2 DEF IInv, Chained
      <4>2. SiteOf[Below(P[j - 1])] = SiteOf[P[j - 1]]
          BY <2>6, <3>2 DEF IInv, Chained
      <4> QED BY <3>2, <4>1, <4>2
    <3>4. code[SiteOf[P[j - 1]]] # P[j]
        BY <2>6, <3>2 DEF IInv, OnePlace
    <3> QED BY <3>2, <3>3, <3>4
  <2>8. CASE i # 1
    <3>1. i - 1 \in 1 .. Len(P) - 1 /\ (i - 1) + 1 = i
          /\ i - 1 \in 1 .. Len(P) /\ i - 1 < j - 1 /\ j - 1 \in 1 .. Len(P)
          /\ ~(i <= i - 1)
        BY <1>1, <2>3, <2>4, <2>8
    <3>2. P[i - 1] \in Hooks /\ P[i] = Below(P[i - 1])
        BY <3>1 DEF FollowsStubs
    <3>3. P[i - 1] = P[j - 1]
        BY <1>2, <2>3, <2>4, <2>6, <3>2 DEF IInv, OnePlace
    <3>4. i - 1 \in Twice
        BY <3>1, <3>3
    <3> HIDE DEF Twice
    <3> QED BY <2>2, <3>1, <3>4
  <2> QED BY <2>7, <2>8
<1>4. IsFiniteSet(CallsOn) /\ Cardinality(CallsOn) \in Nat
    BY PatchAssumption, FS_CardinalityType
<1>5. IsFiniteSet(1 .. Len(P)) /\ Cardinality(1 .. Len(P)) = Len(P)
  <2>1. 1 \in Int /\ Len(P) \in Int /\ ~(1 > Len(P)) /\ Len(P) - 1 + 1 = Len(P)
      BY <1>1
  <2> QED BY <2>1, FS_Interval
<1>6. \A i, j \in 1 .. Len(P) : P[i] = P[j] => i = j
  <2> SUFFICES ASSUME NEW i \in 1 .. Len(P), NEW j \in 1 .. Len(P),
                      P[i] = P[j]
               PROVE  i = j
      OBVIOUS
  <2>1. i \notin Twice /\ j \notin Twice
      BY <1>3
  <2>2. ~(i < j) /\ ~(j < i)
      BY <2>1
  <2> QED BY <1>1, <2>2
<1> SUFFICES ASSUME ~(Len(P) <= Cardinality(CallsOn)) PROVE FALSE
    OBVIOUS
<1>7. Cardinality(CallsOn) < Cardinality(1 .. Len(P))
    BY <1>1, <1>4, <1>5
<1>8. \E x, y \in 1 .. Len(P) : x # y /\ P[x] = P[y]
    BY <1>1, <1>4, <1>5, <1>7, FS_PigeonHole
<1> QED BY <1>6, <1>8

ReachedChains == \A s \in Sites : IsChain(Reached(s), s)

\* Every call of a patched function ends in code that calls nobody.
THEOREM CallsEnd == IInv => ReachedChains
<1> SUFFICES ASSUME IInv, NEW s \in Sites PROVE IsChain(Reached(s), s)
    BY DEF ReachedChains
<1> DEFINE N == Cardinality(CallsOn)
<1>1. N \in Nat
    BY PatchAssumption, FS_CardinalityType
<1>2. PICK run : /\ run = [n \in 0 .. N |-> IF n = 0 THEN <<code[s]>>
                                          ELSE Follow(run[n - 1])]
                 /\ Reached(s) = run[N]
    BY <1>1, ReachedDefined
<1> HIDE DEF N
<1>3. run[0] = <<code[s]>> /\ \A n \in 1 .. N : run[n] = Follow(run[n - 1])
  <2>1. 0 \in 0 .. N /\ \A n \in 1 .. N : n \in 0 .. N /\ n # 0
      BY <1>1
  <2> HIDE DEF Follow
  <2> QED BY <1>2, <2>1
<1> DEFINE P(n) == /\ FollowsStubs(run[n], s)
                   /\ run[n][Len(run[n])] \in CallsOn => Len(run[n]) = n + 1
           Bad  == {n \in 0 .. N : ~P(n)}
<1>4. Bad = {}
  <2> SUFFICES ASSUME Bad # {} PROVE FALSE
      OBVIOUS
  <2>1. PICK n \in Bad : \A k \in Bad : n <= k
    <3>1. Bad \in SUBSET Nat
        BY <1>1
    <3> HIDE DEF Bad
    <3> QED BY <3>1, LeastNat
  <2>2. n \in 0 .. N /\ ~P(n)
      OBVIOUS
  <2>3. CASE n = 0
    <3>1. code[s] \in Code
        BY DEF IInv, TypeOK
    <3>2. run[0] \in Seq(Code) /\ Len(run[0]) = 1 /\ run[0][1] = code[s]
        BY <1>3, <3>1
    <3>3. P(0)
        BY <3>2 DEF FollowsStubs
    <3> QED BY <2>2, <2>3, <3>3
  <2>4. CASE n # 0
    <3>1. n \in 1 .. N /\ n - 1 \in 0 .. N /\ ~(n <= n - 1) /\ n \in Nat
        BY <1>1, <2>2, <2>4
    <3>2. P(n - 1)
        BY <2>1, <3>1
    <3> DEFINE Q == run[n - 1]
    <3>3. /\ FollowsStubs(run[n], s)
          /\ IF Q[Len(Q)] \in CallsOn
             THEN Len(run[n]) = Len(Q) + 1
             ELSE run[n] = Q
        BY <1>3, <3>1, <3>2, FollowProperties
    <3>4. CASE Q[Len(Q)] \in CallsOn
      <4>1. Len(run[n]) = n + 1
          BY <3>1, <3>2, <3>3, <3>4
      <4> QED BY <2>2, <3>3, <4>1
    <3>5. CASE Q[Len(Q)] \notin CallsOn
        BY <2>2, <3>3, <3>5
    <3> QED BY <3>4, <3>5
  <2> QED BY <2>3, <2>4
<1> DEFINE R == run[N]
<1>5. FollowsStubs(R, s) /\ (R[Len(R)] \in CallsOn => Len(R) = N + 1)
  <2>1. N \in 0 .. N
      BY <1>1
  <2> QED BY <1>4, <2>1
<1> HIDE DEF R
<1>6. R[Len(R)] \notin CallsOn
  <2> SUFFICES ASSUME R[Len(R)] \in CallsOn PROVE FALSE
      OBVIOUS
  <2>1. /\ Len(R) \in Nat
        /\ \A i \in 1 .. Len(R) : i \in 1 .. Len(R) - 1 \/ i = Len(R)
      BY <1>5 DEF FollowsStubs
  <2>2. \A i \in 1 .. Len(R) : R[i] \in CallsOn
      BY <1>5, <2>1 DEF FollowsStubs, Hooks
  <2>3. Len(R) <= N
      BY <1>5, <2>2, PathInjective DEF N
  <2> QED BY <1>1, <1>5, <2>3
<1> QED BY <1>2, <1>5, <1>6 DEF IsChain, R

\* Whatever fails and whenever another thread calls a patched function, each
\* hook on its way finds its stub set, allocated and its own: the stub is
\* filled before the hook is written (HandleFunctionPatch) and freed after it
\* is gone (RestoreMemory).
THEOREM LiveHooks == Spec => []LiveHooksCanCallOn
<1>1. IInv => LiveHooksCanCallOn
  <2> SUFFICES ASSUME IInv, NEW s \in Sites,
                      NEW p \in ToSet(Reached(s)) \cap CallsOn
               PROVE  StubUsable(p)
      BY DEF LiveHooksCanCallOn
  <2> DEFINE P == Reached(s)
  <2>1. IsChain(P, s)
      BY CallsEnd DEF ReachedChains
  <2> HIDE DEF P
  <2>2. P \in Seq(Code) /\ Len(P) \in Nat /\ DOMAIN P = 1 .. Len(P)
      BY <2>1, LenProperties DEF IsChain, FollowsStubs
  <2>3. PICK i \in 1 .. Len(P) : p = P[i]
      BY <2>2 DEF ToSet, P
  <2>4. i \in 1 .. Len(P) - 1 \/ i = Len(P)
    <3>1. \A n \in Nat : \A k \in 1 .. n : k \in 1 .. n - 1 \/ k = n
        OBVIOUS
    <3> QED BY <2>2, <3>1
  <2>5. p \in Hooks
      BY <2>1, <2>3, <2>4 DEF IsChain, FollowsStubs
  <2> QED BY <2>5 DEF IInv, OwnStubs
<1> QED BY <1>1, Invariance, PTL

ChainsUnique ==
    \A s \in Sites : \A P, Q \in Seq(Code) :
       IsChain(P, s) /\ IsChain(Q, s) => P = Q

\* The chain of a site is determined by the code and the trampolines.
LEMMA ChainUnique == ChainsUnique
<1> SUFFICES ASSUME NEW s \in Sites, NEW P \in Seq(Code), NEW Q \in Seq(Code),
                    IsChain(P, s), IsChain(Q, s)
             PROVE  P = Q
    BY DEF ChainsUnique
<1>1. Len(P) \in Nat \ {0} /\ Len(Q) \in Nat \ {0}
    BY DEF IsChain, FollowsStubs
<1> DEFINE Bad == {i \in 1 .. Len(P) : i \in 1 .. Len(Q) => P[i] # Q[i]}
<1>2. Bad = {}
  <2> SUFFICES ASSUME Bad # {} PROVE FALSE
      OBVIOUS
  <2>1. PICK i \in Bad : \A k \in Bad : i <= k
    <3>1. Bad \in SUBSET Nat
        BY <1>1
    <3> HIDE DEF Bad
    <3> QED BY <3>1, LeastNat
  <2>2. i \in 1 .. Len(P) /\ i \in Nat /\ (i \in 1 .. Len(Q) => P[i] # Q[i])
      BY <1>1
  <2>3. CASE i = 1
      BY <1>1, <2>2, <2>3 DEF IsChain, FollowsStubs
  <2>4. CASE i # 1
    <3>1. i - 1 \in 1 .. Len(P) - 1 /\ i - 1 \in 1 .. Len(P)
          /\ ~(i <= i - 1) /\ (i - 1) + 1 = i
        BY <1>1, <2>2, <2>4
    <3>2. i - 1 \in 1 .. Len(Q) /\ P[i - 1] = Q[i - 1]
      <4>1. i - 1 \notin Bad
        <5> HIDE DEF Bad
        <5> QED BY <2>1, <3>1
      <4> QED BY <3>1, <4>1
    <3>3. P[i - 1] \in Hooks /\ P[i] = Below(P[i - 1])
        BY <3>1 DEF IsChain, FollowsStubs
    <3>4. i - 1 # Len(Q)
        BY <3>2, <3>3 DEF IsChain, Hooks
    <3>5. i - 1 \in 1 .. Len(Q) - 1 /\ i \in 1 .. Len(Q)
        BY <1>1, <2>2, <3>2, <3>4
    <3>6. Q[i] = Below(Q[i - 1])
        BY <3>1, <3>5 DEF IsChain, FollowsStubs
    <3> QED BY <2>2, <3>2, <3>3, <3>5, <3>6
  <2> QED BY <2>3, <2>4
<1>3. Len(P) <= Len(Q) /\ \A i \in 1 .. Len(P) : P[i] = Q[i]
  <2>1. \A i \in 1 .. Len(P) : i \in 1 .. Len(Q) /\ P[i] = Q[i]
      BY <1>2
  <2>2. Len(P) \in 1 .. Len(P)
      BY <1>1
  <2> QED BY <1>1, <2>1, <2>2
<1>4. Len(P) = Len(Q)
  <2> SUFFICES ASSUME Len(P) # Len(Q) PROVE FALSE
      OBVIOUS
  <2>1. Len(P) \in 1 .. Len(Q) - 1 /\ Len(P) \in 1 .. Len(P)
      BY <1>1, <1>3
  <2>2. Q[Len(P)] \in Hooks
      BY <2>1 DEF IsChain, FollowsStubs
  <2> QED BY <1>3, <2>1, <2>2 DEF IsChain, Hooks
<1> QED BY <1>3, <1>4, SeqEqual

\* After a step, whatever is a chain of a site is what a call of it runs.
LEMMA ReachedAfter ==
    ASSUME IInv', NEW s \in Sites, NEW P, IsChain(P, s)'
    PROVE  Reached(s)' = P
<1>1. ChainsUnique'
    BY ChainUnique, PTL
<1>2. IInv' => ReachedChains'
    BY CallsEnd, PTL
<1>3. IsChain(Reached(s), s)'
    BY <1>2 DEF ReachedChains
<1>4. Reached(s)' \in Seq(Code) /\ P \in Seq(Code)
    BY <1>3 DEF IsChain, FollowsStubs
<1> QED BY <1>1, <1>3, <1>4 DEF ChainsUnique

LEMMA ReachedNow ==
    ASSUME IInv, NEW s \in Sites, NEW P, IsChain(P, s)
    PROVE  Reached(s) = P
<1>1. IsChain(Reached(s), s)
    BY CallsEnd DEF ReachedChains
<1>2. Reached(s) \in Seq(Code) /\ P \in Seq(Code)
    BY <1>1 DEF IsChain, FollowsStubs
<1> QED BY <1>1, <1>2, ChainUnique DEF ChainsUnique

\* A step that keeps the live code of a site and its hooks keeps its chain.
LEMMA ChainKept ==
    ASSUME IInv, IInv', NEW s \in Sites, code'[s] = code[s], NEW G,
           \A p \in G : p \in Hooks' /\ Below(p)' = Below(p),
           \A i \in 1 .. Len(Reached(s)) - 1 : Reached(s)[i] \in G
    PROVE  Reached(s)' = Reached(s)
<1> DEFINE R == Reached(s)
<1>1. PICK P : P = R
    OBVIOUS
<1>2. IsChain(P, s)
    BY <1>1, CallsEnd DEF ReachedChains
<1>3. \A i \in 1 .. Len(P) - 1 : P[i] \in G
    BY <1>1
<1> HIDE DEF R
<1>4. IsChain(P, s)'
    BY <1>2, <1>3 DEF IsChain, FollowsStubs
<1> QED BY <1>1, <1>4, ReachedAfter DEF R

\* Allocating and freeing never touch the trampoline of an installed hook.
LEMMA HooksKeepTrampolines ==
    ASSUME IInv,
           \/ BuildTrampoline \/ MemoryBackup
           \/ UnprotectFails \/ RemoveTrampoline
    PROVE  /\ UNCHANGED <<code, installed>>
           /\ \A p \in Hooks :
                 stub'[p] = stub[p] /\ heap'[stub[p]] = heap[stub[p]]
<1>1. \A p \in Hooks : stub[p] \in Blocks /\ heap[stub[p]] # Free
    BY PatchAssumption DEF IInv, TypeOK, OwnStubs, StubUsable, Hooks
<1>2. CASE BuildTrampoline
  <2>1. Current \notin installed
    <3>1. 1 \in 1 .. Len(todo) /\ Current = todo[1]
        BY <1>2, LenProperties, EmptySeq
        DEF BuildTrampoline, IInv, TypeOK, Current
    <3> QED BY <1>2, <3>1 DEF BuildTrampoline, Goto, IInv, Fresh
  <2> QED
      BY <1>1, <1>2, <2>1, PatchAssumption
      DEF BuildTrampoline, Hooks, IInv, TypeOK
<1>3. CASE MemoryBackup
    BY <1>1, <1>3 DEF MemoryBackup, IInv, TypeOK
<1>4. CASE UnprotectFails
    BY <1>1, <1>4 DEF UnprotectFails, Goto, IInv, Held
<1>5. CASE RemoveTrampoline
    BY <1>1, <1>5 DEF RemoveTrampoline, Goto, IInv, Held, Phase, TypeOK, Hooks
<1> QED BY <1>2, <1>3, <1>4, <1>5

\* Steps that do not write code keep every chain.
LEMMA NothingWritten ==
    ASSUME IInv, IInv', UNCHANGED <<code, installed>>,
           \A p \in Hooks :
              stub'[p] = stub[p] /\ heap'[stub[p]] = heap[stub[p]],
           NEW s \in Sites
    PROVE  Reached(s)' = Reached(s)
<1>1. \A p \in Hooks : p \in Hooks' /\ Below(p)' = Below(p)
    BY DEF Hooks, Below
<1>2. IsChain(Reached(s), s)
    BY CallsEnd DEF ReachedChains
<1>3. \A i \in 1 .. Len(Reached(s)) - 1 : Reached(s)[i] \in Hooks
    BY <1>2 DEF IsChain, FollowsStubs
<1> QED BY <1>1, <1>3, ChainKept

\* The hook written comes first; one that calls nobody is the whole chain.
LEMMA HookWritten ==
    ASSUME IInv, IInv', WriteHook \/ MemoryWrite,
           NEW c, c = Current, NEW t, t = Site
    PROVE  /\ c \in Patches /\ t \in Sites /\ t = SiteOf[c]
           /\ \A s \in Sites \ {t} : Reached(s)' = Reached(s)
           /\ Reached(t)' = IF c \in CallsOn THEN <<c>> \o Reached(t)
                            ELSE <<c>>
<1>1. Written
    BY WrittenFacts
<1>2. /\ c \in Patches /\ t \in Sites /\ t = SiteOf[c] /\ code'[t] = c
      /\ \A s \in Sites \ {t} : code'[s] = code[s]
      /\ \A p \in Hooks : p \in Hooks' /\ Below(p)' = Below(p)
      /\ c \in CallsOn => c \in Hooks' /\ Below(c)' = code[t]
    BY <1>1 DEF Written, Below
<1>3. \A s \in Sites :
         /\ IsChain(Reached(s), s)
         /\ \A i \in 1 .. Len(Reached(s)) - 1 : Reached(s)[i] \in Hooks
    BY CallsEnd DEF ReachedChains, IsChain, FollowsStubs
<1>4. \A s \in Sites \ {t} : Reached(s)' = Reached(s)
    BY <1>2, <1>3, ChainKept
<1>5. CASE c \notin CallsOn
  <2>1. <<c>> \in Seq(Code) /\ Len(<<c>>) = 1 /\ <<c>>[1] = c
      BY <1>2 DEF Code
  <2>2. IsChain(<<c>>, t)'
      BY <1>2, <1>5, <2>1 DEF IsChain, FollowsStubs
  <2> QED BY <1>2, <1>4, <1>5, <2>2, ReachedAfter
<1>6. CASE c \in CallsOn
  <2>1. PICK R : R = Reached(t)
      OBVIOUS
  <2>2. /\ R \in Seq(Code) /\ Len(R) \in Nat \ {0} /\ R[1] = code[t]
        /\ \A i \in 1 .. Len(R) - 1 : R[i] \in Hooks /\ R[i + 1] = Below(R[i])
        /\ R[Len(R)] \notin CallsOn
      BY <1>2, <1>3, <2>1 DEF IsChain, FollowsStubs
  <2> DEFINE X == <<c>> \o R
  <2>3. /\ X \in Seq(Code) /\ Len(X) = Len(R) + 1 /\ X[1] = c
        /\ \A i \in 1 .. Len(R) : X[i + 1] = R[i]
    <3>1. <<c>> \in Seq(Code) /\ Len(<<c>>) = 1 /\ <<c>>[1] = c
        BY <1>2 DEF Code
    <3> QED BY <2>2, <3>1, ConcatProperties
  <2> HIDE DEF X
  <2>4. ASSUME NEW i \in 1 .. Len(X) - 1
        PROVE  X[i] \in Hooks' /\ X[i + 1] = Below(X[i])'
    <3>1. /\ i \in 1 .. Len(R) /\ i \in Nat
          /\ i = 1 \/ i - 1 \in 1 .. Len(R) - 1
        BY <2>2, <2>3
    <3>2. CASE i = 1
        BY <1>2, <1>6, <2>2, <2>3, <3>1, <3>2
    <3>3. CASE i - 1 \in 1 .. Len(R) - 1
      <4>1. (i - 1) + 1 = i /\ i - 1 \in 1 .. Len(R)
          BY <2>2, <3>1, <3>3
      <4>2. X[i] = R[i - 1] /\ X[i + 1] = R[i]
          BY <2>3, <3>1, <4>1
      <4>3. R[i - 1] \in Hooks /\ R[i] = Below(R[i - 1])
          BY <2>2, <3>3, <4>1
      <4> QED BY <1>2, <4>2, <4>3
    <3> QED BY <3>1, <3>2, <3>3
  <2>5. X[Len(X)] \notin CallsOn /\ Len(X) \in Nat \ {0}
    <3>1. Len(R) \in 1 .. Len(R)
        BY <2>2
    <3> QED BY <2>2, <2>3, <3>1
  <2>6. IsChain(X, t)'
      BY <1>2, <2>3, <2>4, <2>5 DEF IsChain, FollowsStubs
  <2>7. Reached(t)' = X
      BY <1>2, <2>6, ReachedAfter
  <2> QED BY <1>2, <1>4, <1>6, <2>1, <2>7 DEF X
<1> QED BY <1>5, <1>6

\* Undoing a hook leaves what was below it.
LEMMA HookRemoved ==
    ASSUME IInv, IInv', RestoreCode,
           NEW c, c = Current, NEW t, t = Site
    PROVE  /\ c \in CallsOn /\ t \in Sites /\ t = SiteOf[c]
           /\ \A s \in Sites \ {t} : Reached(s)' = Reached(s)
           /\ Head(Reached(t)) = c
           /\ Reached(t)' = Tail(Reached(t))
<1>1. /\ c \in Hooks /\ t \in Sites /\ t = SiteOf[c] /\ code[t] = c
      /\ \A q \in Hooks : Below(q) # c
      /\ heap[block].site = t /\ heap[block].code = Below(c)
    BY RestoredFacts DEF RestoreCode, Goto
<1>2. /\ code'[t] = Below(c)
      /\ \A s \in Sites \ {t} : code'[s] = code[s]
      /\ Hooks' = Hooks \ {c}
      /\ \A p : Below(p)' = Below(p)
    BY <1>1 DEF RestoreCode, IInv, TypeOK, Hooks, Below
<1>3. \A s \in Sites :
         /\ IsChain(Reached(s), s)
         /\ \A i \in 1 .. Len(Reached(s)) - 1 : Reached(s)[i] \in Hooks
    BY CallsEnd DEF ReachedChains, IsChain, FollowsStubs
<1>4. \A s \in Sites \ {t} : Reached(s)' = Reached(s)
  <2> TAKE s \in Sites \ {t}
  <2>1. PICK R : R = Reached(s)
      OBVIOUS
  <2>2. /\ Len(R) \in Nat \ {0} /\ R[1] = code[s]
        /\ \A i \in 1 .. Len(R) - 1 : R[i] \in Hooks /\ R[i + 1] = Below(R[i])
      BY <1>3, <2>1 DEF IsChain, FollowsStubs
  <2>3. code[s] # c
      BY <1>1, PatchAssumption DEF IInv, Chained, Hooks, Patches
  <2>4. ASSUME NEW i \in 1 .. Len(R) - 1 PROVE R[i] \in Hooks \ {c}
    <3>1. CASE i = 1
        BY <2>2, <2>3, <3>1
    <3>2. CASE i # 1
      <4>1. i - 1 \in 1 .. Len(R) - 1 /\ (i - 1) + 1 = i
          BY <2>2, <3>2
      <4> QED BY <1>1, <2>2, <4>1
    <3> QED BY <3>1, <3>2
  <2> QED BY <1>2, <2>1, <2>4, ChainKept
<1>5. PICK R : R = Reached(t)
    OBVIOUS
<1>6. /\ R \in Seq(Code) /\ Len(R) \in Nat \ {0} /\ R[1] = c
      /\ \A i \in 1 .. Len(R) - 1 : R[i] \in Hooks /\ R[i + 1] = Below(R[i])
      /\ R[Len(R)] \notin CallsOn
    BY <1>1, <1>3, <1>5 DEF IsChain, FollowsStubs
<1>7. c \in CallsOn /\ Len(R) # 1
    BY <1>1, <1>6 DEF Hooks
<1> DEFINE X == Tail(R)
<1>8. /\ X \in Seq(Code) /\ Len(X) = Len(R) - 1 /\ Head(R) = c
      /\ \A i \in 1 .. Len(X) : X[i] = R[i + 1]
    BY <1>6, HeadTailProperties, EmptySeq
<1> HIDE DEF X
<1>9. X[1] = Below(c) /\ Len(X) \in Nat \ {0} /\ X[Len(X)] \notin CallsOn
  <2>1. 1 \in 1 .. Len(X) /\ 1 \in 1 .. Len(R) - 1 /\ Len(X) \in 1 .. Len(X)
        /\ Len(X) + 1 = Len(R) /\ Len(X) \in Nat \ {0}
      BY <1>6, <1>7, <1>8
  <2> QED BY <1>6, <1>8, <2>1
<1>10. ASSUME NEW i \in 1 .. Len(X) - 1
       PROVE  X[i] \in Hooks \ {c} /\ X[i + 1] = Below(X[i])
  <2>1. i \in 1 .. Len(R) - 1 /\ i + 1 \in 1 .. Len(R) - 1
        /\ i \in 1 .. Len(X) /\ i + 1 \in 1 .. Len(X)
      BY <1>6, <1>8
  <2> QED BY <1>1, <1>6, <1>8, <2>1
<1>11. IsChain(X, t)'
    BY <1>2, <1>8, <1>9, <1>10 DEF IsChain, FollowsStubs
<1>12. Reached(t)' = X
    BY <1>1, <1>11, ReachedAfter
<1> QED BY <1>1, <1>4, <1>5, <1>7, <1>8, <1>12 DEF X

Chains == [s \in Sites |-> Reached(s)]

\* The manager implements HookChain: a hook written is its Install, a hook
\* undone its Remove, and every other step, the failures with what they leave
\* behind included, keeps what each call runs.
THEOREM ManagerImplementsChain == Spec => ImplementsHookChain
<1>1. Init => Abstract!Init
  <2> SUFFICES ASSUME Init, NEW s \in Sites PROVE Reached(s) = <<Original>>
      BY DEF Abstract!Init
  <2>1. <<Original>> \in Seq(Code) /\ Len(<<Original>>) = 1
        /\ <<Original>>[1] = Original
      BY DEF Code
  <2>2. IsChain(<<Original>>, s)
      BY <2>1, PatchAssumption DEF Init, IsChain, FollowsStubs, Patches
  <2> QED BY <2>2, InitInv, ReachedNow
<1>2. IInv /\ IInv' /\ [Next]_vars => [Abstract!Next]_Chains
  <2> SUFFICES ASSUME IInv, IInv', [Next]_vars
               PROVE  [Abstract!Next]_Chains
      OBVIOUS
  <2> DEFINE Same == \A s \in Sites : Reached(s)' = Reached(s)
  <2>1. CASE UNCHANGED <<code, installed, stub, heap>>
      BY <2>1, NothingWritten DEF Chains
  <2>2. CASE BuildTrampoline \/ MemoryBackup \/ UnprotectFails
             \/ RemoveTrampoline
      BY <2>2, HooksKeepTrampolines, NothingWritten DEF Chains
  <2>3. CASE WriteHook \/ MemoryWrite
    <3>1. PICK c : c = Current
        OBVIOUS
    <3>2. PICK t : t = Site
        OBVIOUS
    <3>3. Abstract!Install(c)
        BY <2>3, <3>1, <3>2, HookWritten DEF Abstract!Install
    <3> QED BY <2>3, <3>1, <3>2, <3>3, HookWritten DEF Abstract!Next, Chains
  <2>4. CASE RestoreCode
    <3>1. PICK c : c = Current
        OBVIOUS
    <3>2. PICK t : t = Site
        OBVIOUS
    <3>3. Abstract!Remove(c)
        BY <2>4, <3>1, <3>2, HookRemoved DEF Abstract!Remove
    <3> QED
        BY <2>4, <3>1, <3>2, <3>3, HookRemoved, PatchAssumption
        DEF Abstract!Next, Patches
  <2> QED
      BY <2>1, <2>2, <2>3, <2>4
      DEF vars, Next, CallPatch, PatchDone, FunctionFails, NoTrampoline,
          Unprotect, Reprotect, MemoryUnprotect, MemoryFails,
          MemoryBackupFails, CallRestore, RestoreFails
<1> QED
    BY <1>1, <1>2, Invariance, PTL
       DEF Spec, ImplementsHookChain, Abstract!Spec, Chains

-----------------------------------------------------------------------------
(***************************************************************************)
(* Trampoline.                                                             *)
(***************************************************************************)
\* The displaced instructions that have a copy.
Done == {a \in Patched : a < buffer}

\* Where the copy of the next one goes; behind the last, the jump back.
End == IF phase = "copy" \/ ReplacesCall THEN ip ELSE ip - 8

JumpsBack == phase \in {"write", "run"} /\ ~ReplacesCall

\* What is written where the copy of a is.
CopyOf(a) ==
    IF phase \in {"write", "run"} /\ ReplacesCall /\ a = final
    THEN AsJump(Copied(a, copies[a])) ELSE Copied(a, copies[a])

SameLen(a) == written[copies[a]].len = text[a].len

\* What the hook displaces so far.
Measured ==
    /\ final \in DOMAIN text /\ opSize \in Nat
    /\ final + opSize \in DOMAIN text
    /\ phase \in {"scan", "refused"} =>
          /\ buffer = final + opSize /\ written = <<>> /\ copies = <<>>
          /\ ip = StubAt
    /\ phase \in {"copy", "write", "run"} => opSize >= hookSize
    /\ \A a \in Patched :
          /\ text[a].op # "ret" /\ a < final + hookSize
          /\ \/ a + text[a].len = final + opSize /\ opSize >= hookSize
             \/ text[a].op \in {"plain", "jcc", "call", "loop"}
             \/ text[a].op = "jmp" /\ text[a].arg = 0
             \/ PassedOver(text[a])

\* What has been copied of it.
CopiesOK ==
    /\ buffer \in DOMAIN text /\ final <= buffer /\ buffer <= final + opSize
    /\ DOMAIN copies = Done
    /\ DOMAIN written =
          {copies[a] : a \in Done} \cup (IF JumpsBack THEN {End} ELSE {})
    /\ \A a \in Done :
          /\ copies[a] \in Nat /\ copies[a] >= StubAt /\ copies[a] < End
          /\ written[copies[a]] = CopyOf(a)
          /\ a + text[a].len \in Done =>
                copies[a + text[a].len] = copies[a] + written[copies[a]].len
          /\ a + text[a].len = buffer =>
                End = copies[a] + written[copies[a]].len
    /\ IF buffer = final THEN End = StubAt ELSE copies[final] = StubAt
    /\ phase \in {"write", "run"} => buffer = final + opSize
    /\ JumpsBack =>
          written[End] = [op |-> "jmpmem", len |-> 6, arg |-> final + opSize]

\* Copies are in the order of the instructions, those of one length as far
\* from each other.
Distant ==
    /\ \A a, b \in Done : a < b => copies[a] < copies[b]
    /\ \A a \in Done :
          (\A c \in Done : a <= c => SameLen(c)) =>
             End - copies[a] = buffer - a
    /\ \A a, b \in Done :
          (a <= b /\ \A c \in Done : a <= c /\ c < b => SameLen(c)) =>
             copies[b] - copies[a] = b - a

\* A copy is at most six times as long, except that of the last instruction.
Fitting ==
    /\ buffer < final + opSize => End - StubAt <= 6 * (buffer - final)
    /\ End - StubAt <= 51

TrampolineTypeOK ==
    /\ text \in Functions /\ hookSize \in HookOpSizes
    /\ callHook \in BOOLEAN /\ (callHook => hookSize = 5)
    /\ phase \in {"scan", "refused", "copy", "write", "run"}
    /\ buffer \in Int /\ opSize \in Nat /\ final \in Nat /\ ip \in Nat

\* Of a stub that is a jump only the first instruction runs.
OnlyFirst ==
    phase = "run" /\ ReplacesCall /\ at \in Patched /\ in = copies[at] =>
        at = final

TrampolineInv ==
    /\ TrampolineTypeOK
    /\ Measured
    /\ phase \in {"copy", "write", "run"} => CopiesOK /\ Distant /\ Fitting
    /\ StubRunsOriginal
    /\ OnlyFirst

-----------------------------------------------------------------------------
\* What well-formed code gives, at one instruction.
LEMMA CodeAt ==
    ASSUME text \in Functions
    PROVE  /\ 0 \in DOMAIN text /\ DOMAIN text \subseteq Nat
           /\ \A a \in DOMAIN text :
                 /\ text[a] \in [op : Ops, len : 1 .. 15, arg : Int]
                 /\ text[a].op \in Ops /\ text[a].arg \in Int
                 /\ text[a].len \in 1 .. 15
                 /\ text[a].len \in Lengths(text[a].op)
                 /\ text[a].op = "loop" => text[a].arg \in -128 .. 127
                 /\ text[a].op # "ret" => a + text[a].len \in DOMAIN text
                 /\ text[a].op \in Branches =>
                       Destination(text, a) \in DOMAIN text
                 /\ \A b \in DOMAIN text : a < b => a + text[a].len <= b
                 /\ a + 256 < StubAt \/ StubAt + 256 < a
<1>1. IsCode(text)
  BY TrampolineAssumption
<1> QED
  BY <1>1, Z3 DEF IsCode

\* How long instructions that have a long form are.
LEMMA CodeLength ==
    ASSUME text \in Functions, NEW a \in DOMAIN text
    PROVE  /\ text[a].op = "jcc" => text[a].len \in {2, 6}
           /\ text[a].op = "jmp" => text[a].len \in {2, 5}
           /\ text[a].op = "call" => text[a].len = 5
           /\ text[a].op = "loop" => text[a].len = 2
           /\ text[a].op = "jmpmem" => text[a].len = 6
<1>1. text[a].len \in Lengths(text[a].op)
  BY CodeAt
<1> QED
  BY <1>1 DEF Lengths

\* Behind a displaced instruction is another, or the end of the hook.
LEMMA NextDisplaced ==
    ASSUME text \in Functions, final \in Nat, opSize \in Nat,
           final + opSize \in DOMAIN text,
           NEW a \in Patched, text[a].op # "ret"
    PROVE  /\ a + text[a].len \in DOMAIN text
           /\ a + text[a].len <= final + opSize
           /\ \/ a + text[a].len \in Patched
              \/ a + text[a].len = final + opSize
<1>1. a \in DOMAIN text /\ a < final + opSize /\ final <= a /\ a \in Nat
  BY CodeAt DEF Patched
<1>2. /\ text[a].len \in 1 .. 15 /\ a + text[a].len \in DOMAIN text
      /\ a + text[a].len <= final + opSize
  BY <1>1, CodeAt
<1> QED
  BY <1>1, <1>2 DEF Patched

\* Only the first displaced instruction is behind one that is not.
LEMMA Predecessor ==
    ASSUME text \in Functions, final \in DOMAIN text, opSize \in Nat,
           NEW a \in DOMAIN text \ Patched, a + text[a].len \in Patched
    PROVE  a + text[a].len = final
<1>1. /\ a \in Nat /\ final \in Nat /\ text[a].len \in 1 .. 15
      /\ \A b \in DOMAIN text : a < b => a + text[a].len <= b
  BY CodeAt
<1>2. a + text[a].len >= final /\ a + text[a].len < final + opSize
  BY DEF Patched
<1>3. a < final
  BY <1>1, <1>2 DEF Patched
<1> QED
  BY <1>1, <1>2, <1>3

\* The copy of an instruction: longer only when it is relocated.
LEMMA CopiedLength ==
    ASSUME text \in Functions, NEW a \in DOMAIN text, NEW t \in Nat
    PROVE  /\ Copied(a, t) \in [op : Ops, len : 1 .. 15, arg : Int]
           /\ Copied(a, t).op = text[a].op
           /\ Copied(a, t).len \in 1 .. 15
           /\ Copied(a, t).len <= 6 * text[a].len
           /\ Copied(a, t).arg \in Int
<1>1. /\ text[a].op \in Ops /\ text[a].len \in 1 .. 15 /\ text[a].arg \in Int
      /\ text[a] \in [op : Ops, len : 1 .. 15, arg : Int] /\ a \in Nat
  BY CodeAt
<1>2. Destination(text, a) \in Int
  BY <1>1 DEF Destination
<1>3. CASE /\ text[a].op \in Relative \ {"loop"}
           /\ ~StaysInside(a, text[a].len + text[a].arg)
  <2>1. Copied(a, t) =
           [op |-> text[a].op, len |-> LongLen(text[a].op), arg |->
              Destination(text, a) - (t + LongLen(text[a].op))]
    BY <1>3 DEF Copied
  <2>2. text[a].len >= 2 /\ LongLen(text[a].op) \in 5 .. 6
    BY <1>1, <1>3, CodeLength DEF LongLen, Relative
  <2> QED
    BY <1>1, <1>2, <2>1, <2>2
<1>4. CASE ~(/\ text[a].op \in Relative \ {"loop"}
             /\ ~StaysInside(a, text[a].len + text[a].arg))
  <2>1. Copied(a, t) = text[a]
    BY <1>4 DEF Copied
  <2> QED
    BY <1>1, <2>1
<1> QED
  BY <1>3, <1>4

\* Making it a jump changes only the opcode of a copy.
LEMMA JumpLength ==
    ASSUME NEW i \in [op : Ops, len : 1 .. 15, arg : Int]
    PROVE  /\ AsJump(i).len = i.len /\ AsJump(i).arg = i.arg
           /\ IF i.op \in {"call", "jmp"} /\ i.len = 5
              THEN AsJump(i).op = "jmp" ELSE AsJump(i).op = "lost"
BY DEF AsJump

LEMMA CopyOfLength ==
    ASSUME text \in Functions, NEW a \in DOMAIN text, copies[a] \in Nat
    PROVE  /\ CopyOf(a).len = Copied(a, copies[a]).len
           /\ CopyOf(a).len \in 1 .. 15
           /\ CopyOf(a).arg = Copied(a, copies[a]).arg
BY CopiedLength, JumpLength DEF CopyOf

-----------------------------------------------------------------------------
LEMMA TrampolineInitInv == TrampolineInit => TrampolineInv
<1> SUFFICES ASSUME TrampolineInit PROVE TrampolineInv
  OBVIOUS
<1> USE DEF TrampolineInit
<1>1. TrampolineTypeOK
  BY TrampolineAssumption DEF TrampolineTypeOK
<1>2. Patched = {}
  <2>1. \A a \in DOMAIN text : a \in Nat
    BY CodeAt
  <2> QED
    BY <2>1 DEF Patched
<1>3. Measured
  BY <1>2, CodeAt DEF Measured
<1> QED
  BY <1>1, <1>3 DEF TrampolineInv, StubRunsOriginal, OnlyFirst

\* The search moves on.
LEMMA ScanRefusedInv == TrampolineInv /\ ScanRefused => TrampolineInv'
<1> SUFFICES ASSUME TrampolineInv, ScanRefused PROVE TrampolineInv'
  OBVIOUS
<1>1. Patched' = Patched
  BY DEF ScanRefused, found, Patched
<1>2. TrampolineTypeOK' /\ Measured'
  BY <1>1 DEF TrampolineInv, TrampolineTypeOK, Measured, ScanRefused, found,
     made
<1> QED
  BY <1>2 DEF TrampolineInv, ScanRefused, StubRunsOriginal, OnlyFirst

LEMMA ScanFollowInv == TrampolineInv /\ ScanFollow => TrampolineInv'
<1> SUFFICES ASSUME TrampolineInv, ScanFollow PROVE TrampolineInv'
  OBVIOUS
<1>1. /\ text \in Functions /\ buffer \in DOMAIN text /\ opSize = 0
      /\ text' = text /\ opSize' = opSize /\ final' = buffer'
      /\ buffer' = Destination(text, buffer) /\ hookSize' = hookSize
      /\ phase = "scan" /\ phase' = phase
      /\ UNCHANGED <<callHook, written, ip, copies>>
  BY DEF TrampolineInv, TrampolineTypeOK, Measured, ScanFollow, Follows, found,
     made
<1>2. buffer' \in DOMAIN text
  BY <1>1, CodeAt DEF ScanFollow, Follows, IsShortJump, This, Relative,
     Absolute, Branches
<1>3. buffer' \in Nat
  BY <1>1, <1>2, CodeAt
<1>4. Patched' = {}
  <2>1. \A a \in DOMAIN text : a \in Nat
    BY <1>1, CodeAt
  <2>2. \A a \in Patched' : a \in DOMAIN text /\ a >= buffer' /\ a < buffer' + 0
    BY <1>1 DEF Patched
  <2> QED
    BY <1>3, <2>1, <2>2
<1>5. TrampolineTypeOK'
  BY <1>1, <1>3 DEF TrampolineInv, TrampolineTypeOK
<1>6. Measured'
  <2>1. final' + opSize' = buffer'
    BY <1>1, <1>3
  <2> QED
    BY <1>1, <1>2, <1>4, <2>1 DEF Measured, TrampolineInv
<1> QED
  BY <1>1, <1>5, <1>6 DEF TrampolineInv, StubRunsOriginal, OnlyFirst

LEMMA ScanOneInv == TrampolineInv /\ ScanOne => TrampolineInv'
<1> SUFFICES ASSUME TrampolineInv, ScanOne PROVE TrampolineInv'
  OBVIOUS
<1>1. /\ text \in Functions /\ buffer \in DOMAIN text /\ opSize \in Nat
      /\ hookSize \in 5 .. 7 /\ final \in Nat /\ final \in DOMAIN text
      /\ buffer = final + opSize /\ opSize < hookSize
      /\ text' = text /\ opSize' = opSize + text[buffer].len
      /\ final' = final /\ buffer' = buffer + text[buffer].len
      /\ hookSize' = hookSize
      /\ phase = "scan" /\ phase' = phase
      /\ UNCHANGED <<callHook, written, ip, copies>>
  BY TrampolineAssumption DEF TrampolineInv, TrampolineTypeOK, Measured,
     ScanOne, This, found, made
<1>2. ~Ends /\ ~Follows
  BY DEF ScanOne
<1>3. /\ text[buffer].op # "ret" /\ text[buffer].len \in 1 .. 15
      /\ buffer \in Nat /\ text[buffer].op \in Ops
      /\ buffer' \in DOMAIN text
  BY <1>1, <1>2, CodeAt DEF Ends, This
<1>4. final' + opSize' = buffer' /\ buffer' \in Nat /\ opSize' \in Nat
  BY <1>1, <1>3
<1>5. \A a \in Patched' : a \in Patched \/ a = buffer
  <2> SUFFICES ASSUME NEW a \in Patched', a # buffer PROVE a \in Patched
    OBVIOUS
  <2>1. /\ a \in DOMAIN text /\ a \in Nat /\ a >= final
        /\ a < final + (opSize + text[buffer].len)
    BY <1>1, CodeAt DEF Patched
  <2>2. ~(buffer < a)
    BY <1>1, <1>3, <2>1, CodeAt
  <2> QED
    BY <1>1, <1>3, <2>1, <2>2 DEF Patched
<1>6. \/ buffer' = final' + opSize' /\ opSize' >= hookSize
      \/ text[buffer].op \in {"plain", "jcc", "call", "loop"}
      \/ text[buffer].op = "jmp" /\ text[buffer].arg = 0
      \/ PassedOver(text[buffer])
  <2>1. CASE text[buffer].op = "jmp"
    <3>1. text[buffer].len \in {2, 5}
      BY <1>1, <2>1, CodeLength
    <3>2. CASE text[buffer].len = 2 /\ opSize # 0
      <4>1. ~(opSize < hookSize - 2)
        BY <1>2, <2>1, <3>2 DEF Ends, IsShortJump, This
      <4> QED
        BY <1>1, <1>4, <3>2, <4>1
    <3>3. CASE text[buffer].len = 2 /\ opSize = 0
      BY <1>2, <2>1, <3>3 DEF Follows, IsShortJump, This
    <3>4. CASE text[buffer].len = 5
      BY <2>1, <3>4 DEF PassedOver
    <3> QED
      BY <2>1, <3>1, <3>2, <3>3, <3>4
  <2>2. CASE text[buffer].op = "jmpmem"
    <3>1. text[buffer].len = 6
      BY <1>1, <2>2, CodeLength
    <3>2. CASE opSize # 0
      <4>1. ~(opSize + 6 < hookSize)
        BY <1>2, <2>2, <3>1, <3>2 DEF Ends, This
      <4> QED
        BY <1>1, <1>4, <3>1, <4>1
    <3>3. CASE opSize = 0
      <4>1. ~(hookSize > 6)
        BY <1>2, <2>2, <3>1, <3>3 DEF Follows, This
      <4> QED
        BY <1>1, <1>4, <3>1, <3>3, <4>1
    <3> QED
      BY <3>2, <3>3
  <2>3. CASE text[buffer].op \in {"jmpreg", "retf"}
    BY <2>3 DEF PassedOver
  <2> QED
    BY <1>3, <2>1, <2>2, <2>3 DEF Ops, Branches, Relative, Absolute, Returns
<1>7. TrampolineTypeOK'
  BY <1>1, <1>4 DEF TrampolineInv, TrampolineTypeOK
<1>8. Measured'
  <2>1. ASSUME NEW a \in Patched'
        PROVE  /\ text[a].op # "ret" /\ a < final + hookSize
               /\ \/ a + text[a].len = final' + opSize' /\ opSize' >= hookSize
                  \/ text[a].op \in {"plain", "jcc", "call", "loop"}
                  \/ text[a].op = "jmp" /\ text[a].arg = 0
                  \/ PassedOver(text[a])
    <3>1. CASE a = buffer
      BY <1>1, <1>3, <1>6, <3>1
    <3>2. CASE a \in Patched
      <4>1. ~(opSize >= hookSize)
        BY <1>1
      <4> QED
        BY <1>1, <3>2, <4>1 DEF TrampolineInv, Measured
    <3> QED
      BY <1>5, <2>1, <3>1, <3>2
  <2>2. written = <<>> /\ copies = <<>> /\ ip = StubAt
    BY <1>1 DEF TrampolineInv, Measured
  <2> HIDE <1>2
  <2> QED
    BY <1>1, <1>3, <1>4, <2>1, <2>2 DEF Measured
<1> QED
  BY <1>1, <1>7, <1>8 DEF TrampolineInv, StubRunsOriginal, OnlyFirst

LEMMA ScanEndInv == TrampolineInv /\ ScanEnd => TrampolineInv'
<1> SUFFICES ASSUME TrampolineInv, ScanEnd PROVE TrampolineInv'
  OBVIOUS
<1>1. /\ text \in Functions /\ buffer \in DOMAIN text /\ opSize \in Nat
      /\ hookSize \in 5 .. 7 /\ final \in Nat /\ final \in DOMAIN text
      /\ buffer' = final /\ opSize >= hookSize
      /\ UNCHANGED <<text, hookSize, callHook, opSize, final>>
      /\ UNCHANGED <<written, ip, copies>>
      /\ written = <<>> /\ ip = StubAt /\ copies = <<>> /\ StubAt \in Nat
      /\ phase' = "copy"
  BY TrampolineAssumption DEF TrampolineInv, TrampolineTypeOK, Measured,
     ScanEnd, found, made
<1>2. Patched' = Patched
  BY <1>1 DEF Patched
<1>3. Done' = {}
  BY <1>1, <1>2, CodeAt DEF Done, Patched
<1>4. End' = StubAt
  BY <1>1 DEF End
<1>5. TrampolineTypeOK'
  BY <1>1, <1>2 DEF TrampolineInv, TrampolineTypeOK
<1>6. Measured'
  BY <1>1, <1>2 DEF TrampolineInv, Measured
<1>7. CopiesOK'
  BY <1>1, <1>3, <1>4 DEF CopiesOK, JumpsBack
<1>8. Distant' /\ Fitting'
  BY <1>1, <1>3, <1>4 DEF Distant, Fitting
<1> QED
  BY <1>1, <1>5, <1>6, <1>7, <1>8 DEF TrampolineInv, StubRunsOriginal,
     OnlyFirst

-----------------------------------------------------------------------------
\* What the invariant says of the copy, for the proofs of its steps.
LEMMA CopyFacts ==
    ASSUME TrampolineInv, phase \in {"copy", "write", "run"}
    PROVE  /\ text \in Functions /\ opSize \in Nat /\ final \in Nat
           /\ hookSize \in 5 .. 7 /\ opSize >= hookSize
           /\ final \in DOMAIN text /\ final + opSize \in DOMAIN text
           /\ buffer \in DOMAIN text /\ buffer \in Nat /\ StubAt \in Nat
           /\ ip \in Nat /\ End \in Int
           /\ CopiesOK /\ Distant /\ Fitting
<1>1. text \in Functions /\ CopiesOK /\ Measured /\ TrampolineTypeOK
  BY DEF TrampolineInv, TrampolineTypeOK
<1>2. buffer \in Nat
  BY <1>1, CodeAt DEF CopiesOK
<1>3. ip \in Nat /\ End \in Int
  BY <1>1 DEF TrampolineTypeOK, End
<1> QED
  BY <1>1, <1>2, <1>3, TrampolineAssumption DEF TrampolineInv,
     TrampolineTypeOK, CopiesOK, Measured

LEMMA CopyOneInv == TrampolineInv /\ CopyOne => TrampolineInv'
<1> SUFFICES ASSUME TrampolineInv, CopyOne PROVE TrampolineInv'
  OBVIOUS
<1> DEFINE new == Copied(buffer, ip)
<1>1. /\ phase = "copy" /\ phase' = phase /\ buffer < final + opSize
      /\ written' = With(written, ip, new)
      /\ copies' = With(copies, buffer, ip)
      /\ ip' = ip + new.len /\ buffer' = buffer + text[buffer].len
      /\ UNCHANGED <<text, hookSize, callHook, opSize, final>>
  BY DEF CopyOne, This, found
<1>2. /\ text \in Functions /\ opSize \in Nat /\ final \in Nat
      /\ hookSize \in 5 .. 7 /\ opSize >= hookSize
      /\ final \in DOMAIN text /\ final + opSize \in DOMAIN text
      /\ buffer \in DOMAIN text /\ buffer \in Nat /\ StubAt \in Nat
      /\ ip \in Nat /\ CopiesOK /\ Distant /\ Fitting
  BY <1>1, CopyFacts
<1>3. /\ new.len \in 1 .. 15 /\ new.len <= 6 * text[buffer].len
      /\ new.arg \in Int
  BY <1>2, CopiedLength
<1>4. final <= buffer /\ buffer \in Patched
  BY <1>1, <1>2 DEF CopiesOK, Patched
<1>5. text[buffer].op # "ret" /\ buffer < final + hookSize
  BY <1>4 DEF TrampolineInv, Measured
<1>6. /\ text[buffer].len \in 1 .. 15 /\ buffer' \in DOMAIN text
      /\ buffer' <= final + opSize /\ buffer' \in Nat
  <2>1. text[buffer].len \in 1 .. 15
    BY <1>2, CodeAt
  <2> QED
    BY <1>1, <1>2, <1>4, <1>5, <2>1, NextDisplaced
<1>7. Patched' = Patched
  BY <1>1 DEF Patched
<1>8. Done' = Done \cup {buffer} /\ buffer \notin Done
  <2>1. \A a \in Patched : a \in Nat /\ a \in DOMAIN text
    BY <1>2, CodeAt DEF Patched
  <2>2. \A a \in Patched : a < buffer' => a < buffer \/ a = buffer
    <3> SUFFICES ASSUME NEW a \in Patched, a < buffer', a > buffer
                 PROVE  FALSE
      BY <1>2, <2>1
    <3>1. buffer + text[buffer].len <= a
      BY <1>2, <2>1, CodeAt
    <3> QED
      BY <1>1, <1>2, <1>6, <2>1, <3>1
  <2>3. \A a \in Patched : a < buffer \/ a = buffer => a < buffer'
    BY <1>1, <1>2, <1>6, <2>1
  <2>4. \A a \in Patched : a < buffer' <=> (a < buffer \/ a = buffer)
    BY <2>2, <2>3
  <2> QED
    BY <1>2, <1>4, <1>7, <2>4 DEF Done
<1>9. End = ip /\ End' = ip'
  BY <1>1 DEF End
<1>10. DOMAIN copies = Done /\ DOMAIN written = {copies[a] : a \in Done}
  BY <1>1, <1>2 DEF CopiesOK, JumpsBack
<1>11. \A a \in Done : copies[a] \in Nat /\ copies[a] < ip /\ a \in Nat
  <2>1. \A a \in Done : copies[a] \in Nat /\ copies[a] < ip
    BY <1>2, <1>9 DEF CopiesOK
  <2> QED
    BY <1>2, <2>1, CodeAt DEF Done, Patched
<1>12. ip \notin DOMAIN written
  BY <1>2, <1>10, <1>11
<1>13. /\ copies'[buffer] = ip /\ written'[ip] = new
       /\ DOMAIN copies' = DOMAIN copies \cup {buffer}
       /\ DOMAIN written' = DOMAIN written \cup {ip}
  BY <1>1 DEF With
<1>14. \A a \in Done : /\ copies'[a] = copies[a]
                       /\ written'[copies'[a]] = written[copies[a]]
  <2> TAKE a \in Done
  <2>1. copies'[a] = copies[a]
    BY <1>1, <1>8, <1>10 DEF With
  <2>2. copies[a] \in DOMAIN written /\ copies[a] # ip
    BY <1>10, <1>12
  <2>3. written'[copies[a]] = written[copies[a]]
    BY <1>1, <2>2 DEF With
  <2> QED
    BY <2>1, <2>3
<1> HIDE DEF new
<1>15. TrampolineTypeOK'
  BY <1>1, <1>2, <1>3, <1>6 DEF TrampolineInv, TrampolineTypeOK
<1>16. Measured'
  BY <1>1, <1>7 DEF TrampolineInv, Measured
<1>17. CopiesOK'
  <2>1. DOMAIN written' =
          {copies'[a] : a \in Done'} \cup (IF JumpsBack THEN {End} ELSE {})'
    <3>1. {copies'[a] : a \in Done'} = {copies[a] : a \in Done} \cup {ip}
      BY <1>8, <1>13, <1>14
    <3>2. ~JumpsBack'
      BY <1>1 DEF JumpsBack
    <3> QED
      BY <1>10, <1>13, <3>1, <3>2
  <2>2. \A a \in Done' : CopyOf(a)' = Copied(a, copies'[a])
    BY <1>1 DEF CopyOf, Copied, StaysInside, Destination, LongLen
  <2>3. ASSUME NEW a \in Done'
        PROVE  /\ copies'[a] \in Nat /\ copies'[a] >= StubAt
               /\ copies'[a] < End'
               /\ written'[copies'[a]] = Copied(a, copies'[a])
               /\ a + text'[a].len \in Done' =>
                     copies'[a + text'[a].len] =
                        copies'[a] + written'[copies'[a]].len
               /\ a + text'[a].len = buffer' =>
                     End' = copies'[a] + written'[copies'[a]].len
    <3>1. CASE a = buffer
      <4>1. ip >= StubAt
        <5>1. CASE buffer = final
          BY <1>2, <1>9, <5>1 DEF CopiesOK
        <5>2. CASE buffer # final
          <6>1. final \in Patched /\ final < buffer
            BY <1>2, <1>4, <5>2 DEF Patched
          <6>2. final \in Done
            BY <6>1 DEF Done
          <6>3. copies[final] \in Nat /\ copies[final] >= StubAt
                /\ copies[final] < ip
            BY <1>2, <1>9, <6>2 DEF CopiesOK
          <6> QED
            BY <1>2, <6>3
        <5> QED
          BY <5>1, <5>2
      <4>2. a + text[a].len \notin Done'
        BY <1>1, <1>2, <1>6, <3>1 DEF Done
      <4>3. written'[copies'[a]] = Copied(a, copies'[a])
        BY <1>13, <3>1 DEF new
      <4> QED
        BY <1>1, <1>2, <1>3, <1>9, <1>13, <2>2, <3>1, <4>1, <4>2, <4>3
    <3>2. CASE a \in Done
      <4>1. /\ copies[a] \in Nat /\ copies[a] >= StubAt /\ copies[a] < ip
            /\ written[copies[a]] = CopyOf(a)
            /\ a + text[a].len \in Done =>
                  copies[a + text[a].len] = copies[a] + written[copies[a]].len
            /\ a + text[a].len = buffer =>
                  ip = copies[a] + written[copies[a]].len
        BY <1>2, <1>9, <3>2 DEF CopiesOK
      <4>2. a \in DOMAIN text /\ a \in Nat /\ a < buffer
        BY <1>11, <3>2 DEF Done, Patched
      <4>3. a + text[a].len <= buffer /\ text[a].len \in 1 .. 15
        BY <1>2, <4>2, CodeAt
      <4>4. a + text[a].len # buffer'
        BY <1>1, <1>2, <1>6, <4>2, <4>3
      <4>5. a + text[a].len \in Done' =>
               copies'[a + text[a].len] = copies'[a] + written'[copies'[a]].len
        BY <1>8, <1>13, <1>14, <3>2, <4>1
      <4>6. copies'[a] = copies[a] /\ written'[copies'[a]] = written[copies[a]]
        BY <1>14, <3>2
      <4>7. copies'[a] < End'
        BY <1>1, <1>2, <1>3, <1>9, <4>1, <4>6
      <4>8. CopyOf(a) = Copied(a, copies[a])
        BY <1>1 DEF CopyOf
      <4> QED
        BY <1>1, <2>2, <4>1, <4>4, <4>5, <4>6, <4>7, <4>8
    <3> QED
      BY <1>8, <2>3, <3>1, <3>2
  <2>4. copies'[final'] = StubAt /\ buffer' # final'
    <3>1. buffer' # final'
      BY <1>1, <1>2, <1>4, <1>6
    <3>2. CASE buffer = final
      BY <1>1, <1>2, <1>9, <1>13, <3>1, <3>2 DEF CopiesOK
    <3>3. CASE buffer # final
      <4>1. final \in Done
        BY <1>2, <1>4, <3>3 DEF Done, Patched
      <4> QED
        BY <1>1, <1>2, <1>14, <3>1, <3>3, <4>1 DEF CopiesOK
    <3> QED
      BY <3>2, <3>3
  <2>5. DOMAIN copies' = Done'
    BY <1>8, <1>10, <1>13
  <2>6. final' <= buffer' /\ buffer' <= final' + opSize'
        /\ buffer' \in DOMAIN text'
    BY <1>1, <1>2, <1>4, <1>6
  <2>7. phase' \notin {"write", "run"} /\ ~JumpsBack'
    BY <1>1 DEF JumpsBack
  <2>8. \A a \in Done' :
           /\ copies'[a] \in Nat /\ copies'[a] >= StubAt
           /\ copies'[a] < End'
           /\ written'[copies'[a]] = CopyOf(a)'
           /\ a + text'[a].len \in Done' =>
                 copies'[a + text'[a].len] =
                    copies'[a] + written'[copies'[a]].len
           /\ a + text'[a].len = buffer' =>
                 End' = copies'[a] + written'[copies'[a]].len
    <3> TAKE a \in Done'
    <3> QED
      BY <2>2, <2>3
  <2> QED
    BY <2>1, <2>4, <2>5, <2>6, <2>7, <2>8 DEF CopiesOK
<1>18. Distant'
  <2>1. PICK b0 : b0 = buffer
    OBVIOUS
  <2>2. /\ Done' = Done \cup {b0} /\ b0 \notin Done /\ b0 \in Nat
        /\ copies'[b0] = ip /\ \A a \in Done : a < b0
    BY <1>2, <1>8, <1>13, <2>1 DEF Done
  <2>3. \A c \in Done : SameLen(c)' => SameLen(c)
    BY <1>1, <1>14 DEF SameLen
  <2>4. SameLen(b0)' => new.len = text[b0].len
    BY <1>1, <1>13, <2>1 DEF SameLen
  <2>5. ASSUME NEW a \in Done', \A c \in Done' : a <= c => SameLen(c)'
        PROVE  End' - copies'[a] = buffer' - a
    <3>1. a <= b0
      BY <1>11, <2>2, <2>5
    <3>2. SameLen(b0)'
      BY <2>2, <2>5, <3>1
    <3>3. new.len = text[b0].len
      BY <2>4, <3>2
    <3>4. CASE a = b0
      BY <1>1, <1>2, <1>6, <1>9, <2>1, <2>2, <3>3, <3>4
    <3>5. CASE a \in Done
      <4>1. \A c \in Done : a <= c => SameLen(c)
        BY <2>2, <2>3, <2>5
      <4>2. End - copies[a] = buffer - a
        BY <1>2, <3>5, <4>1 DEF Distant
      <4>3. copies[a] \in Nat /\ a \in Nat /\ copies'[a] = copies[a]
        BY <1>11, <1>14, <3>5
      <4> QED
        BY <1>1, <1>2, <1>6, <1>9, <2>1, <3>3, <4>2, <4>3
    <3> QED
      BY <2>2, <3>4, <3>5
  <2>6. ASSUME NEW a \in Done', NEW b \in Done', a <= b,
               \A c \in Done' : a <= c /\ c < b => SameLen(c)'
        PROVE  copies'[b] - copies'[a] = b - a
    <3>1. CASE a = b
      <4>1. b \in Nat /\ copies'[b] \in Nat
        BY <1>2, <1>11, <1>14, <2>2
      <4> QED
        BY <3>1, <4>1
    <3>2. CASE a # b /\ b = b0
      <4>1. a \in Done
        BY <2>2, <3>2
      <4>2. \A c \in Done : a <= c => SameLen(c)
        BY <2>2, <2>3, <2>6, <3>2
      <4>3. End - copies[a] = buffer - a
        BY <1>2, <4>1, <4>2 DEF Distant
      <4> QED
        BY <1>9, <1>14, <2>1, <2>2, <3>2, <4>1, <4>3
    <3>3. CASE b \in Done
      <4>1. a \in Done
        BY <1>11, <2>2, <2>6, <3>3
      <4>2. \A c \in Done : a <= c /\ c < b => SameLen(c)
        BY <2>2, <2>3, <2>6
      <4>3. copies[b] - copies[a] = b - a
        BY <1>2, <2>6, <3>3, <4>1, <4>2 DEF Distant
      <4> QED
        BY <1>14, <3>3, <4>1, <4>3
    <3> QED
      BY <2>2, <3>1, <3>2, <3>3
  <2>7. ASSUME NEW a \in Done', NEW b \in Done', a < b
        PROVE  copies'[a] < copies'[b]
    <3>1. a \in Done
      BY <1>11, <2>2, <2>7
    <3>2. CASE b = b0
      BY <1>11, <1>14, <2>2, <3>1, <3>2
    <3>3. CASE b \in Done
      BY <1>2, <1>14, <2>7, <3>1, <3>3 DEF Distant
    <3> QED
      BY <2>2, <3>2, <3>3
  <2> QED
    BY <2>5, <2>6, <2>7 DEF Distant
<1>19. Fitting'
  <2>1. buffer' < final' + opSize' => End' - StubAt <= 6 * (buffer' - final')
    <3>1. End - StubAt <= 6 * (buffer - final)
      BY <1>1, <1>2 DEF Fitting
    <3> QED
      BY <1>1, <1>2, <1>3, <1>6, <1>9, <3>1
  <2>2. End' - StubAt <= 51
    <3>1. End - StubAt <= 6 * (buffer - final)
      BY <1>1, <1>2 DEF Fitting
    <3>2. buffer - final <= 6
      BY <1>2, <1>5
    <3> QED
      BY <1>1, <1>2, <1>3, <1>9, <3>1, <3>2
  <2> QED
    BY <2>1, <2>2 DEF Fitting
<1> QED
  BY <1>1, <1>15, <1>16, <1>17, <1>18, <1>19 DEF TrampolineInv,
     StubRunsOriginal, OnlyFirst

LEMMA JumpBackInv == TrampolineInv /\ JumpBack => TrampolineInv'
<1> SUFFICES ASSUME TrampolineInv, JumpBack PROVE TrampolineInv'
  OBVIOUS
<1> DEFINE back == [op |-> "jmpmem", len |-> 6, arg |-> final + opSize]
<1>1. /\ phase = "copy" /\ phase' = "write" /\ buffer >= final + opSize
      /\ written' = With(written, ip, back) /\ ip' = ip + 8
      /\ UNCHANGED <<text, hookSize, callHook, buffer, opSize, final, copies>>
      /\ ~ReplacesCall
  BY DEF JumpBack, found
<1>2. /\ text \in Functions /\ opSize \in Nat /\ final \in Nat
      /\ hookSize \in 5 .. 7 /\ opSize >= hookSize
      /\ final + opSize \in DOMAIN text
      /\ buffer \in DOMAIN text /\ buffer \in Nat /\ StubAt \in Nat
      /\ ip \in Nat /\ CopiesOK /\ Distant /\ Fitting
  BY <1>1, CopyFacts
<1>3. buffer = final + opSize
  BY <1>1, <1>2 DEF CopiesOK
<1>4. Patched' = Patched /\ Done' = Done
  BY <1>1 DEF Patched, Done
<1>5. End = ip /\ End' = ip /\ ~ReplacesCall' /\ JumpsBack'
  BY <1>1, <1>2 DEF End, ReplacesCall, JumpsBack
<1>6. DOMAIN copies = Done /\ DOMAIN written = {copies[a] : a \in Done}
  BY <1>1, <1>2 DEF CopiesOK, JumpsBack
<1>7. \A a \in Done : copies[a] \in DOMAIN written /\ copies[a] # ip
  <2>1. \A a \in Done : copies[a] \in Nat /\ copies[a] < ip
    BY <1>2, <1>5 DEF CopiesOK
  <2> QED
    BY <1>2, <1>6, <2>1
<1>8. \A a \in Done : written'[copies[a]] = written[copies[a]]
  BY <1>1, <1>7 DEF With
<1>9. written'[ip] = back /\ DOMAIN written' = DOMAIN written \cup {ip}
  BY <1>1 DEF With
<1>10. TrampolineTypeOK'
  BY <1>1, <1>2 DEF TrampolineInv, TrampolineTypeOK
<1>11. Measured'
  BY <1>1, <1>4 DEF TrampolineInv, Measured
<1>12. CopiesOK'
  <2>1. \A a \in Done : CopyOf(a)' = CopyOf(a)
    BY <1>1, <1>5 DEF CopyOf, Copied, StaysInside, Destination, LongLen
  <2>2. \A a \in Done' :
           /\ copies'[a] \in Nat /\ copies'[a] >= StubAt
           /\ copies'[a] < End'
           /\ written'[copies'[a]] = CopyOf(a)'
           /\ a + text'[a].len \in Done' =>
                 copies'[a + text'[a].len] =
                    copies'[a] + written'[copies'[a]].len
           /\ a + text'[a].len = buffer' =>
                 End' = copies'[a] + written'[copies'[a]].len
    BY <1>1, <1>2, <1>4, <1>5, <1>8, <2>1 DEF CopiesOK
  <2>3. DOMAIN written' =
          {copies'[a] : a \in Done'} \cup (IF JumpsBack THEN {End} ELSE {})'
    BY <1>1, <1>4, <1>5, <1>6, <1>9
  <2>4. written'[End'] = [op |-> "jmpmem", len |-> 6, arg |-> final' + opSize']
    BY <1>1, <1>5, <1>9
  <2>5. /\ DOMAIN copies' = Done' /\ final' <= buffer'
        /\ buffer' <= final' + opSize' /\ buffer' = final' + opSize'
        /\ buffer' \in DOMAIN text'
        /\ IF buffer' = final' THEN End' = StubAt ELSE copies'[final'] = StubAt
    BY <1>1, <1>2, <1>3, <1>4, <1>5, <1>6 DEF CopiesOK
  <2> QED
    BY <2>2, <2>3, <2>4, <2>5 DEF CopiesOK
<1>13. Distant'
  <2>1. \A c \in Done : SameLen(c)' <=> SameLen(c)
    BY <1>1, <1>8 DEF SameLen
  <2> QED
    BY <1>1, <1>2, <1>4, <1>5, <2>1 DEF Distant
<1>14. Fitting'
  BY <1>1, <1>2, <1>5 DEF Fitting
<1> QED
  BY <1>1, <1>10, <1>11, <1>12, <1>13, <1>14 DEF TrampolineInv,
     StubRunsOriginal, OnlyFirst

LEMMA MakeJumpInv == TrampolineInv /\ MakeJump => TrampolineInv'
<1> SUFFICES ASSUME TrampolineInv, MakeJump PROVE TrampolineInv'
  OBVIOUS
<1>1. /\ phase = "copy" /\ phase' = "write" /\ buffer >= final + opSize
      /\ written' = [written EXCEPT ![StubAt] = AsJump(@)]
      /\ UNCHANGED <<text, hookSize, callHook, buffer, opSize, final>>
      /\ UNCHANGED <<ip, copies>> /\ ReplacesCall
  BY DEF MakeJump, found
<1>2. /\ text \in Functions /\ opSize \in Nat /\ final \in Nat
      /\ hookSize \in 5 .. 7 /\ opSize >= hookSize
      /\ final \in DOMAIN text /\ final + opSize \in DOMAIN text
      /\ buffer \in DOMAIN text /\ buffer \in Nat /\ StubAt \in Nat
      /\ ip \in Nat /\ CopiesOK /\ Distant /\ Fitting
  BY <1>1, CopyFacts
<1>3. buffer = final + opSize
  BY <1>1, <1>2 DEF CopiesOK
<1>4. Patched' = Patched /\ Done' = Done
  BY <1>1 DEF Patched, Done
<1>5. End = ip /\ End' = ip /\ ReplacesCall' /\ ~JumpsBack' /\ ~JumpsBack
  BY <1>1, <1>2 DEF End, ReplacesCall, JumpsBack
<1>6. DOMAIN copies = Done /\ DOMAIN written = {copies[a] : a \in Done}
  BY <1>1, <1>2, <1>5 DEF CopiesOK
<1>7. final \in Done /\ copies[final] = StubAt
  <2>1. final \in Patched /\ final < buffer
    BY <1>2, <1>3 DEF Patched
  <2> QED
    BY <1>2, <2>1 DEF CopiesOK, Done
\* The copy of another instruction is elsewhere.
<1>8. ASSUME NEW a \in Done
      PROVE  /\ a \in DOMAIN text /\ copies[a] \in Nat
             /\ copies[a] >= StubAt /\ copies[a] < ip
             /\ written[copies[a]] = Copied(a, copies[a])
  <2>1. CopyOf(a) = Copied(a, copies[a])
    BY <1>1 DEF CopyOf
  <2>2. a \in DOMAIN text
    BY DEF Done, Patched
  <2> QED
    BY <1>2, <1>5, <1>8, <2>1, <2>2 DEF CopiesOK
<1>9. ASSUME NEW a \in Done, a # final PROVE copies[a] # StubAt
  <2>1. final <= a /\ a \in Nat
    BY <1>2, <1>9, CodeAt DEF Done, Patched
  <2>2. copies[final] < copies[a]
    BY <1>2, <1>7, <1>9, <2>1 DEF Distant
  <2> QED
    BY <1>2, <1>7, <1>8, <1>9, <2>2
<1>10. \A a \in Done : written'[copies[a]] =
          IF a = final THEN AsJump(written[copies[a]]) ELSE written[copies[a]]
  BY <1>1, <1>6, <1>7, <1>9
<1>11. DOMAIN written' = DOMAIN written
  BY <1>1
<1>12. \A a \in Done : written'[copies[a]].len = written[copies[a]].len
  <2> TAKE a \in Done
  <2>1. Copied(a, copies[a]) \in [op : Ops, len : 1 .. 15, arg : Int]
    BY <1>2, <1>8, CopiedLength
  <2>2. AsJump(written[copies[a]]).len = written[copies[a]].len
    BY <1>8, <2>1, JumpLength
  <2> QED
    BY <1>10, <2>2
<1>13. TrampolineTypeOK'
  BY <1>1, <1>2 DEF TrampolineInv, TrampolineTypeOK
<1>14. Measured'
  BY <1>1, <1>4 DEF TrampolineInv, Measured
<1>15. CopiesOK'
  <2>1. \A a \in Done : CopyOf(a)' =
           IF a = final THEN AsJump(Copied(a, copies[a]))
                        ELSE Copied(a, copies[a])
    BY <1>1, <1>5 DEF CopyOf, Copied, StaysInside, Destination, LongLen, AsJump
  <2>2. ASSUME NEW a \in Done'
        PROVE  /\ copies'[a] \in Nat /\ copies'[a] >= StubAt
               /\ copies'[a] < End'
               /\ written'[copies'[a]] = CopyOf(a)'
               /\ a + text'[a].len \in Done' =>
                     copies'[a + text'[a].len] =
                        copies'[a] + written'[copies'[a]].len
               /\ a + text'[a].len = buffer' =>
                     End' = copies'[a] + written'[copies'[a]].len
    <3>1. a \in Done /\ copies'[a] = copies[a] /\ text' = text
      BY <1>1, <1>4
    <3>2. /\ copies[a] \in Nat /\ copies[a] >= StubAt /\ copies[a] < ip
          /\ written'[copies[a]] = CopyOf(a)'
      BY <1>8, <1>10, <2>1, <3>1
    <3>3. /\ a + text[a].len \in Done =>
                 copies[a + text[a].len] = copies[a] + written'[copies[a]].len
          /\ a + text[a].len = buffer =>
                 ip = copies[a] + written'[copies[a]].len
      BY <1>2, <1>5, <1>12, <3>1 DEF CopiesOK
    <3> QED
      BY <1>1, <1>4, <1>5, <3>1, <3>2, <3>3
  <2>3. DOMAIN written' =
          {copies'[a] : a \in Done'} \cup (IF JumpsBack THEN {End} ELSE {})'
    BY <1>1, <1>4, <1>5, <1>6, <1>11
  <2>4. /\ DOMAIN copies' = Done' /\ final' <= buffer'
        /\ buffer' <= final' + opSize' /\ buffer' = final' + opSize'
        /\ buffer' \in DOMAIN text'
        /\ IF buffer' = final' THEN End' = StubAt ELSE copies'[final'] = StubAt
    BY <1>1, <1>2, <1>3, <1>4, <1>5, <1>6 DEF CopiesOK
  <2> QED
    BY <1>5, <2>2, <2>3, <2>4 DEF CopiesOK
<1>16. Distant'
  <2>1. \A c \in Done : SameLen(c)' <=> SameLen(c)
    BY <1>1, <1>12 DEF SameLen
  <2> QED
    BY <1>1, <1>2, <1>4, <1>5, <2>1 DEF Distant
<1>17. Fitting'
  BY <1>1, <1>2, <1>5 DEF Fitting
<1> QED
  BY <1>1, <1>13, <1>14, <1>15, <1>16, <1>17 DEF TrampolineInv,
     StubRunsOriginal, OnlyFirst

\* Steps that leave the copy alone leave what is said of it.
LEMMA CopyUnchanged ==
    TrampolineInv /\ UNCHANGED <<text, hookSize, callHook, buffer, opSize,
                                 final, written, ip, copies>>
                  /\ phase \in {"write", "run"} /\ phase' = "run" =>
       /\ TrampolineTypeOK' /\ Measured' /\ CopiesOK' /\ Distant' /\ Fitting'
       /\ Patched' = Patched
<1> SUFFICES ASSUME TrampolineInv, phase \in {"write", "run"}, phase' = "run",
                    UNCHANGED <<text, hookSize, callHook, buffer, opSize,
                                final, written, ip, copies>>
             PROVE  /\ TrampolineTypeOK' /\ Measured' /\ CopiesOK' /\ Distant'
                    /\ Fitting' /\ Patched' = Patched
  OBVIOUS
<1>1. /\ Patched' = Patched /\ Done' = Done /\ End' = End
      /\ JumpsBack' = JumpsBack
  BY DEF Patched, Done, End, ReplacesCall, JumpsBack
<1>2. TrampolineTypeOK' /\ Measured'
  BY <1>1 DEF TrampolineInv, TrampolineTypeOK, Measured
<1>3. CopiesOK'
  <2>1. \A a \in Done : CopyOf(a)' = CopyOf(a)
    BY DEF CopyOf, Copied, StaysInside, Destination, LongLen, AsJump,
       ReplacesCall
  <2> QED
    BY <1>1, <2>1 DEF TrampolineInv, CopiesOK
<1>4. Distant' /\ Fitting'
  <2>1. \A c \in Done : SameLen(c)' <=> SameLen(c)
    BY DEF SameLen
  <2> QED
    BY <1>1, <2>1 DEF TrampolineInv, Distant, Fitting
<1> QED
  BY <1>1, <1>2, <1>3, <1>4

LEMMA PutHookInv == TrampolineInv /\ PutHook => TrampolineInv'
<1> SUFFICES ASSUME TrampolineInv, PutHook PROVE TrampolineInv'
  OBVIOUS
<1>1. /\ phase = "write" /\ phase' = "run" /\ at' = final /\ in' = StubAt
      /\ UNCHANGED <<text, hookSize, callHook, buffer, opSize, final>>
      /\ UNCHANGED <<written, ip, copies>>
  BY DEF PutHook, found, made
<1>2. /\ TrampolineTypeOK' /\ Measured' /\ CopiesOK' /\ Distant' /\ Fitting'
      /\ Patched' = Patched
  BY <1>1, CopyUnchanged
<1>3. /\ final \in Nat /\ final \in DOMAIN text /\ opSize \in Nat
      /\ opSize >= 5 /\ CopiesOK
  BY <1>1, CopyFacts
<1>4. final \in Patched
  BY <1>3 DEF Patched
<1>5. copies[final] = StubAt
  BY <1>1, <1>3 DEF CopiesOK
<1>6. StubRunsOriginal'
  BY <1>1, <1>2, <1>4, <1>5 DEF StubRunsOriginal, Together
<1> QED
  BY <1>1, <1>2, <1>6 DEF TrampolineInv, OnlyFirst

-----------------------------------------------------------------------------
\* The function is not within reach of a loop instruction of the stub.
LEMMA FarAway ==
    ASSUME text \in Functions, StubAt \in Nat, NEW a \in Int,
           StubAt - 256 <= a, a <= StubAt + 256
    PROVE  a \notin DOMAIN text
BY CodeAt

\* What Together says, for the instruction that runs.
LEMMA RunFacts ==
    ASSUME TrampolineInv, CanRun
    PROVE  /\ phase = "run" /\ at \in DOMAIN text /\ at \in Nat
           /\ End = (IF ReplacesCall THEN ip ELSE ip - 8) /\ Done = Patched
           /\ at \in Patched => in = copies[at] /\ InStub
           /\ at \notin Patched =>
                 \/ in = at /\ ~InStub
                 \/ in = End /\ at = final + opSize /\ InStub /\ JumpsBack
           /\ \A a \in DOMAIN written : a \notin DOMAIN text
<1>1. phase = "run" /\ Together /\ at \in DOMAIN text
  BY DEF CanRun
<1>2. /\ text \in Functions /\ opSize \in Nat /\ final \in Nat
      /\ StubAt \in Nat /\ ip \in Nat /\ buffer \in Nat
      /\ CopiesOK /\ Fitting
  BY <1>1, CopyFacts
<1>3. /\ End = (IF ReplacesCall THEN ip ELSE ip - 8)
      /\ End \in Int /\ End <= StubAt + 51 /\ (JumpsBack <=> ~ReplacesCall)
  <2>1. /\ End = (IF ReplacesCall THEN ip ELSE ip - 8)
        /\ JumpsBack <=> ~ReplacesCall
    BY <1>1 DEF End, JumpsBack
  <2> QED
    BY <1>2, <2>1 DEF Fitting
<1>4. buffer = final + opSize
  BY <1>1, <1>2 DEF CopiesOK
<1>5. \A a \in Patched : a \in Nat /\ a < final + opSize
  BY <1>2, CodeAt DEF Patched
<1>6. Done = Patched
  BY <1>4, <1>5 DEF Done
<1>7. /\ DOMAIN written = {copies[a] : a \in Done} \cup
                               (IF JumpsBack THEN {End} ELSE {})
      /\ \A a \in Done : /\ copies[a] \in Nat /\ copies[a] >= StubAt
                         /\ copies[a] < End
  BY <1>1, <1>2 DEF CopiesOK
<1>8. End >= StubAt
  <2>1. final \in Done
    BY <1>1, <1>2, <1>6, CopyFacts DEF Patched
  <2>2. copies[final] = StubAt
    BY <1>2, <1>4, <2>1 DEF CopiesOK, Done
  <2> QED
    BY <1>2, <1>3, <1>7, <2>1, <2>2
<1>9. \A a \in DOMAIN written : a \notin DOMAIN text
  <2> TAKE a \in DOMAIN written
  <2>1. a \in Int /\ StubAt <= a /\ a <= StubAt + 51
    BY <1>2, <1>3, <1>7, <1>8
  <2> QED
    BY <1>2, <2>1, FarAway
<1>10. at \in Nat
  BY <1>1, <1>2, CodeAt
<1>11. CASE at \in Patched
  <2>1. in = copies[at]
    BY <1>1, <1>3, <1>5, <1>11 DEF Together
  <2> QED
    BY <1>1, <1>3, <1>6, <1>7, <1>9, <1>10, <1>11, <2>1 DEF InStub
<1>12. CASE at \notin Patched
  <2>1. \/ in = at
        \/ in = End /\ at = final + opSize /\ JumpsBack
    BY <1>1, <1>3, <1>12 DEF Together
  <2> QED
    BY <1>1, <1>3, <1>6, <1>7, <1>9, <1>10, <1>12, <2>1 DEF InStub
<1> QED
  BY <1>11, <1>12

LEMMA RunBackInv == TrampolineInv /\ RunBack => TrampolineInv'
<1> SUFFICES ASSUME TrampolineInv, RunBack PROVE TrampolineInv'
  OBVIOUS
<1>1. /\ CanRun /\ InStub /\ at \notin Patched /\ at' = at
      /\ in' = Destination(written, in) /\ phase' = phase
      /\ UNCHANGED <<text, hookSize, callHook, buffer, opSize, final>>
      /\ UNCHANGED <<written, ip, copies>>
  BY DEF RunBack, found, made
<1>2. phase = "run" /\ in = End /\ at = final + opSize /\ JumpsBack
  BY <1>1, RunFacts
<1>3. /\ TrampolineTypeOK' /\ Measured' /\ CopiesOK' /\ Distant' /\ Fitting'
      /\ Patched' = Patched
  BY <1>1, <1>2, CopyUnchanged
<1>4. written[End] = [op |-> "jmpmem", len |-> 6, arg |-> final + opSize]
  BY <1>2, CopyFacts DEF CopiesOK
<1>5. in' = at'
  BY <1>1, <1>2, <1>4 DEF Destination, Absolute
<1>6. StubRunsOriginal'
  BY <1>1, <1>3, <1>5 DEF StubRunsOriginal, Together
<1> QED
  BY <1>1, <1>3, <1>6 DEF TrampolineInv, OnlyFirst

\* Copies are written from the start of the stub on; the first is made a jump
\* when the hook takes the place of a call.
LEMMA CopyPlace ==
    ASSUME TrampolineInv, phase = "run", NEW a \in Patched
    PROVE  /\ a \in Done /\ a \in Nat /\ a < final + opSize /\ final <= a
           /\ copies[a] \in Nat /\ StubAt <= copies[a]
           /\ copies[a] < StubAt + 51
           /\ written[copies[a]].len = Copied(a, copies[a]).len
           /\ written[copies[a]].arg = Copied(a, copies[a]).arg
           /\ IF ReplacesCall /\ a = final
              THEN written[copies[a]].op \in {"jmp", "lost"}
              ELSE written[copies[a]] = Copied(a, copies[a])
<1>1. /\ text \in Functions /\ opSize \in Nat /\ final \in Nat
      /\ StubAt \in Nat /\ End \in Int /\ buffer = final + opSize
      /\ CopiesOK /\ Fitting
  BY CopyFacts DEF CopiesOK
<1>2. a \in Nat /\ a < final + opSize /\ final <= a /\ a \in DOMAIN text
  BY <1>1, CodeAt DEF Patched
<1>3. a \in Done
  BY <1>1, <1>2 DEF Done
<1>4. /\ copies[a] \in Nat /\ copies[a] >= StubAt /\ copies[a] < End
      /\ written[copies[a]] = CopyOf(a)
  BY <1>1, <1>3 DEF CopiesOK
<1>5. End <= StubAt + 51
  BY <1>1 DEF Fitting
<1>6. Copied(a, copies[a]) \in [op : Ops, len : 1 .. 15, arg : Int]
  BY <1>1, <1>2, <1>4, CopiedLength
<1>7. /\ CopyOf(a).len = Copied(a, copies[a]).len
      /\ CopyOf(a).arg = Copied(a, copies[a]).arg
      /\ IF ReplacesCall /\ a = final
         THEN CopyOf(a).op \in {"jmp", "lost"}
         ELSE CopyOf(a) = Copied(a, copies[a])
  BY <1>6, JumpLength DEF CopyOf
<1> QED
  BY <1>1, <1>2, <1>3, <1>4, <1>5, <1>7

\* The instruction that runs is the first when the hook takes the place of a
\* call. Unless it was none, the stub is a jump as long, with its offset.
LEMMA JumpMade ==
    ASSUME TrampolineInv, CanRun, at \in Patched, ReplacesCall
    PROVE  /\ at = final /\ opSize = 5 /\ hookSize = 5
           /\ written[copies[at]].op = "lost" => NoCallThere
           /\ written[copies[at]].op # "lost" =>
                 /\ written[copies[at]].op = "jmp"
                 /\ written[copies[at]].len = 5
                 /\ text[at].op \in {"call", "jmp"}
<1>1. phase = "run" /\ in = copies[at] /\ at \in DOMAIN text
  BY RunFacts
<1>2. at = final
  BY <1>1 DEF TrampolineInv, OnlyFirst
<1>3. opSize = 5 /\ hookSize = 5
  BY DEF TrampolineInv, TrampolineTypeOK, ReplacesCall
<1>4. /\ text \in Functions /\ copies[at] \in Nat /\ at \in Done
      /\ CopiesOK
  BY <1>1, CopyFacts, CopyPlace
<1>5. written[copies[at]] = AsJump(Copied(at, copies[at]))
  BY <1>1, <1>2, <1>4 DEF CopiesOK, CopyOf
<1>6. /\ Copied(at, copies[at]) \in [op : Ops, len : 1 .. 15, arg : Int]
      /\ Copied(at, copies[at]).op = text[at].op
  BY <1>1, <1>4, CopiedLength
<1>7. text[at].op \in {"call", "jmp"} /\ text[at].len = 5 =>
         Copied(at, copies[at]).len = 5
  BY DEF Copied, LongLen
<1>8. CASE text[at].op \in {"call", "jmp"} /\ text[at].len = 5
  BY <1>2, <1>3, <1>5, <1>6, <1>7, <1>8, JumpLength
<1>9. CASE ~(text[at].op \in {"call", "jmp"} /\ text[at].len = 5)
  <2>1. NoCallThere
    BY <1>2, <1>9 DEF NoCallThere
  <2> QED
    BY <1>2, <1>3, <1>5, <1>6, <2>1, JumpLength
<1> QED
  BY <1>8, <1>9

LEMMA RunOnInv == TrampolineInv /\ RunOn => TrampolineInv'
<1> SUFFICES ASSUME TrampolineInv, RunOn PROVE TrampolineInv'
  OBVIOUS
<1>1. /\ CanRun /\ (InStub => at \in Patched) /\ phase' = phase
      /\ text[at].op \notin {"jmp"} \cup Absolute \cup Returns
      /\ at' = at + text[at].len /\ in' = OnFrom(in)
      /\ UNCHANGED <<text, hookSize, callHook, buffer, opSize, final>>
      /\ UNCHANGED <<written, ip, copies>>
  BY DEF RunOn, found, made
<1>2. /\ phase = "run" /\ at \in DOMAIN text /\ at \in Nat
      /\ End = (IF ReplacesCall THEN ip ELSE ip - 8) /\ Done = Patched
      /\ at \in Patched => in = copies[at] /\ InStub
      /\ at \notin Patched => in = at /\ ~InStub
  BY <1>1, RunFacts
<1>3. /\ TrampolineTypeOK' /\ Measured' /\ CopiesOK' /\ Distant' /\ Fitting'
      /\ Patched' = Patched /\ ReplacesCall' = ReplacesCall
  BY <1>1, <1>2, CopyUnchanged DEF ReplacesCall
<1>4. /\ text \in Functions /\ opSize \in Nat /\ final \in Nat
      /\ final + opSize \in DOMAIN text /\ final \in DOMAIN text
      /\ CopiesOK /\ text[at].op \in Ops /\ text[at].len \in 1 .. 15
  BY <1>2, CopyFacts, CodeAt
<1>5. buffer = final + opSize
  BY <1>2, <1>4 DEF CopiesOK
<1>6. CASE at \in Patched /\ ~ReplacesCall
  <2>1. in' = copies[at] + written[copies[at]].len
    <3>1. /\ written[copies[at]] = Copied(at, copies[at])
          /\ copies[at] \in Nat
      BY <1>2, <1>6, CopyPlace
    <3>2. written[copies[at]].op = text[at].op
      BY <1>2, <1>4, <3>1, CopiedLength
    <3>3. written[copies[at]].op \notin {"jmp", "lost"}
      BY <1>1, <1>4, <3>2 DEF Ops, Branches, Relative, Absolute, Returns
    <3> QED
      BY <1>1, <1>2, <1>6, <3>3 DEF Running, OnFrom
  <2>2. CASE at' \in Patched
    <3>1. in' = copies[at']
      BY <1>1, <1>2, <1>4, <1>6, <2>1, <2>2 DEF CopiesOK
    <3>2. Together'
      BY <1>1, <1>3, <2>2, <3>1 DEF Together
    <3> QED
      BY <1>3, <1>6, <3>2 DEF TrampolineInv, StubRunsOriginal, OnlyFirst
  <2>3. CASE at' = final + opSize
    <3>1. in' = End
      BY <1>1, <1>2, <1>4, <1>5, <1>6, <2>1, <2>3 DEF CopiesOK
    <3>2. Together'
      BY <1>1, <1>2, <1>3, <1>6, <2>3, <3>1 DEF Together
    <3> QED
      BY <1>3, <1>6, <3>2 DEF TrampolineInv, StubRunsOriginal, OnlyFirst
  <2>4. at' \in Patched \/ at' = final + opSize
    BY <1>1, <1>4, <1>6, NextDisplaced DEF Returns
  <2> QED
    BY <1>3, <2>2, <2>3, <2>4 DEF TrampolineInv
<1>7. CASE at \in Patched /\ ReplacesCall
  <2>1. /\ at = final /\ opSize = 5 /\ hookSize = 5
        /\ written[copies[at]].op = "lost" => NoCallThere
        /\ written[copies[at]].op # "lost" =>
              /\ written[copies[at]].op = "jmp"
              /\ text[at].op \in {"call", "jmp"}
    BY <1>1, <1>7, JumpMade
  <2>2. CASE written[copies[at]].op = "lost"
    <3>1. in' = Nowhere
      BY <1>1, <1>2, <1>7, <2>2 DEF Running, OnFrom
    <3>2. NoCallThere'
      BY <1>1, <1>3, <2>1, <2>2 DEF NoCallThere
    <3>3. ASSUME at' \in Patched PROVE in' # copies'[at']
      <4>1. copies[at'] \in Nat
        BY <1>2, <3>3, CopyPlace
      <4> QED
        BY <1>1, <3>1, <4>1 DEF Nowhere
    <3>4. Nowhere' = Nowhere
      BY DEF Nowhere
    <3> QED
      BY <1>1, <1>3, <3>1, <3>2, <3>3, <3>4 DEF TrampolineInv,
         StubRunsOriginal, OnlyFirst
  <2>3. CASE written[copies[at]].op # "lost"
    <3>1. in' = final + hookSize
      BY <1>1, <1>2, <1>7, <2>1, <2>3 DEF Running, OnFrom
    <3>2. text[at].op = "call"
      BY <1>1, <2>1, <2>3
    <3>3. at' = final + 5
      BY <1>1, <1>2, <1>4, <2>1, <3>2, CodeLength
    <3>4. at' \notin Patched
      BY <1>4, <2>1, <3>3 DEF Patched
    <3> QED
      BY <1>3, <2>1, <3>1, <3>3, <3>4 DEF TrampolineInv, StubRunsOriginal,
         OnlyFirst, Together
  <2> QED
    BY <2>2, <2>3
<1>8. CASE at \notin Patched
  <2>1. in' = at'
    BY <1>1, <1>2, <1>4, <1>8 DEF Running, OnFrom, Ops, Branches, Relative,
       Absolute, Returns
  <2>2. at' \in Patched => at' = final
    BY <1>1, <1>2, <1>4, <1>8, Predecessor
  <2>3. StubRunsOriginal' /\ OnlyFirst'
    BY <1>1, <1>3, <2>1, <2>2 DEF StubRunsOriginal, Together, OnlyFirst
  <2> QED
    BY <1>3, <2>3 DEF TrampolineInv
<1> QED
  BY <1>6, <1>7, <1>8

\* An instruction whose copy has another length was relocated.
LEMMA LongerCopy ==
    ASSUME TrampolineInv, phase = "run", NEW c \in Patched, ~SameLen(c)
    PROVE  /\ text[c].op \in Relative \ {"loop"}
           /\ ~StaysInside(c, text[c].len + text[c].arg)
           /\ text[c].len < LongLen(text[c].op)
<1>1. written[copies[c]].len = Copied(c, copies[c]).len
  BY CopyPlace
<1>2. Copied(c, copies[c]).len # text[c].len
  BY <1>1 DEF SameLen
<1>3. /\ text[c].op \in Relative \ {"loop"}
      /\ ~StaysInside(c, text[c].len + text[c].arg)
  BY <1>2 DEF Copied
<1>4. Copied(c, copies[c]).len = LongLen(text[c].op)
  BY <1>3 DEF Copied
<1>5. text \in Functions /\ c \in DOMAIN text
  BY CopyFacts DEF Patched
<1>6. text[c].len < LongLen(text[c].op)
  BY <1>2, <1>3, <1>4, <1>5, CodeLength DEF LongLen, Relative
<1> QED
  BY <1>3, <1>6

\* A branch copied as it is, to an instruction that is copied too.
LEMMA KeptBranch ==
    ASSUME TrampolineInv, phase = "run", NEW a \in Patched,
           text[a].op \in Relative, written[copies[a]].op \in Relative,
           written[copies[a]].len = text[a].len,
           written[copies[a]].arg = text[a].arg,
           Destination(text, a) \in Patched
    PROVE  \/ Destination(written, copies[a]) = copies[Destination(text, a)]
           \/ /\ AcrossLonger
              /\ Destination(written, copies[a]) \notin Patched
<1> DEFINE t == copies[a]
           d == text[a].len + text[a].arg
           b == a + d
<1>1. /\ text \in Functions /\ opSize \in Nat /\ final \in Nat
      /\ StubAt \in Nat /\ hookSize \in 5 .. 7 /\ Distant
      /\ final + opSize \in DOMAIN text
  BY CopyFacts
<1>2. /\ a \in Done /\ a \in Nat /\ a < final + opSize /\ final <= a
      /\ t \in Nat /\ StubAt <= t /\ t < StubAt + 51
  BY CopyPlace
<1>3. a \in DOMAIN text /\ text[a].len \in 1 .. 15 /\ text[a].arg \in Int
  BY <1>1, CodeAt DEF Patched
<1>4. Destination(text, a) = b /\ Destination(written, t) = t + d
  BY <1>1, <1>2, <1>3 DEF Destination, Relative, Absolute
<1>5. /\ b \in Patched /\ b \in Done /\ b \in Nat /\ b < final + opSize
      /\ final <= b /\ copies[b] \in Nat
  <2>1. b \in Patched
    BY <1>4
  <2> HIDE DEF b
  <2> QED
    BY <2>1, CopyPlace
<1>6. a < final + hookSize /\ b < final + hookSize
  BY <1>5 DEF TrampolineInv, Measured
<1>7. t + d \notin Patched
  <2>1. StubAt - 256 <= t + d /\ t + d <= StubAt + 256
    BY <1>1, <1>2, <1>3, <1>5, <1>6
  <2>2. t + d \in Int
    BY <1>2, <1>3
  <2> HIDE DEF t, d
  <2>3. t + d \notin DOMAIN text
    BY <1>1, <2>1, <2>2, FarAway
  <2> QED
    BY <2>3 DEF Patched
<1>8. SameLen(a)
  BY DEF SameLen
<1>9. \A c \in Done : c \in Patched /\ c \in Nat
  BY <1>1, CodeAt DEF Done, Patched
<1> HIDE DEF t
<1>10. CASE a <= b
  <2>1. CASE \A c \in Done : a <= c /\ c < b => SameLen(c)
    <3>1. copies[b] - copies[a] = b - a
      BY <1>1, <1>2, <1>5, <1>10, <2>1 DEF Distant
    <3> QED
      BY <1>2, <1>3, <1>4, <1>5, <3>1 DEF t
  <2>2. ASSUME NEW c \in Done, a <= c, c < b, ~SameLen(c)
        PROVE  AcrossLonger
    <3>1. c \in Patched /\ a < c
      <4>1. c # a
        BY <1>8, <2>2, Zenon
      <4>2. c \in Patched /\ c \in Nat /\ a \in Nat
        BY <1>2, <1>9, <2>2
      <4> QED
        BY <2>2, <4>1, <4>2
    <3>2. /\ text[c].op \in Relative \ {"loop"}
          /\ text[c].len < LongLen(text[c].op)
      BY <2>2, <3>1, LongerCopy
    <3> QED
      BY <1>4, <2>2, <3>1, <3>2 DEF AcrossLonger
  <2> QED
    BY <1>4, <1>7, <2>1, <2>2 DEF t
<1>11. CASE b < a
  <2>1. CASE \A c \in Done : b <= c /\ c < a => SameLen(c)
    <3>1. copies[a] - copies[b] = a - b
      BY <1>1, <1>2, <1>5, <1>11, <2>1 DEF Distant
    <3> QED
      BY <1>2, <1>3, <1>4, <1>5, <3>1 DEF t
  <2>2. ASSUME NEW c \in Done, b <= c, c < a, ~SameLen(c)
        PROVE  AcrossLonger
    <3>1. c \in Patched
      BY <1>9
    <3>2. /\ text[c].op \in Relative \ {"loop"}
          /\ text[c].len < LongLen(text[c].op)
      BY <2>2, <3>1, LongerCopy
    <3> QED
      BY <1>4, <2>2, <3>1, <3>2 DEF AcrossLonger
  <2> QED
    BY <1>4, <1>7, <2>1, <2>2 DEF t
<1> QED
  BY <1>2, <1>5, <1>10, <1>11

LEMMA RunBranchInv == TrampolineInv /\ RunBranch => TrampolineInv'
<1> SUFFICES ASSUME TrampolineInv, RunBranch PROVE TrampolineInv'
  OBVIOUS
<1>1. /\ CanRun /\ (InStub => at \in Patched) /\ phase' = phase
      /\ text[at].op \in Branches /\ at' = Destination(text, at)
      /\ in' = IF Running[in].op = "lost" THEN Nowhere
                                         ELSE Destination(Running, in)
      /\ UNCHANGED <<text, hookSize, callHook, buffer, opSize, final>>
      /\ UNCHANGED <<written, ip, copies>>
  BY DEF RunBranch, found, made
<1>2. /\ phase = "run" /\ at \in DOMAIN text /\ at \in Nat
      /\ at \in Patched => in = copies[at] /\ InStub
      /\ at \notin Patched => in = at /\ ~InStub
  BY <1>1, RunFacts
<1>3. /\ TrampolineTypeOK' /\ Measured' /\ CopiesOK' /\ Distant' /\ Fitting'
      /\ Patched' = Patched /\ ReplacesCall' = ReplacesCall
  BY <1>1, <1>2, CopyUnchanged DEF ReplacesCall
<1>4. /\ text \in Functions /\ opSize \in Nat /\ final \in Nat
      /\ StubAt \in Nat /\ text[at].op \in Ops
      /\ text[at].len \in 1 .. 15 /\ text[at].arg \in Int
      /\ at' \in DOMAIN text /\ at' \in Nat
      /\ \A a \in Patched : a \in DOMAIN text /\ copies[a] \in Nat
                          /\ copies[a] >= StubAt
  BY <1>1, <1>2, CopyFacts, CodeAt, CopyPlace DEF Patched
\* Where the stub may be, in terms of the state before.
<1>5. ASSUME \/ at' \in Patched /\ in' = copies[at']
                /\ (ReplacesCall => at' = final)
             \/ in' = at' /\ (at' \in Patched \ {final} => EnteredBehindHook)
             \/ in' \notin Patched /\ (LoopLeaves \/ AcrossLonger)
                /\ ~ReplacesCall
             \/ in' = Nowhere /\ NoCallThere
      PROVE  TrampolineInv'
  <2>1. /\ EnteredBehindHook' = EnteredBehindHook
        /\ LoopLeaves' = LoopLeaves /\ AcrossLonger' = AcrossLonger
        /\ NoCallThere' = NoCallThere /\ Nowhere' = Nowhere
    BY <1>1, <1>3 DEF EnteredBehindHook, LoopLeaves, AcrossLonger,
       Destination, LongLen, NoCallThere, Nowhere
  <2>2. StubRunsOriginal'
    BY <1>1, <1>3, <1>5, <2>1 DEF StubRunsOriginal, Together
  <2>3. ASSUME at' \in Patched PROVE at' # copies[at'] /\ Nowhere # copies[at']
    <3>1. StubAt <= copies[at'] /\ copies[at'] <= StubAt + 256
          /\ copies[at'] \in Nat
      BY <1>2, <1>4, <2>3, CopyPlace
    <3>2. copies[at'] \notin DOMAIN text
      BY <1>4, <3>1, FarAway
    <3> QED
      BY <1>4, <3>1, <3>2 DEF Nowhere
  <2>4. OnlyFirst'
    BY <1>1, <1>3, <1>5, <2>3 DEF OnlyFirst
  <2> QED
    BY <1>3, <2>2, <2>4 DEF TrampolineInv
<1>6. CASE at \notin Patched
  <2>1. in' = at'
    <3>1. text[at].op # "lost"
      BY <1>4 DEF Ops, Branches, Relative, Absolute, Returns
    <3> QED
      BY <1>1, <1>2, <1>6, <3>1 DEF Running
  <2>2. at' \in Patched \ {final} => EnteredBehindHook
    BY <1>1, <1>2, <1>6 DEF EnteredBehindHook
  <2> QED
    BY <1>5, <2>1, <2>2
<1>7. CASE at \in Patched /\ written[in].op = "lost"
  <2>1. in = copies[at] /\ in' = Nowhere /\ in \in Nat
    BY <1>1, <1>2, <1>4, <1>7 DEF Running
  <2>2. ReplacesCall
    <3>1. Copied(at, in).op # "lost"
      BY <1>2, <1>4, <2>1, CopiedLength DEF Ops, Branches, Relative,
         Absolute, Returns
    <3> QED
      BY <1>2, <1>7, <2>1, <3>1, CopyPlace
  <2> QED
    BY <1>1, <1>5, <1>7, <2>1, <2>2, JumpMade
<1>8. CASE at \in Patched /\ written[in].op # "lost"
  <2>1. /\ in = copies[at] /\ in' = Destination(written, in)
        /\ written[in].len = Copied(at, in).len
        /\ written[in].arg = Copied(at, in).arg
        /\ in \in Nat /\ StubAt <= in /\ in < StubAt + 51
    BY <1>1, <1>2, <1>8, CopyPlace DEF Running
  <2>2. at < final + opSize /\ final <= at
    BY <1>2, <1>8, CopyPlace
\* What is run is what was displaced, or a jump in the place of a call.
  <2>3. /\ text[at].op \in Absolute => written[in].op = text[at].op
        /\ text[at].op \in Relative => written[in].op \in Relative
        /\ ReplacesCall => text[at].op \in {"call", "jmp"} /\ at = final
                           /\ opSize = 5
    <3>1. CASE ReplacesCall
      BY <1>1, <1>8, <2>1, <3>1, JumpMade DEF Relative, Absolute
    <3>2. CASE ~ReplacesCall
      <4>1. written[in] = Copied(at, in)
        BY <1>2, <1>8, <2>1, <3>2, CopyPlace
      <4>2. written[in].op = text[at].op
        BY <1>2, <1>4, <2>1, <4>1, CopiedLength
      <4> QED
        BY <3>2, <4>2
    <3> QED
      BY <3>1, <3>2
  <2>4. CASE text[at].op \in Absolute
    <3>1. Copied(at, in) = text[at]
      BY <2>4 DEF Copied, Relative, Absolute
    <3>2. in' = at'
      BY <1>1, <2>1, <2>3, <2>4, <3>1 DEF Destination
    <3>3. at' \in Patched \ {final} => EnteredBehindHook
      BY <1>1, <1>2, <2>4 DEF EnteredBehindHook
    <3> QED
      BY <1>5, <3>2, <3>3
  <2>5. CASE text[at].op \in Relative
    <3>1. /\ at' = at + text[at].len + text[at].arg
          /\ in' = in + written[in].len + written[in].arg
      BY <1>1, <2>1, <2>3, <2>5 DEF Destination, Relative, Absolute
    <3>2. CASE /\ text[at].op # "loop"
               /\ ~StaysInside(at, text[at].len + text[at].arg)
      <4>1. Copied(at, in) =
               [op |-> text[at].op, len |-> LongLen(text[at].op), arg |->
                  at' - (in + LongLen(text[at].op))]
        BY <1>1, <2>5, <3>2 DEF Copied
      <4>2. LongLen(text[at].op) \in Int
        BY DEF LongLen
      <4>3. PICK n \in Int : n = at'
        BY <1>4
      <4>4. in' = at'
        BY <2>1, <3>1, <4>1, <4>2, <4>3
      <4>5. at' \in Patched => at' = final
        <5>1. at' \in Patched => at' >= final /\ at' < final + opSize
          BY DEF Patched
        <5> QED
          BY <1>2, <1>4, <2>2, <3>1, <3>2, <5>1 DEF StaysInside
      <4> QED
        BY <1>5, <4>4, <4>5
    <3>3. CASE ~(/\ text[at].op # "loop"
                 /\ ~StaysInside(at, text[at].len + text[at].arg))
      <4>1. Copied(at, in) = text[at]
        BY <2>5, <3>3 DEF Copied
      <4>2. CASE at' \in Patched
        <5>1. \/ in' = copies[at']
              \/ AcrossLonger /\ in' \notin Patched
          BY <1>1, <1>2, <1>8, <2>1, <2>3, <2>5, <4>1, <4>2, KeptBranch
        <5>2. ASSUME ReplacesCall PROVE at' = final /\ in' = copies[at']
          <6>1. at = final /\ opSize = 5 /\ text[at].len \in {2, 5}
            BY <1>2, <1>4, <2>3, <5>2, CodeLength
          <6>2. text[at].len = 5
            BY <1>1, <1>8, <2>1, <4>1, <5>2, JumpMade
          <6>3. at' >= final /\ at' < final + opSize
            BY <4>2 DEF Patched
          <6>4. PICK n \in Nat : n = at' /\ n \in DOMAIN text
            BY <1>4
          <6>5. ~(at < n)
            <7>1. at < n => at + text[at].len <= n
              BY <1>2, <1>4, <6>4, CodeAt
            <7> QED
              BY <1>4, <6>1, <6>2, <6>3, <6>4, <7>1
          <6>6. n = at
            BY <1>4, <6>1, <6>3, <6>4, <6>5
          <6>7. text[at].len + text[at].arg = 0
            BY <1>2, <1>4, <3>1, <6>4, <6>6
          <6> QED
            BY <1>4, <2>1, <3>1, <4>1, <6>1, <6>4, <6>6, <6>7
        <5> QED
          BY <1>5, <4>2, <5>1, <5>2
      <4>3. CASE at' \notin Patched
        <5>1. text[at].op = "loop"
          <6> SUFFICES ASSUME text[at].op # "loop",
                              StaysInside(at, text[at].len + text[at].arg)
                       PROVE  FALSE
            BY <3>3
          <6>1. at' >= final /\ at' < final + opSize
            BY <1>2, <1>4, <2>2, <3>1 DEF StaysInside
          <6> QED
            BY <1>4, <4>3, <6>1 DEF Patched
        <5>2. LoopLeaves
          BY <1>1, <1>8, <4>3, <5>1 DEF LoopLeaves
        <5>3. text[at].arg \in -128 .. 127
          BY <1>2, <1>4, <5>1, CodeAt
        <5>4. in' = in + text[at].len + text[at].arg
          BY <2>1, <3>1, <4>1
        <5>5. in' \in Int /\ StubAt - 256 <= in' /\ in' <= StubAt + 256
          BY <1>4, <2>1, <5>3, <5>4
        <5>6. in' \notin DOMAIN text
          BY <1>4, <5>5, FarAway
        <5>7. ~ReplacesCall
          BY <2>3, <5>1
        <5> QED
          BY <1>5, <5>2, <5>6, <5>7 DEF Patched
      <4> QED
        BY <4>2, <4>3
    <3> QED
      BY <3>2, <3>3
  <2> QED
    BY <1>1, <2>4, <2>5 DEF Branches
<1> QED
  BY <1>6, <1>7, <1>8

LEMMA TrampolineStutterInv ==
    TrampolineInv /\ UNCHANGED trampolineVars => TrampolineInv'
<1> SUFFICES ASSUME TrampolineInv, UNCHANGED trampolineVars
             PROVE  TrampolineInv'
  OBVIOUS
<1>1. /\ UNCHANGED <<text, hookSize, callHook, phase, buffer, opSize, final>>
      /\ UNCHANGED <<written, ip, copies, at, in>>
  BY DEF trampolineVars, found, made, runs
<1>2. /\ Patched' = Patched /\ Done' = Done /\ End' = End
      /\ JumpsBack' = JumpsBack /\ ReplacesCall' = ReplacesCall
  BY <1>1 DEF Patched, Done, End, JumpsBack, ReplacesCall
<1>3. TrampolineTypeOK' /\ Measured'
  BY <1>1, <1>2 DEF TrampolineInv, TrampolineTypeOK, Measured
<1>4. phase \in {"copy", "write", "run"} => CopiesOK'
  <2>1. \A a \in Done : CopyOf(a)' = CopyOf(a)
    BY <1>1, <1>2 DEF CopyOf, Copied, StaysInside, Destination, LongLen, AsJump
  <2> QED
    BY <1>1, <1>2, <2>1 DEF TrampolineInv, CopiesOK
<1>5. phase \in {"copy", "write", "run"} => Distant' /\ Fitting'
  <2>1. \A c \in Done : SameLen(c)' <=> SameLen(c)
    BY <1>1 DEF SameLen
  <2> QED
    BY <1>1, <1>2, <2>1 DEF TrampolineInv, Distant, Fitting
<1>6. StubRunsOriginal'
  <2>1. /\ EnteredBehindHook' = EnteredBehindHook
        /\ LoopLeaves' = LoopLeaves /\ AcrossLonger' = AcrossLonger
        /\ Together' = Together /\ NoCallThere' = NoCallThere
        /\ Nowhere' = Nowhere
    BY <1>1, <1>2 DEF EnteredBehindHook, LoopLeaves, AcrossLonger,
       Destination, LongLen, Together, NoCallThere, Nowhere
  <2> QED
    BY <1>1, <1>2, <2>1 DEF TrampolineInv, StubRunsOriginal
<1> QED
  BY <1>1, <1>2, <1>3, <1>4, <1>5, <1>6 DEF TrampolineInv, OnlyFirst

\* The inductive invariant holds of every behaviour.
THEOREM TrampolineInvariance == TrampolineSpec => []TrampolineInv
<1>1. TrampolineInv /\ [TrampolineNext]_trampolineVars => TrampolineInv'
  BY ScanRefusedInv, ScanFollowInv, ScanOneInv, ScanEndInv, CopyOneInv,
     JumpBackInv, MakeJumpInv, PutHookInv, RunBackInv, RunOnInv, RunBranchInv,
     TrampolineStutterInv DEF TrampolineNext
<1> QED
  BY <1>1, TrampolineInitInv, PTL DEF TrampolineSpec

\* The types of the variables.
THEOREM TrampolineTypeCorrect == TrampolineSpec => []TrampolineTypeOK
<1>1. TrampolineInv => TrampolineTypeOK
  BY DEF TrampolineInv
<1> QED
  BY <1>1, TrampolineInvariance, PTL

\* Calling the stub is calling the original, up to the four limits; that of
\* a hook that takes the place of a call, too.
THEOREM StubIsOriginal == TrampolineSpec => []StubRunsOriginal
<1>1. TrampolineInv => StubRunsOriginal
  BY DEF TrampolineInv
<1> QED
  BY <1>1, TrampolineInvariance, PTL

\* The hook overwrites whole instructions of one stretch of code, up to the
\* ends of functions the scan passes over, and the trampoline has room for
\* their copies.
THEOREM HookAndStubFits == TrampolineSpec => []HookAndStubFit
<1>1. TrampolineInv => HookAndStubFit
  <2> SUFFICES ASSUME TrampolineInv PROVE HookAndStubFit
    OBVIOUS
  <2>1. Measured /\ TrampolineTypeOK
    BY DEF TrampolineInv
  <2>2. ip - StubAt <= 64
    <3>1. CASE phase \in {"scan", "refused"}
      BY <2>1, <3>1, TrampolineAssumption DEF Measured
    <3>2. CASE phase \in {"copy", "write", "run"}
      BY <3>2, CopyFacts DEF Fitting, End
    <3> QED
      BY <2>1, <3>1, <3>2 DEF TrampolineTypeOK
  <2> QED
    BY <2>1, <2>2 DEF HookAndStubFit, Measured
<1> QED
  BY <1>1, TrampolineInvariance, PTL
=============================================================================
