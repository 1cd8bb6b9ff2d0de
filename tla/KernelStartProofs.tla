-------------------------- MODULE KernelStartProofs --------------------------
(***************************************************************************)
(* Proofs about KernelStart. The inductive invariant says that the hooks   *)
(* of the first list that are live are a prefix of the list, and that      *)
(* what is not in it stands behind the patch that failed. Which hooks      *)
(* reach a null stub is then a question about the ten prefixes.            *)
(***************************************************************************)
EXTENDS KernelStart, TLAPS

Gdi    == ToSet(GdiHooks)
Kernel == ToSet(KernelHooks)

\* The hooks that are live when the first n patches were installed.
First(n) == {GdiHooks[i] : i \in 1 .. n}

Ready == pc \in {"kernelHooks", "game"}

\* Before the second list is begun nothing has failed.
Beginning ==
    /\ pc \in {"prepare", "gdi"} => live = {} /\ failed = {} /\ next = 1
    /\ pc = "gdiHooks" =>
          next \in 1 .. 9 /\ live = First(next - 1) /\ failed = {}

\* The first list went in up to the patch that failed, or not at all.
Prefix ==
    Ready => \E n \in 0 .. 9 :
        /\ live \cap Gdi = First(n)
        /\ n \in 1 .. 8 => failed \cap Gdi = {GdiHooks[n + 1]}

\* A DLL is unmapped with hooks left after a failure in the second list only.
Unmapped ==
    /\ pc # "game" => mapped /\ failed \cap Kernel = {}
    /\ ~mapped => live = {} \/ failed \cap Kernel # {}
    /\ mapped => failed \cap Kernel = {}

\* The game runs last; its fonts come from the hook of GetStockObject.
Running ==
    /\ pc # "game" => fonts = "unbuilt" /\ down = "no"
    /\ fonts = "built" => "GetStockObject" \in live /\ mapped

IInv ==
    /\ TypeOK
    /\ Beginning
    /\ Prefix
    /\ Unmapped
    /\ Running
    /\ DownOnlyByHalfList
    /\ FontsKeptUnlessHalfHooked

-----------------------------------------------------------------------------
(* The lists.                                                              *)
LEMMA GdiIs ==
    Gdi = {"GetStockObject", "DeleteObject", "CreateCompatibleDC",
           "EnumFontsW", "EnumFontsA", "EnumFontFamiliesA",
           "EnumFontFamiliesW", "EnumFontFamiliesExA", "EnumFontFamiliesExW"}
    BY DEF Gdi, GdiHooks, ToSet

LEMMA KernelIs ==
    Kernel = {"GetVersionExA", "lstrcmpiA", "GetGlyphOutlineA",
              "CreateFontA", "RegisterClassExA", "CreateWindowExA",
              "DefWindowProcA", "DispatchMessageA", "GetMenuItemInfoA",
              "SetMenuItemInfoA", "MessageBoxA"}
    BY DEF Kernel, KernelHooks, ToSet

LEMMA ListsDisjoint == Gdi \cap Kernel = {}
    BY GdiIs, KernelIs

LEMMA ListLengths ==
    /\ Len(GdiHooks) = 9 /\ Len(KernelHooks) = 11
    /\ \A i \in 1 .. 9 : GdiHooks[i] \in Gdi
    /\ \A i \in 1 .. 11 : KernelHooks[i] \in Kernel
    BY DEF GdiHooks, KernelHooks, Gdi, Kernel, ToSet

LEMMA FunctionsAre == Functions = Gdi \cup Kernel
    BY DEF Functions, Gdi, Kernel

LEMMA FirstGrows ==
    /\ First(0) = {}
    /\ \A n \in 0 .. 9 : First(n) \subseteq Gdi
    /\ \A n \in 1 .. 9 : First(n) = First(n - 1) \cup {GdiHooks[n]}
<1>1. First(0) = {}
    BY DEF First
<1>2. \A n \in 0 .. 9 : First(n) \subseteq Gdi
    BY ListLengths DEF First
<1>3. ASSUME NEW n \in 1 .. 9
      PROVE  First(n) = First(n - 1) \cup {GdiHooks[n]}
    <2>1. 1 .. n = 1 .. n - 1 \cup {n}
        BY <1>3
    <2> QED  BY <2>1 DEF First
<1> QED  BY <1>1, <1>2, <1>3

-----------------------------------------------------------------------------
(* Only two of the ten prefixes of the first list leave a hook without a   *)
(* stub it goes through; a third leaves DeleteObject alone.                *)
LEMMA SecondListNeedsItself ==
    ASSUME NEW f \in Kernel
    PROVE  Needs(f) \subseteq {f}
<1>1. WideOf(f) = f
    BY KernelIs DEF WideOf
<1>2. f \notin Enumerations
    BY KernelIs DEF Enumerations
<1> QED  BY <1>1, <1>2 DEF Needs

LEMMA FirstIs ==
    /\ First(1) = {"GetStockObject"}
    /\ First(2) = First(1) \cup {"DeleteObject"}
    /\ First(3) = First(2) \cup {"CreateCompatibleDC"}
    /\ First(4) = First(3) \cup {"EnumFontsW"}
    /\ First(5) = First(4) \cup {"EnumFontsA"}
    /\ First(6) = First(5) \cup {"EnumFontFamiliesA"}
    /\ First(7) = First(6) \cup {"EnumFontFamiliesW"}
    /\ First(8) = First(7) \cup {"EnumFontFamiliesExA"}
    /\ First(9) = First(8) \cup {"EnumFontFamiliesExW"}
<1>1. \A n \in 1 .. 9 : First(n) = First(n - 1) \cup {GdiHooks[n]}
    BY FirstGrows
<1>2. First(0) = {}
    BY FirstGrows
<1>3. /\ GdiHooks[1] = "GetStockObject" /\ GdiHooks[2] = "DeleteObject"
      /\ GdiHooks[3] = "CreateCompatibleDC" /\ GdiHooks[4] = "EnumFontsW"
      /\ GdiHooks[5] = "EnumFontsA" /\ GdiHooks[6] = "EnumFontFamiliesA"
      /\ GdiHooks[7] = "EnumFontFamiliesW"
      /\ GdiHooks[8] = "EnumFontFamiliesExA"
      /\ GdiHooks[9] = "EnumFontFamiliesExW"
    BY DEF GdiHooks
<1> HIDE DEF GdiHooks, First
<1>4. /\ First(1) = First(0) \cup {GdiHooks[1]}
      /\ First(2) = First(1) \cup {GdiHooks[2]}
      /\ First(3) = First(2) \cup {GdiHooks[3]}
      /\ First(4) = First(3) \cup {GdiHooks[4]}
      /\ First(5) = First(4) \cup {GdiHooks[5]}
      /\ First(6) = First(5) \cup {GdiHooks[6]}
      /\ First(7) = First(6) \cup {GdiHooks[7]}
      /\ First(8) = First(7) \cup {GdiHooks[8]}
      /\ First(9) = First(8) \cup {GdiHooks[9]}
    BY <1>1
<1> QED  BY <1>2, <1>3, <1>4

LEMMA PrefixNeeds ==
    ASSUME NEW n \in 0 .. 9 \ {6, 8}, NEW f \in First(n)
    PROVE  Needs(f) \subseteq First(n)
<1> DEFINE DC == {"CreateCompatibleDC", "DeleteObject"}
<1>1. /\ First(0) = {}
      /\ First(1) = {"GetStockObject"}
      /\ First(2) = {"GetStockObject", "DeleteObject"}
      /\ First(3) = First(2) \cup {"CreateCompatibleDC"}
      /\ First(4) = First(3) \cup {"EnumFontsW"}
      /\ First(5) = First(4) \cup {"EnumFontsA"}
      /\ First(7) = First(5) \cup {"EnumFontFamiliesA", "EnumFontFamiliesW"}
      /\ First(9) = First(7) \cup {"EnumFontFamiliesExA",
                                   "EnumFontFamiliesExW"}
    BY FirstIs, FirstGrows
<1>2. /\ Needs("GetStockObject") \subseteq {"GetStockObject"}
      /\ Needs("DeleteObject") \subseteq {"DeleteObject"}
      /\ Needs("CreateCompatibleDC") \subseteq {"CreateCompatibleDC"}
    BY DEF Needs, WideOf, Enumerations
<1>3. /\ Needs("EnumFontsW") \subseteq DC \cup {"EnumFontsW"}
      /\ Needs("EnumFontsA") \subseteq DC \cup {"EnumFontsW"}
    BY DEF Needs, WideOf, Enumerations
<1>4. /\ Needs("EnumFontFamiliesW") \subseteq DC \cup {"EnumFontFamiliesW"}
      /\ Needs("EnumFontFamiliesA") \subseteq DC \cup {"EnumFontFamiliesW"}
    BY DEF Needs, WideOf, Enumerations
<1>5. /\ Needs("EnumFontFamiliesExW")
             \subseteq DC \cup {"EnumFontFamiliesExW"}
      /\ Needs("EnumFontFamiliesExA")
             \subseteq DC \cup {"EnumFontFamiliesExW"}
    BY DEF Needs, WideOf, Enumerations
<1>6. n \in {0, 1, 2, 3, 4, 5, 7, 9}
    OBVIOUS
<1> HIDE DEF First, Needs
<1>7. CASE n \in {0, 1, 2}
    BY <1>1, <1>2, <1>7
<1>8. CASE n \in {3, 4, 5}
    BY <1>1, <1>2, <1>3, <1>8
<1>9. CASE n = 7
    BY <1>1, <1>2, <1>3, <1>4, <1>9
<1>10. CASE n = 9
    BY <1>1, <1>2, <1>3, <1>4, <1>5, <1>10
<1> QED  BY <1>6, <1>7, <1>8, <1>9, <1>10

-----------------------------------------------------------------------------
(* The invariant.                                                          *)
LEMMA InitIInv == Init => IInv
<1> SUFFICES ASSUME Init PROVE IInv
    OBVIOUS
<1>1. TypeOK
    BY ListLengths DEF Init, TypeOK, Labels
<1> QED
    BY <1>1 DEF Init, IInv, Beginning, Prefix, Ready, Unmapped, Running,
                DownOnlyByHalfList, FontsKeptUnlessHalfHooked

LEMMA PrepareStep == IInv /\ (Prepare \/ PrepareFails) => IInv'
<1> SUFFICES ASSUME IInv, Prepare \/ PrepareFails PROVE IInv'
    OBVIOUS
<1>1. TypeOK'
    BY DEF IInv, TypeOK, Labels, Prepare, PrepareFails, Goto
<1>2. Prefix'
    <2>1. live' = {}
        BY DEF IInv, Beginning, Prepare, PrepareFails, Goto
    <2> QED  BY <2>1, FirstGrows DEF Prefix
<1>3. (Beginning /\ Unmapped /\ Running)'
    BY DEF IInv, Beginning, Unmapped, Running, Prepare, PrepareFails, Goto
<1>4. (DownOnlyByHalfList /\ FontsKeptUnlessHalfHooked)'
    BY DEF IInv, Running, Prepare, PrepareFails, Goto, DownOnlyByHalfList,
           FontsKeptUnlessHalfHooked
<1> QED  BY <1>1, <1>2, <1>3, <1>4 DEF IInv

LEMMA FindStep == IInv /\ (FindHfontCreate \/ NoHfontCreate) => IInv'
<1> SUFFICES ASSUME IInv, FindHfontCreate \/ NoHfontCreate PROVE IInv'
    OBVIOUS
<1> USE DEF FindHfontCreate, NoHfontCreate, Goto
<1>1. TypeOK'
    BY DEF IInv, TypeOK, Labels
<1>2. live = {} /\ live' = {} /\ failed' = {} /\ next' = 1
    BY DEF IInv, Beginning
<1>3. Prefix'
    BY <1>2, FirstGrows DEF Prefix
<1>4. Beginning'
    BY <1>2, FirstGrows DEF Beginning
<1>5. (Unmapped /\ Running)'
    BY DEF IInv, Unmapped, Running
<1>6. (DownOnlyByHalfList /\ FontsKeptUnlessHalfHooked)'
    BY DEF IInv, Running, DownOnlyByHalfList, FontsKeptUnlessHalfHooked
<1> QED  BY <1>1, <1>3, <1>4, <1>5, <1>6 DEF IInv

LEMMA GdiStep == IInv /\ (PatchGdi \/ PatchGdiFails) => IInv'
<1> SUFFICES ASSUME IInv, PatchGdi \/ PatchGdiFails PROVE IInv'
    OBVIOUS
<1>1. /\ pc = "gdiHooks" /\ next \in 1 .. 9
      /\ live = First(next - 1) /\ failed = {} /\ mapped
      /\ fonts = "unbuilt" /\ down = "no"
    BY DEF IInv, Beginning, Unmapped, Running, PatchGdi, PatchGdiFails, Patch,
           Goto
<1>2. GdiHooks[next] \in Gdi /\ GdiHooks[next] \notin Kernel
    BY <1>1, ListLengths, ListsDisjoint
<1>3. First(next) = First(next - 1) \cup {GdiHooks[next]}
    BY <1>1, FirstGrows
<1>4. First(next - 1) \subseteq Gdi /\ First(next) \subseteq Gdi
    BY <1>1, FirstGrows
<1> HIDE DEF Gdi, Kernel, First, GdiHooks, KernelHooks, Functions
<1>5. CASE PatchGdi
    <2>1. /\ live' = First(next) /\ failed' = {} /\ mapped'
          /\ fonts' = "unbuilt" /\ down' = "no"
        BY <1>1, <1>3, <1>5 DEF PatchGdi, Patch
    <2>2. \/ pc' = "gdiHooks" /\ next < 9 /\ next' = next + 1
          \/ pc' = "kernelHooks" /\ next = 9 /\ next' = 1
        BY <1>1, <1>5, ListLengths DEF PatchGdi, Patch, Goto
    <2>3. TypeOK'
        BY <1>1, <1>4, <2>1, <2>2, FunctionsAre, ListLengths
        DEF IInv, TypeOK, Labels
    <2>4. Beginning'
        BY <1>1, <2>1, <2>2 DEF Beginning
    <2>5. Prefix'
        BY <1>1, <1>4, <2>1, <2>2 DEF Prefix, Ready
    <2>6. (Unmapped /\ Running /\ DownOnlyByHalfList
           /\ FontsKeptUnlessHalfHooked)'
        BY <2>1 DEF Unmapped, Running, DownOnlyByHalfList,
                    FontsKeptUnlessHalfHooked
    <2> QED  BY <2>3, <2>4, <2>5, <2>6 DEF IInv
<1>6. CASE PatchGdiFails
    <2>1. /\ live' = First(next - 1) /\ failed' = {GdiHooks[next]} /\ mapped'
          /\ fonts' = "unbuilt" /\ down' = "no"
          /\ pc' = "kernelHooks" /\ next' = 1
        BY <1>1, <1>6 DEF PatchGdiFails, Goto
    <2>2. TypeOK'
        <3>1. live' \subseteq Functions /\ failed' \subseteq Functions
            BY <1>2, <1>4, <2>1, FunctionsAre
        <3> QED
            BY <2>1, <3>1, ListLengths DEF TypeOK, Labels
    <2>3. Beginning'
        BY <2>1 DEF Beginning
    <2>4. Prefix'
        <3>1. next - 1 \in 0 .. 9 /\ (next - 1) + 1 = next
            BY <1>1
        <3>2. (live \cap Gdi)' = First(next - 1)
            BY <1>4, <2>1
        <3>3. (failed \cap Gdi)' = {GdiHooks[(next - 1) + 1]}
            BY <1>2, <2>1, <3>1
        <3> QED  BY <3>1, <3>2, <3>3 DEF Prefix
    <2>5. (Unmapped /\ Running /\ DownOnlyByHalfList
           /\ FontsKeptUnlessHalfHooked)'
        BY <1>2, <2>1 DEF Unmapped, Running, DownOnlyByHalfList,
                          FontsKeptUnlessHalfHooked
    <2> QED  BY <2>2, <2>3, <2>4, <2>5 DEF IInv
<1> QED  BY <1>5, <1>6

LEMMA KernelStep == IInv /\ (PatchKernel \/ PatchKernelFails) => IInv'
<1> SUFFICES ASSUME IInv, PatchKernel \/ PatchKernelFails PROVE IInv'
    OBVIOUS
<1>1. /\ pc = "kernelHooks" /\ next \in 1 .. 11 /\ mapped
      /\ failed \cap Kernel = {} /\ fonts = "unbuilt" /\ down = "no"
      /\ live \subseteq Functions /\ failed \subseteq Functions
    BY ListLengths DEF IInv, TypeOK, Unmapped, Running, PatchKernel,
           PatchKernelFails, Patch, Goto
<1>2. KernelHooks[next] \in Kernel /\ KernelHooks[next] \notin Gdi
    BY <1>1, ListLengths, ListsDisjoint
<1> HIDE DEF Gdi, Kernel, First, GdiHooks, KernelHooks, Functions
<1>3. live' \cap Gdi = live \cap Gdi /\ failed' \cap Gdi = failed \cap Gdi
    BY <1>2 DEF PatchKernel, PatchKernelFails, Patch
<1>4. pc' \in {"kernelHooks", "game"} /\ next' \in 1 .. 11
    <2>1. CASE PatchKernel
        <3>1. \/ next < 11 /\ next' = next + 1 /\ pc' = pc
              \/ next' = 1 /\ pc' = "game"
            BY <2>1, ListLengths DEF PatchKernel, Patch, Goto
        <3> QED  BY <1>1, <3>1
    <2>2. CASE PatchKernelFails
        BY <2>2 DEF PatchKernelFails, Goto
    <2> QED  BY <2>1, <2>2
<1>5. TypeOK'
    BY <1>1, <1>2, <1>4, FunctionsAre, ListLengths
    DEF IInv, TypeOK, Labels, PatchKernel, PatchKernelFails, Patch
<1>6. Beginning'
    BY <1>4 DEF Beginning
<1>7. Prefix'
    BY <1>1, <1>3 DEF IInv, Prefix, Ready
<1>8. Unmapped'
    BY <1>1, <1>2 DEF Unmapped, PatchKernel, PatchKernelFails, Patch, Goto
<1>9. (Running /\ DownOnlyByHalfList /\ FontsKeptUnlessHalfHooked)'
    BY <1>1 DEF Running, DownOnlyByHalfList, FontsKeptUnlessHalfHooked,
                PatchKernel, PatchKernelFails, Patch
<1> QED  BY <1>5, <1>6, <1>7, <1>8, <1>9 DEF IInv

LEMMA CallStep == IInv /\ CallHook => IInv'
<1> SUFFICES ASSUME IInv, CallHook PROVE IInv'
    OBVIOUS
<1>1. /\ pc = "game" /\ down = "no"
      /\ UNCHANGED <<pc, next, live, failed, mapped>>
    BY DEF CallHook
<1>2. PICK f \in live :
          /\ down' = IF ~mapped THEN "unmapped"
                     ELSE IF ~(Needs(f) \subseteq live) THEN "null stub"
                     ELSE "no"
          /\ fonts' =
                IF /\ mapped /\ fonts = "unbuilt"
                   /\ f \in {"GetStockObject", "CreateCompatibleDC"}
                   /\ "GetStockObject" \in live
                THEN "built" ELSE fonts
    BY DEF CallHook
<1> HIDE DEF Gdi, Kernel, First, GdiHooks, KernelHooks, Functions, Needs
<1>3. TypeOK'
    BY <1>1, <1>2 DEF IInv, TypeOK
<1>4. (Beginning /\ Prefix /\ Unmapped)'
    BY <1>1 DEF IInv, Beginning, Prefix, Ready, Unmapped
<1>5. (Running /\ FontsKeptUnlessHalfHooked)'
    BY <1>1, <1>2 DEF IInv, Running, FontsKeptUnlessHalfHooked
<1>6. DownOnlyByHalfList'
    <2>1. CASE ~mapped
        BY <1>1, <1>2, <2>1 DEF IInv, Unmapped, DownOnlyByHalfList, Kernel
    <2>2. CASE mapped /\ ~(Needs(f) \subseteq live)
        <3>1. PICK n \in 0 .. 9 :
                  /\ live \cap Gdi = First(n)
                  /\ n \in 1 .. 8 => failed \cap Gdi = {GdiHooks[n + 1]}
            BY <1>1 DEF IInv, Prefix, Ready
        <3>2. f \in Gdi
            <4>1. f \in Gdi \cup Kernel
                BY <1>2, FunctionsAre DEF IInv, TypeOK
            <4>2. f \in Kernel => Needs(f) \subseteq {f}
                BY SecondListNeedsItself
            <4> QED  BY <1>2, <2>2, <4>1, <4>2
        <3>3. n \in {6, 8}
            BY <1>2, <2>2, <3>1, <3>2, PrefixNeeds
        <3>4. failed \cap Gdi = {GdiHooks[n + 1]}
            BY <3>1, <3>3
        <3>5. failed = {GdiHooks[n + 1]}
            BY <2>2, <3>4, FunctionsAre DEF IInv, TypeOK, Unmapped
        <3>6. GdiHooks[n + 1] \in {"EnumFontFamiliesW",
                                   "EnumFontFamiliesExW"}
            BY <3>3 DEF GdiHooks
        <3> QED
            BY <1>1, <1>2, <2>2, <3>5, <3>6 DEF DownOnlyByHalfList
    <2>3. CASE mapped /\ Needs(f) \subseteq live
        BY <1>2, <2>3 DEF DownOnlyByHalfList
    <2> QED  BY <2>1, <2>2, <2>3
<1> QED  BY <1>3, <1>4, <1>5, <1>6 DEF IInv

LEMMA DeleteStep == IInv /\ DeleteStockFont => IInv'
<1> SUFFICES ASSUME IInv, DeleteStockFont PROVE IInv'
    OBVIOUS
<1>1. /\ pc = "game" /\ fonts = "built" /\ fonts' = "destroyed"
      /\ "DeleteObject" \notin live /\ "GetStockObject" \in live /\ mapped
      /\ UNCHANGED <<pc, next, live, failed, mapped, down>>
    BY DEF DeleteStockFont, IInv, Running
<1> HIDE DEF Gdi, Kernel, First, GdiHooks, KernelHooks, Functions
<1>2. TypeOK'
    BY <1>1 DEF IInv, TypeOK
<1>3. (Beginning /\ Prefix /\ Unmapped /\ Running /\ DownOnlyByHalfList)'
    BY <1>1 DEF IInv, Beginning, Prefix, Ready, Unmapped, Running,
                DownOnlyByHalfList
<1>4. FontsKeptUnlessHalfHooked'
    <2>1. PICK n \in 0 .. 9 :
              /\ live \cap Gdi = First(n)
              /\ n \in 1 .. 8 => failed \cap Gdi = {GdiHooks[n + 1]}
        BY <1>1 DEF IInv, Prefix, Ready
    <2>2. "GetStockObject" \in First(n) /\ "DeleteObject" \notin First(n)
        BY <1>1, <2>1, GdiIs
    <2>3. n = 1
        BY <2>2, FirstIs, FirstGrows
    <2>4. failed \cap Gdi = {"DeleteObject"}
        BY <2>1, <2>3 DEF GdiHooks
    <2>5. failed = {"DeleteObject"}
        BY <1>1, <2>4, FunctionsAre DEF IInv, TypeOK, Unmapped
    <2> QED  BY <1>1, <2>5 DEF FontsKeptUnlessHalfHooked
<1> QED  BY <1>2, <1>3, <1>4 DEF IInv

LEMMA NextIInv == IInv /\ [Next]_vars => IInv'
<1> SUFFICES ASSUME IInv, [Next]_vars PROVE IInv'
    OBVIOUS
<1>1. CASE UNCHANGED vars
    BY <1>1 DEF vars, IInv, TypeOK, Beginning, Prefix, Ready, Unmapped,
                Running, DownOnlyByHalfList, FontsKeptUnlessHalfHooked
<1>2. CASE Next
    BY <1>2, PrepareStep, FindStep, GdiStep, KernelStep, CallStep, DeleteStep
    DEF Next
<1> QED  BY <1>1, <1>2

\* What Initialize leaves behind, whatever fails, is a prefix of each list.
THEOREM Invariance == Spec => []IInv
BY InitIInv, NextIInv, PTL DEF Spec

\* Every variable keeps its type.
THEOREM TypeCorrect == Spec => []TypeOK
BY Invariance, PTL DEF IInv

\* After any failure in DllMain, a hook meets a null stub only if one of two
\* enumerations could not be hooked, and an unmapped DLL only after a failure
\* in the second list: the order of the lists covers all the other pairs of
\* hooks that call each other.
THEOREM OrderCoversStubs == Spec => []DownOnlyByHalfList
BY Invariance, PTL DEF IInv

\* GetStockObject is hooked without DeleteObject only when the patch of the
\* latter failed, so that what StockObjects assumes holds of every other run.
THEOREM HookedTogether == Spec => []FontsKeptUnlessHalfHooked
BY Invariance, PTL DEF IInv
=============================================================================
