----------------------------- MODULE KernelStart -----------------------------
(***************************************************************************)
(* DllMain of FVPKernel.dll (FVPKernel/FVPKernel.cpp, Gdi32Hook.cpp): how   *)
(* the hooks of the two lists come to life one after the other, what is    *)
(* left of them when something fails, and how the game then fares.         *)
(*                                                                         *)
(* A hook of PatchManager is here its name: in live when calls of the      *)
(* function run through it; then its stub is filled as well, as            *)
(* PatchManager!LiveHooksCanCallOn states. The game's first thread is      *)
(* still in LdrLoadDll while DllMain runs, so nobody else calls a          *)
(* function that is half hooked; the calls of InitFontCharsetInfo come     *)
(* before the first hook.                                                  *)
(***************************************************************************)
EXTENDS Integers, Sequences, SequencesExt

VARIABLES
    pc,      \* where Initialize is
    next,    \* the index in the list of the patch to install next
    live,    \* the functions whose hook is live
    failed,  \* history: the patches that could not be installed
    mapped,  \* FVPKernel.dll is in the process
    fonts,   \* the replacements of the stock fonts
    down     \* why the game has crashed, "no" if it has not

vars == <<pc, next, live, failed, mapped, fonts, down>>

\* Mutant: EnumFontsA is hooked before the function its hook goes through.
BugGdiHooks ==
    <<"GetStockObject", "DeleteObject", "CreateCompatibleDC", "EnumFontsA",
      "EnumFontsW", "EnumFontFamiliesA", "EnumFontFamiliesW",
      "EnumFontFamiliesExA", "EnumFontFamiliesExW">>

\* The list of HookGdi32Routines.
GdiHooks ==
    <<"GetStockObject", "DeleteObject", "CreateCompatibleDC", "EnumFontsW",
      "EnumFontsA", "EnumFontFamiliesA", "EnumFontFamiliesW",
      "EnumFontFamiliesExA", "EnumFontFamiliesExW">>

\* The list of Initialize.
KernelHooks ==
    <<"GetVersionExA", "lstrcmpiA", "GetGlyphOutlineA", "CreateFontA",
      "RegisterClassExA", "CreateWindowExA", "DefWindowProcA",
      "DispatchMessageA", "GetMenuItemInfoA", "SetMenuItemInfoA",
      "MessageBoxA">>

Functions == ToSet(GdiHooks) \cup ToSet(KernelHooks)

\* The W function an A hook turns to directly: to its hook, not its entry.
WideOf(f) ==
    CASE f = "EnumFontsA" -> "EnumFontsW"
      [] f = "EnumFontFamiliesA" -> "EnumFontFamiliesW"
      [] f = "EnumFontFamiliesExA" -> "EnumFontFamiliesExW"
      [] OTHER -> f

Enumerations == {"EnumFontsW", "EnumFontFamiliesW", "EnumFontFamiliesExW"}
NoStub == {"lstrcmpiA", "GetGlyphOutlineA", "CreateFontA",
           "GetMenuItemInfoA", "SetMenuItemInfoA", "MessageBoxA"}

\* The functions whose stubs a call of f's hook may go through: an
\* enumeration makes a DC (Prepare) and deletes fonts (AdjustFontData).
Needs(f) ==
    ({WideOf(f)} \ NoStub) \cup
    (IF WideOf(f) \in Enumerations THEN {"CreateCompatibleDC", "DeleteObject"}
     ELSE {})

Labels == {"prepare", "gdi", "gdiHooks", "kernelHooks", "game"}

TypeOK ==
    /\ pc \in Labels
    /\ next \in 1 .. Len(KernelHooks)
    /\ live \subseteq Functions /\ failed \subseteq Functions
    /\ mapped \in BOOLEAN
    /\ fonts \in {"unbuilt", "built", "destroyed"}
    /\ down \in {"no", "null stub", "unmapped"}

Init ==
    /\ pc = "prepare"
    /\ next = 1
    /\ live = {} /\ failed = {}
    /\ mapped = TRUE
    /\ fonts = "unbuilt"
    /\ down = "no"

Goto(from, to) == pc = from /\ pc' = to

(***************************************************************************)
(* Initialize.                                                             *)
(***************************************************************************)

\* MlInitialize, NtInitializeNlsFiles, TextMetricCache.Initialize.
Prepare ==
    /\ Goto("prepare", "gdi")
    /\ UNCHANGED <<next, live, failed, mapped, fonts, down>>

\* One of them fails: DllMain returns FALSE and the loader unmaps the DLL.
PrepareFails ==
    /\ Goto("prepare", "game")
    /\ mapped' = FALSE
    /\ UNCHANGED <<next, live, failed, fonts, down>>

\* HookGdi32Routines: NtGdiHfontCreate is found in gdi32 or win32u.
FindHfontCreate ==
    /\ Goto("gdi", "gdiHooks")
    /\ UNCHANGED <<next, live, failed, mapped, fonts, down>>

\* It is not: STATUS_NOT_FOUND, which Initialize ignores.
NoHfontCreate ==
    /\ Goto("gdi", "kernelHooks")
    /\ UNCHANGED <<next, live, failed, mapped, fonts, down>>

\* PatchMemory installs the next patch of list.
Patch(from, list, to) ==
    /\ pc = from
    /\ live' = live \cup {list[next]}
    /\ \/ next < Len(list) /\ next' = next + 1 /\ UNCHANGED pc
       \/ next = Len(list) /\ next' = 1 /\ Goto(from, to)
    /\ UNCHANGED <<failed, mapped, fonts, down>>

PatchGdi    == Patch("gdiHooks", GdiHooks, "kernelHooks")
PatchKernel == Patch("kernelHooks", KernelHooks, "game")

\* Mutant: PatchMemory goes on with the next patch.
BugPatchGdiFails ==
    /\ pc = "gdiHooks"
    /\ failed' = failed \cup {GdiHooks[next]}
    /\ \/ next < Len(GdiHooks) /\ next' = next + 1 /\ Goto("gdiHooks", pc)
       \/ next = Len(GdiHooks) /\ next' = 1 /\ Goto("gdiHooks", "kernelHooks")
    /\ UNCHANGED <<live, mapped, fonts, down>>

\* The list ends at the patch that fails; the hooks before it stay, and
\* Initialize ignores the result.
PatchGdiFails ==
    /\ Goto("gdiHooks", "kernelHooks")
    /\ failed' = failed \cup {GdiHooks[next]}
    /\ next' = 1
    /\ UNCHANGED <<live, mapped, fonts, down>>

\* The hooks stay here as well, but Initialize returns FALSE and the DLL is
\* unmapped.
PatchKernelFails ==
    /\ Goto("kernelHooks", "game")
    /\ failed' = failed \cup {KernelHooks[next]}
    /\ next' = 1
    /\ mapped' = FALSE
    /\ UNCHANGED <<live, fonts, down>>

(***************************************************************************)
(* The game, which the loader resumes whatever LdrLoadDll answered.        *)
(***************************************************************************)

\* A call of a function that is hooked.
CallHook ==
    /\ pc = "game" /\ down = "no"
    /\ \E f \in live :
          /\ down' = IF ~mapped THEN "unmapped"
                     ELSE IF ~(Needs(f) \subseteq live) THEN "null stub"
                     ELSE "no"
          \* LeCreateCompatibleDC calls GetStockObject by its entry.
          /\ fonts' =
                IF /\ mapped /\ fonts = "unbuilt"
                   /\ f \in {"GetStockObject", "CreateCompatibleDC"}
                   /\ "GetStockObject" \in live
                THEN "built" ELSE fonts
    /\ UNCHANGED <<pc, next, live, failed, mapped>>

\* DeleteObject is not hooked and is called for a stock font, which is
\* harmless for the system's own.
DeleteStockFont ==
    /\ pc = "game" /\ down = "no"
    /\ "DeleteObject" \notin live
    /\ fonts = "built"
    /\ fonts' = "destroyed"
    /\ UNCHANGED <<pc, next, live, failed, mapped, down>>

Next ==
    \/ Prepare  \/ PrepareFails \/ FindHfontCreate \/ NoHfontCreate
    \/ PatchGdi \/ PatchGdiFails \/ PatchKernel     \/ PatchKernelFails
    \/ CallHook \/ DeleteStockFont

Spec == Init /\ [][Next]_vars

-----------------------------------------------------------------------------
(***************************************************************************)
(* Properties.                                                             *)
(***************************************************************************)

\* The order of the lists makes up for hooks that call each other's stubs,
\* except for two pairs: when EnumFontFamiliesW or EnumFontFamiliesExW cannot
\* be hooked its A form already is, and goes through a stub that stays null.
\* The only other way to bring the game down is a DLL unmapped with hooks
\* left, after a failure in the second list.
DownOnlyByHalfList ==
    /\ down = "null stub" =>
          /\ mapped
          /\ failed \in {{"EnumFontFamiliesW"}, {"EnumFontFamiliesExW"}}
    /\ down = "unmapped" => failed \cap ToSet(KernelHooks) # {}

\* The game can destroy the replacements that LeGetStockObject hands out only
\* when the first list ended between the hooks of GetStockObject and of
\* DeleteObject. (StockObjects takes them to be hooked together.)
FontsKeptUnlessHalfHooked ==
    fonts = "destroyed" => failed = {"DeleteObject"}
=============================================================================
