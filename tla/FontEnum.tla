------------------------------- MODULE FontEnum -------------------------------
(***************************************************************************)
(* The font-enumeration hooks of FVPKernel.dll (FVPKernel/Gdi32Hook.cpp).  *)
(* An EnumFont* hook has gdi32 enumerate with LeEnumFontCallbackW, which   *)
(* hides a font, or renames it to its Japanese name and replaces its       *)
(* metrics, before the game's callback sees it. What was found out about a *)
(* name goes to TextMetricCache. The A hooks go through the W hooks.       *)
(* The game's callback may enumerate again, so enumerations nest.          *)
(*                                                                         *)
(* A font stands for a full name with a charset, as the cache's keys do.   *)
(* The name table is abstracted to what AdjustFontDataInternal makes of    *)
(* it, GDI objects to their numbers. One thread enumerates (the cache has  *)
(* no lock); its memory does not run out (HashTable covers that). The      *)
(* charset a font is reported with is left out.                            *)
(***************************************************************************)
EXTENDS Naturals, Sequences, SequencesExt

CONSTANTS
    Fonts,     \* what gdi32 enumerates
    NameOf,    \* the name gdi32 gives each
    NewName,   \* the name AdjustFontDataInternal gives it
    Unwanted,  \* the fonts without a name table and those whose name is not
               \* the one their table has for the system's language
    None,      \* no font
    MaxDepth,  \* bound: how deep enumerations nest
    MaxRefused \* bound: how many releases of each kind gdi32 refuses

Names == {NameOf[f] : f \in Fonts} \cup {NewName[f] : f \in Fonts}

ASSUME FontAssumption ==
    /\ None \notin Fonts
    /\ Unwanted \subseteq Fonts
    /\ DOMAIN NameOf = Fonts /\ DOMAIN NewName = Fonts
    /\ \A f, g \in Fonts : NameOf[f] = NameOf[g] => f = g
    /\ Fonts \cap {"none", "hidden", "unfilled"} = {}
    /\ MaxDepth \in Nat /\ MaxRefused \in Nat

VARIABLES
    cache,   \* TextMetricCache: none, hidden (Magic = 0), unfilled, or the
             \* font whose metrics the entry has
    stack,   \* the enumerations in progress, the innermost last
    dcs,     \* how many DCs the hooks own
    temps,   \* how many temporary fonts they own
    refusedDCs,   \* history: how many calls of DeleteDC failed
    refusedFonts, \* history: how many fonts gdi32 did not take back: the old
                  \* one was not selected again, or DeleteObject failed
    shown,   \* history: whether each font was reported, each time
    metrics  \* history: the metrics each font was reported with

vars == <<cache, stack, dcs, temps, refusedDCs, refusedFonts, shown, metrics>>
refusals == <<refusedDCs, refusedFonts>>
gdi     == <<dcs, temps, refusals>>
history == <<shown, metrics>>

Frames ==
    [at : {"gdi", "create", "select", "adjust", "metrics", "deselect",
           "delete", "remember", "game"},
     left : SUBSET Fonts,           \* not enumerated yet
     font : Fonts \cup {None},      \* the one the callback is called for
     selected : BOOLEAN,            \* the temporary font is in the DC, until
                                    \* AdjustFontData returns
     status : {"visible", "hidden"},
     name : Names \cup {None},      \* the name it has in EnumLogFontEx
     found : Fonts \cup {None}]     \* TextMetric, None when not Filled

TypeOK ==
    /\ cache \in [Names -> Fonts \cup {"none", "hidden", "unfilled"}]
    /\ stack \in Seq(Frames)
    /\ dcs \in Nat /\ temps \in Nat
    /\ refusedDCs \in Nat /\ refusedFonts \in Nat
    /\ shown \in [Fonts -> SUBSET BOOLEAN]
    /\ metrics \in [Fonts -> SUBSET (Fonts \cup {None})]

Init ==
    /\ cache = [n \in Names |-> "none"]
    /\ stack = <<>>
    /\ dcs = 0
    /\ temps = 0
    /\ refusedDCs = 0
    /\ refusedFonts = 0
    /\ shown = [f \in Fonts |-> {}]
    /\ metrics = [f \in Fonts |-> {}]

Top == Last(stack)
At(label) == IF stack = <<>> THEN FALSE ELSE Top.at = label

\* The innermost enumeration becomes frame.
Become(frame) == stack' = Append(Front(stack), frame)

Idle(left) ==
    [at |-> "gdi", left |-> left, font |-> None, selected |-> FALSE,
     status |-> "visible", name |-> None, found |-> None]

(***************************************************************************)
(* The hooks.                                                              *)
(***************************************************************************)

\* The game calls a hook, at top level or in its callback: Prepare makes a
\* DC. If that, or MByteToWChar in the A hooks, fails, FALSE is returned at
\* once, which is not a step.
Call ==
    /\ stack = <<>> \/ At("game")
    /\ Len(stack) < MaxDepth
    /\ dcs' = dcs + 1
    /\ stack' = Append(stack, Idle(Fonts))
    /\ UNCHANGED <<cache, temps, refusals, history>>

\* gdi32 is through, or the game's callback has returned FALSE: the
\* destructor of GDI_ENUM_FONT_PARAM deletes the DC, and does not look whether
\* that succeeded.
EndEnum ==
    /\ At("gdi") /\ Top.left = {}
    /\ \/ dcs' = dcs - 1 /\ UNCHANGED refusedDCs
       \/ /\ refusedDCs < MaxRefused
          /\ refusedDCs' = refusedDCs + 1
          /\ UNCHANGED dcs
    /\ stack' = Front(stack)
    /\ UNCHANGED <<cache, temps, refusedFonts, history>>

Show(f, visible) == shown' = [shown EXCEPT ![f] = @ \cup {visible}]

Skip(f) == Become(Idle(Top.left \ {f})) /\ Show(f, FALSE)

\* Mutant: any entry that has metrics is a hit.
BugCacheHit ==
    /\ At("gdi")
    /\ \E f \in Top.left, n \in Names :
          /\ cache[n] \in Fonts
          /\ Become([Idle(Top.left \ {f}) EXCEPT
                        !.at = "game", !.font = f, !.name = NameOf[f],
                        !.found = cache[n]])
          /\ Show(f, TRUE)
    /\ UNCHANGED <<cache, gdi, metrics>>

\* LeEnumFontCallbackW: the name is in the cache, and hidden, without metrics
\* or with.
CacheHit ==
    /\ At("gdi")
    /\ \E f \in Top.left :
          LET entry == cache[NameOf[f]] IN
          \/ /\ entry = "hidden"
             /\ Skip(f)
          \/ /\ entry \notin {"none", "hidden"}
             /\ Become([Idle(Top.left \ {f}) EXCEPT
                           !.at = "game", !.font = f, !.name = NameOf[f],
                           !.found = IF entry = "unfilled" THEN None
                                     ELSE entry])
             /\ Show(f, TRUE)
    /\ UNCHANGED <<cache, gdi, metrics>>

CacheMiss ==
    /\ At("gdi")
    /\ \E f \in Top.left :
          /\ cache[NameOf[f]] = "none"
          /\ Become([Idle(Top.left \ {f}) EXCEPT
                        !.at = "create", !.font = f, !.name = NameOf[f]])
    /\ UNCHANGED <<cache, gdi, history>>

\* AdjustFontData: CreateFontIndirectBypassW. Without a font the status stays
\* STATUS_UNSUCCESSFUL, which hides nothing.
CreateFont ==
    /\ At("create")
    /\ \/ temps' = temps + 1 /\ Become([Top EXCEPT !.at = "select"])
       \/ Become([Top EXCEPT !.at = "remember"]) /\ UNCHANGED temps
    /\ UNCHANGED <<cache, dcs, refusals, history>>

\* Mutant: a font that cannot be selected is not deleted.
BugSelectFont ==
    /\ At("select")
    /\ \/ Become([Top EXCEPT !.at = "adjust", !.selected = TRUE])
       \/ Become([Top EXCEPT !.at = "remember"])
    /\ UNCHANGED <<cache, gdi, history>>

SelectFont ==
    /\ At("select")
    /\ \/ Become([Top EXCEPT !.at = "adjust", !.selected = TRUE])
       \/ Become([Top EXCEPT !.at = "delete"])
    /\ UNCHANGED <<cache, gdi, history>>

\* AdjustFontDataInternal: an unwanted font, or one whose name table
\* GetFontData does not give, is to be hidden; another gets its new name.
Adjust ==
    /\ At("adjust")
    /\ \/ /\ Top.font \notin Unwanted
          /\ Become([Top EXCEPT !.at = "metrics", !.name = NewName[Top.font]])
       \/ Become([Top EXCEPT !.at = "metrics", !.status = "hidden"])
    /\ UNCHANGED <<cache, gdi, history>>

\* GetTextMetricsA and W (not when the names differ: it makes no difference).
GetMetrics ==
    /\ At("metrics")
    /\ \E m \in {Top.font, None} :
          Become([Top EXCEPT !.at = "deselect", !.found = m])
    /\ UNCHANGED <<cache, gdi, history>>

\* The old font is selected again. If that fails, which nobody looks at, the
\* temporary one stays in the DC.
Deselect ==
    /\ At("deselect")
    /\ \/ /\ Become([Top EXCEPT !.at = "delete", !.selected = FALSE])
          /\ UNCHANGED refusedFonts
       \/ /\ refusedFonts < MaxRefused
          /\ refusedFonts' = refusedFonts + 1
          /\ Become([Top EXCEPT !.at = "delete"])
    /\ UNCHANGED <<cache, dcs, temps, refusedDCs, history>>

\* The original DeleteObject, not LeDeleteObject. It refuses a font that is
\* still selected, and may fail for another; the handle is gone either way.
DeleteFont ==
    /\ At("delete")
    /\ \/ Top.selected /\ UNCHANGED <<temps, refusedFonts>>
       \/ ~Top.selected /\ temps' = temps - 1 /\ UNCHANGED refusedFonts
       \/ /\ ~Top.selected /\ refusedFonts < MaxRefused
          /\ refusedFonts' = refusedFonts + 1
          /\ UNCHANGED temps
    /\ Become([Top EXCEPT !.at = "remember", !.selected = FALSE])
    /\ UNCHANGED <<cache, dcs, refusedDCs, history>>

\* Mutant: what is hidden is not remembered.
BugRemember ==
    /\ At("remember")
    /\ \/ /\ Top.status = "hidden"
          /\ Skip(Top.font)
          /\ UNCHANGED cache
       \/ /\ Top.status = "visible"
          /\ cache' = [cache EXCEPT ![Top.name] =
                          IF Top.found = None THEN "unfilled" ELSE Top.found]
          /\ Become([Top EXCEPT !.at = "game"])
          /\ Show(Top.font, TRUE)
    /\ UNCHANGED <<gdi, metrics>>

\* AddTextMetricToCache, under the name the font has by now.
Remember ==
    /\ At("remember")
    /\ \/ /\ Top.status = "hidden"
          /\ cache' = [cache EXCEPT ![Top.name] = "hidden"]
          /\ Skip(Top.font)
       \/ /\ Top.status = "visible"
          /\ cache' = [cache EXCEPT ![Top.name] =
                          IF Top.found = None THEN "unfilled" ELSE Top.found]
          /\ Become([Top EXCEPT !.at = "game"])
          /\ Show(Top.font, TRUE)
    /\ UNCHANGED <<gdi, metrics>>

\* The game's callback returns; it may end the enumeration.
CallbackReturns ==
    /\ At("game")
    /\ metrics' = [metrics EXCEPT ![Top.font] = @ \cup {Top.found}]
    /\ Become(Idle(Top.left)) \/ Become(Idle({}))
    /\ UNCHANGED <<cache, gdi, shown>>

Next ==
    \/ Call       \/ EndEnum    \/ CacheHit \/ CacheMiss  \/ CreateFont
    \/ SelectFont \/ Adjust     \/ GetMetrics \/ Deselect \/ DeleteFont
    \/ Remember   \/ CallbackReturns

Spec == Init /\ [][Next]_vars

-----------------------------------------------------------------------------
(***************************************************************************)
(* Properties.                                                             *)
(***************************************************************************)

\* No way through AdjustFontData, and no nesting of enumerations, loses a DC
\* or a font that gdi32 would have taken back: apart from one DC or font for
\* each release it refused, which the code ignores and so leaks, the hooks own
\* a DC for each enumeration in progress and at most one font, none while the
\* game's callback runs.
GdiBalanced ==
    /\ dcs = Len(stack) + refusedDCs
    /\ temps <= refusedFonts + 1
    /\ stack = <<>> \/ At("game") => temps = refusedFonts

\* A name that is no other font's new name.
Unambiguous(f) == \A g \in Fonts \ {f} : NewName[g] # NameOf[f]

\* A font that keeps its name is reported in every enumeration or in none,
\* although finding out whether it should be may fail one time and not the
\* next: the cache makes the first finding last. (It does not for a font that
\* is renamed: the entry is made under the new name and never found.)
StableVisibility ==
    \A f \in Fonts :
       Unambiguous(f) /\ NewName[f] = NameOf[f] => shown[f] # BOOLEAN

\* The step calls the game's callback for f.
Reports(f) ==
    Len(stack') = Len(stack) /\ At("game")' /\ Top'.font = f

\* No font, renamed or not, comes back once it has been hidden.
HiddenStaysHidden ==
    [][\A f \in Fonts :
         Unambiguous(f) /\ FALSE \in shown[f] => ~Reports(f)]_vars

\* The metrics replaced are those of a font of the name reported.
MetricsOfName ==
    \A f \in Fonts : \A m \in metrics[f] \ {None} :
       m = f \/ NewName[m] = NameOf[f]
=============================================================================
