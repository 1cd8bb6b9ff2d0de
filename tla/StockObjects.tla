---------------------------- MODULE StockObjects ----------------------------
(***************************************************************************)
(* The stock-object hooks of FVPKernel.dll (FVPKernel/Gdi32Hook.cpp).      *)
(* Every GUI thread of the game may call them at any time:                 *)
(*   - GetStockObject goes to LeGetStockObject, which on first use builds  *)
(*     a SHIFT-JIS replacement for each of the stock fonts under GdiLock   *)
(*     (double-checked by StockObjectInitialized) and from then on answers *)
(*     from the table StockObject[];                                       *)
(*   - DeleteObject goes to LeDeleteObject, which refuses to delete a      *)
(*     replacement;                                                        *)
(*   - CreateCompatibleDC goes to LeCreateCompatibleDC, which selects the  *)
(*     replacement of SYSTEM_FONT into the new DC.                         *)
(* StockObjectInitialized is an unsynchronised bit, read outside the lock. *)
(* A step here is one access to it, to StockObject[] or to the lock; loads *)
(* and stores take effect in program order, which the x86 builds of the    *)
(* DLL guarantee: a call separates each store from the next loop round,    *)
(* and the flag is stored after the loop.                                  *)
(***************************************************************************)
EXTENDS Integers, Sequences, FiniteSets

CONSTANTS
    Threads,     \* the threads of the game
    Handles,     \* the GDI handles that can be allocated (a finite table)
    StockLast,   \* STOCK_LAST: StockObject[] has the indices 0 .. StockLast
    FontOrder,   \* StockObjectIndex[]: the indices to replace, in loop order
    SystemFont,  \* SYSTEM_FONT
    OriginalOf,  \* what the unhooked GetStockObject returns for each request
    NoHandle,    \* nullptr
    NoThread     \* the value of the lock when nobody holds it

Requests == 0 .. StockLast + 2   \* the arguments callers pass, some too large
Objects  == 0 .. StockLast

ASSUME StockAssumption ==
    /\ StockLast \in Nat
    /\ FontOrder \in Seq(Objects)
    /\ \A i, j \in 1 .. Len(FontOrder) :
          FontOrder[i] = FontOrder[j] => i = j
    /\ SystemFont \in Objects
    /\ NoHandle \notin Handles
    /\ NoThread \notin Threads
    /\ DOMAIN OriginalOf = Requests
    /\ \A r \in Requests : OriginalOf[r] \notin Handles \cup {NoHandle}

VARIABLES
    initialized,  \* Gdi32.StockObjectInitialized
    stock,        \* Gdi32.StockObject[]
    lock,         \* the owner of Gdi32.GdiLock
    live,         \* the handles of the GDI objects that exist
    pc,           \* where each thread is
    arg,          \* the argument of the call each thread is in
    next,         \* Index of the FOR_EACH loop
    font,         \* what GetFontFromFont returned, not stored yet
    inDC,         \* TRUE while LeCreateCompatibleDC is the caller
    answers,      \* history: every answer given for each stock index
    selected,     \* history: every font selected into a DC the game made
    made          \* history: every font GetFontFromFont ever created

vars == <<initialized, stock, lock, live, pc, arg, next, font, inDC,
          answers, selected, made>>

Labels == {"idle", "flag", "enter", "recheck", "loop", "store", "publish",
           "leave", "lookup", "delFlag", "delScan", "delCall"}

Originals == {OriginalOf[r] : r \in Requests}
Answers   == Handles \cup Originals
Args      == Requests \cup Handles \cup {NoHandle}

TypeOK ==
    /\ initialized \in BOOLEAN
    /\ stock \in [Objects -> Handles \cup {NoHandle}]
    /\ lock \in Threads \cup {NoThread}
    /\ live \in SUBSET Handles
    /\ pc \in [Threads -> Labels]
    /\ arg \in [Threads -> Args]
    /\ next \in [Threads -> 1 .. Len(FontOrder) + 1]
    /\ font \in [Threads -> Handles \cup {NoHandle}]
    /\ inDC \in [Threads -> BOOLEAN]
    /\ answers \in [Objects -> SUBSET Answers]
    /\ selected \in SUBSET Answers
    /\ made \in SUBSET Handles

Init ==
    /\ initialized = FALSE
    /\ stock = [o \in Objects |-> NoHandle]
    /\ lock = NoThread
    /\ live = {}
    /\ pc = [t \in Threads |-> "idle"]
    /\ arg = [t \in Threads |-> NoHandle]
    /\ next = [t \in Threads |-> 1]
    /\ font = [t \in Threads |-> NoHandle]
    /\ inDC = [t \in Threads |-> FALSE]
    /\ answers = [o \in Objects |-> {}]
    /\ selected = {}
    /\ made = {}

Goto(t, from, to) ==
    /\ pc[t] = from
    /\ pc' = [pc EXCEPT ![t] = to]

(***************************************************************************)
(* The game's calls.                                                       *)
(***************************************************************************)

\* The game calls GetStockObject(r).
CallGet(t) ==
    /\ Goto(t, "idle", "flag")
    /\ \E r \in Requests : arg' = [arg EXCEPT ![t] = r]
    /\ inDC' = [inDC EXCEPT ![t] = FALSE]
    /\ UNCHANGED <<initialized, stock, lock, live, next, font, answers,
                   selected, made>>

\* The game calls CreateCompatibleDC. When the original made a DC that has a
\* current font, LeCreateCompatibleDC asks for SYSTEM_FONT through the hooked
\* entry; otherwise it returns at once, which is not a step.
CallCreateDC(t) ==
    /\ Goto(t, "idle", "flag")
    /\ arg' = [arg EXCEPT ![t] = SystemFont]
    /\ inDC' = [inDC EXCEPT ![t] = TRUE]
    /\ UNCHANGED <<initialized, stock, lock, live, next, font, answers,
                   selected, made>>

\* The game calls DeleteObject on any handle value, its own, a stock
\* replacement, a stale one or null.
CallDelete(t) ==
    /\ Goto(t, "idle", "delFlag")
    /\ \E h \in Handles \cup {NoHandle} : arg' = [arg EXCEPT ![t] = h]
    /\ UNCHANGED <<initialized, stock, lock, live, next, font, inDC,
                   answers, selected, made>>

\* The game creates a GDI object of its own (a font, a brush): gdi32 gives it
\* any handle that is not in use, a recycled one included.
GameCreate(t) ==
    /\ pc[t] = "idle"
    /\ \E h \in Handles \ live : live' = live \cup {h}
    /\ UNCHANGED <<initialized, stock, lock, pc, arg, next, font, inDC,
                   answers, selected, made>>

(***************************************************************************)
(* LeGetStockObject.                                                       *)
(***************************************************************************)

\* if (!StockObjectInitialized), outside the lock.
TestFlag(t) ==
    /\ Goto(t, "flag", IF initialized THEN "lookup" ELSE "enter")
    /\ UNCHANGED <<initialized, stock, lock, live, arg, next, font, inDC,
                   answers, selected, made>>

\* Mutant: the section is entered although another thread is in it.
BugEnterUnlocked(t) ==
    /\ Goto(t, "enter", "recheck")
    /\ lock' = t
    /\ UNCHANGED <<initialized, stock, live, arg, next, font, inDC,
                   answers, selected, made>>

\* PROTECT_SECTION(&GdiLock): RtlEnterCriticalSection.
EnterSection(t) ==
    /\ lock = NoThread
    /\ Goto(t, "enter", "recheck")
    /\ lock' = t
    /\ UNCHANGED <<initialized, stock, live, arg, next, font, inDC,
                   answers, selected, made>>

\* Mutant: the flag is not tested again under the lock.
BugNoRecheck(t) ==
    /\ Goto(t, "recheck", "loop")
    /\ UNCHANGED <<initialized, stock, lock, live, arg, next, font, inDC,
                   answers, selected, made>>

\* Mutant: the flag is set before the table is filled.
BugPublishBeforeFill(t) ==
    /\ Goto(t, "recheck", IF initialized THEN "leave" ELSE "loop")
    /\ initialized' = TRUE
    /\ UNCHANGED <<stock, lock, live, arg, next, font, inDC,
                   answers, selected, made>>

\* if (StockObjectInitialized) break; inside the lock.
RecheckFlag(t) ==
    /\ Goto(t, "recheck", IF initialized THEN "leave" ELSE "loop")
    /\ UNCHANGED <<initialized, stock, lock, live, arg, next, font, inDC,
                   answers, selected, made>>

\* One GetFontFromFont call: CreateFontIndirectW allocates a handle ...
MakeFont(t) ==
    /\ next[t] <= Len(FontOrder)
    /\ Goto(t, "loop", "store")
    /\ \E h \in Handles \ live :
          /\ live' = live \cup {h}
          /\ made' = made \cup {h}
          /\ font' = [font EXCEPT ![t] = h]
    /\ UNCHANGED <<initialized, stock, lock, arg, next, inDC, answers,
                   selected>>

\* ... or GetObjectW or CreateFontIndirectW failed and it returns nullptr.
MakeFontFails(t) ==
    /\ next[t] <= Len(FontOrder)
    /\ Goto(t, "loop", "store")
    /\ font' = [font EXCEPT ![t] = NoHandle]
    /\ UNCHANGED <<initialized, stock, lock, live, arg, next, inDC,
                   answers, selected, made>>

\* StockObject[*Index] = the font, and the loop goes round.
StoreFont(t) ==
    /\ Goto(t, "store", "loop")
    /\ stock' = [stock EXCEPT ![FontOrder[next[t]]] = font[t]]
    /\ font' = [font EXCEPT ![t] = NoHandle]
    /\ next' = [next EXCEPT ![t] = @ + 1]
    /\ UNCHANGED <<initialized, lock, live, arg, inDC, answers, selected,
                   made>>

\* The loop is over: StockObjectInitialized = TRUE.
PublishTable(t) ==
    /\ next[t] > Len(FontOrder)
    /\ Goto(t, "loop", "leave")
    /\ initialized' = TRUE
    /\ next' = [next EXCEPT ![t] = 1]
    /\ UNCHANGED <<stock, lock, live, arg, font, inDC, answers, selected,
                   made>>

\* Mutant: the section is not left.
BugLockKept(t) ==
    /\ Goto(t, "leave", "lookup")
    /\ UNCHANGED <<initialized, stock, lock, live, arg, next, font, inDC,
                   answers, selected, made>>

\* The destructor of SectionProtector: RtlLeaveCriticalSection.
LeaveSection(t) ==
    /\ Goto(t, "leave", "lookup")
    /\ lock' = NoThread
    /\ UNCHANGED <<initialized, stock, live, arg, next, font, inDC,
                   answers, selected, made>>

\* What the table says for request r: the entry when there is one, otherwise
\* the original object. The range check lets r = StockLast + 1 through, so
\* that request reads whatever lies behind the array.
Lookup(r) ==
    IF r \in Objects
    THEN {IF stock[r] # NoHandle THEN stock[r] ELSE OriginalOf[r]}
    ELSE IF r = StockLast + 1 THEN Handles \cup {OriginalOf[r]}
         ELSE {OriginalOf[r]}

\* The table is read and the call returns; LeCreateCompatibleDC hands the
\* answer to SelectObject for the new DC.
Answer(t) ==
    /\ Goto(t, "lookup", "idle")
    /\ \E a \in Lookup(arg[t]) :
          /\ selected' = IF inDC[t] THEN selected \cup {a} ELSE selected
          /\ answers' = IF inDC[t] \/ arg[t] \notin Objects THEN answers
                        ELSE [answers EXCEPT ![arg[t]] = @ \cup {a}]
    /\ arg' = [arg EXCEPT ![t] = NoHandle]
    /\ inDC' = [inDC EXCEPT ![t] = FALSE]
    /\ UNCHANGED <<initialized, stock, lock, live, next, font, made>>

(***************************************************************************)
(* LeDeleteObject.                                                         *)
(***************************************************************************)

\* Null, or the table is not there yet: TRUE is returned, nothing is deleted.
DeleteIgnored(t) ==
    /\ arg[t] = NoHandle \/ ~initialized
    /\ Goto(t, "delFlag", "idle")
    /\ arg' = [arg EXCEPT ![t] = NoHandle]
    /\ UNCHANGED <<initialized, stock, lock, live, next, font, inDC,
                   answers, selected, made>>

DeleteTestFlag(t) ==
    /\ arg[t] # NoHandle /\ initialized
    /\ Goto(t, "delFlag", "delScan")
    /\ UNCHANGED <<initialized, stock, lock, live, arg, next, font, inDC,
                   answers, selected, made>>

\* Mutant: a match in the table does not end the call.
BugDeleteReplacement(t) ==
    /\ \E o \in Objects : stock[o] = arg[t]
    /\ Goto(t, "delScan", "delCall")
    /\ UNCHANGED <<initialized, stock, lock, live, arg, next, font, inDC,
                   answers, selected, made>>

\* The scan of the table: a replacement is reported deleted and kept.
DeleteKept(t) ==
    /\ \E o \in Objects : stock[o] = arg[t]
    /\ Goto(t, "delScan", "idle")
    /\ arg' = [arg EXCEPT ![t] = NoHandle]
    /\ UNCHANGED <<initialized, stock, lock, live, next, font, inDC,
                   answers, selected, made>>

DeleteNotStock(t) ==
    /\ \A o \in Objects : stock[o] # arg[t]
    /\ Goto(t, "delScan", "delCall")
    /\ UNCHANGED <<initialized, stock, lock, live, arg, next, font, inDC,
                   answers, selected, made>>

\* The original DeleteObject.
DeleteCall(t) ==
    /\ Goto(t, "delCall", "idle")
    /\ live' = live \ {arg[t]}
    /\ arg' = [arg EXCEPT ![t] = NoHandle]
    /\ UNCHANGED <<initialized, stock, lock, next, font, inDC,
                   answers, selected, made>>

(***************************************************************************)
(* The specification.                                                      *)
(***************************************************************************)

\* The steps of the hooks once the game has called them.
HookStep(t) ==
    \/ TestFlag(t)      \/ EnterSection(t)  \/ RecheckFlag(t)
    \/ MakeFont(t)      \/ MakeFontFails(t) \/ StoreFont(t)
    \/ PublishTable(t)  \/ LeaveSection(t)  \/ Answer(t)
    \/ DeleteIgnored(t) \/ DeleteTestFlag(t)
    \/ DeleteKept(t)    \/ DeleteNotStock(t) \/ DeleteCall(t)

GameStep(t) ==
    CallGet(t) \/ CallCreateDC(t) \/ CallDelete(t) \/ GameCreate(t)

Next == \E t \in Threads : HookStep(t) \/ GameStep(t)

Spec == Init /\ [][Next]_vars

\* A thread that is inside a hook is scheduled again; nothing obliges the
\* game to make another call, and nothing makes the critical section fair.
FairSpec == Spec /\ \A t \in Threads : WF_vars(HookStep(t))

-----------------------------------------------------------------------------
(***************************************************************************)
(* Properties.                                                             *)
(***************************************************************************)

\* The answer to GetStockObject(r) never changes while the process lives: no
\* caller sees the original font of a stock index and another (or the same,
\* later) the replacement, however the first calls interleave
\* (LeGetStockObject, Gdi32Hook.cpp 251-276).
StableAnswers ==
    /\ \A o \in Objects : \A a, b \in answers[o] : a = b
    /\ \A a \in selected, b \in answers[SystemFont] \cup selected : a = b

\* No stock font handed to the game is ever destroyed by a DeleteObject of the
\* game, whatever handle values it passes and whenever it passes them
\* (LeDeleteObject, Gdi32Hook.cpp 286-295).
ReplacementsSurvive ==
    /\ \A o \in Objects : answers[o] \cap Handles \subseteq live
    /\ selected \cap Handles \subseteq live

\* The table is built once: every font GetFontFromFont created is in the
\* table, except the one the builder is about to store. Two builders would
\* overwrite and so leak each other's fonts (Gdi32Hook.cpp 255-263).
NoFontLeaked ==
    \A h \in made :
       \/ \E o \in Objects : stock[o] = h
       \/ \E t \in Threads : font[t] = h

\* Once published the table is frozen: no thread writes an entry that other
\* threads are reading without the lock.
PublishedTableFrozen ==
    [][initialized => stock' = stock /\ initialized']_vars

\* Every call of a hook returns. Weak fairness is enough although the critical
\* section is not fair: once the table is published no new thread enters it.
CallsReturn ==
    \A t \in Threads : pc[t] # "idle" ~> pc[t] = "idle"

\* What the hooks promise, whatever the interleaving: a table chosen once, and
\* every answer read from it (StockTable). The table exists from the moment
\* the flag is set.
Promise == INSTANCE StockTable WITH
    Choices <- Answers,
    table   <- IF initialized
               THEN [o \in Objects |->
                       IF stock[o] # NoHandle THEN stock[o] ELSE OriginalOf[o]]
               ELSE [o \in Objects |-> NoHandle],
    Unknown <- NoHandle

\* The hooks implement that promise.
ImplementsPromise == Promise!Spec

=============================================================================
