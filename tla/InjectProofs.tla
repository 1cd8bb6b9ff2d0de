---------------------------- MODULE InjectProofs ----------------------------
(***************************************************************************)
(* Proofs about Inject for any number of polls. The inductive invariant    *)
(* says how far the thread can be at each point of the loader, what the    *)
(* first dword of the page says about the thread, and when the page may    *)
(* be gone while the thread has still to go through it.                    *)
(***************************************************************************)
EXTENDS Inject, TLAPS

Preparing == {"context", "alloc", "write", "setContext", "resume"}
Watching  == {"read", "settle", "check"}
Ends      == {"free", "resumeGame", "done"}
Out       == {"game", "down"}    \* the thread has nothing to do in the page

\* The thread stays where it was created until the loader resumes it.
Held ==
    /\ pc = "create" => thread = "none"
    /\ thread = "none" => pc \in {"create", "done"} /\ eip = "game"
    /\ pc \in Preparing => thread = "start" /\ suspend = 1
    /\ thread \in InPage \cup {"load"} => eip = "page"

\* The page and the instruction pointer at each point of the loader.
PagePhase ==
    /\ pc \in {"create", "context", "alloc"} => page = "none"
    /\ pc \in {"write", "setContext", "resume", "free"} \cup Watching
          => page = "mapped"
    /\ pc \in {"create"} \cup (Preparing \ {"resume"}) => eip = "game"
    /\ pc \in {"resume"} \cup Watching => eip = "page"
    /\ eip = "page" => page # "none"
    /\ pc = "resumeGame" /\ ~isSuspended /\ page = "mapped"
          => "not freed" \in mishaps

\* The first dword is not cleared before the thread has called LdrLoadDll.
BusyUntilSignal ==
    /\ pc = "setContext" => busy
    /\ eip = "page" /\ thread \in {"start", "shell", "load", "tail"} => busy

\* The loader sees that the thread is out before it frees the page, or has
\* noted why it does not.
FreedWhenOut ==
    eip = "page" /\ mishaps \cap FreedEarly = {} =>
       /\ pc = "settle" => ~busy
       /\ pc \in {"check", "free"} \/ page = "freed" => thread \in Out

\* What the thread knows of the DLL, and what brought it down.
DllPhase ==
    /\ thread \in {"tail", "leaving"} => dll # "no"
    /\ thread = "game" /\ eip = "page" => dll # "no"
    /\ hooks /\ dll = "failed" => "hooks left" \in mishaps

IInv ==
    /\ TypeOK
    /\ Held
    /\ PagePhase
    /\ BusyUntilSignal
    /\ FreedWhenOut
    /\ DllPhase
    /\ DownOnlyByBlunder
    /\ PageReleased

-----------------------------------------------------------------------------
(* The types, in parts that the provers take one at a time.                *)
FlagsOK ==
    /\ isSuspended \in BOOLEAN
    /\ busy \in BOOLEAN
    /\ hooks \in BOOLEAN

DataOK ==
    /\ pc \in Labels
    /\ page \in {"none", "mapped", "freed"}
    /\ thread \in InPage \cup {"none", "start", "load", "game", "down"}
    /\ suspend \in {0, 1}
    /\ eip \in {"game", "page"}
    /\ dll \in {"no", "loaded", "failed"}
    /\ mishaps \subseteq Fatal \cup {"killed", "not freed", "not resumed"}

LEMMA TypeSplit == TypeOK <=> FlagsOK /\ DataOK /\ polls \in 0 .. MaxPolls
BY Zenon DEF TypeOK, FlagsOK, DataOK

LEMMA TypeSplitPrime ==
    TypeOK' <=> FlagsOK' /\ DataOK' /\ polls' \in 0 .. MaxPolls
BY Zenon DEF TypeOK, FlagsOK, DataOK

(* The initial state satisfies the invariant.                              *)
LEMMA InitInv == Init => IInv
<1> SUFFICES ASSUME Init PROVE IInv
    OBVIOUS
<1> USE InjectAssumption DEF Init, InPage, Fatal, FreedEarly
<1>1. TypeOK
  <2>1. isSuspended \in BOOLEAN
      BY Zenon
  <2>2. polls \in 0 .. MaxPolls
      OBVIOUS
  <2>3. FlagsOK
      BY <2>1, Zenon DEF FlagsOK
  <2>4. DataOK
      BY DEF DataOK, Labels
  <2> QED BY <2>2, <2>3, <2>4, TypeSplit, Zenon
<1>2. Held /\ PagePhase /\ BusyUntilSignal /\ FreedWhenOut /\ DllPhase
    BY DEF Held, PagePhase, BusyUntilSignal, FreedWhenOut, DllPhase,
           Preparing, Watching, Out
<1> QED BY <1>1, <1>2 DEF IInv, DownOnlyByBlunder, PageReleased

(* The polls stay within their bound.                                      *)
LEMMA MaxPollsNat == MaxPolls \in Nat \ {0}
BY InjectAssumption

LEMMA PollCounted ==
    ASSUME NEW n \in 0 .. MaxPolls, n + 1 < MaxPolls \/ n + 1 = MaxPolls
    PROVE  n + 1 \in 0 .. MaxPolls
BY MaxPollsNat

(* A thread that may run is not suspended.                                 *)
LEMMA ZeroNotOne == 0 # 1
OBVIOUS

LEMMA FlagsKept == ASSUME FlagsOK, Next PROVE FlagsOK'
<1> USE Zenon DEF FlagsOK, game, loader
<1>1. CASE CreateProcess
    BY <1>1 DEF CreateProcess
<1>2. CASE CreateFails
    BY <1>2 DEF CreateFails
<1>3. CASE GetContext
    BY <1>3 DEF GetContext
<1>4. CASE Alloc
    BY <1>4 DEF Alloc
<1>5. CASE Write
    BY <1>5 DEF Write
<1>6. CASE SetContext
    BY <1>6 DEF SetContext
<1>7. CASE Resume
    BY <1>7 DEF Resume
<1>8. CASE PollBusy
    BY <1>8 DEF PollBusy
<1>9. CASE PollFree
    BY <1>9 DEF PollFree
<1>10. CASE PollFails
    BY <1>10 DEF PollFails
<1>11. CASE Settle
    BY <1>11 DEF Settle
<1>12. CASE Check
    BY <1>12 DEF Check
<1>13. CASE Free
    BY <1>13 DEF Free
<1>14. CASE ResumeGame
    BY <1>14 DEF ResumeGame
<1>15. CASE Kill
    BY <1>15 DEF Kill
<1>16. CASE Begin
    BY <1>16 DEF Begin, ThreadStep
<1>17. CASE CallLdrLoadDll
    BY <1>17 DEF CallLdrLoadDll, ThreadStep
<1>18. CASE DllLoaded
    BY <1>18 DEF DllLoaded, ThreadStep
<1>19. CASE DllFails
    BY <1>19 DEF DllFails, ThreadStep
<1>20. CASE Signal
    BY <1>20 DEF Signal, ThreadStep
<1>21. CASE Return
    BY <1>21 DEF Return, ThreadStep
<1>22. CASE CallHooked
    BY <1>22 DEF CallHooked, ThreadStep
<1> QED
    BY
       <1>1, <1>2, <1>3, <1>4, <1>5, <1>6, <1>7, <1>8, <1>9, <1>10, <1>11,
       <1>12, <1>13, <1>14, <1>15, <1>16, <1>17, <1>18, <1>19, <1>20,
       <1>21, <1>22
       DEF Next, Loader, Thread

LEMMA PollsKept ==
    ASSUME polls \in 0 .. MaxPolls, Next
    PROVE  polls' \in 0 .. MaxPolls
<1>1. CASE PollBusy
  <2>1. polls' = polls + 1 /\ (polls' < MaxPolls \/ polls' = MaxPolls)
      BY <1>1, Zenon DEF PollBusy
  <2> QED BY <2>1, PollCounted
<1>2. CASE CreateProcess \/ CreateFails \/ GetContext \/ Alloc \/ Write \/
           SetContext \/ Resume \/ PollFree \/ PollFails \/ Settle \/
           Check \/ Free \/ ResumeGame \/ Kill
  <2>1. polls' = polls
      BY <1>2, Zenon DEF
         CreateProcess, CreateFails, GetContext, Alloc, Write, SetContext,
         Resume, PollFree, PollFails, Settle, Check, Free, ResumeGame, Kill
  <2> QED BY <2>1, Zenon
<1>3. CASE Begin \/ CallLdrLoadDll \/ DllLoaded \/ DllFails \/ Signal \/
           Return \/ CallHooked
  <2>1. polls' = polls
      BY <1>3, Zenon DEF loader, ThreadStep,
         Begin, CallLdrLoadDll, DllLoaded, DllFails, Signal, Return,
         CallHooked
  <2> QED BY <2>1, Zenon
<1> QED
    BY <1>1, <1>2, <1>3, Zenon DEF Next, Loader, Thread

LEMMA DataKept == ASSUME DataOK, Next PROVE DataOK'
<1> USE DEF DataOK, Goto, game, loader, Labels, InPage, Fatal, FreedEarly
<1>1. CASE CreateProcess
    BY <1>1 DEF CreateProcess
<1>2. CASE CreateFails
    BY <1>2 DEF CreateFails
<1>3. CASE GetContext
    BY <1>3 DEF GetContext
<1>4. CASE Alloc
    BY <1>4 DEF Alloc
<1>5. CASE Write
    BY <1>5 DEF Write
<1>6. CASE SetContext
    BY <1>6 DEF SetContext
<1>7. CASE Resume
    BY <1>7 DEF Resume
<1>8. CASE PollBusy
    BY <1>8 DEF PollBusy
<1>9. CASE PollFree
    BY <1>9 DEF PollFree
<1>10. CASE PollFails
    BY <1>10 DEF PollFails
<1>11. CASE Settle
    BY <1>11 DEF Settle
<1>12. CASE Check
    BY <1>12 DEF Check
<1>13. CASE Free
    BY <1>13 DEF Free
<1>14. CASE ResumeGame
    BY <1>14 DEF ResumeGame
<1>15. CASE Kill
    BY <1>15 DEF Kill
<1>16. CASE Begin
    BY <1>16 DEF Begin, ThreadStep, RunPage
<1>17. CASE CallLdrLoadDll
    BY <1>17 DEF CallLdrLoadDll, ThreadStep, RunPage
<1>18. CASE DllLoaded
    BY <1>18 DEF DllLoaded, ThreadStep, RunPage
<1>19. CASE DllFails
    BY <1>19 DEF DllFails, ThreadStep, RunPage
<1>20. CASE Signal
    BY <1>20 DEF Signal, ThreadStep, RunPage
<1>21. CASE Return
    BY <1>21 DEF Return, ThreadStep, RunPage
<1>22. CASE CallHooked
    BY <1>22 DEF CallHooked, ThreadStep, RunPage
<1> QED
    BY
       <1>1, <1>2, <1>3, <1>4, <1>5, <1>6, <1>7, <1>8, <1>9, <1>10, <1>11,
       <1>12, <1>13, <1>14, <1>15, <1>16, <1>17, <1>18, <1>19, <1>20,
       <1>21, <1>22
       DEF Next, Loader, Thread

(* Every step keeps the types.                                             *)
LEMMA TypeOKKept == ASSUME TypeOK, Next PROVE TypeOK'
BY TypeSplit, TypeSplitPrime, FlagsKept, PollsKept, DataKept, Zenon

(* A step of the loader keeps the rest of the invariant.                   *)
LEMMA LoaderKeeps == ASSUME IInv, Loader \/ Kill PROVE IInv'
<1>0. TypeOK'
    BY TypeOKKept DEF IInv, Next
<1> USE <1>0 DEF IInv, Held, PagePhase, BusyUntilSignal, FreedWhenOut,
          DllPhase, DownOnlyByBlunder, PageReleased, Preparing, Watching,
          Out, Goto, game, InPage, FreedEarly, Fatal
<1>1. CASE CreateProcess
    BY <1>1 DEF CreateProcess
<1>2. CASE CreateFails
    BY <1>2 DEF CreateFails
<1>3. CASE GetContext
    BY <1>3 DEF GetContext
<1>4. CASE Alloc
    BY <1>4 DEF Alloc
<1>5. CASE Write
    BY <1>5 DEF Write
<1>6. CASE SetContext
    BY <1>6 DEF SetContext
<1>7. CASE Resume
    BY <1>7 DEF Resume
<1>8. CASE PollBusy
    BY <1>8 DEF PollBusy
<1>9. CASE PollFree
    BY <1>9 DEF PollFree
<1>10. CASE PollFails
    BY <1>10 DEF PollFails
<1>11. CASE Settle
  <2>1. mishaps \cap FreedEarly = {} /\ thread # "leaving" => thread \in Out
      BY <1>11, TypeSplit DEF Settle, DataOK
  <2>2. mishaps' \cap FreedEarly = {} =>
           mishaps \cap FreedEarly = {} /\ thread # "leaving"
      BY <1>11 DEF Settle
  <2>3. mishaps \subseteq mishaps'
      BY <1>11 DEF Settle
  <2> QED BY <1>11, <2>1, <2>2, <2>3 DEF Settle
<1>12. CASE Check
    BY <1>12 DEF Check
<1>13. CASE Free
    BY <1>13 DEF Free
<1>14. CASE ResumeGame
    BY <1>14 DEF ResumeGame
<1>15. CASE Kill
    BY <1>15 DEF Kill
<1> QED
    BY <1>1, <1>2, <1>3, <1>4, <1>5, <1>6, <1>7, <1>8, <1>9, <1>10,
       <1>11, <1>12, <1>13, <1>14, <1>15
       DEF Loader

(* A step of the thread does too: it never finds its page gone unless a    *)
(* mishap that frees it early has been noted.                              *)
LEMMA ThreadKeeps == ASSUME IInv, Thread \/ CallHooked PROVE IInv'
<1>0. TypeOK'
    BY TypeOKKept DEF IInv, Next
<1>9. thread \in InPage \cup {"load"} /\ page # "mapped"
         => mishaps \cap Fatal # {}
    BY TypeSplit DEF IInv, DataOK, Held, PagePhase, FreedWhenOut, InPage,
                     Fatal, Out
<1> USE <1>0, <1>9
        DEF IInv, Held, PagePhase, BusyUntilSignal, FreedWhenOut,
          DllPhase, DownOnlyByBlunder, PageReleased, Preparing, Watching,
          Out, loader, ThreadStep, RunPage, InPage, FreedEarly, Fatal
<1>1. CASE Begin
  <2>1. pc \notin Preparing
    <3>1. suspend = 0
        BY <1>1, Zenon DEF Begin
    <3>2. pc \in Preparing => suspend = 1
        BY Zenon
    <3> QED BY <3>1, <3>2, ZeroNotOne, Zenon
  <2>2. CASE eip = "page" /\ page = "mapped"
      BY <1>1, <2>1, <2>2 DEF Begin
  <2>3. CASE eip = "page" /\ page # "mapped"
      BY <1>1, <2>1, <2>3, TypeSplit DEF Begin, DataOK
  <2>4. CASE eip # "page"
      BY <1>1, <2>1, <2>4 DEF Begin
  <2> QED BY <2>2, <2>3, <2>4
<1>2. CASE CallLdrLoadDll
    BY <1>2 DEF CallLdrLoadDll
<1>3. CASE DllLoaded
    BY <1>3 DEF DllLoaded
<1>4. CASE DllFails
    BY <1>4 DEF DllFails
<1>5. CASE Signal
    BY <1>5 DEF Signal
<1>6. CASE Return
    BY <1>6 DEF Return
<1>7. CASE CallHooked
    BY <1>7 DEF CallHooked
<1> QED
    BY <1>1, <1>2, <1>3, <1>4, <1>5, <1>6, <1>7
       DEF Thread

LEMMA StepInv == IInv /\ [Next]_vars => IInv'
<1> SUFFICES ASSUME IInv, [Next]_vars PROVE IInv'
    OBVIOUS
<1>1. CASE Next
    BY <1>1, LoaderKeeps, ThreadKeeps DEF Next
<1>2. CASE UNCHANGED vars
  <2> USE <1>2 DEF vars, IInv, InPage
  <2>1. TypeOK'
    <3>1. FlagsOK' /\ polls' \in 0 .. MaxPolls
        BY TypeSplit, Zenon DEF FlagsOK
    <3>2. DataOK'
        BY TypeSplit, Zenon DEF DataOK
    <3> QED BY <3>1, <3>2, TypeSplitPrime, Zenon
  <2>2. Held' /\ PagePhase' /\ BusyUntilSignal'
      BY Zenon DEF Held, PagePhase, BusyUntilSignal, Preparing, Watching
  <2>3. FreedWhenOut' /\ DllPhase'
      BY Zenon DEF FreedWhenOut, DllPhase, FreedEarly, Out
  <2>4. DownOnlyByBlunder' /\ PageReleased'
      BY Zenon DEF DownOnlyByBlunder, PageReleased, Fatal
  <2> QED BY <2>1, <2>2, <2>3, <2>4
<1> QED BY <1>1, <1>2

(* The invariant holds of every behaviour.                                 *)
THEOREM Invariance == Spec => []IInv
BY InitInv, StepInv, PTL DEF Spec

-----------------------------------------------------------------------------
(* Every variable keeps its type.                                          *)
THEOREM TypeCorrect == Spec => []TypeOK
<1>1. IInv => TypeOK
    BY DEF IInv
<1> QED BY <1>1, Invariance, PTL

(* Sent through the page, the game runs none of its code before LdrLoadDll *)
(* has loaded the DLL or refused; and it runs without being sent there     *)
(* only if InjectDllToRemoteProcess had failed by then.                    *)
THEOREM KernelComesFirst == Spec => []KernelBeforeGame
<1>1. IInv => KernelBeforeGame
    BY TypeSplit
       DEF IInv, DataOK, Labels, Held, PagePhase, DllPhase, KernelBeforeGame,
           Preparing, Watching, InPage
<1> QED BY <1>1, Invariance, PTL

(* The game goes down by the mishaps named (the page freed early, hooks    *)
(* left by DllMain), and by no other failure of VMeCreateProcess or        *)
(* InjectDllToRemoteProcess.                                               *)
THEOREM OnlyBlundersKill == Spec => []DownOnlyByBlunder
<1>1. IInv => DownOnlyByBlunder
    BY DEF IInv
<1> QED BY <1>1, Invariance, PTL

(* NtFreeVirtualMemory does not take the page from under the thread, short *)
(* of those mishaps.                                                       *)
THEOREM PageIsKept == Spec => []PageOutlivesCode
<1>1. IInv => PageOutlivesCode
    BY TypeSplit
       DEF IInv, DataOK, Held, PagePhase, FreedWhenOut, PageOutlivesCode,
           InPage, Out
<1> QED BY <1>1, Invariance, PTL

(* InjectDllToRemoteProcess does not leak the page, short of a kill or a   *)
(* failure to free it.                                                     *)
THEOREM PageIsReleased == Spec => []PageReleased
<1>1. IInv => PageReleased
    BY DEF IInv
<1> QED BY <1>1, Invariance, PTL
=============================================================================
