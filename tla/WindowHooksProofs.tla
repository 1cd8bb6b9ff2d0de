-------------------------- MODULE WindowHooksProofs --------------------------
(***************************************************************************)
(* Proofs about WindowHooks for any number of windows and any nesting of   *)
(* window procedures. The inductive invariant relates MainWindow to the    *)
(* window that is of the main class and to the calls in progress: while a  *)
(* window is being created MainWindow may still be another one, but then   *)
(* no code of the game runs.                                               *)
(***************************************************************************)
EXTENDS WindowHooks, SequenceTheorems, TLAPS

\* There is one main window at a time, of a registered class.
OneMain ==
    /\ \A v, w \in Windows : kind[v] = "main" /\ kind[w] = "main" => v = w
    /\ (\E w \in Windows : kind[w] = "main") => registered

\* The windows of the calls in progress exist; one in creation is a main
\* window, of which there was no call before.
Creating ==
    \A i \in 1 .. Len(stack) :
       /\ kind[stack[i].window] # "free"
       /\ stack[i].call = "create" =>
             /\ kind[stack[i].window] = "main"
             /\ \A j \in 1 .. i - 1 : stack[j].window # stack[i].window

\* A class is not registered, nor a window known, before its procedure was
\* patched.
PatchedFirst == lucky /\ (registered \/ mainWindow # NoWindow) => patched >= 1

\* Whenever the game runs, MainWindow is the main window, if there is one.
Known ==
    lucky /\ InGame =>
       \A w \in Windows : kind[w] = "main" => mainWindow = w

\* MainWindow has been the main window.
WasMain ==
    /\ \A w \in Windows : kind[w] = "main" => w \in wasMain
    /\ mainWindow # NoWindow => mainWindow \in wasMain

IInv ==
    /\ TypeOK
    /\ OneMain
    /\ Creating
    /\ PatchedFirst
    /\ Known
    /\ WasMain
    /\ MainIsUnicode
    /\ OthersAreAnsi

-----------------------------------------------------------------------------
(* What is on top of the stack, and what calls and returns make of it.     *)
LEMMA TopFacts ==
    ASSUME TypeOK, NEW c, In(c)
    PROVE  /\ Len(stack) \in Nat \ {0}
           /\ Top = stack[Len(stack)]
           /\ Top \in Frames /\ Top.call = c /\ Top.window \in Windows
<1>1. stack \in Seq(Frames) /\ stack # <<>>
    BY DEF TypeOK, In
<1>2. Len(stack) \in Nat \ {0}
    BY <1>1
<1>3. Top = stack[Len(stack)] /\ Top \in Frames
    BY <1>1, <1>2, ElementOfSeq DEF Top, Last
<1> QED BY <1>1, <1>2, <1>3 DEF In, Frames

LEMMA StackWindows ==
    ASSUME TypeOK
    PROVE  \A i \in 1 .. Len(stack) : stack[i].window \in Windows
<1>1. \A i \in 1 .. Len(stack) : stack[i] \in Frames
    BY ElementOfSeq DEF TypeOK
<1> QED BY <1>1 DEF Frames

LEMMA PushFacts ==
    ASSUME TypeOK, NEW f \in Frames, stack' = Append(stack, f)
    PROVE  /\ stack' \in Seq(Frames)
           /\ Len(stack') = Len(stack) + 1
           /\ \A i \in 1 .. Len(stack) : stack'[i] = stack[i]
           /\ stack'[Len(stack')] = f
           /\ InGame' <=> f.call # "create"
<1>1. stack \in Seq(Frames) /\ Len(stack) \in Nat
    BY DEF TypeOK
<1>2. /\ stack' \in Seq(Frames)
      /\ Len(stack') = Len(stack) + 1
      /\ \A i \in 1 .. Len(stack) : stack'[i] = stack[i]
      /\ stack'[Len(stack')] = f
    BY <1>1, AppendProperties
<1>3. stack' # <<>>
    BY <1>1, <1>2
<1> QED BY <1>2, <1>3 DEF InGame, In, Top, Last

LEMMA PopFacts ==
    ASSUME TypeOK, stack # <<>>, stack' = Front(stack)
    PROVE  /\ stack' \in Seq(Frames)
           /\ Len(stack') = Len(stack) - 1
           /\ \A i \in 1 .. Len(stack') : stack'[i] = stack[i]
<1>1. stack \in Seq(Frames) /\ Len(stack) \in Nat \ {0}
    BY DEF TypeOK
<1> DEFINE n == Len(stack) - 1
<1>2. 1 \in Int /\ n \in Nat /\ \A i \in 1 .. n : stack[i] \in Frames
    BY <1>1, ElementOfSeq
<1>3. stack' = SubSeq(stack, 1, n)
    BY DEF Front
<1> HIDE DEF n
<1>4. /\ SubSeq(stack, 1, n) \in Seq(Frames)
      /\ Len(SubSeq(stack, 1, n)) = IF 1 <= n THEN n - 1 + 1 ELSE 0
      /\ \A i \in 1 .. n - 1 + 1 : SubSeq(stack, 1, n)[i] = stack[1 + i - 1]
    BY <1>2, SubSeqProperties
<1>5. Len(SubSeq(stack, 1, n)) = n
    BY <1>2, <1>4
<1>6. \A i \in 1 .. n : SubSeq(stack, 1, n)[i] = stack[i]
    BY <1>2, <1>4
<1> QED BY <1>3, <1>4, <1>5, <1>6 DEF n

(* The initial state satisfies the invariant.                              *)
LEMMA InitInv == Init => IInv
<1> SUFFICES ASSUME Init PROVE IInv
    OBVIOUS
<1> USE DEF Init
<1>1. TypeOK
  <2>1. registered \in BOOLEAN /\ lucky \in BOOLEAN
      BY Zenon
  <2>2. kind \in [Windows -> {"free", "main", "other"}]
      OBVIOUS
  <2>3. patched \in 0 .. 2 /\ stack \in Seq(Frames)
      OBVIOUS
  <2> QED BY <2>1, <2>2, <2>3 DEF TypeOK
<1>2. OneMain /\ Creating /\ PatchedFirst /\ Known /\ WasMain
    BY DEF OneMain, Creating, PatchedFirst, Known, WasMain
<1>3. MainIsUnicode /\ OthersAreAnsi
    BY DEF MainIsUnicode, OthersAreAnsi
<1> QED BY <1>1, <1>2, <1>3 DEF IInv

(* A window is served in one way or the other.                             *)
Services == [kind : {"main", "other"}, wide : BOOLEAN, was : BOOLEAN]

LEMMA ServeTyped ==
    ASSUME TypeOK, NEW w \in Windows, kind[w] # "free", Serve(w)
    PROVE  served' \subseteq Services
<1> DEFINE b == IsMain(w)
           c == w \in wasMain
<1>1. kind[w] \in {"main", "other"} /\ served \subseteq Services
    BY DEF TypeOK, Services
<1>2. b \in BOOLEAN /\ c \in BOOLEAN
    BY DEF IsMain
<1>3. served' = served \cup {[kind |-> kind[w], wide |-> b, was |-> c]}
    BY Zenon DEF Serve
<1> HIDE DEF b, c
<1>4. [kind |-> kind[w], wide |-> b, was |-> c] \in Services
    BY <1>1, <1>2, Zenon DEF Services
<1> QED BY <1>1, <1>3, <1>4, Zenon

(* Every step keeps the types.                                             *)
LEMMA TypeOKKept == ASSUME TypeOK, Creating, Next PROVE TypeOK'
<1>1. CASE Register
  <2>1. patched' \in 0 .. 2
      BY <1>1 DEF Register, More, TypeOK
  <2>2. registered' \in BOOLEAN /\ lucky' \in BOOLEAN
      BY <1>1, Zenon DEF Register, TypeOK
  <2> QED BY <1>1, <2>1, <2>2 DEF Register, TypeOK
<1>2. CASE Unregister
    BY <1>2 DEF Unregister, history, TypeOK
<1>3. CASE CreateSends
  <2>1. Top.window \in Windows
      BY <1>3, TopFacts DEF CreateSends
  <2>2. stack' \in Seq(Frames)
      BY <1>3, <2>1, PushFacts DEF CreateSends, Enter, Frames
  <2> QED BY <1>3, <2>1, <2>2 DEF CreateSends, Enter, history, TypeOK
<1>4. CASE CreateDone
  <2>1. Top.window \in Windows /\ stack # <<>>
      BY <1>4, TopFacts DEF CreateDone, In
  <2>2. stack' \in Seq(Frames)
      BY <1>4, <2>1, PopFacts DEF CreateDone
  <2> QED BY <1>4, <2>1, <2>2 DEF CreateDone, history, TypeOK
<1>5. CASE CreateFails
  <2>1. Top.window \in Windows /\ stack # <<>>
      BY <1>5, TopFacts DEF CreateFails, In
  <2>2. stack' \in Seq(Frames)
      BY <1>5, <2>1, PopFacts DEF CreateFails
  <2> QED BY <1>5, <2>1, <2>2 DEF CreateFails, history, TypeOK
<1>6. CASE CreateRefused
    BY <1>6 DEF CreateRefused, history, TypeOK
<1>7. CASE DefWindowProc
  <2>1. Top.window \in Windows
      BY <1>7, TopFacts DEF DefWindowProc
  <2>2. kind[Top.window] # "free"
      BY <1>7, TopFacts DEF DefWindowProc, Creating
  <2> QED BY <1>7, <2>1, <2>2, ServeTyped
         DEF DefWindowProc, Services, TypeOK
<1>8. CASE Return
  <2>1. stack' \in Seq(Frames)
      BY <1>8, PopFacts DEF Return, In
  <2> QED BY <1>8, <2>1 DEF Return, history, TypeOK
<1>9. ASSUME NEW w \in Windows, CreateMain(w) PROVE TypeOK'
  <2>1. stack' \in Seq(Frames)
      BY <1>9, PushFacts DEF CreateMain, Frames
  <2> QED BY <1>9, <2>1 DEF CreateMain, TypeOK
<1>10. ASSUME NEW w \in Windows, CreateOther(w) PROVE TypeOK'
    BY <1>10 DEF CreateOther, history, TypeOK
<1>11. ASSUME NEW w \in Windows, Destroy(w) PROVE TypeOK'
    BY <1>11 DEF Destroy, history, TypeOK
<1>12. ASSUME NEW w \in Windows, Dispatch(w) PROVE TypeOK'
  <2>1. stack' \in Seq(Frames)
      BY <1>12, PushFacts DEF Dispatch, Enter, Frames
  <2>2. served' \subseteq Services
      BY <1>12, ServeTyped DEF Dispatch
  <2> QED BY <1>12, <2>1, <2>2 DEF Dispatch, Enter, Services, TypeOK
<1>13. ASSUME NEW w \in Windows, Send(w) PROVE TypeOK'
  <2>1. stack' \in Seq(Frames)
      BY <1>13, PushFacts DEF Send, Enter, Frames
  <2> QED BY <1>13, <2>1 DEF Send, Enter, history, TypeOK
<1> QED
    BY <1>1, <1>2, <1>3, <1>4, <1>5, <1>6, <1>7, <1>8, <1>9, <1>10,
       <1>11, <1>12, <1>13
       DEF Next

(* No action makes a second main window, or takes the class of one away.   *)
LEMMA OneMainKept == ASSUME TypeOK, OneMain, Creating, Next PROVE OneMain'
<1> USE DEF TypeOK, OneMain
<1>1. CASE UNCHANGED <<kind, registered>>
    BY <1>1
<1>2. CASE Register
    BY <1>2 DEF Register
<1>3. CASE Unregister
    BY <1>3 DEF Unregister
<1>4. CASE CreateFails
    BY <1>4, TopFacts DEF CreateFails, history
<1>5. ASSUME NEW w \in Windows, CreateMain(w) PROVE OneMain'
    BY <1>5 DEF CreateMain
<1>6. ASSUME NEW w \in Windows, CreateOther(w) PROVE OneMain'
    BY <1>6 DEF CreateOther
<1>7. ASSUME NEW w \in Windows, Destroy(w) PROVE OneMain'
    BY <1>7 DEF Destroy
<1> QED
    BY <1>1, <1>2, <1>3, <1>4, <1>5, <1>6, <1>7
       DEF Next, CreateSends, CreateDone, CreateRefused, DefWindowProc,
           Return, Dispatch, Send, history

(* The windows of the calls in progress stay.                              *)
LEMMA EnterCreating ==
    ASSUME TypeOK, Creating, NEW w \in Windows, kind[w] # "free", Enter(w),
           UNCHANGED kind
    PROVE  Creating'
<1>1. [call |-> "proc", window |-> w] \in Frames
    BY DEF Frames
<1>2. /\ Len(stack) \in Nat /\ Len(stack') = Len(stack) + 1
      /\ \A i \in 1 .. Len(stack) : stack'[i] = stack[i]
      /\ stack'[Len(stack')] = [call |-> "proc", window |-> w]
    BY <1>1, PushFacts DEF Enter, TypeOK
<1> QED BY <1>2 DEF Creating

LEMMA PopCreating ==
    ASSUME TypeOK, Creating, stack # <<>>, stack' = Front(stack),
           UNCHANGED kind
    PROVE  Creating'
<1>1. /\ Len(stack) \in Nat /\ Len(stack') = Len(stack) - 1
      /\ \A i \in 1 .. Len(stack') : stack'[i] = stack[i]
    BY PopFacts DEF TypeOK
<1> QED BY <1>1 DEF Creating

LEMMA CreatingKept == ASSUME TypeOK, Creating, Next PROVE Creating'
<1>1. CASE UNCHANGED <<kind, stack>>
    BY <1>1 DEF Creating
<1>2. CASE CreateSends
  <2>1. Top.window \in Windows /\ kind[Top.window] # "free"
      BY <1>2, TopFacts DEF CreateSends, Creating
  <2> QED BY <1>2, <2>1, EnterCreating DEF CreateSends
<1>3. CASE CreateDone
    BY <1>3, PopCreating DEF CreateDone, In
<1>4. CASE Return
    BY <1>4, PopCreating DEF Return, In
<1>5. CASE CreateFails
  <2>1. /\ Len(stack) \in Nat \ {0} /\ Len(stack') = Len(stack) - 1
        /\ \A i \in 1 .. Len(stack') : stack'[i] = stack[i]
      BY <1>5, TopFacts, PopFacts DEF CreateFails, In
  <2>2. Top = stack[Len(stack)] /\ Top.call = "create"
      BY <1>5, TopFacts DEF CreateFails
  <2>3. \A i \in 1 .. Len(stack') : stack[i].window # Top.window
      BY <2>1, <2>2 DEF Creating
  <2>4. \A i \in 1 .. Len(stack') : stack[i].window \in Windows
      BY <2>1, StackWindows
  <2>5. \A i \in 1 .. Len(stack') :
           kind'[stack'[i].window] = kind[stack'[i].window]
      BY <1>5, <2>1, <2>3, <2>4 DEF CreateFails, TypeOK
  <2> QED BY <2>1, <2>5 DEF Creating
<1>6. ASSUME NEW w \in Windows, CreateMain(w) PROVE Creating'
  <2> DEFINE f == [call |-> "create", window |-> w]
  <2>1. /\ Len(stack) \in Nat /\ Len(stack') = Len(stack) + 1
        /\ \A i \in 1 .. Len(stack) : stack'[i] = stack[i]
        /\ stack'[Len(stack')] = f
      BY <1>6, PushFacts DEF CreateMain, Frames, TypeOK
  <2>2. \A i \in 1 .. Len(stack) :
           stack[i].window \in Windows /\ stack[i].window # w
      BY <1>6, StackWindows DEF CreateMain, Creating
  <2>3. /\ kind'[w] = "main"
        /\ \A i \in 1 .. Len(stack) :
              kind'[stack[i].window] = kind[stack[i].window]
      BY <1>6, <2>2 DEF CreateMain, TypeOK
  <2> QED BY <2>1, <2>2, <2>3 DEF Creating
<1>7. ASSUME NEW w \in Windows, CreateOther(w) PROVE Creating'
  <2>1. \A i \in 1 .. Len(stack) :
           stack[i].window \in Windows /\ stack[i].window # w
      BY <1>7, StackWindows DEF CreateOther, Creating
  <2> QED BY <1>7, <2>1 DEF CreateOther, Creating, TypeOK
<1>8. ASSUME NEW w \in Windows, Destroy(w) PROVE Creating'
  <2>1. \A i \in 1 .. Len(stack) :
           stack[i].window \in Windows /\ stack[i].window # w
      BY <1>8, StackWindows DEF Destroy
  <2> QED BY <1>8, <2>1 DEF Destroy, Creating, TypeOK
<1>9. ASSUME NEW w \in Windows, Dispatch(w) PROVE Creating'
    BY <1>9, EnterCreating DEF Dispatch
<1>10. ASSUME NEW w \in Windows, Send(w) PROVE Creating'
    BY <1>10, EnterCreating DEF Send
<1> QED
    BY <1>1, <1>2, <1>3, <1>4, <1>5, <1>6, <1>7, <1>8, <1>9, <1>10
       DEF Next, Register, Unregister, CreateRefused, DefWindowProc

(* MainWindow is set only once the procedure is patched, and to a main     *)
(* window.                                                                 *)
LEMMA WindowSet ==
    ASSUME TypeOK, OneMain, Creating, Next
    PROVE  \/ mainWindow' \in {mainWindow, NoWindow}
           \/ /\ registered
              /\ mainWindow' \in Windows /\ kind[mainWindow'] = "main"
<1>1. CASE UNCHANGED mainWindow
    BY <1>1
<1>2. CASE CreateSends
    BY <1>2, TopFacts DEF CreateSends, Enter, OneMain
<1>3. CASE CreateDone
    BY <1>3, TopFacts DEF CreateDone, Creating, OneMain
<1>4. CASE CreateFails \/ CreateRefused
    BY <1>4 DEF CreateFails, CreateRefused
<1>5. ASSUME NEW w \in Windows, Dispatch(w) \/ Send(w)
      PROVE  \/ mainWindow' \in {mainWindow, NoWindow}
             \/ /\ registered
              /\ mainWindow' \in Windows /\ kind[mainWindow'] = "main"
    BY <1>5 DEF Dispatch, Send, Enter, OneMain
<1> QED
    BY <1>1, <1>2, <1>3, <1>4, <1>5
       DEF Next, Register, Unregister, DefWindowProc, Return, CreateMain,
           CreateOther, Destroy

LEMMA MoreIsMore == ASSUME NEW n \in 0 .. 2 PROVE More(n) >= 1
BY DEF More

LEMMA PatchedFirstKept ==
    ASSUME TypeOK, OneMain, Creating, PatchedFirst, Next
    PROVE  PatchedFirst'
<1>1. CASE Register
  <2>1. CASE mainWindow = NoWindow /\ lucky'
    <3>1. patched' = More(patched) /\ patched \in 0 .. 2
        BY <1>1, <2>1, Zenon DEF Register, TypeOK
    <3>2. patched' >= 1
        BY <3>1, MoreIsMore
    <3> QED BY <3>2 DEF PatchedFirst
  <2>2. CASE mainWindow # NoWindow
      BY <1>1, <2>2, Zenon DEF Register, PatchedFirst
  <2>3. CASE ~lucky'
      BY <2>3 DEF PatchedFirst
  <2> QED BY <2>1, <2>2, <2>3
<1>2. CASE UNCHANGED <<patched, lucky>> /\ (registered' => registered)
    BY <1>2, WindowSet DEF PatchedFirst
<1>3. CASE Unregister \/ CreateSends \/ CreateDone \/ CreateFails
    BY <1>2, <1>3, Zenon
       DEF Unregister, CreateSends, CreateDone, CreateFails, history
<1>4. CASE CreateRefused \/ DefWindowProc \/ Return
    BY <1>2, <1>4, Zenon DEF CreateRefused, DefWindowProc, Return, history
<1>5. ASSUME NEW w \in Windows,
             CreateMain(w) \/ CreateOther(w) \/ Destroy(w)
      PROVE  PatchedFirst'
    BY <1>2, <1>5, Zenon DEF CreateMain, CreateOther, Destroy, history
<1>6. ASSUME NEW w \in Windows, Dispatch(w) \/ Send(w) PROVE PatchedFirst'
    BY <1>2, <1>6, Zenon DEF Dispatch, Send, history
<1> QED BY <1>1, <1>3, <1>4, <1>5, <1>6 DEF Next

(* A message of the main window leaves it known.                           *)
LEMMA EnterKnown ==
    ASSUME TypeOK, OneMain, PatchedFirst, InGame => Known,
           NEW w \in Windows, kind[w] = "main" \/ InGame, Enter(w),
           UNCHANGED <<kind, lucky>>
    PROVE  Known'
<1> SUFFICES ASSUME lucky, NEW v \in Windows, kind[v] = "main"
             PROVE  mainWindow' = v
    BY DEF Known
<1>1. patched = 1 \/ patched = 2
    BY DEF PatchedFirst, OneMain, TypeOK
<1>2. CASE kind[w] = "main"
  <2>1. v = w
      BY <1>2 DEF OneMain
  <2>2. patched = 1
      BY <1>1, <1>2 DEF Enter
  <2> QED BY <1>2, <2>1, <2>2 DEF Enter
<1>3. CASE kind[w] # "main"
    BY <1>3 DEF Enter, Known
<1> QED BY <1>2, <1>3

(* While the game runs, MainWindow is the main window.                     *)
LEMMA KnownKept ==
    ASSUME TypeOK, OneMain, Creating, PatchedFirst, Known, Next
    PROVE  Known'
<1>1. CASE Register
    BY <1>1 DEF Register, Known, InGame, In, Top
<1>2. CASE Unregister
    BY <1>2 DEF Unregister, Known, InGame, In, Top, history
<1>3. CASE CreateSends
  <2>1. Top.window \in Windows /\ kind[Top.window] = "main"
      BY <1>3, TopFacts DEF CreateSends, Creating
  <2> QED BY <1>3, <2>1, EnterKnown DEF CreateSends, history
<1>4. CASE CreateDone
  <2>1. Top.window \in Windows /\ kind[Top.window] = "main"
      BY <1>4, TopFacts DEF CreateDone, Creating
  <2> QED BY <1>4, <2>1 DEF CreateDone, OneMain, Known
<1>5. CASE CreateFails
  <2>1. Top.window \in Windows /\ kind[Top.window] = "main"
      BY <1>5, TopFacts DEF CreateFails, Creating
  <2> QED BY <1>5, <2>1 DEF CreateFails, OneMain, Known, TypeOK
<1>6. CASE CreateRefused
    BY <1>6 DEF CreateRefused, OneMain, Known
<1>7. CASE DefWindowProc
    BY <1>7 DEF DefWindowProc, Known, InGame, In, Top
<1>8. CASE Return
    BY <1>8 DEF Return, Known, InGame, In, history
<1>9. ASSUME NEW w \in Windows, CreateMain(w) PROVE Known'
  <2>1. ~InGame'
      BY <1>9, PushFacts DEF CreateMain, Frames
  <2> QED BY <2>1 DEF Known
<1>10. ASSUME NEW w \in Windows, CreateOther(w) PROVE Known'
    BY <1>10 DEF CreateOther, Known, InGame, In, Top, history, TypeOK
<1>11. ASSUME NEW w \in Windows, Destroy(w) PROVE Known'
    BY <1>11 DEF Destroy, Known, InGame, In, Top, history, TypeOK
<1>12. ASSUME NEW w \in Windows, Dispatch(w) PROVE Known'
    BY <1>12, EnterKnown DEF Dispatch
<1>13. ASSUME NEW w \in Windows, Send(w) PROVE Known'
    BY <1>13, EnterKnown DEF Send, history
<1> QED
    BY <1>1, <1>2, <1>3, <1>4, <1>5, <1>6, <1>7, <1>8, <1>9, <1>10,
       <1>11, <1>12, <1>13
       DEF Next

(* The history of main windows has the present one and MainWindow.         *)
LEMMA WasMainKept ==
    ASSUME TypeOK, OneMain, Creating, WasMain, Next PROVE WasMain'
<1>1. wasMain \subseteq wasMain'
    BY DEF Next, Register, Unregister, CreateSends, CreateDone, CreateFails,
           CreateRefused, DefWindowProc, Return, CreateMain, CreateOther,
           Destroy, Dispatch, Send, history
<1>2. \A w \in Windows :
         kind'[w] = "main" => kind[w] = "main" \/ w \in wasMain'
    BY DEF Next, Register, Unregister, CreateSends, CreateDone, CreateFails,
           CreateRefused, DefWindowProc, Return, CreateMain, CreateOther,
           Destroy, Dispatch, Send, history, TypeOK
<1> QED BY <1>1, <1>2, WindowSet DEF WasMain

(* A call served while the game runs is served as the window asks for.     *)
LEMMA ServeKeeps ==
    ASSUME TypeOK, Known, WasMain, MainIsUnicode, OthersAreAnsi, InGame,
           NEW w \in Windows, Serve(w), UNCHANGED lucky
    PROVE  MainIsUnicode' /\ OthersAreAnsi'
<1> DEFINE b == IsMain(w)
           c == w \in wasMain
           r == [kind |-> kind[w], wide |-> b, was |-> c]
<1>1. served' = served \cup {r}
    BY Zenon DEF Serve
<1>2. /\ r.kind = "main" /\ ~r.wide => ~lucky
      /\ r.kind = "other" /\ r.wide => r.was
  <2>1. r.kind = kind[w] /\ r.wide = b /\ r.was = c
      OBVIOUS
  <2>2. kind[w] = "main" /\ lucky => b
      BY DEF Known, IsMain
  <2>3. b => c
      BY WindowAssumption DEF WasMain, IsMain
  <2> HIDE DEF b, c, r
  <2> QED BY <2>1, <2>2, <2>3
<1> HIDE DEF r
<1> QED BY <1>1, <1>2 DEF MainIsUnicode, OthersAreAnsi

LEMMA ServedKept ==
    ASSUME TypeOK, Known, WasMain, MainIsUnicode, OthersAreAnsi, Next
    PROVE  MainIsUnicode' /\ OthersAreAnsi'
<1>1. CASE UNCHANGED served /\ (lucky' => lucky)
    BY <1>1 DEF MainIsUnicode, OthersAreAnsi
<1>2. CASE Register
    BY <1>1, <1>2, Zenon DEF Register
<1>3. CASE Unregister \/ CreateSends \/ CreateDone \/ CreateFails
    BY <1>1, <1>3, Zenon
       DEF Unregister, CreateSends, CreateDone, CreateFails, history
<1>4. CASE CreateRefused \/ Return
    BY <1>1, <1>4, Zenon DEF CreateRefused, Return, history
<1>5. CASE DefWindowProc
  <2>1. Top.window \in Windows /\ InGame
      BY <1>5, TopFacts DEF DefWindowProc, InGame, In
  <2> QED BY <1>5, <2>1, ServeKeeps DEF DefWindowProc
<1>6. ASSUME NEW w \in Windows,
             CreateMain(w) \/ CreateOther(w) \/ Destroy(w) \/ Send(w)
      PROVE  MainIsUnicode' /\ OthersAreAnsi'
    BY <1>1, <1>6, Zenon DEF CreateMain, CreateOther, Destroy, Send, history
<1>7. ASSUME NEW w \in Windows, Dispatch(w)
      PROVE  MainIsUnicode' /\ OthersAreAnsi'
    BY <1>7, ServeKeeps DEF Dispatch
<1> QED BY <1>2, <1>3, <1>4, <1>5, <1>6, <1>7 DEF Next

LEMMA StepInv == IInv /\ [Next]_vars => IInv'
<1> SUFFICES ASSUME IInv, [Next]_vars PROVE IInv'
    OBVIOUS
<1>1. CASE Next
    BY <1>1, TypeOKKept, OneMainKept, CreatingKept, PatchedFirstKept,
       KnownKept, WasMainKept, ServedKept
       DEF IInv
<1>2. CASE UNCHANGED vars
  <2> USE <1>2 DEF vars, history, IInv
  <2>1. TypeOK'
      BY DEF TypeOK
  <2>2. OneMain' /\ Creating' /\ WasMain'
      BY DEF OneMain, Creating, WasMain
  <2>3. PatchedFirst' /\ Known'
      BY DEF PatchedFirst, Known, InGame, In, Top
  <2>4. MainIsUnicode' /\ OthersAreAnsi'
      BY DEF MainIsUnicode, OthersAreAnsi
  <2> QED BY <2>1, <2>2, <2>3, <2>4
<1> QED BY <1>1, <1>2

(* The invariant holds of every behaviour.                                 *)
THEOREM Invariance == Spec => []IInv
BY InitInv, StepInv, PTL DEF Spec

-----------------------------------------------------------------------------
(* Every variable keeps its type.                                          *)
THEOREM TypeCorrect == Spec => []TypeOK
<1>1. IInv => TypeOK
    BY DEF IInv
<1> QED BY <1>1, Invariance, PTL

(* HookDispatchMessageA and HookDefWindowProcA serve the main window by    *)
(* the W functions from its first message on, unless a patch has failed.   *)
THEOREM MainWindowIsUnicode == Spec => []MainIsUnicode
<1>1. IInv => MainIsUnicode
    BY DEF IInv
<1> QED BY <1>1, Invariance, PTL

(* They serve no other window so, but one with a former main window's      *)
(* handle.                                                                 *)
THEOREM OtherWindowsAreAnsi == Spec => []OthersAreAnsi
<1>1. IInv => OthersAreAnsi
    BY DEF IInv
<1> QED BY <1>1, Invariance, PTL

(* HookRegisterClassExA does not patch the procedure of a living main      *)
(* window again: MainWindow is known whenever the game can register.       *)
THEOREM NotRehooked == Spec => LiveMainNotRehooked
<1> DEFINE Kept ==
       (\E w \in Windows : kind[w] = "main") /\ patched >= 1 /\ lucky
          => patched' = patched
<1>1. IInv /\ [Next]_vars => [Kept]_vars
  <2> SUFFICES ASSUME IInv, Next PROVE Kept
      OBVIOUS
  <2>1. CASE Register
    <3>1. (\E w \in Windows : kind[w] = "main") /\ lucky
             => mainWindow # NoWindow
        BY <2>1, WindowAssumption DEF Register, IInv, Known
    <3> QED BY <2>1, <3>1 DEF Register
  <2>2. CASE UNCHANGED patched
      BY <2>2
  <2> QED
      BY <2>1, <2>2
         DEF Next, Unregister, CreateSends, CreateDone, CreateFails,
             CreateRefused, DefWindowProc, Return, CreateMain, CreateOther,
             Destroy, Dispatch, Send, history
<1> QED BY <1>1, Invariance, PTL DEF Spec, LiveMainNotRehooked
=============================================================================
