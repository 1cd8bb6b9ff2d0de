----------------------------- MODULE WindowHooks -----------------------------
(***************************************************************************)
(* The window hooks of FVPKernel.dll (FVPKernel/FVPKernel.cpp). The game   *)
(* is an ANSI program; its main window is made a Unicode one: the class    *)
(* HS_MAIN_WINDOW_CLASS00 is registered and created with the W functions,  *)
(* and DefWindowProcA and DispatchMessageA go to their W forms if the      *)
(* window is MainWindow. All other windows stay ANSI. MainWindow is set by *)
(* the patched window procedure on each message, since messages come       *)
(* before CreateWindowExW returns, and by HookCreateWindowExA after.       *)
(*                                                                         *)
(* One GUI thread, whose window procedures nest: a call stack. The game    *)
(* has one window of the main class at a time; HWNDs are reused. The       *)
(* converted strings and the other fields of the class are left out.       *)
(***************************************************************************)
EXTENDS Integers, Sequences, SequencesExt

CONSTANTS
    Windows,   \* the HWNDs
    NoWindow,  \* nullptr
    MaxDepth   \* bound: how deep the calls of window procedures nest

ASSUME WindowAssumption ==
    /\ NoWindow \notin Windows
    /\ MaxDepth \in Nat

VARIABLES
    kind,        \* each HWND: free, or a window of class main or other
    registered,  \* the main class is registered
    mainWindow,  \* FVPKernel->MainWindow
    patched,     \* how often the main procedure was patched, 2: or more
    stack,       \* the calls in progress, the innermost last
    served,      \* history: which form served which kind of window
    wasMain,     \* history: the HWNDs that have been a main window's
    lucky        \* history: no PatchMemory of the procedure has failed

vars == <<kind, registered, mainWindow, patched, stack, served, wasMain,
          lucky>>
history == <<served, wasMain, lucky>>

Frames == [call : {"create", "proc"}, window : Windows]

TypeOK ==
    /\ kind \in [Windows -> {"free", "main", "other"}]
    /\ registered \in BOOLEAN
    /\ mainWindow \in Windows \cup {NoWindow}
    /\ patched \in 0 .. 2
    /\ stack \in Seq(Frames)
    /\ served \subseteq
          [kind : {"main", "other"}, wide : BOOLEAN, was : BOOLEAN]
    /\ wasMain \subseteq Windows
    /\ lucky \in BOOLEAN

Init ==
    /\ kind = [w \in Windows |-> "free"]
    /\ registered = FALSE
    /\ mainWindow = NoWindow
    /\ patched = 0
    /\ stack = <<>>
    /\ served = {}
    /\ wasMain = {}
    /\ lucky = TRUE

Top == Last(stack)

In(call) == IF stack = <<>> THEN FALSE ELSE Top.call = call

\* The game runs: at top level or in a window procedure of its own.
InGame == ~In("create")

\* hWnd == MainWindow && MainWindow != NULL
IsMain(w) == w = mainWindow

Serve(w) ==
    served' = served \cup
       {[kind |-> kind[w], wide |-> IsMain(w), was |-> w \in wasMain]}

\* Mutant: the hook does not take down the window.
BugEnter(w) ==
    /\ Len(stack) < MaxDepth
    /\ stack' = Append(stack, [call |-> "proc", window |-> w])
    /\ UNCHANGED mainWindow

\* A window procedure is called. HookMainWindowProc takes down the window; if
\* it was patched twice, its stub leads back to it and it never returns.
Enter(w) ==
    /\ Len(stack) < MaxDepth
    /\ kind[w] = "main" => patched < 2
    /\ stack' = Append(stack, [call |-> "proc", window |-> w])
    /\ mainWindow' = IF kind[w] = "main" /\ patched = 1 THEN w ELSE mainWindow

\* One patch more; the second and all later ones are alike.
More(n) == IF n < 2 THEN n + 1 ELSE n

\* Mutant: the procedure is patched whether or not there is a main window.
BugRegister ==
    /\ InGame
    /\ registered' = TRUE
    /\ \/ patched' = More(patched) /\ UNCHANGED lucky
       \/ lucky' = FALSE /\ UNCHANGED patched
    /\ UNCHANGED <<kind, mainWindow, stack, served, wasMain>>

\* HookRegisterClassExA. RegisterClassExW fails if the class exists; the
\* procedure has been patched by then, if no main window was known.
Register ==
    /\ InGame
    /\ registered' = TRUE
    /\ IF mainWindow = NoWindow
       THEN \/ patched' = More(patched) /\ UNCHANGED lucky
            \/ lucky' = FALSE /\ UNCHANGED patched
       ELSE UNCHANGED <<patched, lucky>>
    /\ UNCHANGED <<kind, mainWindow, stack, served, wasMain>>

\* UnregisterClass, which nothing hooks.
Unregister ==
    /\ InGame
    /\ registered /\ \A w \in Windows : kind[w] # "main"
    /\ registered' = FALSE
    /\ UNCHANGED <<kind, mainWindow, patched, stack, history>>

\* HookCreateWindowExA for the main class: CreateWindowExW has made the window
\* and its first messages are to come.
CreateMain(w) ==
    /\ InGame /\ Len(stack) < MaxDepth
    /\ registered /\ \A v \in Windows : kind[v] # "main"
    /\ kind[w] = "free"
    /\ kind' = [kind EXCEPT ![w] = "main"]
    /\ wasMain' = wasMain \cup {w}
    /\ stack' = Append(stack, [call |-> "create", window |-> w])
    /\ UNCHANGED <<registered, mainWindow, patched, served, lucky>>

\* CreateWindowExW sends the window a message.
CreateSends ==
    /\ In("create")
    /\ Enter(Top.window)
    /\ UNCHANGED <<kind, registered, patched, history>>

\* CreateWindowExW returns the window ...
CreateDone ==
    /\ In("create")
    /\ mainWindow' = Top.window
    /\ stack' = Front(stack)
    /\ UNCHANGED <<kind, registered, patched, history>>

\* ... or fails, before or after it sent messages.
CreateFails ==
    /\ In("create")
    /\ mainWindow' = NoWindow
    /\ kind' = [kind EXCEPT ![Top.window] = "free"]
    /\ stack' = Front(stack)
    /\ UNCHANGED <<registered, patched, history>>

\* There is no such class: no window, no message.
CreateRefused ==
    /\ InGame
    /\ ~registered
    /\ mainWindow' = NoWindow
    /\ UNCHANGED <<kind, registered, patched, stack, history>>

\* The game creates or destroys another window.
CreateOther(w) ==
    /\ InGame
    /\ kind[w] = "free"
    /\ kind' = [kind EXCEPT ![w] = "other"]
    /\ UNCHANGED <<registered, mainWindow, patched, stack, history>>

\* DestroyWindow, which nothing hooks, of a window that is in no call.
Destroy(w) ==
    /\ InGame
    /\ kind[w] # "free" /\ \A i \in DOMAIN stack : stack[i].window # w
    /\ kind' = [kind EXCEPT ![w] = "free"]
    /\ UNCHANGED <<registered, mainWindow, patched, stack, history>>

\* Mutant: a call without a main window is served by the W form as well.
BugDispatch(w) ==
    /\ InGame
    /\ kind[w] # "free"
    /\ served' = served \cup
          {[kind |-> kind[w], wide |-> IsMain(w) \/ mainWindow = NoWindow,
            was |-> w \in wasMain]}
    /\ Enter(w)
    /\ UNCHANGED <<kind, registered, patched, wasMain, lucky>>

\* HookDispatchMessageA, by which the window procedure is called.
Dispatch(w) ==
    /\ InGame
    /\ kind[w] # "free"
    /\ Serve(w)
    /\ Enter(w)
    /\ UNCHANGED <<kind, registered, patched, wasMain, lucky>>

\* SendMessage, which nothing hooks.
Send(w) ==
    /\ InGame
    /\ kind[w] # "free"
    /\ Enter(w)
    /\ UNCHANGED <<kind, registered, patched, history>>

\* A window procedure of the game hands the message to DefWindowProcA.
DefWindowProc ==
    /\ In("proc")
    /\ Serve(Top.window)
    /\ UNCHANGED <<kind, registered, mainWindow, patched, stack, wasMain,
                   lucky>>

Return ==
    /\ In("proc")
    /\ stack' = Front(stack)
    /\ UNCHANGED <<kind, registered, mainWindow, patched, history>>

Next ==
    \/ Register \/ Unregister \/ CreateSends \/ CreateDone \/ CreateFails
    \/ CreateRefused \/ DefWindowProc \/ Return
    \/ \E w \in Windows :
          \/ CreateMain(w) \/ CreateOther(w) \/ Destroy(w)
          \/ Dispatch(w)   \/ Send(w)

Spec == Init /\ [][Next]_vars

-----------------------------------------------------------------------------
(***************************************************************************)
(* Properties.                                                             *)
(***************************************************************************)

\* Every message of the main window is served by the W forms, those sent
\* before CreateWindowExW returns included, and also after a failed creation
\* or a second window; unless its procedure could not be patched, which
\* HookRegisterClassExA does not notice.
MainIsUnicode ==
    \A s \in served : s.kind = "main" /\ ~s.wide => ~lucky

\* No other window is served by the W forms, unless it got the HWND of a dead
\* main window, which MainWindow still holds.
OthersAreAnsi ==
    \A s \in served : s.kind = "other" /\ s.wide => s.was

\* The procedure of a living main window is not patched again, whenever the
\* game registers the class again: its stub would lead back to the hook and
\* the next message would never return. (Without such a window, before the
\* first and after a failed creation, it is patched again.)
LiveMainNotRehooked ==
    [][(\E w \in Windows : kind[w] = "main") /\ patched >= 1 /\ lucky
         => patched' = patched]_vars
=============================================================================
