-------------------------------- MODULE Inject --------------------------------
(***************************************************************************)
(* How FVPKernel.dll gets into the game: VMeCreateProcess (FVPLoaderGui)   *)
(* creates it suspended and InjectDllToRemoteProcess (NativeLib/my.cpp,    *)
(* x86) sends its main thread through a page of code that calls LdrLoadDll *)
(* and returns to where the thread was to start. Two actors: the loader    *)
(* and that thread. The loader waits for the thread by polling the first   *)
(* dword of the page, MaxPolls times at most, and frees the page then.     *)
(*                                                                         *)
(* Every system call may fail, the loader may be killed, and LdrLoadDll    *)
(* may take any time. What the page holds is abstracted to whether it was  *)
(* written in full: the three writes fail alike, before anything can run   *)
(* it. Only Flags = 0 and INJECT_THREAD_SUSPENDED, the flags the sources   *)
(* use, are modelled.                                                      *)
(***************************************************************************)
EXTENDS Integers

CONSTANTS
    Suspended,  \* the values of IsSuspended: {FALSE} for FVPLoaderGui
    MaxPolls    \* TryTimes, 30 in the code

ASSUME InjectAssumption ==
    /\ Suspended \subseteq BOOLEAN /\ Suspended # {}
    /\ MaxPolls \in Nat \ {0}

VARIABLES
    pc,           \* where the loader is
    isSuspended,  \* Flags has INJECT_THREAD_SUSPENDED
    polls,        \* the times the page was polled and found busy
    page,         \* the page in the game: none, mapped or freed
    busy,         \* its first dword, ReturnAddr, is not zero
    thread,       \* where the main thread of the game is
    suspend,      \* its suspend count
    eip,          \* where it will start: at its own code or in the page
    dll,          \* FVPKernel.dll in the game
    hooks,        \* its hooks are in the game's functions
    mishaps       \* history: what has gone wrong

vars == <<pc, isSuspended, polls, page, busy, thread, suspend, eip, dll,
          hooks, mishaps>>
loader == <<pc, isSuspended, polls>>
game   == <<thread, dll, hooks>>

\* The mishaps that can bring the game down.
FreedEarly == {"gave up", "left early", "not resumed by injection"}
Fatal      == FreedEarly \cup {"hooks left"}

InPage == {"shell", "tail", "leaving"}  \* Eip is in the page

Labels == {"create", "context", "alloc", "write", "setContext", "resume",
           "read", "settle", "check", "free", "resumeGame", "done"}

TypeOK ==
    /\ pc \in Labels
    /\ isSuspended \in BOOLEAN
    /\ polls \in 0 .. MaxPolls
    /\ page \in {"none", "mapped", "freed"}
    /\ busy \in BOOLEAN
    /\ thread \in InPage \cup {"none", "start", "load", "game", "down"}
    /\ suspend \in {0, 1}
    /\ eip \in {"game", "page"}
    /\ dll \in {"no", "loaded", "failed"}
    /\ hooks \in BOOLEAN
    /\ mishaps \subseteq Fatal \cup {"killed", "not freed", "not resumed"}

Init ==
    /\ pc = "create"
    /\ isSuspended \in Suspended
    /\ polls = 0
    /\ page = "none"
    /\ busy = FALSE
    /\ thread = "none"
    /\ suspend = 0
    /\ eip = "game"
    /\ dll = "no"
    /\ hooks = FALSE
    /\ mishaps = {}

Goto(from, to) == pc = from /\ pc' = to

(***************************************************************************)
(* VMeCreateProcess and InjectDllToRemoteProcess.                          *)
(***************************************************************************)

\* Mutant: the process is created running.
BugCreateProcess ==
    /\ Goto("create", "context")
    /\ thread' = "start"
    /\ UNCHANGED <<isSuspended, polls, page, busy, suspend, eip, dll, hooks,
                   mishaps>>

\* CREATE_SUSPENDED is always added.
CreateProcess ==
    /\ Goto("create", "context")
    /\ thread' = "start"
    /\ suspend' = 1
    /\ UNCHANGED <<isSuspended, polls, page, busy, eip, dll, hooks, mishaps>>

\* No process, no injection.
CreateFails ==
    /\ Goto("create", "done")
    /\ UNCHANGED <<isSuspended, polls, page, busy, thread, suspend, eip, dll,
                   hooks, mishaps>>

\* NtGetContextThread; a failure leaves the function at once.
GetContext ==
    /\ Goto("context", "alloc") \/ Goto("context", "resumeGame")
    /\ UNCHANGED <<isSuspended, polls, page, busy, game, suspend, eip,
                   mishaps>>

Alloc ==
    /\ \/ Goto("alloc", "write") /\ page' = "mapped"
       \/ Goto("alloc", "resumeGame") /\ UNCHANGED page
    /\ UNCHANGED <<isSuspended, polls, busy, game, suspend, eip, mishaps>>

\* Mutant: a failed write returns at once.
BugWrite ==
    /\ \/ Goto("write", "setContext") /\ busy' = TRUE
       \/ Goto("write", "resumeGame") /\ busy' \in BOOLEAN
    /\ UNCHANGED <<isSuspended, polls, page, game, suspend, eip, mishaps>>

\* The context, the path and the code are written.
Write ==
    /\ \/ Goto("write", "setContext") /\ busy' = TRUE
       \/ Goto("write", "free") /\ busy' \in BOOLEAN
    /\ UNCHANGED <<isSuspended, polls, page, game, suspend, eip, mishaps>>

\* From here on the thread runs the page. With INJECT_THREAD_SUSPENDED that
\* is all; the page stays.
SetContext ==
    /\ \/ /\ Goto("setContext", IF isSuspended THEN "resumeGame" ELSE "resume")
          /\ eip' = "page"
       \/ Goto("setContext", "free") /\ UNCHANGED eip
    /\ UNCHANGED <<isSuspended, polls, page, busy, game, suspend, mishaps>>

\* NtResumeThread; when it fails the page is freed with Eip left in it.
Resume ==
    /\ \/ Goto("resume", "read") /\ suspend' = 0 /\ UNCHANGED mishaps
       \/ /\ Goto("resume", "free")
          /\ mishaps' = mishaps \cup {"not resumed by injection"}
          /\ UNCHANGED suspend
    /\ UNCHANGED <<isSuspended, polls, page, busy, game, eip>>

\* The page is busy: NtDelayExecution and another try, or the last one.
PollBusy ==
    /\ busy
    /\ polls' = polls + 1
    /\ \/ polls' < MaxPolls /\ Goto("read", "read") /\ UNCHANGED mishaps
       \/ /\ polls' = MaxPolls /\ Goto("read", "settle")
          /\ mishaps' = mishaps \cup {"gave up"}
    /\ UNCHANGED <<isSuspended, page, busy, game, suspend, eip>>

\* Mutant: the page is freed as soon as the thread has signalled.
BugPollFree ==
    /\ ~busy
    /\ Goto("read", "free")
    /\ UNCHANGED <<isSuspended, polls, page, busy, game, suspend, eip,
                   mishaps>>

PollFree ==
    /\ ~busy
    /\ Goto("read", "settle")
    /\ UNCHANGED <<isSuspended, polls, page, busy, game, suspend, eip,
                   mishaps>>

\* ReadMemory fails: the page is freed, whatever the thread is doing in it.
PollFails ==
    /\ Goto("read", "free")
    /\ mishaps' = mishaps \cup {"gave up"}
    /\ UNCHANGED <<isSuspended, polls, page, busy, game, suspend, eip>>

\* NtDelayExecution: time for the thread to leave the page.
Settle ==
    /\ Goto("settle", "check")
    /\ mishaps' = IF thread = "leaving" THEN mishaps \cup {"left early"}
                   ELSE mishaps
    /\ UNCHANGED <<isSuspended, polls, page, busy, game, suspend, eip>>

\* NtGetContextThread fails, Eip is in the page or is not: this decides what
\* is returned, and nobody looks.
Check ==
    /\ Goto("check", "free")
    /\ UNCHANGED <<isSuspended, polls, page, busy, game, suspend, eip,
                   mishaps>>

Free ==
    /\ \/ Goto("free", "resumeGame") /\ page' = "freed" /\ UNCHANGED mishaps
       \/ /\ Goto("free", "resumeGame")
          /\ mishaps' = mishaps \cup {"not freed"}
          /\ UNCHANGED page
    /\ UNCHANGED <<isSuspended, polls, busy, game, suspend, eip>>

\* Mutant: the thread is resumed by the injection only.
BugResumeGame ==
    /\ Goto("resumeGame", "done")
    /\ UNCHANGED <<isSuspended, polls, page, busy, game, suspend, eip,
                   mishaps>>

\* VMeCreateProcess resumes the thread in any case.
ResumeGame ==
    /\ Goto("resumeGame", "done")
    /\ \/ suspend' = 0 /\ UNCHANGED mishaps
       \/ mishaps' = mishaps \cup {"not resumed"} /\ UNCHANGED suspend
    /\ UNCHANGED <<isSuspended, polls, page, busy, game, eip>>

Kill ==
    /\ pc # "done"
    /\ pc' = "done"
    /\ mishaps' = mishaps \cup {"killed"}
    /\ UNCHANGED <<isSuspended, polls, page, busy, game, suspend, eip>>

Loader ==
    \/ CreateProcess \/ CreateFails \/ GetContext \/ Alloc     \/ Write
    \/ SetContext    \/ Resume      \/ PollBusy   \/ PollFree  \/ PollFails
    \/ Settle        \/ Check       \/ Free       \/ ResumeGame

(***************************************************************************)
(* The main thread: InjectRemote_LoadDll.                                  *)
(***************************************************************************)
ThreadStep(from) ==
    /\ thread = from /\ suspend = 0
    /\ UNCHANGED <<loader, page, suspend, eip>>

\* The code of a freed page is gone.
RunPage(to) == thread' = IF page = "mapped" THEN to ELSE "down"

\* The loader initialises the process, then the thread goes to its Eip.
Begin ==
    /\ ThreadStep("start")
    /\ IF eip = "page" THEN RunPage("shell") ELSE thread' = "game"
    /\ UNCHANGED <<busy, dll, hooks, mishaps>>

\* Mutant: ReturnAddr is cleared before LdrLoadDll is called.
BugCallLdrLoadDll ==
    /\ ThreadStep("shell")
    /\ RunPage("load")
    /\ busy' = FALSE
    /\ UNCHANGED <<dll, hooks, mishaps>>

CallLdrLoadDll ==
    /\ ThreadStep("shell")
    /\ RunPage("load")
    /\ UNCHANGED <<busy, dll, hooks, mishaps>>

\* LdrLoadDll runs DllMain and returns into the page.
DllLoaded ==
    /\ ThreadStep("load")
    /\ RunPage("tail")
    /\ dll' = "loaded" /\ hooks' = TRUE
    /\ UNCHANGED <<busy, mishaps>>

\* There is no such DLL, or DllMain returns FALSE: the DLL is unmapped, the
\* hooks that Initialize has installed by then are not removed.
DllFails ==
    /\ ThreadStep("load")
    /\ RunPage("tail")
    /\ dll' = "failed"
    /\ \/ hooks' = FALSE /\ UNCHANGED mishaps
       \/ hooks' = TRUE /\ mishaps' = mishaps \cup {"hooks left"}
    /\ UNCHANGED busy

\* and dword ptr [eax], 0
Signal ==
    /\ ThreadStep("tail")
    /\ RunPage("leaving")
    /\ busy' = FALSE
    /\ UNCHANGED <<dll, hooks, mishaps>>

\* popfd, popad, ret
Return ==
    /\ ThreadStep("leaving")
    /\ RunPage("game")
    /\ UNCHANGED <<busy, dll, hooks, mishaps>>

\* The game calls a function whose hook jumps into a DLL that is gone.
CallHooked ==
    /\ ThreadStep("game")
    /\ hooks /\ dll = "failed"
    /\ thread' = "down"
    /\ UNCHANGED <<busy, dll, hooks, mishaps>>

Thread == Begin \/ CallLdrLoadDll \/ DllLoaded \/ DllFails \/ Signal \/ Return

Next == Loader \/ Kill \/ Thread \/ CallHooked

\* Both processes are scheduled; LdrLoadDll returns.
Spec == Init /\ [][Next]_vars /\ WF_vars(Loader) /\ WF_vars(Thread)

-----------------------------------------------------------------------------
(***************************************************************************)
(* Properties.                                                             *)
(***************************************************************************)

\* The game runs none of its own code before FVPKernel.dll has been loaded,
\* or has refused, once its thread has been sent through the page; and it
\* starts without only if the injection had failed by then. (Windows runs the
\* TLS callbacks of the game and the DllMains of its static imports before
\* the instruction pointer counts: they are outside the model.)
KernelBeforeGame ==
    thread = "game" =>
       IF eip = "page" THEN dll # "no"
       ELSE pc \in {"free", "resumeGame", "done"}

\* The game goes down only if the loader frees the page too early or a DLL
\* that refused to load has left hooks behind; being killed, or failing at any
\* other call, never brings the game down.
DownOnlyByBlunder == thread = "down" => mishaps \cap Fatal # {}

\* While the thread has still to return through the page, the page is there,
\* unless the loader could not resume the thread, gave up waiting for
\* LdrLoadDll, or did not see the thread leave within the last delay.
PageOutlivesCode ==
    thread \in InPage \cup {"load"} /\ mishaps \cap FreedEarly = {}
       => page = "mapped"

\* An injection of a thread that was not suspended leaks the page only if
\* freeing it fails or the loader is killed.
PageReleased ==
    pc = "done" /\ ~isSuspended /\ page = "mapped"
       => mishaps \cap {"killed", "not freed"} # {}

\* A game that was created gets going, with the DLL or without: no failure
\* of the injection leaves it suspended (VMeCreateProcess ignores them), only
\* the loader's end or a failure of its own NtResumeThread does.
GameStarts ==
    thread = "start" ~>
       \/ thread \in {"game", "down"}
       \/ mishaps \cap {"killed", "not resumed"} # {}
=============================================================================
