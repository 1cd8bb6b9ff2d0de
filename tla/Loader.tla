-------------------------------- MODULE Loader --------------------------------
(***************************************************************************)
(* FVPLoaderGui.exe (FVPLoaderGui/FVPLoaderGui.cpp): it starts a game with *)
(* FVPKernel.dll inside and remembers it in FVPLOG.ini, which the next run *)
(* reads back. The user may run several loaders in the directory at once,  *)
(* kill them, and give an executable on the command line or drop one on    *)
(* the window. Every system call may fail.                                 *)
(*                                                                         *)
(* The file is the sequence of the writes that made it: the mark, the      *)
(* length of the path, the path, three flags. A killed loader leaves a     *)
(* prefix. A path is a model value with a length, since ReadLogFile takes  *)
(* its length and its characters from different fields.                    *)
(* Left out: the icon, menu and bitmap of the window, the message boxes,   *)
(* the flags (which nothing ever sets) and a drop of several files, which  *)
(* only opens a message box.                                               *)
(***************************************************************************)
EXTENDS Integers, Sequences, FiniteSets

CONSTANTS
    Loaders,    \* the processes the user may run FVPLoaderGui.exe in
    Exes,       \* the paths a user may choose
    Worlds,     \* the circumstances: which loaders are run, whether system
                \* calls fail and loaders are killed, what is chosen from
    Startable,  \* those of them CreateProcess can start
    LengthOf,   \* wcslen of each
    MaxPath,    \* MAX_PATH
    Mark,       \* LOG_SIG
    OtherMark,  \* the first 16 bytes of a file the loader did not write
    Off,        \* a flag byte, always FALSE
    Absent,     \* there is no FVPLOG.ini
    Torn,       \* a path that is not what any one write put in the file
    Uninit,     \* the path in an ExeFullPath that was never filled
    NoExe       \* no path

Fields == 6
Paths  == Exes \cup {Torn, Uninit, NoExe}
Cells  == {Mark, OtherMark, Off} \cup Exes \cup {LengthOf[e] : e \in Exes}

ASSUME LoaderAssumption ==
    /\ IsFiniteSet(Loaders)
    /\ Startable \subseteq Exes
    /\ LengthOf \in [Exes -> Nat \ {0, MaxPath}]  \* MaxPath itself: README
    /\ MaxPath \in Nat
    /\ Worlds \subseteq [loaders : SUBSET Loaders, faults : BOOLEAN,
                        exes : SUBSET Exes]
    /\ Exes \cap {Torn, Uninit, NoExe} = {}
    /\ Mark # OtherMark
    /\ Absent \notin Seq(Cells)

VARIABLES
    world,      \* the circumstances, which do not change
    file,       \* FVPLOG.ini: Absent or the fields written so far
    open,       \* the access with which each loader has it open
    pc,         \* where each loader is
    arg,        \* Argv[1], NoExe when Argc is not 2
    field,      \* the field ReadLogFile or WriteLogFile is at
    length,     \* Length in ReadLogFile
    path,       \* the path at hand: ExeFullPath, Argv[1] or FilePath
    window,     \* the main window exists
    chosen,     \* history: the paths the user ever chose
    lastPlayed  \* history: the last process started, NoExe from the next
                \* drop of another file on

vars == <<world, file, open, pc, arg, field, length, path, window, chosen,
          lastPlayed>>
Faults  == world.faults
config  == <<file, open>>
history == <<chosen, lastPlayed>>

TypeOK ==
    /\ world \in Worlds
    /\ file = Absent \/ file \in Seq(Cells)
    /\ file # Absent => Len(file) <= Fields
    /\ open \in [Loaders -> {"none", "read", "write"}]
    /\ pc \in [Loaders -> {"off", "open", "reading", "launchConfig",
                           "param", "launchParam", "show", "create",
                           "writing", "loop", "launchDrop", "delete"}]
    /\ arg \in [Loaders -> Exes \cup {NoExe}]
    /\ field \in [Loaders -> 1 .. Fields]
    /\ length \in [Loaders -> 0 .. MaxPath]
    /\ path \in [Loaders -> Paths]
    /\ window \in [Loaders -> BOOLEAN]
    /\ chosen \subseteq Exes
    /\ lastPlayed \in Paths

Init ==
    /\ world \in Worlds
    /\ file \in {Absent, <<OtherMark>>}
    /\ open = [l \in Loaders |-> "none"]
    /\ pc = [l \in Loaders |-> "off"]
    /\ arg = [l \in Loaders |-> NoExe]
    /\ field = [l \in Loaders |-> 1]
    /\ length = [l \in Loaders |-> 0]
    /\ path = [l \in Loaders |-> NoExe]
    /\ window = [l \in Loaders |-> FALSE]
    /\ chosen = {}
    /\ lastPlayed = NoExe

Goto(l, from, to) == pc[l] = from /\ pc' = [pc EXCEPT ![l] = to]

\* NtFileDisk::Open and Create share the file for reading only; the kernel
\* refuses an access that another handle does not share.
MayRead == \A m \in Loaders : open[m] # "write"

\* Mutant: the reader shares the file for writing too.
BugMayWrite == \A m \in Loaders : open[m] # "write"

MayWrite == \A m \in Loaders : open[m] = "none"

\* No handle shares the file for deletion.
MayDelete == \A m \in Loaders : open[m] = "none"

Access(l, how) == open' = [open EXCEPT ![l] = how]

\* The function is left: its locals are gone.
Close(l) ==
    /\ Access(l, "none")
    /\ field' = [field EXCEPT ![l] = 1]
    /\ length' = [length EXCEPT ![l] = 0]

(***************************************************************************)
(* wWinMain up to the configured game.                                     *)
(***************************************************************************)

\* The user runs the loader, with an executable on its command line or not.
Start(l) ==
    /\ Goto(l, "off", "open")
    /\ \E a \in world.exes \cup {NoExe} :
          /\ arg' = [arg EXCEPT ![l] = a]
          /\ chosen' = chosen \cup ({a} \ {NoExe})
    /\ path' = [path EXCEPT ![l] = NoExe]
    /\ window' = [window EXCEPT ![l] = FALSE]
    /\ UNCHANGED <<config, field, length, lastPlayed>>

OpenConfig(l) ==
    /\ Goto(l, "open", "reading")
    /\ file # Absent /\ MayRead
    /\ Access(l, "read")
    /\ field' = [field EXCEPT ![l] = 1]
    /\ UNCHANGED <<file, arg, length, path, window, history>>

NoConfig(l) ==
    /\ Goto(l, "open", "param")
    /\ file = Absent \/ ~MayRead \/ Faults
    /\ UNCHANGED <<config, arg, field, length, path, window, history>>

\* A Read of the next field, whose result becomes(field) deals with.
ReadField(l, k) ==
    /\ pc[l] = "reading" /\ field[l] = k
    /\ Len(file) >= k
    /\ UNCHANGED <<file, arg, window, history>>

NextField(l, k) == field' = [field EXCEPT ![l] = k + 1] /\ UNCHANGED open

ReadMark(l) ==
    /\ ReadField(l, 1)
    /\ file[1] = Mark
    /\ NextField(l, 1)
    /\ UNCHANGED <<pc, length, path>>

\* Not the loader's file: the loop is left with Status still STATUS_SUCCESS,
\* and ExeFullPath, an uninitialised array, is taken for the path.
WrongMark(l) ==
    /\ ReadField(l, 1)
    /\ file[1] # Mark
    /\ Goto(l, "reading", "launchConfig")
    /\ path' = [path EXCEPT ![l] = Uninit]
    /\ Close(l)

ReadLength(l) ==
    /\ ReadField(l, 2)
    /\ file[2] <= MaxPath
    /\ length' = [length EXCEPT ![l] = file[2]]
    /\ NextField(l, 2)
    /\ UNCHANGED <<pc, path>>

LongPath(l) ==
    /\ ReadField(l, 2)
    /\ file[2] > MaxPath
    /\ Goto(l, "reading", "param")
    /\ Close(l)
    /\ UNCHANGED path

\* Length characters: a part of the path, or the path and what follows it,
\* when Length is that of another.
ReadPath(l) ==
    /\ ReadField(l, 3)
    /\ path' = [path EXCEPT ![l] =
                   IF length[l] = LengthOf[file[3]] THEN file[3] ELSE Torn]
    /\ NextField(l, 3)
    /\ UNCHANGED <<pc, length>>

ReadFlag(l) ==
    /\ \E k \in 4 .. Fields - 1 : ReadField(l, k) /\ NextField(l, k)
    /\ UNCHANGED <<pc, length, path>>

ReadLastFlag(l) ==
    /\ ReadField(l, Fields)
    /\ Goto(l, "reading", "launchConfig")
    /\ Close(l)
    /\ UNCHANGED path

\* Mutant: a return from the loop instead of a break.
BugReadFails(l) ==
    /\ Goto(l, "reading", "param")
    /\ Len(file) < field[l] \/ Faults
    /\ UNCHANGED <<config, arg, field, length, path, window, history>>

\* The file ends before the field (STATUS_END_OF_FILE), or Read or Seek fail.
ReadFails(l) ==
    /\ Goto(l, "reading", "param")
    /\ Len(file) < field[l] \/ Faults
    /\ Close(l)
    /\ UNCHANGED <<file, arg, path, window, history>>

(***************************************************************************)
(* Starting a process. VMeCreateProcess returns TRUE whether or not the    *)
(* injection of FVPKernel.dll succeeded.                                   *)
(***************************************************************************)
Launch(l) ==
    /\ path[l] \in Startable \cup {Torn, Uninit}
    /\ lastPlayed' = path[l]

LaunchFails(l) ==
    /\ path[l] \notin Startable \/ Faults
    /\ UNCHANGED lastPlayed

LaunchConfig(l) ==
    /\ \/ Launch(l) /\ Goto(l, "launchConfig", "off")
       \/ LaunchFails(l) /\ Goto(l, "launchConfig", "param")
    /\ UNCHANGED <<config, arg, field, length, path, window, chosen>>

\* Only now is the command line looked at.
UseParam(l) ==
    /\ arg[l] # NoExe
    /\ Goto(l, "param", "launchParam")
    /\ path' = [path EXCEPT ![l] = arg[l]]
    /\ UNCHANGED <<config, arg, field, length, window, history>>

LaunchParam(l) ==
    /\ \/ Launch(l) /\ Goto(l, "launchParam", "create")
       \/ LaunchFails(l) /\ Goto(l, "launchParam", "show")
    /\ UNCHANGED <<config, arg, field, length, path, window, chosen>>

NoParam(l) ==
    /\ arg[l] = NoExe
    /\ Goto(l, "param", "show")
    /\ UNCHANGED <<config, arg, field, length, path, window, history>>

\* InitInstance, which may fail.
ShowWindow(l) ==
    /\ \/ Goto(l, "show", "loop") /\ window' = [window EXCEPT ![l] = TRUE]
       \/ Faults /\ Goto(l, "show", "off") /\ UNCHANGED window
    /\ path' = [path EXCEPT ![l] = NoExe]
    /\ UNCHANGED <<config, arg, field, length, history>>

(***************************************************************************)
(* WriteLogFile, called after LaunchParam and before LaunchDrop.           *)
(***************************************************************************)
AfterWrite(l) == IF window[l] THEN "launchDrop" ELSE "off"

\* FILE_OVERWRITE_IF empties the file.
Create(l) ==
    /\ Goto(l, "create", "writing")
    /\ MayWrite
    /\ file' = <<>>
    /\ Access(l, "write")
    /\ field' = [field EXCEPT ![l] = 1]
    /\ UNCHANGED <<arg, length, path, window, history>>

CreateFails(l) ==
    /\ Goto(l, "create", AfterWrite(l))
    /\ ~MayWrite \/ Faults
    /\ UNCHANGED <<config, arg, field, length, path, window, history>>

Written(l) == <<Mark, LengthOf[path[l]], path[l], Off, Off, Off>>

Write(l) ==
    /\ pc[l] = "writing"
    /\ file' = Append(file, Written(l)[field[l]])
    /\ \/ /\ field[l] < Fields
          /\ NextField(l, field[l])
          /\ UNCHANGED <<pc, length>>
       \/ /\ field[l] = Fields
          /\ Goto(l, "writing", AfterWrite(l))
          /\ Close(l)
    /\ UNCHANGED <<arg, path, window, history>>

\* A failed write ends WriteLogFile, except that of bMessage, whose status
\* is dropped: bFont is then written in its place.
WriteFails(l) ==
    /\ pc[l] = "writing" /\ Faults
    /\ \/ field[l] = 5 /\ NextField(l, 5) /\ UNCHANGED <<pc, length>>
       \/ /\ field[l] # 5
          /\ Goto(l, "writing", AfterWrite(l))
          /\ Close(l)
    /\ UNCHANGED <<file, arg, path, window, history>>

(***************************************************************************)
(* The window.                                                             *)
(***************************************************************************)

\* WM_DROPFILES with one file, of a path that fits FilePath[MAX_PATH]. After
\* PostQuitMessage the loop may still be given one.
Drop(l) ==
    /\ Goto(l, "loop", "create")
    /\ \E e \in world.exes :
          /\ LengthOf[e] < MaxPath
          /\ path' = [path EXCEPT ![l] = e]
          /\ chosen' = chosen \cup {e}
    /\ lastPlayed' = NoExe
    /\ UNCHANGED <<config, arg, field, length, window>>

\* Mutant: the file is deleted whether the game started or not.
BugLaunchDrop(l) ==
    /\ Launch(l) \/ LaunchFails(l)
    /\ Goto(l, "launchDrop", "delete")
    /\ UNCHANGED <<config, arg, field, length, path, window, chosen>>

LaunchDrop(l) ==
    /\ \/ Launch(l) /\ Goto(l, "launchDrop", "loop")
       \/ LaunchFails(l) /\ Goto(l, "launchDrop", "delete")
    /\ UNCHANGED <<config, arg, field, length, path, window, chosen>>

\* Mutant: a failed start leaves the file.
BugDelete(l) ==
    /\ Goto(l, "delete", "loop")
    /\ UNCHANGED <<config, arg, field, length, path, window, history>>

\* Io::DeleteFile, refused while another loader has the file open.
Delete(l) ==
    /\ Goto(l, "delete", "loop")
    /\ \/ MayDelete /\ file' = Absent
       \/ (~MayDelete \/ file = Absent \/ Faults) /\ UNCHANGED file
    /\ UNCHANGED <<open, arg, field, length, path, window, history>>

\* PostQuitMessage after a start, or the user closes the window.
Quit(l) ==
    /\ Goto(l, "loop", "off")
    /\ UNCHANGED <<config, arg, field, length, path, window, history>>

\* The process dies; the kernel closes its handles.
Kill(l) ==
    /\ Faults
    /\ pc[l] # "off"
    /\ pc' = [pc EXCEPT ![l] = "off"]
    /\ Close(l)
    /\ UNCHANGED <<file, arg, path, window, history>>

Step(l) ==
    \/ Start(l)        \/ OpenConfig(l)  \/ NoConfig(l)    \/ ReadMark(l)
    \/ WrongMark(l)    \/ ReadLength(l)  \/ LongPath(l)    \/ ReadPath(l)
    \/ ReadFlag(l)     \/ ReadLastFlag(l) \/ ReadFails(l)
    \/ LaunchConfig(l) \/ UseParam(l)    \/ LaunchParam(l) \/ NoParam(l)
    \/ ShowWindow(l)
    \/ Create(l)       \/ CreateFails(l) \/ Write(l)       \/ WriteFails(l)
    \/ Drop(l)         \/ LaunchDrop(l)  \/ Delete(l)      \/ Quit(l)
    \/ Kill(l)

Next == (\E l \in world.loaders : Step(l)) /\ UNCHANGED world

Spec == Init /\ [][Next]_vars

-----------------------------------------------------------------------------
(***************************************************************************)
(* Properties.                                                             *)
(***************************************************************************)

\* What the next run of the loader will read from the file.
Remembered ==
    IF /\ file # Absent
       /\ Len(file) = Fields
       /\ file[2] <= MaxPath
    THEN file[3] ELSE NoExe

\* Whatever writes and deletions interleave, fail or are cut short by a kill,
\* a program that starts is one the user chose; but for a FVPLOG.ini of
\* foreign origin, whose "path" is uninitialised memory (ReadLogFile).
OnlyChosenLaunched == lastPlayed \in chosen \cup {Uninit, NoExe}

\* No path through ReadLogFile or WriteLogFile leaves FVPLOG.ini open, which
\* would keep every loader from writing it.
FileClosed ==
    \A l \in Loaders : open[l] # "none" => pc[l] \in {"reading", "writing"}

Idle == \A l \in Loaders : pc[l] \in {"off", "loop"}

\* One loader at a time, and no system call fails.
Quiet == ~Faults /\ Cardinality(world.loaders) = 1

\* A dropped game that could not be started is not left to be tried by every
\* later run (WM_DROPFILES). (Of one loader: another may be writing.)
FailedGameForgotten ==
    \A l \in Loaders :
       Quiet /\ Idle /\ pc[l] = "loop" /\ path[l] \in Exes \ Startable
          => Remembered # path[l]

\* src/README.md:9: the loader "will create a configuration file
\* automatically. Next time you play game, just double click": between runs
\* the file names the game last played, if ReadLogFile takes its length.
NextTimeSameGame ==
    Quiet /\ Idle /\ lastPlayed \in Exes /\ LengthOf[lastPlayed] < MaxPath
       => Remembered = lastPlayed

\* src/README.md:8: "or just drag game executable file onto
\* FVPLoaderGui.exe": a run with a game on its command line starts no other.
DraggedGameRuns ==
    [][\A l \in Loaders :
          /\ arg[l] # NoExe
          /\ pc[l] \in {"launchConfig", "launchParam"}
          /\ Launch(l)
          => path[l] \in {arg[l], Uninit}]_vars
=============================================================================
