------------------------------ MODULE FileCopy ------------------------------
(***************************************************************************)
(* Io::CopyFile (NativeLib/my.cpp) over two NtFileDisk objects of its own, *)
(* while other objects of the program open, append to, cut and overwrite   *)
(* the same files.                                                         *)
(***************************************************************************)
EXTENDS FileDisk

CONSTANTS
    Source, Destination,  \* SourceFile, DestinationFile
    BufferSize,           \* 0x1000
    Calls,                \* the arguments CopyFile may be given
    Contents,             \* what each file may hold at first
    ClientMax             \* bound: clients write below it, in files up to it

Clients == Objects \ {Source, Destination}

ASSUME FileCopyAssumption ==
    /\ {Source, Destination} \subseteq Objects /\ Source # Destination
    /\ Calls \subseteq [from : Files, to : Files, failIfExists : BOOLEAN]
    /\ BufferSize \in 1 .. LowRange - 1
    /\ Contents \subseteq Seq(Bytes) \cup {Missing}
    /\ ClientMax \in Nat

VARIABLES
    pc,      \* where CopyFile is
    args,    \* ExistingFileName, NewFileName, FailIfExists
    left,    \* FileSize, what is left to copy
    buffer   \* what was read

vars == <<disk, obj, pc, args, left, buffer>>

Init ==
    /\ disk \in [Files -> Contents]
    /\ obj = [o \in Objects |-> Closed]
    /\ pc = "start"
    /\ args \in Calls
    /\ left = 0
    /\ buffer = <<>>

Goto(from, to) == pc = from /\ pc' = to

(***************************************************************************)
(* CopyFile.                                                               *)
(***************************************************************************)
\* IsPathExists; a query that fails counts as "no".
CopyRefused ==
    /\ args.failIfExists /\ disk[args.to] # Missing
    /\ Goto("start", "over")
    /\ UNCHANGED <<disk, obj, args, left, buffer>>

CopyStart ==
    /\ Goto("start", "open")
    /\ UNCHANGED <<disk, obj, args, left, buffer>>

CopyOpen ==
    /\ Goto("open", "create")
    /\ Create(Source, args.from, {"r"}, "open")
    /\ UNCHANGED <<args, left, buffer>>

CopyCreate ==
    /\ Goto("create", "info")
    /\ Create(Destination, args.to, {"w"}, "overwrite")
    /\ UNCHANGED <<args, left, buffer>>

\* Open and Create fail; there is nothing to delete yet.
CopyOpenFails ==
    /\ pc \in {"open", "create"}
    /\ pc' = "refused"
    /\ UNCHANGED <<disk, obj, args, left, buffer>>

\* The basic information is queried and set; FileSize is the cached size.
CopyInfo ==
    /\ Goto("info", "loop")
    /\ left' = obj[Source].size
    /\ UNCHANGED <<disk, obj, args, buffer>>

\* DestinationFile.Delete() is called but has no effect: the handle was
\* opened with GENERIC_WRITE, which does not include DELETE.
CopyInfoFails ==
    /\ Goto("info", "failed")
    /\ UNCHANGED <<disk, obj, args, left, buffer>>

LowPart == left % LowRange
Chunk   == IF LowPart < BufferSize THEN LowPart ELSE BufferSize

CopyRead ==
    /\ left # 0
    /\ Goto("loop", "write")
    /\ Len(BytesRead(Source, Chunk)) <= BufferSize
    /\ Read(Source, Chunk)
    /\ buffer' = BytesRead(Source, Chunk)
    /\ UNCHANGED <<args, left>>

\* More is read than Buffer holds: undefined from here.
CopyOverrun ==
    /\ left # 0
    /\ Goto("loop", "overrun")
    /\ CanRead(Source, Chunk) /\ Len(BytesRead(Source, Chunk)) > BufferSize
    /\ UNCHANGED <<disk, obj, args, left, buffer>>

\* Mutant: after a failed read the copy starts over.
BugCopyReadFails ==
    /\ left # 0
    /\ Goto("loop", "info")
    /\ UNCHANGED <<disk, obj, args, left, buffer>>

CopyReadFails ==
    /\ left # 0
    /\ Goto("loop", "failed")
    /\ UNCHANGED <<disk, obj, args, left, buffer>>

CopyWrite ==
    /\ Goto("write", "loop")
    /\ Write(Destination, buffer)
    /\ left' = left - Len(buffer)
    /\ UNCHANGED <<args, buffer>>

CopyWriteFails ==
    /\ Goto("write", "failed")
    /\ UNCHANGED <<disk, obj, args, left, buffer>>

CopyDone ==
    /\ left = 0
    /\ Goto("loop", "done")
    /\ UNCHANGED <<disk, obj, args, left, buffer>>

\* The destructors.
CopyReturn ==
    /\ pc \in {"refused", "failed", "done"}
    /\ pc' = "over"
    /\ obj' = [o \in Objects |-> IF o \in {Source, Destination}
                                 THEN Closing(o)[o] ELSE obj[o]]
    /\ UNCHANGED <<disk, args, left, buffer>>

Copy ==
    \/ CopyRefused \/ CopyStart \/ CopyOpen \/ CopyCreate \/ CopyOpenFails
    \/ CopyInfo \/ CopyInfoFails \/ CopyRead \/ CopyOverrun \/ CopyReadFails
    \/ CopyWrite \/ CopyWriteFails \/ CopyDone \/ CopyReturn

(***************************************************************************)
(* Other objects. A call that fails and changes nothing is no step.        *)
(***************************************************************************)
ClientOpen ==
    \E o \in Clients, f \in Files :
        \/ Create(o, f, {"r"}, "open")
        \/ Create(o, f, {"r", "w"}, "append")
        \/ Create(o, f, {"w"}, "overwrite")

ClientOpenFails ==
    \E o \in Clients, f \in Files, how \in {"open", "append", "overwrite"} :
        CreateFails(o, f, IF how = "open" THEN {"r"} ELSE {"r", "w"}, how)

\* An object that SetEndOfFile left stale is closed next.
ClientUse ==
    \E o \in Clients :
        \/ Close(o)
        \/ /\ IsOpen(o) /\ ~obj[o].stale
           /\ \/ Seek(o, 0, FALSE)
              \/ Seek(o, obj[o].size, TRUE)
              \/ obj[o].size < ClientMax /\ Seek(o, obj[o].size + 1, FALSE)
              \/ Read(o, 1)
              \/ obj[o].pos < ClientMax /\ Len(Content(o)) <= ClientMax
                 /\ Write(o, <<Fill>>)
              \/ SetEndOfFile(o, obj[o].pos)
              \/ SetEndOfFile(o, 0)
              \/ obj[o].size < ClientMax /\ SetEndOfFile(o, obj[o].size + 1)

Client ==
    /\ ClientOpen \/ ClientOpenFails \/ ClientUse
    /\ UNCHANGED <<pc, args, left, buffer>>

Next == Copy \/ Client

\* CopyFile is a call of one thread, which goes on.
Spec == Init /\ [][Next]_vars /\ WF_vars(Copy)

-----------------------------------------------------------------------------
(***************************************************************************)
(* Properties.                                                             *)
(***************************************************************************)
\* Appending adds: what is written after Append or a Seek to the end leaves
\* the bytes of the file as they are, whatever other objects do meanwhile,
\* since nobody can make the file longer than the cached size. An object
\* that failed half-way through SetEndOfFile is left out: it may have made
\* the file longer itself.
AppendingAdds ==
    [][\A o \in Objects :
          (/\ obj[o].appending /\ ~obj[o].stale
           /\ obj'[o].pos > obj[o].pos
           /\ obj[o].file # NoFile)
          => IsPrefix(Content(o), disk'[obj[o].file])]_vars

\* A copy that succeeds is exact: while both files are still open the target
\* equals the source. One that fails leaves a target cut short, which the
\* call of Delete does not remove; the source keeps its bytes, also if it is
\* the target. Buffer overruns only for sizes of 2^32 or more.
CopyOutcome ==
    /\ pc = "done" => disk[args.to] = disk[args.from]
    /\ pc = "failed" =>
          /\ IsPrefix(disk[args.to], disk[args.from])
          /\ args.from # args.to
    /\ pc = "overrun" => Len(disk[args.from]) >= LowRange

\* A copy comes to an end, whatever fails, but for sizes that are a multiple
\* of 2^32 and not 0: there LowPart is 0, a read of 0 bytes reads nothing,
\* and the loop goes round for ever.
CopyEnds ==
    <>(\/ pc \in {"over", "overrun"}
       \/ left # 0 /\ obj[Source].size % LowRange = 0)
=============================================================================
