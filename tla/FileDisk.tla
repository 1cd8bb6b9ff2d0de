------------------------------ MODULE FileDisk ------------------------------
(***************************************************************************)
(* NtFileDisk (NativeLib/my.h, my.cpp): a file handle with a size and a    *)
(* position the object keeps for itself. Every read and write names its    *)
(* offset, so what the cache says is where bytes go. All opens share for   *)
(* reading only, which is what makes the cache true.                       *)
(*                                                                         *)
(* A file is the sequence of its bytes. Any system call but NtClose may    *)
(* fail; the calls of one method are one step unless they fail half-way,   *)
(* the sharing lets no one change the file between them. Objects made from *)
(* others (the copy constructor, operator=) are left out: they get the     *)
(* handle and neither size nor position.                                   *)
(***************************************************************************)
EXTENDS Integers, Sequences, SequencesExt

CONSTANTS
    Files,      \* the paths
    Objects,    \* the instances of NtFileDisk
    LowRange,   \* 2^32: LowPart is what is left modulo this
    Missing,    \* no such file
    NoFile,     \* m_FileHandle = nullptr
    Bytes,      \* what a file is a sequence of
    Fill        \* the byte that clients write, and of a gap

ASSUME FileDiskAssumption ==
    /\ LowRange \in Nat \ {0}
    /\ NoFile \notin Files
    /\ Fill \in Bytes /\ Missing \notin Seq(Bytes)

VARIABLES
    disk,  \* the content of each file
    obj    \* each object: its handle [file, access], size, pos; and the
           \* history: appending (it writes at its end), stale (an end of
           \* file was left half set)

Closed == [file |-> NoFile, access |-> {}, size |-> 0, pos |-> 0,
           appending |-> FALSE, stale |-> FALSE]

IsOpen(o) == obj[o].file # NoFile
Content(o) == disk[obj[o].file]

(***************************************************************************)
(* Create, and Open, Append, Modify and CreateIfNotExist, which call it.   *)
(***************************************************************************)
\* Mutant: ShareMode allows others to write.
BugSharingAllows(o, f, access) == TRUE

\* ShareMode = FILE_SHARE_READ on both sides: nobody may write to f while
\* another handle is open.
SharingAllows(o, f, access) ==
    \A p \in Objects \ {o} :
        obj[p].file = f => obj[p].access \cup access = {"r"}

\* Nothing asks a closed object for its size or position.
Closing(o) == [obj EXCEPT ![o] = Closed]

SizeOf(content) == IF content = Missing THEN 0 ELSE Len(content)

\* Mutant: the size is queried for the wrong disposition.
BugOpened(o, f, access, how) ==
    [obj EXCEPT ![o] = [Closed EXCEPT
        !.file = f, !.access = access, !.appending = how = "append"]]

\* The size is not asked for if the file has just been emptied.
Opened(o, f, access, how) ==
    LET size == IF how = "overwrite" THEN 0 ELSE SizeOf(disk[f])
    IN  [obj EXCEPT ![o] = [Closed EXCEPT
            !.file = f, !.access = access, !.size = size,
            !.pos = IF how = "append" THEN size ELSE 0,
            !.appending = how = "append"]]

\* What NtCreateFile makes of the content.
DiskOpened(f, how) ==
    [disk EXCEPT ![f] = IF how = "overwrite" \/ @ = Missing THEN <<>> ELSE @]

\* What was open is closed first.
Create(o, f, access, how) ==
    /\ SharingAllows(o, f, access)
    /\ how = "open" => disk[f] # Missing
    /\ obj' = Opened(o, f, access, how)
    /\ disk' = DiskOpened(f, how)

\* NtCreateFile fails, or the size cannot be queried.
CreateFails(o, f, access, how) ==
    \/ /\ obj' = Closing(o)
       /\ UNCHANGED disk
    \/ /\ SharingAllows(o, f, access)
       /\ how # "overwrite"
       /\ how = "open" => disk[f] # Missing
       /\ obj' = Closing(o)
       /\ disk' = DiskOpened(f, how)

(***************************************************************************)
(* Seek, Read, Write, SetEndOfFile, Close.                                 *)
(***************************************************************************)
\* Only the cache moves; beyond the end the cached size moves along.
Seek(o, pos, toEnd) ==
    /\ IsOpen(o)
    /\ obj' = [obj EXCEPT ![o].pos = pos,
                          ![o].size = IF pos > @ THEN pos ELSE @,
                          ![o].appending = toEnd]
    /\ UNCHANGED disk

\* Size 0 stands for the whole file, as far as 32 bits say.
ReadSize(o, size) == IF size = 0 THEN obj[o].size % LowRange ELSE size

\* At the end of the file a read of some bytes is an error.
CanRead(o, size) == ReadSize(o, size) = 0 \/ obj[o].pos < Len(Content(o))

BytesRead(o, size) ==
    SubSeq(Content(o), obj[o].pos + 1,
           LET last == obj[o].pos + ReadSize(o, size)
           IN  IF last > Len(Content(o)) THEN Len(Content(o)) ELSE last)

Read(o, size) ==
    /\ IsOpen(o) /\ "r" \in obj[o].access /\ CanRead(o, size)
    /\ obj' = [obj EXCEPT ![o].pos = @ + Len(BytesRead(o, size)),
                          ![o].appending = FALSE]
    /\ UNCHANGED disk

\* bytes at pos; a gap before them is filled, what follows them is kept.
Overlay(content, pos, bytes) ==
    LET end == pos + Len(bytes)
    IN  [i \in 1 .. (IF end > Len(content) THEN end ELSE Len(content)) |->
            IF i > pos /\ i <= end THEN bytes[i - pos]
            ELSE IF i <= Len(content) THEN content[i] ELSE Fill]

Write(o, bytes) ==
    LET end == obj[o].pos + Len(bytes)
    IN  /\ IsOpen(o) /\ "w" \in obj[o].access
        /\ disk' = [disk EXCEPT ![obj[o].file] =
                        IF bytes = <<>> THEN @
                        ELSE Overlay(@, obj[o].pos, bytes)]
        /\ obj' = [obj EXCEPT ![o].size = IF end > @ THEN end ELSE @,
                              ![o].pos = end]

Cut(o, end) ==
    disk' = [disk EXCEPT ![obj[o].file] =
                IF end > Len(@) THEN Overlay(@, end - 1, <<Fill>>)
                                ELSE SubSeq(@, 1, end)]

\* The end of the file is set, then its allocation; when the second fails
\* the cache keeps the old size. SetEndOfFile() has end = pos.
SetEndOfFile(o, end) ==
    LET pos == IF end < obj[o].pos THEN end ELSE obj[o].pos
    IN  /\ IsOpen(o) /\ "w" \in obj[o].access
        /\ Cut(o, end)
        /\ \/ obj' = [obj EXCEPT ![o].size = end, ![o].pos = pos,
                                 ![o].appending = @ /\ pos = end]
           \/ obj' = [obj EXCEPT ![o].stale = TRUE]

Close(o) ==
    /\ IsOpen(o)
    /\ obj' = Closing(o)
    /\ UNCHANGED disk
=============================================================================
