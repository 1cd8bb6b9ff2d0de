--------------------------- MODULE FileCopyProofs ---------------------------
(***************************************************************************)
(* Proofs about FileDisk and FileCopy for files of every size, any buffer, *)
(* and any number of other objects. First what each operation of           *)
(* NtFileDisk does to the bytes and the cache: an operation of one object  *)
(* leaves the files that others have open alone (Others), and its own      *)
(* cached size and position stay those of the file (Own), so that what it  *)
(* appends is added (Adds). Then CopyFile: it keeps its source open for    *)
(* reading and its target for writing, so nobody else changes either; what *)
(* is in the target is what was read so far.                               *)
(***************************************************************************)
EXTENDS FileCopy, SequenceTheorems, TLAPS

Text == Seq(Bytes)

FileObject ==
    [file : Files \cup {NoFile}, access : SUBSET {"r", "w"}, size : Nat,
     pos : Nat, appending : BOOLEAN, stale : BOOLEAN]

DiskType ==
    /\ disk \in [Files -> Text \cup {Missing}]
    /\ obj \in [Objects -> FileObject]

\* An open object's file exists and is not longer than the cached size; who
\* appends writes at its end or behind it.
Own(o) ==
    IsOpen(o) =>
        /\ Content(o) \in Text
        /\ ~obj[o].stale => Len(Content(o)) <= obj[o].size
        /\ ~obj[o].stale /\ obj[o].appending => Len(Content(o)) <= obj[o].pos

\* An object that may write has the file to itself.
Sharing ==
    \A o, p \in Objects :
        o # p /\ IsOpen(o) /\ obj[o].file = obj[p].file
        => "w" \notin obj[o].access

DiskInv ==
    /\ DiskType
    /\ \A o \in Objects : Own(o)
    /\ Sharing

-----------------------------------------------------------------------------
(* Steps of one object o.                                                  *)
Others(o) ==
    \A p \in Objects \ {o} :
        /\ obj'[p] = obj[p]
        /\ IsOpen(p) => disk'[obj[p].file] = disk[obj[p].file]

Adds(o) ==
    (/\ obj[o].appending /\ ~obj[o].stale
     /\ obj'[o].pos > obj[o].pos
     /\ obj[o].file # NoFile)
    => IsPrefix(Content(o), disk'[obj[o].file])

Keeps(o) == DiskInv' /\ Others(o) /\ Adds(o)

\* What o has open after the step may be shared as it is.
FitsIn(o) ==
    \/ obj'[o].file = NoFile
    \/ obj'[o].file = obj[o].file /\ obj'[o].access = obj[o].access
    \/ SharingAllows(o, obj'[o].file, obj'[o].access)

LEMMA Frame ==
    ASSUME DiskInv, NEW o \in Objects,
           DiskType', Own(o)', Others(o), FitsIn(o)
    PROVE  DiskInv'
<1>1. ASSUME NEW p \in Objects
      PROVE  Own(p)'
    <2>1. CASE p = o
        BY <2>1
    <2>2. CASE p # o
        BY <2>2 DEF DiskInv, Own, Others, IsOpen, Content
    <2> QED  BY <2>1, <2>2
<1>2. Sharing'
    <2> SUFFICES ASSUME NEW p \in Objects, NEW q \in Objects, p # q,
                        obj'[p].file # NoFile, obj'[p].file = obj'[q].file
                 PROVE  "w" \notin obj'[p].access
        BY DEF Sharing, IsOpen
    <2>1. CASE p # o /\ q # o
        BY <2>1 DEF DiskInv, Sharing, IsOpen, Others
    <2>2. CASE p = o \/ q = o
        <3>1. PICK r \in Objects \ {o} : {p, q} = {o, r}
            BY <2>2
        <3>2. obj'[r] = obj[r] /\ obj[r].file # NoFile
              /\ obj'[o].file = obj[r].file
            BY <3>1 DEF Others
        <3>3. CASE obj'[o].file = obj[o].file
                   /\ obj'[o].access = obj[o].access
            BY <3>1, <3>2, <3>3 DEF DiskInv, Sharing, IsOpen
        <3>4. CASE SharingAllows(o, obj'[o].file, obj'[o].access)
            <4>1. obj[r].access \cup obj'[o].access = {"r"}
                BY <3>2, <3>4 DEF SharingAllows
            <4>2. "w" \notin obj'[r].access /\ "w" \notin obj'[o].access
                BY <3>2, <4>1
            <4> QED  BY <3>1, <4>2
        <3> QED  BY <3>2, <3>3, <3>4 DEF FitsIn
    <2> QED  BY <2>1, <2>2
<1> QED  BY <1>1, <1>2 DEF DiskInv

\* Nobody else has the file of a writer open.
LEMMA WriterAlone ==
    ASSUME DiskInv, NEW o \in Objects, "w" \in obj[o].access, IsOpen(o),
           NEW p \in Objects \ {o}
    PROVE  obj[p].file # obj[o].file
    BY DEF DiskInv, Sharing

-----------------------------------------------------------------------------
(* Sequences.                                                              *)
LEMMA PrefixIs ==
    ASSUME NEW s \in Text, NEW t \in Text, Len(s) <= Len(t),
           \A i \in 1 .. Len(s) : s[i] = t[i]
    PROVE  IsPrefix(s, t)
<1>1. Len(s) \in Nat /\ Len(t) \in Nat
    BY LenProperties DEF Text
<1>2. \A i \in 1 .. Len(s) : s[i] \in Bytes /\ t[i] \in Bytes
    BY <1>1, ElementOfSeq DEF Text
<1>3. /\ SubSeq(s, 1, Len(s)) = s
      /\ SubSeq(t, 1, Len(s)) \in Text
      /\ Len(SubSeq(t, 1, Len(s))) = Len(s)
      /\ \A i \in 1 .. Len(s) : SubSeq(t, 1, Len(s))[i] = t[i]
    <2>1. SubSeq(s, 1, Len(s)) = s
        BY SubSeqFull DEF Text
    <2>2. /\ SubSeq(t, 1, Len(s)) \in Text
          /\ Len(SubSeq(t, 1, Len(s)))
                = IF 1 <= Len(s) THEN Len(s) - 1 + 1 ELSE 0
          /\ \A i \in 1 .. Len(s) - 1 + 1 :
                SubSeq(t, 1, Len(s))[i] = t[1 + i - 1]
        BY <1>1, <1>2, SubSeqProperties DEF Text
    <2> QED  BY <1>1, <2>1, <2>2
<1>4. SubSeq(t, 1, Len(s)) = s
    BY <1>3, SeqEqual DEF Text
<1> QED  BY <1>3, <1>4 DEF IsPrefix

\* A write keeps every byte it does not reach.
LEMMA OverlayIs ==
    ASSUME NEW c \in Text, NEW n \in Nat, NEW b \in Text
    PROVE  /\ Overlay(c, n, b) \in Text
           /\ Len(Overlay(c, n, b)) =
                 IF n + Len(b) > Len(c) THEN n + Len(b) ELSE Len(c)
           /\ \A i \in 1 .. Len(Overlay(c, n, b)) :
                 Overlay(c, n, b)[i] =
                    IF i > n /\ i <= n + Len(b) THEN b[i - n]
                    ELSE IF i <= Len(c) THEN c[i] ELSE Fill
<1> DEFINE end == n + Len(b)
           len == IF end > Len(c) THEN end ELSE Len(c)
           E(i) == IF i > n /\ i <= end THEN b[i - n]
                   ELSE IF i <= Len(c) THEN c[i] ELSE Fill
<1>1. Len(c) \in Nat /\ Len(b) \in Nat /\ len \in Nat
    BY LenProperties DEF Text
<1>2. ASSUME NEW i \in 1 .. len
      PROVE  E(i) \in Bytes
    <2>1. CASE i > n /\ i <= end
        <3>1. i - n \in 1 .. Len(b)
            BY <1>1, <2>1
        <3>2. b[i - n] \in Bytes
            BY <3>1, ElementOfSeq DEF Text
        <3> QED  BY <2>1, <3>2
    <2>2. CASE ~(i > n /\ i <= end) /\ i <= Len(c)
        <3>1. i \in 1 .. Len(c)
            BY <1>1, <2>2
        <3>2. c[i] \in Bytes
            BY <3>1, ElementOfSeq DEF Text
        <3> QED  BY <2>2, <3>2
    <2>3. CASE ~(i > n /\ i <= end) /\ ~(i <= Len(c))
        BY <2>3, FileDiskAssumption
    <2> QED  BY <2>1, <2>2, <2>3
<1>3. Overlay(c, n, b) = [i \in 1 .. len |-> E(i)]
    BY DEF Overlay
<1> HIDE DEF E, len
<1>4. [i \in 1 .. len |-> E(i)] \in [1 .. len -> Bytes]
    BY <1>2
<1>5. [i \in 1 .. len |-> E(i)] \in Seq(Bytes)
      /\ Len([i \in 1 .. len |-> E(i)]) = len
    BY <1>1, <1>4
<1> QED  BY <1>3, <1>5 DEF E, len, Text

LEMMA OverlayAdds ==
    ASSUME NEW c \in Text, NEW n \in Nat, NEW b \in Text, Len(c) <= n
    PROVE  IsPrefix(c, Overlay(c, n, b))
<1>1. Len(c) \in Nat /\ Len(b) \in Nat
    BY LenProperties DEF Text
<1>2. /\ Overlay(c, n, b) \in Text
      /\ Len(c) <= Len(Overlay(c, n, b))
      /\ \A i \in 1 .. Len(c) : Overlay(c, n, b)[i] = c[i]
    BY <1>1, OverlayIs
<1> QED  BY <1>2, PrefixIs

\* At the end a write appends.
LEMMA OverlayAtEnd ==
    ASSUME NEW c \in Text, NEW b \in Text
    PROVE  Overlay(c, Len(c), b) = c \o b
<1>1. Len(c) \in Nat /\ Len(b) \in Nat
    BY LenProperties DEF Text
<1>2. /\ Overlay(c, Len(c), b) \in Text
      /\ Len(Overlay(c, Len(c), b)) = Len(c) + Len(b)
      /\ \A i \in 1 .. Len(c) + Len(b) : Overlay(c, Len(c), b)[i] =
            IF i <= Len(c) THEN c[i] ELSE b[i - Len(c)]
    BY <1>1, OverlayIs
<1>3. /\ c \o b \in Text
      /\ Len(c \o b) = Len(c) + Len(b)
      /\ \A i \in 1 .. Len(c) + Len(b) :
            (c \o b)[i] = IF i <= Len(c) THEN c[i] ELSE b[i - Len(c)]
    BY ConcatProperties DEF Text
<1> QED  BY <1>2, <1>3, SeqEqual DEF Text

LEMMA ReadSizeIs ==
    ASSUME DiskInv, NEW o \in Objects, NEW n \in Nat
    PROVE  ReadSize(o, n) \in Nat
<1>1. obj[o].size \in Nat /\ LowRange \in Nat \ {0}
    BY FileDiskAssumption DEF DiskInv, DiskType, FileObject
<1>2. obj[o].size % LowRange \in Nat
    BY <1>1
<1> QED  BY <1>2 DEF ReadSize

\* A read answers what follows the position, up to the end of the file.
LEMMA BytesReadIs ==
    ASSUME DiskInv, NEW o \in Objects, IsOpen(o), NEW n \in Nat
    PROVE  /\ BytesRead(o, n) \in Text
           /\ Len(BytesRead(o, n)) \in Nat
           /\ Len(BytesRead(o, n)) <= ReadSize(o, n)
           /\ obj[o].pos <= Len(Content(o)) =>
                 /\ obj[o].pos + Len(BytesRead(o, n)) <= Len(Content(o))
                 /\ BytesRead(o, n) =
                       SubSeq(Content(o), obj[o].pos + 1,
                              obj[o].pos + Len(BytesRead(o, n)))
<1> DEFINE c == Content(o)
           k == obj[o].pos
           end == k + ReadSize(o, n)
           last == IF end > Len(c) THEN Len(c) ELSE end
<1>1. c \in Text /\ k \in Nat
    BY DEF DiskInv, Own, DiskType, FileObject
<1>2. Len(c) \in Nat
    BY <1>1, LenProperties DEF Text
<1>3. ReadSize(o, n) \in Nat
    BY ReadSizeIs
<1>4. BytesRead(o, n) = SubSeq(c, k + 1, last)
    BY DEF BytesRead
<1> HIDE DEF c, k
<1>5. last \in Nat /\ last <= Len(c)
    BY <1>1, <1>2, <1>3
<1>6. \A i \in k + 1 .. last : c[i] \in Bytes
    BY <1>1, <1>2, <1>5, ElementOfSeq DEF Text
<1>7. /\ SubSeq(c, k + 1, last) \in Text
      /\ Len(SubSeq(c, k + 1, last)) =
            IF k + 1 <= last THEN last - (k + 1) + 1 ELSE 0
    BY <1>1, <1>5, <1>6, SubSeqProperties DEF Text
<1>8. /\ Len(BytesRead(o, n)) \in Nat
      /\ Len(BytesRead(o, n)) <= ReadSize(o, n)
    BY <1>1, <1>2, <1>3, <1>4, <1>5, <1>7
<1>9. ASSUME k <= Len(c)
      PROVE  last = k + Len(BytesRead(o, n))
    <2>1. k <= last
        BY <1>1, <1>2, <1>3, <1>9
    <2>2. Len(BytesRead(o, n)) = IF k + 1 <= last THEN last - (k + 1) + 1
                                                  ELSE 0
        BY <1>4, <1>7
    <2> HIDE DEF last
    <2> QED  BY <1>1, <1>5, <2>1, <2>2
<1> QED  BY <1>4, <1>5, <1>7, <1>8, <1>9 DEF c, k

-----------------------------------------------------------------------------
(* The operations.                                                         *)
LEMMA ClosedIs ==
    /\ Closed \in FileObject /\ Closed.file = NoFile /\ Closed.pos = 0
    BY DEF Closed, FileObject

LEMMA CloseKeeps ==
    ASSUME DiskInv, NEW o \in Objects, obj' = Closing(o), UNCHANGED disk
    PROVE  Keeps(o)
<1>1. obj' = [obj EXCEPT ![o] = Closed]
    BY DEF Closing
<1>2. DiskType'
    BY <1>1, ClosedIs DEF DiskInv, DiskType
<1>3. obj'[o] = Closed
    BY <1>1 DEF DiskInv, DiskType
<1>4. Own(o)' /\ FitsIn(o)
    BY <1>3, ClosedIs DEF Own, IsOpen, FitsIn
<1>5. Others(o)
    BY <1>1 DEF Others, DiskInv, DiskType
<1>6. Adds(o)
    BY <1>3, ClosedIs DEF Adds, DiskInv, DiskType, FileObject
<1> QED  BY <1>2, <1>4, <1>5, <1>6, Frame DEF Keeps

\* Opening empties or creates files that nobody else has open.
LEMMA DiskOpenedIs ==
    ASSUME DiskInv, NEW o \in Objects, NEW f \in Files, NEW access, NEW how,
           SharingAllows(o, f, access), disk' = DiskOpened(f, how),
           how = "overwrite" => "w" \in access
    PROVE  /\ disk' \in [Files -> Text \cup {Missing}]
           /\ disk'[f] \in Text
           /\ how = "overwrite" => disk'[f] = <<>>
           /\ how # "overwrite" => Len(disk'[f]) = SizeOf(disk[f])
           /\ \A g \in Files : disk[g] \in Text /\ how # "overwrite"
                               => disk'[g] = disk[g]
           /\ \A p \in Objects \ {o} :
                 IsOpen(p) => disk'[obj[p].file] = disk[obj[p].file]
<1>1. disk' = [disk EXCEPT ![f] =
                  IF how = "overwrite" \/ disk[f] = Missing THEN <<>>
                  ELSE disk[f]]
    BY DEF DiskOpened
<1>2. disk \in [Files -> Text \cup {Missing}]
    BY DEF DiskInv, DiskType
<1>3. <<>> \in Text /\ Len(<<>>) = 0 /\ Missing \notin Text
    BY EmptySeq, FileDiskAssumption DEF Text
<1>4. /\ disk' \in [Files -> Text \cup {Missing}]
      /\ disk'[f] \in Text
      /\ how = "overwrite" => disk'[f] = <<>>
      /\ how # "overwrite" => Len(disk'[f]) = SizeOf(disk[f])
    BY <1>1, <1>2, <1>3 DEF SizeOf
<1>5. \A g \in Files : disk[g] \in Text /\ how # "overwrite"
                       => disk'[g] = disk[g]
    BY <1>1, <1>2, <1>3
<1>6. ASSUME NEW p \in Objects \ {o}, IsOpen(p)
      PROVE  disk'[obj[p].file] = disk[obj[p].file]
    <2>1. disk[obj[p].file] \in Text /\ obj[p].file \in Files
        BY <1>6 DEF DiskInv, Own, Content, DiskType, FileObject, IsOpen
    <2>2. CASE obj[p].file # f
        BY <1>1, <1>2, <2>1, <2>2
    <2>3. CASE obj[p].file = f
        <3>1. how # "overwrite"
            BY <2>3 DEF SharingAllows
        <3> QED  BY <1>5, <2>1, <3>1
    <2> QED  BY <2>2, <2>3
<1> QED  BY <1>4, <1>5, <1>6

LEMMA CreateKeeps ==
    ASSUME DiskInv, NEW o \in Objects, NEW f \in Files,
           NEW access \in SUBSET {"r", "w"}, NEW how,
           how = "overwrite" => "w" \in access,
           Create(o, f, access, how)
    PROVE  /\ Keeps(o)
           /\ disk'[f] \in Text
           /\ how = "overwrite" => disk'[f] = <<>>
           /\ how = "open" => disk' = disk
           /\ obj'[o].file = f /\ obj'[o].access = access
           /\ obj'[o].size = Len(disk'[f])
           /\ how # "append" => obj'[o].pos = 0
<1> DEFINE size == IF how = "overwrite" THEN 0 ELSE SizeOf(disk[f])
           new == [Closed EXCEPT !.file = f, !.access = access,
                      !.size = size,
                      !.pos = IF how = "append" THEN size ELSE 0,
                      !.appending = how = "append"]
<1>1. /\ SharingAllows(o, f, access)
      /\ how = "open" => disk[f] # Missing
      /\ disk' = DiskOpened(f, how)
      /\ obj' = [obj EXCEPT ![o] = new]
    BY DEF Create, Opened
<1>2. /\ disk' \in [Files -> Text \cup {Missing}]
      /\ disk'[f] \in Text
      /\ how = "overwrite" => disk'[f] = <<>>
      /\ how # "overwrite" => Len(disk'[f]) = SizeOf(disk[f])
      /\ \A g \in Files : disk[g] \in Text /\ how # "overwrite"
                          => disk'[g] = disk[g]
      /\ \A p \in Objects \ {o} :
            IsOpen(p) => disk'[obj[p].file] = disk[obj[p].file]
    BY <1>1, DiskOpenedIs
<1>3. size = Len(disk'[f]) /\ size \in Nat
    <2>1. Len(<<>>) = 0 /\ Len(disk'[f]) \in Nat
        BY <1>2, LenProperties DEF Text
    <2> QED  BY <1>2, <2>1
<1> HIDE DEF size
<1>4. /\ new.file = f /\ new.access = access /\ new.size = size
      /\ new.pos = IF how = "append" THEN size ELSE 0
      /\ new.appending = (how = "append") /\ new.stale = FALSE
      /\ new \in FileObject
    BY <1>3 DEF Closed, FileObject
<1> HIDE DEF new
<1>5. obj \in [Objects -> FileObject]
    BY DEF DiskInv, DiskType
<1>6. obj'[o] = new /\ \A p \in Objects \ {o} : obj'[p] = obj[p]
    BY <1>1, <1>5
<1>7. DiskType'
    BY <1>1, <1>2, <1>4, <1>5 DEF DiskType
<1>8. Others(o)
    BY <1>2, <1>6 DEF Others
<1>9. Own(o)'
    <2>1. new.appending => new.pos = size
        BY <1>4
    <2>2. /\ Content(o)' = disk'[f] /\ obj'[o].size = size
          /\ obj'[o].appending => obj'[o].pos = size
        BY <1>4, <1>6, <2>1 DEF Content
    <2>3. Len(Content(o)') <= size
        BY <1>3, <2>2
    <2> QED  BY <1>2, <2>2, <2>3 DEF Own
<1>10. FitsIn(o)
    BY <1>1, <1>4, <1>6 DEF FitsIn
<1>11. Adds(o)
    <2> SUFFICES ASSUME obj'[o].pos > obj[o].pos, obj[o].file # NoFile
                 PROVE  IsPrefix(Content(o), disk'[obj[o].file])
        BY DEF Adds
    <2>1. how = "append"
        BY <1>4, <1>5, <1>6 DEF FileObject
    <2>2. Content(o) \in Text /\ obj[o].file \in Files
        BY <1>5 DEF DiskInv, Own, IsOpen, FileObject
    <2>3. disk'[obj[o].file] = Content(o)
        BY <1>2, <2>1, <2>2 DEF Content
    <2>4. Len(Content(o)) \in Nat
        BY <2>2, LenProperties DEF Text
    <2> QED  BY <2>2, <2>3, <2>4, PrefixIs
<1>12. how = "open" => disk' = disk
    <2>1. disk \in [Files -> Text \cup {Missing}]
        BY DEF DiskInv, DiskType
    <2> QED  BY <1>1, <2>1 DEF DiskOpened
<1>13. Keeps(o)
    BY <1>7, <1>8, <1>9, <1>10, <1>11, Frame DEF Keeps
<1> QED  BY <1>2, <1>3, <1>4, <1>6, <1>12, <1>13

LEMMA CreateFailsKeeps ==
    ASSUME DiskInv, NEW o \in Objects, NEW f \in Files, NEW access, NEW how,
           CreateFails(o, f, access, how)
    PROVE  Keeps(o)
<1>1. CASE obj' = Closing(o) /\ UNCHANGED disk
    BY <1>1, CloseKeeps
<1>2. CASE /\ SharingAllows(o, f, access) /\ how # "overwrite"
           /\ obj' = Closing(o) /\ disk' = DiskOpened(f, how)
    <2>1. /\ disk' \in [Files -> Text \cup {Missing}]
          /\ \A p \in Objects \ {o} :
                IsOpen(p) => disk'[obj[p].file] = disk[obj[p].file]
        BY <1>2, DiskOpenedIs
    <2>2. obj' = [obj EXCEPT ![o] = Closed]
        BY <1>2 DEF Closing
    <2>3. obj'[o] = Closed
        BY <2>2 DEF DiskInv, DiskType
    <2>4. DiskType'
        BY <2>1, <2>2, ClosedIs DEF DiskInv, DiskType
    <2>5. Own(o)' /\ FitsIn(o)
        BY <2>3, ClosedIs DEF Own, IsOpen, FitsIn
    <2>6. Others(o)
        BY <2>1, <2>2 DEF Others, DiskInv, DiskType
    <2>7. Adds(o)
        BY <2>3, ClosedIs DEF Adds, DiskInv, DiskType, FileObject
    <2> QED  BY <2>4, <2>5, <2>6, <2>7, Frame DEF Keeps
<1> QED  BY <1>1, <1>2 DEF CreateFails

\* Steps of an open object that keep its handle.
LEMMA SameHandle ==
    ASSUME DiskInv, NEW o \in Objects, NEW new \in FileObject,
           obj' = [obj EXCEPT ![o] = new],
           new.file = obj[o].file, new.access = obj[o].access,
           DiskType', Own(o)', Adds(o),
           \A p \in Objects \ {o} :
              IsOpen(p) => disk'[obj[p].file] = disk[obj[p].file]
    PROVE  Keeps(o)
<1>1. obj \in [Objects -> FileObject]
    BY DEF DiskInv, DiskType
<1>2. obj'[o] = new /\ \A p \in Objects \ {o} : obj'[p] = obj[p]
    BY <1>1
<1>3. Others(o) /\ FitsIn(o)
    BY <1>2 DEF Others, FitsIn
<1> QED  BY <1>3, Frame DEF Keeps

LEMMA ObjectIs ==
    ASSUME DiskInv, NEW o \in Objects, IsOpen(o)
    PROVE  /\ obj \in [Objects -> FileObject] /\ obj[o] \in FileObject
           /\ obj[o].file \in Files
           /\ disk \in [Files -> Text \cup {Missing}]
           /\ Content(o) \in Text /\ Len(Content(o)) \in Nat
           /\ obj[o].size \in Nat /\ obj[o].pos \in Nat
<1>1. /\ obj \in [Objects -> FileObject] /\ obj[o] \in FileObject
      /\ disk \in [Files -> Text \cup {Missing}]
    BY DEF DiskInv, DiskType
<1>2. Content(o) \in Text
    BY DEF DiskInv, Own
<1> QED  BY <1>1, <1>2, LenProperties DEF FileObject, IsOpen, Text

LEMMA SeekKeeps ==
    ASSUME DiskInv, NEW o \in Objects, NEW pos \in Nat,
           NEW toEnd \in BOOLEAN, toEnd => pos = obj[o].size,
           Seek(o, pos, toEnd)
    PROVE  Keeps(o)
<1> DEFINE new == [obj[o] EXCEPT !.pos = pos,
                      !.size = IF pos > @ THEN pos ELSE @,
                      !.appending = toEnd]
<1>1. /\ IsOpen(o) /\ disk' = disk
      /\ obj' = [obj EXCEPT ![o] = new]
    BY DEF Seek
<1>2. /\ obj \in [Objects -> FileObject] /\ obj[o] \in FileObject
      /\ Content(o) \in Text /\ Len(Content(o)) \in Nat
      /\ obj[o].size \in Nat
      /\ disk \in [Files -> Text \cup {Missing}]
    BY <1>1, ObjectIs
<1>3. new \in FileObject
    BY <1>2 DEF FileObject
<1>4. /\ new.file = obj[o].file /\ new.access = obj[o].access
      /\ new.stale = obj[o].stale /\ new.pos = pos
      /\ obj[o].size <= new.size /\ new.appending = toEnd
    BY <1>2 DEF FileObject
<1> HIDE DEF new
<1>5. obj'[o] = new
    BY <1>1, <1>2
<1>6. DiskType'
    BY <1>1, <1>2, <1>3 DEF DiskType
<1>7. Content(o)' = Content(o)
    BY <1>1, <1>4, <1>5 DEF Content
<1>8. Own(o)'
    <2>1. ~obj[o].stale => Len(Content(o)) <= obj[o].size
        BY <1>1 DEF DiskInv, Own
    <2>2. ~new.stale => Len(Content(o)) <= new.size
        BY <1>2, <1>3, <1>4, <2>1 DEF FileObject
    <2>3. ~new.stale /\ new.appending => Len(Content(o)) <= new.pos
        BY <1>4, <2>1
    <2> QED  BY <1>2, <1>5, <1>7, <2>2, <2>3 DEF Own
<1>9. Adds(o)
    BY <1>1, <1>2, PrefixIs DEF Adds, Content
<1> QED  BY <1>1, <1>3, <1>4, <1>6, <1>8, <1>9, SameHandle

LEMMA ReadKeeps ==
    ASSUME DiskInv, NEW o \in Objects, NEW n \in Nat, Read(o, n)
    PROVE  Keeps(o)
<1> DEFINE pos == obj[o].pos + Len(BytesRead(o, n))
           new == [obj[o] EXCEPT !.pos = pos, !.appending = FALSE]
<1>1. /\ IsOpen(o) /\ disk' = disk
      /\ obj' = [obj EXCEPT ![o] = new]
    BY DEF Read
<1>2. /\ obj \in [Objects -> FileObject] /\ obj[o] \in FileObject
      /\ Content(o) \in Text /\ obj[o].pos \in Nat
      /\ disk \in [Files -> Text \cup {Missing}]
      /\ Len(BytesRead(o, n)) \in Nat
    BY <1>1, ObjectIs, BytesReadIs
<1>3. new \in FileObject
    <2>1. pos \in Nat
        BY <1>2
    <2> HIDE DEF pos
    <2> QED  BY <1>2, <2>1 DEF FileObject
<1>4. /\ new.file = obj[o].file /\ new.access = obj[o].access
      /\ new.stale = obj[o].stale /\ new.size = obj[o].size
      /\ new.appending = FALSE
    BY <1>2 DEF FileObject
<1> HIDE DEF new
<1>5. obj'[o] = new
    BY <1>1, <1>2
<1>6. DiskType'
    BY <1>1, <1>2, <1>3 DEF DiskType
<1>7. Content(o)' = Content(o)
    BY <1>1, <1>4, <1>5 DEF Content
<1>8. Own(o)'
    <2>1. ~obj[o].stale => Len(Content(o)) <= obj[o].size
        BY <1>1 DEF DiskInv, Own
    <2> QED  BY <1>2, <1>4, <1>5, <1>7, <2>1 DEF Own
<1>9. Adds(o)
    BY <1>1, <1>2, PrefixIs, LenProperties DEF Adds, Content, Text
<1> QED  BY <1>1, <1>3, <1>4, <1>6, <1>8, <1>9, SameHandle

LEMMA WriteKeeps ==
    ASSUME DiskInv, NEW o \in Objects, NEW b \in Text, Write(o, b)
    PROVE  Keeps(o)
<1> DEFINE end == obj[o].pos + Len(b)
           size == IF end > obj[o].size THEN end ELSE obj[o].size
           new == [obj[o] EXCEPT !.size = size, !.pos = end]
           c   == IF b = <<>> THEN Content(o)
                  ELSE Overlay(Content(o), obj[o].pos, b)
<1>1. /\ IsOpen(o) /\ "w" \in obj[o].access
      /\ disk' = [disk EXCEPT ![obj[o].file] = c]
      /\ obj' = [obj EXCEPT ![o] = new]
    BY DEF Write, Content
<1>2. /\ obj \in [Objects -> FileObject] /\ obj[o] \in FileObject
      /\ obj[o].file \in Files
      /\ disk \in [Files -> Text \cup {Missing}]
      /\ Content(o) \in Text /\ Len(Content(o)) \in Nat
      /\ obj[o].size \in Nat /\ obj[o].pos \in Nat
    BY <1>1, ObjectIs
<1>3. Len(b) \in Nat /\ end \in Nat /\ obj[o].pos <= end
    BY <1>2, LenProperties DEF Text
<1>4. new \in FileObject
    <2>1. size \in Nat
        BY <1>2, <1>3
    <2> HIDE DEF end, size
    <2> QED  BY <1>2, <1>3, <2>1 DEF FileObject
<1>5. /\ new.file = obj[o].file /\ new.access = obj[o].access
      /\ new.stale = obj[o].stale /\ new.appending = obj[o].appending
      /\ new.pos = end
      /\ obj[o].size <= new.size /\ end <= new.size
    BY <1>2, <1>3 DEF FileObject
<1>6. /\ c \in Text
      /\ Len(c) <= Len(Content(o)) \/ Len(c) <= end
    BY <1>2, <1>3, OverlayIs
<1>7. Len(Content(o)) <= obj[o].pos => IsPrefix(Content(o), c)
    BY <1>2, OverlayAdds, PrefixIs
<1>8. Len(c) \in Nat
    BY <1>6, LenProperties DEF Text
<1> HIDE DEF new, c, end, size
<1>9. obj'[o] = new /\ disk'[obj[o].file] = c
    BY <1>1, <1>2
<1>10. DiskType'
    BY <1>1, <1>2, <1>4, <1>6 DEF DiskType
<1>11. Own(o)'
    <2>1. Content(o)' = c
        BY <1>5, <1>9 DEF Content
    <2>2. /\ ~obj[o].stale => Len(Content(o)) <= obj[o].size
          /\ ~obj[o].stale /\ obj[o].appending
             => Len(Content(o)) <= obj[o].pos
        BY <1>1 DEF DiskInv, Own
    <2>3. new.size \in Nat
        BY <1>4 DEF FileObject
    <2>4. ~new.stale => Len(c) <= new.size
        BY <1>2, <1>3, <1>5, <1>6, <1>8, <2>2, <2>3
    <2>5. ~new.stale /\ new.appending => Len(c) <= new.pos
        BY <1>2, <1>3, <1>5, <1>6, <1>8, <2>2
    <2> QED  BY <1>6, <1>9, <2>1, <2>4, <2>5 DEF Own
<1>12. Adds(o)
    BY <1>1, <1>7, <1>9 DEF Adds, DiskInv, Own
<1>13. \A p \in Objects \ {o} :
          IsOpen(p) => disk'[obj[p].file] = disk[obj[p].file]
    BY <1>1, <1>2, WriterAlone DEF FileObject
<1> QED  BY <1>1, <1>4, <1>5, <1>10, <1>11, <1>12, <1>13, SameHandle

\* However the end moves, the file ends there.
LEMMA CutIs ==
    ASSUME DiskInv, NEW o \in Objects, NEW end \in Nat, IsOpen(o), Cut(o, end)
    PROVE  \E c \in Text : /\ Len(c) = end
                          /\ disk' = [disk EXCEPT ![obj[o].file] = c]
<1>1. /\ obj[o].file \in Files
      /\ Content(o) \in Text /\ Len(Content(o)) \in Nat
    BY ObjectIs
<1> DEFINE c == IF end > Len(Content(o))
                THEN Overlay(Content(o), end - 1, <<Fill>>)
                ELSE SubSeq(Content(o), 1, end)
<1>2. disk' = [disk EXCEPT ![obj[o].file] = c]
    BY DEF Cut, Content
<1>3. CASE end > Len(Content(o))
    <2>1. <<Fill>> \in Text /\ Len(<<Fill>>) = 1 /\ end - 1 \in Nat
        BY <1>1, <1>3, FileDiskAssumption DEF Text
    <2>2. /\ Overlay(Content(o), end - 1, <<Fill>>) \in Text
          /\ Len(Overlay(Content(o), end - 1, <<Fill>>)) =
                IF (end - 1) + Len(<<Fill>>) > Len(Content(o))
                THEN (end - 1) + Len(<<Fill>>) ELSE Len(Content(o))
        <3> HIDE DEF Text
        <3> QED  BY <1>1, <2>1, OverlayIs
    <2>3. Len(Overlay(Content(o), end - 1, <<Fill>>)) = end
        BY <1>1, <1>3, <2>1, <2>2
    <2> QED  BY <1>2, <1>3, <2>2, <2>3
<1>4. CASE ~(end > Len(Content(o)))
    <2>1. \A i \in 1 .. end : Content(o)[i] \in Bytes
        BY <1>1, <1>4, ElementOfSeq DEF Text
    <2>2. /\ SubSeq(Content(o), 1, end) \in Text
          /\ Len(SubSeq(Content(o), 1, end))
                = IF 1 <= end THEN end - 1 + 1 ELSE 0
        BY <2>1, SubSeqProperties DEF Text
    <2>3. Len(SubSeq(Content(o), 1, end)) = end
        BY <2>2
    <2> QED  BY <1>2, <1>4, <2>2, <2>3
<1> QED  BY <1>3, <1>4

LEMMA SetEndKeeps ==
    ASSUME DiskInv, NEW o \in Objects, NEW end \in Nat, SetEndOfFile(o, end)
    PROVE  Keeps(o)
<1> DEFINE pos  == IF end < obj[o].pos THEN end ELSE obj[o].pos
           set  == [obj[o] EXCEPT !.size = end, !.pos = pos,
                                  !.appending = @ /\ pos = end]
           half == [obj[o] EXCEPT !.stale = TRUE]
<1>1. IsOpen(o) /\ "w" \in obj[o].access /\ Cut(o, end)
    BY DEF SetEndOfFile
<1>2. PICK new \in {set, half} : obj' = [obj EXCEPT ![o] = new]
    BY DEF SetEndOfFile
<1>3. /\ obj \in [Objects -> FileObject] /\ obj[o] \in FileObject
      /\ obj[o].file \in Files /\ obj[o].pos \in Nat
      /\ disk \in [Files -> Text \cup {Missing}]
    BY <1>1, ObjectIs
<1>4. PICK c \in Text : /\ Len(c) = end
                        /\ disk' = [disk EXCEPT ![obj[o].file] = c]
    BY <1>1, CutIs
<1>5. new \in FileObject
    BY <1>3 DEF FileObject
<1>6. /\ new.file = obj[o].file /\ new.access = obj[o].access
      /\ new.pos <= obj[o].pos
      /\ ~new.stale => end = new.size
      /\ ~new.stale /\ new.appending => new.pos = end
    <2>1. CASE new = set
        BY <1>3, <2>1 DEF FileObject
    <2>2. CASE new = half
        BY <1>3, <2>2 DEF FileObject
    <2> QED  BY <1>2, <2>1, <2>2
<1> HIDE DEF set, half
<1>7. obj'[o] = new /\ disk'[obj[o].file] = c
    BY <1>2, <1>3, <1>4
<1>8. DiskType'
    BY <1>2, <1>3, <1>4, <1>5 DEF DiskType
<1>9. Own(o)'
    <2>1. Content(o)' = c
        BY <1>6, <1>7 DEF Content
    <2> QED  BY <1>4, <1>6, <1>7, <2>1 DEF Own
<1>10. Adds(o)
    <2>1. new.pos \in Nat
        BY <1>5 DEF FileObject
    <2> QED  BY <1>3, <1>6, <1>7, <2>1 DEF Adds
<1>11. \A p \in Objects \ {o} :
          IsOpen(p) => disk'[obj[p].file] = disk[obj[p].file]
    BY <1>1, <1>3, <1>4, WriterAlone DEF FileObject
<1> QED  BY <1>2, <1>5, <1>6, <1>8, <1>9, <1>10, <1>11, SameHandle

-----------------------------------------------------------------------------
(***************************************************************************)
(* CopyFile.                                                               *)
(***************************************************************************)
CopyType ==
    /\ pc \in {"start", "open", "create", "info", "loop", "write", "done",
               "failed", "refused", "overrun", "over"}
    /\ args \in Calls
    /\ left \in Int
    /\ buffer \in Text

HasTarget == pc \in {"info", "loop", "write", "failed", "done", "overrun"}
HasSource == HasTarget \/ pc = "create"

SourceHeld ==
    HasSource =>
        /\ obj[Source].file = args.from /\ obj[Source].access = {"r"}
        /\ obj[Source].size = Len(disk[args.from])
        /\ pc \in {"create", "info"} => obj[Source].pos = 0

TargetHeld ==
    HasTarget =>
        /\ obj[Destination].file = args.to /\ obj[Destination].access = {"w"}
        /\ args.from # args.to

\* The first k bytes are copied.
CopiedSoFar(k) ==
    /\ k <= Len(disk[args.from])
    /\ disk[args.to] = SubSeq(disk[args.from], 1, k)
    /\ pc \in {"info", "loop", "write"} => obj[Destination].pos = k
    /\ pc = "info" => k = 0
    /\ pc \in {"loop", "write", "done", "overrun"} =>
          left = Len(disk[args.from]) - k
    /\ pc = "loop" => obj[Source].pos = k

\* What was read is what comes next.
ReadAhead(k) ==
    pc = "write" =>
        /\ k + Len(buffer) <= Len(disk[args.from])
        /\ buffer = SubSeq(disk[args.from], k + 1, k + Len(buffer))
        /\ obj[Source].pos = k + Len(buffer)

Progress ==
    HasTarget =>
        /\ CopiedSoFar(Len(disk[args.to]))
        /\ ReadAhead(Len(disk[args.to]))
        /\ pc = "done" => left = 0
        /\ pc = "overrun" => Len(disk[args.from]) >= LowRange

IInv ==
    /\ DiskInv
    /\ CopyType
    /\ SourceHeld
    /\ TargetHeld
    /\ Progress

\* What a step may do, [A]_vars of AppendingAdds included.
AllAdd == \A o \in Objects : Adds(o)
Fine   == IInv' /\ AllAdd

-----------------------------------------------------------------------------
LEMMA NobodyElseAdds ==
    ASSUME DiskInv, NEW o \in Objects, Keeps(o)
    PROVE  AllAdd
<1> SUFFICES ASSUME NEW p \in Objects PROVE Adds(p)
    BY DEF AllAdd
<1>1. CASE p = o
    BY <1>1 DEF Keeps
<1>2. CASE p # o
    <2>1. obj'[p] = obj[p] /\ obj[p].pos \in Nat
        BY <1>2 DEF Keeps, Others, DiskInv, DiskType, FileObject
    <2> QED  BY <2>1 DEF Adds
<1> QED  BY <1>1, <1>2

LEMMA StillAdds ==
    ASSUME DiskInv, UNCHANGED obj
    PROVE  AllAdd
    BY DEF AllAdd, Adds, DiskInv, DiskType, FileObject

\* Names of the two files while they are open.
LEMMA CopyFiles ==
    ASSUME IInv
    PROVE  /\ args.from \in Files /\ args.to \in Files
           /\ Source \in Objects /\ Destination \in Objects
           /\ Source # Destination
           /\ HasSource => /\ IsOpen(Source)
                           /\ disk[args.from] = Content(Source)
                           /\ disk[args.from] \in Text
                           /\ Len(disk[args.from]) \in Nat
           /\ HasTarget => /\ IsOpen(Destination)
                           /\ disk[args.to] = Content(Destination)
                           /\ disk[args.to] \in Text
                           /\ Len(disk[args.to]) \in Nat
<1>1. /\ args.from \in Files /\ args.to \in Files
      /\ Source \in Objects /\ Destination \in Objects
      /\ Source # Destination
    BY FileCopyAssumption DEF IInv, CopyType
<1>2. HasSource => IsOpen(Source) /\ disk[args.from] = Content(Source)
    BY <1>1, FileDiskAssumption DEF IInv, SourceHeld, IsOpen, Content
<1>3. HasTarget =>
         IsOpen(Destination) /\ disk[args.to] = Content(Destination)
    BY <1>1, FileDiskAssumption DEF IInv, TargetHeld, IsOpen, Content
<1> QED  BY <1>1, <1>2, <1>3, ObjectIs DEF IInv

\* Bytes in a prefix.
LEMMA PrefixOf ==
    ASSUME NEW s \in Text, NEW k \in Nat, k <= Len(s)
    PROVE  /\ SubSeq(s, 1, k) \in Text /\ Len(SubSeq(s, 1, k)) = k
           /\ IsPrefix(SubSeq(s, 1, k), s)
<1>1. Len(s) \in Nat
    BY LenProperties DEF Text
<1>2. \A i \in 1 .. k : s[i] \in Bytes
    BY <1>1, ElementOfSeq DEF Text
<1>3. /\ SubSeq(s, 1, k) \in Text
      /\ Len(SubSeq(s, 1, k)) = IF 1 <= k THEN k - 1 + 1 ELSE 0
      /\ \A i \in 1 .. k - 1 + 1 : SubSeq(s, 1, k)[i] = s[1 + i - 1]
    BY <1>2, SubSeqProperties DEF Text
<1>4. /\ Len(SubSeq(s, 1, k)) = k
      /\ \A i \in 1 .. k : SubSeq(s, 1, k)[i] = s[i]
    BY <1>3
<1> QED  BY <1>3, <1>4, PrefixIs

-----------------------------------------------------------------------------
LEMMA InitIInv == Init => IInv
<1> SUFFICES ASSUME Init PROVE IInv
    OBVIOUS
<1>1. DiskType
    BY ClosedIs, FileCopyAssumption DEF Init, DiskType, Text
<1>2. \A o \in Objects : ~IsOpen(o)
    BY ClosedIs DEF Init, IsOpen
<1>3. DiskInv
    BY <1>1, <1>2 DEF DiskInv, Own, Sharing
<1>4. buffer \in Text
    BY EmptySeq DEF Init, Text
<1> QED
    BY <1>3, <1>4 DEF Init, IInv, CopyType, SourceHeld, TargetHeld, Progress,
                      HasSource, HasTarget

(* Other objects.                                                          *)
LEMMA ClientStep == IInv /\ Client => Fine
<1> SUFFICES ASSUME IInv, Client PROVE Fine
    OBVIOUS
<1>1. PICK o \in Clients : Keeps(o)
    <2>1. DiskInv
        BY DEF IInv
    <2>2. CASE ClientOpen
        <3>1. PICK o \in Clients, f \in Files :
                  \/ Create(o, f, {"r"}, "open")
                  \/ Create(o, f, {"r", "w"}, "append")
                  \/ Create(o, f, {"w"}, "overwrite")
            BY <2>2 DEF ClientOpen
        <3>2. o \in Objects
            BY DEF Clients
        <3> QED  BY <2>1, <3>1, <3>2, CreateKeeps
    <2>3. CASE ClientOpenFails
        <3>1. PICK o \in Clients, f \in Files,
                   how \in {"open", "append", "overwrite"} :
                  CreateFails(o, f, IF how = "open" THEN {"r"}
                                    ELSE {"r", "w"}, how)
            BY <2>3 DEF ClientOpenFails
        <3>2. o \in Objects
            BY DEF Clients
        <3> QED  BY <2>1, <3>1, <3>2, CreateFailsKeeps
    <2>4. CASE ClientUse
        <3>1. PICK o \in Clients :
                  \/ Close(o)
                  \/ /\ IsOpen(o)
                     /\ \/ Seek(o, 0, FALSE)
                        \/ Seek(o, obj[o].size, TRUE)
                        \/ Seek(o, obj[o].size + 1, FALSE)
                        \/ Read(o, 1)
                        \/ Write(o, <<Fill>>)
                        \/ SetEndOfFile(o, obj[o].pos)
                        \/ SetEndOfFile(o, 0)
                        \/ SetEndOfFile(o, obj[o].size + 1)
            BY <2>4 DEF ClientUse
        <3>2. o \in Objects
            BY DEF Clients
        <3>3. CASE Close(o)
            BY <2>1, <3>2, <3>3, CloseKeeps DEF Close
        <3>4. obj[o].size \in Nat /\ obj[o].pos \in Nat
              /\ obj[o].size + 1 \in Nat
            BY <2>1, <3>2 DEF DiskInv, DiskType, FileObject
        <3>5. CASE \/ Seek(o, 0, FALSE) \/ Seek(o, obj[o].size, TRUE)
                   \/ Seek(o, obj[o].size + 1, FALSE)
            BY <2>1, <3>2, <3>4, <3>5, SeekKeeps
        <3>6. CASE Read(o, 1)
            BY <2>1, <3>2, <3>6, ReadKeeps
        <3>7. CASE Write(o, <<Fill>>)
            <4>1. <<Fill>> \in Text
                BY FileDiskAssumption DEF Text
            <4> QED  BY <2>1, <3>2, <3>7, <4>1, WriteKeeps
        <3>8. CASE \/ SetEndOfFile(o, obj[o].pos) \/ SetEndOfFile(o, 0)
                   \/ SetEndOfFile(o, obj[o].size + 1)
            BY <2>1, <3>2, <3>4, <3>8, SetEndKeeps
        <3> QED  BY <3>1, <3>3, <3>5, <3>6, <3>7, <3>8
    <2> QED  BY <2>2, <2>3, <2>4 DEF Client
<1>2. o \in Objects /\ o # Source /\ o # Destination
    BY DEF Clients
<1>3. UNCHANGED <<pc, args, left, buffer>>
    BY DEF Client
<1>4. HasSource => /\ obj'[Source] = obj[Source]
                   /\ disk'[args.from] = disk[args.from]
    BY <1>1, <1>2, CopyFiles
    DEF Keeps, Others, IInv, SourceHeld
<1>5. HasTarget => /\ obj'[Destination] = obj[Destination]
                   /\ disk'[args.to] = disk[args.to]
    BY <1>1, <1>2, CopyFiles
    DEF Keeps, Others, IInv, TargetHeld
<1>6. (CopyType /\ SourceHeld /\ TargetHeld)'
    BY <1>3, <1>4, <1>5
    DEF IInv, CopyType, SourceHeld, TargetHeld, HasSource, HasTarget
<1>7. Progress'
    <2> SUFFICES ASSUME HasTarget PROVE Progress'
        BY <1>3 DEF Progress, HasTarget
    <2>1. /\ obj'[Source] = obj[Source]
          /\ obj'[Destination] = obj[Destination]
          /\ disk'[args.from] = disk[args.from]
          /\ disk'[args.to] = disk[args.to]
        BY <1>4, <1>5 DEF HasSource
    <2> QED
        BY <1>3, <2>1 DEF IInv, Progress, CopiedSoFar, ReadAhead, HasTarget
<1>8. DiskInv' /\ AllAdd
    BY <1>1, <1>2, NobodyElseAdds DEF IInv, Keeps
<1> QED  BY <1>6, <1>7, <1>8 DEF Fine, IInv

(* Steps of CopyFile that touch no file.                                   *)
LEMMA QuietStep ==
    ASSUME IInv, UNCHANGED <<disk, obj, args, buffer>>,
           CopyRefused \/ CopyStart \/ CopyOpenFails \/ CopyInfo
           \/ CopyInfoFails \/ CopyReadFails \/ CopyWriteFails \/ CopyDone
    PROVE  Fine
<1> USE DEF Goto
<1>1. AllAdd
    BY StillAdds DEF IInv
<1>2. DiskInv'
    BY DEF IInv, DiskInv, DiskType, Own, Sharing, IsOpen, Content
<1>3. /\ CopyType'
      /\ HasTarget' => HasTarget /\ pc # "overrun"
      /\ HasSource' => HasSource
      /\ pc' \in {"create", "info", "write", "overrun"} => FALSE
      /\ pc' = "done" => pc = "loop" /\ left = 0 /\ left' = left
      /\ pc' = "loop" => pc = "info" /\ left' = obj[Source].size
    <2>1. left' \in Int
        <3>1. obj[Source].size \in Nat
            BY FileCopyAssumption DEF IInv, DiskInv, DiskType, FileObject
        <3> QED
            BY <3>1
            DEF CopyRefused, CopyStart, CopyOpenFails, CopyInfo,
                CopyInfoFails, CopyReadFails, CopyWriteFails, CopyDone, IInv,
                CopyType
    <2> QED
        BY <2>1
        DEF CopyRefused, CopyStart, CopyOpenFails, CopyInfo, CopyInfoFails,
            CopyReadFails, CopyWriteFails, CopyDone, IInv, CopyType,
            HasTarget, HasSource
<1>4. SourceHeld' /\ TargetHeld'
    BY <1>3 DEF IInv, SourceHeld, TargetHeld
<1>5. Progress'
    <2> SUFFICES ASSUME HasTarget' PROVE Progress'
        BY DEF Progress
    <2>1. HasTarget /\ CopiedSoFar(Len(disk[args.to]))
        BY <1>3 DEF IInv, Progress
    <2>2. CASE pc' = "loop"
        <3>1. /\ pc = "info" /\ Len(disk[args.to]) = 0
              /\ obj[Destination].pos = Len(disk[args.to])
              /\ obj[Source].pos = 0
              /\ left' = Len(disk[args.from])
            BY <1>3, <2>1, <2>2
            DEF CopiedSoFar, IInv, SourceHeld, HasSource
        <3>2. left' = Len(disk[args.from]) - Len(disk[args.to])
            BY <2>1, <3>1, CopyFiles DEF HasSource
        <3> QED
            BY <2>1, <2>2, <3>1, <3>2 DEF CopiedSoFar, ReadAhead, Progress
    <2>3. CASE pc' = "done"
        BY <1>3, <2>1, <2>3 DEF CopiedSoFar, ReadAhead, Progress
    <2>4. CASE pc' \notin {"loop", "done"}
        BY <1>3, <2>1, <2>4 DEF CopiedSoFar, ReadAhead, Progress
    <2> QED  BY <2>2, <2>3, <2>4
<1> QED  BY <1>1, <1>2, <1>3, <1>4, <1>5 DEF Fine, IInv

LEMMA OpenStep == IInv /\ CopyOpen => Fine
<1> SUFFICES ASSUME IInv, CopyOpen PROVE Fine
    OBVIOUS
<1>1. /\ pc = "open" /\ pc' = "create"
      /\ Create(Source, args.from, {"r"}, "open")
      /\ UNCHANGED <<args, left, buffer>>
    BY DEF CopyOpen, Goto
<1>2. args.from \in Files /\ Source \in Objects
    BY CopyFiles
<1>3. /\ Keeps(Source)
      /\ obj'[Source].file = args.from /\ obj'[Source].access = {"r"}
      /\ obj'[Source].size = Len(disk'[args.from]) /\ obj'[Source].pos = 0
    BY <1>1, <1>2, CreateKeeps DEF IInv
<1>4. AllAdd /\ DiskInv'
    BY <1>2, <1>3, NobodyElseAdds DEF IInv, Keeps
<1> QED
    BY <1>1, <1>3, <1>4
    DEF Fine, IInv, CopyType, SourceHeld, TargetHeld, Progress, HasTarget

LEMMA CreateStep == IInv /\ CopyCreate => Fine
<1> SUFFICES ASSUME IInv, CopyCreate PROVE Fine
    OBVIOUS
<1>1. /\ pc = "create" /\ pc' = "info"
      /\ Create(Destination, args.to, {"w"}, "overwrite")
      /\ UNCHANGED <<args, left, buffer>>
    BY DEF CopyCreate, Goto
<1>2. HasSource
    BY <1>1 DEF HasSource
<1>3. /\ args.from \in Files /\ args.to \in Files
      /\ Source \in Objects /\ Destination \in Objects
      /\ Source # Destination
      /\ IsOpen(Source) /\ disk[args.from] \in Text
      /\ obj[Source].file = args.from /\ obj[Source].access = {"r"}
      /\ obj[Source].size = Len(disk[args.from]) /\ obj[Source].pos = 0
    BY <1>1, <1>2, CopyFiles DEF IInv, SourceHeld
<1>4. /\ Keeps(Destination)
      /\ disk'[args.to] = <<>>
      /\ obj'[Destination].file = args.to /\ obj'[Destination].access = {"w"}
      /\ obj'[Destination].pos = 0
    <2> DEFINE w == {"w"}
               how == "overwrite"
    <2>1. DiskInv /\ w \in SUBSET {"r", "w"} /\ "w" \in w
          /\ Create(Destination, args.to, w, how) /\ how # "append"
        BY <1>1 DEF IInv
    <2> HIDE DEF w, how
    <2>2. /\ Keeps(Destination)
          /\ how = "overwrite" => disk'[args.to] = <<>>
          /\ obj'[Destination].file = args.to
          /\ obj'[Destination].access = w
          /\ how # "append" => obj'[Destination].pos = 0
        BY <1>3, <2>1, CreateKeeps
    <2> QED  BY <2>1, <2>2 DEF w, how
<1>5. args.from # args.to
    <2>1. SharingAllows(Destination, args.to, {"w"})
        BY <1>1 DEF Create
    <2>2. obj[Source].file = args.to => {"r"} \cup {"w"} = {"r"}
        BY <1>3, <2>1 DEF SharingAllows
    <2>3. "w" \in {"r"} \cup {"w"} /\ "w" \notin {"r"}
        OBVIOUS
    <2> QED  BY <1>3, <2>2, <2>3
<1>6. obj'[Source] = obj[Source] /\ disk'[args.from] = disk[args.from]
    BY <1>3, <1>4 DEF Keeps, Others
<1>7. AllAdd /\ DiskInv'
    BY <1>3, <1>4, NobodyElseAdds DEF IInv, Keeps
<1>8. (CopyType /\ SourceHeld /\ TargetHeld)'
    BY <1>1, <1>3, <1>4, <1>5, <1>6
    DEF IInv, CopyType, SourceHeld, TargetHeld
<1>9. Progress'
    <2>1. Len(<<>>) = 0 /\ Len(disk[args.from]) \in Nat
        BY <1>3, LenProperties DEF Text
    <2>2. SubSeq(disk[args.from], 1, 0) = <<>>
        BY SubSeqEmpty
    <2> QED
        BY <1>1, <1>4, <1>6, <2>1, <2>2 DEF Progress, CopiedSoFar, ReadAhead
<1> QED  BY <1>7, <1>8, <1>9 DEF Fine, IInv

(* The loop.                                                               *)
LEMMA ChunkIs ==
    ASSUME left \in Nat, left # 0
    PROVE  /\ Chunk \in Nat /\ Chunk <= BufferSize
           /\ Chunk = 0 => left >= LowRange
<1>1. /\ LowRange \in Nat \ {0} /\ BufferSize \in Nat \ {0}
    BY FileDiskAssumption, FileCopyAssumption
<1>2. left % LowRange \in Nat
    BY <1>1
<1>3. left < LowRange => left % LowRange = left
    BY <1>1
<1> QED  BY <1>1, <1>2, <1>3 DEF Chunk, LowPart

\* The position in the loop.
LEMMA InLoop ==
    ASSUME IInv, pc = "loop", left # 0
    PROVE  /\ left \in Nat /\ HasSource /\ HasTarget
           /\ CopiedSoFar(Len(disk[args.to]))
           /\ obj[Source].pos = Len(disk[args.to])
           /\ obj[Source].pos <= Len(Content(Source))
           /\ Chunk \in Nat /\ Chunk <= BufferSize
           /\ Chunk = 0 => Len(disk[args.from]) >= LowRange
<1>1. HasSource /\ HasTarget
    BY DEF HasSource, HasTarget
<1>2. CopiedSoFar(Len(disk[args.to]))
    BY <1>1 DEF IInv, Progress
<1>3. /\ Len(disk[args.to]) \in Nat /\ Len(disk[args.from]) \in Nat
      /\ Len(disk[args.to]) <= Len(disk[args.from])
      /\ left = Len(disk[args.from]) - Len(disk[args.to])
      /\ obj[Source].pos = Len(disk[args.to])
      /\ disk[args.from] = Content(Source)
    BY <1>1, <1>2, CopyFiles DEF CopiedSoFar
<1>4. left \in Nat
    BY <1>3
<1>5. LowRange \in Nat
    BY FileDiskAssumption
<1>6. Chunk = 0 => Len(disk[args.from]) >= LowRange
    BY <1>3, <1>4, <1>5, ChunkIs
<1> QED  BY <1>1, <1>2, <1>3, <1>4, <1>6, ChunkIs

LEMMA ReadStep == IInv /\ CopyRead => Fine
<1> SUFFICES ASSUME IInv, CopyRead PROVE Fine
    OBVIOUS
<1>1. /\ pc = "loop" /\ pc' = "write" /\ left # 0
      /\ Read(Source, Chunk) /\ buffer' = BytesRead(Source, Chunk)
      /\ UNCHANGED <<args, left>>
    BY DEF CopyRead, Goto
<1> DEFINE k == Len(disk[args.to])
<1>2. /\ HasSource /\ HasTarget /\ CopiedSoFar(k)
      /\ obj[Source].pos = k /\ obj[Source].pos <= Len(Content(Source))
      /\ Chunk \in Nat
    BY <1>1, InLoop
<1>3. /\ Source \in Objects /\ Destination \in Objects
      /\ Source # Destination /\ IsOpen(Source)
      /\ disk[args.from] = Content(Source)
      /\ k \in Nat
    BY <1>2, CopyFiles
<1>4. DiskInv
    BY DEF IInv
<1>5. /\ buffer' \in Text
      /\ k + Len(buffer') <= Len(disk[args.from])
      /\ buffer' = SubSeq(disk[args.from], k + 1, k + Len(buffer'))
    BY <1>1, <1>2, <1>3, <1>4, BytesReadIs
<1>6. /\ disk' = disk /\ obj'[Destination] = obj[Destination]
      /\ obj'[Source] = [obj[Source] EXCEPT !.pos = k + Len(buffer'),
                                            !.appending = FALSE]
    BY <1>1, <1>2, <1>3, <1>4 DEF Read, DiskInv, DiskType
<1>7. /\ obj'[Source].pos = k + Len(buffer')
      /\ obj'[Source].file = obj[Source].file
      /\ obj'[Source].access = obj[Source].access
      /\ obj'[Source].size = obj[Source].size
    BY <1>3, <1>4, <1>6 DEF DiskInv, DiskType, FileObject
<1>8. AllAdd /\ DiskInv'
    BY <1>1, <1>2, <1>3, <1>4, ReadKeeps, NobodyElseAdds DEF Keeps
<1>9. (CopyType /\ SourceHeld /\ TargetHeld)'
    BY <1>1, <1>2, <1>5, <1>6, <1>7
    DEF IInv, CopyType, SourceHeld, TargetHeld
<1>10. Progress'
    BY <1>1, <1>2, <1>5, <1>6, <1>7 DEF CopiedSoFar, Progress, ReadAhead
<1> QED  BY <1>8, <1>9, <1>10 DEF Fine, IInv

LEMMA OverrunStep == IInv /\ CopyOverrun => Fine
<1> SUFFICES ASSUME IInv, CopyOverrun PROVE Fine
    OBVIOUS
<1>1. /\ pc = "loop" /\ pc' = "overrun" /\ left # 0
      /\ Len(BytesRead(Source, Chunk)) > BufferSize
      /\ UNCHANGED <<disk, obj, args, left, buffer>>
    BY DEF CopyOverrun, Goto
<1>2. /\ HasSource /\ HasTarget /\ CopiedSoFar(Len(disk[args.to]))
      /\ Chunk \in Nat /\ Chunk <= BufferSize
      /\ Chunk = 0 => Len(disk[args.from]) >= LowRange
    BY <1>1, InLoop
<1>3. Chunk = 0
    <2>1. /\ Len(BytesRead(Source, Chunk)) \in Nat
          /\ Len(BytesRead(Source, Chunk)) <= ReadSize(Source, Chunk)
        BY <1>2, CopyFiles, BytesReadIs DEF IInv
    <2>2. ReadSize(Source, Chunk) \in Nat /\ BufferSize \in Nat
        BY <1>2, CopyFiles, ReadSizeIs, FileCopyAssumption,
           FileDiskAssumption DEF IInv
    <2>3. Chunk # 0 => ReadSize(Source, Chunk) = Chunk
        BY DEF ReadSize
    <2> QED  BY <1>1, <1>2, <2>1, <2>2, <2>3
<1>4. DiskInv' /\ AllAdd
    BY <1>1, StillAdds
    DEF IInv, DiskInv, DiskType, Own, Sharing, IsOpen, Content
<1>5. (CopyType /\ SourceHeld /\ TargetHeld)'
    BY <1>1, <1>2 DEF IInv, CopyType, SourceHeld, TargetHeld
<1>6. Progress'
    BY <1>1, <1>2, <1>3 DEF CopiedSoFar, Progress, ReadAhead
<1> QED  BY <1>4, <1>5, <1>6 DEF Fine, IInv

LEMMA WriteStep == IInv /\ CopyWrite => Fine
<1> SUFFICES ASSUME IInv, CopyWrite PROVE Fine
    OBVIOUS
<1>1. /\ pc = "write" /\ pc' = "loop"
      /\ Write(Destination, buffer)
      /\ left' = left - Len(buffer)
      /\ UNCHANGED <<args, buffer>>
    BY DEF CopyWrite, Goto
<1> DEFINE k == Len(disk[args.to])
           s == disk[args.from]
           n == k + Len(buffer)
<1>2. HasSource /\ HasTarget
    BY <1>1 DEF HasSource, HasTarget
<1>3. /\ args.from \in Files /\ args.to \in Files
      /\ Source \in Objects /\ Destination \in Objects
      /\ Source # Destination /\ IsOpen(Source) /\ IsOpen(Destination)
      /\ disk[args.to] = Content(Destination) /\ disk[args.to] \in Text
      /\ s \in Text /\ Len(s) \in Nat /\ k \in Nat
      /\ args.from # args.to /\ obj[Destination].file = args.to
    BY <1>2, CopyFiles DEF IInv, TargetHeld
<1>4. buffer \in Text /\ Len(buffer) \in Nat
    BY LenProperties DEF IInv, CopyType, Text
<1>5. /\ k <= Len(s) /\ disk[args.to] = SubSeq(s, 1, k)
      /\ obj[Destination].pos = k
      /\ left = Len(s) - k
      /\ n <= Len(s) /\ buffer = SubSeq(s, k + 1, n)
      /\ obj[Source].pos = n
    BY <1>1, <1>2 DEF IInv, Progress, CopiedSoFar, ReadAhead
<1>6. disk' = [disk EXCEPT ![args.to] =
                  IF buffer = <<>> THEN disk[args.to]
                  ELSE Overlay(disk[args.to], k, buffer)]
    BY <1>1, <1>3, <1>5 DEF Write
<1>7. disk'[args.to] = disk[args.to] \o buffer
    <2>1. disk \in [Files -> Text \cup {Missing}]
        BY DEF IInv, DiskInv, DiskType
    <2>2. Overlay(disk[args.to], k, buffer) = disk[args.to] \o buffer
        BY <1>3, <1>4, OverlayAtEnd
    <2>3. disk[args.to] \o <<>> = disk[args.to]
        BY <1>3, ConcatEmptySeq DEF Text
    <2> QED  BY <1>3, <1>6, <2>1, <2>2, <2>3
<1>8. /\ disk'[args.to] = SubSeq(s, 1, n)
      /\ Len(disk'[args.to]) = n
    <2>1. n \in Nat /\ k \in 1 - 1 .. Len(s) /\ n \in k .. Len(s)
          /\ 1 \in 1 .. Len(s) + 1
        BY <1>3, <1>4, <1>5
    <2>2. SubSeq(s, 1, k) \o SubSeq(s, k + 1, n) = SubSeq(s, 1, n)
        BY <1>3, <2>1, ConcatAdjacentSubSeq DEF Text
    <2>3. Len(SubSeq(s, 1, n)) = n
        BY <1>3, <1>5, <2>1, PrefixOf
    <2> QED  BY <1>5, <1>7, <2>2, <2>3
<1>9. disk'[args.from] = s
    BY <1>3, <1>6 DEF IInv, DiskInv, DiskType
<1>10. /\ obj'[Source] = obj[Source]
       /\ obj'[Destination].pos = n
       /\ obj'[Destination].file = obj[Destination].file
       /\ obj'[Destination].access = obj[Destination].access
    BY <1>1, <1>3, <1>5 DEF Write, IInv, DiskInv, DiskType, FileObject
<1>11. AllAdd /\ DiskInv'
    BY <1>1, <1>3, <1>4, WriteKeeps, NobodyElseAdds DEF IInv, Keeps
<1>12. left' \in Int /\ left' = Len(s) - n
    BY <1>1, <1>3, <1>4, <1>5
<1>13. (CopyType /\ SourceHeld /\ TargetHeld)'
    BY <1>1, <1>2, <1>3, <1>9, <1>10, <1>12
    DEF IInv, CopyType, SourceHeld, TargetHeld
<1>14. Progress'
    BY <1>1, <1>5, <1>8, <1>9, <1>10, <1>12
    DEF Progress, CopiedSoFar, ReadAhead
<1> QED  BY <1>11, <1>13, <1>14 DEF Fine, IInv

LEMMA ReturnStep == IInv /\ CopyReturn => Fine
<1> SUFFICES ASSUME IInv, CopyReturn PROVE Fine
    OBVIOUS
<1>1. pc' = "over" /\ UNCHANGED <<disk, args, left, buffer>>
    BY DEF CopyReturn
<1>2. obj \in [Objects -> FileObject]
    BY DEF IInv, DiskInv, DiskType
<1>3. /\ obj' \in [Objects -> FileObject]
      /\ \A o \in Objects : obj'[o] = obj[o] \/ obj'[o] = Closed
    BY <1>2, ClosedIs DEF CopyReturn, Closing
<1>4. DiskInv'
    <2>1. DiskType'
        BY <1>1, <1>3 DEF IInv, DiskInv, DiskType
    <2>2. \A o \in Objects : Own(o)'
        BY <1>1, <1>3, ClosedIs DEF IInv, DiskInv, Own, IsOpen, Content
    <2>3. Sharing'
        BY <1>3, ClosedIs DEF IInv, DiskInv, Sharing, IsOpen
    <2> QED  BY <2>1, <2>2, <2>3 DEF DiskInv
<1>5. AllAdd
    BY <1>2, <1>3, ClosedIs DEF AllAdd, Adds, FileObject
<1> QED
    BY <1>1, <1>4, <1>5
    DEF Fine, IInv, CopyType, SourceHeld, TargetHeld, Progress, HasTarget,
        HasSource

LEMMA NextFine == IInv /\ [Next]_vars => IInv' /\ [AllAdd]_vars
<1> SUFFICES ASSUME IInv, [Next]_vars PROVE IInv' /\ [AllAdd]_vars
    OBVIOUS
<1>1. CASE UNCHANGED vars
    BY <1>1
    DEF vars, IInv, DiskInv, DiskType, Own, Sharing, IsOpen, Content,
        CopyType, SourceHeld, TargetHeld, HasSource, HasTarget, Progress,
        CopiedSoFar, ReadAhead
<1>2. CASE Copy
    <2>1. CASE CopyRefused \/ CopyStart \/ CopyOpenFails \/ CopyInfo
               \/ CopyInfoFails \/ CopyReadFails \/ CopyWriteFails
               \/ CopyDone
        <3>1. UNCHANGED <<disk, obj, args, buffer>>
            BY <2>1
            DEF CopyRefused, CopyStart, CopyOpenFails, CopyInfo,
                CopyInfoFails, CopyReadFails, CopyWriteFails, CopyDone
        <3> QED  BY <2>1, <3>1, QuietStep DEF Fine
    <2> QED
        BY <1>2, <2>1, OpenStep, CreateStep, ReadStep, OverrunStep,
           WriteStep, ReturnStep DEF Copy, Fine
<1>3. CASE Client
    BY <1>3, ClientStep DEF Fine
<1> QED  BY <1>1, <1>2, <1>3 DEF Next

\* Whatever other objects of the program do to the files, and whatever
\* fails, CopyFile has its two files to itself and has copied a prefix.
THEOREM Invariance == Spec => []IInv
BY InitIInv, NextFine, PTL DEF Spec

\* For files of every size, and every size of the buffer: a copy that
\* succeeds is exact, one that fails leaves a part of the source, and the
\* buffer overruns for sizes of 2^32 or more only.
THEOREM CopyIsExact == Spec => []CopyOutcome
<1>1. IInv => CopyOutcome
    <2> SUFFICES ASSUME IInv PROVE CopyOutcome
        OBVIOUS
    <2>1. ASSUME HasTarget
          PROVE  /\ disk[args.from] \in Text /\ Len(disk[args.from]) \in Nat
                 /\ Len(disk[args.to]) \in Nat
                 /\ CopiedSoFar(Len(disk[args.to]))
        BY <2>1, CopyFiles DEF IInv, Progress, HasSource
    <2>2. ASSUME pc = "done"
          PROVE  disk[args.to] = disk[args.from]
        <3>1. left = 0 /\ HasTarget
            BY <2>2 DEF IInv, Progress, HasTarget
        <3>2. Len(disk[args.to]) = Len(disk[args.from])
            BY <2>1, <2>2, <3>1 DEF CopiedSoFar
        <3> QED  BY <2>1, <3>1, <3>2, SubSeqFull DEF CopiedSoFar, Text
    <2>3. ASSUME pc = "failed"
          PROVE  /\ IsPrefix(disk[args.to], disk[args.from])
                 /\ args.from # args.to
        <3>1. HasTarget
            BY <2>3 DEF HasTarget
        <3> QED
            BY <2>1, <3>1, PrefixOf DEF CopiedSoFar, IInv, TargetHeld
    <2>4. pc = "overrun" => Len(disk[args.from]) >= LowRange
        BY DEF IInv, Progress, HasTarget
    <2> QED  BY <2>2, <2>3, <2>4 DEF CopyOutcome
<1> QED  BY <1>1, Invariance, PTL

\* For any number of objects on any files: who writes at the end of a file,
\* as after Append, overwrites nothing, though the end is a cached one.
THEOREM AppendingIsSafe == Spec => AppendingAdds
<1>1. IInv /\ [Next]_vars
      => [\A o \in Objects :
             (/\ obj[o].appending /\ ~obj[o].stale
              /\ obj'[o].pos > obj[o].pos
              /\ obj[o].file # NoFile)
             => IsPrefix(Content(o), disk'[obj[o].file])]_vars
    BY NextFine DEF AllAdd, Adds
<1> QED  BY <1>1, Invariance, PTL DEF Spec, AppendingAdds
=============================================================================
