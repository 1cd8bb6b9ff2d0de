----------------------------- MODULE LoaderProofs -----------------------------
(***************************************************************************)
(* Proofs about Loader for any loaders, executables and circumstances. The *)
(* inductive invariant says who has FVPLOG.ini open, that what it holds is *)
(* always a beginning of one record of a path the user chose, and, of a    *)
(* loader that runs alone without failures, how file and game agree.       *)
(***************************************************************************)
EXTENDS Loader, FiniteSetTheorems, SequenceTheorems, TLAPS

\* What WriteLogFile writes for e.
Record(e) == <<Mark, LengthOf[e], e, Off, Off, Off>>

PartOf(f, e) ==
    /\ f \in Seq(Cells)
    /\ Len(f) <= Fields
    /\ \A i \in 1 .. Len(f) : f[i] = Record(e)[i]

\* A loader has the file open where it reads or writes it, a writer alone.
Handles ==
    /\ \A l \in Loaders : open[l] = "read" <=> pc[l] = "reading"
    /\ \A l \in Loaders : open[l] = "write" <=> pc[l] = "writing"
    /\ \A l, m \in Loaders : open[l] = "write" /\ l # m => open[m] = "none"

\* The file never mixes two records.
OneRecord ==
    file \in {Absent, <<OtherMark>>} \/ \E e \in chosen : PartOf(file, e)

\* What a reader has read is still what the file holds.
ReaderAgrees ==
    \A l \in Loaders : pc[l] = "reading" =>
       /\ file # Absent
       /\ Len(file) >= field[l] - 1
       /\ field[l] > 1 => file[1] = Mark
       /\ field[l] > 2 => length[l] = file[2]
       /\ field[l] > 3 => path[l] = file[3]

\* A writer has written the fields before the one it is at, but for bMessage
\* when writing that has failed.
WriterAgrees ==
    \A l \in Loaders : pc[l] = "writing" =>
       /\ PartOf(file, path[l])
       /\ \/ Len(file) = field[l] - 1
          \/ Faults /\ field[l] = Fields /\ Len(file) = Fields - 2

\* Where a path is about to be started or written, the user chose it, but for
\* the one of a foreign file.
PathsChosen ==
    \A l \in Loaders :
       /\ arg[l] \in chosen \cup {NoExe}
       /\ pc[l] \in {"launchParam", "create", "writing", "launchDrop"} =>
             path[l] \in chosen
       /\ pc[l] = "launchConfig" => path[l] \in chosen \cup {Uninit}

\* The window is there from InitInstance on; loaders not run stay off.
Stages ==
    \A l \in Loaders :
       /\ pc[l] \in {"open", "reading", "launchConfig", "param",
                     "launchParam", "show"} => ~window[l]
       /\ pc[l] \in {"loop", "launchDrop", "delete"} => window[l]
       /\ l \notin world.loaders => pc[l] = "off"

Agrees ==
    lastPlayed \in Exes /\ LengthOf[lastPlayed] < MaxPath
       => Remembered = lastPlayed

\* How file and game agree in a loader that runs alone without failures.
QuietAgrees ==
    Quiet => \A l \in world.loaders :
       /\ pc[l] \notin {"create", "writing"} => Agrees
       /\ pc[l] = "launchConfig" /\ path[l] \in Exes => Remembered = path[l]
       /\ pc[l] \in {"create", "writing"} =>
             IF window[l] THEN lastPlayed = NoExe ELSE lastPlayed = path[l]
       /\ pc[l] \in {"create", "writing", "launchDrop"} /\ window[l] =>
             LengthOf[path[l]] < MaxPath
       /\ pc[l] = "launchDrop" => file = Record(path[l])
       /\ pc[l] \in {"launchDrop", "delete"} => lastPlayed = NoExe
       /\ pc[l] = "loop" /\ path[l] \in Exes \ Startable => file = Absent

IInv ==
    /\ TypeOK
    /\ Handles
    /\ OneRecord
    /\ ReaderAgrees
    /\ WriterAgrees
    /\ PathsChosen
    /\ OnlyChosenLaunched
    /\ Stages
    /\ QuietAgrees
-----------------------------------------------------------------------------
(***************************************************************************)
(* Facts the proofs share.                                                 *)
(***************************************************************************)

\* The loader that runs where only one does.
LEMMA QuietLoader ==
    ASSUME TypeOK, Quiet, NEW l \in world.loaders
    PROVE  world.loaders = {l}
<1>1. IsFiniteSet(world.loaders)
  <2>1. world.loaders \subseteq Loaders  BY LoaderAssumption DEF TypeOK
  <2> QED  BY <2>1, FS_Subset, LoaderAssumption
<1> QED  BY <1>1, FS_Singleton DEF Quiet

\* A reader past the mark reads one record of a path the user chose.
LEMMA ReadFacts ==
    ASSUME TypeOK, OneRecord, ReaderAgrees,
           NEW l \in Loaders, pc[l] = "reading", field[l] > 1,
           Len(file) >= field[l]
    PROVE  \E e \in chosen : /\ file[2] = LengthOf[e]
                             /\ field[l] >= 3 => file[3] = e
<1>1. file # Absent /\ file[1] = Mark  BY DEF ReaderAgrees
<1>2. file \in Seq(Cells) /\ Len(file) \in Nat
  <2>1. file \in Seq(Cells)  BY <1>1 DEF TypeOK
  <2> QED  BY <2>1
<1>3. field[l] \in Nat
  <2>1. field[l] \in 1 .. Fields  BY DEF TypeOK
  <2> QED  BY <2>1 DEF Fields
<1>4. file \notin {Absent, <<OtherMark>>}
  BY <1>1, LoaderAssumption DEF ReaderAgrees
<1>5. PICK e \in chosen : PartOf(file, e)  BY <1>4 DEF OneRecord
<1>6. Record(e)[2] = LengthOf[e] /\ Record(e)[3] = e  BY DEF Record
<1>7. 2 \in 1 .. Len(file) /\ (field[l] >= 3 => 3 \in 1 .. Len(file))
  BY <1>2, <1>3
<1> QED  BY <1>5, <1>6, <1>7 DEF PartOf

\* The fields of a record may be cells of the file.
LEMMA RecordCells ==
    ASSUME NEW e \in Exes
    PROVE  Record(e) \in Seq(Cells) /\ Len(Record(e)) = Fields
<1>1. \A c \in {Mark, LengthOf[e], e, Off} : c \in Cells  BY DEF Cells
<1> QED  BY <1>1 DEF Record, Fields

LEMMA RecordFields ==
    ASSUME NEW e \in Exes, NEW f, f = Record(e)
    PROVE  f[2] = LengthOf[e] /\ f[3] = e
BY DEF Record

\* The next field, or bFont in place of bMessage, keeps it a part.
LEMMA PartGrows ==
    ASSUME NEW f \in Seq(Cells), NEW e \in Exes, PartOf(f, e),
           NEW k \in 1 .. Fields,
           \/ Len(f) = k - 1
           \/ k = Fields /\ Len(f) = Fields - 2
    PROVE  LET g == Append(f, Record(e)[k]) IN
           g \in Seq(Cells) /\ Len(g) = Len(f) + 1 /\ PartOf(g, e)
<1> DEFINE g == Append(f, Record(e)[k])
           n == Len(f)
<1>1. n \in Nat  OBVIOUS
<1>2. n \in 0 .. Fields - 1 /\ (n = k - 1 \/ (k = 6 /\ n = 4))
  <2> HIDE DEF n
  <2>1. n = k - 1 \/ (k = Fields /\ n = Fields - 2)  BY DEF n
  <2> QED  BY <1>1, <2>1 DEF Fields
<1>3. Record(e)[k] = Record(e)[n + 1]
  <2> HIDE DEF n
  <2>1. CASE n = k - 1
    <3>1. n + 1 = k  BY <1>1, <2>1 DEF Fields
    <3> QED  BY <3>1
  <2>2. CASE k = 6 /\ n = 4  BY <2>2 DEF Record
  <2> QED  BY <1>2, <2>1, <2>2
<1>4. Record(e)[k] \in Cells  BY RecordCells DEF Fields
<1>5. /\ g \in Seq(Cells) /\ Len(g) = n + 1 /\ g[n + 1] = Record(e)[k]
      /\ \A i \in 1 .. n : g[i] = f[i]
  BY <1>4, AppendProperties
<1>6. \A i \in 1 .. n : f[i] = Record(e)[i]  BY DEF PartOf
<1>7. PartOf(g, e)
  <2> HIDE DEF g, n
  <2>1. Len(g) <= Fields  BY <1>1, <1>2, <1>5 DEF Fields
  <2>2. ASSUME NEW i \in 1 .. Len(g)  PROVE g[i] = Record(e)[i]
    <3>1. i = n + 1 \/ i \in 1 .. n  BY <1>1, <1>5
    <3> QED  BY <1>3, <1>5, <1>6, <3>1
  <2> QED  BY <1>5, <2>1, <2>2 DEF PartOf
<1> QED  BY <1>5, <1>7

\* As many fields as a record has make the record.
LEMMA WholeRecord ==
    ASSUME NEW f, NEW e \in Exes, PartOf(f, e), Len(f) = Fields
    PROVE  f = Record(e) /\ f # Absent
<1>1. f \in Seq(Cells) /\ Record(e) \in Seq(Cells)
  BY RecordCells DEF PartOf
<1>2. Len(f) = Len(Record(e))  BY RecordCells
<1>3. \A i \in 1 .. Len(f) : f[i] = Record(e)[i]  BY DEF PartOf
<1>4. f = Record(e)  BY <1>1, <1>2, <1>3, SeqEqual
<1> QED  BY <1>1, <1>4, LoaderAssumption

-----------------------------------------------------------------------------
(***************************************************************************)
(* The invariant holds at first and every action of a loader keeps it.     *)
(***************************************************************************)
LEMMA InitInv == Init => IInv
<1> SUFFICES ASSUME Init PROVE IInv
  OBVIOUS
<1> USE LoaderAssumption DEF Init
<1>1. TypeOK
  <2>1. <<OtherMark>> \in Seq(Cells) /\ Len(<<OtherMark>>) = 1
    BY DEF Cells
  <2>2. /\ file = Absent \/ file \in Seq(Cells)
        /\ file # Absent => Len(file) <= Fields
    <3>1. CASE file = Absent  BY <3>1
    <3>2. CASE file = <<OtherMark>>
      <4>1. Len(file) = 1  BY <3>2
      <4> QED  BY <2>1, <3>2, <4>1 DEF Fields
    <3> QED  BY <3>1, <3>2
  <2>3. /\ field \in [Loaders -> 1 .. Fields]
        /\ length \in [Loaders -> 0 .. MaxPath]
    BY DEF Fields
  <2> QED  BY <2>2, <2>3 DEF TypeOK, Paths
<1>2. Handles /\ OneRecord /\ ReaderAgrees /\ WriterAgrees
  BY DEF Handles, OneRecord, ReaderAgrees, WriterAgrees
<1>3. PathsChosen /\ OnlyChosenLaunched /\ Stages
  BY DEF PathsChosen, OnlyChosenLaunched, Stages
<1>4. QuietAgrees  BY DEF QuietAgrees, Agrees
<1> QED  BY <1>1, <1>2, <1>3, <1>4 DEF IInv

LEMMA StartKeeps ==
    ASSUME IInv, NEW l \in world.loaders, Start(l), UNCHANGED world
    PROVE  IInv'
<1> USE LoaderAssumption DEF Start, Goto, config, history, IInv
<1>0. l \in Loaders  BY DEF TypeOK
<1>1. TypeOK'  BY <1>0 DEF TypeOK, Paths, Fields
<1>2. Handles'  BY <1>0 DEF TypeOK, Handles
<1>3. OneRecord'  BY <1>0 DEF TypeOK, OneRecord
<1>4. ReaderAgrees'  BY <1>0 DEF TypeOK, Handles, ReaderAgrees, Fields
<1>5. WriterAgrees'  BY <1>0 DEF TypeOK, Handles, WriterAgrees, Faults
<1>6. PathsChosen'  BY <1>0 DEF TypeOK, PathsChosen
<1>7. OnlyChosenLaunched'  BY <1>0 DEF TypeOK, OnlyChosenLaunched, PathsChosen
<1>8. Stages'  BY <1>0 DEF TypeOK, Stages
<1>9. QuietAgrees'
  <2> SUFFICES ASSUME Quiet, world.loaders = {l}
               PROVE  QuietAgrees'
    BY QuietLoader DEF QuietAgrees, Quiet, Faults
  <2> QED  BY <1>0 DEF TypeOK, QuietAgrees, Agrees, Remembered, Quiet,
                       Stages, Faults, Fields
<1> QED  BY <1>1, <1>2, <1>3, <1>4, <1>5, <1>6, <1>7, <1>8, <1>9

LEMMA OpenConfigKeeps ==
    ASSUME IInv, NEW l \in world.loaders, OpenConfig(l), UNCHANGED world
    PROVE  IInv'
<1> USE LoaderAssumption DEF OpenConfig, Goto, Access, MayRead, config,
                             history, IInv
<1>0. l \in Loaders  BY DEF TypeOK
<1>1. TypeOK'  BY <1>0 DEF TypeOK, Paths, Fields
<1>2. Handles'  BY <1>0 DEF TypeOK, Handles
<1>3. OneRecord'  BY <1>0 DEF TypeOK, OneRecord
<1>4. ReaderAgrees'  BY <1>0 DEF TypeOK, Handles, ReaderAgrees, Fields
<1>5. WriterAgrees'  BY <1>0 DEF TypeOK, Handles, WriterAgrees, Faults
<1>6. PathsChosen'  BY <1>0 DEF TypeOK, PathsChosen
<1>7. OnlyChosenLaunched'  BY <1>0 DEF TypeOK, OnlyChosenLaunched, PathsChosen
<1>8. Stages'  BY <1>0 DEF TypeOK, Stages
<1>9. QuietAgrees'
  <2> SUFFICES ASSUME Quiet, world.loaders = {l}
               PROVE  QuietAgrees'
    BY QuietLoader DEF QuietAgrees, Quiet, Faults
  <2> QED  BY <1>0 DEF TypeOK, QuietAgrees, Agrees, Remembered, Quiet,
                       Stages, Faults, Fields
<1> QED  BY <1>1, <1>2, <1>3, <1>4, <1>5, <1>6, <1>7, <1>8, <1>9

LEMMA NoConfigKeeps ==
    ASSUME IInv, NEW l \in world.loaders, NoConfig(l), UNCHANGED world
    PROVE  IInv'
<1> USE LoaderAssumption DEF NoConfig, Goto, MayRead, config, history, IInv
<1>0. l \in Loaders  BY DEF TypeOK
<1>1. TypeOK'  BY <1>0 DEF TypeOK, Paths, Fields
<1>2. Handles'  BY <1>0 DEF TypeOK, Handles
<1>3. OneRecord'  BY <1>0 DEF TypeOK, OneRecord
<1>4. ReaderAgrees'  BY <1>0 DEF TypeOK, Handles, ReaderAgrees, Fields
<1>5. WriterAgrees'  BY <1>0 DEF TypeOK, Handles, WriterAgrees, Faults
<1>6. PathsChosen'  BY <1>0 DEF TypeOK, PathsChosen
<1>7. OnlyChosenLaunched'  BY <1>0 DEF TypeOK, OnlyChosenLaunched, PathsChosen
<1>8. Stages'  BY <1>0 DEF TypeOK, Stages
<1>9. QuietAgrees'
  <2> SUFFICES ASSUME Quiet, world.loaders = {l}
               PROVE  QuietAgrees'
    BY QuietLoader DEF QuietAgrees, Quiet, Faults
  <2> QED  BY <1>0 DEF TypeOK, QuietAgrees, Agrees, Remembered, Quiet,
                       Stages, Faults, Fields
<1> QED  BY <1>1, <1>2, <1>3, <1>4, <1>5, <1>6, <1>7, <1>8, <1>9

LEMMA ReadMarkKeeps ==
    ASSUME IInv, NEW l \in world.loaders, ReadMark(l), UNCHANGED world
    PROVE  IInv'
<1> USE LoaderAssumption DEF ReadMark, ReadField, NextField, config, history,
                             IInv
<1>0. l \in Loaders  BY DEF TypeOK
<1>1. TypeOK'  BY <1>0 DEF TypeOK, Paths, Fields
<1>2. Handles'  BY <1>0 DEF TypeOK, Handles
<1>3. OneRecord'  BY <1>0 DEF TypeOK, OneRecord
<1>4. ReaderAgrees'  BY <1>0 DEF TypeOK, Handles, ReaderAgrees, Fields
<1>5. WriterAgrees'  BY <1>0 DEF TypeOK, Handles, WriterAgrees, Faults
<1>6. PathsChosen'  BY <1>0 DEF TypeOK, PathsChosen
<1>7. OnlyChosenLaunched'  BY <1>0 DEF TypeOK, OnlyChosenLaunched, PathsChosen
<1>8. Stages'  BY <1>0 DEF TypeOK, Stages
<1>9. QuietAgrees'
  <2> SUFFICES ASSUME Quiet, world.loaders = {l}
               PROVE  QuietAgrees'
    BY QuietLoader DEF QuietAgrees, Quiet, Faults
  <2> QED  BY <1>0 DEF TypeOK, QuietAgrees, Agrees, Remembered, Quiet,
                       Stages, Faults, Fields
<1> QED  BY <1>1, <1>2, <1>3, <1>4, <1>5, <1>6, <1>7, <1>8, <1>9

LEMMA WrongMarkKeeps ==
    ASSUME IInv, NEW l \in world.loaders, WrongMark(l), UNCHANGED world
    PROVE  IInv'
<1> USE LoaderAssumption DEF WrongMark, Goto, ReadField, Close, Access,
                             config, history, IInv
<1>0. l \in Loaders  BY DEF TypeOK
<1>1. TypeOK'  BY <1>0 DEF TypeOK, Paths, Fields
<1>2. Handles'  BY <1>0 DEF TypeOK, Handles
<1>3. OneRecord'  BY <1>0 DEF TypeOK, OneRecord
<1>4. ReaderAgrees'  BY <1>0 DEF TypeOK, Handles, ReaderAgrees, Fields
<1>5. WriterAgrees'  BY <1>0 DEF TypeOK, Handles, WriterAgrees, Faults
<1>6. PathsChosen'  BY <1>0 DEF TypeOK, PathsChosen
<1>7. OnlyChosenLaunched'  BY <1>0 DEF TypeOK, OnlyChosenLaunched, PathsChosen
<1>8. Stages'  BY <1>0 DEF TypeOK, Stages
<1>9. QuietAgrees'
  <2> SUFFICES ASSUME Quiet, world.loaders = {l}
               PROVE  QuietAgrees'
    BY QuietLoader DEF QuietAgrees, Quiet, Faults
  <2> QED  BY <1>0 DEF TypeOK, QuietAgrees, Agrees, Remembered, Quiet,
                       Stages, Faults, Fields
<1> QED  BY <1>1, <1>2, <1>3, <1>4, <1>5, <1>6, <1>7, <1>8, <1>9

LEMMA ReadLengthKeeps ==
    ASSUME IInv, NEW l \in world.loaders, ReadLength(l), UNCHANGED world
    PROVE  IInv'
<1> USE LoaderAssumption DEF ReadLength, ReadField, NextField, config,
                             history, IInv
<1>0. l \in Loaders  BY DEF TypeOK
<1>1. TypeOK'
  <2>1. PICK e \in chosen : file[2] = LengthOf[e]
    BY <1>0, ReadFacts DEF ReaderAgrees
  <2> QED  BY <1>0, <2>1 DEF TypeOK, Paths, Fields
<1>2. Handles'  BY <1>0 DEF TypeOK, Handles
<1>3. OneRecord'  BY <1>0 DEF TypeOK, OneRecord
<1>4. ReaderAgrees'  BY <1>0 DEF TypeOK, Handles, ReaderAgrees, Fields
<1>5. WriterAgrees'  BY <1>0 DEF TypeOK, Handles, WriterAgrees, Faults
<1>6. PathsChosen'  BY <1>0 DEF TypeOK, PathsChosen
<1>7. OnlyChosenLaunched'  BY <1>0 DEF TypeOK, OnlyChosenLaunched, PathsChosen
<1>8. Stages'  BY <1>0 DEF TypeOK, Stages
<1>9. QuietAgrees'
  <2> SUFFICES ASSUME Quiet, world.loaders = {l}
               PROVE  QuietAgrees'
    BY QuietLoader DEF QuietAgrees, Quiet, Faults
  <2> QED  BY <1>0 DEF TypeOK, QuietAgrees, Agrees, Remembered, Quiet,
                       Stages, Faults, Fields
<1> QED  BY <1>1, <1>2, <1>3, <1>4, <1>5, <1>6, <1>7, <1>8, <1>9

LEMMA LongPathKeeps ==
    ASSUME IInv, NEW l \in world.loaders, LongPath(l), UNCHANGED world
    PROVE  IInv'
<1> USE LoaderAssumption DEF LongPath, Goto, ReadField, Close, Access,
                             config, history, IInv
<1>0. l \in Loaders  BY DEF TypeOK
<1>1. TypeOK'  BY <1>0 DEF TypeOK, Paths, Fields
<1>2. Handles'  BY <1>0 DEF TypeOK, Handles
<1>3. OneRecord'  BY <1>0 DEF TypeOK, OneRecord
<1>4. ReaderAgrees'  BY <1>0 DEF TypeOK, Handles, ReaderAgrees, Fields
<1>5. WriterAgrees'  BY <1>0 DEF TypeOK, Handles, WriterAgrees, Faults
<1>6. PathsChosen'  BY <1>0 DEF TypeOK, PathsChosen
<1>7. OnlyChosenLaunched'  BY <1>0 DEF TypeOK, OnlyChosenLaunched, PathsChosen
<1>8. Stages'  BY <1>0 DEF TypeOK, Stages
<1>9. QuietAgrees'
  <2> SUFFICES ASSUME Quiet, world.loaders = {l}
               PROVE  QuietAgrees'
    BY QuietLoader DEF QuietAgrees, Quiet, Faults
  <2> QED  BY <1>0 DEF TypeOK, QuietAgrees, Agrees, Remembered, Quiet,
                       Stages, Faults, Fields
<1> QED  BY <1>1, <1>2, <1>3, <1>4, <1>5, <1>6, <1>7, <1>8, <1>9

LEMMA ReadPathKeeps ==
    ASSUME IInv, NEW l \in world.loaders, ReadPath(l), UNCHANGED world
    PROVE  IInv'
<1> USE LoaderAssumption DEF ReadPath, ReadField, NextField, config, history,
                             IInv
<1>0. l \in Loaders  BY DEF TypeOK
<1>a. PICK e \in chosen : /\ file[2] = LengthOf[e] /\ file[3] = e
                           /\ length[l] = LengthOf[e]
  BY <1>0, ReadFacts DEF ReaderAgrees
<1>b. path' = [path EXCEPT ![l] = file[3]] /\ file[3] \in chosen  BY <1>a
<1>1. TypeOK'
  BY <1>0, <1>b DEF TypeOK, Paths, Fields
<1>2. Handles'  BY <1>0 DEF TypeOK, Handles
<1>3. OneRecord'  BY <1>0 DEF TypeOK, OneRecord
<1>4. ReaderAgrees'
  BY <1>0, <1>b DEF TypeOK, Handles, ReaderAgrees, Fields
<1>5. WriterAgrees'  BY <1>0 DEF TypeOK, Handles, WriterAgrees, Faults
<1>6. PathsChosen'  BY <1>0 DEF TypeOK, PathsChosen
<1>7. OnlyChosenLaunched'  BY <1>0 DEF TypeOK, OnlyChosenLaunched, PathsChosen
<1>8. Stages'  BY <1>0 DEF TypeOK, Stages
<1>9. QuietAgrees'
  <2> SUFFICES ASSUME Quiet, world.loaders = {l}
               PROVE  QuietAgrees'
    BY QuietLoader DEF QuietAgrees, Quiet, Faults
  <2> QED  BY <1>0 DEF TypeOK, QuietAgrees, Agrees, Remembered, Quiet,
                       Stages, Faults, Fields
<1> QED  BY <1>1, <1>2, <1>3, <1>4, <1>5, <1>6, <1>7, <1>8, <1>9

LEMMA ReadFlagKeeps ==
    ASSUME IInv, NEW l \in world.loaders, ReadFlag(l), UNCHANGED world
    PROVE  IInv'
<1> USE LoaderAssumption DEF ReadFlag, ReadField, NextField, config, history,
                             IInv
<1>0. l \in Loaders  BY DEF TypeOK
<1>1. TypeOK'  BY <1>0 DEF TypeOK, Paths, Fields
<1>2. Handles'  BY <1>0 DEF TypeOK, Handles
<1>3. OneRecord'  BY <1>0 DEF TypeOK, OneRecord
<1>4. ReaderAgrees'  BY <1>0 DEF TypeOK, Handles, ReaderAgrees, Fields
<1>5. WriterAgrees'  BY <1>0 DEF TypeOK, Handles, WriterAgrees, Faults
<1>6. PathsChosen'  BY <1>0 DEF TypeOK, PathsChosen
<1>7. OnlyChosenLaunched'  BY <1>0 DEF TypeOK, OnlyChosenLaunched, PathsChosen
<1>8. Stages'  BY <1>0 DEF TypeOK, Stages
<1>9. QuietAgrees'
  <2> SUFFICES ASSUME Quiet, world.loaders = {l}
               PROVE  QuietAgrees'
    BY QuietLoader DEF QuietAgrees, Quiet, Faults
  <2> QED  BY <1>0 DEF TypeOK, QuietAgrees, Agrees, Remembered, Quiet,
                       Stages, Faults, Fields
<1> QED  BY <1>1, <1>2, <1>3, <1>4, <1>5, <1>6, <1>7, <1>8, <1>9

LEMMA ReadLastFlagKeeps ==
    ASSUME IInv, NEW l \in world.loaders, ReadLastFlag(l), UNCHANGED world
    PROVE  IInv'
<1> USE LoaderAssumption DEF ReadLastFlag, Goto, ReadField, Close, Access,
                             config, history, IInv
<1>0. l \in Loaders  BY DEF TypeOK
<1>a. PICK e \in chosen : /\ file[2] = LengthOf[e] /\ path[l] = e
                           /\ file[3] = e /\ length[l] = LengthOf[e]
  BY <1>0, ReadFacts DEF ReaderAgrees, Fields
<1>1. TypeOK'  BY <1>0 DEF TypeOK, Paths, Fields
<1>2. Handles'  BY <1>0 DEF TypeOK, Handles
<1>3. OneRecord'  BY <1>0 DEF TypeOK, OneRecord
<1>4. ReaderAgrees'  BY <1>0 DEF TypeOK, Handles, ReaderAgrees, Fields
<1>5. WriterAgrees'  BY <1>0 DEF TypeOK, Handles, WriterAgrees, Faults
<1>6. PathsChosen'
  BY <1>0, <1>a DEF TypeOK, PathsChosen
<1>7. OnlyChosenLaunched'  BY <1>0 DEF TypeOK, OnlyChosenLaunched, PathsChosen
<1>8. Stages'  BY <1>0 DEF TypeOK, Stages
<1>9. QuietAgrees'
  <2> SUFFICES ASSUME Quiet, world.loaders = {l}
               PROVE  QuietAgrees'
    BY QuietLoader DEF QuietAgrees, Quiet, Faults
  <2>1. file # Absent /\ file \in Seq(Cells)
    BY <1>0 DEF TypeOK, ReaderAgrees
  <2>2. Len(file) = Fields
    <3>1. Len(file) \in Nat  BY <2>1
    <3>2. Len(file) >= 6 /\ Len(file) <= 6  BY <2>1 DEF TypeOK, Fields
    <3>3. \A n \in Nat : n >= 6 /\ n <= 6 => n = 6  OBVIOUS
    <3> QED  BY <3>1, <3>2, <3>3 DEF Fields
  <2>3. length[l] <= MaxPath  BY <1>0 DEF TypeOK
  <2>4. Remembered = path[l]
    BY <1>a, <2>1, <2>2, <2>3 DEF Remembered
  <2> QED  BY <1>0, <2>4 DEF TypeOK, QuietAgrees, Agrees, Remembered, Quiet,
                             Stages, Faults
<1> QED  BY <1>1, <1>2, <1>3, <1>4, <1>5, <1>6, <1>7, <1>8, <1>9

LEMMA ReadFailsKeeps ==
    ASSUME IInv, NEW l \in world.loaders, ReadFails(l), UNCHANGED world
    PROVE  IInv'
<1> USE LoaderAssumption DEF ReadFails, Goto, Close, Access, config, history,
                             IInv
<1>0. l \in Loaders  BY DEF TypeOK
<1>1. TypeOK'  BY <1>0 DEF TypeOK, Paths, Fields
<1>2. Handles'  BY <1>0 DEF TypeOK, Handles
<1>3. OneRecord'  BY <1>0 DEF TypeOK, OneRecord
<1>4. ReaderAgrees'  BY <1>0 DEF TypeOK, Handles, ReaderAgrees, Fields
<1>5. WriterAgrees'  BY <1>0 DEF TypeOK, Handles, WriterAgrees, Faults
<1>6. PathsChosen'  BY <1>0 DEF TypeOK, PathsChosen
<1>7. OnlyChosenLaunched'  BY <1>0 DEF TypeOK, OnlyChosenLaunched, PathsChosen
<1>8. Stages'  BY <1>0 DEF TypeOK, Stages
<1>9. QuietAgrees'
  <2> SUFFICES ASSUME Quiet, world.loaders = {l}
               PROVE  QuietAgrees'
    BY QuietLoader DEF QuietAgrees, Quiet, Faults
  <2> QED  BY <1>0 DEF TypeOK, QuietAgrees, Agrees, Remembered, Quiet,
                       Stages, Faults, Fields
<1> QED  BY <1>1, <1>2, <1>3, <1>4, <1>5, <1>6, <1>7, <1>8, <1>9

LEMMA LaunchConfigKeeps ==
    ASSUME IInv, NEW l \in world.loaders, LaunchConfig(l), UNCHANGED world
    PROVE  IInv'
<1> USE LoaderAssumption DEF LaunchConfig, Goto, Launch, LaunchFails, config,
                             history, IInv
<1>0. l \in Loaders  BY DEF TypeOK
<1>1. TypeOK'
  <2>1. lastPlayed' \in Paths  BY <1>0 DEF TypeOK, Paths
  <2>2. CASE Goto(l, "launchConfig", "off")
    BY <1>0, <2>1, <2>2 DEF TypeOK
  <2>3. CASE Goto(l, "launchConfig", "param")
    BY <1>0, <2>1, <2>3 DEF TypeOK
  <2> QED  BY <2>2, <2>3
<1>2. Handles'  BY <1>0 DEF TypeOK, Handles
<1>3. OneRecord'  BY <1>0 DEF TypeOK, OneRecord
<1>4. ReaderAgrees'  BY <1>0 DEF TypeOK, Handles, ReaderAgrees, Fields
<1>5. WriterAgrees'  BY <1>0 DEF TypeOK, Handles, WriterAgrees, Faults
<1>6. PathsChosen'  BY <1>0 DEF TypeOK, PathsChosen
<1>7. OnlyChosenLaunched'  BY <1>0 DEF TypeOK, OnlyChosenLaunched, PathsChosen
<1>8. Stages'  BY <1>0 DEF TypeOK, Stages
<1>9. QuietAgrees'
  <2> SUFFICES ASSUME Quiet, world.loaders = {l}
               PROVE  QuietAgrees'
    BY QuietLoader DEF QuietAgrees, Quiet, Faults
  <2> QED  BY <1>0 DEF TypeOK, QuietAgrees, Agrees, Remembered, Quiet,
                       Stages, Faults, Fields
<1> QED  BY <1>1, <1>2, <1>3, <1>4, <1>5, <1>6, <1>7, <1>8, <1>9

LEMMA UseParamKeeps ==
    ASSUME IInv, NEW l \in world.loaders, UseParam(l), UNCHANGED world
    PROVE  IInv'
<1> USE LoaderAssumption DEF UseParam, Goto, config, history, IInv
<1>0. l \in Loaders  BY DEF TypeOK
<1>1. TypeOK'  BY <1>0 DEF TypeOK, Paths, Fields
<1>2. Handles'  BY <1>0 DEF TypeOK, Handles
<1>3. OneRecord'  BY <1>0 DEF TypeOK, OneRecord
<1>4. ReaderAgrees'  BY <1>0 DEF TypeOK, Handles, ReaderAgrees, Fields
<1>5. WriterAgrees'  BY <1>0 DEF TypeOK, Handles, WriterAgrees, Faults
<1>6. PathsChosen'  BY <1>0 DEF TypeOK, PathsChosen
<1>7. OnlyChosenLaunched'  BY <1>0 DEF TypeOK, OnlyChosenLaunched, PathsChosen
<1>8. Stages'  BY <1>0 DEF TypeOK, Stages
<1>9. QuietAgrees'
  <2> SUFFICES ASSUME Quiet, world.loaders = {l}
               PROVE  QuietAgrees'
    BY QuietLoader DEF QuietAgrees, Quiet, Faults
  <2> QED  BY <1>0 DEF TypeOK, QuietAgrees, Agrees, Remembered, Quiet,
                       Stages, Faults, Fields
<1> QED  BY <1>1, <1>2, <1>3, <1>4, <1>5, <1>6, <1>7, <1>8, <1>9

LEMMA LaunchParamKeeps ==
    ASSUME IInv, NEW l \in world.loaders, LaunchParam(l), UNCHANGED world
    PROVE  IInv'
<1> USE LoaderAssumption DEF LaunchParam, Goto, Launch, LaunchFails, config,
                             history, IInv
<1>0. l \in Loaders  BY DEF TypeOK
<1>1. TypeOK'
  <2>1. lastPlayed' \in Paths  BY <1>0 DEF TypeOK, Paths
  <2>2. CASE Goto(l, "launchParam", "create")
    BY <1>0, <2>1, <2>2 DEF TypeOK
  <2>3. CASE Goto(l, "launchParam", "show")
    BY <1>0, <2>1, <2>3 DEF TypeOK
  <2> QED  BY <2>2, <2>3
<1>2. Handles'  BY <1>0 DEF TypeOK, Handles
<1>3. OneRecord'  BY <1>0 DEF TypeOK, OneRecord
<1>4. ReaderAgrees'  BY <1>0 DEF TypeOK, Handles, ReaderAgrees, Fields
<1>5. WriterAgrees'  BY <1>0 DEF TypeOK, Handles, WriterAgrees, Faults
<1>6. PathsChosen'  BY <1>0 DEF TypeOK, PathsChosen
<1>7. OnlyChosenLaunched'  BY <1>0 DEF TypeOK, OnlyChosenLaunched, PathsChosen
<1>8. Stages'  BY <1>0 DEF TypeOK, Stages
<1>9. QuietAgrees'
  <2> SUFFICES ASSUME Quiet, world.loaders = {l}
               PROVE  QuietAgrees'
    BY QuietLoader DEF QuietAgrees, Quiet, Faults
  <2> QED  BY <1>0 DEF TypeOK, QuietAgrees, Agrees, Remembered, Quiet,
                       Stages, Faults, Fields
<1> QED  BY <1>1, <1>2, <1>3, <1>4, <1>5, <1>6, <1>7, <1>8, <1>9

LEMMA NoParamKeeps ==
    ASSUME IInv, NEW l \in world.loaders, NoParam(l), UNCHANGED world
    PROVE  IInv'
<1> USE LoaderAssumption DEF NoParam, Goto, config, history, IInv
<1>0. l \in Loaders  BY DEF TypeOK
<1>1. TypeOK'  BY <1>0 DEF TypeOK, Paths, Fields
<1>2. Handles'  BY <1>0 DEF TypeOK, Handles
<1>3. OneRecord'  BY <1>0 DEF TypeOK, OneRecord
<1>4. ReaderAgrees'  BY <1>0 DEF TypeOK, Handles, ReaderAgrees, Fields
<1>5. WriterAgrees'  BY <1>0 DEF TypeOK, Handles, WriterAgrees, Faults
<1>6. PathsChosen'  BY <1>0 DEF TypeOK, PathsChosen
<1>7. OnlyChosenLaunched'  BY <1>0 DEF TypeOK, OnlyChosenLaunched, PathsChosen
<1>8. Stages'  BY <1>0 DEF TypeOK, Stages
<1>9. QuietAgrees'
  <2> SUFFICES ASSUME Quiet, world.loaders = {l}
               PROVE  QuietAgrees'
    BY QuietLoader DEF QuietAgrees, Quiet, Faults
  <2> QED  BY <1>0 DEF TypeOK, QuietAgrees, Agrees, Remembered, Quiet,
                       Stages, Faults, Fields
<1> QED  BY <1>1, <1>2, <1>3, <1>4, <1>5, <1>6, <1>7, <1>8, <1>9

LEMMA ShowWindowKeeps ==
    ASSUME IInv, NEW l \in world.loaders, ShowWindow(l), UNCHANGED world
    PROVE  IInv'
<1> USE LoaderAssumption DEF ShowWindow, Goto, config, history, IInv
<1>0. l \in Loaders  BY DEF TypeOK
<1>1. TypeOK'
  <2>1. path' \in [Loaders -> Paths]  BY <1>0 DEF TypeOK, Paths
  <2>2. CASE Goto(l, "show", "loop") /\ window' = [window EXCEPT ![l] = TRUE]
    BY <1>0, <2>1, <2>2 DEF TypeOK
  <2>3. CASE Goto(l, "show", "off") /\ UNCHANGED window
    BY <1>0, <2>1, <2>3 DEF TypeOK
  <2> QED  BY <2>2, <2>3
<1>2. Handles'  BY <1>0 DEF TypeOK, Handles
<1>3. OneRecord'  BY <1>0 DEF TypeOK, OneRecord
<1>4. ReaderAgrees'  BY <1>0 DEF TypeOK, Handles, ReaderAgrees, Fields
<1>5. WriterAgrees'  BY <1>0 DEF TypeOK, Handles, WriterAgrees, Faults
<1>6. PathsChosen'  BY <1>0 DEF TypeOK, PathsChosen
<1>7. OnlyChosenLaunched'  BY <1>0 DEF TypeOK, OnlyChosenLaunched, PathsChosen
<1>8. Stages'  BY <1>0 DEF TypeOK, Stages
<1>9. QuietAgrees'
  <2> SUFFICES ASSUME Quiet, world.loaders = {l}
               PROVE  QuietAgrees'
    BY QuietLoader DEF QuietAgrees, Quiet, Faults
  <2> QED  BY <1>0 DEF TypeOK, QuietAgrees, Agrees, Remembered, Quiet,
                       Stages, Faults, Fields
<1> QED  BY <1>1, <1>2, <1>3, <1>4, <1>5, <1>6, <1>7, <1>8, <1>9

LEMMA CreateKeeps ==
    ASSUME IInv, NEW l \in world.loaders, Create(l), UNCHANGED world
    PROVE  IInv'
<1> USE LoaderAssumption DEF Create, Goto, Access, MayWrite, config, history,
                             IInv
<1>0. l \in Loaders  BY DEF TypeOK
<1>a. <<>> \in Seq(Cells) /\ Len(<<>>) = 0  OBVIOUS
<1>b. path[l] \in chosen /\ PartOf(file', path[l])
  BY <1>0, <1>a DEF PathsChosen, PartOf, Fields
<1>1. TypeOK'  BY <1>0 DEF TypeOK, Paths, Fields
<1>2. Handles'  BY <1>0 DEF TypeOK, Handles
<1>3. OneRecord'
  BY <1>b DEF OneRecord
<1>4. ReaderAgrees'  BY <1>0 DEF TypeOK, Handles, ReaderAgrees, Fields
<1>5. WriterAgrees'
  BY <1>0, <1>a, <1>b DEF TypeOK, Handles, WriterAgrees, Faults
<1>6. PathsChosen'  BY <1>0 DEF TypeOK, PathsChosen
<1>7. OnlyChosenLaunched'  BY <1>0 DEF TypeOK, OnlyChosenLaunched, PathsChosen
<1>8. Stages'  BY <1>0 DEF TypeOK, Stages
<1>9. QuietAgrees'
  <2> SUFFICES ASSUME Quiet, world.loaders = {l}
               PROVE  QuietAgrees'
    BY QuietLoader DEF QuietAgrees, Quiet, Faults
  <2> QED  BY <1>0 DEF TypeOK, QuietAgrees, Agrees, Remembered, Quiet,
                       Stages, Faults, Fields
<1> QED  BY <1>1, <1>2, <1>3, <1>4, <1>5, <1>6, <1>7, <1>8, <1>9

LEMMA CreateFailsKeeps ==
    ASSUME IInv, NEW l \in world.loaders, CreateFails(l), UNCHANGED world
    PROVE  IInv'
<1> USE LoaderAssumption DEF CreateFails, Goto, MayWrite, AfterWrite, config,
                             history, IInv
<1>0. l \in Loaders  BY DEF TypeOK
<1>1. TypeOK'  BY <1>0 DEF TypeOK, Paths, Fields
<1>2. Handles'  BY <1>0 DEF TypeOK, Handles
<1>3. OneRecord'  BY <1>0 DEF TypeOK, OneRecord
<1>4. ReaderAgrees'  BY <1>0 DEF TypeOK, Handles, ReaderAgrees, Fields
<1>5. WriterAgrees'  BY <1>0 DEF TypeOK, Handles, WriterAgrees, Faults
<1>6. PathsChosen'  BY <1>0 DEF TypeOK, PathsChosen
<1>7. OnlyChosenLaunched'  BY <1>0 DEF TypeOK, OnlyChosenLaunched, PathsChosen
<1>8. Stages'  BY <1>0 DEF TypeOK, Stages
<1>9. QuietAgrees'
  <2> SUFFICES ASSUME Quiet, world.loaders = {l}
               PROVE  QuietAgrees'
    BY QuietLoader DEF QuietAgrees, Quiet, Faults
  <2>1. ASSUME NEW m \in Loaders  PROVE open[m] = "none"
    BY <1>0, <2>1 DEF TypeOK, Handles, Stages
  <2> QED  BY <2>1 DEF Quiet
<1> QED  BY <1>1, <1>2, <1>3, <1>4, <1>5, <1>6, <1>7, <1>8, <1>9

LEMMA WriteKeeps ==
    ASSUME IInv, NEW l \in world.loaders, Write(l), UNCHANGED world
    PROVE  IInv'
<1> USE LoaderAssumption DEF Write, Goto, NextField, AfterWrite, Close,
                             Access, Written, config, history, IInv
<1>0. l \in Loaders  BY DEF TypeOK
<1>a. /\ path[l] \in chosen /\ path[l] \in Exes
      /\ PartOf(file, path[l]) /\ file # Absent /\ file \in Seq(Cells)
      /\ field[l] \in 1 .. Fields /\ Len(file) \in Nat
      /\ \/ Len(file) = field[l] - 1
         \/ field[l] = Fields /\ Len(file) = Fields - 2
  <2>1. path[l] \in chosen /\ path[l] \in Exes
    BY <1>0 DEF TypeOK, PathsChosen
  <2>2. /\ PartOf(file, path[l])
        /\ \/ Len(file) = field[l] - 1
           \/ field[l] = Fields /\ Len(file) = Fields - 2
    BY <1>0 DEF WriterAgrees
  <2>3. file \in Seq(Cells)  BY <2>2 DEF PartOf
  <2>4. file # Absent /\ Len(file) \in Nat  BY <2>3
  <2>5. field[l] \in 1 .. Fields  BY <1>0 DEF TypeOK
  <2> QED  BY <2>1, <2>2, <2>3, <2>4, <2>5
<1>b. /\ file' \in Seq(Cells) /\ Len(file') = Len(file) + 1
      /\ PartOf(file', path[l])
  <2>1. file' = Append(file, Record(path[l])[field[l]])  BY DEF Record
  <2> DEFINE g == Append(file, Record(path[l])[field[l]])
  <2>2. g \in Seq(Cells) /\ Len(g) = Len(file) + 1 /\ PartOf(g, path[l])
    BY <1>a, PartGrows
  <2> HIDE DEF g
  <2>3. file' = g  BY <2>1 DEF g
  <2> QED  BY <2>2, <2>3
<1>1. TypeOK'
  <2>1. file' # Absent => Len(file') <= Fields
    BY <1>a, <1>b DEF PartOf
  <2>2. file' = Absent \/ file' \in Seq(Cells)  BY <1>b
  <2>3. CASE field[l] < Fields /\ NextField(l, field[l])
                               /\ UNCHANGED <<pc, length>>
    BY <1>0, <2>1, <2>2, <2>3 DEF TypeOK, Paths, Fields
  <2>4. CASE Goto(l, "writing", AfterWrite(l)) /\ Close(l)
    BY <1>0, <2>1, <2>2, <2>4 DEF TypeOK, Paths, Fields
  <2> QED  BY <2>3, <2>4
<1>2. Handles'
  <2>1. CASE UNCHANGED <<open, pc>>  BY <2>1 DEF Handles
  <2>2. CASE Goto(l, "writing", AfterWrite(l)) /\ Close(l)
    BY <1>0, <2>2 DEF TypeOK, Handles
  <2> QED  BY <2>1, <2>2
<1>3. OneRecord'
  BY <1>a, <1>b DEF OneRecord
<1>4. ReaderAgrees'
  <2>1. ASSUME NEW m \in Loaders  PROVE pc[m] # "reading"
    BY <1>0, <2>1 DEF Handles
  <2>2. AfterWrite(l) # "reading"  OBVIOUS
  <2>3. ASSUME NEW m \in Loaders  PROVE pc'[m] # "reading"
    BY <1>0, <2>1, <2>2, <2>3 DEF TypeOK
  <2> QED  BY <2>3 DEF ReaderAgrees
<1>5. WriterAgrees'
  BY <1>0, <1>a, <1>b DEF TypeOK, Handles, WriterAgrees, Faults, Fields
<1>6. PathsChosen'  BY <1>0 DEF TypeOK, PathsChosen
<1>7. OnlyChosenLaunched'  BY <1>0 DEF TypeOK, OnlyChosenLaunched, PathsChosen
<1>8. Stages'  BY <1>0 DEF TypeOK, Stages
<1>9. QuietAgrees'
  <2> SUFFICES ASSUME Quiet, world.loaders = {l}
               PROVE  QuietAgrees'
    BY QuietLoader DEF QuietAgrees, Quiet, Faults
  <2>1. CASE field[l] < Fields /\ pc' = pc
    BY <1>0, <2>1 DEF TypeOK, QuietAgrees, Quiet, Faults
  <2>2. CASE field[l] = Fields /\ Goto(l, "writing", AfterWrite(l))
    <3>1. Len(file') = Fields
      BY <1>0, <1>a, <1>b, <2>2 DEF WriterAgrees, Quiet, Fields
    <3>2. file' = Record(path[l]) /\ file' # Absent
      BY <1>a, <1>b, <3>1, WholeRecord, LoaderAssumption
    <3>3. LengthOf[path[l]] < MaxPath => Remembered' = path[l]
      <4>1. LengthOf[path[l]] < MaxPath => LengthOf[path[l]] <= MaxPath
        <5>1. LengthOf[path[l]] \in Nat /\ MaxPath \in Nat  BY <1>a
        <5> QED  BY <5>1
      <4>2. file'[2] = LengthOf[path[l]] /\ file'[3] = path[l]
        BY <1>a, <3>2, RecordFields
      <4> QED  BY <3>1, <3>2, <4>1, <4>2 DEF Remembered
    <3> QED  BY <1>0, <1>a, <2>2, <3>2, <3>3
             DEF TypeOK, QuietAgrees, Agrees, Quiet, Faults, Stages
  <2> QED  BY <1>0, <1>a, <2>1, <2>2
<1> QED  BY <1>1, <1>2, <1>3, <1>4, <1>5, <1>6, <1>7, <1>8, <1>9

LEMMA WriteFailsKeeps ==
    ASSUME IInv, NEW l \in world.loaders, WriteFails(l), UNCHANGED world
    PROVE  IInv'
<1> USE LoaderAssumption DEF WriteFails, Goto, NextField, AfterWrite, Close,
                             Access, config, history, IInv
<1>0. l \in Loaders  BY DEF TypeOK
<1>1. TypeOK'
  <2>1. CASE field[l] = 5 /\ NextField(l, 5) /\ UNCHANGED <<pc, length>>
    BY <1>0, <2>1 DEF TypeOK, Paths, Fields
  <2>2. CASE Goto(l, "writing", AfterWrite(l)) /\ Close(l)
    BY <1>0, <2>2 DEF TypeOK, Paths, Fields
  <2> QED  BY <2>1, <2>2
<1>2. Handles'
  <2>1. CASE UNCHANGED <<open, pc>>  BY <2>1 DEF Handles
  <2>2. CASE Goto(l, "writing", AfterWrite(l)) /\ Close(l)
    BY <1>0, <2>2 DEF TypeOK, Handles
  <2> QED  BY <2>1, <2>2
<1>3. OneRecord'  BY <1>0 DEF TypeOK, OneRecord
<1>4. ReaderAgrees'
  <2>1. ASSUME NEW m \in Loaders  PROVE pc[m] # "reading"
    BY <1>0, <2>1 DEF Handles
  <2>2. AfterWrite(l) # "reading"  OBVIOUS
  <2>3. ASSUME NEW m \in Loaders  PROVE pc'[m] # "reading"
    BY <1>0, <2>1, <2>2, <2>3 DEF TypeOK
  <2> QED  BY <2>3 DEF ReaderAgrees
<1>5. WriterAgrees'
  <2>1. CASE field[l] = 5 /\ NextField(l, 5) /\ UNCHANGED <<pc, length>>
    <3>1. PartOf(file, path[l])  BY <1>0 DEF WriterAgrees
    <3>2. Len(file) = field[l] - 1 \/ field[l] = Fields
      BY <1>0 DEF WriterAgrees
    <3>3. Len(file) = 4  BY <2>1, <3>2 DEF Fields
    <3> QED  BY <1>0, <2>1, <3>1, <3>3 DEF TypeOK, Handles, WriterAgrees,
                                     Faults, Fields
  <2>2. CASE Goto(l, "writing", AfterWrite(l)) /\ Close(l)
    BY <1>0, <2>2 DEF TypeOK, Handles, WriterAgrees, Faults
  <2> QED  BY <2>1, <2>2
<1>6. PathsChosen'  BY <1>0 DEF TypeOK, PathsChosen
<1>7. OnlyChosenLaunched'  BY <1>0 DEF TypeOK, OnlyChosenLaunched, PathsChosen
<1>8. Stages'  BY <1>0 DEF TypeOK, Stages
<1>9. QuietAgrees'
  <2> SUFFICES ASSUME Quiet, world.loaders = {l}
               PROVE  QuietAgrees'
    BY QuietLoader DEF QuietAgrees, Quiet, Faults
  <2> QED  BY <1>0 DEF TypeOK, QuietAgrees, Agrees, Remembered, Quiet,
                       Stages, Faults, Fields
<1> QED  BY <1>1, <1>2, <1>3, <1>4, <1>5, <1>6, <1>7, <1>8, <1>9

LEMMA DropKeeps ==
    ASSUME IInv, NEW l \in world.loaders, Drop(l), UNCHANGED world
    PROVE  IInv'
<1> USE LoaderAssumption DEF Drop, Goto, config, history, IInv
<1>0. l \in Loaders  BY DEF TypeOK
<1>1. TypeOK'  BY <1>0 DEF TypeOK, Paths, Fields
<1>2. Handles'  BY <1>0 DEF TypeOK, Handles
<1>3. OneRecord'  BY <1>0 DEF TypeOK, OneRecord
<1>4. ReaderAgrees'  BY <1>0 DEF TypeOK, Handles, ReaderAgrees, Fields
<1>5. WriterAgrees'  BY <1>0 DEF TypeOK, Handles, WriterAgrees, Faults
<1>6. PathsChosen'  BY <1>0 DEF TypeOK, PathsChosen
<1>7. OnlyChosenLaunched'  BY <1>0 DEF TypeOK, OnlyChosenLaunched, PathsChosen
<1>8. Stages'  BY <1>0 DEF TypeOK, Stages
<1>9. QuietAgrees'
  <2> SUFFICES ASSUME Quiet, world.loaders = {l}
               PROVE  QuietAgrees'
    BY QuietLoader DEF QuietAgrees, Quiet, Faults
  <2> QED  BY <1>0 DEF TypeOK, QuietAgrees, Agrees, Remembered, Quiet,
                       Stages, Faults, Fields
<1> QED  BY <1>1, <1>2, <1>3, <1>4, <1>5, <1>6, <1>7, <1>8, <1>9

LEMMA LaunchDropKeeps ==
    ASSUME IInv, NEW l \in world.loaders, LaunchDrop(l), UNCHANGED world
    PROVE  IInv'
<1> USE LoaderAssumption DEF LaunchDrop, Goto, Launch, LaunchFails, config,
                             history, IInv
<1>0. l \in Loaders  BY DEF TypeOK
<1>1. TypeOK'
  <2>1. lastPlayed' \in Paths  BY <1>0 DEF TypeOK, Paths
  <2>2. CASE Goto(l, "launchDrop", "loop")
    BY <1>0, <2>1, <2>2 DEF TypeOK
  <2>3. CASE Goto(l, "launchDrop", "delete")
    BY <1>0, <2>1, <2>3 DEF TypeOK
  <2> QED  BY <2>2, <2>3
<1>2. Handles'  BY <1>0 DEF TypeOK, Handles
<1>3. OneRecord'  BY <1>0 DEF TypeOK, OneRecord
<1>4. ReaderAgrees'  BY <1>0 DEF TypeOK, Handles, ReaderAgrees, Fields
<1>5. WriterAgrees'  BY <1>0 DEF TypeOK, Handles, WriterAgrees, Faults
<1>6. PathsChosen'  BY <1>0 DEF TypeOK, PathsChosen
<1>7. OnlyChosenLaunched'  BY <1>0 DEF TypeOK, OnlyChosenLaunched, PathsChosen
<1>8. Stages'  BY <1>0 DEF TypeOK, Stages
<1>9. QuietAgrees'
  <2> SUFFICES ASSUME Quiet, world.loaders = {l}
               PROVE  QuietAgrees'
    BY QuietLoader DEF QuietAgrees, Quiet, Faults
  <2>1. path[l] \in Exes  BY <1>0 DEF TypeOK, PathsChosen
  <2>2. CASE Launch(l) /\ Goto(l, "launchDrop", "loop")
    <3>1. window[l]  BY <1>0, <2>2 DEF Stages
    <3>2. file = Record(path[l]) /\ LengthOf[path[l]] < MaxPath
      BY <2>2, <3>1 DEF QuietAgrees
    <3>3. file # Absent /\ Len(file) = Fields
      BY <2>1, <3>2, RecordCells
    <3>4. LengthOf[path[l]] <= MaxPath  BY <2>1, <3>2
    <3>5. Remembered = path[l]
      BY <3>2, <3>3, <3>4 DEF Remembered, Record
    <3> QED  BY <1>0, <2>1, <2>2, <3>5
             DEF TypeOK, QuietAgrees, Agrees, Remembered, Quiet, Faults
  <2>3. CASE LaunchFails(l) /\ Goto(l, "launchDrop", "delete")
    BY <1>0, <2>3 DEF TypeOK, QuietAgrees, Agrees, Remembered, Quiet, Faults
  <2> QED  BY <2>2, <2>3
<1> QED  BY <1>1, <1>2, <1>3, <1>4, <1>5, <1>6, <1>7, <1>8, <1>9

LEMMA DeleteKeeps ==
    ASSUME IInv, NEW l \in world.loaders, Delete(l), UNCHANGED world
    PROVE  IInv'
<1> USE LoaderAssumption DEF Delete, Goto, MayDelete, config, history, IInv
<1>0. l \in Loaders  BY DEF TypeOK
<1>1. TypeOK'  BY <1>0 DEF TypeOK, Paths, Fields
<1>2. Handles'  BY <1>0 DEF TypeOK, Handles
<1>3. OneRecord'  BY <1>0 DEF TypeOK, OneRecord
<1>4. ReaderAgrees'  BY <1>0 DEF TypeOK, Handles, ReaderAgrees, Fields
<1>5. WriterAgrees'  BY <1>0 DEF TypeOK, Handles, WriterAgrees, Faults
<1>6. PathsChosen'  BY <1>0 DEF TypeOK, PathsChosen
<1>7. OnlyChosenLaunched'  BY <1>0 DEF TypeOK, OnlyChosenLaunched, PathsChosen
<1>8. Stages'  BY <1>0 DEF TypeOK, Stages
<1>9. QuietAgrees'
  <2> SUFFICES ASSUME Quiet, world.loaders = {l}
               PROVE  QuietAgrees'
    BY QuietLoader DEF QuietAgrees, Quiet, Faults
  <2>1. ASSUME NEW m \in Loaders  PROVE open[m] = "none"
    BY <1>0, <2>1 DEF TypeOK, Handles, Stages
  <2>2. file' = Absent  BY <2>1 DEF Quiet
  <2>3. lastPlayed' = NoExe /\ pc' = [pc EXCEPT ![l] = "loop"]
    BY <1>0 DEF QuietAgrees
  <2> QED  BY <1>0, <2>2, <2>3
           DEF TypeOK, QuietAgrees, Agrees, Quiet, Faults, Stages
<1> QED  BY <1>1, <1>2, <1>3, <1>4, <1>5, <1>6, <1>7, <1>8, <1>9

LEMMA QuitKeeps ==
    ASSUME IInv, NEW l \in world.loaders, Quit(l), UNCHANGED world
    PROVE  IInv'
<1> USE LoaderAssumption DEF Quit, Goto, config, history, IInv
<1>0. l \in Loaders  BY DEF TypeOK
<1>1. TypeOK'  BY <1>0 DEF TypeOK, Paths, Fields
<1>2. Handles'  BY <1>0 DEF TypeOK, Handles
<1>3. OneRecord'  BY <1>0 DEF TypeOK, OneRecord
<1>4. ReaderAgrees'  BY <1>0 DEF TypeOK, Handles, ReaderAgrees, Fields
<1>5. WriterAgrees'  BY <1>0 DEF TypeOK, Handles, WriterAgrees, Faults
<1>6. PathsChosen'  BY <1>0 DEF TypeOK, PathsChosen
<1>7. OnlyChosenLaunched'  BY <1>0 DEF TypeOK, OnlyChosenLaunched, PathsChosen
<1>8. Stages'  BY <1>0 DEF TypeOK, Stages
<1>9. QuietAgrees'
  <2> SUFFICES ASSUME Quiet, world.loaders = {l}
               PROVE  QuietAgrees'
    BY QuietLoader DEF QuietAgrees, Quiet, Faults
  <2> QED  BY <1>0 DEF TypeOK, QuietAgrees, Agrees, Remembered, Quiet,
                       Stages, Faults, Fields
<1> QED  BY <1>1, <1>2, <1>3, <1>4, <1>5, <1>6, <1>7, <1>8, <1>9

LEMMA KillKeeps ==
    ASSUME IInv, NEW l \in world.loaders, Kill(l), UNCHANGED world
    PROVE  IInv'
<1> USE LoaderAssumption DEF Kill, Close, Access, config, history, IInv
<1>0. l \in Loaders  BY DEF TypeOK
<1>1. TypeOK'  BY <1>0 DEF TypeOK, Paths, Fields
<1>2. Handles'  BY <1>0 DEF TypeOK, Handles
<1>3. OneRecord'  BY <1>0 DEF TypeOK, OneRecord
<1>4. ReaderAgrees'  BY <1>0 DEF TypeOK, Handles, ReaderAgrees, Fields
<1>5. WriterAgrees'  BY <1>0 DEF TypeOK, Handles, WriterAgrees, Faults
<1>6. PathsChosen'  BY <1>0 DEF TypeOK, PathsChosen
<1>7. OnlyChosenLaunched'  BY <1>0 DEF TypeOK, OnlyChosenLaunched, PathsChosen
<1>8. Stages'  BY <1>0 DEF TypeOK, Stages
<1>9. QuietAgrees'
  <2> SUFFICES ASSUME Quiet, world.loaders = {l}
               PROVE  QuietAgrees'
    BY QuietLoader DEF QuietAgrees, Quiet, Faults
  <2> QED  BY <1>0 DEF TypeOK, QuietAgrees, Agrees, Remembered, Quiet,
                       Stages, Faults, Fields
<1> QED  BY <1>1, <1>2, <1>3, <1>4, <1>5, <1>6, <1>7, <1>8, <1>9

-----------------------------------------------------------------------------
(***************************************************************************)
(* The theorems.                                                           *)
(***************************************************************************)

\* In every reachable state FVPLOG.ini is absent, another program's, or the
\* beginning of one record of a path the user chose; a loader holds the handle
\* its step has opened and no other, what a reader has read is still what the
\* file holds, and where one loader runs without failures FVPLOG.ini names the
\* game it started last.
THEOREM Invariance == Spec => []IInv
<1>1. Init => IInv  BY InitInv
<1>2. IInv /\ [Next]_vars => IInv'
  <2> SUFFICES ASSUME IInv, [Next]_vars PROVE IInv'
    OBVIOUS
  <2>1. CASE UNCHANGED vars
    BY <2>1 DEF vars, IInv, TypeOK, Handles, OneRecord, ReaderAgrees,
                WriterAgrees, PathsChosen, OnlyChosenLaunched, Stages,
                QuietAgrees, Agrees, Remembered, Quiet, Faults, PartOf
  <2>2. CASE Next
    <3>1. PICK l \in world.loaders : Step(l) /\ UNCHANGED world
      BY <2>2 DEF Next
    <3>2. CASE Start(l)  BY <3>1, <3>2, StartKeeps
    <3>3. CASE OpenConfig(l)  BY <3>1, <3>3, OpenConfigKeeps
    <3>4. CASE NoConfig(l)  BY <3>1, <3>4, NoConfigKeeps
    <3>5. CASE ReadMark(l)  BY <3>1, <3>5, ReadMarkKeeps
    <3>6. CASE WrongMark(l)  BY <3>1, <3>6, WrongMarkKeeps
    <3>7. CASE ReadLength(l)  BY <3>1, <3>7, ReadLengthKeeps
    <3>8. CASE LongPath(l)  BY <3>1, <3>8, LongPathKeeps
    <3>9. CASE ReadPath(l)  BY <3>1, <3>9, ReadPathKeeps
    <3>10. CASE ReadFlag(l)  BY <3>1, <3>10, ReadFlagKeeps
    <3>11. CASE ReadLastFlag(l)  BY <3>1, <3>11, ReadLastFlagKeeps
    <3>12. CASE ReadFails(l)  BY <3>1, <3>12, ReadFailsKeeps
    <3>13. CASE LaunchConfig(l)  BY <3>1, <3>13, LaunchConfigKeeps
    <3>14. CASE UseParam(l)  BY <3>1, <3>14, UseParamKeeps
    <3>15. CASE LaunchParam(l)  BY <3>1, <3>15, LaunchParamKeeps
    <3>16. CASE NoParam(l)  BY <3>1, <3>16, NoParamKeeps
    <3>17. CASE ShowWindow(l)  BY <3>1, <3>17, ShowWindowKeeps
    <3>18. CASE Create(l)  BY <3>1, <3>18, CreateKeeps
    <3>19. CASE CreateFails(l)  BY <3>1, <3>19, CreateFailsKeeps
    <3>20. CASE Write(l)  BY <3>1, <3>20, WriteKeeps
    <3>21. CASE WriteFails(l)  BY <3>1, <3>21, WriteFailsKeeps
    <3>22. CASE Drop(l)  BY <3>1, <3>22, DropKeeps
    <3>23. CASE LaunchDrop(l)  BY <3>1, <3>23, LaunchDropKeeps
    <3>24. CASE Delete(l)  BY <3>1, <3>24, DeleteKeeps
    <3>25. CASE Quit(l)  BY <3>1, <3>25, QuitKeeps
    <3>26. CASE Kill(l)  BY <3>1, <3>26, KillKeeps
    <3> QED  BY <3>1, <3>2, <3>3, <3>4, <3>5, <3>6, <3>7, <3>8, <3>9,
                <3>10, <3>11, <3>12, <3>13, <3>14, <3>15, <3>16, <3>17,
                <3>18, <3>19, <3>20, <3>21, <3>22, <3>23, <3>24, <3>25,
                <3>26
             DEF Step
  <2> QED  BY <2>1, <2>2
<1> QED  BY <1>1, <1>2, PTL DEF Spec

\* The types of the loaders' state.
THEOREM TypeCorrect == Spec => []TypeOK
<1>1. IInv => TypeOK  BY DEF IInv
<1> QED  BY <1>1, Invariance, PTL

\* Whatever any number of loaders, kills and failures leave in FVPLOG.ini, a
\* program that starts is one the user chose, but for a foreign file.
THEOREM ChosenOnly == Spec => []OnlyChosenLaunched
<1>1. IInv => OnlyChosenLaunched  BY DEF IInv
<1> QED  BY <1>1, Invariance, PTL

\* ReadLogFile and WriteLogFile leave no handle open on any way out.
THEOREM NoHandleLeft == Spec => []FileClosed
<1>1. IInv => FileClosed  BY DEF IInv, TypeOK, Handles, FileClosed
<1> QED  BY <1>1, Invariance, PTL

\* In a loader that runs alone without failures, a dropped game that does not
\* start is not in the file when its window waits again.
THEOREM FailedForgotten == Spec => []FailedGameForgotten
<1>1. IInv => FailedGameForgotten
  <2> SUFFICES ASSUME IInv, NEW l \in Loaders, Quiet, pc[l] = "loop",
                      path[l] \in Exes \ Startable
               PROVE  Remembered # path[l]
    BY DEF FailedGameForgotten
  <2>1. l \in world.loaders  BY DEF IInv, Stages
  <2>2. file = Absent  BY <2>1 DEF IInv, QuietAgrees
  <2> QED  BY <2>2, LoaderAssumption DEF Remembered
<1> QED  BY <1>1, Invariance, PTL

\* What src/README.md:9 promises of the configuration file, for a loader that
\* runs alone without failures and a game whose path is below MAX_PATH.
THEOREM RemembersLastGame == Spec => []NextTimeSameGame
<1>1. IInv => NextTimeSameGame
  <2> SUFFICES ASSUME IInv, Quiet, Idle  PROVE Agrees
    BY DEF NextTimeSameGame, Agrees
  <2>1. world.loaders \subseteq Loaders /\ IsFiniteSet(world.loaders)
    <3>1. world.loaders \subseteq Loaders
      BY LoaderAssumption DEF IInv, TypeOK
    <3> QED  BY <3>1, FS_Subset, LoaderAssumption
  <2>2. PICK l : world.loaders = {l}
    BY <2>1, FS_Singleton DEF Quiet
  <2>3. pc[l] \notin {"create", "writing"}  BY <2>1, <2>2 DEF Idle
  <2> QED  BY <2>2, <2>3 DEF IInv, QuietAgrees
<1> QED  BY <1>1, Invariance, PTL
=============================================================================
