------------------------------ MODULE HashTable ------------------------------
(***************************************************************************)
(* HashTableT (NativeLib/my.h), the open-addressing table behind the       *)
(* text-metric cache. A key stands for its hash: two keys of one hash are  *)
(* one key to the table. AddElement calls IncreaseCapacity, which calls    *)
(* AddElement for each entry of the old table, which can grow the new one  *)
(* in turn: calls is that recursion. Each allocation of a table may fail.  *)
(* One thread at a time uses a table (it has no lock).                     *)
(*                                                                         *)
(* The names of the specification's parts begin with Table: the proofs of  *)
(* this module share theirs with those of another.                         *)
(***************************************************************************)
EXTENDS Integers, Sequences, SequencesExt, FiniteSets

CONSTANTS
    Keys,      \* the hashes of the keys, those with Valid() true
    IndexOf,   \* HASH_VALUE::Index of each
    Values,    \* the elements
    NoValue,   \* nullptr of LookupElement
    Empty,     \* the hash of an unused entry
    Sizes,     \* the sizes GetTableSize answers (module TableSizes)
    NextSize,  \* the size that follows each and 0, INITIAL_TABLE_SIZE there
    Uses       \* how the table is used: the keys and values added, whether
               \* Remove is called as well, and two bounds: the largest table
               \* whose allocation can succeed, and TableUsedSize, which
               \* overwriting increments too

ASSUME HashAssumption ==
    /\ Empty \notin Keys /\ NoValue \notin Values
    /\ IndexOf \in [Keys -> Nat]
    /\ \A n \in Sizes : n \in Nat /\ n % 2 = 1 /\ n >= 5
    /\ NextSize \in [Sizes \cup {0} -> Nat]
    /\ \A n \in Sizes \cup {0} : NextSize[n] % 2 = 1 /\ NextSize[n] > n
    /\ NextSize[0] >= 5
    /\ \A u \in Uses :
          /\ u.keys \subseteq Keys /\ u.values \subseteq Values
          /\ u.removing \in BOOLEAN /\ u.largest \in Nat /\ u.used \in Nat
          /\ \A n \in Sizes \cup {0} :
                NextSize[n] <= u.largest => NextSize[n] \in Sizes

VARIABLES
    use,     \* how the table is used, which does not change
    table,   \* TableSize, TableUsedSize, and Entries as its hashes and values
    calls,   \* the calls of AddElement in progress, the innermost last
    down,    \* AddElement has gone through a null Entry
    refused  \* history: an allocation has failed

tableVars == <<use, table, calls, down, refused>>

Slots(t) == 0 .. t.size - 1

Tables ==
    UNION {[size : {n}, used : Nat,
            hash : [0 .. n - 1 -> Keys \cup {Empty}],
            value : [0 .. n - 1 -> Values \cup {NoValue}]]
              : n \in Sizes \cup {0}}

Calls ==
    [at : {"increase", "copy"},  \* before or behind the new entries' test
     key : Keys, value : Values \cup {NoValue},
     old : Tables,               \* OldEntries, empty when there are none
     next : Nat]                 \* Entry of the loop over them

TableTypeOK ==
    /\ use \in Uses
    /\ table \in Tables
    /\ calls \in Seq(Calls)
    /\ down \in BOOLEAN
    /\ refused \in BOOLEAN

\* A table fresh from new HashTableEntry[size].
NewTable(size) ==
    [size |-> size, used |-> 0,
     hash |-> [i \in 0 .. size - 1 |-> Empty],
     value |-> [i \in 0 .. size - 1 |-> NoValue]]

TableInit ==
    /\ use \in Uses
    /\ table = NewTable(0)
    /\ calls = <<>>
    /\ down = FALSE
    /\ refused = FALSE

\* How many entries LookupEntry looks at before i when it looks for k: from
\* the key's own entry on, wrapping around.
Distance(t, k, i) ==
    LET first == IndexOf[k] % t.size
    IN  IF first <= i THEN i - first ELSE i + t.size - first

\* LookupEntry ends at the first entry that has the key or is unused.
IsFirst(t, k, i) ==
    \A j \in Slots(t) :
       t.hash[j] \in {k, Empty} => Distance(t, k, i) <= Distance(t, k, j)

\* LookupEntry(Hash, TRUE): none if the table has neither.
Probes(t, k) == {i \in Slots(t) : t.hash[i] \in {k, Empty} /\ IsFirst(t, k, i)}

\* LookupEntry(Hash, FALSE).
Found(t, k) == {i \in Slots(t) : t.hash[i] = k /\ IsFirst(t, k, i)}

\* LookupElement.
Get(t, k) ==
    LET found == Found(t, k) IN
    IF found = {} THEN NoValue ELSE t.value[CHOOSE i \in found : TRUE]

Full(t) == (t.size * 3) \div 4 <= t.used

(***************************************************************************)
(* AddElement.                                                             *)
(***************************************************************************)
AddElement(k, v) ==
    [at |-> "increase", key |-> k, value |-> v, old |-> NewTable(0), next |-> 0]

Innermost     == Last(calls)
AddingAt(label) == IF calls = <<>> \/ down THEN FALSE
                   ELSE Innermost.at = label

\* The innermost call goes on as call.
GoesOn(call) == calls' = Append(Front(calls), call)

Add ==
    /\ calls = <<>> /\ ~down /\ table.used < use.used
    /\ \E k \in use.keys, v \in use.values : calls' = <<AddElement(k, v)>>
    /\ UNCHANGED <<use, table, down, refused>>

\* Mutant: the first entry of the old table is not carried over.
BugIncreaseCapacity ==
    /\ AddingAt("increase") /\ Full(table)
    /\ NextSize[table.size] <= use.largest
    /\ table' = NewTable(NextSize[table.size])
    /\ GoesOn([Innermost EXCEPT !.at = "copy", !.old = table,
                                !.next = IF table.size = 0 THEN 0 ELSE 1])
    /\ UNCHANGED <<use, down, refused>>

\* Mutant: TableUsedSize is not reset.
BugCountKept ==
    /\ AddingAt("increase") /\ Full(table)
    /\ NextSize[table.size] <= use.largest
    /\ table' = [NewTable(NextSize[table.size]) EXCEPT !.used = table.used]
    /\ GoesOn([Innermost EXCEPT !.at = "copy", !.old = table])
    /\ UNCHANGED <<use, down, refused>>

IncreaseCapacity ==
    /\ AddingAt("increase") /\ Full(table)
    /\ NextSize[table.size] <= use.largest
    /\ table' = NewTable(NextSize[table.size])
    /\ GoesOn([Innermost EXCEPT !.at = "copy", !.old = table])
    /\ UNCHANGED <<use, down, refused>>

\* There is room, or STATUS_NO_MEMORY, which AddElement does not look at.
KeepCapacity ==
    /\ AddingAt("increase")
    /\ GoesOn([Innermost EXCEPT !.at = "copy"])
    /\ refused' = (refused \/ Full(table))
    /\ UNCHANGED <<use, table, down>>

\* The loop over the old entries.
CopyEntry ==
    /\ AddingAt("copy") /\ Innermost.next < Innermost.old.size
    /\ LET i  == Innermost.next
           on == Append(Front(calls), [Innermost EXCEPT !.next = i + 1])
       IN  calls' = IF Innermost.old.hash[i] = Empty THEN on
                    ELSE Append(on, AddElement(Innermost.old.hash[i],
                                               Innermost.old.value[i]))
    /\ UNCHANGED <<use, table, down, refused>>

\* Mutant: the count is not kept.
BugPut ==
    /\ AddingAt("copy") /\ Innermost.next = Innermost.old.size
    /\ \E i \in Probes(table, Innermost.key) :
          table' = [table EXCEPT !.hash[i] = Innermost.key,
                                 !.value[i] = Innermost.value]
    /\ calls' = Front(calls)
    /\ UNCHANGED <<use, down, refused>>

\* The entry is written, and counted even if the key was there before.
Put ==
    /\ AddingAt("copy") /\ Innermost.next = Innermost.old.size
    /\ \E i \in Probes(table, Innermost.key) :
          table' = [table EXCEPT !.hash[i] = Innermost.key,
                                 !.value[i] = Innermost.value,
                                 !.used = @ + 1]
    /\ calls' = Front(calls)
    /\ UNCHANGED <<use, down, refused>>

\* LookupEntry has answered nullptr, and AddElement writes to it.
NoEntry ==
    /\ AddingAt("copy") /\ Innermost.next = Innermost.old.size
    /\ Probes(table, Innermost.key) = {}
    /\ down' = TRUE
    /\ UNCHANGED <<use, table, calls, refused>>

\* RemoveElement clears the entry in place, leaving no tombstone.
RemoveElement ==
    /\ use.removing /\ calls = <<>> /\ ~down
    /\ \E k \in use.keys : \E i \in Found(table, k) :
          table' = [table EXCEPT !.hash[i] = Empty, !.value[i] = NoValue,
                                 !.used = @ - 1]
    /\ UNCHANGED <<use, calls, down, refused>>

TableNext ==
    Add \/ IncreaseCapacity \/ KeepCapacity \/ CopyEntry \/ Put \/ NoEntry
    \/ RemoveElement

TableSpec == TableInit /\ [][TableNext]_tableVars

-----------------------------------------------------------------------------
(***************************************************************************)
(* Properties.                                                             *)
(***************************************************************************)
Used(t) == {i \in Slots(t) : t.hash[i] # Empty}

\* TableUsedSize may count too much, never too little, so IncreaseCapacity
\* sees a table fill up in time: as long as memory lasts an entry is free,
\* the probing of a missing key ends at it, AddElement has one to write and
\* never goes through a null pointer, not in the middle of a growth either.
RoomLeft ==
    /\ Cardinality(Used(table)) <= table.used
    /\ ~refused => /\ ~down
                   /\ table.size > 0 => Cardinality(Used(table)) < table.size

\* The larger table has room for all entries of the old one: as long as
\* memory lasts IncreaseCapacity never grows a table it is still filling,
\* so that the recursion with AddElement ends one level down.
GrowsOnce == ~refused => Len(calls) <= 2

\* The table a call has found is the one it adds to until the old entries
\* are all carried over.
Shown == IF calls = <<>> \/ calls[1].old.size = 0 THEN table ELSE calls[1].old

\* The table is a map: collisions, wrapping around, overwriting and growing,
\* also when some allocations fail, lose and mix up nothing. (As long as
\* nothing is removed: RemoveElement leaves no tombstone.)
Abstract == INSTANCE MapStore WITH
    map <- [k \in Keys |-> IF use.removing THEN NoValue ELSE Get(Shown, k)]

ImplementsMap == Abstract!Spec
=============================================================================
