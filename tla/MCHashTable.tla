----------------------------- MODULE MCHashTable -----------------------------
(***************************************************************************)
(* Keys that collide, follow each other and start at the end of the table. *)
(* Tables of 7, 9 and 11 entries stand for those of 521, 677 and 881 the   *)
(* code makes: the second counts as full (6, 507) with fewer entries than  *)
(* the first can hold, so a growth that comes late grows again half-way.   *)
(***************************************************************************)
EXTENDS HashTable, TableSizes, TLC

CONSTANTS k1, k2, k3, k4, k5, k6, k7, k8

\* Bound: the sizes IsPrime and GetTableSize are compared with their
\* definitions for.
MCMaxSize == 2500

MCKeys == {k1, k2, k3, k4, k5, k6, k7, k8}
MCIndexOf == (k1 :> 6) @@ (k2 :> 69) @@ (k3 :> 7) @@ (k4 :> 1) @@ (k5 :> 2)
             @@ (k6 :> 3) @@ (k7 :> 4) @@ (k8 :> 5)
MCValues == {"v1", "v2"}

MCSizes == {7, 9, 11}
MCNextSize == [n \in MCSizes \cup {0} |-> IF n = 0 THEN 7 ELSE n + 2]

\* Overwriting in a table that grows twice; removal; a growth that comes as
\* late as it can; and more keys than the only table has entries.
MCUses == {[keys |-> {k1, k2, k3}, values |-> MCValues,
            removing |-> FALSE, largest |-> 11, used |-> 7],
           [keys |-> {k1, k2, k3}, values |-> {"v1"}, removing |-> TRUE,
            largest |-> 9, used |-> 6],
           [keys |-> MCKeys \ {k2}, values |-> {"v1"}, removing |-> FALSE,
            largest |-> 11, used |-> 8],
           [keys |-> MCKeys, values |-> {"v1"}, removing |-> FALSE,
            largest |-> 7, used |-> 8]}

-----------------------------------------------------------------------------
Prime(n) == n > 1 /\ \A d \in 2 .. n - 1 : d * d <= n => n % d # 0

\* IsPrime accepts the primes and nothing else, its special cases for the
\* bases and for the small primes included, and GetTableSize answers the
\* least odd one that is at least the size. So a grown table of 5 entries or
\* more really is larger; one of 3 would stay at 3 and IncreaseCapacity
\* recurse for ever, which INITIAL_TABLE_SIZE = 521 keeps from happening.
\* (About no state in particular: evaluated once, for the empty table.)
TableSizeLeast ==
    table.size = 0 /\ use.removing =>
       \A size \in 1 .. MCMaxSize :
          LET t == GetTableSize(size) IN
          /\ IsPrime(size) <=> Prime(size)
          /\ t >= size /\ t % 2 = 1 /\ Prime(t)
          /\ \A n \in size .. t - 1 : Prime(n) => n = 2
          /\ size >= 5 => Grown(size) > size
=============================================================================
