------------------------------ MODULE MCLoader ------------------------------
(* Two games of different lengths, an executable that cannot be started    *)
(* and one whose path is longer than ReadLogFile accepts.                  *)
EXTENDS Loader, TLC

CONSTANTS game1, game2, broken, long

MCExes      == {game1, game2, broken, long}
MCStartable == {game1, game2, long}
MCMaxPath   == 3
MCLengthOf  == (game1 :> 1) @@ (game2 :> 2) @@ (broken :> 1) @@ (long :> 4)
MCTwo       == {game1, game2}

\* Two loaders with everything failing, or one with nothing failing but the
\* start of a program.
MCQuiet  == {[loaders |-> {l}, faults |-> FALSE, exes |-> MCExes]
                : l \in Loaders}
MCWorlds == MCQuiet \cup
            {[loaders |-> Loaders, faults |-> TRUE, exes |-> MCTwo]}
Symmetry == Permutations(Loaders)
=============================================================================
