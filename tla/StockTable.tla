----------------------------- MODULE StockTable -----------------------------
(***************************************************************************)
(* What the stock-object hooks promise the game: the first use fixes, in   *)
(* one step, what every stock object is from then on, and every answer and *)
(* every font selected into a new DC is read from that choice.             *)
(***************************************************************************)
CONSTANTS
    Objects,     \* the stock object indices
    Choices,     \* the handles a stock object may be answered with
    SystemFont,  \* the one a new DC gets
    Unknown      \* the entry of a table that is not chosen yet

VARIABLES table, answers, selected

vars == <<table, answers, selected>>

Init ==
    /\ table = [o \in Objects |-> Unknown]
    /\ answers = [o \in Objects |-> {}]
    /\ selected = {}

Chosen == \A o \in Objects : table[o] # Unknown

Choose ==
    /\ ~Chosen
    /\ table' \in [Objects -> Choices]
    /\ UNCHANGED <<answers, selected>>

Reply(o) ==
    /\ Chosen
    /\ answers' = [answers EXCEPT ![o] = @ \cup {table[o]}]
    /\ UNCHANGED <<table, selected>>

Select ==
    /\ Chosen
    /\ selected' = selected \cup {table[SystemFont]}
    /\ UNCHANGED <<table, answers>>

Next == Choose \/ Select \/ \E o \in Objects : Reply(o)

Spec == Init /\ [][Next]_vars
=============================================================================
