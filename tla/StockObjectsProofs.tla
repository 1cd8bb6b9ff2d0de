------------------------- MODULE StockObjectsProofs -------------------------
(***************************************************************************)
(* Proofs about StockObjects for any number of threads, handles and stock  *)
(* indices. The inductive invariant says who may be inside the critical    *)
(* section, what each program point knows of the flag and of the table,    *)
(* and that everything answered so far was read from the published table.  *)
(***************************************************************************)
EXTENDS StockObjects, TLAPS

Building == {"loop", "store"}
Inside   == Building \cup {"recheck", "leave"}
Knows    == {"leave", "lookup", "delScan", "delCall"}
Getting  == Inside \cup {"flag", "enter", "lookup"}

\* What request o is answered once the table is published.
Published(o) == IF stock[o] # NoHandle THEN stock[o] ELSE OriginalOf[o]

\* The holder of the lock is the thread in the section.
Mutex == \A t \in Threads : pc[t] \in Inside <=> lock = t

\* What each program point knows of the flag and of its own variables.
Phase ==
    \A t \in Threads :
       /\ pc[t] \in Building => ~initialized
       /\ pc[t] \in Knows => initialized
       /\ pc[t] # "store" => font[t] = NoHandle
       /\ pc[t] \notin Building => next[t] = 1
       /\ pc[t] = "store" => next[t] <= Len(FontOrder)
       /\ pc[t] \in Getting => arg[t] \in Requests
       /\ inDC[t] => pc[t] \in Getting /\ arg[t] = SystemFont
       /\ pc[t] = "delFlag" => arg[t] \in Handles \cup {NoHandle}
       /\ pc[t] \in {"delScan", "delCall"} => arg[t] \in Handles
       /\ pc[t] = "delCall" => \A o \in Objects : stock[o] # arg[t]

\* Entries are empty until the builder reaches them.
Unfilled ==
    /\ ~initialized /\ (\A t \in Threads : pc[t] \notin Building)
          => \A o \in Objects : stock[o] = NoHandle
    /\ \A t \in Threads : pc[t] \in Building =>
          \A k \in next[t] .. Len(FontOrder) : stock[FontOrder[k]] = NoHandle

\* A font in the table, or on its way into it, exists.
TableLive ==
    /\ \A o \in Objects : stock[o] # NoHandle => stock[o] \in live
    /\ \A t \in Threads : font[t] # NoHandle => font[t] \in live

\* Every answer was read from the published table.
AnswersFromTable ==
    /\ \A o \in Objects : answers[o] \subseteq {Published(o)}
    /\ selected \subseteq {Published(SystemFont)}
    /\ ~initialized => selected = {} /\ \A o \in Objects : answers[o] = {}

IInv ==
    /\ TypeOK
    /\ Mutex
    /\ Phase
    /\ Unfilled
    /\ TableLive
    /\ AnswersFromTable
    /\ NoFontLeaked

-----------------------------------------------------------------------------
(* What the assumption on the constants says of the table.                 *)
LEMMA StockFacts ==
    /\ Objects \subseteq Requests
    /\ SystemFont \in Requests
    /\ Len(FontOrder) \in Nat
    /\ \A k \in 1 .. Len(FontOrder) : FontOrder[k] \in Objects
BY StockAssumption DEF Objects, Requests

(* The initial state satisfies the invariant.                              *)
LEMMA InitTyped == Init => TypeOK
<1> SUFFICES ASSUME Init PROVE TypeOK
    OBVIOUS
<1>1. initialized \in BOOLEAN /\ inDC \in [Threads -> BOOLEAN]
    BY DEF Init
<1>2. /\ stock \in [Objects -> Handles \cup {NoHandle}]
      /\ live \in SUBSET Handles
      /\ made \in SUBSET Handles
    BY DEF Init
<1>3. pc \in [Threads -> Labels] /\ arg \in [Threads -> Args]
    BY DEF Init, Labels, Args
<1>4. next \in [Threads -> 1 .. Len(FontOrder) + 1]
    BY StockFacts DEF Init
<1>5. /\ font \in [Threads -> Handles \cup {NoHandle}]
      /\ answers \in [Objects -> SUBSET Answers]
      /\ selected \in SUBSET Answers
    BY DEF Init
<1>6. lock \in Threads \cup {NoThread}
    BY DEF Init
<1> QED BY <1>1, <1>2, <1>3, <1>4, <1>5, <1>6 DEF TypeOK

LEMMA InitInv == Init => IInv
<1> SUFFICES ASSUME Init PROVE IInv
    OBVIOUS
<1> USE StockAssumption, StockFacts DEF Init
<1>1. TypeOK
    BY InitTyped
<1>2. Mutex /\ Phase
    BY DEF Mutex, Phase, Inside, Building, Knows, Getting
<1>3. Unfilled /\ TableLive /\ AnswersFromTable /\ NoFontLeaked
    BY DEF Unfilled, TableLive, AnswersFromTable, NoFontLeaked, Building
<1> QED BY <1>1, <1>2, <1>3 DEF IInv

(* Every step of every thread keeps each part of the invariant.            *)
LEMMA TypeOKKept == ASSUME TypeOK, Phase, Next PROVE TypeOK'
<1> USE StockFacts DEF Goto, Labels, TypeOK
<1> PICK t \in Threads : HookStep(t) \/ GameStep(t)
    BY DEF Next
<1>1. CASE CallGet(t)
    BY <1>1 DEF CallGet, Args
<1>2. CASE CallCreateDC(t)
    BY <1>2 DEF CallCreateDC, Args
<1>3. CASE CallDelete(t)
    BY <1>3 DEF CallDelete, Args
<1>4. CASE GameCreate(t)
    BY <1>4 DEF GameCreate
<1>5. CASE TestFlag(t)
    BY <1>5 DEF TestFlag
<1>6. CASE EnterSection(t)
    BY <1>6 DEF EnterSection
<1>7. CASE RecheckFlag(t)
    BY <1>7 DEF RecheckFlag
<1>8. CASE LeaveSection(t)
    BY <1>8 DEF LeaveSection
<1>9. CASE PublishTable(t)
    BY <1>9 DEF PublishTable
<1>10. CASE MakeFont(t)
    BY <1>10 DEF MakeFont
<1>11. CASE MakeFontFails(t)
    BY <1>11 DEF MakeFontFails
<1>12. CASE StoreFont(t)
    BY <1>12 DEF StoreFont, Phase
<1>13. CASE Answer(t)
    BY <1>13, StockAssumption
       DEF Answer, Args, Answers, Originals, Lookup, Objects, Requests,
           Phase, Getting
<1>14. CASE DeleteIgnored(t)
    BY <1>14 DEF DeleteIgnored, Args
<1>15. CASE DeleteTestFlag(t)
    BY <1>15 DEF DeleteTestFlag
<1>16. CASE DeleteKept(t)
    BY <1>16 DEF DeleteKept, Args
<1>17. CASE DeleteNotStock(t)
    BY <1>17 DEF DeleteNotStock
<1>18. CASE DeleteCall(t)
    BY <1>18 DEF DeleteCall, Args
<1> QED
    BY <1>1, <1>2, <1>3, <1>4, <1>5, <1>6, <1>7, <1>8, <1>9, <1>10, <1>11,
       <1>12, <1>13, <1>14, <1>15, <1>16, <1>17, <1>18
    DEF HookStep, GameStep

LEMMA MutexKept == ASSUME TypeOK, Mutex, Next PROVE Mutex'
BY StockAssumption, SMTT(60) DEF Next, HookStep, GameStep, Goto, CallGet,
    CallCreateDC, CallDelete, GameCreate, TestFlag, EnterSection,
    RecheckFlag, LeaveSection, PublishTable, MakeFont, MakeFontFails,
    StoreFont, Answer, DeleteIgnored, DeleteTestFlag, DeleteKept,
    DeleteNotStock, DeleteCall, TypeOK, Mutex, Inside, Building

LEMMA PhaseKept == ASSUME IInv, Next PROVE Phase'
<1> USE StockAssumption, StockFacts DEF Goto, IInv, TypeOK, Mutex, Phase,
        Inside, Building, Knows, Getting
<1> PICK t \in Threads : HookStep(t) \/ GameStep(t)
    BY DEF Next
<1>1. CASE CallGet(t) \/ CallCreateDC(t) \/ CallDelete(t)
    BY <1>1 DEF CallGet, CallCreateDC, CallDelete
<1>2. CASE GameCreate(t)
    BY <1>2 DEF GameCreate
<1>3. CASE TestFlag(t) \/ EnterSection(t) \/ RecheckFlag(t) \/
            LeaveSection(t)
    BY <1>3 DEF TestFlag, EnterSection, RecheckFlag, LeaveSection
<1>4. CASE PublishTable(t)
    BY <1>4 DEF PublishTable
<1>5. CASE MakeFont(t)
    BY <1>5 DEF MakeFont
<1>6. CASE MakeFontFails(t)
    BY <1>6 DEF MakeFontFails
<1>7. CASE StoreFont(t)
    BY <1>7 DEF StoreFont
<1>8. CASE Answer(t)
    BY <1>8 DEF Answer
<1>9. CASE DeleteIgnored(t) \/ DeleteTestFlag(t) \/ DeleteKept(t) \/
            DeleteNotStock(t)
    BY <1>9 DEF DeleteIgnored, DeleteTestFlag, DeleteKept, DeleteNotStock
<1>10. CASE DeleteCall(t)
    BY <1>10 DEF DeleteCall
<1> QED
    BY <1>1, <1>2, <1>3, <1>4, <1>5, <1>6, <1>7, <1>8, <1>9, <1>10
       DEF HookStep, GameStep

LEMMA UnfilledKept == ASSUME IInv, Next PROVE Unfilled'
BY StockAssumption, SMTT(60) DEF Next, HookStep, GameStep, Goto, CallGet,
    CallCreateDC, CallDelete, GameCreate, TestFlag, EnterSection,
    RecheckFlag, LeaveSection, PublishTable, MakeFont, MakeFontFails,
    StoreFont, Answer, DeleteIgnored, DeleteTestFlag, DeleteKept,
    DeleteNotStock, DeleteCall, IInv, TypeOK, Mutex, Phase, Unfilled,
    Inside, Building, Knows

LEMMA TableLiveKept == ASSUME IInv, Next PROVE TableLive'
<1> USE StockAssumption, StockFacts DEF Goto, IInv, TypeOK, Phase, TableLive
<1> PICK t \in Threads : HookStep(t) \/ GameStep(t)
    BY DEF Next
<1>1. CASE CallGet(t) \/ CallCreateDC(t) \/ CallDelete(t)
    BY <1>1 DEF CallGet, CallCreateDC, CallDelete
<1>2. CASE GameCreate(t)
    BY <1>2 DEF GameCreate
<1>3. CASE TestFlag(t) \/ EnterSection(t) \/ RecheckFlag(t) \/
            LeaveSection(t)
    BY <1>3 DEF TestFlag, EnterSection, RecheckFlag, LeaveSection
<1>4. CASE PublishTable(t)
    BY <1>4 DEF PublishTable
<1>5. CASE MakeFont(t)
    BY <1>5 DEF MakeFont
<1>6. CASE MakeFontFails(t)
    BY <1>6 DEF MakeFontFails
<1>7. CASE StoreFont(t)
    BY <1>7 DEF StoreFont
<1>8. CASE Answer(t)
    BY <1>8 DEF Answer
<1>9. CASE DeleteIgnored(t) \/ DeleteTestFlag(t) \/ DeleteKept(t) \/
            DeleteNotStock(t)
    BY <1>9 DEF DeleteIgnored, DeleteTestFlag, DeleteKept, DeleteNotStock
<1>10. CASE DeleteCall(t)
  <2>1. \A u \in Threads : font[u] = NoHandle
      BY <1>10 DEF DeleteCall, Knows, Building
  <2>2. \A o \in Objects : stock[o] # arg[t]
      BY <1>10 DEF DeleteCall
  <2> QED BY <1>10, <2>1, <2>2 DEF DeleteCall
<1> QED
    BY <1>1, <1>2, <1>3, <1>4, <1>5, <1>6, <1>7, <1>8, <1>9, <1>10
       DEF HookStep, GameStep

LEMMA AnswersFromTableKept == ASSUME IInv, Next PROVE AnswersFromTable'
<1> USE StockAssumption, StockFacts DEF Goto, IInv, TypeOK, Phase,
        Published, AnswersFromTable, Lookup,Knows, Building
<1> PICK t \in Threads : HookStep(t) \/ GameStep(t)
    BY DEF Next
<1>1. CASE CallGet(t) \/ CallCreateDC(t) \/ CallDelete(t)
    BY <1>1 DEF CallGet, CallCreateDC, CallDelete
<1>2. CASE GameCreate(t)
    BY <1>2 DEF GameCreate
<1>3. CASE TestFlag(t) \/ EnterSection(t) \/ RecheckFlag(t) \/
            LeaveSection(t)
    BY <1>3 DEF TestFlag, EnterSection, RecheckFlag, LeaveSection
<1>4. CASE PublishTable(t)
    BY <1>4 DEF PublishTable
<1>5. CASE MakeFont(t)
    BY <1>5 DEF MakeFont
<1>6. CASE MakeFontFails(t)
    BY <1>6 DEF MakeFontFails
<1>7. CASE StoreFont(t)
    BY <1>7 DEF StoreFont
<1>8. CASE Answer(t)
    BY <1>8 DEF Answer
<1>9. CASE DeleteIgnored(t) \/ DeleteTestFlag(t) \/ DeleteKept(t) \/
            DeleteNotStock(t)
    BY <1>9 DEF DeleteIgnored, DeleteTestFlag, DeleteKept, DeleteNotStock
<1>10. CASE DeleteCall(t)
    BY <1>10 DEF DeleteCall
<1> QED
    BY <1>1, <1>2, <1>3, <1>4, <1>5, <1>6, <1>7, <1>8, <1>9, <1>10
       DEF HookStep, GameStep

LEMMA NoFontLeakedKept == ASSUME IInv, Next PROVE NoFontLeaked'
<1> USE DEF IInv, NoFontLeaked
<1> PICK t \in Threads : HookStep(t) \/ GameStep(t)
    BY DEF Next
<1>1. CASE UNCHANGED <<stock, font, made>>
    BY <1>1
<1>2. CASE MakeFont(t)
  <2>1. font[t] \notin made
      BY <1>2, StockAssumption DEF MakeFont, Goto, Phase, TypeOK
  <2>2. PICK h \in Handles :
           made' = made \cup {h} /\ font' = [font EXCEPT ![t] = h]
      BY <1>2 DEF MakeFont
  <2>3. \A u \in Threads : u # t => font'[u] = font[u]
      BY <2>2 DEF TypeOK
  <2>4. font'[t] = h
      BY <2>2 DEF TypeOK
  <2>5. UNCHANGED stock
      BY <1>2 DEF MakeFont
  <2> QED BY <2>1, <2>2, <2>3, <2>4, <2>5
<1>3. CASE MakeFontFails(t)
  <2>1. font[t] \notin made
      BY <1>3, StockAssumption DEF MakeFontFails, Goto, Phase, TypeOK
  <2> QED BY <1>3, <2>1 DEF MakeFontFails, TypeOK
<1>4. CASE StoreFont(t)
  <2> DEFINE i == FontOrder[next[t]]
  <2>1. i \in Objects /\ stock[i] = NoHandle
      BY <1>4, StockFacts
         DEF StoreFont, Goto, Phase, Unfilled, TypeOK, Building
  <2>2. stock[i] \notin made
      BY <2>1, StockAssumption DEF TypeOK
  <2>3. stock'[i] = font[t] /\ \A o \in Objects : o # i => stock'[o] = stock[o]
      BY <1>4, <2>1 DEF StoreFont, TypeOK
  <2>4. \A u \in Threads : u # t => font'[u] = font[u]
      BY <1>4 DEF StoreFont, TypeOK
  <2>5. UNCHANGED made
      BY <1>4 DEF StoreFont
  <2> QED BY <2>1, <2>2, <2>3, <2>4, <2>5
<1> QED
    BY <1>1, <1>2, <1>3, <1>4
    DEF HookStep, GameStep, CallGet, CallCreateDC, CallDelete, GameCreate,
        TestFlag, EnterSection, RecheckFlag, PublishTable, LeaveSection,
        Answer, DeleteIgnored, DeleteTestFlag, DeleteKept, DeleteNotStock,
        DeleteCall

LEMMA NextInv == IInv /\ [Next]_vars => IInv'
<1> SUFFICES ASSUME IInv, [Next]_vars PROVE IInv'
    OBVIOUS
<1>1. CASE Next
    BY <1>1, TypeOKKept, MutexKept, PhaseKept, UnfilledKept, TableLiveKept,
       AnswersFromTableKept, NoFontLeakedKept DEF IInv
<1>2. CASE UNCHANGED vars
    BY <1>2 DEF vars, IInv, TypeOK, Mutex, Phase, Unfilled, TableLive,
                Published, AnswersFromTable, NoFontLeaked
<1> QED BY <1>1, <1>2

-----------------------------------------------------------------------------
(* The inductive invariant holds in every reachable state.                 *)
THEOREM Invariance == Spec => []IInv
BY InitInv, NextInv, PTL DEF Spec

(* Every variable keeps its type.                                          *)
THEOREM TypeCorrect == Spec => []TypeOK
<1>1. IInv => TypeOK
    BY DEF IInv
<1> QED BY <1>1, Invariance, PTL

(* However many threads make the first calls at once, a stock index has    *)
(* one answer for the life of the process (LeGetStockObject).              *)
THEOREM AnswersAreStable == Spec => []StableAnswers
<1>1. IInv => StableAnswers
    BY StockAssumption DEF IInv, TypeOK, AnswersFromTable, StableAnswers
<1> QED BY <1>1, Invariance, PTL

(* No font handed out for a stock index is destroyed by the game's         *)
(* DeleteObject calls (LeDeleteObject).                                    *)
THEOREM ReplacementsAreKept == Spec => []ReplacementsSurvive
<1>1. ASSUME IInv, NEW o \in Objects, Published(o) \in Handles
      PROVE  Published(o) \in live
    BY <1>1, StockAssumption, StockFacts
    DEF IInv, TableLive, Published
<1>2. IInv => ReplacementsSurvive
    BY <1>1, StockAssumption
    DEF IInv, TypeOK, AnswersFromTable, ReplacementsSurvive
<1> QED BY <1>2, Invariance, PTL

(* The hook never loses a font it created (LeGetStockObject).              *)
THEOREM FontsAreKept == Spec => []NoFontLeaked
<1>1. IInv => NoFontLeaked
    BY DEF IInv
<1> QED BY <1>1, Invariance, PTL

(* Nobody writes the table or the flag after the flag is set: readers need *)
(* no lock.                                                                *)
THEOREM TableIsFrozen == Spec => PublishedTableFrozen
<1>1. IInv /\ [Next]_vars =>
         [initialized => stock' = stock /\ initialized']_vars
  <2> SUFFICES ASSUME IInv, [Next]_vars, initialized
               PROVE  stock' = stock /\ initialized'
      OBVIOUS
  <2>1. ASSUME NEW t \in Threads PROVE ~StoreFont(t)
      BY <2>1 DEF IInv, Phase, StoreFont, Goto, Building
  <2> QED
      BY <2>1
      DEF vars, Next, HookStep, GameStep, CallGet, CallCreateDC, CallDelete,
          GameCreate, TestFlag, EnterSection, RecheckFlag, MakeFont,
          MakeFontFails, PublishTable, LeaveSection, Answer, DeleteIgnored,
          DeleteTestFlag, DeleteKept, DeleteNotStock, DeleteCall
<1> QED BY <1>1, Invariance, PTL DEF Spec, PublishedTableFrozen

-----------------------------------------------------------------------------
(* The hooks implement the promise StockTable states: publishing the table *)
(* is its Choose, an answer is its Reply or Select, all else stutters.     *)
THEOREM HooksImplementPromise == Spec => ImplementsPromise
<1>1. Init => Promise!Init
    BY DEF Init, Promise!Init
<1>2. IInv /\ [Next]_vars => [Promise!Next]_Promise!vars
  <2> SUFFICES ASSUME IInv, [Next]_vars
               PROVE  [Promise!Next]_Promise!vars
      OBVIOUS
  <2> USE DEF Goto
  <2>1. CASE UNCHANGED <<initialized, stock, answers, selected>>
      BY <2>1 DEF Promise!vars
  <2>2. ASSUME NEW t \in Threads, StoreFont(t) PROVE UNCHANGED Promise!vars
      BY <2>2 DEF StoreFont, IInv, Phase, Building, Promise!vars
  <2>3. ASSUME NEW t \in Threads, PublishTable(t) PROVE Promise!Choose
    <3>1. ~initialized /\ initialized' /\ stock' = stock
        BY <2>3 DEF PublishTable, IInv, Phase, Building
    <3>2. 0 \in Objects
        BY StockAssumption DEF Objects
    <3>3. \A o \in Objects : Published(o) \in Answers
        BY StockFacts DEF IInv, TypeOK, Published, Answers, Originals
    <3> QED
        BY <2>3, <3>1, <3>2, <3>3
        DEF PublishTable, Published, Promise!Choose, Promise!Chosen
  <2>4. ASSUME NEW t \in Threads, Answer(t)
        PROVE  [Promise!Next]_Promise!vars
    <3> DEFINE r == arg[t]
    <3>1. initialized /\ UNCHANGED <<initialized, stock>>
        BY <2>4 DEF Answer, IInv, Phase, Knows
    <3>2. Promise!Chosen
        BY <3>1, StockAssumption, StockFacts DEF Promise!Chosen
    <3>3. r \in Requests /\ (inDC[t] => r = SystemFont)
        BY <2>4 DEF Answer, IInv, Phase, Getting
    <3>4. PICK a \in Lookup(r) :
             /\ selected' = IF inDC[t] THEN selected \cup {a} ELSE selected
             /\ answers' = IF inDC[t] \/ r \notin Objects THEN answers
                           ELSE [answers EXCEPT ![r] = @ \cup {a}]
        BY <2>4 DEF Answer
    <3>5. r \in Objects => a = Published(r)
        BY <3>4 DEF Lookup, Published
    <3>6. CASE inDC[t]
        BY <3>1, <3>2, <3>3, <3>4, <3>5, <3>6, StockAssumption
        DEF Promise!Next, Promise!Select, Published
    <3>7. CASE ~inDC[t] /\ r \notin Objects
        BY <3>1, <3>4, <3>7 DEF Promise!vars
    <3>8. CASE ~inDC[t] /\ r \in Objects
        BY <3>1, <3>2, <3>4, <3>5, <3>8
        DEF Promise!Next, Promise!Reply, Published
    <3> QED BY <3>6, <3>7, <3>8
  <2> QED
      BY <2>1, <2>2, <2>3, <2>4
      DEF vars, Next, HookStep, GameStep, CallGet, CallCreateDC, CallDelete,
          GameCreate, TestFlag, EnterSection, RecheckFlag, MakeFont,
          MakeFontFails, LeaveSection, DeleteIgnored, DeleteTestFlag,
          DeleteKept, DeleteNotStock, DeleteCall, Promise!Next
<1> QED
    BY <1>1, <1>2, Invariance, PTL
       DEF Spec, ImplementsPromise, Promise!Spec
=============================================================================
