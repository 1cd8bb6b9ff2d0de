---------------------------- MODULE FontEnumProofs ----------------------------
(***************************************************************************)
(* Proofs about the font enumeration hooks (FontEnum), for any fonts and   *)
(* names and any nesting, and about the HashTableT that their text-metric  *)
(* cache is (HashTable), for any keys, indices, values and sizes.          *)
(*                                                                         *)
(* For the hooks the inductive invariant says that only the innermost      *)
(* enumeration is at work (the others wait for the game's callback), what  *)
(* it holds and knows at each step of AdjustFontData, that a name that was *)
(* missing in the cache stays so until it is added, and that what the      *)
(* cache says of a name is what the game was told of its font.             *)
(*                                                                         *)
(* For the table it says that every call of AddElement adds an entry of    *)
(* the old table of the call around it, that a larger table holds what has *)
(* been copied of the smaller one, that the probing of a key ends at its   *)
(* entry, that TableUsedSize counts at least the entries in use, and how   *)
(* far a table is loaded at each step of a growth while memory lasts.      *)
(***************************************************************************)
EXTENDS FontEnum, HashTable, FiniteSetTheorems, SequenceTheorems,
        WellFoundedInduction, NaturalsInduction, TLAPS

\* Where the hooks own a temporary font that gdi32 has not refused to take
\* back.
Holding == {"select", "adjust", "metrics", "deselect", "delete"}
Holds(s) == s.at \in Holding /\ ~(s.at = "delete" /\ s.selected)

\* What an enumeration has and knows.
FrameOK(s) ==
    /\ s.at \in {"adjust", "metrics", "deselect"} => s.selected
    /\ s.selected => s.at \in {"adjust", "metrics", "deselect", "delete"}
    /\ s.at # "gdi" =>
          /\ s.font \in Fonts
          /\ s.name \in {NameOf[s.font], NewName[s.font]}
          /\ s.status = "hidden" => s.name = NameOf[s.font]
          /\ s.at \in {"create", "select", "adjust"} =>
                s.status = "visible" /\ s.name = NameOf[s.font]
          /\ s.at # "game" => s.found \in {None, s.font}
          /\ s.found # None =>
                s.found = s.font \/ NewName[s.found] = NameOf[s.font]

FramesOK == \A i \in 1 .. Len(stack) : FrameOK(stack[i])

\* Only the innermost enumeration is at work.
OthersWait == \A i \in 1 .. Len(stack) - 1 : stack[i].at = "game"

Owned ==
    /\ dcs = Len(stack) + refusedDCs
    /\ temps = refusedFonts
                  + (IF stack # <<>> /\ Holds(Top) THEN 1 ELSE 0)

\* While AdjustFontData works on a name nothing is added under it.
StillMissing ==
    stack # <<>> /\ Top.at \notin {"gdi", "game"}
       => cache[NameOf[Top.font]] = "none"

\* The metrics of an entry are those of a font that has or had the name.
EntryOfName ==
    \A n \in Names :
       cache[n] \in Fonts => n \in {NameOf[cache[n]], NewName[cache[n]]}

\* The cache says of a font what the game was told.
CacheRemembers ==
    \A f \in Fonts : Unambiguous(f) =>
       /\ FALSE \in shown[f] => cache[NameOf[f]] = "hidden"
       /\ TRUE \in shown[f] /\ NewName[f] = NameOf[f] =>
             cache[NameOf[f]] \notin {"none", "hidden"}

IInv ==
    /\ TypeOK
    /\ FramesOK
    /\ OthersWait
    /\ Owned
    /\ StillMissing
    /\ EntryOfName
    /\ CacheRemembers
    /\ MetricsOfName

-----------------------------------------------------------------------------
(***************************************************************************)
(* Facts the proofs share.                                                 *)
(***************************************************************************)

\* Dropping the last element of a sequence.
LEMMA DropLast ==
    ASSUME NEW S, NEW s \in Seq(S), s # <<>>
    PROVE  /\ Len(s) \in Nat /\ Len(s) >= 1
           /\ Front(s) \in Seq(S) /\ Len(Front(s)) = Len(s) - 1
           /\ \A i \in 1 .. Len(s) - 1 : Front(s)[i] = s[i]
<1> DEFINE n == Len(s)
           u == SubSeq(s, 1, n - 1)
<1>1. n \in Nat /\ n >= 1  BY EmptySeq
<1>2. \A i \in 1 .. n - 1 : s[i] \in S  BY <1>1
<1> HIDE DEF n
<1>3. /\ u \in Seq(S)
      /\ Len(u) = IF 1 <= n - 1 THEN n - 1 - 1 + 1 ELSE 0
      /\ \A i \in 1 .. n - 1 - 1 + 1 : u[i] = s[1 + i - 1]
  BY <1>1, <1>2, SubSeqProperties
<1> HIDE DEF u
<1>4. Len(u) = n - 1 /\ \A i \in 1 .. n - 1 : u[i] = s[i]
  BY <1>1, <1>3
<1> QED  BY <1>1, <1>3, <1>4 DEF Front, n, u

\* Replacing it.
LEMMA ReplaceLast ==
    ASSUME NEW S, NEW s \in Seq(S), s # <<>>, NEW e \in S
    PROVE  LET t == Append(Front(s), e) IN
           /\ t \in Seq(S) /\ t # <<>> /\ Len(t) = Len(s) /\ t[Len(t)] = e
           /\ \A i \in 1 .. Len(s) - 1 : t[i] = s[i]
<1> DEFINE n == Len(s)
           u == Front(s)
           t == Append(u, e)
<1>1. /\ n \in Nat /\ n >= 1
      /\ u \in Seq(S) /\ Len(u) = n - 1 /\ \A i \in 1 .. n - 1 : u[i] = s[i]
  BY DropLast
<1> HIDE DEF u, n
<1>2. /\ t \in Seq(S) /\ Len(t) = n /\ t[n] = e
      /\ \A i \in 1 .. n - 1 : t[i] = u[i]
  BY <1>1, AppendProperties
<1>3. t # <<>>  BY <1>1, <1>2, EmptySeq
<1> QED  BY <1>1, <1>2, <1>3 DEF n, u

\* The innermost enumeration is one of the stack's.
LEMMA TopIs ==
    ASSUME TypeOK, FramesOK, stack # <<>>
    PROVE  /\ Len(stack) \in Nat /\ Len(stack) \in 1 .. Len(stack)
           /\ Top \in Frames /\ FrameOK(Top)
<1>1. Len(stack) \in Nat /\ Len(stack) >= 1  BY EmptySeq DEF TypeOK
<1>2. Len(stack) \in 1 .. Len(stack)  BY <1>1
<1>3. Top \in Frames  BY <1>2 DEF TypeOK, Top, Last
<1> QED  BY <1>1, <1>2, <1>3 DEF FramesOK, Top, Last

LEMMA IdleIs ==
    ASSUME NEW left \in SUBSET Fonts
    PROVE  Idle(left) \in Frames /\ FrameOK(Idle(left))
BY DEF Idle, Frames, FrameOK

\* A step of the innermost enumeration: what becomes of the stack.
LEMMA Becomes ==
    ASSUME TypeOK, FramesOK, OthersWait, stack # <<>>,
           NEW frame \in Frames, FrameOK(frame), Become(frame)
    PROVE  /\ stack' \in Seq(Frames) /\ stack' # <<>> /\ Top' = frame
           /\ Len(stack') = Len(stack)
           /\ FramesOK' /\ OthersWait'
<1>1. /\ stack' \in Seq(Frames) /\ stack' # <<>> /\ Len(stack') = Len(stack)
      /\ stack'[Len(stack')] = frame
      /\ \A i \in 1 .. Len(stack) - 1 : stack'[i] = stack[i]
  BY ReplaceLast DEF TypeOK, Become
<1>2. Top' = frame  BY <1>1 DEF Top, Last
<1>3. FramesOK'
  <2> SUFFICES ASSUME NEW i \in 1 .. Len(stack')  PROVE FrameOK(stack'[i])
    BY DEF FramesOK, FrameOK
  <2>1. Len(stack) \in Nat  BY TopIs
  <2>2. i = Len(stack') \/ i \in 1 .. Len(stack) - 1  BY <1>1, <2>1
  <2> QED  BY <1>1, <2>1, <2>2 DEF FramesOK
<1>4. OthersWait'  BY <1>1 DEF OthersWait
<1> QED  BY <1>1, <1>2, <1>3, <1>4

\* A step between the lookup of a name in the cache and its addition.
LEMMA Inner ==
    ASSUME IInv, stack # <<>>, Top.at \notin {"gdi", "game"},
           NEW frame \in Frames, FrameOK(frame), Become(frame),
           frame.at \notin {"gdi", "game"}, frame.font = Top.font,
           NEW n \in Nat, NEW h \in {0, 1}, h = 1 <=> Holds(frame),
           refusedFonts' = n, temps' = n + h,
           UNCHANGED <<cache, dcs, refusedDCs, history>>
    PROVE  IInv'
<1> USE DEF IInv, history
<1>1. /\ stack' \in Seq(Frames) /\ stack' # <<>> /\ Top' = frame
      /\ Len(stack') = Len(stack) /\ FramesOK' /\ OthersWait'
  BY Becomes
<1>2. TypeOK'
  <2>1. temps' \in Nat  OBVIOUS
  <2>2. /\ cache' \in [Names -> Fonts \cup {"none", "hidden", "unfilled"}]
        /\ dcs' \in Nat /\ refusedDCs' \in Nat
        /\ shown' \in [Fonts -> SUBSET BOOLEAN]
        /\ metrics' \in [Fonts -> SUBSET (Fonts \cup {None})]
    BY DEF TypeOK
  <2> QED  BY <1>1, <2>1, <2>2 DEF TypeOK
<1>3. Owned'
  <2>1. h = IF stack' # <<>> /\ Holds(Top)' THEN 1 ELSE 0
    BY <1>1 DEF Holds
  <2> QED  BY <1>1, <2>1 DEF Owned
<1>4. StillMissing'  BY <1>1 DEF StillMissing
<1>5. EntryOfName' /\ CacheRemembers' /\ MetricsOfName'
  BY DEF EntryOfName, CacheRemembers, MetricsOfName, Unambiguous
<1> QED  BY <1>1, <1>2, <1>3, <1>4, <1>5

-----------------------------------------------------------------------------
(***************************************************************************)
(* The invariant holds at first and every step keeps it.                   *)
(***************************************************************************)
LEMMA InitInv == Init => IInv
<1> SUFFICES ASSUME Init PROVE IInv
  OBVIOUS
<1> USE FontAssumption DEF Init
<1>1. TypeOK  BY DEF TypeOK
<1>2. FramesOK /\ OthersWait /\ Owned /\ StillMissing
  BY DEF FramesOK, OthersWait, Owned, StillMissing
<1>3. EntryOfName /\ CacheRemembers /\ MetricsOfName
  BY DEF EntryOfName, CacheRemembers, MetricsOfName
<1> QED  BY <1>1, <1>2, <1>3 DEF IInv

LEMMA CallKeeps == IInv /\ Call => IInv'
<1> SUFFICES ASSUME IInv, Call PROVE IInv'
  OBVIOUS
<1> USE DEF IInv, Call, history
<1>1. Idle(Fonts) \in Frames /\ FrameOK(Idle(Fonts))  BY IdleIs
<1>2. Len(stack) \in Nat  BY DEF TypeOK
<1>3. /\ stack' \in Seq(Frames) /\ Len(stack') = Len(stack) + 1
      /\ stack'[Len(stack) + 1] = Idle(Fonts)
      /\ \A i \in 1 .. Len(stack) : stack'[i] = stack[i]
  BY <1>1, AppendProperties DEF TypeOK
<1>4. stack' # <<>>  BY <1>2, <1>3, EmptySeq
<1>5. Top'.at = "gdi"  BY <1>3 DEF Top, Last, Idle
<1>6. TypeOK'  BY <1>3 DEF TypeOK, refusals
<1>7. FramesOK'
  <2> SUFFICES ASSUME NEW i \in 1 .. Len(stack')  PROVE FrameOK(stack'[i])
    BY DEF FramesOK, FrameOK
  <2>1. i = Len(stack) + 1 \/ i \in 1 .. Len(stack)  BY <1>2, <1>3
  <2> QED  BY <1>1, <1>3, <2>1 DEF FramesOK
<1>8. OthersWait'
  <2> SUFFICES ASSUME NEW i \in 1 .. Len(stack)  PROVE stack[i].at = "game"
    BY <1>2, <1>3 DEF OthersWait
  <2>1. stack # <<>> /\ (i = Len(stack) \/ i \in 1 .. Len(stack) - 1)
    BY <1>2
  <2>2. Top.at = "game"  BY <2>1 DEF At
  <2> QED  BY <2>1, <2>2 DEF OthersWait, Top, Last
<1>9. temps = refusedFonts
  BY DEF Owned, At, Holds, Holding, TypeOK
<1>10. Owned'
  BY <1>2, <1>3, <1>4, <1>5, <1>9 DEF Owned, Holds, Holding, TypeOK, refusals
<1>11. StillMissing'  BY <1>5 DEF StillMissing
<1>12. EntryOfName' /\ CacheRemembers' /\ MetricsOfName'
  BY DEF EntryOfName, CacheRemembers, MetricsOfName, Unambiguous
<1> QED  BY <1>6, <1>7, <1>8, <1>10, <1>11, <1>12

LEMMA EndEnumKeeps == IInv /\ EndEnum => IInv'
<1> SUFFICES ASSUME IInv, EndEnum PROVE IInv'
  OBVIOUS
<1> USE DEF IInv, EndEnum, history
<1>1. stack # <<>> /\ Top.at = "gdi"  BY DEF At
<1>2. Len(stack) \in Nat /\ Len(stack) >= 1  BY <1>1, EmptySeq DEF TypeOK
<1>3. /\ stack' \in Seq(Frames) /\ Len(stack') = Len(stack) - 1
      /\ \A i \in 1 .. Len(stack) - 1 : stack'[i] = stack[i]
  BY <1>1, DropLast DEF TypeOK
<1>4. /\ dcs' = Len(stack') + refusedDCs' /\ Len(stack') \in Nat
      /\ refusedDCs' \in Nat
  BY <1>2, <1>3 DEF Owned, TypeOK
<1>5. TypeOK'  BY <1>3, <1>4 DEF TypeOK
<1>6. FramesOK'
  <2> SUFFICES ASSUME NEW i \in 1 .. Len(stack')  PROVE FrameOK(stack'[i])
    BY DEF FramesOK, FrameOK
  <2>1. i \in 1 .. Len(stack) - 1 /\ i \in 1 .. Len(stack)
    BY <1>2, <1>3
  <2> QED  BY <1>3, <2>1 DEF FramesOK
<1>7. \A i \in 1 .. Len(stack') : stack'[i].at = "game"
  BY <1>3 DEF OthersWait
<1>8. OthersWait'  BY <1>4, <1>7 DEF OthersWait
<1>9. stack' # <<>> => Top'.at = "game"
  <2> SUFFICES ASSUME stack' # <<>>  PROVE Top'.at = "game"
    OBVIOUS
  <2>1. Len(stack') \in 1 .. Len(stack')  BY <1>3, <1>4, EmptySeq
  <2> QED  BY <1>7, <2>1 DEF Top, Last
<1>10. temps = refusedFonts  BY <1>1 DEF Owned, Holds, Holding, TypeOK
<1>11. Owned' /\ StillMissing'
  BY <1>4, <1>9, <1>10 DEF Owned, StillMissing, Holds, Holding, TypeOK
<1>12. EntryOfName' /\ CacheRemembers' /\ MetricsOfName'
  BY DEF EntryOfName, CacheRemembers, MetricsOfName, Unambiguous
<1> QED  BY <1>5, <1>6, <1>8, <1>11, <1>12

LEMMA CreateFontKeeps == IInv /\ CreateFont => IInv'
<1> SUFFICES ASSUME IInv, CreateFont PROVE IInv'
  OBVIOUS
<1>1. stack # <<>> /\ Top.at = "create"  BY DEF CreateFont, At
<1>2. Top \in Frames /\ FrameOK(Top)  BY <1>1, TopIs DEF IInv
<1>3. /\ temps = refusedFonts /\ refusedFonts \in Nat
      /\ UNCHANGED <<cache, dcs, refusedDCs, refusedFonts, history>>
  BY <1>1 DEF CreateFont, IInv, Owned, Holds, Holding, refusals, TypeOK
<1> DEFINE one == [Top EXCEPT !.at = "select"]
           other == [Top EXCEPT !.at = "remember"]
<1>4. /\ one \in Frames /\ one.at = "select" /\ one.font = Top.font
      /\ FrameOK(one)
  BY <1>1, <1>2 DEF Frames, FrameOK, Names
<1>5. /\ other \in Frames /\ other.at = "remember" /\ other.font = Top.font
      /\ FrameOK(other)
  BY <1>1, <1>2 DEF Frames, FrameOK, Names
<1>6. \/ Become(one) /\ temps' = refusedFonts + 1
      \/ Become(other) /\ temps' = refusedFonts
  BY <1>3 DEF CreateFont
<1> HIDE DEF one, other
<1>7. CASE Become(one) /\ temps' = refusedFonts + 1
  BY <1>1, <1>3, <1>4, <1>7, Inner DEF Holds, Holding
<1>8. CASE Become(other) /\ temps' = refusedFonts
  BY <1>1, <1>3, <1>5, <1>8, Inner DEF Holds, Holding
<1> QED  BY <1>6, <1>7, <1>8

LEMMA SelectFontKeeps == IInv /\ SelectFont => IInv'
<1> SUFFICES ASSUME IInv, SelectFont PROVE IInv'
  OBVIOUS
<1>1. stack # <<>> /\ Top.at = "select"  BY DEF SelectFont, At
<1>2. Top \in Frames /\ FrameOK(Top)  BY <1>1, TopIs DEF IInv
<1>3. /\ temps = refusedFonts + 1 /\ refusedFonts \in Nat
      /\ UNCHANGED <<cache, dcs, refusedDCs, refusedFonts, history>>
  BY <1>1 DEF SelectFont, IInv, Owned, Holds, Holding, gdi, refusals, TypeOK
<1> DEFINE one == [Top EXCEPT !.at = "adjust", !.selected = TRUE]
           other == [Top EXCEPT !.at = "delete"]
<1>4. /\ one \in Frames /\ one.at = "adjust" /\ one.font = Top.font
      /\ FrameOK(one)
  BY <1>1, <1>2 DEF Frames, FrameOK, Names
<1>5. /\ other \in Frames /\ other.at = "delete" /\ other.font = Top.font
      /\ FrameOK(other) /\ ~other.selected
  BY <1>1, <1>2 DEF Frames, FrameOK, Names
<1>6. \/ Become(one) /\ temps' = refusedFonts + 1
      \/ Become(other) /\ temps' = refusedFonts + 1
  BY <1>3 DEF SelectFont, gdi
<1> HIDE DEF one, other
<1>7. CASE Become(one) /\ temps' = refusedFonts + 1
  BY <1>1, <1>3, <1>4, <1>7, Inner DEF Holds, Holding
<1>8. CASE Become(other) /\ temps' = refusedFonts + 1
  BY <1>1, <1>3, <1>5, <1>8, Inner DEF Holds, Holding
<1> QED  BY <1>6, <1>7, <1>8

LEMMA AdjustKeeps == IInv /\ Adjust => IInv'
<1> SUFFICES ASSUME IInv, Adjust PROVE IInv'
  OBVIOUS
<1>1. stack # <<>> /\ Top.at = "adjust"  BY DEF Adjust, At
<1>2. Top \in Frames /\ FrameOK(Top)  BY <1>1, TopIs DEF IInv
<1>3. /\ temps = refusedFonts + 1 /\ refusedFonts \in Nat
      /\ UNCHANGED <<cache, dcs, refusedDCs, refusedFonts, history>>
  BY <1>1 DEF Adjust, IInv, Owned, Holds, Holding, gdi, refusals, TypeOK
<1> DEFINE one == [Top EXCEPT !.at = "metrics", !.name = NewName[Top.font]]
           other == [Top EXCEPT !.at = "metrics", !.status = "hidden"]
<1>4. /\ one \in Frames /\ one.at = "metrics" /\ one.font = Top.font
      /\ FrameOK(one)
  BY <1>1, <1>2 DEF Frames, FrameOK, Names
<1>5. /\ other \in Frames /\ other.at = "metrics" /\ other.font = Top.font
      /\ FrameOK(other)
  BY <1>1, <1>2 DEF Frames, FrameOK, Names
<1>6. \/ Become(one) /\ temps' = refusedFonts + 1
      \/ Become(other) /\ temps' = refusedFonts + 1
  BY <1>3 DEF Adjust, gdi
<1> HIDE DEF one, other
<1>7. CASE Become(one) /\ temps' = refusedFonts + 1
  BY <1>1, <1>3, <1>4, <1>7, Inner DEF Holds, Holding
<1>8. CASE Become(other) /\ temps' = refusedFonts + 1
  BY <1>1, <1>3, <1>5, <1>8, Inner DEF Holds, Holding
<1> QED  BY <1>6, <1>7, <1>8

LEMMA GetMetricsKeeps == IInv /\ GetMetrics => IInv'
<1> SUFFICES ASSUME IInv, GetMetrics PROVE IInv'
  OBVIOUS
<1>1. stack # <<>> /\ Top.at = "metrics"  BY DEF GetMetrics, At
<1>2. Top \in Frames /\ FrameOK(Top)  BY <1>1, TopIs DEF IInv
<1>3. /\ temps = refusedFonts + 1 /\ refusedFonts \in Nat
      /\ UNCHANGED <<cache, dcs, refusedDCs, refusedFonts, history>>
  BY <1>1 DEF GetMetrics, IInv, Owned, Holds, Holding, gdi, refusals, TypeOK
<1>4. PICK m \in {Top.font, None} :
         Become([Top EXCEPT !.at = "deselect", !.found = m])
  BY DEF GetMetrics
<1> DEFINE frame == [Top EXCEPT !.at = "deselect", !.found = m]
<1>5. /\ frame \in Frames /\ frame.at = "deselect" /\ frame.font = Top.font
      /\ FrameOK(frame)
  BY <1>1, <1>2 DEF Frames, FrameOK, Names
<1>6. Become(frame) /\ temps' = refusedFonts + 1
  BY <1>1, <1>2, <1>3, <1>4 DEF GetMetrics, gdi, FrameOK
<1> HIDE DEF frame
<1> QED  BY <1>1, <1>3, <1>5, <1>6, Inner DEF Holds, Holding

LEMMA DeselectKeeps == IInv /\ Deselect => IInv'
<1> SUFFICES ASSUME IInv, Deselect PROVE IInv'
  OBVIOUS
<1>1. stack # <<>> /\ Top.at = "deselect"  BY DEF Deselect, At
<1>2. Top \in Frames /\ FrameOK(Top) /\ Top.selected
  BY <1>1, TopIs DEF IInv, FrameOK
<1>3. /\ temps = refusedFonts + 1 /\ refusedFonts \in Nat
      /\ UNCHANGED <<cache, dcs, temps, refusedDCs, history>>
  BY <1>1 DEF Deselect, IInv, Owned, Holds, Holding, TypeOK
<1> DEFINE one == [Top EXCEPT !.at = "delete", !.selected = FALSE]
           other == [Top EXCEPT !.at = "delete"]
<1>4. /\ one \in Frames /\ one.at = "delete" /\ one.font = Top.font
      /\ FrameOK(one) /\ ~one.selected
  BY <1>1, <1>2 DEF Frames, FrameOK, Names
<1>5. /\ other \in Frames /\ other.at = "delete" /\ other.font = Top.font
      /\ FrameOK(other) /\ other.selected
  BY <1>1, <1>2 DEF Frames, FrameOK, Names
<1>6. \/ Become(one) /\ refusedFonts' = refusedFonts
      \/ Become(other) /\ refusedFonts' = refusedFonts + 1
  BY DEF Deselect
<1> HIDE DEF one, other
<1>7. CASE Become(one) /\ refusedFonts' = refusedFonts
  BY <1>1, <1>3, <1>4, <1>7, Inner DEF Holds, Holding
<1>8. CASE Become(other) /\ refusedFonts' = refusedFonts + 1
  BY <1>1, <1>3, <1>5, <1>8, Inner DEF Holds, Holding
<1> QED  BY <1>6, <1>7, <1>8

LEMMA DeleteFontKeeps == IInv /\ DeleteFont => IInv'
<1> SUFFICES ASSUME IInv, DeleteFont PROVE IInv'
  OBVIOUS
<1>1. stack # <<>> /\ Top.at = "delete"  BY DEF DeleteFont, At
<1>2. Top \in Frames /\ FrameOK(Top)  BY <1>1, TopIs DEF IInv
<1>3. /\ temps = refusedFonts + (IF Top.selected THEN 0 ELSE 1)
      /\ refusedFonts \in Nat
      /\ UNCHANGED <<cache, dcs, refusedDCs, history>>
  BY <1>1 DEF DeleteFont, IInv, Owned, Holds, Holding, TypeOK
<1> DEFINE frame == [Top EXCEPT !.at = "remember", !.selected = FALSE]
<1>4. /\ frame \in Frames /\ frame.at = "remember" /\ frame.font = Top.font
      /\ FrameOK(frame)
  BY <1>1, <1>2 DEF Frames, FrameOK, Names
<1>5. Become(frame)  BY DEF DeleteFont
<1>6. PICK n \in Nat : refusedFonts' = n /\ temps' = n + 0
  BY <1>3 DEF DeleteFont
<1> HIDE DEF frame
<1>7. ~Holds(frame)  BY <1>4 DEF Holds, Holding
<1> QED  BY <1>1, <1>3, <1>4, <1>5, <1>6, <1>7, Inner

LEMMA CacheMissKeeps == IInv /\ CacheMiss => IInv'
<1> SUFFICES ASSUME IInv, CacheMiss PROVE IInv'
  OBVIOUS
<1>1. stack # <<>> /\ Top.at = "gdi"  BY DEF CacheMiss, At
<1>2. Top \in Frames  BY <1>1, TopIs DEF IInv
<1>3. /\ temps' = refusedFonts' /\ refusedFonts \in Nat
      /\ UNCHANGED <<cache, temps, dcs, refusedDCs, refusedFonts, history>>
  BY <1>1 DEF CacheMiss, IInv, Owned, Holds, Holding, gdi, refusals, TypeOK
<1>4. PICK f \in Top.left :
         /\ cache[NameOf[f]] = "none"
         /\ Become([Idle(Top.left \ {f}) EXCEPT
                       !.at = "create", !.font = f, !.name = NameOf[f]])
  BY DEF CacheMiss
<1> DEFINE frame == [Idle(Top.left \ {f}) EXCEPT
                        !.at = "create", !.font = f, !.name = NameOf[f]]
<1>5. f \in Fonts /\ Top.left \ {f} \subseteq Fonts  BY <1>2 DEF Frames
<1>6. /\ frame \in Frames /\ frame.at = "create" /\ frame.font = f
      /\ FrameOK(frame)
  BY <1>5 DEF Idle, Frames, FrameOK, Names
<1>7. Become(frame)  BY <1>4
<1> HIDE DEF frame
<1>8. /\ stack' \in Seq(Frames) /\ stack' # <<>> /\ Top' = frame
      /\ Len(stack') = Len(stack) /\ FramesOK' /\ OthersWait'
  BY <1>1, <1>6, <1>7, Becomes DEF IInv
<1>9. TypeOK'  BY <1>3, <1>8 DEF TypeOK, IInv, history
<1>10. Owned'  BY <1>3, <1>6, <1>8 DEF Owned, IInv, Holds, Holding
<1>11. StillMissing'  BY <1>3, <1>4, <1>6, <1>8 DEF StillMissing
<1>12. EntryOfName' /\ CacheRemembers' /\ MetricsOfName'
  BY <1>3 DEF IInv, EntryOfName, CacheRemembers, MetricsOfName, Unambiguous,
              history
<1> QED  BY <1>8, <1>9, <1>10, <1>11, <1>12 DEF IInv

\* The name of an unambiguous font is not another's, old or new.
LEMMA NameIsIts ==
    ASSUME NEW f \in Fonts, Unambiguous(f), NEW g \in Fonts,
           NameOf[f] \in {NameOf[g], NewName[g]}
    PROVE  f = g
BY FontAssumption DEF Unambiguous

LEMMA CacheHitKeeps == IInv /\ CacheHit => IInv'
<1> SUFFICES ASSUME IInv, CacheHit PROVE IInv'
  OBVIOUS
<1>1. stack # <<>> /\ Top.at = "gdi"  BY DEF CacheHit, At
<1>2. Top \in Frames  BY <1>1, TopIs DEF IInv
<1>3. /\ temps' = refusedFonts' /\ refusedFonts \in Nat
      /\ UNCHANGED <<cache, temps, dcs, refusedDCs, refusedFonts, metrics>>
  BY <1>1 DEF CacheHit, IInv, Owned, Holds, Holding, gdi, refusals, TypeOK
<1>4. PICK f \in Top.left :
         LET entry == cache[NameOf[f]] IN
         \/ entry = "hidden" /\ Skip(f)
         \/ /\ entry \notin {"none", "hidden"}
            /\ Become([Idle(Top.left \ {f}) EXCEPT
                          !.at = "game", !.font = f, !.name = NameOf[f],
                          !.found = IF entry = "unfilled" THEN None
                                    ELSE entry])
            /\ Show(f, TRUE)
  BY DEF CacheHit
<1> DEFINE left == Top.left \ {f}
           entry == cache[NameOf[f]]
           found == IF entry = "unfilled" THEN None ELSE entry
           hit == [Idle(left) EXCEPT !.at = "game", !.font = f,
                                     !.name = NameOf[f], !.found = found]
<1>5. f \in Fonts /\ left \subseteq Fonts /\ NameOf[f] \in Names
  BY <1>2 DEF Frames, Names
<1>6. CASE entry = "hidden" /\ Skip(f)
  <2>1. Idle(left) \in Frames /\ FrameOK(Idle(left)) /\ Idle(left).at = "gdi"
    BY <1>5, IdleIs DEF Idle
  <2>2. /\ stack' \in Seq(Frames) /\ stack' # <<>> /\ Top'.at = "gdi"
        /\ Len(stack') = Len(stack) /\ FramesOK' /\ OthersWait'
    BY <1>1, <1>6, <2>1, Becomes DEF IInv, Skip
  <2>3. shown' = [shown EXCEPT ![f] = @ \cup {FALSE}]
    BY <1>6 DEF Skip, Show
  <2>4. TypeOK'  BY <1>3, <1>5, <2>2, <2>3 DEF TypeOK, IInv
  <2>5. Owned' /\ StillMissing'
    BY <1>3, <2>2 DEF Owned, StillMissing, IInv, Holds, Holding
  <2>6. CacheRemembers'
    BY <1>3, <1>5, <1>6, <2>3 DEF IInv, TypeOK, CacheRemembers, Unambiguous
  <2>7. EntryOfName' /\ MetricsOfName'
    BY <1>3 DEF IInv, EntryOfName, MetricsOfName
  <2> QED  BY <2>2, <2>4, <2>5, <2>6, <2>7 DEF IInv
<1>7. CASE entry \notin {"none", "hidden"} /\ Become(hit) /\ Show(f, TRUE)
  <2>1. found \in Fonts \cup {None}
    BY <1>5, <1>7 DEF IInv, TypeOK
  <2>2. found # None => found = f \/ NewName[found] = NameOf[f]
    <3> SUFFICES ASSUME found # None
                 PROVE  found = f \/ NewName[found] = NameOf[f]
      OBVIOUS
    <3>1. entry = found /\ entry \in Fonts  BY <2>1
    <3>2. NameOf[f] \in {NameOf[entry], NewName[entry]}
      BY <1>5, <3>1 DEF IInv, EntryOfName
    <3> QED  BY <1>5, <3>1, <3>2, FontAssumption
  <2> HIDE DEF found
  <2>3. hit \in Frames /\ FrameOK(hit) /\ hit.at = "game"
    BY <1>5, <2>1, <2>2 DEF Idle, Frames, FrameOK
  <2>4. /\ stack' \in Seq(Frames) /\ stack' # <<>> /\ Top'.at = "game"
        /\ Len(stack') = Len(stack) /\ FramesOK' /\ OthersWait'
    <3> HIDE DEF hit
    <3> QED  BY <1>1, <1>7, <2>3, Becomes DEF IInv
  <2>5. shown' = [shown EXCEPT ![f] = @ \cup {TRUE}]  BY <1>7 DEF Show
  <2>6. TypeOK'  BY <1>3, <1>5, <2>4, <2>5 DEF TypeOK, IInv
  <2>7. Owned' /\ StillMissing'
    BY <1>3, <2>4 DEF Owned, StillMissing, IInv, Holds, Holding
  <2>8. CacheRemembers'
    BY <1>3, <1>5, <1>7, <2>5 DEF IInv, TypeOK, CacheRemembers, Unambiguous
  <2>9. EntryOfName' /\ MetricsOfName'
    BY <1>3 DEF IInv, EntryOfName, MetricsOfName
  <2> QED  BY <2>4, <2>6, <2>7, <2>8, <2>9 DEF IInv
<1> QED  BY <1>4, <1>6, <1>7

LEMMA RememberKeeps == IInv /\ Remember => IInv'
<1> SUFFICES ASSUME IInv, Remember PROVE IInv'
  OBVIOUS
<1>1. stack # <<>> /\ Top.at = "remember"  BY DEF Remember, At
<1> DEFINE f == Top.font
           entry == IF Top.status = "hidden" THEN "hidden"
                    ELSE IF Top.found = None THEN "unfilled" ELSE Top.found
           visible == Top.status = "visible"
           next == IF visible THEN [Top EXCEPT !.at = "game"]
                   ELSE Idle(Top.left \ {f})
<1>2. Top \in Frames /\ FrameOK(Top)  BY <1>1, TopIs DEF IInv
<1>3. /\ f \in Fonts /\ Top.left \ {f} \subseteq Fonts
      /\ Top.name \in Names /\ Top.name \in {NameOf[f], NewName[f]}
      /\ Top.status \in {"visible", "hidden"}
      /\ Top.found \in {None, f} /\ cache[NameOf[f]] = "none"
      /\ ~visible => Top.name = NameOf[f]
  BY <1>1, <1>2 DEF Frames, FrameOK, Names, IInv, StillMissing
<1>4. /\ temps' = refusedFonts' /\ refusedFonts \in Nat
      /\ UNCHANGED <<dcs, temps, refusedDCs, refusedFonts, metrics>>
  BY <1>1 DEF Remember, IInv, Owned, Holds, Holding, gdi, refusals, TypeOK
<1>5. /\ cache' = [cache EXCEPT ![Top.name] = entry]
      /\ shown' = [shown EXCEPT ![f] = @ \cup {visible}]
      /\ Become(next)
  BY <1>1, <1>3 DEF Remember, Skip, Show
<1>6. /\ entry \in Fonts \cup {"hidden", "unfilled"}
      /\ entry \in Fonts => entry = f
      /\ visible <=> entry # "hidden"
  BY <1>3, FontAssumption
<1>7. /\ next \in Frames /\ FrameOK(next)
      /\ next.at = IF visible THEN "game" ELSE "gdi"
  <2>1. CASE visible
    BY <1>1, <1>2, <1>3, <2>1 DEF Frames, FrameOK
  <2>2. CASE ~visible  BY <1>3, <2>2, IdleIs DEF Idle
  <2> QED  BY <2>1, <2>2
<1> HIDE DEF next, entry, f, visible
<1>8. /\ stack' \in Seq(Frames) /\ stack' # <<>> /\ Top' = next
      /\ Len(stack') = Len(stack) /\ FramesOK' /\ OthersWait'
  BY <1>1, <1>4, <1>5, <1>7, Becomes DEF IInv
<1>9. TypeOK'
  BY <1>3, <1>4, <1>5, <1>6, <1>8 DEF TypeOK, IInv, visible
<1>10. Owned' /\ StillMissing'
  BY <1>4, <1>5, <1>7, <1>8 DEF Owned, StillMissing, IInv, Holds, Holding
<1>11. EntryOfName'
  BY <1>3, <1>4, <1>5, <1>6 DEF EntryOfName, IInv, TypeOK
<1>12. CacheRemembers'
  <2> SUFFICES ASSUME NEW g \in Fonts, Unambiguous(g)
               PROVE  /\ FALSE \in shown'[g] => cache'[NameOf[g]] = "hidden"
                      /\ TRUE \in shown'[g] /\ NewName[g] = NameOf[g] =>
                            cache'[NameOf[g]] \notin {"none", "hidden"}
    BY DEF CacheRemembers, Unambiguous
  <2>1. NameOf[g] \in Names  BY DEF Names
  <2>2. CASE g # f
    <3>1. Top.name # NameOf[g]  BY <1>3, <2>2, NameIsIts
    <3>2. cache'[NameOf[g]] = cache[NameOf[g]] /\ shown'[g] = shown[g]
      BY <1>3, <1>4, <1>5, <2>1, <2>2, <3>1 DEF IInv, TypeOK
    <3> QED  BY <3>2 DEF IInv, CacheRemembers
  <2>3. CASE g = f
    <3>1. /\ FALSE \notin shown[f]
          /\ NewName[f] = NameOf[f] => TRUE \notin shown[f]
      BY <1>3, <2>3 DEF IInv, CacheRemembers
    <3>2. shown'[f] = shown[f] \cup {visible}
      BY <1>3, <1>5 DEF IInv, TypeOK
    <3>3. Top.name = NameOf[f] => cache'[NameOf[f]] = entry
      BY <1>3, <1>5 DEF IInv, TypeOK
    <3>4. FALSE \in shown'[f] => cache'[NameOf[f]] = "hidden"
      BY <1>3, <1>6, <3>1, <3>2, <3>3
    <3>5. TRUE \in shown'[f] /\ NewName[f] = NameOf[f] =>
             cache'[NameOf[f]] \notin {"none", "hidden"}
      BY <1>3, <1>6, <3>1, <3>2, <3>3, FontAssumption
    <3> QED  BY <2>3, <3>4, <3>5
  <2> QED  BY <2>2, <2>3
<1>13. MetricsOfName'  BY <1>4, <1>5 DEF IInv, MetricsOfName
<1> QED  BY <1>8, <1>9, <1>10, <1>11, <1>12, <1>13 DEF IInv

LEMMA ReturnKeeps == IInv /\ CallbackReturns => IInv'
<1> SUFFICES ASSUME IInv, CallbackReturns PROVE IInv'
  OBVIOUS
<1>1. stack # <<>> /\ Top.at = "game"  BY DEF CallbackReturns, At
<1>2. Top \in Frames /\ FrameOK(Top)  BY <1>1, TopIs DEF IInv
<1>3. /\ temps' = refusedFonts' /\ refusedFonts \in Nat
      /\ UNCHANGED <<cache, temps, dcs, refusedDCs, refusedFonts, shown>>
      /\ metrics' = [metrics EXCEPT ![Top.font] = @ \cup {Top.found}]
  BY <1>1 DEF CallbackReturns, IInv, Owned, Holds, Holding, gdi, refusals,
              TypeOK
<1>4. PICK left \in SUBSET Fonts : Become(Idle(left))
  BY <1>2 DEF CallbackReturns, Frames
<1>5. Idle(left) \in Frames /\ FrameOK(Idle(left)) /\ Idle(left).at = "gdi"
  BY IdleIs DEF Idle
<1>6. /\ stack' \in Seq(Frames) /\ stack' # <<>> /\ Top'.at = "gdi"
      /\ Len(stack') = Len(stack) /\ FramesOK' /\ OthersWait'
  BY <1>1, <1>4, <1>5, Becomes DEF IInv
<1>7. /\ Top.font \in Fonts /\ Top.found \in Fonts \cup {None}
      /\ Top.found # None =>
            Top.found = Top.font \/ NewName[Top.found] = NameOf[Top.font]
  BY <1>1, <1>2 DEF Frames, FrameOK
<1>8. TypeOK'  BY <1>3, <1>6, <1>7 DEF TypeOK, IInv
<1>9. Owned' /\ StillMissing'
  BY <1>3, <1>6 DEF Owned, StillMissing, IInv, Holds, Holding
<1>10. EntryOfName' /\ CacheRemembers'
  BY <1>3 DEF IInv, EntryOfName, CacheRemembers, Unambiguous
<1>11. MetricsOfName'
  BY <1>3, <1>7 DEF IInv, TypeOK, MetricsOfName
<1> QED  BY <1>6, <1>8, <1>9, <1>10, <1>11 DEF IInv

-----------------------------------------------------------------------------
(***************************************************************************)
(* The theorems.                                                           *)
(***************************************************************************)
LEMMA NextKeeps == IInv /\ [Next]_vars => IInv'
<1> SUFFICES ASSUME IInv, [Next]_vars PROVE IInv'
  OBVIOUS
<1>1. CASE UNCHANGED vars
  BY <1>1 DEF vars, IInv, TypeOK, FramesOK, OthersWait, Owned, StillMissing,
              EntryOfName, CacheRemembers, MetricsOfName, FrameOK, Top,
              Unambiguous, Holds
<1>2. CASE Next
  BY <1>2, CallKeeps, EndEnumKeeps, CacheHitKeeps, CacheMissKeeps,
     CreateFontKeeps, SelectFontKeeps, AdjustKeeps, GetMetricsKeeps,
     DeselectKeeps, DeleteFontKeeps, RememberKeeps, ReturnKeeps DEF Next
<1> QED  BY <1>1, <1>2

\* After a step of the innermost enumeration it is what it became.
LEMMA TopAfter ==
    ASSUME IInv, stack # <<>>, NEW frame, Become(frame)
    PROVE  Top' = frame
<1> DEFINE S == Frames \cup {frame}
<1>1. \A i \in 1 .. Len(stack) : stack[i] \in S  BY DEF IInv, TypeOK
<1>2. stack \in Seq(S)  BY <1>1 DEF IInv, TypeOK
<1> HIDE DEF S
<1>3. frame \in S  BY DEF S
<1> QED  BY <1>2, <1>3, ReplaceLast DEF Become, Top, Last

\* A font the game's callback is called for has not been hidden.
LEMMA NotHidden ==
    ASSUME IInv, Next, NEW f \in Fonts, Reports(f),
           cache[NameOf[f]] = "hidden"
    PROVE  FALSE
<1>1. /\ stack' # <<>> /\ Top'.at = "game" /\ Top'.font = f
      /\ Len(stack') = Len(stack)
  BY DEF Reports, At
<1>2. Len(stack) \in Nat  BY DEF IInv, TypeOK
<1>3. stack # <<>>  BY <1>1, EmptySeq
<1>4. CASE Call
  BY <1>1, <1>2, <1>4 DEF Call, IInv, TypeOK
<1>5. CASE EndEnum
  BY <1>1, <1>2, <1>3, <1>5, DropLast DEF EndEnum, IInv, TypeOK
<1>6. CASE CacheHit
  <2>1. PICK g \in Top.left :
           LET entry == cache[NameOf[g]] IN
           \/ entry = "hidden" /\ Skip(g)
           \/ /\ entry \notin {"none", "hidden"}
              /\ Become([Idle(Top.left \ {g}) EXCEPT
                            !.at = "game", !.font = g, !.name = NameOf[g],
                            !.found = IF entry = "unfilled" THEN None
                                      ELSE entry])
    BY <1>6 DEF CacheHit
  <2>2. CASE Skip(g)
    BY <1>1, <1>3, <2>2, TopAfter DEF Skip, Idle
  <2>3. CASE cache[NameOf[g]] # "hidden" /\ ~Skip(g)
    <3>1. Top'.font = g  BY <1>3, <2>1, <2>3, TopAfter DEF Idle
    <3> QED  BY <1>1, <2>3, <3>1
  <2> QED  BY <2>1, <2>2, <2>3
<1>7. CASE CacheMiss
  BY <1>1, <1>3, <1>7, TopAfter DEF CacheMiss, Idle
<1>8. CASE \/ CreateFont \/ SelectFont \/ Adjust \/ GetMetrics
            \/ Deselect \/ DeleteFont
  <2>1. Top \in Frames  BY <1>3, TopIs DEF IInv
  <2>2. PICK x \in {"select", "adjust", "metrics", "deselect", "delete",
                    "remember"} :
           \/ Become([Top EXCEPT !.at = x])
           \/ \E b \in BOOLEAN : Become([Top EXCEPT !.at = x, !.selected = b])
           \/ \E n : Become([Top EXCEPT !.at = x, !.name = n])
           \/ \E b : Become([Top EXCEPT !.at = x, !.status = b])
           \/ \E m : Become([Top EXCEPT !.at = x, !.found = m])
    <3>1. CASE CreateFont  BY <3>1 DEF CreateFont
    <3>2. CASE SelectFont  BY <3>2 DEF SelectFont
    <3>3. CASE Adjust  BY <3>3 DEF Adjust
    <3>4. CASE GetMetrics  BY <3>4 DEF GetMetrics
    <3>5. CASE Deselect  BY <3>5 DEF Deselect
    <3>6. CASE DeleteFont  BY <3>6 DEF DeleteFont
    <3> QED  BY <1>8, <3>1, <3>2, <3>3, <3>4, <3>5, <3>6
  <2>3. Top'.at = x  BY <1>3, <2>1, <2>2, TopAfter DEF Frames
  <2> QED  BY <1>1, <2>3
<1>9. CASE Remember
  <2>1. Top \in Frames /\ Top.at = "remember"
    BY <1>3, <1>9, TopIs DEF IInv, Remember, At
  <2>2. CASE Skip(Top.font)
    BY <1>1, <1>3, <2>2, TopAfter DEF Skip, Idle
  <2>3. CASE Become([Top EXCEPT !.at = "game"])
    <3>1. Top'.font = Top.font
      BY <1>3, <2>1, <2>3, TopAfter DEF Frames
    <3> QED  BY <1>1, <1>3, <2>1, <3>1 DEF IInv, StillMissing
  <2> QED  BY <1>9, <2>2, <2>3 DEF Remember
<1>10. CASE CallbackReturns
  BY <1>1, <1>3, <1>10, TopAfter DEF CallbackReturns, Idle
<1> QED  BY <1>4, <1>5, <1>6, <1>7, <1>8, <1>9, <1>10 DEF Next

\* In every reachable state each call of LeEnumFontCallbackW on the stack holds
\* just the temporary font and the device context its step has obtained and not
\* yet given back, the calls below the top one wait for the game's callback, and
\* what AdjustFontData found or remembers under a name is that name's metrics.
THEOREM Invariance == Spec => []IInv
BY InitInv, NextKeeps, PTL DEF Spec

\* The types of the enumerations' state.
THEOREM TypeCorrect == Spec => []TypeOK
<1>1. IInv => TypeOK  BY DEF IInv
<1> QED  BY <1>1, Invariance, PTL

\* Whatever GDI call fails in AdjustFontData and however deep the game nests
\* its enumerations, the hooks leak no DC and no font.
THEOREM NothingLeaks == Spec => []GdiBalanced
<1>1. IInv => GdiBalanced
  BY DEF IInv, TypeOK, Owned, GdiBalanced, Holds, Holding, At
<1> QED  BY <1>1, Invariance, PTL

\* A font whose name is its own and does not change is in every enumeration
\* or in none, although AdjustFontData may fail one time and not the next.
THEOREM VisibilityIsStable == Spec => []StableVisibility
<1>1. IInv => StableVisibility
  BY DEF IInv, CacheRemembers, StableVisibility
<1> QED  BY <1>1, Invariance, PTL

\* LeEnumFontCallbackW replaces metrics by those of a font of that name only.
THEOREM MetricsAreOfName == Spec => []MetricsOfName
<1>1. IInv => MetricsOfName  BY DEF IInv
<1> QED  BY <1>1, Invariance, PTL

\* A font hidden once stays hidden, renamed or not.
THEOREM HiddenForGood == Spec => HiddenStaysHidden
<1> DEFINE Silent == \A f \in Fonts :
              Unambiguous(f) /\ FALSE \in shown[f] => ~Reports(f)
<1>1. IInv /\ [Next]_vars => [Silent]_vars
  <2> SUFFICES ASSUME IInv, Next, NEW f \in Fonts, Unambiguous(f),
                      FALSE \in shown[f], Reports(f)
               PROVE  FALSE
    OBVIOUS
  <2>1. cache[NameOf[f]] = "hidden"  BY DEF IInv, CacheRemembers
  <2> QED  BY <2>1, NotHidden
<1> QED  BY <1>1, Invariance, PTL DEF Spec, HiddenStaysHidden

-----------------------------------------------------------------------------
(***************************************************************************)
(* The table of the text-metric cache (HashTable).                         *)
(***************************************************************************)

\* AddElement may fill a table up to this: the last entry is added behind a
\* growth, which nothing compares again.
Load(t) == (t.size * 3) \div 4

UsedBelow(t, n) == {i \in 0 .. n - 1 : t.hash[i] # Empty}

\* What the first n entries hold.
Entries(t, n) == {<<t.hash[i], t.value[i]>> : i \in UsedBelow(t, n)}

\* An entry with a key is where LookupEntry ends for the key.
Chained(t) ==
    \A k \in Keys : \A i \in Slots(t) : t.hash[i] = k => IsFirst(t, k, i)

\* A call is one for an entry of the old table of the call around it.
CallsOK ==
    \A m \in 1 .. Len(calls) :
       LET c == calls[m] IN
       /\ c.next <= c.old.size
       /\ c.at = "increase" => c.old = NewTable(0) /\ m = Len(calls)
       /\ m < Len(calls) =>
             /\ c.next >= 1
             /\ c.old.hash[c.next - 1] = calls[m + 1].key
             /\ c.old.value[c.next - 1] = calls[m + 1].value

\* The table that the old entries of call m are added to.
Target(m) ==
    IF m < Len(calls) /\ calls[m + 1].old.size > 0 THEN calls[m + 1].old
    ELSE table

\* How many of them have been.
Copied(m) == IF m < Len(calls) THEN calls[m].next - 1 ELSE calls[m].next

\* Every table of a call that has only been added to is a map, and the
\* larger one has what has been copied of the smaller.
MapsOK ==
    ~use.removing =>
       /\ Chained(table)
       /\ \A m \in 1 .. Len(calls) :
             /\ Chained(calls[m].old)
             /\ calls[m].old.size > 0 =>
                   Entries(Target(m), Target(m).size)
                      = Entries(calls[m].old, Copied(m))

Counted == Cardinality(Used(table)) <= table.used

\* While memory lasts: the outer call of two is copying.
Growing ==
    LET c == calls[1] IN
    /\ Len(calls) <= 2
    /\ Len(calls) = 2 => c.old.size > 0 /\ calls[2].old.size = 0
    /\ c.old.size > 0 =>
          /\ table.size = NextSize[c.old.size]
          /\ Cardinality(Used(c.old)) <= Load(c.old) + 1
          /\ table.used = Cardinality(UsedBelow(c.old, Copied(1)))
    /\ c.at = "copy" /\ c.old.size = 0 => table.used < Load(table)

Spacious ==
    ~refused =>
       /\ ~down
       /\ table.used <= Load(table) + (IF table.size = 0 THEN 0 ELSE 1)
       /\ calls # <<>> => Growing

TableInv ==
    /\ TableTypeOK
    /\ CallsOK
    /\ MapsOK
    /\ Counted
    /\ Spacious

-----------------------------------------------------------------------------
(***************************************************************************)
(* One table.                                                              *)
(***************************************************************************)

\* A set of numbers that is not empty has a least one.
Smaller == {pair \in Nat \X Nat : pair[1] < pair[2]}

LEMMA SmallerWellFounded == IsWellFoundedOn(Smaller, Nat)
<1>1. OpToRel(<, Nat) = Smaller  BY Zenon DEF OpToRel, Smaller
<1> QED  BY <1>1, NatLessThanWellFounded

LEMMA LeastNat ==
    ASSUME NEW I \in SUBSET Nat, I # {}
    PROVE  \E m \in I : \A j \in I : m <= j
<1>1. PICK m \in I : \A j \in I : <<j, m>> \notin Smaller
  BY WFMin, SmallerWellFounded
<1>2. \A j \in I : j < m => <<j, m>> \in Smaller  BY DEF Smaller
<1>3. m \in Nat /\ \A j \in I : j \in Nat /\ ~ (j < m)  BY <1>1, <1>2
<1> QED  BY <1>3

LEMMA TableIs ==
    ASSUME NEW t \in Tables
    PROVE  /\ t.size \in Sizes \cup {0} /\ t.size \in Nat
           /\ t.size # 0 => t.size >= 5 /\ t.size \in Sizes
           /\ t.used \in Nat
           /\ t.hash \in [Slots(t) -> Keys \cup {Empty}]
           /\ t.value \in [Slots(t) -> Values \cup {NoValue}]
           /\ t = [size |-> t.size, used |-> t.used,
                   hash |-> t.hash, value |-> t.value]
<1>1. PICK n \in Sizes \cup {0} :
         t \in [size : {n}, used : Nat, hash : [0 .. n - 1 -> Keys \cup {Empty}],
                value : [0 .. n - 1 -> Values \cup {NoValue}]]
  BY DEF Tables
<1> QED  BY <1>1, HashAssumption DEF Slots

LEMMA IsTable ==
    ASSUME NEW n \in Sizes \cup {0}, NEW u \in Nat,
           NEW h \in [0 .. n - 1 -> Keys \cup {Empty}],
           NEW v \in [0 .. n - 1 -> Values \cup {NoValue}]
    PROVE  [size |-> n, used |-> u, hash |-> h, value |-> v] \in Tables
BY DEF Tables

LEMMA NewTableIs ==
    ASSUME NEW n \in Sizes \cup {0}
    PROVE  /\ NewTable(n) \in Tables /\ NewTable(n).size = n
           /\ NewTable(n).used = 0 /\ Used(NewTable(n)) = {}
           /\ \A m \in Nat : m <= n => UsedBelow(NewTable(n), m) = {}
<1>1. NewTable(n) \in Tables  BY IsTable DEF NewTable
<1>2. n \in Nat  BY HashAssumption
<1> QED  BY <1>1, <1>2 DEF NewTable, Used, UsedBelow, Slots

\* Two entries are not at the same distance.
LEMMA Distances ==
    ASSUME NEW t \in Tables, NEW k \in Keys, NEW i \in Slots(t)
    PROVE  /\ Distance(t, k, i) \in Nat
           /\ \A j \in Slots(t) :
                 Distance(t, k, i) = Distance(t, k, j) => i = j
<1> DEFINE first == IndexOf[k] % t.size
<1>1. t.size \in Nat /\ t.size > 0 /\ i \in 0 .. t.size - 1
  BY TableIs DEF Slots
<1>2. IndexOf[k] \in Nat  BY HashAssumption
<1>3. first \in 0 .. t.size - 1  BY <1>1, <1>2
<1> HIDE DEF first
<1>4. \A j \in 0 .. t.size - 1 :
         Distance(t, k, j) = IF first <= j THEN j - first
                             ELSE j + t.size - first
  BY DEF Distance, first
<1> QED  BY <1>1, <1>3, <1>4 DEF Slots

\* Where one entry has the key or is unused, the probing ends at one.
LEMMA ProbingEnds ==
    ASSUME NEW t \in Tables, NEW k \in Keys, NEW i \in Slots(t),
           t.hash[i] \in {k, Empty}
    PROVE  Probes(t, k) # {}
<1> DEFINE ends == {j \in Slots(t) : t.hash[j] \in {k, Empty}}
           I == {Distance(t, k, j) : j \in ends}
<1>1. I \in SUBSET Nat /\ I # {}  BY Distances
<1>2. PICK m \in I : \A j \in I : m <= j  BY <1>1, LeastNat
<1>3. PICK e \in ends : m = Distance(t, k, e)  BY <1>2
<1>4. IsFirst(t, k, e)  BY <1>2, <1>3 DEF IsFirst
<1> QED  BY <1>3, <1>4 DEF Probes

\* A key of a chained table has one entry.
LEMMA OneEntry ==
    ASSUME NEW t \in Tables, Chained(t), NEW k \in Keys,
           NEW i \in Slots(t), t.hash[i] = k,
           NEW p \in Slots(t), t.hash[p] \in {k, Empty}, IsFirst(t, k, p)
    PROVE  p = i
<1>1. IsFirst(t, k, i)  BY DEF Chained
<1>2. /\ Distance(t, k, i) <= Distance(t, k, p)
      /\ Distance(t, k, p) <= Distance(t, k, i)
  BY <1>1 DEF IsFirst
<1> QED  BY <1>2, Distances

\* An entry is written.
Written(t, p, h, v, u) ==
    [t EXCEPT !.hash[p] = h, !.value[p] = v, !.used = u]

LEMMA WrittenIs ==
    ASSUME NEW t \in Tables, NEW p \in Slots(t), NEW h \in Keys \cup {Empty},
           NEW v \in Values \cup {NoValue}, NEW u \in Nat
    PROVE  /\ Written(t, p, h, v, u) \in Tables
           /\ Written(t, p, h, v, u).size = t.size
           /\ Written(t, p, h, v, u).used = u
           /\ Slots(Written(t, p, h, v, u)) = Slots(t)
           /\ \A i \in Slots(t) :
                 /\ Written(t, p, h, v, u).hash[i] =
                       IF i = p THEN h ELSE t.hash[i]
                 /\ Written(t, p, h, v, u).value[i] =
                       IF i = p THEN v ELSE t.value[i]
<1> DEFINE g == [t.hash EXCEPT ![p] = h]
           w == [t.value EXCEPT ![p] = v]
<1>1. /\ g \in [Slots(t) -> Keys \cup {Empty}]
      /\ w \in [Slots(t) -> Values \cup {NoValue}]
      /\ \A i \in Slots(t) : /\ g[i] = IF i = p THEN h ELSE t.hash[i]
                             /\ w[i] = IF i = p THEN v ELSE t.value[i]
  BY TableIs
<1>2. Written(t, p, h, v, u) = [size |-> t.size, used |-> u,
                                hash |-> g, value |-> w]
  <2>1. t = [size |-> t.size, used |-> t.used, hash |-> t.hash,
             value |-> t.value]
    BY TableIs
  <2>2. Written(t, p, h, v, u) =
           [[[t EXCEPT !.hash = g] EXCEPT !.value = w] EXCEPT !.used = u]
    BY ONLY <2>1 DEF Written
  <2> HIDE DEF g, w
  <2> QED  BY <2>1, <2>2
<1> HIDE DEF g, w
<1>3. Written(t, p, h, v, u) \in Tables
  <2>1. t.size \in Sizes \cup {0}  BY TableIs
  <2>2. /\ g \in [0 .. t.size - 1 -> Keys \cup {Empty}]
        /\ w \in [0 .. t.size - 1 -> Values \cup {NoValue}]
    BY <1>1 DEF Slots
  <2> QED  BY <1>2, <2>1, <2>2, IsTable
<1> QED  BY <1>1, <1>2, <1>3 DEF Slots

\* The table behind "Entry->Hash = Hash; Entry->Element = Element;
\* ++TableUsedSize".
After(t, p, k, v) == Written(t, p, k, v, t.used + 1)

LEMMA AfterIs ==
    ASSUME NEW t \in Tables, NEW p \in Slots(t), NEW k \in Keys,
           NEW v \in Values \cup {NoValue}
    PROVE  /\ After(t, p, k, v) \in Tables
           /\ After(t, p, k, v).size = t.size
           /\ After(t, p, k, v).used = t.used + 1
           /\ Slots(After(t, p, k, v)) = Slots(t)
           /\ \A i \in Slots(t) :
                 /\ After(t, p, k, v).hash[i] = IF i = p THEN k ELSE t.hash[i]
                 /\ After(t, p, k, v).value[i] = IF i = p THEN v ELSE t.value[i]
<1>1. t.used + 1 \in Nat  BY TableIs
<1> QED  BY <1>1, WrittenIs DEF After

\* AddElement keeps the table chained, and adds or overwrites the key's entry.
LEMMA PutChained ==
    ASSUME NEW t \in Tables, Chained(t), NEW k \in Keys,
           NEW v \in Values \cup {NoValue}, NEW p \in Probes(t, k)
    PROVE  Chained(After(t, p, k, v))
<1> DEFINE u == After(t, p, k, v)
<1>1. p \in Slots(t) /\ t.hash[p] \in {k, Empty} /\ IsFirst(t, k, p)
  BY DEF Probes
<1>2. /\ Slots(u) = Slots(t) /\ u.size = t.size
      /\ \A i \in Slots(t) : u.hash[i] = IF i = p THEN k ELSE t.hash[i]
  BY <1>1, AfterIs
<1> HIDE DEF u
<1>3. \A j, i : Distance(u, j, i) = Distance(t, j, i)
  BY <1>2 DEF Distance
<1> SUFFICES ASSUME NEW j \in Keys, NEW i \in Slots(t), u.hash[i] = j,
                    NEW x \in Slots(t), u.hash[x] \in {j, Empty}
             PROVE  Distance(t, j, i) <= Distance(t, j, x)
  BY <1>2, <1>3 DEF Chained, IsFirst, u
<1>4. k # Empty  BY HashAssumption
<1>5. CASE i = p
  BY <1>1, <1>2, <1>5, Distances DEF IsFirst
<1>6. CASE i # p
  <2>1. t.hash[i] = j /\ IsFirst(t, j, i)  BY <1>2, <1>6 DEF Chained
  <2>2. t.hash[x] \in {j, Empty}  BY <1>1, <1>2, <1>4
  <2> QED  BY <2>1, <2>2 DEF IsFirst
<1> QED  BY <1>5, <1>6

LEMMA PutEntries ==
    ASSUME NEW t \in Tables, Chained(t), NEW k \in Keys,
           NEW v \in Values \cup {NoValue}, NEW p \in Probes(t, k)
    PROVE  Entries(After(t, p, k, v), t.size)
              = {e \in Entries(t, t.size) : e[1] # k} \cup {<<k, v>>}
<1> DEFINE u == After(t, p, k, v)
<1>1. p \in Slots(t) /\ t.hash[p] \in {k, Empty} /\ IsFirst(t, k, p)
  BY DEF Probes
<1>2. /\ Slots(u) = Slots(t) /\ u.size = t.size
      /\ \A i \in Slots(t) :
            /\ u.hash[i] = IF i = p THEN k ELSE t.hash[i]
            /\ u.value[i] = IF i = p THEN v ELSE t.value[i]
  BY <1>1, AfterIs
<1> HIDE DEF u
<1>3. k # Empty  BY HashAssumption
<1>4. \A i \in Slots(t) : t.hash[i] = k => i = p  BY <1>1, OneEntry
<1>5. UsedBelow(u, t.size) = UsedBelow(t, t.size) \cup {p}
  BY <1>1, <1>2, <1>3 DEF UsedBelow, Slots
<1>6. UsedBelow(t, t.size) \subseteq Slots(t)  BY DEF UsedBelow, Slots
<1>7. ASSUME NEW e \in Entries(u, t.size)
      PROVE  e \in {d \in Entries(t, t.size) : d[1] # k} \cup {<<k, v>>}
  <2>1. PICK i \in UsedBelow(u, t.size) : e = <<u.hash[i], u.value[i]>>
    BY <1>7 DEF Entries
  <2>2. CASE i = p  BY <1>1, <1>2, <2>1, <2>2
  <2>3. CASE i # p
    <3>1. i \in UsedBelow(t, t.size) /\ i \in Slots(t) /\ t.hash[i] # k
      BY <1>4, <1>5, <1>6, <2>1, <2>3
    <3>2. e = <<t.hash[i], t.value[i]>>  BY <1>2, <2>1, <2>3, <3>1
    <3> QED  BY <3>1, <3>2 DEF Entries
  <2> QED  BY <2>2, <2>3
<1>8. ASSUME NEW e \in Entries(t, t.size), e[1] # k
      PROVE  e \in Entries(u, t.size)
  <2>1. PICK i \in UsedBelow(t, t.size) : e = <<t.hash[i], t.value[i]>>
    BY <1>8 DEF Entries
  <2>2. i # p => e = <<u.hash[i], u.value[i]>>  BY <1>2, <1>6, <2>1
  <2>3. i # p
    <3>1. t.hash[i] # k /\ t.hash[i] # Empty  BY <1>8, <2>1 DEF UsedBelow
    <3> QED  BY <1>1, <3>1
  <2> QED  BY <1>5, <2>1, <2>2, <2>3 DEF Entries
<1>9. <<k, v>> \in Entries(u, t.size)
  <2>1. <<k, v>> = <<u.hash[p], u.value[p]>>  BY <1>1, <1>2
  <2> QED  BY <1>5, <2>1 DEF Entries
<1> QED  BY <1>7, <1>8, <1>9 DEF u

\* In a chained table LookupElement finds what the key's entry has.
LEMMA GetIs ==
    ASSUME NEW t \in Tables, Chained(t), NEW k \in Keys
    PROVE  /\ \A v : <<k, v>> \in Entries(t, t.size) => Get(t, k) = v
           /\ (\A v : <<k, v>> \notin Entries(t, t.size)) => Get(t, k) = NoValue
<1>1. k # Empty  BY HashAssumption
<1>2. ASSUME NEW v, <<k, v>> \in Entries(t, t.size)
      PROVE  Get(t, k) = v
  <2>1. PICK i \in UsedBelow(t, t.size) : <<k, v>> = <<t.hash[i], t.value[i]>>
    BY <1>2 DEF Entries
  <2>2. i \in Slots(t) /\ t.hash[i] = k /\ t.value[i] = v
    BY <2>1 DEF UsedBelow, Slots
  <2>3. i \in Found(t, k)  BY <2>2 DEF Found, Chained
  <2>4. \A j \in Found(t, k) : j = i  BY <2>2, OneEntry DEF Found
  <2>5. (CHOOSE j \in Found(t, k) : TRUE) = i  BY <2>3, <2>4
  <2> QED  BY <2>2, <2>3, <2>5 DEF Get
<1>3. ASSUME \A v : <<k, v>> \notin Entries(t, t.size)
      PROVE  Get(t, k) = NoValue
  <2>1. SUFFICES ASSUME NEW i \in Found(t, k)  PROVE FALSE
    BY DEF Get
  <2>2. i \in UsedBelow(t, t.size) /\ t.hash[i] = k
    BY <1>1 DEF Found, UsedBelow, Slots
  <2>3. <<k, t.value[i]>> \in Entries(t, t.size)  BY <2>2 DEF Entries
  <2> QED  BY <1>3, <2>3
<1> QED  BY <1>2, <1>3

LEMMA SameEntriesSameGet ==
    ASSUME NEW t \in Tables, Chained(t), NEW u \in Tables, Chained(u),
           Entries(t, t.size) = Entries(u, u.size), NEW k \in Keys
    PROVE  Get(t, k) = Get(u, k)
<1>1. CASE \E v : <<k, v>> \in Entries(t, t.size)  BY <1>1, GetIs
<1>2. CASE \A v : <<k, v>> \notin Entries(t, t.size)  BY <1>2, GetIs
<1> QED  BY <1>1, <1>2

-----------------------------------------------------------------------------
(***************************************************************************)
(* Counting.                                                               *)
(***************************************************************************)

LEMMA UsedIs ==
    ASSUME NEW t \in Tables
    PROVE  /\ Used(t) = UsedBelow(t, t.size)
           /\ IsFiniteSet(Used(t)) /\ Cardinality(Used(t)) \in Nat
           /\ \A n \in Nat : n <= t.size =>
                 /\ IsFiniteSet(UsedBelow(t, n))
                 /\ Cardinality(UsedBelow(t, n)) \in Nat
                 /\ Cardinality(UsedBelow(t, n)) <= Cardinality(Used(t))
<1>1. t.size \in Nat  BY TableIs
<1>2. Used(t) = UsedBelow(t, t.size)  BY DEF Used, UsedBelow, Slots
<1>3. IsFiniteSet(Slots(t))  BY <1>1, FS_Interval DEF Slots
<1>4. Used(t) \subseteq Slots(t)  BY DEF Used
<1>5. IsFiniteSet(Used(t)) /\ Cardinality(Used(t)) \in Nat
  BY <1>3, <1>4, FS_Subset, FS_CardinalityType
<1>6. ASSUME NEW n \in Nat, n <= t.size
      PROVE  /\ IsFiniteSet(UsedBelow(t, n))
             /\ Cardinality(UsedBelow(t, n)) \in Nat
             /\ Cardinality(UsedBelow(t, n)) <= Cardinality(Used(t))
  <2>1. UsedBelow(t, n) \subseteq Used(t)
    BY <1>1, <1>6 DEF Used, UsedBelow, Slots
  <2> QED  BY <1>5, <2>1, FS_Subset, FS_CardinalityType
<1> QED  BY <1>2, <1>5, <1>6

\* One entry more.
LEMMA UsedNext ==
    ASSUME NEW t \in Tables, NEW n \in Nat, n < t.size
    PROVE  /\ t.hash[n] = Empty => UsedBelow(t, n + 1) = UsedBelow(t, n)
           /\ t.hash[n] # Empty =>
                 /\ UsedBelow(t, n + 1) = UsedBelow(t, n) \cup {n}
                 /\ Cardinality(UsedBelow(t, n + 1))
                       = Cardinality(UsedBelow(t, n)) + 1
<1>1. t.size \in Nat  BY TableIs
<1>2. 0 .. n = (0 .. n - 1) \cup {n}  OBVIOUS
<1>3. n + 1 - 1 = n  OBVIOUS
<1>4. t.hash[n] = Empty => UsedBelow(t, n + 1) = UsedBelow(t, n)
  BY <1>2, <1>3 DEF UsedBelow
<1>5. ASSUME t.hash[n] # Empty
      PROVE  /\ UsedBelow(t, n + 1) = UsedBelow(t, n) \cup {n}
             /\ Cardinality(UsedBelow(t, n + 1))
                   = Cardinality(UsedBelow(t, n)) + 1
  <2>1. UsedBelow(t, n + 1) = UsedBelow(t, n) \cup {n}
    BY <1>2, <1>3, <1>5 DEF UsedBelow
  <2>2. n \notin UsedBelow(t, n)  BY DEF UsedBelow
  <2>3. IsFiniteSet(UsedBelow(t, n))  BY <1>1, UsedIs
  <2> QED  BY <2>1, <2>2, <2>3, FS_AddElement
<1> QED  BY <1>4, <1>5

LEMMA EntriesNext ==
    ASSUME NEW t \in Tables, NEW n \in Nat, n < t.size
    PROVE  Entries(t, n + 1) =
              IF t.hash[n] = Empty THEN Entries(t, n)
              ELSE Entries(t, n) \cup {<<t.hash[n], t.value[n]>>}
<1>1. CASE t.hash[n] = Empty  BY <1>1, UsedNext DEF Entries
<1>2. CASE t.hash[n] # Empty
  <2>1. UsedBelow(t, n + 1) = UsedBelow(t, n) \cup {n}  BY <1>2, UsedNext
  <2> QED  BY <1>2, <2>1 DEF Entries
<1> QED  BY <1>1, <1>2

LEMMA PutUsed ==
    ASSUME NEW t \in Tables, NEW p \in Slots(t), NEW k \in Keys,
           NEW v \in Values \cup {NoValue}
    PROVE  Cardinality(Used(After(t, p, k, v))) <= Cardinality(Used(t)) + 1
<1>1. Used(After(t, p, k, v)) = Used(t) \cup {p}
  BY AfterIs, HashAssumption DEF Used
<1>2. IsFiniteSet(Used(t)) /\ Cardinality(Used(t)) \in Nat  BY UsedIs
<1> QED  BY <1>1, <1>2, FS_AddElement

LEMMA FreeEntry ==
    ASSUME NEW t \in Tables, Cardinality(Used(t)) < t.size
    PROVE  \E i \in Slots(t) : t.hash[i] = Empty
<1>1. t.size \in Nat  BY TableIs
<1>2. Cardinality(Slots(t)) = t.size
  BY <1>1, FS_Interval DEF Slots
<1>3. Used(t) # Slots(t)  BY <1>1, <1>2, UsedIs
<1> QED  BY <1>3 DEF Used

\* How the loads of a table and the next larger one compare.
LEMMA Loads ==
    ASSUME NEW t \in Tables
    PROVE  /\ Load(t) \in Nat
           /\ t.size = 0 => Load(t) = 0
           /\ t.size # 0 => Load(t) + 1 < t.size /\ Load(t) >= 3
           /\ \A u \in Tables : u.size = NextSize[t.size] =>
                 Load(u) >= Load(t) + 1 /\ Load(u) >= 3 /\ u.size # 0
<1>1. t.size \in Nat /\ t.size \in Sizes \cup {0} /\ (t.size # 0 => t.size >= 5)
  BY TableIs
<1>2. Load(t) \in Nat /\ (t.size = 0 => Load(t) = 0)  BY <1>1 DEF Load
<1>3. t.size # 0 => Load(t) + 1 < t.size /\ Load(t) >= 3  BY <1>1 DEF Load
<1>4. ASSUME NEW u \in Tables, u.size = NextSize[t.size]
      PROVE  Load(u) >= Load(t) + 1 /\ Load(u) >= 3 /\ u.size # 0
  <2>1. u.size \in Nat /\ u.size > t.size /\ u.size % 2 = 1 /\ u.size >= 5
    BY <1>1, <1>4, TableIs, HashAssumption
  <2>2. CASE t.size = 0  BY <1>2, <2>1, <2>2 DEF Load
  <2>3. CASE t.size # 0
    <3>1. t.size % 2 = 1  BY <1>1, <2>3, HashAssumption
    <3>2. u.size >= t.size + 2  BY <1>1, <2>1, <3>1
    <3> QED  BY <1>1, <2>1, <3>2 DEF Load
  <2> QED  BY <2>2, <2>3
<1> QED  BY <1>2, <1>3, <1>4

-----------------------------------------------------------------------------
(***************************************************************************)
(* The calls in progress.                                                  *)
(***************************************************************************)

LEMMA CallIs ==
    ASSUME NEW c \in Calls
    PROVE  /\ c.at \in {"increase", "copy"} /\ c.key \in Keys
           /\ c.value \in Values \cup {NoValue}
           /\ c.old \in Tables /\ c.next \in Nat
           /\ c.old.size \in Nat
BY TableIs DEF Calls

LEMMA InnerIs ==
    ASSUME TableTypeOK, CallsOK, calls # <<>>
    PROVE  /\ Len(calls) \in Nat /\ Len(calls) >= 1
           /\ Innermost = calls[Len(calls)] /\ Innermost \in Calls
           /\ Innermost.next <= Innermost.old.size
           /\ Innermost.at = "increase" =>
                 Innermost.old = NewTable(0) /\ Innermost.old.size = 0
                 /\ Innermost.next = 0
<1>1. Len(calls) \in Nat /\ Len(calls) >= 1  BY EmptySeq DEF TableTypeOK
<1>2. Innermost = calls[Len(calls)] /\ Innermost \in Calls
  BY <1>1 DEF Innermost, Last, TableTypeOK
<1>3. Innermost.next <= Innermost.old.size  BY <1>1, <1>2 DEF CallsOK
<1>4. ASSUME Innermost.at = "increase"
      PROVE  Innermost.old = NewTable(0) /\ Innermost.old.size = 0
             /\ Innermost.next = 0
  <2>1. Innermost.old = NewTable(0)  BY <1>1, <1>2, <1>4 DEF CallsOK
  <2>2. Innermost.old.size = 0  BY <2>1 DEF NewTable
  <2> QED  BY <1>2, <1>3, <2>1, <2>2, CallIs
<1> QED  BY <1>1, <1>2, <1>3, <1>4

\* The innermost call goes on.
LEMMA GoesOnTo ==
    ASSUME TableTypeOK, CallsOK, calls # <<>>, NEW c \in Calls, GoesOn(c),
           c.next <= c.old.size, c.at = "copy"
    PROVE  /\ calls' \in Seq(Calls) /\ calls' # <<>>
           /\ Len(calls') = Len(calls) /\ calls'[Len(calls)] = c
           /\ \A m \in 1 .. Len(calls) - 1 : calls'[m] = calls[m]
           /\ c.key = Innermost.key /\ c.value = Innermost.value => CallsOK'
<1>1. /\ calls' \in Seq(Calls) /\ calls' # <<>>
      /\ Len(calls') = Len(calls) /\ calls'[Len(calls')] = c
      /\ \A m \in 1 .. Len(calls) - 1 : calls'[m] = calls[m]
  BY ReplaceLast DEF TableTypeOK, GoesOn
<1>2. Len(calls) \in Nat /\ Innermost = calls[Len(calls)]  BY InnerIs
<1>3. ASSUME c.key = Innermost.key, c.value = Innermost.value
      PROVE  CallsOK'
  <2> SUFFICES ASSUME NEW m \in 1 .. Len(calls)
               PROVE  LET d == calls'[m] IN
                      /\ d.next <= d.old.size
                      /\ d.at = "increase" =>
                            d.old = NewTable(0) /\ m = Len(calls)
                      /\ m < Len(calls) =>
                            /\ d.next >= 1
                            /\ d.old.hash[d.next - 1] = calls'[m + 1].key
                            /\ d.old.value[d.next - 1] = calls'[m + 1].value
    BY <1>1 DEF CallsOK, NewTable
  <2>1. CASE m = Len(calls)  BY <1>1, <2>1
  <2>2. CASE m < Len(calls)
    <3>1. m \in 1 .. Len(calls) - 1  BY <1>2, <2>2
    <3>2. calls'[m + 1].key = calls[m + 1].key
          /\ calls'[m + 1].value = calls[m + 1].value
      BY <1>1, <1>2, <1>3, <2>2
    <3> QED  BY <1>1, <1>2, <2>2, <3>1, <3>2 DEF CallsOK
  <2> QED  BY <1>2, <2>1, <2>2
<1> QED  BY <1>1, <1>3

\* Only a call that copies entries has one inside it.
LEMMA OuterCopies ==
    ASSUME TableTypeOK, CallsOK, NEW m \in 1 .. Len(calls), m < Len(calls)
    PROVE  calls[m].old.size > 0 /\ calls[m].next >= 1
<1>1. calls[m].next >= 1 /\ calls[m].next <= calls[m].old.size
  BY DEF CallsOK
<1>2. calls[m] \in Calls  BY DEF TableTypeOK
<1> QED  BY <1>1, <1>2, CallIs

LEMMA EmptyTable ==
    /\ NewTable(0) \in Tables /\ NewTable(0).size = 0
    /\ Chained(NewTable(0))
BY NewTableIs DEF Chained, Slots

LEMMA AddElementIs ==
    ASSUME NEW k \in Keys, NEW v \in Values \cup {NoValue}
    PROVE  /\ AddElement(k, v) \in Calls
           /\ AddElement(k, v).at = "increase" /\ AddElement(k, v).key = k
           /\ AddElement(k, v).value = v
           /\ AddElement(k, v).old = NewTable(0)
           /\ AddElement(k, v).next = 0
BY EmptyTable DEF AddElement, Calls

-----------------------------------------------------------------------------
(***************************************************************************)
(* The invariant holds at first and every step keeps it.                   *)
(***************************************************************************)

LEMMA TableInitInv == TableInit => TableInv
<1> SUFFICES ASSUME TableInit PROVE TableInv  OBVIOUS
<1> USE DEF TableInit
<1>1. table \in Tables /\ Used(table) = {} /\ table.size = 0 /\ table.used = 0
      /\ Chained(table)
  BY NewTableIs, EmptyTable
<1>2. Len(calls) = 0 /\ calls \in Seq(Calls)  BY EmptySeq
<1>3. TableTypeOK  BY <1>1, <1>2 DEF TableTypeOK
<1>4. CallsOK /\ MapsOK  BY <1>1, <1>2 DEF CallsOK, MapsOK
<1>5. Counted
  <2>1. Cardinality(Used(table)) = 0  BY <1>1, FS_EmptySet
  <2> QED  BY <1>1, <2>1 DEF Counted
<1>6. Spacious  BY <1>1, Loads DEF Spacious
<1> QED  BY <1>3, <1>4, <1>5, <1>6 DEF TableInv

LEMMA AddKeeps == TableInv /\ Add => TableInv'
<1> SUFFICES ASSUME TableInv, Add PROVE TableInv'  OBVIOUS
<1> USE DEF TableInv
<1>1. PICK k \in use.keys, v \in use.values : calls' = <<AddElement(k, v)>>
  BY DEF Add
<1>2. calls = <<>> /\ ~down /\ UNCHANGED <<use, table, down, refused>>
  BY DEF Add
<1>3. k \in Keys /\ v \in Values \cup {NoValue}
  BY HashAssumption DEF TableTypeOK
<1> DEFINE c == AddElement(k, v)
<1>4. /\ c \in Calls /\ c.at = "increase" /\ c.old = NewTable(0) /\ c.next = 0
      /\ c.old.size = 0
  BY <1>3, AddElementIs, EmptyTable
<1> HIDE DEF c
<1>5. calls' = <<c>> /\ Len(calls') = 1 /\ calls'[1] = c
      /\ calls' \in Seq(Calls)
  BY <1>1, <1>4 DEF c
<1>6. TableTypeOK'  BY <1>2, <1>5 DEF TableTypeOK
<1>7. CallsOK'  BY <1>4, <1>5 DEF CallsOK, NewTable
<1>8. MapsOK'
  BY <1>2, <1>4, <1>5, EmptyTable
  DEF MapsOK, Chained, IsFirst, Slots, Distance, NewTable
<1>9. Counted'  BY <1>2 DEF Counted, Used, Slots
<1>10. Spacious'
  BY <1>2, <1>4, <1>5 DEF Spacious, Growing, Load
<1> QED  BY <1>6, <1>7, <1>8, <1>9, <1>10

\* What the calls around the innermost one add to.
LEMMA OuterTarget ==
    ASSUME TableTypeOK, CallsOK, NEW m \in 1 .. Len(calls) - 1
    PROVE  /\ m < Len(calls) - 1 => Target(m) = calls[m + 1].old
           /\ m = Len(calls) - 1 =>
                 Target(m) = IF Innermost.old.size > 0 THEN Innermost.old
                             ELSE table
           /\ Copied(m) = calls[m].next - 1
<1>1. Len(calls) \in Nat  BY DEF TableTypeOK
<1>2. m < Len(calls) /\ m \in 1 .. Len(calls)  BY <1>1
<1>3. ASSUME m < Len(calls) - 1  PROVE Target(m) = calls[m + 1].old
  <2>1. m + 1 \in 1 .. Len(calls) /\ m + 1 < Len(calls)  BY <1>1, <1>3
  <2> QED  BY <1>2, <2>1, OuterCopies DEF Target
<1>4. m = Len(calls) - 1 => Innermost = calls[m + 1]
  BY <1>1 DEF Innermost, Last
<1> QED  BY <1>2, <1>3, <1>4 DEF Target, Copied

\* The call for an entry of the old table finds room: the entries before it
\* are fewer than all of the old table's, which the larger one has room for.
LEMMA InnerRoom ==
    ASSUME TableTypeOK, CallsOK, Growing, Len(calls) = 2
    PROVE  LET d == calls[1] IN
           /\ d \in Calls /\ d.old \in Tables
           /\ table.used < Load(table) /\ table.size # 0
           /\ table.used + 1 = Cardinality(UsedBelow(d.old, d.next))
<1> DEFINE d == calls[1]
<1>0. 1 \in 1 .. Len(calls) /\ 1 < Len(calls) /\ calls # <<>>
      /\ Innermost = calls[2] /\ Innermost \in Calls
  BY EmptySeq, InnerIs
<1>1. d \in Calls /\ d.old \in Tables /\ d.old.size > 0 /\ d.next >= 1
      /\ d.next \in Nat /\ d.next <= d.old.size
  <2>1. d \in Calls  BY <1>0 DEF TableTypeOK
  <2> QED  BY <1>0, <2>1, OuterCopies, CallIs DEF CallsOK
<1>2. d.old.hash[d.next - 1] # Empty
  <2>1. d.old.hash[d.next - 1] = Innermost.key  BY <1>0 DEF CallsOK
  <2> QED  BY <1>0, <2>1, CallIs, HashAssumption
<1>3. /\ table.size = NextSize[d.old.size]
      /\ Cardinality(Used(d.old)) <= Load(d.old) + 1
      /\ table.used = Cardinality(UsedBelow(d.old, d.next - 1))
  BY <1>0, <1>1 DEF Growing, Copied
<1>4. /\ Cardinality(UsedBelow(d.old, d.next))
            = Cardinality(UsedBelow(d.old, d.next - 1)) + 1
      /\ Cardinality(UsedBelow(d.old, d.next)) <= Cardinality(Used(d.old))
      /\ Cardinality(UsedBelow(d.old, d.next - 1)) \in Nat
      /\ Cardinality(UsedBelow(d.old, d.next)) \in Nat
      /\ Cardinality(Used(d.old)) \in Nat
  <2> HIDE DEF d
  <2> DEFINE j == d.next - 1
  <2>1. j \in Nat /\ j < d.old.size /\ j + 1 = d.next /\ j <= d.old.size
    BY <1>1, CallIs
  <2>2. d.old.hash[j] # Empty  BY <1>2
  <2> HIDE DEF j
  <2>3. Cardinality(UsedBelow(d.old, j + 1))
           = Cardinality(UsedBelow(d.old, j)) + 1
    BY <1>1, <2>1, <2>2, UsedNext
  <2> QED  BY <1>1, <2>1, <2>3, UsedIs DEF j
<1>5. Load(table) >= Load(d.old) + 1 /\ Load(d.old) \in Nat
      /\ Load(table) \in Nat /\ table.size # 0
  BY <1>1, <1>3, Loads DEF TableTypeOK
<1> HIDE DEF d
<1>6. table.used < Load(table)  BY <1>3, <1>4, <1>5
<1>7. table.used + 1 = Cardinality(UsedBelow(d.old, d.next))
  BY <1>3, <1>4
<1> QED  BY <1>1, <1>5, <1>6, <1>7 DEF d

LEMMA IncreaseKeeps == TableInv /\ IncreaseCapacity => TableInv'
<1> SUFFICES ASSUME TableInv, IncreaseCapacity PROVE TableInv'  OBVIOUS
<1> USE DEF TableInv
<1> DEFINE n == Len(calls)
           c == [Innermost EXCEPT !.at = "copy", !.old = table]
<1>1. /\ calls # <<>> /\ ~down /\ Innermost.at = "increase" /\ Full(table)
      /\ NextSize[table.size] <= use.largest
      /\ table' = NewTable(NextSize[table.size]) /\ GoesOn(c)
      /\ UNCHANGED <<use, down, refused>>
  BY DEF IncreaseCapacity, AddingAt
<1>2. /\ n \in Nat /\ n >= 1 /\ Innermost = calls[n] /\ Innermost \in Calls
      /\ Innermost.old.size = 0 /\ Innermost.next = 0
  BY <1>1, InnerIs
<1>3. table \in Tables /\ table.size \in Nat /\ table.size \in Sizes \cup {0}
  BY TableIs DEF TableTypeOK
<1>4. /\ c \in Calls /\ c.at = "copy" /\ c.key = Innermost.key
      /\ c.value = Innermost.value /\ c.old = table /\ c.next = 0
  BY <1>2, <1>3 DEF Calls
<1> HIDE DEF c
<1>5. /\ calls' \in Seq(Calls) /\ calls' # <<>> /\ Len(calls') = n
      /\ calls'[n] = c /\ \A m \in 1 .. n - 1 : calls'[m] = calls[m]
      /\ CallsOK'
  BY <1>1, <1>3, <1>4, GoesOnTo
<1> HIDE DEF n
<1>6. NextSize[table.size] \in Sizes  BY <1>1, <1>3, HashAssumption DEF TableTypeOK
<1>7. /\ table' \in Tables /\ table'.size = NextSize[table.size]
      /\ table'.used = 0 /\ Used(table') = {}
      /\ \A m \in Nat : m <= table'.size => UsedBelow(table', m) = {}
  BY <1>1, <1>6, NewTableIs
<1>8. TableTypeOK'  BY <1>1, <1>5, <1>7 DEF TableTypeOK
<1>9. Counted'
  <2>1. Cardinality(Used(table')) = 0  BY <1>7, FS_EmptySet
  <2> QED  BY <1>7, <2>1 DEF Counted
<1>10. MapsOK'
  <2> SUFFICES ASSUME ~use.removing
               PROVE  /\ Chained(table')
                      /\ \A m \in 1 .. n :
                            /\ Chained(calls'[m].old)
                            /\ calls'[m].old.size > 0 =>
                                  Entries(Target(m)', Target(m)'.size)
                                     = Entries(calls'[m].old, Copied(m)')
    BY <1>1, <1>5 DEF MapsOK, Chained, IsFirst, Slots, Distance, Entries,
                      UsedBelow
  <2>1. Chained(table')
    <3>1. \A i \in Slots(table') : table'.hash[i] = Empty
      BY <1>7 DEF Used
    <3> QED  BY <3>1, HashAssumption DEF Chained
  <2>2. Entries(table', table'.size) = {}
    <3>1. table'.size \in Nat  BY <1>7, TableIs
    <3> QED  BY <1>7, <3>1 DEF Entries
  <2>3. ASSUME NEW m \in 1 .. n
        PROVE  Chained(calls'[m].old)
    <3>1. CASE m = n  BY <1>4, <1>5, <3>1 DEF MapsOK
    <3>2. CASE m \in 1 .. n - 1  BY <1>5, <2>3, <3>2 DEF MapsOK, n
    <3> QED  BY <1>2, <3>1, <3>2
  <2>4. ASSUME NEW m \in 1 .. n, calls'[m].old.size > 0
        PROVE  Entries(Target(m)', Target(m)'.size)
                  = Entries(calls'[m].old, Copied(m)')
    <3>1. CASE m = n
      <4>1. Target(m)' = table' /\ Copied(m)' = 0
        BY <1>2, <1>4, <1>5, <3>1 DEF Target, Copied
      <4>2. Entries(calls'[m].old, 0) = {}
        BY DEF Entries, UsedBelow
      <4> QED  BY <2>2, <4>1, <4>2
    <3>2. CASE m \in 1 .. n - 1
      <4>1. calls'[m] = calls[m]  BY <1>5, <3>2
      <4>2. Entries(Target(m), Target(m).size) = Entries(calls[m].old, Copied(m))
        BY <2>4, <4>1 DEF MapsOK, n
      <4>3. Copied(m)' = Copied(m)  BY <1>2, <1>5, <3>2, <4>1 DEF Copied, n
      <4>4. CASE m = n - 1
        <5>1. Target(m) = table  BY <1>2, <3>2, <4>4, OuterTarget DEF n
        <5>2. Target(m)' = IF table.size > 0 THEN table ELSE table'
          BY <1>2, <1>4, <1>5, <4>4 DEF Target
        <5>3. CASE table.size > 0  BY <4>1, <4>2, <4>3, <5>1, <5>2, <5>3
        <5>4. CASE table.size = 0
          <6>1. Entries(table, table.size) = {}
            BY <5>4 DEF Entries, UsedBelow
          <6> QED  BY <2>2, <4>1, <4>2, <4>3, <5>1, <5>2, <5>4, <6>1
        <5> QED  BY <1>3, <5>3, <5>4
      <4>5. CASE m < n - 1
        <5>1. Target(m) = calls[m + 1].old
          BY <1>2, <3>2, <4>5, OuterTarget DEF n
        <5>2. m + 1 \in 1 .. n - 1  BY <1>2, <3>2, <4>5
        <5>3. calls'[m + 1] = calls[m + 1]  BY <1>5, <5>2
        <5>4. calls[m + 1].old.size > 0
          BY <1>2, <5>2, OuterCopies DEF n
        <5>5. Target(m)' = Target(m)
          BY <1>2, <1>5, <4>5, <5>1, <5>3, <5>4 DEF Target
        <5> QED  BY <4>1, <4>2, <4>3, <5>5
      <4> QED  BY <1>2, <3>2, <4>4, <4>5
    <3> QED  BY <1>2, <3>1, <3>2
  <2> QED  BY <2>1, <2>3, <2>4
<1>11. Spacious'
  <2> SUFFICES ASSUME ~refused
               PROVE  /\ ~down'
                      /\ table'.used <= Load(table')
                            + (IF table'.size = 0 THEN 0 ELSE 1)
                      /\ Growing'
    BY <1>1 DEF Spacious, Growing, Load
  <2>1. Growing /\ table.used >= Load(table)
        /\ table.used <= Load(table) + (IF table.size = 0 THEN 0 ELSE 1)
    BY <1>1, <1>3, Loads, TableIs DEF Spacious, Full, Load
  <2>2. Load(table') \in Nat /\ Load(table') >= 3 /\ table'.size # 0
        /\ Load(table') >= Load(table) + 1
    BY <1>3, <1>7, Loads
  <2>3. n = 1
    <3>0. n <= 2  BY <2>1 DEF Growing, n
    <3> SUFFICES ASSUME n = 2 PROVE FALSE  BY <1>2, <3>0
    <3>1. table.used < Load(table)  BY <2>1, InnerRoom DEF n
    <3> QED  BY <1>3, <2>1, <3>1, Loads, TableIs
  <2>4. Growing'
    <3>1. calls'[1] = c /\ Len(calls') = 1 /\ Copied(1)' = 0
      BY <1>4, <1>5, <2>3 DEF Copied
    <3>2. table.size > 0 => Cardinality(Used(table)) <= Load(table) + 1
      <4>1. Cardinality(Used(table)) \in Nat /\ table.used \in Nat
            /\ Load(table) \in Nat
        BY <1>3, UsedIs, TableIs, Loads
      <4> QED  BY <2>1, <4>1 DEF Counted
    <3>3. Cardinality(UsedBelow(table, 0)) = 0
      <4>1. UsedBelow(table, 0) = {}  BY DEF UsedBelow
      <4> QED  BY <4>1, FS_EmptySet
    <3>4. calls'[1].old = table /\ calls'[1].at = "copy"  BY <1>4, <3>1
    <3>5. table'.used = Cardinality(UsedBelow(table, 0))  BY <1>7, <3>3
    <3>6. table.size = 0 => table'.used < Load(table')  BY <1>7, <2>2
    <3> QED  BY <1>3, <1>7, <3>1, <3>2, <3>4, <3>5, <3>6 DEF Growing
  <2> QED  BY <1>1, <1>7, <2>2, <2>4
<1> QED  BY <1>5, <1>8, <1>9, <1>10, <1>11

\* The table is as it was, and what has been copied as well.
LEMMA MapsKept ==
    ASSUME MapsOK, Len(calls) \in Nat, Len(calls') \in Nat,
           Len(calls') \in {Len(calls), Len(calls) + 1},
           UNCHANGED <<use, table>>,
           \A m \in 1 .. Len(calls) :
              /\ calls'[m].old = calls[m].old
              /\ Entries(calls[m].old, Copied(m)') = Entries(calls[m].old, Copied(m)),
           Len(calls') = Len(calls) + 1 =>
              calls'[Len(calls) + 1].old = NewTable(0)
    PROVE  MapsOK'
<1> DEFINE n == Len(calls)
<1> SUFFICES ASSUME ~use.removing
             PROVE  /\ Chained(table')
                    /\ \A m \in 1 .. Len(calls') :
                          /\ Chained(calls'[m].old)
                          /\ calls'[m].old.size > 0 =>
                                Entries(Target(m)', Target(m)'.size)
                                   = Entries(calls'[m].old, Copied(m)')
  BY DEF MapsOK, Chained, IsFirst, Slots, Distance, Entries, UsedBelow
<1>1. Chained(table')  BY DEF MapsOK
<1>2. ASSUME NEW m \in 1 .. Len(calls')
      PROVE  /\ Chained(calls'[m].old)
             /\ calls'[m].old.size > 0 =>
                   Entries(Target(m)', Target(m)'.size)
                      = Entries(calls'[m].old, Copied(m)')
  <2>1. CASE m = n + 1 /\ Len(calls') = n + 1
    BY <2>1, EmptyTable
  <2>2. CASE m \in 1 .. n
    <3>1. calls'[m].old = calls[m].old  BY <2>2
    <3>2. Target(m)' = Target(m)
      <4>1. CASE m < n
        <5>1. m + 1 \in 1 .. n /\ m < Len(calls')  BY <2>2, <4>1
        <5> QED  BY <4>1, <5>1 DEF Target
      <4>2. CASE m = n
        <5>1. Target(m) = table  BY <4>2 DEF Target
        <5>2. m < Len(calls') => calls'[m + 1].old.size = 0
          BY <4>2, EmptyTable
        <5> QED  BY <5>1, <5>2 DEF Target
      <4> QED  BY <2>2, <4>1, <4>2
    <3> QED  BY <2>2, <3>1, <3>2 DEF MapsOK
  <2> QED  BY <2>1, <2>2
<1> QED  BY <1>1, <1>2

LEMMA KeepKeeps == TableInv /\ KeepCapacity => TableInv'
<1> SUFFICES ASSUME TableInv, KeepCapacity PROVE TableInv'  OBVIOUS
<1> USE DEF TableInv
<1> DEFINE n == Len(calls)
           c == [Innermost EXCEPT !.at = "copy"]
<1>1. /\ calls # <<>> /\ ~down /\ Innermost.at = "increase" /\ GoesOn(c)
      /\ refused' = (refused \/ Full(table))
      /\ UNCHANGED <<use, table, down>>
  BY DEF KeepCapacity, AddingAt
<1>2. /\ n \in Nat /\ n >= 1 /\ Innermost = calls[n] /\ Innermost \in Calls
      /\ Innermost.old.size = 0 /\ Innermost.next = 0
  BY <1>1, InnerIs
<1>3. /\ c \in Calls /\ c.at = "copy" /\ c.key = Innermost.key
      /\ c.value = Innermost.value /\ c.old = Innermost.old
      /\ c.next = Innermost.next
  BY <1>2 DEF Calls
<1> HIDE DEF c
<1>4. /\ calls' \in Seq(Calls) /\ calls' # <<>> /\ Len(calls') = n
      /\ calls'[n] = c /\ \A m \in 1 .. n - 1 : calls'[m] = calls[m]
      /\ CallsOK'
  BY <1>1, <1>2, <1>3, GoesOnTo
<1> HIDE DEF n
<1>5. \A m \in 1 .. n : calls'[m].old = calls[m].old
                        /\ calls'[m].next = calls[m].next
  BY <1>2, <1>3, <1>4
<1>6. TableTypeOK'
  BY <1>1, <1>4 DEF TableTypeOK
<1>7. Counted'  BY <1>1 DEF Counted, Used, Slots
<1>8. MapsOK'
  <2>1. \A m \in 1 .. n : Copied(m)' = Copied(m)  BY <1>4, <1>5 DEF Copied, n
  <2> QED  BY <1>1, <1>2, <1>4, <1>5, <2>1, MapsKept DEF n
<1>9. Spacious'
  <2> SUFFICES ASSUME ~refused'  PROVE Spacious'  BY DEF Spacious
  <2>1. ~refused /\ ~Full(table) /\ Growing  BY <1>1 DEF Spacious
  <2>2. table.used < Load(table)
    BY <2>1, Loads, TableIs DEF Full, Load, TableTypeOK
  <2>3. n <= 2  BY <2>1 DEF Growing, n
  <2>4. calls'[1].old = calls[1].old /\ Copied(1)' = Copied(1)
    BY <1>2, <1>4, <1>5 DEF Copied, n
  <2>5. n = 2 => calls[1].old.size > 0 /\ calls'[2].old.size = 0
    BY <1>2, <1>3, <1>4, <2>1 DEF Growing, n
  <2>6. Growing'
    BY <1>1, <1>4, <2>1, <2>2, <2>3, <2>4, <2>5 DEF Growing, n
  <2> QED  BY <1>1, <2>1, <2>6 DEF Spacious
<1> QED  BY <1>4, <1>6, <1>7, <1>8, <1>9

LEMMA CopyKeeps == TableInv /\ CopyEntry => TableInv'
<1> SUFFICES ASSUME TableInv, CopyEntry PROVE TableInv'  OBVIOUS
<1> USE DEF TableInv
<1>0. PICK n \in Nat : n = Len(calls)  BY EmptySeq DEF TableTypeOK
<1> DEFINE i == Innermost.next
           old == Innermost.old
           c == [Innermost EXCEPT !.next = i + 1]
           on == Append(Front(calls), c)
           new == AddElement(old.hash[i], old.value[i])
<1>1. /\ calls # <<>> /\ ~down /\ Innermost.at = "copy" /\ i < old.size
      /\ calls' = IF old.hash[i] = Empty THEN on ELSE Append(on, new)
      /\ UNCHANGED <<use, table, down, refused>>
  BY DEF CopyEntry, AddingAt
<1>2. /\ n \in Nat /\ n >= 1 /\ Innermost = calls[n] /\ Innermost \in Calls
      /\ old \in Tables /\ i \in Nat /\ old.size \in Nat
      /\ calls[n].old = old /\ calls[n].next = i
  BY <1>0, <1>1, InnerIs, CallIs
<1>3. /\ c \in Calls /\ c.at = "copy" /\ c.key = Innermost.key
      /\ c.value = Innermost.value /\ c.old = old /\ c.next = i + 1
  BY <1>1, <1>2 DEF Calls
<1>4. /\ on \in Seq(Calls) /\ on # <<>> /\ Len(on) = n /\ on[n] = c
      /\ \A m \in 1 .. n - 1 : on[m] = calls[m]
  BY <1>0, <1>1, <1>3, ReplaceLast DEF TableTypeOK
<1>5. ASSUME old.hash[i] # Empty
      PROVE  /\ new \in Calls /\ new.at = "increase" /\ new.old = NewTable(0)
             /\ new.next = 0 /\ new.key = old.hash[i]
             /\ new.value = old.value[i]
             /\ new.old.size = 0
  <2>1. /\ i \in Slots(old) /\ old.hash[i] \in Keys
        /\ old.value[i] \in Values \cup {NoValue}
    BY <1>1, <1>2, <1>5, TableIs DEF Slots
  <2> QED  BY <2>1, AddElementIs, EmptyTable
<1> HIDE DEF c, on, new, i, old
<1>6. CASE old.hash[i] = Empty
  <2>1. calls' = on  BY <1>1, <1>6
  <2>2. \A m \in 1 .. n : calls'[m].old = calls[m].old
    BY <1>2, <1>3, <1>4, <2>1
  <2>3. CallsOK'
    <3>1. GoesOn(c)  BY <2>1 DEF GoesOn, on, c, i, old
    <3> QED  BY <1>1, <1>2, <1>3, <3>1, GoesOnTo
  <2>4. TableTypeOK'  BY <1>1, <1>4, <2>1 DEF TableTypeOK
  <2>5. Counted'  BY <1>1 DEF Counted, Used, Slots
  <2>6. /\ Copied(n)' = i + 1 /\ Copied(n) = i
        /\ \A m \in 1 .. n - 1 : Copied(m)' = Copied(m)
    BY <1>0, <1>2, <1>3, <1>4, <2>1 DEF Copied
  <2>7. MapsOK'
    <3>1. Entries(old, i + 1) = Entries(old, i)
      BY <1>1, <1>2, <1>6, EntriesNext
    <3>2. ASSUME NEW m \in 1 .. n
          PROVE  Entries(calls[m].old, Copied(m)')
                    = Entries(calls[m].old, Copied(m))
      <4>1. CASE m = n  BY <1>2, <2>6, <3>1, <4>1
      <4>2. CASE m \in 1 .. n - 1  BY <2>6, <4>2
      <4> QED  BY <1>2, <4>1, <4>2
    <3> QED  BY <1>0, <1>1, <1>2, <1>4, <2>1, <2>2, <3>2, MapsKept
  <2>8. Spacious'
    <3> SUFFICES ASSUME ~refused  PROVE Growing'
      BY <1>1 DEF Spacious
    <3>1. Growing  BY <1>1 DEF Spacious
    <3>2. calls'[1].old = calls[1].old  BY <1>2, <2>2
    <3>3. calls'[1].old.size > 0 =>
             UsedBelow(calls[1].old, Copied(1)') = UsedBelow(calls[1].old, Copied(1))
      <4>1. CASE n = 1
        <5>1. UsedBelow(old, i + 1) = UsedBelow(old, i)
          BY <1>1, <1>2, <1>6, UsedNext
        <5> QED  BY <1>2, <2>6, <4>1, <5>1
      <4>2. CASE n > 1
        <5>1. 1 \in 1 .. n - 1  BY <1>2, <4>2
        <5> QED  BY <2>6, <5>1
      <4> QED  BY <1>2, <4>1, <4>2
    <3>4. n = 2 => calls'[2].old = calls[2].old  BY <2>2
    <3>5. calls'[1].old.size = 0 => calls'[1].at = calls[1].at
      <4>1. CASE n = 1  BY <1>2, <1>3, <1>4, <2>1, <4>1, <1>1
      <4>2. CASE n > 1  BY <1>2, <1>4, <2>1, <4>2
      <4> QED  BY <1>2, <4>1, <4>2
    <3> QED  BY <1>0, <1>1, <1>4, <2>1, <3>1, <3>2, <3>3, <3>4, <3>5 DEF Growing
  <2> QED  BY <2>3, <2>4, <2>5, <2>7, <2>8
<1>7. CASE old.hash[i] # Empty
  <2>1. /\ calls' \in Seq(Calls) /\ Len(calls') = n + 1 /\ calls'[n + 1] = new
        /\ calls'[n] = c /\ \A m \in 1 .. n - 1 : calls'[m] = calls[m]
    <3>1. calls' = Append(on, new)  BY <1>1, <1>7
    <3>2. /\ calls' \in Seq(Calls) /\ Len(calls') = Len(on) + 1
          /\ \A m \in 1 .. Len(on) : calls'[m] = on[m]
          /\ calls'[Len(on) + 1] = new
      BY <1>4, <1>5, <1>7, <3>1, AppendProperties
    <3> QED  BY <1>2, <1>4, <3>2
  <2>2. \A m \in 1 .. n : calls'[m].old = calls[m].old
    BY <1>2, <1>3, <2>1
  <2>3. CallsOK'
    <3> SUFFICES ASSUME NEW m \in 1 .. n + 1
                 PROVE  LET d == calls'[m] IN
                        /\ d.next <= d.old.size
                        /\ d.at = "increase" =>
                              d.old = NewTable(0) /\ m = n + 1
                        /\ m < n + 1 =>
                              /\ d.next >= 1
                              /\ d.old.hash[d.next - 1] = calls'[m + 1].key
                              /\ d.old.value[d.next - 1] = calls'[m + 1].value
      BY <1>2, <2>1 DEF CallsOK, NewTable
    <3>1. CASE m = n + 1  BY <1>2, <1>5, <1>7, <2>1, <3>1
    <3>2. CASE m = n
      <4>1. i + 1 - 1 = i  BY <1>2
      <4>2. calls'[m] = c /\ calls'[m + 1] = new /\ m < n + 1  BY <1>2, <2>1, <3>2
      <4>3. c.next >= 1 /\ c.next <= c.old.size /\ c.next - 1 = i
        BY <1>1, <1>2, <1>3, <4>1
      <4>4. /\ c.old.hash[c.next - 1] = new.key
            /\ c.old.value[c.next - 1] = new.value
        BY <1>3, <1>5, <1>7, <4>3
      <4>5. c.at # "increase"  BY <1>3
      <4> QED  BY <4>2, <4>3, <4>4, <4>5
    <3>3. CASE m \in 1 .. n - 1
      <4>1. calls'[m + 1].key = calls[m + 1].key
            /\ calls'[m + 1].value = calls[m + 1].value
        <5>1. CASE m + 1 = n  BY <1>2, <1>3, <2>1, <5>1
        <5>2. CASE m + 1 # n
          <6>1. m + 1 \in 1 .. n - 1  BY <1>2, <3>3, <5>2
          <6> QED  BY <2>1, <6>1
        <5> QED  BY <5>1, <5>2
      <4>2. m \in 1 .. n /\ m < n  BY <1>2, <3>3
      <4> QED  BY <1>0, <1>2, <2>1, <3>3, <4>1, <4>2 DEF CallsOK
    <3> QED  BY <1>2, <3>1, <3>2, <3>3
  <2>4. TableTypeOK'  BY <1>1, <2>1 DEF TableTypeOK
  <2>5. Counted'  BY <1>1 DEF Counted, Used, Slots
  <2>6. \A m \in 1 .. n : Copied(m)' = Copied(m)
    <3>1. Copied(n)' = i /\ Copied(n) = i
      BY <1>0, <1>2, <1>3, <2>1 DEF Copied
    <3>2. \A m \in 1 .. n - 1 : Copied(m)' = Copied(m)
      BY <1>0, <1>2, <2>1 DEF Copied
    <3> QED  BY <1>2, <3>1, <3>2
  <2>7. MapsOK'
    BY <1>0, <1>1, <1>2, <1>5, <1>7, <2>1, <2>2, <2>6, MapsKept
  <2>8. Spacious'
    <3> SUFFICES ASSUME ~refused  PROVE Growing'
      BY <1>1 DEF Spacious
    <3>1. Growing  BY <1>1 DEF Spacious
    <3>2. n = 1
      <4>1. n <= 2 /\ (n = 2 => calls[2].old.size = 0)  BY <1>0, <3>1 DEF Growing
      <4> QED  BY <1>1, <1>2, <4>1
    <3>3. /\ Len(calls') = 2 /\ calls'[2].old.size = 0
          /\ calls'[1].old = old /\ calls[1].old = old /\ old.size > 0
          /\ Copied(1)' = Copied(1)
      BY <1>1, <1>2, <1>3, <1>5, <1>7, <2>1, <2>6, <3>2
    <3>4. /\ table.size = NextSize[old.size]
          /\ Cardinality(Used(old)) <= Load(old) + 1
          /\ table.used = Cardinality(UsedBelow(old, Copied(1)))
      BY <3>1, <3>3 DEF Growing
    <3>5. table' = table  BY <1>1
    <3> QED  BY <3>3, <3>4, <3>5 DEF Growing
  <2> QED  BY <2>3, <2>4, <2>5, <2>7, <2>8
<1> QED  BY <1>6, <1>7

\* While memory lasts an entry is free when one is to be written.
LEMMA RoomToPut ==
    ASSUME TableInv, ~refused, AddingAt("copy"),
           Innermost.next = Innermost.old.size
    PROVE  /\ table.used <= Load(table) /\ table.size # 0
           /\ Probes(table, Innermost.key) # {}
<1> USE DEF TableInv
<1>1. calls # <<>> /\ Innermost.at = "copy"  BY DEF AddingAt
<1>2. /\ Len(calls) \in Nat /\ Len(calls) >= 1
      /\ Innermost = calls[Len(calls)] /\ Innermost \in Calls
  BY <1>1, InnerIs
<1>3. Growing /\ Len(calls) <= 2  BY <1>1 DEF Spacious, Growing
<1>4. table \in Tables /\ table.used \in Nat /\ Load(table) \in Nat
      /\ table.size \in Nat
  BY Loads, TableIs DEF TableTypeOK
<1>5. table.used <= Load(table) /\ table.size # 0
  <2>1. CASE Len(calls) = 2  BY <1>3, <1>4, <2>1, InnerRoom
  <2>2. CASE Len(calls) = 1 /\ Innermost.old.size = 0
    <3>1. table.used < Load(table)  BY <1>1, <1>2, <1>3, <2>2 DEF Growing
    <3> QED  BY <1>4, <3>1, Loads
  <2>3. CASE Len(calls) = 1 /\ Innermost.old.size # 0
    <3> DEFINE old == Innermost.old
    <3>1. old \in Tables /\ old.size > 0 /\ calls[1].old = old
          /\ Copied(1) = old.size
      BY <1>2, <2>3, CallIs DEF Copied
    <3>2. /\ table.size = NextSize[old.size]
          /\ Cardinality(Used(old)) <= Load(old) + 1
          /\ table.used = Cardinality(UsedBelow(old, old.size))
      BY <1>3, <3>1 DEF Growing
    <3> HIDE DEF old
    <3>3. table.used = Cardinality(Used(old))  BY <3>1, <3>2, UsedIs
    <3>4. /\ Load(table) >= Load(old) + 1 /\ Load(old) \in Nat
          /\ table.size # 0
      BY <1>4, <3>1, <3>2, Loads
    <3> QED  BY <1>4, <3>2, <3>3, <3>4
  <2>4. Innermost.old.size = 0 \/ Innermost.old.size # 0  OBVIOUS
  <2>5. Len(calls) = 1 \/ Len(calls) = 2
    <3>1. Len(calls) \in Nat /\ Len(calls) >= 1  BY <1>2
    <3>2. Len(calls) <= 2  BY <1>3
    <3> QED  BY ONLY <3>1, <3>2
  <2> QED  BY <2>1, <2>2, <2>3, <2>4, <2>5
<1>6. Cardinality(Used(table)) < table.size
  <2>1. Cardinality(Used(table)) \in Nat /\ Load(table) + 1 < table.size
    BY <1>4, <1>5, UsedIs, Loads
  <2> QED  BY <1>4, <1>5, <2>1 DEF Counted
<1>7. Probes(table, Innermost.key) # {}
  BY <1>2, <1>4, <1>6, FreeEntry, ProbingEnds, CallIs
<1> QED  BY <1>5, <1>7

LEMMA NoEntryKeeps == TableInv /\ NoEntry => TableInv'
<1> SUFFICES ASSUME TableInv, NoEntry PROVE TableInv'  OBVIOUS
<1> USE DEF TableInv
<1>1. /\ AddingAt("copy") /\ Innermost.next = Innermost.old.size
      /\ Probes(table, Innermost.key) = {} /\ down' = TRUE
      /\ UNCHANGED <<use, table, calls, refused>>
  BY DEF NoEntry
<1>2. refused  BY <1>1, RoomToPut
<1>3. TableTypeOK'  BY <1>1 DEF TableTypeOK
<1>4. CallsOK'  BY <1>1 DEF CallsOK, NewTable
<1>5. MapsOK'
  <2>1. \A m \in 1 .. Len(calls) : Copied(m)' = Copied(m)
    BY <1>1 DEF Copied
  <2>2. Len(calls) \in Nat  BY DEF TableTypeOK
  <2> QED  BY <1>1, <2>1, <2>2, MapsKept
<1>6. Counted'  BY <1>1 DEF Counted, Used, Slots
<1>7. Spacious'  BY <1>1, <1>2 DEF Spacious
<1> QED  BY <1>3, <1>4, <1>5, <1>6, <1>7

LEMMA RemoveKeeps == TableInv /\ RemoveElement => TableInv'
<1> SUFFICES ASSUME TableInv, RemoveElement PROVE TableInv'  OBVIOUS
<1> USE DEF TableInv
<1>0. PICK k \in use.keys : \E i \in Found(table, k) :
         table' = Written(table, i, Empty, NoValue, table.used - 1)
  BY DEF RemoveElement, Written
<1>1. PICK i \in Found(table, k) :
         table' = Written(table, i, Empty, NoValue, table.used - 1)
  BY <1>0
<1>2. /\ use.removing /\ calls = <<>> /\ ~down
      /\ UNCHANGED <<use, calls, down, refused>>
  BY DEF RemoveElement
<1>3. table \in Tables /\ table.used \in Nat /\ i \in Slots(table)
      /\ table.hash[i] # Empty
  BY TableIs, HashAssumption DEF TableTypeOK, Found
<1>4. /\ IsFiniteSet(Used(table)) /\ Cardinality(Used(table)) \in Nat
      /\ i \in Used(table)
  BY <1>3, UsedIs DEF Used
<1>5. Cardinality(Used(table)) >= 1
  BY <1>4, FS_EmptySet
<1>6. table.used - 1 \in Nat  BY <1>3, <1>4, <1>5 DEF Counted
<1>7. /\ table' \in Tables /\ table'.size = table.size
      /\ table'.used = table.used - 1 /\ Slots(table') = Slots(table)
      /\ \A j \in Slots(table) :
            table'.hash[j] = IF j = i THEN Empty ELSE table.hash[j]
  <2> DEFINE t == Written(table, i, Empty, NoValue, table.used - 1)
  <2>1. /\ t \in Tables /\ t.size = table.size
        /\ t.used = table.used - 1 /\ Slots(t) = Slots(table)
        /\ \A j \in Slots(table) :
              t.hash[j] = IF j = i THEN Empty ELSE table.hash[j]
    <3>1. PICK u \in Nat : u = table.used - 1  BY <1>6
    <3>2. PICK h \in Keys \cup {Empty} : h = Empty  OBVIOUS
    <3>3. PICK v \in Values \cup {NoValue} : v = NoValue  OBVIOUS
    <3>4. /\ Written(table, i, h, v, u) \in Tables
          /\ Written(table, i, h, v, u).size = table.size
          /\ Written(table, i, h, v, u).used = u
          /\ Slots(Written(table, i, h, v, u)) = Slots(table)
          /\ \A j \in Slots(table) :
                Written(table, i, h, v, u).hash[j] =
                   IF j = i THEN h ELSE table.hash[j]
      BY <1>3, WrittenIs
    <3> QED  BY ONLY <3>1, <3>2, <3>3, <3>4
  <2> QED  BY ONLY <1>1, <2>1
<1>8. TableTypeOK'  BY <1>2, <1>7 DEF TableTypeOK
<1>9. CallsOK' /\ MapsOK'  BY <1>2, EmptySeq DEF CallsOK, MapsOK
<1>10. Counted'
  <2>1. Used(table') = Used(table) \ {i}  BY <1>7 DEF Used
  <2>2. Cardinality(Used(table')) = Cardinality(Used(table)) - 1
    BY <1>4, <2>1, FS_RemoveElement
  <2> QED  BY <1>3, <1>4, <1>7, <2>2 DEF Counted
<1>11. Spacious'
  <2>1. Load(table') = Load(table) /\ Load(table) \in Nat
    BY <1>3, <1>7, Loads DEF Load
  <2> QED  BY <1>2, <1>3, <1>7, <2>1 DEF Spacious
<1> QED  BY <1>8, <1>9, <1>10, <1>11


\* The entry that the call around the innermost one is copying is the one
\* that is put, and it is not in the larger table yet.
LEMMA PutCopies ==
    ASSUME TableTypeOK, CallsOK, MapsOK, ~use.removing,
           Len(calls) >= 2, Innermost.next = Innermost.old.size,
           NEW p \in Probes(table, Innermost.key)
    PROVE  LET d == calls[Len(calls) - 1] IN
           Entries(After(table, p, Innermost.key, Innermost.value), table.size)
              = Entries(d.old, d.next)
<1>0. PICK n \in Nat : n = Len(calls)  BY EmptySeq DEF TableTypeOK
<1> DEFINE d == calls[n - 1]
<1>1. /\ n >= 2 /\ calls # <<>> /\ Innermost = calls[n] /\ Innermost \in Calls
      /\ n - 1 \in 1 .. n /\ n - 1 < n /\ n - 1 + 1 = n
      /\ n - 1 \in 1 .. n - 1 /\ n \in 1 .. n
  BY <1>0, InnerIs, EmptySeq
<1>2. d \in Calls /\ d.old \in Tables /\ d.next \in Nat /\ d.next >= 1
      /\ d.next <= d.old.size /\ d.old.size > 0
  <2>1. d \in Calls  BY <1>0, <1>1 DEF TableTypeOK
  <2> QED  BY <1>0, <1>1, <2>1, OuterCopies, CallIs DEF CallsOK
<1>3. /\ d.old.hash[d.next - 1] = Innermost.key
      /\ d.old.value[d.next - 1] = Innermost.value
  BY <1>0, <1>1 DEF CallsOK
<1>4. Chained(d.old) /\ Chained(table)  BY <1>0, <1>1 DEF MapsOK
<1>5. Entries(table, table.size) = Entries(d.old, d.next - 1)
  <2>1. /\ Entries(Target(n - 1), Target(n - 1).size)
              = Entries(d.old, d.next - 1)
        /\ Target(n - 1) = IF Innermost.old.size > 0 THEN Innermost.old
                           ELSE table
    BY <1>0, <1>1, <1>2, OuterTarget DEF MapsOK
  <2>2. Innermost.old.size > 0 =>
           Entries(table, table.size)
              = Entries(Innermost.old, Innermost.old.size)
    <3>1. Target(n) = table /\ Copied(n) = Innermost.next
      BY <1>0, <1>1 DEF Target, Copied
    <3> QED  BY <1>0, <1>1, <3>1 DEF MapsOK
  <2> QED  BY <2>1, <2>2
<1> HIDE DEF d
<1>6. PICK j \in Nat : j = d.next - 1  BY <1>2
<1>7. /\ j < d.old.size /\ j + 1 = d.next /\ d.old.hash[j] = Innermost.key
      /\ d.old.value[j] = Innermost.value /\ j \in Slots(d.old)
      /\ Innermost.key \in Keys /\ Innermost.key # Empty
      /\ Innermost.value \in Values \cup {NoValue}
  <2>1. d.old.size \in Nat  BY <1>2, TableIs
  <2> QED  BY <1>1, <1>2, <1>3, <1>6, <2>1, CallIs, HashAssumption DEF Slots
<1>8. \A e \in Entries(d.old, j) : e[1] # Innermost.key
  <2> SUFFICES ASSUME NEW i \in UsedBelow(d.old, j),
                      d.old.hash[i] = Innermost.key
               PROVE  FALSE
    BY DEF Entries
  <2>1. i \in 0 .. j - 1 /\ d.old.size \in Nat
    BY <1>2, TableIs DEF UsedBelow
  <2>2. i \in Slots(d.old)  BY <1>7, <2>1 DEF Slots
  <2>3. i = j  BY <1>2, <1>4, <1>7, <2>2, OneEntry DEF Chained
  <2> QED  BY <2>1, <2>3
<1>9. table \in Tables  BY DEF TableTypeOK
<1>10. Entries(After(table, p, Innermost.key, Innermost.value), table.size)
          = Entries(d.old, j) \cup {<<Innermost.key, Innermost.value>>}
  <2>1. Entries(After(table, p, Innermost.key, Innermost.value), table.size)
           = {e \in Entries(table, table.size) : e[1] # Innermost.key}
                \cup {<<Innermost.key, Innermost.value>>}
    <3>1. PICK k \in Keys : k = Innermost.key  BY <1>7
    <3>2. PICK v \in Values \cup {NoValue} : v = Innermost.value  BY <1>7
    <3>3. p \in Probes(table, k)  BY <3>1
    <3>4. Entries(After(table, p, k, v), table.size)
             = {e \in Entries(table, table.size) : e[1] # k} \cup {<<k, v>>}
      BY ONLY <1>4, <1>9, <3>3, HashAssumption, PutEntries
    <3> QED  BY <3>1, <3>2, <3>4
  <2>2. Entries(table, table.size) = Entries(d.old, j)  BY <1>5, <1>6
  <2>3. {e \in Entries(d.old, j) : e[1] # Innermost.key} = Entries(d.old, j)
    BY <1>8
  <2> QED  BY <2>1, <2>2, <2>3
<1>11. Entries(d.old, j + 1)
          = Entries(d.old, j) \cup {<<Innermost.key, Innermost.value>>}
  BY <1>2, <1>7, EntriesNext
<1> QED  BY <1>0, <1>7, <1>10, <1>11 DEF d

LEMMA PutIs ==
    ASSUME TableTypeOK, CallsOK, Put
    PROVE  /\ calls # <<>> /\ ~down /\ AddingAt("copy")
           /\ Innermost.next = Innermost.old.size
           /\ \E p \in Probes(table, Innermost.key) :
                 table' = After(table, p, Innermost.key, Innermost.value)
           /\ UNCHANGED <<use, down, refused>>
           /\ Len(calls') = Len(calls) - 1 /\ calls' \in Seq(Calls)
           /\ \A m \in 1 .. Len(calls) - 1 : calls'[m] = calls[m]
<1>1. /\ calls # <<>> /\ ~down /\ AddingAt("copy")
      /\ Innermost.next = Innermost.old.size
      /\ UNCHANGED <<use, down, refused>> /\ calls' = Front(calls)
  BY DEF Put, AddingAt
<1>2. \E p \in Probes(table, Innermost.key) :
         table' = After(table, p, Innermost.key, Innermost.value)
  BY DEF Put, After, Written
<1> QED  BY <1>1, <1>2, DropLast DEF TableTypeOK

LEMMA PutKeeps == TableInv /\ Put => TableInv'
<1> SUFFICES ASSUME TableInv, Put PROVE TableInv'  OBVIOUS
<1> USE DEF TableInv
<1>0. PICK n \in Nat : n = Len(calls)  BY EmptySeq DEF TableTypeOK
<1>1. /\ calls # <<>> /\ ~down /\ AddingAt("copy")
      /\ Innermost.next = Innermost.old.size
      /\ UNCHANGED <<use, down, refused>>
      /\ Len(calls') = n - 1 /\ calls' \in Seq(Calls)
      /\ \A m \in 1 .. n - 1 : calls'[m] = calls[m]
  BY <1>0, PutIs
<1>2. PICK p \in Probes(table, Innermost.key) :
         table' = After(table, p, Innermost.key, Innermost.value)
  BY PutIs
<1>3. /\ n >= 1 /\ Innermost = calls[n] /\ Innermost \in Calls
      /\ Innermost.key \in Keys /\ Innermost.value \in Values \cup {NoValue}
  BY <1>0, <1>1, InnerIs, CallIs
<1>4. table \in Tables /\ p \in Slots(table) /\ table.used \in Nat
      /\ table.size \in Nat
  BY TableIs DEF TableTypeOK, Probes
<1>5. table' \in Tables /\ table'.size = table.size
      /\ table'.used = table.used + 1
  BY <1>2, <1>3, <1>4, AfterIs
<1>6. TableTypeOK'  BY <1>1, <1>5 DEF TableTypeOK
<1>7. CallsOK'
  <2> SUFFICES ASSUME NEW m \in 1 .. n - 1
               PROVE  LET d == calls'[m] IN
                      /\ d.next <= d.old.size
                      /\ d.at = "increase" =>
                            d.old = NewTable(0) /\ m = n - 1
                      /\ m < n - 1 =>
                            /\ d.next >= 1
                            /\ d.old.hash[d.next - 1] = calls'[m + 1].key
                            /\ d.old.value[d.next - 1] = calls'[m + 1].value
    BY <1>1 DEF CallsOK, NewTable
  <2>1. m \in 1 .. n /\ m < n /\ calls'[m] = calls[m]  BY <1>1, <1>3
  <2>2. m < n - 1 => calls'[m + 1] = calls[m + 1]  BY <1>1, <1>3
  <2> QED  BY <1>0, <2>1, <2>2 DEF CallsOK
<1>8. Counted'
  <2>1. Cardinality(Used(table')) <= Cardinality(Used(table)) + 1
    BY <1>2, <1>3, <1>4, PutUsed
  <2>2. Cardinality(Used(table)) \in Nat /\ Cardinality(Used(table')) \in Nat
    BY <1>4, <1>5, UsedIs
  <2> QED  BY <1>4, <1>5, <2>1, <2>2 DEF Counted
<1>9. MapsOK'
  <2> SUFFICES ASSUME ~use.removing
               PROVE  /\ Chained(table')
                      /\ \A m \in 1 .. n - 1 :
                            /\ Chained(calls'[m].old)
                            /\ calls'[m].old.size > 0 =>
                                  Entries(Target(m)', Target(m)'.size)
                                     = Entries(calls'[m].old, Copied(m)')
    BY <1>1 DEF MapsOK, Chained, IsFirst, Slots, Distance, Entries, UsedBelow
  <2>1. Chained(table')
    BY <1>2, <1>3, <1>4, PutChained DEF MapsOK
  <2>2. ASSUME NEW m \in 1 .. n - 1
        PROVE  /\ Chained(calls'[m].old)
               /\ calls'[m].old.size > 0 =>
                     Entries(Target(m)', Target(m)'.size)
                        = Entries(calls'[m].old, Copied(m)')
    <3>1. m \in 1 .. n /\ m < n /\ calls'[m] = calls[m]  BY <1>1, <1>3
    <3>2. Chained(calls[m].old)  BY <1>0, <3>1 DEF MapsOK
    <3>3. CASE m = n - 1
      <4>1. Target(m)' = table' /\ Copied(m)' = calls[m].next
        BY <1>1, <3>1, <3>3 DEF Target, Copied
      <4>2. Entries(table', table.size) = Entries(calls[m].old, calls[m].next)
        <5>1. Len(calls) >= 2  BY <1>0, <1>3, <3>3
        <5> QED  BY <1>0, <1>1, <1>2, <3>3, <5>1, PutCopies
      <4> QED  BY <1>5, <3>1, <3>2, <4>1, <4>2
    <3>4. CASE m < n - 1
      <4>1. m + 1 \in 1 .. n - 1 /\ m + 1 \in 1 .. n /\ m + 1 < n
        BY <1>3, <3>4
      <4>2. calls'[m + 1] = calls[m + 1] /\ calls[m + 1].old.size > 0
        BY <1>0, <1>1, <4>1, OuterCopies
      <4>3. Target(m)' = calls[m + 1].old /\ Target(m) = calls[m + 1].old
        BY <1>0, <1>1, <3>1, <3>4, <4>2 DEF Target
      <4>4. Copied(m)' = Copied(m)
        BY <1>0, <1>1, <3>1, <3>4 DEF Copied
      <4> QED  BY <1>0, <3>1, <3>2, <4>3, <4>4 DEF MapsOK
    <3> QED  BY <1>3, <3>3, <3>4
  <2> QED  BY <2>1, <2>2
<1>10. Spacious'
  <2> SUFFICES ASSUME ~refused
               PROVE  /\ ~down'
                      /\ table'.used <= Load(table')
                            + (IF table'.size = 0 THEN 0 ELSE 1)
                      /\ calls' # <<>> => Growing'
    BY <1>1 DEF Spacious, Growing, Load
  <2>1. table.used <= Load(table) /\ table.size # 0 /\ Load(table) \in Nat
        /\ Load(table') = Load(table)
    BY <1>1, <1>4, <1>5, RoomToPut, Loads DEF Load
  <2>2. ASSUME calls' # <<>>  PROVE Growing'
    <3>1. Growing  BY <1>1 DEF Spacious
    <3>2. n = 2
      <4>1. n <= 2  BY <1>0, <3>1 DEF Growing
      <4>2. Len(calls') # 0  BY <1>1, <2>2, EmptySeq
      <4> QED  BY <1>1, <1>3, <4>1, <4>2
    <3>3. /\ Len(calls') = 1 /\ calls'[1] = calls[1]
          /\ calls[1].old.size > 0 /\ calls[1].old \in Tables
          /\ Copied(1)' = calls[1].next
      <4>1. Len(calls') = 1 /\ calls'[1] = calls[1]  BY <1>1, <3>2
      <4>2. calls[1].old.size > 0  BY <1>0, <3>1, <3>2 DEF Growing
      <4>3. calls[1].old \in Tables  BY <1>0, <3>1, <3>2, InnerRoom
      <4> QED  BY <4>1, <4>2, <4>3 DEF Copied
    <3>4. table'.used = Cardinality(UsedBelow(calls[1].old, calls[1].next))
      BY <1>0, <1>5, <3>1, <3>2, InnerRoom
    <3>5. /\ table'.size = NextSize[calls[1].old.size]
          /\ Cardinality(Used(calls[1].old)) <= Load(calls[1].old) + 1
      BY <1>5, <3>1, <3>3 DEF Growing
    <3>6. calls[1].old.size # 0
      <4>1. calls[1].old.size \in Nat  BY <3>3, TableIs
      <4> QED  BY <3>3, <4>1
    <3> QED  BY <3>3, <3>4, <3>5, <3>6 DEF Growing
  <2> QED  BY <1>1, <1>4, <1>5, <2>1, <2>2
<1> QED  BY <1>6, <1>7, <1>8, <1>9, <1>10

LEMMA TableUnchangedKeeps == TableInv /\ UNCHANGED tableVars => TableInv'
<1> SUFFICES ASSUME TableInv, UNCHANGED tableVars PROVE TableInv'  OBVIOUS
<1> USE DEF TableInv, tableVars
<1>1. TableTypeOK'  BY DEF TableTypeOK
<1>2. CallsOK'  BY DEF CallsOK, NewTable
<1>3. MapsOK'
  <2>1. \A m \in 1 .. Len(calls) : Copied(m)' = Copied(m)  BY DEF Copied
  <2>2. Len(calls) \in Nat  BY DEF TableTypeOK
  <2> QED  BY <2>1, <2>2, MapsKept
<1>4. Counted'  BY DEF Counted, Used, Slots
<1>5. Spacious'
  <2>1. Copied(1)' = Copied(1)  BY DEF Copied
  <2> QED  BY <2>1 DEF Spacious, Growing, Load
<1> QED  BY <1>1, <1>2, <1>3, <1>4, <1>5

\* The invariant of the table, of which the theorems below are parts.
THEOREM TableInvariance == TableSpec => []TableInv
<1>1. TableInv /\ [TableNext]_tableVars => TableInv'
  <2> SUFFICES ASSUME TableInv, [TableNext]_tableVars PROVE TableInv'
    OBVIOUS
  <2> QED
    BY AddKeeps, IncreaseKeeps, KeepKeeps, CopyKeeps, PutKeeps, NoEntryKeeps,
       RemoveKeeps, TableUnchangedKeeps
    DEF TableNext
<1> QED  BY TableInitInv, <1>1, PTL DEF TableSpec

\* A HashTableT is always a table: its size is one GetTableSize answers, and
\* Entries has that many hashes and elements, each used or not.
THEOREM TableTypeCorrect == TableSpec => []TableTypeOK
<1>1. TableInv => TableTypeOK  BY DEF TableInv
<1> QED  BY <1>1, TableInvariance, PTL

\* TableUsedSize never counts too little and IncreaseCapacity sees a table
\* fill up in time: while no allocation fails an entry is free, LookupEntry
\* always finds one for AddElement to write, in the middle of a growth too.
THEOREM AlwaysRoom == TableSpec => []RoomLeft
<1>1. TableInv => RoomLeft
  <2> SUFFICES ASSUME TableInv PROVE RoomLeft  OBVIOUS
  <2>1. table \in Tables /\ table.size \in Nat /\ table.used \in Nat
        /\ Load(table) \in Nat /\ Cardinality(Used(table)) \in Nat
        /\ (table.size # 0 => Load(table) + 1 < table.size)
    BY TableIs, UsedIs, Loads DEF TableInv, TableTypeOK
  <2> QED  BY <2>1 DEF TableInv, Counted, Spacious, RoomLeft
<1> QED  BY <1>1, TableInvariance, PTL

\* While no allocation fails IncreaseCapacity never has to grow the table it
\* is filling: its recursion with AddElement ends one level down.
THEOREM AlwaysGrowsOnce == TableSpec => []GrowsOnce
<1>1. TableInv => GrowsOnce
  <2> SUFFICES ASSUME TableInv, ~refused PROVE Len(calls) <= 2
    BY DEF GrowsOnce
  <2>1. CASE calls = <<>>  BY <2>1
  <2>2. CASE calls # <<>>  BY <2>2 DEF TableInv, Spacious, Growing
  <2> QED  BY <2>1, <2>2
<1> QED  BY <1>1, TableInvariance, PTL

-----------------------------------------------------------------------------
(***************************************************************************)
(* The table implements a map.                                             *)
(***************************************************************************)

\* The map of the refinement.
Map == [k \in Keys |-> IF use.removing THEN NoValue ELSE Get(Shown, k)]

\* The caller of the outermost AddElement adds a value, not NoValue.
Asked == calls # <<>> => calls[1].value \in Values

LEMMA AskedKept == TableInv /\ Asked /\ [TableNext]_tableVars => Asked'
<1> SUFFICES ASSUME TableInv, Asked, [TableNext]_tableVars,
                    calls' # <<>>
             PROVE  calls'[1].value \in Values
  BY DEF Asked
<1> USE DEF TableInv
<1>0. PICK n \in Nat : n = Len(calls)  BY EmptySeq DEF TableTypeOK
<1>1. CASE Add
  <2>1. PICK k \in use.keys, v \in use.values : calls' = <<AddElement(k, v)>>
    BY <1>1 DEF Add
  <2>2. v \in Values  BY HashAssumption DEF TableTypeOK
  <2> QED  BY <2>1, <2>2 DEF AddElement
<1>2. CASE IncreaseCapacity \/ KeepCapacity
  <2>1. PICK c : /\ calls # <<>> /\ GoesOn(c) /\ c.value = Innermost.value
                 /\ c.at = "copy" /\ c \in Calls /\ c.next <= c.old.size
    <3>1. calls # <<>>  BY <1>2 DEF IncreaseCapacity, KeepCapacity, AddingAt
    <3>2. Innermost \in Calls /\ table \in Tables
          /\ Innermost.next <= Innermost.old.size
      BY <3>1, InnerIs DEF TableTypeOK
    <3>3. CASE IncreaseCapacity
      <4> DEFINE c == [Innermost EXCEPT !.at = "copy", !.old = table]
      <4>1. GoesOn(c) /\ Innermost.next = 0
        BY <3>1, <3>3, InnerIs DEF IncreaseCapacity, AddingAt
      <4>2. c \in Calls /\ c.value = Innermost.value /\ c.at = "copy"
            /\ c.next = Innermost.next /\ c.old = table
        BY <3>2 DEF Calls
      <4>3. 0 <= table.size  BY <3>2, TableIs
      <4> HIDE DEF c
      <4> QED  BY <3>1, <4>1, <4>2, <4>3
    <3>4. CASE KeepCapacity
      <4> DEFINE c == [Innermost EXCEPT !.at = "copy"]
      <4>1. GoesOn(c)  BY <3>4 DEF KeepCapacity
      <4>2. c \in Calls /\ c.value = Innermost.value /\ c.at = "copy"
            /\ c.next = Innermost.next /\ c.old = Innermost.old
        BY <3>2 DEF Calls
      <4> HIDE DEF c
      <4> QED  BY <3>1, <3>2, <4>1, <4>2
    <3> QED  BY <1>2, <3>3, <3>4
  <2>2. /\ calls'[n] = c /\ \A m \in 1 .. n - 1 : calls'[m] = calls[m]
        /\ n >= 1 /\ Innermost = calls[n]
    BY <1>0, <2>1, GoesOnTo, InnerIs
  <2> QED  BY <1>0, <2>1, <2>2 DEF Asked
<1>3. CASE CopyEntry
  <2> DEFINE c == [Innermost EXCEPT !.next = Innermost.next + 1]
             on == Append(Front(calls), c)
  <2>1. /\ calls # <<>>
        /\ \/ calls' = on
           \/ calls' = Append(on, AddElement(Innermost.old.hash[Innermost.next],
                                             Innermost.old.value[Innermost.next]))
    BY <1>3 DEF CopyEntry, AddingAt
  <2>2. n >= 1 /\ Innermost = calls[n] /\ Innermost \in Calls
    BY <1>0, <2>1, InnerIs
  <2>3. c \in Calls /\ c.value = Innermost.value  BY <2>2 DEF Calls
  <2> HIDE DEF c
  <2>4. /\ on \in Seq(Calls) /\ Len(on) = n /\ on[n] = c
        /\ \A m \in 1 .. n - 1 : on[m] = calls[m]
    BY <1>0, <2>1, <2>3, ReplaceLast DEF TableTypeOK
  <2> HIDE DEF on
  <2>5. calls'[1] = on[1]  BY <2>1, <2>2, <2>4
  <2> QED  BY <1>0, <2>1, <2>2, <2>3, <2>4, <2>5 DEF Asked
<1>4. CASE Put
  <2>1. /\ Len(calls') = n - 1 /\ \A m \in 1 .. n - 1 : calls'[m] = calls[m]
        /\ calls' \in Seq(Calls) /\ calls # <<>>
    BY <1>0, <1>4, PutIs
  <2>2. 1 \in 1 .. n - 1  BY <2>1, EmptySeq
  <2> QED  BY <2>1, <2>2 DEF Asked
<1>5. CASE NoEntry \/ RemoveElement \/ UNCHANGED tableVars
  BY <1>5 DEF NoEntry, RemoveElement, tableVars, Asked
<1> QED  BY <1>1, <1>2, <1>3, <1>4, <1>5 DEF TableNext

ShownOK == Shown \in Tables /\ (~use.removing => Chained(Shown))

LEMMA ShownIs == TableInv => ShownOK
<1> SUFFICES ASSUME TableInv PROVE ShownOK  OBVIOUS
<1> USE DEF ShownOK
<1>1. CASE calls = <<>> \/ calls[1].old.size = 0
  BY <1>1 DEF Shown, TableInv, TableTypeOK, MapsOK
<1>2. CASE calls # <<>> /\ calls[1].old.size # 0
  <2>1. 1 \in 1 .. Len(calls)  BY <1>2, EmptySeq DEF TableInv, TableTypeOK
  <2>2. calls[1] \in Calls  BY <2>1 DEF TableInv, TableTypeOK
  <2> QED  BY <1>2, <2>1, <2>2, CallIs DEF Shown, TableInv, MapsOK
<1> QED  BY <1>1, <1>2

LEMMA ShownIsNext == TableInv' => ShownOK'
BY ShownIs, PTL

\* A map does not change with the entries it shows.
LEMMA MapKept ==
    ASSUME TableInv, TableInv', use' = use,
           ~use.removing =>
              Entries(Shown', Shown'.size) = Entries(Shown, Shown.size)
    PROVE  Map' = Map
<1>1. CASE use.removing  BY <1>1 DEF Map
<1>2. CASE ~use.removing
  <2>1. Shown \in Tables /\ Chained(Shown)  BY <1>2, ShownIs DEF ShownOK
  <2>2. Shown' \in Tables /\ Chained(Shown')
    BY <1>2, ShownIsNext DEF ShownOK, Chained, IsFirst, Slots, Distance
  <2>3. \A k \in Keys : Get(Shown', k) = Get(Shown, k)
    BY <1>2, <2>1, <2>2, SameEntriesSameGet
  <2>4. Map' = [k \in Keys |-> Get(Shown', k)]
    BY <1>2 DEF Map, Get, Found, IsFirst, Slots, Distance
  <2>5. Map = [k \in Keys |-> Get(Shown, k)]  BY <1>2 DEF Map
  <2> QED  BY <2>3, <2>4, <2>5
<1> QED  BY <1>1, <1>2

LEMMA IncreaseShows == TableInv /\ TableInv' /\ IncreaseCapacity => Map' = Map
<1> SUFFICES ASSUME TableInv, TableInv', IncreaseCapacity PROVE Map' = Map
  OBVIOUS
<1>0. PICK n \in Nat : n = Len(calls)
  BY EmptySeq DEF TableInv, TableTypeOK
<1> DEFINE c == [Innermost EXCEPT !.at = "copy", !.old = table]
<1>1. /\ calls # <<>> /\ GoesOn(c) /\ use' = use
      /\ table' = NewTable(NextSize[table.size])
      /\ NextSize[table.size] <= use.largest
  BY DEF IncreaseCapacity, AddingAt
<1>2. /\ n >= 1 /\ Innermost = calls[n] /\ Innermost \in Calls
      /\ Innermost.next = 0 /\ Innermost.old.size = 0
  BY <1>0, <1>1, InnerIs DEF TableInv, IncreaseCapacity, AddingAt
<1>3. table \in Tables /\ table.size \in Nat /\ table.size \in Sizes \cup {0}
  BY TableIs DEF TableInv, TableTypeOK
<1>4. c \in Calls /\ c.at = "copy" /\ c.old = table /\ c.next = 0
  BY <1>2, <1>3 DEF Calls
<1> HIDE DEF c
<1>5. /\ calls' # <<>> /\ calls'[n] = c
      /\ \A m \in 1 .. n - 1 : calls'[m] = calls[m]
  BY <1>0, <1>1, <1>3, <1>4, GoesOnTo DEF TableInv
<1>6. Entries(Shown', Shown'.size) = Entries(Shown, Shown.size)
  <2>1. CASE n = 1 /\ table.size > 0
    BY <1>2, <1>4, <1>5, <2>1 DEF Shown
  <2>2. CASE n = 1 /\ table.size = 0
    <3>1. Shown = table /\ Shown' = table'
      BY <1>2, <1>4, <1>5, <2>2 DEF Shown
    <3>2. NextSize[table.size] \in Sizes
      BY <1>1, <1>3, HashAssumption DEF TableInv, TableTypeOK
    <3>3. table'.size \in Nat /\ table'.size = NextSize[table.size]
          /\ UsedBelow(table', table'.size) = {}
      BY <1>1, <3>2, NewTableIs, TableIs
    <3>4. UsedBelow(table, table.size) = {}  BY <2>2 DEF UsedBelow
    <3> QED  BY <3>1, <3>3, <3>4 DEF Entries
  <2>3. CASE n > 1
    <3>1. 1 \in 1 .. n - 1 /\ 1 \in 1 .. n /\ 1 < n  BY <1>0, <2>3
    <3>2. calls[1].old.size > 0 /\ calls'[1] = calls[1]
      BY <1>0, <1>5, <3>1, OuterCopies DEF TableInv
    <3> QED  BY <1>1, <1>5, <3>2 DEF Shown
  <2> QED  BY <1>2, <1>3, <2>1, <2>2, <2>3
<1> QED  BY <1>1, <1>6, MapKept

LEMMA KeepShows == TableInv /\ TableInv' /\ KeepCapacity => Map' = Map
<1> SUFFICES ASSUME TableInv, TableInv', KeepCapacity PROVE Map' = Map
  OBVIOUS
<1>0. PICK n \in Nat : n = Len(calls)
  BY EmptySeq DEF TableInv, TableTypeOK
<1> DEFINE c == [Innermost EXCEPT !.at = "copy"]
<1>1. /\ calls # <<>> /\ GoesOn(c) /\ UNCHANGED <<use, table>>
  BY DEF KeepCapacity, AddingAt
<1>2. /\ n >= 1 /\ Innermost = calls[n] /\ Innermost \in Calls
      /\ Innermost.next <= Innermost.old.size
  BY <1>0, <1>1, InnerIs DEF TableInv
<1>3. c \in Calls /\ c.at = "copy" /\ c.old = Innermost.old
      /\ c.next = Innermost.next
  BY <1>2 DEF Calls
<1> HIDE DEF c
<1>4. /\ calls' # <<>> /\ calls'[n] = c
      /\ \A m \in 1 .. n - 1 : calls'[m] = calls[m]
  BY <1>0, <1>1, <1>2, <1>3, GoesOnTo DEF TableInv
<1>5. calls'[1].old = calls[1].old
  <2>1. CASE n = 1  BY <1>2, <1>3, <1>4, <2>1
  <2>2. CASE n > 1  BY <1>4, <2>2
  <2> QED  BY <1>2, <2>1, <2>2
<1>6. Shown' = Shown  BY <1>1, <1>4, <1>5 DEF Shown
<1> QED  BY <1>1, <1>6, MapKept

LEMMA CopyShows == TableInv /\ TableInv' /\ CopyEntry => Map' = Map
<1> SUFFICES ASSUME TableInv, TableInv', CopyEntry PROVE Map' = Map
  OBVIOUS
<1>0. PICK n \in Nat : n = Len(calls)
  BY EmptySeq DEF TableInv, TableTypeOK
<1> DEFINE c == [Innermost EXCEPT !.next = Innermost.next + 1]
           on == Append(Front(calls), c)
<1>1. /\ calls # <<>> /\ UNCHANGED <<use, table>>
      /\ \/ calls' = on
         \/ calls' = Append(on, AddElement(Innermost.old.hash[Innermost.next],
                                           Innermost.old.value[Innermost.next]))
  BY DEF CopyEntry, AddingAt
<1>2. n >= 1 /\ Innermost = calls[n] /\ Innermost \in Calls
  BY <1>0, <1>1, InnerIs DEF TableInv
<1>3. c \in Calls /\ c.old = Innermost.old  BY <1>2 DEF Calls
<1> HIDE DEF c
<1>4. /\ on \in Seq(Calls) /\ Len(on) = n /\ on[n] = c
      /\ \A m \in 1 .. n - 1 : on[m] = calls[m]
  BY <1>0, <1>1, <1>3, ReplaceLast DEF TableInv, TableTypeOK
<1> HIDE DEF on
<1>5. calls'[1] = on[1] /\ calls' # <<>>  BY <1>1, <1>2, <1>4
<1>6. calls'[1].old = calls[1].old
  <2>1. CASE n = 1  BY <1>2, <1>3, <1>4, <1>5, <2>1
  <2>2. CASE n > 1  BY <1>4, <1>5, <2>2
  <2> QED  BY <1>2, <2>1, <2>2
<1>7. Shown' = Shown  BY <1>1, <1>5, <1>6 DEF Shown
<1> QED  BY <1>1, <1>7, MapKept

\* The entry of the outermost call is the one the map gets.
LEMMA PutShows ==
    TableInv /\ TableInv' /\ Asked /\ Put =>
       \/ Map' = Map
       \/ \E k \in Keys, v \in Values : Map' = [Map EXCEPT ![k] = v]
<1> SUFFICES ASSUME TableInv, TableInv', Asked, Put
             PROVE  \/ Map' = Map
                    \/ \E k \in Keys, v \in Values : Map' = [Map EXCEPT ![k] = v]
  OBVIOUS
<1>0. PICK n \in Nat : n = Len(calls)
  BY EmptySeq DEF TableInv, TableTypeOK
<1>1. /\ calls # <<>> /\ Innermost.next = Innermost.old.size /\ use' = use
      /\ Len(calls') = n - 1 /\ calls' \in Seq(Calls)
      /\ \A m \in 1 .. n - 1 : calls'[m] = calls[m]
  BY <1>0, PutIs DEF TableInv
<1>2. PICK p \in Probes(table, Innermost.key) :
         table' = After(table, p, Innermost.key, Innermost.value)
  BY PutIs DEF TableInv
<1>3. /\ n >= 1 /\ Innermost = calls[n] /\ Innermost \in Calls
      /\ Innermost.key \in Keys
  BY <1>0, <1>1, InnerIs, CallIs DEF TableInv
<1>4. CASE use.removing  BY <1>1, <1>4, MapKept
<1>5. CASE n > 1
  <2>1. 1 \in 1 .. n - 1 /\ 1 \in 1 .. n /\ 1 < n  BY <1>5
  <2>2. calls[1].old.size > 0 /\ calls'[1] = calls[1] /\ calls' # <<>>
    BY <1>0, <1>1, <2>1, OuterCopies, EmptySeq DEF TableInv
  <2>3. Shown' = Shown  BY <1>1, <2>2 DEF Shown
  <2> QED  BY <1>1, <2>3, MapKept
<1>6. CASE n = 1 /\ ~use.removing
  <2> DEFINE k == Innermost.key
             v == Innermost.value
  <2>1. k \in Keys /\ v \in Values  BY <1>1, <1>3, <1>6 DEF Asked
  <2>2. table \in Tables /\ Chained(table) /\ p \in Probes(table, k)
    BY <1>6 DEF TableInv, TableTypeOK, MapsOK
  <2>3. \A j \in Keys : Get(Shown, j) = Get(table, j)
    <3>1. CASE Innermost.old.size = 0  BY <1>3, <1>6, <3>1 DEF Shown
    <3>2. CASE Innermost.old.size # 0
      <4>1. Shown = Innermost.old  BY <1>1, <1>3, <1>6, <3>2 DEF Shown
      <4>2. Target(1) = table /\ Copied(1) = Innermost.old.size
        BY <1>0, <1>1, <1>3, <1>6 DEF Target, Copied
      <4>3. Innermost.old \in Tables /\ Innermost.old.size > 0
        BY <1>3, <3>2, CallIs
      <4>4. /\ Chained(Innermost.old)
            /\ Entries(table, table.size)
                  = Entries(Innermost.old, Innermost.old.size)
        BY <1>0, <1>3, <1>6, <4>2, <4>3 DEF TableInv, MapsOK
      <4> QED  BY <2>2, <4>1, <4>3, <4>4, SameEntriesSameGet
    <3> QED  BY <3>1, <3>2
  <2>4. Shown' = table'
    <3>1. calls' = <<>>  BY <1>1, <1>6, EmptySeq
    <3> QED  BY <3>1 DEF Shown
  <2> DEFINE t == After(table, p, k, v)
  <2>5. t \in Tables /\ Chained(t) /\ t.size = table.size
        /\ Entries(t, t.size)
              = {e \in Entries(table, table.size) : e[1] # k} \cup {<<k, v>>}
    <3>1. p \in Slots(table) /\ v \in Values \cup {NoValue}
      BY <2>1, <2>2 DEF Probes
    <3> HIDE DEF k, v
    <3>2. t \in Tables /\ t.size = table.size  BY <2>1, <2>2, <3>1, AfterIs
    <3>3. Chained(t)  BY <2>1, <2>2, <3>1, PutChained
    <3>4. Entries(t, table.size)
             = {e \in Entries(table, table.size) : e[1] # k} \cup {<<k, v>>}
      BY <2>1, <2>2, <3>1, PutEntries
    <3> QED  BY <3>2, <3>3, <3>4
  <2>6. table' = t  BY <1>2
  <2> HIDE DEF t, k, v
  <2>7. \A j \in Keys : Get(t, j) = IF j = k THEN v ELSE Get(table, j)
    <3>1. Get(t, k) = v  BY <2>1, <2>5, GetIs
    <3>2. ASSUME NEW j \in Keys, j # k  PROVE Get(t, j) = Get(table, j)
      <4>1. \A w : <<j, w>> \in Entries(t, t.size)
                      <=> <<j, w>> \in Entries(table, table.size)
        BY <2>5, <3>2
      <4>2. CASE \E w : <<j, w>> \in Entries(table, table.size)
        <5>1. PICK w : <<j, w>> \in Entries(table, table.size)  BY <4>2
        <5>2. Get(table, j) = w  BY <2>2, <5>1, GetIs
        <5>3. Get(t, j) = w  BY <2>5, <4>1, <5>1, GetIs
        <5> QED  BY <5>2, <5>3
      <4>3. CASE \A w : <<j, w>> \notin Entries(table, table.size)
        <5>1. Get(table, j) = NoValue  BY <2>2, <4>3, GetIs
        <5>2. Get(t, j) = NoValue  BY <2>5, <4>1, <4>3, GetIs
        <5> QED  BY <5>1, <5>2
      <4> QED  BY <4>2, <4>3
    <3> QED  BY <3>1, <3>2
  <2>8. Map' = [j \in Keys |-> Get(t, j)]
    BY <1>1, <1>6, <2>4, <2>6
    DEF Map, Get, Found, IsFirst, Slots, Distance
  <2>9. Map = [j \in Keys |-> Get(table, j)]  BY <1>6, <2>3 DEF Map
  <2>10. Map' = [Map EXCEPT ![k] = v]  BY <2>1, <2>7, <2>8, <2>9
  <2> QED  BY <2>1, <2>10
<1> QED  BY <1>3, <1>4, <1>5, <1>6

\* As long as nothing is removed LookupElement answers what AddElement last
\* put under the key: collisions, overwriting, growing and the growth that an
\* allocation failure stops lose and mix up nothing.
THEOREM TableIsMap == TableSpec => ImplementsMap
<1>1. TableInit => Abstract!Init
  <2> SUFFICES ASSUME TableInit PROVE Abstract!Init  OBVIOUS
  <2>1. \A k \in Keys : Get(Shown, k) = NoValue
    BY DEF TableInit, NewTable, Shown, Get, Found, Slots
  <2>2. Map = [k \in Keys |-> NoValue]  BY <2>1 DEF Map
  <2> QED  BY <2>2 DEF Abstract!Init, Map, TableInit
<1>2. TableInv /\ TableInv' /\ Asked /\ [TableNext]_tableVars
         => [Abstract!Next]_(Abstract!vars)
  <2> SUFFICES ASSUME TableInv, TableInv', Asked, [TableNext]_tableVars
               PROVE  [Abstract!Next]_(Abstract!vars)
    OBVIOUS
  <2>1. CASE Map' = Map /\ (down' = down \/ down' = TRUE)
    BY <2>1 DEF Map, Abstract!Next, Abstract!Down, Abstract!vars
  <2>2. CASE Add
    <3>1. Shown' = Shown
      BY <2>2, EmptyTable DEF Add, Shown, AddElement
    <3> QED  BY <2>1, <2>2, <3>1, MapKept DEF Add
  <2>3. CASE IncreaseCapacity
    BY <2>1, <2>3, IncreaseShows DEF IncreaseCapacity
  <2>4. CASE KeepCapacity  BY <2>1, <2>4, KeepShows DEF KeepCapacity
  <2>5. CASE CopyEntry  BY <2>1, <2>5, CopyShows DEF CopyEntry
  <2>6. CASE Put
    <3>1. ~down /\ down' = down  BY <2>6, PutIs DEF TableInv
    <3>2. CASE \E k \in Keys, v \in Values : Map' = [Map EXCEPT ![k] = v]
      <4>1. PICK k \in Keys, v \in Values : Map' = Abstract!Put(k, v)
        BY <3>2 DEF Map, Abstract!Put
      <4>2. Map' \in {Abstract!Put(i, j) : i \in Keys, j \in Values}
        BY ONLY <4>1
      <4>3. Abstract!Add  BY <3>1, <4>2 DEF Map, Abstract!Add
      <4> QED  BY <4>3 DEF Abstract!Next
    <3> QED  BY <2>1, <2>6, <3>1, <3>2, PutShows
  <2>7. CASE NoEntry
    <3>1. Shown' = Shown  BY <2>7 DEF NoEntry, Shown
    <3> QED  BY <2>1, <2>7, <3>1, MapKept DEF NoEntry
  <2>8. CASE RemoveElement
    BY <2>1, <2>8, MapKept DEF RemoveElement
  <2>9. CASE UNCHANGED tableVars
    <3>1. Shown' = Shown  BY <2>9 DEF tableVars, Shown
    <3> QED  BY <2>1, <2>9, <3>1, MapKept DEF tableVars
  <2> QED
    BY <2>2, <2>3, <2>4, <2>5, <2>6, <2>7, <2>8, <2>9 DEF TableNext
<1>3. TableInit => Asked  BY DEF TableInit, Asked
<1>4. TableInv /\ Asked /\ [TableNext]_tableVars => Asked'  BY AskedKept
<1> QED
  BY <1>1, <1>2, <1>3, <1>4, TableInvariance, PTL
  DEF TableSpec, ImplementsMap, Abstract!Spec
=============================================================================
