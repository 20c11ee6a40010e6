-------------------------- MODULE LedgerReadsProofs --------------------------
(***************************************************************************)
(* Proofs about LedgerReads for any entries, readers, windows, limits and  *)
(* dates: the type invariant, that a finished list is complete, that the   *)
(* windows a change leaves stored are current, and that a delete reported  *)
(* as done is done.                                                        *)
(***************************************************************************)
EXTENDS LedgerReads, FiniteSetTheorems, TLAPS

\* What is known of entry e while reader r gathers its list: its row, if it has
\* one, is right and inside the window; it has one, unless it is in a range that
\* is yet to be asked for or on a day that is too full.
Gathered(r, e) ==
    LET l == lists[r] IN
    /\ l.rows[e] # NoDay =>
          /\ l.rows[e] = ledger[e]
          /\ In(l.window, ledger[e])
    /\ \/ ~ In(l.window, ledger[e])
       \/ ledger[e] \in l.short
       \/ l.rows[e] = ledger[e]
       \/ \E p \in l.todo : In(p, ledger[e])

\* Every range that is yet to be asked for lies in the window.
TodoInside(r) ==
    \A p \in lists[r].todo : lists[r].window.from <= p.from /\ p.to <= lists[r].window.to

GatherInv ==
    \A r \in Reader :
        Reading(r) =>
            /\ TodoInside(r)
            /\ \A e \in Entry \ lists[r].touched : Gathered(r, e)

\* The windows the write in flight drops when it succeeds.
WillDrop == IF write.kind = "update" THEN Windows ELSE Dropped(write.day)

\* What the write in flight knows is true of the ledger.
WriteFits ==
    /\ \A e \in unused : ledger[e] = NoDay
    /\ write # NoWrite =>
          /\ write.unsure => write.kind = "delete" /\ write.day # NoDay
          /\ write.kind = "create" => write.day # NoDay
          /\ write.applied /\ write.kind = "delete" => ledger[write.entry] = NoDay
          /\ ~ write.applied /\ write.kind = "delete" =>
                 write.day \in {NoDay, ledger[write.entry]}

\* The row of e in a stored window is the one the ledger gives, or the write in
\* flight has changed it and is to drop the window.
RowCurrent(w, e) ==
    \/ stored[w].rows[e] = Actual(w)[e]
    \/ write # NoWrite /\ write.applied /\ write.entry = e /\ w \in WillDrop

StoredInv ==
    \A w \in Windows :
        stored[w].kept /\ ~ stored[w].spoiled => \A e \in Entry : RowCurrent(w, e)

ReadsInv == TypeOK /\ GatherInv

-------------------------------------------------------------------------------
(* Ranges *)

\* The halves of a range of several days are ranges, lie inside it and have all
\* of its days.
LEMMA HalvesCover ==
    ASSUME LastDay \in Nat, NEW w \in DateRange, w.from # w.to
    PROVE  /\ Halves(w) \subseteq DateRange
           /\ \A p \in Halves(w) : w.from <= p.from /\ p.to <= w.to
           /\ \A d \in Int : In(w, d) => \E p \in Halves(w) : In(p, d)
<1> DEFINE mid == w.from + ((w.to - w.from) \div 2)
<1>1. w.from \in Int /\ w.to \in Int /\ 1 <= w.from /\ w.to <= LastDay /\ w.from < w.to
  BY DEF DateRange, Day
<1>2. mid \in Int /\ w.from <= mid /\ mid < w.to
  BY <1>1, SMT
<1> HIDE DEF mid
<1>3. Halves(w) = {Piece(w.from, mid), Piece(mid + 1, w.to)}
  BY DEF Halves, mid
<1>4. Piece(w.from, mid) \in DateRange /\ Piece(mid + 1, w.to) \in DateRange
  BY <1>1, <1>2 DEF DateRange, Day, Piece
<1>5. \A d \in Int : In(w, d) => In(Piece(w.from, mid), d) \/ In(Piece(mid + 1, w.to), d)
  BY <1>1, <1>2 DEF In, Piece
<1>6. \A p \in Halves(w) : w.from <= p.from /\ p.to <= w.to
  BY <1>1, <1>2, <1>3 DEF Piece
<1> QED
  BY <1>3, <1>4, <1>5, <1>6

\* So do the two parts a range of more than a year is split into.
LEMMA YearsCover ==
    ASSUME LastDay \in Nat, Year \in Nat, NEW w \in DateRange, w.to - w.from > Year,
           NEW a, a = Piece(w.from, w.from + Year),
           NEW b, b = Piece(w.from + Year + 1, w.to)
    PROVE  /\ a \in DateRange /\ b \in DateRange
           /\ w.from <= a.from /\ a.to <= w.to
           /\ w.from <= b.from /\ b.to <= w.to
           /\ \A d \in Int : In(w, d) => In(a, d) \/ In(b, d)
<1>1. w.from \in Int /\ w.to \in Int /\ 1 <= w.from /\ w.to <= LastDay
  BY DEF DateRange, Day
<1>2. a \in DateRange /\ b \in DateRange
  BY <1>1 DEF DateRange, Day, Piece
<1>3. \A d \in Int : In(w, d) => In(a, d) \/ In(b, d)
  BY <1>1 DEF In, Piece
<1> QED
  BY <1>1, <1>2, <1>3 DEF Piece
-------------------------------------------------------------------------------
(* Types *)

LEMMA Constants ==
    /\ LastDay \in Nat /\ Cap \in Nat \ {0} /\ Year \in Nat /\ MaxChanges \in Nat
    /\ Windows \subseteq DateRange /\ Before \subseteq Ledger
BY ReadsAssumption DEF ReadsAssumption

\* A range has a number of entries.
LEMMA DayCount == \A p : Cardinality(Within(p)) \in Nat
BY ReadsAssumption, FS_Subset, FS_CardinalityType DEF ReadsAssumption, Within

LEMMA InitType == Init => TypeOK
BY Constants DEF Init, TypeOK, Stored, NotStored, NoRows, Ledger

LEMMA TypeStep == TypeOK /\ [Next]_vars => TypeOK'
<1> SUFFICES ASSUME TypeOK, [Next]_vars PROVE TypeOK'
  OBVIOUS
<1> USE Constants
<1>1. ASSUME NEW r \in Reader, NEW w \in Windows, Ask(r, w) PROVE TypeOK'
  BY <1>1 DEF TypeOK, Ask, List, NoRows, Ledger, DateRange
<1>2. ASSUME NEW r \in Reader, SplitYear(r) PROVE TypeOK'
  <2>1. PICK w \in First(r) :
          /\ w.to - w.from > Year
          /\ lists' = [lists EXCEPT ![r].todo =
                          (@ \ {w}) \cup {Piece(w.from, w.from + Year),
                                          Piece(w.from + Year + 1, w.to)}]
    BY <1>2 DEF SplitYear
  <2>2. lists[r] \in List
    BY <1>2 DEF TypeOK, SplitYear, Reading
  <2>3. w \in DateRange
    BY <2>2 DEF First, List
  <2>4. {Piece(w.from, w.from + Year), Piece(w.from + Year + 1, w.to)} \subseteq DateRange
    BY <2>1, <2>3, YearsCover
  <2>5. lists' \in [Reader -> List \cup {NoList}]
    BY <2>1, <2>2, <2>4 DEF TypeOK, List
  <2> QED
    BY <1>2, <2>5 DEF TypeOK, SplitYear
<1>3. ASSUME NEW r \in Reader, Request(r) PROVE TypeOK'
  <2>0. PICK w \in First(r) :
          /\ w.to - w.from <= Year
          /\ \E got \in Answers(w) :
                lists' =
                  IF TooMany(w, got)
                  THEN [lists EXCEPT ![r].todo = (@ \ {w}) \cup Halves(w)]
                  ELSE [lists EXCEPT
                          ![r].todo  = @ \ {w},
                          ![r].rows  = Kept(@, got),
                          ![r].short = IF Cardinality(Within(w)) > Cap
                                       THEN @ \cup {w.from} ELSE @]
    BY <1>3 DEF Request
  <2>1. PICK got \in Answers(w) :
          lists' =
            IF TooMany(w, got)
            THEN [lists EXCEPT ![r].todo = (@ \ {w}) \cup Halves(w)]
            ELSE [lists EXCEPT
                    ![r].todo  = @ \ {w},
                    ![r].rows  = Kept(@, got),
                    ![r].short = IF Cardinality(Within(w)) > Cap
                                 THEN @ \cup {w.from} ELSE @]
    BY <2>0
  <2>2. lists[r] \in List
    BY <1>3 DEF TypeOK, Request, Reading
  <2>3. w \in DateRange
    BY <2>2 DEF First, List
  <2>4. CASE TooMany(w, got)
    <3>1. Halves(w) \subseteq DateRange
      BY <2>3, <2>4, HalvesCover DEF TooMany
    <3>2. lists' \in [Reader -> List \cup {NoList}]
      BY <2>1, <2>2, <2>4, <3>1 DEF TypeOK, List
    <3> QED
      BY <1>3, <3>2 DEF TypeOK, Request
  <2>5. CASE ~ TooMany(w, got)
    <3>1. Kept(lists[r].rows, got) \in Ledger
      BY <2>2 DEF Kept, TypeOK, Ledger, List
    <3>2. w.from \in Day
      BY <2>3 DEF DateRange
    <3>3. lists' \in [Reader -> List \cup {NoList}]
      BY <2>1, <2>2, <2>5, <3>1, <3>2 DEF TypeOK, List
    <3> QED
      BY <1>3, <3>3 DEF TypeOK, Request
  <2> QED
    BY <2>4, <2>5
<1>4. ASSUME NEW r \in Reader, Store(r) PROVE TypeOK'
  <2>1. lists[r] \in List
    BY <1>4 DEF TypeOK, Store, Reading
  <2> QED
    BY <1>4, <2>1 DEF TypeOK, Store, List, Stored
<1>5. ASSUME NEW r \in Reader, GiveUp(r) PROVE TypeOK'
  BY <1>5 DEF TypeOK, GiveUp
<1>6. ASSUME NEW w \in Windows, Expire(w) PROVE TypeOK'
  BY <1>6 DEF TypeOK, Expire, Stored, NotStored, NoRows, Ledger
<1>7. ASSUME NEW kind \in {"create", "update", "delete"}, NEW e \in Entry,
             NEW d \in Day \cup {NoDay}, Start(kind, e, d)
      PROVE  TypeOK'
  BY <1>7 DEF TypeOK, Start, Write
<1>8. ASSUME NEW e \in Entry, Touch(e)
      PROVE  lists' \in [Reader -> List \cup {NoList}]
  BY <1>8 DEF TypeOK, Touch, Reading, List
<1>9. CASE Apply
  <2>1. write \in Write
    BY <1>9 DEF Apply, TypeOK
  <2>2. ledger' \in Ledger
    BY <1>9, <2>1 DEF Apply, TypeOK, Write, Ledger
  <2>3. write' \in Write
    BY <1>9, <2>1 DEF Apply, Write
  <2>4. lists' \in [Reader -> List \cup {NoList}]
    BY <1>8, <1>9, <2>1 DEF Apply, Write
  <2> QED
    BY <1>9, <2>2, <2>3, <2>4 DEF Apply, TypeOK
<1>10. CASE Refuse
  BY <1>10 DEF Refuse, TypeOK
<1>11. ASSUME NEW ws, Drop(ws) PROVE stored' \in [Windows -> Stored]
  BY <1>11 DEF Drop, TypeOK, Stored, NotStored, NoRows, Ledger
<1>12. CASE Succeed
  BY <1>11, <1>12 DEF Succeed, TypeOK
<1>13. Spoil \in [Windows -> Stored]
  BY DEF Spoil, TypeOK, Stored
<1>14. CASE Lost
  BY <1>13, <1>14 DEF Lost, TypeOK
<1>15. CASE DeleteError
  <2>1. write \in Write
    BY <1>15 DEF DeleteError, TypeOK
  <2>2. write' \in Write
    BY <1>15, <2>1 DEF DeleteError, Write
  <2> QED
    BY <1>15, <2>2 DEF DeleteError, TypeOK
<1>16. CASE Verify
  <2>1. stored' \in [Windows -> Stored]
    BY <1>11, <1>16 DEF Verify, TypeOK
  <2> QED
    BY <1>16, <2>1 DEF Verify, TypeOK
<1>17. ASSUME NEW e \in Entry, NEW d \in Day \cup {NoDay}, External(e, d) PROVE TypeOK'
  <2>1. ledger' \in Ledger
    BY <1>17 DEF External, TypeOK, Ledger
  <2>2. lists' \in [Reader -> List \cup {NoList}]
    BY <1>8, <1>17 DEF External
  <2> QED
    BY <1>13, <1>17, <2>1, <2>2 DEF External, TypeOK
<1>18. CASE UNCHANGED vars
  BY <1>18 DEF TypeOK, vars
<1>19. ASSUME NEW d \in Day, create_entry(d) PROVE TypeOK'
  BY <1>7, <1>19 DEF create_entry, TypeOK
<1>20. ASSUME NEW e \in Entry, NEW d \in Day, update_entry(e, d) PROVE TypeOK'
  BY <1>7, <1>20 DEF update_entry
<1>21. ASSUME NEW e \in Entry, delete_entry(e) PROVE TypeOK'
  BY <1>7, <1>21 DEF delete_entry, TypeOK, Ledger
<1> QED
  BY <1>1, <1>2, <1>3, <1>4, <1>5, <1>6, <1>9, <1>10, <1>12, <1>14, <1>15, <1>16,
     <1>17, <1>18, <1>19, <1>20, <1>21 DEF Next

\* Every variable keeps its type: dates stay within the calendar, and a range
\* that is asked for never runs backwards, however often a range is halved.
THEOREM ReadsTypeCorrect == Spec => []TypeOK
<1>1. Init => TypeOK
  BY InitType
<1>2. TypeOK /\ [Next]_vars => TypeOK'
  BY TypeStep
<1> QED
  BY <1>1, <1>2, PTL DEF Spec
-------------------------------------------------------------------------------
(* Lists *)

\* An entry keeps what is known of it while neither it nor the list changes.
LEMMA GatheredFrame ==
    ASSUME NEW r \in Reader, NEW e \in Entry, Gathered(r, e),
           ledger'[e] = ledger[e],
           lists'[r].rows[e] = lists[r].rows[e],
           lists'[r].window = lists[r].window,
           lists'[r].todo = lists[r].todo,
           lists'[r].short = lists[r].short
    PROVE  Gathered(r, e)'
BY DEF Gathered

\* A write to the ledger leaves what is known of the entries it does not touch.
LEMMA GatherTouch ==
    ASSUME TypeOK, GatherInv, NEW x \in Entry, NEW d,
           Touch(x), ledger' = [ledger EXCEPT ![x] = d]
    PROVE  GatherInv'
<1> SUFFICES ASSUME NEW r \in Reader, Reading(r)'
             PROVE  /\ TodoInside(r)'
                    /\ \A e \in Entry \ lists'[r].touched : Gathered(r, e)'
  BY DEF GatherInv
<1>1. Reading(r) /\ lists'[r] = [lists[r] EXCEPT !.touched = @ \cup {x}]
  BY DEF Touch, Reading
<1>2. lists[r] \in List
  BY <1>1 DEF TypeOK, Reading
<1>3. /\ lists'[r].window = lists[r].window
      /\ lists'[r].todo = lists[r].todo
      /\ lists'[r].rows = lists[r].rows
      /\ lists'[r].short = lists[r].short
      /\ lists'[r].touched = lists[r].touched \cup {x}
  BY <1>1, <1>2 DEF List
<1>4. TodoInside(r)'
  BY <1>1, <1>3 DEF GatherInv, TodoInside
<1>5. ASSUME NEW e \in Entry \ lists'[r].touched
      PROVE  Gathered(r, e)'
  <2>1. e \in Entry \ lists[r].touched /\ e # x
    BY <1>3, <1>5
  <2>2. ledger'[e] = ledger[e]
    BY <2>1 DEF TypeOK, Ledger
  <2> QED
    BY <1>1, <1>3, <2>1, <2>2, GatheredFrame DEF GatherInv
<1> QED
  BY <1>4, <1>5

LEMMA GatherSame ==
    ASSUME GatherInv, UNCHANGED <<ledger, lists>>
    PROVE  GatherInv'
BY DEF GatherInv, Gathered, TodoInside, Reading

Replaces(r, p, ps) == lists' = [lists EXCEPT ![r].todo = (@ \ {p}) \cup ps]

\* Nothing is lost when range p is replaced by ranges ps which have all its days.
LEMMA GatherReplace ==
    ASSUME TypeOK, GatherInv, NEW r \in Reader, Reading(r), ledger' = ledger,
           NEW p \in lists[r].todo, NEW ps \in SUBSET DateRange,
           \A q \in ps : p.from <= q.from /\ q.to <= p.to,
           \A d \in Int : In(p, d) => \E q \in ps : In(q, d),
           Replaces(r, p, ps)
    PROVE  GatherInv'
<1> USE DEF Replaces
<1> SUFFICES ASSUME NEW s \in Reader, Reading(s)'
             PROVE  /\ TodoInside(s)'
                    /\ \A e \in Entry \ lists'[s].touched : Gathered(s, e)'
  BY DEF GatherInv
<1>1. lists[r] \in List /\ p \in DateRange
  BY DEF TypeOK, Reading, List
<1>2. CASE s # r
  <2>1. lists'[s] = lists[s]
    BY <1>2 DEF TypeOK
  <2> QED
    BY <2>1 DEF GatherInv, Reading, TodoInside, Gathered
<1>3. CASE s = r
  <2>1. /\ lists'[r].window = lists[r].window
        /\ lists'[r].todo = (lists[r].todo \ {p}) \cup ps
        /\ lists'[r].rows = lists[r].rows
        /\ lists'[r].short = lists[r].short
        /\ lists'[r].touched = lists[r].touched
    BY <1>1 DEF TypeOK, List
  <2>2. lists[r].window \in DateRange /\ TodoInside(r)
    BY <1>1, Constants DEF List, GatherInv
  <2>3. TodoInside(r)'
    <3> SUFFICES ASSUME NEW q \in lists'[r].todo
                 PROVE  lists[r].window.from <= q.from /\ q.to <= lists[r].window.to
      BY <2>1 DEF TodoInside
    <3>1. CASE q \in lists[r].todo
      BY <2>2, <3>1 DEF TodoInside
    <3>2. CASE q \in ps
      <4>1. q \in DateRange /\ lists[r].window.from <= p.from /\ p.to <= lists[r].window.to
        BY <2>2, <3>2 DEF TodoInside
      <4>2. p.from <= q.from /\ q.to <= p.to
        BY <3>2
      <4> QED
        BY <1>1, <2>2, <4>1, <4>2, Constants DEF DateRange, Day
    <3> QED
      BY <2>1, <3>1, <3>2
  <2>4. ASSUME NEW e \in Entry \ lists'[r].touched
        PROVE  Gathered(r, e)'
    <3>1. Gathered(r, e)
      BY <2>1, <2>4 DEF GatherInv
    <3>2. ledger[e] \in Int
      BY Constants DEF TypeOK, Ledger, Day, NoDay
    <3>3. (\E q \in lists[r].todo : In(q, ledger[e]))
          => \E q \in lists'[r].todo : In(q, ledger[e])
      BY <2>1, <3>2
    <3> QED
      BY <2>1, <3>1, <3>3 DEF Gathered
  <2> QED
    BY <1>3, <2>3, <2>4
<1> QED
  BY <1>2, <1>3

\* The rows of a range that fit the answer, or of a day, become known.
LEMMA GatherRows ==
    ASSUME TypeOK, GatherInv, NEW r \in Reader, Reading(r), ledger' = ledger,
           NEW p \in lists[r].todo, NEW got \in Answers(p), ~ TooMany(p, got),
           lists' = [lists EXCEPT
                       ![r].todo  = @ \ {p},
                       ![r].rows  = Kept(@, got),
                       ![r].short = IF Cardinality(Within(p)) > Cap
                                    THEN @ \cup {p.from} ELSE @]
    PROVE  GatherInv'
<1> SUFFICES ASSUME NEW s \in Reader, Reading(s)'
             PROVE  /\ TodoInside(s)'
                    /\ \A e \in Entry \ lists'[s].touched : Gathered(s, e)'
  BY DEF GatherInv
<1>1. lists[r] \in List /\ p \in DateRange
  BY DEF TypeOK, Reading, List
<1>2. CASE s # r
  <2>1. lists'[s] = lists[s]
    BY <1>2 DEF TypeOK
  <2> QED
    BY <2>1 DEF GatherInv, Reading, TodoInside, Gathered
<1>3. CASE s = r
  <2>1. /\ lists'[r].window = lists[r].window
        /\ lists'[r].todo = lists[r].todo \ {p}
        /\ lists'[r].rows = Kept(lists[r].rows, got)
        /\ lists'[r].touched = lists[r].touched
    BY <1>1 DEF TypeOK, List
  <2>5. /\ lists[r].short \subseteq lists'[r].short
        /\ Cardinality(Within(p)) > Cap => p.from \in lists'[r].short
    <3>1. lists'[r].short = IF Cardinality(Within(p)) > Cap
                            THEN lists[r].short \cup {p.from} ELSE lists[r].short
      BY <1>1 DEF TypeOK, List
    <3>2. CASE Cardinality(Within(p)) > Cap
      <4>1. lists'[r].short = lists[r].short \cup {p.from}
        BY <3>1, <3>2, Zenon
      <4> QED
        BY <4>1, Zenon
    <3>3. CASE ~ (Cardinality(Within(p)) > Cap)
      BY <3>1, <3>3
    <3> QED
      BY <3>2, <3>3
  <2>2. lists[r].window \in DateRange /\ TodoInside(r)
    BY <1>1, Constants DEF List, GatherInv
  <2>3. TodoInside(r)'
    BY <2>1, <2>2 DEF TodoInside
  <2>4. ASSUME NEW e \in Entry \ lists'[r].touched
        PROVE  Gathered(r, e)'
    <3>1. Gathered(r, e)
      BY <2>1, <2>4 DEF GatherInv
    <3>2. ledger[e] \in Int
      BY Constants DEF TypeOK, Ledger, Day, NoDay
    <3>3. lists'[r].rows[e] = IF lists[r].rows[e] = NoDay /\ e \in got
                              THEN ledger[e] ELSE lists[r].rows[e]
      BY <2>1 DEF Kept
    <3>4. e \in got => In(p, ledger[e])
      BY DEF Answers, Within
    <3>5. In(p, ledger[e]) => In(lists[r].window, ledger[e])
      BY <1>1, <2>2, <3>2, Constants DEF TodoInside, In, DateRange, Day
    <3>6. CASE In(p, ledger[e]) /\ e \notin got
      <4>1. Cardinality(Within(p)) > Cap /\ Cardinality(got) = Cap
        <5>1. got # Within(p)
          BY <3>6 DEF Within
        <5>2. ~ (Cardinality(Within(p)) <= Cap) /\ Cardinality(got) = Cap
          BY <5>1 DEF Answers
        <5> QED
          BY <5>2, DayCount, Constants
      <4>2. p.from = p.to
        BY <4>1, Constants DEF TooMany
      <4>3. ledger[e] = p.from
        BY <1>1, <3>2, <3>6, <4>2, Constants DEF In, DateRange, Day
      <4>4. ledger[e] \in lists'[r].short
        BY <2>5, <4>1, <4>3
      <4> QED
        BY <2>1, <3>1, <3>3, <3>6, <4>4 DEF Gathered
    <3>7. CASE e \in got
      BY <2>1, <3>1, <3>3, <3>4, <3>5, <3>7 DEF Gathered
    <3>8. CASE ~ In(p, ledger[e])
      <4>1. e \notin got
        BY <3>4, <3>8
      <4>2. (\E q \in lists[r].todo : In(q, ledger[e]))
            => \E q \in lists'[r].todo : In(q, ledger[e])
        BY <2>1, <3>8
      <4> QED
        BY <2>1, <2>5, <3>1, <3>3, <4>1, <4>2 DEF Gathered
    <3> QED
      BY <3>6, <3>7, <3>8
  <2> QED
    BY <1>3, <2>3, <2>4
<1> QED
  BY <1>2, <1>3
LEMMA InitGather == Init => GatherInv
BY DEF Init, GatherInv, Reading

LEMMA GatherStep == TypeOK /\ GatherInv /\ [Next]_vars => GatherInv'
<1> SUFFICES ASSUME TypeOK, GatherInv, [Next]_vars PROVE GatherInv'
  OBVIOUS
<1> USE Constants
<1>1. ASSUME NEW r \in Reader, NEW w \in Windows, Ask(r, w) PROVE GatherInv'
  <2> SUFFICES ASSUME NEW s \in Reader, Reading(s)'
               PROVE  /\ TodoInside(s)'
                      /\ \A e \in Entry \ lists'[s].touched : Gathered(s, e)'
    BY DEF GatherInv
  <2>1. CASE s # r
    BY <1>1, <2>1 DEF TypeOK, Ask, GatherInv, Reading, TodoInside, Gathered
  <2>2. CASE s = r
    <3>1. lists'[r] = [window |-> w, todo |-> {w}, rows |-> NoRows,
                       touched |-> {}, short |-> {}]
      BY <1>1 DEF TypeOK, Ask
    <3>2. TodoInside(r)'
      BY <3>1 DEF TodoInside, DateRange, Day
    <3>3. ASSUME NEW e \in Entry PROVE Gathered(r, e)'
      BY <1>1, <3>1 DEF Ask, Gathered, NoRows
    <3> QED
      BY <2>2, <3>2, <3>3
  <2> QED
    BY <2>1, <2>2
<1>2. ASSUME NEW r \in Reader, SplitYear(r) PROVE GatherInv'
  <2>1. PICK w \in First(r) :
          /\ w.to - w.from > Year
          /\ lists' = [lists EXCEPT ![r].todo =
                          (@ \ {w}) \cup {Piece(w.from, w.from + Year),
                                          Piece(w.from + Year + 1, w.to)}]
    BY <1>2 DEF SplitYear
  <2> DEFINE a == Piece(w.from, w.from + Year)
             b == Piece(w.from + Year + 1, w.to)
  <2>2. Reading(r) /\ ledger' = ledger /\ w \in lists[r].todo
    BY <1>2 DEF SplitYear, First
  <2>3. w \in DateRange
    BY <2>2 DEF TypeOK, Reading, List
  <2>4. /\ a \in DateRange /\ b \in DateRange
        /\ w.from <= a.from /\ a.to <= w.to
        /\ w.from <= b.from /\ b.to <= w.to
        /\ \A d \in Int : In(w, d) => In(a, d) \/ In(b, d)
    BY <2>1, <2>3, YearsCover
  <2>5. Replaces(r, w, {a, b})
    BY <2>1 DEF Replaces
  <2> HIDE DEF a, b
  <2>6. /\ {a, b} \in SUBSET DateRange
        /\ \A q \in {a, b} : w.from <= q.from /\ q.to <= w.to
        /\ \A d \in Int : In(w, d) => \E q \in {a, b} : In(q, d)
    BY <2>4
  <2> QED
    BY <2>2, <2>5, <2>6, GatherReplace
<1>3. ASSUME NEW r \in Reader, Request(r) PROVE GatherInv'
  <2>0. PICK w \in First(r) :
          /\ w.to - w.from <= Year
          /\ \E got \in Answers(w) :
                lists' =
                  IF TooMany(w, got)
                  THEN [lists EXCEPT ![r].todo = (@ \ {w}) \cup Halves(w)]
                  ELSE [lists EXCEPT
                          ![r].todo  = @ \ {w},
                          ![r].rows  = Kept(@, got),
                          ![r].short = IF Cardinality(Within(w)) > Cap
                                       THEN @ \cup {w.from} ELSE @]
    BY <1>3 DEF Request
  <2>1. PICK got \in Answers(w) :
          lists' =
            IF TooMany(w, got)
            THEN [lists EXCEPT ![r].todo = (@ \ {w}) \cup Halves(w)]
            ELSE [lists EXCEPT
                    ![r].todo  = @ \ {w},
                    ![r].rows  = Kept(@, got),
                    ![r].short = IF Cardinality(Within(w)) > Cap
                                 THEN @ \cup {w.from} ELSE @]
    BY <2>0
  <2>2. Reading(r) /\ ledger' = ledger /\ w \in lists[r].todo
    BY <1>3 DEF Request, First
  <2>3. w \in DateRange
    BY <2>2 DEF TypeOK, Reading, List
  <2>4. CASE TooMany(w, got)
    <3>1. Replaces(r, w, Halves(w))
      BY <2>1, <2>4 DEF Replaces
    <3>2. /\ Halves(w) \in SUBSET DateRange
          /\ \A q \in Halves(w) : w.from <= q.from /\ q.to <= w.to
          /\ \A d \in Int : In(w, d) => \E q \in Halves(w) : In(q, d)
      BY <2>3, <2>4, HalvesCover DEF TooMany
    <3> QED
      BY <2>2, <3>1, <3>2, GatherReplace
  <2>5. CASE ~ TooMany(w, got)
    <3>1. lists' = [lists EXCEPT
                      ![r].todo  = @ \ {w},
                      ![r].rows  = Kept(@, got),
                      ![r].short = IF Cardinality(Within(w)) > Cap
                                   THEN @ \cup {w.from} ELSE @]
      BY <2>1, <2>5
    <3> QED
      BY <2>2, <2>5, <3>1, GatherRows
  <2> QED
    BY <2>4, <2>5
<1>4. ASSUME NEW r \in Reader, Store(r) \/ GiveUp(r) PROVE GatherInv'
  <2>1. ledger' = ledger /\ lists' = [lists EXCEPT ![r] = NoList]
    BY <1>4 DEF Store, GiveUp
  <2> SUFFICES ASSUME NEW s \in Reader, Reading(s)'
               PROVE  /\ TodoInside(s)'
                      /\ \A e \in Entry \ lists'[s].touched : Gathered(s, e)'
    BY DEF GatherInv
  <2>2. lists'[s] = lists[s]
    BY <2>1 DEF TypeOK, Reading
  <2> QED
    BY <2>1, <2>2 DEF GatherInv, Reading, TodoInside, Gathered
<1>5. CASE UNCHANGED <<ledger, lists>>
  BY <1>5, GatherSame
<1>6. ASSUME NEW w \in Windows, Expire(w) PROVE UNCHANGED <<ledger, lists>>
  BY <1>6 DEF Expire
<1>7. ASSUME NEW d \in Day, create_entry(d) PROVE UNCHANGED <<ledger, lists>>
  BY <1>7 DEF create_entry, Start
<1>8. ASSUME NEW e \in Entry, NEW d \in Day, update_entry(e, d)
      PROVE  UNCHANGED <<ledger, lists>>
  BY <1>8 DEF update_entry, Start
<1>9. ASSUME NEW e \in Entry, delete_entry(e) PROVE UNCHANGED <<ledger, lists>>
  BY <1>9 DEF delete_entry, Start
<1>10. CASE Refuse \/ Succeed \/ Lost \/ DeleteError \/ Verify \/ UNCHANGED vars
  BY <1>5, <1>10 DEF Refuse, Succeed, Lost, DeleteError, Verify, vars
<1>11. CASE Apply
  <2>1. write.entry \in Entry
    BY <1>11 DEF Apply, TypeOK, Write
  <2> QED
    BY <1>11, <2>1, GatherTouch DEF Apply
<1>12. ASSUME NEW e \in Entry, NEW d \in Day \cup {NoDay}, External(e, d)
       PROVE  GatherInv'
  BY <1>12, GatherTouch DEF External
<1> QED
  BY <1>1, <1>2, <1>3, <1>4, <1>5, <1>6, <1>7, <1>8, <1>9, <1>10, <1>11, <1>12
     DEF Next

LEMMA FinishedList == TypeOK /\ GatherInv => ListsComplete
<1> SUFFICES ASSUME TypeOK, GatherInv, NEW r \in Reader, Reading(r), lists[r].todo = {},
                    NEW e \in Entry \ lists[r].touched, ledger[e] \notin lists[r].short
             PROVE  lists[r].rows[e] = Actual(lists[r].window)[e]
  BY DEF ListsComplete
<1>1. Gathered(r, e)
  BY DEF GatherInv
<1> QED
  BY <1>1 DEF Gathered, Actual

\* However the server cuts its answers short, and whatever changes meanwhile, a
\* list with nothing left to ask for has the entries of its window, but for those
\* that changed while it was gathered and those of days that are too full.
THEOREM ReadsLists == Spec => []ListsComplete
<1>1. Init => TypeOK /\ GatherInv
  BY InitType, InitGather
<1>2. (TypeOK /\ GatherInv) /\ [Next]_vars => (TypeOK /\ GatherInv)'
  BY TypeStep, GatherStep
<1>3. TypeOK /\ GatherInv => ListsComplete
  BY FinishedList
<1> QED
  BY <1>1, <1>2, <1>3, PTL DEF Spec
-------------------------------------------------------------------------------
(* Stored windows *)

LEMMA InitStored == Init => WriteFits /\ StoredInv
BY DEF Init, WriteFits, StoredInv, NotStored

LEMMA WriteStep ==
    ASSUME "oldrow" \notin May, TypeOK, WriteFits, [Next]_vars
    PROVE  WriteFits'
<1> USE Constants
<1>1. ASSUME UNCHANGED <<ledger, unused, write>> PROVE WriteFits'
  BY <1>1 DEF WriteFits
<1>2. ASSUME NEW r \in Reader, SplitYear(r) \/ Request(r) \/ Store(r) \/ GiveUp(r)
      PROVE  UNCHANGED <<ledger, unused, write>>
  BY <1>2 DEF SplitYear, Request, Store, GiveUp
<1>11. ASSUME NEW r \in Reader, NEW w \in Windows, Ask(r, w)
       PROVE  UNCHANGED <<ledger, unused, write>>
  BY <1>11 DEF Ask
<1>12. CASE UNCHANGED vars
  BY <1>1, <1>12 DEF vars
<1>13. ASSUME NEW w \in Windows, Expire(w) PROVE UNCHANGED <<ledger, unused, write>>
  BY <1>13 DEF Expire
<1>3. CASE write' = NoWrite /\ UNCHANGED <<ledger, unused>>
  BY <1>3 DEF WriteFits
<1>4. CASE Refuse \/ Succeed \/ Lost \/ Verify
  BY <1>3, <1>4 DEF Refuse, Succeed, Lost, Verify
<1>5. ASSUME NEW d \in Day, create_entry(d) PROVE WriteFits'
  BY <1>5 DEF create_entry, Start, WriteFits, Day, NoDay
<1>6. ASSUME NEW e \in Entry, NEW d \in Day, update_entry(e, d) PROVE WriteFits'
  BY <1>6 DEF update_entry, Start, WriteFits
<1>7. ASSUME NEW e \in Entry, delete_entry(e) PROVE WriteFits'
  BY <1>7 DEF delete_entry, Start, WriteFits
<1>8. CASE DeleteError
  <2>1. write \in Write
    BY <1>8 DEF DeleteError, TypeOK
  <2>2. /\ write'.unsure /\ write'.applied = write.applied /\ write'.kind = write.kind
        /\ write'.entry = write.entry /\ write'.day = write.day
    BY <1>8, <2>1 DEF DeleteError, Write
  <2> QED
    BY <1>8, <2>1, <2>2 DEF DeleteError, WriteFits
<1>9. CASE Apply
  <2>1. write \in Write
    BY <1>9 DEF Apply, TypeOK
  <2>2. /\ write'.unsure = write.unsure /\ write'.applied /\ write'.kind = write.kind
        /\ write'.entry = write.entry /\ write'.day = write.day
    BY <1>9, <2>1 DEF Apply, Write
  <2>3. \A e \in unused' : ledger'[e] = NoDay
    BY <1>9 DEF Apply, WriteFits, TypeOK, Ledger
  <2>4. write.kind = "delete" => ledger'[write.entry] = NoDay
    BY <1>9, <2>1 DEF Apply, TypeOK, Ledger, Write
  <2> QED
    BY <1>9, <2>1, <2>2, <2>3, <2>4 DEF Apply, WriteFits
<1>10. ASSUME NEW e \in Entry, NEW d \in Day \cup {NoDay}, External(e, d) PROVE WriteFits'
  <2>1. \A x \in unused' : ledger'[x] = NoDay
    BY <1>10 DEF External, WriteFits, TypeOK, Ledger
  <2>2. write # NoWrite => write \in Write /\ ledger'[write.entry] = ledger[write.entry]
    BY <1>10 DEF External, TypeOK, Ledger, Write
  <2> QED
    BY <1>10, <2>1, <2>2 DEF External, WriteFits
<1> QED
  BY <1>1, <1>2, <1>4, <1>5, <1>6, <1>7, <1>8, <1>9, <1>10, <1>11, <1>12, <1>13
     DEF Next

\* A write that starts or turns unsure leaves the stored windows as good as they were.
LEMMA StoredSame ==
    ASSUME TypeOK, StoredInv, UNCHANGED <<ledger, stored>>,
           write # NoWrite /\ write.applied =>
               /\ write' # NoWrite /\ write'.applied /\ write'.entry = write.entry
               /\ write'.kind = write.kind /\ write'.day = write.day
    PROVE  StoredInv'
BY DEF StoredInv, RowCurrent, WillDrop, Actual

\* When nothing is applied that waits for its answer, dropping is sound.
LEMMA StoredDrop ==
    ASSUME TypeOK, StoredInv, NEW ws, Drop(ws), ledger' = ledger,
           write # NoWrite /\ write.applied => WillDrop \subseteq ws
    PROVE  StoredInv'
<1> SUFFICES ASSUME NEW w \in Windows, stored'[w].kept, ~ stored'[w].spoiled,
                    NEW e \in Entry
             PROVE  stored'[w].rows[e] = Actual(w)'[e]
  BY DEF StoredInv, RowCurrent
<1>1. w \notin ws /\ stored'[w] = stored[w]
  BY DEF Drop, NotStored
<1>2. RowCurrent(w, e)
  BY <1>1 DEF StoredInv
<1> QED
  BY <1>1, <1>2 DEF RowCurrent, Actual

LEMMA StoredSpoilt ==
    ASSUME TypeOK, stored' = Spoil PROVE StoredInv'
BY DEF StoredInv, Spoil, TypeOK, Stored

LEMMA StoredStep ==
    ASSUME "oldrow" \notin May, TypeOK, GatherInv, WriteFits, StoredInv, [Next]_vars
    PROVE  StoredInv'
<1> USE Constants
<1>1. CASE UNCHANGED <<ledger, stored, write>>
  BY <1>1, StoredSame
<1>15. ASSUME NEW r \in Reader, SplitYear(r) \/ Request(r) \/ GiveUp(r)
       PROVE  UNCHANGED <<ledger, stored, write>>
  BY <1>15 DEF SplitYear, Request, GiveUp
<1>16. ASSUME NEW r \in Reader, NEW w \in Windows, Ask(r, w)
       PROVE  UNCHANGED <<ledger, stored, write>>
  BY <1>16 DEF Ask
<1>17. CASE UNCHANGED vars
  BY <1>1, <1>17 DEF vars
<1>2. ASSUME NEW r \in Reader, Store(r) PROVE StoredInv'
  <2>1. Reading(r) /\ lists[r].todo = {} /\ UNCHANGED <<ledger, write>>
    BY <1>2 DEF Store
  <2>2. lists[r] \in List
    BY <2>1 DEF TypeOK, Reading
  <2> SUFFICES ASSUME NEW w \in Windows, stored'[w].kept, ~ stored'[w].spoiled,
                      NEW e \in Entry
               PROVE  RowCurrent(w, e)'
    BY DEF StoredInv
  <2>3. CASE w # lists[r].window
    <3>1. stored'[w] = stored[w]
      BY <1>2, <2>3 DEF Store, TypeOK
    <3>2. RowCurrent(w, e)
      BY <3>1 DEF StoredInv
    <3> QED
      BY <2>1, <3>1, <3>2 DEF RowCurrent, WillDrop, Actual
  <2>4. CASE w = lists[r].window
    <3>1. stored'[w] = [kept |-> TRUE, rows |-> lists[r].rows,
                        spoiled |-> lists[r].touched # {} \/ lists[r].short # {}]
      BY <1>2, <2>4 DEF Store, TypeOK
    <3>2. lists[r].touched = {} /\ lists[r].short = {}
      <4>1. stored'[w].spoiled = (lists[r].touched # {} \/ lists[r].short # {})
        BY <3>1
      <4> QED
        BY <4>1, Zenon
    <3>3. lists[r].rows[e] = Actual(w)[e]
      BY <2>1, <2>4, <3>2, FinishedList DEF ListsComplete
    <3> QED
      BY <2>1, <3>1, <3>3 DEF RowCurrent, Actual
  <2> QED
    BY <2>3, <2>4
<1>3. ASSUME NEW w \in Windows, Expire(w) PROVE StoredInv'
  <2>1. stored' = [stored EXCEPT ![w] = NotStored] /\ UNCHANGED <<ledger, write>>
    BY <1>3 DEF Expire
  <2> SUFFICES ASSUME NEW v \in Windows, stored'[v].kept, ~ stored'[v].spoiled,
                      NEW e \in Entry
               PROVE  RowCurrent(v, e)'
    BY DEF StoredInv
  <2>2. v # w /\ stored'[v] = stored[v]
    BY <2>1 DEF TypeOK, NotStored
  <2>3. RowCurrent(v, e)
    BY <2>2 DEF StoredInv
  <2> QED
    BY <2>1, <2>2, <2>3 DEF RowCurrent, WillDrop, Actual
<1>4. ASSUME NEW kind, NEW e \in Entry, NEW d, Start(kind, e, d) PROVE StoredInv'
  BY <1>4, StoredSame DEF Start
<1>5. ASSUME NEW d \in Day, create_entry(d) PROVE StoredInv'
  BY <1>4, <1>5 DEF create_entry, TypeOK
<1>6. ASSUME NEW e \in Entry, NEW d \in Day, update_entry(e, d) PROVE StoredInv'
  BY <1>4, <1>6 DEF update_entry
<1>7. ASSUME NEW e \in Entry, delete_entry(e) PROVE StoredInv'
  BY <1>4, <1>7 DEF delete_entry
<1>8. CASE Apply
  <2>1. write \in Write /\ write # NoWrite /\ ~ write.applied
    BY <1>8 DEF Apply, TypeOK
  <2>2. /\ write' # NoWrite /\ write'.applied /\ write'.kind = write.kind
        /\ write'.entry = write.entry /\ write'.day = write.day
    BY <1>8, <2>1 DEF Apply, Write, NoWrite
  <2> SUFFICES ASSUME NEW w \in Windows, stored[w].kept, ~ stored[w].spoiled,
                      NEW e \in Entry
               PROVE  RowCurrent(w, e)'
    BY <1>8 DEF StoredInv, Apply
  <2>3. stored[w].rows[e] = Actual(w)[e] /\ stored' = stored
    BY <1>8, <2>1 DEF StoredInv, RowCurrent, Apply
  <2>4. CASE e # write.entry
    <3>1. ledger'[e] = ledger[e]
      BY <1>8, <2>4 DEF Apply, TypeOK, Ledger
    <3> QED
      BY <2>3, <3>1 DEF RowCurrent, Actual
  <2>5. CASE e = write.entry
    <3>1. CASE w \in WillDrop
      BY <2>2, <2>5, <3>1 DEF RowCurrent, WillDrop
    <3>2. CASE w \notin WillDrop
      <4>1. write.kind # "update" /\ write.day # NoDay /\ ~ In(w, write.day)
        BY <3>2 DEF WillDrop, Dropped
      <4>2. ledger'[e] = IF write.kind = "delete" THEN NoDay ELSE write.day
        BY <1>8, <2>5 DEF Apply, TypeOK, Ledger
      <4>3. ~ In(w, ledger[e]) \/ ledger[e] = NoDay
        BY <1>8, <2>1, <2>5, <4>1 DEF Apply, WriteFits, Write
      <4>4. ~ In(w, ledger'[e]) \/ ledger'[e] = NoDay
        BY <4>1, <4>2
      <4>5. Actual(w)[e] = NoDay /\ Actual(w)'[e] = NoDay
        BY <4>3, <4>4 DEF Actual
      <4> QED
        BY <2>3, <4>5 DEF RowCurrent
    <3> QED
      BY <3>1, <3>2
  <2> QED
    BY <2>4, <2>5
<1>9. CASE Refuse
  BY <1>9, StoredSame DEF Refuse
<1>10. CASE Succeed
  <2>1. Drop(WillDrop) /\ ledger' = ledger
    BY <1>10 DEF Succeed, WillDrop
  <2> QED
    BY <2>1, StoredDrop
<1>11. CASE Lost
  BY <1>11, StoredSpoilt DEF Lost
<1>12. CASE DeleteError
  <2>1. write \in Write /\ write # NoWrite
    BY <1>12 DEF DeleteError, TypeOK
  <2>2. /\ write' # NoWrite /\ write'.applied = write.applied /\ write'.kind = write.kind
        /\ write'.entry = write.entry /\ write'.day = write.day
    BY <1>12, <2>1 DEF DeleteError, Write, NoWrite
  <2> QED
    BY <1>12, <2>2, StoredSame DEF DeleteError
<1>13. CASE Verify
  <2>1. write.kind = "delete" /\ write.day # NoDay /\ ledger' = ledger
    BY <1>13 DEF Verify, WriteFits
  <2>2. PICK got \in Answers(Piece(write.day, write.day)) :
          IF EntryAbsent(got) THEN Drop(Dropped(write.day)) ELSE UNCHANGED stored
    BY <1>13 DEF Verify
  <2>3. CASE EntryAbsent(got)
    <3>1. Drop(WillDrop)
      BY <2>1, <2>2, <2>3 DEF WillDrop
    <3> QED
      BY <2>1, <3>1, StoredDrop
  <2>4. CASE ~ EntryAbsent(got)
    <3>1. write.entry \in Within(Piece(write.day, write.day))
      BY <2>4 DEF EntryAbsent, Answers
    <3>2. ledger[write.entry] # NoDay
      BY <1>13, <2>1, <3>1 DEF Verify, Within, In, Piece, TypeOK, Write, Day, NoDay
    <3>3. ~ write.applied
      BY <1>13, <2>1, <3>2 DEF WriteFits, Verify
    <3> QED
      BY <1>13, <2>1, <2>2, <2>4, <3>3, StoredSame
  <2> QED
    BY <2>3, <2>4
<1>14. ASSUME NEW e \in Entry, NEW d \in Day \cup {NoDay}, External(e, d) PROVE StoredInv'
  BY <1>14, StoredSpoilt DEF External
<1> QED
  BY <1>1, <1>2, <1>3, <1>5, <1>6, <1>7, <1>8, <1>9, <1>10, <1>11, <1>12, <1>13, <1>14,
     <1>15, <1>16, <1>17 DEF Next

LEMMA CurrentWindows == TypeOK /\ StoredInv => StoredIsCurrent
<1> SUFFICES ASSUME TypeOK, StoredInv, write = NoWrite, NEW w \in Windows,
                    stored[w].kept, ~ stored[w].spoiled
             PROVE  stored[w].rows = Actual(w)
  BY DEF StoredIsCurrent
<1>1. \A e \in Entry : stored[w].rows[e] = Actual(w)[e]
  BY DEF StoredInv, RowCurrent
<1>2. stored[w].rows \in [Entry -> Day \cup {NoDay}] /\ Actual(w) \in [Entry -> Day \cup {NoDay}]
  BY DEF TypeOK, Stored, Ledger, Actual, NoDay
<1> QED
  BY <1>1, <1>2

\* As long as deletes are told the date their entry has, dropping the windows of
\* that date is enough: what stays stored is what the ledger would answer.
THEOREM ReadsStored ==
    ASSUME "oldrow" \notin May
    PROVE  Spec => []StoredIsCurrent
<1> DEFINE I == TypeOK /\ GatherInv /\ WriteFits /\ StoredInv
<1>1. Init => I
  BY InitType, InitGather, InitStored
<1>2. I /\ [Next]_vars => I'
  BY TypeStep, GatherStep, WriteStep, StoredStep
<1>3. I => StoredIsCurrent
  BY CurrentWindows
<1> QED
  BY <1>1, <1>2, <1>3, PTL DEF Spec

DeleteStep ==
    (/\ write # NoWrite
     /\ write.kind = "delete"
     /\ write' = NoWrite
     /\ stored' # stored
     /\ Cardinality(Within(Piece(write.day, write.day))) <= Cap)
    => ledger[write.entry] = NoDay

LEMMA DeleteIsConfirmed ==
    ASSUME TypeOK, WriteFits, [Next]_vars, "oldrow" \notin May
    PROVE  DeleteStep
<1> SUFFICES ASSUME write # NoWrite, write.kind = "delete", write' = NoWrite,
                    stored' # stored,
                    Cardinality(Within(Piece(write.day, write.day))) <= Cap
             PROVE  ledger[write.entry] = NoDay
  BY DEF DeleteStep
<1>1. write \in Write
  BY DEF TypeOK
<1>2. Succeed \/ Lost \/ Verify
  BY DEF Next, Ask, SplitYear, Request, Store, GiveUp, Expire, create_entry, update_entry,
         delete_entry, Start, Apply, Refuse, DeleteError, External, vars
<1>3. CASE write.applied
  BY <1>3 DEF WriteFits
<1>4. CASE ~ write.applied
  <2>1. Verify
    BY <1>2, <1>4 DEF Succeed, Lost
  <2>2. PICK got \in Answers(Piece(write.day, write.day)) : EntryAbsent(got)
    BY <2>1 DEF Verify
  <2>3. write.entry \notin Within(Piece(write.day, write.day))
    BY <2>2 DEF Answers, EntryAbsent
  <2>4. write.day # NoDay /\ write.day \in Day
    BY <1>1, <2>1 DEF Verify, WriteFits, Write
  <2>5. ledger[write.entry] # write.day
    BY <1>1, <2>3, <2>4, Constants DEF Within, In, Piece, Write, Day
  <2>6. write.day \in {NoDay, ledger[write.entry]}
    BY <1>4 DEF WriteFits
  <2> QED
    BY <2>4, <2>5, <2>6
<1> QED
  BY <1>3, <1>4

\* A delete that was told the date its entry has, and that the official tool answers
\* with an error, is reported as done only when the entry is gone, unless an answer
\* cannot hold all entries of that day.
THEOREM ReadsDeletes ==
    ASSUME "oldrow" \notin May
    PROVE  Spec => DeleteConfirmed
<1> DEFINE I == TypeOK /\ WriteFits
<1>1. Init => I
  BY InitType, InitStored
<1>2. I /\ [Next]_vars => I'
  BY TypeStep, WriteStep
<1>3. I /\ [Next]_vars => [DeleteStep]_vars
  BY DeleteIsConfirmed
<1> QED
  BY <1>1, <1>2, <1>3, PTL DEF Spec, DeleteConfirmed, DeleteStep
===============================================================================
