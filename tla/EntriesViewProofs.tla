-------------------------- MODULE EntriesViewProofs --------------------------
(***************************************************************************)
(* Proofs about EntriesView: types, what the table shows without a filter, *)
(* and what a filter shows that was extended to the end.                   *)
(***************************************************************************)
EXTENDS EntriesView, TLAPS

-------------------------------------------------------------------------------
(* The inductive invariant *)

\* What was listed is the ledger, but for what changed since.
TableInv ==
    \A e \in Entry \ touched :
        /\ Home[e] = loaded
        /\ Age[e] = 0 \/ \E f \in Has(all) : Age[e] <= Age[f]
        => all[e] = ledger[e]

\* A worker that may still draw has a filter, or something went wrong, or a
\* refresh will draw after it.
DrawsInv == Overtake /\ filter = NoFilter /\ ~ refresh => hit # {}

Alike(rows, v) == \A e \in Entry : rows[e] # None => rows[e] \in Like[v]

\* Every match of the ages w has searched is among the rows.
Found(rows, w) ==
    loaded = w.section =>
        \A e \in Entry \ touched :
            Home[e] = loaded /\ Age[e] <= w.oldest /\ ledger[e] \in Like[w.value] =>
                rows[e] # None

\* The steps below n are searched, but for one day, unless a list failed.
Searched(w, n) == ~ w.failed => \A i \in 1..n : Steps[i] <= w.oldest + 1

BegunInv ==
    expand.state = "begun" /\ filter = expand.value =>
        shown = Combine(Matching(all, expand.value), extra)

AskedInv ==
    expand.state = "asked" =>
        /\ Alike(expand.combined, expand.value)
        /\ \A e \in Entry : extra[e] # None => expand.combined[e] # None
        /\ \A f \in Has(all) : Age[f] <= expand.oldest
        /\ Found(expand.combined, expand)
        /\ Reaches(expand.next, expand.oldest)
        /\ Searched(expand, expand.next - 1)
        /\ filter = expand.value => shown = expand.combined

EndedInv ==
    expand.state = "ended" =>
        /\ Searched(expand, Len(Steps))
        /\ filter = expand.value => Alike(shown, expand.value) /\ Found(shown, expand)

\* What a worker of the current epoch knows.
WorkerInv ==
    expand.state # "none" /\ expand.current =>
        Alike(extra, expand.value) /\ BegunInv /\ AskedInv /\ EndedInv

ViewInv == TypeOK /\ TableInv /\ DrawsInv /\ ShownIsAllElse /\ WorkerInv

-------------------------------------------------------------------------------
(* Lemmas about rows and the loop of the worker *)

LEMMA CombineTyped ==
    ASSUME NEW first \in Rows, NEW second \in Rows
    PROVE  Combine(first, second) \in Rows
BY DEF Rows, Combine

LEMMA MatchingTyped ==
    ASSUME NEW rows \in Rows, NEW v \in Value
    PROVE  Matching(rows, v) \in Rows
BY DEF Rows, Matching

LEMMA NoRowsTyped == NoRows \in Rows
BY DEF NoRows, Rows

LEMMA ListedTyped ==
    ASSUME ledger \in Rows, NEW s, NEW from, NEW to
    PROVE  Listed(s, from, to) \in Rows
BY DEF Listed, Rows

LEMMA CacheExtrasTyped ==
    ASSUME mirror \in Rows, NEW v \in Value
    PROVE  CacheExtras(v) \in Rows /\ Alike(CacheExtras(v), v)
BY DEF CacheExtras, Rows, Alike

LEMMA MatchingAlike ==
    ASSUME NEW rows \in Rows, NEW v \in Value
    PROVE  Alike(Matching(rows, v), v)
BY DEF Matching, Alike

LEMMA CombineAlike ==
    ASSUME NEW first \in Rows, NEW second \in Rows, NEW v,
           Alike(first, v), Alike(second, v)
    PROVE  Alike(Combine(first, second), v)
BY DEF Combine, Alike

\* On to a step with the steps before it skipped, or to the end.
LEMMA AdvanceEffect ==
    ASSUME NEW w \in Expand, NEW from \in 1..(Len(Steps) + 1), Advance(w, from)
    PROVE  /\ expand' \in Expand
           /\ expand'.value = w.value /\ expand'.current = w.current
           /\ expand'.section = w.section /\ expand'.oldest = w.oldest
           /\ expand'.failed = w.failed
           /\ \/ /\ expand'.state = "asked" /\ expand'.next \in from..Len(Steps)
                 /\ expand'.combined = w.combined
                 /\ Reaches(expand'.next, w.oldest)
                 /\ \A j \in from..(expand'.next - 1) : ~ Reaches(j, w.oldest)
              \/ /\ expand'.state = "ended"
                 /\ \A j \in from..Len(Steps) : ~ Reaches(j, w.oldest)
<1>1. Len(Steps) \in Nat
  BY ViewAssumption
<1>2. ASSUME NEW i \in from..Len(Steps),
             expand' = [w EXCEPT !.state = "asked", !.next = i],
             Reaches(i, w.oldest),
             \A j \in from..(i - 1) : ~ Reaches(j, w.oldest)
      PROVE  /\ expand' \in Expand /\ expand'.next = i /\ expand'.state = "asked"
             /\ expand'.value = w.value /\ expand'.current = w.current
             /\ expand'.section = w.section /\ expand'.oldest = w.oldest
             /\ expand'.failed = w.failed /\ expand'.combined = w.combined
  <2>1. i \in Nat
    BY <1>1
  <2>2. expand' \in Expand
    BY <1>2, <2>1 DEF Expand
  <2> QED BY <1>2, <2>1 DEF Expand
<1>3. ASSUME expand' = [w EXCEPT !.state = "ended", !.next = 0, !.combined = NoRows]
      PROVE  /\ expand' \in Expand /\ expand'.state = "ended"
             /\ expand'.value = w.value /\ expand'.current = w.current
             /\ expand'.section = w.section /\ expand'.oldest = w.oldest
             /\ expand'.failed = w.failed
  BY <1>3, NoRowsTyped DEF Expand
<1> QED BY <1>2, <1>3 DEF Advance

LEMMA WorkerTyped ==
    ASSUME TypeOK, expand.state # "none"
    PROVE  expand \in Expand
<1>1. NoExpand.state = "none"
  BY DEF NoExpand
<1> QED BY <1>1 DEF TypeOK

\* What an answer adds to the rows.
Fresh == [e \in Entry |-> IF all[e] = None /\ extra[e] = None
                          THEN Matching(Asked, expand.value)[e] ELSE None]

LEMMA FreshTyped ==
    ASSUME TypeOK, expand.state # "none"
    PROVE  /\ Fresh \in Rows /\ Asked \in Rows
           /\ Alike(Fresh, expand.value)
<1>1. Asked \in Rows
  BY ListedTyped DEF Asked, TypeOK
<1>2. Matching(Asked, expand.value) \in Rows
  BY <1>1, WorkerTyped, MatchingTyped DEF Expand
<1>3. Alike(Matching(Asked, expand.value), expand.value)
  BY <1>1, WorkerTyped, MatchingAlike DEF Expand
<1> QED BY <1>1, <1>2, <1>3 DEF Fresh, Rows, Alike

-------------------------------------------------------------------------------
(* Types *)

LEMMA StepTyped ==
    ASSUME TypeOK, Next
    PROVE  TypeOK'
<1> USE ViewAssumption, NoRowsTyped
<1>1. CASE refresh_entries \/ action_refresh \/ RefreshFails
  BY <1>1 DEF refresh_entries, action_refresh, RefreshFails, TypeOK, server, table
<1>2. CASE RefreshApply
  <2>1. Bumped \in Expand \cup {NoExpand} /\ (Bumped.state = "asked" => Bumped.next \in 1..Len(Steps))
    BY DEF Bumped, TypeOK, Expand, NoExpand
  <2>2. all' \in Rows /\ mirror' \in Rows
    BY <1>2, CombineTyped, ListedTyped DEF RefreshApply, TypeOK
  <2> QED BY <1>2, <2>1, <2>2 DEF RefreshApply, TypeOK
<1>3. ASSUME NEW w \in Windows, ResizeWindow(w) PROVE TypeOK'
  BY <1>3 DEF ResizeWindow, TypeOK, server, table
<1>4. ASSUME NEW s \in Section, action_open_sections(s) PROVE TypeOK'
  BY <1>4 DEF action_open_sections, TypeOK, server, table
<1>5. ASSUME NEW e \in Entry, _apply_filter(e) PROVE TypeOK'
  <2> DEFINE v == shown[e]
             x == [state |-> "begun", value |-> v, current |-> TRUE, section |-> section,
                   next |-> 0, oldest |-> 0, combined |-> NoRows, failed |-> FALSE]
  <2>1. v \in Value
    BY <1>5 DEF _apply_filter, Has, TypeOK, Rows
  <2>2. extra' \in Rows /\ shown' \in Rows
    BY <1>5, <2>1, CacheExtrasTyped, MatchingTyped, CombineTyped DEF _apply_filter, TypeOK
  <2>3. x \in Expand
    BY <2>1 DEF Expand, TypeOK
  <2>4. expand' = x /\ expand'.state = "begun" /\ filter' = v
    BY <1>5 DEF _apply_filter
  <2> HIDE DEF v, x
  <2> QED BY <1>5, <2>1, <2>2, <2>3, <2>4 DEF _apply_filter, TypeOK, server
<1>6. CASE _apply_tag_filter
  BY <1>6 DEF _apply_tag_filter, MarkEscaped, TypeOK, Rows, server
<1>7. CASE action_clear_filter
  <2>1. Bumped \in Expand \cup {NoExpand} /\ (Bumped.state = "asked" => Bumped.next \in 1..Len(Steps))
    BY DEF Bumped, TypeOK, Expand, NoExpand
  <2> QED BY <1>7, <2>1 DEF action_clear_filter, TypeOK, server
<1>8. CASE action_deactivate_column
  BY <1>8 DEF action_deactivate_column, MarkEscaped, TypeOK, server
<1>9. CASE Begin
  <2>1. CASE ~ expand.current
    BY <1>9, <2>1 DEF Begin, TypeOK, NoExpand, server, table
  <2>2. ASSUME expand.current, NEW age \in Ages,
               Advance([expand EXCEPT !.section = section, !.oldest = age,
                           !.combined = Combine(Matching(all, expand.value), extra)], 1)
        PROVE  TypeOK'
    <3> DEFINE w == [expand EXCEPT !.section = section, !.oldest = age,
                        !.combined = Combine(Matching(all, expand.value), extra)]
    <3>1. expand \in Expand
      BY <1>9, WorkerTyped DEF Begin
    <3>2. age \in Nat
      BY DEF Ages
    <3>3. Combine(Matching(all, expand.value), extra) \in Rows
      BY <3>1, MatchingTyped, CombineTyped DEF TypeOK, Expand
    <3>4. w \in Expand
      BY <3>1, <3>2, <3>3 DEF Expand, TypeOK
    <3>5. 1 \in 1..(Len(Steps) + 1)
      OBVIOUS
    <3> HIDE DEF w
    <3>6. expand' \in Expand /\ (expand'.state = "asked" => expand'.next \in 1..Len(Steps))
      BY <2>2, <3>4, <3>5, AdvanceEffect DEF w
    <3> QED BY <1>9, <3>6 DEF Begin, TypeOK, server, table
  <2> QED BY <1>9, <2>1, <2>2 DEF Begin
<1>10. CASE Answer
  <2>1. CASE ~ expand.current
    BY <1>10, <2>1 DEF Answer, TypeOK, NoExpand, server, table
  <2>2. CASE expand.current
    <3> DEFINE w == [expand EXCEPT !.combined = Combine(expand.combined, Fresh),
                        !.oldest = Steps[expand.next]]
    <3>1. expand \in Expand /\ expand.next \in 1..Len(Steps)
      BY <1>10, WorkerTyped DEF Answer, TypeOK
    <3>2. Steps[expand.next] \in Nat /\ Combine(expand.combined, Fresh) \in Rows
      BY <1>10, <3>1, FreshTyped, CombineTyped DEF Answer, Expand
    <3>3. w \in Expand
      BY <3>1, <3>2 DEF Expand
    <3>4. Advance(w, expand.next + 1)
      BY <1>10, <2>2 DEF Answer, Fresh
    <3>5. expand.next + 1 \in 1..(Len(Steps) + 1)
      BY <3>1
    <3> HIDE DEF w
    <3>6. expand' \in Expand /\ (expand'.state = "asked" => expand'.next \in 1..Len(Steps))
      BY <3>1, <3>3, <3>4, <3>5, AdvanceEffect
    <3>7. mirror' \in Rows /\ extra' \in Rows /\ shown' \in Rows
      BY <1>10, <2>2, <3>2, FreshTyped, CombineTyped DEF Answer, Fresh, TypeOK
    <3> QED BY <1>10, <2>2, <3>6, <3>7 DEF Answer, TypeOK, server
  <2> QED BY <2>1, <2>2, <1>10 DEF Answer, TypeOK, Expand
<1>11. CASE AnswerFails
  <2>1. CASE ~ expand.current
    BY <1>11, <2>1 DEF AnswerFails, TypeOK, NoExpand, server, table
  <2>2. CASE expand.current
    <3> DEFINE w == [expand EXCEPT !.failed = TRUE]
    <3>1. expand \in Expand /\ expand.next \in 1..Len(Steps)
      BY <1>11, WorkerTyped DEF AnswerFails, TypeOK
    <3>2. w \in Expand
      BY <3>1 DEF Expand
    <3>3. Advance(w, expand.next + 1)
      BY <1>11, <2>2 DEF AnswerFails
    <3>4. expand.next + 1 \in 1..(Len(Steps) + 1)
      BY <3>1
    <3> HIDE DEF w
    <3>5. expand' \in Expand /\ (expand'.state = "asked" => expand'.next \in 1..Len(Steps))
      BY <3>1, <3>2, <3>3, <3>4, AdvanceEffect
    <3> QED BY <1>11, <2>2, <3>5 DEF AnswerFails, TypeOK, server, table
  <2> QED BY <2>1, <2>2
<1>12. ASSUME NEW e \in Entry, NEW v \in Value \cup {None}, Change(e, v) PROVE TypeOK'
  BY <1>12 DEF Change, TypeOK, Rows, table
<1> QED BY <1>1, <1>2, <1>3, <1>4, <1>5, <1>6, <1>7, <1>8, <1>9, <1>10, <1>11, <1>12 DEF Next

-------------------------------------------------------------------------------
(* The table *)

LEMMA TableStep ==
    ASSUME TypeOK, TableInv, Next
    PROVE  TableInv'
<1> USE ViewAssumption
<1>1. CASE RefreshApply
  <2> SUFFICES ASSUME NEW e \in Entry, Home[e] = section,
                      Age[e] = 0 \/ \E f \in Has(all') : Age[e] <= Age[f]
               PROVE  all'[e] = ledger[e]
    BY <1>1 DEF RefreshApply, TableInv, Has
  <2>1. all' = Listed(section, 0, window) /\ window \in Nat
    BY <1>1 DEF RefreshApply, TypeOK
  <2>2. \A f \in Has(all') : Age[f] <= window
    BY <2>1 DEF Has, Listed
  <2>3. Age[e] \in 0..window
    BY <2>1, <2>2 DEF Has
  <2> QED BY <2>1, <2>3 DEF Listed
<1>2. ASSUME NEW e \in Entry, NEW v \in Value \cup {None}, Change(e, v) PROVE TableInv'
  BY <1>2 DEF Change, TableInv, TypeOK, Rows, table, Has
<1>3. CASE UNCHANGED <<ledger, all, loaded, touched>>
  BY <1>3 DEF TableInv, Has
<1>4. UNCHANGED <<ledger, all, loaded, touched>> \/ RefreshApply
          \/ \E e \in Entry, v \in Value \cup {None} : Change(e, v)
  BY DEF Next, refresh_entries, action_refresh, RefreshFails, ResizeWindow, action_open_sections,
         _apply_filter, _apply_tag_filter, action_clear_filter, action_deactivate_column,
         Begin, Answer, AnswerFails, server, table
<1> QED BY <1>1, <1>2, <1>3, <1>4

\* Without a filter: each action draws all rows, is followed by a refresh, or is
\* one of those the property excepts.
LEMMA ShownStep ==
    ASSUME TypeOK, DrawsInv, ShownIsAllElse, Next
    PROVE  DrawsInv' /\ ShownIsAllElse'
<1> USE ViewAssumption DEF DrawsInv, ShownIsAllElse, ShownIsAll, Overtake, Waits
<1>1. CASE refresh_entries \/ action_refresh \/ RefreshFails
  BY <1>1 DEF refresh_entries, action_refresh, RefreshFails, table
<1>2. CASE RefreshApply
  <2>1. ~ Overtake'
    BY <1>2 DEF RefreshApply, Bumped, TypeOK, Expand, NoExpand
  <2> QED BY <1>2, <2>1 DEF RefreshApply
<1>3. ASSUME NEW w \in Windows, ResizeWindow(w) PROVE DrawsInv' /\ ShownIsAllElse'
  BY <1>3 DEF ResizeWindow, table
<1>4. ASSUME NEW s \in Section, action_open_sections(s) PROVE DrawsInv' /\ ShownIsAllElse'
  BY <1>4 DEF action_open_sections, table
<1>5. ASSUME NEW e \in Entry, _apply_filter(e) PROVE DrawsInv' /\ ShownIsAllElse'
  BY <1>5 DEF _apply_filter, Has, TypeOK, Rows
<1>6. CASE _apply_tag_filter
  BY <1>6 DEF _apply_tag_filter
<1>7. CASE action_clear_filter
  <2>1. ~ Overtake'
    BY <1>7 DEF action_clear_filter, Bumped, TypeOK, Expand, NoExpand
  <2> QED BY <1>7, <2>1 DEF action_clear_filter
<1>8. CASE action_deactivate_column
  BY <1>8 DEF action_deactivate_column, MarkEscaped
<1>9. CASE Begin \/ Answer \/ AnswerFails
  <2>1. expand.state \in {"begun", "asked"}
    BY <1>9 DEF Begin, Answer, AnswerFails
  <2>2. CASE expand.current
    <3>1. ~ (filter = NoFilter /\ ~ refresh /\ hit = {})
      BY <2>1, <2>2
    <3> QED BY <1>9, <3>1 DEF Begin, Answer, AnswerFails
  <2>3. CASE ~ expand.current
    <3>1. expand' = NoExpand /\ UNCHANGED <<table, filter, refresh, hit>>
      BY <1>9, <2>3 DEF Begin, Answer, AnswerFails
    <3>2. ~ Waits'
      BY <3>1 DEF NoExpand
    <3> QED BY <3>1, <3>2 DEF table
  <2> QED BY <2>2, <2>3
<1>10. ASSUME NEW e \in Entry, NEW v \in Value \cup {None}, Change(e, v)
       PROVE  DrawsInv' /\ ShownIsAllElse'
  BY <1>10 DEF Change, table
<1> QED BY <1>1, <1>2, <1>3, <1>4, <1>5, <1>6, <1>7, <1>8, <1>9, <1>10 DEF Next

-------------------------------------------------------------------------------
(* The worker *)

\* What a step leaves alone, the worker still knows.
LEMMA WorkerKeeps ==
    ASSUME WorkerInv, UNCHANGED <<table, expand, filter, ledger, loaded, touched>>
    PROVE  WorkerInv'
BY DEF WorkerInv, table, Alike, BegunInv, AskedInv, EndedInv, Found, Searched, Matching, Combine, Has

LEMMA WorkerOther ==
    ASSUME TypeOK, WorkerInv, filter' \notin Value,
           UNCHANGED <<all, extra, expand, ledger, loaded, touched>>
    PROVE  WorkerInv'
<1>1. expand.state # "none" => expand.value \in Value
  BY WorkerTyped DEF Expand
<1> QED BY <1>1 DEF WorkerInv, Alike, BegunInv, AskedInv, EndedInv, Found, Searched, Has

LEMMA WorkerBegun ==
    ASSUME TypeOK, NEW e \in Entry, _apply_filter(e)
    PROVE  WorkerInv'
<1>1. shown[e] \in Value
  BY DEF _apply_filter, Has, TypeOK, Rows
<1>2. Alike(CacheExtras(shown[e]), shown[e])
  BY <1>1, CacheExtrasTyped DEF TypeOK
<1>3. /\ expand'.state = "begun" /\ expand'.value = shown[e]
      /\ extra' = CacheExtras(shown[e]) /\ all' = all
      /\ shown' = Combine(Matching(all, shown[e]), CacheExtras(shown[e]))
  BY DEF _apply_filter
<1>4. Alike(extra', expand'.value)
  BY <1>2, <1>3
<1>5. shown' = Combine(Matching(all', expand'.value), extra')
  BY <1>3
<1> QED BY <1>2, <1>3, <1>4 DEF WorkerInv, Alike, BegunInv, AskedInv, EndedInv, Combine, Matching

\* A change is not held against the worker: the entry is touched.
LEMMA WorkerChange ==
    ASSUME TypeOK, WorkerInv, NEW e \in Entry, NEW v \in Value \cup {None}, Change(e, v)
    PROVE  WorkerInv'
<1>1. /\ UNCHANGED <<table, expand, filter, loaded>>
      /\ touched' = touched \cup {e}
      /\ \A f \in Entry \ touched' : ledger'[f] = ledger[f]
  BY DEF Change, TypeOK, Rows
<1>2. Found(expand.combined, expand) => Found(expand.combined, expand)'
  BY <1>1 DEF Found
<1>3. Found(shown, expand) => Found(shown, expand)'
  BY <1>1 DEF Found, table
<1>4. expand' = expand /\ all' = all /\ extra' = extra /\ shown' = shown /\ filter' = filter
  BY <1>1 DEF table
<1> QED BY <1>2, <1>3, <1>4 DEF WorkerInv, Alike, BegunInv, AskedInv, EndedInv, Searched, Has

\* The worker begins with the matches of the table and the mirror, and has searched
\* to the oldest row.
LEMMA WorkerBegins ==
    ASSUME TypeOK, TableInv, WorkerInv, Begin, expand.current
    PROVE  WorkerInv'
<1> USE ViewAssumption
<1> DEFINE rows == Combine(Matching(all, expand.value), extra)
<1>1. PICK age \in Ages :
          /\ Oldest(age)
          /\ Advance([expand EXCEPT !.section = section, !.oldest = age, !.combined = rows], 1)
  BY DEF Begin
<1> DEFINE w == [expand EXCEPT !.section = section, !.oldest = age, !.combined = rows]
<1>2. expand \in Expand /\ expand.state = "begun"
  BY WorkerTyped DEF Begin
<1>3. age \in Nat /\ rows \in Rows
  BY <1>2, MatchingTyped, CombineTyped DEF TypeOK, Expand, Ages
<1>4. /\ w \in Expand /\ w.value = expand.value /\ w.oldest = age /\ w.combined = rows
      /\ w.section = section /\ w.current
  BY <1>2, <1>3 DEF Expand, TypeOK
<1>5. UNCHANGED <<all, shown, extra, filter, ledger, loaded, touched>>
  BY DEF Begin, table, server
<1>6. Alike(extra, expand.value) /\ (filter = expand.value => shown = rows)
  BY <1>2 DEF WorkerInv, BegunInv
<1>7. Alike(rows, expand.value)
  BY <1>2, <1>6, MatchingAlike, MatchingTyped, CombineAlike DEF TypeOK, Expand
<1>8. \A f \in Has(all) : Age[f] <= age
  BY <1>1 DEF Oldest
<1>9. ASSUME NEW e \in Entry \ touched, Home[e] = loaded, Age[e] <= age,
             ledger[e] \in Like[expand.value]
      PROVE  rows[e] # None
  <2>1. ledger[e] # None
    BY <1>2, <1>9 DEF Expand
  <2>2. Age[e] = 0 \/ \E f \in Has(all) : Age[e] <= Age[f]
    BY <1>1, <1>3, <1>9 DEF Oldest
  <2>3. all[e] = ledger[e]
    BY <1>9, <2>2 DEF TableInv
  <2> QED BY <1>9, <2>1, <2>3 DEF Combine, Matching
<1>10. \A e \in Entry : extra[e] # None => rows[e] # None
  BY DEF Combine
<1> HIDE DEF w, rows
<1>11. Advance(w, 1) /\ 1 \in 1..(Len(Steps) + 1)
  BY <1>1 DEF w
<1>12. /\ expand'.value = expand.value /\ expand'.section = section /\ expand'.oldest = age
  BY <1>4, <1>11, AdvanceEffect
<1>13. Alike(extra, expand.value)'
  BY <1>5, <1>6, <1>12 DEF Alike
<1>14. loaded = section =>
            \A e \in Entry \ touched :
                Home[e] = loaded /\ Age[e] <= age /\ ledger[e] \in Like[expand.value] =>
                    rows[e] # None
  BY <1>9
<1>15. CASE expand'.state = "asked"
  <2>1. /\ expand'.combined = rows /\ Reaches(expand'.next, age) /\ expand'.next \in 1..Len(Steps)
        /\ \A j \in 1..(expand'.next - 1) : ~ Reaches(j, age)
    BY <1>4, <1>11, <1>15, AdvanceEffect
  <2>2. Searched(expand, expand.next - 1)'
    BY <1>3, <1>12, <2>1 DEF Searched, Reaches
  <2>3. Found(expand.combined, expand)'
    BY <1>5, <1>12, <1>14, <2>1 DEF Found
  <2>4. Alike(expand.combined, expand.value)'
    BY <1>7, <1>12, <2>1 DEF Alike
  <2>5. AskedInv'
    BY <1>5, <1>6, <1>8, <1>10, <1>12, <2>1, <2>2, <2>3, <2>4 DEF AskedInv, Has, Reaches
  <2> QED BY <1>13, <1>15, <2>5 DEF WorkerInv, BegunInv, EndedInv
<1>16. CASE expand'.state = "ended"
  <2>1. \A j \in 1..Len(Steps) : ~ Reaches(j, age)
    BY <1>4, <1>11, <1>16, AdvanceEffect
  <2>2. Searched(expand, Len(Steps))'
    BY <1>3, <1>12, <2>1 DEF Searched, Reaches
  <2>3. filter' = expand'.value => Alike(shown, expand.value)' /\ Found(shown, expand)'
    BY <1>5, <1>6, <1>7, <1>12, <1>14 DEF Alike, Found
  <2> QED BY <1>13, <1>16, <2>2, <2>3 DEF WorkerInv, BegunInv, AskedInv, EndedInv
<1> QED BY <1>4, <1>11, <1>15, <1>16, AdvanceEffect

\* An answer adds the matches of its range; what it passes over is in the rows already.
LEMMA WorkerAnswered ==
    ASSUME TypeOK, WorkerInv, Answer, expand.current
    PROVE  WorkerInv'
<1> USE ViewAssumption
<1> DEFINE rows == Combine(expand.combined, Fresh)
           w == [expand EXCEPT !.combined = rows, !.oldest = Steps[expand.next]]
           reached == Steps[expand.next]
<1>1. expand \in Expand /\ expand.state = "asked" /\ expand.next \in 1..Len(Steps)
  BY WorkerTyped DEF Answer, TypeOK
<1>2. reached \in Nat /\ rows \in Rows /\ Fresh \in Rows
  BY <1>1, FreshTyped, CombineTyped DEF Expand
<1>3. /\ w \in Expand /\ w.value = expand.value /\ w.oldest = reached /\ w.combined = rows
      /\ w.section = expand.section /\ w.failed = expand.failed
  BY <1>1, <1>2 DEF Expand
<1>4. Advance(w, expand.next + 1) /\ expand.next + 1 \in 1..(Len(Steps) + 1)
  BY <1>1 DEF Answer, Fresh
<1>5. /\ UNCHANGED <<all, filter, ledger, loaded, touched>>
      /\ extra' = Combine(extra, Fresh)
      /\ shown' = IF Has(Fresh) = {} THEN shown ELSE rows
  BY DEF Answer, Fresh, server
<1>6. /\ Alike(extra, expand.value) /\ Alike(expand.combined, expand.value)
      /\ \A e \in Entry : extra[e] # None => expand.combined[e] # None
      /\ \A f \in Has(all) : Age[f] <= expand.oldest
      /\ Found(expand.combined, expand)
      /\ Reaches(expand.next, expand.oldest)
      /\ Searched(expand, expand.next - 1)
      /\ filter = expand.value => shown = expand.combined
  BY <1>1 DEF WorkerInv, AskedInv
<1>7. expand.oldest \in Nat /\ reached > expand.oldest + 1
  BY <1>1, <1>6 DEF Reaches, Expand
<1>8. Alike(rows, expand.value) /\ Alike(Combine(extra, Fresh), expand.value)
  BY <1>1, <1>2, <1>6, FreshTyped, CombineAlike DEF TypeOK, Expand
<1>9. \A e \in Entry : Combine(extra, Fresh)[e] # None => rows[e] # None
  BY <1>6 DEF Combine
<1>10. ASSUME NEW f \in Has(all) PROVE Age[f] <= reached
  <2>1. Age[f] \in Nat /\ Age[f] <= expand.oldest
    BY <1>6 DEF Has
  <2> HIDE DEF reached
  <2> QED BY <1>2, <1>7, <2>1
<1>11. ASSUME loaded = expand.section, NEW e \in Entry \ touched, Home[e] = loaded,
              Age[e] <= reached, ledger[e] \in Like[expand.value]
       PROVE  rows[e] # None
  <2>1. CASE Age[e] <= expand.oldest
    BY <1>6, <1>11, <2>1 DEF Found, Combine
  <2>2. CASE extra[e] # None
    BY <1>6, <2>2 DEF Combine
  <2>3. CASE ~ (Age[e] <= expand.oldest) /\ extra[e] = None
    <3>1. all[e] = None
      BY <1>6, <2>3 DEF Has
    <3>2. Age[e] \in (expand.oldest + 1)..reached
      BY <1>7, <1>11, <2>3
    <3>3. Asked[e] = ledger[e]
      BY <1>11, <3>2 DEF Asked, Listed
    <3>4. ledger[e] # None
      BY <1>1, <1>11 DEF Expand
    <3>5. Fresh[e] = ledger[e]
      BY <1>11, <2>3, <3>1, <3>3 DEF Fresh, Matching
    <3> QED BY <3>4, <3>5 DEF Combine
  <2> QED BY <2>1, <2>2, <2>3
<1>12. filter = expand.value => shown' = rows
  <2>1. ASSUME Has(Fresh) = {}, filter = expand.value PROVE shown = rows
    <3>1. \A e \in Entry : Fresh[e] = None
      BY <2>1 DEF Has
    <3>2. rows = expand.combined
      BY <1>1, <3>1 DEF Combine, Expand, Rows
    <3> QED BY <1>6, <2>1, <3>2
  <2> QED BY <1>5, <2>1
<1> HIDE DEF w, rows, reached
<1>13. /\ expand'.value = expand.value /\ expand'.section = expand.section
       /\ expand'.oldest = reached /\ expand'.failed = expand.failed
  BY <1>3, <1>4, AdvanceEffect
<1>14. Alike(extra, expand.value)'
  BY <1>5, <1>8, <1>13 DEF Alike
<1>15. \A i \in 1..(expand.next - 1) : ~ expand.failed => Steps[i] <= reached + 1
  <2>1. ASSUME NEW i \in 1..(expand.next - 1), ~ expand.failed PROVE Steps[i] <= reached + 1
    <3>1. Steps[i] \in Nat /\ Steps[i] <= expand.oldest + 1
      BY <1>1, <1>6, <2>1 DEF Searched
    <3> QED BY <1>2, <1>7, <3>1
  <2> QED BY <2>1
<1>16. Steps[expand.next] <= reached + 1
  BY <1>2 DEF reached
<1>17. CASE expand'.state = "asked"
  <2>1. /\ expand'.combined = rows /\ Reaches(expand'.next, reached)
        /\ expand'.next \in (expand.next + 1)..Len(Steps)
        /\ \A j \in (expand.next + 1)..(expand'.next - 1) : ~ Reaches(j, reached)
    BY <1>3, <1>4, <1>17, AdvanceEffect
  <2>2. Searched(expand, expand.next - 1)'
    <3>1. ASSUME ~ expand.failed, NEW i \in 1..(expand'.next - 1) PROVE Steps[i] <= reached + 1
      <4>1. Steps[i] \in Nat
        BY <1>1, <2>1
      <4>2. CASE i \in (expand.next + 1)..(expand'.next - 1)
        BY <1>2, <2>1, <4>1, <4>2 DEF Reaches
      <4> QED BY <1>1, <1>15, <1>16, <3>1, <4>2
    <3> QED BY <1>13, <3>1 DEF Searched
  <2>3. Found(expand.combined, expand)'
    BY <1>5, <1>11, <1>13, <2>1 DEF Found
  <2>4. Alike(expand.combined, expand.value)'
    BY <1>8, <1>13, <2>1 DEF Alike
  <2>5. AskedInv'
    BY <1>5, <1>9, <1>10, <1>12, <1>13, <2>1, <2>2, <2>3, <2>4 DEF AskedInv, Has, Reaches
  <2> QED BY <1>14, <1>17, <2>5 DEF WorkerInv, BegunInv, EndedInv
<1>18. CASE expand'.state = "ended"
  <2>1. \A j \in (expand.next + 1)..Len(Steps) : ~ Reaches(j, reached)
    BY <1>3, <1>4, <1>18, AdvanceEffect
  <2>2. Searched(expand, Len(Steps))'
    BY <1>1, <1>2, <1>13, <1>15, <1>16, <2>1 DEF Searched, Reaches
  <2>3. filter' = expand'.value => Alike(shown, expand.value)' /\ Found(shown, expand)'
    BY <1>5, <1>8, <1>11, <1>12, <1>13 DEF Alike, Found
  <2> QED BY <1>14, <1>18, <2>2, <2>3 DEF WorkerInv, BegunInv, AskedInv, EndedInv
<1> QED BY <1>3, <1>4, <1>17, <1>18, AdvanceEffect

\* After a list that failed the worker knows what it knew, and that one failed.
LEMMA WorkerFailed ==
    ASSUME TypeOK, WorkerInv, AnswerFails, expand.current
    PROVE  WorkerInv'
<1> USE ViewAssumption
<1> DEFINE w == [expand EXCEPT !.failed = TRUE]
<1>1. expand \in Expand /\ expand.state = "asked" /\ expand.next \in 1..Len(Steps)
  BY WorkerTyped DEF AnswerFails, TypeOK
<1>2. /\ w \in Expand /\ w.value = expand.value /\ w.oldest = expand.oldest
      /\ w.combined = expand.combined /\ w.section = expand.section /\ w.failed
  BY <1>1 DEF Expand
<1>3. Advance(w, expand.next + 1) /\ expand.next + 1 \in 1..(Len(Steps) + 1)
  BY <1>1 DEF AnswerFails
<1>4. UNCHANGED <<all, shown, extra, filter, ledger, loaded, touched>>
  BY DEF AnswerFails, table, server
<1>5. /\ Alike(extra, expand.value) /\ Alike(expand.combined, expand.value)
      /\ \A e \in Entry : extra[e] # None => expand.combined[e] # None
      /\ \A f \in Has(all) : Age[f] <= expand.oldest
      /\ Found(expand.combined, expand)
      /\ filter = expand.value => shown = expand.combined
  BY <1>1 DEF WorkerInv, AskedInv
<1> HIDE DEF w
<1>6. /\ expand'.value = expand.value /\ expand'.section = expand.section
      /\ expand'.oldest = expand.oldest /\ expand'.failed
  BY <1>2, <1>3, AdvanceEffect
<1>7. Alike(extra, expand.value)'
  BY <1>4, <1>5, <1>6 DEF Alike
<1>8. CASE expand'.state = "asked"
  <2>1. expand'.combined = expand.combined /\ Reaches(expand'.next, expand.oldest)
    BY <1>2, <1>3, <1>8, AdvanceEffect
  <2>2. Found(expand.combined, expand)'
    BY <1>4, <1>5, <1>6, <2>1 DEF Found
  <2>3. Alike(expand.combined, expand.value)'
    BY <1>5, <1>6, <2>1 DEF Alike
  <2>4. Searched(expand, expand.next - 1)'
    BY <1>6 DEF Searched
  <2>5. AskedInv'
    BY <1>4, <1>5, <1>6, <2>1, <2>2, <2>3, <2>4 DEF AskedInv, Has, Reaches
  <2> QED BY <1>7, <1>8, <2>5 DEF WorkerInv, BegunInv, EndedInv
<1>9. CASE expand'.state = "ended"
  <2>1. Searched(expand, Len(Steps))'
    BY <1>6 DEF Searched
  <2>2. filter' = expand'.value => Alike(shown, expand.value)' /\ Found(shown, expand)'
    BY <1>4, <1>5, <1>6 DEF Alike, Found
  <2> QED BY <1>7, <1>9, <2>1, <2>2 DEF WorkerInv, BegunInv, AskedInv, EndedInv
<1> QED BY <1>2, <1>3, <1>8, <1>9, AdvanceEffect

LEMMA WorkerStep ==
    ASSUME TypeOK, TableInv, WorkerInv, Next
    PROVE  WorkerInv'
<1>1. CASE refresh_entries \/ RefreshFails
  BY <1>1, WorkerKeeps DEF refresh_entries, RefreshFails, server
<1>2. CASE action_refresh \/ _apply_tag_filter \/ action_deactivate_column
  BY <1>2, WorkerOther, ViewAssumption
     DEF action_refresh, _apply_tag_filter, action_deactivate_column, server, table
<1>3. CASE RefreshApply \/ action_clear_filter
  <2>1. expand' = Bumped
    BY <1>3 DEF RefreshApply, action_clear_filter
  <2>2. ~ (expand'.state # "none" /\ expand'.current)
    BY <2>1 DEF Bumped, TypeOK, Expand, NoExpand
  <2> QED BY <2>2 DEF WorkerInv
<1>4. ASSUME NEW w \in Windows, ResizeWindow(w) PROVE WorkerInv'
  BY <1>4, WorkerKeeps DEF ResizeWindow, server
<1>5. ASSUME NEW s \in Section, action_open_sections(s) PROVE WorkerInv'
  BY <1>5, WorkerKeeps DEF action_open_sections, server
<1>6. ASSUME NEW e \in Entry, _apply_filter(e) PROVE WorkerInv'
  BY <1>6, WorkerBegun
<1>7. CASE Begin \/ Answer \/ AnswerFails
  <2>1. CASE expand.current
    BY <1>7, <2>1, WorkerBegins, WorkerAnswered, WorkerFailed
  <2>2. CASE ~ expand.current
    BY <1>7, <2>2 DEF Begin, Answer, AnswerFails, WorkerInv, NoExpand
  <2> QED BY <2>1, <2>2
<1>8. ASSUME NEW e \in Entry, NEW v \in Value \cup {None}, Change(e, v) PROVE WorkerInv'
  BY <1>8, WorkerChange
<1> QED BY <1>1, <1>2, <1>3, <1>4, <1>5, <1>6, <1>7, <1>8 DEF Next

-------------------------------------------------------------------------------
(* Theorems *)

LEMMA ViewStarts == Init => ViewInv
<1> SUFFICES ASSUME Init PROVE ViewInv
  OBVIOUS
<1>1. TypeOK
  BY ViewAssumption, NoRowsTyped DEF Init, TypeOK, NoExpand
<1>2. TableInv
  BY DEF Init, TableInv
<1>3. ~ Waits /\ expand.state = "none" /\ refresh
  BY DEF Init, NoExpand, Waits
<1> QED BY <1>1, <1>2, <1>3
    DEF ViewInv, DrawsInv, Overtake, ShownIsAllElse, ShownIsAll, WorkerInv

LEMMA ViewStutters ==
    ASSUME ViewInv, UNCHANGED vars
    PROVE  ViewInv'
<1>1. TypeOK'
  BY DEF ViewInv, TypeOK, vars
<1>2. WorkerInv'
  BY WorkerKeeps DEF ViewInv, vars, table
<1> QED BY <1>1, <1>2
    DEF ViewInv, vars, TableInv, DrawsInv, Overtake, Waits, ShownIsAllElse, ShownIsAll, Has

\* The invariant behind the theorems below, under every circumstance.
THEOREM ViewInvariance == Spec => []ViewInv
<1>1. Init => ViewInv
  BY ViewStarts
<1>2. ViewInv /\ [Next]_vars => ViewInv'
  <2>1. ASSUME ViewInv, Next PROVE ViewInv'
    BY <2>1, StepTyped, TableStep, ShownStep, WorkerStep DEF ViewInv
  <2> QED BY <2>1, ViewStutters
<1> QED BY <1>1, <1>2, PTL DEF Spec

\* Variables keep their types; a worker that asked asked for one of its steps.
THEOREM ViewTypeCorrect == Spec => []TypeOK
<1>1. ViewInv => TypeOK
  BY DEF ViewInv
<1> QED BY <1>1, ViewInvariance, PTL

\* Without a filter the table has every row of the window, unless an escape or a
\* hashtag overtook the worker or a refresh failed (action_clear_filter and the epoch).
THEOREM ViewShowsAll == Spec => []ShownIsAllElse
<1>1. ViewInv => ShownIsAllElse
  BY DEF ViewInv
<1> QED BY <1>1, ViewInvariance, PTL

\* A filter that was extended to the end misses no match of the ages it searched,
\* shows matches only, and has searched every step unless a list failed
\* (_expand_filter_in_past).
THEOREM ViewFilterExact == Spec => []FilterExact
<1>1. ViewInv => FilterExact
  BY DEF ViewInv, FilterExact, WorkerInv, EndedInv, Searched, Found, Alike, Has
<1> QED BY <1>1, ViewInvariance, PTL
===============================================================================
