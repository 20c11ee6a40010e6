------------------------- MODULE EntryHistoryProofs -------------------------
(***************************************************************************)
(* Theorems about EntryHistory for every value of its constants.           *)
(*                                                                         *)
(*   1. Lemmas about the operators of RevisionLog: what each transaction   *)
(*      on the history returns, and which part of a well-formed history it *)
(*      preserves.                                                         *)
(*   2. The inductive invariant IInv, whatever circumstances May allows,   *)
(*      and what it says of the history.                                   *)
(*   3. What else holds when the user waits for a worker to end.           *)
(*   4. The history implements EntryLifecycle.                             *)
(*   5. A delete that reached the server is recorded.                      *)
(*   6. One user who waits for each change to settle: the ledger,          *)
(*      entries_cache and the local tables are what the history says.      *)
(***************************************************************************)
EXTENDS EntryHistory, SequenceTheorems, WellFoundedInduction, TLAPS

-------------------------------------------------------------------------------
(* 1. The operators of the history *)

\* The parts of a well-formed history.
HeadsMatch(h)  == \A l \in EntryId : HeadIsLastRow(h, l)
UniqueOwner(h) == \A l, k, e \in EntryId : Owns(h, l, e) /\ Owns(h, k, e) => l = k
BeginsWithId(h) ==
    \A l \in EntryId : h.revs[l] # << >> => h.revs[l][1].whooing_entry_id \in EntryId

WellFormed(h) ==
    /\ h \in History
    /\ HeadsMatch(h)
    /\ UniqueOwner(h)
    /\ BeginsWithId(h)

\* Every id in the history is one of ids.
IdsWithin(h, ids) == \A l, e \in EntryId : Owns(h, l, e) => e \in ids

Row(e, op, v, deleted) ==
    [whooing_entry_id |-> e, op |-> op, snapshot |-> v, is_deleted |-> deleted]

-------------------------------------------------------------------------------

\* The empty tables are a well-formed history.
LEMMA EmptyHistoryWellFormed ==
    WellFormed(EmptyHistory) /\ \A ids : IdsWithin(EmptyHistory, ids)
<1>1. EmptyHistory \in History
  BY EmptySeq DEF EmptyHistory, History, NoHead, HeadRow
<1>2. \A l \in EntryId : EmptyHistory.revs[l] = << >> /\ EmptyHistory.head[l] = NoHead
  BY DEF EmptyHistory
<1>3. \A l, e \in EntryId : ~ Owns(EmptyHistory, l, e)
  BY <1>2 DEF Owns
<1> QED
  BY <1>1, <1>2, <1>3
  DEF WellFormed, HeadsMatch, HeadIsLastRow, UniqueOwner, BeginsWithId, IdsWithin

\* What the rows and heads of a history are.
LEMMA HistoryFields ==
    ASSUME NEW h \in History, NEW l \in EntryId
    PROVE  /\ h.revs[l] \in Seq(RevisionRow)
           /\ Len(h.revs[l]) \in Nat
           /\ DOMAIN h.revs[l] = 1..Len(h.revs[l])
           /\ h.revs[l] # << >> => Len(h.revs[l]) \in DOMAIN h.revs[l]
           /\ \A n \in DOMAIN h.revs[l] :
                 /\ h.revs[l][n] \in RevisionRow
                 /\ h.revs[l][n].whooing_entry_id \in EntryId \cup {NoId}
                 /\ h.revs[l][n].snapshot \in Value
           /\ h.head[l] \in HeadRow
           /\ h.head[l].current_entry_id \in EntryId \cup {NoId}
           /\ h.head[l].is_deleted \in BOOLEAN
<1>1. h.revs[l] \in Seq(RevisionRow) /\ h.head[l] \in HeadRow
  BY DEF History
<1>2. /\ Len(h.revs[l]) \in Nat
      /\ DOMAIN h.revs[l] = 1..Len(h.revs[l])
      /\ \A n \in DOMAIN h.revs[l] : h.revs[l][n] \in RevisionRow
  BY <1>1, LenProperties, ElementOfSeq
<1>3. h.revs[l] # << >> => Len(h.revs[l]) \in DOMAIN h.revs[l]
  BY <1>1, <1>2, EmptySeq
<1> QED
  BY <1>1, <1>2, <1>3 DEF RevisionRow, HeadRow

\* Appending a row to a log: its length, its last row and its earlier rows.
LEMMA AppendRow ==
    ASSUME NEW s \in Seq(RevisionRow), NEW r \in RevisionRow
    PROVE  /\ Append(s, r) \in Seq(RevisionRow)
           /\ Len(s) \in Nat
           /\ Len(Append(s, r)) = Len(s) + 1
           /\ Append(s, r)[Len(s) + 1] = r
           /\ Append(s, r) # << >>
           /\ DOMAIN s = 1..Len(s)
           /\ DOMAIN Append(s, r) = 1..(Len(s) + 1)
           /\ \A n \in DOMAIN s : Append(s, r)[n] = s[n]
<1>1. /\ Append(s, r) \in Seq(RevisionRow)
      /\ Len(s) \in Nat
      /\ Len(Append(s, r)) = Len(s) + 1
      /\ Append(s, r)[Len(s) + 1] = r
      /\ DOMAIN s = 1..Len(s)
      /\ DOMAIN Append(s, r) = 1..(Len(s) + 1)
      /\ \A n \in DOMAIN s : Append(s, r)[n] = s[n]
  OBVIOUS
<1>2. Append(s, r) # << >>
  <2>1. Len(<< >>) = 0
    BY EmptySeq
  <2>2. Len(Append(s, r)) # 0
    BY <1>1
  <2> QED
    BY <2>1, <2>2
<1> QED
  BY <1>1, <1>2

\* The log of l in g is that in h with the row r at its end, and so is its head.
Extends(g, h, l, r) ==
    /\ DOMAIN h.revs[l] = 1..Len(h.revs[l])
    /\ DOMAIN g.revs[l] = 1..(Len(h.revs[l]) + 1)
    /\ Len(h.revs[l]) \in Nat
    /\ Len(g.revs[l]) = Len(h.revs[l]) + 1
    /\ g.revs[l] # << >>
    /\ \A n \in DOMAIN h.revs[l] : g.revs[l][n] = h.revs[l][n]
    /\ g.revs[l][Len(h.revs[l]) + 1] = r
    /\ g.head[l] = [current_entry_id |-> IF r.is_deleted THEN NoId ELSE r.whooing_entry_id,
                    head_revision_no |-> Len(h.revs[l]) + 1,
                    is_deleted       |-> r.is_deleted]

Same(g, h, l) == g.revs[l] = h.revs[l] /\ g.head[l] = h.head[l]

\* A row that may follow the log of l: NULL stands for the trash, and nothing
\* is in the trash without a row before.
Follows(r, h, l) ==
    /\ r \in RevisionRow
    /\ r.is_deleted <=> r.whooing_entry_id = NoId
    /\ r.is_deleted => h.revs[l] # << >>

\* record_revision appends one row to the log of l and sets its head; the other
\* logical entries stay as they are.
LEMMA RecordRevision ==
    ASSUME NEW h \in History, NEW l \in EntryId, NEW e \in EntryId \cup {NoId},
           NEW op \in Op, NEW v \in Value, NEW deleted \in BOOLEAN
    PROVE  LET g == record_revision(h, l, e, op, v, deleted)
           IN  /\ g \in History
               /\ Extends(g, h, l, Row(e, op, v, deleted))
               /\ \A k \in EntryId \ {l} : Same(g, h, k)
<1> DEFINE g == record_revision(h, l, e, op, v, deleted)
           r == Row(e, op, v, deleted)
           hd == [current_entry_id |-> IF deleted THEN NoId ELSE e,
                  head_revision_no |-> Len(h.revs[l]) + 1,
                  is_deleted       |-> deleted]
<1>1. /\ h.revs \in [EntryId -> Seq(RevisionRow)]
      /\ h.head \in [EntryId -> HeadRow]
      /\ h.revs[l] \in Seq(RevisionRow)
  BY HistoryFields DEF History
<1>2. r \in RevisionRow /\ r.is_deleted = deleted /\ r.whooing_entry_id = e
  BY DEF Row, RevisionRow
<1>3. /\ g.revs = [h.revs EXCEPT ![l] = Append(h.revs[l], r)]
      /\ g.head = [h.head EXCEPT ![l] = hd]
      /\ g = [revs |-> g.revs, head |-> g.head]
  BY DEF record_revision, Row
<1>4. hd \in HeadRow
  BY <1>1 DEF HeadRow
<1>5. g \in History
  <2>1. Append(h.revs[l], r) \in Seq(RevisionRow)
    BY <1>1, <1>2, AppendRow
  <2>2. g.revs \in [EntryId -> Seq(RevisionRow)] /\ g.head \in [EntryId -> HeadRow]
    BY <1>1, <1>3, <1>4, <2>1
  <2> QED
    BY <1>3, <2>2 DEF History
<1>6. /\ g.revs[l] = Append(h.revs[l], r)
      /\ g.head[l] = hd
      /\ \A k \in EntryId \ {l} : g.revs[k] = h.revs[k] /\ g.head[k] = h.head[k]
  BY <1>1, <1>3
<1> HIDE DEF g, r
<1> QED
  BY <1>1, <1>2, <1>5, <1>6, AppendRow DEF Extends, Same, g, r

-------------------------------------------------------------------------------
(* Who owns an id *)

\* ORDER BY revision_no DESC LIMIT 1 has an answer when a row matches.
LEMMA LargestExists ==
    ASSUME NEW n \in Nat, NEW S, S \subseteq 1..n, S # {}
    PROVE  \E m \in S : \A k \in S : k <= m
<1> DEFINE T == {d \in Nat : n - d \in S}
<1>1. T \subseteq Nat /\ T # {}
  <2>1. PICK m \in S : TRUE
    OBVIOUS
  <2>2. n - m \in Nat /\ n - (n - m) = m
    BY <2>1
  <2> QED
    BY <2>1, <2>2
<1>2. \E d \in T : \A c \in T : ~ (<<c, d>> \in OpToRel(<, Nat))
  <2> HIDE DEF T
  <2> QED
    BY <1>1, NatLessThanWellFounded, WFMin
<1>3. PICK d \in T : \A c \in T : ~ (c < d)
  BY <1>2 DEF OpToRel
<1>4. ASSUME NEW k \in S PROVE k <= n - d
  <2>1. n - k \in T
    BY <1>4
  <2> QED
    BY <1>3, <1>4, <2>1
<1> QED
  BY <1>3, <1>4

\* A new row adds its id to those of its logical entry, and nothing else.
LEMMA ExtendsOwns ==
    ASSUME NEW g, NEW h, NEW l \in EntryId, NEW r, Extends(g, h, l, r), NEW x
    PROVE  Owns(g, l, x) <=> Owns(h, l, x) \/ x = r.whooing_entry_id
<1> DEFINE n == Len(h.revs[l])
<1>1. /\ n \in Nat
      /\ DOMAIN h.revs[l] = 1..n
      /\ DOMAIN g.revs[l] = 1..(n + 1)
      /\ \A i \in 1..n : g.revs[l][i] = h.revs[l][i]
      /\ g.revs[l][n + 1] = r
  BY DEF Extends
<1> HIDE DEF n
<1>2. \A i \in 1..(n + 1) : i \in 1..n \/ i = n + 1
  BY <1>1
<1>3. n + 1 \in 1..(n + 1) /\ 1..n \subseteq 1..(n + 1)
  BY <1>1
<1>4. ASSUME Owns(g, l, x) PROVE Owns(h, l, x) \/ x = r.whooing_entry_id
  BY <1>1, <1>2, <1>4 DEF Owns
<1>5. ASSUME Owns(h, l, x) \/ x = r.whooing_entry_id PROVE Owns(g, l, x)
  BY <1>1, <1>3, <1>5 DEF Owns
<1> QED
  BY <1>4, <1>5

\* The last row of e in the log of one of its owners.
LEMMA LastMentionIsANumber ==
    ASSUME NEW h \in History, NEW l \in EntryId, NEW e, Owns(h, l, e)
    PROVE  LastMention(h, l, e) \in Nat
<1> DEFINE S == {n \in DOMAIN h.revs[l] : h.revs[l][n].whooing_entry_id = e}
<1>1. Len(h.revs[l]) \in Nat /\ S \subseteq 1..Len(h.revs[l]) /\ S # {}
  BY HistoryFields DEF Owns
<1>2. PICK m \in S : \A k \in S : k <= m
  <2> HIDE DEF S
  <2> QED
    BY <1>1, LargestExists
<1>3. LastMention(h, l, e) \in DOMAIN h.revs[l]
  BY <1>2 DEF LastMention
<1> QED
  BY <1>3, HistoryFields

\* logical_id_for_entry finds the owner of an id when there is one.
LEMMA LogicalId ==
    ASSUME NEW h, WellFormed(h), NEW e \in EntryId
    PROVE  /\ logical_id_for_entry(h, e) \in EntryId \cup {NoId}
           /\ logical_id_for_entry(h, e) = NoId => \A l \in EntryId : ~ Owns(h, l, e)
           /\ logical_id_for_entry(h, e) # NoId => Owns(h, logical_id_for_entry(h, e), e)
<1>1. h \in History
  BY DEF WellFormed
<1>2. ASSUME NEW l \in LiveOwners(h, e) PROVE Owns(h, l, e)
  <2>1. l \in EntryId /\ h.head[l].current_entry_id = e
    BY <1>2 DEF LiveOwners
  <2>2. h.revs[l] # << >> /\ latest_revision(h, l).whooing_entry_id = e
    BY <2>1, NoIdAssumption DEF WellFormed, HeadsMatch, HeadIsLastRow, NoHead
  <2>3. Len(h.revs[l]) \in DOMAIN h.revs[l]
    BY <1>1, <2>1, <2>2, HistoryFields
  <2> QED
    BY <2>2, <2>3 DEF Owns, latest_revision
<1>3. CASE LiveOwners(h, e) # {}
  <2>1. logical_id_for_entry(h, e) \in LiveOwners(h, e)
    BY <1>3 DEF logical_id_for_entry
  <2>2. logical_id_for_entry(h, e) \in EntryId
    BY <2>1 DEF LiveOwners
  <2> QED
    BY <1>2, <2>1, <2>2, NoIdAssumption
<1>4. CASE LiveOwners(h, e) = {} /\ PastOwners(h, e) # {}
  <2>1. PICK l \in PastOwners(h, e) : TRUE
    BY <1>4
  <2>2. l \in EntryId /\ Owns(h, l, e)
    BY <2>1 DEF PastOwners
  <2>3. \A k \in PastOwners(h, e) : k = l
    BY <2>2 DEF PastOwners, WellFormed, UniqueOwner
  <2>4. LastMention(h, l, e) <= LastMention(h, l, e)
    BY <1>1, <2>2, LastMentionIsANumber
  <2>5. logical_id_for_entry(h, e) \in PastOwners(h, e)
    BY <1>4, <2>1, <2>3, <2>4 DEF logical_id_for_entry
  <2> QED
    BY <2>2, <2>3, <2>5, NoIdAssumption
<1>5. CASE LiveOwners(h, e) = {} /\ PastOwners(h, e) = {}
  BY <1>5 DEF logical_id_for_entry, PastOwners
<1> QED
  BY <1>3, <1>4, <1>5

\* The owner that a revision of e is filed under: no other logical entry has e.
LEMMA OwnerOfId ==
    ASSUME NEW h, WellFormed(h), NEW e \in EntryId
    PROVE  /\ OwnerOf(h, e) \in EntryId
           /\ \A k \in EntryId : Owns(h, k, e) => k = OwnerOf(h, e)
<1>1. CASE logical_id_for_entry(h, e) = NoId
  BY <1>1, LogicalId DEF OwnerOf
<1>2. CASE logical_id_for_entry(h, e) # NoId
  BY <1>2, LogicalId DEF OwnerOf, WellFormed, UniqueOwner
<1> QED
  BY <1>1, <1>2

-------------------------------------------------------------------------------
(* The transactions keep a history well-formed *)

\* Logs that grow by rows that follow on what was there keep their heads in step
\* and begin with an id.
LEMMA GrowingLogs ==
    ASSUME NEW h, WellFormed(h), NEW g,
           \A l \in EntryId :
              Same(g, h, l) \/ \E r \in RevisionRow : Extends(g, h, l, r) /\ Follows(r, h, l)
    PROVE  HeadsMatch(g) /\ BeginsWithId(g)
<1>1. ASSUME NEW l \in EntryId, Same(g, h, l)
      PROVE  HeadIsLastRow(g, l)
  <2>1. HeadIsLastRow(h, l)
    BY DEF WellFormed, HeadsMatch
  <2> QED
    BY <1>1, <2>1 DEF HeadIsLastRow, latest_revision, Same
<1>2. ASSUME NEW l \in EntryId, Same(g, h, l), g.revs[l] # << >>
      PROVE  g.revs[l][1].whooing_entry_id \in EntryId
  BY <1>2 DEF WellFormed, BeginsWithId, Same
<1>3. ASSUME NEW l \in EntryId, NEW r \in RevisionRow, Extends(g, h, l, r), Follows(r, h, l)
      PROVE  HeadIsLastRow(g, l)
  BY <1>3 DEF HeadIsLastRow, Extends, Follows, latest_revision
<1>4. ASSUME NEW l \in EntryId, NEW r \in RevisionRow, Extends(g, h, l, r), Follows(r, h, l)
      PROVE  g.revs[l][1].whooing_entry_id \in EntryId
  <2>1. CASE h.revs[l] = << >>
    <3>1. g.revs[l][1] = r
      BY <1>4, <2>1, EmptySeq DEF Extends
    <3>2. r.whooing_entry_id \in EntryId
      BY <1>4, <2>1 DEF RevisionRow, Follows
    <3> QED
      BY <3>1, <3>2
  <2>2. CASE h.revs[l] # << >>
    <3>1. 1 \in DOMAIN h.revs[l]
      BY <2>2, HistoryFields DEF WellFormed
    <3> QED
      BY <1>4, <2>2, <3>1 DEF WellFormed, BeginsWithId, Extends
  <2> QED
    BY <2>1, <2>2
<1> QED
  BY <1>1, <1>2, <1>3, <1>4 DEF HeadsMatch, BeginsWithId

\* g is a well-formed history with the ids of h, and the id e filed under l.
Files(g, h, l, e) ==
    /\ WellFormed(g)
    /\ g.revs[l] # << >>
    /\ \A k, x \in EntryId : Owns(g, k, x) <=> Owns(h, k, x) \/ (k = l /\ x = e)

\* A live row may be filed under l when no other logical entry has its id; a
\* row of the trash needs a row before it.
LEMMA RecordRevisionFiles ==
    ASSUME NEW h, WellFormed(h), NEW l \in EntryId, NEW e \in EntryId \cup {NoId},
           NEW op \in Op, NEW v \in Value, NEW deleted \in BOOLEAN,
           deleted <=> e = NoId,
           deleted => h.revs[l] # << >>,
           \A k \in EntryId : Owns(h, k, e) => k = l \/ deleted
    PROVE  Files(record_revision(h, l, e, op, v, deleted), h, l, e)
<1> DEFINE g == record_revision(h, l, e, op, v, deleted)
           r == Row(e, op, v, deleted)
<1>1. h \in History
  BY DEF WellFormed
<1>2. g \in History /\ Extends(g, h, l, r) /\ \A k \in EntryId \ {l} : Same(g, h, k)
  BY <1>1, RecordRevision
<1>3. r.whooing_entry_id = e /\ Follows(r, h, l)
  BY DEF Row, RevisionRow, Follows
<1> HIDE DEF g, r
<1>4. \A k, x \in EntryId : Owns(g, k, x) <=> Owns(h, k, x) \/ (k = l /\ x = e)
  <2>1. \A x \in EntryId : Owns(g, l, x) <=> Owns(h, l, x) \/ x = e
    BY <1>2, <1>3, ExtendsOwns
  <2>2. \A k \in EntryId \ {l}, x \in EntryId : Owns(g, k, x) <=> Owns(h, k, x)
    BY <1>2 DEF Same, Owns
  <2> QED
    BY <2>1, <2>2
<1>5. HeadsMatch(g) /\ BeginsWithId(g)
  BY <1>2, <1>3, GrowingLogs DEF Follows
<1>6. UniqueOwner(g)
  BY <1>4, NoIdAssumption DEF WellFormed, UniqueOwner
<1> QED
  BY <1>2, <1>4, <1>5, <1>6 DEF WellFormed, Files, Extends, g

\* ensure_baseline leaves e with an owner, OwnerOf(h, e), and adds no other id.
LEMMA EnsureBaselineWellFormed ==
    ASSUME NEW h, WellFormed(h), NEW e \in EntryId, NEW v \in Value
    PROVE  LET g == ensure_baseline(h, e, v)
           IN  /\ WellFormed(g)
               /\ Owns(g, OwnerOf(h, e), e)
               /\ \A k, x \in EntryId : Owns(g, k, x) => Owns(h, k, x) \/ x = e
<1>1. CASE logical_id_for_entry(h, e) # NoId
  BY <1>1, LogicalId DEF ensure_baseline, OwnerOf
<1>2. CASE logical_id_for_entry(h, e) = NoId
  <2> DEFINE g == record_revision(h, e, e, "create", v, FALSE)
  <2>1. ensure_baseline(h, e, v) = g /\ OwnerOf(h, e) = e
    BY <1>2 DEF ensure_baseline, OwnerOf
  <2>2. \A k \in EntryId : ~ Owns(h, k, e)
    BY <1>2, LogicalId
  <2>3. e # NoId /\ "create" \in Op
    BY NoIdAssumption DEF Op
  <2>4. Files(g, h, e, e)
    BY <2>2, <2>3, RecordRevisionFiles
  <2> QED
    BY <2>1, <2>4 DEF Files
<1> QED
  BY <1>1, <1>2

\* A purge takes all the rows of one logical entry out and touches no other.
LEMMA PurgeWellFormed ==
    ASSUME NEW h, WellFormed(h), NEW l \in EntryId
    PROVE  LET g == purge_logical(h, l)
           IN  /\ WellFormed(g)
               /\ \A k, x \in EntryId : Owns(g, k, x) => Owns(h, k, x)
<1> DEFINE g == purge_logical(h, l)
<1>1. /\ h \in History
      /\ h.revs \in [EntryId -> Seq(RevisionRow)]
      /\ h.head \in [EntryId -> HeadRow]
  BY DEF WellFormed, History
<1>2. /\ g.revs[l] = << >>
      /\ g.head[l] = NoHead
      /\ \A k \in EntryId \ {l} : g.revs[k] = h.revs[k] /\ g.head[k] = h.head[k]
  BY <1>1 DEF purge_logical
<1>3. g \in History
  <2>1. << >> \in Seq(RevisionRow) /\ NoHead \in HeadRow
    BY EmptySeq DEF NoHead, HeadRow
  <2> QED
    BY <1>1, <2>1 DEF purge_logical, History
<1> HIDE DEF g
<1>4. \A k, x \in EntryId : Owns(g, k, x) => Owns(h, k, x)
  BY <1>2 DEF Owns
<1>5. HeadsMatch(g)
  <2>1. HeadIsLastRow(g, l)
    BY <1>2 DEF HeadIsLastRow
  <2>2. ASSUME NEW k \in EntryId \ {l} PROVE HeadIsLastRow(g, k)
    <3>1. HeadIsLastRow(h, k)
      BY <2>2 DEF WellFormed, HeadsMatch
    <3> QED
      BY <1>2, <2>2, <3>1 DEF HeadIsLastRow, latest_revision
  <2> QED
    BY <2>1, <2>2 DEF HeadsMatch
<1>6. UniqueOwner(g) /\ BeginsWithId(g)
  BY <1>2, <1>4 DEF WellFormed, UniqueOwner, BeginsWithId
<1> QED
  BY <1>3, <1>4, <1>5, <1>6 DEF WellFormed, g

\* The last row of a logical entry in the trash has no id and its first has one:
\* there is an id to restore its local data from.
LEMMA TrashedHasAnId ==
    ASSUME NEW h, WellFormed(h), NEW l \in list_deleted(h)
    PROVE  /\ Len(h.revs[l]) > 1
           /\ last_whooing_id(h, l) \in EntryId
           /\ Owns(h, l, last_whooing_id(h, l))
<1>1. h \in History /\ l \in EntryId /\ h.head[l].is_deleted
  BY DEF WellFormed, list_deleted
<1>2. /\ h.revs[l] # << >>
      /\ latest_revision(h, l).whooing_entry_id = NoId
  BY <1>1 DEF WellFormed, HeadsMatch, HeadIsLastRow, NoHead
<1>3. /\ DOMAIN h.revs[l] = 1..Len(h.revs[l])
      /\ Len(h.revs[l]) \in Nat
      /\ Len(h.revs[l]) \in DOMAIN h.revs[l]
  BY <1>1, <1>2, HistoryFields
<1>4. h.revs[l][1].whooing_entry_id \in EntryId
  BY <1>1, <1>2 DEF WellFormed, BeginsWithId
<1>5. Len(h.revs[l]) > 1
  BY <1>2, <1>3, <1>4, NoIdAssumption DEF latest_revision
<1>6. 1 \in Mentions(h, l) /\ Mentions(h, l) \subseteq 1..Len(h.revs[l])
  BY <1>3, <1>4, NoIdAssumption DEF Mentions
<1>7. PICK n \in Mentions(h, l) : \A m \in Mentions(h, l) : m <= n
  BY <1>3, <1>6, LargestExists
<1> DEFINE last == CHOOSE i \in Mentions(h, l) : \A m \in Mentions(h, l) : m <= i
<1>8. last \in Mentions(h, l)
  BY <1>7
<1>9. last_whooing_id(h, l) = h.revs[l][last].whooing_entry_id
  BY <1>6 DEF last_whooing_id
<1> HIDE DEF last
<1>10. last \in DOMAIN h.revs[l] /\ h.revs[l][last].whooing_entry_id # NoId
  BY <1>8 DEF Mentions
<1>11. h.revs[l][last].whooing_entry_id \in EntryId
  BY <1>1, <1>10, HistoryFields
<1> QED
  BY <1>5, <1>9, <1>10, <1>11 DEF Owns

\* Taking in outside changes files them under the ids the entries already have.
LEMMA ReconcileWellFormed ==
    ASSUME NEW h, WellFormed(h), NEW absent,
           NEW fetched \in [EntryId -> Value \cup {absent}]
    PROVE  LET g == reconcile_external(h, fetched, absent)
           IN  /\ WellFormed(g)
               /\ \A k, x \in EntryId : Owns(g, k, x) <=> Owns(h, k, x)
               /\ list_deleted(g) = list_deleted(h)
<1> DEFINE g == reconcile_external(h, fetched, absent)
           C == Changed(h, fetched, absent)
<1>1. h \in History
  BY DEF WellFormed
<1>2. ASSUME NEW l \in EntryId
      PROVE  \/ l \notin C /\ Same(g, h, l) /\ g.revs[l] \in Seq(RevisionRow) /\ g.head[l] \in HeadRow
             \/ \E r \in RevisionRow :
                   /\ Extends(g, h, l, r)
                   /\ Follows(r, h, l)
                   /\ Owns(h, l, r.whooing_entry_id)
                   /\ g.revs[l] \in Seq(RevisionRow)
                   /\ g.head[l] \in HeadRow
                   /\ g.head[l].is_deleted = h.head[l].is_deleted
                   /\ r.whooing_entry_id = h.head[l].current_entry_id
  <2> DEFINE e == h.head[l].current_entry_id
             r == Row(e, "external", fetched[e], FALSE)
             hd == [current_entry_id |-> e,
                    head_revision_no |-> Len(h.revs[l]) + 1,
                    is_deleted       |-> FALSE]
  <2>1. CASE l \notin C
    <3>1. g.revs[l] = h.revs[l] /\ g.head[l] = h.head[l]
      BY <1>2, <2>1 DEF reconcile_external
    <3> QED
      BY <1>1, <1>2, <2>1, <3>1, HistoryFields DEF Same
  <2>2. CASE l \in C
    <3>1. /\ e # NoId
          /\ h.revs[l] # << >>
          /\ fetched[e] # absent
          /\ ~ h.head[l].is_deleted
      BY <2>2 DEF Changed
    <3>2. e \in EntryId /\ h.head[l].is_deleted = FALSE
      BY <1>1, <3>1, HistoryFields
    <3>3. fetched[e] \in Value
      BY <3>1, <3>2
    <3>4. r \in RevisionRow /\ r.whooing_entry_id = e /\ r.is_deleted = FALSE
      BY <3>2, <3>3 DEF Row, RevisionRow, Op
    <3>5. Owns(h, l, e)
      <4>1. latest_revision(h, l).whooing_entry_id = e
        BY <3>1 DEF WellFormed, HeadsMatch, HeadIsLastRow
      <4> QED
        BY <1>1, <3>1, <4>1, HistoryFields DEF Owns, latest_revision
    <3>6. g.revs[l] = Append(h.revs[l], r) /\ g.head[l] = hd
      BY <1>2, <2>2 DEF reconcile_external, Row
    <3>7. h.revs[l] \in Seq(RevisionRow)
      BY <1>1, HistoryFields
    <3> HIDE DEF g, r, C
    <3>8. hd \in HeadRow /\ hd.is_deleted = FALSE
      BY <3>2, <3>4, <3>7, AppendRow DEF HeadRow
    <3>9. Extends(g, h, l, r)
      <4>1. g.head[l] = [current_entry_id |-> IF r.is_deleted THEN NoId ELSE r.whooing_entry_id,
                         head_revision_no |-> Len(h.revs[l]) + 1,
                         is_deleted       |-> r.is_deleted]
        BY <3>4, <3>6
      <4> HIDE DEF hd, e
      <4> QED
        BY <3>4, <3>6, <3>7, <4>1, AppendRow DEF Extends
    <3>10. Follows(r, h, l)
      BY <3>1, <3>4 DEF Follows
    <3>11. g.revs[l] \in Seq(RevisionRow)
      BY <3>4, <3>6, <3>7, AppendRow
    <3> QED
      BY <3>2, <3>4, <3>5, <3>6, <3>8, <3>9, <3>10, <3>11
  <2> QED
    BY <2>1, <2>2
<1>3. g \in History
  <2>1. g = [revs |-> g.revs, head |-> g.head]
    BY DEF reconcile_external
  <2>2. g.revs \in [EntryId -> Seq(RevisionRow)] /\ g.head \in [EntryId -> HeadRow]
    <3>1. /\ g.revs = [l \in EntryId |-> g.revs[l]]
          /\ g.head = [l \in EntryId |-> g.head[l]]
      BY DEF reconcile_external
    <3>2. \A l \in EntryId : g.revs[l] \in Seq(RevisionRow) /\ g.head[l] \in HeadRow
      BY <1>2
    <3> HIDE DEF g
    <3> QED
      BY <3>1, <3>2
  <2> QED
    BY <2>1, <2>2 DEF History
<1> HIDE DEF g, C
<1>4. ASSUME NEW k \in EntryId, NEW x \in EntryId
      PROVE  Owns(g, k, x) <=> Owns(h, k, x)
  <2>1. CASE Same(g, h, k)
    BY <2>1 DEF Same, Owns
  <2>2. ASSUME NEW r \in RevisionRow, Extends(g, h, k, r), Owns(h, k, r.whooing_entry_id)
        PROVE  Owns(g, k, x) <=> Owns(h, k, x)
    BY <2>2, ExtendsOwns
  <2> QED
    BY <1>2, <2>1, <2>2
<1>5. UniqueOwner(g)
  BY <1>4 DEF WellFormed, UniqueOwner
<1>6. HeadsMatch(g) /\ BeginsWithId(g)
  BY <1>2, GrowingLogs
<1>7. list_deleted(g) = list_deleted(h)
  BY <1>2 DEF list_deleted, Same
<1> QED
  BY <1>3, <1>4, <1>5, <1>6, <1>7 DEF WellFormed, g

-------------------------------------------------------------------------------
(* 2. The inductive invariant *)

\* Whatever the program knows of was once issued by the server.
KnownIds ==
    /\ \A e \in EntryId :
          \/ ledger[e] # NoEntry \/ view[e] # NoEntry
          \/ refresh.rows[e] # NoEntry \/ window.rows[e] # NoEntry
          => e \in issued
    /\ dialog.kind = "row" => dialog.row \in Value /\ dialog.ids \subseteq issued

\* What the worker holds across its await still fits when it resumes: its entry
\* was issued, and no other logical entry came to own the entry of its revision.
Fits(t, h, ids) ==
    /\ t.kind \in {"edit", "delete", "revert"} => t.eid \in ids
    /\ t.stage = "applied" => t.eid \in ids
    /\ t.kind \in {"restore", "revert"} => t.lid \in EntryId
    /\ t.kind = "edit" => t.prev \in Value
    /\ t.kind = "revert" \/ (t.kind = "restore" /\ t.stage = "applied")
          => \A l \in EntryId : Owns(h, l, t.eid) => l = t.lid

TaskFits == task # NoTask => Fits(task, history, issued)

IInv ==
    /\ TypeOK
    /\ WellFormed(history)
    /\ IdsWithin(history, issued)
    /\ KnownIds
    /\ TaskFits

-------------------------------------------------------------------------------
(* What the workers record *)

\* An edit files its row in the history of the one owner of e, after a baseline.
LEMMA RecordEditWellFormed ==
    ASSUME NEW h, WellFormed(h), NEW e \in EntryId, NEW prev \in Value, NEW v \in Value
    PROVE  LET g == record_edit(h, e, prev, v)
           IN  /\ WellFormed(g)
               /\ \A k, x \in EntryId : Owns(g, k, x) => Owns(h, k, x) \/ x = e
<1> DEFINE b == ensure_baseline(h, e, prev)
           o == OwnerOf(h, e)
           g == record_revision(b, o, e, "edit", v, FALSE)
<1>1. o \in EntryId
  BY OwnerOfId
<1>2. /\ WellFormed(b)
      /\ Owns(b, o, e)
      /\ \A k, x \in EntryId : Owns(b, k, x) => Owns(h, k, x) \/ x = e
  BY EnsureBaselineWellFormed
<1> HIDE DEF b, o
<1>3. \A k \in EntryId : Owns(b, k, e) => k = o
  BY <1>1, <1>2 DEF WellFormed, UniqueOwner
<1>4. "edit" \in Op /\ e # NoId
  BY NoIdAssumption DEF Op
<1>5. Files(g, b, o, e)
  BY <1>1, <1>2, <1>3, <1>4, RecordRevisionFiles
<1>6. g = record_edit(h, e, prev, v)
  BY DEF record_edit, b, o
<1> HIDE DEF g
<1> QED
  BY <1>2, <1>5, <1>6 DEF Files

\* A delete files a row without an id in the history of e's owner.
LEMMA RecordDeleteWellFormed ==
    ASSUME NEW h, WellFormed(h), NEW e \in EntryId, NEW v \in Value
    PROVE  LET g == record_delete(h, e, v)
           IN  /\ WellFormed(g)
               /\ \A k, x \in EntryId : Owns(g, k, x) => Owns(h, k, x) \/ x = e
<1> DEFINE b == ensure_baseline(h, e, v)
           o == OwnerOf(h, e)
           g == record_revision(b, o, NoId, "delete", v, TRUE)
<1>1. o \in EntryId
  BY OwnerOfId
<1>2. /\ WellFormed(b)
      /\ Owns(b, o, e)
      /\ \A k, x \in EntryId : Owns(b, k, x) => Owns(h, k, x) \/ x = e
  BY EnsureBaselineWellFormed
<1> HIDE DEF b, o
<1>3. b.revs[o] # << >>
  <2>1. DOMAIN << >> = {}
    OBVIOUS
  <2> QED
    BY <1>2, <2>1 DEF Owns
<1>4. "delete" \in Op
  BY DEF Op
<1>5. Files(g, b, o, NoId)
  BY <1>1, <1>2, <1>3, <1>4, RecordRevisionFiles
<1>6. g = record_delete(h, e, v)
  BY DEF record_delete, b, o
<1> HIDE DEF g
<1> QED
  BY <1>2, <1>5, <1>6, NoIdAssumption DEF Files

-------------------------------------------------------------------------------
(* The local tables keep their type *)

\* persist, migrate_local, purge and an attachment map tables to tables.
LEMMA PersistType ==
    ASSUME NEW m \in Meta, NEW e \in EntryId, NEW v \in Value, NEW tags \in SUBSET Tag
    PROVE  persist(m, e, v, tags) \in Meta
<1>1. MirroredNote(m, e, v) \in WithMemo \cup {NoRow, NoNote}
  BY DEF MirroredNote, Meta
<1> QED
  BY <1>1 DEF persist, Meta

\* migrate_local moves rows from one id to another.
LEMMA MigrateType ==
    ASSUME NEW m \in Meta, NEW old \in EntryId \cup {NoId}, NEW new \in EntryId
    PROVE  migrate_local(m, old, new) \in Meta
<1>1. CASE old \in {NoId, new} \/ MigrationAborts(m, old, new)
  BY <1>1 DEF migrate_local
<1>2. CASE ~ (old \in {NoId, new} \/ MigrationAborts(m, old, new))
  <2>1. old \in EntryId
    BY <1>2
  <2> DEFINE note  == IF m.note[new] # NoRow THEN m.note
                      ELSE [m.note EXCEPT ![new] = m.note[old], ![old] = NoRow]
             tags  == [m.tags EXCEPT ![new] = @ \cup m.tags[old], ![old] = @ \cap m.tags[new]]
             files == [m.files EXCEPT ![new] = @ \cup m.files[old], ![old] = {}]
  <2>2. note \in [EntryId -> WithMemo \cup {NoRow, NoNote}]
    BY <2>1 DEF Meta
  <2>3. tags \in [EntryId -> SUBSET Tag]
    BY <2>1 DEF Meta
  <2>4. files \in [EntryId -> SUBSET File]
    BY <2>1 DEF Meta
  <2>5. migrate_local(m, old, new) = [note |-> note, tags |-> tags, files |-> files]
    BY <1>2 DEF migrate_local
  <2> HIDE DEF note, tags, files
  <2> QED
    BY <2>2, <2>3, <2>4, <2>5 DEF Meta
<1> QED
  BY <1>1, <1>2

\* purge removes the rows of an id.
LEMMA PurgeType ==
    ASSUME NEW m \in Meta, NEW e \in EntryId
    PROVE  purge(m, e) \in Meta
BY DEF purge, Meta

\* An attachment adds one row.
LEMMA AttachType ==
    ASSUME NEW m \in Meta, NEW e \in EntryId, NEW f \in File
    PROVE  attach(m, e, f) \in Meta
BY DEF attach, Meta

-------------------------------------------------------------------------------

\* The program starts with an empty history and nothing in flight.
LEMMA InitIInv == Init => IInv
<1> SUFFICES ASSUME Init PROVE IInv
  OBVIOUS
<1>1. ledger \in Rows /\ NoRows \in Rows
  BY EntryHistoryAssumption DEF Init, Rows, NoRows
<1>2. EmptyMeta \in Meta
  BY DEF EmptyMeta, Meta
<1>3. refresh \in Refresh /\ window \in Window
  BY <1>1 DEF Init, SentRefresh, Refresh, NoWindow, Window
<1>4. WellFormed(history) /\ IdsWithin(history, issued)
  BY EmptyHistoryWellFormed DEF Init
<1>5. dialog \in Dialog
  BY DEF Init, NoDialog, Showing, Dialog
<1>6. TypeOK
  <2>1. issued \subseteq EntryId /\ changes \in 0..MaxChanges
    BY EntryHistoryAssumption DEF Init
  <2>2. /\ history \in History /\ meta \in Meta /\ cached \in Rows /\ view \in Rows
        /\ reconciled \in BOOLEAN /\ dedup \in EntryId \cup {NoId}
    BY <1>1, <1>2, <1>4 DEF Init, WellFormed
  <2>3. task \in Task \cup {NoTask}
    BY DEF Init
  <2> QED
    BY <1>1, <1>3, <1>5, <2>1, <2>2, <2>3 DEF TypeOK
<1>7. KnownIds
  BY DEF Init, KnownIds, NoRows, SentRefresh, NoWindow, NoDialog, Showing
<1>8. TaskFits
  BY DEF Init, TaskFits
<1> QED
  BY <1>4, <1>6, <1>7, <1>8 DEF IInv

\* The values that stand for nothing running, stored or shown.
LEMMA RefreshTypes ==
    /\ NoRows \in Rows
    /\ NoRefresh \in Refresh /\ SentRefresh \in Refresh
    /\ NoWindow \in Window
    /\ NoDialog \in Dialog
<1>1. NoRows \in Rows
  BY DEF NoRows, Rows
<1> QED
  BY <1>1 DEF NoRefresh, SentRefresh, Refresh, NoWindow, Window, NoDialog, Showing, Dialog

\* The bound on changes is kept.
LEMMA CountChangeType == ASSUME TypeOK, CountChange PROVE changes' \in 0..MaxChanges
BY EntryHistoryAssumption DEF TypeOK, CountChange

\* Steps that leave the history alone and start no task.
LEMMA QuietStep ==
    ASSUME IInv, TypeOK', KnownIds', UNCHANGED <<history, issued>>,
           task' \in {task, NoTask}
    PROVE  IInv'
<1>1. WellFormed(history)' /\ IdsWithin(history, issued)'
  BY DEF IInv
<1>2. TaskFits'
  BY DEF IInv, TaskFits
<1> QED
  BY <1>1, <1>2 DEF IInv

\* The user starts a task.
LEMMA TaskStarts ==
    ASSUME IInv, NEW t \in Task, StartTask(t), t.stage = "sent",
           Fits(t, history, issued), dialog' \in {dialog, NoDialog}
    PROVE  IInv'
<1>1. TypeOK'
  <2>1. changes' \in 0..MaxChanges
    BY CountChangeType DEF IInv, StartTask
  <2> QED
    BY <2>1, RefreshTypes DEF IInv, TypeOK, StartTask, server, local, screen
<1>2. UNCHANGED <<ledger, issued, history, view, refresh, window>>
  BY DEF StartTask, server, local, screen
<1>3. WellFormed(history)' /\ IdsWithin(history, issued)' /\ KnownIds'
  BY <1>2 DEF IInv, KnownIds, NoDialog, Showing
<1>4. TaskFits'
  BY <1>2 DEF TaskFits, StartTask
<1> QED
  BY <1>1, <1>3, <1>4 DEF IInv

\* A worker resumes and files the id of its task, or nothing.
LEMMA TaskRecords ==
    ASSUME IInv, NEW kind, Resumes(kind), meta' \in Meta, cached' \in Rows,
           WellFormed(history'),
           \A k, x \in EntryId : Owns(history', k, x) => Owns(history, k, x) \/ x = task.eid
    PROVE  IInv'
<1>1. /\ UNCHANGED <<ledger, issued, view, dialog>>
      /\ task' = NoTask /\ refresh' = SentRefresh /\ window' = NoWindow
  BY DEF Resumes, server, screen
<1>2. TypeOK'
  BY <1>1, RefreshTypes DEF IInv, TypeOK, Resumes, server, screen, WellFormed
<1>3. task.eid \in issued
  BY DEF Resumes, IInv, TaskFits, Fits
<1>4. IdsWithin(history, issued)'
  BY <1>1, <1>3 DEF IInv, IdsWithin
<1>5. KnownIds'
  BY <1>1 DEF IInv, KnownIds, SentRefresh, NoWindow, NoRows
<1>6. TaskFits'
  BY <1>1 DEF TaskFits
<1> QED
  BY <1>2, <1>4, <1>5, <1>6 DEF IInv

-------------------------------------------------------------------------------
(* Every step preserves the invariant *)

\* An id that the history holds is an entry or NULL.
LEMMA LastIdType ==
    ASSUME NEW h \in History, NEW l \in EntryId
    PROVE  last_whooing_id(h, l) \in EntryId \cup {NoId}
<1>1. CASE Mentions(h, l) = {}
  BY <1>1 DEF last_whooing_id
<1>2. CASE Mentions(h, l) # {}
  <2>1. Len(h.revs[l]) \in Nat /\ Mentions(h, l) \subseteq 1..Len(h.revs[l])
    BY HistoryFields DEF Mentions
  <2>2. PICK n \in Mentions(h, l) : \A m \in Mentions(h, l) : m <= n
    BY <1>2, <2>1, LargestExists
  <2> DEFINE last == CHOOSE i \in Mentions(h, l) : \A m \in Mentions(h, l) : m <= i
  <2>3. last \in Mentions(h, l)
    BY <2>2
  <2>4. last_whooing_id(h, l) = h.revs[l][last].whooing_entry_id
    BY <1>2 DEF last_whooing_id
  <2> HIDE DEF last
  <2> QED
    BY <2>3, <2>4, HistoryFields DEF Mentions
<1> QED
  BY <1>1, <1>2

\* A restore, or a revert of an entry in the trash, starts.
LEMMA RecreateStarts ==
    ASSUME IInv, NEW l \in EntryId, NEW n \in DOMAIN history.revs[l],
           StartTask(Recreate(l, n)), dialog' = NoDialog
    PROVE  IInv'
<1> DEFINE t == Recreate(l, n)
           old == last_whooing_id(history, l)
           v == history.revs[l][n].snapshot
<1>1. history \in History
  BY DEF IInv, TypeOK
<1>2. old \in EntryId \cup {NoId} /\ v \in Value
  BY <1>1, LastIdType, HistoryFields
<1>3. t = Sent("restore", NoId, l, old, NoEntry, v, {})
  BY DEF Recreate
<1> HIDE DEF t, old, v
<1>4. t \in Task /\ t.kind = "restore" /\ t.stage = "sent" /\ t.lid = l
  BY <1>2, <1>3 DEF Sent, Task
<1>5. Fits(t, history, issued)
  BY <1>4 DEF Fits
<1> QED
  BY <1>4, <1>5, TaskStarts DEF t

\* Whatever change the user starts, its task fits the history it is started on.
LEMMA UserStarts ==
    ASSUME IInv,
           \/ \E v \in Value, tags \in SUBSET Tag : SubmitCreate(v, tags)
           \/ \E e \in EntryId, v \in Value, tags \in SUBSET Tag : SubmitUpdate(e, v, tags)
           \/ \E e \in EntryId : SubmitDelete(e)
           \/ \E l \in EntryId : \E n \in DOMAIN history.revs[l] : RevertTo(l, n)
           \/ \E l \in EntryId : RestoreLogical(l)
    PROVE  IInv'
<1>1. dialog' \in {dialog, NoDialog}
  BY DEF SubmitCreate, SubmitUpdate, SubmitDelete, RevertTo, RestoreLogical
<1>2. ASSUME NEW v \in Value, NEW tags \in SUBSET Tag, SubmitCreate(v, tags)
      PROVE  IInv'
  <2> DEFINE t == Sent("create", NoId, NoId, NoId, NoEntry, v, tags)
  <2>1. StartTask(t)
    BY <1>2 DEF SubmitCreate
  <2>2. t \in Task /\ t.kind = "create" /\ t.stage = "sent"
    BY DEF Sent, Task
  <2> HIDE DEF t
  <2>3. Fits(t, history, issued)
    BY <2>2 DEF Fits
  <2> QED
    BY <1>1, <2>1, <2>2, <2>3, TaskStarts
<1>3. ASSUME NEW e \in EntryId, NEW v \in Value, NEW tags \in SUBSET Tag,
             SubmitUpdate(e, v, tags)
      PROVE  IInv'
  <2> DEFINE t == Sent("edit", e, NoId, NoId, dialog.row, v, tags)
  <2>1. StartTask(t) /\ OnRow(e)
    BY <1>3 DEF SubmitUpdate
  <2>2. dialog.row \in Value /\ e \in issued
    BY <2>1 DEF OnRow, IInv, KnownIds
  <2>3. t \in Task /\ t.kind = "edit" /\ t.stage = "sent" /\ t.eid = e /\ t.prev = dialog.row
    BY <2>2 DEF Sent, Task
  <2> HIDE DEF t
  <2>4. Fits(t, history, issued)
    BY <2>2, <2>3 DEF Fits
  <2> QED
    BY <1>1, <2>1, <2>3, <2>4, TaskStarts
<1>4. ASSUME NEW e \in EntryId, SubmitDelete(e) PROVE IInv'
  <2> DEFINE t == Sent("delete", e, NoId, NoId, NoEntry, dialog.row, {})
  <2>1. StartTask(t) /\ OnRow(e)
    BY <1>4 DEF SubmitDelete
  <2>2. dialog.row \in Value /\ e \in issued
    BY <2>1 DEF OnRow, IInv, KnownIds
  <2>3. t \in Task /\ t.kind = "delete" /\ t.stage = "sent" /\ t.eid = e
    BY <2>2 DEF Sent, Task
  <2> HIDE DEF t
  <2>4. Fits(t, history, issued)
    BY <2>2, <2>3 DEF Fits
  <2> QED
    BY <1>1, <2>1, <2>3, <2>4, TaskStarts
<1>5. ASSUME NEW l \in EntryId, NEW n \in DOMAIN history.revs[l], RevertTo(l, n)
      PROVE  IInv'
  <2> DEFINE cur == history.head[l].current_entry_id
             t == Sent("revert", cur, l, NoId, NoEntry, history.revs[l][n].snapshot, {})
  <2>1. CASE history.head[l].is_deleted \/ cur = NoId
    BY <1>5, <2>1, RecreateStarts DEF RevertTo
  <2>2. CASE ~ (history.head[l].is_deleted \/ cur = NoId)
    <3>1. StartTask(t)
      BY <1>5, <2>2 DEF RevertTo
    <3>2. history \in History /\ WellFormed(history) /\ IdsWithin(history, issued)
      BY DEF IInv, TypeOK
    <3>3. cur \in EntryId /\ history.revs[l][n].snapshot \in Value
      BY <2>2, <3>2, HistoryFields
    <3>4. Owns(history, l, cur)
      <4>1. history.revs[l] # << >> /\ latest_revision(history, l).whooing_entry_id = cur
        BY <2>2, <3>2 DEF WellFormed, HeadsMatch, HeadIsLastRow, NoHead
      <4> QED
        BY <3>2, <4>1, HistoryFields DEF Owns, latest_revision
    <3>5. cur \in issued /\ \A k \in EntryId : Owns(history, k, cur) => k = l
      BY <3>2, <3>3, <3>4 DEF IdsWithin, WellFormed, UniqueOwner
    <3>6. t \in Task /\ t.kind = "revert" /\ t.stage = "sent" /\ t.eid = cur /\ t.lid = l
      BY <3>3 DEF Sent, Task
    <3> HIDE DEF t, cur
    <3>7. Fits(t, history, issued)
      BY <3>5, <3>6 DEF Fits
    <3> QED
      BY <1>1, <3>1, <3>6, <3>7, TaskStarts
  <2> QED
    BY <2>1, <2>2
<1>6. ASSUME NEW l \in EntryId, RestoreLogical(l) PROVE IInv'
  <2>1. /\ history.revs[l] # << >> /\ StartTask(Recreate(l, Len(history.revs[l])))
        /\ dialog' = NoDialog
    BY <1>6 DEF RestoreLogical
  <2>2. Len(history.revs[l]) \in DOMAIN history.revs[l]
    BY <2>1, HistoryFields DEF IInv, TypeOK
  <2> QED
    BY <2>1, <2>2, RecreateStarts
<1> QED
  BY <1>2, <1>3, <1>4, <1>5, <1>6

\* The id of a new entry is fresh: no logical entry owns it yet.
LEMMA ServerApplies == ASSUME IInv, ServerApply PROVE IInv'
<1>1. /\ task # NoTask /\ task \in Task /\ task.stage = "sent"
      /\ UNCHANGED <<history, view, refresh, window, dialog>>
  BY DEF ServerApply, IInv, TypeOK, local, screen
<1>2. /\ ledger \in Rows /\ issued \subseteq EntryId /\ NoEntry \notin Value
      /\ task.val \in Value
  BY <1>1, EntryHistoryAssumption DEF IInv, TypeOK, Task
<1>3. CASE task.kind \in {"create", "restore"}
  <2>1. PICK e \in EntryId \ issued :
           /\ issued' = issued \cup {e}
           /\ ledger' = [ledger EXCEPT ![e] = task.val]
           /\ task' = [task EXCEPT !.stage = "applied", !.eid = e]
    BY <1>3 DEF ServerApply
  <2>2. /\ task' \in Task /\ task'.kind = task.kind /\ task'.stage = "applied"
        /\ task'.eid = e /\ task'.lid = task.lid
    BY <1>1, <2>1 DEF Task
  <2>3. ledger' \in Rows /\ issued' \subseteq EntryId
    BY <1>2, <2>1 DEF Rows
  <2>4. TypeOK'
    BY <2>2, <2>3 DEF IInv, TypeOK, ServerApply, local, screen
  <2>5. WellFormed(history)' /\ IdsWithin(history, issued)'
    BY <1>1, <2>1 DEF IInv, IdsWithin
  <2>6. KnownIds'
    BY <1>1, <1>2, <2>1 DEF IInv, KnownIds, Rows
  <2>7. \A l \in EntryId : ~ Owns(history, l, e)
    BY <2>1 DEF IInv, IdsWithin
  <2>8. Fits(task', history, issued')
    BY <1>1, <1>3, <2>1, <2>2, <2>7 DEF IInv, TaskFits, Fits
  <2>9. TaskFits'
    BY <1>1, <2>8 DEF TaskFits
  <2> QED
    BY <2>4, <2>5, <2>6, <2>9 DEF IInv
<1>4. CASE task.kind \in {"edit", "revert", "delete"}
  <2>1. /\ issued' = issued
        /\ task' = [task EXCEPT !.stage = "applied"]
        /\ \E v \in Value \cup {NoEntry} : ledger' = [ledger EXCEPT ![task.eid] = v]
    BY <1>2, <1>4 DEF ServerApply
  <2>2. /\ task' \in Task /\ task'.kind = task.kind /\ task'.stage = "applied"
        /\ task'.eid = task.eid /\ task'.lid = task.lid /\ task'.prev = task.prev
    BY <1>1, <2>1 DEF Task
  <2>3. task.eid \in issued /\ task.eid \in EntryId
    BY <1>1, <1>2, <1>4 DEF IInv, TaskFits, Fits
  <2>4. ledger' \in Rows
    BY <1>2, <2>1 DEF Rows
  <2>5. TypeOK'
    BY <2>1, <2>2, <2>4 DEF IInv, TypeOK, ServerApply, local, screen
  <2>6. WellFormed(history)' /\ IdsWithin(history, issued)'
    BY <1>1, <2>1 DEF IInv
  <2>7. KnownIds'
    BY <1>1, <1>2, <2>1, <2>3 DEF IInv, KnownIds, Rows
  <2>8. Fits(task', history, issued')
    BY <1>1, <1>4, <2>1, <2>2, <2>3 DEF IInv, TaskFits, Fits
  <2>9. TaskFits'
    BY <1>1, <2>8 DEF TaskFits
  <2> QED
    BY <2>5, <2>6, <2>7, <2>9 DEF IInv
<1> QED
  BY <1>1, <1>3, <1>4 DEF Task

\* Every worker, resumed after any interleaving, files its rows well.
LEMMA WorkerRecords == ASSUME IInv, WorkerStep PROVE IInv'
<1>1. /\ WellFormed(history) /\ history \in History
      /\ meta \in Meta /\ cached \in Rows
  BY DEF IInv, TypeOK
<1>2. ASSUME NEW kind, Resumes(kind)
      PROVE  /\ task \in Task /\ task.kind = kind /\ task.stage = "applied"
             /\ task.eid \in EntryId /\ task.val \in Value /\ task.tags \in SUBSET Tag
             /\ task.lid \in EntryId \cup {NoId} /\ task.old \in EntryId \cup {NoId}
             /\ Fits(task, history, issued)
  <2>1. task \in Task /\ task.kind = kind /\ task.stage = "applied"
    BY <1>2 DEF Resumes, IInv, TypeOK
  <2>2. Fits(task, history, issued)
    BY <1>2 DEF Resumes, IInv, TaskFits
  <2>3. task.eid \in EntryId
    BY <2>1, <2>2 DEF Fits, IInv, TypeOK
  <2> QED
    BY <2>1, <2>2, <2>3 DEF Task
<1>3. ASSUME NEW e \in EntryId, NEW v \in Value \cup {NoEntry}
      PROVE  [cached EXCEPT ![e] = v] \in Rows
  BY <1>1 DEF Rows
<1>4. CASE RecordCreate
  <2>1. Resumes("create")
    BY <1>4 DEF RecordCreate
  <2>2. task.eid \in EntryId /\ task.val \in Value /\ task.tags \in SUBSET Tag
    BY <1>2, <2>1
  <2>3. meta' \in Meta /\ cached' \in Rows
    BY <1>1, <1>4, <2>2, PersistType DEF RecordCreate
  <2>4. /\ WellFormed(history')
        /\ \A k, x \in EntryId : Owns(history', k, x) => Owns(history, k, x) \/ x = task.eid
    <3>1. history' = history \/ history' = ensure_baseline(history, task.eid, task.val)
      BY <1>4 DEF RecordCreate
    <3> QED
      BY <1>1, <2>2, <3>1, EnsureBaselineWellFormed
  <2> QED
    BY <2>1, <2>3, <2>4, TaskRecords
<1>5. CASE RecordEdit
  <2>1. Resumes("edit")
    BY <1>5 DEF RecordEdit
  <2>2. /\ task.eid \in EntryId /\ task.val \in Value /\ task.tags \in SUBSET Tag
        /\ task.prev \in Value
    BY <1>2, <2>1 DEF Fits
  <2>3. meta' \in Meta /\ cached' \in Rows
    <3>1. meta' \in {meta, persist(meta, task.eid, task.val, task.tags)}
      BY <1>5 DEF RecordEdit
    <3>2. cached' = cached \/ cached' = [cached EXCEPT ![task.eid] = task.val]
      BY <1>5 DEF RecordEdit
    <3> QED
      BY <1>1, <1>3, <2>2, <3>1, <3>2, PersistType
  <2>4. /\ WellFormed(history')
        /\ \A k, x \in EntryId : Owns(history', k, x) => Owns(history, k, x) \/ x = task.eid
    <3>1. \/ history' = history
          \/ history' = record_edit(history, task.eid, task.prev, task.val)
      BY <1>5 DEF RecordEdit
    <3> QED
      BY <1>1, <2>2, <3>1, RecordEditWellFormed
  <2> QED
    BY <2>1, <2>3, <2>4, TaskRecords
<1>6. CASE RecordDelete
  <2>1. Resumes("delete")
    BY <1>6 DEF RecordDelete
  <2>2. task.eid \in EntryId /\ task.val \in Value
    BY <1>2, <2>1
  <2>3. meta' \in Meta /\ cached' \in Rows
    <3>1. cached' = cached \/ cached' = [cached EXCEPT ![task.eid] = NoEntry]
      BY <1>6 DEF RecordDelete
    <3> QED
      BY <1>1, <1>3, <1>6, <2>2, <3>1 DEF RecordDelete
  <2>4. /\ WellFormed(history')
        /\ \A k, x \in EntryId : Owns(history', k, x) => Owns(history, k, x) \/ x = task.eid
    <3>1. history' = history \/ history' = record_delete(history, task.eid, task.val)
      BY <1>6 DEF RecordDelete
    <3> QED
      BY <1>1, <2>2, <3>1, RecordDeleteWellFormed
  <2> QED
    BY <2>1, <2>3, <2>4, TaskRecords
<1>7. ASSUME NEW op \in {"restore", "revert"}, Resumes(op),
             \/ history' = history
             \/ history' = record_revision(history, task.lid, task.eid, op, task.val, FALSE)
      PROVE  /\ WellFormed(history')
             /\ \A k, x \in EntryId : Owns(history', k, x) => Owns(history, k, x) \/ x = task.eid
  <2>1. CASE history' = history
    BY <1>1, <2>1
  <2>2. CASE history' = record_revision(history, task.lid, task.eid, op, task.val, FALSE)
    <3>1. /\ task.kind = op /\ task.eid \in EntryId /\ task.val \in Value
          /\ Fits(task, history, issued) /\ task.stage = "applied"
      BY <1>2, <1>7
    <3>2. task.lid \in EntryId /\ \A l \in EntryId : Owns(history, l, task.eid) => l = task.lid
      BY <1>7, <3>1 DEF Fits
    <3>3. op \in Op /\ task.eid # NoId
      BY <3>1, NoIdAssumption DEF Op
    <3>4. Files(history', history, task.lid, task.eid)
      BY <1>1, <2>2, <3>1, <3>2, <3>3, RecordRevisionFiles
    <3> QED
      BY <3>4 DEF Files
  <2> QED
    BY <1>7, <2>1, <2>2
<1>8. CASE RecordRestore
  <2>1. Resumes("restore")
    BY <1>8 DEF RecordRestore
  <2>2. task.eid \in EntryId /\ task.val \in Value /\ task.old \in EntryId \cup {NoId}
    BY <1>2, <2>1
  <2>3. meta' \in Meta /\ cached' \in Rows
    <3>1. meta' \in {meta, migrate_local(meta, task.old, task.eid)}
      BY <1>8 DEF RecordRestore
    <3>2. cached' = cached \/ cached' = [cached EXCEPT ![task.eid] = task.val]
      BY <1>8 DEF RecordRestore
    <3> QED
      BY <1>1, <1>3, <2>2, <3>1, <3>2, MigrateType
  <2>4. \/ history' = history
        \/ history' = record_revision(history, task.lid, task.eid, "restore", task.val, FALSE)
    BY <1>8 DEF RecordRestore
  <2> QED
    BY <1>7, <2>1, <2>3, <2>4, TaskRecords
<1>9. CASE RecordRevert
  <2>1. Resumes("revert")
    BY <1>9 DEF RecordRevert
  <2>2. task.eid \in EntryId /\ task.val \in Value
    BY <1>2, <2>1
  <2>3. meta' \in Meta /\ cached' \in Rows
    <3>1. cached' = cached \/ cached' = [cached EXCEPT ![task.eid] = task.val]
      BY <1>9 DEF RecordRevert
    <3> QED
      BY <1>1, <1>3, <1>9, <2>2, <3>1 DEF RecordRevert
  <2>4. \/ history' = history
        \/ history' = record_revision(history, task.lid, task.eid, "revert", task.val, FALSE)
    BY <1>9 DEF RecordRevert
  <2> QED
    BY <1>7, <2>1, <2>3, <2>4, TaskRecords
<1> QED
  BY <1>4, <1>5, <1>6, <1>8, <1>9 DEF WorkerStep

\* A purge takes ids out of the history; the worker's task may stay in flight.
LEMMA Purges == ASSUME IInv, NEW l \in EntryId, PurgeLogical(l) PROVE IInv'
<1>1. /\ UNCHANGED <<ledger, issued, cached, view, window, reconciled, task, dedup, changes>>
      /\ refresh' = SentRefresh /\ dialog' = NoDialog
  BY DEF PurgeLogical, server, screen
<1>2. WellFormed(history) /\ history \in History /\ meta \in Meta
  BY DEF IInv, TypeOK
<1>3. history' = history \/ history' = purge_logical(history, l)
  BY DEF PurgeLogical
<1>4. /\ WellFormed(history')
      /\ \A k, x \in EntryId : Owns(history', k, x) => Owns(history, k, x)
  BY <1>2, <1>3, PurgeWellFormed
<1>5. meta' \in Meta
  <2> DEFINE old == last_whooing_id(history, l)
  <2>1. old \in EntryId \cup {NoId}
    BY <1>2, LastIdType
  <2>2. meta' = meta \/ (old # NoId /\ meta' = purge(meta, old))
    BY DEF PurgeLogical
  <2> HIDE DEF old
  <2> QED
    BY <1>2, <2>1, <2>2, PurgeType
<1>6. TypeOK'
  BY <1>1, <1>4, <1>5, RefreshTypes DEF IInv, TypeOK, WellFormed
<1>7. IdsWithin(history, issued)'
  BY <1>1, <1>4 DEF IInv, IdsWithin
<1>8. KnownIds'
  BY <1>1 DEF IInv, KnownIds, SentRefresh, NoRows, NoDialog, Showing
<1>9. TaskFits'
  <2> SUFFICES ASSUME task # NoTask PROVE Fits(task, history', issued)
    BY <1>1 DEF TaskFits
  <2>1. Fits(task, history, issued)
    BY DEF IInv, TaskFits
  <2>2. task.kind = "revert" \/ (task.kind = "restore" /\ task.stage = "applied")
           => task.eid \in EntryId
    BY <2>1 DEF Fits, IInv, TypeOK
  <2> QED
    BY <1>4, <2>1, <2>2 DEF Fits
<1> QED
  BY <1>4, <1>6, <1>7, <1>8, <1>9 DEF IInv

\* Rows with ids that were issued are shown, and outside changes are filed.
LEMMA RowsShown ==
    ASSUME IInv, NEW rows \in Rows, Show(rows), window' \in Window,
           \A e \in EntryId : rows[e] # NoEntry \/ window'.rows[e] # NoEntry => e \in issued
    PROVE  IInv'
<1>1. /\ UNCHANGED <<ledger, issued, meta, task, dedup, dialog, changes>>
      /\ refresh' = NoRefresh /\ view' = rows /\ reconciled' = TRUE
  BY DEF Show, server
<1>2. WellFormed(history) /\ cached \in Rows /\ rows \in [EntryId -> Value \cup {NoEntry}]
  BY DEF IInv, TypeOK, Rows
<1>3. \/ history' = history
      \/ history' = reconcile_external(history, rows, NoEntry)
  BY DEF Show
<1>4. /\ WellFormed(history')
      /\ \A k, x \in EntryId : Owns(history', k, x) <=> Owns(history, k, x)
  BY <1>2, <1>3, ReconcileWellFormed
<1>5. cached' \in Rows
  BY <1>2 DEF Show, Rows
<1>6. TypeOK'
  BY <1>1, <1>4, <1>5, RefreshTypes DEF IInv, TypeOK, WellFormed
<1>7. IdsWithin(history, issued)'
  BY <1>1, <1>4 DEF IInv, IdsWithin
<1>8. KnownIds'
  BY <1>1 DEF IInv, KnownIds, NoRefresh, NoRows
<1>9. TaskFits'
  <2> SUFFICES ASSUME task # NoTask PROVE Fits(task, history', issued)
    BY <1>1 DEF TaskFits
  <2>1. Fits(task, history, issued)
    BY DEF IInv, TaskFits
  <2>2. task.kind = "revert" \/ (task.kind = "restore" /\ task.stage = "applied")
           => task.eid \in EntryId
    BY <2>1 DEF Fits, IInv, TypeOK
  <2> QED
    BY <1>4, <2>1, <2>2 DEF Fits
<1> QED
  BY <1>4, <1>6, <1>7, <1>8, <1>9 DEF IInv

\* A refresh shows the stored window or the server's answer.
LEMMA RefreshShows == ASSUME IInv, RefreshFromCache \/ RefreshApply PROVE IInv'
<1>1. CASE RefreshFromCache
  BY <1>1, RowsShown DEF RefreshFromCache, IInv, TypeOK, Window, KnownIds
<1>2. CASE RefreshApply
  <2>1. refresh.rows \in Rows /\ window' = [stored |-> TRUE, rows |-> refresh.rows]
    BY <1>2 DEF RefreshApply, IInv, TypeOK, Refresh
  <2> QED
    BY <1>2, <2>1, RowsShown DEF RefreshApply, IInv, KnownIds, Window
<1> QED
  BY <1>1, <1>2

\* The steps that leave the history alone.
LEMMA OtherSteps ==
    ASSUME IInv,
           \/ \E e \in EntryId, f \in File : AttachFile(e, f)
           \/ \E e \in EntryId : DedupDelete(e) \/ ExternalDelete(e)
           \/ \E e \in EntryId, v \in Value : ExternalEdit(e, v)
           \/ \E e \in EntryId : OpenRow(e) \/ OpenHistory(e)
           \/ OpenTrash \/ CloseDialog
           \/ \E l \in EntryId : ConfirmPurge(l)
           \/ ServerRefuse \/ AnswerLost \/ AnswerWithoutId
           \/ RefreshKey \/ RefreshAnswer \/ RefreshFails
           \/ DedupPurge \/ Crash
    PROVE  IInv'
<1> USE RefreshTypes
<1>1. ASSUME NEW e \in EntryId, NEW f \in File, AttachFile(e, f) PROVE IInv'
  <2>1. TypeOK'
    BY <1>1, AttachType, CountChangeType DEF IInv, TypeOK, AttachFile, server, screen
  <2> QED
    BY <1>1, <2>1, QuietStep DEF AttachFile, server, screen, IInv, KnownIds
<1>2. ASSUME NEW e \in EntryId, DedupDelete(e) \/ ExternalDelete(e) PROVE IInv'
  <2>1. /\ ledger' = [ledger EXCEPT ![e] = NoEntry] /\ dedup' \in {dedup, e}
        /\ UNCHANGED <<issued, history, meta, cached, view, reconciled, refresh, window,
                       task, dialog>>
        /\ CountChange
    BY <1>2 DEF DedupDelete, ExternalDelete, local, screen
  <2>2. TypeOK'
    BY <2>1, CountChangeType DEF IInv, TypeOK, Rows
  <2>3. KnownIds'
    BY <2>1 DEF IInv, TypeOK, KnownIds, Rows
  <2> QED
    BY <2>1, <2>2, <2>3, QuietStep
<1>3. ASSUME NEW e \in EntryId, NEW v \in Value, ExternalEdit(e, v) PROVE IInv'
  <2>1. /\ ledger' = [ledger EXCEPT ![e] = v] /\ ledger[e] # NoEntry
        /\ UNCHANGED <<issued, history, meta, cached, view, reconciled, refresh, window,
                       task, dedup, dialog>>
        /\ CountChange
    BY <1>3 DEF ExternalEdit, local, screen
  <2>2. TypeOK'
    BY <2>1, CountChangeType DEF IInv, TypeOK, Rows
  <2>3. KnownIds'
    BY <2>1 DEF IInv, TypeOK, KnownIds, Rows
  <2> QED
    BY <2>1, <2>2, <2>3, QuietStep
<1>4. ASSUME \/ \E e \in EntryId : OpenRow(e) \/ OpenHistory(e)
             \/ OpenTrash \/ CloseDialog \/ \E l \in EntryId : ConfirmPurge(l)
      PROVE  IInv'
  <2>1. UNCHANGED <<ledger, issued, history, meta, cached, view, reconciled, refresh,
                    window, task, dedup, changes>>
    BY <1>4 DEF OpenRow, OpenHistory, OpenTrash, CloseDialog, ConfirmPurge,
                server, local, screen
  <2>2. /\ dialog' \in Dialog
        /\ dialog'.kind = "row" => dialog'.row \in Value /\ dialog'.ids \subseteq issued
    <3>1. CASE \E e \in EntryId : OpenRow(e)
      BY <3>1 DEF OpenRow, Showing, Dialog, IInv, TypeOK, KnownIds, Rows
    <3>2. ASSUME NEW e \in EntryId, OpenHistory(e)
          PROVE  /\ dialog' \in Dialog /\ dialog'.kind # "row"
      <4>1. logical_id_for_entry(history, e) \in EntryId
        BY <3>2, LogicalId DEF OpenHistory, IInv
      <4> QED
        BY <3>2, <4>1 DEF OpenHistory, Showing, Dialog
    <3>3. CASE \/ OpenTrash \/ CloseDialog \/ \E l \in EntryId : ConfirmPurge(l)
      BY <3>3 DEF OpenTrash, CloseDialog, ConfirmPurge, NoDialog, Showing, Dialog, list_deleted
    <3> QED
      BY <1>4, <3>1, <3>2, <3>3
  <2>3. TypeOK' /\ KnownIds'
    BY <2>1, <2>2 DEF IInv, TypeOK, KnownIds
  <2> QED
    BY <2>1, <2>3, QuietStep
<1>5. ASSUME \/ ServerRefuse \/ AnswerLost \/ AnswerWithoutId
             \/ RefreshKey \/ RefreshFails \/ Crash
      PROVE  IInv'
  <2>1. /\ UNCHANGED <<ledger, issued, history, meta, cached>>
        /\ task' \in {task, NoTask}
        /\ refresh' \in {refresh, NoRefresh, SentRefresh}
        /\ window' \in {window, NoWindow}
        /\ view' \in {view, NoRows}
        /\ reconciled' \in {reconciled, FALSE}
        /\ dedup' \in {dedup, NoId}
        /\ dialog' \in {dialog, NoDialog}
    BY <1>5 DEF ServerRefuse, AnswerLost, AnswerWithoutId, RefreshKey, RefreshFails, Crash,
                server, local, screen
  <2>2. changes' \in 0..MaxChanges
    BY <1>5, CountChangeType
    DEF IInv, TypeOK, ServerRefuse, AnswerLost, AnswerWithoutId, RefreshKey, RefreshFails, Crash
  <2>3. TypeOK'
    BY <2>1, <2>2 DEF IInv, TypeOK
  <2>4. KnownIds'
    BY <2>1 DEF IInv, KnownIds, NoRefresh, SentRefresh, NoWindow, NoRows, NoDialog, Showing
  <2> QED
    BY <2>1, <2>3, <2>4, QuietStep
<1>6. CASE RefreshAnswer
  <2>1. /\ UNCHANGED <<ledger, issued, history, meta, cached, view, reconciled,
                       task, dedup, dialog, changes>>
        /\ refresh' = [stage |-> "answered", rows |-> ledger] /\ window' = NoWindow
    BY <1>6 DEF RefreshAnswer, server, local, screen
  <2>2. TypeOK'
    BY <2>1 DEF IInv, TypeOK, Refresh
  <2>3. KnownIds'
    BY <2>1 DEF IInv, KnownIds, NoWindow, NoRows
  <2> QED
    BY <2>1, <2>2, <2>3, QuietStep
<1>7. CASE DedupPurge
  <2>1. /\ UNCHANGED <<ledger, issued, history, cached, view, reconciled, task, dialog, changes>>
        /\ refresh' = SentRefresh /\ window' = NoWindow
        /\ dedup' = NoId /\ dedup \in EntryId
        /\ meta' \in {meta, purge(meta, dedup)}
    BY <1>7 DEF DedupPurge, server, screen, IInv, TypeOK
  <2>2. meta' \in Meta
    BY <2>1, PurgeType DEF IInv, TypeOK
  <2>3. TypeOK'
    BY <2>1, <2>2 DEF IInv, TypeOK
  <2>4. KnownIds'
    BY <2>1 DEF IInv, KnownIds, SentRefresh, NoWindow, NoRows
  <2> QED
    BY <2>1, <2>3, <2>4, QuietStep
<1> QED
  BY <1>1, <1>2, <1>3, <1>4, <1>5, <1>6, <1>7

\* Nothing happens.
LEMMA Stuttering == ASSUME IInv, UNCHANGED vars PROVE IInv'
<1>1. UNCHANGED <<ledger, issued, history, meta, cached, view, refresh, window, reconciled,
                  task, dedup, dialog, changes>>
  BY DEF vars
<1> QED
  BY <1>1, QuietStep DEF IInv, TypeOK, KnownIds

\* IInv is inductive.
LEMMA NextIInv == IInv /\ [Next]_vars => IInv'
<1> SUFFICES ASSUME IInv, [Next]_vars PROVE IInv'
  OBVIOUS
<1>1. CASE UserStep
  BY <1>1, UserStarts, Purges, OtherSteps DEF UserStep
<1>2. CASE ServerApply
  BY <1>2, ServerApplies
<1>3. CASE WorkerStep
  BY <1>3, WorkerRecords
<1>4. CASE RefreshStep
  BY <1>4, RefreshShows, OtherSteps DEF RefreshStep
<1>5. CASE \/ ServerRefuse \/ AnswerLost \/ AnswerWithoutId \/ RefreshFails \/ DedupPurge
           \/ Crash
           \/ \E e \in EntryId : ExternalDelete(e) \/ \E v \in Value : ExternalEdit(e, v)
  BY <1>5, OtherSteps
<1>6. CASE UNCHANGED vars
  BY <1>6, Stuttering
<1> QED
  BY <1>1, <1>2, <1>3, <1>4, <1>5, <1>6 DEF Next

\* IInv holds always, whatever circumstances May allows: the history is well
\* formed, it holds only ids the server issued, and what a worker carries across
\* its await still fits the history when it resumes.
THEOREM Invariance == Spec => []IInv
BY InitIInv, NextIInv, PTL DEF Spec

-------------------------------------------------------------------------------
(* What the invariant says of the history *)

\* Types: in particular no operation on the history leaves its type.
THEOREM TypeCorrectness == Spec => []TypeOK
<1>1. IInv => TypeOK
  BY DEF IInv
<1> QED
  BY <1>1, Invariance, PTL

\* entry_head stays what the log says under every interleaving, crash, lost
\* answer and failed transaction.
THEOREM HeadsAlwaysMatch == Spec => []HeadMatchesLog
<1>1. IInv => HeadMatchesLog
  BY DEF IInv, WellFormed, HeadsMatch, HeadMatchesLog
<1> QED
  BY <1>1, Invariance, PTL

\* No server id is ever in the histories of two logical entries, although the
\* history and the server are changed in separate steps.
THEOREM OneOwnerAlways == Spec => []OneOwner
<1>1. IInv => OneOwner
  BY DEF IInv, WellFormed, UniqueOwner, OneOwner
<1> QED
  BY <1>1, Invariance, PTL

\* Whatever is in the trash can be restored with its old local data.
THEOREM TrashAlwaysRestorable == Spec => []TrashRestorable
<1>1. IInv => TrashRestorable
  <2> SUFFICES ASSUME IInv, NEW l \in list_deleted(history)
               PROVE  /\ Len(history.revs[l]) > 1
                      /\ last_whooing_id(history, l) # NoId
                      /\ last_whooing_id(history, l) \in issued
    BY DEF TrashRestorable
  <2>1. /\ Len(history.revs[l]) > 1
        /\ last_whooing_id(history, l) \in EntryId
        /\ Owns(history, l, last_whooing_id(history, l))
        /\ l \in EntryId
    BY TrashedHasAnId DEF IInv, list_deleted
  <2> QED
    BY <2>1, NoIdAssumption DEF IInv, IdsWithin
<1> QED
  BY <1>1, Invariance, PTL

-------------------------------------------------------------------------------
(* 3. One change at a time: the user waits for a worker to end *)

\* No screen about a row or an entry is open while a worker runs.
Alone == task # NoTask => dialog = NoDialog

\* The trash lists what is in the trash, for as long as it is open.
TrashListed == dialog.kind \in {"trash", "purge"} => dialog.ids \subseteq list_deleted(history)

\* A restore is of an entry in the trash and of a value it had, a revert of a
\* live entry.
Aims(t, h) ==
    /\ t.kind = "restore" =>
          /\ h.head[t.lid].is_deleted
          /\ \E n \in DOMAIN h.revs[t.lid] : h.revs[t.lid][n].snapshot = t.val
    /\ t.kind = "revert" => h.revs[t.lid] # << >> /\ ~ h.head[t.lid].is_deleted

TaskAims == task # NoTask => Aims(task, history)

\* A tracked entry has its own id in its log: an id that no log has can become a
\* logical id.
OwnsItself(h) == \A l \in EntryId : h.revs[l] # << >> => Owns(h, l, l)

LInv == Alone /\ TrashListed /\ TaskAims /\ OwnsItself(history)

\* Every log of h is in g, maybe with more rows, and what was in the trash still is.
Keeps(g, h) ==
    \A l \in EntryId :
        /\ \A n \in DOMAIN h.revs[l] : n \in DOMAIN g.revs[l] /\ g.revs[l][n] = h.revs[l][n]
        /\ g.head[l].is_deleted = h.head[l].is_deleted
        /\ g.revs[l] = << >> <=> h.revs[l] = << >>

\* Taking in outside changes adds rows to live logs.
LEMMA ReconcileKeeps ==
    ASSUME NEW h, WellFormed(h), NEW absent,
           NEW fetched \in [EntryId -> Value \cup {absent}]
    PROVE  Keeps(reconcile_external(h, fetched, absent), h)
<1> DEFINE g == reconcile_external(h, fetched, absent)
           C == Changed(h, fetched, absent)
           cur(l) == h.head[l].current_entry_id
<1> SUFFICES ASSUME NEW l \in EntryId
             PROVE  /\ \A n \in DOMAIN h.revs[l] :
                          n \in DOMAIN g.revs[l] /\ g.revs[l][n] = h.revs[l][n]
                    /\ g.head[l].is_deleted = h.head[l].is_deleted
                    /\ g.revs[l] = << >> <=> h.revs[l] = << >>
  BY DEF Keeps
<1>1. CASE l \notin C
  <2>1. g.revs[l] = h.revs[l] /\ g.head[l] = h.head[l]
    BY <1>1 DEF reconcile_external
  <2> QED
    BY <2>1
<1>2. CASE l \in C
  <2> DEFINE r == Row(cur(l), "external", fetched[cur(l)], FALSE)
  <2>1. /\ cur(l) # NoId /\ h.revs[l] # << >> /\ fetched[cur(l)] # absent
        /\ ~ h.head[l].is_deleted
    BY <1>2 DEF Changed
  <2>2. cur(l) \in EntryId /\ h.head[l].is_deleted = FALSE /\ h.revs[l] \in Seq(RevisionRow)
    BY <2>1, HistoryFields DEF WellFormed
  <2>3. r \in RevisionRow
    <3>1. fetched[cur(l)] \in Value
      BY <2>1, <2>2
    <3> QED
      BY <2>2, <3>1 DEF Row, RevisionRow, Op
  <2>4. g.revs[l] = Append(h.revs[l], r) /\ g.head[l].is_deleted = FALSE
    BY <1>2 DEF reconcile_external, Row
  <2> HIDE DEF g, r, C
  <2>5. /\ DOMAIN h.revs[l] = 1..Len(h.revs[l]) /\ Len(h.revs[l]) \in Nat
        /\ DOMAIN g.revs[l] = 1..(Len(h.revs[l]) + 1)
        /\ \A n \in DOMAIN h.revs[l] : g.revs[l][n] = h.revs[l][n]
        /\ g.revs[l] # << >>
    BY <2>2, <2>3, <2>4, AppendRow
  <2>6. \A n \in DOMAIN h.revs[l] : n \in DOMAIN g.revs[l]
    BY <2>5
  <2> QED
    BY <2>1, <2>2, <2>4, <2>5, <2>6
<1> QED
  BY <1>1, <1>2

\* A log that keeps its rows keeps the aims of a task and the ids in it.
LEMMA KeepsAims ==
    ASSUME NEW g, NEW h, Keeps(g, h)
    PROVE  /\ \A t : t.lid \in EntryId /\ Aims(t, h) => Aims(t, g)
           /\ OwnsItself(h) => OwnsItself(g)
           /\ list_deleted(g) = list_deleted(h)
<1>1. ASSUME NEW t, t.lid \in EntryId, Aims(t, h) PROVE Aims(t, g)
  BY <1>1 DEF Aims, Keeps
<1>2. ASSUME OwnsItself(h) PROVE OwnsItself(g)
  BY <1>2 DEF OwnsItself, Owns, Keeps
<1>3. list_deleted(g) = list_deleted(h)
  BY DEF list_deleted, Keeps
<1> QED
  BY <1>1, <1>2, <1>3

\* What a transaction files under l when l is tracked or the id is l itself.
LEMMA RecordOwnsItself ==
    ASSUME NEW h \in History, OwnsItself(h), NEW l \in EntryId, NEW e \in EntryId \cup {NoId},
           NEW op \in Op, NEW v \in Value, NEW deleted \in BOOLEAN,
           h.revs[l] # << >> \/ e = l
    PROVE  OwnsItself(record_revision(h, l, e, op, v, deleted))
<1> DEFINE g == record_revision(h, l, e, op, v, deleted)
           r == Row(e, op, v, deleted)
<1>1. Extends(g, h, l, r) /\ \A k \in EntryId \ {l} : Same(g, h, k)
  BY RecordRevision
<1>2. r.whooing_entry_id = e
  BY DEF Row
<1> HIDE DEF g, r
<1>3. Owns(g, l, l)
  BY <1>1, <1>2, ExtendsOwns DEF OwnsItself
<1>4. \A k \in EntryId \ {l} : g.revs[k] # << >> => Owns(g, k, k)
  BY <1>1 DEF Same, OwnsItself, Owns
<1> QED
  BY <1>3, <1>4 DEF OwnsItself, g

\* A baseline is filed under the id itself.
LEMMA BaselineOwnsItself ==
    ASSUME NEW h, WellFormed(h), OwnsItself(h), NEW e \in EntryId, NEW v \in Value
    PROVE  /\ OwnsItself(ensure_baseline(h, e, v))
           /\ ensure_baseline(h, e, v).revs[OwnerOf(h, e)] # << >>
<1>1. OwnsItself(ensure_baseline(h, e, v))
  <2>1. "create" \in Op /\ h \in History
    BY DEF Op, WellFormed
  <2> QED
    BY <2>1, RecordOwnsItself DEF ensure_baseline
<1>2. Owns(ensure_baseline(h, e, v), OwnerOf(h, e), e)
  BY EnsureBaselineWellFormed
<1> QED
  BY <1>1, <1>2 DEF Owns

-------------------------------------------------------------------------------

\* No worker runs and no screen is open at the start.
LEMMA InitLInv == Init => LInv
BY DEF Init, LInv, Alone, TrashListed, TaskAims, OwnsItself, EmptyHistory, NoDialog, Showing

\* While a screen is open, or when the user may open one, no worker runs.
LEMMA NoTaskRuns ==
    ASSUME "overlap" \notin May, Alone, UserMayAct \/ dialog # NoDialog
    PROVE  task = NoTask
BY DEF Alone, UserMayAct, Calm

\* Steps that leave the history alone, start no task and open no screen.
LEMMA QuietLInv ==
    ASSUME LInv, history' = history, task' \in {task, NoTask}, dialog' \in {dialog, NoDialog}
    PROVE  LInv'
BY DEF LInv, Alone, TrashListed, TaskAims, NoDialog, Showing

\* The user starts a task with an aim.
LEMMA StartLInv ==
    ASSUME LInv, NEW t, StartTask(t), Aims(t, history), dialog' = NoDialog
    PROVE  LInv'
<1>1. history' = history /\ task' = t
  BY DEF StartTask, local
<1> QED
  BY <1>1 DEF LInv, Alone, TrashListed, TaskAims, NoDialog, Showing

\* Whatever change the user starts has an aim in the history.
LEMMA UserStartsLInv ==
    ASSUME IInv, LInv,
           \/ \E v \in Value, tags \in SUBSET Tag : SubmitCreate(v, tags)
           \/ \E e \in EntryId, v \in Value, tags \in SUBSET Tag : SubmitUpdate(e, v, tags)
           \/ \E e \in EntryId : SubmitDelete(e)
           \/ \E l \in EntryId : \E n \in DOMAIN history.revs[l] : RevertTo(l, n)
           \/ \E l \in EntryId : RestoreLogical(l)
    PROVE  LInv'
<1>1. ASSUME NEW v \in Value, NEW tags \in SUBSET Tag, SubmitCreate(v, tags)
      PROVE  LInv'
  <2> DEFINE t == Sent("create", NoId, NoId, NoId, NoEntry, v, tags)
  <2>1. StartTask(t) /\ dialog' = NoDialog
    BY <1>1 DEF SubmitCreate, UserMayAct
  <2>2. Aims(t, history)
    BY DEF Sent, Aims
  <2> QED
    BY <2>1, <2>2, StartLInv
<1>2. ASSUME NEW e \in EntryId, NEW v \in Value, NEW tags \in SUBSET Tag,
             SubmitUpdate(e, v, tags)
      PROVE  LInv'
  <2> DEFINE t == Sent("edit", e, NoId, NoId, dialog.row, v, tags)
  <2>1. StartTask(t) /\ dialog' = NoDialog
    BY <1>2 DEF SubmitUpdate
  <2>2. Aims(t, history)
    BY DEF Sent, Aims
  <2> QED
    BY <2>1, <2>2, StartLInv
<1>3. ASSUME NEW e \in EntryId, SubmitDelete(e) PROVE LInv'
  <2> DEFINE t == Sent("delete", e, NoId, NoId, NoEntry, dialog.row, {})
  <2>1. StartTask(t) /\ dialog' = NoDialog
    BY <1>3 DEF SubmitDelete
  <2>2. Aims(t, history)
    BY DEF Sent, Aims
  <2> QED
    BY <2>1, <2>2, StartLInv
<1>4. ASSUME NEW l \in EntryId, NEW n \in DOMAIN history.revs[l], RevertTo(l, n)
      PROVE  LInv'
  <2> DEFINE cur == history.head[l].current_entry_id
             r == Recreate(l, n)
             s == Sent("revert", cur, l, NoId, NoEntry, history.revs[l][n].snapshot, {})
  <2>1. dialog' = NoDialog
    BY <1>4 DEF RevertTo
  <2>2. history.revs[l] # << >>
    OBVIOUS
  <2>3. CASE history.head[l].is_deleted \/ cur = NoId
    <3>1. StartTask(r)
      BY <1>4, <2>3 DEF RevertTo
    <3>2. history.head[l].is_deleted
      BY <2>2, <2>3 DEF IInv, WellFormed, HeadsMatch, HeadIsLastRow
    <3>3. Aims(r, history)
      BY <3>2 DEF Recreate, Sent, Aims
    <3> QED
      BY <2>1, <3>1, <3>3, StartLInv
  <2>4. CASE ~ (history.head[l].is_deleted \/ cur = NoId)
    <3>1. StartTask(s)
      BY <1>4, <2>4 DEF RevertTo
    <3>2. Aims(s, history)
      BY <2>2, <2>4 DEF Sent, Aims
    <3> QED
      BY <2>1, <3>1, <3>2, StartLInv
  <2> QED
    BY <2>3, <2>4
<1>5. ASSUME NEW l \in EntryId, RestoreLogical(l) PROVE LInv'
  <2> DEFINE n == Len(history.revs[l])
             t == Recreate(l, n)
  <2>1. /\ history.revs[l] # << >> /\ StartTask(t) /\ dialog' = NoDialog
        /\ dialog.kind = "trash" /\ l \in dialog.ids
    BY <1>5 DEF RestoreLogical
  <2>2. n \in DOMAIN history.revs[l]
    BY <2>1, HistoryFields DEF IInv, TypeOK
  <2>3. history.head[l].is_deleted
    BY <2>1 DEF LInv, TrashListed, list_deleted
  <2>4. Aims(t, history)
    BY <2>2, <2>3 DEF Recreate, Sent, Aims
  <2> QED
    BY <2>1, <2>4, StartLInv
<1> QED
  BY <1>1, <1>2, <1>3, <1>4, <1>5

\* Whatever a worker records, the entries it tracks own themselves.
LEMMA WorkerOwnsItself ==
    ASSUME IInv, LInv, WorkerStep
    PROVE  OwnsItself(history')
<1>1. WellFormed(history) /\ history \in History /\ OwnsItself(history)
  BY DEF IInv, TypeOK, LInv
<1>2. ASSUME NEW kind, Resumes(kind)
      PROVE  /\ task \in Task /\ task.kind = kind /\ task.eid \in EntryId /\ task.val \in Value
             /\ kind = "edit" => task.prev \in Value
             /\ kind \in {"restore", "revert"} => task.lid \in EntryId /\ Aims(task, history)
  <2>1. /\ task # NoTask /\ task \in Task /\ task.kind = kind /\ task.stage = "applied"
        /\ Fits(task, history, issued) /\ issued \subseteq EntryId /\ Aims(task, history)
    BY <1>2 DEF Resumes, IInv, TypeOK, TaskFits, LInv, TaskAims
  <2> QED
    BY <2>1 DEF Fits, Task
<1>3. CASE RecordCreate
  <2>1. task.eid \in EntryId /\ task.val \in Value
    BY <1>2, <1>3 DEF RecordCreate
  <2>2. history' = history \/ history' = ensure_baseline(history, task.eid, task.val)
    BY <1>3 DEF RecordCreate
  <2> QED
    BY <1>1, <2>1, <2>2, BaselineOwnsItself
<1>4. CASE RecordEdit
  <2>1. task.eid \in EntryId /\ task.val \in Value /\ task.prev \in Value
    BY <1>2, <1>4 DEF RecordEdit
  <2> DEFINE b == ensure_baseline(history, task.eid, task.prev)
             o == OwnerOf(history, task.eid)
  <2>2. history' = history \/ history' = record_revision(b, o, task.eid, "edit", task.val, FALSE)
    BY <1>4 DEF RecordEdit, record_edit
  <2>3. /\ OwnsItself(b) /\ b.revs[o] # << >> /\ b \in History
        /\ o \in EntryId /\ "edit" \in Op
    BY <1>1, <2>1, BaselineOwnsItself, EnsureBaselineWellFormed, OwnerOfId DEF WellFormed, Op
  <2> HIDE DEF b, o
  <2> QED
    BY <1>1, <2>1, <2>2, <2>3, RecordOwnsItself
<1>5. CASE RecordDelete
  <2>1. task.eid \in EntryId /\ task.val \in Value
    BY <1>2, <1>5 DEF RecordDelete
  <2> DEFINE b == ensure_baseline(history, task.eid, task.val)
             o == OwnerOf(history, task.eid)
  <2>2. history' = history \/ history' = record_revision(b, o, NoId, "delete", task.val, TRUE)
    BY <1>5 DEF RecordDelete, record_delete
  <2>3. /\ OwnsItself(b) /\ b.revs[o] # << >> /\ b \in History
        /\ o \in EntryId /\ "delete" \in Op
    BY <1>1, <2>1, BaselineOwnsItself, EnsureBaselineWellFormed, OwnerOfId DEF WellFormed, Op
  <2> HIDE DEF b, o
  <2> QED
    BY <1>1, <2>1, <2>2, <2>3, RecordOwnsItself
<1>6. CASE RecordRestore
  <2>1. /\ task.eid \in EntryId /\ task.val \in Value /\ task.lid \in EntryId
        /\ history.revs[task.lid] # << >>
    <3>1. Resumes("restore")
      BY <1>6 DEF RecordRestore
    <3>2. task.kind = "restore" /\ Aims(task, history) /\ task.lid \in EntryId
          /\ task.eid \in EntryId /\ task.val \in Value
      BY <1>2, <3>1
    <3> QED
      BY <3>2 DEF Aims
  <2>2. \/ history' = history
        \/ history' = record_revision(history, task.lid, task.eid, "restore", task.val, FALSE)
    BY <1>6 DEF RecordRestore
  <2> QED
    BY <1>1, <2>1, <2>2, RecordOwnsItself DEF Op
<1>7. CASE RecordRevert
  <2>1. /\ task.eid \in EntryId /\ task.val \in Value /\ task.lid \in EntryId
        /\ history.revs[task.lid] # << >>
    <3>1. Resumes("revert")
      BY <1>7 DEF RecordRevert
    <3>2. task.kind = "revert" /\ Aims(task, history) /\ task.lid \in EntryId
          /\ task.eid \in EntryId /\ task.val \in Value
      BY <1>2, <3>1
    <3> QED
      BY <3>2 DEF Aims
  <2>2. \/ history' = history
        \/ history' = record_revision(history, task.lid, task.eid, "revert", task.val, FALSE)
    BY <1>7 DEF RecordRevert
  <2> QED
    BY <1>1, <2>1, <2>2, RecordOwnsItself DEF Op
<1> QED
  BY <1>3, <1>4, <1>5, <1>6, <1>7 DEF WorkerStep

\* LInv is inductive when the user waits for a worker to end.
LEMMA NextLInv ==
    ASSUME "overlap" \notin May, IInv, LInv, [Next]_vars
    PROVE  LInv'
<1>1. CASE \/ \E v \in Value, tags \in SUBSET Tag : SubmitCreate(v, tags)
           \/ \E e \in EntryId, v \in Value, tags \in SUBSET Tag : SubmitUpdate(e, v, tags)
           \/ \E e \in EntryId : SubmitDelete(e)
           \/ \E l \in EntryId : \E n \in DOMAIN history.revs[l] : RevertTo(l, n)
           \/ \E l \in EntryId : RestoreLogical(l)
  BY <1>1, UserStartsLInv
<1>2. CASE \/ \E e \in EntryId : OpenRow(e) \/ OpenHistory(e)
           \/ OpenTrash \/ \E l \in EntryId : ConfirmPurge(l)
  <2>1. task = NoTask
    BY <1>2, NoTaskRuns
    DEF LInv, OpenRow, OpenHistory, OpenTrash, ConfirmPurge, NoDialog, Showing
  <2>2. UNCHANGED <<task, history>>
    BY <1>2 DEF OpenRow, OpenHistory, OpenTrash, ConfirmPurge, local
  <2>3. TrashListed'
    <3>1. CASE \E e \in EntryId : OpenRow(e) \/ OpenHistory(e)
      BY <3>1 DEF OpenRow, OpenHistory, Showing, TrashListed
    <3>2. CASE OpenTrash
      BY <2>2, <3>2 DEF OpenTrash, Showing, TrashListed
    <3>3. ASSUME NEW l \in EntryId, ConfirmPurge(l) PROVE TrashListed'
      BY <2>2, <3>3 DEF ConfirmPurge, Showing, TrashListed, LInv
    <3> QED
      BY <1>2, <3>1, <3>2, <3>3
  <2> QED
    BY <2>1, <2>2, <2>3 DEF LInv, Alone, TaskAims
<1>3. ASSUME NEW l \in EntryId, PurgeLogical(l) PROVE LInv'
  <2>1. task = NoTask
    BY <1>3, NoTaskRuns DEF LInv, PurgeLogical, NoDialog, Showing
  <2>2. task' = task /\ dialog' = NoDialog
    BY <1>3 DEF PurgeLogical
  <2>3. history' = history \/ history' = purge_logical(history, l)
    BY <1>3 DEF PurgeLogical
  <2>4. OwnsItself(purge_logical(history, l))
    <3>1. /\ purge_logical(history, l).revs[l] = << >>
          /\ \A k \in EntryId \ {l} : purge_logical(history, l).revs[k] = history.revs[k]
      BY DEF IInv, WellFormed, History, purge_logical
    <3> QED
      BY <3>1 DEF LInv, OwnsItself, Owns
  <2> QED
    BY <2>1, <2>2, <2>3, <2>4 DEF LInv, Alone, TrashListed, TaskAims, NoDialog, Showing
<1>4. CASE ServerApply
  <2>1. /\ task \in Task /\ task # NoTask /\ UNCHANGED <<history, dialog>>
        /\ task'.kind = task.kind /\ task'.lid = task.lid /\ task'.val = task.val
    BY <1>4 DEF ServerApply, IInv, TypeOK, Task, local
  <2> QED
    BY <2>1 DEF LInv, Alone, TrashListed, TaskAims, Aims
<1>5. CASE WorkerStep
  <2>1. task # NoTask /\ task' = NoTask /\ dialog' = dialog
    BY <1>5 DEF WorkerStep, RecordCreate, RecordEdit, RecordDelete, RecordRestore, RecordRevert,
                Resumes
  <2> QED
    BY <1>5, <2>1, WorkerOwnsItself DEF LInv, Alone, TrashListed, TaskAims, NoDialog, Showing
<1>6. CASE RefreshFromCache \/ RefreshApply
  <2>1. PICK rows \in Rows : Show(rows)
    BY <1>6 DEF RefreshFromCache, RefreshApply, IInv, TypeOK, Window, Refresh
  <2>2. /\ UNCHANGED <<task, dialog>>
        /\ history' = history \/ history' = reconcile_external(history, rows, NoEntry)
    BY <2>1 DEF Show
  <2>3. history' = history \/ Keeps(history', history)
    BY <2>2, ReconcileKeeps DEF IInv, Rows
  <2>4. CASE history' = history
    BY <2>2, <2>4, QuietLInv
  <2>5. CASE Keeps(history', history)
    <3>1. OwnsItself(history') /\ list_deleted(history') = list_deleted(history)
      BY <2>5, KeepsAims DEF LInv
    <3>2. task # NoTask => Aims(task, history')
      <4>1. task # NoTask /\ task.lid \notin EntryId => task.kind \notin {"restore", "revert"}
        BY DEF IInv, TaskFits, Fits
      <4>2. task # NoTask => Aims(task, history)
        BY DEF LInv, TaskAims
      <4> QED
        BY <2>5, <4>1, <4>2, KeepsAims DEF Aims
    <3> QED
      BY <2>2, <3>1, <3>2 DEF LInv, Alone, TrashListed, TaskAims
  <2> QED
    BY <2>3, <2>4, <2>5
<1>7. CASE \/ \E e \in EntryId, f \in File : AttachFile(e, f)
           \/ \E e \in EntryId : DedupDelete(e) \/ ExternalDelete(e)
           \/ \E e \in EntryId, v \in Value : ExternalEdit(e, v)
           \/ CloseDialog \/ ServerRefuse \/ AnswerLost \/ AnswerWithoutId
           \/ RefreshKey \/ RefreshAnswer \/ RefreshFails \/ DedupPurge \/ Crash
           \/ UNCHANGED vars
  <2>1. /\ history' = history /\ task' \in {task, NoTask} /\ dialog' \in {dialog, NoDialog}
    BY <1>7
    DEF AttachFile, DedupDelete, ExternalDelete, ExternalEdit, CloseDialog, ServerRefuse,
        AnswerLost, AnswerWithoutId, RefreshKey, RefreshAnswer, RefreshFails, DedupPurge,
        Crash, local, vars
  <2> QED
    BY <2>1, QuietLInv
<1> QED
  BY <1>1, <1>2, <1>3, <1>4, <1>5, <1>6, <1>7 DEF Next, UserStep, RefreshStep

\* LInv holds always when the user waits for a worker to end, whatever else May
\* allows: no screen is open while a worker runs, a restore is of an entry in the
\* trash and a revert of a live one, until they resume.
THEOREM InvarianceAlone ==
    ASSUME "overlap" \notin May
    PROVE  Spec => [](IInv /\ LInv)
<1>1. Init => IInv /\ LInv
  BY InitIInv, InitLInv
<1>2. IInv /\ LInv /\ [Next]_vars => (IInv /\ LInv)'
  BY NextIInv, NextLInv
<1> QED
  BY <1>1, <1>2, PTL DEF Spec

-------------------------------------------------------------------------------
(* 4. The history implements EntryLifecycle *)

\* The values in the log of l.
Past(h, l) == {h.revs[l][n].snapshot : n \in DOMAIN h.revs[l]}

\* The parts of a life, for a tracked and an untracked entry.
LEMMA LifeFields ==
    ASSUME NEW l \in EntryId
    PROVE  /\ history.revs[l] = << >> => Life(l) = Lifecycle!Untracked
           /\ history.revs[l] # << >> =>
                 /\ Life(l).state = StateOf(l)
                 /\ Life(l).now = latest_revision(history, l).snapshot
                 /\ Life(l).past = Past(history, l)
           /\ Life(l).past = Past(history, l)
           /\ Life(l) = [state |-> Life(l).state, now |-> Life(l).now, past |-> Life(l).past]
<1>1. CASE history.revs[l] = << >>
  <2>1. Past(history, l) = {}
    BY <1>1 DEF Past
  <2> QED
    BY <1>1, <2>1 DEF Life, Lifecycle!Untracked
<1>2. CASE history.revs[l] # << >>
  BY <1>2 DEF Life, Past
<1> QED
  BY <1>1, <1>2

\* A new row adds its value to those of its log.
LEMMA PastGrows ==
    ASSUME NEW g, NEW h, NEW l \in EntryId, NEW r, Extends(g, h, l, r)
    PROVE  /\ Past(g, l) = Past(h, l) \cup {r.snapshot}
           /\ latest_revision(g, l) = r
           /\ g.head[l].is_deleted = r.is_deleted
           /\ g.revs[l] # << >>
<1> DEFINE n == Len(h.revs[l])
<1>1. /\ n \in Nat
      /\ DOMAIN h.revs[l] = 1..n
      /\ DOMAIN g.revs[l] = 1..(n + 1)
      /\ \A i \in 1..n : g.revs[l][i] = h.revs[l][i]
      /\ g.revs[l][n + 1] = r
      /\ Len(g.revs[l]) = n + 1
      /\ g.revs[l] # << >>
      /\ g.head[l].is_deleted = r.is_deleted
  BY DEF Extends
<1> HIDE DEF n
<1>2. 1..(n + 1) = (1..n) \cup {n + 1}
  BY <1>1
<1>3. Past(g, l) = Past(h, l) \cup {r.snapshot}
  BY <1>1, <1>2 DEF Past
<1> QED
  BY <1>1, <1>3 DEF latest_revision

\* What a logical entry becomes when its log is given the value v last.
LEMMA NewLife ==
    ASSUME NEW l \in EntryId, NEW v, NEW seen, NEW state, StateOf(l)' = state,
           history'.revs[l] # << >>,
           latest_revision(history', l).snapshot = v,
           Past(history', l) = Past(history, l) \cup {v} \cup seen,
           \A k \in EntryId \ {l} : Life(k)' = Life(k)
    PROVE  Lifecycle!Keep(l, state, v, seen)
<1>1. Life(l)' = [state |-> state, now |-> v, past |-> Past(history', l)]
  BY DEF Life, Past
<1>2. Life(l).past = Past(history, l)
  BY LifeFields
<1>3. Life(l)' = [state |-> state, now |-> v, past |-> Life(l).past \cup {v} \cup seen]
  BY <1>1, <1>2
<1> QED
  BY <1>3 DEF Lifecycle!Keep

\* A logical entry that does not own the entry of the task lives on as it is.
LEMMA OtherLives ==
    ASSUME NEW k \in EntryId, Same(history', history, k),
           \A e \in EntryId : Owns(history, k, e) => (OnServer(e)' <=> OnServer(e))
    PROVE  Life(k)' = Life(k)
<1>1. history'.revs[k] = history.revs[k] /\ history'.head[k] = history.head[k]
  BY DEF Same
<1>2. \A e : Owns(history, k, e)' <=> Owns(history, k, e)
  BY <1>1 DEF Owns
<1>3. (\E e \in EntryId : Owns(history, k, e) /\ OnServer(e))'
         <=> \E e \in EntryId : Owns(history, k, e) /\ OnServer(e)
  BY <1>2
<1>4. StateOf(k)' = StateOf(k)
  BY <1>1, <1>3 DEF StateOf
<1> QED
  BY <1>1, <1>4 DEF Life, latest_revision

\* A step of EntryLifecycle, or none.
Simulated == Lifecycle!Next \/ \A l \in EntryId : Life(l)' = Life(l)

\* When only the entry x may have left the server, its owner may vanish.
LEMMA QuietLife ==
    ASSUME IInv, history' = history, NEW x,
           \A e \in EntryId \ {x} : OnServer(e)' <=> OnServer(e),
           x \in EntryId /\ OnServer(x)' =>
              OnServer(x) \/ \A l \in EntryId : ~ Owns(history, l, x)
    PROVE  Simulated
<1>1. CASE \A l \in EntryId : x \in EntryId => ~ Owns(history, l, x)
  <2>1. \A k \in EntryId : Life(k)' = Life(k)
    BY <1>1, OtherLives DEF Same
  <2> QED
    BY <2>1 DEF Simulated
<1>2. ASSUME NEW l \in EntryId, x \in EntryId, Owns(history, l, x)
      PROVE  Simulated
  <2>1. \A k \in EntryId \ {l} : ~ Owns(history, k, x)
    BY <1>2 DEF IInv, WellFormed, UniqueOwner
  <2>2. \A k \in EntryId \ {l} : Life(k)' = Life(k)
    BY <2>1, OtherLives DEF Same
  <2>3. CASE OnServer(x)' <=> OnServer(x)
    <3>1. Life(l)' = Life(l)
      BY <2>3, OtherLives DEF Same
    <3> QED
      BY <2>2, <3>1 DEF Simulated
  <2>4. CASE ~ (OnServer(x)' <=> OnServer(x))
    <3>1. OnServer(x)
      BY <1>2, <2>4
    <3>2. history.revs[l] # << >> /\ \A e : Owns(history, l, e)' <=> Owns(history, l, e)
      BY <1>2 DEF Owns
    <3>3. CASE ~ history.head[l].is_deleted
      <4>1. Life(l)' = Life(l)
        BY <3>3 DEF Life, StateOf, latest_revision
      <4> QED
        BY <2>2, <4>1 DEF Simulated
    <3>4. CASE history.head[l].is_deleted
      <4>1. StateOf(l) = "mistaken"
        BY <1>2, <3>1, <3>4 DEF StateOf
      <4>2. CASE StateOf(l)' = "mistaken"
        <5>1. Life(l)' = Life(l)
          BY <4>1, <4>2 DEF Life, latest_revision
        <5> QED
          BY <2>2, <5>1 DEF Simulated
      <4>3. CASE StateOf(l)' # "mistaken"
        <5>1. StateOf(l)' = "trashed"
          BY <3>4, <4>3 DEF StateOf
        <5>2. Life(l) = [state |-> "mistaken", now |-> Life(l).now, past |-> Life(l).past]
          BY <3>2, <4>1 DEF Life
        <5>3. Life(l)' = [state |-> "trashed", now |-> Life(l).now, past |-> Life(l).past]
          BY <3>2, <5>1 DEF Life, latest_revision
        <5>4. Life(l)' = [Life(l) EXCEPT !.state = "trashed"] /\ Life(l).state = "mistaken"
          BY <5>2, <5>3
        <5>5. Lifecycle!Vanish(l)
          BY <2>2, <5>4 DEF Lifecycle!Vanish
        <5> QED
          BY <5>5 DEF Simulated, Lifecycle!Next
      <4> QED
        BY <4>2, <4>3
    <3> QED
      BY <3>3, <3>4
  <2> QED
    BY <2>3, <2>4
<1> QED
  BY <1>1, <1>2

\* Steps that leave the history alone.
LEMMA QuietSimulated ==
    ASSUME "overlap" \notin May, IInv, LInv, history' = history, [Next]_vars
    PROVE  Simulated
<1>1. CASE ledger' = ledger /\ task' \in {task, NoTask}
  <2>1. PICK x : x = task.eid
    OBVIOUS
  <2>2. \A e \in EntryId \ {x} : OnServer(e)' <=> OnServer(e)
    BY <1>1, <2>1 DEF OnServer
  <2>3. OnServer(x)' => OnServer(x)
    BY <1>1 DEF OnServer
  <2> QED
    BY <2>2, <2>3, QuietLife
<1>2. CASE ledger' = ledger /\ task = NoTask /\ task'.stage = "sent"
  <2>1. \A e \in EntryId : OnServer(e)' <=> OnServer(e)
    BY <1>2 DEF OnServer
  <2> QED
    BY <2>1, QuietLife
<1>3. CASE \/ \E v \in Value, tags \in SUBSET Tag : SubmitCreate(v, tags)
           \/ \E e \in EntryId, v \in Value, tags \in SUBSET Tag : SubmitUpdate(e, v, tags)
           \/ \E e \in EntryId : SubmitDelete(e)
           \/ \E l \in EntryId : \E n \in DOMAIN history.revs[l] : RevertTo(l, n)
           \/ \E l \in EntryId : RestoreLogical(l)
  <2>1. ledger' = ledger /\ task'.stage = "sent"
    BY <1>3
    DEF SubmitCreate, SubmitUpdate, SubmitDelete, RevertTo, RestoreLogical, StartTask, Recreate,
        Sent, server
  <2>2. UserMayAct \/ dialog # NoDialog
    BY <1>3
    DEF SubmitCreate, SubmitUpdate, SubmitDelete, OnRow, RevertTo, RestoreLogical, NoDialog,
        Showing
  <2>3. task = NoTask
    BY <2>2, NoTaskRuns DEF LInv
  <2> QED
    BY <1>2, <2>1, <2>3
<1>4. CASE \/ \E e \in EntryId : OpenRow(e) \/ OpenHistory(e)
           \/ \E e \in EntryId, f \in File : AttachFile(e, f)
           \/ OpenTrash \/ CloseDialog \/ RefreshKey \/ RefreshStep \/ RefreshFails
           \/ \E l \in EntryId : ConfirmPurge(l) \/ PurgeLogical(l)
           \/ ServerRefuse \/ AnswerLost \/ AnswerWithoutId \/ DedupPurge \/ Crash
           \/ WorkerStep \/ UNCHANGED vars
  <2>1. ledger' = ledger /\ task' \in {task, NoTask}
    BY <1>4
    DEF OpenRow, OpenHistory, AttachFile, OpenTrash, CloseDialog, RefreshKey, RefreshStep,
        RefreshFromCache, RefreshAnswer, RefreshApply, Show, RefreshFails, ConfirmPurge,
        PurgeLogical, ServerRefuse, AnswerLost, AnswerWithoutId, DedupPurge, Crash, WorkerStep,
        RecordCreate, RecordEdit, RecordDelete, RecordRestore, RecordRevert, Resumes, server,
        vars
  <2> QED
    BY <1>1, <2>1
<1>5. ASSUME NEW e \in EntryId, task' = task,
             \/ ledger' = [ledger EXCEPT ![e] = NoEntry]
             \/ ledger[e] # NoEntry /\ \E v \in Value : ledger' = [ledger EXCEPT ![e] = v]
      PROVE  Simulated
  <2>1. ledger \in [EntryId -> Value \cup {NoEntry}]
    BY DEF IInv, TypeOK, Rows
  <2>2. \A k \in EntryId \ {e} : OnServer(k)' <=> OnServer(k)
    BY <1>5, <2>1 DEF OnServer
  <2>3. OnServer(e)' => OnServer(e)
    BY <1>5, <2>1 DEF OnServer
  <2> QED
    BY <2>2, <2>3, QuietLife
<1>6. CASE \/ \E e \in EntryId : DedupDelete(e) \/ ExternalDelete(e)
           \/ \E e \in EntryId, v \in Value : ExternalEdit(e, v)
  BY <1>5, <1>6 DEF DedupDelete, ExternalDelete, ExternalEdit
<1>7. CASE ServerApply
  <2>1. /\ task \in Task /\ task # NoTask /\ Fits(task, history, issued)
        /\ ledger \in [EntryId -> Value \cup {NoEntry}] /\ issued \subseteq EntryId
        /\ NoEntry \notin Value /\ task.val \in Value /\ task.stage = "sent"
    BY <1>7, EntryHistoryAssumption DEF ServerApply, IInv, TypeOK, TaskFits, Rows, Task
  <2>2. CASE task.kind \in {"create", "restore"}
    <3>1. PICK e \in EntryId \ issued :
             /\ ledger' = [ledger EXCEPT ![e] = task.val]
             /\ task' = [task EXCEPT !.stage = "applied", !.eid = e]
      BY <1>7, <2>2 DEF ServerApply
    <3>2. task'.kind # "edit"
      BY <2>1, <2>2, <3>1 DEF Task
    <3>3. \A k \in EntryId \ {e} : OnServer(k)' <=> OnServer(k)
      BY <2>1, <2>2, <3>1, <3>2 DEF OnServer
    <3>4. \A l \in EntryId : ~ Owns(history, l, e)
      BY <3>1 DEF IInv, IdsWithin
    <3> QED
      BY <3>3, <3>4, QuietLife
  <2>3. CASE task.kind \in {"edit", "revert", "delete"}
    <3>0. PICK e : e = task.eid
      OBVIOUS
    <3>1. /\ task'.kind = task.kind /\ task'.eid = e /\ e \in EntryId
          /\ \/ ledger[e] # NoEntry /\ ledger' = [ledger EXCEPT ![e] = task.val]
             \/ task.kind = "delete" /\ ledger' = [ledger EXCEPT ![e] = NoEntry]
      BY <1>7, <2>1, <2>3, <3>0 DEF ServerApply, Task, Fits
    <3>2. \A k \in EntryId \ {e} : OnServer(k)' <=> OnServer(k)
      BY <2>1, <3>1 DEF OnServer
    <3>3. OnServer(e)' => OnServer(e)
      BY <2>1, <3>1 DEF OnServer
    <3> QED
      BY <3>2, <3>3, QuietLife
  <2> QED
    BY <2>1, <2>2, <2>3 DEF Task
<1> QED
  BY <1>3, <1>4, <1>6, <1>7 DEF Next, UserStep

\* A worker that files under l, and whose entry no other logical entry owns,
\* leaves the others as they are.
LEMMA OthersLive ==
    ASSUME NEW kind, Resumes(kind), NEW l \in EntryId,
           \A k \in EntryId \ {l} : Same(history', history, k),
           \A k \in EntryId : Owns(history, k, task.eid) => k = l
    PROVE  \A k \in EntryId \ {l} : Life(k)' = Life(k)
<1>1. ledger' = ledger /\ task' = NoTask
  BY DEF Resumes, server
<1>2. PICK x : x = task.eid
  OBVIOUS
<1>3. \A e \in EntryId \ {x} : OnServer(e)' <=> OnServer(e)
  BY <1>1, <1>2 DEF OnServer
<1> QED
  BY <1>2, <1>3, OtherLives

\* What a worker finds when it resumes.
LEMMA Resumed ==
    ASSUME IInv, LInv, NEW kind, Resumes(kind)
    PROVE  /\ WellFormed(history) /\ history \in History /\ OwnsItself(history)
           /\ task \in Task /\ task.kind = kind /\ task.stage = "applied"
           /\ task.eid \in EntryId /\ task.val \in Value
           /\ kind = "edit" => task.prev \in Value
           /\ kind \in {"restore", "revert"} =>
                 /\ task.lid \in EntryId
                 /\ \A l \in EntryId : Owns(history, l, task.eid) => l = task.lid
                 /\ Aims(task, history)
<1>1. /\ task # NoTask /\ task \in Task /\ task.kind = kind /\ task.stage = "applied"
      /\ Fits(task, history, issued) /\ issued \subseteq EntryId /\ Aims(task, history)
  BY DEF Resumes, IInv, TypeOK, TaskFits, LInv, TaskAims
<1> QED
  BY <1>1 DEF Fits, Task, IInv, TypeOK, LInv

\* An id without an owner is not tracked.
LEMMA NoOwner ==
    ASSUME NEW h, WellFormed(h), OwnsItself(h), NEW e \in EntryId,
           logical_id_for_entry(h, e) = NoId
    PROVE  h.revs[e] = << >> /\ OwnerOf(h, e) = e
BY LogicalId DEF OwnsItself, OwnerOf

\* g is h with the row r filed last under l, and the values of `seen' before it.
Filed(g, h, l, r, seen) ==
    /\ g.revs[l] # << >>
    /\ latest_revision(g, l) = r
    /\ g.head[l].is_deleted = r.is_deleted
    /\ Past(g, l) = Past(h, l) \cup {r.snapshot} \cup seen
    /\ \A k \in EntryId \ {l} : Same(g, h, k)

\* One row is filed without another before it.
LEMMA RecordFiles ==
    ASSUME NEW h \in History, NEW l \in EntryId, NEW e \in EntryId \cup {NoId},
           NEW op \in Op, NEW v \in Value, NEW deleted \in BOOLEAN
    PROVE  Filed(record_revision(h, l, e, op, v, deleted), h, l, Row(e, op, v, deleted), {})
<1>1. PICK g, r : g = record_revision(h, l, e, op, v, deleted) /\ r = Row(e, op, v, deleted)
  OBVIOUS
<1>2. Extends(g, h, l, r) /\ \A k \in EntryId \ {l} : Same(g, h, k)
  BY <1>1, RecordRevision
<1>3. /\ Past(g, l) = Past(h, l) \cup {r.snapshot} /\ latest_revision(g, l) = r
      /\ g.head[l].is_deleted = r.is_deleted /\ g.revs[l] # << >>
  BY <1>2, PastGrows
<1> QED
  BY <1>1, <1>2, <1>3 DEF Filed

\* A row is filed under the owner of e after a baseline of e.
LEMMA BaselineFiles ==
    ASSUME NEW h, WellFormed(h), NEW e \in EntryId, NEW first \in Value,
           NEW x \in EntryId \cup {NoId}, NEW op \in Op, NEW v \in Value, NEW deleted \in BOOLEAN
    PROVE  Filed(record_revision(ensure_baseline(h, e, first), OwnerOf(h, e), x, op, v, deleted),
                 h, OwnerOf(h, e), Row(x, op, v, deleted),
                 IF logical_id_for_entry(h, e) = NoId THEN {first} ELSE {})
<1>1. PICK o \in EntryId : o = OwnerOf(h, e)
  BY OwnerOfId
<1>2. PICK b : b = ensure_baseline(h, e, first)
  OBVIOUS
<1>3. PICK g, r : g = record_revision(b, o, x, op, v, deleted) /\ r = Row(x, op, v, deleted)
  OBVIOUS
<1>4. PICK seen : seen = IF logical_id_for_entry(h, e) = NoId THEN {first} ELSE {}
  OBVIOUS
<1>5. b \in History /\ h \in History
  BY <1>2, EnsureBaselineWellFormed DEF WellFormed
<1>6. Filed(g, b, o, r, {})
  BY <1>3, <1>5, RecordFiles
<1>7. Past(b, o) = Past(h, o) \cup seen /\ \A k \in EntryId \ {o} : Same(b, h, k)
  <2>1. CASE logical_id_for_entry(h, e) # NoId
    BY <1>2, <1>4, <2>1 DEF ensure_baseline, Same
  <2>2. CASE logical_id_for_entry(h, e) = NoId
    <3>1. o = e /\ b = record_revision(h, o, e, "create", first, FALSE) /\ "create" \in Op
      BY <1>1, <1>2, <2>2 DEF OwnerOf, ensure_baseline, Op
    <3>2. Filed(b, h, o, Row(e, "create", first, FALSE), {})
      BY <1>5, <3>1, RecordFiles
    <3> QED
      BY <1>4, <2>2, <3>2 DEF Filed, Row
  <2> QED
    BY <2>1, <2>2
<1>8. Filed(g, h, o, r, seen)
  BY <1>6, <1>7 DEF Filed, Same
<1> QED
  BY <1>1, <1>2, <1>3, <1>4, <1>8

\* What a worker files under l goes on with the life of l.
LEMMA FiledLife ==
    ASSUME NEW kind, Resumes(kind), NEW l \in EntryId, NEW r, NEW seen,
           Filed(history', history, l, r, seen),
           \A k \in EntryId : Owns(history, k, task.eid) => k = l
    PROVE  /\ r.is_deleted = FALSE => Lifecycle!Keep(l, "live", r.snapshot, seen)
           /\ r.is_deleted = TRUE =>
                 \E state \in Lifecycle!InTrash : Lifecycle!Keep(l, state, r.snapshot, seen)
<1>1. \A k \in EntryId \ {l} : Life(k)' = Life(k)
  BY OthersLive DEF Filed
<1>2. PICK state : state = StateOf(l)'
  OBVIOUS
<1>3. Lifecycle!Keep(l, state, r.snapshot, seen)
  BY <1>1, <1>2, NewLife DEF Filed
<1>4. /\ r.is_deleted = FALSE => state = "live"
      /\ r.is_deleted = TRUE => state \in Lifecycle!InTrash
  BY <1>2 DEF StateOf, Lifecycle!InTrash, Filed
<1> QED
  BY <1>3, <1>4

\* A created entry is adopted.
LEMMA CreateSimulated == ASSUME IInv, LInv, RecordCreate, history' # history PROVE Simulated
<1>1. Resumes("create") /\ history' = ensure_baseline(history, task.eid, task.val)
  BY DEF RecordCreate
<1>2. PICK e \in EntryId, v \in Value : e = task.eid /\ v = task.val
  BY <1>1, Resumed
<1>3. WellFormed(history) /\ history \in History /\ OwnsItself(history)
  BY <1>1, Resumed
<1>4. /\ logical_id_for_entry(history, e) = NoId
      /\ history' = record_revision(history, e, e, "create", v, FALSE)
  BY <1>1, <1>2 DEF ensure_baseline
<1>5. history.revs[e] = << >> /\ \A k \in EntryId : ~ Owns(history, k, e)
  BY <1>3, <1>4, NoOwner, LogicalId
<1>6. PICK r : r = Row(e, "create", v, FALSE)
  OBVIOUS
<1>7. Filed(history', history, e, r, {})
  <2>1. "create" \in Op
    BY DEF Op
  <2>2. Filed(record_revision(history, e, e, "create", v, FALSE), history, e,
              Row(e, "create", v, FALSE), {})
    BY <1>3, <2>1, RecordFiles
  <2> QED
    BY <1>4, <1>6, <2>2
<1>8. Lifecycle!Keep(e, "live", v, {})
  <2>1. r.snapshot = v /\ r.is_deleted = FALSE
    BY <1>6 DEF Row
  <2>2. \A k \in EntryId : Owns(history, k, task.eid) => k = e
    BY <1>2, <1>5
  <2> QED
    BY <1>1, <1>7, <2>1, <2>2, FiledLife
<1>9. Life(e).state = "untracked"
  BY <1>5 DEF Life
<1>10. Lifecycle!Adopt(e, v)
  BY <1>8, <1>9 DEF Lifecycle!Adopt
<1> QED
  BY <1>10 DEF Simulated, Lifecycle!Next

\* An edit of a tracked entry edits it, wherever it is; that of another adopts it
\* with the value it had.
LEMMA EditSimulated == ASSUME IInv, LInv, RecordEdit, history' # history PROVE Simulated
<1>1. Resumes("edit") /\ history' = record_edit(history, task.eid, task.prev, task.val)
  BY DEF RecordEdit
<1>2. PICK e \in EntryId, v \in Value, prev \in Value :
         e = task.eid /\ v = task.val /\ prev = task.prev
  BY <1>1, Resumed
<1>3. WellFormed(history) /\ OwnsItself(history)
  BY <1>1, Resumed
<1>4. PICK o \in EntryId : o = OwnerOf(history, e)
  BY <1>3, OwnerOfId
<1>5. PICK r : r = Row(e, "edit", v, FALSE)
  OBVIOUS
<1>6. PICK seen : seen = IF logical_id_for_entry(history, e) = NoId THEN {prev} ELSE {}
  OBVIOUS
<1>7. Filed(history', history, o, r, seen)
  <2>1. "edit" \in Op
    BY DEF Op
  <2>2. Filed(record_edit(history, e, prev, v), history, OwnerOf(history, e),
              Row(e, "edit", v, FALSE),
              IF logical_id_for_entry(history, e) = NoId THEN {prev} ELSE {})
    BY <1>3, <2>1, BaselineFiles DEF record_edit
  <2> QED
    BY <1>1, <1>2, <1>4, <1>5, <1>6, <2>2
<1>8. \A k \in EntryId : Owns(history, k, e) => k = o
  BY <1>3, <1>4, OwnerOfId
<1>9. Lifecycle!Keep(o, "live", v, seen)
  <2>1. r.snapshot = v /\ r.is_deleted = FALSE
    BY <1>5 DEF Row
  <2>2. \A k \in EntryId : Owns(history, k, task.eid) => k = o
    BY <1>2, <1>8
  <2> QED
    BY <1>1, <1>7, <2>1, <2>2, FiledLife
<1>10. CASE logical_id_for_entry(history, e) = NoId
  <2>1. Life(o).state = "untracked"
    BY <1>3, <1>4, <1>10, NoOwner DEF Life
  <2>2. Lifecycle!AdoptAndEdit(o, prev, v)
    BY <1>6, <1>9, <1>10, <2>1 DEF Lifecycle!AdoptAndEdit
  <2> QED
    BY <2>2 DEF Simulated, Lifecycle!Next
<1>11. CASE logical_id_for_entry(history, e) # NoId
  <2>1. Owns(history, o, e)
    BY <1>3, <1>4, <1>11, LogicalId DEF OwnerOf
  <2>2. OnServer(e)
    BY <1>1, <1>2 DEF Resumes, OnServer
  <2>3. Life(o).state \in {"live", "mistaken"}
    <3>1. history.revs[o] # << >>
      BY <2>1 DEF Owns
    <3>2. StateOf(o) \in {"live", "mistaken"}
      BY <2>1, <2>2 DEF StateOf
    <3> QED
      BY <3>1, <3>2, LifeFields
  <2>4. Lifecycle!Edit(o, v)
    BY <1>6, <1>9, <1>11, <2>3 DEF Lifecycle!Edit
  <2> QED
    BY <2>4 DEF Simulated, Lifecycle!Next
<1> QED
  BY <1>10, <1>11

\* A delete puts the owner into the trash, by mistake if it has another id on
\* the server.
LEMMA DeleteSimulated == ASSUME IInv, LInv, RecordDelete, history' # history PROVE Simulated
<1>1. Resumes("delete") /\ history' = record_delete(history, task.eid, task.val)
  BY DEF RecordDelete
<1>2. PICK e \in EntryId, v \in Value : e = task.eid /\ v = task.val
  BY <1>1, Resumed
<1>3. WellFormed(history)
  BY <1>1, Resumed
<1>4. PICK o \in EntryId : o = OwnerOf(history, e)
  BY <1>3, OwnerOfId
<1>5. PICK r : r = Row(NoId, "delete", v, TRUE)
  OBVIOUS
<1>6. PICK seen : seen = IF logical_id_for_entry(history, e) = NoId THEN {v} ELSE {}
  OBVIOUS
<1>7. Filed(history', history, o, r, seen)
  <2>1. "delete" \in Op
    BY DEF Op
  <2>2. Filed(record_delete(history, e, v), history, OwnerOf(history, e),
              Row(NoId, "delete", v, TRUE),
              IF logical_id_for_entry(history, e) = NoId THEN {v} ELSE {})
    BY <1>3, <2>1, BaselineFiles DEF record_delete
  <2> QED
    BY <1>1, <1>2, <1>4, <1>5, <1>6, <2>2
<1>8. Filed(history', history, o, r, {})
  BY <1>5, <1>6, <1>7 DEF Filed, Row
<1>9. \A k \in EntryId : Owns(history, k, e) => k = o
  BY <1>3, <1>4, OwnerOfId
<1>10. \E state \in Lifecycle!InTrash : Lifecycle!Keep(o, state, v, {})
  <2>1. r.snapshot = v /\ r.is_deleted = TRUE
    BY <1>5 DEF Row
  <2>2. \A k \in EntryId : Owns(history, k, task.eid) => k = o
    BY <1>2, <1>9
  <2> QED
    BY <1>1, <1>8, <2>1, <2>2, FiledLife
<1>11. Lifecycle!Trash(o, v)
  BY <1>10 DEF Lifecycle!Trash
<1> QED
  BY <1>11 DEF Simulated, Lifecycle!Next

\* A restore takes an entry out of the trash with a value it had; a revert is an
\* edit of a live entry.
LEMMA RestoreSimulated ==
    ASSUME IInv, LInv, RecordRestore \/ RecordRevert, history' # history
    PROVE  Simulated
<1>1. PICK op \in {"restore", "revert"} :
         /\ Resumes(op)
         /\ history' = record_revision(history, task.lid, task.eid, op, task.val, FALSE)
  BY DEF RecordRestore, RecordRevert
<1>2. PICK e \in EntryId, v \in Value, l \in EntryId :
         e = task.eid /\ v = task.val /\ l = task.lid
  BY <1>1, Resumed
<1>3. /\ WellFormed(history) /\ history \in History /\ task.kind = op /\ Aims(task, history)
      /\ \A k \in EntryId : Owns(history, k, e) => k = l
  BY <1>1, <1>2, Resumed
<1>4. PICK r : r = Row(e, op, v, FALSE)
  OBVIOUS
<1>5. Filed(history', history, l, r, {})
  <2>1. op \in Op
    BY DEF Op
  <2>2. Filed(record_revision(history, l, e, op, v, FALSE), history, l, Row(e, op, v, FALSE), {})
    BY <1>3, <2>1, RecordFiles
  <2> QED
    BY <1>1, <1>2, <1>4, <2>2
<1>6. Lifecycle!Keep(l, "live", v, {})
  <2>1. r.snapshot = v /\ r.is_deleted = FALSE
    BY <1>4 DEF Row
  <2>2. \A k \in EntryId : Owns(history, k, task.eid) => k = l
    BY <1>2, <1>3
  <2> QED
    BY <1>1, <1>5, <2>1, <2>2, FiledLife
<1>7. CASE op = "restore"
  <2>1. history.head[l].is_deleted /\ v \in Past(history, l) /\ history.revs[l] # << >>
    BY <1>2, <1>3, <1>7 DEF Aims, Past
  <2>2. StateOf(l) \in Lifecycle!InTrash
    BY <2>1 DEF StateOf, Lifecycle!InTrash
  <2>3. Life(l).state \in Lifecycle!InTrash /\ v \in Life(l).past
    BY <2>1, <2>2, LifeFields
  <2>4. Lifecycle!Restore(l, v)
    BY <1>6, <2>3 DEF Lifecycle!Restore
  <2> QED
    BY <2>4 DEF Simulated, Lifecycle!Next
<1>8. CASE op = "revert"
  <2>1. ~ history.head[l].is_deleted /\ history.revs[l] # << >>
    BY <1>2, <1>3, <1>8 DEF Aims
  <2>2. Life(l).state = "live"
    BY <2>1 DEF Life, StateOf
  <2>3. Lifecycle!Edit(l, v)
    BY <1>6, <2>2 DEF Lifecycle!Edit
  <2> QED
    BY <2>3 DEF Simulated, Lifecycle!Next
<1> QED
  BY <1>7, <1>8

\* A purge forgets an entry that is in the trash.
LEMMA PurgeSimulated ==
    ASSUME IInv, LInv, NEW l \in EntryId, PurgeLogical(l), history' # history
    PROVE  Simulated
<1>1. /\ history' = purge_logical(history, l) /\ UNCHANGED <<ledger, task>>
      /\ dialog.kind = "purge" /\ l \in dialog.ids
  BY DEF PurgeLogical, server
<1>2. /\ history'.revs[l] = << >>
      /\ \A k \in EntryId \ {l} : Same(history', history, k)
  BY <1>1 DEF purge_logical, IInv, WellFormed, History, Same
<1>3. \A e : OnServer(e)' <=> OnServer(e)
  BY <1>1 DEF OnServer
<1>4. \A k \in EntryId \ {l} : Life(k)' = Life(k)
  BY <1>2, <1>3, OtherLives
<1>5. Life(l)' = Lifecycle!Untracked
  BY <1>2 DEF Life, Lifecycle!Untracked
<1>6. Life(l).state \in Lifecycle!InTrash
  <2>1. history.head[l].is_deleted
    BY <1>1 DEF LInv, TrashListed, list_deleted
  <2>2. history.revs[l] # << >>
    BY <2>1 DEF IInv, WellFormed, HeadsMatch, HeadIsLastRow, NoHead
  <2> QED
    BY <2>1, <2>2 DEF Life, StateOf, Lifecycle!InTrash
<1>7. Lifecycle!Purge(l)
  BY <1>4, <1>5, <1>6 DEF Lifecycle!Purge
<1> QED
  BY <1>7 DEF Simulated, Lifecycle!Next

\* g is h with the value v taken in last for the live entry l.
TakenIn(g, h, l, v) ==
    /\ v \in Value
    /\ h.head[l].is_deleted = FALSE /\ h.revs[l] # << >>
    /\ g.head[l].is_deleted = FALSE /\ g.revs[l] # << >>
    /\ latest_revision(g, l).snapshot = v
    /\ Past(g, l) = Past(h, l) \cup {v}

\* Changes from outside are filed last in the logs of live entries.
LEMMA ReconcileFiles ==
    ASSUME NEW h, WellFormed(h), NEW absent,
           NEW fetched \in [EntryId -> Value \cup {absent}],
           NEW l \in EntryId
    PROVE  /\ l \notin Changed(h, fetched, absent) =>
                 Same(reconcile_external(h, fetched, absent), h, l)
           /\ l \in Changed(h, fetched, absent) =>
                 TakenIn(reconcile_external(h, fetched, absent), h, l,
                         fetched[h.head[l].current_entry_id])
<1>0. PICK g : g = reconcile_external(h, fetched, absent)
  OBVIOUS
<1>1. CASE l \notin Changed(h, fetched, absent)
  BY <1>1 DEF reconcile_external, Same
<1>2. CASE l \in Changed(h, fetched, absent)
  <2>1. PICK e : e = h.head[l].current_entry_id
    OBVIOUS
  <2>2. /\ e # NoId /\ h.revs[l] # << >> /\ fetched[e] # absent
        /\ ~ h.head[l].is_deleted
    BY <1>2, <2>1 DEF Changed
  <2>3. e \in EntryId /\ h.head[l].is_deleted = FALSE /\ h.revs[l] \in Seq(RevisionRow)
    BY <2>1, <2>2, HistoryFields DEF WellFormed
  <2>4. PICK v \in Value : v = fetched[e]
    BY <2>2, <2>3
  <2>5. PICK r : r = Row(e, "external", v, FALSE)
    OBVIOUS
  <2>6. r \in RevisionRow /\ r.snapshot = v
    BY <2>3, <2>5 DEF Row, RevisionRow, Op
  <2>7. g.revs[l] = Append(h.revs[l], r) /\ g.head[l].is_deleted = FALSE
    BY <1>0, <1>2, <2>1, <2>4, <2>5 DEF reconcile_external, Row
  <2>8. PICK n \in Nat : n = Len(h.revs[l])
    BY <2>3, HistoryFields DEF WellFormed
  <2>9. /\ DOMAIN h.revs[l] = 1..n /\ DOMAIN g.revs[l] = 1..(n + 1)
        /\ \A i \in 1..n : g.revs[l][i] = h.revs[l][i]
        /\ Len(g.revs[l]) = n + 1 /\ g.revs[l][n + 1] = r
        /\ g.revs[l] # << >>
    BY <2>3, <2>6, <2>7, <2>8, AppendRow
  <2>10. Past(g, l) = Past(h, l) \cup {v}
    <3>1. 1..(n + 1) = (1..n) \cup {n + 1}
      OBVIOUS
    <3> QED
      BY <2>6, <2>9, <3>1 DEF Past
  <2>11. latest_revision(g, l).snapshot = v
    BY <2>6, <2>9 DEF latest_revision
  <2> QED
    BY <1>0, <1>2, <2>1, <2>2, <2>3, <2>4, <2>7, <2>9, <2>10, <2>11 DEF TakenIn
<1> QED
  BY <1>1, <1>2

\* The first refresh of the screen absorbs what changed elsewhere.
LEMMA ShowSimulated ==
    ASSUME IInv, LInv, NEW rows \in Rows, Show(rows), history' # history
    PROVE  Simulated
<1>1. UNCHANGED <<ledger, task>> /\ history' = reconcile_external(history, rows, NoEntry)
  BY DEF Show, server
<1>2. WellFormed(history) /\ rows \in [EntryId -> Value \cup {NoEntry}]
  BY DEF IInv, Rows
<1>3. PICK S : S = Changed(history, rows, NoEntry)
  OBVIOUS
<1>4. S \subseteq EntryId
  BY <1>3 DEF Changed
<1>5. \A l \in EntryId \ S : Same(history', history, l)
  BY <1>1, <1>2, <1>3, ReconcileFiles
<1>6. \A e : OnServer(e)' <=> OnServer(e)
  BY <1>1 DEF OnServer
<1>7. \A l \in EntryId \ S : Life(l)' = Life(l)
  BY <1>5, <1>6, OtherLives
<1>8. PICK seen : seen = [l \in S |-> rows[history.head[l].current_entry_id]]
  OBVIOUS
<1>9. ASSUME NEW l \in S
      PROVE  /\ seen[l] \in Value
             /\ Life(l).state = "live"
             /\ Life(l)' = [state |-> "live", now |-> seen[l], past |-> Life(l).past \cup {seen[l]}]
  <2>1. TakenIn(history', history, l, seen[l])
    BY <1>1, <1>2, <1>3, <1>4, <1>8, ReconcileFiles
  <2>2. Life(l).state = "live" /\ Life(l).past = Past(history, l)
    BY <2>1 DEF TakenIn, Life, StateOf, Past
  <2> QED
    BY <2>1, <2>2 DEF TakenIn, Life, StateOf, Past
<1>10. seen \in [S -> Value]
  BY <1>8, <1>9
<1>11. Lifecycle!Absorb(seen)
  <2>1. DOMAIN seen = S
    BY <1>8
  <2>2. \A l \in EntryId :
           Life(l)' = IF l \in S
                      THEN [state |-> "live", now |-> seen[l], past |-> Life(l).past \cup {seen[l]}]
                      ELSE Life(l)
    BY <1>7, <1>9
  <2> QED
    BY <1>4, <1>9, <2>1, <2>2 DEF Lifecycle!Absorb
<1>12. Lifecycle!Next
  BY <1>4, <1>10, <1>11 DEF Lifecycle!Next
<1> QED
  BY <1>12 DEF Simulated

\* Every step is a step of EntryLifecycle or leaves the lives as they are.
LEMMA NextSimulated ==
    ASSUME "overlap" \notin May, IInv, LInv, [Next]_vars
    PROVE  Simulated
<1>1. CASE history' = history
  BY <1>1, QuietSimulated
<1>2. CASE history' # history
  <2>1. CASE WorkerStep
    BY <1>2, <2>1, CreateSimulated, EditSimulated, DeleteSimulated, RestoreSimulated
    DEF WorkerStep
  <2>2. CASE \E l \in EntryId : PurgeLogical(l)
    BY <1>2, <2>2, PurgeSimulated
  <2>3. CASE RefreshFromCache \/ RefreshApply
    <3>1. PICK rows \in Rows : Show(rows)
      BY <2>3 DEF RefreshFromCache, RefreshApply, IInv, TypeOK, Window, Refresh
    <3> QED
      BY <1>2, <3>1, ShowSimulated
  <2>4. WorkerStep \/ (\E l \in EntryId : PurgeLogical(l)) \/ RefreshFromCache \/ RefreshApply
    BY <1>2
    DEF Next, UserStep, RefreshStep, SubmitCreate, SubmitUpdate, SubmitDelete, RevertTo,
        RestoreLogical, StartTask, OpenRow, OpenHistory, AttachFile, OpenTrash, CloseDialog,
        ConfirmPurge, RefreshKey, RefreshAnswer, RefreshFails, ServerApply, ServerRefuse,
        AnswerLost, AnswerWithoutId, DedupDelete, DedupPurge, ExternalEdit, ExternalDelete,
        Crash, local, vars
  <2> QED
    BY <2>1, <2>2, <2>3, <2>4
<1> QED
  BY <1>1, <1>2

\* The history implements EntryLifecycle: whatever is lost, crashes, fails or is
\* done elsewhere, an entry lives only such a life, as long as the user waits for
\* a worker to end.
THEOREM HistoryImplementsLifecycle ==
    ASSUME "overlap" \notin May
    PROVE  Spec => LifecycleSpec
<1>1. Init => Lifecycle!Init
  <2> SUFFICES ASSUME Init PROVE Lifecycle!Init
    OBVIOUS
  <2>1. \A l \in EntryId : Life(l) = Lifecycle!Untracked
    BY DEF Init, EmptyHistory, Life, Lifecycle!Untracked
  <2> QED
    BY <2>1 DEF Lifecycle!Init
<1>2. IInv /\ LInv /\ [Next]_vars => [Lifecycle!Next]_([l \in EntryId |-> Life(l)])
  BY NextSimulated DEF Simulated
<1> QED
  BY <1>1, <1>2, InvarianceAlone, PTL DEF Spec, LifecycleSpec, Lifecycle!Spec

-------------------------------------------------------------------------------
(* 5. A delete that reached the server is recorded *)

\* What a delete files ends with its owner, which has the id, in the trash.
LEMMA DeleteTrashes ==
    ASSUME NEW h, WellFormed(h), NEW e \in EntryId, NEW v \in Value
    PROVE  \E l \in list_deleted(record_delete(h, e, v)) : Owns(record_delete(h, e, v), l, e)
<1>1. PICK o \in EntryId : o = OwnerOf(h, e)
  BY OwnerOfId
<1>2. PICK b : b = ensure_baseline(h, e, v)
  OBVIOUS
<1>3. PICK g, r : g = record_revision(b, o, NoId, "delete", v, TRUE) /\ r = Row(NoId, "delete", v, TRUE)
  OBVIOUS
<1>4. b \in History /\ Owns(b, o, e)
  BY <1>1, <1>2, EnsureBaselineWellFormed DEF WellFormed
<1>5. "delete" \in Op
  BY DEF Op
<1>6. Extends(g, b, o, r)
  BY <1>3, <1>4, <1>5, RecordRevision
<1>7. Owns(g, o, e)
  BY <1>4, <1>6, ExtendsOwns
<1>8. r.is_deleted = TRUE
  BY <1>3 DEF Row
<1>9. g.head[o].is_deleted
  BY <1>1, <1>4, <1>6, <1>8 DEF Extends
<1> QED
  BY <1>1, <1>2, <1>3, <1>7, <1>9 DEF record_delete, list_deleted

\* Unless the user starts another change, the answer is lost, the process dies or
\* the local transaction fails, a delete the server carried out is in the trash.
THEOREM DeletesReachTrash ==
    ASSUME May \cap {"overlap", "lost", "crash", "disk"} = {}
    PROVE  Spec => DeleteReachesTrash
<1>1. /\ "overlap" \notin May /\ "lost" \notin May /\ "crash" \notin May /\ "disk" \notin May
  OBVIOUS
<1>2. ASSUME IInv, LInv, Next, task # NoTask, task.kind = "delete", task.stage = "applied",
             task' # task
      PROVE  \E l \in list_deleted(history') : Owns(history', l, task.eid)
  <2>1. RecordDelete
    <3>1. dialog = NoDialog /\ ~ UserMayAct
      BY <1>1, <1>2, NoTaskRuns DEF LInv, Alone
    <3> QED
      BY <1>1, <1>2, <3>1
      DEF Next, UserStep, WorkerStep, RefreshStep, SubmitCreate, SubmitUpdate, SubmitDelete,
          OnRow, RevertTo, RestoreLogical, OpenRow, OpenHistory, AttachFile, OpenTrash,
          CloseDialog, ConfirmPurge, PurgeLogical, RefreshKey, RefreshAnswer, RefreshFails,
          RefreshFromCache, RefreshApply, Show, ServerApply, ServerRefuse, AnswerLost,
          AnswerWithoutId, DedupDelete, DedupPurge, ExternalEdit, ExternalDelete, Crash,
          RecordCreate, RecordEdit, RecordRestore, RecordRevert, Resumes, NoDialog, Showing
  <2>2. history' = record_delete(history, task.eid, task.val)
    BY <1>1, <2>1 DEF RecordDelete, Failures
  <2>3. PICK e \in EntryId, v \in Value : e = task.eid /\ v = task.val
    BY <1>2, <2>1, Resumed DEF RecordDelete
  <2> QED
    BY <1>2, <2>2, <2>3, DeleteTrashes DEF IInv
<1>3. IInv /\ LInv /\ [Next]_vars =>
         [(task # NoTask /\ task.kind = "delete" /\ task.stage = "applied" /\ task' # task)
             => \E l \in list_deleted(history') : Owns(history', l, task.eid)]_vars
  BY <1>2
<1> QED
  BY <1>1, <1>3, InvarianceAlone, PTL DEF Spec, DeleteReachesTrash

-------------------------------------------------------------------------------
(* 6. One user who waits for each change and its refresh *)

\* The ledger `led' is the projection of the history h.
Projects(h, led) ==
    \A l \in EntryId : h.revs[l] # << >> =>
        /\ ~ h.head[l].is_deleted =>
              led[h.head[l].current_entry_id] = latest_revision(h, l).snapshot
        /\ \A e \in EntryId :
              Owns(h, l, e) /\ e # h.head[l].current_entry_id => led[e] = NoEntry

\* The current id of a logical entry is one of its ids.
LEMMA CurrentOwned ==
    ASSUME NEW h, WellFormed(h), NEW l \in EntryId, h.revs[l] # << >>, ~ h.head[l].is_deleted
    PROVE  /\ h.head[l].current_entry_id \in EntryId
           /\ Owns(h, l, h.head[l].current_entry_id)
<1>1. h \in History /\ HeadIsLastRow(h, l)
  BY DEF WellFormed, HeadsMatch
<1>2. /\ h.head[l].current_entry_id = latest_revision(h, l).whooing_entry_id
      /\ h.head[l].current_entry_id # NoId
  BY <1>1 DEF HeadIsLastRow
<1>3. Len(h.revs[l]) \in DOMAIN h.revs[l] /\ h.head[l].current_entry_id \in EntryId \cup {NoId}
  BY <1>1, HistoryFields
<1> QED
  BY <1>2, <1>3 DEF Owns, latest_revision

\* The id e may be filed under l: nothing else owns it, and l has no other one
\* on the server.
MayFile(h, l, e) ==
    /\ \A k \in EntryId : Owns(h, k, e) => k = l
    /\ h.revs[l] # << >> => h.head[l].current_entry_id \in {e, NoId}

\* g has no id under l that h has not, but e.
AddsOnly(g, h, l, e) == \A x \in EntryId : Owns(g, l, x) => Owns(h, l, x) \/ x = e

\* Two ledgers that differ at e only.
Apart(after, before, e) == \A x \in EntryId \ {e} : after[x] = before[x]

\* The ledger changed from `before' to `after' at e only, to what the row r says.
Reflects(after, before, e, r) ==
    /\ Apart(after, before, e)
    /\ \/ r.is_deleted = FALSE /\ r.whooing_entry_id = e /\ after[e] = r.snapshot
       \/ r.is_deleted = TRUE /\ after[e] = NoEntry

\* Filing the row r of the entry e last under l keeps the projection when only e
\* changed on the server, to what r says.
LEMMA FiledProjects ==
    ASSUME NEW h, WellFormed(h), NEW g, WellFormed(g), NEW l \in EntryId, NEW e \in EntryId,
           NEW r, NEW seen, Filed(g, h, l, r, seen), AddsOnly(g, h, l, e), MayFile(h, l, e),
           NEW before, NEW after, Projects(h, before), Reflects(after, before, e, r)
    PROVE  Projects(g, after)
<1>0. /\ \A x \in EntryId : Owns(g, l, x) => Owns(h, l, x) \/ x = e
      /\ \A k \in EntryId : Owns(h, k, e) => k = l
      /\ h.revs[l] # << >> => h.head[l].current_entry_id \in {e, NoId}
      /\ \A x \in EntryId \ {e} : after[x] = before[x]
  BY DEF AddsOnly, MayFile, Reflects, Apart
<1>1. ASSUME NEW k \in EntryId \ {l}, g.revs[k] # << >>
      PROVE  /\ ~ g.head[k].is_deleted =>
                   after[g.head[k].current_entry_id] = latest_revision(g, k).snapshot
             /\ \A x \in EntryId :
                   Owns(g, k, x) /\ x # g.head[k].current_entry_id => after[x] = NoEntry
  <2>1. Same(g, h, k)
    BY DEF Filed
  <2>2. /\ h.revs[k] # << >>
        /\ g.head[k] = h.head[k]
        /\ latest_revision(g, k) = latest_revision(h, k)
        /\ \A x : Owns(g, k, x) <=> Owns(h, k, x)
    BY <1>1, <2>1 DEF Same, latest_revision, Owns
  <2>3. ASSUME NEW x \in EntryId, Owns(h, k, x) PROVE after[x] = before[x]
    BY <1>0, <2>3
  <2>4. ~ h.head[k].is_deleted =>
           after[h.head[k].current_entry_id] = before[h.head[k].current_entry_id]
    BY <2>2, <2>3, CurrentOwned
  <2>5. /\ ~ h.head[k].is_deleted =>
              before[h.head[k].current_entry_id] = latest_revision(h, k).snapshot
        /\ \A x \in EntryId :
              Owns(h, k, x) /\ x # h.head[k].current_entry_id => before[x] = NoEntry
    BY <2>2 DEF Projects
  <2> QED
    BY <2>2, <2>3, <2>4, <2>5
<1>2. ASSUME NEW x \in EntryId, Owns(h, l, x), x # e PROVE after[x] = NoEntry
  <2>1. h.revs[l] # << >>
    BY <1>2, EmptySeq DEF Owns
  <2>2. x # h.head[l].current_entry_id
    BY <1>0, <1>2, <2>1, NoIdAssumption
  <2>3. before[x] = NoEntry
    BY <1>2, <2>1, <2>2 DEF Projects
  <2> QED
    BY <1>0, <1>2, <2>3
<1>3. /\ g.head[l].is_deleted = r.is_deleted
      /\ latest_revision(g, l) = r
      /\ g.head[l].current_entry_id = r.whooing_entry_id
      /\ r.is_deleted <=> r.whooing_entry_id = NoId
  BY DEF Filed, WellFormed, HeadsMatch, HeadIsLastRow
<1>4. CASE r.is_deleted = FALSE /\ r.whooing_entry_id = e /\ after[e] = r.snapshot
  BY <1>0, <1>1, <1>2, <1>3, <1>4 DEF Projects
<1>5. CASE r.is_deleted = TRUE /\ after[e] = NoEntry
  BY <1>0, <1>1, <1>2, <1>3, <1>5 DEF Projects
<1> QED
  BY <1>4, <1>5 DEF Reflects

\* The owner of an entry on the server has it as its current one.
LEMMA OwnerIsCurrent ==
    ASSUME NEW h, WellFormed(h), OwnsItself(h), NEW e \in EntryId,
           NEW led, Projects(h, led), led[e] # NoEntry
    PROVE  /\ h.revs[OwnerOf(h, e)] # << >> => h.head[OwnerOf(h, e)].current_entry_id = e
           /\ \A l \in EntryId : Owns(h, l, e) =>
                 /\ h.head[l].current_entry_id = e
                 /\ latest_revision(h, l).snapshot = led[e]
<1>1. ASSUME NEW l \in EntryId, Owns(h, l, e)
      PROVE  /\ h.head[l].current_entry_id = e
             /\ latest_revision(h, l).snapshot = led[e]
  <2>1. h.revs[l] # << >>
    BY <1>1, EmptySeq DEF Owns
  <2>2. h.head[l].current_entry_id = e
    BY <1>1, <2>1 DEF Projects
  <2>3. ~ h.head[l].is_deleted
    BY <2>1, <2>2, NoIdAssumption DEF WellFormed, HeadsMatch, HeadIsLastRow
  <2> QED
    BY <2>1, <2>2, <2>3 DEF Projects
<1>2. CASE logical_id_for_entry(h, e) = NoId
  BY <1>1, <1>2, NoOwner
<1>3. CASE logical_id_for_entry(h, e) # NoId
  BY <1>1, <1>3, LogicalId DEF OwnerOf
<1> QED
  BY <1>1, <1>2, <1>3

\* The transactions of the workers make the history say again what the server
\* has.  After a create:
LEMMA CreateProjects ==
    ASSUME NEW h, WellFormed(h), OwnsItself(h), NEW e \in EntryId, NEW v \in Value,
           \A l \in EntryId : ~ Owns(h, l, e),
           NEW led \in Rows, Projects(h, led), led[e] = v
    PROVE  Projects(ensure_baseline(h, e, v), led)
<1>1. logical_id_for_entry(h, e) = NoId
  BY LogicalId, NoIdAssumption
<1>2. PICK g, r : g = ensure_baseline(h, e, v) /\ r = Row(e, "create", v, FALSE)
  OBVIOUS
<1>3. /\ g = record_revision(h, e, e, "create", v, FALSE)
      /\ OwnerOf(h, e) = e /\ h.revs[e] = << >>
  BY <1>1, <1>2, NoOwner DEF ensure_baseline
<1>4. "create" \in Op /\ h \in History
  BY DEF Op, WellFormed
<1>5. Filed(g, h, e, r, {})
  BY <1>2, <1>3, <1>4, RecordFiles
<1>6. WellFormed(g)
  BY <1>2, EnsureBaselineWellFormed
<1>7. AddsOnly(g, h, e, e) /\ MayFile(h, e, e)
  <2>1. AddsOnly(g, h, e, e)
    BY <1>2, EnsureBaselineWellFormed DEF AddsOnly
  <2>2. MayFile(h, e, e)
    BY <1>3 DEF MayFile
  <2> QED
    BY <2>1, <2>2
<1>8. Reflects(led, led, e, r)
  BY <1>2 DEF Row, Reflects, Apart
<1>9. Projects(g, led)
  BY <1>5, <1>6, <1>7, <1>8, FiledProjects
<1> QED
  BY <1>2, <1>9

\* After an edit of an entry on the server.
LEMMA EditProjects ==
    ASSUME NEW h, WellFormed(h), OwnsItself(h), NEW e \in EntryId,
           NEW prev \in Value, NEW v \in Value,
           NEW before \in Rows, NEW after \in Rows, Projects(h, before), before[e] # NoEntry,
           \A x \in EntryId \ {e} : after[x] = before[x], after[e] = v
    PROVE  Projects(record_edit(h, e, prev, v), after)
<1>1. PICK o \in EntryId : o = OwnerOf(h, e) /\ \A k \in EntryId : Owns(h, k, e) => k = o
  BY OwnerOfId
<1>2. PICK g, r, seen : /\ g = record_edit(h, e, prev, v)
                        /\ r = Row(e, "edit", v, FALSE)
                        /\ seen = IF logical_id_for_entry(h, e) = NoId THEN {prev} ELSE {}
  OBVIOUS
<1>3. "edit" \in Op
  BY DEF Op
<1>4. Filed(g, h, o, r, seen)
  BY <1>1, <1>2, <1>3, BaselineFiles DEF record_edit
<1>5. WellFormed(g) /\ AddsOnly(g, h, o, e)
  BY <1>2, RecordEditWellFormed DEF AddsOnly
<1>6. MayFile(h, o, e)
  BY <1>1, OwnerIsCurrent DEF MayFile
<1>7. Reflects(after, before, e, r)
  BY <1>2 DEF Row, Reflects, Apart
<1>8. Projects(g, after)
  BY <1>4, <1>5, <1>6, <1>7, FiledProjects
<1> QED
  BY <1>2, <1>8

\* After a delete.
LEMMA DeleteProjects ==
    ASSUME NEW h, WellFormed(h), OwnsItself(h), NEW e \in EntryId, NEW v \in Value,
           NEW before \in Rows, NEW after \in Rows, Projects(h, before), before[e] # NoEntry,
           \A x \in EntryId \ {e} : after[x] = before[x], after[e] = NoEntry
    PROVE  Projects(record_delete(h, e, v), after)
<1>1. PICK o \in EntryId : o = OwnerOf(h, e) /\ \A k \in EntryId : Owns(h, k, e) => k = o
  BY OwnerOfId
<1>2. PICK g, r, seen : /\ g = record_delete(h, e, v)
                        /\ r = Row(NoId, "delete", v, TRUE)
                        /\ seen = IF logical_id_for_entry(h, e) = NoId THEN {v} ELSE {}
  OBVIOUS
<1>3. "delete" \in Op
  BY DEF Op
<1>4. Filed(g, h, o, r, seen)
  BY <1>1, <1>2, <1>3, BaselineFiles DEF record_delete
<1>5. WellFormed(g) /\ AddsOnly(g, h, o, e)
  BY <1>2, RecordDeleteWellFormed DEF AddsOnly
<1>6. MayFile(h, o, e)
  BY <1>1, OwnerIsCurrent DEF MayFile
<1>7. Reflects(after, before, e, r)
  BY <1>2 DEF Row, Reflects, Apart
<1>8. Projects(g, after)
  BY <1>4, <1>5, <1>6, <1>7, FiledProjects
<1> QED
  BY <1>2, <1>8

\* After a restore and a revert.
LEMMA RestoreProjects ==
    ASSUME NEW h, WellFormed(h), NEW l \in EntryId, NEW e \in EntryId, NEW op \in Op,
           NEW v \in Value, MayFile(h, l, e), NEW before \in Rows,
           NEW after \in Rows, Projects(h, before), after[e] = v,
           Apart(after, before, e)
    PROVE  Projects(record_revision(h, l, e, op, v, FALSE), after)
<1>1. h \in History /\ e # NoId
  BY NoIdAssumption DEF WellFormed
<1>2. PICK g, r : g = record_revision(h, l, e, op, v, FALSE) /\ r = Row(e, op, v, FALSE)
  OBVIOUS
<1>3. Filed(g, h, l, r, {})
  BY <1>1, <1>2, RecordFiles
<1>4. Files(g, h, l, e)
  BY <1>1, <1>2, RecordRevisionFiles DEF MayFile
<1>5. Reflects(after, before, e, r)
  BY <1>2 DEF Row, Reflects
<1>6. WellFormed(g)
  BY <1>4 DEF Files
<1>7. AddsOnly(g, h, l, e)
  BY <1>4 DEF Files, AddsOnly
<1>8. Projects(g, after)
  BY <1>3, <1>5, <1>6, <1>7, FiledProjects
<1> QED
  BY <1>2, <1>8

\* A purge takes a logical entry out of the history that says so.
LEMMA PurgeProjects ==
    ASSUME NEW h, WellFormed(h), NEW l \in EntryId, NEW led, Projects(h, led)
    PROVE  Projects(purge_logical(h, l), led)
<1> DEFINE g == purge_logical(h, l)
<1>1. /\ g.revs[l] = << >>
      /\ \A k \in EntryId \ {l} : Same(g, h, k)
  BY DEF purge_logical, WellFormed, History, Same
<1> HIDE DEF g
<1>2. ASSUME NEW k \in EntryId, g.revs[k] # << >>
      PROVE  /\ k # l /\ h.revs[k] # << >> /\ g.head[k] = h.head[k]
             /\ latest_revision(g, k) = latest_revision(h, k)
             /\ \A x : Owns(g, k, x) <=> Owns(h, k, x)
  BY <1>1, <1>2 DEF Same, latest_revision, Owns
<1> QED
  BY <1>2 DEF Projects, g

-------------------------------------------------------------------------------

\* The server carried out the request of the worker, which has yet to resume.
Applied == task # NoTask /\ task.stage = "applied"

\* The entry e was changed, or given out, by a request that is not recorded yet.
Unrecorded(e) == Applied /\ task.eid = e /\ task.kind \in {"edit", "revert", "delete"}
Fresh(e)      == Applied /\ task.eid = e /\ task.kind \in {"create", "restore"}

\* Rows from the server are the ledger, but for what is not recorded yet.
Shows(rows) ==
    \A e \in EntryId :
        \/ rows[e] = ledger[e]
        \/ Unrecorded(e)
        \/ Fresh(e) /\ rows[e] = NoEntry

\* A screen is open only when nothing runs, and nothing is changed before the
\* first rows are shown.
Waits ==
    /\ dedup = NoId
    /\ dialog # NoDialog => task = NoTask /\ refresh.stage = "none"
    /\ ~ reconciled => /\ task = NoTask
                       /\ dialog = NoDialog
                       /\ refresh.stage # "none"
                       /\ history = EmptyHistory

\* What the refresh, the client and the screens hold of the ledger.
Shown ==
    /\ refresh.stage = "answered" => Shows(refresh.rows)
    /\ window.stored => Shows(window.rows)
    /\ refresh.stage = "none" /\ ~ Applied => view = ledger
    /\ dialog.kind = "row" => \A e \in dialog.ids : ledger[e] = dialog.row

CacheFollows == \A e \in EntryId : cached[e] \in {NoEntry, ledger[e]} \/ Unrecorded(e)

\* What the worker holds across its await is what the stores say.
Carries ==
    task # NoTask =>
        /\ task.kind = "edit" /\ task.stage = "sent" => ledger[task.eid] = task.prev
        /\ task.kind = "delete" /\ task.stage = "sent" => ledger[task.eid] = task.val
        /\ task.kind = "revert" => history.head[task.lid].current_entry_id = task.eid
        /\ task.stage = "applied" =>
              ledger[task.eid] = IF task.kind = "delete" THEN NoEntry ELSE task.val
        /\ task.kind \in {"create", "restore"} /\ task.stage = "applied" =>
              \A l \in EntryId : ~ Owns(history, l, task.eid)

\* The ledger is the projection of the history, but for the change that is not
\* recorded yet: the history still says what the entry was.
HistoryFollows ==
    /\ (\A e \in EntryId : ~ Unrecorded(e)) => Projects(history, ledger)
    /\ \A e \in EntryId : Unrecorded(e) =>
          \E v \in Value : /\ task.kind = "edit" => v = task.prev
                           /\ Projects(history, [ledger EXCEPT ![e] = v])

CalmInv == Waits /\ Shown /\ CacheFollows /\ Carries /\ HistoryFollows

-------------------------------------------------------------------------------

\* Nothing has been changed and the first refresh runs.
LEMMA InitCalm == Init => CalmInv
<1> SUFFICES ASSUME Init PROVE CalmInv
  OBVIOUS
<1>1. task = NoTask /\ ~ Applied
  BY DEF Init, Applied
<1>2. Projects(history, ledger)
  BY DEF Init, EmptyHistory, Projects
<1>3. Waits /\ Shown
  BY <1>1 DEF Init, Waits, Shown, SentRefresh, NoWindow, NoDialog, Showing
<1>4. CacheFollows
  BY DEF Init, CacheFollows, NoRows
<1> QED
  BY <1>1, <1>2, <1>3, <1>4 DEF CalmInv, Carries, HistoryFollows, Unrecorded

\* Steps that change neither store, while the task goes on or ends unapplied.
LEMMA StillStores ==
    ASSUME CalmInv, UNCHANGED <<ledger, history, cached>>,
           task' = task \/ (task' = NoTask /\ ~ Applied)
    PROVE  /\ CacheFollows' /\ Carries' /\ HistoryFollows'
           /\ Applied' <=> Applied
           /\ \A rows : Shows(rows)' <=> Shows(rows)
<1>1. CASE task' = task
  BY <1>1 DEF CalmInv, CacheFollows, Carries, HistoryFollows, Applied, Unrecorded, Fresh, Shows
<1>2. CASE task' = NoTask /\ ~ Applied
  <2>1. Applied' <=> Applied
    BY <1>2 DEF Applied
  <2>2. \A e : (Unrecorded(e)' <=> Unrecorded(e)) /\ (Fresh(e)' <=> Fresh(e))
    BY <1>2, <2>1 DEF Unrecorded, Fresh
  <2>3. ~ Unrecorded(NoId) /\ \A e \in EntryId : ~ Unrecorded(e)
    BY <1>2 DEF Unrecorded
  <2> QED
    BY <1>2, <2>1, <2>2, <2>3 DEF CalmInv, CacheFollows, Carries, HistoryFollows, Shows
<1> QED
  BY <1>1, <1>2

\* The user starts a task on what the screens show.
LEMMA StartCalm ==
    ASSUME CalmInv, NEW t, StartTask(t), t.stage = "sent", t # NoTask,
           dialog' = NoDialog, task = NoTask, refresh.stage = "none",
           t.kind = "edit" => ledger[t.eid] = t.prev,
           t.kind = "delete" => ledger[t.eid] = t.val,
           t.kind = "revert" => history.head[t.lid].current_entry_id = t.eid
    PROVE  CalmInv'
<1>1. task' = t /\ UNCHANGED <<ledger, history, cached, view, reconciled, refresh, window, dedup>>
  BY DEF StartTask, server, local, screen
<1>2. ~ Applied /\ ~ Applied'
  BY <1>1 DEF Applied
<1>3. \A e : ~ Unrecorded(e) /\ ~ Unrecorded(e)' /\ ~ Fresh(e) /\ ~ Fresh(e)'
  BY <1>2 DEF Unrecorded, Fresh
<1>4. \A rows : Shows(rows)' <=> Shows(rows)
  BY <1>1, <1>3 DEF Shows
<1>5. Waits' /\ Shown'
  BY <1>1, <1>2, <1>4 DEF CalmInv, Waits, Shown, NoDialog, Showing
<1>6. CacheFollows' /\ HistoryFollows'
  BY <1>1, <1>3 DEF CalmInv, CacheFollows, HistoryFollows
<1>7. Carries'
  BY <1>1 DEF Carries
<1> QED
  BY <1>5, <1>6, <1>7 DEF CalmInv

\* While a screen is open, or when the user may open one, nothing runs.
LEMMA NothingRuns ==
    ASSUME May = {}, CalmInv, UserMayAct \/ dialog # NoDialog
    PROVE  task = NoTask /\ refresh.stage = "none" /\ view = ledger
<1>1. task = NoTask /\ refresh.stage = "none"
  BY DEF CalmInv, Waits, UserMayAct, Calm
<1> QED
  BY <1>1 DEF CalmInv, Shown, Applied

\* Whatever change the user starts is of what the screen shows, which is what
\* the server has.
LEMMA UserStartsCalm ==
    ASSUME May = {}, IInv, LInv, CalmInv,
           \/ \E v \in Value, tags \in SUBSET Tag : SubmitCreate(v, tags)
           \/ \E e \in EntryId, v \in Value, tags \in SUBSET Tag : SubmitUpdate(e, v, tags)
           \/ \E e \in EntryId : SubmitDelete(e)
           \/ \E l \in EntryId : \E n \in DOMAIN history.revs[l] : RevertTo(l, n)
           \/ \E l \in EntryId : RestoreLogical(l)
    PROVE  CalmInv'
<1>1. ASSUME NEW v \in Value, NEW tags \in SUBSET Tag, SubmitCreate(v, tags)
      PROVE  CalmInv'
  <2>1. PICK t : t = Sent("create", NoId, NoId, NoId, NoEntry, v, tags)
    OBVIOUS
  <2>2. StartTask(t) /\ UserMayAct /\ dialog' = NoDialog
    BY <1>1, <2>1 DEF SubmitCreate, UserMayAct
  <2>3. t.stage = "sent" /\ t.kind = "create" /\ t # NoTask
    BY <2>1 DEF Sent, NoTask
  <2> QED
    BY <2>2, <2>3, NothingRuns, StartCalm
<1>2. ASSUME NEW e \in EntryId, NEW v \in Value, NEW tags \in SUBSET Tag,
             SubmitUpdate(e, v, tags)
      PROVE  CalmInv'
  <2>1. PICK t : t = Sent("edit", e, NoId, NoId, dialog.row, v, tags)
    OBVIOUS
  <2>2. StartTask(t) /\ dialog # NoDialog /\ dialog' = NoDialog /\ ledger[e] = dialog.row
    BY <1>2, <2>1 DEF SubmitUpdate, OnRow, NoDialog, Showing, CalmInv, Shown
  <2>3. t.stage = "sent" /\ t.kind = "edit" /\ t # NoTask /\ ledger[t.eid] = t.prev
    BY <2>1, <2>2 DEF Sent, NoTask
  <2> QED
    BY <2>2, <2>3, NothingRuns, StartCalm
<1>3. ASSUME NEW e \in EntryId, SubmitDelete(e) PROVE CalmInv'
  <2>1. PICK t : t = Sent("delete", e, NoId, NoId, NoEntry, dialog.row, {})
    OBVIOUS
  <2>2. StartTask(t) /\ dialog # NoDialog /\ dialog' = NoDialog /\ ledger[e] = dialog.row
    BY <1>3, <2>1 DEF SubmitDelete, OnRow, NoDialog, Showing, CalmInv, Shown
  <2>3. t.stage = "sent" /\ t.kind = "delete" /\ t # NoTask /\ ledger[t.eid] = t.val
    BY <2>1, <2>2 DEF Sent, NoTask
  <2> QED
    BY <2>2, <2>3, NothingRuns, StartCalm
<1>4. ASSUME NEW l \in EntryId, NEW n \in DOMAIN history.revs[l],
             StartTask(Recreate(l, n)), dialog # NoDialog, dialog' = NoDialog
      PROVE  CalmInv'
  <2>1. PICK t : t = Recreate(l, n)
    OBVIOUS
  <2>2. t.stage = "sent" /\ t.kind = "restore" /\ t # NoTask
    BY <2>1 DEF Recreate, Sent, NoTask
  <2> QED
    BY <1>4, <2>1, <2>2, NothingRuns, StartCalm
<1>5. ASSUME NEW l \in EntryId, NEW n \in DOMAIN history.revs[l], RevertTo(l, n)
      PROVE  CalmInv'
  <2>1. PICK cur : cur = history.head[l].current_entry_id
    OBVIOUS
  <2>2. PICK t : t = Sent("revert", cur, l, NoId, NoEntry, history.revs[l][n].snapshot, {})
    OBVIOUS
  <2>3. dialog # NoDialog /\ dialog' = NoDialog
    BY <1>5 DEF RevertTo, NoDialog, Showing
  <2>4. StartTask(Recreate(l, n)) \/ StartTask(t)
    BY <1>5, <2>1, <2>2 DEF RevertTo
  <2>5. t.stage = "sent" /\ t.kind = "revert" /\ t # NoTask
        /\ history.head[t.lid].current_entry_id = t.eid
    BY <2>1, <2>2 DEF Sent, NoTask
  <2>6. CASE StartTask(t)
    BY <2>3, <2>5, <2>6, NothingRuns, StartCalm
  <2> QED
    BY <1>4, <2>3, <2>4, <2>6
<1>6. ASSUME NEW l \in EntryId, RestoreLogical(l) PROVE CalmInv'
  <2>1. /\ StartTask(Recreate(l, Len(history.revs[l]))) /\ history.revs[l] # << >>
        /\ dialog # NoDialog /\ dialog' = NoDialog
    BY <1>6 DEF RestoreLogical, NoDialog, Showing
  <2>2. Len(history.revs[l]) \in DOMAIN history.revs[l]
    BY <2>1, HistoryFields DEF IInv, TypeOK
  <2> QED
    BY <1>4, <2>1, <2>2
<1> QED
  BY <1>1, <1>2, <1>3, <1>5, <1>6

\* The user opens, uses or closes a screen, or attaches a file.
LEMMA ScreensCalm ==
    ASSUME May = {}, CalmInv,
           \/ \E e \in EntryId : OpenRow(e) \/ OpenHistory(e)
           \/ OpenTrash \/ CloseDialog
           \/ \E l \in EntryId : ConfirmPurge(l)
           \/ \E e \in EntryId, f \in File : AttachFile(e, f)
    PROVE  CalmInv'
<1>1. UNCHANGED <<ledger, history, cached, view, reconciled, refresh, window, task, dedup>>
  BY DEF OpenRow, OpenHistory, OpenTrash, CloseDialog, ConfirmPurge, AttachFile,
         server, local, screen
<1>2. task = NoTask /\ refresh.stage = "none" /\ view = ledger
  BY NothingRuns
  DEF OpenRow, OpenHistory, OpenTrash, CloseDialog, ConfirmPurge, AttachFile, OnRow,
      NoDialog, Showing
<1>3. dialog'.kind = "row" => \A e \in dialog'.ids : ledger[e] = dialog'.row
  BY <1>2
  DEF OpenRow, OpenHistory, OpenTrash, CloseDialog, ConfirmPurge, AttachFile,
      NoDialog, Showing, CalmInv, Shown
<1>4. /\ CacheFollows' /\ Carries' /\ HistoryFollows'
      /\ Applied' <=> Applied
      /\ \A rows : Shows(rows)' <=> Shows(rows)
  BY <1>1, StillStores
<1>5. Waits'
  BY <1>1, <1>2 DEF CalmInv, Waits
<1>6. Shown'
  BY <1>1, <1>2, <1>3, <1>4 DEF CalmInv, Shown
<1> QED
  BY <1>4, <1>5, <1>6 DEF CalmInv

\* The user purges an entry from the trash.
LEMMA PurgeCalm ==
    ASSUME May = {}, IInv, CalmInv, NEW l \in EntryId, PurgeLogical(l)
    PROVE  CalmInv'
<1>1. /\ UNCHANGED <<ledger, cached, view, reconciled, window, task, dedup>>
      /\ refresh' = SentRefresh /\ dialog' = NoDialog
      /\ history' \in {history, purge_logical(history, l)}
  BY DEF PurgeLogical, server, screen
<1>2. task = NoTask /\ refresh.stage = "none"
  BY NothingRuns DEF PurgeLogical, NoDialog, Showing
<1>3. ~ Applied /\ ~ Applied'
  BY <1>1, <1>2 DEF Applied
<1>4. \A e : ~ Unrecorded(e) /\ ~ Unrecorded(e)' /\ ~ Fresh(e) /\ ~ Fresh(e)'
  BY <1>3 DEF Unrecorded, Fresh
<1>5. \A rows : Shows(rows)' <=> Shows(rows)
  BY <1>1, <1>4 DEF Shows
<1>6. Projects(history, ledger)
  BY <1>4 DEF CalmInv, HistoryFollows
<1>7. Projects(history', ledger)
  BY <1>1, <1>6, PurgeProjects DEF IInv
<1>8. CacheFollows' /\ Carries' /\ HistoryFollows'
  BY <1>1, <1>2, <1>4, <1>7 DEF CalmInv, CacheFollows, Carries, HistoryFollows
<1>9. Waits'
  BY <1>1, <1>2 DEF CalmInv, Waits
<1>10. Shown'
  BY <1>1, <1>5 DEF CalmInv, Shown, SentRefresh, NoDialog, Showing
<1> QED
  BY <1>8, <1>9, <1>10 DEF CalmInv

\* A refresh starts or is answered, or the server refuses a request.
LEMMA CallsCalm ==
    ASSUME CalmInv, RefreshKey \/ RefreshAnswer \/ ServerRefuse
    PROVE  CalmInv'
<1>1. /\ UNCHANGED <<ledger, history, cached, view, reconciled, dedup, dialog>>
      /\ task' = task \/ (task' = NoTask /\ ~ Applied)
  BY DEF RefreshKey, RefreshAnswer, ServerRefuse, Applied, server, local, screen
<1>2. /\ CacheFollows' /\ Carries' /\ HistoryFollows'
      /\ Applied' <=> Applied
      /\ \A rows : Shows(rows)' <=> Shows(rows)
  BY <1>1, StillStores
<1>3. CASE RefreshKey
  <2>1. dialog = NoDialog /\ window' = NoWindow /\ refresh' = SentRefresh /\ task' = task
    BY <1>3 DEF RefreshKey
  <2>2. Waits'
    BY <1>1, <2>1 DEF CalmInv, Waits, SentRefresh
  <2>3. Shown'
    BY <1>1, <2>1 DEF Shown, SentRefresh, NoWindow, NoDialog, Showing
  <2> QED
    BY <1>2, <2>2, <2>3 DEF CalmInv
<1>4. CASE RefreshAnswer
  <2>1. /\ refresh.stage = "sent" /\ window' = NoWindow /\ task' = task
        /\ refresh'.stage = "answered" /\ refresh'.rows = ledger
    BY <1>4 DEF RefreshAnswer
  <2>2. dialog = NoDialog
    BY <2>1 DEF CalmInv, Waits
  <2>3. Waits'
    BY <1>1, <2>1, <2>2 DEF CalmInv, Waits
  <2>4. Shows(ledger)'
    BY <1>1 DEF Shows
  <2>5. Shown'
    BY <1>1, <2>1, <2>2, <2>4 DEF Shown, Shows, NoWindow, NoDialog, Showing
  <2> QED
    BY <1>2, <2>3, <2>5 DEF CalmInv
<1>5. CASE ServerRefuse
  <2>1. /\ UNCHANGED <<window, refresh>> /\ task # NoTask /\ task' = NoTask
    BY <1>5 DEF ServerRefuse
  <2>2. Waits'
    BY <1>1, <2>1 DEF CalmInv, Waits
  <2>3. Shown'
    BY <1>1, <1>2, <2>1 DEF CalmInv, Shown
  <2> QED
    BY <1>2, <2>2, <2>3 DEF CalmInv
<1> QED
  BY <1>3, <1>4, <1>5

\* The server carries out the request of the worker.
LEMMA ApplyCalm == ASSUME IInv, CalmInv, ServerApply PROVE CalmInv'
<1>1. /\ task # NoTask /\ task \in Task /\ task.stage = "sent" /\ ~ Applied
      /\ UNCHANGED <<history, cached, view, reconciled, refresh, window, dedup, dialog>>
      /\ dialog = NoDialog
      /\ ledger \in Rows /\ cached \in Rows /\ window.rows \in Rows /\ refresh.rows \in Rows
  BY DEF ServerApply, IInv, TypeOK, Applied, local, screen, CalmInv, Waits, Window, Refresh
<1>2. /\ Projects(history, ledger)
      /\ \A e \in EntryId : cached[e] \in {NoEntry, ledger[e]}
      /\ window.stored => \A e \in EntryId : window.rows[e] = ledger[e]
      /\ refresh.stage = "answered" => \A e \in EntryId : refresh.rows[e] = ledger[e]
  BY <1>1 DEF CalmInv, HistoryFollows, CacheFollows, Shown, Shows, Unrecorded, Fresh
<1>3. ASSUME NEW e \in EntryId, NEW x \in Value \cup {NoEntry},
             ledger' = [ledger EXCEPT ![e] = x],
             task' # NoTask, task'.stage = "applied", task'.eid = e,
             task'.kind = task.kind, task'.lid = task.lid, task'.prev = task.prev,
             x = IF task.kind = "delete" THEN NoEntry ELSE task'.val,
             Unrecorded(e)' \/ (Fresh(e)' /\ ledger[e] = NoEntry),
             task.kind = "revert" => task.eid = e,
             Fresh(e)' => \A l \in EntryId : ~ Owns(history, l, e),
             Unrecorded(e)' =>
                ledger[e] \in Value /\ (task.kind = "edit" => ledger[e] = task.prev)
      PROVE  CalmInv'
  <2>1. ledger'[e] = x /\ \A d \in EntryId \ {e} : ledger'[d] = ledger[d]
    BY <1>1, <1>3 DEF Rows
  <2>2. Waits'
    BY <1>1, <1>3 DEF CalmInv, Waits
  <2>3. Shown'
    <3>1. window.stored => Shows(window.rows)'
      BY <1>1, <1>2, <1>3, <2>1 DEF Shows
    <3>2. refresh.stage = "answered" => Shows(refresh.rows)'
      BY <1>1, <1>2, <1>3, <2>1 DEF Shows
    <3>3. Applied'
      BY <1>3 DEF Applied
    <3> QED
      BY <1>1, <3>1, <3>2, <3>3 DEF Shown, Shows, NoDialog, Showing
  <2>4. CacheFollows'
    BY <1>1, <1>2, <1>3, <2>1 DEF CacheFollows
  <2>5. Carries'
    BY <1>1, <1>3, <2>1 DEF CalmInv, Carries, Fresh, Applied
  <2>6. HistoryFollows'
    <3>1. \A d \in EntryId : Unrecorded(d)' => d = e
      BY <1>3 DEF Unrecorded
    <3>2. CASE Unrecorded(e)'
      <4>1. [ledger' EXCEPT ![e] = ledger[e]] = ledger
        BY <1>1, <1>3, <2>1 DEF Rows
      <4>2. ledger[e] \in Value /\ (task'.kind = "edit" => ledger[e] = task'.prev)
        BY <1>3, <3>2
      <4>3. Projects(history', [ledger' EXCEPT ![e] = ledger[e]])
        BY <1>1, <1>2, <4>1
      <4> QED
        BY <3>1, <3>2, <4>2, <4>3 DEF HistoryFollows
    <3>3. CASE Fresh(e)' /\ ~ Unrecorded(e)'
      <4>1. Projects(history, ledger')
        <5>1. ASSUME NEW l \in EntryId, NEW d \in EntryId, Owns(history, l, d)
              PROVE  ledger'[d] = ledger[d]
          BY <1>3, <2>1, <3>3, <5>1
        <5>2. ASSUME NEW l \in EntryId, history.revs[l] # << >>, ~ history.head[l].is_deleted
              PROVE  ledger'[history.head[l].current_entry_id]
                        = ledger[history.head[l].current_entry_id]
          BY <5>1, <5>2, CurrentOwned DEF IInv
        <5> QED
          BY <1>2, <5>1, <5>2 DEF Projects
      <4> QED
        BY <1>1, <3>1, <3>3, <4>1 DEF HistoryFollows
    <3> QED
      BY <1>3, <3>2, <3>3
  <2> QED
    BY <2>2, <2>3, <2>4, <2>5, <2>6 DEF CalmInv
<1>4. ASSUME NEW e \in EntryId \ issued, task.kind \in {"create", "restore"},
             ledger' = [ledger EXCEPT ![e] = task.val],
             task' = [task EXCEPT !.stage = "applied", !.eid = e]
      PROVE  CalmInv'
  <2>1. /\ task' # NoTask /\ task'.stage = "applied" /\ task'.eid = e /\ task'.val = task.val
        /\ task'.kind = task.kind /\ task'.lid = task.lid /\ task'.prev = task.prev
        /\ task.val \in Value
    BY <1>1, <1>4 DEF Task, NoTask
  <2>2. ledger[e] = NoEntry /\ \A l \in EntryId : ~ Owns(history, l, e)
    BY <1>4 DEF IInv, KnownIds, IdsWithin
  <2>3. Fresh(e)' /\ ~ Unrecorded(e)'
    BY <1>4, <2>1 DEF Fresh, Unrecorded, Applied
  <2> QED
    BY <1>3, <1>4, <2>1, <2>2, <2>3
<1>5. ASSUME task.kind \in {"edit", "revert", "delete"},
             NEW x \in Value \cup {NoEntry}, ledger' = [ledger EXCEPT ![task.eid] = x],
             x = IF task.kind = "delete" THEN NoEntry ELSE task.val,
             ledger[task.eid] # NoEntry,
             task' = [task EXCEPT !.stage = "applied"]
      PROVE  CalmInv'
  <2>1. PICK e \in EntryId : e = task.eid
    BY <1>1, <1>5 DEF IInv, TypeOK, TaskFits, Fits
  <2>2. /\ task' # NoTask /\ task'.stage = "applied" /\ task'.eid = e /\ task'.val = task.val
        /\ task'.kind = task.kind /\ task'.lid = task.lid /\ task'.prev = task.prev
    BY <1>1, <1>5, <2>1 DEF Task, NoTask
  <2>3. ledger[e] \in Value /\ (task.kind = "edit" => ledger[e] = task.prev)
    BY <1>1, <1>5, <2>1 DEF Rows, CalmInv, Carries
  <2>4. Unrecorded(e)' /\ ~ Fresh(e)'
    BY <1>5, <2>2 DEF Fresh, Unrecorded, Applied
  <2> QED
    BY <1>3, <1>5, <2>1, <2>2, <2>3, <2>4
<1>6. CASE task.kind \in {"create", "restore"}
  <2>1. PICK e \in EntryId \ issued :
           /\ ledger' = [ledger EXCEPT ![e] = task.val]
           /\ task' = [task EXCEPT !.stage = "applied", !.eid = e]
    BY <1>6 DEF ServerApply
  <2> QED
    BY <1>4, <1>6, <2>1
<1>7. CASE task.kind \in {"edit", "revert"}
  <2>1. /\ ledger[task.eid] # NoEntry /\ ledger' = [ledger EXCEPT ![task.eid] = task.val]
        /\ task' = [task EXCEPT !.stage = "applied"]
    BY <1>7 DEF ServerApply
  <2>2. task.val \in Value
    BY <1>1 DEF Task
  <2> QED
    BY <1>5, <1>7, <2>1, <2>2
<1>8. CASE task.kind = "delete"
  <2>1. /\ ledger' = [ledger EXCEPT ![task.eid] = NoEntry]
        /\ task' = [task EXCEPT !.stage = "applied"]
    BY <1>8 DEF ServerApply
  <2>2. ledger[task.eid] # NoEntry
    BY <1>1, <1>8, EntryHistoryAssumption DEF CalmInv, Carries, Task
  <2> QED
    BY <1>5, <1>8, <2>1, <2>2
<1> QED
  BY <1>1, <1>6, <1>7, <1>8 DEF Task

\* Nothing is taken in from outside into an empty history.
LEMMA ReconcileEmpty ==
    ASSUME NEW fetched, NEW absent
    PROVE  reconcile_external(EmptyHistory, fetched, absent) = EmptyHistory
<1>1. Changed(EmptyHistory, fetched, absent) = {}
  BY DEF Changed, EmptyHistory, NoHead
<1>2. /\ \A l \in EntryId : EmptyHistory.revs[l] = << >> /\ EmptyHistory.head[l] = NoHead
      /\ EmptyHistory = [revs |-> [l \in EntryId |-> << >>], head |-> [l \in EntryId |-> NoHead]]
  BY DEF EmptyHistory
<1> QED
  BY <1>1, <1>2 DEF reconcile_external

\* The first rows of the screen are shown before there is a history.
LEMMA ShowKeepsHistory == ASSUME CalmInv, NEW rows, Show(rows) PROVE history' = history
<1>1. history' = history
      \/ (~ reconciled /\ history' = reconcile_external(history, rows, NoEntry))
  BY DEF Show
<1> QED
  BY <1>1, ReconcileEmpty DEF CalmInv, Waits

\* Rows are shown and kept in entries_cache; the history is left alone.
LEMMA ShowCalm ==
    ASSUME May = {}, CalmInv, NEW rows \in Rows, Show(rows), Shows(rows),
           ledger \in Rows, refresh.stage # "none",
           window' = window \/ window'.rows = rows
    PROVE  CalmInv'
<1>1. /\ UNCHANGED <<ledger, task, dedup, dialog>>
      /\ refresh' = NoRefresh /\ view' = rows /\ reconciled' = TRUE
      /\ dialog = NoDialog
  BY DEF Show, server, CalmInv, Waits
<1>2. history' = history
  BY ShowKeepsHistory
<1>3. \A e : /\ Unrecorded(e)' <=> Unrecorded(e)
             /\ Fresh(e)' <=> Fresh(e)
             /\ Applied' <=> Applied
  BY <1>1 DEF Unrecorded, Fresh, Applied
<1>4. \A r : Shows(r)' <=> Shows(r)
  BY <1>1, <1>3 DEF Shows
<1>5. CacheFollows'
  <2>1. \A e \in EntryId : cached'[e] \in {cached[e], rows[e]} /\ (rows[e] = NoEntry => cached'[e] = cached[e])
    BY DEF Show
  <2> QED
    BY <1>1, <1>3, <2>1 DEF CalmInv, CacheFollows, Shows
<1>6. Carries' /\ HistoryFollows'
  BY <1>1, <1>2, <1>3 DEF CalmInv, Carries, HistoryFollows
<1>7. Waits'
  BY <1>1 DEF CalmInv, Waits
<1>8. Shown'
  <2>1. window'.stored => Shows(window'.rows)
    BY DEF CalmInv, Shown
  <2>2. ~ Applied => view' = ledger
    BY <1>1 DEF Shows, Unrecorded, Fresh, Rows
  <2> QED
    BY <1>1, <1>3, <1>4, <2>1, <2>2 DEF Shown, NoRefresh, NoDialog, Showing
<1> QED
  BY <1>5, <1>6, <1>7, <1>8 DEF CalmInv

\* A refresh shows the stored window or the server's answer.
LEMMA RefreshCalm ==
    ASSUME May = {}, IInv, CalmInv, RefreshFromCache \/ RefreshApply
    PROVE  CalmInv'
<1>1. PICK rows \in Rows :
         /\ Show(rows) /\ Shows(rows) /\ refresh.stage # "none"
         /\ window' = window \/ window'.rows = rows
  BY DEF RefreshFromCache, RefreshApply, IInv, TypeOK, Window, Refresh, CalmInv, Shown
<1> QED
  BY <1>1, ShowCalm DEF IInv, TypeOK

\* A worker resumes and the stores say the same again.
LEMMA WorkerCalm ==
    ASSUME CalmInv, NEW kind, Resumes(kind), Projects(history', ledger),
           \A e \in EntryId : cached'[e] \in {NoEntry, ledger[e]}
    PROVE  CalmInv'
<1>1. /\ UNCHANGED <<ledger, view, reconciled, dedup, dialog>>
      /\ task # NoTask /\ task' = NoTask /\ window' = NoWindow /\ refresh' = SentRefresh
  BY DEF Resumes, server, screen
<1>2. dialog = NoDialog /\ reconciled
  BY <1>1 DEF CalmInv, Waits
<1>3. ~ Applied' /\ \A e : ~ Unrecorded(e)'
  BY <1>1 DEF Applied, Unrecorded
<1>4. Waits' /\ Shown'
  BY <1>1, <1>2 DEF CalmInv, Waits, Shown, SentRefresh, NoWindow, NoDialog, Showing
<1>5. CacheFollows' /\ Carries' /\ HistoryFollows'
  BY <1>1, <1>3 DEF CacheFollows, Carries, HistoryFollows
<1> QED
  BY <1>4, <1>5 DEF CalmInv

\* What the worker of an edit, a revert or a delete finds: the history says what
\* its entry was before.
LEMMA Found ==
    ASSUME IInv, LInv, CalmInv, NEW kind, Resumes(kind)
    PROVE  \E e \in EntryId, led \in Rows :
              /\ e = task.eid /\ led = ledger /\ Applied
              /\ \A d \in EntryId \ {e} : cached[d] \in {NoEntry, led[d]}
              /\ kind = "delete" => led[e] = NoEntry
              /\ kind # "delete" => led[e] = task.val
              /\ kind \in {"create", "restore"} =>
                    /\ Projects(history, led)
                    /\ cached[e] \in {NoEntry, led[e]}
                    /\ \A l \in EntryId : ~ Owns(history, l, e)
              /\ kind \in {"edit", "revert", "delete"} =>
                    \E before \in Rows :
                       /\ Projects(history, before)
                       /\ before[e] # NoEntry
                       /\ kind = "edit" => before[e] = task.prev
                       /\ \A x \in EntryId \ {e} : led[x] = before[x]
<1>1. /\ task # NoTask /\ task.kind = kind /\ task.stage = "applied" /\ Applied
  BY DEF Resumes, Applied
<1>2. PICK e \in EntryId : e = task.eid
  BY Resumed
<1>3. PICK led \in Rows : led = ledger
  BY DEF IInv, TypeOK
<1>4. \A d \in EntryId : Unrecorded(d) <=> d = e /\ kind \in {"edit", "revert", "delete"}
  BY <1>1, <1>2 DEF Unrecorded
<1>5. CASE kind \in {"edit", "revert", "delete"}
  <2>1. PICK v \in Value : /\ kind = "edit" => v = task.prev
                           /\ Projects(history, [ledger EXCEPT ![e] = v])
    BY <1>1, <1>4, <1>5 DEF CalmInv, HistoryFollows
  <2>2. PICK before : before = [led EXCEPT ![e] = v]
    OBVIOUS
  <2>3. /\ before \in Rows /\ before[e] = v /\ v # NoEntry
        /\ \A x \in EntryId \ {e} : led[x] = before[x]
    BY <2>2, EntryHistoryAssumption DEF Rows
  <2>4. Projects(history, before)
    BY <1>3, <2>1, <2>2
  <2> QED
    BY <1>1, <1>2, <1>3, <1>4, <1>5, <2>1, <2>3, <2>4 DEF CalmInv, CacheFollows, Carries
<1>6. CASE kind \notin {"edit", "revert", "delete"}
  BY <1>1, <1>2, <1>3, <1>4, <1>6 DEF CalmInv, CacheFollows, Carries, HistoryFollows
<1> QED
  BY <1>5, <1>6

\* No local transaction fails.
LEMMA NoFailures == ASSUME May = {}, NEW S PROVE Failures(S) = {{}}
BY DEF Failures

\* Whatever a worker records, the stores say the same again.
LEMMA WorkersCalm == ASSUME May = {}, IInv, LInv, CalmInv, WorkerStep PROVE CalmInv'
<1>1. ASSUME RecordCreate PROVE CalmInv'
  <2>1. /\ Resumes("create") /\ cached' = cached
        /\ history' = ensure_baseline(history, task.eid, task.val)
    BY <1>1, NoFailures DEF RecordCreate
  <2>2. /\ WellFormed(history) /\ OwnsItself(history) /\ task.val \in Value
    BY <2>1, Resumed
  <2>3. PICK e \in EntryId, led \in Rows :
           /\ e = task.eid /\ led = ledger
           /\ \A d \in EntryId \ {e} : cached[d] \in {NoEntry, led[d]}
           /\ led[e] = task.val
           /\ Projects(history, led) /\ cached[e] \in {NoEntry, led[e]}
           /\ \A l \in EntryId : ~ Owns(history, l, e)
    BY <2>1, Found
  <2>4. PICK v \in Value : v = task.val
    BY <2>2
  <2>5. Projects(ensure_baseline(history, e, v), led)
    BY <2>2, <2>3, <2>4, CreateProjects
  <2>6. Projects(history', ledger)
    BY <2>1, <2>3, <2>4, <2>5
  <2>7. \A d \in EntryId : cached'[d] \in {NoEntry, ledger[d]}
    BY <2>1, <2>3
  <2> QED
    BY <2>1, <2>6, <2>7, WorkerCalm
<1>2. ASSUME RecordEdit PROVE CalmInv'
  <2>1. /\ Resumes("edit") /\ cached' = [cached EXCEPT ![task.eid] = task.val]
        /\ history' = record_edit(history, task.eid, task.prev, task.val)
    BY <1>2, NoFailures DEF RecordEdit
  <2>2. /\ WellFormed(history) /\ OwnsItself(history)
        /\ task.val \in Value /\ task.prev \in Value
    BY <2>1, Resumed
  <2>3. PICK e \in EntryId, led \in Rows :
           /\ e = task.eid /\ led = ledger
           /\ \A d \in EntryId \ {e} : cached[d] \in {NoEntry, led[d]}
           /\ led[e] = task.val
           /\ \E before \in Rows :
                 /\ Projects(history, before) /\ before[e] # NoEntry
                 /\ \A x \in EntryId \ {e} : led[x] = before[x]
    BY <2>1, Found
  <2>4. PICK v \in Value, prev \in Value : v = task.val /\ prev = task.prev
    BY <2>2
  <2>5. Projects(record_edit(history, e, prev, v), led)
    BY <2>2, <2>3, <2>4, EditProjects
  <2>6. Projects(history', ledger)
    BY <2>1, <2>3, <2>4, <2>5
  <2>7. \A d \in EntryId : cached'[d] \in {NoEntry, ledger[d]}
    BY <2>1, <2>3 DEF IInv, TypeOK, Rows
  <2> QED
    BY <2>1, <2>6, <2>7, WorkerCalm
<1>3. ASSUME RecordDelete PROVE CalmInv'
  <2>1. /\ Resumes("delete") /\ cached' = [cached EXCEPT ![task.eid] = NoEntry]
        /\ history' = record_delete(history, task.eid, task.val)
    BY <1>3, NoFailures DEF RecordDelete
  <2>2. /\ WellFormed(history) /\ OwnsItself(history) /\ task.val \in Value
    BY <2>1, Resumed
  <2>3. PICK e \in EntryId, led \in Rows :
           /\ e = task.eid /\ led = ledger
           /\ \A d \in EntryId \ {e} : cached[d] \in {NoEntry, led[d]}
           /\ led[e] = NoEntry
           /\ \E before \in Rows :
                 /\ Projects(history, before) /\ before[e] # NoEntry
                 /\ \A x \in EntryId \ {e} : led[x] = before[x]
    BY <2>1, Found
  <2>4. PICK v \in Value : v = task.val
    BY <2>2
  <2>5. Projects(record_delete(history, e, v), led)
    BY <2>2, <2>3, <2>4, DeleteProjects
  <2>6. Projects(history', ledger)
    BY <2>1, <2>3, <2>4, <2>5
  <2>7. \A d \in EntryId : cached'[d] \in {NoEntry, ledger[d]}
    BY <2>1, <2>3 DEF IInv, TypeOK, Rows
  <2> QED
    BY <2>1, <2>6, <2>7, WorkerCalm
<1>4. ASSUME RecordRestore PROVE CalmInv'
  <2>1. /\ Resumes("restore") /\ cached' = [cached EXCEPT ![task.eid] = task.val]
        /\ history' = record_revision(history, task.lid, task.eid, "restore", task.val, FALSE)
    BY <1>4, NoFailures DEF RecordRestore
  <2>2. /\ WellFormed(history) /\ task.val \in Value /\ task.lid \in EntryId
        /\ Aims(task, history) /\ task.kind = "restore"
    BY <2>1, Resumed
  <2>3. PICK e \in EntryId, led \in Rows :
           /\ e = task.eid /\ led = ledger
           /\ \A d \in EntryId \ {e} : cached[d] \in {NoEntry, led[d]}
           /\ led[e] = task.val
           /\ Projects(history, led) /\ cached[e] \in {NoEntry, led[e]}
           /\ \A l \in EntryId : ~ Owns(history, l, e)
    BY <2>1, Found
  <2>4. PICK v \in Value, l \in EntryId : v = task.val /\ l = task.lid
    BY <2>2
  <2>5. history.revs[l] # << >> /\ history.head[l].current_entry_id = NoId
    BY <2>2, <2>4
    DEF Aims, WellFormed, HeadsMatch, HeadIsLastRow, NoHead
  <2>6. "restore" \in Op /\ MayFile(history, l, e)
    BY <2>3, <2>5 DEF Op, MayFile
  <2>7. Projects(record_revision(history, l, e, "restore", v, FALSE), led)
    BY <2>2, <2>3, <2>4, <2>6, RestoreProjects DEF Apart
  <2>8. Projects(history', ledger)
    BY <2>1, <2>3, <2>4, <2>7
  <2>9. \A d \in EntryId : cached'[d] \in {NoEntry, ledger[d]}
    BY <2>1, <2>3 DEF IInv, TypeOK, Rows
  <2> QED
    BY <2>1, <2>8, <2>9, WorkerCalm
<1>5. ASSUME RecordRevert PROVE CalmInv'
  <2>1. /\ Resumes("revert") /\ cached' = [cached EXCEPT ![task.eid] = task.val]
        /\ history' = record_revision(history, task.lid, task.eid, "revert", task.val, FALSE)
    BY <1>5, NoFailures DEF RecordRevert
  <2>2. /\ WellFormed(history) /\ task.val \in Value /\ task.lid \in EntryId
        /\ Aims(task, history) /\ task.kind = "revert" /\ task # NoTask
        /\ \A k \in EntryId : Owns(history, k, task.eid) => k = task.lid
    BY <2>1, Resumed DEF Resumes
  <2>3. PICK e \in EntryId, led \in Rows :
           /\ e = task.eid /\ led = ledger
           /\ \A d \in EntryId \ {e} : cached[d] \in {NoEntry, led[d]}
           /\ led[e] = task.val
           /\ \E before \in Rows :
                 /\ Projects(history, before) /\ before[e] # NoEntry
                 /\ \A x \in EntryId \ {e} : led[x] = before[x]
    BY <2>1, Found
  <2>4. PICK v \in Value, l \in EntryId : v = task.val /\ l = task.lid
    BY <2>2
  <2>5. history.revs[l] # << >> /\ history.head[l].current_entry_id = e
    BY <2>2, <2>3, <2>4 DEF Aims, CalmInv, Carries
  <2>6. "revert" \in Op
    BY DEF Op
  <2>7. MayFile(history, l, e)
    BY <2>2, <2>3, <2>4, <2>5 DEF MayFile
  <2>8. Projects(record_revision(history, l, e, "revert", v, FALSE), led)
    <3>1. PICK before \in Rows : Projects(history, before) /\ Apart(led, before, e)
      BY <2>3 DEF Apart
    <3>2. WellFormed(history) /\ led[e] = v
      BY <2>2, <2>3, <2>4
    <3> QED
      BY <2>6, <2>7, <3>1, <3>2, RestoreProjects
  <2>9. Projects(history', ledger)
    BY <2>1, <2>3, <2>4, <2>8
  <2>10. \A d \in EntryId : cached'[d] \in {NoEntry, ledger[d]}
    BY <2>1, <2>3 DEF IInv, TypeOK, Rows
  <2> QED
    BY <2>1, <2>9, <2>10, WorkerCalm
<1> QED
  BY <1>1, <1>2, <1>3, <1>4, <1>5 DEF WorkerStep

\* CalmInv is inductive for one user who waits, and calls that do not fail half-way.
LEMMA NextCalm ==
    ASSUME May = {}, IInv, LInv, CalmInv, [Next]_vars
    PROVE  CalmInv'
<1>1. dedup = NoId
  BY DEF CalmInv, Waits
<1>2. CASE UNCHANGED vars
  BY <1>2
  DEF vars, CalmInv, Waits, Shown, CacheFollows, Carries, HistoryFollows, Shows,
      Unrecorded, Fresh, Applied
<1>3. CASE UserStep
  BY <1>3, UserStartsCalm, ScreensCalm, PurgeCalm, CallsCalm DEF UserStep, DedupDelete
<1>4. CASE RefreshStep
  BY <1>4, RefreshCalm, CallsCalm DEF RefreshStep
<1> QED
  BY <1>1, <1>2, <1>3, <1>4, ApplyCalm, CallsCalm, WorkersCalm
  DEF Next, AnswerLost, AnswerWithoutId, RefreshFails, DedupPurge, ExternalDelete,
      ExternalEdit, Crash

\* CalmInv holds always for such a user.
THEOREM InvarianceCalm ==
    ASSUME May = {}
    PROVE  Spec => [](IInv /\ LInv /\ CalmInv)
<1>1. Init => IInv /\ LInv /\ CalmInv
  BY InitIInv, InitLInv, InitCalm
<1>2. IInv /\ LInv /\ CalmInv /\ [Next]_vars => (IInv /\ LInv /\ CalmInv)'
  BY NextIInv, NextLInv, NextCalm
<1> QED
  BY <1>1, <1>2, PTL DEF Spec

\* The ledger is the projection of the history whenever no change is in flight:
\* what the server has under an entry's id is the entry's last revision, although
\* the two are written by separate steps and refreshes run in between.
THEOREM LedgerIsProjection == ASSUME May = {} PROVE Spec => []LedgerMatchesHistory
<1>1. CalmInv => LedgerMatchesHistory
  <2> SUFFICES ASSUME CalmInv, Settled PROVE Projects(history, ledger)
    BY DEF LedgerMatchesHistory, Projects, Tracked
  <2> QED
    BY DEF Settled, CalmInv, HistoryFollows, Unrecorded, Applied
<1> QED
  BY <1>1, InvarianceCalm, PTL

\* entries_cache, to which refreshes and workers write, holds nothing that the
\* ledger does not.
THEOREM CacheIsLedger == ASSUME May = {} PROVE Spec => []CacheMatchesLedger
<1>1. CalmInv => CacheMatchesLedger
  BY DEF CacheMatchesLedger, Settled, CalmInv, CacheFollows, Unrecorded, Applied
<1> QED
  BY <1>1, InvarianceCalm, PTL

-------------------------------------------------------------------------------
(* An edit keeps what it overwrites *)

\* The value prev is in the log of l before its last row.
HasBefore(g, l, prev) ==
    \E n \in 1..(Len(g.revs[l]) - 1) : g.revs[l][n].snapshot = prev

\* The row before that of the edit is the entry's value on the server, be it the
\* baseline or the last revision.
LEMMA EditHasBefore ==
    ASSUME NEW h, WellFormed(h), OwnsItself(h), NEW e \in EntryId,
           NEW prev \in Value, NEW v \in Value,
           NEW before \in Rows, Projects(h, before), before[e] = prev
    PROVE  HasBefore(record_edit(h, e, prev, v), OwnerOf(h, e), prev)
<1>1. PICK o \in EntryId : o = OwnerOf(h, e)
  BY OwnerOfId
<1>2. PICK b : b = ensure_baseline(h, e, prev)
  OBVIOUS
<1>3. PICK g, r : /\ g = record_revision(b, o, e, "edit", v, FALSE)
                  /\ r = Row(e, "edit", v, FALSE)
  OBVIOUS
<1>4. b.revs[o] # << >> /\ latest_revision(b, o).snapshot = prev
  <2>1. CASE logical_id_for_entry(h, e) = NoId
    <3>1. o = e /\ b = record_revision(h, o, e, "create", prev, FALSE)
      BY <1>1, <1>2, <2>1 DEF OwnerOf, ensure_baseline
    <3>2. "create" \in Op /\ h \in History
      BY DEF Op, WellFormed
    <3>3. Filed(b, h, o, Row(e, "create", prev, FALSE), {})
      BY <3>1, <3>2, RecordFiles
    <3> QED
      BY <3>3 DEF Filed, Row
  <2>2. CASE logical_id_for_entry(h, e) # NoId
    <3>1. b = h /\ Owns(h, o, e)
      BY <1>1, <1>2, <2>2, LogicalId DEF OwnerOf, ensure_baseline
    <3>2. before[e] # NoEntry
      BY EntryHistoryAssumption
    <3>3. latest_revision(h, o).snapshot = before[e]
      BY <3>1, <3>2, OwnerIsCurrent
    <3>4. h.revs[o] # << >>
      BY <3>1 DEF Owns
    <3> QED
      BY <3>1, <3>3, <3>4
  <2> QED
    BY <2>1, <2>2
<1>5. b \in History
  BY <1>2, EnsureBaselineWellFormed DEF WellFormed
<1>6. "edit" \in Op
  BY DEF Op
<1>7. Extends(g, b, o, r)
  BY <1>3, <1>5, <1>6, RecordRevision
<1>8. /\ Len(b.revs[o]) \in DOMAIN b.revs[o] /\ Len(b.revs[o]) \in Nat
      /\ DOMAIN b.revs[o] = 1..Len(b.revs[o])
  BY <1>4, <1>5, HistoryFields
<1>9. PICK n : n = Len(b.revs[o])
  OBVIOUS
<1>10. n \in 1..(Len(g.revs[o]) - 1) /\ g.revs[o][n].snapshot = prev
  BY <1>4, <1>7, <1>8, <1>9 DEF Extends, latest_revision
<1>11. HasBefore(g, o, prev)
  BY <1>10 DEF HasBefore
<1> QED
  BY <1>1, <1>2, <1>3, <1>11 DEF record_edit

\* When one row was filed, a log that grew ends with it.
LEMMA GrownEndsWith ==
    ASSUME NEW g, NEW h \in History, NEW l \in EntryId, NEW r, NEW seen, Filed(g, h, l, r, seen),
           NEW k \in EntryId, Len(g.revs[k]) > Len(h.revs[k])
    PROVE  k = l /\ g.revs[k][Len(g.revs[k])] = r
<1>1. Len(h.revs[k]) \in Nat
  BY HistoryFields
<1>2. k = l
  BY <1>1 DEF Filed, Same
<1> QED
  BY <1>2 DEF Filed, latest_revision

\* The other workers file rows that are not those of an edit.
LEMMA OtherRows ==
    ASSUME IInv, LInv, RecordCreate \/ RecordDelete \/ RecordRestore \/ RecordRevert,
           history' # history
    PROVE  \E l \in EntryId, op \in Op \ {"edit"}, x \in EntryId \cup {NoId}, v \in Value,
              deleted \in BOOLEAN, seen \in SUBSET Value :
              Filed(history', history, l, Row(x, op, v, deleted), seen)
<1>1. PICK kind : Resumes(kind) /\ (RecordRestore \/ RecordRevert => kind \in {"restore", "revert"})
  BY DEF RecordCreate, RecordDelete, RecordRestore, RecordRevert
<1>2. /\ WellFormed(history) /\ history \in History
      /\ task.eid \in EntryId /\ task.val \in Value
      /\ RecordRestore \/ RecordRevert => task.lid \in EntryId
  BY <1>1, Resumed
<1>3. PICK e \in EntryId, v \in Value : e = task.eid /\ v = task.val
  BY <1>2
<1>4. /\ "create" \in Op \ {"edit"} /\ "delete" \in Op \ {"edit"}
      /\ "restore" \in Op \ {"edit"} /\ "revert" \in Op \ {"edit"}
  BY DEF Op
<1>5. CASE RecordCreate
  <2>1. history' = record_revision(history, e, e, "create", v, FALSE)
    BY <1>3, <1>5 DEF RecordCreate, ensure_baseline
  <2>2. Filed(record_revision(history, e, e, "create", v, FALSE), history, e,
              Row(e, "create", v, FALSE), {})
    BY <1>2, <1>4, RecordFiles
  <2> QED
    BY <1>4, <2>1, <2>2
<1>6. CASE RecordDelete
  <2>1. history' = record_delete(history, e, v)
    BY <1>3, <1>6 DEF RecordDelete
  <2>2. PICK seen \in SUBSET Value :
           seen = IF logical_id_for_entry(history, e) = NoId THEN {v} ELSE {}
    OBVIOUS
  <2>3. PICK o \in EntryId : o = OwnerOf(history, e)
    BY <1>2, OwnerOfId
  <2>4. Filed(record_delete(history, e, v), history, o, Row(NoId, "delete", v, TRUE), seen)
    BY <1>2, <1>4, <2>2, <2>3, BaselineFiles DEF record_delete
  <2> QED
    BY <1>4, <2>1, <2>4
<1>7. CASE RecordRestore \/ RecordRevert
  <2>1. PICK l \in EntryId : l = task.lid
    BY <1>2, <1>7
  <2>2. PICK op \in Op \ {"edit"} : history' = record_revision(history, l, e, op, v, FALSE)
    BY <1>3, <1>4, <1>7, <2>1 DEF RecordRestore, RecordRevert
  <2>3. Filed(record_revision(history, l, e, op, v, FALSE), history, l, Row(e, op, v, FALSE), {})
    BY <1>2, RecordFiles
  <2> QED
    BY <2>2, <2>3
<1> QED
  BY <1>5, <1>6, <1>7

\* What an edit overwrites is in the history before the edit is, whether the
\* history knew the entry or takes it up with this edit.
THEOREM EditsKeepPrevious == ASSUME May = {} PROVE Spec => EditKeepsPrevious
<1>1. ASSUME IInv, LInv, CalmInv, Next, NEW l \in EntryId,
             Len(history'.revs[l]) > Len(history.revs[l]),
             history'.revs[l][Len(history'.revs[l])].op = "edit"
      PROVE  HasBefore(history', l, task.prev)
  <2>1. history \in History /\ WellFormed(history) /\ OwnsItself(history)
        /\ Len(history.revs[l]) \in Nat
    BY <1>1, HistoryFields DEF IInv, LInv, TypeOK
  <2>2. history' # history
    BY <1>1, <2>1
  <2>3. ASSUME NEW k \in EntryId, PurgeLogical(k) PROVE FALSE
    <3>1. history' = purge_logical(history, k)
      BY <2>2, <2>3 DEF PurgeLogical
    <3>2. history'.revs[l] \in {history.revs[l], << >>}
      BY <2>1, <3>1 DEF purge_logical, History
    <3>3. Len(<< >>) = 0
      BY EmptySeq
    <3> QED
      BY <1>1, <2>1, <3>2, <3>3
  <2>4. ASSUME RecordCreate \/ RecordDelete \/ RecordRestore \/ RecordRevert PROVE FALSE
    <3>1. PICK k \in EntryId, op \in Op \ {"edit"}, x \in EntryId \cup {NoId}, v \in Value,
               deleted \in BOOLEAN, seen \in SUBSET Value :
                  Filed(history', history, k, Row(x, op, v, deleted), seen)
      BY <1>1, <2>2, <2>4, OtherRows
    <3>2. PICK r : r = Row(x, op, v, deleted)
      OBVIOUS
    <3>3. history'.revs[l][Len(history'.revs[l])] = r
      BY <1>1, <2>1, <3>1, <3>2, GrownEndsWith
    <3> QED
      BY <1>1, <3>2, <3>3 DEF Row
  <2>5. CASE RecordEdit
    <3>1. Resumes("edit") /\ history' = record_edit(history, task.eid, task.prev, task.val)
      BY <2>2, <2>5 DEF RecordEdit
    <3>2. PICK e \in EntryId, v \in Value, prev \in Value :
             e = task.eid /\ v = task.val /\ prev = task.prev
      BY <1>1, <3>1, Resumed
    <3>3. PICK before \in Rows : Projects(history, before) /\ before[e] = prev
      BY <1>1, <3>1, <3>2, Found
    <3>4. PICK o \in EntryId : o = OwnerOf(history, e)
      BY <2>1, OwnerOfId
    <3>5. HasBefore(record_edit(history, e, prev, v), OwnerOf(history, e), prev)
      BY <2>1, <3>3, EditHasBefore
    <3>6. PICK r, seen : /\ r = Row(e, "edit", v, FALSE)
                         /\ seen = IF logical_id_for_entry(history, e) = NoId THEN {prev} ELSE {}
      OBVIOUS
    <3>7. "edit" \in Op
      BY DEF Op
    <3>8. Filed(history', history, o, r, seen)
      BY <2>1, <3>1, <3>2, <3>4, <3>6, <3>7, BaselineFiles DEF record_edit
    <3>9. l = o
      BY <1>1, <2>1, <3>8, GrownEndsWith
    <3> QED
      BY <3>1, <3>2, <3>4, <3>5, <3>9
  <2>6. CASE RefreshFromCache \/ RefreshApply
    BY <1>1, <2>2, <2>6, ShowKeepsHistory DEF RefreshFromCache, RefreshApply
  <2> QED
    BY <1>1, <2>2, <2>3, <2>4, <2>5, <2>6
    DEF Next, UserStep, WorkerStep, RefreshStep, SubmitCreate, SubmitUpdate, SubmitDelete,
        RevertTo, RestoreLogical, StartTask, OpenRow, OpenHistory, AttachFile, OpenTrash,
        CloseDialog, ConfirmPurge, RefreshKey, RefreshAnswer, RefreshFails, ServerApply,
        ServerRefuse, AnswerLost, AnswerWithoutId, DedupDelete, DedupPurge, ExternalEdit,
        ExternalDelete, Crash, local
<1>2. IInv /\ LInv /\ CalmInv /\ [Next]_vars =>
         [\A l \in EntryId :
             LET rows == history'.revs[l] IN
             (/\ Len(rows) > Len(history.revs[l])
              /\ rows[Len(rows)].op = "edit")
             => \E n \in 1..(Len(rows) - 1) : rows[n].snapshot = task.prev]_vars
  BY <1>1 DEF HasBefore
<1> QED
  BY <1>2, InvarianceCalm, PTL DEF Spec, EditKeepsPrevious

-------------------------------------------------------------------------------
(* The local data follow an entry, without hashtags *)

\* Nothing is kept locally under the id e.
Clean(m, e) == m.note[e] = NoRow /\ m.tags[e] = {} /\ m.files[e] = {}

\* e is the last id of an entry in the trash.
RestsInTrash(h, e) == \E l \in list_deleted(h) : last_whooing_id(h, l) = e

\* What is kept locally belongs to an entry on the server or in the trash.
MetaFollows ==
    /\ \A e \in EntryId :
          Clean(meta, e) \/ ledger[e] # NoEntry \/ Unrecorded(e) \/ RestsInTrash(history, e)
    /\ \A e \in EntryId : Fresh(e) => Clean(meta, e)
    /\ task # NoTask /\ task.kind = "restore" => task.old = last_whooing_id(history, task.lid)

\* The memo and hashtags of an edit are put under one id.
LEMMA PersistElsewhere ==
    ASSUME NEW m \in Meta, NEW e \in EntryId, NEW v, NEW tags, NEW d \in EntryId \ {e}, Clean(m, d)
    PROVE  Clean(persist(m, e, v, tags), d)
BY DEF Clean, persist, Meta

\* An attachment is put under one id.
LEMMA AttachElsewhere ==
    ASSUME NEW m \in Meta, NEW e \in EntryId, NEW f, NEW d \in EntryId \ {e}, Clean(m, d)
    PROVE  Clean(attach(m, e, f), d)
BY DEF Clean, attach, Meta

\* A purge leaves nothing under its id.
LEMMA PurgeCleans ==
    ASSUME Tag = {}, NEW m \in Meta, NEW e \in EntryId
    PROVE  /\ Clean(purge(m, e), e)
           /\ \A d \in EntryId : Clean(m, d) => Clean(purge(m, e), d)
<1>1. \A d \in EntryId : m.tags[d] = {}
  BY DEF Meta
<1> QED
  BY <1>1 DEF Clean, purge, Meta

\* A migration leaves nothing under the old id.
LEMMA MigrateCleans ==
    ASSUME Tag = {}, NEW m \in Meta, NEW old \in EntryId, NEW new \in EntryId \ {old}, Clean(m, new)
    PROVE  /\ Clean(migrate_local(m, old, new), old)
           /\ \A d \in EntryId \ {new} : Clean(m, d) => Clean(migrate_local(m, old, new), d)
<1>1. /\ \A d \in EntryId : m.tags[d] = {}
      /\ m.note \in [EntryId -> WithMemo \cup {NoRow, NoNote}]
      /\ m.tags \in [EntryId -> SUBSET Tag]
      /\ m.files \in [EntryId -> SUBSET File]
  BY DEF Meta
<1>2. ~ MigrationAborts(m, old, new) /\ old # NoId
  BY <1>1, NoIdAssumption DEF MigrationAborts
<1>3. PICK w : w = migrate_local(m, old, new)
  OBVIOUS
<1>4. /\ w.note = [m.note EXCEPT ![new] = m.note[old], ![old] = NoRow]
      /\ w.tags = [m.tags EXCEPT ![new] = @ \cup m.tags[old], ![old] = @ \cap m.tags[new]]
      /\ w.files = [m.files EXCEPT ![new] = @ \cup m.files[old], ![old] = {}]
  BY <1>2, <1>3 DEF migrate_local, Clean
<1>5. \A d \in EntryId \ {new} :
         /\ w.note[d] \in {m.note[d], NoRow} /\ w.tags[d] \subseteq m.tags[d]
         /\ w.files[d] \in {m.files[d], {}}
  BY <1>1, <1>4
<1>6. w.note[old] = NoRow /\ w.files[old] = {}
  BY <1>1, <1>4
<1> QED
  BY <1>1, <1>3, <1>5, <1>6 DEF Clean

\* The last id of an entry that goes to the trash.
LEMMA LastIdStays ==
    ASSUME NEW g, NEW b \in History, NEW l \in EntryId, NEW r, Extends(g, b, l, r),
           b.revs[l] # << >>, r.whooing_entry_id = NoId,
           NEW e \in EntryId, latest_revision(b, l).whooing_entry_id = e
    PROVE  last_whooing_id(g, l) = e
<1>1. PICK n : n = Len(b.revs[l])
  OBVIOUS
<1>2. /\ n \in Nat /\ n \in 1..n
      /\ DOMAIN b.revs[l] = 1..n /\ DOMAIN g.revs[l] = 1..(n + 1)
      /\ \A i \in 1..n : g.revs[l][i] = b.revs[l][i]
      /\ g.revs[l][n + 1] = r
      /\ b.revs[l][n].whooing_entry_id = e
  BY <1>1, HistoryFields DEF Extends, latest_revision
<1>3. n \in Mentions(g, l) /\ \A m \in Mentions(g, l) : m <= n
  BY <1>2, NoIdAssumption DEF Mentions
<1>4. \A k \in Mentions(g, l) : (\A m \in Mentions(g, l) : m <= k) => k = n
  BY <1>2, <1>3 DEF Mentions
<1>5. (CHOOSE k \in Mentions(g, l) : \A m \in Mentions(g, l) : m <= k) = n
  BY <1>3, <1>4
<1> QED
  BY <1>2, <1>3, <1>5 DEF last_whooing_id

\* A delete puts the entry into the trash with its id as the last one.
LEMMA DeleteRests ==
    ASSUME NEW h, WellFormed(h), OwnsItself(h), NEW e \in EntryId, NEW v \in Value,
           NEW before, Projects(h, before), before[e] # NoEntry
    PROVE  RestsInTrash(record_delete(h, e, v), e)
<1>1. PICK o \in EntryId : o = OwnerOf(h, e)
  BY OwnerOfId
<1>2. PICK b : b = ensure_baseline(h, e, v)
  OBVIOUS
<1>3. PICK g, r : g = record_revision(b, o, NoId, "delete", v, TRUE) /\ r = Row(NoId, "delete", v, TRUE)
  OBVIOUS
<1>4. b.revs[o] # << >> /\ latest_revision(b, o).whooing_entry_id = e
  <2>1. CASE logical_id_for_entry(h, e) = NoId
    <3>1. o = e /\ b = record_revision(h, o, e, "create", v, FALSE)
      BY <1>1, <1>2, <2>1 DEF OwnerOf, ensure_baseline
    <3>2. "create" \in Op /\ h \in History
      BY DEF Op, WellFormed
    <3>3. Filed(b, h, o, Row(e, "create", v, FALSE), {})
      BY <3>1, <3>2, RecordFiles
    <3> QED
      BY <3>3 DEF Filed, Row
  <2>2. CASE logical_id_for_entry(h, e) # NoId
    <3>1. b = h /\ Owns(h, o, e)
      BY <1>1, <1>2, <2>2, LogicalId DEF OwnerOf, ensure_baseline
    <3>2. h.head[o].current_entry_id = e
      BY <3>1, OwnerIsCurrent
    <3>3. h.revs[o] # << >>
      BY <3>1 DEF Owns
    <3> QED
      BY <3>1, <3>2, <3>3 DEF WellFormed, HeadsMatch, HeadIsLastRow
  <2> QED
    BY <2>1, <2>2
<1>5. b \in History /\ "delete" \in Op
  BY <1>2, EnsureBaselineWellFormed DEF WellFormed, Op
<1>6. Extends(g, b, o, r)
  BY <1>3, <1>5, RecordRevision
<1>7. r.whooing_entry_id = NoId /\ r.is_deleted = TRUE
  BY <1>3 DEF Row
<1>8. last_whooing_id(g, o) = e
  BY <1>4, <1>5, <1>6, <1>7, LastIdStays
<1>9. g.head[o].is_deleted
  BY <1>6, <1>7 DEF Extends
<1> QED
  BY <1>1, <1>2, <1>3, <1>8, <1>9 DEF record_delete, RestsInTrash, list_deleted

\* What is in the trash stays there when rows are filed under a live entry.
LEMMA FiledRests ==
    ASSUME NEW g, NEW h, NEW l \in EntryId, NEW r, NEW seen, Filed(g, h, l, r, seen),
           NEW e, RestsInTrash(h, e), ~ h.head[l].is_deleted \/ last_whooing_id(h, l) # e
    PROVE  RestsInTrash(g, e)
<1>1. PICK k \in list_deleted(h) : last_whooing_id(h, k) = e
  BY DEF RestsInTrash
<1>2. k \in EntryId /\ Same(g, h, k)
  BY <1>1 DEF list_deleted, Filed
<1>3. last_whooing_id(g, k) = e /\ k \in list_deleted(g)
  BY <1>1, <1>2 DEF Same, last_whooing_id, Mentions, list_deleted
<1> QED
  BY <1>3 DEF RestsInTrash

-------------------------------------------------------------------------------

\* The local tables are empty at the start.
LEMMA InitMeta == Init => MetaFollows
<1> SUFFICES ASSUME Init PROVE MetaFollows
  OBVIOUS
<1>1. \A e \in EntryId : Clean(meta, e)
  BY DEF Init, EmptyMeta, Clean
<1> QED
  BY <1>1 DEF Init, MetaFollows, Fresh, Applied

\* An id the server has not issued has no local data.
LEMMA UnissuedIsClean ==
    ASSUME IInv, MetaFollows, NEW e \in EntryId \ issued
    PROVE  Clean(meta, e)
<1>1. ledger[e] = NoEntry
  BY DEF IInv, KnownIds
<1>2. ~ Unrecorded(e)
  BY DEF Unrecorded, Applied, IInv, TaskFits, Fits
<1>3. ~ RestsInTrash(history, e)
  BY TrashedHasAnId DEF IInv, RestsInTrash, IdsWithin, list_deleted
<1> QED
  BY <1>1, <1>2, <1>3 DEF MetaFollows

\* Steps that change no store.
LEMMA StillMeta ==
    ASSUME MetaFollows, UNCHANGED <<meta, ledger, history>>,
           \/ task' = task
           \/ task' = NoTask /\ ~ Applied
           \/ /\ ~ Applied
              /\ task'.stage = "sent"
              /\ task'.kind = "restore" => task'.old = last_whooing_id(history, task'.lid)
    PROVE  MetaFollows'
<1>1. CASE task' = task
  BY <1>1 DEF MetaFollows, Unrecorded, Fresh, Applied
<1>2. CASE ~ Applied /\ task' # task
  <2>1. ~ Applied'
    BY <1>2 DEF Applied
  <2>2. \A e : ~ Unrecorded(e) /\ ~ Unrecorded(e)' /\ ~ Fresh(e)'
    BY <1>2, <2>1 DEF Unrecorded, Fresh
  <2> QED
    BY <1>2, <2>2 DEF MetaFollows
<1> QED
  BY <1>1, <1>2

\* A restore starts with the last id of the entry.
LEMMA UserStartsMeta ==
    ASSUME May = {}, IInv, CalmInv, MetaFollows,
           \/ \E v \in Value, tags \in SUBSET Tag : SubmitCreate(v, tags)
           \/ \E e \in EntryId, v \in Value, tags \in SUBSET Tag : SubmitUpdate(e, v, tags)
           \/ \E e \in EntryId : SubmitDelete(e)
           \/ \E l \in EntryId : \E n \in DOMAIN history.revs[l] : RevertTo(l, n)
           \/ \E l \in EntryId : RestoreLogical(l)
    PROVE  MetaFollows'
<1>1. ASSUME NEW t, StartTask(t), t.stage = "sent", UserMayAct \/ dialog # NoDialog,
             t.kind = "restore" => t.old = last_whooing_id(history, t.lid)
      PROVE  MetaFollows'
  <2>1. ~ Applied
    BY <1>1, NothingRuns DEF Applied
  <2>2. UNCHANGED <<meta, ledger, history>> /\ task' = t
    BY <1>1 DEF StartTask, server, local
  <2> QED
    BY <1>1, <2>1, <2>2, StillMeta
<1>2. ASSUME NEW l \in EntryId, NEW n, StartTask(Recreate(l, n)), dialog # NoDialog
      PROVE  MetaFollows'
  <2>1. PICK t : t = Recreate(l, n)
    OBVIOUS
  <2>2. t.stage = "sent" /\ t.old = last_whooing_id(history, t.lid)
    BY <2>1 DEF Recreate, Sent
  <2> QED
    BY <1>1, <1>2, <2>1, <2>2
<1>3. ASSUME NEW v \in Value, NEW tags \in SUBSET Tag, SubmitCreate(v, tags)
      PROVE  MetaFollows'
  <2>1. PICK t : t = Sent("create", NoId, NoId, NoId, NoEntry, v, tags)
    OBVIOUS
  <2> QED
    BY <1>1, <1>3, <2>1 DEF SubmitCreate, Sent
<1>4. ASSUME NEW e \in EntryId, NEW v \in Value, NEW tags \in SUBSET Tag,
             SubmitUpdate(e, v, tags)
      PROVE  MetaFollows'
  <2>1. PICK t : t = Sent("edit", e, NoId, NoId, dialog.row, v, tags)
    OBVIOUS
  <2> QED
    BY <1>1, <1>4, <2>1 DEF SubmitUpdate, OnRow, NoDialog, Showing, Sent
<1>5. ASSUME NEW e \in EntryId, SubmitDelete(e) PROVE MetaFollows'
  <2>1. PICK t : t = Sent("delete", e, NoId, NoId, NoEntry, dialog.row, {})
    OBVIOUS
  <2> QED
    BY <1>1, <1>5, <2>1 DEF SubmitDelete, OnRow, NoDialog, Showing, Sent
<1>6. ASSUME NEW l \in EntryId, NEW n \in DOMAIN history.revs[l], RevertTo(l, n)
      PROVE  MetaFollows'
  <2>1. PICK t : t = Sent("revert", history.head[l].current_entry_id, l, NoId, NoEntry,
                          history.revs[l][n].snapshot, {})
    OBVIOUS
  <2>2. dialog # NoDialog /\ (StartTask(Recreate(l, n)) \/ StartTask(t))
    BY <1>6, <2>1 DEF RevertTo, NoDialog, Showing
  <2>3. t.stage = "sent" /\ t.kind # "restore"
    BY <2>1 DEF Sent
  <2> QED
    BY <1>1, <1>2, <2>2, <2>3
<1>7. ASSUME NEW l \in EntryId, RestoreLogical(l) PROVE MetaFollows'
  BY <1>2, <1>7 DEF RestoreLogical, NoDialog, Showing
<1> QED
  BY <1>3, <1>4, <1>5, <1>6, <1>7

\* A file is attached to an entry on the server.
LEMMA AttachMeta ==
    ASSUME IInv, CalmInv, MetaFollows, NEW e \in EntryId, NEW f \in File, AttachFile(e, f)
    PROVE  MetaFollows'
<1>1. UNCHANGED <<ledger, history, task>> /\ meta' = attach(meta, e, f) /\ meta \in Meta
  BY DEF AttachFile, server, IInv, TypeOK
<1>2. dialog.kind = "row" /\ e \in dialog.ids /\ dialog # NoDialog
  BY DEF AttachFile, OnRow, NoDialog, Showing
<1>3. task = NoTask
  BY <1>2 DEF CalmInv, Waits
<1>4. ledger[e] # NoEntry
  BY <1>2, EntryHistoryAssumption DEF CalmInv, Shown, IInv, KnownIds
<1>5. \A d \in EntryId \ {e} : Clean(meta, d) => Clean(meta', d)
  BY <1>1, AttachElsewhere
<1> QED
  BY <1>1, <1>3, <1>4, <1>5 DEF MetaFollows, Unrecorded, Fresh, Applied

\* A purge takes the local data of the last id with it.
LEMMA PurgeMeta ==
    ASSUME May = {}, Tag = {}, IInv, LInv, CalmInv, MetaFollows, NEW l \in EntryId, PurgeLogical(l)
    PROVE  MetaFollows'
<1>1. task = NoTask /\ task' = task /\ ledger' = ledger
  BY NothingRuns DEF PurgeLogical, NoDialog, Showing, server
<1>2. l \in list_deleted(history) /\ WellFormed(history) /\ meta \in Meta
  BY DEF PurgeLogical, LInv, TrashListed, IInv, TypeOK
<1>3. PICK e \in EntryId : e = last_whooing_id(history, l)
  BY <1>2, TrashedHasAnId
<1>4. history' = purge_logical(history, l) /\ meta' = purge(meta, e)
  BY <1>3, NoFailures, NoIdAssumption DEF PurgeLogical
<1>5. Clean(meta', e) /\ \A d \in EntryId : Clean(meta, d) => Clean(meta', d)
  BY <1>2, <1>4, PurgeCleans
<1>6. \A k \in EntryId \ {l} : Same(history', history, k)
  BY <1>2, <1>4 DEF purge_logical, Same, WellFormed, History
<1>7. ASSUME NEW d \in EntryId \ {e}, RestsInTrash(history, d)
      PROVE  RestsInTrash(history', d)
  <2>1. PICK k \in list_deleted(history) : last_whooing_id(history, k) = d
    BY <1>7 DEF RestsInTrash
  <2>2. k \in EntryId \ {l}
    BY <1>3, <2>1 DEF list_deleted
  <2>3. Same(history', history, k)
    BY <1>6, <2>2
  <2>4. last_whooing_id(history', k) = d /\ k \in list_deleted(history')
    BY <2>1, <2>2, <2>3 DEF Same, last_whooing_id, Mentions, list_deleted
  <2> QED
    BY <2>4 DEF RestsInTrash
<1> QED
  BY <1>1, <1>5, <1>7 DEF MetaFollows, Unrecorded, Fresh, Applied

\* The server gives out an id without local data, or changes an entry whose
\* change is yet to be recorded.
LEMMA ApplyMeta == ASSUME IInv, CalmInv, MetaFollows, ServerApply PROVE MetaFollows'
<1>1. /\ task # NoTask /\ task \in Task /\ task.stage = "sent"
      /\ UNCHANGED <<history, meta>> /\ ledger \in Rows
  BY DEF ServerApply, IInv, TypeOK, local
<1>2. \A e : ~ Unrecorded(e)
  BY <1>1 DEF Unrecorded, Applied
<1>3. PICK e \in EntryId :
         /\ \A d \in EntryId \ {e} : ledger'[d] = ledger[d]
         /\ task'.kind = task.kind /\ task'.eid = e /\ task'.lid = task.lid
         /\ task'.old = task.old /\ task' # NoTask /\ task'.stage = "applied"
         /\ task.kind \in {"create", "restore"} => e \notin issued
  <2>1. CASE task.kind \in {"create", "restore"}
    BY <1>1, <2>1 DEF ServerApply, Task, NoTask, Rows
  <2>2. CASE task.kind \in {"edit", "revert", "delete"}
    <3>1. PICK e \in EntryId : e = task.eid
      BY <1>1, <2>2 DEF IInv, TypeOK, TaskFits, Fits
    <3> QED
      BY <1>1, <2>2, <3>1 DEF ServerApply, Task, NoTask, Rows
  <2> QED
    BY <1>1, <2>1, <2>2 DEF Task
<1>4. CASE task.kind \in {"create", "restore"}
  <2>1. Clean(meta, e)
    BY <1>3, <1>4, UnissuedIsClean
  <2>2. \A d \in EntryId : Fresh(d)' => d = e
    BY <1>3 DEF Fresh
  <2> QED
    BY <1>1, <1>2, <1>3, <2>1, <2>2 DEF MetaFollows
<1>5. CASE task.kind \in {"edit", "revert", "delete"}
  <2>1. Unrecorded(e)' /\ \A d : ~ Fresh(d)'
    BY <1>3, <1>5 DEF Unrecorded, Fresh, Applied
  <2> QED
    BY <1>1, <1>2, <1>3, <1>5, <2>1 DEF MetaFollows
<1> QED
  BY <1>1, <1>4, <1>5 DEF Task

\* A worker resumes: every id of local data is on the server or in the trash.
LEMMA WorkerMeta ==
    ASSUME NEW kind, Resumes(kind),
           \A d \in EntryId : Clean(meta', d) \/ ledger[d] # NoEntry \/ RestsInTrash(history', d)
    PROVE  MetaFollows'
<1>1. task' = NoTask /\ ledger' = ledger
  BY DEF Resumes, server
<1> QED
  BY <1>1 DEF MetaFollows, Fresh, Applied

\* What a worker finds of local data.
LEMMA FoundMeta ==
    ASSUME MetaFollows, NEW kind, Resumes(kind), NEW e, e = task.eid
    PROVE  /\ \A d \in EntryId \ {e} :
                 Clean(meta, d) \/ ledger[d] # NoEntry \/ RestsInTrash(history, d)
           /\ kind \in {"create", "restore"} /\ e \in EntryId => Clean(meta, e)
<1>1. task # NoTask /\ task.kind = kind /\ task.stage = "applied"
  BY DEF Resumes
<1> QED
  BY <1>1 DEF MetaFollows, Unrecorded, Fresh, Applied

\* Whatever a worker records, local data stay with their entries.
LEMMA WorkersMeta ==
    ASSUME May = {}, Tag = {}, IInv, LInv, CalmInv, MetaFollows, WorkerStep
    PROVE  MetaFollows'
<1>1. /\ meta \in Meta /\ WellFormed(history) /\ history \in History /\ OwnsItself(history)
  BY DEF IInv, TypeOK, LInv
<1>2. \A l \in EntryId : history.revs[l] = << >> => ~ history.head[l].is_deleted
  BY <1>1 DEF WellFormed, HeadsMatch, HeadIsLastRow, NoHead
<1>3. ASSUME RecordCreate PROVE MetaFollows'
  <2>1. /\ Resumes("create")
        /\ \E tags : meta' \in {meta, persist(meta, task.eid, task.val, tags)}
        /\ history' = ensure_baseline(history, task.eid, task.val)
    BY <1>3, NoFailures DEF RecordCreate
  <2>2. PICK e \in EntryId, v \in Value : e = task.eid /\ v = task.val
    BY <1>1, <2>1, Resumed
  <2>3. ledger[e] # NoEntry /\ \A l \in EntryId : ~ Owns(history, l, e)
    BY <2>1, <2>2, EntryHistoryAssumption, Found
  <2>4. \A d \in EntryId \ {e} : Clean(meta, d) => Clean(meta', d)
    BY <1>1, <2>1, <2>2, PersistElsewhere
  <2>5. logical_id_for_entry(history, e) = NoId
    BY <1>1, <2>3, LogicalId, NoIdAssumption
  <2>6. history.revs[e] = << >> /\ history' = record_revision(history, e, e, "create", v, FALSE)
    BY <1>1, <2>1, <2>2, <2>5, NoOwner DEF ensure_baseline
  <2>7. "create" \in Op
    BY DEF Op
  <2>8. Filed(history', history, e, Row(e, "create", v, FALSE), {})
    BY <1>1, <2>6, <2>7, RecordFiles
  <2>9. \A d : RestsInTrash(history, d) => RestsInTrash(history', d)
    BY <1>2, <2>6, <2>8, FiledRests
  <2> QED
    BY <2>1, <2>2, <2>3, <2>4, <2>9, FoundMeta, WorkerMeta
<1>4. ASSUME RecordEdit PROVE MetaFollows'
  <2>1. /\ Resumes("edit") /\ \E tags : meta' = persist(meta, task.eid, task.val, tags)
        /\ history' = record_edit(history, task.eid, task.prev, task.val)
    BY <1>4, NoFailures DEF RecordEdit
  <2>2. PICK e \in EntryId, v \in Value, prev \in Value :
           e = task.eid /\ v = task.val /\ prev = task.prev
    BY <1>1, <2>1, Resumed
  <2>3. /\ ledger[e] # NoEntry
        /\ \E before \in Rows : Projects(history, before) /\ before[e] # NoEntry
    BY <2>1, <2>2, EntryHistoryAssumption, Found
  <2>4. \A d \in EntryId \ {e} : Clean(meta, d) => Clean(meta', d)
    BY <1>1, <2>1, <2>2, PersistElsewhere
  <2>5. PICK o \in EntryId : o = OwnerOf(history, e)
    BY <1>1, OwnerOfId
  <2>6. ~ history.head[o].is_deleted
    <3>1. history.revs[o] # << >> => history.head[o].current_entry_id = e
      BY <1>1, <2>3, <2>5, OwnerIsCurrent
    <3> QED
      BY <1>1, <1>2, <3>1, NoIdAssumption DEF WellFormed, HeadsMatch, HeadIsLastRow
  <2>7. PICK r, seen : /\ r = Row(e, "edit", v, FALSE)
                       /\ seen = IF logical_id_for_entry(history, e) = NoId THEN {prev} ELSE {}
    OBVIOUS
  <2>8. "edit" \in Op
    BY DEF Op
  <2>9. Filed(history', history, o, r, seen)
    BY <1>1, <2>1, <2>2, <2>5, <2>7, <2>8, BaselineFiles DEF record_edit
  <2>10. \A d : RestsInTrash(history, d) => RestsInTrash(history', d)
    BY <2>6, <2>9, FiledRests
  <2> QED
    BY <2>1, <2>2, <2>3, <2>4, <2>10, FoundMeta, WorkerMeta
<1>5. ASSUME RecordDelete PROVE MetaFollows'
  <2>1. /\ Resumes("delete") /\ meta' = meta
        /\ history' = record_delete(history, task.eid, task.val)
    BY <1>5, NoFailures DEF RecordDelete
  <2>2. PICK e \in EntryId, v \in Value : e = task.eid /\ v = task.val
    BY <1>1, <2>1, Resumed
  <2>3. PICK before \in Rows : Projects(history, before) /\ before[e] # NoEntry
    BY <2>1, <2>2, Found
  <2>4. RestsInTrash(record_delete(history, e, v), e)
    BY <1>1, <2>3, DeleteRests
  <2>5. PICK o \in EntryId : o = OwnerOf(history, e)
    BY <1>1, OwnerOfId
  <2>6. ~ history.head[o].is_deleted
    <3>1. history.revs[o] # << >> => history.head[o].current_entry_id = e
      BY <1>1, <2>3, <2>5, OwnerIsCurrent
    <3> QED
      BY <1>1, <1>2, <3>1, NoIdAssumption DEF WellFormed, HeadsMatch, HeadIsLastRow
  <2>7. PICK r, seen : /\ r = Row(NoId, "delete", v, TRUE)
                       /\ seen = IF logical_id_for_entry(history, e) = NoId THEN {v} ELSE {}
    OBVIOUS
  <2>8. "delete" \in Op
    BY DEF Op
  <2>9. Filed(history', history, o, r, seen)
    BY <1>1, <2>1, <2>2, <2>5, <2>7, <2>8, BaselineFiles DEF record_delete
  <2>10. \A d : RestsInTrash(history, d) => RestsInTrash(history', d)
    BY <2>6, <2>9, FiledRests
  <2> QED
    BY <2>1, <2>2, <2>4, <2>10, FoundMeta, WorkerMeta
<1>6. ASSUME RecordRestore PROVE MetaFollows'
  <2>1. /\ Resumes("restore") /\ meta' = migrate_local(meta, task.old, task.eid)
        /\ history' = record_revision(history, task.lid, task.eid, "restore", task.val, FALSE)
    BY <1>6, NoFailures DEF RecordRestore
  <2>2. /\ task.val \in Value /\ task.lid \in EntryId /\ task.eid \in EntryId
        /\ Aims(task, history) /\ task.kind = "restore" /\ task # NoTask
    BY <1>1, <2>1, Resumed DEF Resumes
  <2>3. PICK e \in EntryId, l \in EntryId, v \in Value :
           e = task.eid /\ l = task.lid /\ v = task.val
    BY <2>2
  <2>4. l \in list_deleted(history)
    BY <2>2, <2>3 DEF Aims, list_deleted
  <2>5. PICK old \in EntryId : old = last_whooing_id(history, l) /\ Owns(history, l, old)
    BY <1>1, <2>4, TrashedHasAnId
  <2>6. task.old = old
    BY <2>2, <2>3, <2>5 DEF MetaFollows
  <2>7. ledger[e] # NoEntry /\ e # old
    BY <2>1, <2>3, <2>5, EntryHistoryAssumption, Found
  <2>8. Clean(meta, e)
    BY <2>1, <2>3, FoundMeta
  <2>9. /\ Clean(meta', old)
        /\ \A d \in EntryId \ {e} : Clean(meta, d) => Clean(meta', d)
    BY <1>1, <2>1, <2>3, <2>6, <2>7, <2>8, MigrateCleans
  <2>10. "restore" \in Op
    BY DEF Op
  <2>11. Filed(history', history, l, Row(e, "restore", v, FALSE), {})
    BY <1>1, <2>1, <2>3, <2>10, RecordFiles
  <2>12. \A d : RestsInTrash(history, d) /\ d # old => RestsInTrash(history', d)
    BY <2>5, <2>11, FiledRests
  <2> QED
    BY <2>1, <2>3, <2>7, <2>9, <2>12, FoundMeta, WorkerMeta
<1>7. ASSUME RecordRevert PROVE MetaFollows'
  <2>1. /\ Resumes("revert") /\ meta' = meta
        /\ history' = record_revision(history, task.lid, task.eid, "revert", task.val, FALSE)
    BY <1>7, NoFailures DEF RecordRevert
  <2>2. /\ task.val \in Value /\ task.lid \in EntryId /\ task.eid \in EntryId
        /\ Aims(task, history) /\ task.kind = "revert"
    BY <1>1, <2>1, Resumed
  <2>3. PICK e \in EntryId, l \in EntryId, v \in Value :
           e = task.eid /\ l = task.lid /\ v = task.val
    BY <2>2
  <2>4. ledger[e] # NoEntry
    BY <2>1, <2>3, EntryHistoryAssumption, Found
  <2>5. ~ history.head[l].is_deleted
    BY <2>2, <2>3 DEF Aims
  <2>6. "revert" \in Op
    BY DEF Op
  <2>7. Filed(history', history, l, Row(e, "revert", v, FALSE), {})
    BY <1>1, <2>1, <2>3, <2>6, RecordFiles
  <2>8. \A d : RestsInTrash(history, d) => RestsInTrash(history', d)
    BY <2>5, <2>7, FiledRests
  <2> QED
    BY <2>1, <2>3, <2>4, <2>8, FoundMeta, WorkerMeta
<1> QED
  BY <1>3, <1>4, <1>5, <1>6, <1>7 DEF WorkerStep

\* MetaFollows is inductive for one user who waits and uses no hashtags.
LEMMA NextMeta ==
    ASSUME May = {}, Tag = {}, IInv, LInv, CalmInv, MetaFollows, [Next]_vars
    PROVE  MetaFollows'
<1>1. dedup = NoId
  BY DEF CalmInv, Waits
<1>2. CASE \/ UNCHANGED vars
           \/ \E e \in EntryId : OpenRow(e) \/ OpenHistory(e)
           \/ OpenTrash \/ CloseDialog
           \/ \E l \in EntryId : ConfirmPurge(l)
           \/ RefreshKey \/ RefreshAnswer \/ ServerRefuse
           \/ RefreshFromCache \/ RefreshApply
  <2>1. UNCHANGED <<meta, ledger>> /\ (task' = task \/ (task' = NoTask /\ ~ Applied))
    BY <1>2
    DEF vars, OpenRow, OpenHistory, OpenTrash, CloseDialog, ConfirmPurge, RefreshKey,
        RefreshAnswer, ServerRefuse, RefreshFromCache, RefreshApply, Show, Applied,
        server, local
  <2>2. history' = history
    BY <1>2, ShowKeepsHistory
    DEF vars, OpenRow, OpenHistory, OpenTrash, CloseDialog, ConfirmPurge, RefreshKey,
        RefreshAnswer, ServerRefuse, RefreshFromCache, RefreshApply, local
  <2> QED
    BY <2>1, <2>2, StillMeta
<1>3. CASE UserStep
  BY <1>2, <1>3, UserStartsMeta, AttachMeta, PurgeMeta DEF UserStep, DedupDelete
<1> QED
  BY <1>1, <1>2, <1>3, ApplyMeta, WorkersMeta
  DEF Next, AnswerLost, AnswerWithoutId, RefreshStep, RefreshFails, DedupPurge,
      ExternalDelete, ExternalEdit, Crash

\* A restored entry takes its memo and attachments along: between the answer of
\* the server and the move of the rows nothing comes in between.  With hashtags
\* it does not hold (run v_tags).
THEOREM LocalDataMoves == ASSUME May = {}, Tag = {} PROVE Spec => []LocalDataFollows
<1>1. ASSUME IInv, CalmInv, MetaFollows, Settled, NEW l \in Tracked(history), NEW e \in EntryId,
             Owns(history, l, e), ~ history.head[l].is_deleted,
             e # history.head[l].current_entry_id
      PROVE  Clean(meta, e)
  <2>1. \A d : ~ Unrecorded(d)
    BY <1>1 DEF Settled, Unrecorded, Applied
  <2>2. l \in EntryId /\ history.revs[l] # << >>
    BY DEF Tracked
  <2>3. ledger[e] = NoEntry
    BY <1>1, <2>1, <2>2 DEF CalmInv, HistoryFollows, Projects
  <2>4. ASSUME NEW k \in list_deleted(history), last_whooing_id(history, k) = e PROVE FALSE
    <3>1. Owns(history, k, e) /\ k \in EntryId
      BY <1>1, <2>4, TrashedHasAnId DEF IInv, list_deleted
    <3>2. k = l
      BY <1>1, <2>2, <3>1 DEF IInv, WellFormed, UniqueOwner
    <3> QED
      BY <1>1, <2>4, <3>2 DEF list_deleted
  <2> QED
    BY <1>1, <2>1, <2>3, <2>4 DEF MetaFollows, RestsInTrash
<1>2. IInv /\ CalmInv /\ MetaFollows => LocalDataFollows
  BY <1>1 DEF LocalDataFollows, Clean
<1>3. Init => IInv /\ LInv /\ CalmInv /\ MetaFollows
  BY InitIInv, InitLInv, InitCalm, InitMeta
<1>4. IInv /\ LInv /\ CalmInv /\ MetaFollows /\ [Next]_vars
         => (IInv /\ LInv /\ CalmInv /\ MetaFollows)'
  BY NextIInv, NextLInv, NextCalm, NextMeta
<1> QED
  BY <1>2, <1>3, <1>4, PTL DEF Spec
===============================================================================
