------------------------- MODULE DuplicateScanProofs -------------------------
(***************************************************************************)
(* Proofs about DuplicateScan: types, that of entries that were alike one  *)
(* is left, that the entries are loaded again after a deletion, that       *)
(* pending clusters are kept, and that verdicts say what was done.         *)
(***************************************************************************)
EXTENDS DuplicateScan, FiniteSetTheorems, TLAPS

-------------------------------------------------------------------------------
(* The inductive invariant *)

\* A cluster as the search made it: linked, and keeping one of its entries.
Proper == {c \in Cluster : Linked(c.members) /\ c.keep \in c.members}

RowsInv  == \A s \in Slot : \A i \in DOMAIN rows[s] : rows[s][i] \in Proper
ListInv  == \A i \in DOMAIN list : list[i] \in Proper
MarksInv == screen = "cleaning" => \A i \in DOMAIN list : clean.marks[i] \subseteq list[i].members

\* A deletion is of a cluster's own entries, and of the one to keep only if the user
\* said so.
JobInv ==
    Working => /\ job.of \in Proper /\ job.left \subseteq job.of.members
               /\ job.applied => job.done # {}
               /\ job.of.keep \in job.left => job.of.keep \in chosen

\* Who still has to say that entries were deleted.
ToldInv ==
    "whole" \in unseen =>
        \/ screen = "off"
        \/ screen \in {"overview", "refreshing"} /\ dirty
        \/ screen = "cleaning" /\ (dirty \/ clean.dirty)

\* The proposal of a cluster that waits is the best of its entries, and one of the
\* group is left that is at least as good.
WellKept(c, G) ==
    /\ \A f \in c.members : Preferred(c.keep, f)
    /\ \E x \in G \cap ledger : Preferred(x, c.keep)

\* LastCopyStays, with what the clusters that wait say of the copies.
BestStays ==
    \A G \in Groups :
        \/ G \cap (chosen \cup touched) # {}
        \/ /\ G \cap ledger # {}
           /\ \A c \in Waiting : c.members \cap G # {} => WellKept(c, G)

ScanInv == TypeOK /\ RowsInv /\ ListInv /\ MarksInv /\ JobInv /\ ToldInv /\ BestStays

-------------------------------------------------------------------------------
(* Lemmas about clusters *)

\* A set of numbers has a least one.
LEMMA LeastIsLeast ==
    ASSUME NEW S, S \subseteq Nat, S # {}
    PROVE  Min(S) \in S /\ \A f \in S : Min(S) <= f
<1>1. PICK e \in S : \A f \in S : <<f, e>> \notin OpToRel(<, Nat)
    BY NatLessThanWellFounded, WFMin
<1>2. \A f \in S : ~(f < e)
    BY <1>1 DEF OpToRel
<1>3. \A f \in S : e <= f
    BY <1>2
<1> QED
    BY <1>3 DEF Min

\* Of some entries one is the best, and best entries are compared as numbers are.
LEMMA PickIsBest ==
    ASSUME score \in [Entry -> Score], NEW S, S \subseteq Entry, S # {}
    PROVE  _pick_keep_id(S) \in S /\ \A f \in S : Preferred(_pick_keep_id(S), f)
<1> DEFINE lack(e) == 12 - score[e]
           lacks   == {lack(e) : e \in S}
           firsts  == {e \in S : lack(e) = Min(lacks)}
<1>1. S \subseteq Nat /\ \A e \in S : score[e] \in Int /\ score[e] <= 12
    BY ScanAssumption DEF ScanAssumption, Score
<1>2. \A e \in S : lack(e) \in Nat
    BY <1>1
<1>3. \A e \in S, f \in S : lack(e) < lack(f) => score[e] > score[f]
    BY <1>1
<1>4. \A e \in S, f \in S : lack(e) = lack(f) => score[e] = score[f]
    BY <1>1
<1> HIDE DEF lack
<1>5. lacks \subseteq Nat /\ lacks # {}
    BY <1>2
<1>6. Min(lacks) \in lacks /\ \A k \in lacks : Min(lacks) <= k
    BY <1>5, LeastIsLeast
<1>7. firsts # {} /\ firsts \subseteq Nat
    BY <1>1, <1>6
<1>8. Min(firsts) \in firsts /\ \A e \in firsts : Min(firsts) <= e
    BY <1>7, LeastIsLeast
<1>9. ASSUME NEW f \in S PROVE Preferred(Min(firsts), f)
  <2> PICK e \in S : e = Min(firsts) /\ lack(e) = Min(lacks)
      BY <1>8
  <2>1. lack(e) <= lack(f) /\ lack(e) \in Nat /\ lack(f) \in Nat
      BY <1>2, <1>6
  <2>2. CASE lack(e) = lack(f)
    <3>1. e <= f
        BY <1>8, <2>2
    <3> QED
        BY <1>4, <2>2, <3>1 DEF Preferred
  <2>3. CASE lack(e) < lack(f)
      BY <1>3, <2>3 DEF Preferred
  <2> QED
      BY <2>1, <2>2, <2>3
<1>10. Min(firsts) \in S
    BY <1>8
<1> HIDE DEF firsts, lacks
<1> QED
    BY <1>9, <1>10 DEF _pick_keep_id

LEMMA PreferredOrders ==
    ASSUME score \in [Entry -> Score], NEW e \in Entry, NEW f \in Entry, NEW g \in Entry
    PROVE  /\ Preferred(e, f) /\ Preferred(f, g) => Preferred(e, g)
           /\ Preferred(e, f) /\ Preferred(f, e) => e = f
           /\ Preferred(e, e)
<1>1. /\ score[e] \in Int /\ score[f] \in Int /\ score[g] \in Int
      /\ e \in Nat /\ f \in Nat /\ g \in Nat
    BY ScanAssumption DEF ScanAssumption, Score
<1> QED
    BY <1>1 DEF Preferred

\* The clusters found among some entries are linked sets of them, finitely many.
LEMMA ClustersFound ==
    ASSUME NEW S, S \subseteq Entry
    PROVE  /\ IsFiniteSet(find_duplicate_clusters(S))
           /\ \A C \in find_duplicate_clusters(S) : C \subseteq Entry /\ C # {} /\ Linked(C)
<1>1. IsFiniteSet(SUBSET S)
    BY ScanAssumption, FS_Subset, FS_SUBSET DEF ScanAssumption
<1>2. IsFiniteSet(find_duplicate_clusters(S))
    BY <1>1, FS_Subset DEF find_duplicate_clusters
<1>3. Cardinality({}) = 0
    BY FS_EmptySet
<1> QED
    BY <1>2, <1>3 DEF find_duplicate_clusters

\* A linked set that meets a cluster of all entries is part of it.
LEMMA LinkedInside ==
    ASSUME NEW C \in Groups, NEW M, M \subseteq Entry,
           Linked(M), M \cap C # {}
    PROVE  M \subseteq C
<1> SUFFICES ASSUME ~(M \subseteq C) PROVE FALSE
    OBVIOUS
<1>1. M \cap C \in (SUBSET M) \ {{}, M}
    OBVIOUS
<1>2. PICK e \in M \cap C, f \in M \ (M \cap C) : {e, f} \in Alike
    BY <1>1 DEF Linked
<1> QED
    BY <1>2 DEF Groups, find_duplicate_clusters

\* The sequences of a list's clusters.
LEMMA SetsTyped ==
    ASSUME NEW S, S \subseteq Entry, NEW sets \in SetToSeqs(find_duplicate_clusters(S))
    PROVE  /\ sets \in Seq(SUBSET Entry) /\ Len(sets) \in Nat /\ DOMAIN sets = 1..Len(sets)
           /\ \A i \in DOMAIN sets : sets[i] \in find_duplicate_clusters(S)
<1> DEFINE T == find_duplicate_clusters(S)
<1>1. Cardinality(T) \in Nat
    BY ClustersFound, FS_CardinalityType
<1>2. sets \in [1..Cardinality(T) -> T]
    BY DEF SetToSeqs
<1>3. T \subseteq SUBSET Entry
    BY DEF find_duplicate_clusters
<1> HIDE DEF T
<1>4. sets \in Seq(T)
    BY <1>1, <1>2
<1> QED
    BY <1>1, <1>2, <1>3, <1>4 DEF T

\* The numbered clusters of a list are proper.
LEMMA StoredProper ==
    ASSUME score \in [Entry -> Score], NEW S, S \subseteq Entry,
           NEW C \in find_duplicate_clusters(S), NEW n \in Nat \ {0}
    PROVE  [id |-> n, members |-> C, keep |-> _pick_keep_id(C), status |-> "pending"] \in Proper
<1>1. C \subseteq Entry /\ C # {} /\ Linked(C)
    BY ClustersFound
<1>2. _pick_keep_id(C) \in C
    BY <1>1, PickIsBest
<1> QED
    BY <1>1, <1>2 DEF Proper, Cluster

-------------------------------------------------------------------------------
(* Lemmas about the deletion *)

\* What waits is proper.
LEMMA WaitingProper ==
    ASSUME RowsInv, ListInv, JobInv
    PROVE  Waiting \subseteq Proper
BY DEF RowsInv, ListInv, JobInv, Waiting, Working, Pending

\* A cluster that waits and meets a group is inside it.
LEMMA WaitingInside ==
    ASSUME ScanInv, NEW G \in Groups, NEW c \in Waiting, c.members \cap G # {}
    PROVE  c.members \subseteq G /\ c.keep \in c.members /\ G \subseteq Entry
<1>1. c \in Proper
    BY WaitingProper DEF ScanInv
<1>2. G \subseteq Entry
    BY DEF Groups, find_duplicate_clusters
<1> QED
    BY <1>1, <1>2, LinkedInside DEF Proper, Cluster

\* Nothing is deleted and no cluster comes to wait.
LEMMA BestStaysElse ==
    ASSUME BestStays, Waiting' \subseteq Waiting, score' = score,
           ledger \subseteq ledger', chosen \subseteq chosen', touched \subseteq touched'
    PROVE  BestStays'
<1>1. Groups' = Groups
    BY DEF Groups, find_duplicate_clusters, Linked
<1>2. ASSUME NEW c, NEW G, WellKept(c, G) PROVE WellKept(c, G)'
    BY <1>2 DEF WellKept, Preferred
<1> QED
    BY <1>1, <1>2 DEF BestStays

\* An entry of a cluster is deleted: one that is at least as good as the cluster's
\* proposal is left, which is at least as good as the deleted one.
LEMMA DeletionLeavesBest ==
    ASSUME ScanInv, Working, NEW e \in job.left, ledger' = ledger \ {e},
           Waiting' \subseteq Waiting, score' = score,
           chosen \subseteq chosen', touched \subseteq touched'
    PROVE  BestStays'
<1>1. Groups' = Groups
    BY DEF Groups, find_duplicate_clusters, Linked
<1>2. score \in [Entry -> Score]
    BY DEF ScanInv, TypeOK
<1>3. ASSUME NEW G \in Groups, G \cap (chosen \cup touched) = {}
      PROVE  /\ G \cap ledger' # {}
             /\ \A c \in Waiting : c.members \cap G # {} => WellKept(c, G)'
  <2>1. /\ G \cap ledger # {}
        /\ \A c \in Waiting : c.members \cap G # {} => WellKept(c, G)
      BY <1>3 DEF ScanInv, BestStays
  <2>2. CASE e \notin G
    <3>1. G \cap ledger' = G \cap ledger
        BY <2>2
    <3> QED
        BY <2>1, <3>1 DEF WellKept, Preferred
  <2>3. CASE e \in G
    <3> PICK d : d = job.of
        OBVIOUS
    <3>1. d \in Waiting /\ e \in d.members /\ (d.keep \in job.left => d.keep \in chosen)
        BY DEF ScanInv, JobInv, Waiting, Working
    <3>2. d.members \subseteq G /\ d.keep \in d.members /\ G \subseteq Entry
        BY <2>3, <3>1, WaitingInside
    <3>3. d.keep # e
        BY <1>3, <3>1, <3>2
    <3>4. WellKept(d, G)
        BY <2>1, <2>3, <3>1
    <3>5. PICK x \in G \cap ledger : Preferred(x, d.keep)
        BY <3>4 DEF WellKept
    <3>6. Preferred(d.keep, e)
        BY <3>1, <3>4 DEF WellKept
    <3>7. x # e
        BY <1>2, <3>2, <3>3, <3>5, <3>6, PreferredOrders
    <3>8. Preferred(x, e)
        BY <1>2, <2>3, <3>2, <3>5, <3>6, PreferredOrders
    <3>9. ASSUME NEW c \in Waiting, c.members \cap G # {} PROVE WellKept(c, G)'
      <4>1. WellKept(c, G) /\ c.keep \in Entry
          BY <2>1, <3>9, WaitingInside
      <4>2. PICK y \in G \cap ledger : Preferred(y, c.keep)
          BY <4>1 DEF WellKept
      <4>3. PICK z \in G \cap ledger' : Preferred(z, c.keep)
        <5>1. CASE y = e
            BY <1>2, <3>2, <3>5, <3>7, <3>8, <4>1, <4>2, <5>1, PreferredOrders
        <5>2. CASE y # e
            BY <4>2, <5>2
        <5> QED
            BY <5>1, <5>2
      <4> QED
          BY <4>1, <4>3 DEF WellKept, Preferred
    <3> QED
        BY <3>5, <3>7, <3>9
  <2> QED
      BY <2>2, <2>3
<1> QED
    BY <1>1, <1>3 DEF BestStays

\* A deletion that is cut short keeps the types and the entries that stay.
LEMMA CutShortKeeps ==
    ASSUME ScanInv, NEW late \in Late, CutShort(late),
           chosen \subseteq chosen', Waiting' \subseteq Waiting
    PROVE  /\ ledger' \subseteq Entry /\ treated' \cup excused' \subseteq Nat
           /\ score' = score /\ touched' = touched
           /\ How(late) \subseteq {"cut"} /\ BestStays'
<1>1. Working => job \in Job /\ job.of \in Cluster /\ job.of.id \in Nat
    BY DEF ScanInv, TypeOK, Job, Cluster
<1>2. \/ late = {}
      \/ Working /\ \E e \in job.left : late = {e}
    BY DEF Late
<1>3. ~Working => Deleted(late) = {}
    BY <1>2 DEF Deleted
<1>4. /\ ledger' = ledger \ late /\ score' = score /\ touched' = touched
    BY DEF CutShort
<1>5. ledger' \subseteq Entry /\ treated' \cup excused' \subseteq Nat
    BY <1>1, <1>2, <1>3 DEF CutShort, ScanInv, TypeOK
<1>6. CASE late = {}
    BY <1>4, <1>5, <1>6, BestStaysElse DEF ScanInv, How
<1>7. CASE Working /\ \E e \in job.left : late = {e}
    BY <1>4, <1>5, <1>7, DeletionLeavesBest DEF How
<1> QED
    BY <1>2, <1>6, <1>7

\* The table after a cluster is resolved.
LEMMA ResolvedProper ==
    ASSUME TypeOK, RowsInv, NEW id
    PROVE  /\ Resolved(id) \in [Slot -> Seq(Cluster)]
           /\ \A s \in Slot : /\ DOMAIN Resolved(id)[s] = DOMAIN rows[s]
                              /\ \A i \in DOMAIN rows[s] :
                                    /\ Resolved(id)[s][i] \in Proper
                                    /\ Resolved(id)[s][i].id = rows[s][i].id
<1>1. ASSUME NEW s \in Slot
      PROVE  /\ Resolved(id)[s] \in Seq(Cluster)
             /\ DOMAIN Resolved(id)[s] = DOMAIN rows[s]
             /\ \A i \in DOMAIN rows[s] : /\ Resolved(id)[s][i] \in Proper
                                          /\ Resolved(id)[s][i].id = rows[s][i].id
  <2>1. rows[s] \in Seq(Cluster) /\ DOMAIN rows[s] = 1..Len(rows[s]) /\ Len(rows[s]) \in Nat
      BY DEF TypeOK
  <2>2. DOMAIN Resolved(id)[s] = DOMAIN rows[s]
      BY DEF Resolved
  <2>3. ASSUME NEW i \in DOMAIN rows[s]
        PROVE  Resolved(id)[s][i] \in Proper /\ Resolved(id)[s][i].id = rows[s][i].id
    <3>1. rows[s][i] \in Proper /\ rows[s][i] \in Cluster
        BY DEF RowsInv, Proper
    <3>2. Resolved(id)[s][i] = IF rows[s][i].id = id
                               THEN [rows[s][i] EXCEPT !.status = "resolved"] ELSE rows[s][i]
        BY DEF Resolved
    <3>3. Resolved(id)[s][i] \in Cluster /\ Resolved(id)[s][i].members = rows[s][i].members
          /\ Resolved(id)[s][i].keep = rows[s][i].keep /\ Resolved(id)[s][i].id = rows[s][i].id
        BY <3>1, <3>2 DEF Cluster
    <3> QED
        BY <3>1, <3>3 DEF Proper
  <2>4. Resolved(id)[s] = [i \in 1..Len(rows[s]) |-> Resolved(id)[s][i]]
      BY <2>1 DEF Resolved
  <2>5. \A i \in 1..Len(rows[s]) : Resolved(id)[s][i] \in Cluster
      BY <2>1, <2>3 DEF Proper
  <2>6. Resolved(id)[s] \in Seq(Cluster)
    <3>1. PICK seq, n : seq = Resolved(id)[s] /\ n = Len(rows[s])
        OBVIOUS
    <3>2. n \in Nat /\ seq = [i \in 1..n |-> seq[i]] /\ \A i \in 1..n : seq[i] \in Cluster
        BY <2>1, <2>4, <2>5, <3>1
    <3>3. seq \in Seq(Cluster)
        BY <3>2
    <3> QED
        BY <3>1, <3>3
  <2> QED
      BY <2>2, <2>3, <2>6
<1>2. Resolved(id) = [s \in Slot |-> Resolved(id)[s]]
    BY DEF Resolved
<1> QED
    BY <1>1, <1>2

-------------------------------------------------------------------------------
(* Every step keeps the invariant *)

\* The empty sequence is one of clusters.
LEMMA NoClusters == << >> \in Seq(Cluster) /\ DOMAIN << >> = {}
OBVIOUS

\* Every cluster that waits waited before.
LEMMA WaitsStay ==
    ASSUME \A s \in Slot : rows'[s] = rows[s] \/ rows'[s] = << >>,
           \/ list' = list \/ list' = << >>
           \/ \E s \in Slot : list' = rows[s],
           \/ job' = job \/ job' = NoJob
           \/ job # NoJob /\ job'.of = job.of
           \/ \E i \in Pending(list) : job'.of = list[i]
    PROVE  Waiting' \subseteq Waiting
<1>1. Pending(<< >>) = {}
    BY NoClusters DEF Pending
<1>2. \A s \in Slot : \A i \in Pending(rows[s]) : rows[s][i] \in Waiting
    BY DEF Waiting
<1>3. \A i \in Pending(list) : list[i] \in Waiting
    BY DEF Waiting
<1>4. job # NoJob => job.of \in Waiting
    BY DEF Waiting, Working
<1>5. \A s \in Slot : \A i \in Pending(rows'[s]) : rows'[s][i] \in Waiting
    BY <1>1, <1>2
<1>6. \A i \in Pending(list') : list'[i] \in Waiting
    BY <1>1, <1>2, <1>3
<1>7. job' # NoJob => job'.of \in Waiting
    BY <1>3, <1>4
<1>8. Waiting' = (UNION {{rows'[s][i] : i \in Pending(rows'[s])} : s \in Slot})
                 \cup {list'[i] : i \in Pending(list')}
                 \cup (IF job' # NoJob THEN {job'.of} ELSE {})
    BY DEF Waiting, Pending, Working, NoJob
<1> QED
    BY <1>5, <1>6, <1>7, <1>8

\* A cluster that is resolved does not wait any more; the others do as before.
LEMMA ResolvedWaits ==
    ASSUME TypeOK, RowsInv, NEW id, NEW s \in Slot, NEW i \in Pending(Resolved(id)[s])
    PROVE  Resolved(id)[s][i] \in Waiting
<1>1. /\ DOMAIN Resolved(id)[s] = DOMAIN rows[s] /\ i \in DOMAIN rows[s]
      /\ Resolved(id)[s][i].status = "pending"
    BY DEF Resolved, Pending
<1>2. Resolved(id)[s][i] = IF rows[s][i].id = id
                           THEN [rows[s][i] EXCEPT !.status = "resolved"] ELSE rows[s][i]
    BY <1>1 DEF Resolved
<1>3. rows[s][i] \in Cluster
    BY <1>1 DEF RowsInv, Proper
<1>4. Resolved(id)[s][i] = rows[s][i]
    BY <1>1, <1>2, <1>3 DEF Cluster
<1>5. i \in Pending(rows[s])
    BY <1>1, <1>4 DEF Pending
<1> QED
    BY <1>4, <1>5 DEF Waiting

LEMMA ScanKeeps ==
    ASSUME ScanInv, NEW s \in Slot, Scan(s)
    PROVE  ScanInv'
<1> USE DEF ScanInv
<1>1. \/ rows' = rows /\ list' = rows[s] /\ screen' = "overview" /\ dirty' = FALSE
      \/ /\ rows' = [rows EXCEPT ![s] = << >>] /\ list' = list /\ dirty' = dirty
         /\ screen' = "scanning"
    BY DEF Scan, server, clear_scan
<1>2. /\ screen = "entries" /\ slot' = s /\ nextId' = nextId
      /\ UNCHANGED <<ledger, score, touched, clean, job, treated, excused, unseen, chosen, changes>>
    BY DEF Scan, server, history
<1>3. ~Working /\ ~Working'
    BY <1>2 DEF TypeOK, Working
<1>4. rows' \in [Slot -> Seq(Cluster)] /\ list' \in Seq(Cluster)
    BY <1>1, NoClusters DEF TypeOK
<1>5. TypeOK'
    BY <1>1, <1>2, <1>3, <1>4 DEF TypeOK
<1>6. RowsInv' /\ ListInv'
    BY <1>1, <1>2, NoClusters DEF RowsInv, ListInv, TypeOK
<1>7. MarksInv' /\ JobInv' /\ ToldInv'
    BY <1>1, <1>2, <1>3 DEF MarksInv, JobInv, ToldInv
<1>8. Waiting' \subseteq Waiting
  <2>1. \A t \in Slot : rows'[t] = rows[t] \/ rows'[t] = << >>
      BY <1>1 DEF TypeOK
  <2>2. list' = list \/ list' = rows[s]
      BY <1>1
  <2> QED
      BY <1>2, <2>1, <2>2, WaitsStay
<1>9. BestStays'
    BY <1>2, <1>8, BestStaysElse
<1> QED
    BY <1>5, <1>6, <1>7, <1>9

LEMMA ListArrivesKeeps ==
    ASSUME ScanInv, ListArrives
    PROVE  ScanInv'
<1> USE DEF ScanInv
<1>1. slot \in Slot /\ screen \in {"scanning", "refreshing"}
    BY DEF ListArrives, server, TypeOK
<1> DEFINE S == ledger \cap Covers[slot]
<1>2. PICK sets \in SetToSeqs(find_duplicate_clusters(S)) :
        /\ save_scan(slot, sets)
        /\ IF screen = "scanning" /\ sets = << >>
           THEN screen' = "entries" /\ NoOverview
           ELSE screen' = "overview" /\ list' = rows'[slot] /\ UNCHANGED <<slot, dirty>>
    BY DEF ListArrives, server
<1>3. UNCHANGED <<ledger, score, touched, clean, job, treated, excused, unseen, chosen, changes>>
    BY DEF ListArrives, server, history
<1>4. S \subseteq Entry
    BY DEF TypeOK
<1>5. /\ sets \in Seq(SUBSET Entry) /\ Len(sets) \in Nat /\ DOMAIN sets = 1..Len(sets)
      /\ \A i \in DOMAIN sets : sets[i] \in find_duplicate_clusters(S)
    BY <1>4, SetsTyped
<1> DEFINE new == [i \in DOMAIN sets |-> [id |-> nextId + i - 1, members |-> sets[i],
                                          keep |-> _pick_keep_id(sets[i]), status |-> "pending"]]
<1>6. score \in [Entry -> Score] /\ \A i \in 1..Len(sets) : nextId + i - 1 \in Nat \ {0}
    BY <1>5 DEF TypeOK
<1>7. \A i \in 1..Len(sets) : new[i] \in Proper
    BY <1>4, <1>5, <1>6, StoredProper
<1>8. new \in Seq(Cluster) /\ Len(new) = Len(sets) /\ DOMAIN new = 1..Len(sets)
  <2>1. new = [i \in 1..Len(sets) |-> new[i]]
      BY <1>5
  <2>2. \A i \in 1..Len(sets) : new[i] \in Cluster
      BY <1>7 DEF Proper
  <2> HIDE DEF new
  <2> QED
      BY <1>5, <2>1, <2>2
<1>9. rows' = [rows EXCEPT ![slot] = rows[slot] \o new] /\ nextId' = nextId + Len(sets)
    BY <1>2 DEF save_scan
<1> HIDE DEF new
<1>10. rows[slot] \in Seq(Cluster) /\ rows[slot] \o new \in Seq(Cluster)
    BY <1>1, <1>8 DEF TypeOK
<1>11. \A i \in DOMAIN (rows[slot] \o new) : (rows[slot] \o new)[i] \in Proper
  <2>1. ASSUME NEW i \in DOMAIN (rows[slot] \o new) PROVE (rows[slot] \o new)[i] \in Proper
    <3>1. i \in 1..Len(rows[slot]) + Len(new) /\ Len(rows[slot]) \in Nat /\ Len(new) \in Nat
        BY <1>8, <1>10
    <3>2. CASE i \in 1..Len(rows[slot])
        BY <1>1, <1>8, <1>10, <3>2 DEF RowsInv
    <3>3. CASE i - Len(rows[slot]) \in 1..Len(new)
      <4>1. (rows[slot] \o new)[i] = new[i - Len(rows[slot])]
          BY <1>8, <1>10, <3>3
      <4> QED
          BY <1>7, <1>8, <3>3, <4>1
    <3> QED
        BY <1>5, <1>8, <1>10, <3>1, <3>2, <3>3
  <2> QED
      BY <2>1
<1>12. rows' \in [Slot -> Seq(Cluster)] /\ nextId' \in Nat \ {0}
  <2>1. rows \in [Slot -> Seq(Cluster)] /\ nextId \in Nat \ {0}
      BY DEF TypeOK
  <2>2. nextId' \in Nat \ {0}
      BY <1>5, <1>9, <2>1
  <2> HIDE DEF ScanInv
  <2> QED
      BY <1>9, <1>10, <2>1, <2>2
<1>13. RowsInv'
    BY <1>1, <1>9, <1>11 DEF RowsInv, TypeOK
<1>14. \/ screen' = "entries" /\ slot' = NoSlot /\ list' = << >> /\ dirty' = FALSE
                              /\ screen = "scanning"
       \/ screen' = "overview" /\ list' = rows'[slot] /\ slot' = slot /\ dirty' = dirty
    BY <1>2 DEF NoOverview
<1>15. list' \in Seq(Cluster) /\ ListInv'
    BY <1>1, <1>12, <1>13, <1>14, NoClusters DEF ListInv, RowsInv
<1>16. ~Working /\ ~Working'
    BY <1>1, <1>3 DEF TypeOK, Working
<1>17. TypeOK'
    BY <1>1, <1>3, <1>12, <1>14, <1>15, <1>16 DEF TypeOK
<1>18. MarksInv' /\ JobInv' /\ ToldInv'
    BY <1>1, <1>3, <1>14, <1>16 DEF MarksInv, JobInv, ToldInv
<1>19. \A c \in Waiting' : c \in Waiting \/ \E k \in 1..Len(sets) : c = new[k]
  <2>1. \A t \in Slot : \A i \in Pending(rows[t]) : rows[t][i] \in Waiting
      BY DEF Waiting
  <2>2. ASSUME NEW t \in Slot, NEW i \in Pending(rows'[t])
        PROVE  rows'[t][i] \in Waiting \/ \E k \in 1..Len(sets) : rows'[t][i] = new[k]
    <3>1. i \in DOMAIN rows'[t] /\ rows'[t][i].status = "pending"
        BY DEF Pending
    <3>2. CASE t # slot
      <4>1. rows'[t] = rows[t]
          BY <1>9, <3>2 DEF TypeOK
      <4> QED
          BY <2>1, <2>2, <4>1
    <3>3. CASE t = slot
      <4>1. rows'[t] = rows[slot] \o new
          BY <1>1, <1>9, <3>3 DEF TypeOK
      <4>2. i \in 1..Len(rows[slot]) + Len(new) /\ Len(rows[slot]) \in Nat
          BY <1>8, <1>10, <3>1, <4>1
      <4>3. CASE i \in 1..Len(rows[slot])
        <5>1. rows'[t][i] = rows[slot][i] /\ i \in DOMAIN rows[slot]
            BY <1>8, <1>10, <4>1, <4>3
        <5> QED
            BY <1>1, <2>1, <3>1, <5>1 DEF Pending
      <4>4. CASE i - Len(rows[slot]) \in 1..Len(new)
        <5>1. (rows[slot] \o new)[i] = new[i - Len(rows[slot])]
            BY <1>8, <1>10, <4>2, <4>4
        <5>2. rows'[t][i] = new[i - Len(rows[slot])]
            BY <4>1, <5>1
        <5> QED
            BY <1>8, <4>4, <5>2
      <4> QED
          BY <1>5, <1>8, <4>2, <4>3, <4>4
    <3> QED
        BY <3>2, <3>3
  <2>3. \A i \in Pending(list') :
            list'[i] \in Waiting \/ \E k \in 1..Len(sets) : list'[i] = new[k]
      BY <1>1, <1>14, <2>2, NoClusters DEF Pending
  <2>4. Waiting' = (UNION {{rows'[t][i] : i \in Pending(rows'[t])} : t \in Slot})
                   \cup {list'[i] : i \in Pending(list')}
      BY <1>16 DEF Waiting, Pending, Working
  <2> QED
      BY <2>2, <2>3, <2>4
<1>20. ASSUME NEW G \in Groups, NEW k \in 1..Len(sets), sets[k] \cap G # {}
       PROVE  WellKept(new[k], G)
  <2>1. /\ new[k].members = sets[k] /\ new[k].keep = _pick_keep_id(sets[k])
        /\ sets[k] \in find_duplicate_clusters(S)
      BY <1>5 DEF new
  <2>2. sets[k] \subseteq S /\ sets[k] # {} /\ Linked(sets[k]) /\ sets[k] \subseteq Entry
      BY <1>4, <2>1, ClustersFound DEF find_duplicate_clusters
  <2>3. sets[k] \subseteq G
      BY <1>20, <2>2, LinkedInside
  <2>4. /\ new[k].keep \in sets[k]
        /\ \A f \in sets[k] : Preferred(new[k].keep, f)
      BY <2>1, <2>2, PickIsBest DEF TypeOK
  <2> QED
      BY <2>1, <2>2, <2>3, <2>4 DEF WellKept
<1>21. ASSUME NEW G \in Groups, NEW c \in Waiting', c.members \cap G # {},
              G \cap (chosen \cup touched) = {}
       PROVE  WellKept(c, G)
  <2>1. CASE c \in Waiting
      BY <1>21, <2>1 DEF BestStays
  <2>2. ASSUME NEW k \in 1..Len(sets), c = new[k] PROVE WellKept(c, G)
    <3>1. new[k].members = sets[k]
        BY <1>5 DEF new
    <3> QED
        BY <1>20, <1>21, <2>2, <3>1
  <2> QED
      BY <1>19, <2>1, <2>2
<1>22. BestStays'
  <2>1. Groups' = Groups
      BY DEF Groups, find_duplicate_clusters, Linked
  <2>2. \A c, G : WellKept(c, G) => WellKept(c, G)'
      BY <1>3 DEF WellKept, Preferred
  <2> QED
      BY <1>3, <1>21, <2>1, <2>2 DEF BestStays
<1> QED
    BY <1>13, <1>15, <1>17, <1>18, <1>22

LEMMA ListFailsKeeps ==
    ASSUME ScanInv, ListFails
    PROVE  ScanInv'
<1> USE DEF ScanInv
<1>1. UNCHANGED <<ledger, score, touched, rows, nextId, clean, job, treated, excused, unseen, chosen, changes>>
    BY DEF ListFails, server, table, history
<1>2. \/ screen = "scanning" /\ screen' = "off"
                             /\ slot' = NoSlot /\ list' = << >> /\ dirty' = FALSE
      \/ screen = "refreshing" /\ screen' = "overview" /\ UNCHANGED <<slot, list, dirty>>
    BY DEF ListFails, server, NoOverview, above
<1>3. ~Working /\ ~Working'
    BY <1>1, <1>2 DEF TypeOK, Working
<1>4. TypeOK'
    BY <1>1, <1>2, <1>3, NoClusters DEF TypeOK
<1>5. RowsInv' /\ ListInv' /\ MarksInv' /\ JobInv' /\ ToldInv'
    BY <1>1, <1>2, <1>3, NoClusters DEF RowsInv, ListInv, MarksInv, JobInv, ToldInv
<1>6. BestStays'
    BY <1>1, <1>2, WaitsStay, BestStaysElse
<1> QED
    BY <1>4, <1>5, <1>6

LEMMA RefreshKeeps ==
    ASSUME ScanInv, Refresh
    PROVE  ScanInv'
<1> USE DEF ScanInv
<1>1. /\ UNCHANGED <<ledger, score, touched, nextId, slot, list, dirty, clean, job, treated, excused, unseen>>
      /\ UNCHANGED <<chosen, changes>>
      /\ screen = "overview" /\ screen' = "refreshing"
      /\ rows' = [rows EXCEPT ![slot] = << >>]
    BY DEF Refresh, server, above, history, clear_scan
<1>2. ~Working /\ ~Working' /\ slot \in Slot
    BY <1>1 DEF TypeOK, Working
<1>3. TypeOK'
    BY <1>1, <1>2, NoClusters DEF TypeOK
<1>4. RowsInv' /\ ListInv'
    BY <1>1, <1>2, NoClusters DEF TypeOK, RowsInv, ListInv
<1>5. MarksInv' /\ JobInv' /\ ToldInv'
    BY <1>1, <1>2 DEF MarksInv, JobInv, ToldInv
<1>6. \A t \in Slot : rows'[t] = rows[t] \/ rows'[t] = << >>
    BY <1>1 DEF TypeOK
<1>7. BestStays'
    BY <1>1, <1>6, WaitsStay, BestStaysElse
<1> QED
    BY <1>3, <1>4, <1>5, <1>7

LEMMA CleanupKeeps ==
    ASSUME ScanInv, Cleanup
    PROVE  ScanInv'
<1> USE DEF ScanInv
<1> DEFINE marks == [k \in DOMAIN list |-> list[k].members \ {list[k].keep}]
<1>1. PICK i \in Pending(list) :
        clean' = [idx |-> i, dirty |-> FALSE, processed |-> {}, marks |-> marks]
    BY DEF Cleanup, server
<1>2. /\ UNCHANGED <<ledger, score, touched, rows, nextId, slot, list, dirty, job, treated, excused, unseen>>
      /\ UNCHANGED <<chosen, changes>>
      /\ screen = "overview" /\ screen' = "cleaning"
    BY DEF Cleanup, server, above, history, table
<1>3. ~Working /\ ~Working'
    BY <1>2 DEF TypeOK, Working
<1>4. list \in Seq(Cluster) /\ DOMAIN list = 1..Len(list) /\ Len(list) \in Nat
    BY DEF TypeOK
<1>5. \A k \in 1..Len(list) : list[k] \in Cluster
    BY <1>4
<1>6. marks \in Seq(SUBSET Entry) /\ DOMAIN marks = DOMAIN list
  <2>1. \A k \in 1..Len(list) : list[k].members \ {list[k].keep} \in SUBSET Entry
      BY <1>5 DEF Cluster
  <2> QED
      BY <1>4, <2>1
<1>7. \A k \in DOMAIN list : marks[k] \subseteq list[k].members
    OBVIOUS
<1> HIDE DEF marks
<1>8. i \in Nat \ {0} /\ i \in Pending(list)
    BY <1>4 DEF Pending
<1>9. clean' \in Clean /\ clean'.idx = i /\ clean'.marks = marks
    BY <1>1, <1>6, <1>8 DEF Clean
<1>10. TypeOK'
    BY <1>2, <1>3, <1>6, <1>8, <1>9 DEF TypeOK, Pending
<1>11. RowsInv' /\ ListInv' /\ JobInv' /\ ToldInv'
    BY <1>2, <1>3 DEF RowsInv, ListInv, JobInv, ToldInv
<1>12. MarksInv'
    BY <1>2, <1>7, <1>9 DEF MarksInv
<1>13. BestStays'
    BY <1>2, WaitsStay, BestStaysElse
<1> QED
    BY <1>10, <1>11, <1>12, <1>13

LEMMA CloseKeeps ==
    ASSUME ScanInv, Close
    PROVE  ScanInv'
<1> USE DEF ScanInv
<1>1. /\ UNCHANGED <<ledger, score, touched, rows, nextId, clean, job, treated, excused, chosen, changes>>
      /\ screen = "overview" /\ screen' = "entries"
      /\ slot' = NoSlot /\ list' = << >> /\ dirty' = FALSE
      /\ unseen' = IF dirty THEN {} ELSE unseen
    BY DEF Close, server, Closed, NoOverview, table
<1>2. ~Working /\ ~Working'
    BY <1>1 DEF TypeOK, Working
<1>3. TypeOK'
    BY <1>1, <1>2, NoClusters DEF TypeOK
<1>4. RowsInv' /\ ListInv' /\ MarksInv' /\ JobInv'
    BY <1>1, <1>2, NoClusters DEF RowsInv, ListInv, MarksInv, JobInv
<1>5. ToldInv'
    BY <1>1 DEF ToldInv
<1>6. BestStays'
    BY <1>1, WaitsStay, BestStaysElse
<1> QED
    BY <1>3, <1>4, <1>5, <1>6
\* What is on the screen while clusters are cleaned.
LEMMA OnScreen ==
    ASSUME ScanInv, screen = "cleaning"
    PROVE  /\ slot \in Slot /\ clean \in Clean /\ clean.dirty \in BOOLEAN
           /\ Len(list) \in Nat /\ DOMAIN list = 1..Len(list)
           /\ clean.idx \in 1..Len(list) /\ clean.idx \in Pending(list)
           /\ Current \in Proper /\ Current.members \subseteq Entry
           /\ clean.marks \in Seq(SUBSET Entry) /\ DOMAIN clean.marks = DOMAIN list
           /\ Marked \subseteq Current.members /\ Marked \subseteq Entry
<1>1. /\ slot \in Slot /\ clean \in Clean /\ clean.idx \in Pending(list)
      /\ DOMAIN clean.marks = DOMAIN list /\ list \in Seq(Cluster)
    BY DEF ScanInv, TypeOK
<1>2. clean.idx \in DOMAIN list
    BY <1>1 DEF Pending
<1>3. Current \in Proper /\ Marked \subseteq Current.members
    BY <1>2 DEF ScanInv, ListInv, MarksInv, Current, Marked
<1>4. Current.members \subseteq Entry
    BY <1>3 DEF Proper, Cluster
<1> QED
    BY <1>1, <1>2, <1>3, <1>4 DEF Clean

\* The cleaning screen closes.
LEMMA BackKeeps ==
    ASSUME ScanInv, screen = "cleaning",
           NEW told \in BOOLEAN, NEW how, how \subseteq {"whole", "cut"},
           BackToOverview(told, how), "whole" \in how \cup unseen => dirty \/ told,
           rows' \in [Slot -> Seq(Cluster)], RowsInv', nextId' = nextId,
           ledger' \subseteq Entry, treated' \cup excused' \subseteq Nat,
           chosen' = chosen, changes' = changes, score' = score, touched' = touched
    PROVE  TypeOK' /\ ListInv' /\ MarksInv' /\ JobInv' /\ ToldInv'
<1>1. slot \in Slot
    BY OnScreen
<1>2. clean' = NoClean /\ job' = NoJob /\ ~Working'
    BY DEF BackToOverview, Working
<1>3. \/ /\ screen' = "entries" /\ slot' = NoSlot /\ list' = << >> /\ dirty' = FALSE
         /\ unseen' = {}
      \/ /\ screen' = "overview" /\ list' = rows'[slot] /\ dirty' = (dirty \/ told)
         /\ unseen' = unseen \cup how /\ slot' = slot
    BY DEF BackToOverview, Closed, NoOverview
<1>4. dirty \in BOOLEAN /\ dirty' \in BOOLEAN /\ unseen' \subseteq {"whole", "cut"}
    BY <1>3 DEF ScanInv, TypeOK
<1>5. list' \in Seq(Cluster) /\ ListInv'
    BY <1>1, <1>3, NoClusters DEF RowsInv, ListInv
<1>6. TypeOK'
    BY <1>1, <1>2, <1>3, <1>4, <1>5 DEF ScanInv, TypeOK
<1>7. MarksInv' /\ JobInv'
    BY <1>2, <1>3 DEF MarksInv, JobInv
<1>8. ToldInv'
    BY <1>3 DEF ToldInv
<1> QED
    BY <1>5, <1>6, <1>7, <1>8

LEMMA ToggleKeeps ==
    ASSUME ScanInv, NEW e \in Entry, Toggle(e)
    PROVE  ScanInv'
<1>1. /\ UNCHANGED <<ledger, score, touched, rows, nextId, screen, slot, list, dirty, job>>
      /\ UNCHANGED <<treated, excused, unseen, chosen, changes>>
      /\ screen = "cleaning" /\ e \in Current.members
    BY DEF Toggle, server, Keys, table, above, history
<1>2. PICK new \in {Marked \ {e}, Marked \cup {e}} :
        clean' = [clean EXCEPT !.marks[clean.idx] = new]
    BY DEF Toggle, server, Marked
<1>3. new \subseteq Current.members /\ new \subseteq Entry
    BY <1>1, OnScreen
<1>4. /\ clean' \in Clean /\ clean'.idx = clean.idx /\ clean'.dirty = clean.dirty
      /\ clean'.marks = [clean.marks EXCEPT ![clean.idx] = new]
      /\ DOMAIN clean'.marks = DOMAIN list
  <2> DEFINE marks == [clean.marks EXCEPT ![clean.idx] = new]
  <2>1. clean \in Clean /\ clean.marks \in Seq(SUBSET Entry) /\ DOMAIN clean.marks = DOMAIN list
      BY <1>1, OnScreen
  <2>2. marks \in Seq(SUBSET Entry) /\ DOMAIN marks = DOMAIN list
    <3> DEFINE n == Len(clean.marks)
    <3>1. n \in Nat /\ clean.marks \in [1..n -> SUBSET Entry]
        BY <2>1
    <3>2. marks \in [1..n -> SUBSET Entry]
        BY <1>3, <3>1
    <3> HIDE DEF marks, n
    <3> QED
        BY <2>1, <3>1, <3>2
  <2>3. clean' = [clean EXCEPT !.marks = marks]
      BY <1>2
  <2> HIDE DEF marks
  <2>4. /\ clean' \in Clean /\ clean'.idx = clean.idx /\ clean'.dirty = clean.dirty
        /\ clean'.marks = marks
      BY <2>1, <2>2, <2>3 DEF Clean
  <2> QED
      BY <2>2, <2>4 DEF marks
<1>5. TypeOK'
    BY <1>1, <1>4, OnScreen DEF ScanInv, TypeOK, Working, Pending
<1>6. MarksInv'
    BY <1>1, <1>3, <1>4, OnScreen DEF ScanInv, MarksInv, Current
<1>7. RowsInv' /\ ListInv' /\ JobInv' /\ ToldInv'
    BY <1>1, <1>4 DEF ScanInv, RowsInv, ListInv, JobInv, ToldInv, Working
<1>8. BestStays'
    BY <1>1, WaitsStay, BestStaysElse DEF ScanInv
<1> QED
    BY <1>5, <1>6, <1>7, <1>8 DEF ScanInv

LEMMA MoveKeeps ==
    ASSUME ScanInv, Move
    PROVE  ScanInv'
<1>1. /\ UNCHANGED <<ledger, score, touched, rows, nextId, screen, slot, list, dirty, job>>
      /\ UNCHANGED <<treated, excused, unseen, chosen, changes>>
      /\ screen = "cleaning"
    BY DEF Move, server, Keys, table, above, history
<1>2. PICK i \in Pending(list) : clean' = [clean EXCEPT !.idx = i]
    BY DEF Move, server
<1>3. i \in Nat \ {0}
    BY <1>1, OnScreen DEF Pending
<1>4. /\ clean' \in Clean /\ clean'.idx = i /\ clean'.dirty = clean.dirty
      /\ clean'.marks = clean.marks
    BY <1>1, <1>2, <1>3, OnScreen DEF Clean
<1>5. TypeOK'
    BY <1>1, <1>2, <1>4, OnScreen DEF ScanInv, TypeOK, Working, Pending
<1>6. RowsInv' /\ ListInv' /\ MarksInv' /\ JobInv' /\ ToldInv'
    BY <1>1, <1>4 DEF ScanInv, RowsInv, ListInv, MarksInv, JobInv, ToldInv, Working
<1>7. BestStays'
    BY <1>1, WaitsStay, BestStaysElse DEF ScanInv
<1> QED
    BY <1>5, <1>6, <1>7 DEF ScanInv

LEMMA ConfirmKeeps ==
    ASSUME ScanInv, Confirm
    PROVE  ScanInv'
<1>1. /\ UNCHANGED <<rows, nextId, screen, slot, list, dirty, clean, changes>>
      /\ screen = "cleaning" /\ Marked # {}
      /\ job' = [of |-> Current, left |-> Marked, applied |-> FALSE, done |-> {}]
      /\ chosen' = chosen \cup (Marked \cap {Current.keep})
    BY DEF Confirm, Keys, table, above
<1>2. PICK late \in Late : CutShort(late) /\ unseen' = unseen \cup How(late)
    BY DEF Confirm
<1>3. /\ ledger' \subseteq Entry /\ treated' \cup excused' \subseteq Nat
      /\ score' = score /\ touched' = touched
      /\ How(late) \subseteq {"cut"} /\ BestStays'
  <2>1. clean.idx \in Pending(list) /\ job'.of = list[clean.idx]
      BY <1>1, OnScreen DEF Current
  <2>2. Waiting' \subseteq Waiting
      BY <1>1, <2>1, WaitsStay
  <2> QED
      BY <1>1, <1>2, <2>2, CutShortKeeps
<1>4. /\ job' \in Job /\ job'.of = Current /\ job'.left = Marked
    BY <1>1, OnScreen DEF Job, Proper
<1>5. chosen' \subseteq Entry /\ unseen' \subseteq {"whole", "cut"}
    BY <1>1, <1>2, <1>3, OnScreen DEF ScanInv, TypeOK
<1>6. TypeOK'
    BY <1>1, <1>3, <1>4, <1>5 DEF ScanInv, TypeOK, Working
<1>7. JobInv'
    BY <1>1, <1>4, OnScreen DEF JobInv
<1>8. ToldInv'
    BY <1>1, <1>2, <1>3 DEF ScanInv, ToldInv
<1>9. RowsInv' /\ ListInv' /\ MarksInv'
    BY <1>1 DEF ScanInv, RowsInv, ListInv, MarksInv
<1> QED
    BY <1>3, <1>6, <1>7, <1>8, <1>9 DEF ScanInv

LEMMA CancelKeeps ==
    ASSUME ScanInv, Cancel
    PROVE  ScanInv'
<1>1. UNCHANGED <<rows, nextId, chosen, changes>> /\ screen = "cleaning"
    BY DEF Cancel, Keys, table
<1>2. PICK late \in Late : CutShort(late) /\ BackToOverview(clean.dirty, How(late))
    BY DEF Cancel
<1>3. /\ ledger' \subseteq Entry /\ treated' \cup excused' \subseteq Nat
      /\ score' = score /\ touched' = touched
      /\ How(late) \subseteq {"cut"} /\ BestStays'
  <2>1. /\ slot \in Slot /\ job' = NoJob
        /\ list' = << >> \/ list' = rows[slot]
      BY <1>1, <1>2, OnScreen DEF BackToOverview, Closed, NoOverview
  <2>2. Waiting' \subseteq Waiting
      BY <1>1, <2>1, WaitsStay
  <2> QED
      BY <1>1, <1>2, <2>2, CutShortKeeps
<1>4. rows' \in [Slot -> Seq(Cluster)] /\ RowsInv'
    BY <1>1 DEF ScanInv, TypeOK, RowsInv
<1>5. "whole" \in How(late) \cup unseen => dirty \/ clean.dirty
    BY <1>1, <1>3 DEF ScanInv, ToldInv
<1>6. clean.dirty \in BOOLEAN
    BY <1>1, OnScreen
<1>7. TypeOK' /\ ListInv' /\ MarksInv' /\ JobInv' /\ ToldInv'
    BY <1>1, <1>2, <1>3, <1>4, <1>5, <1>6, BackKeeps
<1> QED
    BY <1>3, <1>4, <1>7 DEF ScanInv

LEMMA AppliedKeeps ==
    ASSUME ScanInv, Applied
    PROVE  ScanInv'
<1>1. PICK e \in job.left \cap ledger :
        /\ ledger' = ledger \ {e}
        /\ job' = [job EXCEPT !.left = job.left \ {e}, !.applied = TRUE,
                              !.done = job.done \cup {e}]
    BY DEF Applied
<1>2. /\ UNCHANGED <<score, touched, rows, nextId, screen, slot, list, dirty, clean>>
      /\ UNCHANGED <<excused, unseen, chosen, changes>>
      /\ Working /\ treated' = treated \cup {job.of.id}
    BY DEF Applied, table, above
<1>3. job \in Job /\ job.of.id \in Nat /\ screen = "cleaning" /\ e \in Entry
    BY <1>2 DEF ScanInv, TypeOK, Job, Cluster
<1>4. /\ job' \in Job /\ job'.of = job.of /\ job'.left = job.left \ {e}
      /\ job'.applied = TRUE /\ job'.done = job.done \cup {e}
    BY <1>1, <1>3 DEF Job
<1>5. TypeOK'
    BY <1>1, <1>2, <1>3, <1>4 DEF ScanInv, TypeOK
<1>6. RowsInv' /\ ListInv' /\ MarksInv' /\ JobInv' /\ ToldInv'
    BY <1>2, <1>4 DEF ScanInv, RowsInv, ListInv, MarksInv, JobInv, ToldInv
<1>7. Waiting' \subseteq Waiting
    BY <1>2, <1>4, WaitsStay DEF Working
<1>8. BestStays'
    BY <1>1, <1>2, <1>7, DeletionLeavesBest
<1> QED
    BY <1>5, <1>6, <1>8 DEF ScanInv

LEMMA AnsweredKeeps ==
    ASSUME ScanInv, Answered
    PROVE  ScanInv'
<1>1. /\ UNCHANGED <<ledger, score, touched, rows, nextId, screen, slot, list, dirty, clean>>
      /\ UNCHANGED <<treated, excused, unseen, chosen, changes>>
      /\ Working /\ job.left # {} /\ job' = [job EXCEPT !.applied = FALSE]
    BY DEF Answered, server, table, above, history
<1>2. job \in Job /\ screen = "cleaning"
    BY <1>1 DEF ScanInv, TypeOK, Job
<1>3. /\ job' \in Job /\ job'.of = job.of /\ job'.left = job.left
      /\ job'.applied = FALSE /\ job'.done = job.done
    BY <1>1, <1>2 DEF Job
<1>4. TypeOK'
    BY <1>1, <1>2, <1>3 DEF ScanInv, TypeOK
<1>5. RowsInv' /\ ListInv' /\ MarksInv' /\ JobInv' /\ ToldInv'
    BY <1>1, <1>3 DEF ScanInv, RowsInv, ListInv, MarksInv, JobInv, ToldInv
<1>6. BestStays'
    BY <1>1, <1>3, WaitsStay, BestStaysElse DEF ScanInv, Working
<1> QED
    BY <1>4, <1>5, <1>6 DEF ScanInv

LEMMA FinishedKeeps ==
    ASSUME ScanInv, Finished
    PROVE  ScanInv'
<1> DEFINE here      == clean.idx
           processed == clean.processed \cup {here}
           after     == {i \in Pending(list) : i > here /\ i \notin processed}
<1>1. /\ UNCHANGED <<ledger, score, touched, nextId, treated, chosen, changes>>
      /\ Working /\ rows' = Resolved(Current.id) /\ job' = NoJob
      /\ excused' \subseteq excused \cup {Current.id, job.of.id}
    BY DEF Finished, server, BackToOverview
<1>2. /\ screen = "cleaning" /\ job \in Job /\ job.of \in Cluster /\ job.of.id \in Nat
    BY <1>1 DEF ScanInv, TypeOK, Job, Cluster
<1>3. Current.id \in Nat
    BY <1>2, OnScreen DEF Proper, Cluster
<1>4. ledger' \subseteq Entry /\ treated' \cup excused' \subseteq Nat
    BY <1>1, <1>2, <1>3 DEF ScanInv, TypeOK
<1>5. rows' \in [Slot -> Seq(Cluster)] /\ RowsInv'
    BY <1>1, ResolvedProper DEF ScanInv, RowsInv
<1>6. BestStays'
  <2>1. \A s \in Slot : \A i \in Pending(rows'[s]) : rows'[s][i] \in Waiting
      BY <1>1, ResolvedWaits DEF ScanInv
  <2>2. list' = list \/ list' = << >> \/ (slot \in Slot /\ list' = rows'[slot])
      BY <1>2, OnScreen DEF Finished, BackToOverview, Closed, NoOverview, above
  <2>3. \A i \in Pending(list) : list[i] \in Waiting
      BY DEF Waiting
  <2>4. \A i \in Pending(list') : list'[i] \in Waiting
      BY <2>1, <2>2, <2>3, NoClusters DEF Pending
  <2>5. Waiting' = (UNION {{rows'[s][i] : i \in Pending(rows'[s])} : s \in Slot})
                   \cup {list'[i] : i \in Pending(list')}
      BY <1>1 DEF Waiting, Pending, Working
  <2>6. Waiting' \subseteq Waiting
      BY <2>1, <2>4, <2>5
  <2> QED
      BY <1>1, <2>6, BestStaysElse DEF ScanInv
<1>7. CASE after = {}
  <2>1. BackToOverview(TRUE, {"whole"})
      BY <1>7 DEF Finished, server
  <2>2. TypeOK' /\ ListInv' /\ MarksInv' /\ JobInv' /\ ToldInv'
      BY <1>1, <1>2, <1>4, <1>5, <2>1, BackKeeps
  <2> QED
      BY <1>5, <1>6, <2>2 DEF ScanInv
<1>8. CASE after # {}
  <2>1. /\ clean' = [clean EXCEPT !.dirty = TRUE, !.processed = processed, !.idx = Min(after)]
        /\ job' = NoJob /\ unseen' = unseen \cup {"whole"}
        /\ UNCHANGED <<screen, slot, list, dirty>>
      BY <1>8 DEF Finished, server, above
  <2>2. clean \in Clean /\ Pending(list) \subseteq Nat \ {0} /\ here \in Nat
      BY <1>2, OnScreen DEF Pending
  <2>3. Min(after) \in after
      BY <1>8, <2>2, LeastIsLeast
  <2>4. Min(after) \in Pending(list) /\ Min(after) \in Nat \ {0}
      BY <2>2, <2>3
  <2>5. processed \subseteq Nat
      BY <2>2 DEF Clean
  <2> HIDE DEF after, processed
  <2>6. /\ clean' \in Clean /\ clean'.idx = Min(after) /\ clean'.dirty = TRUE
        /\ clean'.marks = clean.marks
      BY <2>1, <2>2, <2>4, <2>5 DEF Clean
  <2>7. ~Working'
      BY <2>1 DEF Working
  <2>8. TypeOK'
      BY <1>1, <1>2, <1>4, <1>5, <2>1, <2>4, <2>6, <2>7 DEF ScanInv, TypeOK, Pending
  <2>9. ListInv' /\ MarksInv' /\ JobInv' /\ ToldInv'
      BY <2>1, <2>6, <2>7, <1>2 DEF ScanInv, ListInv, MarksInv, JobInv, ToldInv
  <2> QED
      BY <1>5, <1>6, <2>8, <2>9 DEF ScanInv
<1> QED
    BY <1>7, <1>8

LEMMA FailedKeeps ==
    ASSUME ScanInv, Failed
    PROVE  ScanInv'
<1>1. /\ UNCHANGED <<rows, nextId, screen, slot, list, dirty, clean, chosen, changes>>
      /\ CutShort({}) /\ unseen' = unseen \cup How({}) /\ job' = NoJob
    BY DEF Failed, table, above
<1>2. /\ ledger' \subseteq Entry /\ treated' \cup excused' \subseteq Nat
      /\ score' = score /\ touched' = touched
      /\ How({}) \subseteq {"cut"} /\ BestStays'
  <2>1. {} \in Late
      BY DEF Late
  <2>2. Waiting' \subseteq Waiting
      BY <1>1, WaitsStay
  <2> QED
      BY <1>1, <2>1, <2>2, CutShortKeeps
<1>3. ~Working'
    BY <1>1 DEF Working
<1>4. TypeOK'
    BY <1>1, <1>2, <1>3 DEF ScanInv, TypeOK
<1>5. RowsInv' /\ ListInv' /\ MarksInv' /\ JobInv' /\ ToldInv'
    BY <1>1, <1>2, <1>3 DEF ScanInv, RowsInv, ListInv, MarksInv, JobInv, ToldInv
<1> QED
    BY <1>2, <1>4, <1>5 DEF ScanInv

LEMMA ExternalKeeps ==
    ASSUME ScanInv, External
    PROVE  ScanInv'
<1>1. /\ UNCHANGED <<score, rows, nextId, screen, slot, list, dirty, clean, job>>
      /\ UNCHANGED <<treated, excused, unseen, chosen>>
      /\ changes < MaxChanges /\ changes' = changes + 1
    BY DEF External, table, above
<1>2. PICK e \in Entry :
        \/ e \in ledger /\ ledger' = ledger \ {e} /\ touched' = touched \cup {e}
        \/ e \notin ledger /\ ledger' = ledger \cup {e} /\ UNCHANGED touched
    BY DEF External
<1>3. changes' \in 0..MaxChanges
    BY <1>1, ScanAssumption DEF ScanAssumption, ScanInv, TypeOK
<1>4. TypeOK'
    BY <1>1, <1>2, <1>3 DEF ScanInv, TypeOK, Working
<1>5. RowsInv' /\ ListInv' /\ MarksInv' /\ JobInv' /\ ToldInv'
    BY <1>1 DEF ScanInv, RowsInv, ListInv, MarksInv, JobInv, ToldInv, Working
<1>6. Waiting' \subseteq Waiting /\ Groups' = Groups
    BY <1>1, WaitsStay DEF Groups, find_duplicate_clusters, Linked
<1>7. BestStays'
  <2>1. ASSUME NEW G \in Groups, e \notin G \/ ledger \subseteq ledger',
               NEW c, WellKept(c, G)
        PROVE  WellKept(c, G)'
      BY <1>1, <1>2, <2>1 DEF WellKept, Preferred
  <2> QED
      BY <1>1, <1>2, <1>6, <2>1 DEF ScanInv, BestStays
<1> QED
    BY <1>4, <1>5, <1>7 DEF ScanInv

\* An edit while nothing of the group waits changes no proposal.
LEMMA EditKeeps ==
    ASSUME ScanInv, Edit
    PROVE  ScanInv'
<1>1. /\ UNCHANGED <<ledger, rows, nextId, screen, slot, list, dirty, clean, job>>
      /\ UNCHANGED <<treated, excused, unseen, chosen>>
      /\ changes < MaxChanges /\ changes' = changes + 1
    BY DEF Edit, table, above
<1>2. PICK e \in ledger : \E k \in Scores[e] :
        /\ score' = [score EXCEPT ![e] = k]
        /\ touched' = IF \E G \in Groups, c \in Waiting : e \in G /\ c.members \cap G # {}
                      THEN touched \cup {e} ELSE touched
    BY DEF Edit
<1>3. changes' \in 0..MaxChanges /\ e \in Entry
    BY <1>1, ScanAssumption DEF ScanAssumption, ScanInv, TypeOK
<1>4. score' \in [Entry -> Score]
  <2>1. PICK k \in Scores[e] : score' = [score EXCEPT ![e] = k]
      BY <1>2
  <2>2. k \in Score
      BY <1>3, ScanAssumption DEF ScanAssumption
  <2> QED
      BY <2>1, <2>2 DEF ScanInv, TypeOK
<1>5. TypeOK'
    BY <1>1, <1>2, <1>3, <1>4 DEF ScanInv, TypeOK, Working
<1>6. RowsInv' /\ ListInv' /\ MarksInv' /\ JobInv' /\ ToldInv'
    BY <1>1 DEF ScanInv, RowsInv, ListInv, MarksInv, JobInv, ToldInv, Working
<1>7. Waiting' \subseteq Waiting /\ Groups' = Groups
    BY <1>1, WaitsStay DEF Groups, find_duplicate_clusters, Linked
<1>8. ASSUME NEW G \in Groups, NEW c \in Waiting, c.members \cap G # {}, WellKept(c, G),
             e \notin G
      PROVE  WellKept(c, G)'
  <2>1. c.members \subseteq G /\ c.keep \in c.members /\ G \subseteq Entry
      BY <1>8, WaitingInside
  <2>2. \A f \in G : score'[f] = score[f]
      BY <1>2, <1>8, <2>1 DEF ScanInv, TypeOK
  <2> QED
      BY <1>1, <1>8, <2>1, <2>2 DEF WellKept, Preferred
<1>9. BestStays'
    BY <1>1, <1>2, <1>7, <1>8 DEF ScanInv, BestStays
<1> QED
    BY <1>5, <1>6, <1>9 DEF ScanInv

LEMMA StopKeeps ==
    ASSUME ScanInv, Stop
    PROVE  ScanInv'
<1>1. /\ UNCHANGED <<rows, nextId, chosen, changes>> /\ screen' = "off"
      /\ clean' = NoClean /\ job' = NoJob
      /\ slot' = NoSlot /\ list' = << >> /\ dirty' = FALSE
    BY DEF Stop, NoOverview, table
<1>2. PICK late \in Late : CutShort(late) /\ unseen' = unseen \cup How(late)
    BY DEF Stop
<1>3. /\ ledger' \subseteq Entry /\ treated' \cup excused' \subseteq Nat
      /\ score' = score /\ touched' = touched
      /\ How(late) \subseteq {"cut"} /\ BestStays'
  <2>1. Waiting' \subseteq Waiting
      BY <1>1, WaitsStay
  <2> QED
      BY <1>1, <1>2, <2>1, CutShortKeeps
<1>4. ~Working'
    BY <1>1 DEF Working
<1>5. TypeOK'
    BY <1>1, <1>2, <1>3, <1>4, NoClusters DEF ScanInv, TypeOK
<1>6. RowsInv' /\ ListInv' /\ MarksInv' /\ JobInv' /\ ToldInv'
    BY <1>1, <1>4, NoClusters DEF ScanInv, RowsInv, ListInv, MarksInv, JobInv, ToldInv
<1> QED
    BY <1>3, <1>5, <1>6 DEF ScanInv

LEMMA StartKeeps ==
    ASSUME ScanInv, Start
    PROVE  ScanInv'
<1>1. /\ UNCHANGED <<ledger, score, touched, rows, nextId, slot, list, dirty, clean, job>>
      /\ UNCHANGED <<treated, excused, chosen, changes>>
      /\ screen = "off" /\ screen' = "entries" /\ unseen' = {}
    BY DEF Start, server, table, above
<1>2. ~Working /\ ~Working'
    BY <1>1 DEF ScanInv, TypeOK, Working
<1>3. TypeOK'
    BY <1>1, <1>2 DEF ScanInv, TypeOK
<1>4. RowsInv' /\ ListInv' /\ MarksInv' /\ JobInv' /\ ToldInv'
    BY <1>1, <1>2 DEF ScanInv, RowsInv, ListInv, MarksInv, JobInv, ToldInv
<1>5. BestStays'
    BY <1>1, WaitsStay, BestStaysElse DEF ScanInv
<1> QED
    BY <1>3, <1>4, <1>5 DEF ScanInv

-------------------------------------------------------------------------------
(* The theorems *)

LEMMA InitHolds == Init => ScanInv
<1> SUFFICES ASSUME Init PROVE ScanInv
    OBVIOUS
<1>1. ~Working
    BY DEF Init, Working
<1>2. TypeOK
  <2>1. rows \in [Slot -> Seq(Cluster)] /\ list \in Seq(Cluster)
      BY NoClusters DEF Init
  <2>2. changes \in 0..MaxChanges /\ nextId \in Nat \ {0}
      BY ScanAssumption DEF Init, ScanAssumption
  <2>3. score \in [Entry -> Score]
      BY ScanAssumption DEF Init, ScanAssumption
  <2> QED
      BY <1>1, <2>1, <2>2, <2>3 DEF Init, TypeOK
<1>3. RowsInv /\ ListInv /\ MarksInv /\ JobInv /\ ToldInv
    BY <1>1, NoClusters DEF Init, RowsInv, ListInv, MarksInv, JobInv, ToldInv
<1>4. Waiting = {}
    BY <1>1, NoClusters DEF Init, Waiting, Pending
<1>5. BestStays
    BY <1>4, ClustersFound DEF Init, BestStays, Groups
<1> QED
    BY <1>2, <1>3, <1>5 DEF ScanInv

LEMMA StepKeeps == ScanInv /\ [Next]_vars => ScanInv'
<1> SUFFICES ASSUME ScanInv, [Next]_vars PROVE ScanInv'
    OBVIOUS
<1>1. CASE User
    BY <1>1, ScanKeeps, RefreshKeeps, CleanupKeeps, CloseKeeps, ToggleKeeps, MoveKeeps,
       ConfirmKeeps, CancelKeeps DEF User
<1>2. CASE Calls
    BY <1>2, ListArrivesKeeps, ListFailsKeeps, AppliedKeeps, AnsweredKeeps, FinishedKeeps,
       FailedKeeps DEF Calls
<1>3. CASE External \/ Edit \/ Stop \/ Start
    BY <1>3, ExternalKeeps, EditKeeps, StopKeeps, StartKeeps
<1>4. CASE UNCHANGED vars
  <2>1. /\ UNCHANGED <<ledger, score, rows, nextId, screen, slot, list, dirty, clean, job>>
        /\ UNCHANGED <<treated, excused, unseen, chosen, touched, changes>>
      BY <1>4 DEF vars, server, table, above, history
  <2>2. TypeOK'
      BY <2>1 DEF ScanInv, TypeOK, Working
  <2>3. RowsInv' /\ ListInv' /\ MarksInv' /\ JobInv' /\ ToldInv'
      BY <2>1 DEF ScanInv, RowsInv, ListInv, MarksInv, JobInv, ToldInv, Working
  <2>4. BestStays'
      BY <2>1, WaitsStay, BestStaysElse DEF ScanInv
  <2> QED
      BY <2>2, <2>3, <2>4 DEF ScanInv
<1> QED
    BY <1>1, <1>2, <1>3, <1>4 DEF Next

\* The inductive invariant holds in every state.
THEOREM ScanInvHolds == Spec => []ScanInv
BY InitHolds, StepKeeps, PTL DEF Spec

\* Every variable keeps its type.
THEOREM ScanTypes == Spec => []TypeOK
BY ScanInvHolds, PTL DEF ScanInv

\* Of entries that were alike one is left, unless one of them was chosen by the user
\* though proposed to be kept, deleted elsewhere, or edited while a cluster with some
\* of them waited: whatever ranges are scanned, however scores change between scans,
\* however a deletion is cut short and however old a stored cluster is.
THEOREM LastCopyIsLeft == Spec => []LastCopyStays
<1>1. ScanInv => LastCopyStays
    BY DEF ScanInv, BestStays, LastCopyStays
<1> QED
    BY <1>1, ScanInvHolds, PTL

\* Back on the entries screen, no row shows an entry the scan deleted, unless a deletion
\* was cut short.
THEOREM TableIsReloaded == Spec => []TableReloaded
<1>1. ScanInv => TableReloaded
    BY DEF ScanInv, ToldInv, TableReloaded
<1> QED
    BY <1>1, ScanInvHolds, PTL

\* A cluster that waits to be cleaned stays stored until it is; only a refresh of its
\* own range drops it.
THEOREM PendingIsKept == Spec => PendingKept
<1> DEFINE Kept(s, i) ==
        rows[s][i].status = "pending" /\ rows[s][i].id \notin Ids(rows'[s])
            => screen = "overview" /\ slot = s /\ screen' = "refreshing"
<1>1. ASSUME ScanInv, [Next]_vars, NEW s \in Slot, NEW i \in DOMAIN rows[s]
      PROVE  Kept(s, i)
  <2>1. /\ rows \in [Slot -> Seq(Cluster)] /\ rows[s] \in Seq(Cluster)
        /\ i \in 1..Len(rows[s]) /\ Len(rows[s]) \in Nat
      BY <1>1 DEF ScanInv, TypeOK
  <2>2. CASE UNCHANGED rows
      BY <2>2 DEF Ids
  <2>3. ASSUME NEW t \in Slot, Scan(t) PROVE Kept(s, i)
    <3>1. \/ UNCHANGED rows
          \/ Pending(rows[t]) = {} /\ rows' = [rows EXCEPT ![t] = << >>]
        BY <2>3 DEF Scan, clear_scan
    <3>2. CASE s = t
        BY <2>2, <3>1, <3>2 DEF Pending
    <3>3. CASE s # t
        BY <2>1, <2>2, <3>1, <3>3 DEF Ids
    <3> QED
        BY <3>2, <3>3
  <2>4. CASE ListArrives
    <3>1. slot \in Slot
        BY <1>1, <2>4 DEF ListArrives, ScanInv, TypeOK
    <3>2. PICK sets \in SetToSeqs(find_duplicate_clusters(ledger \cap Covers[slot])) :
            save_scan(slot, sets)
        BY <2>4 DEF ListArrives
    <3>3. sets \in Seq(SUBSET Entry) /\ Len(sets) \in Nat /\ DOMAIN sets = 1..Len(sets)
        BY <1>1, SetsTyped DEF ScanInv, TypeOK
    <3> DEFINE new == [k \in DOMAIN sets |->
                          [id |-> nextId + k - 1, members |-> sets[k],
                           keep |-> _pick_keep_id(sets[k]), status |-> "pending"]]
    <3>4. rows' = [rows EXCEPT ![slot] = rows[slot] \o new]
        BY <3>2 DEF save_scan
    <3>5. new \in Seq(Range(new)) /\ Len(new) \in Nat
      <4>1. new = [k \in 1..Len(sets) |-> new[k]]
          BY <3>3
      <4> HIDE DEF new
      <4>2. \A k \in 1..Len(sets) : new[k] \in Range(new)
          BY <4>1 DEF Range
      <4> HIDE DEF Range
      <4> QED
          BY <3>3, <4>1, <4>2
    <3> HIDE DEF new
    <3>6. CASE s = slot
      <4>1. i \in DOMAIN (rows[s] \o new) /\ (rows[s] \o new)[i] = rows[s][i]
          BY <2>1, <3>5
      <4> QED
          BY <2>1, <3>4, <3>6, <4>1 DEF Ids
    <3>7. CASE s # slot
        BY <2>1, <3>4, <3>7 DEF Ids
    <3> QED
        BY <3>6, <3>7
  <2>5. CASE Refresh
    <3>1. rows' = [rows EXCEPT ![slot] = << >>] /\ screen = "overview" /\ screen' = "refreshing"
        BY <2>5 DEF Refresh, clear_scan
    <3> QED
        BY <2>1, <3>1 DEF Ids
  <2>6. CASE Finished
    <3>1. rows' = Resolved(Current.id)
        BY <2>6 DEF Finished
    <3>2. DOMAIN rows'[s] = DOMAIN rows[s] /\ rows'[s][i].id = rows[s][i].id
        BY <1>1, <3>1, ResolvedProper DEF ScanInv
    <3> QED
        BY <3>2 DEF Ids
  <2>7. ListFails \/ Cleanup \/ Close \/ (\E e \in Entry : Toggle(e)) \/ Move \/ Confirm
          \/ Cancel \/ Applied \/ Answered \/ Failed \/ External \/ Edit \/ Stop \/ Start
          \/ UNCHANGED vars
        => UNCHANGED rows
      BY DEF ListFails, Cleanup, Close, Toggle, Move, Confirm, Cancel, Applied, Answered,
             Failed, External, Edit, Stop, Start, vars, table
  <2> QED
      BY <1>1, <2>2, <2>3, <2>4, <2>5, <2>6, <2>7 DEF Next, User, Calls
<1>2. ScanInv /\ [Next]_vars =>
        [\A s \in Slot : \A i \in DOMAIN rows[s] : Kept(s, i)]_vars
    BY <1>1
<1> QED
    BY <1>2, ScanInvHolds, PTL DEF Spec, PendingKept

-------------------------------------------------------------------------------
(* The verdicts *)

\* The deletion that is under way has deleted an entry of the cluster.
UnderWay(c) == Working /\ job.of.id = c.id /\ job.done # {}

Verdict(c) ==
    c.id \in excused \/ UnderWay(c) \/ (c.status = "resolved" <=> c.id \in treated)

\* An id that is given out is of no cluster that was ever treated: on screen, in the
\* worker and in the history there are only those given out before.
IdsOld ==
    /\ \A s \in Slot : \A i \in DOMAIN rows[s] : rows[s][i].id < nextId
    /\ \A i \in DOMAIN list : list[i].id < nextId
    /\ \A n \in treated \cup excused : n < nextId
    /\ Working => job.of.id < nextId

JobTreats == Working /\ job.done # {} => job.of.id \in treated

Verdicts == \A s \in Slot : \A i \in DOMAIN rows[s] : Verdict(rows[s][i])

VerdictInv == IdsOld /\ JobTreats /\ Verdicts

\* Steps of which the history and the worker know nothing new, and whose list is the old
\* one, none, or one of the table,
LEMMA VerdictsStay ==
    ASSUME ScanInv, VerdictInv, UNCHANGED <<nextId, job, treated, excused>>,
           \A s \in Slot : rows'[s] = rows[s] \/ rows'[s] = << >>,
           \/ list' = list \/ list' = << >>
           \/ \E s \in Slot : list' = rows[s]
    PROVE  VerdictInv'
<1>1. IdsOld'
  <2>1. \A s \in Slot : \A i \in DOMAIN rows'[s] : rows'[s][i].id < nextId
      BY NoClusters DEF VerdictInv, IdsOld
  <2>2. \A i \in DOMAIN list' : list'[i].id < nextId
      BY NoClusters DEF VerdictInv, IdsOld
  <2> QED
      BY <2>1, <2>2 DEF VerdictInv, IdsOld, Working
<1>2. JobTreats'
    BY DEF VerdictInv, JobTreats, Working
<1>3. ASSUME NEW s \in Slot, NEW i \in DOMAIN rows'[s] PROVE Verdict(rows[s][i])'
  <2>1. rows'[s] = rows[s] /\ i \in DOMAIN rows[s]
      BY <1>3, NoClusters
  <2>2. PICK c : c = rows[s][i] /\ c = rows'[s][i]
      BY <2>1
  <2>3. Verdict(c)
      BY <2>1, <2>2 DEF VerdictInv, Verdicts
  <2> QED
      BY <2>2, <2>3 DEF Verdict, UnderWay, Working
<1> QED
    BY <1>1, <1>2, <1>3 DEF VerdictInv, Verdicts

\* and the list that arrives, whose clusters have new ids.
LEMMA VerdictsArrive ==
    ASSUME ScanInv, VerdictInv, ListArrives
    PROVE  VerdictInv'
<1>1. slot \in Slot /\ UNCHANGED <<job, treated, excused>> /\ ~ Working /\ ~ Working'
    BY DEF ListArrives, ScanInv, TypeOK, Working, history
<1>2. PICK sets \in SetToSeqs(find_duplicate_clusters(ledger \cap Covers[slot])) :
        save_scan(slot, sets) /\ (list' = << >> \/ list' = rows'[slot])
    BY DEF ListArrives, NoOverview
<1>3. sets \in Seq(SUBSET Entry) /\ Len(sets) \in Nat /\ DOMAIN sets = 1..Len(sets)
    BY SetsTyped DEF ScanInv, TypeOK
<1> DEFINE new == [k \in DOMAIN sets |-> [id |-> nextId + k - 1, members |-> sets[k],
                                          keep |-> _pick_keep_id(sets[k]), status |-> "pending"]]
<1>4. rows' = [rows EXCEPT ![slot] = rows[slot] \o new] /\ nextId' = nextId + Len(sets)
    BY <1>2 DEF save_scan
<1>5. \A k \in 1..Len(sets) : /\ new[k].id = nextId + k - 1
                              /\ new[k].status = "pending"
    BY <1>3
<1>6. new \in Seq(Range(new)) /\ Len(new) = Len(sets) /\ DOMAIN new = 1..Len(sets)
  <2>1. new = [k \in 1..Len(sets) |-> new[k]]
      BY <1>3
  <2> HIDE DEF new
  <2>2. \A k \in 1..Len(sets) : new[k] \in Range(new)
      BY <2>1 DEF Range
  <2> HIDE DEF Range
  <2> QED
      BY <1>3, <2>1, <2>2
<1> HIDE DEF new
<1>7. /\ rows \in [Slot -> Seq(Cluster)] /\ nextId \in Nat \ {0}
      /\ rows[slot] \in Seq(Cluster) /\ Len(rows[slot]) \in Nat
      /\ DOMAIN rows[slot] = 1..Len(rows[slot])
    BY <1>1 DEF ScanInv, TypeOK
<1>8. ASSUME NEW i \in DOMAIN rows'[slot]
      PROVE  \/ i \in DOMAIN rows[slot] /\ rows'[slot][i] = rows[slot][i]
             \/ \E k \in 1..Len(sets) : rows'[slot][i] = new[k]
  <2>1. rows'[slot] = rows[slot] \o new
      BY <1>1, <1>4, <1>7
  <2>2. i \in 1..Len(rows[slot]) + Len(sets)
      BY <1>6, <1>7, <2>1
  <2>3. CASE i \in 1..Len(rows[slot])
      BY <1>6, <1>7, <2>1, <2>3
  <2>4. CASE i - Len(rows[slot]) \in 1..Len(sets)
      BY <1>6, <1>7, <2>1, <2>4
  <2> QED
      BY <1>3, <1>7, <2>2, <2>3, <2>4
<1>9. ASSUME NEW s \in Slot, NEW i \in DOMAIN rows'[s]
      PROVE  rows'[s][i].id < nextId' /\ Verdict(rows[s][i])'
  <2> PICK c : c = rows'[s][i]
      OBVIOUS
  <2>1. CASE i \in DOMAIN rows[s] /\ c = rows[s][i]
    <3>1. c.id < nextId /\ Verdict(c) /\ c.id \in Nat
      <4>1. c \in Cluster
          BY <1>9, <2>1 DEF ScanInv, RowsInv, Proper
      <4>2. c.id < nextId
          BY <1>9, <2>1 DEF VerdictInv, IdsOld
      <4>3. Verdict(c)
          BY <1>9, <2>1 DEF VerdictInv, Verdicts
      <4> QED
          BY <4>1, <4>2, <4>3 DEF Cluster
    <3>2. c.id < nextId'
        BY <1>3, <1>4, <1>7, <3>1
    <3> QED
        BY <1>1, <3>1, <3>2 DEF Verdict, UnderWay
  <2>2. ASSUME NEW k \in 1..Len(sets), c = new[k]
        PROVE  c.id < nextId' /\ Verdict(c)'
    <3>1. c.id = nextId + k - 1 /\ c.status = "pending"
        BY <1>5, <2>2
    <3>2. c.id \notin treated
        BY <1>3, <1>7, <3>1 DEF VerdictInv, IdsOld, ScanInv, TypeOK
    <3>3. c.id < nextId'
        BY <1>3, <1>4, <1>7, <3>1
    <3> QED
        BY <1>1, <3>1, <3>2, <3>3 DEF Verdict
  <2>3. CASE s = slot
      BY <1>8, <1>9, <2>1, <2>2, <2>3
  <2>4. CASE s # slot
      BY <1>4, <1>7, <1>9, <2>1, <2>4
  <2> QED
      BY <2>3, <2>4
<1>10. \A i \in DOMAIN list' : list'[i].id < nextId'
    BY <1>1, <1>2, <1>9, NoClusters
<1>11. \A n \in treated' \cup excused' : n < nextId'
    BY <1>1, <1>3, <1>4, <1>7 DEF VerdictInv, IdsOld, ScanInv, TypeOK
<1> QED
    BY <1>1, <1>9, <1>10, <1>11 DEF VerdictInv, IdsOld, JobTreats, Verdicts

\* A deletion that is cut short is settled: what it treated is excused.
LEMMA CutShortSettles ==
    ASSUME ScanInv, VerdictInv, NEW late \in Late, CutShort(late), nextId' = nextId
    PROVE  /\ \A n \in treated' \cup excused' : n < nextId'
           /\ \A c : Verdict(c) => c.id \in excused' \/ (c.status = "resolved" <=> c.id \in treated')
           /\ treated \subseteq treated' /\ excused \subseteq excused'
<1>1. CASE ~ Working
  <2>1. late = {} /\ Deleted(late) = {}
      BY <1>1 DEF Late, Deleted
  <2>2. treated' = treated /\ excused' = excused
      BY <2>1 DEF CutShort
  <2> QED
      BY <1>1, <2>2 DEF VerdictInv, IdsOld, Verdict, UnderWay
<1>2. CASE Working
  <2> PICK n : n = job.of.id
      OBVIOUS
  <2>1. CASE Deleted(late) = {}
    <3>1. late = {} /\ job.done = {}
        BY <1>2, <2>1 DEF Deleted
    <3>2. treated' = treated /\ excused' = excused
        BY <2>1, <3>1 DEF CutShort
    <3> QED
        BY <3>1, <3>2 DEF VerdictInv, IdsOld, Verdict, UnderWay
  <2>2. CASE Deleted(late) # {}
    <3>1. /\ excused' = excused \cup {n}
          /\ treated' = treated \/ treated' = treated \cup {n}
        BY <2>2 DEF CutShort
    <3>2. \A c : c.id # n => (Verdict(c) => c.id \in excused' \/ (c.status = "resolved" <=> c.id \in treated'))
        BY <3>1 DEF Verdict, UnderWay
    <3>3. n < nextId'
        BY <1>2 DEF VerdictInv, IdsOld
    <3> QED
        BY <3>1, <3>2, <3>3 DEF VerdictInv, IdsOld
  <2> QED
      BY <2>1, <2>2
<1> QED
    BY <1>1, <1>2

\* So the screens and the worker may go, or another deletion begin.
LEMMA VerdictsCut ==
    ASSUME ScanInv, VerdictInv, NEW late \in Late, CutShort(late), UNCHANGED <<rows, nextId>>,
           \/ list' = list \/ list' = << >>
           \/ \E s \in Slot : list' = rows[s],
           \/ ~ Working'
           \/ job'.of.id < nextId /\ job'.done = {}
    PROVE  VerdictInv'
<1>1. IdsOld'
  <2>1. \A i \in DOMAIN list' : list'[i].id < nextId
      BY NoClusters DEF VerdictInv, IdsOld
  <2> QED
      BY <2>1, CutShortSettles DEF VerdictInv, IdsOld
<1>2. JobTreats'
    BY DEF JobTreats
<1>3. \A s \in Slot : \A i \in DOMAIN rows'[s] : Verdict(rows[s][i])'
    BY CutShortSettles DEF VerdictInv, Verdicts, Verdict
<1> QED
    BY <1>1, <1>2, <1>3 DEF VerdictInv, Verdicts

LEMMA VerdictsApplied ==
    ASSUME ScanInv, VerdictInv, Applied
    PROVE  VerdictInv'
<1>1. /\ Working /\ Working' /\ job \in Job /\ job.of.id \in Nat
      /\ UNCHANGED <<rows, nextId, list, excused>>
      /\ treated' = treated \cup {job.of.id}
      /\ \E e \in job.left : job' = [job EXCEPT !.left = job.left \ {e}, !.applied = TRUE,
                                               !.done = job.done \cup {e}]
    BY AppliedKeeps DEF Applied, table, above, ScanInv, TypeOK, Working, Job, Cluster, NoJob
<1>2. job'.of = job.of /\ job'.done # {}
    BY <1>1 DEF Job
<1>3. IdsOld' /\ JobTreats'
    BY <1>1, <1>2 DEF VerdictInv, IdsOld, JobTreats
<1>4. ASSUME NEW c, Verdict(c) PROVE Verdict(c)'
    BY <1>1, <1>2, <1>4 DEF Verdict, UnderWay
<1> QED
    BY <1>1, <1>3, <1>4 DEF VerdictInv, Verdicts

LEMMA VerdictsAnswered ==
    ASSUME ScanInv, VerdictInv, Answered
    PROVE  VerdictInv'
<1>1. /\ Working /\ job \in Job /\ job' = [job EXCEPT !.applied = FALSE]
      /\ UNCHANGED <<rows, nextId, list, treated, excused>>
    BY DEF Answered, table, above, history, ScanInv, TypeOK, Job
<1>2. job'.of = job.of /\ job'.done = job.done
    BY <1>1 DEF Job
<1>3. Working'
    BY AnsweredKeeps, <1>1, <1>2 DEF Job, Working, NoJob
<1>4. IdsOld' /\ JobTreats'
    BY <1>1, <1>2, <1>3 DEF VerdictInv, IdsOld, JobTreats
<1>5. ASSUME NEW c, Verdict(c) PROVE Verdict(c)'
    BY <1>1, <1>2, <1>3, <1>5 DEF Verdict, UnderWay
<1> QED
    BY <1>1, <1>4, <1>5 DEF VerdictInv, Verdicts

\* The last answer settles the cluster on the screen.
LEMMA VerdictsFinished ==
    ASSUME ScanInv, VerdictInv, Finished
    PROVE  VerdictInv'
<1> PICK now : now = Current.id
    OBVIOUS
<1> PICK of : of = job.of.id
    OBVIOUS
<1>1. /\ screen = "cleaning" /\ slot \in Slot /\ UNCHANGED <<nextId, treated>>
      /\ rows' = Resolved(now) /\ of < nextId /\ of \in treated
      /\ excused' = IF now = of THEN excused ELSE excused \cup {now, of}
    BY OnScreen DEF Finished, ScanInv, TypeOK, JobInv, VerdictInv, IdsOld, JobTreats
<1>2. ~ Working'
    BY DEF Finished, BackToOverview, Working
<1>3. list' = list \/ list' = << >> \/ list' = rows'[slot]
    BY DEF Finished, BackToOverview, Closed, NoOverview, above
<1>4. now < nextId
    BY <1>1, OnScreen DEF Current, VerdictInv, IdsOld
<1>5. ASSUME NEW s \in Slot
      PROVE  /\ DOMAIN rows'[s] = DOMAIN rows[s]
             /\ \A i \in DOMAIN rows[s] :
                   rows'[s][i] = IF rows[s][i].id = now
                                 THEN [rows[s][i] EXCEPT !.status = "resolved"] ELSE rows[s][i]
    BY <1>1 DEF Resolved
<1>6. ASSUME NEW s \in Slot, NEW i \in DOMAIN rows'[s]
      PROVE  rows'[s][i].id < nextId' /\ Verdict(rows[s][i])'
  <2> PICK c : c = rows[s][i]
      OBVIOUS
  <2> PICK d : d = rows'[s][i]
      OBVIOUS
  <2>1. i \in DOMAIN rows[s] /\ c \in Cluster /\ c.id < nextId /\ Verdict(c)
      BY <1>5, <1>6 DEF ScanInv, RowsInv, Proper, VerdictInv, IdsOld, Verdicts
  <2>2. CASE c.id = now
    <3>1. d = [c EXCEPT !.status = "resolved"]
        BY <1>5, <2>1, <2>2
    <3>2. d.id = now /\ d.status = "resolved"
        BY <2>1, <2>2, <3>1 DEF Cluster
    <3> QED
        BY <1>1, <1>4, <3>2 DEF Verdict
  <2>3. CASE c.id # now
    <3>1. d = c
        BY <1>5, <2>1, <2>3
    <3>2. d.id \in excused' \/ (d.status = "resolved" <=> d.id \in treated')
        BY <1>1, <2>1, <2>3, <3>1 DEF Verdict, UnderWay
    <3> QED
        BY <1>1, <2>1, <3>1, <3>2 DEF Verdict
  <2> QED
      BY <2>2, <2>3
<1>7. \A i \in DOMAIN list' : list'[i].id < nextId'
    BY <1>1, <1>3, <1>6, NoClusters DEF VerdictInv, IdsOld
<1>8. \A n \in treated' \cup excused' : n < nextId'
    BY <1>1, <1>4 DEF VerdictInv, IdsOld
<1> QED
    BY <1>2, <1>6, <1>7, <1>8 DEF VerdictInv, IdsOld, JobTreats, Verdicts

LEMMA VerdictStep == ScanInv /\ VerdictInv /\ [Next]_vars => VerdictInv'
<1> SUFFICES ASSUME ScanInv, VerdictInv, [Next]_vars PROVE VerdictInv'
    OBVIOUS
<1>1. ASSUME NEW s \in Slot, Scan(s) PROVE VerdictInv'
  <2>1. /\ UNCHANGED <<nextId, job, treated, excused>>
        /\ list' = list \/ list' = rows[s]
        /\ rows' = rows \/ rows' = [rows EXCEPT ![s] = << >>]
      BY <1>1 DEF Scan, clear_scan, history
  <2>2. \A r \in Slot : rows'[r] = rows[r] \/ rows'[r] = << >>
      BY <2>1 DEF ScanInv, TypeOK
  <2> QED
      BY <1>1, <2>1, <2>2, VerdictsStay
<1>2. CASE Refresh
  <2>1. /\ UNCHANGED <<nextId, job, treated, excused, list>>
        /\ rows' = [rows EXCEPT ![slot] = << >>]
      BY <1>2 DEF Refresh, clear_scan, history, above
  <2>2. \A r \in Slot : rows'[r] = rows[r] \/ rows'[r] = << >>
      BY <2>1 DEF ScanInv, TypeOK
  <2> QED
      BY <2>1, <2>2, VerdictsStay
<1>3. CASE Cleanup \/ Close \/ (\E e \in Entry : Toggle(e)) \/ Move \/ ListFails \/ External
           \/ Edit \/ Start \/ UNCHANGED vars
  <2>1. /\ UNCHANGED <<rows, nextId, job, treated, excused>>
        /\ list' = list \/ list' = << >>
      BY <1>3
         DEF Cleanup, Close, Closed, NoOverview, Toggle, Move, ListFails, External, Edit,
             Start, vars, table, above, history
  <2> QED
      BY <2>1, VerdictsStay
<1>4. CASE Confirm
  <2>1. /\ screen = "cleaning" /\ UNCHANGED <<rows, nextId, list>>
        /\ job' = [of |-> Current, left |-> Marked, applied |-> FALSE, done |-> {}]
      BY <1>4 DEF Confirm, Keys, table, above
  <2>2. Current.id < nextId
      BY <2>1, OnScreen DEF Current, VerdictInv, IdsOld
  <2>3. job'.of.id < nextId /\ job'.done = {}
      BY <2>1, <2>2
  <2>4. PICK late \in Late : CutShort(late)
      BY <1>4 DEF Confirm
  <2> QED
      BY <2>1, <2>3, <2>4, VerdictsCut
<1>5. CASE Cancel
  <2>1. PICK late \in Late : CutShort(late) /\ BackToOverview(clean.dirty, How(late))
      BY <1>5 DEF Cancel
  <2>2. UNCHANGED <<rows, nextId>> /\ slot \in Slot
      BY <1>5, OnScreen DEF Cancel, Keys, table
  <2>3. ~ Working' /\ (list' = << >> \/ list' = rows[slot])
      BY <2>1, <2>2 DEF BackToOverview, Closed, NoOverview, Working
  <2> QED
      BY <2>1, <2>2, <2>3, VerdictsCut
<1>6. CASE Failed
  <2>1. {} \in Late /\ CutShort({}) /\ UNCHANGED <<rows, nextId, list>> /\ ~ Working'
      BY <1>6 DEF Failed, Late, table, above, Working
  <2> QED
      BY <2>1, VerdictsCut
<1>7. CASE Stop
  <2>1. PICK late \in Late : CutShort(late)
      BY <1>7 DEF Stop
  <2>2. UNCHANGED <<rows, nextId>> /\ list' = << >> /\ ~ Working'
      BY <1>7 DEF Stop, table, NoOverview, Working
  <2> QED
      BY <2>1, <2>2, VerdictsCut
<1> QED
    BY <1>1, <1>2, <1>3, <1>4, <1>5, <1>6, <1>7, VerdictsArrive, VerdictsApplied,
       VerdictsAnswered, VerdictsFinished
       DEF Next, User, Calls

LEMMA VerdictsAlways == Spec => [](ScanInv /\ VerdictInv)
<1>1. Init => VerdictInv
    BY NoClusters DEF Init, VerdictInv, IdsOld, JobTreats, Verdicts, Working
<1> QED
    BY <1>1, InitHolds, StepKeeps, VerdictStep, PTL DEF Spec

\* Whatever is scanned, cleaned, cut short, failed or restarted, a cluster in the table is
\* resolved exactly if an entry of it was deleted, but for the exceptions it names: the
\* ids of cleared ranges, still on screen, never reach a cluster that got a new id.
THEOREM VerdictsAreTrue == Spec => []VerdictsTrue
<1>1. VerdictInv => VerdictsTrue
    BY DEF VerdictInv, Verdicts, Verdict, UnderWay, VerdictsTrue
<1> QED
    BY <1>1, VerdictsAlways, PTL

\* The list closes by itself only when every cluster on it that is still stored is
\* resolved, or its deletion was begun.
THEOREM DoneMeansDone == Spec => DoneIsDone
<1>1. ASSUME ScanInv, VerdictInv, [Next]_vars, screen = "cleaning", screen' = "entries",
             NEW i \in DOMAIN list
      PROVE  \/ list[i].status = "resolved"
             \/ list[i].id \in treated' \cup excused'
             \/ list[i].id \notin Ids(rows[slot])
  <2>1. slot \in Slot /\ VerdictInv'
      BY <1>1, OnScreen, VerdictStep
  <2>2. /\ Pending(rows'[slot]) = {} /\ ~ Working'
        /\ rows' = rows \/ rows' = Resolved(Current.id)
      BY <1>1
         DEF Next, User, Calls, Scan, Refresh, Cleanup, Close, Toggle, Move, Confirm,
             Cancel, ListArrives, ListFails, Applied, Answered, Finished, Failed, External,
             Edit, Stop, Start, BackToOverview, Closed, Working, vars, table
  <2>3. SUFFICES ASSUME NEW k \in DOMAIN rows[slot], rows[slot][k].id = list[i].id
                 PROVE  list[i].id \in treated' \cup excused'
      BY DEF Ids
  <2>4. k \in DOMAIN rows'[slot] /\ rows'[slot][k].id = list[i].id
      BY <1>1, <2>1, <2>2, <2>3, ResolvedProper DEF ScanInv
  <2>5. rows'[slot][k].status = "resolved"
    <3>1. rows'[slot][k] \in Cluster
        BY <1>1, <2>1, <2>4, StepKeeps DEF ScanInv, RowsInv, Proper
    <3> QED
        BY <2>2, <2>4, <3>1 DEF Pending, Cluster
  <2>6. PICK s : s = slot
      OBVIOUS
  <2>7. Verdict(rows[s][k])'
      BY <2>1, <2>4, <2>6 DEF VerdictInv, Verdicts
  <2> QED
      BY <2>2, <2>4, <2>5, <2>6, <2>7 DEF Verdict, UnderWay
<1>2. ScanInv /\ VerdictInv /\ [Next]_vars =>
        [screen = "cleaning" /\ screen' = "entries" =>
            \A i \in DOMAIN list :
                \/ list[i].status = "resolved"
                \/ list[i].id \in treated' \cup excused'
                \/ list[i].id \notin Ids(rows[slot])]_vars
    BY <1>1
<1> QED
    BY <1>2, VerdictsAlways, PTL DEF Spec, DoneIsDone
===============================================================================
