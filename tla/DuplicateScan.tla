---------------------------- MODULE DuplicateScan ----------------------------
(***************************************************************************)
(* The scan for duplicate entries: the worker of the entries screen        *)
(* (screens/entries_scan.py), the table its clusters are kept in           *)
(* (dupe_scan_repo.py), the list of clusters (screens/                     *)
(* dupe_scan_overview.py) and the screen that goes through them            *)
(* (screens/duplicate_scan.py).                                            *)
(*                                                                         *)
(* A scan looks at a range of days.  Its clusters are stored; while one of *)
(* them is pending the range is shown from the table and not asked for     *)
(* again.  Cleaning a cluster deletes its marked entries at the server,    *)
(* one call after the other, and marks it resolved.                        *)
(*                                                                         *)
(* The screens are modal: only the one on top has keys.  While the popup   *)
(* of a list that is fetched is up there are none; while a deletion waits  *)
(* there are.  Entries are numbered by date and id.  Which of a cluster is *)
(* proposed to be kept depends on a score of its description and memo,     *)
(* which an edit changes; the proposal is stored with the cluster.  What   *)
(* makes two entries alike, of which an edit is one that goes and one that *)
(* comes, and the order of the clusters are not modelled here.             *)
(***************************************************************************)
EXTENDS Integers, Sequences, FiniteSets, SequencesExt

CONSTANTS
    Entry,      \* entries, in the order of their dates and ids
    Scores,     \* by entry, what keep_preference_score may say of it
    Scored,     \* and what it says at first
    Alike,      \* pairs of entries whose verdict is not `different'
    Slot,       \* ranges of days, of the active section
    Covers,     \* the entries with a date in a range
    NoSlot,
    May,        \* circumstances this instance allows
    MaxId,      \* bound: no list is asked for once a cluster has this id
    MaxChanges  \* bound: changes of the ledger that are not of a scan

Circumstance == {
    "refuse",    \* a call is answered with an error, or a list is
    "lost",      \* a deletion is applied and answered with an error or not at all
    "hurry",     \* the user presses keys while a deletion waits
    "external",  \* an entry is created or deleted elsewhere, or one is edited
    "stop" }     \* the program ends, at any moment

\* From -100 to 12; only the best score matters.
Score == {k \in Int : k <= 12}

ASSUME ScanAssumption ==
    /\ Entry \subseteq Nat /\ IsFiniteSet(Entry)
    /\ Scores \in [Entry -> SUBSET Score]
    /\ Scored \in [Entry -> Score] /\ \A e \in Entry : Scored[e] \in Scores[e]
    /\ Alike \subseteq SUBSET Entry
    /\ Covers \in [Slot -> SUBSET Entry]
    /\ NoSlot \notin Slot
    /\ May \subseteq Circumstance
    /\ MaxId \in Nat /\ MaxChanges \in Nat

VARIABLES
    ledger,    \* the server
    score,     \* keep_preference_score of what an entry says there
    rows,      \* dupe_scan_clusters by range, in the order they are loaded
    nextId,    \* its AUTOINCREMENT
    screen,    \* the screen on top
    slot,      \* range_start, range_end of the worker
    list,      \* _clusters of the overview
    dirty,     \* _dirty of the overview
    clean,     \* DuplicateScanScreen
    job,       \* its _delete_worker
    treated,   \* history: clusters of which the worker deleted an entry
    excused,   \* history: clusters whose deletion was cut short or moved away from
    unseen,    \* history: deletions since the entries were loaded
    chosen,    \* history: entries to keep that the user marked and confirmed
    touched,   \* history: entries deleted elsewhere, or edited while a cluster waits
    changes    \* counts up to MaxChanges

table   == <<rows, nextId>>
above   == <<slot, list, dirty>>
history == <<treated, excused, unseen, chosen, touched>>
server  == <<ledger, score>>
vars    == <<server, table, screen, above, clean, job, history, changes>>

\* A cluster is a StoredCluster.
Cluster == [id : Nat \ {0}, members : SUBSET Entry, keep : Entry,
            status : {"pending", "resolved"}]

\* It goes through the pending clusters of the overview, which changes when it closes.
\* marks: the entries to delete, by cluster.
Clean   == [idx : Nat \ {0}, marks : Seq(SUBSET Entry), dirty : BOOLEAN,
            processed : SUBSET Nat]
NoClean == [marks |-> << >>]

\* of: the cluster on the screen when the deletion began; left: entries still to be
\* deleted, in an order left open; done: those the server has deleted; applied: the
\* answer of the last of these is awaited.
Job   == [of : Cluster, left : SUBSET Entry, applied : BOOLEAN, done : SUBSET Entry]
NoJob == [left |-> {}]

Working == job # NoJob
Ids(seq)     == {seq[i].id : i \in DOMAIN seq}
Pending(seq) == {i \in DOMAIN seq : seq[i].status = "pending"}

\* The clusters that may still be cleaned: stored, on the screen, under deletion.
Waiting ==
    (UNION {{rows[s][i] : i \in Pending(rows[s])} : s \in Slot})
        \cup {list[i] : i \in Pending(list)} \cup (IF Working THEN {job.of} ELSE {})

TypeOK ==
    /\ ledger \subseteq Entry /\ score \in [Entry -> Score]
    /\ rows \in [Slot -> Seq(Cluster)] /\ nextId \in Nat \ {0}
    /\ screen \in {"off", "entries", "scanning", "refreshing", "overview", "cleaning"}
    /\ slot \in Slot \cup {NoSlot} /\ list \in Seq(Cluster) /\ dirty \in BOOLEAN
    /\ clean \in Clean \cup {NoClean} /\ job \in Job \cup {NoJob}
    /\ treated \cup excused \subseteq Nat
    /\ unseen \subseteq {"whole", "cut"} /\ chosen \cup touched \subseteq Entry
    /\ changes \in 0..MaxChanges
    /\ screen \in {"scanning", "refreshing", "overview", "cleaning"} => slot \in Slot
    /\ screen = "cleaning" => /\ clean \in Clean /\ clean.idx \in Pending(list)
                              /\ DOMAIN clean.marks = DOMAIN list
    /\ Working => screen = "cleaning" /\ job \in Job /\ (job.applied \/ job.left # {})

Init ==
    /\ ledger = Entry /\ score = Scored
    /\ rows = [s \in Slot |-> << >>] /\ nextId = 1
    /\ screen = "entries" /\ slot = NoSlot /\ list = << >> /\ dirty = FALSE
    /\ clean = NoClean /\ job = NoJob
    /\ treated = {} /\ excused = {} /\ unseen = {} /\ chosen = {} /\ touched = {}
    /\ changes = 0

-------------------------------------------------------------------------------
(* Clusters *)

\* The entry to keep: the best score, of these the oldest.
Preferred(e, f) == score[e] > score[f] \/ (score[e] = score[f] /\ e <= f)

_pick_keep_id(S) == CHOOSE e \in S : \A f \in S : Preferred(e, f)

\* Entries that are alike, or linked by entries that are.
Linked(C) ==
    \A P \in (SUBSET C) \ {{}, C} : \E e \in P, f \in C \ P : {e, f} \in Alike

find_duplicate_clusters(S) ==
    {C \in SUBSET S : /\ Cardinality(C) >= 2 /\ Linked(C)
                      /\ \A e \in C, f \in S \ C : {e, f} \notin Alike}

\* The clusters of all entries: what any scan finds is part of one of them.
Groups == find_duplicate_clusters(Entry)

-------------------------------------------------------------------------------
(* DupeScanRepository *)

clear_scan(s) == rows' = [rows EXCEPT ![s] = << >>]

\* Wrong variant: ids count within a range.
save_scan_local_ids(s, sets) ==
    /\ rows' = [rows EXCEPT ![s] = @ \o
                  [i \in DOMAIN sets |-> [id |-> Len(rows[s]) + i, members |-> sets[i],
                                          keep |-> _pick_keep_id(sets[i]), status |-> "pending"]]]
    /\ nextId' = nextId + Len(sets)

\* sets: the clusters of a list, in the order they are to be shown.
save_scan(s, sets) ==
    /\ rows' = [rows EXCEPT ![s] = @ \o
                  [i \in DOMAIN sets |-> [id |-> nextId + i - 1, members |-> sets[i],
                                          keep |-> _pick_keep_id(sets[i]), status |-> "pending"]]]
    /\ nextId' = nextId + Len(sets)

\* The table after a cluster is resolved; an id that was cleared changes nothing.
Resolved(id) ==
    [s \in Slot |-> [i \in DOMAIN rows[s] |->
        IF rows[s][i].id = id THEN [rows[s][i] EXCEPT !.status = "resolved"]
                              ELSE rows[s][i]]]

-------------------------------------------------------------------------------
(* _scan_duplicates_worker *)

\* The overview is gone.
NoOverview == slot' = NoSlot /\ list' = << >> /\ dirty' = FALSE

\* The range is chosen; pending clusters are shown from the table, else the range is
\* cleared and asked for.
Scan(s) ==
    /\ screen = "entries" /\ slot' = s
    /\ \/ /\ Pending(rows[s]) # {}
          /\ screen' = "overview" /\ list' = rows[s] /\ dirty' = FALSE
          /\ UNCHANGED rows
       \/ /\ Pending(rows[s]) = {} /\ nextId <= MaxId
          /\ screen' = "scanning" /\ clear_scan(s)
          /\ UNCHANGED <<list, dirty>>
    /\ UNCHANGED <<server, nextId, clean, job, history, changes>>

\* _fetch_and_save_dupe_clusters, when the list arrives.  A scan that finds nothing
\* opens no overview.
ListArrives ==
    /\ screen \in {"scanning", "refreshing"}
    /\ \E sets \in SetToSeqs(find_duplicate_clusters(ledger \cap Covers[slot])) :
        /\ save_scan(slot, sets)
        /\ IF screen = "scanning" /\ sets = << >>
           THEN screen' = "entries" /\ NoOverview
           ELSE screen' = "overview" /\ list' = rows'[slot] /\ UNCHANGED <<slot, dirty>>
    /\ UNCHANGED <<server, clean, job, history, changes>>

\* ToolError is not imported in entries_scan.py: its except clause raises NameError.
\* The overview reports it and keeps its list; in the worker of a scan nothing does,
\* and a worker's exception ends the program.
ListFails ==
    /\ "refuse" \in May
    /\ \/ screen = "scanning"   /\ screen' = "off" /\ NoOverview
       \/ screen = "refreshing" /\ screen' = "overview" /\ UNCHANGED above
    /\ UNCHANGED <<server, table, clean, job, history, changes>>

-------------------------------------------------------------------------------
(* DupeScanOverviewScreen *)

\* F5
Refresh ==
    /\ screen = "overview" /\ nextId <= MaxId
    /\ screen' = "refreshing" /\ clear_scan(slot)
    /\ UNCHANGED <<server, nextId, above, clean, job, history, changes>>

\* R and Enter: the pending clusters, from the first or from the one of the cursor.
Cleanup ==
    /\ screen = "overview"
    /\ \E i \in Pending(list) :
        clean' = [idx |-> i, dirty |-> FALSE, processed |-> {},
                  marks |-> [k \in DOMAIN list |-> list[k].members \ {list[k].keep}]]
    /\ screen' = "cleaning"
    /\ UNCHANGED <<server, table, above, job, history, changes>>

\* The worker of the scan goes on: the entries are loaded again if it was told so.
Closed(told, how) ==
    /\ screen' = "entries" /\ NoOverview
    /\ unseen' = IF told THEN {} ELSE unseen \cup how

Close ==
    /\ screen = "overview" /\ Closed(dirty, {})
    /\ UNCHANGED <<server, table, clean, job, treated, excused, chosen, touched, changes>>

\* Wrong variant: the last cleaning alone says whether something changed.
BackToOverview_forgets(told, how) ==
    /\ clean' = NoClean /\ job' = NoJob
    /\ IF told /\ Pending(rows'[slot]) = {}
       THEN Closed(TRUE, how)
       ELSE /\ screen' = "overview" /\ list' = rows'[slot] /\ dirty' = told
            /\ unseen' = unseen \cup how
            /\ UNCHANGED slot

\* Wrong variant: a cleaning that changed something closes the list.
BackToOverview_closes(told, how) ==
    /\ clean' = NoClean /\ job' = NoJob
    /\ IF dirty \/ told
       THEN Closed(TRUE, how)
       ELSE /\ screen' = "overview" /\ list' = rows'[slot] /\ dirty' = FALSE
            /\ unseen' = unseen \cup how
            /\ UNCHANGED slot

\* _kick_cleanup after its screen: the list is read again; with nothing pending the
\* overview closes.  told: the screen's _dirty.
BackToOverview(told, how) ==
    /\ clean' = NoClean /\ job' = NoJob
    /\ IF (dirty \/ told) /\ Pending(rows'[slot]) = {}
       THEN Closed(TRUE, how)
       ELSE /\ screen' = "overview" /\ list' = rows'[slot] /\ dirty' = (dirty \/ told)
            /\ unseen' = unseen \cup how
            /\ UNCHANGED slot

-------------------------------------------------------------------------------
(* DuplicateScanScreen *)

Current == list[clean.idx]
Marked  == clean.marks[clean.idx]
Keys    == screen = "cleaning" /\ (Working => "hurry" \in May)

\* Space
Toggle(e) ==
    /\ Keys /\ e \in Current.members
    /\ clean' = [clean EXCEPT !.marks[clean.idx] =
                    IF e \in @ THEN @ \ {e} ELSE @ \cup {e}]
    /\ UNCHANGED <<server, table, screen, above, job, history, changes>>

\* n and p; the row stays pending.
Move ==
    /\ Keys
    /\ \E i \in Pending(list) \ {clean.idx} :
        /\ \A k \in Pending(list) : ~(i < k /\ k < clean.idx) /\ ~(clean.idx < k /\ k < i)
        /\ clean' = [clean EXCEPT !.idx = i]
    /\ UNCHANGED <<server, table, screen, above, job, history, changes>>

\* What the call that waits may still do.
Late == {{}} \cup IF Working /\ ~job.applied THEN {{e} : e \in job.left \cap ledger} ELSE {}

\* The worker is cancelled or ends with an exception; what it deleted is not counted.
Deleted(late) == late \cup IF Working THEN job.done ELSE {}
How(late)     == IF Deleted(late) = {} THEN {} ELSE {"cut"}
CutShort(late) ==
    LET its(S) == IF S = {} THEN {} ELSE {job.of.id}
    IN  /\ ledger' = ledger \ late /\ UNCHANGED <<score, touched>>
        /\ treated' = treated \cup its(late)
        /\ excused' = excused \cup its(Deleted(late))

\* Wrong variant: the marks are not looked at.
Confirm_whole ==
    /\ Keys /\ Marked # {}
    /\ \E late \in Late : CutShort(late) /\ unseen' = unseen \cup How(late)
    /\ job' = [of |-> Current, left |-> Current.members, applied |-> FALSE, done |-> {}]
    /\ chosen' = chosen \cup (Marked \cap {Current.keep})
    /\ UNCHANGED <<table, screen, above, clean, changes>>

\* Enter: an exclusive worker, begun with the marks of this moment.
Confirm ==
    /\ Keys /\ Marked # {}
    /\ \E late \in Late : CutShort(late) /\ unseen' = unseen \cup How(late)
    /\ job' = [of |-> Current, left |-> Marked, applied |-> FALSE, done |-> {}]
    /\ chosen' = chosen \cup (Marked \cap {Current.keep})
    /\ UNCHANGED <<table, screen, above, clean, changes>>

\* Esc: the worker is cancelled with the screen.
Cancel ==
    /\ Keys
    /\ UNCHANGED <<table, chosen, changes>>
    /\ \E late \in Late : CutShort(late) /\ BackToOverview(clean.dirty, How(late))

-------------------------------------------------------------------------------
(* _delete_worker and _delete_many *)

\* The server deletes the next entry; what of it is kept here is purged when the
\* answer arrives.
Applied ==
    /\ Working /\ ~job.applied
    /\ \E e \in job.left \cap ledger :
        /\ ledger' = ledger \ {e}
        /\ job' = [job EXCEPT !.left = @ \ {e}, !.applied = TRUE, !.done = @ \cup {e}]
    /\ treated' = treated \cup {job.of.id}
    /\ UNCHANGED <<score, table, screen, above, clean, excused, unseen, chosen, touched,
                   changes>>

Answered ==
    /\ Working /\ job.applied /\ job.left # {}
    /\ job' = [job EXCEPT !.applied = FALSE]
    /\ UNCHANGED <<server, table, screen, above, clean, history, changes>>

\* The last answer: the cluster on the screen, which need not be the one that was
\* confirmed, is resolved; the next one that is not processed is shown, or the screen
\* closes.
Finished ==
    LET here      == clean.idx
        processed == clean.processed \cup {here}
        after     == {i \in Pending(list) : i > here /\ i \notin processed}
    IN
    /\ Working /\ job.applied /\ job.left = {}
    /\ rows' = Resolved(Current.id)
    /\ excused' = IF Current.id = job.of.id THEN excused
                                            ELSE excused \cup {Current.id, job.of.id}
    /\ UNCHANGED <<server, nextId, treated, chosen, touched, changes>>
    /\ IF after = {}
       THEN BackToOverview(TRUE, {"whole"})
       ELSE /\ clean' = [clean EXCEPT !.dirty = TRUE, !.processed = processed,
                                      !.idx = Min(after)]
            /\ job' = NoJob
            /\ unseen' = unseen \cup {"whole"}
            /\ UNCHANGED <<screen, above>>

\* A call is refused, times out or finds no entry: NameError again, caught by the
\* screen, which reports it and counts nothing.
Failed ==
    /\ Working
    /\ \/ ~job.applied /\ job.left \ ledger # {}
       \/ ~job.applied /\ "refuse" \in May
       \/ job.applied  /\ "lost" \in May
    /\ CutShort({}) /\ unseen' = unseen \cup How({}) /\ job' = NoJob
    /\ UNCHANGED <<table, screen, above, clean, chosen, changes>>

-------------------------------------------------------------------------------
(* Elsewhere *)

\* An entry is deleted or created; an edit that changes what it is alike is both.
External ==
    /\ "external" \in May /\ changes < MaxChanges
    /\ \E e \in Entry :
        \/ e \in ledger /\ ledger' = ledger \ {e} /\ touched' = touched \cup {e}
        \/ e \notin ledger /\ ledger' = ledger \cup {e} /\ UNCHANGED touched
    /\ changes' = changes + 1
    /\ UNCHANGED <<score, table, screen, above, clean, job, treated, excused, unseen, chosen>>

\* The description or memo of an entry is edited, here or elsewhere; clusters that
\* are stored, on the screen or under deletion keep the entry they proposed.
Edit ==
    /\ "external" \in May /\ changes < MaxChanges
    /\ \E e \in ledger : \E k \in Scores[e] \ {score[e]} :
        /\ score' = [score EXCEPT ![e] = k]
        /\ touched' = IF \E G \in Groups, c \in Waiting : e \in G /\ c.members \cap G # {}
                      THEN touched \cup {e} ELSE touched
    /\ changes' = changes + 1
    /\ UNCHANGED <<ledger, table, screen, above, clean, job, treated, excused, unseen, chosen>>

\* The program ends, with what it has in memory.
Stop ==
    /\ "stop" \in May /\ screen # "off"
    /\ screen' = "off"
    /\ \E late \in Late : CutShort(late) /\ unseen' = unseen \cup How(late)
    /\ clean' = NoClean /\ job' = NoJob /\ NoOverview
    /\ UNCHANGED <<table, chosen, changes>>

\* The entries are loaded.
Start ==
    /\ screen = "off" /\ screen' = "entries" /\ unseen' = {}
    /\ UNCHANGED <<server, table, above, clean, job, treated, excused, chosen, touched,
                   changes>>

-------------------------------------------------------------------------------
User == \/ \E s \in Slot : Scan(s)
        \/ Refresh \/ Cleanup \/ Close
        \/ \E e \in Entry : Toggle(e)
        \/ Move \/ Confirm \/ Cancel
Calls == ListArrives \/ ListFails \/ Applied \/ Answered \/ Finished \/ Failed

Next == User \/ Calls \/ External \/ Edit \/ Stop \/ Start

Spec == Init /\ [][Next]_vars

-------------------------------------------------------------------------------
(* Properties *)

\* What the table says of a cluster is what was done to it: it is resolved exactly
\* if an entry of it was deleted, unless its deletion is under way, was cut short, or
\* the user moved to another cluster while it waited.  Hazard: _delete_worker resolves
\* the cluster of the index it reads after its await; the verdict is read in this run
\* of the program or a later one, and the ids of a cleared range are still on screen.
VerdictsTrue ==
    \A s \in Slot : \A i \in DOMAIN rows[s] :
        LET c == rows[s][i] IN
        \/ c.id \in excused \/ (Working /\ job.of.id = c.id)
        \/ c.status = "resolved" <=> c.id \in treated

\* A cluster that waits to be cleaned stays stored until it is, through restarts and
\* scans of any range; only a refresh of its own range drops it.
PendingKept ==
    [][\A s \in Slot : \A i \in DOMAIN rows[s] :
        rows[s][i].status = "pending" /\ rows[s][i].id \notin Ids(rows'[s])
            => screen = "overview" /\ slot = s /\ screen' = "refreshing"]_vars

\* However often and in whatever ranges the user scans and cleans, with clusters
\* stored before other deletions and edits between two scans, of entries that were
\* alike one is left.  The exceptions are of these entries: the user marked the one
\* proposed to be kept, one was deleted elsewhere, or one was edited while a cluster
\* with some of them waited, so that another cluster may propose another to be kept.
LastCopyStays ==
    \A G \in Groups : G \cap (ledger \cup chosen \cup touched) # {}

\* Back on the entries screen, no row shows an entry the scan deleted, unless a
\* deletion was cut short.  The worker reloads the entries only if each screen passes
\* on that something changed.
TableReloaded == screen = "entries" => "whole" \notin unseen

\* The list closes by itself, with the message that all clusters are cleaned, only
\* when they are; one that a failed refresh left on the screen is not in the table.
DoneIsDone ==
    [][screen = "cleaning" /\ screen' = "entries" =>
        \A i \in DOMAIN list :
            \/ list[i].status = "resolved"
            \/ list[i].id \in treated' \cup excused'
            \/ list[i].id \notin Ids(rows[slot])]_vars
===============================================================================
