---------------------------- MODULE EntryHistory ----------------------------
(***************************************************************************)
(* How the entries screen (tui/src/whooing_tui/screens/entries.py) changes *)
(* an entry: a worker calls the Whooing server, awaits the answer, and     *)
(* only then records the change in the local history and local tables and  *)
(* starts a refresh.  The server's ledger and the local database are two   *)
(* stores with no transaction across them.                                 *)
(*                                                                         *)
(* One section, one process, and a date window that shows every entry.     *)
(* `May' lists the circumstances an instance allows beyond a user who      *)
(* waits for each change to settle; see Circumstance.                      *)
(***************************************************************************)
EXTENDS LocalMeta, SequencesExt

CONSTANTS
    NoEntry,       \* the value of an id without an entry
    Preexisting,   \* entries that are in the ledger before the program runs
    May,           \* circumstances this instance allows
    MaxChanges     \* bound: changes started by the user or from outside

Circumstance == {
    "overlap",   \* the user acts while a change is in flight
    "stale",     \* the user acts on rows that a running refresh will replace
    "external",  \* another client edits or deletes entries
    "lost",      \* the server applies a change, or sends rows, and the answer is lost
    "crash",     \* the process dies and is started again
    "disk",      \* a local transaction fails; every caller swallows the error
    "dedup" }    \* entries are deleted by the duplicates screen

ASSUME EntryHistoryAssumption ==
    /\ NoEntry \notin Value
    /\ Preexisting \subseteq EntryId
    /\ May \subseteq Circumstance
    /\ MaxChanges \in Nat

VARIABLES
    ledger,      \* the server: id -> value, or NoEntry
    issued,      \* ids the server has given out; it never gives one twice
    history,     \* entry_revisions and entry_head
    meta,        \* entry_annotations, entry_hashtags, entry_attachments
    cached,      \* entries_cache: id -> value, or NoEntry
    view,        \* the rows the table shows (self._entries)
    refresh,     \* the worker of group "entries"
    window,      \* the answer CachedWhooingClient keeps for the date window
    reconciled,  \* self._external_reconciled
    task,        \* the worker of group "mutate"
    dedup,       \* an entry the duplicates screen deleted and has yet to purge
    dialog,      \* the screen on top of the table
    changes      \* counts up to MaxChanges

vars == <<ledger, issued, history, meta, cached, view, refresh, window, reconciled,
          task, dedup, dialog, changes>>

Rows   == [EntryId -> Value \cup {NoEntry}]
NoRows == [e \in EntryId |-> NoEntry]

Refresh   == [stage : {"none", "sent", "answered"}, rows : Rows]
NoRefresh == [stage |-> "none", rows |-> NoRows]
SentRefresh == [stage |-> "sent", rows |-> NoRows]

\* Answers are stored on disk (cache.py) and outlive the process.
Window   == [stored : BOOLEAN, rows : Rows]
NoWindow == [stored |-> FALSE, rows |-> NoRows]

\* What a worker knows across its await.  lid: the logical entry of a restore
\* or a revert; old: the last server id of a restored entry; prev: the row the
\* edit started from.
Task == [kind  : {"create", "edit", "delete", "restore", "revert"},
         stage : {"sent", "applied"},
         eid   : EntryId \cup {NoId},
         lid   : EntryId \cup {NoId},
         old   : EntryId \cup {NoId},
         prev  : Value \cup {NoEntry},
         val   : Value,
         tags  : SUBSET Tag]
NoTask == [kind |-> "none"]

\* row: the edit form, the confirmation of a delete or the attachment browser of
\* one row, with a copy of the row; history: the revisions of one logical entry;
\* trash: the logical entries it lists; purge: the confirmation for one of them.
Dialog == [kind : {"none", "row", "history", "trash", "purge"},
           ids  : SUBSET EntryId,
           row  : Value \cup {NoEntry}]
Showing(kind, ids, row) == [kind |-> kind, ids |-> ids, row |-> row]
NoDialog == Showing("none", {}, NoEntry)

TypeOK ==
    /\ ledger \in Rows
    /\ issued \subseteq EntryId
    /\ history \in History
    /\ meta \in Meta
    /\ cached \in Rows
    /\ view \in Rows
    /\ refresh \in Refresh
    /\ window \in Window
    /\ reconciled \in BOOLEAN
    /\ task \in Task \cup {NoTask}
    /\ dedup \in EntryId \cup {NoId}
    /\ dialog \in Dialog
    /\ changes \in 0..MaxChanges

Init ==
    /\ \E f \in [Preexisting -> Value] :
          ledger = [e \in EntryId |-> IF e \in Preexisting THEN f[e] ELSE NoEntry]
    /\ issued = Preexisting
    /\ history = EmptyHistory
    /\ meta = EmptyMeta
    /\ cached = NoRows
    /\ view = NoRows
    /\ refresh = SentRefresh
    /\ window = NoWindow
    /\ reconciled = FALSE
    /\ task = NoTask
    /\ dedup = NoId
    /\ dialog = NoDialog
    /\ changes = 0

local  == <<history, meta, cached>>
server == <<ledger, issued>>
screen == <<view, reconciled>>

-------------------------------------------------------------------------------
(* The user starts a change *)

Calm ==
    /\ task # NoTask => "overlap" \in May
    /\ refresh.stage # "none" => "stale" \in May

UserMayAct ==
    /\ dialog = NoDialog
    /\ dedup = NoId
    /\ Calm

CountChange ==
    /\ changes < MaxChanges
    /\ changes' = changes + 1

\* Starting a worker of an exclusive group cancels the one that is running: it
\* ends at its await, whether or not the server has applied its request.
StartTask(t) ==
    /\ CountChange
    /\ task' = t
    /\ UNCHANGED <<server, local, screen, refresh, window, dedup>>

Sent(kind, eid, lid, old, prev, val, tags) ==
    [kind |-> kind, stage |-> "sent", eid |-> eid, lid |-> lid, old |-> old,
     prev |-> prev, val |-> val, tags |-> tags]

SubmitCreate(v, tags) ==
    /\ UserMayAct
    /\ StartTask(Sent("create", NoId, NoId, NoId, NoEntry, v, tags))
    /\ UNCHANGED dialog

\* The screens about a row keep the row as it is now, whatever refreshes the
\* table before the user confirms.
OpenRow(e) ==
    /\ UserMayAct
    /\ changes < MaxChanges
    /\ view[e] # NoEntry
    /\ dialog' = Showing("row", {e}, view[e])
    /\ UNCHANGED <<server, local, screen, refresh, window, task, dedup, changes>>

OnRow(e) == dialog.kind = "row" /\ e \in dialog.ids

SubmitUpdate(e, v, tags) ==
    /\ OnRow(e)
    /\ StartTask(Sent("edit", e, NoId, NoId, dialog.row, v, tags))
    /\ dialog' = NoDialog

SubmitDelete(e) ==
    /\ OnRow(e)
    /\ StartTask(Sent("delete", e, NoId, NoId, NoEntry, dialog.row, {}))
    /\ dialog' = NoDialog

\* A local change only; the attachment browser stays open.
AttachFile(e, f) ==
    /\ OnRow(e)
    /\ f \notin meta.files[e]
    /\ CountChange
    /\ meta' = attach(meta, e, f)
    /\ UNCHANGED <<server, history, cached, screen, refresh, window, task, dedup, dialog>>

OpenHistory(e) ==
    /\ UserMayAct
    /\ changes < MaxChanges
    /\ view[e] # NoEntry
    /\ logical_id_for_entry(history, e) # NoId
    /\ dialog' = Showing("history", {logical_id_for_entry(history, e)}, NoEntry)
    /\ UNCHANGED <<server, local, screen, refresh, window, task, dedup, changes>>

\* Creating the entry again with the values of revision n.
Recreate(l, n) ==
    Sent("restore", NoId, l, last_whooing_id(history, l), NoEntry,
         history.revs[l][n].snapshot, {})

\* A logical entry in the trash is created again, a live one is updated in place.
RevertTo(l, n) ==
    LET cur == history.head[l].current_entry_id
    IN  /\ dialog.kind = "history"
        /\ l \in dialog.ids
        /\ StartTask(IF history.head[l].is_deleted \/ cur = NoId
                     THEN Recreate(l, n)
                     ELSE Sent("revert", cur, l, NoId, NoEntry,
                               history.revs[l][n].snapshot, {}))
        /\ dialog' = NoDialog

-------------------------------------------------------------------------------
(* The trash: its list is read when the screen opens *)

OpenTrash ==
    /\ UserMayAct
    /\ list_deleted(history) # {}
    /\ dialog' = Showing("trash", list_deleted(history), NoEntry)
    /\ UNCHANGED <<server, local, screen, refresh, window, task, dedup, changes>>

CloseDialog ==
    /\ dialog # NoDialog
    /\ dialog' = NoDialog
    /\ UNCHANGED <<server, local, screen, refresh, window, task, dedup, changes>>

RestoreLogical(l) ==
    /\ dialog.kind = "trash"
    /\ l \in dialog.ids
    /\ history.revs[l] # << >>
    /\ StartTask(Recreate(l, Len(history.revs[l])))
    /\ dialog' = NoDialog

ConfirmPurge(l) ==
    /\ dialog.kind = "trash"
    /\ l \in dialog.ids
    /\ dialog' = Showing("purge", {l}, NoEntry)
    /\ UNCHANGED <<server, local, screen, refresh, window, task, dedup, changes>>

\* Each local transaction commits or fails on its own.
Failures(transactions) == {f \in SUBSET transactions : f # {} => "disk" \in May}

PurgeLogical(l) ==
    /\ dialog.kind = "purge"
    /\ l \in dialog.ids
    /\ LET old == last_whooing_id(history, l)
       IN  \E failed \in Failures({"history", "meta"}) :
              /\ history' = IF "history" \in failed THEN history
                            ELSE purge_logical(history, l)
              /\ meta' = IF "meta" \in failed \/ old = NoId THEN meta
                         ELSE purge(meta, old)
    /\ dialog' = NoDialog
    /\ refresh' = SentRefresh
    /\ UNCHANGED <<server, cached, screen, window, task, dedup, changes>>

-------------------------------------------------------------------------------
(* The server *)

\* The answer reports success once the request is applied.  A delete of an id
\* that is gone is answered with success too: the official tool's error is
\* followed by a look at the day's entries (client.py, _entry_absent).
ServerApply ==
    /\ task # NoTask
    /\ task.stage = "sent"
    /\ \/ /\ task.kind \in {"create", "restore"}
          /\ \E e \in EntryId \ issued :
                /\ issued' = issued \cup {e}
                /\ ledger' = [ledger EXCEPT ![e] = task.val]
                /\ task' = [task EXCEPT !.stage = "applied", !.eid = e]
       \/ /\ task.kind \in {"edit", "revert"}
          /\ ledger[task.eid] # NoEntry
          /\ ledger' = [ledger EXCEPT ![task.eid] = task.val]
          /\ task' = [task EXCEPT !.stage = "applied"]
          /\ UNCHANGED issued
       \/ /\ task.kind = "delete"
          /\ ledger' = [ledger EXCEPT ![task.eid] = NoEntry]
          /\ task' = [task EXCEPT !.stage = "applied"]
          /\ UNCHANGED issued
    /\ UNCHANGED <<local, screen, refresh, window, dedup, dialog, changes>>

\* Any ToolError before the request took effect: the worker shows it and ends.
ServerRefuse ==
    /\ task # NoTask
    /\ task.stage = "sent"
    /\ task' = NoTask
    /\ UNCHANGED <<server, local, screen, refresh, window, dedup, dialog, changes>>

\* A time-out or an error after the request took effect ends the worker too.
AnswerLost ==
    /\ "lost" \in May
    /\ task # NoTask
    /\ task.stage = "applied"
    /\ task' = NoTask
    /\ UNCHANGED <<server, local, screen, refresh, window, dedup, dialog, changes>>

\* _extract_entry_id finds no id in the answer of a create.  The client's cache
\* knows of the change: it drops its window with every answer of success.
AnswerWithoutId ==
    /\ "lost" \in May
    /\ task # NoTask
    /\ task.stage = "applied"
    /\ task.kind \in {"create", "restore"}
    /\ task' = NoTask
    /\ window' = NoWindow
    /\ refresh' = SentRefresh
    /\ UNCHANGED <<server, local, screen, dedup, dialog, changes>>

-------------------------------------------------------------------------------
(* The worker resumes: no await between here and the start of the refresh *)

\* Wrong variant: the client keeps the window of before the change.
Resumes_keeps_window(kind) ==
    /\ task # NoTask
    /\ task.kind = kind
    /\ task.stage = "applied"
    /\ task' = NoTask
    /\ refresh' = SentRefresh
    /\ UNCHANGED <<server, screen, window, dedup, dialog, changes>>

Resumes(kind) ==
    /\ task # NoTask
    /\ task.kind = kind
    /\ task.stage = "applied"
    /\ task' = NoTask
    /\ window' = NoWindow
    /\ refresh' = SentRefresh
    /\ UNCHANGED <<server, screen, dedup, dialog, changes>>

RecordCreate ==
    /\ Resumes("create")
    /\ \E failed \in Failures({"meta", "history"}) :
          /\ meta' = IF "meta" \in failed \/ (task.val \notin WithMemo /\ task.tags = {})
                     THEN meta
                     ELSE persist(meta, task.eid, task.val, task.tags)
          /\ history' = IF "history" \in failed THEN history
                        ELSE ensure_baseline(history, task.eid, task.val)
    /\ UNCHANGED cached

\* Wrong variants: the old values are recorded as the new ones; no baseline.
record_edit_old_values(h, e, prev, v) ==
    record_revision(ensure_baseline(h, e, prev), OwnerOf(h, e), e, "edit", prev, FALSE)

record_edit_no_baseline(h, e, prev, v) ==
    record_revision(h, OwnerOf(h, e), e, "edit", v, FALSE)

record_edit(h, e, prev, v) ==
    record_revision(ensure_baseline(h, e, prev), OwnerOf(h, e), e, "edit", v, FALSE)

RecordEdit ==
    /\ Resumes("edit")
    /\ \E failed \in Failures({"meta", "history"}) :
          /\ meta' = IF "meta" \in failed THEN meta
                     ELSE persist(meta, task.eid, task.val, task.tags)
          /\ IF "history" \in failed THEN UNCHANGED <<history, cached>>
             ELSE /\ history' = record_edit(history, task.eid, task.prev, task.val)
                  /\ cached' = [cached EXCEPT ![task.eid] = task.val]

\* Wrong variants: no baseline; the deletion is not marked.
record_delete_no_baseline(h, e, v) ==
    record_revision(h, OwnerOf(h, e), NoId, "delete", v, TRUE)

record_delete_unmarked(h, e, v) ==
    record_revision(ensure_baseline(h, e, v), OwnerOf(h, e), e, "delete", v, FALSE)

record_delete(h, e, v) ==
    record_revision(ensure_baseline(h, e, v), OwnerOf(h, e), NoId, "delete", v, TRUE)

\* Wrong variant: the row stays in entries_cache.
RecordDelete_keeps_row ==
    /\ Resumes("delete")
    /\ history' = record_delete(history, task.eid, task.val)
    /\ UNCHANGED <<meta, cached>>

RecordDelete ==
    /\ Resumes("delete")
    /\ \E failed \in Failures({"history"}) :
          IF "history" \in failed THEN UNCHANGED <<history, cached>>
          ELSE /\ history' = record_delete(history, task.eid, task.val)
               /\ cached' = [cached EXCEPT ![task.eid] = NoEntry]
    /\ UNCHANGED meta

RecordRestore ==
    /\ Resumes("restore")
    /\ \E failed \in Failures({"history", "meta"}) :
          /\ IF "history" \in failed THEN UNCHANGED <<history, cached>>
             ELSE /\ history' = record_revision(history, task.lid, task.eid,
                                                "restore", task.val, FALSE)
                  /\ cached' = [cached EXCEPT ![task.eid] = task.val]
          /\ meta' = IF "meta" \in failed THEN meta
                     ELSE migrate_local(meta, task.old, task.eid)

RecordRevert ==
    /\ Resumes("revert")
    /\ \E failed \in Failures({"history"}) :
          IF "history" \in failed THEN UNCHANGED <<history, cached>>
          ELSE /\ history' = record_revision(history, task.lid, task.eid,
                                             "revert", task.val, FALSE)
               /\ cached' = [cached EXCEPT ![task.eid] = task.val]
    /\ UNCHANGED meta

-------------------------------------------------------------------------------
(* Refreshing the rows *)

\* Starting a refresh cancels the one that is running.  The key drops the
\* client's window first.
RefreshKey ==
    /\ dialog = NoDialog
    /\ dedup = NoId
    /\ CountChange
    /\ window' = NoWindow
    /\ refresh' = SentRefresh
    /\ UNCHANGED <<server, local, screen, task, dedup, dialog>>

\* Rows are added to entries_cache and never taken out; the history takes in
\* outside changes at the first refresh of the screen only.
Show(rows) ==
    /\ refresh' = NoRefresh
    /\ view' = rows
    /\ reconciled' = TRUE
    /\ \E failed \in Failures({"cache", "history"}) :
          /\ cached' = IF "cache" \in failed THEN cached
                       ELSE [e \in EntryId |-> IF rows[e] # NoEntry THEN rows[e]
                                               ELSE cached[e]]
          /\ history' = IF reconciled \/ "history" \in failed THEN history
                        ELSE reconcile_external(history, rows, NoEntry)
    /\ UNCHANGED <<server, meta, task, dedup, dialog, changes>>

\* A stored window is shown at once, without a call.
RefreshFromCache ==
    /\ refresh.stage = "sent"
    /\ window.stored
    /\ Show(window.rows)
    /\ UNCHANGED window

\* The server is asked when nothing is stored or what is stored is older than
\* five minutes, which can be at any time.
RefreshAnswer ==
    /\ refresh.stage = "sent"
    /\ refresh' = [stage |-> "answered", rows |-> ledger]
    /\ window' = NoWindow
    /\ UNCHANGED <<server, local, screen, task, dedup, dialog, changes>>

\* The client stores the answer, then the screen shows it.
RefreshApply ==
    /\ refresh.stage = "answered"
    /\ window' = [stored |-> TRUE, rows |-> refresh.rows]
    /\ Show(refresh.rows)

RefreshFails ==
    /\ "lost" \in May
    /\ refresh.stage = "sent"
    /\ refresh' = NoRefresh
    /\ UNCHANGED <<server, local, screen, window, task, dedup, dialog, changes>>

-------------------------------------------------------------------------------
(* Other ways an entry changes *)

ExternalEdit(e, v) ==
    /\ "external" \in May
    /\ ledger[e] \notin {NoEntry, v}
    /\ CountChange
    /\ ledger' = [ledger EXCEPT ![e] = v]
    /\ UNCHANGED <<issued, local, screen, refresh, window, task, dedup, dialog>>

ExternalDelete(e) ==
    /\ "external" \in May
    /\ ledger[e] # NoEntry
    /\ CountChange
    /\ ledger' = [ledger EXCEPT ![e] = NoEntry]
    /\ UNCHANGED <<issued, local, screen, refresh, window, task, dedup, dialog>>

\* The duplicates screen deletes on the server, then purges the local data of
\* the entry; it writes no history and leaves entries_cache alone.
DedupDelete(e) ==
    /\ "dedup" \in May
    /\ UserMayAct
    /\ view[e] # NoEntry
    /\ CountChange
    /\ ledger' = [ledger EXCEPT ![e] = NoEntry]
    /\ dedup' = e
    /\ UNCHANGED <<issued, local, screen, refresh, window, task, dialog>>

DedupPurge ==
    /\ dedup # NoId
    /\ dedup' = NoId
    /\ \E failed \in Failures({"meta"}) :
          meta' = IF "meta" \in failed THEN meta ELSE purge(meta, dedup)
    /\ window' = NoWindow
    /\ refresh' = SentRefresh
    /\ UNCHANGED <<server, history, cached, screen, task, dialog, changes>>

\* The database, the client's cache and the ledger survive; the screen starts
\* afresh.
Crash ==
    /\ "crash" \in May
    /\ task' = NoTask
    /\ dedup' = NoId
    /\ dialog' = NoDialog
    /\ view' = NoRows
    /\ refresh' = SentRefresh
    /\ reconciled' = FALSE
    /\ UNCHANGED <<server, local, window, changes>>

-------------------------------------------------------------------------------

UserStep ==
    \/ \E v \in Value, tags \in SUBSET Tag : SubmitCreate(v, tags)
    \/ \E e \in EntryId, v \in Value, tags \in SUBSET Tag : SubmitUpdate(e, v, tags)
    \/ \E e \in EntryId : OpenRow(e) \/ SubmitDelete(e) \/ OpenHistory(e) \/ DedupDelete(e)
    \/ \E l \in EntryId : \E n \in DOMAIN history.revs[l] : RevertTo(l, n)
    \/ \E e \in EntryId, f \in File : AttachFile(e, f)
    \/ OpenTrash
    \/ CloseDialog
    \/ \E l \in EntryId : RestoreLogical(l) \/ ConfirmPurge(l) \/ PurgeLogical(l)
    \/ RefreshKey

WorkerStep == RecordCreate \/ RecordEdit \/ RecordDelete \/ RecordRestore \/ RecordRevert

RefreshStep == RefreshFromCache \/ RefreshAnswer \/ RefreshApply

Next ==
    \/ UserStep
    \/ ServerApply
    \/ ServerRefuse
    \/ AnswerLost
    \/ AnswerWithoutId
    \/ WorkerStep
    \/ RefreshStep
    \/ RefreshFails
    \/ DedupPurge
    \/ \E e \in EntryId : ExternalDelete(e) \/ \E v \in Value : ExternalEdit(e, v)
    \/ Crash

Spec == Init /\ [][Next]_vars

\* asyncio runs a worker whose answer has arrived, and the server answers or
\* the HTTP client times out; nothing obliges the user to do anything.
Fairness ==
    /\ WF_vars(ServerApply \/ ServerRefuse)
    /\ WF_vars(WorkerStep)
    /\ WF_vars(DedupPurge)
    /\ WF_vars(RefreshFromCache \/ RefreshAnswer)
    /\ WF_vars(RefreshApply)

FairSpec == Spec /\ Fairness

-------------------------------------------------------------------------------
(* Properties of the history, whatever happens *)

\* entry_head is a derived cache (docs/scenarios/11): its row of a logical entry
\* is what the last row of the log says, and NULL stands for "in the trash".
HeadMatchesLog == \A l \in EntryId : HeadIsLastRow(history, l)

\* logical_id is the immutable anchor of an entry across edits, deletes and
\* restores: no server id ever appears in the histories of two logical entries,
\* so that logical_id_for_entry has one answer.
OneOwner ==
    \A l, k, e \in EntryId :
        Owns(history, l, e) /\ Owns(history, k, e) => l = k

\* What is in the trash can be restored under its old local data: the values it
\* had and the last id it had are still in its log.
TrashRestorable ==
    \A l \in list_deleted(history) :
        /\ Len(history.revs[l]) > 1
        /\ last_whooing_id(history, l) # NoId
        /\ last_whooing_id(history, l) \in issued

-------------------------------------------------------------------------------
(* Properties of one user, one process, and calls that do not fail half-way *)

Settled == task = NoTask /\ dedup = NoId

\* The ledger is the projection of the history: a live logical entry is on the
\* server under its current id with its last recorded value, and no other id
\* it ever had is there.
LedgerMatchesHistory ==
    Settled =>
        \A l \in Tracked(history) :
            /\ ~ history.head[l].is_deleted =>
                  ledger[history.head[l].current_entry_id]
                      = latest_revision(history, l).snapshot
            /\ \A e \in EntryId :
                  Owns(history, l, e) /\ e # history.head[l].current_entry_id
                      => ledger[e] = NoEntry

\* entries_cache holds no row that the ledger does not.
CacheMatchesLedger ==
    Settled => \A e \in EntryId : cached[e] \in {NoEntry, ledger[e]}

\* A restored entry takes its memo, hashtags and attachments along: none of
\* them stays under an id the entry no longer has.
LocalDataFollows ==
    Settled =>
        \A l \in Tracked(history), e \in EntryId :
            /\ Owns(history, l, e)
            /\ ~ history.head[l].is_deleted
            /\ e # history.head[l].current_entry_id
            => meta.note[e] = NoRow /\ meta.tags[e] = {} /\ meta.files[e] = {}

\* Rows of the log are removed only when their logical entry is in the trash.
PurgeOnlyFromTrash ==
    [][\A l \in EntryId :
          \/ history.head[l].is_deleted
          \/ IsPrefix(history.revs[l], history'.revs[l])]_vars

\* What an edit overwrites is in the history before the edit is.
EditKeepsPrevious ==
    [][\A l \in EntryId :
          LET rows == history'.revs[l] IN
          (/\ Len(rows) > Len(history.revs[l])
           /\ rows[Len(rows)].op = "edit")
          => \E n \in 1..(Len(rows) - 1) : rows[n].snapshot = task.prev]_vars

\* A delete that reached the server ends with the entry in the trash.
DeleteReachesTrash ==
    [][(task # NoTask /\ task.kind = "delete" /\ task.stage = "applied" /\ task' # task)
       => \E l \in list_deleted(history') : Owns(history', l, task.eid)]_vars

\* The server has the entry e, or had it when it answered the edit in flight.
OnServer(e) ==
    \/ ledger[e] # NoEntry
    \/ task # NoTask /\ task.kind = "edit" /\ task.stage = "applied" /\ task.eid = e

\* In the trash are entries that the server deleted and, by mistake, entries
\* that it still has under another id: a row of before a restore was deleted.
StateOf(l) ==
    IF ~ history.head[l].is_deleted THEN "live"
    ELSE IF \E e \in EntryId : Owns(history, l, e) /\ OnServer(e) THEN "mistaken"
    ELSE "trashed"

\* The log, read as the life of a logical entry.
Life(l) ==
    IF history.revs[l] = << >> THEN [state |-> "untracked", now |-> NoEntry, past |-> {}]
    ELSE [state |-> StateOf(l),
          now   |-> latest_revision(history, l).snapshot,
          past  |-> {history.revs[l][n].snapshot : n \in DOMAIN history.revs[l]}]

Lifecycle == INSTANCE EntryLifecycle
             WITH Logical <- EntryId, NoValue <- NoEntry,
                  entries <- [l \in EntryId |-> Life(l)]

\* The history implements EntryLifecycle as long as the user waits for a change
\* to settle before starting another.
LifecycleSpec == Lifecycle!Spec

\* The table shows the ledger again after whatever the user started.
ViewCatchesUp == []<>(Settled /\ view = ledger)
===============================================================================
