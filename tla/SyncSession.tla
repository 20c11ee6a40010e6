----------------------------- MODULE SyncSession -----------------------------
(***************************************************************************)
(* Sessions of the program with the Perforce backend: p4_sync.py behind    *)
(* sync.py, the check at start and the two flushes at exit in app.py, and  *)
(* init_shared_schema in data.py.                                          *)
(*                                                                         *)
(* Local data is one sqlite file and the attached files.  Changes are      *)
(* written at once and queued in a journal in memory; when the program     *)
(* quits, a thread submits database and files as one changelist whose      *)
(* description names the queued changes.  Workers that wait for the server *)
(* go on making changes while that thread runs.  At start the program      *)
(* submits what an earlier run left and refuses to run on a database that  *)
(* is older than the depot's.                                              *)
(*                                                                         *)
(* A database is the set of changes made to it.  The depot, and p4 in the  *)
(* workspace, are external: a file that is open in some changelist is not  *)
(* opened again by reconcile, a submit is refused as a whole when the      *)
(* database it started from is not the newest, and sync leaves a modified  *)
(* or open database alone.  Every path is inside the workspace.            *)
(***************************************************************************)
EXTENDS FiniteSets

CONSTANTS
    Edit,     \* changes of the database alone: memo, hashtags, history
    File,     \* files that may be attached
    Quiet,    \* writes of the database that nobody queues: the mirror of the
              \* ledger, verdicts on duplicates, the import log
    Foreign,  \* changes other machines submit
    Db,       \* the path of the database
    May       \* circumstances this instance allows

Circumstance == {
    "crash",   \* the process is killed
    "fail",    \* a p4 command fails or runs into its timeout
    "other" }  \* another machine submits its database

ASSUME SessionAssumption == Db \notin File /\ May \subseteq Circumstance

Change == [op : {"edit"}, of : Edit] \cup [op : {"attach", "detach"}, of : File]
Data   == Change \cup [op : {"quiet"}, of : Quiet] \cup [op : {"foreign"}, of : Foreign]
PathId == {Db} \cup File

VARIABLES
    rows,     \* the database on disk
    disk,     \* the attached files on disk
    base,     \* the revision of the database the workspace has
    have,     \* the attached files the workspace has from the depot
    depot,    \* the newest revision of the database
    stored,   \* the attached files in the depot
    told,     \* changes named in the descriptions of submitted changelists
    stuck,    \* paths open in changelists whose submit did not succeed
    phase,    \* of the process
    mutated,  \* _SESSION_MUTATED
    journal,  \* _CHANGE_JOURNAL
    work,     \* a change of the event loop between its steps
    flush,    \* the call of flush_on_exit in progress
    seen,     \* history: the revision the check at start compared with
    hit       \* history: what has gone wrong so far

local    == <<rows, disk>>
space    == <<base, have, stuck>>
server   == <<depot, stored, told>>
session  == <<mutated, journal, work>>
history  == <<seen, hit>>
vars     == <<local, space, server, session, history, phase, flush>>

Step == [step : {"file", "row"}, change : Change]
Call == [step : {"none", "enter", "taken", "cleared", "opened"},
         names : SUBSET Change, open : SUBSET PathId]

Idle    == [step |-> "idle"]
NoFlush == [step |-> "none", names |-> {}, open |-> {}]
Entered == [step |-> "enter", names |-> {}, open |-> {}]

\* refused: a submit was not acceptable; late: a change was made while a flush
\* ran; dropped: one was queued between the flush's snapshot and its clear.
Mishap == (Circumstance \ {"other"}) \cup {"refused", "late", "dropped"}

\* Workers' answers also arrive while the shutdown modal is up.
Active == phase \in {"running", "quitting", "flushed"}

TypeOK ==
    /\ rows \in SUBSET Data /\ base \in SUBSET Data /\ depot \in SUBSET Data
    /\ disk \in SUBSET File /\ have \in SUBSET File /\ stored \in SUBSET File
    /\ told \in SUBSET Change /\ journal \in SUBSET Change /\ seen \in SUBSET Data
    /\ stuck \in SUBSET PathId
    /\ phase \in {"off", "check", "catchup", "compare", "outdated", "mount",
                  "running", "quitting", "flushed", "leaving"}
    /\ mutated \in BOOLEAN
    /\ work \in {Idle} \cup Step
    /\ flush \in Call
    /\ hit \in SUBSET Mishap
    /\ flush.step = "none" <=> phase \notin {"catchup", "quitting", "leaving"}
    /\ work # Idle => Active

Init ==
    /\ rows = {} /\ disk = {} /\ base = {} /\ have = {}
    /\ depot = {} /\ stored = {} /\ told = {} /\ stuck = {}
    /\ phase = "off" /\ mutated = FALSE /\ journal = {}
    /\ work = Idle /\ flush = NoFlush
    /\ seen = {} /\ hit = {}

\* The files a database has rows for.
FilesOf(db) ==
    {f \in File : /\ [op |-> "attach", of |-> f] \in db
                  /\ [op |-> "detach", of |-> f] \notin db}

-------------------------------------------------------------------------------
(* Start: _StartupCheckScreen, then the entries screen *)

Launch ==
    /\ phase = "off"
    /\ phase' = "check"
    /\ mutated' = FALSE /\ journal' = {}
    /\ UNCHANGED <<local, space, server, history, work, flush>>

\* `p4 reconcile -n' lists no file that is open.
DbPending == rows # base /\ Db \notin stuck

\* Wrong variant: the flush is not told that there is something to submit.
startup_has_pending_unmarked ==
    /\ phase = "check"
    /\ IF DbPending
       THEN phase' = "catchup" /\ flush' = Entered
       ELSE phase' = "compare" /\ UNCHANGED flush
    /\ UNCHANGED <<local, space, server, history, session>>

startup_has_pending ==
    /\ phase = "check"
    /\ IF DbPending
       THEN phase' = "catchup" /\ mutated' = TRUE /\ flush' = Entered
       ELSE phase' = "compare" /\ UNCHANGED <<mutated, flush>>
    /\ UNCHANGED <<local, space, server, history, journal, work>>

\* Wrong variant: the comparison's answer is not used.
startup_is_outdated_ignored ==
    /\ phase = "compare"
    /\ phase' = "mount"
    /\ seen' = depot
    /\ UNCHANGED <<local, space, server, session, flush, hit>>

startup_is_outdated ==
    /\ phase = "compare"
    /\ phase' = IF base # depot THEN "outdated" ELSE "mount"
    /\ seen' = depot
    /\ UNCHANGED <<local, space, server, session, flush, hit>>

\* A check that fails answers "no".
CheckFails ==
    /\ "fail" \in May
    /\ phase \in {"check", "compare"}
    /\ phase' = IF phase = "check" THEN "compare" ELSE "mount"
    /\ hit' = hit \cup {"fail"}
    /\ UNCHANGED <<local, space, server, session, flush, seen>>

\* The close button of an outdated database: exit() and, in on_unmount, a flush.
CloseOutdated ==
    /\ phase = "outdated"
    /\ phase' = "leaving"
    /\ flush' = Entered
    /\ UNCHANGED <<local, space, server, session, history>>

CanSync == base # depot /\ rows = base /\ Db \notin stuck

Sync ==
    IF CanSync THEN base' = depot /\ rows' = depot
    ELSE UNCHANGED <<base, rows>>

\* sync_db_from_p4 before init_schema; the attached files are not synchronised.
init_shared_schema ==
    /\ phase = "mount"
    /\ phase' = "running"
    /\ Sync
    /\ UNCHANGED <<disk, have, stuck, server, session, history, flush>>

SyncFails ==
    /\ "fail" \in May
    /\ phase = "mount"
    /\ phase' = "running"
    /\ hit' = hit \cup {"fail"}
    /\ UNCHANGED <<local, space, server, session, flush, seen>>

-------------------------------------------------------------------------------
(* Changes: steps of the event loop, which no other handler interrupts *)

MarkLate == hit' = IF flush = NoFlush THEN hit ELSE hit \cup {"late"}

\* add_attachment copies first, remove and purge unlink first.
TouchFile(c) ==
    /\ Active /\ work = Idle
    /\ c \notin rows
    /\ \/ c.op = "attach" /\ disk' = disk \cup {c.of}
       \/ c.op = "detach" /\ c.of \in FilesOf(rows) /\ disk' = disk \ {c.of}
    /\ work' = [step |-> "file", change |-> c]
    /\ UNCHANGED <<rows, space, server, history, phase, mutated, journal, flush>>

\* The transaction.
CommitRow(c) ==
    /\ Active
    /\ \/ c.op = "edit" /\ work = Idle /\ c \notin rows
       \/ work = [step |-> "file", change |-> c]
    /\ rows' = rows \cup {c}
    /\ work' = [step |-> "row", change |-> c]
    /\ MarkLate
    /\ UNCHANGED <<disk, space, server, phase, mutated, journal, flush, seen>>

\* Wrong variant: the last change replaces the others.
enqueue_db_change_last ==
    /\ Active /\ work.step = "row"
    /\ journal' = {work.change}
    /\ mutated' = TRUE
    /\ work' = Idle
    /\ MarkLate
    /\ UNCHANGED <<local, space, server, phase, flush, seen>>

enqueue_db_change ==
    /\ Active /\ work.step = "row"
    /\ journal' = journal \cup {work.change}
    /\ mutated' = TRUE
    /\ work' = Idle
    /\ MarkLate
    /\ UNCHANGED <<local, space, server, phase, flush, seen>>

\* A refresh that upserts the mirror, or a scan that keeps its verdicts.
QuietWrite(q) ==
    /\ Active /\ work = Idle
    /\ [op |-> "quiet", of |-> q] \notin rows
    /\ rows' = rows \cup {[op |-> "quiet", of |-> q]}
    /\ UNCHANGED <<disk, space, server, session, history, phase, flush>>

-------------------------------------------------------------------------------
(* Exit *)

\* q: the modal, and the flush in a thread.
action_graceful_quit ==
    /\ phase = "running" /\ work = Idle
    /\ phase' = "quitting"
    /\ flush' = Entered
    /\ UNCHANGED <<local, space, server, session, history>>

\* ctrl+c: no modal.
action_quit ==
    /\ phase = "running" /\ work = Idle
    /\ phase' = "leaving"
    /\ flush' = Entered
    /\ UNCHANGED <<local, space, server, session, history>>

\* Wrong variant: the exit does not flush again.
on_unmount_bare ==
    /\ phase = "flushed" /\ work = Idle
    /\ phase' = "off"
    /\ UNCHANGED <<local, space, server, session, history, flush>>

\* After the thread has ended: exit(), and the flush of on_unmount.
on_unmount ==
    /\ phase = "flushed" /\ work = Idle
    /\ phase' = "leaving"
    /\ flush' = Entered
    /\ UNCHANGED <<local, space, server, session, history>>

-------------------------------------------------------------------------------
(* flush_on_exit, in the thread of the executor or in on_unmount *)

\* Who called goes on.
Return ==
    /\ flush' = NoFlush
    /\ phase' = CASE phase = "catchup"  -> "compare"
                  [] phase = "quitting" -> "flushed"
                  [] phase = "leaving"  -> "off"

\* Wrong variant: a flush that has nothing to do does not return.
get_journal_snapshot_wait ==
    /\ flush.step = "enter"
    /\ mutated
    /\ flush' = [step |-> "taken", names |-> journal, open |-> {}]
    /\ UNCHANGED <<local, space, server, session, history, phase>>

get_journal_snapshot ==
    /\ flush.step = "enter"
    /\ IF mutated
       THEN flush' = [step |-> "taken", names |-> journal, open |-> {}] /\ UNCHANGED phase
       ELSE Return
    /\ UNCHANGED <<local, space, server, session, history>>

\* A second section of the lock: what was queued since the snapshot goes as well.
clear_journal ==
    /\ flush.step = "taken"
    /\ journal' = {}
    /\ flush' = [flush EXCEPT !.step = "cleared"]
    /\ hit' = IF journal \subseteq flush.names THEN hit ELSE hit \cup {"dropped"}
    /\ UNCHANGED <<local, space, server, phase, mutated, work, seen>>

\* Wrong variant: the database alone.
Paths_db == {Db}

\* The queued paths and the database.
Paths == {Db} \cup {c.of : c \in {n \in flush.names : n.op # "edit"}}

Differs(p) == IF p = Db THEN rows # base ELSE (p \in disk) # (p \in have)

\* Reconcile opens the paths that differ from what the workspace has.
Reconcile(mapped) ==
    LET opened == {p \in mapped \ stuck : Differs(p)} IN
    IF opened = {} THEN Return
    ELSE flush' = [flush EXCEPT !.step = "opened", !.open = opened] /\ UNCHANGED phase

_do_submit_multi ==
    /\ flush.step = "cleared"
    /\ Reconcile(Paths)
    /\ UNCHANGED <<local, space, server, session, history>>

\* A path whose `where' is not answered counts as unmapped; none is opened when
\* `where' runs into its timeout, or `change -i' or `reconcile' fails.
PrepareFails ==
    /\ "fail" \in May
    /\ flush.step = "cleared"
    /\ \E mapped \in SUBSET Paths : mapped # Paths /\ Reconcile(mapped)
    /\ hit' = hit \cup {"fail"}
    /\ UNCHANGED <<local, space, server, session, seen>>

Acceptable ==
    /\ Db \in flush.open => base = depot
    /\ \A f \in flush.open \ {Db} : Differs(f)

\* The server reads the files when they are submitted.
SubmitDone ==
    /\ flush.step = "opened"
    /\ Acceptable
    /\ IF Db \in flush.open THEN depot' = rows /\ base' = rows
       ELSE UNCHANGED <<depot, base>>
    /\ stored' = (stored \ flush.open) \cup (flush.open \cap disk)
    /\ have' = (have \ flush.open) \cup (flush.open \cap disk)
    /\ told' = told \cup flush.names
    /\ Return
    /\ UNCHANGED <<local, stuck, session, history>>

\* Refused, or failed: "error", and the files stay open in their changelist.
SubmitError ==
    /\ flush.step = "opened"
    /\ \/ ~ Acceptable /\ hit' = hit \cup {"refused"}
       \/ "fail" \in May /\ hit' = hit \cup {"fail"}
    /\ stuck' = stuck \cup flush.open
    /\ Return
    /\ UNCHANGED <<local, base, have, server, session, seen>>

-------------------------------------------------------------------------------
(* What is not up to the program *)

Crash ==
    /\ "crash" \in May
    /\ phase # "off"
    /\ phase' = "off"
    /\ mutated' = FALSE /\ journal' = {} /\ work' = Idle
    /\ flush' = NoFlush
    /\ stuck' = stuck \cup flush.open
    /\ hit' = hit \cup {"crash"}
    /\ UNCHANGED <<local, base, have, server, seen>>

OtherSubmits(o) ==
    /\ "other" \in May
    /\ [op |-> "foreign", of |-> o] \notin depot
    /\ depot' = depot \cup {[op |-> "foreign", of |-> o]}
    /\ UNCHANGED <<local, space, stored, told, session, history, phase, flush>>

\* `p4 sync' in a terminal, as the message of the outdated screen says.
UserSyncs ==
    /\ phase = "off"
    /\ CanSync
    /\ Sync
    /\ UNCHANGED <<disk, have, stuck, server, session, history, phase, flush>>

-------------------------------------------------------------------------------
Startup == Launch \/ startup_has_pending \/ startup_is_outdated \/ CheckFails
           \/ CloseOutdated \/ init_shared_schema \/ SyncFails

ChangeSteps == \/ \E c \in Change : TouchFile(c) \/ CommitRow(c)
               \/ enqueue_db_change
               \/ \E q \in Quiet : QuietWrite(q)

Flush == get_journal_snapshot \/ clear_journal \/ _do_submit_multi \/ PrepareFails
         \/ SubmitDone \/ SubmitError

Next ==
    \/ Startup
    \/ ChangeSteps
    \/ action_graceful_quit \/ action_quit \/ on_unmount
    \/ Flush
    \/ Crash \/ UserSyncs
    \/ \E o \in Foreign : OtherSubmits(o)

Spec == Init /\ [][Next]_vars

\* Every p4 command ends by its timeout, and the event loop finishes a change it
\* has begun and the exit it was asked for.
Fairness ==
    /\ WF_vars(Flush)
    /\ WF_vars(on_unmount)
    /\ WF_vars(enqueue_db_change)
    /\ WF_vars(\E c \in Change : work # Idle /\ CommitRow(c))

FairSpec == Spec /\ Fairness

-------------------------------------------------------------------------------
(* Properties *)

\* A description names no change that is not in the depot's database, unless a p4
\* command failed or the database is stuck in a changelist: names are queued after
\* their change is written and taken before the database is read.
DescribedIsThere == "fail" \notin hit /\ Db \notin stuck => told \subseteq depot

AtRest(excused) == phase = "off" /\ hit \subseteq excused

\* docs/scenarios/09: the exit submits every change that was queued, also those
\* that workers make while the flush runs and those the journal loses.
QuitSubmits == AtRest({"late", "dropped"}) => {c \in rows : c.op # "quiet"} \subseteq depot

\* flush_on_exit: the descriptions name every change.  One made while a flush runs
\* may be submitted before it is queued, and the changelist that names it is then
\* empty and deleted.
ChangesNamed == AtRest({}) => rows \cap Change \subseteq told

\* p4_sync.py: database and attached files are submitted together.  When the
\* program is not running the depot has exactly the files its database has rows
\* for: what the first flush of an exit misses the second one submits.
BundleComplete == AtRest({"late"}) => stored = FilesOf(depot)

\* _StartupCheckScreen: the program does not run on a database that lacks what
\* the depot had when it was compared.
RunsOnNewest == Active /\ "fail" \notin hit => seen \subseteq rows

\* What a killed run wrote, and what a run wrote without queueing it, reaches the
\* depot before the next one starts to work, unless the check failed or a
\* changelist is stuck.
StartCatchesUp == phase = "mount" /\ "fail" \notin hit /\ stuck = {} => rows \subseteq depot

\* The shutdown modal, which cannot be cancelled, goes away.
QuitEnds == phase = "quitting" ~> phase = "off"

===============================================================================
