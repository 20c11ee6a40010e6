-------------------------- MODULE SyncSessionProofs --------------------------
(***************************************************************************)
(* Proofs about SyncSession for any changes, files and circumstances: the  *)
(* type invariant, that descriptions name what the depot has, that the     *)
(* program does not run on an old database, and that a start submits what  *)
(* an earlier run left.                                                    *)
(***************************************************************************)
EXTENDS SyncSession, TLAPS

Sound == "fail" \notin hit /\ Db \notin stuck

\* The workspace's revision is a beginning of the local database and of the
\* depot's.
BaseInv == base \subseteq rows /\ base \subseteq depot

\* Names are on disk before they are queued; when a changelist leaves the database
\* out, it is because the depot has them.
NamesInv ==
    /\ journal \subseteq rows
    /\ work.step = "row" => work.change \in rows
    /\ flush.names \subseteq rows
    /\ Sound => told \subseteq depot
    /\ flush.step = "opened" /\ Sound /\ Db \notin flush.open => flush.names \subseteq base

\* What the check at start has established, step by step.
CheckedInv ==
    /\ phase = "catchup" => mutated
    /\ flush.step = "opened" => flush.open # {}
    /\ phase = "catchup" /\ flush.step = "opened" /\ Sound /\ Db \notin flush.open =>
           rows \subseteq depot
    /\ phase \in {"compare", "mount"} /\ "fail" \notin hit /\ stuck = {} =>
           rows \subseteq depot
    /\ (phase = "mount" \/ Active) /\ "fail" \notin hit => seen \subseteq rows

SessionInv == TypeOK /\ BaseInv /\ NamesInv /\ CheckedInv

-------------------------------------------------------------------------------
(* What holds while no command has failed and nothing was killed           *)

Unharmed == hit \subseteq {"late", "dropped"}
Steady   == hit \subseteq {"late"}

\* What was written besides the quiet writes.
Queueable == {c \in rows : c.op # "quiet"}

\* A changed file is named by what is queued, taken or in progress, or it is open.
Named(f) ==
    \/ \E c \in journal : c.op # "edit" /\ c.of = f
    \/ flush.step \in {"taken", "cleared"} /\ \E c \in flush.names : c.op # "edit" /\ c.of = f
    \/ flush.step = "opened" /\ f \in flush.open
    \/ work # Idle /\ work.change.op # "edit" /\ work.change.of = f

\* Where changes are: attached files are stored as the workspace has them, only the
\* database of another machine is news, and an unmarked session has queued nothing.
PlaceInv ==
    /\ have = stored
    /\ base \cap Change = depot \cap Change
    /\ ~ mutated => journal = {}
    /\ phase = "off" => journal = {}
    /\ phase = "leaving" /\ flush.step \in {"cleared", "opened"} => journal = {}
    /\ flush.step \in {"none", "enter"} => flush.names = {}
    /\ flush.step # "opened" => flush.open = {}
    /\ Unharmed => stuck = {}

\* What is not in the workspace's revision makes the session a marked one, until
\* the flush at exit has submitted it.
SubmitInv ==
    Unharmed =>
        /\ \/ Queueable \subseteq base
           \/ mutated
           \/ work.step = "row" /\ Queueable \subseteq base \cup {work.change}
        /\ phase = "off" => Queueable \subseteq base
        /\ phase = "leaving" /\ flush.step = "opened" /\ Db \notin flush.open =>
               Queueable \subseteq base

\* Every change in the depot was named, and every other waits for its name.
ToldInv ==
    hit = {} =>
        /\ depot \cap Change \subseteq told
        /\ rows \cap Change \subseteq
               told \cup journal \cup flush.names
                    \cup (IF work.step = "row" THEN {work.change} ELSE {})
        /\ flush.step # "none" => work.step # "row"
        /\ flush.step = "taken" => journal \subseteq flush.names
        /\ flush.step \in {"cleared", "opened"} => journal = {}

\* A file is removed after it was attached, and a change is begun once.
OnceInv ==
    /\ \A f \in File : [op |-> "detach", of |-> f] \in rows => [op |-> "attach", of |-> f] \in rows
    /\ work.step = "file" =>
           /\ work.change \notin rows
           /\ \/ work.change.op = "attach"
              \/ work.change.op = "detach" /\ work.change.of \in FilesOf(rows)

\* The files on disk are those of the rows, but for the change in progress.
Begun(files) ==
    IF work.step # "file" THEN files
    ELSE IF work.change.op = "attach" THEN files \cup {work.change.of}
    ELSE files \ {work.change.of}

DiskInv == Steady => disk = Begun(FilesOf(rows))

\* A file that the workspace does not have as it is on disk is named somewhere.
NamedInv == Steady => \A f \in File : Differs(f) => Named(f)

QuitInv == PlaceInv /\ SubmitInv /\ ToldInv /\ OnceInv /\ DiskInv /\ NamedInv

-------------------------------------------------------------------------------
(* Lemmas *)

\* A call of flush_on_exit begins and ends with nothing taken and nothing open.
LEMMA CallShapes ==
    /\ NoFlush \in Call /\ NoFlush.step = "none" /\ NoFlush.names = {}
    /\ Entered \in Call /\ Entered.step = "enter" /\ Entered.names = {}
BY DEF Call, NoFlush, Entered

\* What is submitted are known paths, and always the database.
LEMMA PathsKnown ==
    ASSUME TypeOK
    PROVE  Paths \subseteq PathId /\ Db \in Paths
<1>1. ASSUME NEW n \in flush.names, n.op # "edit" PROVE n.of \in File
  BY <1>1 DEF TypeOK, Call, Change
<1> QED BY <1>1 DEF Paths, PathId

\* The steps that begin or drop a call, or empty the journal, keep the types.
LEMMA NewCallTyped ==
    ASSUME TypeOK,
           Launch \/ startup_has_pending \/ Crash
    PROVE  TypeOK'
<1> USE CallShapes, SessionAssumption
        DEF TypeOK, Step, Active, Idle, Mishap, Circumstance,
            local, space, server, session, history
<1>1. CASE Launch
  BY <1>1, Zenon DEF Launch
<1>2. CASE startup_has_pending
  BY <1>2, Zenon DEF startup_has_pending, DbPending
<1>3. CASE Crash
  <2>1. flush.open \in SUBSET PathId
    BY DEF Call
  <2> QED BY <1>3, <2>1, Zenon DEF Crash
<1> QED BY <1>1, <1>2, <1>3

\* Opening the mapped paths keeps the invariant, if an unmapped path counts as a
\* failure.
LEMMA ReconcileKeeps ==
    ASSUME SessionInv, flush.step = "cleared",
           NEW mapped \in SUBSET Paths, Reconcile(mapped),
           UNCHANGED <<local, space, server, session, seen>>,
           \/ hit' = hit /\ mapped = Paths
           \/ hit' = hit \cup {"fail"} /\ "fail" \in May
    PROVE  SessionInv'
<1> DEFINE opened == {p \in mapped \ stuck : Differs(p)}
<1>1. opened \in SUBSET PathId
  BY PathsKnown DEF SessionInv
<1>2. Db \notin opened => "fail" \in hit' \/ Db \in stuck \/ rows = base
  BY PathsKnown DEF SessionInv, Differs
<1>3. IF opened = {} THEN Return
      ELSE flush' = [flush EXCEPT !.step = "opened", !.open = opened] /\ phase' = phase
  BY DEF Reconcile
<1>4. flush \in Call
  BY DEF SessionInv, TypeOK
<1> HIDE DEF opened
<1> USE SessionAssumption DEF SessionInv, TypeOK, BaseInv, NamesInv, CheckedInv, Sound,
        Call, Step, Idle, NoFlush, Entered, Active, Mishap, Circumstance,
        Change, Data, PathId, local, space, server, session, history
<1>5. CASE opened = {}
  BY <1>2, <1>3, <1>5, SMTT(30) DEF Return
<1>6. CASE opened # {}
  <2>1. flush' \in Call
    BY <1>1, <1>3, <1>4, <1>6 DEF Call
  <2>2. flush'.step = "opened" /\ flush'.open = opened /\ flush'.names = flush.names
    BY <1>3, <1>4, <1>6 DEF Call
  <2> HIDE DEF Call
  <2>3. TypeOK'
    BY <1>3, <1>6, <2>1, <2>2, SMTT(30)
  <2>4. BaseInv' /\ NamesInv'
    BY <1>2, <1>3, <1>6, <2>2, SMTT(30)
  <2>5. CheckedInv'
    BY <1>2, <1>3, <1>6, <2>2, SMTT(30)
  <2> QED BY <2>3, <2>4, <2>5
<1> QED BY <1>5, <1>6

-------------------------------------------------------------------------------
(* One step per action *)

\* The steps of a start keep the invariant,
LEMMA StartKeeps ==
    ASSUME SessionInv,
           Startup
    PROVE  SessionInv'
<1> USE SessionAssumption DEF SessionInv, TypeOK, BaseInv, NamesInv, CheckedInv, Sound,
        Call, Step, Idle, NoFlush, Entered, Active, Mishap, Circumstance,
        Change, Data, PathId, local, space, server, session, history
<1>1. ASSUME Launch PROVE SessionInv'
  <2>1. TypeOK'
    BY <1>1, NewCallTyped
  <2>2. BaseInv' /\ NamesInv' /\ CheckedInv'
    BY <1>1, SMTT(20) DEF Launch
  <2> QED BY <2>1, <2>2
<1>2. ASSUME startup_has_pending PROVE SessionInv'
  <2>1. TypeOK'
    BY <1>2, NewCallTyped
  <2>2. BaseInv' /\ NamesInv' /\ CheckedInv'
    BY <1>2, SMTT(20) DEF startup_has_pending, DbPending
  <2> QED BY <2>1, <2>2
<1>3. ASSUME startup_is_outdated PROVE SessionInv'
  BY <1>3, SMTT(20) DEF startup_is_outdated
<1>4. ASSUME CheckFails PROVE SessionInv'
  BY <1>4, SMTT(20) DEF CheckFails
<1>5. ASSUME CloseOutdated PROVE SessionInv'
  BY <1>5, SMTT(20) DEF CloseOutdated
<1>6. ASSUME init_shared_schema PROVE SessionInv'
  BY <1>6, SMTT(20) DEF init_shared_schema, Sync, CanSync
<1>7. ASSUME SyncFails PROVE SessionInv'
  BY <1>7, SMTT(20) DEF SyncFails
<1> QED BY <1>1, <1>2, <1>3, <1>4, <1>5, <1>6, <1>7 DEF Startup

\* so do the steps of a change,
LEMMA ChangesKeep ==
    ASSUME SessionInv,
           ChangeSteps
    PROVE  SessionInv'
<1> USE SessionAssumption DEF SessionInv, TypeOK, BaseInv, NamesInv, CheckedInv, Sound,
        Call, Step, Idle, NoFlush, Entered, Active, Mishap, Circumstance,
        Change, Data, PathId, local, space, server, session, history
<1>1. ASSUME NEW c \in Change, TouchFile(c) PROVE SessionInv'
  BY <1>1, SMTT(20) DEF TouchFile
<1>2. ASSUME NEW c \in Change, CommitRow(c) PROVE SessionInv'
  BY <1>2, SMTT(20) DEF CommitRow, MarkLate
<1>3. ASSUME enqueue_db_change PROVE SessionInv'
  BY <1>3, SMTT(20) DEF enqueue_db_change, MarkLate
<1>4. ASSUME NEW q \in Quiet, QuietWrite(q) PROVE SessionInv'
  BY <1>4, SMTT(20) DEF QuietWrite
<1> QED BY <1>1, <1>2, <1>3, <1>4 DEF ChangeSteps

\* the steps of a flush,
LEMMA FlushKeeps ==
    ASSUME SessionInv,
           Flush
    PROVE  SessionInv'
<1> USE SessionAssumption DEF SessionInv, TypeOK, BaseInv, NamesInv, CheckedInv, Sound,
        Call, Step, Idle, NoFlush, Entered, Active, Mishap, Circumstance,
        Change, Data, PathId, local, space, server, session, history
<1>1. ASSUME get_journal_snapshot PROVE SessionInv'
  BY <1>1, SMTT(20) DEF get_journal_snapshot, Return
<1>2. ASSUME clear_journal PROVE SessionInv'
  BY <1>2, SMTT(20) DEF clear_journal
<1>3. ASSUME _do_submit_multi PROVE SessionInv'
  BY <1>3, ReconcileKeeps DEF _do_submit_multi
<1>4. ASSUME PrepareFails PROVE SessionInv'
  BY <1>4, ReconcileKeeps DEF PrepareFails
<1>5. ASSUME SubmitDone PROVE SessionInv'
  BY <1>5, SMTT(20) DEF SubmitDone, Return, Acceptable
<1>6. ASSUME SubmitError PROVE SessionInv'
  BY <1>6, SMTT(20) DEF SubmitError, Return
<1> QED BY <1>1, <1>2, <1>3, <1>4, <1>5, <1>6 DEF Flush

\* the calls of a flush at exit,
LEMMA ExitKeeps ==
    ASSUME SessionInv,
           action_graceful_quit \/ action_quit \/ on_unmount
    PROVE  SessionInv'
<1> USE SessionAssumption DEF SessionInv, TypeOK, BaseInv, NamesInv, CheckedInv, Sound,
        Call, Step, Idle, NoFlush, Entered, Active, Mishap, Circumstance,
        Change, Data, PathId, local, space, server, session, history
<1>1. ASSUME action_graceful_quit PROVE SessionInv'
  BY <1>1, SMTT(20) DEF action_graceful_quit
<1>2. ASSUME action_quit PROVE SessionInv'
  BY <1>2, SMTT(20) DEF action_quit
<1>3. ASSUME on_unmount PROVE SessionInv'
  BY <1>3, SMTT(20) DEF on_unmount
<1> QED BY <1>1, <1>2, <1>3

\* and what is not up to the program.
LEMMA OthersKeep ==
    ASSUME SessionInv,
           Crash \/ UserSyncs \/ \E o \in Foreign : OtherSubmits(o)
    PROVE  SessionInv'
<1> USE SessionAssumption DEF SessionInv, TypeOK, BaseInv, NamesInv, CheckedInv, Sound,
        Call, Step, Idle, NoFlush, Entered, Active, Mishap, Circumstance,
        Change, Data, PathId, local, space, server, session, history
<1>1. ASSUME Crash PROVE SessionInv'
  <2>1. TypeOK'
    BY <1>1, NewCallTyped
  <2>2. BaseInv' /\ NamesInv' /\ CheckedInv'
    BY <1>1, SMTT(20) DEF Crash
  <2> QED BY <2>1, <2>2
<1>2. ASSUME UserSyncs PROVE SessionInv'
  BY <1>2, SMTT(20) DEF UserSyncs, Sync, CanSync
<1>3. ASSUME NEW o \in Foreign, OtherSubmits(o) PROVE SessionInv'
  BY <1>3, SMTT(20) DEF OtherSubmits
<1> QED BY <1>1, <1>2, <1>3

LEMMA SessionNext == SessionInv /\ [Next]_vars => SessionInv'
<1>1. ASSUME SessionInv, UNCHANGED vars PROVE SessionInv'
  BY <1>1 DEF vars, SessionInv, TypeOK, BaseInv, NamesInv, CheckedInv, Sound, Active,
              local, space, server, session, history
<1>2. ASSUME SessionInv, Next PROVE SessionInv'
  BY <1>2, StartKeeps, ChangesKeep, FlushKeeps, ExitKeeps, OthersKeep DEF Next
<1> QED BY <1>1, <1>2

LEMMA SessionInit == Init => SessionInv
<1> SUFFICES ASSUME Init PROVE SessionInv
  OBVIOUS
<1> USE CallShapes DEF Init
<1>1. TypeOK
  BY Zenon DEF TypeOK, Active, Idle
<1>2. BaseInv /\ NamesInv /\ CheckedInv
  BY DEF BaseInv, NamesInv, CheckedInv, Sound, Active, Idle
<1> QED BY <1>1, <1>2 DEF SessionInv

LEMMA SessionAlways == Spec => []SessionInv
BY SessionInit, SessionNext, PTL DEF Spec

-------------------------------------------------------------------------------
(* One step per action, for what holds while nothing has failed *)

\* Reconcile opens what differs of the mapped paths, or the call returns.
LEMMA Opens ==
    ASSUME SessionInv, flush.step = "cleared", NEW mapped \in SUBSET Paths, Reconcile(mapped)
    PROVE  \E opened \in SUBSET PathId :
              /\ opened = {p \in mapped \ stuck : Differs(p)}
              /\ \/ opened = {} /\ Return
                 \/ /\ opened # {} /\ phase' = phase
                    /\ flush'.step = "opened" /\ flush'.open = opened
                    /\ flush'.names = flush.names
<1>1. PICK opened \in SUBSET PathId : opened = {p \in mapped \ stuck : Differs(p)}
  BY PathsKnown DEF SessionInv
<1>2. IF opened = {} THEN Return
      ELSE flush' = [flush EXCEPT !.step = "opened", !.open = opened] /\ phase' = phase
  BY <1>1 DEF Reconcile
<1>3. flush \in Call
  BY DEF SessionInv, TypeOK
<1>4. CASE opened = {}
  BY <1>1, <1>2, <1>4
<1>5. CASE opened # {}
  <2>1. flush'.step = "opened" /\ flush'.open = opened /\ flush'.names = flush.names
    BY <1>2, <1>3, <1>5 DEF Call
  <2> QED BY <1>1, <1>2, <1>5, <2>1
<1> QED BY <1>4, <1>5

\* Where changes are stays so,
LEMMA PlaceKept ==
    ASSUME SessionInv, QuitInv, [Next]_vars
    PROVE  PlaceInv'
<1> USE SessionAssumption DEF SessionInv, TypeOK, BaseInv, NamesInv, CheckedInv,
        Call, Step, Idle, NoFlush, Entered, Active, Mishap, Circumstance,
        Change, Data, PathId, local, space, server, session, history, Unharmed, QuitInv
<1>1. ASSUME Launch PROVE PlaceInv'
  BY <1>1, SMTT(20) DEF Launch, PlaceInv
<1>2. ASSUME startup_has_pending PROVE PlaceInv'
  BY <1>2, SMTT(20) DEF startup_has_pending, DbPending, PlaceInv
<1>3. ASSUME startup_is_outdated PROVE PlaceInv'
  BY <1>3, SMTT(20) DEF startup_is_outdated, PlaceInv
<1>4. ASSUME CheckFails PROVE PlaceInv'
  BY <1>4, SMTT(20) DEF CheckFails, PlaceInv
<1>5. ASSUME CloseOutdated PROVE PlaceInv'
  BY <1>5, SMTT(20) DEF CloseOutdated, PlaceInv
<1>6. ASSUME init_shared_schema PROVE PlaceInv'
  BY <1>6, SMTT(20) DEF init_shared_schema, Sync, CanSync, PlaceInv
<1>7. ASSUME SyncFails PROVE PlaceInv'
  BY <1>7, SMTT(20) DEF SyncFails, PlaceInv
<1>8. ASSUME NEW c \in Change, TouchFile(c) PROVE PlaceInv'
  BY <1>8, SMTT(20) DEF TouchFile, PlaceInv
<1>9. ASSUME NEW c \in Change, CommitRow(c) PROVE PlaceInv'
  BY <1>9, SMTT(20) DEF CommitRow, MarkLate, PlaceInv
<1>10. ASSUME enqueue_db_change PROVE PlaceInv'
  BY <1>10, SMTT(20) DEF enqueue_db_change, MarkLate, PlaceInv
<1>11. ASSUME NEW q \in Quiet, QuietWrite(q) PROVE PlaceInv'
  BY <1>11, SMTT(20) DEF QuietWrite, PlaceInv
<1>12. ASSUME action_graceful_quit PROVE PlaceInv'
  BY <1>12, SMTT(20) DEF action_graceful_quit, PlaceInv
<1>13. ASSUME action_quit PROVE PlaceInv'
  BY <1>13, SMTT(20) DEF action_quit, PlaceInv
<1>14. ASSUME on_unmount PROVE PlaceInv'
  BY <1>14, SMTT(20) DEF on_unmount, PlaceInv
<1>15. ASSUME get_journal_snapshot PROVE PlaceInv'
  BY <1>15, SMTT(20) DEF get_journal_snapshot, Return, PlaceInv
<1>16. ASSUME clear_journal PROVE PlaceInv'
  BY <1>16, SMTT(20) DEF clear_journal, PlaceInv
<1>17. ASSUME _do_submit_multi PROVE PlaceInv'
  <2>1. PICK opened \in SUBSET PathId :
          /\ opened = {p \in Paths \ stuck : Differs(p)}
          /\ \/ opened = {} /\ Return
             \/ /\ opened # {} /\ phase' = phase
                /\ flush'.step = "opened" /\ flush'.open = opened
                /\ flush'.names = flush.names
    BY <1>17, Opens DEF _do_submit_multi
  <2>2. Db \in Paths
    BY PathsKnown
  <2> QED BY <1>17, <2>1, <2>2, SMTT(20) DEF _do_submit_multi, Return, PlaceInv
<1>18. ASSUME PrepareFails PROVE PlaceInv'
  <2>1. PICK mapped \in SUBSET Paths : Reconcile(mapped)
    BY <1>18 DEF PrepareFails
  <2>2. PICK opened \in SUBSET PathId :
          /\ opened = {p \in mapped \ stuck : Differs(p)}
          /\ \/ opened = {} /\ Return
             \/ /\ opened # {} /\ phase' = phase
                /\ flush'.step = "opened" /\ flush'.open = opened
                /\ flush'.names = flush.names
    BY <1>18, <2>1, Opens DEF PrepareFails
  <2> QED BY <1>18, <2>2, SMTT(20) DEF PrepareFails, Return, PlaceInv
<1>19. ASSUME SubmitDone PROVE PlaceInv'
  BY <1>19, SMTT(20) DEF SubmitDone, Return, Acceptable, PlaceInv
<1>20. ASSUME SubmitError PROVE PlaceInv'
  BY <1>20, SMTT(20) DEF SubmitError, Return, PlaceInv
<1>21. ASSUME Crash PROVE PlaceInv'
  BY <1>21, SMTT(20) DEF Crash, PlaceInv
<1>22. ASSUME UserSyncs PROVE PlaceInv'
  BY <1>22, SMTT(20) DEF UserSyncs, Sync, CanSync, PlaceInv
<1>23. ASSUME NEW o \in Foreign, OtherSubmits(o) PROVE PlaceInv'
  BY <1>23, SMTT(20) DEF OtherSubmits, PlaceInv
<1>24. ASSUME UNCHANGED vars PROVE PlaceInv'
  BY <1>24 DEF vars, PlaceInv
<1> QED BY <1>1, <1>2, <1>3, <1>4, <1>5, <1>6, <1>7, <1>8, <1>9, <1>10, <1>11, <1>12, <1>13, <1>14, <1>15, <1>16, <1>17, <1>18, <1>19, <1>20, <1>21, <1>22, <1>23, <1>24 DEF Next, Startup, ChangeSteps, Flush
\* what is not submitted keeps the session marked,
LEMMA SubmitKept ==
    ASSUME SessionInv, QuitInv, [Next]_vars
    PROVE  SubmitInv'
<1> USE SessionAssumption DEF SessionInv, TypeOK, BaseInv, NamesInv, CheckedInv,
        Call, Step, Idle, NoFlush, Entered, Active, Mishap, Circumstance,
        Change, Data, PathId, local, space, server, session, history, Unharmed, QuitInv, PlaceInv, Queueable, Differs
<1>1. ASSUME Launch PROVE SubmitInv'
  BY <1>1, SMTT(20) DEF Launch, SubmitInv
<1>2. ASSUME startup_has_pending PROVE SubmitInv'
  BY <1>2, SMTT(20) DEF startup_has_pending, DbPending, SubmitInv
<1>3. ASSUME startup_is_outdated PROVE SubmitInv'
  BY <1>3, SMTT(20) DEF startup_is_outdated, SubmitInv
<1>4. ASSUME CheckFails PROVE SubmitInv'
  BY <1>4, SMTT(20) DEF CheckFails, SubmitInv
<1>5. ASSUME CloseOutdated PROVE SubmitInv'
  BY <1>5, SMTT(20) DEF CloseOutdated, SubmitInv
<1>6. ASSUME init_shared_schema PROVE SubmitInv'
  BY <1>6, SMTT(20) DEF init_shared_schema, Sync, CanSync, SubmitInv
<1>7. ASSUME SyncFails PROVE SubmitInv'
  BY <1>7, SMTT(20) DEF SyncFails, SubmitInv
<1>8. ASSUME NEW c \in Change, TouchFile(c) PROVE SubmitInv'
  BY <1>8, SMTT(20) DEF TouchFile, SubmitInv
<1>9. ASSUME NEW c \in Change, CommitRow(c) PROVE SubmitInv'
  BY <1>9, SMTT(20) DEF CommitRow, MarkLate, SubmitInv
<1>10. ASSUME enqueue_db_change PROVE SubmitInv'
  BY <1>10, SMTT(20) DEF enqueue_db_change, MarkLate, SubmitInv
<1>11. ASSUME NEW q \in Quiet, QuietWrite(q) PROVE SubmitInv'
  BY <1>11, SMTT(20) DEF QuietWrite, SubmitInv
<1>12. ASSUME action_graceful_quit PROVE SubmitInv'
  BY <1>12, SMTT(20) DEF action_graceful_quit, SubmitInv
<1>13. ASSUME action_quit PROVE SubmitInv'
  BY <1>13, SMTT(20) DEF action_quit, SubmitInv
<1>14. ASSUME on_unmount PROVE SubmitInv'
  BY <1>14, SMTT(20) DEF on_unmount, SubmitInv
<1>15. ASSUME get_journal_snapshot PROVE SubmitInv'
  BY <1>15, SMTT(20) DEF get_journal_snapshot, Return, SubmitInv
<1>16. ASSUME clear_journal PROVE SubmitInv'
  BY <1>16, SMTT(20) DEF clear_journal, SubmitInv
<1>17. ASSUME _do_submit_multi PROVE SubmitInv'
  <2>1. PICK opened \in SUBSET PathId :
          /\ opened = {p \in Paths \ stuck : Differs(p)}
          /\ \/ opened = {} /\ Return
             \/ /\ opened # {} /\ phase' = phase
                /\ flush'.step = "opened" /\ flush'.open = opened
                /\ flush'.names = flush.names
    BY <1>17, Opens DEF _do_submit_multi
  <2>2. Db \in Paths
    BY PathsKnown
  <2> QED BY <1>17, <2>1, <2>2, SMTT(20) DEF _do_submit_multi, Return, SubmitInv
<1>18. ASSUME PrepareFails PROVE SubmitInv'
  <2>1. PICK mapped \in SUBSET Paths : Reconcile(mapped)
    BY <1>18 DEF PrepareFails
  <2>2. PICK opened \in SUBSET PathId :
          /\ opened = {p \in mapped \ stuck : Differs(p)}
          /\ \/ opened = {} /\ Return
             \/ /\ opened # {} /\ phase' = phase
                /\ flush'.step = "opened" /\ flush'.open = opened
                /\ flush'.names = flush.names
    BY <1>18, <2>1, Opens DEF PrepareFails
  <2> QED BY <1>18, <2>2, SMTT(20) DEF PrepareFails, Return, SubmitInv
<1>19. ASSUME SubmitDone PROVE SubmitInv'
  BY <1>19, SMTT(20) DEF SubmitDone, Return, Acceptable, SubmitInv
<1>20. ASSUME SubmitError PROVE SubmitInv'
  BY <1>20, SMTT(20) DEF SubmitError, Return, SubmitInv
<1>21. ASSUME Crash PROVE SubmitInv'
  BY <1>21, SMTT(20) DEF Crash, SubmitInv
<1>22. ASSUME UserSyncs PROVE SubmitInv'
  BY <1>22, SMTT(20) DEF UserSyncs, Sync, CanSync, SubmitInv
<1>23. ASSUME NEW o \in Foreign, OtherSubmits(o) PROVE SubmitInv'
  BY <1>23, SMTT(20) DEF OtherSubmits, SubmitInv
<1>24. ASSUME UNCHANGED vars PROVE SubmitInv'
  BY <1>24 DEF vars, SubmitInv
<1> QED BY <1>1, <1>2, <1>3, <1>4, <1>5, <1>6, <1>7, <1>8, <1>9, <1>10, <1>11, <1>12, <1>13, <1>14, <1>15, <1>16, <1>17, <1>18, <1>19, <1>20, <1>21, <1>22, <1>23, <1>24 DEF Next, Startup, ChangeSteps, Flush
\* what is not described waits for its name,
LEMMA ToldKept ==
    ASSUME SessionInv, QuitInv, [Next]_vars
    PROVE  ToldInv'
<1> USE SessionAssumption DEF SessionInv, TypeOK, BaseInv, NamesInv, CheckedInv,
        Call, Step, Idle, NoFlush, Entered, Active, Mishap, Circumstance,
        Change, Data, PathId, local, space, server, session, history, Unharmed, QuitInv, PlaceInv, Differs
<1>1. ASSUME Launch PROVE ToldInv'
  BY <1>1, SMTT(20) DEF Launch, ToldInv
<1>2. ASSUME startup_has_pending PROVE ToldInv'
  BY <1>2, SMTT(20) DEF startup_has_pending, DbPending, ToldInv
<1>3. ASSUME startup_is_outdated PROVE ToldInv'
  BY <1>3, SMTT(20) DEF startup_is_outdated, ToldInv
<1>4. ASSUME CheckFails PROVE ToldInv'
  BY <1>4, SMTT(20) DEF CheckFails, ToldInv
<1>5. ASSUME CloseOutdated PROVE ToldInv'
  BY <1>5, SMTT(20) DEF CloseOutdated, ToldInv
<1>6. ASSUME init_shared_schema PROVE ToldInv'
  BY <1>6, SMTT(20) DEF init_shared_schema, Sync, CanSync, ToldInv
<1>7. ASSUME SyncFails PROVE ToldInv'
  BY <1>7, SMTT(20) DEF SyncFails, ToldInv
<1>8. ASSUME NEW c \in Change, TouchFile(c) PROVE ToldInv'
  BY <1>8, SMTT(20) DEF TouchFile, ToldInv
<1>9. ASSUME NEW c \in Change, CommitRow(c) PROVE ToldInv'
  BY <1>9, SMTT(20) DEF CommitRow, MarkLate, ToldInv
<1>10. ASSUME enqueue_db_change PROVE ToldInv'
  BY <1>10, SMTT(20) DEF enqueue_db_change, MarkLate, ToldInv
<1>11. ASSUME NEW q \in Quiet, QuietWrite(q) PROVE ToldInv'
  BY <1>11, SMTT(20) DEF QuietWrite, ToldInv
<1>12. ASSUME action_graceful_quit PROVE ToldInv'
  BY <1>12, SMTT(20) DEF action_graceful_quit, ToldInv
<1>13. ASSUME action_quit PROVE ToldInv'
  BY <1>13, SMTT(20) DEF action_quit, ToldInv
<1>14. ASSUME on_unmount PROVE ToldInv'
  BY <1>14, SMTT(20) DEF on_unmount, ToldInv
<1>15. ASSUME get_journal_snapshot PROVE ToldInv'
  BY <1>15, SMTT(20) DEF get_journal_snapshot, Return, ToldInv
<1>16. ASSUME clear_journal PROVE ToldInv'
  BY <1>16, SMTT(20) DEF clear_journal, ToldInv
<1>17. ASSUME _do_submit_multi PROVE ToldInv'
  <2>1. PICK opened \in SUBSET PathId :
          /\ opened = {p \in Paths \ stuck : Differs(p)}
          /\ \/ opened = {} /\ Return
             \/ /\ opened # {} /\ phase' = phase
                /\ flush'.step = "opened" /\ flush'.open = opened
                /\ flush'.names = flush.names
    BY <1>17, Opens DEF _do_submit_multi
  <2>2. Db \in Paths
    BY PathsKnown
  <2> QED BY <1>17, <2>1, <2>2, SMTT(20) DEF _do_submit_multi, Return, ToldInv
<1>18. ASSUME PrepareFails PROVE ToldInv'
  <2>1. PICK mapped \in SUBSET Paths : Reconcile(mapped)
    BY <1>18 DEF PrepareFails
  <2>2. PICK opened \in SUBSET PathId :
          /\ opened = {p \in mapped \ stuck : Differs(p)}
          /\ \/ opened = {} /\ Return
             \/ /\ opened # {} /\ phase' = phase
                /\ flush'.step = "opened" /\ flush'.open = opened
                /\ flush'.names = flush.names
    BY <1>18, <2>1, Opens DEF PrepareFails
  <2> QED BY <1>18, <2>2, SMTT(20) DEF PrepareFails, Return, ToldInv
<1>19. ASSUME SubmitDone PROVE ToldInv'
  BY <1>19, SMTT(20) DEF SubmitDone, Return, Acceptable, ToldInv
<1>20. ASSUME SubmitError PROVE ToldInv'
  BY <1>20, SMTT(20) DEF SubmitError, Return, ToldInv
<1>21. ASSUME Crash PROVE ToldInv'
  BY <1>21, SMTT(20) DEF Crash, ToldInv
<1>22. ASSUME UserSyncs PROVE ToldInv'
  BY <1>22, SMTT(20) DEF UserSyncs, Sync, CanSync, ToldInv
<1>23. ASSUME NEW o \in Foreign, OtherSubmits(o) PROVE ToldInv'
  BY <1>23, SMTT(20) DEF OtherSubmits, ToldInv
<1>24. ASSUME UNCHANGED vars PROVE ToldInv'
  BY <1>24 DEF vars, ToldInv
<1> QED BY <1>1, <1>2, <1>3, <1>4, <1>5, <1>6, <1>7, <1>8, <1>9, <1>10, <1>11, <1>12, <1>13, <1>14, <1>15, <1>16, <1>17, <1>18, <1>19, <1>20, <1>21, <1>22, <1>23, <1>24 DEF Next, Startup, ChangeSteps, Flush
\* a change is begun and made once,
LEMMA OnceKept ==
    ASSUME SessionInv, QuitInv, [Next]_vars
    PROVE  OnceInv'
<1> USE SessionAssumption DEF SessionInv, TypeOK, BaseInv, NamesInv, CheckedInv,
        Call, Step, Idle, NoFlush, Entered, Active, Mishap, Circumstance,
        Change, Data, PathId, local, space, server, session, history, Unharmed, QuitInv, PlaceInv, FilesOf
<1>1. ASSUME Launch PROVE OnceInv'
  BY <1>1, SMTT(20) DEF Launch, OnceInv
<1>2. ASSUME startup_has_pending PROVE OnceInv'
  BY <1>2, SMTT(20) DEF startup_has_pending, DbPending, OnceInv
<1>3. ASSUME startup_is_outdated PROVE OnceInv'
  BY <1>3, SMTT(20) DEF startup_is_outdated, OnceInv
<1>4. ASSUME CheckFails PROVE OnceInv'
  BY <1>4, SMTT(20) DEF CheckFails, OnceInv
<1>5. ASSUME CloseOutdated PROVE OnceInv'
  BY <1>5, SMTT(20) DEF CloseOutdated, OnceInv
<1>6. ASSUME init_shared_schema PROVE OnceInv'
  BY <1>6, SMTT(20) DEF init_shared_schema, Sync, CanSync, OnceInv
<1>7. ASSUME SyncFails PROVE OnceInv'
  BY <1>7, SMTT(20) DEF SyncFails, OnceInv
<1>8. ASSUME NEW c \in Change, TouchFile(c) PROVE OnceInv'
  BY <1>8, SMTT(20) DEF TouchFile, OnceInv
<1>9. ASSUME NEW c \in Change, CommitRow(c) PROVE OnceInv'
  BY <1>9, SMTT(20) DEF CommitRow, MarkLate, OnceInv
<1>10. ASSUME enqueue_db_change PROVE OnceInv'
  BY <1>10, SMTT(20) DEF enqueue_db_change, MarkLate, OnceInv
<1>11. ASSUME NEW q \in Quiet, QuietWrite(q) PROVE OnceInv'
  BY <1>11, SMTT(20) DEF QuietWrite, OnceInv
<1>12. ASSUME action_graceful_quit PROVE OnceInv'
  BY <1>12, SMTT(20) DEF action_graceful_quit, OnceInv
<1>13. ASSUME action_quit PROVE OnceInv'
  BY <1>13, SMTT(20) DEF action_quit, OnceInv
<1>14. ASSUME on_unmount PROVE OnceInv'
  BY <1>14, SMTT(20) DEF on_unmount, OnceInv
<1>15. ASSUME get_journal_snapshot PROVE OnceInv'
  BY <1>15, SMTT(20) DEF get_journal_snapshot, Return, OnceInv
<1>16. ASSUME clear_journal PROVE OnceInv'
  BY <1>16, SMTT(20) DEF clear_journal, OnceInv
<1>17. ASSUME _do_submit_multi PROVE OnceInv'
  <2>1. PICK opened \in SUBSET PathId :
          /\ opened = {p \in Paths \ stuck : Differs(p)}
          /\ \/ opened = {} /\ Return
             \/ /\ opened # {} /\ phase' = phase
                /\ flush'.step = "opened" /\ flush'.open = opened
                /\ flush'.names = flush.names
    BY <1>17, Opens DEF _do_submit_multi
  <2>2. Db \in Paths
    BY PathsKnown
  <2> QED BY <1>17, <2>1, <2>2, SMTT(20) DEF _do_submit_multi, Return, OnceInv
<1>18. ASSUME PrepareFails PROVE OnceInv'
  <2>1. PICK mapped \in SUBSET Paths : Reconcile(mapped)
    BY <1>18 DEF PrepareFails
  <2>2. PICK opened \in SUBSET PathId :
          /\ opened = {p \in mapped \ stuck : Differs(p)}
          /\ \/ opened = {} /\ Return
             \/ /\ opened # {} /\ phase' = phase
                /\ flush'.step = "opened" /\ flush'.open = opened
                /\ flush'.names = flush.names
    BY <1>18, <2>1, Opens DEF PrepareFails
  <2> QED BY <1>18, <2>2, SMTT(20) DEF PrepareFails, Return, OnceInv
<1>19. ASSUME SubmitDone PROVE OnceInv'
  BY <1>19, SMTT(20) DEF SubmitDone, Return, Acceptable, OnceInv
<1>20. ASSUME SubmitError PROVE OnceInv'
  BY <1>20, SMTT(20) DEF SubmitError, Return, OnceInv
<1>21. ASSUME Crash PROVE OnceInv'
  BY <1>21, SMTT(20) DEF Crash, OnceInv
<1>22. ASSUME UserSyncs PROVE OnceInv'
  BY <1>22, SMTT(20) DEF UserSyncs, Sync, CanSync, OnceInv
<1>23. ASSUME NEW o \in Foreign, OtherSubmits(o) PROVE OnceInv'
  BY <1>23, SMTT(20) DEF OtherSubmits, OnceInv
<1>24. ASSUME UNCHANGED vars PROVE OnceInv'
  BY <1>24 DEF vars, OnceInv
<1> QED BY <1>1, <1>2, <1>3, <1>4, <1>5, <1>6, <1>7, <1>8, <1>9, <1>10, <1>11, <1>12, <1>13, <1>14, <1>15, <1>16, <1>17, <1>18, <1>19, <1>20, <1>21, <1>22, <1>23, <1>24 DEF Next, Startup, ChangeSteps, Flush
\* the files follow their rows,
LEMMA DiskKept ==
    ASSUME SessionInv, QuitInv, [Next]_vars
    PROVE  DiskInv'
<1> USE SessionAssumption DEF SessionInv, TypeOK, BaseInv, NamesInv, CheckedInv,
        Call, Step, Idle, NoFlush, Entered, Active, Mishap, Circumstance,
        Change, Data, PathId, local, space, server, session, history, Unharmed, QuitInv, PlaceInv, OnceInv, Steady, FilesOf, Begun
<1>1. ASSUME Launch PROVE DiskInv'
  BY <1>1, SMTT(20) DEF Launch, DiskInv
<1>2. ASSUME startup_has_pending PROVE DiskInv'
  BY <1>2, SMTT(20) DEF startup_has_pending, DbPending, DiskInv
<1>3. ASSUME startup_is_outdated PROVE DiskInv'
  BY <1>3, SMTT(20) DEF startup_is_outdated, DiskInv
<1>4. ASSUME CheckFails PROVE DiskInv'
  BY <1>4, SMTT(20) DEF CheckFails, DiskInv
<1>5. ASSUME CloseOutdated PROVE DiskInv'
  BY <1>5, SMTT(20) DEF CloseOutdated, DiskInv
<1>6. ASSUME init_shared_schema PROVE DiskInv'
  BY <1>6, SMTT(20) DEF init_shared_schema, Sync, CanSync, DiskInv
<1>7. ASSUME SyncFails PROVE DiskInv'
  BY <1>7, SMTT(20) DEF SyncFails, DiskInv
<1>8. ASSUME NEW c \in Change, TouchFile(c) PROVE DiskInv'
  BY <1>8, SMTT(20) DEF TouchFile, DiskInv
<1>9. ASSUME NEW c \in Change, CommitRow(c) PROVE DiskInv'
  BY <1>9, SMTT(20) DEF CommitRow, MarkLate, DiskInv
<1>10. ASSUME enqueue_db_change PROVE DiskInv'
  BY <1>10, SMTT(20) DEF enqueue_db_change, MarkLate, DiskInv
<1>11. ASSUME NEW q \in Quiet, QuietWrite(q) PROVE DiskInv'
  BY <1>11, SMTT(20) DEF QuietWrite, DiskInv
<1>12. ASSUME action_graceful_quit PROVE DiskInv'
  BY <1>12, SMTT(20) DEF action_graceful_quit, DiskInv
<1>13. ASSUME action_quit PROVE DiskInv'
  BY <1>13, SMTT(20) DEF action_quit, DiskInv
<1>14. ASSUME on_unmount PROVE DiskInv'
  BY <1>14, SMTT(20) DEF on_unmount, DiskInv
<1>15. ASSUME get_journal_snapshot PROVE DiskInv'
  BY <1>15, SMTT(20) DEF get_journal_snapshot, Return, DiskInv
<1>16. ASSUME clear_journal PROVE DiskInv'
  BY <1>16, SMTT(20) DEF clear_journal, DiskInv
<1>17. ASSUME _do_submit_multi PROVE DiskInv'
  <2>1. PICK opened \in SUBSET PathId :
          /\ opened = {p \in Paths \ stuck : Differs(p)}
          /\ \/ opened = {} /\ Return
             \/ /\ opened # {} /\ phase' = phase
                /\ flush'.step = "opened" /\ flush'.open = opened
                /\ flush'.names = flush.names
    BY <1>17, Opens DEF _do_submit_multi
  <2>2. Db \in Paths
    BY PathsKnown
  <2> QED BY <1>17, <2>1, <2>2, SMTT(20) DEF _do_submit_multi, Return, DiskInv
<1>18. ASSUME PrepareFails PROVE DiskInv'
  <2>1. PICK mapped \in SUBSET Paths : Reconcile(mapped)
    BY <1>18 DEF PrepareFails
  <2>2. PICK opened \in SUBSET PathId :
          /\ opened = {p \in mapped \ stuck : Differs(p)}
          /\ \/ opened = {} /\ Return
             \/ /\ opened # {} /\ phase' = phase
                /\ flush'.step = "opened" /\ flush'.open = opened
                /\ flush'.names = flush.names
    BY <1>18, <2>1, Opens DEF PrepareFails
  <2> QED BY <1>18, <2>2, SMTT(20) DEF PrepareFails, Return, DiskInv
<1>19. ASSUME SubmitDone PROVE DiskInv'
  BY <1>19, SMTT(20) DEF SubmitDone, Return, Acceptable, DiskInv
<1>20. ASSUME SubmitError PROVE DiskInv'
  BY <1>20, SMTT(20) DEF SubmitError, Return, DiskInv
<1>21. ASSUME Crash PROVE DiskInv'
  BY <1>21, SMTT(20) DEF Crash, DiskInv
<1>22. ASSUME UserSyncs PROVE DiskInv'
  BY <1>22, SMTT(20) DEF UserSyncs, Sync, CanSync, DiskInv
<1>23. ASSUME NEW o \in Foreign, OtherSubmits(o) PROVE DiskInv'
  BY <1>23, SMTT(20) DEF OtherSubmits, DiskInv
<1>24. ASSUME UNCHANGED vars PROVE DiskInv'
  BY <1>24 DEF vars, DiskInv
<1> QED BY <1>1, <1>2, <1>3, <1>4, <1>5, <1>6, <1>7, <1>8, <1>9, <1>10, <1>11, <1>12, <1>13, <1>14, <1>15, <1>16, <1>17, <1>18, <1>19, <1>20, <1>21, <1>22, <1>23, <1>24 DEF Next, Startup, ChangeSteps, Flush
\* and a changed file stays named until it is submitted.
LEMMA NamedKept ==
    ASSUME SessionInv, QuitInv, [Next]_vars
    PROVE  NamedInv'
<1> USE SessionAssumption DEF SessionInv, TypeOK, BaseInv, NamesInv, CheckedInv,
        Call, Step, Idle, NoFlush, Entered, Active, Mishap, Circumstance,
        Change, Data, PathId, local, space, server, session, history, Unharmed, QuitInv, PlaceInv, OnceInv, Steady, Differs, Named
<1>1. ASSUME Launch PROVE NamedInv'
  BY <1>1, SMTT(20) DEF Launch, NamedInv
<1>2. ASSUME startup_has_pending PROVE NamedInv'
  BY <1>2, SMTT(20) DEF startup_has_pending, DbPending, NamedInv
<1>3. ASSUME startup_is_outdated PROVE NamedInv'
  BY <1>3, SMTT(20) DEF startup_is_outdated, NamedInv
<1>4. ASSUME CheckFails PROVE NamedInv'
  BY <1>4, SMTT(20) DEF CheckFails, NamedInv
<1>5. ASSUME CloseOutdated PROVE NamedInv'
  BY <1>5, SMTT(20) DEF CloseOutdated, NamedInv
<1>6. ASSUME init_shared_schema PROVE NamedInv'
  BY <1>6, SMTT(20) DEF init_shared_schema, Sync, CanSync, NamedInv
<1>7. ASSUME SyncFails PROVE NamedInv'
  BY <1>7, SMTT(20) DEF SyncFails, NamedInv
<1>8. ASSUME NEW c \in Change, TouchFile(c) PROVE NamedInv'
  BY <1>8, SMTT(20) DEF TouchFile, NamedInv
<1>9. ASSUME NEW c \in Change, CommitRow(c) PROVE NamedInv'
  BY <1>9, SMTT(20) DEF CommitRow, MarkLate, NamedInv
<1>10. ASSUME enqueue_db_change PROVE NamedInv'
  BY <1>10, SMTT(20) DEF enqueue_db_change, MarkLate, NamedInv
<1>11. ASSUME NEW q \in Quiet, QuietWrite(q) PROVE NamedInv'
  BY <1>11, SMTT(20) DEF QuietWrite, NamedInv
<1>12. ASSUME action_graceful_quit PROVE NamedInv'
  BY <1>12, SMTT(20) DEF action_graceful_quit, NamedInv
<1>13. ASSUME action_quit PROVE NamedInv'
  BY <1>13, SMTT(20) DEF action_quit, NamedInv
<1>14. ASSUME on_unmount PROVE NamedInv'
  BY <1>14, SMTT(20) DEF on_unmount, NamedInv
<1>15. ASSUME get_journal_snapshot PROVE NamedInv'
  BY <1>15, SMTT(20) DEF get_journal_snapshot, Return, NamedInv
<1>16. ASSUME clear_journal PROVE NamedInv'
  BY <1>16, SMTT(20) DEF clear_journal, NamedInv
<1>17. ASSUME _do_submit_multi PROVE NamedInv'
  <2>1. PICK opened \in SUBSET PathId :
          /\ opened = {p \in Paths \ stuck : Differs(p)}
          /\ \/ opened = {} /\ Return
             \/ /\ opened # {} /\ phase' = phase
                /\ flush'.step = "opened" /\ flush'.open = opened
                /\ flush'.names = flush.names
    BY <1>17, Opens DEF _do_submit_multi
  <2>2. Db \in Paths
    BY PathsKnown
  <2> QED BY <1>17, <2>1, <2>2, SMTT(20) DEF _do_submit_multi, Return, NamedInv, Paths
<1>18. ASSUME PrepareFails PROVE NamedInv'
  <2>1. PICK mapped \in SUBSET Paths : Reconcile(mapped)
    BY <1>18 DEF PrepareFails
  <2>2. PICK opened \in SUBSET PathId :
          /\ opened = {p \in mapped \ stuck : Differs(p)}
          /\ \/ opened = {} /\ Return
             \/ /\ opened # {} /\ phase' = phase
                /\ flush'.step = "opened" /\ flush'.open = opened
                /\ flush'.names = flush.names
    BY <1>18, <2>1, Opens DEF PrepareFails
  <2> QED BY <1>18, <2>2, SMTT(20) DEF PrepareFails, Return, NamedInv
<1>19. ASSUME SubmitDone PROVE NamedInv'
  BY <1>19, SMTT(20) DEF SubmitDone, Return, Acceptable, NamedInv
<1>20. ASSUME SubmitError PROVE NamedInv'
  BY <1>20, SMTT(20) DEF SubmitError, Return, NamedInv
<1>21. ASSUME Crash PROVE NamedInv'
  BY <1>21, SMTT(20) DEF Crash, NamedInv
<1>22. ASSUME UserSyncs PROVE NamedInv'
  BY <1>22, SMTT(20) DEF UserSyncs, Sync, CanSync, NamedInv
<1>23. ASSUME NEW o \in Foreign, OtherSubmits(o) PROVE NamedInv'
  BY <1>23, SMTT(20) DEF OtherSubmits, NamedInv
<1>24. ASSUME UNCHANGED vars PROVE NamedInv'
  BY <1>24 DEF vars, NamedInv
<1> QED BY <1>1, <1>2, <1>3, <1>4, <1>5, <1>6, <1>7, <1>8, <1>9, <1>10, <1>11, <1>12, <1>13, <1>14, <1>15, <1>16, <1>17, <1>18, <1>19, <1>20, <1>21, <1>22, <1>23, <1>24 DEF Next, Startup, ChangeSteps, Flush

LEMMA QuitInit == Init => QuitInv
<1> SUFFICES ASSUME Init PROVE QuitInv
  OBVIOUS
<1> USE CallShapes DEF Init, NoFlush, Idle
<1>1. PlaceInv /\ SubmitInv /\ ToldInv
  BY DEF PlaceInv, SubmitInv, ToldInv, Queueable
<1>2. OnceInv /\ DiskInv /\ NamedInv
  BY SessionAssumption DEF OnceInv, DiskInv, NamedInv, Begun, FilesOf, Differs
<1> QED BY <1>1, <1>2 DEF QuitInv

\* What a session that nothing has gone wrong in keeps of its changes, at every
\* step of a change, of a flush and of a start.
THEOREM SessionInvariance == Spec => [](SessionInv /\ QuitInv)
<1>1. Init => SessionInv /\ QuitInv
  BY SessionInit, QuitInit
<1>2. SessionInv /\ QuitInv /\ [Next]_vars => (SessionInv /\ QuitInv)'
  BY SessionNext, PlaceKept, SubmitKept, ToldKept, OnceKept, DiskKept, NamedKept DEF QuitInv
<1> QED BY <1>1, <1>2, PTL DEF Spec

-------------------------------------------------------------------------------
(* Theorems *)

\* Types of the session model: a flush runs exactly in the phases that called one,
\* and a change of the event loop is always finished before the exit.
THEOREM SessionTypeCorrect == Spec => []TypeOK
<1>1. SessionInv => TypeOK
  BY DEF SessionInv
<1> QED BY <1>1, SessionAlways, PTL

\* However changes, flushes, crashes and other machines interleave, a description
\* names only what the depot's database has, until a p4 command fails or the
\* database is stuck in a changelist.
THEOREM SessionDescriptions == Spec => []DescribedIsThere
<1>1. SessionInv => DescribedIsThere
  BY DEF SessionInv, NamesInv, Sound, DescribedIsThere
<1> QED BY <1>1, SessionAlways, PTL

\* Unless its checks fail, the program runs only on a database that has everything
\* the depot had when it was compared.
THEOREM SessionRunsOnNewest == Spec => []RunsOnNewest
<1>1. SessionInv => RunsOnNewest
  BY DEF SessionInv, CheckedInv, RunsOnNewest
<1> QED BY <1>1, SessionAlways, PTL

\* What earlier runs wrote, killed or not, is in the depot before the next one
\* works, unless a p4 command failed or a changelist is stuck.
THEOREM SessionStartCatchesUp == Spec => []StartCatchesUp
<1>1. SessionInv => StartCatchesUp
  BY DEF SessionInv, CheckedInv, StartCatchesUp
<1> QED BY <1>1, SessionAlways, PTL

\* Whatever was written and queued, late or dropped by a flush, is in the depot when
\* the program has ended, unless it was killed or a p4 command failed or was refused.
THEOREM SessionQuitSubmits == Spec => []QuitSubmits
<1>1. SessionInv /\ QuitInv => QuitSubmits
  BY DEF SessionInv, BaseInv, QuitInv, SubmitInv, Unharmed, Queueable, QuitSubmits, AtRest
<1> QED BY <1>1, SessionInvariance, PTL

\* When nothing has gone wrong, no journal entry was dropped and no worker ended
\* while a flush ran, every change that was queued is named in a description.
THEOREM SessionChangesNamed == Spec => []ChangesNamed
<1>1. SessionInv /\ QuitInv => ChangesNamed
  <2> SUFFICES ASSUME SessionInv, QuitInv, phase = "off", hit = {}
               PROVE  rows \cap Change \subseteq told
    BY DEF ChangesNamed, AtRest
  <2>1. flush.step = "none" /\ work = Idle
    BY DEF SessionInv, TypeOK, Active
  <2> QED
    BY <2>1 DEF QuitInv, PlaceInv, ToldInv, Idle
<1> QED BY <1>1, SessionInvariance, PTL

\* When the program has ended, the depot has exactly the files its database has
\* rows for, also after changes made while a flush ran.
THEOREM SessionBundleComplete == Spec => []BundleComplete
<1>1. SessionInv /\ QuitInv => BundleComplete
  <2> SUFFICES ASSUME SessionInv, QuitInv, phase = "off", Steady
               PROVE  stored = FilesOf(depot)
    BY DEF BundleComplete, AtRest, Steady
  <2>1. flush.step = "none" /\ work = Idle /\ journal = {}
    BY DEF SessionInv, TypeOK, Active, QuitInv, PlaceInv
  <2>2. disk = FilesOf(rows)
    BY <2>1 DEF QuitInv, DiskInv, Begun, Idle
  <2>3. \A f \in File : ~ Differs(f)
    BY <2>1 DEF QuitInv, NamedInv, Named, Idle
  <2>4. stored \subseteq File /\ disk \subseteq File
    BY DEF SessionInv, TypeOK
  <2>5. stored = disk
    BY <2>3, <2>4, SessionAssumption DEF Differs, QuitInv, PlaceInv
  <2>6. rows \cap Change = depot \cap Change
    <3>1. \A c \in Change : c.op # "quiet"
      BY DEF Change
    <3>2. rows \cap Change \subseteq base
      BY <3>1 DEF QuitInv, SubmitInv, Unharmed, Steady, Queueable
    <3> QED BY <3>2 DEF SessionInv, BaseInv, QuitInv, PlaceInv
  <2>7. FilesOf(rows) = FilesOf(depot)
    BY <2>6 DEF FilesOf, Change
  <2> QED BY <2>2, <2>5, <2>7
<1> QED BY <1>1, SessionInvariance, PTL

===============================================================================
