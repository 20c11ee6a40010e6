--------------------------- MODULE SettingsScreens ---------------------------
(***************************************************************************)
(* The screens that list and change what the ledger is set up with:        *)
(* accounts, sections, frequent and monthly entries, budgets, goals and    *)
(* rows of reports (tui/screens/accounts.py, sections.py,                  *)
(* frequent_entries.py, monthly_entries.py, budget_edit.py, goal_edit.py,  *)
(* report_customs.py).  All are built alike:                               *)
(* a list read from the server, keys that start a worker, dialogs, and a    *)
(* reload after each change.  They differ in which workers exclude each     *)
(* other, in what waits for a dialog, and in the two that save a moved row  *)
(* with a delay.  The accounts are read through a cache (tui/client.py).    *)
(*                                                                         *)
(* One screen per behaviour; it is closed and opened again.                *)
(*                                                                         *)
(* A request that is cancelled was carried out before that, or never is.    *)
(*                                                                         *)
(* Auxiliary: doubt has the lists (on screen, stored, being read) since     *)
(* whose reading something happened that the code follows with no reload;   *)
(* no action reads it.                                                     *)
(***************************************************************************)
EXTENDS Integers, Sequences, SequencesExt, FiniteSets, TLC

CONSTANTS
    Screens,     \* the screens of this instance
    Start,       \* what the server has at first: tab -> rows, by screen
    May,         \* circumstances, see below
    NoTimer, NoList,
    MaxChanges   \* bound: changes the user begins

Circumstance == {
    "busy",      \* the user acts while a worker is busy
    "fail"}      \* a call is refused or its answer lost

VARIABLES
    screen,      \* which screen this behaviour is about
    open,        \* it is on top of the entries screen
    mode,        \* the tab it shows (_account, _mode)
    server,      \* tab -> rows, in their order
    shown,       \* the rows on screen: tab -> rows
    cache,       \* account_cache of the section
    jobs,        \* the worker of each exclusive group
    dialogs,     \* the dialogs over the screen, the top one first
    timer,       \* the order to be saved after 0.4 s
    changes,     \* changes begun so far
    nextId,      \* ids the server gives out
    doubt

vars == <<screen, open, mode, server, shown, cache, jobs, dialogs, timer, changes, nextId, doubt>>

\* Reports of the customs screen; it shows the first one first.
_REPORTS == <<"report_bs", "report_pl">>

Tabs(s) ==
    CASE s \in {"accounts", "budget"} -> {"expenses", "income"}
      [] s = "goal"                   -> {"budget_goal", "goal"}
      [] s = "customs"                -> Range(_REPORTS)
      [] OTHER                        -> {"all"}

\* The accounts are listed whole, budgets and goals tab by tab.
Asked(s, tab) == IF s = "accounts" THEN Tabs(s) ELSE {tab}

FirstTab(s) ==
    CASE s \in {"accounts", "budget"} -> "expenses"
      [] s = "goal"                   -> "budget_goal"
      [] s = "customs"                -> _REPORTS[1]
      [] OTHER                        -> "all"

Group == {"list", "new", "delete", "mutate", "all"}

\* The screens that only add and delete.
Plain == {"frequent", "monthly", "customs"}

\* Wrong variant: a reload in the group of the form.
GroupOf_shared(s, op) ==
    CASE s \in {"budget", "goal"}                                    -> "all"
      [] s \in Plain /\ op \in {"list", "create"}                  -> "new"
      [] s \in Plain                                               -> "delete"
      [] op = "list"                                                 -> "list"
      [] OTHER                                                       -> "mutate"

\* Which workers cancel each other.
GroupOf(s, op) ==
    CASE s \in {"budget", "goal"}                          -> "all"
      [] op = "list"                                       -> "list"
      [] s \in Plain /\ op = "create"                      -> "new"
      [] s \in Plain /\ op = "delete"                      -> "delete"
      [] OTHER                                             -> "mutate"

ChangeOp == {"create", "update", "delete", "sort"}

\* A worker: ask, it waits for its dialog; sent, for the server; done, the
\* server has done it and the answer is on its way.
Job(op, stage, tab, row, order) ==
    [op |-> op, stage |-> stage, tab |-> tab, row |-> row, order |-> order, rows |-> << >>]

NoRow == [id |-> 0, val |-> 0]
NoJob == Job("none", "", "", NoRow, << >>)
Ids(rows) == [i \in DOMAIN rows |-> rows[i].id]
HasId(rows, id) == \E i \in DOMAIN rows : rows[i].id = id

Init ==
    /\ screen \in Screens
    /\ open = FALSE
    /\ mode = FirstTab(screen)
    /\ server = Start[screen]
    /\ shown = IF screen = "accounts" THEN server ELSE << >>
    /\ cache = NoList
    /\ jobs = [g \in Group |-> NoJob]
    /\ dialogs = << >>
    /\ timer = NoTimer
    /\ changes = 0
    /\ nextId = 10
    /\ doubt = {}

Busy == timer # NoTimer \/ \E g \in Group : jobs[g] # NoJob

-------------------------------------------------------------------------------
(* What the server makes of a request *)

Created(rows, row) == Append(rows, [row EXCEPT !.id = nextId])

Updated(rows, row) == [i \in DOMAIN rows |-> IF rows[i].id = row.id THEN row ELSE rows[i]]

Without(rows, id) ==
    LET i == CHOOSE i \in DOMAIN rows : rows[i].id = id
    IN  IF HasId(rows, id)
        THEN [k \in 1 .. Len(rows) - 1 |-> rows[IF k < i THEN k ELSE k + 1]] ELSE rows

\* The rows of the given order first, then those it does not name.
Place(rows, order, i) ==
    IF \E k \in DOMAIN order : order[k] = rows[i].id
    THEN CHOOSE k \in DOMAIN order : order[k] = rows[i].id
    ELSE Len(order) + i

Sorted(rows, order) ==
    LET places == {Place(rows, order, i) : i \in DOMAIN rows}
        before(i) == {p \in places : p < Place(rows, order, i)}
    IN  [n \in DOMAIN rows |-> rows[CHOOSE i \in DOMAIN rows : Cardinality(before(i)) = n - 1]]

\* Budgets and goals are set; other rows must be there.
CanDo(job) ==
    \/ job.op \in {"create", "sort", "list", "check"}
    \/ screen \in {"budget", "goal"}
    \/ HasId(server[job.tab], job.row.id)

Result(job) ==
    LET rows == server[job.tab]
    IN  CASE job.op = "create" -> Created(rows, job.row)
          [] job.op = "update" -> IF HasId(rows, job.row.id) THEN Updated(rows, job.row)
                                  ELSE Created(rows, job.row)
          [] job.op = "delete" -> Without(rows, job.row.id)
          [] job.op = "sort"   -> Sorted(rows, job.order)
          [] OTHER             -> rows

-------------------------------------------------------------------------------
(* Workers.  Starting one cancels the one its group has. *)

\* A change without its reload, or a list that no list replaces.
Untold(job, by) ==
    /\ job # NoJob
    /\ \/ job.op \in ChangeOp /\ job.stage # "ask"
       \/ job.op = "list" /\ by # "list"

Doubts == {"shown", "cache"} \cup {g \in Group : jobs[g] # NoJob}

Begin(job) ==
    LET g == GroupOf(screen, job.op)
    IN  /\ jobs' = [jobs EXCEPT ![g] = job]
        /\ doubt' = IF Untold(jobs[g], job.op) THEN Doubts \ {g} ELSE doubt \ {g}

\* A list of the accounts is what the cache has, if it has one.
Listing(stored) ==
    IF screen = "accounts" /\ stored # NoList
    THEN [Job("list", "stored", mode, NoRow, << >>) EXCEPT !.rows = stored]
    ELSE Job("list", "sent", mode, NoRow, << >>)

Ends(g) == jobs' = [jobs EXCEPT ![g] = NoJob]

-------------------------------------------------------------------------------
(* Opening, leaving, reloading *)

\* Keys reach the screen when no dialog is over it.
Key ==
    /\ open
    /\ dialogs = << >>
    /\ Busy => "busy" \in May

\* The tree of the accounts is drawn from the session; the others load.
on_mount ==
    /\ ~ open
    /\ open' = TRUE
    /\ mode' = FirstTab(screen)
    /\ IF screen = "accounts"
       THEN UNCHANGED <<shown, jobs, doubt>>
       ELSE /\ shown' = << >>
            /\ jobs' = [jobs EXCEPT ![GroupOf(screen, "list")] =
                            Job("list", "sent", mode', NoRow, << >>)]
            /\ doubt' = {}
    /\ UNCHANGED <<screen, nextId, server, cache, dialogs, timer, changes>>

\* Leaving ends the workers of the screen and drops the timer.
action_back ==
    /\ Key
    /\ open' = FALSE
    /\ jobs' = [g \in Group |-> NoJob]
    /\ timer' = NoTimer
    /\ doubt' = IF timer # NoTimer \/ \E g \in Group : Untold(jobs[g], "back")
                THEN {"shown", "cache"} ELSE doubt \ Group
    /\ UNCHANGED <<screen, nextId, mode, server, shown, cache, dialogs, changes>>

\* invalidate_section comes first; only the accounts have something stored.
action_refresh ==
    /\ Key
    /\ cache' = NoList
    /\ Begin(Listing(NoList))
    /\ UNCHANGED <<screen, nextId, open, mode, server, shown, dialogs, timer, changes>>

\* Wrong variant: the other tab without a reload.
action_toggle_only_mode ==
    /\ Key
    /\ screen \in {"budget", "goal"}
    /\ mode' \in Tabs(screen) \ {mode}
    /\ UNCHANGED <<screen, nextId, open, server, shown, cache, jobs, dialogs, timer, changes, doubt>>

\* The tab changes at once, the rows when the list arrives.
action_toggle ==
    /\ Key
    /\ screen \in {"budget", "goal"}
    /\ mode' \in Tabs(screen) \ {mode}
    /\ Begin(Job("list", "sent", mode', NoRow, << >>))
    /\ UNCHANGED <<screen, nextId, open, server, shown, cache, dialogs, timer, changes>>

action_toggle_report ==
    /\ Key
    /\ screen = "customs"
    /\ mode' \in Tabs(screen) \ {mode}
    /\ Begin(Job("list", "sent", mode', NoRow, << >>))
    /\ UNCHANGED <<screen, nextId, open, server, shown, cache, dialogs, timer, changes>>

-------------------------------------------------------------------------------
(* Changes *)

Row == UNION {{<<t, i>> : i \in DOMAIN shown[t]} : t \in DOMAIN shown}
Under(at) == shown[at[1]][at[2]]

MayChange ==
    /\ Key
    /\ changes < MaxChanges
    /\ changes' = changes + 1

\* A dialog whose answer starts the worker (accounts), or one that the worker
\* itself waits for.
Open(op, tab, row) == dialogs' = <<Job(op, "ask", tab, row, << >>)>> \o dialogs

Flow(op, tab, row) == Begin(Job(op, "ask", tab, row, << >>)) /\ Open(op, tab, row)

action_new_account ==
    /\ screen = "accounts"
    /\ \E tab \in Tabs(screen) : Open("create", tab, NoRow)
    /\ UNCHANGED <<jobs, doubt, shown, timer>>

action_edit_account ==
    /\ screen = "accounts"
    /\ \E at \in Row : Open("update", at[1], Under(at))
    /\ UNCHANGED <<jobs, doubt, shown, timer>>

action_delete_account ==
    /\ screen = "accounts"
    /\ \E at \in Row : Begin(Job("check", "sent", at[1], Under(at), << >>))
    /\ UNCHANGED <<dialogs, shown, timer>>

SectionFlow ==
    /\ screen = "sections"
    /\ \/ Flow("create", "all", NoRow)
       \/ \E at \in Row, op \in {"update", "delete"} : Flow(op, "all", Under(at))
    /\ UNCHANGED <<shown, timer>>

\* A row changes places with its neighbour on screen, and the order is to be
\* saved when no further move comes; lists in flight do not know it.
Reorder ==
    /\ screen \in {"accounts", "sections"}
    /\ \E at \in Row :
          LET tab == at[1]
              i   == at[2]
              moved == [shown[tab] EXCEPT ![i] = shown[tab][i + 1], ![i + 1] = shown[tab][i]]
          IN  /\ i < Len(shown[tab])
              /\ shown' = [shown EXCEPT ![tab] = moved]
              /\ timer' = [tab |-> tab, order |-> Ids(moved)]
              /\ doubt' = doubt
                    \cup (IF timer # NoTimer /\ timer.tab # tab THEN Doubts ELSE {})
                    \cup (IF jobs["list"] # NoJob THEN {"list"} ELSE {})
    /\ UNCHANGED <<jobs, dialogs>>

NewWorker ==
    /\ screen \in {"frequent", "monthly"}
    /\ Flow("create", "all", NoRow)
    /\ UNCHANGED <<shown, timer>>

DeleteWorker ==
    /\ screen \in {"frequent", "monthly"}
    /\ \E at \in Row : Flow("delete", "all", Under(at))
    /\ UNCHANGED <<shown, timer>>

\* A row is added to or taken from the report of the moment.
NewCustom ==
    /\ screen = "customs"
    /\ Flow("create", mode, NoRow)
    /\ UNCHANGED <<shown, timer>>

DeleteCustom ==
    /\ screen = "customs"
    /\ \E at \in Row : Flow("delete", mode, Under(at))
    /\ UNCHANGED <<shown, timer>>

\* The row is the one on screen, the tab the one of the moment.
EditAmount ==
    /\ screen = "budget"
    /\ \E at \in Row : Flow("update", mode, Under(at))
    /\ UNCHANGED <<shown, timer>>

\* Without a dialog.
DeleteBudget ==
    /\ screen = "budget"
    /\ \E at \in Row : Begin(Job("delete", "sent", mode, Under(at), << >>))
    /\ UNCHANGED <<dialogs, shown, timer>>

EditGoal ==
    /\ screen = "goal"
    /\ \/ \E at \in Row : Flow("update", mode, Under(at))
       \/ Row = {} /\ Flow("update", mode, NoRow)
    /\ UNCHANGED <<shown, timer>>

Change ==
    /\ MayChange
    /\ \/ action_new_account \/ action_edit_account \/ action_delete_account
       \/ SectionFlow \/ Reorder
       \/ NewWorker \/ DeleteWorker \/ NewCustom \/ DeleteCustom
       \/ EditAmount \/ DeleteBudget \/ EditGoal
    /\ UNCHANGED <<screen, nextId, open, mode, server, cache>>

-------------------------------------------------------------------------------
(* Dialogs *)

\* What a form hands back: a name, or an amount that may be nothing.
AccountForm  == {1, 2}
FrequentForm == {1, 2}
MonthlyForm  == {1, 2}
CustomForm   == {1, 2}
AmountForm   == {0, 1, 2}
GoalForm     == {0, 1, 2}

Form(s) ==
    CASE s = "frequent" -> FrequentForm
      [] s = "monthly"  -> MonthlyForm
      [] s = "customs"  -> CustomForm
      [] s = "budget"   -> AmountForm
      [] s = "goal"     -> GoalForm
      [] OTHER          -> AccountForm

Hears(g, dialog) == jobs[g] # NoJob /\ jobs[g].stage = "ask" /\ jobs[g].op = dialog.op

\* The request a dialog's answer leads to; 0 takes a budget away.
Request(dialog, val) ==
    [dialog EXCEPT !.stage = "sent", !.row.val = val,
                   !.op = IF screen = "budget" /\ val = 0 THEN "delete" ELSE dialog.op]

\* A name that stays as it was is not sent.
Unchanged(dialog, val) == screen = "sections" /\ dialog.op = "update" /\ val = dialog.row.val

Accept ==
    /\ dialogs # << >>
    /\ dialogs' = Tail(dialogs)
    /\ LET dialog == Head(dialogs)
           g      == GroupOf(screen, dialog.op)
       IN  \E val \in Form(screen) :
             \/ /\ screen = "accounts"
                /\ Begin(Request(dialog, val))
             \/ /\ screen # "accounts"
                /\ Hears(g, dialog)
                /\ jobs' = [jobs EXCEPT ![g] = IF Unchanged(dialog, val) THEN NoJob
                                               ELSE Request(dialog, val)]
                /\ UNCHANGED doubt
             \/ /\ screen # "accounts"
                /\ ~ Hears(g, dialog)
                /\ UNCHANGED <<jobs, doubt>>
    /\ UNCHANGED <<screen, nextId, open, mode, server, shown, cache, timer, changes>>

CancelDialog ==
    /\ dialogs # << >>
    /\ dialogs' = Tail(dialogs)
    /\ LET g == GroupOf(screen, Head(dialogs).op)
       IN  IF Hears(g, Head(dialogs)) THEN Ends(g) ELSE UNCHANGED jobs
    /\ UNCHANGED <<screen, nextId, open, mode, server, shown, cache, timer, changes, doubt>>

-------------------------------------------------------------------------------
(* The server and the rest of the worker after its await *)

SortAhead == timer # NoTimer \/ \E g \in Group : jobs[g] # NoJob /\ jobs[g].op = "sort" /\ jobs[g].stage = "sent"

Sent(g) == jobs[g] # NoJob /\ jobs[g].stage = "sent"
Back(g) == jobs[g] # NoJob /\ jobs[g].stage \in {"done", "stored"}

ServerDoes(g) ==
    /\ Sent(g)
    /\ CanDo(jobs[g])
    /\ server' = [server EXCEPT ![jobs[g].tab] = Result(jobs[g])]
    /\ jobs' = [jobs EXCEPT ![g].stage = "done",
                            ![g].rows = [t \in Asked(screen, jobs[g].tab) |-> server[t]]]
    /\ doubt' = IF jobs[g].op # "list" THEN doubt
                ELSE IF SortAhead THEN doubt \cup {g} ELSE doubt \ {g}
    /\ nextId' = nextId + IF Len(server'[jobs[g].tab]) > Len(server[jobs[g].tab]) THEN 1 ELSE 0
    /\ UNCHANGED <<screen, open, mode, shown, cache, dialogs, timer, changes>>

\* A message, and nothing is reloaded: the call was refused, or its answer lost.
Fails(g) ==
    /\ \/ Sent(g) /\ ("fail" \in May \/ ~ CanDo(jobs[g]))
       \/ Back(g) /\ jobs[g].stage = "done" /\ "fail" \in May
    /\ Ends(g)
    /\ doubt' = (doubt \ {g}) \cup
                CASE jobs[g].op = "list" -> {"shown"}
                  [] jobs[g].op = "check" -> {}
                  [] jobs[g].op \in ChangeOp /\ jobs[g].op # "sort" /\ jobs[g].stage = "sent" -> {}
                  [] OTHER -> Doubts \ {g}
    /\ UNCHANGED <<screen, nextId, open, mode, server, shown, cache, dialogs, timer, changes>>

ListArrives(g) ==
    /\ Back(g)
    /\ jobs[g].op = "list"
    /\ shown' = jobs[g].rows
    /\ Ends(g)
    /\ LET stores == screen = "accounts" /\ jobs[g].stage = "done"
           lists  == {"shown"} \cup (IF stores THEN {"cache"} ELSE {})
       IN  /\ cache' = IF stores THEN jobs[g].rows ELSE cache
           /\ doubt' = ((doubt \ {g}) \ lists) \cup (IF g \in doubt THEN lists ELSE {})
    /\ UNCHANGED <<screen, nextId, open, mode, server, dialogs, timer, changes>>

\* What a check found is shown over whatever is on top by then.
Checked(g) ==
    /\ Back(g)
    /\ jobs[g].op = "check"
    /\ Open("delete", jobs[g].tab, jobs[g].row)
    /\ Ends(g)
    /\ UNCHANGED <<screen, nextId, open, mode, server, shown, cache, timer, changes, doubt>>

SortSaved(g) ==
    /\ Back(g)
    /\ jobs[g].op = "sort"
    /\ cache' = NoList
    /\ Ends(g)
    /\ UNCHANGED <<screen, nextId, open, mode, server, shown, dialogs, timer, changes, doubt>>

\* invalidate_accounts, then the reload.
Changed(g) ==
    /\ Back(g)
    /\ jobs[g].op \in {"create", "update", "delete"}
    /\ cache' = NoList
    /\ LET list == GroupOf(screen, "list")
       IN  /\ jobs' = [jobs EXCEPT ![g] = NoJob, ![list] = Job("list", "sent", mode, NoRow, << >>)]
           /\ doubt' = doubt \ {g, list}
    /\ UNCHANGED <<screen, nextId, open, mode, server, shown, dialogs, timer, changes>>

\* 0.4 s after the last move.
SortTimer ==
    /\ timer # NoTimer
    /\ timer' = NoTimer
    /\ Begin(Job("sort", "sent", timer.tab, NoRow, timer.order))
    /\ UNCHANGED <<screen, nextId, open, mode, server, shown, cache, dialogs, changes>>

Next ==
    \/ on_mount \/ action_back \/ action_refresh \/ action_toggle \/ action_toggle_report
    \/ Change
    \/ Accept \/ CancelDialog
    \/ \E g \in Group : ServerDoes(g) \/ Fails(g) \/ ListArrives(g) \/ Checked(g)
                         \/ SortSaved(g) \/ Changed(g)
    \/ SortTimer

Spec == Init /\ [][Next]_vars

-------------------------------------------------------------------------------
(* What must hold *)

\* The accounts that are stored are those of the server, their order included,
\* but while an answer is on its way (client.py:1418-1462).
CacheKeepsUp ==
    (cache # NoList /\ "cache" \notin doubt
        /\ \A g \in Group : jobs[g] # NoJob /\ jobs[g].stage = "done" => jobs[g].op \notin ChangeOp)
        => cache = server

\* When nothing is under way, the screen shows what the server has under the
\* tab it is on, in its order, and the stored accounts, which other screens
\* read, keep up with it - unless a change was cancelled, a call failed, a list
\* was cancelled or read around a move (accounts.py:465-532,
\* sections.py:221-279, budget_edit.py:222-264).
SettledIsShown ==
    /\ (open /\ ~ Busy /\ dialogs = << >> /\ "shown" \notin doubt)
           => shown = [t \in Asked(screen, mode) |-> server[t]]
    /\ CacheKeepsUp

\* A dialog is always waited for, by the worker that opened it: no reload and
\* no other change cancels it (monthly_entries.py:278-285).  The sections are the
\* exception: their delayed save of the order does.
DialogIsHeard ==
    (dialogs # << >> /\ screen \notin {"accounts", "sections"})
        => Hears(GroupOf(screen, Head(dialogs).op), Head(dialogs))
===============================================================================
