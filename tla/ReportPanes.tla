----------------------------- MODULE ReportPanes -----------------------------
(***************************************************************************)
(* The two screens with a menu on the left and, on the right, the report   *)
(* of the line that is highlighted: ReportsScreen (tui/screens/reports.py) *)
(* and AccountFlowScreen (tui/screens/account_flow.py).  Moving through    *)
(* the menu asks the server; the list posts its messages, the screen       *)
(* handles them later, and a new request ends the one before.  One asks at *)
(* once, the other 0.25 s after the last move.                             *)
(*                                                                         *)
(* An answer is no more than its shape: none, an empty list or dict, the   *)
(* shape of the report with rows or without (bare), another type (alien).  *)
(* A text may hold markup that the widget refuses.                         *)
(***************************************************************************)
EXTENDS Integers, Sequences

CONSTANTS
    Reports,   \* the reports of this instance, some of those of _build_menu
    NoRequest,
    MaxActs    \* bound: keys that move, select or refresh

VARIABLE
    pane       \* the screen: its menu, its messages, its request, its texts

-------------------------------------------------------------------------------
(* Menus *)

\* What a line asks for: the tool of the server and the kind of the report.
_build_menu == <<
    [id |-> "balance_sheet",   asks |-> <<"report-get", "report">>],
    [id |-> "pl_summary",      asks |-> <<"report-get", "report_summary">>],
    [id |-> "monthly_trend",   asks |-> <<"report-get", "report_summary by month">>],
    [id |-> "in_out",          asks |-> <<"report-get", "in_out">>],
    [id |-> "calendar",        asks |-> <<"report-get", "calendar">>],
    [id |-> "bill",            asks |-> <<"report-get", "bill">>],
    [id |-> "checkcard",       asks |-> <<"report-get", "checkcard">>],
    [id |-> "entries_latest",  asks |-> <<"report-get", "entries_latest">>],
    [id |-> "custom_bs",       asks |-> <<"report_customs-list", "report_bs">>],
    [id |-> "custom_pl",       asks |-> <<"report_customs-list", "report_pl">>],
    [id |-> "budget_expenses", asks |-> <<"budget-get", "expenses">>],
    [id |-> "budget_income",   asks |-> <<"budget-get", "income">>],
    [id |-> "budget_goal",     asks |-> <<"budget_goal-get", "goal">>]>>

_ANALYSES == <<
    [id |-> "items",   asks |-> <<"report-get", "entries_items_of_account_id">>],
    [id |-> "clients", asks |-> <<"report-get", "entries_clients_of_account_id">>],
    [id |-> "changes", asks |-> <<"report-get", "entries_changes_of_account_id">>],
    [id |-> "flow",    asks |-> <<"report-get", "entries_flow_of_account_id">>]>>

Kind == {"reports", "flow"}

Menu(kind) == IF kind = "reports" THEN _build_menu ELSE _ANALYSES

\* The lines of this instance.
Lines(kind) == {n \in DOMAIN Menu(kind) : kind = "reports" => Menu(kind)[n].id \in Reports}

Ids(kind) == {Menu(kind)[n].id : n \in Lines(kind)}

First(kind) == Menu(kind)[CHOOSE n \in Lines(kind) : \A m \in Lines(kind) : n <= m].id

Asks(kind, id) == Menu(kind)[CHOOSE n \in Lines(kind) : Menu(kind)[n].id = id].asks

-------------------------------------------------------------------------------
(* What is made of an answer *)

Answer == {"none", "empty", "rows", "bare", "alien"}

\* Dicts with a total for each account or month; what is left is dumped.
_render_totals(a) == IF a = "rows" THEN "table" ELSE "raw"

\* The totals of the month are a text of their own.
_render_calendar(a) == IF a \in {"rows", "bare"} THEN "table" ELSE "raw"

_render_entries_latest(a) == IF a = "rows" THEN "table" ELSE "raw"

_render_budget(a) == IF a = "rows" THEN "table" ELSE "raw"

\* A dict without set_id, whatever else it has, is a goal that is not set.
_render_budget_goal(a) == CASE a = "rows" -> "table" [] a = "bare" -> "nothing" [] OTHER -> "raw"

_render_report_customs(a) == CASE a = "rows" -> "table" [] a = "bare" -> "nothing" [] OTHER -> "raw"

_render_card(a) == CASE a = "rows" -> "table" [] a = "bare" -> "nothing" [] OTHER -> "raw"

_RENDERERS(id, a) ==
    CASE id \in {"balance_sheet", "pl_summary", "monthly_trend", "in_out"} -> _render_totals(a)
      [] id = "calendar"                            -> _render_calendar(a)
      [] id \in {"bill", "checkcard"}               -> _render_card(a)
      [] id = "entries_latest"                      -> _render_entries_latest(a)
      [] id \in {"custom_bs", "custom_pl"}          -> _render_report_customs(a)
      [] id \in {"budget_expenses", "budget_income"} -> _render_budget(a)
      [] id = "budget_goal"                         -> _render_budget_goal(a)

\* None and what is empty have a notice of their own.
format_report_payload(id, a) == IF a \in {"none", "empty"} THEN "nothing" ELSE _RENDERERS(id, a)

\* Rows that are a list are drawn by _render_list.
_render_flow(a) ==
    CASE a \in {"none", "empty"} -> "nothing" [] a = "rows" -> "table" [] OTHER -> "raw"

Text(kind, id, a) == IF kind = "reports" THEN format_report_payload(id, a) ELSE _render_flow(a)

-------------------------------------------------------------------------------
(* The screen *)

Closed(kind, acts) ==
    [kind |-> kind, open |-> FALSE, highlighted |-> "", current |-> "", messages |-> << >>,
     timer |-> FALSE, request |-> NoRequest, title |-> [says |-> "", of |-> ""],
     content |-> [is |-> "", of |-> "", no |-> 0, rows |-> FALSE],
     refused |-> FALSE,      \* the last text could not be drawn
     asked |-> 0, acts |-> acts]

Init == \E kind \in Kind : pane = Closed(kind, 0)

Titled(p, says, id) == [p EXCEPT !.title = [says |-> says, of |-> id]]

\* A worker in the one exclusive group: the one before is cancelled.
_fetch_worker(p, id) ==
    [p EXCEPT !.request = [id |-> id, asks |-> Asks(p.kind, id)], !.asked = @ + 1]

\* Wrong variant: the item that is asked for is not remembered.
_fetch_for_forgets(p, id, force) ==
    LET q == Titled(p, "loading", id)
    IN  _fetch_worker(IF force THEN [q EXCEPT !.content.is = "again"] ELSE q, id)

\* The old report stays below the title "loading" unless the user insists.
_fetch_for(p, id, force) ==
    LET q == Titled([p EXCEPT !.current = id], "loading", id)
    IN  _fetch_worker(IF force THEN [q EXCEPT !.content.is = "again"] ELSE q, id)

_fetch(p, id) == _fetch_worker(Titled(p, "asks", id), id)

\* Both set the highlight, whose message comes later, and ask for the first line.
on_mount ==
    /\ ~ pane.open
    /\ LET id == First(pane.kind)
           p  == [Closed(pane.kind, pane.acts) EXCEPT
                    !.open = TRUE, !.highlighted = id, !.messages = <<<<"highlighted", id>>>>]
       IN  pane' = IF pane.kind = "reports" THEN _fetch_for(p, id, FALSE)
                   ELSE _fetch([p EXCEPT !.current = id], id)

\* A closed screen has no messages, timer or worker any more.
action_close == pane.open /\ pane' = Closed(pane.kind, pane.acts)

Act == pane.open /\ pane.acts < MaxActs

Move ==
    /\ Act
    /\ \E id \in Ids(pane.kind) \ {pane.highlighted} :
          pane' = [pane EXCEPT !.highlighted = id, !.acts = @ + 1,
                               !.messages = Append(@, <<"highlighted", id>>)]

\* Enter.  The flow screen has no handler for its message.
Select ==
    /\ Act
    /\ pane.kind = "reports"
    /\ pane' = [pane EXCEPT !.messages = Append(@, <<"selected", pane.highlighted>>), !.acts = @ + 1]

\* Only the flow screen has the key r.
action_refresh ==
    /\ Act
    /\ pane.kind = "flow"
    /\ pane' = _fetch([pane EXCEPT !.acts = @ + 1], pane.current)

Heard(kind, says) ==
    /\ pane.kind = kind
    /\ pane.messages # << >>
    /\ pane.messages[1][1] = says

Rest == [pane EXCEPT !.messages = Tail(@)]

on_option_list_option_highlighted ==
    /\ Heard("reports", "highlighted")
    /\ LET id == pane.messages[1][2]
       IN  pane' = IF id = pane.current THEN Rest ELSE _fetch_for(Rest, id, FALSE)

on_option_list_option_selected ==
    /\ Heard("reports", "selected")
    /\ pane' = _fetch_for(Rest, pane.messages[1][2], TRUE)

\* The timer starts anew with each line that is passed.
FlowHighlighted ==
    /\ Heard("flow", "highlighted")
    /\ LET id == pane.messages[1][2]
       IN  pane' = IF id = pane.current THEN Rest
                   ELSE Titled([Rest EXCEPT !.current = id, !.timer = TRUE], "waits", id)

FetchTimer ==
    /\ pane.timer
    /\ pane' = _fetch([pane EXCEPT !.timer = FALSE], pane.current)

-------------------------------------------------------------------------------
(* The end of a request *)

Written(p, says, id, is, a) ==
    [Titled(p, says, id) EXCEPT
        !.content = [is |-> is, of |-> id, no |-> p.asked, rows |-> a = "rows"], !.refused = FALSE]

Over == [pane EXCEPT !.request = NoRequest]

\* The title is set first; the reports screen then passes over what cannot be
\* drawn and keeps the text of before.
_show_error(id) ==
    \/ pane' = Written(Over, "error", id, "error", "none")
    \/ pane' = [Titled(Over, "error", id) EXCEPT !.refused = TRUE]

_render_payload(id, a) ==
    \/ pane' = Written(Over, "done", id, Text("reports", id, a), a)
    \/ pane' = [Titled(Over, "done", id) EXCEPT !.refused = TRUE]

\* Here an error ends the program.
_show(id, says, is, a) ==
    \/ pane' = Written(Over, says, id, is, a)
    \/ pane' = Closed(pane.kind, pane.acts)

\* A failure is shown whatever the screen is on, an answer only if it is still
\* for the current line.
Fails ==
    /\ pane.request # NoRequest
    /\ LET id == pane.request.id
       IN  IF pane.kind = "reports" THEN _show_error(id) ELSE _show(id, "error", "error", "none")

Answers ==
    /\ pane.request # NoRequest
    /\ LET id == pane.request.id
       IN  \E a \in Answer :
             IF id # pane.current THEN pane' = Over
             ELSE IF pane.kind = "reports" THEN _render_payload(id, a)
             ELSE _show(id, "done", Text("flow", id, a), a)

Next ==
    \/ on_mount \/ action_close
    \/ Move \/ Select \/ action_refresh
    \/ on_option_list_option_highlighted \/ on_option_list_option_selected \/ FlowHighlighted
    \/ FetchTimer
    \/ Fails \/ Answers

Spec == Init /\ [][Next]_pane

-------------------------------------------------------------------------------
(* What must hold *)

Settled == pane.open /\ pane.messages = << >> /\ ~ pane.timer /\ pane.request = NoRequest

\* What the user reads is the last answer about the highlighted line.
LastIsShown ==
    /\ pane.content.of = pane.highlighted
    /\ pane.content.no = pane.asked
    /\ pane.title.of = pane.highlighted

\* No answer with rows is called empty, and no other looks like a table of them.
TextIsTrue ==
    /\ pane.content.rows => pane.content.is \in {"table", "again"}
    /\ pane.content.is = "nothing" => ~ pane.content.rows

\* When nothing is under way, the right pane has the last answer, or its failure,
\* for the line that is highlighted on the left, however fast the user moved
\* through the menu and in whatever order answers came; a title that says done
\* always stands over its own report; and a report with rows is not shown as
\* empty (reports.py:566-650, account_flow.py:217-257).  The exception is a text
\* with markup that cannot be drawn.
ReportShownIsCurrent ==
    /\ Settled /\ ~ pane.refused => LastIsShown
    /\ pane.title.says \in {"done", "error"} /\ ~ pane.refused => pane.content.of = pane.title.of
    /\ TextIsTrue
===============================================================================
