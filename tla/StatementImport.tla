---------------------------- MODULE StatementImport ----------------------------
(***************************************************************************)
(* Entering the charges of a card statement that the ledger does not have  *)
(* yet (tui/screens/statement_import.py), with the log of what was entered *)
(* (statement_import_log in core/db.py) that later imports consult.        *)
(*                                                                         *)
(* One charge may stand in several statements, spelled differently.  The   *)
(* program sees day, amount and merchant only; which charge a row or an    *)
(* entry is about is known to the properties.  The two workers of the      *)
(* screen share one exclusive group: starting one cancels the other.       *)
(***************************************************************************)
EXTENDS Integers, Sequences, SequencesExt, FiniteSets

CONSTANTS
    Statements,   \* file -> rows [of, d, a, m]: charge, day, amount, merchant
    Alike,        \* pairs of different merchants that pass as one
    FirstEntries, \* the ledgers the program may start with: sequences of entries
    NoFile,       \* no statement open
    MaxOpens,     \* bound: statements opened
    MaxEntries    \* bound: entries of the ledger

VARIABLES
    entered,      \* the ledger as the server lists it, newest first
    logged,       \* statement_import_log: rows of status "inserted"
    open_file,    \* the statement on screen
    step,         \* what the screen is at
    offered,      \* proposals
    chosen,       \* _selected: indices of proposals
    suspect,      \* _suspect: indices of proposals
    todo,         \* rows the confirm worker still has to save
    sent,         \* the server entered the first of them, the answer is out
    failed,       \* error_lines is not empty
    opens,
    since,        \* number of entries when the screen was opened
    repeated,     \* charges confirmed again on the screen that had entered them
    unlogged      \* entries of which no log row was written: their numbers

importVars == <<entered, logged, open_file, step, offered, chosen, suspect, todo, sent,
                failed, opens, since, repeated, unlogged>>

File == DOMAIN Statements

\* An entry as the server returns it; with a serial number after its day
\* (plain = FALSE) the screen cannot read the day.
Entered(r, n, plain) == [of |-> r.of, d |-> r.d, a |-> r.a, m |-> r.m, n |-> n, plain |-> plain]

-------------------------------------------------------------------------------
(* What is new in a statement *)

merchant_similar(x, y) == x = y \/ {x, y} \in Alike

Apart(x, y) == IF x.d > y.d THEN x.d - y.d ELSE y.d - x.d

\* find_imports_by_natural_key, then find_imports_by_date_amount.
PreviouslyImported(r) ==
    \E l \in logged : l.d = r.d /\ l.a = r.a /\ merchant_similar(l.m, r.m)

\* Wrong variant: the window of the suspicion map.
Candidates_wide(r, used) ==
    {k \in 1 .. Len(entered) \ used :
        /\ entered[k].plain
        /\ Apart(entered[k], r) <= 7
        /\ entered[k].a = r.a}

Candidates(r, used) ==
    {k \in 1 .. Len(entered) \ used :
        /\ entered[k].plain
        /\ Apart(entered[k], r) <= 2
        /\ entered[k].a = r.a}

First(K) == CHOOSE k \in K : \A j \in K : k <= j

\* An entry of a similar merchant is preferred; each entry serves one row.
Match(r, used) ==
    LET like == {k \in Candidates(r, used) : merchant_similar(r.m, entered[k].m)}
    IN  IF like # {} THEN {First(like)}
        ELSE IF Candidates(r, used) # {} THEN {First(Candidates(r, used))} ELSE {}

SameInBatch(x, y) == x.d = y.d /\ x.a = y.a /\ x.m = y.m

\* A row is compared with the log, then with the ledger, then with the
\* proposals before it.
Sift(acc, r) ==
    IF PreviouslyImported(r) THEN acc
    ELSE IF Match(r, acc.used) # {} THEN [acc EXCEPT !.used = @ \cup Match(r, acc.used)]
    ELSE IF \E i \in DOMAIN acc.new : SameInBatch(acc.new[i], r) THEN acc
    ELSE [acc EXCEPT !.new = Append(@, r)]

_dedup(rows) ==
    LET sifted[n \in 0 .. Len(rows)] ==
            IF n = 0 THEN [used |-> {}, new |-> << >>] ELSE Sift(sifted[n - 1], rows[n])
    IN  sifted[Len(rows)].new

\* Within one and within ten per cent.
Off(e, r) == IF e.a > r.a THEN e.a - r.a ELSE r.a - e.a

_compute_suspect_map(rows) ==
    {i \in DOMAIN rows : \E k \in DOMAIN entered :
        LET e == entered[k]
            r == rows[i]
        IN  /\ e.plain
            /\ \/ e.a = r.a /\ Apart(e, r) \in 3 .. 7
               \/ e.a # r.a /\ Apart(e, r) <= 2 /\ 100 * Off(e, r) <= r.a
               \/ /\ e.a # r.a /\ Apart(e, r) <= 7 /\ 10 * Off(e, r) <= r.a
                  /\ merchant_similar(r.m, e.m)}

-------------------------------------------------------------------------------
Init ==
    /\ entered \in FirstEntries
    /\ logged = {}
    /\ open_file = NoFile /\ step = "picker"
    /\ offered = << >> /\ chosen = {} /\ suspect = {}
    /\ todo = << >> /\ sent = FALSE /\ failed = FALSE
    /\ opens = 0 /\ since = 0 /\ repeated = {}
    /\ unlogged = {e.n : e \in ToSet(entered)}

\* The wizard pushes the screen, which starts the extraction.
_import_card_statement_wizard(f) ==
    /\ step = "picker" /\ opens < MaxOpens
    /\ opens' = opens + 1
    /\ since' = Len(entered)
    /\ open_file' = f
    /\ step' = "loading"
    /\ offered' = << >> /\ chosen' = {} /\ suspect' = {}
    /\ UNCHANGED <<entered, logged, todo, sent, failed, repeated, unlogged>>

\* Format, password or adapter fails: the screen stays as it is.
ExtractFails ==
    /\ step = "loading" /\ step' = "idle"
    /\ UNCHANGED <<entered, logged, open_file, offered, chosen, suspect, todo, sent, failed,
                   opens, since, repeated, unlogged>>

_kick_off_extract ==
    /\ step = "loading" /\ step' = "ready"
    /\ offered' = _dedup(Statements[open_file])
    /\ suspect' = _compute_suspect_map(offered')
    /\ chosen' = DOMAIN offered'
    /\ UNCHANGED <<entered, logged, open_file, todo, sent, failed, opens, since, repeated, unlogged>>

Choose(set) ==
    /\ step \in {"loading", "idle", "ready", "starting", "saving"}
    /\ chosen' = set
    /\ UNCHANGED <<entered, logged, open_file, step, offered, suspect, todo, sent, failed,
                   opens, since, repeated, unlogged>>

action_toggle_select(i) ==
    i \in DOMAIN offered /\ Choose(IF i \in chosen THEN chosen \ {i} ELSE chosen \cup {i})

action_select_all == Choose(DOMAIN offered)
action_deselect_all == Choose({})
action_deselect_suspect == Choose(chosen \ suspect)

Selected ==
    LET picked[n \in 0 .. Len(offered)] ==
            IF n = 0 THEN << >>
            ELSE IF n \in chosen THEN Append(picked[n - 1], offered[n])
            ELSE picked[n - 1]
    IN  picked[Len(offered)]

\* Made, but not logged: the worker was stopped in between.
Cut == IF sent THEN {entered[1].n} ELSE {}

\* Ctrl+S.  It cancels a running extraction or save first; a save starts
\* again at the first chosen row.
action_confirm ==
    /\ step \in {"loading", "idle", "ready", "starting", "saving"}
    /\ unlogged' = unlogged \cup Cut
    /\ sent' = FALSE
    /\ failed' = FALSE
    /\ repeated' = repeated \cup {c \in {r.of : r \in ToSet(Selected)} :
                                 \E k \in DOMAIN entered : entered[k].n > since /\ entered[k].of = c}
    /\ IF offered = << >> \/ Selected = << >> THEN step' = "idle" /\ todo' = << >>
       ELSE step' = "starting" /\ todo' = Selected
    /\ UNCHANGED <<entered, logged, open_file, offered, chosen, suspect, opens, since>>

\* Without the list of accounts everything is reported as failed.
AccountsAnswer(ok) ==
    /\ step = "starting"
    /\ step' = IF ok THEN "saving" ELSE "result"
    /\ failed' = ~ok
    /\ todo' = IF ok THEN todo ELSE << >>
    /\ UNCHANGED <<entered, logged, open_file, offered, chosen, suspect, sent, opens, since,
                   repeated, unlogged>>

CreateEntry(plain) ==
    /\ step = "saving" /\ ~sent
    /\ Len(entered) < MaxEntries
    /\ entered' = <<Entered(Head(todo), Len(entered) + 1, plain)>> \o entered
    /\ sent' = TRUE
    /\ UNCHANGED <<logged, open_file, step, offered, chosen, suspect, todo, failed, opens, since,
                   repeated, unlogged>>

NextRow ==
    /\ todo' = Tail(todo)
    /\ step' = IF Tail(todo) = << >> THEN "result" ELSE "saving"
    /\ sent' = FALSE

\* Wrong variant: only what failed is logged.
LogImport_not(r) == logged' = logged

LogImport(r) == logged' = logged \cup {[d |-> r.d, a |-> r.a, m |-> r.m]}

RowSaved ==
    /\ step = "saving" /\ sent
    /\ LogImport(Head(todo))
    /\ NextRow
    /\ UNCHANGED <<entered, open_file, offered, chosen, suspect, failed, opens, since, repeated, unlogged>>

\* The request fails, before or after the server entered the row.
RowFails ==
    /\ step = "saving"
    /\ failed' = TRUE
    /\ unlogged' = unlogged \cup Cut
    /\ NextRow
    /\ UNCHANGED <<entered, logged, open_file, offered, chosen, suspect, opens, since, repeated>>

\* Esc, OK in the result, or the end of the program: the worker stops where
\* it is; the ledger and the log stay.
action_back ==
    /\ step # "picker"
    /\ step' = "picker" /\ open_file' = NoFile
    /\ offered' = << >> /\ chosen' = {} /\ suspect' = {}
    /\ todo' = << >> /\ sent' = FALSE /\ failed' = FALSE
    /\ unlogged' = unlogged \cup Cut
    /\ UNCHANGED <<entered, logged, opens, since, repeated>>

Next ==
    \/ \E f \in File : _import_card_statement_wizard(f)
    \/ ExtractFails \/ _kick_off_extract
    \/ \E i \in DOMAIN offered : action_toggle_select(i)
    \/ action_select_all \/ action_deselect_all \/ action_deselect_suspect
    \/ action_confirm
    \/ \E ok \in BOOLEAN : AccountsAnswer(ok)
    \/ \E plain \in BOOLEAN : CreateEntry(plain)
    \/ RowSaved \/ RowFails
    \/ action_back

Spec == Init /\ [][Next]_importVars

-------------------------------------------------------------------------------
AllRows == UNION {ToSet(Statements[f]) : f \in File}

Known == AllRows \cup UNION {ToSet(s) : s \in FirstEntries}

\* Another charge of the same amount within four days.
Crowded(c) ==
    \E x, y \in Known : x.of = c /\ y.of # c /\ x.a = y.a /\ Apart(x, y) <= 4

\* A charge is entered twice only if it was confirmed again on the screen that
\* had entered it, or the first entry is in no log, made by hand or by a worker that was
\* stopped, and either its day cannot be read or another charge of that amount is near -
\* however often imports fail, are left or stopped, and from whichever statements the
\* charge comes.
EnteredOnce ==
    \A i, j \in DOMAIN entered :
        i < j /\ entered[i].of = entered[j].of =>
            \/ entered[j].of \in repeated
            \/ /\ entered[j].n \in unlogged
               /\ ~entered[j].plain \/ Crowded(entered[j].of)

\* A charge the ledger does not have is offered, unless another one of its
\* amount is near.
MissingOffered ==
    step = "ready" =>
        \A r \in ToSet(Statements[open_file]) :
            \/ \E k \in DOMAIN entered : entered[k].of = r.of
            \/ Crowded(r.of)
            \/ r \in ToSet(offered)
===============================================================================
