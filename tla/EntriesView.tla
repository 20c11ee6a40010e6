----------------------------- MODULE EntriesView -----------------------------
(***************************************************************************)
(* The table of the entries screen (tui/screens/entries.py): the entries   *)
(* of the last days, a filter over them, and the worker that extends a     *)
(* filter into the past.                                                   *)
(*                                                                         *)
(* A filter shows the matching entries of the window and of entries_cache  *)
(* at once and starts the worker, which lists one range after the other    *)
(* and adds what matches.  Clearing the filter and a refresh bump an epoch *)
(* the worker looks at after every await.  Refreshes are workers of their  *)
(* own group: a filter, a clear or a switch of the section happens while   *)
(* one waits.                                                              *)
(*                                                                         *)
(* An entry has a section, an age in days and a value, the column the      *)
(* filter looks at; changes of dates and stored windows are in LedgerReads *)
(* and a list answers here with the ledger of the moment it arrives.  At   *)
(* most one extending worker exists, so whether its epoch is the screen's  *)
(* is all the counter tells.                                               *)
(***************************************************************************)
EXTENDS Integers, Sequences, FiniteSets

CONSTANTS
    Entry,      \* entries of the ledger
    Section,    \* sections of the ledger
    Value,      \* values of the column
    None,       \* no row
    NoFilter, TagFilter,  \* of `filter' besides the values
    Home,       \* the section of an entry
    Age,        \* the age of an entry in days
    Like,       \* the values a filter on a value finds (equal, or a word in common)
    Tagged,     \* entries with the hashtag
    Windows,    \* ages the table can be made to reach to
    Steps,      \* ages the worker reaches to, one list after the other
    Before,     \* ledgers and mirrors an instance starts from
    May,        \* circumstances this instance allows
    MaxChanges  \* bound: changes of the ledger

Circumstance == {
    "change",  \* an entry is created, changed or deleted, elsewhere
    "switch",  \* the user switches the section
    "fail" }   \* a list is refused or times out

Rows == [Entry -> Value \cup {None}]

ASSUME ViewAssumption ==
    /\ Home \in [Entry -> Section] /\ Age \in [Entry -> Nat]
    /\ Like \in [Value -> SUBSET Value]
    /\ Tagged \subseteq Entry
    /\ Windows \subseteq Nat
    /\ Steps \in Seq(Nat)
    /\ None \notin Value /\ NoFilter \notin Value /\ TagFilter \notin Value
    /\ NoFilter # TagFilter
    /\ Before \subseteq [ledger : Rows, mirror : Rows]
    /\ May \subseteq Circumstance
    /\ MaxChanges \in Nat

VARIABLES
    ledger,   \* the server
    mirror,   \* entries_cache, of every section
    section,  \* session.section_id
    window,   \* _window_days
    all,      \* _all_entries
    shown,    \* _entries
    extra,    \* _filter_extra
    filter,   \* _active_filter
    refresh,  \* a refresh waits for its list
    expand,   \* the worker that extends the filter
    loaded,   \* history: the section `all' was listed for
    touched,  \* history: entries that changed since `all' was listed, if it was
    hit,      \* history: what went wrong since `all' was listed
    changes   \* counts up to MaxChanges

table   == <<all, shown, extra>>
server  == <<ledger, touched, changes>>
vars    == <<ledger, mirror, section, window, all, shown, extra, filter, refresh, expand,
             loaded, touched, hit, changes>>

NoRows == [e \in Entry |-> None]

\* current: its epoch is the screen's; next: the step it asked for; oldest: the age
\* it has searched to; failed: some list did.
Expand == [state : {"begun", "asked", "ended"}, value : Value, current : BOOLEAN,
           section : Section, next : Nat, oldest : Nat, combined : Rows, failed : BOOLEAN]
NoExpand == [state |-> "none"]

Waits    == expand.state \in {"begun", "asked"}
Overtake == Waits /\ expand.current

TypeOK ==
    /\ ledger \in Rows /\ mirror \in Rows
    /\ section \in Section /\ window \in Windows
    /\ all \in Rows /\ shown \in Rows /\ extra \in Rows
    /\ filter \in Value \cup {NoFilter, TagFilter}
    /\ refresh \in BOOLEAN
    /\ expand \in Expand \cup {NoExpand}
    /\ loaded \in Section /\ touched \subseteq Entry
    /\ hit \subseteq {"escaped", "failed"}
    /\ changes \in 0..MaxChanges
    /\ expand.state = "asked" => expand.next \in 1..Len(Steps)

Init ==
    /\ \E b \in Before : ledger = b.ledger /\ mirror = b.mirror
    /\ section \in Section /\ window \in Windows
    /\ all = NoRows /\ shown = NoRows /\ extra = NoRows
    /\ filter = NoFilter
    /\ refresh = TRUE /\ expand = NoExpand
    /\ loaded = section /\ touched = Entry /\ hit = {} /\ changes = 0

-------------------------------------------------------------------------------
(* Rows *)

Has(rows) == {e \in Entry : rows[e] # None}

\* filter_entries: one column, one target.
Matching(rows, v) == [e \in Entry |-> IF rows[e] \in Like[v] THEN rows[e] ELSE None]

\* The row of the first list wins.
Combine(first, second) == [e \in Entry |-> IF first[e] # None THEN first[e] ELSE second[e]]

\* The rows of a section with ages from a range.
Listed(s, from, to) ==
    [e \in Entry |-> IF Home[e] = s /\ Age[e] \in from..to THEN ledger[e] ELSE None]

\* _window_oldest_yyyymmdd, or today for an empty table.
Oldest(age) ==
    \/ Has(all) = {} /\ age = 0
    \/ /\ \E e \in Has(all) : Age[e] = age
       /\ \A e \in Has(all) : Age[e] <= age

Ages == {0} \cup {Age[e] : e \in Entry}

-------------------------------------------------------------------------------
(* refresh_entries, an exclusive worker *)

Bumped == IF expand = NoExpand THEN expand ELSE [expand EXCEPT !.current = FALSE]

\* After a change or a screen that was closed; the list that waits is dropped.
refresh_entries ==
    /\ refresh' = TRUE
    /\ UNCHANGED <<server, mirror, section, window, table, filter, expand, loaded, hit>>

action_refresh ==
    /\ filter' = NoFilter
    /\ refresh' = TRUE
    /\ UNCHANGED <<server, mirror, section, window, table, expand, loaded, hit>>

ResizeWindow(w) ==
    /\ w # window
    /\ window' = w
    /\ refresh' = TRUE
    /\ UNCHANGED <<server, mirror, section, table, filter, expand, loaded, hit>>

\* The rows of the old section stay until the list arrives.
action_open_sections(s) ==
    /\ "switch" \in May
    /\ s # section
    /\ section' = s
    /\ refresh' = TRUE
    /\ UNCHANGED <<server, mirror, window, table, filter, expand, loaded, hit>>

\* Everything after the await; the filter that was active stays `active'.
RefreshApply ==
    /\ refresh
    /\ refresh' = FALSE
    /\ all' = Listed(section, 0, window)
    /\ shown' = all'
    /\ expand' = Bumped
    /\ extra' = NoRows
    /\ mirror' = Combine(all', mirror)
    /\ loaded' = section /\ touched' = {} /\ hit' = {}
    /\ UNCHANGED <<ledger, changes, section, window, filter>>

RefreshFails ==
    /\ "fail" \in May
    /\ refresh
    /\ refresh' = FALSE
    /\ hit' = hit \cup {"failed"}
    /\ UNCHANGED <<server, mirror, section, window, table, filter, expand, loaded>>

-------------------------------------------------------------------------------
(* Filters *)

\* Mirrored rows older than the table's.
CacheExtras(v) ==
    [e \in Entry |->
        IF /\ Home[e] = section /\ mirror[e] \in Like[v] /\ all[e] = None
           /\ \A f \in Has(all) : Age[f] < Age[e]
        THEN mirror[e] ELSE None]

\* Enter on a cell; the worker that runs is cancelled (exclusive group).
_apply_filter(e) ==
    LET v == shown[e] IN
    /\ e \in Has(shown)
    /\ filter' = v
    /\ extra' = CacheExtras(v)
    /\ shown' = Combine(Matching(all, v), CacheExtras(v))
    /\ expand' = [state |-> "begun", value |-> v, current |-> TRUE, section |-> section,
                  next |-> 0, oldest |-> 0, combined |-> NoRows, failed |-> FALSE]
    /\ UNCHANGED <<server, mirror, section, window, all, refresh, loaded, hit>>

MarkEscaped == hit' = IF Overtake THEN hit \cup {"escaped"} ELSE hit

\* Enter on a hashtag of a row: neither the epoch nor the extra rows change.
_apply_tag_filter ==
    LET tagged == [e \in Entry |-> IF e \in Tagged THEN all[e] ELSE None] IN
    /\ Has(shown) \cap Has(tagged) # {}
    /\ filter' = TagFilter
    /\ shown' = tagged
    /\ MarkEscaped
    /\ UNCHANGED <<server, mirror, section, window, all, extra, refresh, expand, loaded>>

\* Wrong variant: the epoch is not bumped.
action_clear_filter_same_epoch ==
    /\ filter # NoFilter
    /\ filter' = NoFilter
    /\ extra' = NoRows
    /\ shown' = all
    /\ UNCHANGED <<server, mirror, section, window, all, refresh, expand, loaded, hit>>

action_clear_filter ==
    /\ filter # NoFilter
    /\ filter' = NoFilter
    /\ expand' = Bumped
    /\ extra' = NoRows
    /\ shown' = all
    /\ UNCHANGED <<server, mirror, section, window, all, refresh, loaded, hit>>

\* Escape, which leaves the epoch alone.
action_deactivate_column ==
    /\ filter # NoFilter
    /\ filter' = NoFilter
    /\ shown' = all
    /\ MarkEscaped
    /\ UNCHANGED <<server, mirror, section, window, all, extra, refresh, expand, loaded>>

-------------------------------------------------------------------------------
(* _expand_filter_in_past *)

\* A step that reaches no further than the day after the oldest is skipped.
Reaches(i, oldest) == Steps[i] > oldest + 1

\* On to the next list, or the end; w is the worker with what it knows by now.
Advance(w, from) ==
    \/ \E i \in from..Len(Steps) :
           /\ Reaches(i, w.oldest)
           /\ \A j \in from..(i - 1) : ~ Reaches(j, w.oldest)
           /\ expand' = [w EXCEPT !.state = "asked", !.next = i]
    \/ /\ \A i \in from..Len(Steps) : ~ Reaches(i, w.oldest)
       /\ expand' = [w EXCEPT !.state = "ended", !.next = 0, !.combined = NoRows]

\* The worker gets to run: what it knows is of the table as it is now.
Begin ==
    /\ expand.state = "begun"
    /\ IF ~ expand.current THEN expand' = NoExpand
       ELSE \E age \in Ages :
                /\ Oldest(age)
                /\ Advance([expand EXCEPT !.section = section, !.oldest = age,
                                !.combined = Combine(Matching(all, expand.value), extra)], 1)
    /\ UNCHANGED <<server, mirror, section, window, table, filter, refresh, loaded, hit>>

Asked == Listed(expand.section, expand.oldest + 1, Steps[expand.next])

Answer ==
    /\ expand.state = "asked"
    /\ IF ~ expand.current
       THEN expand' = NoExpand /\ UNCHANGED <<mirror, table>>
       ELSE LET fresh    == [e \in Entry |-> IF all[e] = None /\ extra[e] = None
                                             THEN Matching(Asked, expand.value)[e] ELSE None]
                combined == Combine(expand.combined, fresh) IN
            /\ mirror' = Combine(Asked, mirror)
            /\ extra' = Combine(extra, fresh)
            /\ shown' = IF Has(fresh) = {} THEN shown ELSE combined
            /\ Advance([expand EXCEPT !.combined = combined, !.oldest = Steps[expand.next]],
                       expand.next + 1)
            /\ UNCHANGED all
    /\ UNCHANGED <<server, section, window, filter, refresh, loaded, hit>>

\* Wrong variant: the range of a list that failed counts as searched.
AnswerFails_searched ==
    /\ "fail" \in May
    /\ expand.state = "asked"
    /\ IF ~ expand.current THEN expand' = NoExpand
       ELSE Advance([expand EXCEPT !.failed = TRUE, !.oldest = Steps[expand.next]],
                    expand.next + 1)
    /\ UNCHANGED <<server, mirror, section, window, table, filter, refresh, loaded, hit>>

\* The next step asks for the range of the list that failed as well.
AnswerFails ==
    /\ "fail" \in May
    /\ expand.state = "asked"
    /\ IF ~ expand.current THEN expand' = NoExpand
       ELSE Advance([expand EXCEPT !.failed = TRUE], expand.next + 1)
    /\ UNCHANGED <<server, mirror, section, window, table, filter, refresh, loaded, hit>>

-------------------------------------------------------------------------------
Change(e, v) ==
    /\ "change" \in May
    /\ changes < MaxChanges
    /\ v # ledger[e]
    /\ ledger' = [ledger EXCEPT ![e] = v]
    /\ touched' = touched \cup {e}
    /\ changes' = changes + 1
    /\ UNCHANGED <<mirror, section, window, table, filter, refresh, expand, loaded, hit>>

Next ==
    \/ refresh_entries \/ action_refresh \/ RefreshApply \/ RefreshFails
    \/ \E w \in Windows : ResizeWindow(w)
    \/ \E s \in Section : action_open_sections(s)
    \/ \E e \in Entry : _apply_filter(e)
    \/ _apply_tag_filter \/ action_clear_filter \/ action_deactivate_column
    \/ Begin \/ Answer \/ AnswerFails
    \/ \E e \in Entry, v \in Value \cup {None} : Change(e, v)

Spec == Init /\ [][Next]_vars

-------------------------------------------------------------------------------
(* Properties *)

\* _apply_filter: "clearing the filter bumps the epoch, so that the worker drops its
\* results".  Without a filter the table has all entries of the window.
ShownIsAll == filter = NoFilter /\ ~ refresh => shown = all

\* The same, but for an escape or a hashtag that overtakes the worker and for a
\* refresh that failed since the table was loaded.
ShownIsAllElse == hit = {} => ShownIsAll

\* A filter that has been extended to the end shows what it should: only rows that
\* match, and every match of the ages it has searched that did not change since the
\* table was loaded; and it has searched all steps unless a list failed, but for one
\* day when the oldest row is just short of the last step.
FilterExact ==
    /\ expand.state = "ended" /\ expand.current /\ filter = expand.value
    /\ loaded = expand.section
    =>
    /\ \A e \in Has(shown) : shown[e] \in Like[expand.value]
    /\ \A e \in Entry \ touched :
           Home[e] = loaded /\ Age[e] <= expand.oldest /\ ledger[e] \in Like[expand.value] =>
               e \in Has(shown)
    /\ ~ expand.failed =>
           \A i \in 1..Len(Steps) : Steps[i] <= expand.oldest + 1
===============================================================================
