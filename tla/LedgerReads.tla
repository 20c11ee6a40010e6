----------------------------- MODULE LedgerReads -----------------------------
(***************************************************************************)
(* How lists of entries reach the screens: WhooingClient.list_entries      *)
(* (tui/src/whooing_tui/client.py) gathers one list from several requests, *)
(* because the server answers at most `Cap' rows of at most a year, and    *)
(* CachedWhooingClient stores the list per window of dates and drops the   *)
(* windows that a change of the program makes wrong.                       *)
(*                                                                         *)
(* Workers of different groups read at the same time: the table, the       *)
(* filter, the scans, the statement import and the receipts.  The ledger   *)
(* changes between two requests of one list, by a write of this program or *)
(* by another client.  An entry is its date here.                          *)
(*                                                                         *)
(* Auxiliary: touched and short of a list, spoiled of a stored window.     *)
(* They record what the list could not know; no action reads them.         *)
(***************************************************************************)
EXTENDS Integers, FiniteSets

CONSTANTS
    Entry,       \* ids the server gives to entries
    Reader,      \* workers that list entries
    LastDay,     \* bound: dates are 1..LastDay
    Cap,         \* rows the server answers at most (100)
    Year,        \* days a request may span beyond its first (365)
    Windows,     \* windows of dates the readers ask for
    Before,      \* the ledgers an instance starts from
    May,         \* circumstances this instance allows
    MaxChanges   \* bound: writes and changes by other clients

Circumstance == {
    "external",  \* another client changes the ledger
    "lost",      \* a write is applied and its answer is lost
    "oldrow" }   \* a delete is told the date of a row that has moved since

Day == 1..LastDay
NoDay == 0

DateRange == {w \in [from : Day, to : Day] : w.from <= w.to}

Ledger == [Entry -> Day \cup {NoDay}]

ASSUME ReadsAssumption ==
    /\ IsFiniteSet(Entry)
    /\ LastDay \in Nat
    /\ Cap \in Nat \ {0}
    /\ Year \in Nat
    /\ Windows \subseteq DateRange
    /\ Before \subseteq Ledger
    /\ May \subseteq Circumstance
    /\ MaxChanges \in Nat

VARIABLES
    ledger,   \* the server: id -> date, or NoDay
    unused,   \* ids the server has yet to give out
    lists,    \* reader -> the list it is gathering
    stored,   \* window -> the stored list (cache.py, entries_cache)
    write,    \* a create, update or delete in flight
    changes   \* counts up to MaxChanges

vars == <<ledger, unused, lists, stored, write, changes>>

\* todo: what the list has yet to ask for; touched: entries that changed since
\* the list began; short: dates with more than Cap entries.
List   == [window : Windows, todo : SUBSET DateRange, rows : Ledger,
           touched : SUBSET Entry, short : SUBSET Day]
NoList == [window |-> "none"]

Stored    == [kept : BOOLEAN, rows : Ledger, spoiled : BOOLEAN]
NoRows    == [e \in Entry |-> NoDay]
NotStored == [kept |-> FALSE, rows |-> NoRows, spoiled |-> FALSE]

\* day: the new date of a create or update, the date a delete is told or NoDay;
\* unsure: the delete was answered with an error.
Write   == [kind : {"create", "update", "delete"}, entry : Entry, day : Day \cup {NoDay},
            applied : BOOLEAN, unsure : BOOLEAN]
NoWrite == [kind |-> "none"]

TypeOK ==
    /\ ledger \in Ledger
    /\ unused \subseteq Entry
    /\ lists \in [Reader -> List \cup {NoList}]
    /\ stored \in [Windows -> Stored]
    /\ write \in Write \cup {NoWrite}
    /\ changes \in 0..MaxChanges

Init ==
    /\ ledger \in Before
    /\ unused = {e \in Entry : ledger[e] = NoDay}
    /\ lists = [r \in Reader |-> NoList]
    /\ stored = [w \in Windows |-> NotStored]
    /\ write = NoWrite
    /\ changes = 0

Reading(r) == lists[r] # NoList

In(w, d) == w.from <= d /\ d <= w.to

Within(w) == {e \in Entry : In(w, ledger[e])}

\* The list of the window as the ledger has it now.
Actual(w) == [e \in Entry |-> IF In(w, ledger[e]) THEN ledger[e] ELSE NoDay]

-------------------------------------------------------------------------------
(* Listing *)

\* A stored list that is young enough is answered at once, without a state
\* change.
Ask(r, w) ==
    /\ ~ Reading(r)
    /\ ~ stored[w].kept
    /\ lists' = [lists EXCEPT ![r] = [window |-> w, todo |-> {w}, rows |-> NoRows,
                                      touched |-> {}, short |-> {}]]
    /\ UNCHANGED <<ledger, unused, stored, write, changes>>

\* The leftmost range that is yet to be asked for.
First(r) == {w \in lists[r].todo : \A v \in lists[r].todo : w.from <= v.from}

Piece(a, b) == [from |-> a, to |-> b]

\* One turn of the loop of split_yearly_ranges.
SplitYear(r) ==
    /\ Reading(r)
    /\ \E w \in First(r) :
          /\ w.to - w.from > Year
          /\ lists' = [lists EXCEPT ![r].todo =
                          (@ \ {w}) \cup {Piece(w.from, w.from + Year),
                                          Piece(w.from + Year + 1, w.to)}]
    /\ UNCHANGED <<ledger, unused, stored, write, changes>>

\* Wrong variant: both halves have the middle day.
Halves_overlap(w) ==
    LET mid == w.from + ((w.to - w.from) \div 2)
    IN  {Piece(w.from, mid), Piece(mid, w.to)}

\* Wrong variant: the day after the middle is left out.
Halves_gap(w) ==
    LET mid == w.from + ((w.to - w.from) \div 2)
    IN  {Piece(w.from, mid)} \cup (IF mid + 2 <= w.to THEN {Piece(mid + 2, w.to)} ELSE {})

Halves(w) ==
    LET mid == w.from + ((w.to - w.from) \div 2)
    IN  {Piece(w.from, mid), Piece(mid + 1, w.to)}

\* The rows the server answers for a range: all, or any Cap of them.
Answers(w) ==
    {got \in SUBSET Within(w) :
        IF Cardinality(Within(w)) <= Cap THEN got = Within(w)
        ELSE Cardinality(got) = Cap}

\* A full answer of more than one day.
TooMany(w, got) == Cardinality(got) >= Cap /\ w.from # w.to

\* The list keeps the first date it saw of an entry.
Kept(rows, got) ==
    [e \in Entry |-> IF rows[e] = NoDay /\ e \in got THEN ledger[e] ELSE rows[e]]

\* Fewer than Cap rows are all there are.  A full answer is thrown away and its
\* range halved, unless it is a single day, which cannot be.
Request(r) ==
    /\ Reading(r)
    /\ \E w \in First(r) :
          /\ w.to - w.from <= Year
          /\ \E got \in Answers(w) :
                lists' =
                  IF TooMany(w, got)
                  THEN [lists EXCEPT ![r].todo = (@ \ {w}) \cup Halves(w)]
                  ELSE [lists EXCEPT
                          ![r].todo  = @ \ {w},
                          ![r].rows  = Kept(@, got),
                          ![r].short = IF Cardinality(Within(w)) > Cap
                                       THEN @ \cup {w.from} ELSE @]
    /\ UNCHANGED <<ledger, unused, stored, write, changes>>

\* The list is stored for its window, whatever was dropped meanwhile.
Store(r) ==
    /\ Reading(r)
    /\ lists[r].todo = {}
    /\ stored' = [stored EXCEPT ![lists[r].window] =
                     [kept |-> TRUE, rows |-> lists[r].rows,
                      spoiled |-> lists[r].touched # {} \/ lists[r].short # {}]]
    /\ lists' = [lists EXCEPT ![r] = NoList]
    /\ UNCHANGED <<ledger, unused, write, changes>>

\* A request fails, or the reader's worker is cancelled.
GiveUp(r) ==
    /\ Reading(r)
    /\ lists' = [lists EXCEPT ![r] = NoList]
    /\ UNCHANGED <<ledger, unused, stored, write, changes>>

\* A list is good for five minutes, or until the refresh key drops it.
Expire(w) ==
    /\ stored[w].kept
    /\ stored' = [stored EXCEPT ![w] = NotStored]
    /\ UNCHANGED <<ledger, unused, lists, write, changes>>

-------------------------------------------------------------------------------
(* Writing *)

Start(kind, e, d) ==
    /\ write = NoWrite
    /\ changes < MaxChanges
    /\ changes' = changes + 1
    /\ write' = [kind |-> kind, entry |-> e, day |-> d,
                 applied |-> FALSE, unsure |-> FALSE]
    /\ UNCHANGED <<ledger, unused, lists, stored>>

create_entry(d) == \E e \in unused : Start("create", e, d)

update_entry(e, d) == ledger[e] # NoDay /\ Start("update", e, d)

\* The entries screen tells the date of its row, the duplicates screen does not.
delete_entry(e) ==
    /\ ledger[e] # NoDay
    /\ \E d \in {ledger[e], NoDay} \cup (IF "oldrow" \in May THEN Day ELSE {}) :
          Start("delete", e, d)

Touch(e) ==
    lists' = [r \in Reader |-> IF Reading(r) THEN [lists[r] EXCEPT !.touched = @ \cup {e}]
                               ELSE NoList]

Apply ==
    /\ write # NoWrite
    /\ ~ write.applied
    /\ ~ write.unsure
    /\ write.kind = "create" => write.entry \in unused
    /\ write.kind = "update" => ledger[write.entry] # NoDay
    /\ ledger' = [ledger EXCEPT ![write.entry] =
                     IF write.kind = "delete" THEN NoDay ELSE write.day]
    /\ unused' = unused \ {write.entry}
    /\ write' = [write EXCEPT !.applied = TRUE]
    /\ Touch(write.entry)
    /\ UNCHANGED <<stored, changes>>

\* The server refuses, the request fails, or the look after a failed delete does.
Refuse ==
    /\ write # NoWrite
    /\ ~ write.applied
    /\ write' = NoWrite
    /\ UNCHANGED <<ledger, unused, lists, stored, changes>>

\* Wrong variant: the borders of a window do not count.
Dropped_inside(d) == {w \in Windows : d = NoDay \/ (w.from < d /\ d < w.to)}

\* The windows a change on date d concerns; without a date, all.
Dropped(d) == {w \in Windows : d = NoDay \/ In(w, d)}

Drop(ws) == stored' = [w \in Windows |-> IF w \in ws THEN NotStored ELSE stored[w]]

\* An update may change the date, so it drops every window.
Succeed ==
    /\ write # NoWrite
    /\ write.applied
    /\ ~ write.unsure
    /\ Drop(IF write.kind = "update" THEN Windows ELSE Dropped(write.day))
    /\ write' = NoWrite
    /\ UNCHANGED <<ledger, unused, lists, changes>>

Spoil == [w \in Windows |-> [stored[w] EXCEPT !.spoiled = TRUE]]

\* No answer, an error for a delete without a date, or a look that fails after
\* the delete was applied: the windows stay.
Lost ==
    /\ "lost" \in May
    /\ write # NoWrite
    /\ write.applied
    /\ write' = NoWrite
    /\ stored' = Spoil
    /\ UNCHANGED <<ledger, unused, lists, changes>>

\* The official tool answers a delete with an error, applied or not: with a date,
\* the day's list tells.
DeleteError ==
    /\ write # NoWrite
    /\ write.kind = "delete"
    /\ ~ write.unsure
    /\ write.day # NoDay
    /\ write' = [write EXCEPT !.unsure = TRUE]
    /\ UNCHANGED <<ledger, unused, lists, stored, changes>>

\* Wrong variant: a failed look is taken for an absent entry.
EntryAbsent_any(got) == TRUE

EntryAbsent(got) == write.entry \notin got

Verify ==
    /\ write # NoWrite
    /\ write.unsure
    /\ \E got \in Answers(Piece(write.day, write.day)) :
          IF EntryAbsent(got) THEN Drop(Dropped(write.day)) ELSE UNCHANGED stored
    /\ write' = NoWrite
    /\ UNCHANGED <<ledger, unused, lists, changes>>

\* Another client creates, moves or deletes an entry.
External(e, d) ==
    /\ "external" \in May
    /\ changes < MaxChanges
    /\ changes' = changes + 1
    /\ ledger[e] # d
    /\ ledger[e] = NoDay => e \in unused
    /\ write # NoWrite => write.entry # e
    /\ ledger' = [ledger EXCEPT ![e] = d]
    /\ unused' = unused \ {e}
    /\ stored' = Spoil
    /\ Touch(e)
    /\ UNCHANGED write

-------------------------------------------------------------------------------

ListStep(r) == SplitYear(r) \/ Request(r) \/ Store(r)

Next ==
    \/ \E r \in Reader :
          \/ \E w \in Windows : Ask(r, w)
          \/ SplitYear(r)
          \/ Request(r)
          \/ Store(r)
          \/ GiveUp(r)
    \/ \E w \in Windows : Expire(w)
    \/ \E d \in Day : create_entry(d)
    \/ \E e \in Entry : delete_entry(e) \/ \E d \in Day : update_entry(e, d)
    \/ Apply
    \/ Refuse
    \/ Succeed
    \/ Lost
    \/ DeleteError
    \/ Verify
    \/ \E e \in Entry, d \in Day \cup {NoDay} : External(e, d)

Spec == Init /\ [][Next]_vars

\* A request is answered, or the HTTP client times out.
Fairness == \A r \in Reader : WF_vars(ListStep(r))

FairSpec == Spec /\ Fairness

-------------------------------------------------------------------------------
(* Properties *)

\* A list that has nothing left to ask for has every entry of its window at its
\* date, and no other, for all entries that did not change while it was gathered
\* and whose date had at most Cap entries: yearly ranges and halves leave no gap,
\* and a full answer is never taken for a complete one.
ListsComplete ==
    \A r \in Reader :
        Reading(r) /\ lists[r].todo = {} =>
            \A e \in Entry \ lists[r].touched :
                ledger[e] \notin lists[r].short
                => lists[r].rows[e] = Actual(lists[r].window)[e]

\* With no write in flight, a stored list is the one the ledger would give,
\* unless the ledger changed while it was gathered, another client changed it
\* since, or the answer of a write was lost: selective dropping by date
\* (cache.py, invalidate_entries) drops enough.
StoredIsCurrent ==
    write = NoWrite =>
        \A w \in Windows :
            stored[w].kept /\ ~ stored[w].spoiled => stored[w].rows = Actual(w)

\* A delete that is reported as done is done, also after an error of the official
\* tool (_entry_absent), as long as an answer can hold the entries of its day.
DeleteConfirmed ==
    [][(/\ write # NoWrite
        /\ write.kind = "delete"
        /\ write' = NoWrite
        /\ stored' # stored
        /\ Cardinality(Within(Piece(write.day, write.day))) <= Cap)
       => ledger[write.entry] = NoDay]_vars

\* Every list ends: halving a window reaches single days.
ListsEnd == \A r \in Reader : Reading(r) ~> ~ Reading(r)
===============================================================================
