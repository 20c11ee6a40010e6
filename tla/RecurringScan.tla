---------------------------- MODULE RecurringScan ----------------------------
(***************************************************************************)
(* Looking for payments that are missing from a rhythm                     *)
(* (core/recurring.py), keeping what was found with the user's verdicts    *)
(* (tui/recurring_scan_repo.py), and the screen over it                    *)
(* (tui/screens/recurring_scan.py, entries_scan.py).                       *)
(*                                                                         *)
(* A series is a pair of accounts and an item.  Days are counted; the      *)
(* calendar is a sequence of month lengths.  Payments of one series on one *)
(* day are one: they would be merged first of all.                         *)
(***************************************************************************)
EXTENDS Integers, Sequences, SequencesExt, FiniteSets

CONSTANTS
    Series,      \* what is paid: accounts and item
    PayDays,     \* series -> days on which it may be paid
    MonthLens,   \* lengths of the months of the calendar, day 1 being in the first
    Spans,       \* numbers of days the range dialog offers
    Todays,      \* the days on which the user looks
    MaxPayments, \* bound: payments of one series
    MaxScans     \* bound: fetches

VARIABLES
    paid,        \* series -> days paid, in the ledger
    today,
    found,       \* recurring_scan_series: the rows of every range
    range,       \* the range of the scan on screen
    phase,       \* what the scan is at
    series,      \* the rows the screen shows
    scans        \* fetches so far

rVars == <<paid, today, found, range, phase, series, scans>>

-------------------------------------------------------------------------------
(* The heuristic *)

MIN_OCCURRENCES      == 3
SAME_EVENT_DAYS      == 3
GRACE_DAYS           == 5
MAX_TRAILING         == 2
DISCONTINUED_PERIODS == 3
MAX_PERIODS          == 2000

Cadence(months, base, lo, hi, tol) ==
    [months |-> months, base |-> base, lo |-> lo, hi |-> hi, tol |-> tol]

Cadences ==
    {Cadence(0, 7, 5, 9, 2), Cadence(0, 14, 11, 18, 3), Cadence(1, 30, 24, 37, 6),
     Cadence(3, 91, 80, 100, 10), Cadence(12, 365, 330, 400, 20)}

InOrder(days) ==
    [i \in 1 .. Cardinality(days) |->
        CHOOSE d \in days : Cardinality({x \in days : x < d}) = i - 1]

Apart(a, b) == IF a > b THEN a - b ELSE b - a

\* Payments up to three days after the first of an event belong to it.
Collapse(events, d) ==
    IF events # << >> /\ d - Last(events) <= SAME_EVENT_DAYS THEN events ELSE Append(events, d)

_collapse_events(days) ==
    LET upto[n \in 0 .. Cardinality(days)] ==
            IF n = 0 THEN << >> ELSE Collapse(upto[n - 1], InOrder(days)[n])
    IN  upto[Cardinality(days)]

Gaps(events) == [i \in 1 .. Len(events) - 1 |-> events[i + 1] - events[i]]

\* Twice the median.
Median2(gaps) ==
    LET s == SortSeq(gaps, <)
        n == Len(s)
    IN  IF n % 2 = 1 THEN 2 * s[(n + 1) \div 2] ELSE s[n \div 2] + s[n \div 2 + 1]

\* The first of the cadences, from the shortest, that has the median.
Fitting(median2) == {c \in Cadences : 2 * c.lo <= median2 /\ median2 <= 2 * c.hi}
_classify(median2) == {c \in Fitting(median2) : \A b \in Fitting(median2) : c.base <= b.base}

\* At least 0.6 of the gaps are a multiple of the period, within the tolerance.
Regular(gaps, c) ==
    LET periods(g) == LET k == (2 * g + c.base) \div (2 * c.base) IN IF k < 1 THEN 1 ELSE k
        good == {i \in DOMAIN gaps : Apart(gaps[i], periods(gaps[i]) * c.base) <= c.tol}
    IN  5 * Cardinality(good) >= 3 * Len(gaps)

DaysThrough[m \in 0 .. Len(MonthLens)] == IF m = 0 THEN 0 ELSE DaysThrough[m - 1] + MonthLens[m]
MonthStart(m) == 1 + DaysThrough[m - 1]
MonthOf(d) == CHOOSE m \in DOMAIN MonthLens : MonthStart(m) <= d /\ d < MonthStart(m) + MonthLens[m]

\* The day of the month stays, or is the last one of a shorter month.
_add_months(d, months) ==
    LET m == MonthOf(d) + months
        day == d - MonthStart(MonthOf(d)) + 1
    IN  MonthStart(m) + (IF day > MonthLens[m] THEN MonthLens[m] ELSE day) - 1

\* The k-th payment after the first; beyond the calendar a month has 31 days.
Due(first, c, k) ==
    IF c.months = 0 THEN first + k * c.base
    ELSE IF MonthOf(first) + k * c.months > Len(MonthLens) THEN first + 31 * k * c.months
    ELSE _add_months(first, k * c.months)

\* From the first event on, until one period after today, and 2000 periods at most.
_project_expected(events, c, as_of) ==
    LET horizon == as_of + c.base
        ks == {k \in 1 .. horizon - events[1] :
                  k <= MAX_PERIODS /\ Due(events[1], c, k) <= horizon}
    IN  [k \in 1 .. Cardinality(ks) |-> Due(events[1], c, k)]

\* Wrong variant: the first event is taken before it is looked at.
Unmatched_taken(expected, events, tol) ==
    LET take(acc, e) ==
            IF acc.used = Len(events) \/ Apart(events[acc.used + 1], e) > tol
            THEN [used |-> IF acc.used = Len(events) THEN acc.used ELSE acc.used + 1,
                  missed |-> acc.missed \cup {e}]
            ELSE [acc EXCEPT !.used = @ + 1]
    IN  FoldLeft(take, [used |-> 1, missed |-> {}], expected).missed

\* Each expected date takes the first event near it that none has taken.
Take(events, tol, acc, e) ==
    LET near == {i \in DOMAIN events \ acc.used : Apart(events[i], e) <= tol}
    IN  IF near = {} THEN [acc EXCEPT !.missed = @ \cup {e}]
        ELSE [acc EXCEPT !.used = @ \cup {CHOOSE i \in near : \A j \in near : i <= j}]

Unmatched(expected, events, tol) ==
    LET upto[n \in 0 .. Len(expected)] ==
            IF n = 0 THEN [used |-> {}, missed |-> {}]
            ELSE Take(events, tol, upto[n - 1], expected[n])
    IN  upto[Len(expected)].missed

FirstOf(days, n) == {d \in days : Cardinality({x \in days : x < d}) < n}

\* Between payments every missing date counts; after the last one only those
\* past their grace, two at most, and none when the series seems to have ended.
_find_missing(events, c, as_of) ==
    LET missed  == Unmatched(_project_expected(events, c, as_of), events, c.tol)
        last    == Last(events)
        overdue == {e \in missed : e > last /\ as_of - e > c.tol + GRACE_DAYS}
    IN  {e \in missed : e <= last}
            \cup (IF Cardinality(overdue) > DISCONTINUED_PERIODS THEN {}
                  ELSE FirstOf(overdue, MAX_TRAILING))

\* The cadence of a series, if it has one.
CadenceOf(events) ==
    IF Len(events) < MIN_OCCURRENCES THEN {}
    ELSE {c \in _classify(Median2(Gaps(events))) : Regular(Gaps(events), c)}

MissingOf(days, as_of) ==
    LET events == _collapse_events(days)
    IN  UNION {_find_missing(events, c, as_of) : c \in CadenceOf(events)}

\* The entries of the range, as the server has them.
Listed(s, r) == {d \in paid[s] : r.start <= d /\ d <= r.end}

\* Series with something missing, each a new row to be reviewed.
detect_recurring_omissions(r) ==
    LET all == {[range |-> r, series |-> s, missing |-> MissingOf(Listed(s, r), r.end),
                 status |-> "pending"] : s \in Series}
    IN  {row \in all : row.missing # {}}

-------------------------------------------------------------------------------
(* The ledger, and the days *)

NoRange == [start |-> 0, end |-> 0]

Init ==
    /\ paid = [s \in Series |-> {}]
    /\ today = CHOOSE t \in Todays : \A u \in Todays : t <= u
    /\ found = {}
    /\ range = NoRange
    /\ phase = "closed"
    /\ series = {}
    /\ scans = 0

\* Entries are made here or by another client at any time.
Pay(s, d) ==
    /\ Cardinality(paid[s]) < MaxPayments
    /\ d \notin paid[s]
    /\ paid' = [paid EXCEPT ![s] = @ \cup {d}]
    /\ UNCHANGED <<today, found, range, phase, series, scans>>

Midnight ==
    /\ today' \in {t \in Todays : t > today}
    /\ UNCHANGED <<paid, found, range, phase, series, scans>>

-------------------------------------------------------------------------------
(* The scan *)

RowsOf(r) == {row \in found : row.range = r}

\* The rows of this very range are shown when one is still to be reviewed;
\* otherwise they are cleared, and the entries fetched.
_scan_recurring_worker ==
    /\ phase = "closed"
    /\ \E days \in Spans :
          LET r == [start |-> today - days, end |-> today]
          IN  /\ range' = r
              /\ IF \E row \in RowsOf(r) : row.status = "pending"
                 THEN /\ phase' = "open"
                      /\ series' = RowsOf(r)
                      /\ UNCHANGED <<found, scans>>
                 ELSE /\ scans < MaxScans
                      /\ scans' = scans + 1
                      /\ phase' = "fetching"
                      /\ series' = {}
                      /\ found' = found \ RowsOf(r)
    /\ UNCHANGED <<paid, today>>

\* F5: the rows are cleared before the entries are there.
_refresh_worker ==
    /\ phase = "open"
    /\ scans < MaxScans
    /\ scans' = scans + 1
    /\ phase' = "refreshing"
    /\ found' = found \ RowsOf(range)
    /\ UNCHANGED <<paid, today, range, series>>

\* The first fetch opens the screen only with something to show.
_fetch_and_save_recurring ==
    /\ phase \in {"fetching", "refreshing"}
    /\ LET rows == detect_recurring_omissions(range)
       IN  /\ found' = found \cup rows
           /\ series' = rows
           /\ phase' = IF phase = "refreshing" \/ rows # {} THEN "open" ELSE "closed"
    /\ UNCHANGED <<paid, today, range, scans>>

\* The handler of the failure names an exception its module does not import:
\* what it raises ends the program, or is caught by the refresh of the screen,
\* which keeps its rows.
FetchFails ==
    /\ phase \in {"fetching", "refreshing"}
    /\ phase' = IF phase = "fetching" THEN "closed" ELSE "open"
    /\ UNCHANGED <<paid, today, found, range, series, scans>>

_mark(row, status) ==
    /\ phase = "open"
    /\ row.status # status
    /\ found' = {IF x = row THEN [x EXCEPT !.status = status] ELSE x : x \in found}
    /\ series' = (series \ {row}) \cup {[row EXCEPT !.status = status]}
    /\ UNCHANGED <<paid, today, range, phase, scans>>

action_close ==
    /\ phase = "open"
    /\ phase' = "closed"
    /\ series' = {}
    /\ UNCHANGED <<paid, today, found, range, scans>>

\* The program may end at any time.
Crash ==
    /\ phase # "closed"
    /\ phase' = "closed"
    /\ series' = {}
    /\ UNCHANGED <<paid, today, found, range, scans>>

Next ==
    \/ \E s \in Series : \E d \in PayDays[s] : Pay(s, d)
    \/ Midnight
    \/ _scan_recurring_worker \/ _refresh_worker \/ _fetch_and_save_recurring \/ FetchFails
    \/ \E row \in series : _mark(row, "handled") \/ _mark(row, "dismissed")
    \/ action_close \/ Crash

Spec == Init /\ [][Next]_rVars

-------------------------------------------------------------------------------
(* What must hold *)

\* The dates of a rhythm up to its last event: no rhythm has two on one day.
DatesOf(events, c) ==
    {k \in 1 .. Last(events) - events[1] :
        k <= MAX_PERIODS /\ Due(events[1], c, k) <= Last(events)}

\* Between the first and the last event of a rhythm, a date is reported when
\* nothing was paid near it; and if something was, only when that was merged
\* with a payment up to three days before it (recurring.py:267-304).
MissingIsUnpaid ==
    \A s \in Series :
        LET days   == Listed(s, [start |-> 0, end |-> today])
            events == _collapse_events(days)
            missing == MissingOf(days, today)
        IN  \A c \in CadenceOf(events) : \A k \in DatesOf(events, c) :
                LET e    == Due(events[1], c, k)
                    near == {d \in days : Apart(d, e) <= c.tol}
                IN  /\ near = {} => e \in missing
                    /\ e \in missing =>
                           \A d \in near : \E x \in days : x < d /\ d - x <= SAME_EVENT_DAYS
===============================================================================
