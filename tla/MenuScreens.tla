------------------------------ MODULE MenuScreens ------------------------------
(***************************************************************************)
(* The table of the entries screen (tui/screens/entries.py) and the modal  *)
(* screens its menu opens over it: settings, reports, tag management,      *)
(* recurring payments, statement import, the inbox and attached files.     *)
(* Keys go to the one on top, and they share no state: a behaviour is      *)
(* about one of them.                                                      *)
(***************************************************************************)
EXTENDS Integers, Sequences, FiniteSets

CONSTANTS
    Screens, Start, May, NoTimer, NoList, MaxChanges,
    Series, PayDays, MonthLens, Spans, Todays, MaxPayments, MaxScans,
    Section, NoSection, Entry, Home, Tag, Color, FirstRows, MaxWrites,
    Statements, Alike, FirstEntries, NoFile, MaxOpens, MaxEntries,
    Items, FirstIn, PageSize, MaxLists, MaxSends,
    Entries, TagCount, Levels, PageStep, Columns, NoCell, NoTag, NoAnchor,
    Reports, NoRequest, MaxActs,
    EntryId, Old, Name, Content, FileDays, MaxRows, FilesMay

ASSUME MenuAssumption ==
    /\ Screens \subseteq {"accounts", "sections", "frequent", "monthly", "budget", "goal", "customs"}
    /\ \A s \in Series : PayDays[s] \subseteq Nat
    /\ MonthLens \in Seq(28 .. 31) /\ Todays \subseteq Nat
    /\ Home \in [Entry -> Section] /\ NoSection \notin Section
    /\ FirstIn \subseteq Items /\ Items \subseteq Nat /\ PageSize \in Nat \ {0}
    /\ Entries \subseteq Nat \ {0} /\ TagCount \in [Entries -> Nat] /\ Levels \subseteq 0 .. 4
    /\ 4 \in Columns /\ Columns \subseteq 0 .. 5

\* The ledger is finite, and a page moves the cursor by a number of rows.
ASSUME TableAssumption ==
    IsFiniteSet(Entries) /\ PageStep \in Nat /\ NoCell \notin Int \X Int

\* The tables of hashtags a program starts with: a row has the section of its entry,
\* or none when it is older than sections, and there is one for an entry and tag.
ASSUME TagAssumption ==
    \A rows \in FirstRows :
        /\ rows \subseteq [e : Entry, t : Tag, s : Section \cup {NoSection}]
        /\ \A r \in rows : r.s \in {Home[r.e], NoSection}
        /\ \A q, r \in rows : q.e = r.e /\ q.t = r.t => q = r

VARIABLES
    which,       \* the component this behaviour is about
    screen, open, mode, server, shown, cache, jobs, dialogs, timer, changes, nextId, doubt,
    paid, today, found, range, phase, series, scans,
    tagged, noted, colored, cur, inview, reloading, picked, batch, sending, admin, crossed, writes,
    entered, logged, open_file, step, offered, chosen, suspect, todo, sent, failed, opens, since,
    repeated, unlogged,
    inbox, ledgered, gone, listed, reading, asked, mutating, lists, sends, unsure,
    table,
    pane,
    fileDay, disk, attached, nextRow, adding, status, gcListed

settingsVars == <<screen, open, mode, server, shown, cache, jobs, dialogs, timer, changes, nextId,
                  doubt>>
recurringVars == <<paid, today, found, range, phase, series, scans>>
tagVars == <<tagged, noted, colored, cur, inview, reloading, picked, batch, sending, admin,
             crossed, writes>>
importVars == <<entered, logged, open_file, step, offered, chosen, suspect, todo, sent, failed,
                opens, since, repeated, unlogged>>
inboxVars == <<inbox, ledgered, gone, listed, reading, asked, mutating, lists, sends, unsure>>
filesVars == <<fileDay, disk, attached, nextRow, adding, status, gcListed>>

Settings  == INSTANCE SettingsScreens
Recurring == INSTANCE RecurringScan
Tags      == INSTANCE TagBook
Import    == INSTANCE StatementImport
Inbox     == INSTANCE OutsideInbox
Cursor    == INSTANCE TableCursor
Panes     == INSTANCE ReportPanes
Files     == INSTANCE AttachmentFiles
             WITH today <- fileDay, rows <- attached, nextId <- nextRow, listed <- gcListed,
                  Days <- FileDays, May <- FilesMay

\* The menu of reports has a line, and no request is taken for none.
ASSUME PanesAssumption ==
    /\ Panes!Ids("reports") # {}
    /\ \A kind \in Panes!Kind : \A id \in Panes!Ids(kind) :
           NoRequest # [id |-> id, asks |-> Panes!Asks(kind, id)]

\* Files are attached on some day; NoFile is none.
ASSUME FilesAssumption == Files!AttachmentAssumption

\* The server lists rows by tab, each with an id of its own, of before the ones it gives out.
ASSUME SettingsAssumption ==
    /\ \A s \in Screens :
           /\ Start[s] \in [Settings!Tabs(s) -> Seq([id : 1 .. 9, val : Nat])]
           /\ \A t \in Settings!Tabs(s) : \A i, j \in DOMAIN Start[s][t] :
                  Start[s][t][i].id = Start[s][t][j].id => i = j
           /\ NoTimer \notin [tab : Settings!Tabs(s), order : Seq(Nat)]

\* Payments are made on days of the calendar.
ASSUME RecurringAssumption ==
    /\ \A s \in Series : \A d \in PayDays[s] :
           \E m \in DOMAIN MonthLens :
               /\ Recurring!MonthStart(m) <= d
               /\ d < Recurring!MonthStart(m) + MonthLens[m]
    /\ Todays # {}

\* A statement lists a charge once; every statement gives it the same day and amount, and
\* merchants that pass as one.  The ledger a program starts with has an entry of a charge
\* once, with its amount and a day near the charge's.
ASSUME ImportAssumption ==
    /\ \A f \in DOMAIN Statements :
           /\ Statements[f] \in Seq(Import!AllRows)
           /\ \A i, j \in DOMAIN Statements[f] :
                  Statements[f][i].of = Statements[f][j].of => i = j
    /\ \A r \in Import!AllRows : r.d \in Int /\ r.a \in Int
    /\ \A q, r \in Import!AllRows :
           q.of = r.of => q.d = r.d /\ q.a = r.a /\ Import!merchant_similar(q.m, r.m)
    /\ \A s \in FirstEntries :
           /\ s = [k \in 1 .. Len(s) |-> Import!Entered(s[k], Len(s) + 1 - k, s[k].plain)]
           /\ Len(s) \in Nat
           /\ \A i, j \in DOMAIN s : s[i].of = s[j].of => i = j
           /\ \A k \in DOMAIN s :
                  /\ s[k].d \in Int /\ s[k].a \in Int /\ s[k].plain \in BOOLEAN
                  /\ \A r \in Import!AllRows :
                         s[k].of = r.of => s[k].a = r.a /\ Import!Apart(s[k], r) <= 2

Component == {"settings", "recurring", "tags", "import", "inbox", "table", "reports", "files"}

\* A component the behaviour is not about keeps the first of its initial states.
Init ==
    /\ which \in Component
    /\ Settings!Init /\ Recurring!Init /\ Tags!Init /\ Import!Init /\ Inbox!Init /\ Cursor!Init
    /\ Panes!Init /\ Files!Init
    /\ which # "settings" => screen = CHOOSE s \in Screens : TRUE
    /\ which # "tags" => tagged = (CHOOSE r \in FirstRows : TRUE) /\ cur = CHOOSE s \in Section : TRUE
    /\ which # "import" => entered = CHOOSE e \in FirstEntries : TRUE
    /\ which # "table" => table.level = CHOOSE l \in Levels : TRUE
    /\ which # "reports" => pane.kind = "reports"

Same(c, v) == IF which = c THEN TRUE ELSE UNCHANGED v

\* Only the component of the behaviour moves.
Others ==
    /\ UNCHANGED which
    /\ Same("settings", settingsVars)
    /\ Same("recurring", recurringVars)
    /\ Same("tags", tagVars)
    /\ Same("import", importVars)
    /\ Same("inbox", inboxVars)
    /\ Same("table", table)
    /\ Same("reports", pane)
    /\ Same("files", filesVars)

Next ==
    \/ which = "settings" /\ Settings!Next /\ Others
    \/ which = "recurring" /\ Recurring!Next /\ Others
    \/ which = "tags" /\ Tags!Next /\ Others
    \/ which = "import" /\ Import!Next /\ Others
    \/ which = "inbox" /\ Inbox!Next /\ Others
    \/ which = "table" /\ Cursor!Next /\ Others
    \/ which = "reports" /\ Panes!Next /\ Others
    \/ which = "files" /\ Files!Next /\ Others

allVars == <<which, settingsVars, recurringVars, tagVars, importVars, inboxVars, table,
             pane, filesVars>>

Spec == Init /\ [][Next]_allVars

-------------------------------------------------------------------------------
(* The properties of the components; each is explained where it is stated. *)

\* With nothing under way a settings screen shows what the server has, unless
\* one of the circumstances the module names came about.
SettledIsShown == which = "settings" => Settings!SettledIsShown

\* The answer of a dialog of a settings screen reaches the worker that waits
\* for it.
DialogIsHeard == which = "settings" => Settings!DialogIsHeard

\* A day the scan of recurring payments reports as missing has no payment near,
\* unless that was merged with an earlier one; and a day without one is reported.
MissingIsUnpaid == which = "recurring" => Recurring!MissingIsUnpaid

\* Tag rows name the section of their entry, unless one of two things happened
\* during a section switch.
SectionKnown == which = "tags" => Tags!SectionKnown

\* A renamed tag is replaced on every entry that has it in the section of the
\* screen and on no other, or the renaming is refused as a whole.
RenameIsExact == Tags!RenameIsExact

\* Importing statements enters a charge once.
EnteredOnce == which = "import" => Import!EnteredOnce

\* A charge the ledger does not have is offered.
MissingOffered == which = "import" => Import!MissingOffered

\* An item of the inbox becomes one entry at most.
OneEntryPerItem == which = "inbox" => Inbox!OneEntryPerItem

\* What is drawn in the table is what the screen holds.
DrawnIsHeld == which = "table" => Cursor!DrawnIsHeld

\* A selected row of the table is highlighted from end to end.
SelectionIsShown == which = "table" => Cursor!SelectionIsShown

\* With nothing under way a report screen shows the last answer for its line.
ReportShownIsCurrent == which = "reports" => Panes!ReportShownIsCurrent

\* The file of an attachment row is there, with its content.
RowsHaveFiles == which = "files" => Files!RowsHaveFiles
===============================================================================
