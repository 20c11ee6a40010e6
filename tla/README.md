# Verification of whooing-tui

whooing-tui is a terminal client of the Whooing ledger service.  The ledger
lives on the server; what the program adds lives in a local sqlite database:
the edit history of every entry and the trash, memos, hashtags, attachments, a
mirror of the ledger and a cache of server answers.  No transaction spans the
two sides, the program is one asyncio loop with cancellable workers, and most
local failures are logged and swallowed.  The specifications here are about
what then still holds.

## 1. Inventory

Paths are relative to `src/`; `core/` and `tui/` stand for
`core/src/whooing_core/` and `tui/src/whooing_tui/`.

| Component | State | Operations | Talks to |
|---|---|---|---|
| Edit history (`core/revisions.py`, `tui/revision_repo.py`) | `entry_revisions` (append only rows per logical id), `entry_head` (current server id, last row, deleted flag) | record a revision, baseline, reconcile outside changes, list the trash, purge | sqlite; P4 sync after each write |
| Entries screen: changes (`tui/screens/entries.py`, `trash.py`, `revision_history.py`) | rows on screen, one worker of the exclusive group `mutate`, one of the group `entries`, the dialog on top | create, edit, delete, restore, revert, purge, attach, refresh | client, history, local tables, `entries_cache` |
| Local tables of an entry (`tui/repository.py`, `core/db.py`) | `entry_annotations`, `entry_hashtags`, `entry_attachments` | persist, re-key after a restore, purge, tag administration | sqlite (foreign keys on) |
| `entries_cache` (`core/entries_cache.py`) | mirror of ledger rows by id | upsert rows, remove a row, query by date | entries screen, filters |
| Cached client (`tui/client.py`, `tui/cache.py`) | answers by (section, start, end) with a TTL; accounts | list entries (hit, miss, store), mutate and drop windows | HTTP client |
| HTTP client (`tui/client.py`, `tui/official_mcp.py`) | request times of the last 60 s under a lock | throttle, retry on 429, yearly split and bisection of lists, verified delete | Whooing server |
| Attachment files (`core/attachments.py`, `tui/screens/attachment_browser.py`, `tui/cli.py`) | files by day and name, rows (entry, path, sha256), `.trash/` | add, remove, purge with an entry, garbage collection from the command line | disk, sqlite, P4 sync |
| P4 sync (`tui/p4_sync.py`, `tui/sync.py`, `tui/app.py`) | journal of descriptions, mutated flag, background threads | submit, flush on exit (twice), startup sync, dirty check | `p4` subprocess |
| Filters (`tui/screens/entries.py`, `tui/filters.py`) | active filters, extra rows, epoch | apply, extend into the past, clear | cached client, `entries_cache` |
| Duplicate scan (`core/dupes.py`, `tui/dupe_scan_repo.py`, `tui/screens/entries_scan.py`, `dupe_scan_overview.py`, `duplicate_scan.py`) | `dupe_scan_clusters` by range, three screens with a list, marks and a flag each, one worker that deletes | scan a range, show what is stored, refresh, mark, delete many, resolve | cached client, sqlite, entries screen |
| Table of the entries screen (`tui/screens/entries.py`, `entries_compact.py`) | cursor, marked column, hashtag in a cell, selected entries, the row "new entry", width | move, mark, select, filter by the marked cell, batch tag, redraw single cells | widgets, filters |
| Settings screens (`accounts.py`, `sections.py`, `frequent_entries.py`, `monthly_entries.py`, `budget_edit.py`, `goal_edit.py`, `report_customs.py` in `tui/screens/`) | a list, a tab, workers by exclusive group, an order that is saved after a delay | reload, switch the tab, create, change, delete, move a row | client; cache of accounts |
| Report screens (`tui/screens/reports.py`, `account_flow.py`) | highlighted line, line asked for, text and its title | move, ask, ask again, draw | official server |
| Hashtags (`core/db.py`, `tui/screens/tag_management.py`, `tags_picker.py`) | `entry_hashtags` with a section per row, colours | set, add to many, rename, merge, delete, colour | sqlite, session |
| Recurring payments (`core/recurring.py`, `tui/recurring_scan_repo.py`, `tui/screens/recurring_scan.py`) | findings by range with verdicts | scan, find a rhythm and its gaps, handle, dismiss | cached client, sqlite |
| Statement import (`tui/screens/statement_import.py`, `core/db.py`) | offered rows, choice, `statement_import_log` | extract, match with log and ledger, enter, log | cached client, sqlite |
| Outside inbox (`tui/outside.py`, `tui/screens/outside_inbox.py`) | items the server collected, list by pages | list, confirm, delete, empty | outside client |
| Receipts (`tui/screens/receipt_attach.py`), dashboard, dialogs, menus, configuration, command line | forms and tables | one server call each | client |

Behaviours that are hard here:

* **Server first, history afterwards.**  Every change awaits the server and only
  then writes the history.  Between the two, the worker can be cancelled (all
  changes share one exclusive worker group), the process can die, the answer
  can be lost, and each local transaction can fail on its own.
* **Lists and rows that are kept while things change.**  The trash list, the
  purge confirmation, the edit form and the delete confirmation work on copies
  made when they opened; a refresh or a recording can land below them.
* **Ids that change.**  A restore creates the entry again under a new server id;
  the history must keep old and new id under one logical entry, and local data
  must follow.
* **Changes made elsewhere** (web, phone), absorbed once, at the first answer of
  a screen.
* **Workers that cancel each other.**  A key starts a worker and by that cancels
  whatever its group has: a list, a change that the server has carried out, a
  worker that waits for its own dialog.
* **State that is read again after an await**: the section of the session, the
  index of a cluster, the tab of a screen.
* **Several caches of one ledger**: rows on screen, the stored windows of the
  cached client, `entries_cache`, the snapshots of the history.

What makes each component correct:

* history: `entry_head` is derived from the log; one id leads to one logical
  entry; the trash can be restored; only the trash is purged; nothing that was
  recorded is lost.
* changes: when everything has settled, server, history, mirror, local tables and
  screen agree; an edit keeps what it overwrote; a delete ends in the trash.
* local tables: all data of an entry is under the id it has now.
* attachments: every row has its file with the content it was added with; only
  what no entry needs is removed.
* client: a list is complete and free of duplicates; a stored answer is no older than
  the last change this program made.
* requests: at most 20 attempts in any 60 seconds, whoever sleeps or is cancelled
  in the gate; nothing is carried out twice by a retry; every request ends.
* screens: once nothing is under way, what is shown is what the server has, under
  the tab or line it is of; a charge or an item becomes one entry; what is reported
  missing is missing; a tag belongs to the section of its entry.
* duplicate scan: a verdict says what was done; of entries that are alike one
  stays; a cluster that waits is not lost; what was deleted leaves the table.
* P4 sync: an exit submits every queued change and a description names it; the
  depot has the files its database has rows for; the program runs on the newest
  database only.

The hazards are listed with their lines in `PROJECT.json`.

## 2. Modules

| Module | What it is | Code |
|---|---|---|
| `RevisionLog` | pure operators on the history: append, baseline, tombstone, reconcile, trash list, purge | `core/revisions.py`, `tui/revision_repo.py` |
| `LocalMeta` | pure operators on the local tables: persist, re-key, purge, with the foreign key that aborts a re-key | `tui/repository.py`, `core/db.py` |
| `EntryHistory` | state machine of the entries screen over `RevisionLog` and `LocalMeta`: server, workers, dialogs, refresh, window, crash, other clients | `tui/screens/entries.py`, `trash.py`, `revision_history.py` |
| `EntryLifecycle` | abstract specification: untracked, live, in the trash (maybe by mistake), and which values are kept | the promise of docs/scenarios/11 |
| `AttachmentFiles` | files by day and name, rows that share them, deletion by sha256, the gc command as a second process | `core/attachments.py`, `tui/screens/attachment_browser.py`, `tui/cli.py` |
| `LedgerReads` | lists gathered by several requests, stored windows, dropping by date, verified delete | `tui/client.py`, `tui/cache.py`, `tui/dates.py` |
| `SyncSession` | runs of the program with the P4 backend: check at start, journal, the two flushes of an exit, the depot | `tui/p4_sync.py`, `tui/sync.py`, `tui/app.py`, `tui/data.py` |
| `EntriesView` | the table with a filter and the worker that extends it into the past, around refreshes and switches of the section | `tui/screens/entries.py`, `tui/filters.py`, `core/entries_cache.py` |
| `DuplicateScan` | scan of a range, stored clusters, the list and the screen that cleans them, deletions one call after the other | `tui/screens/entries_scan.py`, `dupe_scan_overview.py`, `duplicate_scan.py`, `tui/dupe_scan_repo.py`, `core/dupes.py` |
| `RequestGate` | the sliding window under its lock, with sleeping holders, retries after a limit, cancellations, in discrete time | `tui/client.py` |
| `TableCursor` | pure steps on the fields of the table and the cells that are drawn | `tui/screens/entries.py`, `entries_compact.py` |
| `SettingsScreens` | seven screens of one build: list, tabs, dialogs, workers by group, delayed save, cache of accounts | the seven files of the inventory, `tui/client.py`, `tui/widgets/list_crud.py` |
| `ReportPanes` | two screens with a menu and the report of its line | `tui/screens/reports.py`, `account_flow.py` |
| `TagBook` | hashtag rows with their sections, their administration, edits and batches across a switch of the section | `core/db.py`, `tui/screens/tag_management.py`, `tags_picker.py`, `entries.py` |
| `RecurringScan` | rhythm and gaps on a calendar, findings by range, verdicts | `core/recurring.py`, `tui/recurring_scan_repo.py`, `tui/screens/recurring_scan.py` |
| `StatementImport` | matching with log and ledger, and the worker that enters and logs | `tui/screens/statement_import.py`, `core/db.py` |
| `OutsideInbox` | listing by pages, confirming, deleting, emptying, arrivals | `tui/outside.py`, `tui/screens/outside_inbox.py` |
| `MenuScreens` | the seven above and `AttachmentFiles` in one module; a behaviour is about one of them | the menu of the entries screen |
| `MC*` | values of the constants for TLC | |
| `*Proofs` | theorems and their proofs | |

`EntryHistory` extends `RevisionLog` and `LocalMeta`; the worker steps compose
their operators in the order of the code, one transaction after the other.
`EntryHistory` instantiates `EntryLifecycle` with the refinement mapping `Life`:
a logical entry is untracked without rows, in the trash by `entry_head`, live
otherwise, and its past is the set of values its rows hold.  An entry in the trash is
there by mistake when the server still has it under an id of its log: a row of before
a restore was deleted, which the code files with the logical entry.

### How state and actions correspond

**EntryHistory.** One `task` is the worker of the exclusive group `mutate`: a
user action (`SubmitCreate`, `SubmitUpdate`, `SubmitDelete`, `RestoreLogical`,
`RevertTo`) puts one there and so cancels the one that waits, as Textual does.
The server acts on it later (`ServerApply`, `ServerRefuse`) and the rest of the
worker after its await is one `Record*` step: nothing in it awaits, so no other
coroutine runs in between.  Inside the step each local transaction may fail by
itself (circumstance `disk`), because each repository method swallows its
exception.  `refresh` is the exclusive worker of the group `entries` with its
two awaits; `window` is what the cached client would answer; `dialog` is the
screen on top with the copies it made.  `Crash` keeps database, window and
ledger.

Ids are given out by the server and never twice.  A value stands for all fields
of an entry but its id: the history compares snapshots as a whole.  The model
has one section and one date window that shows all entries; dialogs are modal,
as screens in Textual are, but a refresh and an answer arrive below them.

**AttachmentFiles.** A file is named by the day it was added and its name (a
collision gets a name with its content's hash).  Adding is two steps, as in
the screen: the copy, then the row in a transaction.  A removal and a purge unlink
files inside their transaction; with `disk` the transaction fails after the
unlinks.  The gc command is a process of its own with two steps: it fetches the
list of entries, then removes what is not on it.  As a component of `MenuScreens` its
variables and constants have other names there (`attached` for `rows`, `FilesMay` for
`May`).

**LedgerReads.** An entry is its date.  `Ask` begins a list on a miss; a request
is answered with all rows of its range or any `Cap` of them, and is thrown away
and halved when full; `Store` puts the finished list into its window.  A write
is sent, then `applied`, and a delete the official tool answers with an error is
`unsure` besides; `Succeed` and `Verify` drop windows as `invalidate_entries`
does.  `touched`, `short` and `spoiled` are auxiliary: they record what a list
cannot know and no guard reads them.

**SyncSession.** A database is the set of changes that were made to it, so that
"newer" is inclusion.  `phase` follows the process: the three steps of
`_StartupCheckScreen` (`check`, `catchup`, `compare`), `init_shared_schema`
(`mount`), the work, the shutdown modal (`quitting`, `flushed`) and `on_unmount`
(`leaving`).  A change is up to three steps of the event loop (file, row, queue)
with no other handler between them; `QuietWrite` is a write no caller queues (the
upsert of the mirror, verdicts of scans, the import log).  `flush` is the call of
`flush_on_exit` in its thread: the journal is copied, then cleared, then the paths
are opened, then submitted, and changes of the event loop fall between any two.
`flush_on_exit` is one definition with three callers, and `Return` says where each
goes on.  `seen` and `hit` are auxiliary: what the check compared with, and what
has gone wrong; no guard reads them.

Of p4, which is not part of the repository, the model assumes: `reconcile` opens
only files that differ and are not open already; a changelist is refused as a
whole when its database is not based on the newest revision; `sync` leaves a
modified or open file alone; a submit reads the files when it runs.  All paths
are mapped, and the database file is complete after each closed connection.

**EntriesView.** Dates are ages in days.  `all`, `shown` and `extra` are
`_all_entries`, `_entries` and `_filter_extra`; `refresh` is a list that waits in
the group `entries`, `expand` the worker of the group `filter_expand` with what it
knows between two awaits, and `expand.current` whether its epoch still is
`_filter_epoch`: there is one such worker, so the counter itself tells no more.
`Begin`, `Answer` and `AnswerFails` are its steps from one await to the next.
Which values a filter finds is the constant `Like`: equality for dates and
accounts, a word in common for texts, which is neither symmetric nor transitive.
`loaded`, `touched` and `hit` are auxiliary: what the table was listed for, what
has changed since, and what has gone wrong; no guard reads them.

**DuplicateScan.** `rows` is the table by range, in the order `load_all_clusters`
returns; `screen` the screen on top, `list` and `dirty` the overview's, `clean` the
cleaning screen's (`_idx`, `_marks`, `_dirty`, `_processed`), `job` its worker.
Entries are numbered by date and id.  `score` is what `keep_preference_score` says of
the description and memo an entry has now; `_pick_keep_id` takes the best, the oldest
among equals, and the choice is stored with the cluster, as `save_scan` does.  `Edit`
changes the score of an entry and leaves what is stored.  What `_pair_verdict` finds is
the constant `Alike`, and the clusters are the linked sets that nothing outside is alike
to; an edit that changes what an entry is alike is one that goes and one that comes
(`External`).  The order of the clusters of a list is any.
A deletion is `Applied` at the server and then `Answered`, or `Finished` with the
last one; the answer of the last call, the verdict and the return through the
screens are one step, for nothing in between awaits.  `Confirm`, `Cancel` and
`Stop` cancel the worker that waits; its request may still be applied (`Late`).
`treated`, `excused`, `unseen`, `chosen` and `touched` are auxiliary; no guard reads
them.
The cleaning screen is passed the pending clusters only: they are the positions
`Pending(list)`, and `Move` goes from one to the next.  A list is answered from the
ledger of that moment (that a window of the cache may answer is in `LedgerReads`).

**RequestGate.** Time is a counter; `Tick` is refused while something is due that
the event loop has put off for `Late` units.  A request goes through `queued` (for
the lock), `sleeping` (with it), `sent`, `backoff`.  `Enter` is `_throttle` up to its
sleep, or through when the window has room; `Wake` is the rest, which trims again
and does not count again.  `Cancel` may come at every await: asyncio then takes the
request out of the queue or releases the lock.  `Times` says how often the server may
have done what an answer is about.  `granted` and `applied` are auxiliary.

**TableCursor.** The state is one record, as the code's is one object: rows,
cursor, sentinel, marked cell and hashtag, selection, anchor, filter and level, with
the set of cells that are drawn yellow and those of rows drawn with a tick, in reverse
from end to end (`reversed`), and in reverse but for cells that were drawn by themselves
since (`worn`).  The marker draws its cell plainly, and again when it leaves.  Which cells
of a worn row are plain is not kept, for cells without text look alike.  Functions of
the code that redraw are functions on the record, called in the order of the code.
`RowHighlighted` is a message that comes after the move (`pending`).

**SettingsScreens.** `jobs` has one worker for each exclusive group (`GroupOf`);
`Begin` replaces it, as `@work(exclusive=True)` does.  A worker is at `ask` (waits
for its dialog), `sent` or `done` (the answer is on its way).  A request that is
cancelled was carried out before that or never is: one the server carries out later is
left out here, and is in `DuplicateScan` (`Late`).  `dialogs` is the stack
of modal screens over it; a key needs an empty one.  `timer` is the order that is
saved 0.4 s after the last move.  `doubt` is auxiliary: the lists since whose reading
something happened that the code follows with no reload.

**ReportPanes.** The menu posts a message for each move and the screen handles it
later (`messages`); `request` is the one worker of the group, `timer` the pause of the
flow screen.  An answer is its shape, and a renderer says what it makes of a shape.
A text can hold markup the widget refuses (`refused`).

**TagBook.** A row of `entry_hashtags` is entry, tag and section.  `sending` is an
edit whose answer is out; it takes the section from the session when it writes.
`crossed` is auxiliary.

**RecurringScan.** Days are counted on a calendar of month lengths.  The heuristic
is a set of operators named as in the code, applied to the days of a series.  A scan
is its fetch and what follows; verdicts are rows of the table by range.  Beyond the
calendar an instance gives, a month has 31 days.

**StatementImport.** A charge has an identity the program does not see; rows and
entries carry it for the properties.  The worker enters a row (`sent`), then logs it;
both screens' workers share one group, so that a key cancels either.  `repeated` and
`unlogged` are auxiliary; `unlogged` includes the entries the ledger starts with.

**OutsideInbox.** `reading` is a list under way with what it has and where the next
page begins; `mutating` the change the flag `_busy` stands for.  `unsure` is auxiliary.

**MenuScreens.** The screens open over the entries screen and share no state but the
server's, so they are composed as alternatives: `which` is chosen at the start, the
other components keep one of their initial states.  That makes one run of eight small
systems instead of eight runs.

## 3. Circumstances

Every state machine but the abstract one has a constant `May`, the set of circumstances
an instance allows beyond one user who waits and one server that answers.  It makes explicit under which of them a property survives.

`EntryHistory`: `overlap` (the user starts a change while one is in flight),
`stale` (acts on rows a running refresh will replace), `external` (another
client), `lost` (applied, answer lost), `crash`, `disk`, `dedup` (the duplicates
screen deletes).  With exactly one of them allowed and three changes, TLC finds
these properties violated (x); the history's own invariants never are (with four
changes `EditKeepsPrevious` fails under `lost` too):

| | overlap | stale | external | lost | crash | disk | dedup |
|---|---|---|---|---|---|---|---|
| HeadMatchesLog, OneOwner, TrashRestorable | | | | | | | |
| LifecycleSpec, PurgeOnlyFromTrash | x | | | | | | |
| EditKeepsPrevious | x | | x | | | x | |
| DeleteReachesTrash | x | | | x | x | x | |
| LedgerMatchesHistory | x | x | x | x | x | x | x |
| CacheMatchesLedger | x | | x | x | x | x | x |
| LocalDataFollows | | x | | x | | x | |

The project keeps as violation runs cells where the repository's documents
say otherwise, and as passing runs the rows and columns that hold.

`AttachmentFiles` (the constant `FilesMay` of `MenuScreens`): `crash`, `gc` (the command
runs), `disk` (a transaction fails after its unlinks), `race` (the command removes a file
between the copy and the row of an addition).  `RowsHaveFiles` fails as soon as `disk` or `race` is
allowed, `OneRowPerContent` never does.

`LedgerReads`: `external`, `lost`, and `oldrow` (a delete is told the date of a
row that has moved since, as a screen that has not refreshed may do).  With
`oldrow` a window with the entry's new date stays stored after the delete
(`StoredIsCurrent`), and a delete that failed is reported as done because the
entry is not on the day that is looked at (`DeleteConfirmed`).

`SyncSession`: `crash`, `fail` (a p4 command fails or times out, in a check, a
preparation or a submit), `other` (another machine submits).  Here all are allowed
in one instance and the properties except what really happened, which `hit`
records; besides the first two it records a submit that was `refused`, a change
made `late` (while a flush ran) and a name `dropped` (queued between snapshot and
clear).  A property with fewer exceptions than it has is violated: `ChangesNamed`
by a late change, `BundleComplete` by a crash or a failing command, `QuitSubmits`
by a refused submit.

`EntriesView`: `change` (an entry changes elsewhere), `switch` (of the section),
`fail` (a list is refused or times out).  All are allowed; `hit` records a worker
that an escape or a hashtag overtook and a refresh that failed since the table was
loaded.  `ShownIsAll`, which excepts neither, is violated by each.

`DuplicateScan`: `refuse` (a call or a list is answered with an error), `lost` (a
deletion is applied, its answer lost), `hurry` (keys while a deletion waits),
`external` (an entry comes or goes elsewhere, or is edited), `stop`.  All are allowed.
`VerdictsTrue` excepts the clusters whose
deletion ended early and those the user moved between while one waited, and fails
without either exception; `TableReloaded` excepts a deletion that ended early;
`LastCopyStays` excepts groups of alike entries of which the user marked the one proposed
to be kept, one was deleted elsewhere, or one was edited while a cluster with some of them
waited: without the last exception TLC finds two stored clusters that propose different
entries, and both are deleted.

`SettingsScreens`: `busy` (the user acts while a worker is busy), `fail` (a call is
refused or its answer lost).  Both are allowed; `doubt` excepts from `SettledIsShown`
what a cancellation, a failure or a list read around a move leaves behind.  The other
screens have no circumstances to choose: keys, cancellations, lost and refused
answers are always possible, and the exceptions are states (`crossed`, `repeated`,
`unlogged`, `unsure`, `refused`) that name what happened.  `RequestGate` likewise.

## 4. Runs

| Run | Instance | Shows |
|---|---|---|
| `calm` | no circumstance, 5 changes, memo and attachment, fairness | ledger, history, mirror, local tables and table agree when everything has settled; an edit keeps what it overwrote; a delete reaches the trash; the table catches up |
| `lifecycle` | every circumstance but `overlap`, 3 changes | the history implements `EntryLifecycle` and stays well formed: `HeadMatchesLog`, `OneOwner`, `TrashRestorable` |
| `v_tags` | no circumstance, one tag | finding: a restore leaves hashtags (and with them memo and files) behind |
| `v_cancel` | `overlap` | finding: a delete that is overtaken by another change never reaches the trash |
| `v_gc` | `gc` | finding: the gc command removes attachments of entries that are in the ledger |
| `reads` | 3 entries, 4 days, cap 2, year 2, 2 windows, 2 changes, `external` and `lost`, fairness | finished lists are complete, stored windows current, reported deletes done, every list ends |
| `session` | 1 edit, 1 file (attach, detach), 1 quiet write, 1 change elsewhere, every circumstance, fairness | an exit submits what was queued and names it, the next start what is left; database and files go together; a quit ends |
| `view` | 4 entries in 2 sections, 2 values, windows of 2 and 5 days, steps at 3 and 6, 1 change, every circumstance | without a filter the table has every row; a filter extended to the end misses none |
| `dupes` | 4 entries in 2 pairs, one of which an edit makes the better copy, 2 ranges, lists up to id 2, 1 change or edit, every circumstance | verdicts say what was done; a copy stays; the entries are loaded again; the list closes by itself only when all is done |
| `gate` | 3 requests of 2 attempts, 2 attempts in 3 units, sleeps of 1 and 2, fairness | no window has more attempts than the cap; nothing is done twice; every request ends |
| `screens` | 8 components: settings with 2 changes and both circumstances; 3 keys in the menu of 7 reports; 2 tag writes over 2 sections; 4 payments, 2 scans; 2 statements, 3 entries; 4 items, 2 lists, 3 changes; 2 entries in the table at 2 widths, 2 of its columns; 3 entries (one too old for the gc) with 2 contents under 1 name over 2 days, up to 2 rows, `crash` and `gc` | `SettledIsShown`, `DialogIsHeard`; `ReportShownIsCurrent`; `SectionKnown`, `RenameIsExact`; `MissingIsUnpaid`; `EnteredOnce`, `MissingOffered`; `OneEntryPerItem`; `DrawnIsHeld`; `RowsHaveFiles` |
| `v_marker` | as `screens` | finding: the column marker leaves a plain cell in the row of a selected entry |

### Bounds

* Three ids: one entry that was there before, one created, one a restore creates
  again.  Two logical entries with three ids are enough for an id to be claimed
  by the wrong one.
* `MaxChanges` counts what the user and other clients start.  Three is a change,
  its undoing and one more beside it; five, in the calm run, is create, edit,
  delete, restore, delete.  Nothing else is bounded: refreshes, dialogs and
  crashes do not count.
* Two values distinguish an overwritten value from its successor.
* `AttachmentFiles`: one name on two days with two contents gives every case of
  `copy_to_attachments` (new, same content, collision); `MaxRows` bounds the
  additions, and two rows can share a path or name two paths of one content (three rows
  pass too, in an instance of their own).
* `LedgerReads`: a cap of two with three entries on one day is a day too full to
  list; a window of four days with requests of at most three is split by the
  year and halved; the two windows overlap, one inside the other.  One reader is
  enough: readers share nothing but the stored windows, and a list that another
  list or a change overtakes is marked in `touched`.
* `SyncSession`: the number of runs of the program, crashes and failures is not
  bounded.  An edit and a file's attach and detach give up to three queued
  changes, enough for one before, one during and one after a flush; with two
  edits and no quiet write (3.9 million states) the run passes too.
* `EntriesView`: entries at ages 1 (in the smaller window), 3 and 4 (last day of
  the first step, first of the second) and one of another section; a mirror that is
  empty or disagrees with the ledger.  Nothing but changes of the ledger is bounded.
* `DuplicateScan`: one range holds a pair, the other both, so that a cluster is
  stored twice and a list has two clusters to move between.  The edit makes the newer
  copy of a pair the better one.  No list is begun once
  the table's next id is above `MaxId`: with 2, two lists can follow each other when the
  first finds one cluster.  Chains of more than two entries are left to the proof.
* `RequestGate`: two attempts in three units with three requests make one sleep with
  the lock held and others queue; a second attempt comes back to the queue; one
  sleep is shorter and one longer than what is left of the window.  No request begins
  after time 1, and time passes while anything is due.
* `MenuScreens`: the two changes of a settings screen are enough for one worker to
  cancel the other, reloads and tabs are not bounded; tabs with two, one and no rows.
  The days of payments make a weekly, a monthly and a yearly rhythm over months of 28
  to 31 days, some a little late.  The two statements share a charge that is spelled
  differently and have one two days from an entry of its amount; one ledger has the first
  charge made by hand a day late.  An inbox of pages of
  two has three items and one to arrive.  The table has an entry with a hashtag and
  one without, with and without the columns that narrow terminals hide; its steps are
  not bounded.  It has the columns item and memo: the others differ from memo in the
  width that hides them, and money in that Enter does nothing there.  One list of the
  inbox can be read before a change and arrive after it, and one follows.  One report of
  each renderer.

Every configuration but `Session.cfg`, `View.cfg` and `Dupes.cfg` turns deadlock checking
off: changes are bounded, and a program that has settled with its changes used up may stop.  A
program that is off can always be started and a table always be refreshed, so
`session` and `view` keep the check; so does `dupes`, where it can always be ended and
started.

### Fairness

Only the four runs with liveness use it.  `EntryHistory`: the server answers or
the HTTP client times out (`ServerApply \/ ServerRefuse`); asyncio runs a worker
whose answer has arrived (`WorkerStep`, `DedupPurge`, `RefreshApply`); a refresh
that has begun gets an answer.  `LedgerReads`: a request of a list is answered.  `SyncSession`: a step of a flush
is taken, because every p4 command has a timeout (`_run_p4`); the event loop
finishes a change it has begun, and the exit after the shutdown worker.
`RequestGate`: the event loop runs what is ready (`Enter`, `Wake`, `Resume`), the
transport answers or times out (`Answer`), and time passes (`Tick`).
No user action, no other client, no crash and no failure is fair.  Each is weak
fairness of the steps of one worker, which is what the event loop gives.

## 5. What is proved

For all values of the constants, under the named assumptions only:

| Theorem | Says |
|---|---|
| `EntryHistoryProofs!Invariance` | the inductive invariant of the history, under every circumstance |
| `EntryHistoryProofs!TypeCorrectness`, `HeadsAlwaysMatch`, `OneOwnerAlways`, `TrashAlwaysRestorable` | `TypeOK`, `HeadMatchesLog`, `OneOwner`, `TrashRestorable`, under every circumstance |
| `EntryHistoryProofs!InvarianceAlone` | what a restore and a revert hold of the history stays true until they resume, without `overlap` |
| `EntryHistoryProofs!HistoryImplementsLifecycle` | `LifecycleSpec`: the refinement of `EntryLifecycle`, without `overlap` |
| `EntryHistoryProofs!DeletesReachTrash` | `DeleteReachesTrash`, without `overlap`, `lost`, `crash` and `disk` |
| `EntryHistoryProofs!InvarianceCalm` | what table, window, mirror, dialog, worker and history hold of the ledger, under no circumstance |
| `EntryHistoryProofs!LedgerIsProjection`, `CacheIsLedger`, `EditsKeepPrevious` | `LedgerMatchesHistory`, `CacheMatchesLedger`, `EditKeepsPrevious`, under no circumstance |
| `EntryHistoryProofs!LocalDataMoves` | `LocalDataFollows`, under no circumstance and without hashtags, which are finding `v_tags` |
| `AttachmentFilesProofs!FilesTyped`, `OneRowAlways` | types and `OneRowPerContent`, under every circumstance |
| `AttachmentFilesProofs!FilesAlwaysThere` | `RowsHaveFiles`, without `disk` and `race` |
| `LedgerReadsProofs!ReadsTypeCorrect`, `ReadsLists` | types and `ListsComplete`, under every circumstance |
| `LedgerReadsProofs!ReadsStored`, `ReadsDeletes` | `StoredIsCurrent` and `DeleteConfirmed`, without `oldrow`; spoiled windows and days too full to list are excepted |
| `EntriesViewProofs!ViewTypeCorrect`, `ViewShowsAll`, `ViewFilterExact` | `TypeOK`, `ShownIsAllElse`, `FilterExact`, under every circumstance |
| `DuplicateScanProofs!ScanTypes`, `LastCopyIsLeft`, `TableIsReloaded`, `PendingIsKept` | `TypeOK`, `LastCopyStays`, `TableReloaded`, `PendingKept`, under every circumstance, for any scores and edits |
| `DuplicateScanProofs!VerdictsAreTrue`, `DoneMeansDone` | `VerdictsTrue`, `DoneIsDone`, under every circumstance |
| `RequestGateProofs!GateTyped`, `GateCapHolds`, `GateNothingTwice` | `TypeOK`, `CapHolds`, `NothingTwice`, for any number of requests, any cap and any times |
| `SyncSessionProofs!SessionInvariance` | the inductive invariant of the session, under every circumstance |
| `SyncSessionProofs!SessionTypeCorrect`, `SessionDescriptions`, `SessionRunsOnNewest`, `SessionStartCatchesUp` | `TypeOK`, `DescribedIsThere`, `RunsOnNewest`, `StartCatchesUp`, under every circumstance |
| `SyncSessionProofs!SessionQuitSubmits`, `SessionChangesNamed`, `SessionBundleComplete` | `QuitSubmits`, `ChangesNamed`, `BundleComplete`, under every circumstance; `ChangesNamed` says nothing once a change was made while a flush ran, or a name dropped |
| `MenuScreensProofs!DialogsAreHeard` | `DialogIsHeard`, for any accounts, rows and number of changes |
| `MenuScreensProofs!SettledScreensShow` | `SettledIsShown`, for any accounts, rows and number of changes, on all seven screens |
| `MenuScreensProofs!InboxEntersOnce` | `OneEntryPerItem`, for any items, pages and arrivals |
| `MenuScreensProofs!TagsKnowSection`, `TagsRenamedExactly` | `SectionKnown`, `RenameIsExact`, for any entries, tags and sections; the second has no exception |
| `MenuScreensProofs!PaneShowsCurrent` | `ReportShownIsCurrent`, for any menu and any answers |
| `MenuScreensProofs!TableIsDrawn` | `DrawnIsHeld`, for any finite ledger and any hashtags; cells the marker was in are excepted from the highlight of a row |
| `MenuScreensProofs!MissingWasUnpaid` | `MissingIsUnpaid`, for any payments, calendar and ranges, at every date of a rhythm |
| `MenuScreensProofs!ImportEntersOnce`, `ImportOffersMissing` | `EnteredOnce`, `MissingOffered`, for any statements and ledgers |

**History.** None of the three invariants is inductive: a worker that waits holds
ids and values read before its await, and what it will append depends on them.
The invariant `IInv` is `TypeOK`, `WellFormed` (the head of every log is its last
row, an id has one owner, a log begins with a row that has an id), `IdsWithin`
(ids in the log were issued by the server), `KnownIds` (ids in the ledger, the
table, the refresh, the window and the dialog of a row were issued) and
`TaskFits` (what the worker in flight holds: its entry was issued, and the entry
a restore was given, or a revert changes, is in no log but that of its logical
entry).  The first section of `EntryHistoryProofs` proves for each operator of the
history that it preserves `WellFormed` under a precondition on ids, the second
discharges the precondition for each worker step.

That the history implements `EntryLifecycle` needs what two workers knew when they
began: `LInv` says that a restore is of an entry in the trash and of a value in its
log, a revert of a live one, that the trash screen lists entries in the trash, and
that all of it stays so because no screen is open while a worker runs (`Alone`).
`overlap` breaks `Alone`, and with it the theorem.  Each worker step is then a
step of a life: lemmas say what one appended row does to the life of its entry
and that no other is touched, baseline rows included.

The calm run's properties hold under no circumstance, and their invariant `CalmInv`
says how every copy of the ledger is allowed to differ from it: rows shown or in
flight only in the entry a worker has changed and not yet recorded (`Shows`), the
mirror too (`CacheFollows`), the history by exactly that one change
(`HistoryFollows`: it is the projection of the ledger as it was before).  `Carries`
says what the worker holds, `Waits` why nothing else runs.  `LocalDataMoves` adds
that local data is only under ids that are in use, for which files and memo are
re-keyed as a restore is recorded; with a hashtag the foreign key aborts it.

**Files.** `RowsInv` is inductive under every circumstance: types, `AddingFits`
(the addition in progress is of a known entry and within the bound), `RowsInUse`
(rows belong to ids the server gave out, so that a restore re-keys into an empty
place) and `OneRowPerContent`.  `FilesInv` adds `RowsHaveFiles`, `CopyThere` (the
copy that waits for its row is on disk) and `NamedByContent` (a name with a
sha256 in it holds only that content).  Then unlinking when no row of a sha256 is
left never takes a file another row names.  The constants
are those of `MenuScreens`, where a step of the other components leaves files alone
(`FilesMove`).

**Reads.** `GatherInv` says of each entry that did not change since the list
began: a row it has is right and in the window; and it has one, or lies in a
range yet to be asked for, or on a day that is too full.  `HalvesCover` and
`YearsCover` are the arithmetic: the parts of a range have all its days and stay
inside it.  `StoredInv` says the same of stored windows, where the write in
flight may have changed an entry of a window it is about to drop; `WriteFits`
ties what that write knows to the ledger.

**Session.** `SessionInv` is `TypeOK` with `BaseInv` (the revision the workspace
has is part of the local database and of the depot's), `NamesInv` (what is queued
or taken is on disk; a changelist without the database names only what the depot
has) and `CheckedInv` (what each step of the start has established, carried from
the comparison to the work).  The exceptions are states, not assumptions: a
failed command or a database stuck in a changelist ends the claim, nothing else.

What an exit submits and names needs `QuitInv` beside it.  `PlaceInv` says where a
change can be (files go up as they are on disk, what is not marked was not queued),
`SubmitInv` that what the workspace's revision lacks makes the session a marked one
until the last flush has submitted it, `ToldInv` that a change the database has is
named already, or in the journal, in the flush, or about to be queued.  `NamedInv`
says of every file that differs from the workspace that some name of it is on its
way; it needs `OnceInv` (a change is begun once, and removal after addition) and
`DiskInv` (the files are those of the rows but for the change in progress).

**View.** `ViewInv` is `TypeOK` and `ShownIsAllElse` with `TableInv` (the table is
the ledger, down to its oldest row, but for what changed since), `DrawsInv` (a
worker of the current epoch, without a filter, is followed by a refresh or was
excepted) and `WorkerInv`: what it has gathered holds every match of the ages it
has searched, and is what the table shows while the filter is its own.  That the
range after a failed list reaches over the failed one is what makes it inductive.

**Duplicates.** That of linked entries one stays follows from which one.  Take a group
of alike entries that no exception names: one of it is in the ledger, and every cluster
that waits proposes the best of its entries (`Preferred`: score, then age) while the
ledger still has one of the group that is at least as good (`BestStays`, `WellKept`).  A
cluster of any range is inside one group (`LinkedInside`) and a new one proposes its best
(`PickIsBest`); a deletion of others than the proposed one leaves one as good
(`DeletionLeavesBest`); an edit while nothing of the group waits has no proposal to
contradict.  `ScanInv` carries to the worker that what it
still has to delete is of a cluster as it was found (`RowsInv`, `ListInv`,
`MarksInv`, `JobInv`), and `ToldInv` which screen still has to pass on that
something was deleted.  For the verdicts, `VerdictInv` follows a cluster by its id: no
id that is given out is known to a screen, a worker or the history (`IdsOld`), what
the worker deletes of is treated (`JobTreats`), and the verdict of every stored
cluster says so, unless its deletion ended early or is under way (`Verdicts`).

**Gate.** `WindowInv`: the window remembers every attempt of the last period, at
most `Cap`.  `SleepInv`: who sleeps with the lock wakes when one remembered attempt
is a period old, so that trimming makes room although nothing is counted again; and
nobody else passes meanwhile.  Without it the second trim proves nothing.  For
`NothingTwice`, `QueueInv` says that who is in the queue waits there, once, and
`AppliedInv` that nothing was done for a request that has not ended.

**Screens.** A step is one of the screen the behaviour is about, and each screen has
its own invariant over its own variables.

*Settings.*  `HeardInv`: a dialog is alone over its screen, its worker is the one of
its group and waits for it, and workers stand in the group of what they do.  So a key,
which needs an empty stack, is the only way a worker is replaced.  It is claimed for
the screens without delayed saves; accounts and sections promise nothing.
`SettledInv`, which holds on all seven: workers stand in their groups and a list is of
the tab of the moment (`WorkersFit`); a screen that is left leaves no worker, timer or
dialog (`ClosedIsQuiet`); a list that was read without a doubt is what the server has
with no order pending, or a change is about to be followed by another list
(`ListFits`); the rows shown are the server's rows and in its order, unless the timer
or a request still holds the order they are shown in, the last one sent (`ShownFits`,
`Agrees`); the cache is the server's until an answer drops it (`CacheFits`).  A request
for an order carries ids, the screen rows: that sorting by these ids gives these rows
is `SortedAs`, from the rank of a place among the places taken.

*Inbox.*  `InboxInv`: one change at a time stands for the flag `_busy`; an item
that was neither entered nor is unsure is, wherever a list, a page or a dialog still
shows it, in the state it is shown in.

*Hashtags.*  `TagInv`: a row has the section of its entry, none, when it is as old as
the table, or is of an entry whose edit crossed a switch; and an edit in flight
is of the section of the moment or counted as crossed.  Renaming is a lemma about
`rename_tag` (`RenamedRows`).

*Reports.*  `PaneOk`: unless a timer or a message is still to ask, the line of the
moment has the title and its report is asked for or shown.

*Table.*  `TableOk`: rows, sentinel and marks fit, one cell at most is drawn as
marked, a row with ticks is selected or has the tag, and the rows in reverse, whole or worn, are the
selected ones.  Between a change and its
redrawing only the part about the rows changed is suspended (`HalfDrawn`); that
redrawing these rows and the marked one is enough follows from a row having one entry
(`RowOfEntry`), for which the rows are numbered without gaps (`RowsAreNumbers`).

*Recurring payments.*  The invariant is only that what was paid is finite and on days
of the calendar; the weight is on the heuristic.  Days a rhythm expects are more than
two tolerances apart, however many periods there are (`DueApart`, for months of 28 to 31
days: `MonthsApart`), the days
of a set have each their rank (`InOrderIs`), events are days that were paid
(`EventsAre`), and the greedy matching of `_unmatched` leaves an expected day over only
if every event near it was nearer to another one's tolerance (`UnmatchedAre`), which
`DueApart` excludes.

*Statements.*  `ImportInv` says that every entry the import made is filed with the
row it was made from, on its way to the log, or in none (`EntriesFiled`, `InFlight`);
that the log names entries of the ledger only (`LogTold`); and that the matching missed
(`Missed`) every entry of a charge that is proposed, if the entry is older than the
reading of the ledger (`OfferedMissed`), and every other entry of a charge still to be
saved, unless the user confirmed it again (`TodoMissed`).  What `_dedup` keeps is
followed row by row: `Explained` is carried along its recursive function.

Both need recursion and induction over numbers, which the library offers only with an
operator as a parameter.  Here they are done with sets: a set of numbers has a least
one (`LeastNumber`), so the numbers at which a function goes wrong have none (`UpTo`,
`ProcessRuns`).

The constants are assumed finite where the code counts (`TableAssumption`), reports to
have a line to stand on (`PanesAssumption`), and tables of hashtags to be as the
program leaves them (`TagAssumption`).  Payments lie in the calendar
(`RecurringAssumption`).  The rows a server starts with have ids of their own below the
first one it gives out, 10 (`SettingsAssumption`).  A statement lists a charge once, with the same day, amount and
alike merchants wherever it is listed, and the entries a ledger starts with are near the
charges they are of (`ImportAssumption`).

The type invariants, `OneRowPerContent`, `DescribedIsThere`, `PendingKept` and
`RunsOnNewest` are proved and no longer among the properties of a run; TLC agreed
with each before it was proved.

Only model-checked: everything temporal with fairness (`ViewCatchesUp`,
`ListsEnd`, `QuitEnds`, `RequestsEnd`), because liveness is out of the prover's reach.

## 6. Findings

Each has a run and the quoted line in `PROJECT.json`: hashtags stay behind after
a restore (`v_tags`), overtaken deletes are not in the trash (`v_cancel`), the gc
command removes what the ledger has (`v_gc`), and the column marker leaves a plain cell
in a selected row (`v_marker`).

Observed while modelling, without a run of their own:

* the trash screen shows the list it read when it opened (entries.py:1008) and
  `_purge_logical` does not look again: an entry a restore in flight brings back
  meanwhile can be purged, although docs/scenarios/11:214 says only from the trash
  (`PurgeOnlyFromTrash` under `overlap`);
* `flush_on_exit` clears the journal before it has submitted (p4_sync.py:602), and a
  path whose `p4 where` fails is dropped (277-282): the second flush submits
  the database alone, with rows for files the depot never gets, although
  p4_sync.py:38-39 says they go together (`BundleComplete` excepts a failed command);
* the cleaning screen resolves the cluster it shows when the last answer arrives: a
  user who moved on meanwhile marks the wrong one as cleaned (duplicate_scan.py:666);
* a failing list clears the stored clusters first: a refresh without a network
  loses the clusters that waited, and their overview goes on with rows that are gone;
  in the worker of a scan the missing `ToolError` ends the program;
* after a partial failure the retry begins with the entry that is already deleted
  and fails there; the screen's marks are not taken back;
* a cluster that is shown from the table may hold entries another range's cleaning
  has deleted; the call for them is refused and the cluster cannot be finished;
* the scan deletes without an `entry_date`, so an error is not verified
  (duplicate_scan.py:716-735 has the date, entries_scan.py:99 does not), and
  writes no history: the entries are not in the trash;
* `entries_scan.py` catches a `ToolError` it does not import (108, 265, 461): when a
  deletion of the scan fails, `_delete_many` ends with a `NameError`, the cluster stays
  pending and the entries are not loaded again, although duplicate_scan.py:30 says the
  caller reloads them if one was deleted;
* `update_status` documents that a skipped cluster is stored as `skipped`
  (dupe_scan_repo.py:125-129); no caller does, it stays pending;
* the proposal of a cluster is stored, and the score it rests on is of a text an edit
  changes: of a cluster stored for one range, and another stored after an edit for a
  range that overlaps, each may propose a different copy, and cleaning both deletes the
  last one (dupes.py:381-416, dupe_scan_repo.py:95-106; `LastCopyStays` without its
  exception for edits);
* a file whose content comes again on another day or under another name is
  stored twice, and removing the last row of the content unlinks only the paths
  the removed rows name: files no row names stay (attachments.py:6 and
  docs/scenarios/03 say `file_path` is shared);
* clearing a memo leaves the old note, because the upsert keeps it with
  `COALESCE` (db.py:530-561), and a revert does not write the memo back;
* a delete of a row that is stale after a restore marks the live logical entry as
  deleted;
* an edit of a value another client has changed overwrites it without a row of
  it in the history;
* a list that is in flight while a change completes is stored after the drop and
  serves the old rows until it expires (client.py:1375-1380);
* the gc command also removes the attachments of entries in the trash, which are kept
  there for a restore;
* `_entry_absent` sees at most 100 rows of the day: on a busier day an entry that
  is still there can be taken for deleted;
* writes that are not queued (verdicts of scans, the import log, the mirror) do
  not set the mutated flag: a session with nothing else leaves them local until
  the next start, although docs/scenarios/09:7 promises that the exit submits
  every change; `QuitSubmits` is about queued changes, `StartCatchesUp` about all;
* a change made while a flush runs may be submitted before it is queued; the
  changelist that would name it is then empty and deleted;
* the second flush, which app.py:471-472 calls a no-op, is what submits the changes
  of workers that end while the first one runs: without it `QuitSubmits` fails;
* a crash loses the journal: the next start submits the database, never the files;
* a submit that fails leaves its files open in its changelist, and later flushes
  skip open files (p4_sync.py:327);
* files attached on another machine are never synchronised, only the database;
* `entries_cache` is only added to: a row deleted elsewhere stays there for good,
  although docs/scenarios/11:109-110 calls it a mirror of the ledger, and a filter
  shows it (`exclude_entry_ids` and the worker both prefer the mirrored row);
* escape and a hashtag filter leave `_filter_epoch` alone (entries.py:1823-1825,
  2051-2053): a worker that is still running then draws the rows of the filter that
  was left, although entries.py:2071-2072 says `Esc` makes it drop them
  (`ShownIsAll`, `hit` "escaped");
* `action_refresh` forgets the filter before the list has arrived: when the list
  fails, the table stays filtered without an active filter; after a refresh that
  succeeds, the filter stays active over a table that shows everything;
* after a switch of the section the rows of the old one stay until the list
  arrives, and what is done to them is sent with the new section;
* settings: with budgets, Tab and then `d` or Enter before the list arrives changes
  the other kind with a row of the old list; a key during a reload of budgets or
  goals cancels the list or change in flight; the delayed save of an order cancels a
  rename or delete whose dialog is open, and its answer goes nowhere; a move in
  another account type within 0.4 s drops the first order; leaving the screen drops
  it too; a goal with an empty amount is saved as 0;
* custom report rows: a failed create or delete raises `OfficialMcpError`, which only
  the reload catches (report_customs.py:276, 305), and ends the program;
* reports: the title is set before the text is drawn, and the screen passes over any
  exception of drawing: a text with stray markup leaves the report of before under the
  new title (reports.py:671-682), and ends the program in the flow screen;
* hashtags: an edit in flight during a switch of the section stores its rows under
  the wrong one, and the tag screen does not find them, contrary to the docstring
  of `set_hashtags` (db.py:578-582); renaming or merging a tag onto one
  that an entry has under another section violates the primary key and is rolled back
  for all entries, although db.py:827-829 says that the collision is avoided; the colour
  of a renamed tag stays under its old name;
* recurring payments: the table is cleared before the fetch, so a failed scan loses
  the verdicts; once no row is pending the next scan clears the handled and dismissed
  ones, contrary to recurring_scan_repo.py:16; a payment up to three days after
  another is taken for the same;
* statements: Ctrl+S during extraction cancels it, during saving it starts again and
  enters rows twice; Esc between the entry and its log row leaves it unlogged; a date
  with a serial number (`.NNNN`) matches nothing; an entry that was imported and
  deleted is never offered again;
* inbox: a list read before a confirmation and arriving after it brings the row back,
  and a second confirmation enters it again, as after a lost answer; a failure
  after the first page cuts the list without a word; emptying removes what arrived
  after the list was read;
* table: the anchor of a selection is the index of a row that plain moves, refreshes
  and clearing leave alone, although a comment says it is reset with the selection,
  so the next Shift move selects from a stale row; a batch of tags reaches
  selected entries that a filter hides; a narrower terminal may hide the active
  column, and Enter goes on filtering by it;
* the last day of the last step is not searched when the table ends one day short
  of it (`start_d >= end_d`).

## 7. Not modelled, and why

Parsing (statement formats, receipts, e-mails), formatting, layout, key bindings
and input methods hold no state a property here is about.  Receipts are a list and one
entry with its attachment, built like the import with one row; the dashboard is four
counts read at once; `ReportsMenuScreen` and `ReportResultScreen` are opened by
nothing any more.  Notes and previews of attachments, `.trash/`, the audit table and the
download of server attachments are abstracted away in the modules above.
`DuplicateScan` leaves out the local data of an entry (its purge is in `LocalMeta`) and
sections: ranges are those of the active one.  `EntryHistory` has one section; what a
switch does to workers in flight is in `TagBook` and `EntriesView`.  In `RecurringScan`
money and texts, by which entries form a series, are left out; in `StatementImport` the
adapters that turn a file into rows, and the password of one.

A request of a settings screen that is cancelled is carried out before that or never;
`SettledIsShown` excepts cancelled changes in any case.  `TableCursor` leaves out which
cells of a row in reverse have become plain, and colours other than the marker's.

Four hazards of `PROJECT.json` have no property, because the code does not meet them: a
window that outlives a change (client.py:1403), a crash that loses the journal
(p4_sync.py:403), rows that are filed under the section of the moment (entries.py:2624),
and a verdict for the cluster on the screen (duplicate_scan.py:666).  Others are met in
part only; their note says what the property leaves out.

## 8. Plan

The components a user can lose something in are modelled, and every property of a run
that is not about fairness is proved.  What is left, in the order of its worth:

1. `EntryHistory` with the section as a variable of its changes.
2. Requests of a settings screen that the server carries out after they were cancelled.
3. Receipts beside `StatementImport`; the scan of evaluations (`dupe_eval.py`).
