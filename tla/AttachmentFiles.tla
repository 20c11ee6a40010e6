--------------------------- MODULE AttachmentFiles ---------------------------
(***************************************************************************)
(* Files attached to entries: core/src/whooing_core/attachments.py, its    *)
(* callers in the attachment browser and the repository, and the command   *)
(* `whooing-tui gc-attachments', a second process that shares disk and     *)
(* database with the screen.                                               *)
(*                                                                         *)
(* A file is stored under the day it was added and its name; a row of      *)
(* entry_attachments names the entry, the path and the sha256 of the       *)
(* content.  The file of a removed row is unlinked when no other row has   *)
(* its sha256.  A content stands for its sha256, and the first eight       *)
(* digits of two of them differ.                                           *)
(*                                                                         *)
(* What happens to the entries themselves is the subject of EntryHistory;  *)
(* here an id is unused, live, in the trash or gone.                       *)
(***************************************************************************)
EXTENDS Naturals, FiniteSets

CONSTANTS
    EntryId,   \* ids the server gives to entries
    Old,       \* ids the gc command does not fetch: older than its days, or of
               \* another section
    Name,      \* names of source files
    Content,   \* contents of source files
    NoFile,    \* no file under a path
    Days,      \* bound: days the model runs for
    MaxRows,   \* bound: rows ever inserted
    May        \* circumstances this instance allows

Circumstance == {
    "crash",  \* the process dies between the copy of a file and its row
    "disk",   \* a transaction fails after its files were unlinked, or an unlink fails
    "gc",     \* the gc command runs
    "race" }  \* and may do so while the screen is adding a file

\* What is assumed of the constants.
AttachmentAssumption ==
    /\ Old \subseteq EntryId
    /\ NoFile \notin Content
    /\ Days \in Nat \ {0}
    /\ MaxRows \in Nat
    /\ May \subseteq Circumstance

\* alt: the content whose sha256 is appended to the name, or NoFile.
Path == [day : 1..Days, name : Name, alt : Content \cup {NoFile}]

Row == [id : 1..MaxRows, entry : EntryId, path : Path, content : Content]

VARIABLES
    today,   \* attachments are filed under the current day
    disk,    \* path -> content, or NoFile
    rows,    \* entry_attachments
    nextId,  \* AUTOINCREMENT: an id is never given twice
    adding,  \* a file that was copied and has yet to get its row
    status,  \* entry id -> what became of the entry
    listed   \* the answer the gc command works on, or NotListed

vars == <<today, disk, rows, nextId, adding, status, listed>>

Adding    == [entry : EntryId, path : Path, content : Content]
NotAdding == [entry |-> NoFile]
NotListed == {NoFile}

TypeOK ==
    /\ today \in 1..Days
    /\ disk \in [Path -> Content \cup {NoFile}]
    /\ rows \subseteq Row
    /\ nextId \in 1..(MaxRows + 1)
    /\ adding \in Adding \cup {NotAdding}
    /\ status \in [EntryId -> {"unused", "live", "trashed", "gone"}]
    /\ listed \in (SUBSET EntryId) \cup {NotListed}

Init ==
    /\ today = 1
    /\ disk = [p \in Path |-> NoFile]
    /\ rows = {}
    /\ nextId = 1
    /\ adding = NotAdding
    /\ status = [e \in EntryId |-> "unused"]
    /\ listed = NotListed

RowsOf(e) == {r \in rows : r.entry = e}

-------------------------------------------------------------------------------
(* Adding: the file is copied first, then a transaction inserts its row *)

StoredAt(name, alt) == [day |-> today, name |-> name, alt |-> alt]

\* The plain name, unless another content is stored there.
Target(name, c) ==
    IF disk[StoredAt(name, NoFile)] \in {NoFile, c} THEN StoredAt(name, NoFile)
    ELSE StoredAt(name, c)

copy_to_attachments(e, name, c) ==
    /\ adding = NotAdding
    /\ status[e] = "live"
    /\ nextId <= MaxRows
    /\ disk' = [disk EXCEPT ![Target(name, c)] = c]
    /\ adding' = [entry |-> e, path |-> Target(name, c), content |-> c]
    /\ UNCHANGED <<today, rows, nextId, status, listed>>

\* An entry that has the content already keeps its row; the copy stays.
upsert_attachment ==
    /\ adding # NotAdding
    /\ IF \E r \in rows : r.entry = adding.entry /\ r.content = adding.content
       THEN UNCHANGED <<rows, nextId>>
       ELSE /\ rows' = rows \cup {[id |-> nextId, entry |-> adding.entry,
                                   path |-> adding.path, content |-> adding.content]}
            /\ nextId' = nextId + 1
    /\ adding' = NotAdding
    /\ UNCHANGED <<today, disk, status, listed>>

\* The transaction fails, or the process dies before it.
AddFails ==
    /\ May \cap {"crash", "disk"} # {}
    /\ adding # NotAdding
    /\ adding' = NotAdding
    /\ UNCHANGED <<today, disk, rows, nextId, status, listed>>

-------------------------------------------------------------------------------
(* Removing: rows go one by one, each with its file if no row needs it then *)

\* Wrong variant: the file goes with its row.
Unlinked_always(gone) == {r.path : r \in gone}

\* A path is unlinked with the last row of its content.  Other paths with that
\* content stay behind.
Unlinked(gone) ==
    {r.path : r \in {q \in gone : \A o \in rows :
                        o.content = q.content => o \in gone /\ o.id <= q.id}}

\* The files are unlinked inside the transaction that deletes the rows: when it
\* fails, the rows are back and the files are not.
Delete(gone) ==
    \/ /\ rows' = rows \ gone
       /\ disk' = [p \in Path |-> IF p \in Unlinked(gone) THEN NoFile ELSE disk[p]]
    \/ /\ "disk" \in May
       /\ rows' = rows
       /\ disk' = [p \in Path |-> IF p \in Unlinked(gone) THEN NoFile ELSE disk[p]]
    \/ /\ "disk" \in May
       /\ rows' = rows \ gone
       /\ disk' = disk

delete_attachment(r) ==
    /\ adding = NotAdding
    /\ status[r.entry] = "live"
    /\ Delete({r})
    /\ UNCHANGED <<today, nextId, adding, status, listed>>

-------------------------------------------------------------------------------
(* What becomes of an entry, and of its rows with it *)

CreateEntry(e) ==
    /\ status[e] = "unused"
    /\ status' = [status EXCEPT ![e] = "live"]
    /\ UNCHANGED <<today, disk, rows, nextId, adding, listed>>

\* The attachments are kept for a restore.
TrashEntry(e) ==
    /\ adding = NotAdding
    /\ status[e] = "live"
    /\ status' = [status EXCEPT ![e] = "trashed"]
    /\ UNCHANGED <<today, disk, rows, nextId, adding, listed>>

Rekeyed(e, new) == {IF r.entry = e THEN [r EXCEPT !.entry = new] ELSE r : r \in rows}

\* The entry is created again under another id and its rows follow.
RestoreEntry(e, new) ==
    /\ adding = NotAdding
    /\ status[e] = "trashed"
    /\ status[new] = "unused"
    /\ new \in Old <=> e \in Old
    /\ status' = [status EXCEPT ![e] = "gone", ![new] = "live"]
    /\ rows' = Rekeyed(e, new)
    /\ UNCHANGED <<today, disk, nextId, adding, listed>>

\* From the trash, or a live entry from the duplicates screen.
purge_attachments_for_entry(e) ==
    /\ adding = NotAdding
    /\ status[e] \in {"live", "trashed"}
    /\ status' = [status EXCEPT ![e] = "gone"]
    /\ Delete(RowsOf(e))
    /\ UNCHANGED <<today, nextId, adding, listed>>

-------------------------------------------------------------------------------
(* The gc command: it lists the recent entries, then removes what is not listed *)

GcLists ==
    /\ "gc" \in May
    /\ listed = NotListed
    /\ listed' = {e \in EntryId \ Old : status[e] = "live"}
    /\ UNCHANGED <<today, disk, rows, nextId, adding, status>>

\* An empty answer protects every row.
find_orphan_attachments(valid) ==
    IF valid = {} THEN {} ELSE {r \in rows : r.entry \notin valid}

cleanup_orphan_attachments ==
    /\ listed # NotListed
    /\ adding # NotAdding => "race" \in May
    /\ Delete(find_orphan_attachments(listed))
    /\ listed' = NotListed
    /\ UNCHANGED <<today, nextId, adding, status>>

Midnight ==
    /\ today < Days
    /\ adding = NotAdding
    /\ today' = today + 1
    /\ UNCHANGED <<disk, rows, nextId, adding, status, listed>>

-------------------------------------------------------------------------------

Next ==
    \/ \E e \in EntryId, n \in Name, c \in Content : copy_to_attachments(e, n, c)
    \/ upsert_attachment
    \/ AddFails
    \/ \E r \in rows : delete_attachment(r)
    \/ \E e \in EntryId :
          \/ CreateEntry(e)
          \/ TrashEntry(e)
          \/ purge_attachments_for_entry(e)
          \/ \E new \in EntryId : RestoreEntry(e, new)
    \/ GcLists
    \/ cleanup_orphan_attachments
    \/ Midnight

Spec == Init /\ [][Next]_vars

-------------------------------------------------------------------------------
(* Properties *)

\* A row can be opened, and shows what was added: its file is there with the
\* content whose sha256 the row has, although rows share files and files are
\* unlinked by looking at sha256 only.
RowsHaveFiles == \A r \in rows : disk[r.path] = r.content

\* An entry has one row for a content, also after a restore re-keyed its rows
\* (docs/scenarios/03: adding the same file again makes no second row).
OneRowPerContent ==
    \A r, q \in rows : r.entry = q.entry /\ r.content = q.content => r = q

\* The gc command removes the attachments of entries that are not in the ledger
\* (cli.py: "ids that Whooing does not have"), whatever happens while it waits
\* for its list.
GcSparesLedger ==
    [][listed # NotListed /\ listed' = NotListed
       => \A r \in rows \ rows' : status[r.entry] # "live"]_vars
===============================================================================
