------------------------ MODULE AttachmentFilesProofs ------------------------
(***************************************************************************)
(* An entry never has two rows of one content, under every circumstance;   *)
(* and as long as no transaction fails after an unlink and the gc command  *)
(* keeps away from a file that is being added, every row has its file with *)
(* its content, although files are shared, re-keyed and unlinked by        *)
(* counting rows of a sha256.                                              *)
(***************************************************************************)
EXTENDS MenuScreens, TLAPS

\* What the screen is adding fits the entries and the bound.
AddingFits ==
    adding # Files!NotAdding =>
        nextRow <= MaxRows /\ status[adding.entry] # "unused"

\* Rows belong to ids the server has given out.
RowsInUse == \A r \in attached : status[r.entry] # "unused"

RowsInv == Files!TypeOK /\ AddingFits /\ RowsInUse /\ Files!OneRowPerContent

\* The copy that waits for its row is still there.
CopyThere == adding # Files!NotAdding => disk[adding.path] = adding.content

\* Under a name with a sha256 there is only that content.
NamedByContent == \A p \in Files!Path : p.alt # NoFile => disk[p] \in {NoFile, p.alt}

FilesInv == RowsInv /\ Files!RowsHaveFiles /\ CopyThere /\ NamedByContent

-------------------------------------------------------------------------------

\* The paths a copy can go to are paths.
LEMMA TargetIsPath ==
    ASSUME Files!TypeOK, NEW n \in Name, NEW c \in Content
    PROVE  Files!Target(n, c) \in Files!Path
BY DEF Files!Target, Files!StoredAt, Files!Path, Files!TypeOK

\* Whatever fails, a deletion adds no row, and the disk stays well-typed.
LEMMA DeleteShrinks ==
    ASSUME Files!TypeOK, NEW lost, Files!Delete(lost)
    PROVE  /\ attached' \subseteq attached
           /\ disk' \in [Files!Path -> Content \cup {NoFile}]
BY DEF Files!Delete, Files!TypeOK

\* Rows that shrink keep what holds of each of them.
LEMMA FewerRows ==
    ASSUME RowsInv, attached' \subseteq attached, nextRow' = nextRow,
           adding' = adding \/ adding' = Files!NotAdding,
           \A e \in EntryId : status[e] # "unused" => status'[e] # "unused"
    PROVE  AddingFits' /\ RowsInUse' /\ Files!OneRowPerContent'
<1>1. RowsInUse' /\ Files!OneRowPerContent'
  BY DEF RowsInv, RowsInUse, Files!OneRowPerContent, Files!TypeOK, Files!Row
<1>2. AddingFits'
  <2>1. CASE adding' = Files!NotAdding
    BY <2>1 DEF AddingFits
  <2>2. CASE adding' = adding /\ adding # Files!NotAdding
    <3>1. adding.entry \in EntryId
      BY <2>2 DEF RowsInv, Files!TypeOK, Files!Adding
    <3> QED BY <2>2, <3>1 DEF AddingFits, RowsInv
  <2> QED BY <2>1, <2>2
<1> QED BY <1>1, <1>2

\* RowsInv at the start and in every step.
LEMMA RowsInvInit == Files!Init => RowsInv
BY FilesAssumption
   DEF Files!AttachmentAssumption, Files!Init, RowsInv, Files!TypeOK, AddingFits, RowsInUse,
       Files!OneRowPerContent, Files!NotAdding, Files!NotListed

LEMMA RowsInvNext ==
    ASSUME RowsInv, [Files!Next]_filesVars
    PROVE  RowsInv'
<1> USE FilesAssumption DEF Files!AttachmentAssumption
<1>t. Files!TypeOK
  BY DEF RowsInv
<1>1. ASSUME NEW e \in EntryId, NEW n \in Name, NEW c \in Content,
             Files!copy_to_attachments(e, n, c)
      PROVE  RowsInv'
  <2>1. Files!Target(n, c) \in Files!Path
    BY <1>t, TargetIsPath
  <2>2. Files!TypeOK'
    BY <1>t, <1>1, <2>1 DEF Files!copy_to_attachments, Files!TypeOK, Files!Adding
  <2>3. AddingFits'
    BY <1>t, <1>1 DEF Files!copy_to_attachments, AddingFits, Files!TypeOK
  <2>4. RowsInUse' /\ Files!OneRowPerContent'
    BY <1>1 DEF Files!copy_to_attachments, RowsInv, RowsInUse, Files!OneRowPerContent
  <2> QED BY <2>2, <2>3, <2>4 DEF RowsInv
<1>2. ASSUME Files!upsert_attachment
      PROVE  RowsInv'
  <2>1. adding \in Files!Adding /\ nextRow <= MaxRows /\ status[adding.entry] # "unused"
    BY <1>t, <1>2 DEF Files!upsert_attachment, RowsInv, AddingFits, Files!TypeOK
  <2>2. CASE \E r \in attached : r.entry = adding.entry /\ r.content = adding.content
    <3>1. /\ attached' = attached /\ nextRow' = nextRow
          /\ adding' = Files!NotAdding /\ status' = status
      BY <1>2, <2>2 DEF Files!upsert_attachment
    <3>2. Files!TypeOK'
      BY <1>t, <1>2, <3>1 DEF Files!upsert_attachment, Files!TypeOK
    <3> QED BY <3>1, <3>2, FewerRows DEF RowsInv
  <2>3. CASE ~ \E r \in attached : r.entry = adding.entry /\ r.content = adding.content
    <3> DEFINE new == [id |-> nextRow, entry |-> adding.entry,
                       path |-> adding.path, content |-> adding.content]
    <3>1. attached' = attached \cup {new} /\ nextRow' = nextRow + 1
      BY <1>2, <2>3 DEF Files!upsert_attachment
    <3>2. new \in Files!Row
      BY <1>t, <2>1 DEF Files!Row, Files!Adding, Files!TypeOK
    <3>3. Files!TypeOK'
      BY <1>t, <1>2, <2>1, <3>1, <3>2 DEF Files!upsert_attachment, Files!TypeOK
    <3>4. AddingFits'
      BY <1>2 DEF Files!upsert_attachment, AddingFits
    <3>5. RowsInUse'
      BY <1>2, <2>1, <3>1 DEF Files!upsert_attachment, RowsInv, RowsInUse
    <3>6. Files!OneRowPerContent'
      BY <2>3, <3>1 DEF RowsInv, Files!OneRowPerContent
    <3> QED BY <3>3, <3>4, <3>5, <3>6 DEF RowsInv
  <2> QED BY <2>2, <2>3
<1>3. ASSUME Files!AddFails
      PROVE  RowsInv'
  <2>1. Files!TypeOK'
    BY <1>t, <1>3 DEF Files!AddFails, Files!TypeOK
  <2> QED BY <1>3, <2>1, FewerRows DEF Files!AddFails, RowsInv
<1>4. ASSUME NEW r \in attached, Files!delete_attachment(r)
      PROVE  RowsInv'
  <2>1. attached' \subseteq attached /\ disk' \in [Files!Path -> Content \cup {NoFile}]
    BY <1>t, <1>4, DeleteShrinks DEF Files!delete_attachment
  <2>2. Files!TypeOK'
    BY <1>t, <1>4, <2>1 DEF Files!delete_attachment, Files!TypeOK
  <2> QED BY <1>4, <2>1, <2>2, FewerRows DEF Files!delete_attachment, RowsInv
<1>5. ASSUME NEW e \in EntryId, Files!CreateEntry(e) \/ Files!TrashEntry(e)
      PROVE  RowsInv'
  <2>1. Files!TypeOK'
    BY <1>t, <1>5 DEF Files!CreateEntry, Files!TrashEntry, Files!TypeOK
  <2>2. \A k \in EntryId : status[k] # "unused" => status'[k] # "unused"
    BY <1>t, <1>5 DEF Files!CreateEntry, Files!TrashEntry, Files!TypeOK
  <2> QED BY <1>5, <2>1, <2>2, FewerRows DEF Files!CreateEntry, Files!TrashEntry, RowsInv
<1>6. ASSUME NEW e \in EntryId, Files!purge_attachments_for_entry(e)
      PROVE  RowsInv'
  <2>1. attached' \subseteq attached /\ disk' \in [Files!Path -> Content \cup {NoFile}]
    BY <1>t, <1>6, DeleteShrinks DEF Files!purge_attachments_for_entry
  <2>2. Files!TypeOK'
    BY <1>t, <1>6, <2>1 DEF Files!purge_attachments_for_entry, Files!TypeOK
  <2>3. \A k \in EntryId : status[k] # "unused" => status'[k] # "unused"
    BY <1>t, <1>6 DEF Files!purge_attachments_for_entry, Files!TypeOK
  <2> QED BY <1>6, <2>1, <2>2, <2>3, FewerRows
     DEF Files!purge_attachments_for_entry, RowsInv
<1>7. ASSUME NEW e \in EntryId, NEW new \in EntryId, Files!RestoreEntry(e, new)
      PROVE  RowsInv'
  <2>1. /\ attached' = Files!Rekeyed(e, new)
        /\ adding = Files!NotAdding /\ adding' = Files!NotAdding
        /\ status[new] = "unused" /\ status[e] = "trashed"
        /\ status' = [status EXCEPT ![e] = "gone", ![new] = "live"]
    BY <1>7 DEF Files!RestoreEntry
  <2>2. attached \subseteq Files!Row
    BY <1>t DEF Files!TypeOK
  <2>3. Files!Rekeyed(e, new) \subseteq Files!Row
    BY <2>2 DEF Files!Rekeyed, Files!Row
  <2>4. Files!TypeOK'
    BY <1>t, <1>7, <2>1, <2>3 DEF Files!RestoreEntry, Files!TypeOK
  <2>5. RowsInUse'
    BY <1>t, <2>1, <2>2 DEF RowsInv, RowsInUse, Files!Rekeyed, Files!TypeOK, Files!Row
  <2>6. Files!OneRowPerContent'
    <3> SUFFICES ASSUME NEW r \in attached, NEW q \in attached,
                        NEW x, x = IF r.entry = e THEN [r EXCEPT !.entry = new] ELSE r,
                        NEW y, y = IF q.entry = e THEN [q EXCEPT !.entry = new] ELSE q,
                        x.entry = y.entry, x.content = y.content
                 PROVE  x = y
      BY <2>1 DEF Files!OneRowPerContent, Files!Rekeyed
    <3>1. r \in Files!Row /\ q \in Files!Row
      BY <2>2
    <3>2. r.entry # new /\ q.entry # new
      BY <2>1 DEF RowsInv, RowsInUse
    <3>3. x.content = r.content /\ y.content = q.content
      BY <3>1 DEF Files!Row
    <3>4. x.entry = (IF r.entry = e THEN new ELSE r.entry)
          /\ y.entry = (IF q.entry = e THEN new ELSE q.entry)
      BY <3>1 DEF Files!Row
    <3>5. r.entry = q.entry
      BY <3>2, <3>4
    <3>6. r = q
      BY <3>3, <3>5 DEF RowsInv, Files!OneRowPerContent
    <3> QED BY <3>6
  <2>7. AddingFits'
    BY <2>1 DEF AddingFits
  <2> QED BY <2>4, <2>5, <2>6, <2>7 DEF RowsInv
<1>8. ASSUME Files!GcLists \/ Files!Midnight
      PROVE  RowsInv'
  <2>1. Files!TypeOK'
    BY <1>t, <1>8 DEF Files!GcLists, Files!Midnight, Files!TypeOK
  <2> QED BY <1>8, <2>1, FewerRows DEF Files!GcLists, Files!Midnight, RowsInv
<1>9. ASSUME Files!cleanup_orphan_attachments
      PROVE  RowsInv'
  <2>1. attached' \subseteq attached /\ disk' \in [Files!Path -> Content \cup {NoFile}]
    BY <1>t, <1>9, DeleteShrinks DEF Files!cleanup_orphan_attachments
  <2>2. Files!TypeOK'
    BY <1>t, <1>9, <2>1 DEF Files!cleanup_orphan_attachments, Files!TypeOK
  <2> QED BY <1>9, <2>1, <2>2, FewerRows DEF Files!cleanup_orphan_attachments, RowsInv
<1>10. ASSUME UNCHANGED filesVars
       PROVE  RowsInv'
  BY <1>10
     DEF filesVars, RowsInv, Files!TypeOK, AddingFits, RowsInUse, Files!OneRowPerContent
<1> QED BY <1>1, <1>2, <1>3, <1>4, <1>5, <1>6, <1>7, <1>8, <1>9, <1>10 DEF Files!Next

\* A behaviour of the screens is one of the files, or leaves them alone.
LEMMA FilesMove ==
    /\ Init => Files!Init
    /\ [Next]_allVars => [Files!Next]_filesVars
BY DEF Init, Next, Others, Same, allVars, filesVars

\* Every variable keeps its type, the rows their ids and entries, whatever is
\* copied, removed, re-keyed or rolled back (core/attachments.py).
THEOREM FilesTyped == Spec => []Files!TypeOK
<1>1. RowsInv => Files!TypeOK
  BY DEF RowsInv
<1>2. Init => RowsInv
  BY FilesMove, RowsInvInit
<1>3. RowsInv /\ [Next]_allVars => RowsInv'
  BY FilesMove, RowsInvNext
<1> QED BY <1>1, <1>2, <1>3, PTL DEF Spec

\* Under every circumstance: upsert_attachment makes no second row of a content
\* for one entry, and re-keying at a restore does not merge two entries' rows.
THEOREM OneRowAlways == Spec => []Files!OneRowPerContent
<1>1. RowsInv => Files!OneRowPerContent
  BY DEF RowsInv
<1>2. Init => RowsInv
  BY FilesMove, RowsInvInit
<1>3. RowsInv /\ [Next]_allVars => RowsInv'
  BY FilesMove, RowsInvNext
<1> QED BY <1>1, <1>2, <1>3, PTL DEF Spec

-------------------------------------------------------------------------------
(* The files *)

\* An unlinked path has no row left: had it one, that row would have the content
\* of the path, and the last row of the content would not be gone.
LEMMA KeptRowsKeepFiles ==
    ASSUME Files!TypeOK, Files!RowsHaveFiles, "disk" \notin FilesMay,
           NEW lost \in SUBSET attached, Files!Delete(lost)
    PROVE  /\ Files!RowsHaveFiles'
           /\ \A p \in Files!Path : disk'[p] \in {NoFile, disk[p]}
<1>1. /\ attached' = attached \ lost
      /\ disk' = [p \in Files!Path |-> IF p \in Files!Unlinked(lost) THEN NoFile ELSE disk[p]]
  BY DEF Files!Delete
<1>2. ASSUME NEW r \in attached \ lost
      PROVE  disk'[r.path] = r.content
  <2>1. r.path \in Files!Path /\ disk[r.path] = r.content
    BY DEF Files!TypeOK, Files!Row, Files!RowsHaveFiles
  <2>2. r.path \notin Files!Unlinked(lost)
    BY <2>1 DEF Files!Unlinked, Files!RowsHaveFiles
  <2> QED BY <1>1, <2>1, <2>2
<1> QED BY <1>1, <1>2 DEF Files!RowsHaveFiles

\* A step that leaves rows, disk and the copy alone keeps the files.
LEMMA FilesUntouched ==
    ASSUME FilesInv, RowsInv', disk' = disk, attached' = attached,
           adding' = adding \/ adding' = Files!NotAdding
    PROVE  FilesInv'
BY DEF FilesInv, Files!RowsHaveFiles, CopyThere, NamedByContent

\* A deletion while no copy waits for its row keeps the files.
LEMMA FilesAfterDelete ==
    ASSUME FilesInv, RowsInv', "disk" \notin FilesMay,
           NEW lost \in SUBSET attached, Files!Delete(lost),
           adding = Files!NotAdding, adding' = Files!NotAdding
    PROVE  FilesInv'
<1>1. Files!TypeOK
  BY DEF FilesInv, RowsInv
<1>2. Files!RowsHaveFiles' /\ \A p \in Files!Path : disk'[p] \in {NoFile, disk[p]}
  BY <1>1, KeptRowsKeepFiles DEF FilesInv
<1>3. NamedByContent'
  BY <1>2 DEF FilesInv, NamedByContent
<1> QED BY <1>2, <1>3 DEF FilesInv, CopyThere

LEMMA FilesInvNext ==
    ASSUME FilesInv, [Files!Next]_filesVars, FilesMay \cap {"disk", "race"} = {}
    PROVE  FilesInv'
<1> USE FilesAssumption DEF Files!AttachmentAssumption
<1>r. RowsInv'
  BY RowsInvNext DEF FilesInv
<1>t. Files!TypeOK /\ "disk" \notin FilesMay /\ "race" \notin FilesMay
  BY DEF FilesInv, RowsInv
<1>1. ASSUME NEW e \in EntryId, NEW n \in Name, NEW c \in Content,
             Files!copy_to_attachments(e, n, c)
      PROVE  FilesInv'
  <2> DEFINE t == Files!Target(n, c)
  <2>1. t \in Files!Path /\ Files!StoredAt(n, NoFile) \in Files!Path
    BY <1>t, TargetIsPath DEF Files!StoredAt, Files!Path, Files!TypeOK
  <2>2. disk[t] \in {NoFile, c}
    BY <1>t, <2>1 DEF Files!Target, Files!StoredAt, FilesInv, NamedByContent, Files!Path
  <2>3. t.alt \in {NoFile, c}
    BY DEF Files!Target, Files!StoredAt
  <2> HIDE DEF t
  <2>4. disk' = [disk EXCEPT ![t] = c] /\ attached' = attached
        /\ adding' = [entry |-> e, path |-> t, content |-> c]
    BY <1>1 DEF Files!copy_to_attachments, t
  <2>5. Files!RowsHaveFiles'
    <3> SUFFICES ASSUME NEW r \in attached
                 PROVE  disk'[r.path] = r.content
      BY <2>4 DEF Files!RowsHaveFiles
    <3>1. r.path \in Files!Path /\ r.content \in Content /\ disk[r.path] = r.content
      BY <1>t DEF Files!TypeOK, Files!Row, FilesInv, Files!RowsHaveFiles
    <3> QED BY <1>t, <2>1, <2>2, <2>4, <3>1 DEF Files!TypeOK
  <2>6. CopyThere'
    BY <1>t, <2>1, <2>4 DEF CopyThere, Files!TypeOK
  <2>7. NamedByContent'
    BY <1>t, <2>1, <2>3, <2>4 DEF FilesInv, NamedByContent, Files!TypeOK
  <2> QED BY <1>r, <2>5, <2>6, <2>7 DEF FilesInv
<1>2. ASSUME Files!upsert_attachment
      PROVE  FilesInv'
  <2>1. disk' = disk /\ adding # Files!NotAdding /\ adding' = Files!NotAdding
    BY <1>2 DEF Files!upsert_attachment
  <2>2. \A r \in attached' \ attached : r.path = adding.path /\ r.content = adding.content
    BY <1>2 DEF Files!upsert_attachment
  <2>3. Files!RowsHaveFiles'
    BY <2>1, <2>2 DEF FilesInv, Files!RowsHaveFiles, CopyThere
  <2> QED BY <1>r, <2>1, <2>3 DEF FilesInv, CopyThere, NamedByContent
<1>3. ASSUME Files!AddFails \/ Files!GcLists \/ Files!Midnight
      PROVE  FilesInv'
  BY <1>r, <1>3, FilesUntouched DEF Files!AddFails, Files!GcLists, Files!Midnight
<1>4. ASSUME NEW r \in attached, Files!delete_attachment(r)
      PROVE  FilesInv'
  BY <1>r, <1>t, <1>4, FilesAfterDelete DEF Files!delete_attachment
<1>5. ASSUME NEW e \in EntryId, Files!CreateEntry(e) \/ Files!TrashEntry(e)
      PROVE  FilesInv'
  BY <1>r, <1>5, FilesUntouched DEF Files!CreateEntry, Files!TrashEntry
<1>6. ASSUME NEW e \in EntryId, Files!purge_attachments_for_entry(e)
      PROVE  FilesInv'
  <2>1. Files!RowsOf(e) \in SUBSET attached
    BY DEF Files!RowsOf
  <2> QED BY <1>r, <1>t, <1>6, <2>1, FilesAfterDelete DEF Files!purge_attachments_for_entry
<1>7. ASSUME NEW e \in EntryId, NEW new \in EntryId, Files!RestoreEntry(e, new)
      PROVE  FilesInv'
  <2>1. attached' = Files!Rekeyed(e, new) /\ disk' = disk /\ adding' = adding
    BY <1>7 DEF Files!RestoreEntry
  <2>2. Files!RowsHaveFiles'
    <3> SUFFICES ASSUME NEW r \in attached,
                        NEW x, x = IF r.entry = e THEN [r EXCEPT !.entry = new] ELSE r
                 PROVE  disk[x.path] = x.content
      BY <2>1 DEF Files!RowsHaveFiles, Files!Rekeyed
    <3>1. r \in Files!Row
      BY <1>t DEF Files!TypeOK
    <3>2. x.path = r.path /\ x.content = r.content
      BY <3>1 DEF Files!Row
    <3> QED BY <3>2 DEF FilesInv, Files!RowsHaveFiles
  <2> QED BY <1>r, <2>1, <2>2 DEF FilesInv, CopyThere, NamedByContent
<1>8. ASSUME Files!cleanup_orphan_attachments
      PROVE  FilesInv'
  <2>1. adding = Files!NotAdding /\ adding' = Files!NotAdding
    BY <1>t, <1>8 DEF Files!cleanup_orphan_attachments
  <2>2. Files!find_orphan_attachments(gcListed) \in SUBSET attached
    BY DEF Files!find_orphan_attachments
  <2> QED BY <1>r, <1>t, <1>8, <2>1, <2>2, FilesAfterDelete
     DEF Files!cleanup_orphan_attachments
<1>9. ASSUME UNCHANGED filesVars
      PROVE  FilesInv'
  BY <1>r, <1>9, FilesUntouched DEF filesVars
<1> QED BY <1>1, <1>2, <1>3, <1>4, <1>5, <1>6, <1>7, <1>8, <1>9 DEF Files!Next

\* Unless a transaction fails after its unlinks or the gc command runs into an
\* addition, every row has its file with its content: counting the rows of a
\* sha256 is enough, for any number of entries, names, contents and days.
THEOREM FilesAlwaysThere ==
    ASSUME FilesMay \cap {"disk", "race"} = {}
    PROVE  Spec => []RowsHaveFiles
<1>1. Init => FilesInv
  BY FilesMove, RowsInvInit
     DEF Files!Init, FilesInv, Files!RowsHaveFiles, CopyThere, NamedByContent
<1>2. FilesInv /\ [Next]_allVars => FilesInv'
  BY FilesMove, FilesInvNext
<1>3. FilesInv => RowsHaveFiles
  BY DEF FilesInv, RowsHaveFiles
<1> QED BY <1>1, <1>2, <1>3, PTL DEF Spec
===============================================================================
