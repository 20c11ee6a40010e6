------------------------------ MODULE LocalMeta ------------------------------
(***************************************************************************)
(* What the program keeps locally about an entry under the id the server   *)
(* gave it: the memo mirror (entry_annotations), the hashtags              *)
(* (entry_hashtags) and the attachment rows (entry_attachments).  The      *)
(* operators are the transactions of tui/src/whooing_tui/repository.py     *)
(* over these tables; each maps the tables to the tables after it.         *)
(***************************************************************************)
EXTENDS RevisionLog

CONSTANTS
    Tag,       \* hashtags
    File,      \* attached files
    WithMemo,  \* the values whose memo is not empty
    NoRow,     \* no row in entry_annotations
    NoNote     \* a row whose note is NULL

ASSUME MetaAssumption == WithMemo \subseteq Value /\ NoRow \notin Value /\ NoNote \notin Value

\* note[e] stands for the memo of the value it names.
Meta == [note  : [EntryId -> WithMemo \cup {NoRow, NoNote}],
         tags  : [EntryId -> SUBSET Tag],
         files : [EntryId -> SUBSET File]]

EmptyMeta == [note  |-> [e \in EntryId |-> NoRow],
              tags  |-> [e \in EntryId |-> {}],
              files |-> [e \in EntryId |-> {}]]

\* Hashtags reference their annotation row (db.py: FOREIGN KEY, foreign_keys=ON).
ForeignKey(m) == \A e \in EntryId : m.tags[e] # {} => m.note[e] # NoRow

\* COALESCE(memo or None, note): an empty memo leaves the old note.
MirroredNote(m, e, v) ==
    IF v \in WithMemo THEN v
    ELSE IF m.note[e] = NoRow THEN NoNote ELSE m.note[e]

persist(m, e, v, tags) ==
    [m EXCEPT !.note[e] = MirroredNote(m, e, v), !.tags[e] = tags]

attach(m, e, f) == [m EXCEPT !.files[e] = @ \cup {f}]

\* Moving an annotation row that hashtags reference breaks the foreign key at
\* once (NO ACTION on update): sqlite aborts the statement, OR IGNORE does not
\* apply to it, and open_rw rolls the transaction back.
MigrationAborts(m, old, new) ==
    m.note[old] # NoRow /\ m.note[new] = NoRow /\ m.tags[old] # {}

\* Wrong variant: attachment rows stay under the old id.
migrate_local_no_files(m, old, new) ==
    IF old \in {NoId, new} \/ MigrationAborts(m, old, new) THEN m
    ELSE [m EXCEPT !.note = IF m.note[new] # NoRow THEN m.note
                            ELSE [m.note EXCEPT ![new] = m.note[old], ![old] = NoRow],
                   !.tags = [m.tags EXCEPT ![new] = @ \cup m.tags[old],
                                           ![old] = @ \cap m.tags[new]]]

\* UPDATE OR IGNORE skips a row whose new key is taken.
migrate_local(m, old, new) ==
    IF old \in {NoId, new} \/ MigrationAborts(m, old, new) THEN m
    ELSE [note  |-> IF m.note[new] # NoRow THEN m.note
                    ELSE [m.note EXCEPT ![new] = m.note[old], ![old] = NoRow],
          tags  |-> [m.tags EXCEPT ![new] = @ \cup m.tags[old],
                                   ![old] = @ \cap m.tags[new]],
          files |-> [m.files EXCEPT ![new] = @ \cup m.files[old], ![old] = {}]]

\* Removing the annotation cascades to the hashtags.
purge(m, e) ==
    [m EXCEPT !.note[e] = NoRow,
              !.tags[e] = IF m.note[e] = NoRow THEN @ ELSE {},
              !.files[e] = {}]
===============================================================================
