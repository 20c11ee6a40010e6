----------------------------- MODULE RevisionLog -----------------------------
(***************************************************************************)
(* The edit history of the ledger's entries: the sqlite tables             *)
(* entry_revisions and entry_head and the functions of                     *)
(* core/src/whooing_core/revisions.py that read and write them.            *)
(*                                                                         *)
(* A history is a record of two functions of the logical id.  The rows of  *)
(* one logical entry are a sequence: revision_no is the position of a row, *)
(* because _next_revision_no is MAX + 1 and the only deletion removes all  *)
(* the rows of a logical entry at once.  The eight snapshot fields of a    *)
(* row are one member of Value.  Audit columns that no code reads back     *)
(* (created_at, source, reverted_from, note) are left out.                 *)
(***************************************************************************)
EXTENDS Naturals, Sequences

CONSTANTS
    EntryId,  \* ids the Whooing server gives to entries; logical ids are among them
    Value,    \* bodies of an entry: date, accounts, money, item and memo
    NoId      \* the NULL of an id column

ASSUME NoIdAssumption == NoId \notin EntryId

Op == {"create", "edit", "delete", "restore", "revert", "external"}

RevisionRow == [whooing_entry_id : EntryId \cup {NoId},
                op               : Op,
                snapshot         : Value,
                is_deleted       : BOOLEAN]

HeadRow == [current_entry_id : EntryId \cup {NoId},
            head_revision_no : Nat,
            is_deleted       : BOOLEAN]

\* A logical entry without a row in entry_head: it is not tracked.
NoHead == [current_entry_id |-> NoId, head_revision_no |-> 0, is_deleted |-> FALSE]

History == [revs : [EntryId -> Seq(RevisionRow)], head : [EntryId -> HeadRow]]

EmptyHistory == [revs |-> [l \in EntryId |-> << >>],
                 head |-> [l \in EntryId |-> NoHead]]

-------------------------------------------------------------------------------
(* Reads *)

latest_revision(h, l) == h.revs[l][Len(h.revs[l])]

Tracked(h) == {l \in EntryId : h.revs[l] # << >>}

\* The logical entry l has, or once had, the id e.
Owns(h, l, e) == \E n \in DOMAIN h.revs[l] : h.revs[l][n].whooing_entry_id = e

\* The live mappings of e, and every logical entry that ever bore the id e.
LiveOwners(h, e) == {l \in EntryId : h.head[l].current_entry_id = e}
PastOwners(h, e) == {l \in EntryId : Owns(h, l, e)}

\* ORDER BY revision_no DESC LIMIT 1: an owner with the largest such number.
LastMention(h, l, e) ==
    CHOOSE n \in DOMAIN h.revs[l] :
        /\ h.revs[l][n].whooing_entry_id = e
        /\ \A m \in DOMAIN h.revs[l] : h.revs[l][m].whooing_entry_id = e => m <= n

logical_id_for_entry(h, e) ==
    IF LiveOwners(h, e) # {} THEN CHOOSE l \in LiveOwners(h, e) : TRUE
    ELSE IF PastOwners(h, e) # {}
         THEN CHOOSE l \in PastOwners(h, e) :
                 \A k \in PastOwners(h, e) : LastMention(h, k, e) <= LastMention(h, l, e)
         ELSE NoId

list_deleted(h) == {l \in EntryId : h.head[l].is_deleted}

\* The last id a logical entry had on the server (_last_whooing_id).
Mentions(h, l) == {n \in DOMAIN h.revs[l] : h.revs[l][n].whooing_entry_id # NoId}
last_whooing_id(h, l) ==
    IF Mentions(h, l) = {} THEN NoId
    ELSE h.revs[l][CHOOSE n \in Mentions(h, l) : \A m \in Mentions(h, l) : m <= n].whooing_entry_id

\* The row of l in entry_head is what the last row of its log says.
HeadIsLastRow(h, l) ==
    IF h.revs[l] = << >> THEN h.head[l] = NoHead
    ELSE /\ h.head[l].head_revision_no = Len(h.revs[l])
         /\ h.head[l].is_deleted = latest_revision(h, l).is_deleted
         /\ h.head[l].current_entry_id = latest_revision(h, l).whooing_entry_id
         /\ h.head[l].is_deleted <=> h.head[l].current_entry_id = NoId

-------------------------------------------------------------------------------
(* Writes: each maps a history to the history after the transaction *)

\* Wrong variant: a deleted entry keeps its current id.
record_revision_keeps_id(h, l, e, op, v, deleted) ==
    [revs |-> [h.revs EXCEPT ![l] =
                  Append(@, [whooing_entry_id |-> e, op |-> op,
                             snapshot |-> v, is_deleted |-> deleted])],
     head |-> [h.head EXCEPT ![l] =
                  [current_entry_id |-> IF deleted THEN @.current_entry_id ELSE e,
                   head_revision_no |-> Len(h.revs[l]) + 1,
                   is_deleted       |-> deleted]]]

record_revision(h, l, e, op, v, deleted) ==
    [revs |-> [h.revs EXCEPT ![l] =
                  Append(@, [whooing_entry_id |-> e, op |-> op,
                             snapshot |-> v, is_deleted |-> deleted])],
     head |-> [h.head EXCEPT ![l] =
                  [current_entry_id |-> IF deleted THEN NoId ELSE e,
                   head_revision_no |-> Len(h.revs[l]) + 1,
                   is_deleted       |-> deleted]]]

\* Wrong variant: revisions are filed under the server id.
OwnerOf_server_id(h, e) == e

\* The logical entry that e's next revision belongs to.
OwnerOf(h, e) ==
    IF logical_id_for_entry(h, e) = NoId THEN e ELSE logical_id_for_entry(h, e)

ensure_baseline(h, e, v) ==
    IF logical_id_for_entry(h, e) # NoId THEN h
    ELSE record_revision(h, e, e, "create", v, FALSE)

\* fetched maps the ids in the fetched window to their values, the others to
\* `absent'.  Only live entries that are present with another value are touched.
Changed(h, fetched, absent) ==
    {l \in EntryId :
        /\ h.head[l].current_entry_id # NoId
        /\ ~ h.head[l].is_deleted
        /\ fetched[h.head[l].current_entry_id] # absent
        /\ h.revs[l] # << >>
        /\ fetched[h.head[l].current_entry_id] # latest_revision(h, l).snapshot}

reconcile_external(h, fetched, absent) ==
    LET changed == Changed(h, fetched, absent)
        cur(l)  == h.head[l].current_entry_id
    IN  [revs |-> [l \in EntryId |->
                      IF l \in changed
                      THEN Append(h.revs[l],
                                  [whooing_entry_id |-> cur(l), op |-> "external",
                                   snapshot |-> fetched[cur(l)], is_deleted |-> FALSE])
                      ELSE h.revs[l]],
         head |-> [l \in EntryId |->
                      IF l \in changed
                      THEN [current_entry_id |-> cur(l),
                            head_revision_no |-> Len(h.revs[l]) + 1,
                            is_deleted       |-> FALSE]
                      ELSE h.head[l]]]

\* Wrong variant: the last row is left behind.
purge_logical_keeps_last(h, l) ==
    [revs |-> [h.revs EXCEPT ![l] = IF @ = << >> THEN @ ELSE <<@[Len(@)]>>],
     head |-> h.head]

purge_logical(h, l) ==
    [revs |-> [h.revs EXCEPT ![l] = << >>],
     head |-> [h.head EXCEPT ![l] = NoHead]]
===============================================================================
