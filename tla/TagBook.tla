-------------------------------- MODULE TagBook --------------------------------
(***************************************************************************)
(* Hashtags of entries (core/db.py): replaced by the edit dialog, added to *)
(* several entries at once, renamed, merged, deleted and coloured by the   *)
(* tag management screen - while the user switches between sections.       *)
(*                                                                         *)
(* A hashtag row carries the section it was written for, and the tag       *)
(* screen touches only rows of its own section.  Writers take the section  *)
(* from the session at the moment they write, which may no longer be the   *)
(* section of the entry.                                                   *)
(***************************************************************************)
EXTENDS Naturals, FiniteSets

CONSTANTS
    Section,    \* sections of the ledger
    NoSection,  \* the section of a row written before rows had one
    Entry,      \* entries
    Home,       \* entry -> the section it is in, on the server
    Tag,        \* hashtags
    Color,      \* colours of tags
    FirstRows,  \* the tables the program may start with
    MaxWrites   \* bound: user commands that lead to a write

VARIABLES
    tagged,     \* entry_hashtags: records [e, t, s]
    noted,      \* entry_annotations: entries that have a row
    colored,    \* tag_meta: records [t, s, c]
    cur,        \* session.section_id
    inview,     \* the section whose rows the entries screen shows
    reloading,  \* a reload of the entries is under way
    picked,     \* _selected_entry_ids
    batch,      \* what the open tag picker is for: the entries captured before it
    sending,    \* edits on their way to the server, at most one: [e, tags, sec]
    admin,      \* the tag screen, if open: {[sec, tags, ask]}
    crossed,    \* entries written, or being written, under a section that is not theirs
    writes

tagVars == <<tagged, noted, colored, cur, inview, reloading, picked, batch, sending,
             admin, crossed, writes>>

Row(e, t, s) == [e |-> e, t |-> t, s |-> s]

-------------------------------------------------------------------------------
(* The transactions of core/db.py *)

TagsOf(rows, e) == {r.t : r \in {x \in rows : x.e = e}}

InSection(rows, s) == {r \in rows : r.s = s}

list_hashtags(rows, s) == {r.t : r \in InSection(rows, s)}

\* Wrong variant: the rows keep no section of their own.
set_hashtags_bare(rows, e, tags, s) ==
    {r \in rows : r.e # e} \cup {Row(e, t, NoSection) : t \in tags}

set_hashtags(rows, e, tags, s) ==
    {r \in rows : r.e # e} \cup {Row(e, t, s) : t \in tags}

\* An entry that has the tag keeps the row it has, with its section.
add_tag_to_entries(rows, es, tag, s) ==
    rows \cup {Row(e, tag, s) : e \in {x \in es : tag \notin TagsOf(rows, x)}}

delete_tag(rows, tag, s) == {r \in rows : ~(r.t = tag /\ r.s = s)}

\* Rows of the section whose entry has the new tag there too are dropped.
Merged(rows, old, new, s) ==
    {r \in InSection(rows, s) : r.t = old /\ Row(r.e, new, s) \in rows}

\* The UPDATE meets a row of another section: one row per entry and tag.
RenameAborts(rows, old, new, s) ==
    \E r \in InSection(rows, s) \ Merged(rows, old, new, s) :
        r.t = old /\ new \in TagsOf(rows, r.e)

\* Wrong variant: an entry that has both tags loses both.
rename_tag_drops(rows, old, new, s) ==
    LET olds == {r \in InSection(rows, s) : r.t = old}
        both == Merged(rows, old, new, s)
    IN  (rows \ (olds \cup {Row(r.e, new, s) : r \in both}))
          \cup {Row(r.e, new, s) : r \in olds \ both}

\* The transaction is rolled back when the UPDATE aborts.
rename_tag(rows, old, new, s) ==
    IF RenameAborts(rows, old, new, s) THEN rows
    ELSE LET olds == {r \in InSection(rows, s) : r.t = old}
         IN  (rows \ olds)
               \cup {Row(r.e, new, s) : r \in olds \ Merged(rows, old, new, s)}

\* At most one colour per tag and section; the empty answer removes it.
set_tag_color(meta, tag, c, s) ==
    {m \in meta : ~(m.t = tag /\ m.s = s)}
      \cup (IF c \in Color THEN {[t |-> tag, s |-> s, c |-> c]} ELSE {})

-------------------------------------------------------------------------------
Init ==
    /\ tagged \in FirstRows
    /\ noted = {r.e : r \in tagged}
    /\ colored = {}
    /\ cur \in Section
    /\ inview = cur
    /\ reloading = FALSE
    /\ picked = {} /\ batch = {}
    /\ sending = {}
    /\ admin = {}
    /\ crossed = {}
    /\ writes = 0

\* Keys reach the entries screen only when no dialog is over it.
OnEntries == admin = {} /\ batch = {}

Counted == writes < MaxWrites /\ writes' = writes + 1

\* The session takes the new section at once; rows of the old one stay on
\* screen until the reload ends, and an edit in flight goes on.
action_open_sections(s) ==
    /\ OnEntries /\ s # cur
    /\ cur' = s
    /\ reloading' = TRUE
    /\ crossed' = crossed \cup {j.e : j \in sending}
    /\ UNCHANGED <<tagged, noted, colored, inview, picked, batch, sending, admin, writes>>

refresh_entries(ok) ==
    /\ reloading
    /\ reloading' = FALSE
    /\ IF ok THEN inview' = cur /\ picked' = {e \in picked : Home[e] = cur}
       ELSE UNCHANGED <<inview, picked>>
    /\ UNCHANGED <<tagged, noted, colored, cur, batch, sending, admin, crossed, writes>>

\* Saving the edit dialog; an edit still in flight is cancelled (group "mutate").
_submit_update(e, tags) ==
    /\ OnEntries /\ Home[e] = inview
    /\ Counted
    /\ sending' = {[e |-> e, tags |-> tags, sec |-> cur]}
    /\ UNCHANGED <<tagged, noted, colored, cur, inview, reloading, picked, batch, admin, crossed>>

\* The server knows an entry only in its own section.  What is stored
\* locally takes the section the session has now.
UpdateEnds(ok) ==
    \E j \in sending :
        /\ ok => j.sec = Home[j.e]
        /\ sending' = {}
        /\ IF ok
           THEN /\ tagged' = set_hashtags(tagged, j.e, j.tags, cur)
                /\ noted' = noted \cup {j.e}
                /\ reloading' = TRUE
           ELSE UNCHANGED <<tagged, noted, reloading>>
        /\ UNCHANGED <<colored, cur, inview, picked, batch, admin, crossed, writes>>

action_toggle_selection(e) ==
    /\ OnEntries /\ Home[e] = inview
    /\ picked' = IF e \in picked THEN picked \ {e} ELSE picked \cup {e}
    /\ UNCHANGED <<tagged, noted, colored, cur, inview, reloading, batch, sending, admin,
                   crossed, writes>>

\* Without a selection the row under the cursor is selected.
action_batch_tag ==
    /\ OnEntries
    /\ Counted
    /\ picked' \in IF picked # {} THEN {picked} ELSE {{e} : e \in {x \in Entry : Home[x] = inview}}
    /\ batch' = picked'
    /\ UNCHANGED <<tagged, noted, colored, cur, inview, reloading, sending, admin, crossed>>

\* The picker closes with a tag; the session's section is read only now.
_batch_tag_worker(tag) ==
    /\ batch # {}
    /\ tagged' = add_tag_to_entries(tagged, batch, tag, cur)
    /\ noted' = noted \cup batch
    /\ crossed' = crossed \cup {e \in batch : inview # cur \/ Home[e] # inview}
    /\ batch' = {} /\ picked' = {}
    /\ reloading' = TRUE
    /\ UNCHANGED <<colored, cur, inview, sending, admin, writes>>

BatchCancelled ==
    /\ batch # {} /\ batch' = {}
    /\ UNCHANGED <<tagged, noted, colored, cur, inview, reloading, picked, sending, admin,
                   crossed, writes>>

-------------------------------------------------------------------------------
(* The tag management screen *)

Listed(sec, rows) == [sec |-> sec, tags |-> list_hashtags(rows, sec), ask |-> {}]

action_open_tag_management ==
    /\ OnEntries
    /\ admin' = {Listed(cur, tagged)}
    /\ UNCHANGED <<tagged, noted, colored, cur, inview, reloading, picked, batch, sending,
                   crossed, writes>>

\* r, m, d, c on a row of the list, and Enter: a dialog opens over the screen.
Ask(what, tag) ==
    \E a \in admin :
        /\ a.ask = {} /\ tag \in a.tags
        /\ Counted
        /\ admin' = {[a EXCEPT !.ask = {<<what, tag>>}]}
        /\ UNCHANGED <<tagged, noted, colored, cur, inview, reloading, picked, batch, sending,
                       crossed>>

AskCancelled ==
    \E a \in admin :
        /\ a.ask # {}
        /\ admin' = {[a EXCEPT !.ask = {}]}
        /\ UNCHANGED <<tagged, noted, colored, cur, inview, reloading, picked, batch, sending,
                       crossed, writes>>

\* The answer is applied and the list read again.
Applied(a, rows, meta) ==
    /\ tagged' = rows /\ colored' = meta
    /\ admin' = {Listed(a.sec, rows)}
    /\ UNCHANGED <<noted, cur, inview, reloading, picked, batch, sending, crossed, writes>>

_apply_rename(old, new) ==
    \E a \in admin :
        /\ \E what \in {"rename", "merge"} : <<what, old>> \in a.ask
        /\ new # old
        /\ Applied(a, rename_tag(tagged, old, new, a.sec), colored)

_delete_worker(tag) ==
    \E a \in admin :
        /\ <<"delete", tag>> \in a.ask
        /\ Applied(a, delete_tag(tagged, tag, a.sec), colored)

_color_worker(tag, c) ==
    \E a \in admin :
        /\ <<"color", tag>> \in a.ask
        /\ Applied(a, tagged, set_tag_color(colored, tag, c, a.sec))

action_back ==
    /\ \E a \in admin : a.ask = {}
    /\ admin' = {}
    /\ reloading' = TRUE
    /\ UNCHANGED <<tagged, noted, colored, cur, inview, picked, batch, sending, crossed, writes>>

Next ==
    \/ \E s \in Section : action_open_sections(s)
    \/ \E ok \in BOOLEAN : refresh_entries(ok) \/ UpdateEnds(ok)
    \/ \E e \in Entry, tags \in SUBSET Tag : _submit_update(e, tags)
    \/ \E e \in Entry : action_toggle_selection(e)
    \/ action_batch_tag \/ BatchCancelled
    \/ \E tag \in Tag : _batch_tag_worker(tag)
    \/ action_open_tag_management \/ action_back \/ AskCancelled
    \/ \E what \in {"rename", "merge", "delete", "color"}, tag \in Tag : Ask(what, tag)
    \/ \E old, new \in Tag : _apply_rename(old, new)
    \/ \E tag \in Tag : _delete_worker(tag)
    \/ \E tag \in Tag, c \in Color \cup {NoSection} : _color_worker(tag, c)

Spec == Init /\ [][Next]_tagVars

-------------------------------------------------------------------------------
\* A tag row names the section its entry is in, unless it is older than
\* sections or its entry was written across a switch of sections: an edit in
\* flight during the switch, or rows of the other section still on screen.
\* One row per entry and tag.
SectionKnown ==
    \A r \in tagged :
        /\ \/ r.s = Home[r.e]
           \/ r.s = NoSection /\ \E rows \in FirstRows : r \in rows
           \/ r.e \in crossed
        /\ \A q \in tagged : q.e = r.e /\ q.t = r.t => q = r

Renamed(tags, old, new) == {IF t = old THEN new ELSE t : t \in tags}

\* Renaming or merging a tag in one section replaces it on every entry that has
\* it there, whatever else the entry has, and touches no other entry; but one
\* that has the new tag, of another section, makes the primary key refuse it as
\* a whole (db.py:821-871: against its docstring, which sees keys of the section
\* only).
RenameIsExact ==
    [][\A old, new \in Tag : _apply_rename(old, new) =>
         \A a \in admin :
            LET Has(e, t) == Row(e, t, a.sec) \in tagged
            IN  IF \E e \in Entry : /\ Has(e, old) /\ ~Has(e, new)
                                    /\ new \in TagsOf(tagged, e)
                THEN tagged' = tagged
                ELSE \A e \in Entry :
                        TagsOf(tagged', e) = IF Has(e, old)
                                             THEN Renamed(TagsOf(tagged, e), old, new)
                                             ELSE TagsOf(tagged, e)
      ]_tagVars
===============================================================================
