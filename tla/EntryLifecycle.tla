---------------------------- MODULE EntryLifecycle ----------------------------
(***************************************************************************)
(* What the edit history promises about a logical entry, whatever happens  *)
(* between the program and the server: it is untracked, live or in the     *)
(* trash; every value it was given since it is tracked is kept; it comes   *)
(* back from the trash with one of those values; and only an entry in the  *)
(* trash is forgotten.  A deletion can be mistaken: the entry is in the    *)
(* trash and on the server, until it is deleted there too.                 *)
(***************************************************************************)
CONSTANTS
    Logical,  \* logical entries
    Value,    \* values of an entry
    NoValue   \* the value of an entry that is not tracked

VARIABLE entries

Untracked == [state |-> "untracked", now |-> NoValue, past |-> {}]

InTrash == {"trashed", "mistaken"}

Entry == [state : {"live"} \cup InTrash, now : Value, past : SUBSET Value] \cup {Untracked}

TypeOK == entries \in [Logical -> Entry]

Init == entries = [l \in Logical |-> Untracked]

Keep(l, state, v, seen) ==
    entries' = [entries EXCEPT ![l] =
                   [state |-> state, now |-> v, past |-> @.past \cup {v} \cup seen]]

\* A new entry, or the first change of one that was there before: the value it
\* had is kept along with the new one.
Adopt(l, v) == entries[l].state = "untracked" /\ Keep(l, "live", v, {})

AdoptAndEdit(l, before, v) == entries[l].state = "untracked" /\ Keep(l, "live", v, {before})

\* What is on the server can be edited.
Edit(l, v) == entries[l].state \in {"live", "mistaken"} /\ Keep(l, "live", v, {})

Trash(l, v) == \E state \in InTrash : Keep(l, state, v, {})

\* An entry that was in the trash by mistake is deleted on the server.
Vanish(l) ==
    /\ entries[l].state = "mistaken"
    /\ entries' = [entries EXCEPT ![l].state = "trashed"]

Restore(l, v) ==
    /\ entries[l].state \in InTrash
    /\ v \in entries[l].past
    /\ Keep(l, "live", v, {})

\* Changes made elsewhere are taken in for several entries at once.
Absorb(seen) ==
    /\ \A l \in DOMAIN seen : entries[l].state = "live"
    /\ entries' = [l \in Logical |->
                      IF l \in DOMAIN seen
                      THEN [state |-> "live", now |-> seen[l],
                            past |-> entries[l].past \cup {seen[l]}]
                      ELSE entries[l]]

Purge(l) ==
    /\ entries[l].state \in InTrash
    /\ entries' = [entries EXCEPT ![l] = Untracked]

Next ==
    \/ \E l \in Logical : Purge(l) \/ Vanish(l)
    \/ \E l \in Logical, v \in Value :
          \/ Adopt(l, v) \/ Edit(l, v) \/ Trash(l, v) \/ Restore(l, v)
          \/ \E before \in Value : AdoptAndEdit(l, before, v)
    \/ \E S \in SUBSET Logical : \E seen \in [S -> Value] : Absorb(seen)

Spec == Init /\ [][Next]_entries
===============================================================================
