----------------------------- MODULE OutsideInbox -----------------------------
(***************************************************************************)
(* The inbox of unconfirmed items the server collected                     *)
(* (tui/outside.py, tui/screens/outside_inbox.py): listed page by page,    *)
(* entered into the ledger or deleted one at a time, emptied at once.      *)
(* Items arrive meanwhile.  Item numbers grow; a list starts with the      *)
(* newest.                                                                 *)
(***************************************************************************)
EXTENDS Integers, FiniteSets

CONSTANTS
    Items,     \* numbers of the items that may arrive
    FirstIn,   \* items there at the start
    PageSize,  \* items the server gives at once
    MaxLists,  \* bound: lists asked for
    MaxSends   \* bound: changes sent

VARIABLES
    inbox,     \* on the server
    ledgered,  \* item -> entries made from it
    gone,      \* items removed without an entry
    listed,    \* _rows
    reading,   \* the list under way, if any: {[got, below]}
    asked,     \* the dialog over the screen, if any: {<<kind, item>>}
    mutating,  \* the change under way, if any: {[kind, item, done]}
    lists, sends,
    unsure     \* items whose state on screen may be out of date

inboxVars == <<inbox, ledgered, gone, listed, reading, asked, mutating, lists, sends, unsure>>

Below(set, n) == {i \in set : i < n}
Largest(set) == CHOOSE i \in set : \A j \in set : j <= i
Least(set) == CHOOSE i \in set : \A j \in set : i <= j

\* omax_id: the newest items older than the last one received.
page(below) ==
    {i \in Below(inbox, below) : Cardinality({j \in Below(inbox, below) : j > i}) < PageSize}

\* The items a change concerns.
Touched(kind, i) == IF kind = "empty" THEN Items ELSE {i}

Above == 1 + Largest(Items)

Init ==
    /\ inbox = FirstIn
    /\ ledgered = [i \in Items |-> 0]
    /\ gone = {}
    /\ listed = {}
    /\ reading = {[got |-> {}, below |-> Above]}
    /\ asked = {} /\ mutating = {}
    /\ lists = 1 /\ sends = 0
    /\ unsure = {}

\* A message is received by the server.
Arrives(i) ==
    /\ i \notin inbox /\ ledgered[i] = 0 /\ i \notin gone
    /\ \A j \in inbox : j < i
    /\ inbox' = inbox \cup {i}
    /\ UNCHANGED <<ledgered, gone, listed, reading, asked, mutating, lists, sends, unsure>>

\* F5 works while a change is under way; a list under way is dropped.
action_refresh ==
    /\ asked = {} /\ lists < MaxLists
    /\ lists' = lists + 1
    /\ reading' = {[got |-> {}, below |-> Above]}
    /\ unsure' = unsure \cup UNION {Touched(m.kind, m.item) : m \in mutating}
    /\ UNCHANGED <<inbox, ledgered, gone, listed, asked, mutating, sends>>

ListArrived(l) ==
    /\ listed' = l.got
    /\ reading' = {}

\* list_all: the next page, or its end.
list(l) ==
    /\ l \in reading
    /\ IF page(l.below) = {} THEN ListArrived(l)
       ELSE /\ reading' = {[got |-> l.got \cup page(l.below), below |-> Least(page(l.below))]}
            /\ UNCHANGED listed
    /\ UNCHANGED <<inbox, ledgered, gone, asked, mutating, lists, sends, unsure>>

\* After the first page a failure counts as the end.
ListFails(l) ==
    /\ l \in reading
    /\ IF l.got = {} THEN reading' = {} /\ UNCHANGED listed ELSE ListArrived(l)
    /\ UNCHANGED <<inbox, ledgered, gone, asked, mutating, lists, sends, unsure>>

\* Wrong variant: nothing keeps a second change from being asked for.
Idle_always == asked = {}

\* _busy: c, d and e do nothing while a change is under way.
Idle == asked = {} /\ mutating = {}

Ask(kind, i) ==
    /\ Idle /\ sends < MaxSends
    /\ i \in listed
    /\ asked' = {<<kind, i>>}
    /\ UNCHANGED <<inbox, ledgered, gone, listed, reading, mutating, lists, sends, unsure>>

Cancel ==
    /\ asked # {} /\ asked' = {}
    /\ UNCHANGED <<inbox, ledgered, gone, listed, reading, mutating, lists, sends, unsure>>

\* The dialog is accepted: the change goes out.  A list under way was read,
\* in part, before it.
Accept ==
    \E a \in asked :
        /\ asked' = {}
        /\ sends' = sends + 1
        /\ mutating' = mutating \cup {[kind |-> a[1], item |-> a[2], done |-> FALSE]}
        /\ unsure' = IF reading # {} THEN unsure \cup Touched(a[1], a[2]) ELSE unsure
        /\ UNCHANGED <<inbox, ledgered, gone, listed, reading, lists>>

\* entries.json makes the entry and removes the item in one go; it makes the
\* entry of an item it no longer has, too.
ServerDoes(m) ==
    /\ m \in mutating /\ ~m.done
    /\ mutating' = (mutating \ {m}) \cup {[m EXCEPT !.done = TRUE]}
    /\ CASE m.kind = "confirm" ->
              /\ inbox' = inbox \ {m.item}
              /\ ledgered' = [ledgered EXCEPT ![m.item] = @ + 1]
              /\ UNCHANGED gone
         [] m.kind = "delete" ->
              /\ inbox' = inbox \ {m.item}
              /\ gone' = gone \cup (inbox \cap {m.item})
              /\ UNCHANGED ledgered
         [] m.kind = "empty" ->
              /\ inbox' = {} /\ gone' = gone \cup inbox
              /\ UNCHANGED ledgered
    /\ UNCHANGED <<listed, reading, asked, lists, sends, unsure>>

\* The answer: the row, or all rows, leave the screen.
Answered(m) ==
    /\ m \in mutating /\ m.done
    /\ mutating' = mutating \ {m}
    /\ listed' = IF m.kind = "empty" THEN {} ELSE listed \ {m.item}
    /\ UNCHANGED <<inbox, ledgered, gone, reading, asked, lists, sends, unsure>>

\* A failure leaves the row on screen, whatever the server did.
Fails(m) ==
    /\ m \in mutating
    /\ mutating' = mutating \ {m}
    /\ unsure' = IF m.done THEN unsure \cup Touched(m.kind, m.item) ELSE unsure
    /\ UNCHANGED <<inbox, ledgered, gone, listed, reading, asked, lists, sends>>

Next ==
    \/ \E i \in Items : Arrives(i)
    \/ action_refresh \/ Cancel \/ Accept
    \/ \E l \in reading : list(l) \/ ListFails(l)
    \/ \E kind \in {"confirm", "delete", "empty"}, i \in Items : Ask(kind, i)
    \/ \E m \in mutating : ServerDoes(m) \/ Answered(m) \/ Fails(m)

Spec == Init /\ [][Next]_inboxVars

-------------------------------------------------------------------------------
\* An item becomes one entry at most, and none once it was deleted - unless
\* the answer to a change was lost, or a list was under way during it.
OneEntryPerItem ==
    \A i \in Items :
        i \in unsure \/ ledgered[i] + Cardinality(gone \cap {i}) <= 1
===============================================================================
