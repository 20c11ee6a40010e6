--------------------------- MODULE MCDuplicateScan ---------------------------
(* Instances of DuplicateScan for TLC. *)
EXTENDS DuplicateScan

CONSTANTS short, long

Three == 1..3
Four  == 1..4
Chain == {{1, 2}, {2, 3}}
Pairs == {{1, 2}, {3, 4}}
Whole == short :> {} @@ long :> 1..3
Part  == short :> {1, 2} @@ long :> 1..4

\* Entries that say as much as each other, until one is edited.
Even  == [e \in Four |-> 2]

\* An edit may make the second the one to keep.
Flips == [e \in Four |-> IF e = 2 THEN {2, 9} ELSE {2}]

Anything == Circumstance
Refused  == {"refuse"}
===============================================================================
