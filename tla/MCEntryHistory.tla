---------------------------- MODULE MCEntryHistory ----------------------------
(* Instances of EntryHistory for TLC. *)
EXTENDS EntryHistory

CONSTANTS e1, e2, e3, v1, v2, t1, f1

None == {}
E2 == {e1, e2}
E3 == {e1, e2, e3}
V1 == {v1}
V2 == {v1, v2}
First == {e1}

T1 == {t1}
F1 == {f1}

Calmly    == {}
NoOverlap == Circumstance \ {"overlap"}
Overlap   == {"overlap"}
Elsewhere == {"external"}
===============================================================================
