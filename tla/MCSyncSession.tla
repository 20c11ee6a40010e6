---------------------------- MODULE MCSyncSession ----------------------------
(* Instances of SyncSession for TLC. *)
EXTENDS SyncSession, TLC

CONSTANTS d1, d2, f1, f2, q1, o1

Two  == {d1, d2}
One  == {d1}
F1   == {f1}
F2   == {f1, f2}
Q1   == {q1}
O1   == {o1}

Everything == Circumstance
===============================================================================
