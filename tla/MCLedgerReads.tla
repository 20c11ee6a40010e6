---------------------------- MODULE MCLedgerReads ----------------------------
(***************************************************************************)
(* A small instance of LedgerReads for TLC: three entries on four days, at  *)
(* most two rows an answer and three days a request, so that yearly ranges, *)
(* halves and a day too full to list all happen.                            *)
(***************************************************************************)
EXTENDS LedgerReads

MCWindows == {[from |-> 1, to |-> 4], [from |-> 2, to |-> 3]}

\* Three entries on one day and a spread with a free id.
MCBefore == {[e \in Entry |-> e], [e \in Entry |-> 2], [e \in Entry |-> IF e = 3 THEN 0 ELSE 2]}
===============================================================================
