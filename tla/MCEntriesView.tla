---------------------------- MODULE MCEntriesView ----------------------------
(* Instances of EntriesView for TLC. *)
EXTENDS EntriesView, TLC

CONSTANTS e1, e2, e3, e4, A, B, x, y

\* Three entries of A: in the window, at the end of the first step and after it.
Entries == {e1, e2, e3, e4}
Homes   == (e1 :> A) @@ (e2 :> A) @@ (e3 :> A) @@ (e4 :> B)
AgesOf  == (e1 :> 1) @@ (e2 :> 3) @@ (e3 :> 4) @@ (e4 :> 2)
Words   == (x :> {x}) @@ (y :> {x, y})
TwoWins == {1, 4}
TwoSteps == <<3, 6>>
AllX    == (e1 :> x) @@ (e2 :> x) @@ (e3 :> x) @@ (e4 :> x)
Mixed   == (e1 :> x) @@ (e2 :> y) @@ (e3 :> x) @@ (e4 :> x)
Empty   == [e \in Entries |-> None]
Starts  == {[ledger |-> AllX, mirror |-> Empty], [ledger |-> Mixed, mirror |-> AllX]}

Anything == Circumstance
===============================================================================
