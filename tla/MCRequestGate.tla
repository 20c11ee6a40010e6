---------------------------- MODULE MCRequestGate ----------------------------
(***************************************************************************)
(* An instance of RequestGate for TLC: three requests, two attempts each,   *)
(* through a gate that lets two attempts pass in three units of time.       *)
(***************************************************************************)
EXTENDS RequestGate

CONSTANTS r1, r2, r3

R3 == {r1, r2, r3}

\* A short sleep and one longer than the rest of the window.
Sleeps == <<1, 2>>
===============================================================================
