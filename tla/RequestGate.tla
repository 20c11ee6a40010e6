----------------------------- MODULE RequestGate -----------------------------
(***************************************************************************)
(* How requests reach the server: WhooingClient._request and _throttle     *)
(* (tui/src/whooing_tui/client.py).  Every attempt of every request passes *)
(* one gate, an asyncio.Lock around the times of the attempts that passed  *)
(* in the last Period; who finds Cap of them sleeps with the lock held and *)
(* the others queue behind it.  An answer 429 is waited out and tried      *)
(* again; every other error ends the request.                              *)
(*                                                                         *)
(* Requests are made by workers, which the screens cancel at any await:    *)
(* in the queue, asleep in the gate, in flight or between two attempts.    *)
(*                                                                         *)
(* Auxiliary: granted and applied record what passed and what the server   *)
(* did; no action reads them.                                              *)
(***************************************************************************)
EXTENDS Integers, FiniteSets, Sequences, SequencesExt

CONSTANTS
    Req,       \* requests of the program, each made once
    NoReq,     \* the lock is free
    Cap,       \* attempts a period (rpm_cap, 20)
    Period,    \* length of the sliding window (60 s)
    Slack,     \* what the sleep adds (0.05 s)
    Attempts,  \* number of backoffs (4)
    Backoff,   \* attempt -> sleep after a 429 (1, 2, 4, 8 s)
    Timeout,   \* longest time an attempt is in flight (10 s)
    Late,      \* how late the event loop may run what is due
    LastCall   \* bound: no request starts after this time

ASSUME GateAssumption ==
    /\ IsFiniteSet(Req)
    /\ NoReq \notin Req
    /\ Cap \in Nat \ {0}
    /\ Period \in Nat \ {0}
    /\ Slack \in Nat
    /\ Attempts \in Nat \ {0}
    /\ Backoff \in [1..Attempts -> Nat]
    /\ Timeout \in Nat
    /\ Late \in Nat
    /\ LastCall \in Nat

VARIABLES
    now,       \* time.monotonic()
    window,    \* _minute_window: the attempts it remembers
    holder,    \* who holds _lock over a sleep
    queue,     \* who waits for _lock, first come first
    req,       \* the requests
    granted,   \* every attempt that passed the gate
    applied    \* request -> how often the server carried it out

vars == <<now, window, holder, queue, req, granted, applied>>

Phase  == {"idle", "queued", "sleeping", "sent", "backoff", "ended"}
Result == {"none", "ok", "limit", "refused", "unsure", "cancelled"}

Request == [phase : Phase, attempt : 1..Attempts, due : Nat, result : Result]
Idle    == [phase |-> "idle", attempt |-> 1, due |-> 0, result |-> "none"]

Grant == [who : Req, attempt : 1..Attempts, at : Nat]

TypeOK ==
    /\ now \in Nat
    /\ window \in SUBSET Grant
    /\ holder \in Req \cup {NoReq}
    /\ queue \in Seq(Req)
    /\ req \in [Req -> Request]
    /\ granted \in SUBSET Grant
    /\ applied \in [Req -> Nat]

Init ==
    /\ now = 0
    /\ window = {}
    /\ holder = NoReq
    /\ queue = << >>
    /\ req = [r \in Req |-> Idle]
    /\ granted = {}
    /\ applied = [r \in Req |-> 0]

Active(r) == req[r].phase \notin {"idle", "ended"}

-------------------------------------------------------------------------------
(* The gate *)

Call(r) ==
    /\ req[r].phase = "idle"
    /\ now <= LastCall
    /\ req' = [req EXCEPT ![r].phase = "queued"]
    /\ queue' = Append(queue, r)
    /\ UNCHANGED <<now, window, holder, granted, applied>>

Recent == {g \in window : now - g.at < Period}

Oldest(grants) == {g \in grants : \A h \in grants : g.at <= h.at}

\* Wrong variant: one attempt more than the cap.
Full_late(grants) == Cardinality(grants) > Cap

Full(grants) == Cardinality(grants) >= Cap

Pass(r) ==
    LET g == [who |-> r, attempt |-> req[r].attempt, at |-> now]
    IN  /\ window' = Recent \cup {g}
        /\ granted' = granted \cup {g}
        /\ req' = [req EXCEPT ![r].phase = "sent", ![r].due = now + Timeout]

\* The first in the queue takes the free lock; with Cap recent attempts it
\* keeps it and sleeps until the oldest of them is a period old.
Enter ==
    /\ holder = NoReq
    /\ queue # << >>
    /\ queue' = Tail(queue)
    /\ \/ /\ ~ Full(Recent)
          /\ Pass(Head(queue))
          /\ UNCHANGED holder
       \/ /\ Full(Recent)
          /\ window' = Recent
          /\ holder' = Head(queue)
          /\ \E oldest \in Oldest(Recent) :
                req' = [req EXCEPT ![Head(queue)].phase = "sleeping",
                                   ![Head(queue)].due = oldest.at + Period + Slack]
          /\ UNCHANGED granted
    /\ UNCHANGED <<now, applied>>

\* After the sleep the window is trimmed again and not counted again.
Wake ==
    /\ holder # NoReq
    /\ req[holder].phase = "sleeping"
    /\ now >= req[holder].due
    /\ Pass(holder)
    /\ holder' = NoReq
    /\ UNCHANGED <<now, queue, applied>>

-------------------------------------------------------------------------------
(* The attempt and its answer *)

End(r, result) == req' = [req EXCEPT ![r].phase = "ended", ![r].result = result]

Carry(r, times) == applied' = [applied EXCEPT ![r] = @ + times]

\* What an attempt comes to.  limit: 429, or 402 without rest_of_api; refused:
\* any other answer that says nothing was done (400, 401, 402); unsure: a 5xx,
\* an answer that is no JSON, an exception of the transport.
Outcome == {"ok", "limit", "refused", "unsure"}

Times(outcome) ==
    CASE outcome = "ok"     -> {1}
      [] outcome = "unsure" -> {0, 1}
      [] OTHER              -> {0}

\* Wrong variant: errors of the server are tried again as well.
Retried_errors(outcome) == outcome \in {"limit", "unsure"}

Retried(outcome) == outcome = "limit"

Answer(r) ==
    /\ req[r].phase = "sent"
    /\ \E outcome \in Outcome :
          /\ \E times \in Times(outcome) : Carry(r, times)
          /\ IF Retried(outcome)
             THEN req' = [req EXCEPT ![r].phase = "backoff",
                                     ![r].due = now + Backoff[req[r].attempt]]
             ELSE End(r, outcome)
    /\ UNCHANGED <<now, window, holder, queue, granted>>

\* The last backoff is slept as well, before the request gives up.
Resume(r) ==
    /\ req[r].phase = "backoff"
    /\ now >= req[r].due
    /\ \/ /\ req[r].attempt < Attempts
          /\ req' = [req EXCEPT ![r].phase = "queued", ![r].attempt = req[r].attempt + 1]
          /\ queue' = Append(queue, r)
       \/ /\ req[r].attempt = Attempts
          /\ End(r, "limit")
          /\ UNCHANGED queue
    /\ UNCHANGED <<now, window, holder, granted, applied>>

LeaveQueue(r) ==
    \/ /\ req[r].phase = "queued"
       /\ \E i \in DOMAIN queue : queue[i] = r /\ queue' = RemoveAt(queue, i)
    \/ /\ req[r].phase # "queued"
       /\ UNCHANGED queue

\* Wrong variant: the lock is taken and released around the sleep, without
\* the release that an exception needs.
Cancel_keeps_lock(r) ==
    /\ Active(r)
    /\ LeaveQueue(r)
    /\ End(r, "cancelled")
    /\ \E times \in Times(IF req[r].phase = "sent" THEN "unsure" ELSE "refused") : Carry(r, times)
    /\ UNCHANGED <<now, window, holder, granted>>

\* A cancelled worker leaves the queue or gives the lock back; what is in
\* flight may be carried out all the same.
Cancel(r) ==
    /\ Active(r)
    /\ LeaveQueue(r)
    /\ holder' = IF holder = r THEN NoReq ELSE holder
    /\ End(r, "cancelled")
    /\ \E times \in Times(IF req[r].phase = "sent" THEN "unsure" ELSE "refused") : Carry(r, times)
    /\ UNCHANGED <<now, window, granted>>

-------------------------------------------------------------------------------
(* Time *)

Timed(r) == req[r].phase \in {"sleeping", "sent", "backoff"}

\* Time passes while somebody waits for it or may still call; what is due runs
\* at most Late after its time, and a free lock is taken at once.
Tick ==
    /\ now < LastCall \/ \E r \in Req : Timed(r)
    /\ \A r \in Req : Timed(r) => now < req[r].due + Late
    /\ holder # NoReq \/ queue = << >>
    /\ now' = now + 1
    /\ UNCHANGED <<window, holder, queue, req, granted, applied>>

Next ==
    \/ \E r \in Req : Call(r) \/ Answer(r) \/ Resume(r) \/ Cancel(r)
    \/ Enter
    \/ Wake
    \/ Tick

Spec == Init /\ [][Next]_vars

\* The event loop runs what is ready, the transport answers or times out, and
\* time passes.  Nothing makes a worker call or be cancelled.
FairSpec ==
    /\ Spec
    /\ WF_vars(Enter) /\ WF_vars(Wake) /\ WF_vars(Tick)
    /\ \A r \in Req : WF_vars(Answer(r)) /\ WF_vars(Resume(r))

-------------------------------------------------------------------------------
(* What must hold *)

\* However the workers overlap, wait, retry and are cancelled, no more than Cap
\* attempts pass the gate within any Period: the window is trimmed twice and
\* counted once, with the lock held over the sleep (client.py:89-109).
CapHolds ==
    \A from \in 0..now :
        Cardinality({g \in granted : from <= g.at /\ g.at < from + Period}) <= Cap

\* A request is carried out at most once however often it is tried, and one
\* that reports a limit or a refusal has changed nothing (client.py:141-170).
NothingTwice ==
    \A r \in Req :
        /\ applied[r] <= 1
        /\ req[r].result = "ok" => applied[r] = 1
        /\ req[r].result \in {"limit", "refused"} => applied[r] = 0

\* Every request that is made ends: the lock passes on when its holder is
\* cancelled in its sleep, and a server that goes on answering 429 is given up.
RequestsEnd == \A r \in Req : Active(r) ~> req[r].phase = "ended"
===============================================================================
