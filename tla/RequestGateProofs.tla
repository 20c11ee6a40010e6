-------------------------- MODULE RequestGateProofs --------------------------
(***************************************************************************)
(* Proofs about RequestGate for any requests, limits and times: the type   *)
(* invariant, that no more than Cap attempts pass in any Period, and that  *)
(* no request is carried out twice.                                        *)
(***************************************************************************)
EXTENDS RequestGate, FiniteSetTheorems, SequenceTheorems, TLAPS

\* The window remembers every attempt of the last Period, and at most Cap.
WindowInv ==
    /\ window \subseteq granted
    /\ \A g \in granted : g.at <= now
    /\ \A g \in granted : now - g.at < Period => g \in window
    /\ IsFiniteSet(window)
    /\ Cardinality(window) <= Cap

\* Who sleeps with the lock wakes when some remembered attempt is too old.
SleepInv ==
    holder # NoReq =>
        /\ req[holder].phase = "sleeping"
        /\ \E g \in window : req[holder].due >= g.at + Period

\* Nothing was done for a request that has not ended.
AppliedInv ==
    \A r \in Req :
        /\ applied[r] <= 1
        /\ req[r].phase # "ended" => applied[r] = 0 /\ req[r].result = "none"
        /\ req[r].result = "ok" => applied[r] = 1
        /\ req[r].result \in {"limit", "refused"} => applied[r] = 0

GateInv == TypeOK /\ WindowInv /\ SleepInv /\ CapHolds

-------------------------------------------------------------------------------
(* Types *)

\* A request stays one when it is given a phase, a time, an attempt or a result.
LEMMA RequestMoved ==
    ASSUME NEW q \in Request, NEW p \in Phase, NEW d \in Nat,
           NEW a \in 1..Attempts, NEW x \in Result
    PROVE  /\ [q EXCEPT !.phase = p] \in Request
           /\ [q EXCEPT !.phase = p, !.due = d] \in Request
           /\ [q EXCEPT !.phase = p, !.attempt = a] \in Request
           /\ [q EXCEPT !.phase = p, !.result = x] \in Request
BY DEF Request

LEMMA Phases == {"queued", "sleeping", "sent", "backoff", "ended"} \subseteq Phase
BY DEF Phase

\* A request that passes the gate keeps the types.
LEMMA PassTyped ==
    ASSUME TypeOK, NEW r \in Req, Pass(r)
    PROVE  window' \in SUBSET Grant /\ granted' \in SUBSET Grant /\ req' \in [Req -> Request]
<1> DEFINE g == [who |-> r, attempt |-> req[r].attempt, at |-> now]
<1> USE GateAssumption
<1>1. g \in Grant
  BY DEF TypeOK, Request, Grant
<1>2. window' = Recent \cup {g} /\ granted' = granted \cup {g}
  BY DEF Pass
<1>3. req' = [req EXCEPT ![r] = [@ EXCEPT !.phase = "sent", !.due = now + Timeout]]
  BY DEF Pass, TypeOK
<1>4. [req[r] EXCEPT !.phase = "sent", !.due = now + Timeout] \in Request
  <2>1. req[r] \in Request /\ now + Timeout \in Nat /\ "sent" \in Phase
    BY Phases DEF TypeOK
  <2>2. 1 \in 1..Attempts /\ "none" \in Result
    BY DEF Result
  <2>3. QED
    BY <2>1, <2>2, RequestMoved
<1> HIDE DEF g
<1>5. req' \in [Req -> Request]
  BY <1>3, <1>4 DEF TypeOK
<1>6. QED
  BY <1>1, <1>2, <1>5 DEF TypeOK, Recent

\* Ending a request keeps its type.
LEMMA EndTyped ==
    ASSUME TypeOK, NEW r \in Req, NEW result \in Result, End(r, result)
    PROVE  req' \in [Req -> Request]
<1>1. [req[r] EXCEPT !.phase = "ended", !.result = result] \in Request
  <2>1. req[r] \in Request /\ "ended" \in Phase
    BY Phases DEF TypeOK
  <2>2. 1 \in 1..Attempts /\ 0 \in Nat
    BY GateAssumption
  <2>3. QED
    BY <2>1, <2>2, RequestMoved
<1>2. req' = [req EXCEPT ![r] = [@ EXCEPT !.phase = "ended", !.result = result]]
  BY DEF End, TypeOK
<1>3. QED
  BY <1>1, <1>2 DEF TypeOK

\* What carries a request out keeps the type of the count.
LEMMA CarryTyped ==
    ASSUME TypeOK, NEW r \in Req, NEW times \in {0, 1}, Carry(r, times)
    PROVE  applied' \in [Req -> Nat]
BY DEF TypeOK, Carry

LEMMA TypeInit == Init => TypeOK
BY GateAssumption DEF Init, TypeOK, Idle, Request, Phase, Result

\* Every step keeps the types.
LEMMA TypeStep ==
    ASSUME TypeOK, [Next]_vars
    PROVE  TypeOK'
<1> USE GateAssumption
<1>1. ASSUME NEW r \in Req, Call(r)
      PROVE  TypeOK'
  <2>1. [req[r] EXCEPT !.phase = "queued"] \in Request
    <3>1. req[r] \in Request /\ "queued" \in Phase
      BY Phases DEF TypeOK
    <3>2. 1 \in 1..Attempts /\ 0 \in Nat /\ "none" \in Result
      BY DEF Result
    <3>3. QED
      BY <3>1, <3>2, RequestMoved
  <2>2. req' \in [Req -> Request]
    BY <1>1, <2>1 DEF Call, TypeOK
  <2>3. QED
    BY <1>1, <2>2 DEF Call, TypeOK
<1>2. ASSUME NEW r \in Req, Answer(r)
      PROVE  TypeOK'
  <2>1. PICK outcome \in Outcome :
            /\ \E times \in Times(outcome) : Carry(r, times)
            /\ IF Retried(outcome)
               THEN req' = [req EXCEPT ![r].phase = "backoff",
                                       ![r].due = now + Backoff[req[r].attempt]]
               ELSE End(r, outcome)
    BY <1>2 DEF Answer
  <2>2. applied' \in [Req -> Nat]
    BY <2>1, CarryTyped DEF Times, Outcome
  <2>3. req' \in [Req -> Request]
    <3>1. CASE Retried(outcome)
      <4>1. [req[r] EXCEPT !.phase = "backoff", !.due = now + Backoff[req[r].attempt]]
               \in Request
        <5>1. req[r] \in Request /\ "backoff" \in Phase
          BY Phases DEF TypeOK
        <5>2. now + Backoff[req[r].attempt] \in Nat
          BY <5>1 DEF TypeOK, Request
        <5>3. 1 \in 1..Attempts /\ "none" \in Result
          BY DEF Result
        <5>4. QED
          BY <5>1, <5>2, <5>3, RequestMoved
      <4>2. QED
        BY <2>1, <3>1, <4>1 DEF TypeOK
    <3>2. CASE ~ Retried(outcome)
      BY <2>1, <3>2, EndTyped DEF Outcome, Result
    <3>3. QED
      BY <3>1, <3>2
  <2>4. QED
    BY <1>2, <2>2, <2>3 DEF Answer, TypeOK
<1>3. ASSUME NEW r \in Req, Resume(r)
      PROVE  TypeOK'
  <2>1. CASE req[r].attempt < Attempts
    <3>1. [req[r] EXCEPT !.phase = "queued", !.attempt = req[r].attempt + 1] \in Request
      <4>1. req[r] \in Request /\ "queued" \in Phase
        BY Phases DEF TypeOK
      <4>2. req[r].attempt + 1 \in 1..Attempts
        BY <2>1, <4>1 DEF Request
      <4>3. 0 \in Nat /\ "none" \in Result
        BY DEF Result
      <4>4. QED
        BY <4>1, <4>2, <4>3, RequestMoved
    <3>2. req' = [req EXCEPT ![r] = [req[r] EXCEPT !.phase = "queued",
                                                   !.attempt = req[r].attempt + 1]]
          /\ queue' = Append(queue, r)
      <4>1. req' = [req EXCEPT ![r].phase = "queued", ![r].attempt = req[r].attempt + 1]
            /\ queue' = Append(queue, r)
        <5>1. req[r].attempt # Attempts
          BY <2>1
        <5>2. QED
          BY <1>3, <5>1 DEF Resume
      <4>2. req \in [Req -> Request]
        BY DEF TypeOK
      <4>3. QED
        BY <4>1, <4>2
    <3>3. req' \in [Req -> Request]
      BY <3>1, <3>2 DEF TypeOK
    <3>4. QED
      BY <1>3, <3>2, <3>3 DEF Resume, TypeOK
  <2>2. CASE req[r].attempt = Attempts
    <3>1. End(r, "limit") /\ UNCHANGED queue
      BY <1>3, <2>2 DEF Resume
    <3>2. req' \in [Req -> Request]
      BY <3>1, EndTyped DEF Result
    <3>3. QED
      BY <1>3, <3>1, <3>2 DEF Resume, TypeOK
  <2>3. QED
    BY <1>3, <2>1, <2>2 DEF Resume
<1>4. ASSUME NEW r \in Req, Cancel(r)
      PROVE  TypeOK'
  <2>1. req' \in [Req -> Request]
    BY <1>4, EndTyped DEF Cancel, Result
  <2>2. queue' \in Seq(Req)
    <3>1. CASE req[r].phase = "queued"
      <4>1. PICK i \in DOMAIN queue : queue' = RemoveAt(queue, i)
        BY <1>4, <3>1 DEF Cancel, LeaveQueue
      <4>2. i \in 1..Len(queue) /\ queue \in Seq(Req)
        BY <4>1 DEF TypeOK
      <4>3. SubSeq(queue, 1, i - 1) \in Seq(Req) /\ SubSeq(queue, i + 1, Len(queue)) \in Seq(Req)
        BY <4>2
      <4>4. QED
        BY <4>1, <4>3 DEF RemoveAt
    <3>2. CASE req[r].phase # "queued"
      BY <1>4, <3>2 DEF Cancel, LeaveQueue, TypeOK
    <3>3. QED
      BY <3>1, <3>2
  <2>3. applied' \in [Req -> Nat]
    BY <1>4, CarryTyped DEF Cancel, Times
  <2>4. QED
    BY <1>4, <2>1, <2>2, <2>3 DEF Cancel, TypeOK
<1>5. CASE Enter
  <2>1. Head(queue) \in Req /\ queue' \in Seq(Req)
    BY <1>5 DEF Enter, TypeOK
  <2>2. CASE ~ Full(Recent)
    <3>1. Pass(Head(queue)) /\ UNCHANGED <<holder, now, applied>>
      BY <1>5, <2>2 DEF Enter
    <3>2. QED
      BY <2>1, <3>1, PassTyped DEF TypeOK
  <2>3. CASE Full(Recent)
    <3>1. PICK oldest \in Oldest(Recent) :
              req' = [req EXCEPT ![Head(queue)].phase = "sleeping",
                                 ![Head(queue)].due = oldest.at + Period + Slack]
      BY <1>5, <2>3 DEF Enter
    <3>2. oldest.at \in Nat
      BY DEF Oldest, Recent, TypeOK, Grant
    <3>3. [req[Head(queue)] EXCEPT !.phase = "sleeping", !.due = oldest.at + Period + Slack]
             \in Request
      <4>1. req[Head(queue)] \in Request /\ "sleeping" \in Phase
        BY <2>1, Phases DEF TypeOK
      <4>2. oldest.at + Period + Slack \in Nat
        BY <3>2
      <4>3. 1 \in 1..Attempts /\ "none" \in Result
        BY DEF Result
      <4>4. QED
        BY <4>1, <4>2, <4>3, RequestMoved
    <3>4. req' \in [Req -> Request]
      BY <2>1, <3>1, <3>3 DEF TypeOK
    <3>5. QED
      BY <1>5, <2>1, <2>3, <3>4 DEF Enter, TypeOK, Recent
  <2>4. QED
    BY <2>2, <2>3
<1>6. CASE Wake
  <2>1. holder \in Req /\ Pass(holder)
    BY <1>6 DEF Wake, TypeOK
  <2>2. QED
    BY <1>6, <2>1, PassTyped DEF Wake, TypeOK
<1>7. CASE Tick
  BY <1>7 DEF Tick, TypeOK
<1>8. CASE UNCHANGED vars
  BY <1>8 DEF vars, TypeOK
<1>9. QED
  BY <1>1, <1>2, <1>3, <1>4, <1>5, <1>6, <1>7, <1>8 DEF Next

\* The state of the client and of its requests stays within its types, for any
\* number of requests and any limits.
THEOREM GateTyped == Spec => []TypeOK
<1>1. Init => TypeOK
  BY TypeInit
<1>2. TypeOK /\ [Next]_vars => TypeOK'
  BY TypeStep
<1>3. QED
  BY <1>1, <1>2, PTL DEF Spec

-------------------------------------------------------------------------------
(* The limit *)

Within(from) == {g \in granted : from <= g.at /\ g.at < from + Period}

\* A step that grants nothing and only takes what is a period old out of the
\* window keeps the window and the limit.
LEMMA NothingGranted ==
    ASSUME TypeOK, WindowInv, CapHolds, UNCHANGED granted,
           now' \in Nat, now' >= now,
           window' \subseteq window, Recent' \subseteq window', Recent \subseteq window'
    PROVE  WindowInv' /\ (now' <= now + 1 => CapHolds')
<1> USE GateAssumption
<1>1. WindowInv'
  <2>1. IsFiniteSet(window') /\ Cardinality(window') <= Cardinality(window)
    BY FS_Subset DEF WindowInv
  <2>2. Cardinality(window') \in Nat /\ Cardinality(window) \in Nat
    BY <2>1, FS_CardinalityType DEF WindowInv
  <2>3. Cardinality(window') <= Cap
    BY <2>1, <2>2 DEF WindowInv
  <2>4. \A g \in granted' : g.at <= now'
    BY DEF WindowInv, TypeOK, Grant
  <2>5. \A g \in granted' : now' - g.at < Period => g \in window'
    <3>1. TAKE g \in granted'
    <3>2. HAVE now' - g.at < Period
    <3>3. g.at \in Nat /\ g \in granted
      BY DEF TypeOK, Grant
    <3>4. now - g.at < Period
      BY <3>2, <3>3 DEF TypeOK
    <3>5. QED
      BY <3>3, <3>4 DEF WindowInv, Recent
  <2>6. QED
    BY <2>1, <2>3, <2>4, <2>5 DEF WindowInv
<1>2. ASSUME now' <= now + 1
      PROVE  CapHolds'
  <2>1. SUFFICES ASSUME NEW from \in 0..now'
                 PROVE  Cardinality(Within(from)') <= Cap
    BY DEF CapHolds, Within
  <2>2. CASE from <= now
    <3>1. from \in 0..now
      BY <2>2 DEF TypeOK
    <3>2. QED
      BY <3>1 DEF CapHolds, Within
  <2>3. CASE from > now
    <3>1. Within(from)' = {}
      BY <2>3 DEF Within, WindowInv, TypeOK, Grant
    <3>2. Cardinality(Within(from)') = 0
      BY <3>1, FS_EmptySet
    <3>3. QED
      BY <3>2
  <2>4. QED
    BY <2>2, <2>3 DEF TypeOK
<1>3. QED
  BY <1>1, <1>2

\* A grant leaves room when the recent ones are fewer than Cap.
LEMMA Granted ==
    ASSUME TypeOK, WindowInv, CapHolds, NEW r \in Req, Pass(r), UNCHANGED now,
           Cardinality(Recent) < Cap
    PROVE  WindowInv' /\ CapHolds'
<1> DEFINE g == [who |-> r, attempt |-> req[r].attempt, at |-> now]
<1> USE GateAssumption
<1>1. g.at = now
  OBVIOUS
<1>2. window' = Recent \cup {g} /\ granted' = granted \cup {g}
  BY DEF Pass
<1> HIDE DEF g
<1>3. IsFiniteSet(Recent) /\ Cardinality(Recent) \in Nat
  <2>1. Recent \in SUBSET window
    BY DEF Recent
  <2>2. QED
    BY <2>1, FS_Subset, FS_CardinalityType DEF WindowInv
<1>4. IsFiniteSet(window') /\ Cardinality(window') \in Nat /\ Cardinality(window') <= Cap
  <2>1. /\ IsFiniteSet(Recent \cup {g})
        /\ Cardinality(Recent \cup {g}) =
               IF g \in Recent THEN Cardinality(Recent) ELSE Cardinality(Recent) + 1
    BY <1>3, FS_AddElement
  <2>2. QED
    BY <1>2, <1>3, <2>1
<1>5. \A h \in granted' : h.at \in Nat /\ h.at <= now
  BY <1>1, <1>2 DEF WindowInv, TypeOK, Grant
<1>6. \A h \in granted' : now - h.at < Period => h \in window'
  BY <1>1, <1>2 DEF WindowInv, Recent
<1>7. WindowInv'
  <2>1. window' \subseteq granted'
    BY <1>2 DEF Recent, WindowInv
  <2>2. QED
    BY <2>1, <1>4, <1>5, <1>6 DEF WindowInv
<1>8. CapHolds'
  <2>1. SUFFICES ASSUME NEW from \in 0..now'
                 PROVE  Cardinality(Within(from)') <= Cap
    BY DEF CapHolds, Within
  <2>2. from \in 0..now
    OBVIOUS
  <2>3. CASE now < from + Period
    <3>1. Within(from)' \in SUBSET window'
      <4>1. SUFFICES ASSUME NEW h \in granted', from <= h.at, h.at < from + Period
                     PROVE  h \in window'
        BY DEF Within
      <4>2. now - h.at < Period
        BY <2>2, <2>3, <1>5, <4>1 DEF TypeOK
      <4>3. QED
        BY <4>2, <1>6
    <3>2. Cardinality(Within(from)') <= Cardinality(window')
          /\ Cardinality(Within(from)') \in Nat
      BY <3>1, <1>4, FS_Subset, FS_CardinalityType
    <3>3. Cardinality(Within(from)') <= Cap
      BY <3>2, <1>4
    <3>4. QED
      BY <3>3
  <2>4. CASE ~ (now < from + Period)
    <3>1. Within(from)' = Within(from)
      BY <2>4, <2>2, <1>1, <1>2 DEF Within, TypeOK
    <3>2. Cardinality(Within(from)) <= Cap
      BY <2>2 DEF CapHolds, Within
    <3>3. QED
      BY <3>1, <3>2
  <2>5. QED
    BY <2>3, <2>4
<1>9. QED
  BY <1>7, <1>8

\* What the sleep waited for is no longer recent, so there is room.
LEMMA RoomAfterSleep ==
    ASSUME TypeOK, WindowInv, SleepInv, Wake
    PROVE  Cardinality(Recent) < Cap
<1> USE GateAssumption
<1>1. PICK g \in window : req[holder].due >= g.at + Period
  BY DEF SleepInv, Wake
<1>2. g.at \in Nat /\ req[holder].due \in Nat /\ now \in Nat
  BY DEF TypeOK, Grant, Request, Wake
<1>3. ~ (now - g.at < Period)
  BY <1>1, <1>2 DEF Wake
<1>4. Recent \in SUBSET (window \ {g})
  BY <1>3 DEF Recent
<1>5. IsFiniteSet(window \ {g}) /\ Cardinality(window \ {g}) = Cardinality(window) - 1
  BY FS_RemoveElement DEF WindowInv
<1>6. Cardinality(Recent) <= Cardinality(window \ {g})
  BY <1>4, <1>5, FS_Subset
<1>7. Cardinality(window) \in Nat /\ Cardinality(Recent) \in Nat
  <2>1. IsFiniteSet(Recent)
    BY <1>4, <1>5, FS_Subset
  <2>2. QED
    BY <2>1, FS_CardinalityType DEF WindowInv
<1>8. QED
  BY <1>5, <1>6, <1>7 DEF WindowInv

LEMMA GateInit == Init => GateInv
<1> SUFFICES ASSUME Init PROVE GateInv
  OBVIOUS
<1> USE GateAssumption
<1>1. TypeOK
  BY TypeInit
<1>2. WindowInv
  BY FS_EmptySet DEF Init, WindowInv
<1>3. SleepInv
  BY DEF Init, SleepInv
<1>4. CapHolds
  <2>1. SUFFICES ASSUME NEW from \in 0..now
                 PROVE  Cardinality(Within(from)) <= Cap
    BY DEF CapHolds, Within
  <2>2. Within(from) = {}
    BY DEF Init, Within
  <2>3. QED
    BY <2>2, FS_EmptySet
<1>5. QED
  BY <1>1, <1>2, <1>3, <1>4 DEF GateInv

\* A step that leaves the window, the grants and the clock alone keeps the limit.
LEMMA GateAlone ==
    ASSUME WindowInv, CapHolds, UNCHANGED <<window, granted, now>>
    PROVE  WindowInv' /\ CapHolds'
BY DEF WindowInv, CapHolds

\* Every step keeps the limit.
LEMMA GateStep ==
    ASSUME GateInv, [Next]_vars
    PROVE  GateInv'
<1> USE GateAssumption
<1>0. TypeOK /\ WindowInv /\ SleepInv /\ CapHolds /\ TypeOK'
  BY TypeStep DEF GateInv
<1>1. ASSUME NEW r \in Req, Call(r) \/ Answer(r) \/ Resume(r)
      PROVE  WindowInv' /\ SleepInv' /\ CapHolds'
  <2>1. UNCHANGED <<window, granted, now, holder>>
    BY <1>1 DEF Call, Answer, Resume
  <2>2. req[r].phase # "sleeping" /\ \A q \in Req \ {r} : req'[q] = req[q]
    BY <1>0, <1>1 DEF Call, Answer, Resume, End, TypeOK
  <2>3. SleepInv'
    <3>1. ASSUME holder # NoReq
          PROVE  holder \in Req \ {r}
      BY <1>0, <2>2, <3>1 DEF SleepInv, TypeOK
    <3>2. QED
      BY <1>0, <2>1, <2>2, <3>1 DEF SleepInv
  <2>4. QED
    BY <1>0, <2>1, <2>3, GateAlone
<1>2. ASSUME NEW r \in Req, Cancel(r)
      PROVE  WindowInv' /\ SleepInv' /\ CapHolds'
  <2>1. UNCHANGED <<window, granted, now>>
    BY <1>2 DEF Cancel
  <2>2. \A q \in Req \ {r} : req'[q] = req[q]
    BY <1>0, <1>2 DEF Cancel, End, TypeOK
  <2>3. SleepInv'
    <3>1. ASSUME holder' # NoReq
          PROVE  holder' = holder /\ holder \in Req \ {r}
      BY <1>0, <1>2, <3>1 DEF Cancel, TypeOK
    <3>2. QED
      BY <1>0, <2>1, <2>2, <3>1 DEF SleepInv
  <2>4. QED
    BY <1>0, <2>1, <2>3, GateAlone
<1>3. CASE Enter
  <2>1. Head(queue) \in Req
    BY <1>0, <1>3 DEF Enter, TypeOK
  <2>2. CASE ~ Full(Recent)
    <3>1. Pass(Head(queue)) /\ UNCHANGED <<holder, now>> /\ holder = NoReq
      BY <1>3, <2>2 DEF Enter
    <3>2. Cardinality(Recent) < Cap
      <4>1. Recent \in SUBSET window
        BY DEF Recent
      <4>2. Cardinality(Recent) \in Nat
        BY <1>0, <4>1, FS_Subset, FS_CardinalityType DEF WindowInv
      <4>3. QED
        BY <2>2, <4>2 DEF Full
    <3>3. SleepInv'
      BY <3>1 DEF SleepInv
    <3>4. QED
      BY <1>0, <2>1, <3>1, <3>2, <3>3, Granted DEF GateInv
  <2>3. CASE Full(Recent)
    <3>1. PICK oldest \in Oldest(Recent) :
              req' = [req EXCEPT ![Head(queue)].phase = "sleeping",
                                 ![Head(queue)].due = oldest.at + Period + Slack]
      BY <1>3, <2>3 DEF Enter
    <3>2. window' = Recent /\ holder' = Head(queue) /\ UNCHANGED <<granted, now>>
      BY <1>3, <2>3 DEF Enter
    <3>3. SleepInv'
      <4>1. req'[holder'].phase = "sleeping" /\ req'[holder'].due = oldest.at + Period + Slack
        BY <1>0, <2>1, <3>1, <3>2 DEF TypeOK, Request
      <4>2. oldest \in window' /\ oldest.at \in Nat
        BY <1>0, <3>2 DEF Oldest, Recent, TypeOK, Grant
      <4>3. req'[holder'].due >= oldest.at + Period
        BY <4>1, <4>2
      <4>4. QED
        BY <4>1, <4>2, <4>3 DEF SleepInv
    <3>4. window' \subseteq window /\ Recent' \subseteq window' /\ Recent \subseteq window'
      BY <3>2 DEF Recent
    <3>5. now' \in Nat /\ now' >= now /\ now' <= now + 1
      BY <1>0, <3>2 DEF TypeOK
    <3>6. QED
      BY <1>0, <3>2, <3>3, <3>4, <3>5, NothingGranted DEF GateInv
  <2>4. QED
    BY <2>2, <2>3
<1>4. CASE Wake
  <2>1. holder \in Req /\ Pass(holder) /\ UNCHANGED now /\ holder' = NoReq
    BY <1>0, <1>4 DEF Wake, TypeOK
  <2>2. Cardinality(Recent) < Cap
    BY <1>0, <1>4, RoomAfterSleep
  <2>3. SleepInv'
    BY <2>1 DEF SleepInv
  <2>4. QED
    BY <1>0, <2>1, <2>2, <2>3, Granted DEF GateInv
<1>5. CASE Tick
  <2>1. UNCHANGED <<window, granted, holder, req>> /\ now' = now + 1
    BY <1>5 DEF Tick
  <2>2. now' \in Nat /\ now' >= now /\ now' <= now + 1
    BY <1>0, <2>1 DEF TypeOK
  <2>3. window' \subseteq window /\ Recent' \subseteq window' /\ Recent \subseteq window'
    BY <2>1 DEF Recent
  <2>4. SleepInv'
    BY <1>0, <2>1 DEF SleepInv
  <2>5. QED
    BY <1>0, <2>1, <2>2, <2>3, <2>4, NothingGranted DEF GateInv
<1>6. CASE UNCHANGED vars
  <2>1. UNCHANGED <<window, granted, holder, req, now>>
    BY <1>6 DEF vars
  <2>2. SleepInv'
    BY <1>0, <2>1 DEF SleepInv
  <2>3. QED
    BY <1>0, <2>1, <2>2, GateAlone DEF GateInv
<1>7. QED
  BY <1>0, <1>1, <1>2, <1>3, <1>4, <1>5, <1>6 DEF Next, GateInv

\* However workers overlap, wait and are cancelled, at most Cap attempts pass
\* the gate of WhooingClient._throttle within any Period (client.py:89-109).
THEOREM GateCapHolds == Spec => []CapHolds
<1>1. Init => GateInv
  BY GateInit
<1>2. GateInv /\ [Next]_vars => GateInv'
  BY GateStep
<1>3. GateInv => CapHolds
  BY DEF GateInv
<1>4. QED
  BY <1>1, <1>2, <1>3, PTL DEF Spec

-------------------------------------------------------------------------------
(* Nothing is done twice *)

\* Who is in the queue waits there, once.
QueueInv ==
    /\ \A i \in DOMAIN queue : req[queue[i]].phase = "queued"
    /\ \A i, j \in DOMAIN queue : queue[i] = queue[j] => i = j

\* Removing a position keeps the others in their order.
LEMMA Removed ==
    ASSUME NEW S, NEW s \in Seq(S), NEW i \in 1..Len(s)
    PROVE  /\ RemoveAt(s, i) \in Seq(S)
           /\ DOMAIN RemoveAt(s, i) = 1..(Len(s) - 1)
           /\ \A j \in 1..(Len(s) - 1) : RemoveAt(s, i)[j] = s[IF j < i THEN j ELSE j + 1]
<1> DEFINE a == SubSeq(s, 1, i - 1)
           b == SubSeq(s, i + 1, Len(s))
<1>1. /\ a \in Seq(S) /\ Len(a) = i - 1
      /\ \A j \in 1..(i - 1) : a[j] = s[j]
  OBVIOUS
<1>2. /\ b \in Seq(S) /\ Len(b) = Len(s) - i
      /\ \A j \in 1..(Len(s) - i) : b[j] = s[i + j]
  OBVIOUS
<1>3. RemoveAt(s, i) = a \o b
  BY DEF RemoveAt
<1> HIDE DEF a, b
<1>4. a \o b \in Seq(S) /\ Len(a \o b) = Len(s) - 1
  <2>1. a \o b \in Seq(S)
    BY <1>1, <1>2
  <2>2. Len(a \o b) = Len(a) + Len(b)
    BY <1>1, <1>2, ConcatProperties
  <2>3. Len(s) \in Nat
    OBVIOUS
  <2>4. QED
    BY <1>1, <1>2, <2>1, <2>2, <2>3
<1>5. \A j \in 1..(Len(s) - 1) : (a \o b)[j] = s[IF j < i THEN j ELSE j + 1]
  <2>1. TAKE j \in 1..(Len(s) - 1)
  <2>2. CASE j < i
    <3>1. (a \o b)[j] = a[j]
      BY <1>1, <1>2, <2>2
    <3>2. QED
      BY <1>1, <2>2, <3>1
  <2>3. CASE ~ (j < i)
    <3>1. (a \o b)[j] = b[j - Len(a)]
      BY <1>1, <1>2, <2>3
    <3>2. j - Len(a) \in 1..(Len(s) - i) /\ i + (j - Len(a)) = j + 1
      BY <1>1, <2>3
    <3>3. QED
      BY <1>2, <2>3, <3>1, <3>2
  <2>4. QED
    BY <2>2, <2>3
<1>6. QED
  BY <1>3, <1>4, <1>5

\* Every step keeps the queue.
LEMMA QueueStep ==
    ASSUME TypeOK, SleepInv, QueueInv, [Next]_vars
    PROVE  QueueInv'
<1>0. queue \in Seq(Req)
  BY DEF TypeOK
<1>1. ASSUME NEW r \in Req, req[r].phase # "queued", UNCHANGED queue,
             \A q \in Req \ {r} : req'[q] = req[q]
      PROVE  QueueInv'
  <2>1. \A i \in DOMAIN queue : queue[i] \in Req /\ queue[i] # r
    BY <1>0, <1>1 DEF QueueInv
  <2>2. QED
    BY <1>1, <2>1 DEF QueueInv
<1>2. ASSUME NEW r \in Req, req[r].phase # "queued", queue' = Append(queue, r),
             req'[r].phase = "queued", \A q \in Req \ {r} : req'[q] = req[q]
      PROVE  QueueInv'
  <2>1. \A i \in DOMAIN queue : queue[i] \in Req /\ queue[i] # r
    BY <1>0, <1>2 DEF QueueInv
  <2>2. /\ DOMAIN queue' = 1..(Len(queue) + 1)
        /\ queue'[Len(queue) + 1] = r
        /\ \A i \in 1..Len(queue) : queue'[i] = queue[i]
    BY <1>0, <1>2
  <2>3. \A i \in DOMAIN queue' : i \in DOMAIN queue \/ i = Len(queue) + 1
    BY <1>0, <2>2
  <2>4. DOMAIN queue = 1..Len(queue)
    BY <1>0
  <2>5. \A i \in DOMAIN queue' : req'[queue'[i]].phase = "queued"
    BY <1>2, <2>1, <2>2, <2>3, <2>4 DEF QueueInv
  <2>6. \A i, j \in DOMAIN queue' : queue'[i] = queue'[j] => i = j
    BY <2>1, <2>2, <2>3, <2>4 DEF QueueInv
  <2>7. QED
    BY <2>5, <2>6 DEF QueueInv
<1>3. ASSUME NEW r \in Req, NEW i \in DOMAIN queue, queue[i] = r,
             queue' = RemoveAt(queue, i), \A q \in Req \ {r} : req'[q] = req[q]
      PROVE  QueueInv'
  <2>1. i \in 1..Len(queue) /\ Len(queue) \in Nat /\ DOMAIN queue = 1..Len(queue)
    BY <1>0
  <2>2. /\ DOMAIN queue' = 1..(Len(queue) - 1)
        /\ \A j \in 1..(Len(queue) - 1) : queue'[j] = queue[IF j < i THEN j ELSE j + 1]
    BY <1>0, <1>3, <2>1, Removed
  <2>3. \A j \in DOMAIN queue' :
            \E k \in DOMAIN queue : /\ queue'[j] = queue[k] /\ k # i
                                    /\ k = IF j < i THEN j ELSE j + 1
    BY <2>1, <2>2
  <2>4. \A k \in DOMAIN queue : k # i => queue[k] \in Req \ {r}
    BY <1>0, <1>3 DEF QueueInv
  <2>5. \A j \in DOMAIN queue' : req'[queue'[j]].phase = "queued"
    BY <1>3, <2>3, <2>4 DEF QueueInv
  <2>6. \A j, k \in DOMAIN queue' : queue'[j] = queue'[k] => j = k
    <3>1. SUFFICES ASSUME NEW j \in DOMAIN queue', NEW k \in DOMAIN queue',
                          queue'[j] = queue'[k]
                   PROVE  j = k
      OBVIOUS
    <3>2. j \in Nat /\ k \in Nat
      BY <2>2
    <3>3. (IF j < i THEN j ELSE j + 1) = (IF k < i THEN k ELSE k + 1)
      BY <2>3, <3>1 DEF QueueInv
    <3>4. QED
      BY <2>1, <3>2, <3>3
  <2>7. QED
    BY <2>5, <2>6 DEF QueueInv
<1>4. ASSUME NEW r \in Req, Call(r)
      PROVE  QueueInv'
  <2>1. req[r].phase # "queued" /\ queue' = Append(queue, r)
    BY <1>4 DEF Call
  <2>2. req'[r].phase = "queued" /\ \A q \in Req \ {r} : req'[q] = req[q]
    BY <1>4 DEF Call, TypeOK, Request
  <2>3. QED
    BY <1>2, <2>1, <2>2
<1>5. ASSUME NEW r \in Req, Answer(r)
      PROVE  QueueInv'
  BY <1>1, <1>5 DEF Answer, End, TypeOK
<1>6. ASSUME NEW r \in Req, Resume(r)
      PROVE  QueueInv'
  <2>1. req[r].phase # "queued" /\ \A q \in Req \ {r} : req'[q] = req[q]
    BY <1>6 DEF Resume, End, TypeOK
  <2>2. \/ queue' = Append(queue, r) /\ req'[r].phase = "queued"
        \/ UNCHANGED queue
    BY <1>6 DEF Resume, TypeOK, Request
  <2>3. QED
    BY <1>1, <1>2, <2>1, <2>2
<1>7. ASSUME NEW r \in Req, Cancel(r)
      PROVE  QueueInv'
  <2>1. \A q \in Req \ {r} : req'[q] = req[q]
    BY <1>7 DEF Cancel, End, TypeOK
  <2>2. CASE req[r].phase = "queued"
    BY <1>3, <1>7, <2>1, <2>2 DEF Cancel, LeaveQueue
  <2>3. CASE req[r].phase # "queued"
    BY <1>1, <1>7, <2>1, <2>3 DEF Cancel, LeaveQueue
  <2>4. QED
    BY <2>2, <2>3
<1>8. CASE Enter
  <2>1. queue # << >> /\ queue' = Tail(queue)
    BY <1>8 DEF Enter
  <2>2. /\ Len(queue) \in Nat /\ DOMAIN queue = 1..Len(queue)
        /\ Head(queue) = queue[1] /\ Head(queue) \in Req /\ 1 \in DOMAIN queue
    BY <1>0, <2>1
  <2>3. /\ DOMAIN queue' = 1..(Len(queue) - 1)
        /\ \A j \in 1..(Len(queue) - 1) : queue'[j] = queue[j + 1]
    BY <1>0, <2>1
  <2>4. \A q \in Req \ {Head(queue)} : req'[q] = req[q]
    BY <1>8, <2>2 DEF Enter, Pass, TypeOK
  <2>5. \A j \in DOMAIN queue' : j + 1 \in DOMAIN queue /\ j + 1 # 1 /\ j \in Nat
    BY <2>2, <2>3
  <2>6. \A k \in DOMAIN queue : k # 1 => queue[k] \in Req \ {Head(queue)}
    BY <1>0, <2>2 DEF QueueInv
  <2>7. \A j \in DOMAIN queue' : req'[queue'[j]].phase = "queued"
    BY <2>3, <2>4, <2>5, <2>6 DEF QueueInv
  <2>8. \A j, k \in DOMAIN queue' : queue'[j] = queue'[k] => j = k
    <3>1. SUFFICES ASSUME NEW j \in DOMAIN queue', NEW k \in DOMAIN queue',
                          queue'[j] = queue'[k]
                   PROVE  j = k
      OBVIOUS
    <3>2. j + 1 = k + 1
      BY <2>3, <2>5, <3>1 DEF QueueInv
    <3>3. QED
      BY <2>5, <3>2
  <2>9. QED
    BY <2>7, <2>8 DEF QueueInv
<1>9. CASE Wake
  <2>1. holder \in Req /\ req[holder].phase # "queued" /\ UNCHANGED queue
    BY <1>9 DEF Wake, SleepInv, TypeOK
  <2>2. \A q \in Req \ {holder} : req'[q] = req[q]
    BY <1>9, <2>1 DEF Wake, Pass, TypeOK
  <2>3. QED
    BY <1>1, <2>1, <2>2
<1>10. CASE Tick \/ UNCHANGED vars
  BY <1>10 DEF Tick, vars, QueueInv
<1>11. QED
  BY <1>4, <1>5, <1>6, <1>7, <1>8, <1>9, <1>10 DEF Next

LEMMA AppliedStep ==
    ASSUME TypeOK, SleepInv, QueueInv, AppliedInv, [Next]_vars
    PROVE  AppliedInv'
<1> USE DEF AppliedInv
<1>1. ASSUME NEW r \in Req, Call(r) \/ Resume(r)
      PROVE  AppliedInv'
  <2>1. UNCHANGED applied /\ req[r].phase # "ended"
    BY <1>1 DEF Call, Resume
  <2>2. \A q \in Req \ {r} : req'[q] = req[q]
    BY <1>1 DEF Call, Resume, End, TypeOK
  <2>3. \/ req'[r].phase # "ended" /\ req'[r].result = req[r].result
        \/ req'[r].phase = "ended" /\ req'[r].result = "limit"
    BY <1>1 DEF Call, Resume, End, TypeOK, Request
  <2>4. QED
    BY <2>1, <2>2, <2>3
<1>2. ASSUME NEW r \in Req, Answer(r)
      PROVE  AppliedInv'
  <2>1. PICK outcome \in Outcome :
            /\ \E times \in Times(outcome) : Carry(r, times)
            /\ IF Retried(outcome)
               THEN req' = [req EXCEPT ![r].phase = "backoff",
                                       ![r].due = now + Backoff[req[r].attempt]]
               ELSE End(r, outcome)
    BY <1>2 DEF Answer
  <2>2. PICK times \in Times(outcome) : Carry(r, times)
    BY <2>1
  <2>3. applied[r] = 0 /\ applied'[r] = times /\ req[r].result = "none"
    BY <1>2, <2>2 DEF Answer, Carry, TypeOK, Times, Outcome
  <2>4. \A q \in Req \ {r} : req'[q] = req[q] /\ applied'[q] = applied[q]
    BY <2>1, <2>2 DEF Carry, End, TypeOK
  <2>5. CASE outcome = "limit"
    <3>1. times = 0
      BY <2>2, <2>5 DEF Times
    <3>2. req'[r].phase = "backoff" /\ req'[r].result = "none"
      BY <2>1, <2>3, <2>5 DEF Retried, TypeOK, Request
    <3>3. QED
      BY <2>3, <2>4, <3>1, <3>2
  <2>6. CASE outcome # "limit"
    <3>1. req'[r].phase = "ended" /\ req'[r].result = outcome
      BY <2>1, <2>6 DEF Retried, End, TypeOK, Request
    <3>2. times \in {0, 1} /\ (outcome = "ok" => times = 1) /\ (outcome = "refused" => times = 0)
      BY <2>2 DEF Times, Outcome
    <3>3. QED
      BY <2>3, <2>4, <2>6, <3>1, <3>2
  <2>7. QED
    BY <2>5, <2>6
<1>3. ASSUME NEW r \in Req, Cancel(r)
      PROVE  AppliedInv'
  <2>1. PICK times \in {0, 1} : Carry(r, times)
    BY <1>3 DEF Cancel, Times
  <2>2. applied[r] = 0 /\ applied'[r] = times
    BY <1>3, <2>1 DEF Cancel, Active, Carry, TypeOK
  <2>3. req'[r].phase = "ended" /\ req'[r].result = "cancelled"
    BY <1>3 DEF Cancel, End, TypeOK, Request
  <2>4. \A q \in Req \ {r} : req'[q] = req[q] /\ applied'[q] = applied[q]
    BY <1>3, <2>1 DEF Cancel, End, Carry, TypeOK
  <2>5. QED
    BY <2>1, <2>2, <2>3, <2>4
<1>4. ASSUME NEW r \in Req, req[r].phase # "ended", UNCHANGED applied,
             req'[r].phase # "ended", req'[r].result = req[r].result,
             \A q \in Req \ {r} : req'[q] = req[q]
      PROVE  AppliedInv'
  BY <1>4
<1>5. CASE Enter \/ Wake
  <2>1. PICK r \in Req : /\ req[r].phase \in {"queued", "sleeping"}
                         /\ \/ Enter /\ r = Head(queue)
                            \/ Wake /\ r = holder
    <3>1. CASE Enter
      <4>1. Head(queue) \in Req /\ Head(queue) = queue[1] /\ 1 \in DOMAIN queue
        BY <3>1 DEF Enter, TypeOK
      <4>2. QED
        BY <3>1, <4>1 DEF QueueInv
    <3>2. CASE Wake
      BY <3>2 DEF Wake, SleepInv, TypeOK
    <3>3. QED
      BY <1>5, <3>1, <3>2
  <2>2. \A q \in Req \ {r} : req'[q] = req[q]
    <3>1. CASE Enter /\ r = Head(queue)
      BY <3>1 DEF Enter, Pass, TypeOK
    <3>2. CASE Wake /\ r = holder
      BY <3>2 DEF Wake, Pass, TypeOK
    <3>3. QED
      BY <2>1, <3>1, <3>2
  <2>3. req'[r].phase # "ended" /\ req'[r].result = req[r].result
    <3>1. CASE Pass(r)
      BY <3>1 DEF Pass, TypeOK, Request
    <3>2. CASE Enter /\ ~ Pass(r)
      <4>1. PICK oldest \in Oldest(Recent) :
                req' = [req EXCEPT ![r].phase = "sleeping",
                                   ![r].due = oldest.at + Period + Slack]
        BY <2>1, <3>2 DEF Enter, Wake
      <4>2. QED
        BY <4>1 DEF TypeOK, Request
    <3>3. QED
      BY <2>1, <3>1, <3>2 DEF Wake
  <2>4. UNCHANGED applied
    BY <1>5 DEF Enter, Wake
  <2>5. req[r].phase # "ended"
    BY <2>1
  <2>6. QED
    BY <1>4, <2>2, <2>3, <2>4, <2>5
<1>6. CASE Tick
  BY <1>6 DEF Tick
<1>7. CASE UNCHANGED vars
  BY <1>7 DEF vars
<1>8. QED
  BY <1>1, <1>2, <1>3, <1>4, <1>5, <1>6, <1>7 DEF Next

\* A request is carried out at most once however often WhooingClient._request
\* tries it, and one that ends with a limit or a refusal has done nothing.
THEOREM GateNothingTwice == Spec => []NothingTwice
<1> DEFINE Inv == GateInv /\ QueueInv /\ AppliedInv
<1>1. Init => Inv
  <2>1. Init => QueueInv
    BY DEF Init, QueueInv
  <2>2. Init => AppliedInv
    BY DEF Init, AppliedInv, Idle
  <2>3. QED
    BY <2>1, <2>2, GateInit
<1>2. Inv /\ [Next]_vars => Inv'
  BY GateStep, QueueStep, AppliedStep DEF GateInv
<1>3. Inv => NothingTwice
  BY DEF AppliedInv, NothingTwice
<1>4. QED
  BY <1>1, <1>2, <1>3, PTL DEF Spec
===============================================================================
