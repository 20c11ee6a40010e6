--------------------------- MODULE MenuScreensProofs ---------------------------
(***************************************************************************)
(* Proofs about the screens of the menu, for any items, tags, sections and *)
(* answers.  A behaviour is about one of the screens: a step is one of     *)
(* that screen, and leaves the variables of the others alone.              *)
(***************************************************************************)
EXTENDS MenuScreens, FiniteSetTheorems, WellFoundedInduction, TLAPS

-------------------------------------------------------------------------------
(* The settings screens *)

\* The screens whose workers wait for their dialogs, and whose rows are not moved.
Waiting == {"frequent", "monthly", "customs", "budget", "goal"}

JobFields == {"op", "stage", "tab", "row", "order", "rows"}

\* What a dialog is about.
AskOp == {"create", "update", "delete"}

\* A worker is in the group of what it does.
JobsFit ==
    \A g \in Settings!Group :
        jobs[g] = Settings!NoJob \/ (/\ DOMAIN jobs[g] = JobFields
                                     /\ jobs[g].op \in {"list"} \cup AskOp
                                     /\ g = Settings!GroupOf(screen, jobs[g].op))

\* The worker that opened a dialog waits for it.
Waits(d) ==
    /\ DOMAIN d = JobFields
    /\ d.op \in AskOp
    /\ Settings!Hears(Settings!GroupOf(screen, d.op), d)

\* A dialog is alone over its screen; a closed screen has none, and nothing starts a
\* worker in the group of one that waits.
HeardInv ==
    /\ screen \in Screens
    /\ DOMAIN jobs = Settings!Group
    /\ screen \in Waiting =>
           /\ timer = NoTimer /\ JobsFit
           /\ ~ open => dialogs = << >>
           /\ dialogs # << >> => dialogs = <<dialogs[1]>> /\ Waits(dialogs[1])

\* A list is in the group of a dialog only where one group has everything.
LEMMA Groups ==
    ASSUME screen \in Waiting
    PROVE  /\ Settings!GroupOf(screen, "list") \in Settings!Group
           /\ \A op \in AskOp : Settings!GroupOf(screen, op) \in Settings!Group
           /\ \A op \in AskOp :
                  Settings!GroupOf(screen, op) = Settings!GroupOf(screen, "list") =>
                      \A o \in AskOp : Settings!GroupOf(screen, o) = "all"
  BY DEF Waiting, AskOp, Settings!GroupOf, Settings!Group, Settings!Plain

\* A worker is told from none.
LEMMA JobIs ==
    ASSUME NEW op, op # "none", NEW stage, NEW tab, NEW row, NEW order
    PROVE  LET j == Settings!Job(op, stage, tab, row, order) IN
           j # Settings!NoJob /\ DOMAIN j = JobFields /\ j.op = op /\ j.stage = stage
  BY DEF Settings!Job, Settings!NoJob, JobFields

\* The screen of accounts and that of sections promise nothing.
LEMMA OtherScreens ==
    ASSUME HeardInv, screen \notin Waiting, Settings!Next
    PROVE  HeardInv'
<1>1. screen' = screen
  BY
     DEF Settings!Next, Settings!on_mount, Settings!action_back, Settings!action_refresh,
         Settings!action_toggle, Settings!action_toggle_report, Settings!Change,
         Settings!Accept, Settings!CancelDialog, Settings!ServerDoes, Settings!Fails,
         Settings!ListArrives, Settings!Checked, Settings!SortSaved, Settings!Changed,
         Settings!SortTimer
<1>2. DOMAIN jobs' = Settings!Group
  <2>1. ASSUME NEW j, Settings!Begin(j) PROVE DOMAIN jobs' = Settings!Group
    BY <2>1 DEF HeardInv, Settings!Begin
  <2>2. ASSUME NEW g, Settings!Ends(g) PROVE DOMAIN jobs' = Settings!Group
    BY <2>2 DEF HeardInv, Settings!Ends
  <2>3. ASSUME UNCHANGED jobs PROVE DOMAIN jobs' = Settings!Group
    BY <2>3 DEF HeardInv
  <2>4. ASSUME Settings!Change PROVE DOMAIN jobs' = Settings!Group
    BY <2>1, <2>3, <2>4
       DEF Settings!Change, Settings!action_new_account, Settings!action_edit_account,
           Settings!action_delete_account, Settings!SectionFlow, Settings!Reorder,
           Settings!NewWorker, Settings!DeleteWorker, Settings!NewCustom,
           Settings!DeleteCustom, Settings!EditAmount, Settings!DeleteBudget,
           Settings!EditGoal, Settings!Flow
  <2>5. ASSUME Settings!Accept \/ Settings!CancelDialog PROVE DOMAIN jobs' = Settings!Group
    BY <2>1, <2>2, <2>3, <2>5 DEF HeardInv, Settings!Accept, Settings!CancelDialog
  <2>6. ASSUME \/ Settings!on_mount \/ Settings!action_back \/ Settings!action_refresh
               \/ Settings!action_toggle \/ Settings!action_toggle_report \/ Settings!SortTimer
        PROVE DOMAIN jobs' = Settings!Group
    BY <2>1, <2>3, <2>6
       DEF HeardInv, Settings!on_mount, Settings!action_back, Settings!action_refresh,
           Settings!action_toggle, Settings!action_toggle_report, Settings!SortTimer
  <2>7. ASSUME NEW g,
               \/ Settings!ServerDoes(g) \/ Settings!Fails(g) \/ Settings!ListArrives(g)
               \/ Settings!Checked(g) \/ Settings!SortSaved(g) \/ Settings!Changed(g)
        PROVE DOMAIN jobs' = Settings!Group
    BY <2>2, <2>7
       DEF HeardInv, Settings!ServerDoes, Settings!Fails, Settings!ListArrives,
           Settings!Checked, Settings!SortSaved, Settings!Changed
  <2> QED BY <2>4, <2>5, <2>6, <2>7 DEF Settings!Next
<1> QED BY <1>1, <1>2 DEF HeardInv

\* A worker that does not wait may end,
LEMMA WaitEnds ==
    ASSUME HeardInv, screen \in Waiting, NEW g \in Settings!Group, jobs[g].stage # "ask",
           Settings!Ends(g), UNCHANGED <<screen, open, dialogs, timer>>
    PROVE  HeardInv'
<1>1. /\ DOMAIN jobs' = Settings!Group /\ jobs'[g] = Settings!NoJob
      /\ \A k \in Settings!Group \ {g} : jobs'[k] = jobs[k]
  BY DEF HeardInv, Settings!Ends
<1>2. JobsFit'
  BY <1>1 DEF HeardInv, JobsFit
<1>3. ASSUME NEW d, Waits(d) PROVE Waits(d)'
  <2>1. PICK k : k = Settings!GroupOf(screen, d.op) /\ k \in Settings!Group
    BY <1>3, Groups DEF Waits
  <2>2. jobs'[k] = jobs[k]
    BY <1>1, <1>3, <2>1 DEF Waits, Settings!Hears
  <2>3. k = Settings!GroupOf(screen', d.op)
    BY <2>1
  <2> QED BY <1>3, <2>1, <2>2, <2>3 DEF Waits, Settings!Hears
<1> QED BY <1>1, <1>2, <1>3 DEF HeardInv

\* and one may begin when no dialog is open, with its own dialog or without.
LEMMA WaitBegins ==
    ASSUME HeardInv, screen \in Waiting, dialogs = << >>,
           NEW j, DOMAIN j = JobFields, j.op \in {"list"} \cup AskOp,
           Settings!Begin(j), UNCHANGED <<screen, open, timer>>, open,
           \/ dialogs' = << >>
           \/ /\ dialogs' = <<j>>
              /\ j.op \in AskOp /\ j.stage = "ask" /\ j # Settings!NoJob
    PROVE  HeardInv'
<1>1. PICK g : g = Settings!GroupOf(screen, j.op) /\ g \in Settings!Group
  BY Groups
<1>2. /\ DOMAIN jobs' = Settings!Group /\ jobs'[g] = j
      /\ \A k \in Settings!Group \ {g} : jobs'[k] = jobs[k]
  BY <1>1 DEF HeardInv, Settings!Begin
<1>3. g = Settings!GroupOf(screen', j.op)
  BY <1>1
<1>4. JobsFit'
  BY <1>1, <1>2, <1>3 DEF HeardInv, JobsFit
<1>5. dialogs' = <<j>> /\ j.op \in AskOp /\ j.stage = "ask" /\ j # Settings!NoJob => Waits(j)'
  BY <1>1, <1>2, <1>3 DEF Waits, Settings!Hears
<1> QED BY <1>2, <1>4, <1>5 DEF HeardInv

\* Keys that reload or leave,
LEMMA WaitKeys ==
    ASSUME HeardInv, screen \in Waiting,
           \/ Settings!on_mount \/ Settings!action_back \/ Settings!action_refresh
           \/ Settings!action_toggle \/ Settings!action_toggle_report \/ Settings!SortTimer
    PROVE  HeardInv'
<1>1. ASSUME Settings!on_mount PROVE HeardInv'
  <2>1. PICK j : j = Settings!Job("list", "sent", mode', Settings!NoRow, << >>) 
    OBVIOUS
  <2>2. DOMAIN j = JobFields /\ j.op = "list"
    BY <2>1, JobIs
  <2>3. PICK g : /\ g \in Settings!Group
                 /\ g = Settings!GroupOf(screen, "list") /\ g = Settings!GroupOf(screen', "list")
    BY <1>1, Groups DEF Settings!on_mount
  <2>4. /\ jobs' = [jobs EXCEPT ![g] = j] /\ dialogs = << >>
        /\ open' /\ UNCHANGED <<screen, dialogs, timer>>
    BY <1>1, <2>1, <2>3 DEF HeardInv, Settings!on_mount, Waiting
  <2> QED BY <2>2, <2>3, <2>4 DEF HeardInv, JobsFit
<1>2. ASSUME Settings!action_back PROVE HeardInv'
  BY <1>2 DEF HeardInv, JobsFit, Settings!action_back, Settings!Key
<1>3. ASSUME NEW m, Settings!Begin(Settings!Job("list", "sent", m, Settings!NoRow, << >>)),
             dialogs = << >>, open, UNCHANGED <<screen, open, timer, dialogs>>
      PROVE  HeardInv'
  <2>1. PICK j : j = Settings!Job("list", "sent", m, Settings!NoRow, << >>) 
    OBVIOUS
  <2>2. DOMAIN j = JobFields /\ j.op = "list"
    BY <2>1, JobIs
  <2> QED BY <1>3, <2>1, <2>2, WaitBegins
<1>4. ASSUME Settings!action_refresh PROVE HeardInv'
  <2>1. Settings!Begin(Settings!Job("list", "sent", mode, Settings!NoRow, << >>))
    BY <1>4 DEF Settings!action_refresh, Settings!Listing, Waiting
  <2> QED BY <1>3, <1>4, <2>1 DEF Settings!action_refresh, Settings!Key
<1>5. ASSUME Settings!action_toggle PROVE HeardInv'
  BY <1>3, <1>5 DEF Settings!action_toggle, Settings!Key
<1>6. ASSUME Settings!action_toggle_report PROVE HeardInv'
  BY <1>3, <1>6 DEF Settings!action_toggle_report, Settings!Key
<1>7. ~ Settings!SortTimer
  BY DEF HeardInv, Settings!SortTimer
<1> QED BY <1>1, <1>2, <1>4, <1>5, <1>6, <1>7

\* keys that change something,
LEMMA WaitChanges ==
    ASSUME HeardInv, screen \in Waiting, Settings!Change
    PROVE  HeardInv'
<1>1. /\ dialogs = << >> /\ open /\ UNCHANGED <<screen, open>>
  BY DEF Settings!Change, Settings!MayChange, Settings!Key
<1>2. ASSUME NEW op \in AskOp, NEW tab, NEW row, Settings!Flow(op, tab, row), timer' = timer
      PROVE  HeardInv'
  <2>1. PICK j : j = Settings!Job(op, "ask", tab, row, << >>)
    OBVIOUS
  <2>2. j # Settings!NoJob /\ DOMAIN j = JobFields /\ j.op = op /\ j.stage = "ask"
    BY <2>1, JobIs DEF AskOp
  <2>3. Settings!Begin(j) /\ dialogs' = <<j>>
    BY <1>1, <1>2, <2>1 DEF Settings!Flow, Settings!Open
  <2> QED BY <1>1, <1>2, <2>2, <2>3, WaitBegins
<1>3. ASSUME NEW tab, NEW row, Settings!Begin(Settings!Job("delete", "sent", tab, row, << >>)),
             UNCHANGED <<dialogs, timer>>
      PROVE  HeardInv'
  <2>1. PICK j : j = Settings!Job("delete", "sent", tab, row, << >>)
    OBVIOUS
  <2>2. DOMAIN j = JobFields /\ j.op \in AskOp
    BY <2>1, JobIs DEF AskOp
  <2> QED BY <1>1, <1>3, <2>1, <2>2, WaitBegins
<1>4. CASE Settings!NewWorker
  BY <1>2, <1>4 DEF Settings!NewWorker, AskOp
<1>5. CASE Settings!DeleteWorker
  BY <1>2, <1>5 DEF Settings!DeleteWorker, AskOp
<1>6. CASE Settings!NewCustom
  BY <1>2, <1>6 DEF Settings!NewCustom, AskOp
<1>7. CASE Settings!DeleteCustom
  BY <1>2, <1>7 DEF Settings!DeleteCustom, AskOp
<1>8. CASE Settings!EditAmount
  BY <1>2, <1>8 DEF Settings!EditAmount, AskOp
<1>9. CASE Settings!DeleteBudget
  BY <1>3, <1>9 DEF Settings!DeleteBudget
<1>10. CASE Settings!EditGoal
  BY <1>2, <1>10 DEF Settings!EditGoal, AskOp
<1>11. screen \notin {"accounts", "sections"}
  BY DEF Waiting
<1> QED
  BY <1>4, <1>5, <1>6, <1>7, <1>8, <1>9, <1>10, <1>11
     DEF Settings!Change, Settings!action_new_account, Settings!action_edit_account,
         Settings!action_delete_account, Settings!SectionFlow, Settings!Reorder

\* the end of a dialog,
LEMMA WaitDialogs ==
    ASSUME HeardInv, screen \in Waiting, Settings!Accept \/ Settings!CancelDialog
    PROVE  HeardInv'
<1> PICK d : d = dialogs[1]
  OBVIOUS
<1>1. dialogs = <<d>> /\ Waits(d) /\ Head(dialogs) = d /\ screen # "accounts"
  BY DEF HeardInv, Settings!Accept, Settings!CancelDialog, Waiting
<1>2. dialogs' = << >> /\ UNCHANGED <<screen, open, timer>>
  BY <1>1 DEF Settings!Accept, Settings!CancelDialog
<1> PICK g : g = Settings!GroupOf(screen, d.op)
  OBVIOUS
<1>3. g \in Settings!Group /\ Settings!Hears(g, d) /\ DOMAIN d = JobFields /\ d.op \in AskOp
  BY <1>1, Groups DEF Waits
<1>4. \/ Settings!Ends(g)
      \/ \E val : jobs' = [jobs EXCEPT ![g] = Settings!Request(d, val)]
  BY <1>1, <1>3 DEF Settings!Accept, Settings!CancelDialog, Settings!Ends
<1>5. ASSUME NEW val
      PROVE  LET r == Settings!Request(d, val) IN
             /\ DOMAIN r = JobFields /\ r.op \in AskOp
             /\ g = Settings!GroupOf(screen, r.op)
  <2>1. PICK o : o = IF screen = "budget" /\ val = 0 THEN "delete" ELSE d.op
    OBVIOUS
  <2>2. DOMAIN Settings!Request(d, val) = JobFields /\ Settings!Request(d, val).op = o
    BY <1>3, <2>1 DEF Settings!Request, JobFields
  <2>3. o \in AskOp /\ g = Settings!GroupOf(screen, o)
    BY <1>3, <2>1 DEF AskOp, Settings!GroupOf
  <2> QED BY <2>2, <2>3
<1>6. /\ DOMAIN jobs' = Settings!Group
      /\ \A k \in Settings!Group \ {g} : jobs'[k] = jobs[k]
      /\ jobs'[g] = Settings!NoJob \/ \E val : jobs'[g] = Settings!Request(d, val)
  BY <1>3, <1>4 DEF HeardInv, Settings!Ends
<1>7. JobsFit'
  BY <1>2, <1>5, <1>6 DEF HeardInv, JobsFit
<1> QED BY <1>2, <1>6, <1>7 DEF HeardInv

\* and answers of the server keep it so: the reload after a change is in a group no
\* other worker waits in.
LEMMA WaitAnswers ==
    ASSUME HeardInv, screen \in Waiting, NEW g \in Settings!Group,
           \/ Settings!ServerDoes(g) \/ Settings!Fails(g) \/ Settings!ListArrives(g)
           \/ Settings!Checked(g) \/ Settings!SortSaved(g) \/ Settings!Changed(g)
    PROVE  HeardInv'
<1>1. /\ jobs[g] # Settings!NoJob /\ jobs[g].stage # "ask"
      /\ DOMAIN jobs[g] = JobFields /\ jobs[g].op \in {"list"} \cup AskOp
      /\ g = Settings!GroupOf(screen, jobs[g].op)
  BY
     DEF HeardInv, JobsFit, Settings!ServerDoes, Settings!Fails, Settings!ListArrives,
         Settings!Checked, Settings!SortSaved, Settings!Changed, Settings!Sent,
         Settings!Back
<1>2. ASSUME Settings!Fails(g) \/ Settings!ListArrives(g) \/ Settings!SortSaved(g)
      PROVE  HeardInv'
  BY <1>1, <1>2, WaitEnds DEF Settings!Fails, Settings!ListArrives, Settings!SortSaved
<1>3. ~ Settings!Checked(g)
  BY <1>1 DEF Settings!Checked, AskOp
<1>4. ASSUME NEW d, Waits(d), UNCHANGED screen,
             NEW S, \A k \in Settings!Group \ S : jobs'[k] = jobs[k],
             Settings!GroupOf(screen, d.op) \notin S
      PROVE  Waits(d)'
  <2>1. PICK k : k = Settings!GroupOf(screen, d.op) /\ k \in Settings!Group
    BY <1>4, Groups DEF Waits
  <2>2. jobs'[k] = jobs[k] /\ k = Settings!GroupOf(screen', d.op)
    BY <1>4, <2>1
  <2> QED BY <1>4, <2>1, <2>2 DEF Waits, Settings!Hears
<1>5. ASSUME Settings!ServerDoes(g) PROVE HeardInv'
  <2>1. /\ DOMAIN jobs' = Settings!Group
        /\ DOMAIN jobs'[g] = JobFields /\ jobs'[g].op = jobs[g].op
        /\ \A k \in Settings!Group \ {g} : jobs'[k] = jobs[k]
        /\ UNCHANGED <<screen, open, timer, dialogs>>
    BY <1>1, <1>5 DEF HeardInv, Settings!ServerDoes, JobFields
  <2>2. JobsFit'
    BY <1>1, <2>1 DEF HeardInv, JobsFit
  <2>3. ASSUME NEW d, Waits(d) PROVE Settings!GroupOf(screen, d.op) # g
    BY <1>1, <2>3 DEF Waits, Settings!Hears
  <2>4. dialogs # << >> => Waits(dialogs[1])'
    BY <1>4, <2>1, <2>3 DEF HeardInv
  <2> QED BY <2>1, <2>2, <2>4 DEF HeardInv
<1>6. ASSUME Settings!Changed(g) PROVE HeardInv'
  <2>1. PICK l : l = Settings!GroupOf(screen, "list") /\ l \in Settings!Group
    BY Groups
  <2>2. PICK j : j = Settings!Job("list", "sent", mode, Settings!NoRow, << >>)
    OBVIOUS
  <2>3. DOMAIN j = JobFields /\ j.op = "list"
    BY <2>2, JobIs
  <2>4. /\ DOMAIN jobs' = Settings!Group /\ jobs'[l] = j
        /\ g = l \/ jobs'[g] = Settings!NoJob
        /\ \A k \in Settings!Group \ {g, l} : jobs'[k] = jobs[k]
        /\ UNCHANGED <<screen, open, timer, dialogs>>
    BY <1>6, <2>1, <2>2 DEF HeardInv, Settings!Changed
  <2>5. l = Settings!GroupOf(screen', "list")
    BY <2>1, <2>4
  <2>6. JobsFit'
    BY <2>1, <2>3, <2>4, <2>5 DEF HeardInv, JobsFit
  <2>7. ASSUME NEW d, Waits(d) PROVE Settings!GroupOf(screen, d.op) \notin {g, l}
    <3>1. jobs[g].op \in AskOp
      BY <1>6 DEF Settings!Changed, AskOp
    <3>2. Settings!GroupOf(screen, d.op) # g
      BY <1>1, <2>7 DEF Waits, Settings!Hears
    <3>3. d.op \in AskOp
      BY <2>7 DEF Waits
    <3> QED BY <1>1, <2>1, <3>1, <3>2, <3>3, Groups
  <2>8. dialogs # << >> => Waits(dialogs[1])'
    BY <1>4, <2>4, <2>7 DEF HeardInv
  <2> QED BY <2>4, <2>6, <2>8 DEF HeardInv
<1> QED BY <1>2, <1>3, <1>5, <1>6

LEMMA HeardAlways == Spec => []HeardInv
<1>1. Init => HeardInv
  BY DEF Init, Settings!Init, HeardInv, JobsFit
<1>2. HeardInv /\ [Next]_allVars => HeardInv'
  <2> SUFFICES ASSUME HeardInv, [Next]_allVars PROVE HeardInv'
    OBVIOUS
  <2>1. Settings!Next \/ UNCHANGED settingsVars
    BY DEF Next, Others, Same, allVars
  <2>2. CASE Settings!Next /\ screen \in Waiting
    BY <2>2, WaitKeys, WaitChanges, WaitDialogs, WaitAnswers DEF Settings!Next
  <2>3. CASE Settings!Next /\ screen \notin Waiting
    BY <2>3, OtherScreens
  <2>4. CASE UNCHANGED settingsVars
    BY <2>4 DEF settingsVars, HeardInv, JobsFit, Waits, Settings!Hears
  <2> QED BY <2>1, <2>2, <2>3, <2>4
<1> QED BY <1>1, <1>2, PTL DEF Spec

\* No reload, switch of a tab or other change ever cancels a worker that waits for its
\* dialog, on any of the screens but those of accounts and sections.
THEOREM DialogsAreHeard == Spec => []DialogIsHeard
<1>1. HeardInv => DialogIsHeard
  <2> SUFFICES ASSUME HeardInv, dialogs # << >>, screen \notin {"accounts", "sections"}
               PROVE  Settings!Hears(Settings!GroupOf(screen, Head(dialogs).op), Head(dialogs))
    BY DEF DialogIsHeard, Settings!DialogIsHeard
  <2>1. screen \in Waiting
    BY MenuAssumption DEF HeardInv, Waiting
  <2>2. Head(dialogs) = dialogs[1]
    BY <2>1 DEF HeardInv
  <2> QED BY <2>1, <2>2 DEF HeardInv, Waits
<1> QED BY <1>1, HeardAlways, PTL

-------------------------------------------------------------------------------
(* The inbox *)

Fresh(i) == ledgered[i] = 0 /\ i \notin gone

Concerns(m, i) == i \in Inbox!Touched(m.kind, m.item)

InboxTypes ==
    /\ inbox \subseteq Items /\ gone \subseteq Items /\ listed \subseteq Items
    /\ ledgered \in [Items -> Nat]
    /\ \A l \in reading : l.got \subseteq Items
    /\ asked \subseteq {"confirm", "delete", "empty"} \X Items
    /\ mutating \subseteq
           [kind : {"confirm", "delete", "empty"}, item : Items, done : BOOLEAN]

\* One thing at a time: a dialog, or the change it led to.
InboxTurns ==
    /\ \A m, n \in mutating : m = n
    /\ asked # {} => mutating = {}

\* What the screen shows, reads or asks about was neither entered nor removed,
\* unless an answer is on its way.
ListedFresh(i) ==
    /\ i \in listed => Fresh(i) \/ \E m \in mutating : m.done /\ Concerns(m, i)
    /\ \A l \in reading : i \in l.got => Fresh(i)
    /\ reading # {} => \A m \in mutating : ~ Concerns(m, i)

SentFresh(i) ==
    /\ \A a \in asked : a[2] = i => Fresh(i)
    /\ \A m \in mutating : m.kind # "empty" /\ m.item = i /\ ~ m.done => Fresh(i)

InboxFresh ==
    /\ \A i \in inbox : Fresh(i)
    /\ \A i \in Items \ unsure :
           /\ ListedFresh(i)
           /\ SentFresh(i)
           /\ ledgered[i] = 0 \/ (ledgered[i] = 1 /\ i \notin gone)

InboxInv == InboxTypes /\ InboxTurns /\ InboxFresh

\* A list, and what comes with it, keeps the invariant,
LEMMA InboxReads ==
    ASSUME InboxInv,
           \/ Inbox!action_refresh
           \/ \E l \in reading : Inbox!list(l) \/ Inbox!ListFails(l)
           \/ \E i \in Items : Inbox!Arrives(i)
    PROVE  InboxInv'
<1> USE DEF InboxInv, InboxTypes, InboxTurns, InboxFresh, ListedFresh, SentFresh,
        Fresh, Concerns
<1>1. ASSUME Inbox!action_refresh PROVE InboxInv'
  <2>1. \A m \in mutating, i \in Items : Concerns(m, i) => i \in unsure'
    BY <1>1 DEF Inbox!action_refresh
  <2>2. unsure \subseteq unsure'
    BY <1>1 DEF Inbox!action_refresh
  <2> HIDE DEF Concerns
  <2>3. InboxTypes' /\ InboxTurns'
    BY <1>1 DEF Inbox!action_refresh
  <2>4. InboxFresh'
    BY <1>1, <2>1, <2>2, SMTT(30) DEF Inbox!action_refresh
  <2> QED BY <2>3, <2>4
<1>2. ASSUME NEW l \in reading, Inbox!list(l) PROVE InboxInv'
  <2>1. PICK p : p = Inbox!page(l.below) /\ p \subseteq inbox
    BY DEF Inbox!page, Inbox!Below
  <2> QED BY <1>2, <2>1, SMTT(30) DEF Inbox!list, Inbox!ListArrived
<1>3. ASSUME NEW l \in reading, Inbox!ListFails(l) PROVE InboxInv'
  BY <1>3, SMTT(30) DEF Inbox!ListFails, Inbox!ListArrived
<1>4. ASSUME NEW i \in Items, Inbox!Arrives(i) PROVE InboxInv'
  BY <1>4, SMTT(30) DEF Inbox!Arrives
<1> QED BY <1>1, <1>2, <1>3, <1>4

\* and so does a change, from its dialog to its answer.
LEMMA InboxChanges ==
    ASSUME InboxInv,
           \/ Inbox!Cancel \/ Inbox!Accept
           \/ \E kind \in {"confirm", "delete", "empty"}, i \in Items : Inbox!Ask(kind, i)
           \/ \E m \in mutating : Inbox!ServerDoes(m) \/ Inbox!Answered(m) \/ Inbox!Fails(m)
    PROVE  InboxInv'
<1>1. ASSUME Inbox!Cancel PROVE InboxInv'
  BY <1>1, SMTT(30)
     DEF Inbox!Cancel, InboxInv, InboxTypes, InboxTurns, InboxFresh, ListedFresh, SentFresh,
         Fresh, Concerns
<1>2. ASSUME Inbox!Accept PROVE InboxInv'
  <2>1. PICK a \in asked :
          /\ asked' = {}
          /\ mutating' = mutating \cup {[kind |-> a[1], item |-> a[2], done |-> FALSE]}
          /\ unsure' = IF reading # {} THEN unsure \cup Inbox!Touched(a[1], a[2]) ELSE unsure
          /\ UNCHANGED <<inbox, ledgered, gone, listed, reading>>
    BY <1>2 DEF Inbox!Accept
  <2>2. PICK kind, i : kind = a[1] /\ i = a[2]
    OBVIOUS
  <2>3. mutating = {} /\ kind \in {"confirm", "delete", "empty"} /\ i \in Items
    BY <2>1, <2>2 DEF InboxInv, InboxTypes, InboxTurns
  <2>4. /\ asked' = {} /\ mutating' = {[kind |-> kind, item |-> i, done |-> FALSE]}
        /\ unsure' = IF reading # {} THEN unsure \cup Inbox!Touched(kind, i) ELSE unsure
        /\ UNCHANGED <<inbox, ledgered, gone, listed, reading>>
    BY <2>1, <2>2, <2>3
  <2>5. InboxTypes'
    BY <2>3, <2>4 DEF InboxInv, InboxTypes
  <2>6. InboxTurns'
    BY <2>4 DEF InboxTurns
  <2>7. reading # {} => \A m \in mutating', j \in Items \ unsure' : ~ Concerns(m, j)'
    BY <2>4 DEF Concerns
  <2>8. i \notin unsure => Fresh(i)
    BY <2>2, <2>3 DEF InboxInv, InboxFresh, SentFresh
  <2>9. InboxFresh'
    <3>1. \A j \in inbox' : Fresh(j)'
      BY <2>4 DEF InboxInv, InboxFresh, Fresh
    <3>2. ASSUME NEW j \in Items \ unsure' PROVE ListedFresh(j)' /\ j \in Items \ unsure
      BY <2>3, <2>4, <2>7, <3>2 DEF InboxInv, InboxFresh, ListedFresh, Fresh
    <3>3. ASSUME NEW j \in Items \ unsure' PROVE SentFresh(j)'
      BY <2>4, <2>8, <3>2 DEF SentFresh, Fresh
    <3> QED BY <2>4, <3>1, <3>2, <3>3 DEF InboxInv, InboxFresh
  <2> QED BY <2>5, <2>6, <2>9 DEF InboxInv
<1>3. ASSUME NEW kind \in {"confirm", "delete", "empty"}, NEW i \in Items, Inbox!Ask(kind, i)
      PROVE  InboxInv'
  BY <1>3, SMTT(30)
     DEF Inbox!Ask, Inbox!Idle, InboxInv, InboxTypes, InboxTurns, InboxFresh, ListedFresh,
         SentFresh, Fresh, Concerns
<1>4. ASSUME NEW m \in mutating, Inbox!ServerDoes(m) PROVE InboxInv'
  <2>1. mutating = {m} /\ asked = {} /\ ~ m.done
    BY <1>4 DEF Inbox!ServerDoes, InboxInv, InboxTurns
  <2>2. PICK kind, i : kind = m.kind /\ i = m.item
    OBVIOUS
  <2>3. kind \in {"confirm", "delete", "empty"} /\ i \in Items
        /\ mutating' = {[kind |-> kind, item |-> i, done |-> TRUE]}
    BY <1>4, <2>1, <2>2 DEF Inbox!ServerDoes, InboxInv, InboxTypes
  <2>4. UNCHANGED <<listed, reading, asked, unsure>>
    BY <1>4 DEF Inbox!ServerDoes
  <2>5. \A j \in Items : Concerns(m, j) <=> kind = "empty" \/ j = i
    BY <2>2 DEF Concerns, Inbox!Touched
  <2>6. \A n \in mutating' : \A j \in Items : Concerns(n, j)' <=> kind = "empty" \/ j = i
    BY <2>3 DEF Concerns, Inbox!Touched
  <2>7. CASE kind = "empty"
    <3>1. inbox' = {} /\ gone' = gone \cup inbox /\ ledgered' = ledgered
      BY <1>4, <2>2, <2>7 DEF Inbox!ServerDoes
    <3>2. InboxTypes' /\ InboxTurns'
      BY <2>1, <2>3, <2>4, <3>1 DEF InboxInv, InboxTypes, InboxTurns
    <3>3. InboxFresh'
      <4>1. \A j \in inbox' : Fresh(j)'
        BY <2>1, <3>1 DEF InboxInv, InboxTypes, InboxFresh, Fresh
      <4>2. ASSUME NEW j \in Items \ unsure' PROVE ListedFresh(j)' /\ SentFresh(j)'
        <5>1. ListedFresh(j) /\ SentFresh(j)
          BY <2>4 DEF InboxInv, InboxFresh
        <5>2. CASE Concerns(m, j)
          <6>1. reading = {} /\ \E n \in mutating' : n.done /\ Concerns(n, j)'
            BY <2>1, <2>3, <2>5, <2>6, <5>1, <5>2 DEF ListedFresh
          <6> QED BY <2>3, <2>4, <2>1, <6>1 DEF ListedFresh, SentFresh
        <5>3. CASE ~ Concerns(m, j)
          <6>1. kind # "empty" /\ j # i
            BY <2>5, <5>3
          <6>2. Fresh(j) => Fresh(j)'
            BY <2>7, <3>1, <6>1 DEF InboxInv, InboxTypes, Fresh
          <6>3. j \in listed => Fresh(j)
            BY <2>1, <5>1 DEF ListedFresh
          <6>4. \A n \in mutating' : ~ Concerns(n, j)'
            BY <2>6, <6>1
          <6>5. ListedFresh(j)'
            BY <2>4, <5>1, <6>2, <6>3, <6>4 DEF ListedFresh
          <6>6. SentFresh(j)'
            BY <2>1, <2>3, <2>4 DEF SentFresh
          <6> QED BY <6>5, <6>6
        <5> QED BY <5>2, <5>3
      <4>3. ASSUME NEW j \in Items \ unsure'
            PROVE  ledgered'[j] = 0 \/ (ledgered'[j] = 1 /\ j \notin gone')
        BY <2>1, <2>2, <2>3, <2>4, <2>7, <3>1
           DEF InboxInv, InboxTypes, InboxFresh, SentFresh, Fresh
      <4> QED BY <4>1, <4>2, <4>3 DEF InboxFresh
    <3> QED BY <3>2, <3>3 DEF InboxInv
  <2>8. CASE kind = "delete"
    <3>1. inbox' = inbox \ {i} /\ gone' = gone \cup (inbox \cap {i}) /\ ledgered' = ledgered
      BY <1>4, <2>2, <2>8 DEF Inbox!ServerDoes
    <3>2. InboxTypes' /\ InboxTurns'
      BY <2>1, <2>3, <2>4, <3>1 DEF InboxInv, InboxTypes, InboxTurns
    <3>3. InboxFresh'
      <4>1. \A j \in inbox' : Fresh(j)'
        BY <2>1, <3>1 DEF InboxInv, InboxTypes, InboxFresh, Fresh
      <4>2. ASSUME NEW j \in Items \ unsure' PROVE ListedFresh(j)' /\ SentFresh(j)'
        <5>1. ListedFresh(j) /\ SentFresh(j)
          BY <2>4 DEF InboxInv, InboxFresh
        <5>2. CASE Concerns(m, j)
          <6>1. reading = {} /\ \E n \in mutating' : n.done /\ Concerns(n, j)'
            BY <2>1, <2>3, <2>5, <2>6, <5>1, <5>2 DEF ListedFresh
          <6> QED BY <2>3, <2>4, <2>1, <6>1 DEF ListedFresh, SentFresh
        <5>3. CASE ~ Concerns(m, j)
          <6>1. kind # "empty" /\ j # i
            BY <2>5, <5>3
          <6>2. Fresh(j) => Fresh(j)'
            BY <2>8, <3>1, <6>1 DEF InboxInv, InboxTypes, Fresh
          <6>3. j \in listed => Fresh(j)
            BY <2>1, <5>1 DEF ListedFresh
          <6>4. \A n \in mutating' : ~ Concerns(n, j)'
            BY <2>6, <6>1
          <6>5. ListedFresh(j)'
            BY <2>4, <5>1, <6>2, <6>3, <6>4 DEF ListedFresh
          <6>6. SentFresh(j)'
            BY <2>1, <2>3, <2>4 DEF SentFresh
          <6> QED BY <6>5, <6>6
        <5> QED BY <5>2, <5>3
      <4>3. ASSUME NEW j \in Items \ unsure'
            PROVE  ledgered'[j] = 0 \/ (ledgered'[j] = 1 /\ j \notin gone')
        BY <2>1, <2>2, <2>3, <2>4, <2>8, <3>1
           DEF InboxInv, InboxTypes, InboxFresh, SentFresh, Fresh
      <4> QED BY <4>1, <4>2, <4>3 DEF InboxFresh
    <3> QED BY <3>2, <3>3 DEF InboxInv
  <2>9. CASE kind = "confirm"
    <3>1. /\ inbox' = inbox \ {i} /\ gone' = gone
          /\ ledgered' = [ledgered EXCEPT ![i] = ledgered[i] + 1]
      BY <1>4, <2>2, <2>9 DEF Inbox!ServerDoes
    <3>2. InboxTypes' /\ InboxTurns'
      BY <2>1, <2>3, <2>4, <3>1 DEF InboxInv, InboxTypes, InboxTurns
    <3>3. InboxFresh'
      <4>1. \A j \in inbox' : Fresh(j)'
        BY <2>1, <3>1 DEF InboxInv, InboxTypes, InboxFresh, Fresh
      <4>2. ASSUME NEW j \in Items \ unsure' PROVE ListedFresh(j)' /\ SentFresh(j)'
        <5>1. ListedFresh(j) /\ SentFresh(j)
          BY <2>4 DEF InboxInv, InboxFresh
        <5>2. CASE Concerns(m, j)
          <6>1. reading = {} /\ \E n \in mutating' : n.done /\ Concerns(n, j)'
            BY <2>1, <2>3, <2>5, <2>6, <5>1, <5>2 DEF ListedFresh
          <6> QED BY <2>3, <2>4, <2>1, <6>1 DEF ListedFresh, SentFresh
        <5>3. CASE ~ Concerns(m, j)
          <6>1. kind # "empty" /\ j # i
            BY <2>5, <5>3
          <6>2. Fresh(j) => Fresh(j)'
            BY <2>9, <3>1, <6>1 DEF InboxInv, InboxTypes, Fresh
          <6>3. j \in listed => Fresh(j)
            BY <2>1, <5>1 DEF ListedFresh
          <6>4. \A n \in mutating' : ~ Concerns(n, j)'
            BY <2>6, <6>1
          <6>5. ListedFresh(j)'
            BY <2>4, <5>1, <6>2, <6>3, <6>4 DEF ListedFresh
          <6>6. SentFresh(j)'
            BY <2>1, <2>3, <2>4 DEF SentFresh
          <6> QED BY <6>5, <6>6
        <5> QED BY <5>2, <5>3
      <4>3. ASSUME NEW j \in Items \ unsure'
            PROVE  ledgered'[j] = 0 \/ (ledgered'[j] = 1 /\ j \notin gone')
        <5>1. CASE j = i
          <6>1. Fresh(i)
            BY <2>1, <2>2, <2>4, <2>9, <5>1 DEF InboxInv, InboxFresh, SentFresh
          <6> QED BY <2>3, <3>1, <5>1, <6>1 DEF InboxInv, InboxTypes, Fresh
        <5>2. CASE j # i
          BY <2>4, <3>1, <5>2 DEF InboxInv, InboxTypes, InboxFresh
        <5> QED BY <5>1, <5>2
      <4> QED BY <4>1, <4>2, <4>3 DEF InboxFresh
    <3> QED BY <3>2, <3>3 DEF InboxInv
  <2> QED BY <2>3, <2>7, <2>8, <2>9
<1>5. ASSUME NEW m \in mutating, Inbox!Answered(m) PROVE InboxInv'
  BY <1>5, SMTT(30)
     DEF Inbox!Answered, Inbox!Touched, InboxInv, InboxTypes, InboxTurns, InboxFresh,
         ListedFresh, SentFresh, Fresh, Concerns
<1>6. ASSUME NEW m \in mutating, Inbox!Fails(m) PROVE InboxInv'
  BY <1>6, SMTT(30)
     DEF Inbox!Fails, Inbox!Touched, InboxInv, InboxTypes, InboxTurns, InboxFresh,
         ListedFresh, SentFresh, Fresh, Concerns
<1> QED BY <1>1, <1>2, <1>3, <1>4, <1>5, <1>6

LEMMA InboxAlways == Spec => []InboxInv
<1>1. Init => InboxInv
  <2>1. FirstIn \subseteq Items
    BY MenuAssumption
  <2> QED
    BY <2>1
       DEF Init, Inbox!Init, InboxInv, InboxTypes, InboxTurns, InboxFresh, ListedFresh,
           SentFresh, Fresh
<1>2. InboxInv /\ [Next]_allVars => InboxInv'
  <2> SUFFICES ASSUME InboxInv, [Next]_allVars PROVE InboxInv'
    OBVIOUS
  <2>1. Inbox!Next \/ UNCHANGED inboxVars
    BY DEF Next, Others, Same, allVars
  <2>2. CASE Inbox!Next
    BY <2>2, InboxReads, InboxChanges DEF Inbox!Next
  <2>3. CASE UNCHANGED inboxVars
    BY <2>3
       DEF inboxVars, InboxInv, InboxTypes, InboxTurns, InboxFresh, ListedFresh, SentFresh,
           Fresh, Concerns
  <2> QED BY <2>1, <2>2, <2>3
<1> QED BY <1>1, <1>2, PTL DEF Spec

\* However lists, dialogs, answers and losses of answers meet, no item of the inbox
\* is entered twice, nor entered after it was deleted, unless its state on screen
\* was out of date.
THEOREM InboxEntersOnce == Spec => []OneEntryPerItem
<1>1. InboxInv => OneEntryPerItem
  <2> SUFFICES ASSUME InboxInv, NEW i \in Items \ unsure
               PROVE  ledgered[i] + Cardinality(gone \cap {i}) <= 1
    BY DEF OneEntryPerItem, Inbox!OneEntryPerItem, Inbox!Cardinality, Cardinality
  <2>1. ledgered[i] \in {0, 1} /\ (ledgered[i] = 1 => i \notin gone)
    BY DEF InboxInv, InboxTypes, InboxFresh
  <2>2. gone \cap {i} = IF i \in gone THEN {i} ELSE {}
    OBVIOUS
  <2>3. Cardinality({i}) = 1 /\ Cardinality({}) = 0
    BY FS_Singleton, FS_EmptySet
  <2> QED BY <2>1, <2>2, <2>3
<1> QED BY <1>1, InboxAlways, PTL

-------------------------------------------------------------------------------
(* Hashtags *)

TagTypes ==
    /\ tagged \subseteq [e : Entry, t : Tag, s : Section \cup {NoSection}]
    /\ cur \in Section /\ inview \in Section
    /\ picked \subseteq Entry /\ batch \subseteq Entry
    /\ sending \subseteq [e : Entry, tags : SUBSET Tag, sec : Section]
    /\ \A a \in admin : a.sec \in Section
    /\ \A a, b \in admin : a = b

\* Where a row may come from.
RowFits(r) ==
    \/ r.s = Home[r.e]
    \/ r.s = NoSection /\ \E rows \in FirstRows : r \in rows
    \/ r.e \in crossed

OneRow == \A q, r \in tagged : q.e = r.e /\ q.t = r.t => q = r

\* An edit on its way is of the section of the moment, or known to have crossed.
SentFits == \A j \in sending : j.sec = cur \/ j.e \in crossed

TagInv == TagTypes /\ (\A r \in tagged : RowFits(r)) /\ OneRow /\ SentFits

\* What a rename that is not refused does, row by row: the rows of the old tag in the
\* section give way to rows of the new one, and no other changes.
LEMMA RenamedRows ==
    ASSUME NEW rows, NEW old, NEW new, NEW s, NEW after, old # new,
           after = Tags!rename_tag(rows, old, new, s), ~ Tags!RenameAborts(rows, old, new, s)
    PROVE  /\ \A r \in after :
                  \/ r \in rows /\ ~ (r.s = s /\ r.t = old)
                  \/ \E q \in rows : q.s = s /\ q.t = old /\ r = Tags!Row(q.e, new, s)
           /\ \A r \in rows : ~ (r.s = s /\ r.t = old) => r \in after
           /\ \A q \in rows : q.s = s /\ q.t = old => Tags!Row(q.e, new, s) \in after
           /\ \A q, r \in rows : q.s = s /\ q.t = old /\ r.e = q.e /\ r.t = new =>
                  Tags!Row(q.e, new, s) \in rows
<1>1. PICK olds, both :
        /\ olds = {r \in Tags!InSection(rows, s) : r.t = old}
        /\ both = Tags!Merged(rows, old, new, s)
  OBVIOUS
<1>2. after = (rows \ olds) \cup {Tags!Row(r.e, new, s) : r \in olds \ both}
      /\ ~ Tags!RenameAborts(rows, old, new, s)
  BY <1>1 DEF Tags!rename_tag
<1>3. \A r : r \in olds <=> r \in rows /\ r.s = s /\ r.t = old
  BY <1>1 DEF Tags!InSection
<1>4. \A r : r \in both <=> r \in olds /\ Tags!Row(r.e, new, s) \in rows
  BY <1>1, <1>3 DEF Tags!Merged, Tags!InSection
<1>5. \A e : Tags!Row(e, new, s) \notin olds
  BY <1>3 DEF Tags!Row
<1>6. \A q \in olds : Tags!Row(q.e, new, s) \in after
  BY <1>2, <1>4, <1>5
<1>7. \A q \in olds : new \in Tags!TagsOf(rows, q.e) => q \in both
  BY <1>1, <1>2, <1>3 DEF Tags!RenameAborts, Tags!InSection
<1>8. \A q \in olds, r \in rows : r.e = q.e /\ r.t = new => new \in Tags!TagsOf(rows, q.e)
  BY DEF Tags!TagsOf
<1> QED BY <1>2, <1>3, <1>4, <1>6, <1>7, <1>8

\* What the entries screen does with hashtags keeps their rows right,
LEMMA TagEntriesKeep ==
    ASSUME TagInv,
           \/ \E s \in Section : Tags!action_open_sections(s)
           \/ \E ok \in BOOLEAN : Tags!refresh_entries(ok) \/ Tags!UpdateEnds(ok)
           \/ \E e \in Entry, tags \in SUBSET Tag : Tags!_submit_update(e, tags)
           \/ \E e \in Entry : Tags!action_toggle_selection(e)
           \/ Tags!action_batch_tag \/ Tags!BatchCancelled
           \/ \E tag \in Tag : Tags!_batch_tag_worker(tag)
    PROVE  TagInv'
<1>0. Home \in [Entry -> Section] /\ NoSection \notin Section
  BY MenuAssumption
<1> USE DEF TagInv, TagTypes, RowFits, OneRow, SentFits
<1>1. ASSUME NEW s \in Section, Tags!action_open_sections(s) PROVE TagInv'
  BY <1>0, <1>1, SMTT(30) DEF Tags!action_open_sections
<1>2. ASSUME NEW ok \in BOOLEAN, Tags!refresh_entries(ok) PROVE TagInv'
  BY <1>0, <1>2, SMTT(30) DEF Tags!refresh_entries
<1>3. ASSUME NEW ok \in BOOLEAN, Tags!UpdateEnds(ok) PROVE TagInv'
  BY <1>0, <1>3, SMTT(30) DEF Tags!UpdateEnds, Tags!set_hashtags, Tags!Row
<1>4. ASSUME NEW e \in Entry, NEW tags \in SUBSET Tag, Tags!_submit_update(e, tags)
      PROVE  TagInv'
  BY <1>0, <1>4, SMTT(30) DEF Tags!_submit_update, Tags!Counted
<1>5. ASSUME NEW e \in Entry, Tags!action_toggle_selection(e) PROVE TagInv'
  BY <1>0, <1>5, SMTT(30) DEF Tags!action_toggle_selection
<1>6. ASSUME Tags!action_batch_tag PROVE TagInv'
  BY <1>0, <1>6, SMTT(30) DEF Tags!action_batch_tag, Tags!Counted
<1>7. ASSUME Tags!BatchCancelled PROVE TagInv'
  BY <1>0, <1>7, SMTT(30) DEF Tags!BatchCancelled
<1>8. ASSUME NEW tag \in Tag, Tags!_batch_tag_worker(tag) PROVE TagInv'
  BY <1>0, <1>8, SMTT(30)
     DEF Tags!_batch_tag_worker, Tags!add_tag_to_entries, Tags!TagsOf, Tags!Row
<1> QED BY <1>1, <1>2, <1>3, <1>4, <1>5, <1>6, <1>7, <1>8

\* and so does the tag screen.
LEMMA TagScreenKeeps ==
    ASSUME TagInv,
           \/ Tags!action_open_tag_management \/ Tags!action_back \/ Tags!AskCancelled
           \/ \E what \in {"rename", "merge", "delete", "color"}, tag \in Tag : Tags!Ask(what, tag)
           \/ \E old, new \in Tag : Tags!_apply_rename(old, new)
           \/ \E tag \in Tag : Tags!_delete_worker(tag)
           \/ \E tag \in Tag, c \in Color \cup {NoSection} : Tags!_color_worker(tag, c)
    PROVE  TagInv'
<1>0. Home \in [Entry -> Section] /\ NoSection \notin Section
  BY MenuAssumption
<1> USE DEF TagInv, TagTypes, RowFits, OneRow, SentFits
<1>1. ASSUME Tags!action_open_tag_management PROVE TagInv'
  BY <1>0, <1>1, SMTT(30) DEF Tags!action_open_tag_management, Tags!Listed
<1>2. ASSUME Tags!action_back PROVE TagInv'
  BY <1>0, <1>2, SMTT(30) DEF Tags!action_back
<1>3. ASSUME Tags!AskCancelled PROVE TagInv'
  BY <1>0, <1>3, SMTT(30) DEF Tags!AskCancelled
<1>4. ASSUME NEW what \in {"rename", "merge", "delete", "color"}, NEW tag \in Tag,
             Tags!Ask(what, tag)
      PROVE  TagInv'
  BY <1>0, <1>4, SMTT(30) DEF Tags!Ask, Tags!Counted
<1>5. ASSUME NEW old \in Tag, NEW new \in Tag, Tags!_apply_rename(old, new) PROVE TagInv'
  <2>1. PICK a \in admin :
          /\ new # old /\ tagged' = Tags!rename_tag(tagged, old, new, a.sec)
          /\ admin' = {[sec |-> a.sec, tags |-> Tags!list_hashtags(tagged', a.sec), ask |-> {}]}
          /\ UNCHANGED <<noted, cur, inview, reloading, picked, batch, sending, crossed, writes>>
    BY <1>5 DEF Tags!_apply_rename, Tags!Applied, Tags!Listed
  <2>2. PICK s \in Section : s = a.sec
    OBVIOUS
  <2>5. tagged' # tagged => ~ Tags!RenameAborts(tagged, old, new, s)
    BY <2>1, <2>2 DEF Tags!rename_tag
  <2>3. \A r \in tagged' : r \in [e : Entry, t : Tag, s : Section \cup {NoSection}] /\ RowFits(r)
    <3>1. CASE tagged' = tagged
      BY <3>1
    <3>2. CASE tagged' # tagged
      <4>1. TAKE r \in tagged'
      <4>2. CASE r \in tagged
        BY <4>2
      <4>3. ASSUME NEW q \in tagged, q.s = s, r = Tags!Row(q.e, new, s)
            PROVE  r \in [e : Entry, t : Tag, s : Section \cup {NoSection}] /\ RowFits(r)
        BY <1>0, <4>3 DEF Tags!Row
      <4> QED BY <2>1, <2>2, <2>5, <3>2, <4>2, <4>3, RenamedRows
    <3> QED BY <3>1, <3>2
  <2>4. OneRow'
    <3>1. CASE tagged' = tagged
      BY <3>1
    <3>2. CASE tagged' # tagged
      <4>1. \A r \in tagged' :
               \/ r \in tagged /\ ~ (r.s = s /\ r.t = old)
               \/ \E q \in tagged : q.s = s /\ q.t = old /\ r = Tags!Row(q.e, new, s)
        BY <2>1, <2>2, <2>5, <3>2, RenamedRows
      <4>2. \A q, r \in tagged : q.s = s /\ q.t = old /\ r.e = q.e /\ r.t = new =>
               r = Tags!Row(q.e, new, s)
        <5>1. \A q, r \in tagged : q.s = s /\ q.t = old /\ r.e = q.e /\ r.t = new =>
                 Tags!Row(q.e, new, s) \in tagged
          BY <2>1, <2>2, <2>5, <3>2, RenamedRows
        <5> QED BY <5>1 DEF Tags!Row
      <4> QED BY <4>1, <4>2 DEF Tags!Row
    <3> QED BY <3>1, <3>2
  <2> QED BY <2>1, <2>2, <2>3, <2>4
<1>6. ASSUME NEW tag \in Tag, Tags!_delete_worker(tag) PROVE TagInv'
  BY <1>0, <1>6, SMTT(30)
     DEF Tags!_delete_worker, Tags!Applied, Tags!Listed, Tags!delete_tag
<1>7. ASSUME NEW tag \in Tag, NEW c \in Color \cup {NoSection}, Tags!_color_worker(tag, c)
      PROVE  TagInv'
  BY <1>0, <1>7, SMTT(30) DEF Tags!_color_worker, Tags!Applied, Tags!Listed
<1> QED BY <1>1, <1>2, <1>3, <1>4, <1>5, <1>6, <1>7

LEMMA TagAlways == Spec => []TagInv
<1>1. Init => TagInv
  <2>1. Home \in [Entry -> Section]
    BY MenuAssumption
  <2> QED
    BY <2>1, TagAssumption
       DEF Init, Tags!Init, TagInv, TagTypes, RowFits, OneRow, SentFits
<1>2. TagInv /\ [Next]_allVars => TagInv'
  <2> SUFFICES ASSUME TagInv, [Next]_allVars PROVE TagInv'
    OBVIOUS
  <2>1. Tags!Next \/ UNCHANGED tagVars
    BY DEF Next, Others, Same, allVars
  <2>2. CASE Tags!Next
    BY <2>2, TagEntriesKeep, TagScreenKeeps DEF Tags!Next
  <2>3. CASE UNCHANGED tagVars
    BY <2>3 DEF tagVars, TagInv, TagTypes, RowFits, OneRow, SentFits
  <2> QED BY <2>1, <2>2, <2>3
<1> QED BY <1>1, <1>2, PTL DEF Spec

\* Whatever is renamed, merged, deleted or tagged in any order of screens, reloads
\* and section switches, a row of a hashtag names the section of its entry, unless it
\* is older than sections or its entry was written across a switch.
THEOREM TagsKnowSection == Spec => []SectionKnown
<1>1. TagInv => SectionKnown
  BY DEF TagInv, RowFits, OneRow, SectionKnown, Tags!SectionKnown
<1> QED BY <1>1, TagAlways, PTL

\* A tag that is renamed or merged in one section is replaced on every entry that has it
\* there, and no other entry changes; it is refused as a whole exactly when an entry has
\* the new tag under another section.
THEOREM TagsRenamedExactly == Spec => RenameIsExact
<1> DEFINE Has(e, t, s) == Tags!Row(e, t, s) \in tagged
           Clash(old, new, s) ==
               \E e \in Entry : /\ Has(e, old, s) /\ ~ Has(e, new, s)
                                /\ new \in Tags!TagsOf(tagged, e)
           Kept(old, new, s) ==
               \A e \in Entry :
                   Tags!TagsOf(tagged', e) = IF Has(e, old, s)
                                             THEN Tags!Renamed(Tags!TagsOf(tagged, e), old, new)
                                             ELSE Tags!TagsOf(tagged, e)
<1>1. ASSUME TagInv, NEW old \in Tag, NEW new \in Tag, Tags!_apply_rename(old, new),
             NEW a \in admin
      PROVE  IF Clash(old, new, a.sec) THEN tagged' = tagged ELSE Kept(old, new, a.sec)
  <2>1. PICK s : s = a.sec
    OBVIOUS
  <2>2. tagged' = Tags!rename_tag(tagged, old, new, s) /\ old # new
    BY <1>1, <2>1 DEF TagInv, TagTypes, Tags!_apply_rename, Tags!Applied
  <2>3. \A r \in tagged : /\ r.e \in Entry
                          /\ r.s = s => r = Tags!Row(r.e, r.t, s)
    BY <1>1 DEF TagInv, TagTypes, Tags!Row
  <2>4. Clash(old, new, s) <=> Tags!RenameAborts(tagged, old, new, s)
    <3>1. ASSUME NEW e \in Entry, Has(e, old, s), ~ Has(e, new, s), new \in Tags!TagsOf(tagged, e)
          PROVE  Tags!RenameAborts(tagged, old, new, s)
      BY <3>1 DEF Tags!RenameAborts, Tags!Merged, Tags!InSection, Tags!Row
    <3>2. ASSUME NEW r \in Tags!InSection(tagged, s) \ Tags!Merged(tagged, old, new, s),
                 r.t = old, new \in Tags!TagsOf(tagged, r.e)
          PROVE  Clash(old, new, s)
      <4>1. r \in tagged /\ r.s = s /\ r.e \in Entry /\ r = Tags!Row(r.e, old, s)
        BY <2>3, <3>2 DEF Tags!InSection
      <4>2. ~ Has(r.e, new, s)
        BY <3>2, <4>1 DEF Tags!Merged
      <4> QED BY <3>2, <4>1, <4>2
    <3> QED BY <3>1, <3>2 DEF Tags!RenameAborts
  <2>5. CASE Clash(old, new, s)
    BY <2>1, <2>2, <2>4, <2>5 DEF Tags!rename_tag
  <2>6. CASE ~ Clash(old, new, s)
    <3>1. /\ \A r \in tagged' :
                 \/ r \in tagged /\ ~ (r.s = s /\ r.t = old)
                 \/ \E q \in tagged : q.s = s /\ q.t = old /\ r = Tags!Row(q.e, new, s)
          /\ \A r \in tagged : ~ (r.s = s /\ r.t = old) => r \in tagged'
          /\ \A q \in tagged : q.s = s /\ q.t = old => Tags!Row(q.e, new, s) \in tagged'
      BY <2>2, <2>4, <2>6, RenamedRows
    <3>2. ASSUME NEW e \in Entry, Has(e, old, s)
          PROVE  Tags!TagsOf(tagged', e) = Tags!Renamed(Tags!TagsOf(tagged, e), old, new)
      <4>1. \A r \in tagged : r.e = e /\ r.t = old => r.s = s
        BY <1>1, <3>2 DEF TagInv, OneRow, Tags!Row
      <4>2. ASSUME NEW r \in tagged', r.e = e
            PROVE  \E t \in Tags!TagsOf(tagged, e) : r.t = IF t = old THEN new ELSE t
        <5>1. CASE r \in tagged /\ ~ (r.s = s /\ r.t = old)
          BY <4>1, <4>2, <5>1 DEF Tags!TagsOf
        <5>2. CASE \E q \in tagged : q.s = s /\ q.t = old /\ r = Tags!Row(q.e, new, s)
          BY <4>2, <5>2 DEF Tags!TagsOf, Tags!Row
        <5> QED BY <3>1, <5>1, <5>2
      <4>3. ASSUME NEW r \in tagged, r.e = e
            PROVE  \E q \in tagged' : q.e = e /\ q.t = IF r.t = old THEN new ELSE r.t
        BY <2>2, <3>1, <4>1, <4>3 DEF Tags!Row
      <4> QED BY <4>2, <4>3 DEF Tags!TagsOf, Tags!Renamed
    <3>3. ASSUME NEW e \in Entry, ~ Has(e, old, s)
          PROVE  Tags!TagsOf(tagged', e) = Tags!TagsOf(tagged, e)
      <4>1. \A r \in tagged : r.e = e => ~ (r.s = s /\ r.t = old)
        BY <2>3, <3>3
      <4>2. \A r \in tagged' : r.e = e => r \in tagged
        BY <3>1, <4>1 DEF Tags!Row
      <4>3. \A r \in tagged : r.e = e => r \in tagged'
        BY <3>1, <4>1
      <4> QED BY <4>2, <4>3 DEF Tags!TagsOf
    <3> HIDE DEF Has, Clash
    <3>4. Kept(old, new, s)
      BY <3>2, <3>3
    <3> QED BY <2>1, <2>6, <3>4
  <2> QED BY <2>5, <2>6
<1>2. TagInv =>
        [\A old, new \in Tag : Tags!_apply_rename(old, new) =>
           \A a \in admin :
               IF Clash(old, new, a.sec) THEN tagged' = tagged ELSE Kept(old, new, a.sec)
        ]_tagVars
  BY <1>1
<1> QED
  BY <1>2, TagAlways, PTL DEF RenameIsExact, Tags!RenameIsExact, tagVars, Tags!tagVars

-------------------------------------------------------------------------------
(* The panes of reports *)

\* A screen is a record of these fields, with messages of lines of its menu.
PaneFields == {"kind", "open", "highlighted", "current", "messages", "timer", "request",
               "title", "content", "refused", "asked", "acts"}

IsPane(p) ==
    /\ DOMAIN p = PaneFields
    /\ DOMAIN p.content = {"is", "of", "no", "rows"}
    /\ p.kind \in Panes!Kind /\ p.asked \in Nat
    /\ p.messages \in Seq({"highlighted", "selected"} \X Panes!Ids(p.kind))

\* The screen and its request are about lines of the menu.
OfMenu(p) ==
    /\ p.open => p.current \in Panes!Ids(p.kind) /\ p.highlighted \in Panes!Ids(p.kind)
    /\ p.request # NoRequest => p.request.id \in Panes!Ids(p.kind)

\* The last message is of the line that is highlighted, and when there is none the
\* screen is on that line.
LastHeard(p) ==
    /\ p.messages = << >> => p.highlighted = p.current
    /\ p.messages # << >> => p.messages[Len(p.messages)][2] = p.highlighted

\* Unless a timer is still to ask for it, the line of the moment has the title, and it
\* is asked for or shown.
Follows(p) ==
    ~ p.timer =>
        /\ p.title.of = p.current
        /\ p.request # NoRequest => p.request.id = p.current
        /\ p.request = NoRequest /\ ~ p.refused =>
               p.content.of = p.current /\ p.content.no = p.asked

\* A title that says done stands over its own text, and a text is what it seems.
Titles(p) ==
    /\ p.title.says \in {"done", "error"} /\ ~ p.refused => p.content.of = p.title.of
    /\ p.content.rows => p.content.is \in {"table", "again"}

PaneOk(p) ==
    /\ IsPane(p) /\ OfMenu(p) /\ Titles(p)
    /\ p.open => LastHeard(p) /\ Follows(p)
    /\ ~ p.open => p.messages = << >> /\ ~ p.timer /\ p.request = NoRequest

\* A closed screen is in order.
LEMMA ClosedOk ==
    ASSUME NEW kind \in Panes!Kind, NEW acts
    PROVE  PaneOk(Panes!Closed(kind, acts))
<1>1. << >> \in Seq({"highlighted", "selected"} \X Panes!Ids(kind))
  OBVIOUS
<1> QED BY <1>1 DEF Panes!Closed, PaneOk, IsPane, PaneFields, OfMenu, Titles

\* The menu has a first line.
LEMMA FirstIs ==
    ASSUME NEW kind \in Panes!Kind
    PROVE  Panes!First(kind) \in Panes!Ids(kind)
<1>1. Panes!Lines(kind) # {}
  <2>1. CASE kind = "reports"
    BY <2>1, PanesAssumption DEF Panes!Ids
  <2>2. CASE kind = "flow"
    <3>1. 1 \in DOMAIN Panes!_ANALYSES
      BY DEF Panes!_ANALYSES
    <3> QED BY <2>2, <3>1 DEF Panes!Lines, Panes!Menu
  <2> QED BY <2>1, <2>2 DEF Panes!Kind
<1>2. Panes!Lines(kind) \subseteq Nat
  <2>1. DOMAIN Panes!Menu(kind) \subseteq Nat
    BY DEF Panes!Menu, Panes!_build_menu, Panes!_ANALYSES
  <2> QED BY <2>1 DEF Panes!Lines
<1> DEFINE n == CHOOSE n \in Panes!Lines(kind) : \A m \in Panes!Lines(kind) : n <= m
<1>3. \E x \in Panes!Lines(kind) : \A m \in Panes!Lines(kind) : x <= m
  <2>1. DOMAIN Panes!Menu(kind) \subseteq 1 .. 13
    BY DEF Panes!Menu, Panes!_build_menu, Panes!_ANALYSES
  <2>2. Panes!Lines(kind) \subseteq 1 .. 13
    BY <2>1 DEF Panes!Lines
  <2> QED BY <1>1, <2>2, SMTT(30)
<1>4. n \in Panes!Lines(kind)
  BY <1>3
<1> QED BY <1>4 DEF Panes!First, Panes!Ids

\* Opened, the screen asks for the first line.
LEMMA MountOk ==
    ASSUME PaneOk(pane), Panes!on_mount
    PROVE  PaneOk(pane)'
<1> PICK id : id = Panes!First(pane.kind)
  OBVIOUS
<1>1. id \in Panes!Ids(pane.kind) /\ pane.kind \in Panes!Kind
  BY FirstIs DEF PaneOk, IsPane, PaneFields
<1> PICK s : s = Seq({"highlighted", "selected"} \X Panes!Ids(pane.kind))
  OBVIOUS
<1>2. <<<<"highlighted", id>>>> \in s
  BY <1>1
<1> PICK r : r = [id |-> id, asks |-> Panes!Asks(pane.kind, id)]
  OBVIOUS
<1>3. r # NoRequest /\ r.id = id
  BY <1>1, PanesAssumption
<1> PICK p : p = [Panes!Closed(pane.kind, pane.acts) EXCEPT
                    !.open = TRUE, !.highlighted = id, !.messages = <<<<"highlighted", id>>>>,
                    !.current = id]
  OBVIOUS
<1>4. /\ DOMAIN p = PaneFields
      /\ DOMAIN p.content = {"is", "of", "no", "rows"}
      /\ p.kind = pane.kind /\ p.asked = 0 /\ p.messages = <<<<"highlighted", id>>>>
      /\ p.content.rows = FALSE /\ p.refused = FALSE /\ p.highlighted = id /\ p.current = id
      /\ p.timer = FALSE /\ p.open = TRUE
  BY DEF Panes!Closed, PaneFields
<1>5. \E says \in {"loading", "asks"} :
         pane' = Panes!_fetch_worker(Panes!Titled(p, says, id), id)
  BY DEF Panes!on_mount, Panes!_fetch_for, Panes!_fetch, Panes!Titled,
         Panes!_fetch_worker, Panes!Closed
<1>6. Len(<<<<"highlighted", id>>>>) = 1
  OBVIOUS
<1> QED
  BY <1>1, <1>2, <1>3, <1>4, <1>5, <1>6 DEF PaneOk, IsPane, PaneFields, OfMenu, Titles,
         LastHeard, Follows, Panes!_fetch_worker, Panes!Titled

\* Closing it ends what it had under way.
LEMMA CloseOk ==
    ASSUME PaneOk(pane), Panes!action_close
    PROVE  PaneOk(pane)'
  BY ClosedOk DEF Panes!action_close, PaneOk, IsPane, PaneFields

\* The message of a move is the last of the queue.
LEMMA MoveOk ==
    ASSUME PaneOk(pane), Panes!Move
    PROVE  PaneOk(pane)'
<1> PICK id \in Panes!Ids(pane.kind) \ {pane.highlighted} : 
          pane' = [pane EXCEPT !.highlighted = id, !.acts = @ + 1,
                               !.messages = Append(@, <<"highlighted", id>>)]
  BY DEF Panes!Move
<1> PICK s : s = {"highlighted", "selected"} \X Panes!Ids(pane.kind)
  OBVIOUS
<1>1. /\ pane.messages \in Seq(s) /\ pane'.kind = pane.kind
      /\ pane'.messages = Append(pane.messages, <<"highlighted", id>>)
  BY DEF PaneOk, IsPane, PaneFields
<1>2. /\ pane'.messages \in Seq(s) /\ pane'.messages # << >>
      /\ pane'.messages[Len(pane'.messages)][2] = id
  BY <1>1
<1> QED BY <1>1, <1>2 DEF Panes!Move, Panes!Act, PaneOk, IsPane, PaneFields, OfMenu,
       Titles, LastHeard, Follows

\* A refresh asks again for the line of the moment.
LEMMA RefreshOk ==
    ASSUME PaneOk(pane), Panes!action_refresh
    PROVE  PaneOk(pane)'
<1> PICK r : r = [id |-> pane.current, asks |-> Panes!Asks(pane.kind, pane.current)]
  OBVIOUS
<1>1. r # NoRequest /\ r.id = pane.current
  BY PanesAssumption DEF Panes!action_refresh, Panes!Act, PaneOk, OfMenu, IsPane, PaneFields
<1> QED
  BY <1>1 DEF Panes!action_refresh, Panes!Act, PaneOk, IsPane, PaneFields, OfMenu,
         Titles, LastHeard, Follows, Panes!_fetch, Panes!_fetch_worker, Panes!Titled

\* Enter sends the line that is highlighted again.
LEMMA SelectOk ==
    ASSUME PaneOk(pane), Panes!Select
    PROVE  PaneOk(pane)'
<1> PICK S : S = {"highlighted", "selected"} \X Panes!Ids(pane.kind)
  OBVIOUS
<1>1. /\ pane.messages \in Seq(S) /\ <<"selected", pane.highlighted>> \in S
      /\ pane' = [pane EXCEPT !.messages = Append(@, <<"selected", pane.highlighted>>),
                              !.acts = @ + 1]
  BY DEF Panes!Select, Panes!Act, PaneOk, IsPane, PaneFields, OfMenu
<1>2. /\ pane'.messages = Append(pane.messages, <<"selected", pane.highlighted>>)
      /\ pane'.kind = pane.kind
  BY <1>1 DEF PaneOk, IsPane, PaneFields
<1>3. /\ pane'.messages \in Seq(S) /\ pane'.messages # << >>
      /\ pane'.messages[Len(pane'.messages)][2] = pane.highlighted
  BY <1>1, <1>2
<1> QED
  BY <1>1, <1>2, <1>3 DEF Panes!Select, Panes!Act, PaneOk, IsPane, PaneFields, OfMenu,
         Titles, LastHeard, Follows

\* The screen q has heard the first message of the screen p.
Dequeued(p, q) ==
    /\ IsPane(q) /\ p.messages[1][2] \in Panes!Ids(p.kind) /\ p.open
    /\ q.messages = << >> => p.messages[1][2] = p.highlighted
    /\ q.messages # << >> => q.messages[Len(q.messages)][2] = p.highlighted
    /\ q.kind = p.kind /\ q.open = p.open /\ q.highlighted = p.highlighted
    /\ q.current = p.current /\ q.timer = p.timer /\ q.request = p.request
    /\ q.title = p.title /\ q.content = p.content /\ q.refused = p.refused
    /\ q.asked = p.asked

\* When the last message is heard, the screen is on the line that is highlighted.
LEMMA Heads ==
    ASSUME PaneOk(pane), pane.messages # << >>, NEW q, q = Panes!Rest
    PROVE  Dequeued(pane, q)
<1> PICK S : S = {"highlighted", "selected"} \X Panes!Ids(pane.kind)
  OBVIOUS
<1> PICK m : m = pane.messages
  OBVIOUS
<1>1. m \in Seq(S) /\ m # << >>
  BY DEF PaneOk, IsPane, PaneFields
<1>2. Tail(m) \in Seq(S) /\ Len(m) > 0 /\ Len(Tail(m)) = Len(m) - 1
  BY <1>1
<1>3. m[1] \in S
  BY <1>1, <1>2
<1>4. Tail(m) = << >> => Len(m) = 1
  <2> SUFFICES ASSUME Tail(m) = << >> PROVE Len(m) = 1
    OBVIOUS
  <2>1. Len(Tail(m)) = 0
    OBVIOUS
  <2> QED BY <1>1, <1>2, <2>1
<1>5. Tail(m) # << >> => Tail(m)[Len(Tail(m))] = m[Len(m)]
  BY <1>1, <1>2
<1>6. /\ q.messages = Tail(m) /\ DOMAIN q = DOMAIN pane
      /\ q.kind = pane.kind /\ q.open = pane.open /\ q.highlighted = pane.highlighted
      /\ q.current = pane.current /\ q.timer = pane.timer /\ q.request = pane.request
      /\ q.title = pane.title /\ q.content = pane.content /\ q.refused = pane.refused
      /\ q.asked = pane.asked
  BY DEF Panes!Rest, PaneOk, IsPane, PaneFields
<1>7. IsPane(q)
  BY <1>2, <1>6 DEF Dequeued, PaneOk, IsPane, PaneFields
<1>8. m[1][2] \in Panes!Ids(pane.kind)
  BY <1>3
<1>9. pane.open /\ m[Len(m)][2] = pane.highlighted
  BY <1>1 DEF PaneOk, LastHeard
<1> QED BY <1>4, <1>5, <1>6, <1>7, <1>8, <1>9 DEF Dequeued

\* A request is not the constant that says there is none.
LEMMA RequestIs ==
    ASSUME NEW kind \in Panes!Kind, NEW id \in Panes!Ids(kind)
    PROVE  LET r == [id |-> id, asks |-> Panes!Asks(kind, id)] IN r # NoRequest /\ r.id = id
  BY PanesAssumption

\* The reports screen moves to the line it heard of, and asks for it at once;
LEMMA AskedFor ==
    ASSUME PaneOk(pane), NEW q, Dequeued(pane, q), NEW force \in BOOLEAN,
           pane' = Panes!_fetch_for(q, pane.messages[1][2], force)
    PROVE  PaneOk(pane)'
<1> PICK id : id = pane.messages[1][2]
  OBVIOUS
<1>1. IsPane(q) /\ id \in Panes!Ids(q.kind) /\ q.highlighted \in Panes!Ids(q.kind) /\ q.open
  BY DEF Dequeued, PaneOk, OfMenu
<1>2. /\ q.messages = << >> => q.highlighted = id
      /\ q.messages # << >> => q.messages[Len(q.messages)][2] = q.highlighted
      /\ q.content.rows => q.content.is \in {"table", "again"}
  BY DEF Dequeued, PaneOk, Titles
<1> PICK r : r = [id |-> id, asks |-> Panes!Asks(q.kind, id)]
  OBVIOUS
<1>3. r # NoRequest /\ r.id = id
  BY <1>1, RequestIs DEF IsPane, PaneFields
<1> PICK t : t = Panes!Titled([q EXCEPT !.current = id], "loading", id)
  OBVIOUS
<1>4. /\ IsPane(t) /\ t.current = id /\ t.title.of = id /\ t.title.says = "loading"
      /\ t.kind = q.kind /\ t.highlighted = q.highlighted /\ t.messages = q.messages
      /\ t.content = q.content /\ t.open
  BY <1>1 DEF IsPane, PaneFields, Panes!Titled
<1> PICK u : u = IF force THEN [t EXCEPT !.content.is = "again"] ELSE t
  OBVIOUS
<1>5. /\ IsPane(u) /\ u.current = id /\ u.title.of = id /\ u.title.says = "loading"
      /\ u.kind = q.kind /\ u.highlighted = q.highlighted /\ u.messages = q.messages
      /\ u.content.rows => u.content.is \in {"table", "again"}
      /\ u.open
  BY <1>2, <1>4 DEF IsPane, PaneFields
<1>6. pane' = [u EXCEPT !.request = r, !.asked = @ + 1]
  BY <1>5 DEF Panes!_fetch_for, Panes!_fetch_worker
<1> PICK z : z = [u EXCEPT !.request = r, !.asked = @ + 1]
  OBVIOUS
<1>7. /\ IsPane(z) /\ z.current = id /\ z.title = u.title /\ z.request = r /\ z.open
      /\ z.kind = q.kind /\ z.highlighted = q.highlighted /\ z.messages = q.messages
      /\ z.content = u.content
  <2>1. /\ DOMAIN z = DOMAIN u /\ z.current = u.current /\ z.title = u.title /\ z.request = r
        /\ z.open = u.open /\ z.kind = u.kind /\ z.highlighted = u.highlighted
        /\ z.messages = u.messages /\ z.content = u.content /\ z.asked = u.asked + 1
    BY <1>5 DEF IsPane, PaneFields
  <2>2. IsPane(z)
    BY <1>5, <2>1 DEF IsPane, PaneFields
  <2> QED BY <1>5, <2>1, <2>2
<1>8. OfMenu(z) /\ Titles(z) /\ LastHeard(z) /\ Follows(z)
  BY <1>1, <1>2, <1>3, <1>5, <1>7 DEF OfMenu, Titles, LastHeard, Follows
<1> QED BY <1>6, <1>7, <1>8 DEF PaneOk

\* the message of the line it is on already changes nothing.
LEMMA PassedOver ==
    ASSUME PaneOk(pane), NEW q, Dequeued(pane, q), pane.messages[1][2] = pane.current
    PROVE  PaneOk(q)
<1>1. IsPane(q) /\ OfMenu(q)
  BY DEF Dequeued, PaneOk, OfMenu
<1>2. Titles(q)
  BY DEF Dequeued, PaneOk, Titles
<1>3. LastHeard(q)
  BY DEF Dequeued, LastHeard
<1>4. Follows(q)
  BY DEF Dequeued, PaneOk, Follows
<1> QED BY <1>1, <1>2, <1>3, <1>4 DEF Dequeued, PaneOk

\* The two messages of the reports screen
LEMMA HighlightedOk ==
    ASSUME PaneOk(pane), Panes!on_option_list_option_highlighted
    PROVE  PaneOk(pane)'
<1> PICK id : id = pane.messages[1][2]
  OBVIOUS
<1> PICK q : q = Panes!Rest
  OBVIOUS
<1>1. pane' = IF id = pane.current THEN q ELSE Panes!_fetch_for(q, id, FALSE)
  BY DEF Panes!on_option_list_option_highlighted
<1>2. Dequeued(pane, q) 
  BY Heads DEF Panes!on_option_list_option_highlighted, Panes!Heard
<1>3. CASE id = pane.current
  BY <1>1, <1>2, <1>3, PassedOver
<1>4. CASE id # pane.current
  BY <1>1, <1>2, <1>4, AskedFor
<1> QED BY <1>3, <1>4

\* are heard so.
LEMMA SelectedOk ==
    ASSUME PaneOk(pane), Panes!on_option_list_option_selected
    PROVE  PaneOk(pane)'
<1> PICK q : q = Panes!Rest
  OBVIOUS
<1>1. Dequeued(pane, q)
  BY Heads DEF Panes!on_option_list_option_selected, Panes!Heard
<1>2. pane' = Panes!_fetch_for(q, pane.messages[1][2], TRUE)
  BY DEF Panes!on_option_list_option_selected
<1> QED BY <1>1, <1>2, AskedFor

\* The flow screen moves to the line, and leaves the request to the timer.
LEMMA FlowHighlightedOk ==
    ASSUME PaneOk(pane), Panes!FlowHighlighted
    PROVE  PaneOk(pane)'
<1> PICK id : id = pane.messages[1][2]
  OBVIOUS
<1> PICK q : q = Panes!Rest
  OBVIOUS
<1>1. pane.messages # << >> /\ pane.kind = "flow"
  BY DEF Panes!FlowHighlighted, Panes!Heard
<1>2. Dequeued(pane, q)
  BY <1>1, Heads
<1>3. pane' = IF id = pane.current THEN q
              ELSE Panes!Titled([q EXCEPT !.current = id, !.timer = TRUE], "waits", id)
  BY DEF Panes!FlowHighlighted
<1>4. CASE id = pane.current
  BY <1>2, <1>3, <1>4, PassedOver
<1>5. CASE id # pane.current
  BY <1>1, <1>2, <1>3, <1>5 DEF Dequeued, PaneOk, IsPane, PaneFields, OfMenu, Titles,
         LastHeard, Follows, Panes!Titled
<1> QED BY <1>4, <1>5

\* The timer asks for the line of the moment.
LEMMA TimerOk ==
    ASSUME PaneOk(pane), Panes!FetchTimer
    PROVE  PaneOk(pane)'
<1> PICK r : r = [id |-> pane.current, asks |-> Panes!Asks(pane.kind, pane.current)]
  OBVIOUS
<1>1. r # NoRequest /\ r.id = pane.current
  BY RequestIs DEF Panes!FetchTimer, PaneOk, OfMenu, IsPane, PaneFields
<1> QED
  BY <1>1 DEF Panes!FetchTimer, PaneOk, IsPane, PaneFields, OfMenu, Titles, LastHeard,
         Follows, Panes!_fetch, Panes!_fetch_worker, Panes!Titled

\* A report with rows is drawn as a table, whatever line it is of.
LEMMA RowsAreTable ==
    ASSUME NEW kind \in Panes!Kind, NEW id \in Panes!Ids(kind)
    PROVE  Panes!Text(kind, id, "rows") = "table"
<1>1. CASE kind = "flow"
  BY <1>1 DEF Panes!Text, Panes!_render_flow
<1>2. CASE kind = "reports"
  <2>1. id \in {"balance_sheet", "pl_summary", "monthly_trend", "in_out", "calendar", "bill",
                "checkcard", "entries_latest", "custom_bs", "custom_pl", "budget_expenses",
                "budget_income", "budget_goal"}
    <3>1. PICK n \in DOMAIN Panes!_build_menu : id = Panes!_build_menu[n].id
      BY <1>2 DEF Panes!Ids, Panes!Lines, Panes!Menu
    <3>2. DOMAIN Panes!_build_menu = 1 .. 13
      BY DEF Panes!_build_menu
    <3>3. \/ n = 1 \/ n = 2 \/ n = 3 \/ n = 4 \/ n = 5 \/ n = 6 \/ n = 7 \/ n = 8
          \/ n = 9 \/ n = 10 \/ n = 11 \/ n = 12 \/ n = 13
      BY <3>1, <3>2
    <3>4. /\ Panes!_build_menu[1].id = "balance_sheet" /\ Panes!_build_menu[2].id = "pl_summary"
          /\ Panes!_build_menu[3].id = "monthly_trend" /\ Panes!_build_menu[4].id = "in_out"
          /\ Panes!_build_menu[5].id = "calendar" /\ Panes!_build_menu[6].id = "bill"
          /\ Panes!_build_menu[7].id = "checkcard" /\ Panes!_build_menu[8].id = "entries_latest"
          /\ Panes!_build_menu[9].id = "custom_bs" /\ Panes!_build_menu[10].id = "custom_pl"
          /\ Panes!_build_menu[11].id = "budget_expenses"
          /\ Panes!_build_menu[12].id = "budget_income"
          /\ Panes!_build_menu[13].id = "budget_goal"
      BY DEF Panes!_build_menu
    <3> QED BY <3>1, <3>3, <3>4
  <2> QED
    BY <1>2, <2>1
       DEF Panes!Text, Panes!format_report_payload, Panes!_RENDERERS, Panes!_render_totals,
           Panes!_render_calendar, Panes!_render_card, Panes!_render_entries_latest,
           Panes!_render_report_customs, Panes!_render_budget, Panes!_render_budget_goal
<1> QED BY <1>1, <1>2 DEF Panes!Kind

\* The end of a request writes the text of the line of the moment, or of one that a
\* timer is about to replace.
LEMMA WrittenOk ==
    ASSUME PaneOk(pane), pane.request # NoRequest, NEW is, NEW a, NEW says,
           pane.request.id = pane.current \/ pane.timer,
           a = "rows" => is = "table",
           pane' = Panes!Written(Panes!Over, says, pane.request.id, is, a)
    PROVE  PaneOk(pane)'
  BY DEF Panes!Written, Panes!Over, Panes!Titled, PaneOk, IsPane, PaneFields, OfMenu,
         Titles, LastHeard, Follows

\* A text that cannot be drawn is marked so.
LEMMA RefusedOk ==
    ASSUME PaneOk(pane), pane.request # NoRequest, NEW says,
           pane' = [Panes!Titled(Panes!Over, says, pane.request.id) EXCEPT !.refused = TRUE]
    PROVE  PaneOk(pane)'
  BY DEF Panes!Over, Panes!Titled, PaneOk, IsPane, PaneFields, OfMenu, Titles, LastHeard,
         Follows

\* A failure is shown, or ends the screen.
LEMMA FailsOk ==
    ASSUME PaneOk(pane), Panes!Fails
    PROVE  PaneOk(pane)'
<1>1. pane.request # NoRequest /\ pane.open /\ (~ pane.timer => pane.request.id = pane.current)
  BY DEF Panes!Fails, PaneOk, Follows
<1>2. CASE pane' = Panes!Written(Panes!Over, "error", pane.request.id, "error", "none")
  BY <1>1, <1>2, WrittenOk
<1>3. CASE pane' = [Panes!Titled(Panes!Over, "error", pane.request.id) EXCEPT !.refused = TRUE]
  BY <1>1, <1>3, RefusedOk
<1>4. CASE pane' = Panes!Closed(pane.kind, pane.acts)
  BY <1>4, ClosedOk DEF PaneOk, IsPane, PaneFields
<1> QED BY <1>2, <1>3, <1>4 DEF Panes!Fails, Panes!_show_error, Panes!_show

\* An answer for a line that was left is dropped; every other is shown.
LEMMA AnswersOk ==
    ASSUME PaneOk(pane), Panes!Answers
    PROVE  PaneOk(pane)'
<1>1. /\ pane.request # NoRequest /\ pane.open /\ pane.kind \in Panes!Kind
      /\ pane.request.id \in Panes!Ids(pane.kind)
  BY DEF Panes!Answers, PaneOk, OfMenu, IsPane, PaneFields
<1> PICK id : id = pane.request.id
  OBVIOUS
<1>2. CASE id # pane.current
  <2>1. pane' = Panes!Over /\ pane.timer
    BY <1>1, <1>2 DEF Panes!Answers, PaneOk, Follows
  <2> QED
    BY <1>1, <2>1
       DEF Panes!Over, PaneOk, IsPane, PaneFields, OfMenu, Titles, LastHeard, Follows
<1>3. CASE id = pane.current
  <2>1. PICK a \in Panes!Answer : IF pane.kind = "reports" THEN Panes!_render_payload(id, a)
                            ELSE Panes!_show(id, "done", Panes!Text("flow", id, a), a)
    BY <1>1, <1>3 DEF Panes!Answers
  <2>2. a = "rows" => Panes!Text(pane.kind, id, a) = "table"
    BY <1>1, RowsAreTable
  <2>3. CASE pane' = Panes!Written(Panes!Over, "done", id, Panes!Text(pane.kind, id, a), a)
    BY <1>1, <1>3, <2>2, <2>3, WrittenOk
  <2>4. CASE pane' = [Panes!Titled(Panes!Over, "done", id) EXCEPT !.refused = TRUE]
    BY <1>1, <2>4, RefusedOk
  <2>5. CASE pane' = Panes!Closed(pane.kind, pane.acts)
    BY <2>5, ClosedOk DEF PaneOk, IsPane, PaneFields
  <2> QED BY <1>1, <2>1, <2>3, <2>4, <2>5 DEF Panes!_render_payload, Panes!_show, Panes!Kind
<1> QED BY <1>2, <1>3

LEMMA PaneAlways == Spec => []PaneOk(pane)
<1>1. Init => PaneOk(pane)
  BY ClosedOk DEF Init, Panes!Init
<1>2. PaneOk(pane) /\ [Next]_allVars => PaneOk(pane)'
  <2> SUFFICES ASSUME PaneOk(pane), [Next]_allVars PROVE PaneOk(pane)'
    OBVIOUS
  <2>1. Panes!Next \/ UNCHANGED pane
    BY DEF Next, Others, Same, allVars
  <2>2. CASE Panes!Next
    BY <2>2, MountOk, CloseOk, MoveOk, SelectOk, RefreshOk, HighlightedOk, SelectedOk,
       FlowHighlightedOk, TimerOk, FailsOk, AnswersOk
       DEF Panes!Next
  <2>3. CASE UNCHANGED pane
    <3>1. pane' = pane
      BY <2>3
    <3> QED BY <3>1
  <2> QED BY <2>1, <2>2, <2>3
<1> QED BY <1>1, <1>2, PTL DEF Spec

\* However fast the user moves through the menu, and in whatever order timers fire and
\* answers or failures come, when nothing is under way the report on the right is the
\* last one for the line that is highlighted, and a title never stands over the report of
\* another line, unless a text could not be drawn.
THEOREM PaneShowsCurrent == Spec => []ReportShownIsCurrent
<1>1. PaneOk(pane) => ReportShownIsCurrent
  <2> SUFFICES ASSUME PaneOk(pane) PROVE Panes!ReportShownIsCurrent
    BY DEF ReportShownIsCurrent
  <2>1. Panes!Settled /\ ~ pane.refused => Panes!LastIsShown
    BY DEF PaneOk, LastHeard, Follows, Panes!Settled, Panes!LastIsShown
  <2>2. Panes!TextIsTrue
    BY DEF PaneOk, Titles, Panes!TextIsTrue
  <2> QED BY <2>1, <2>2 DEF PaneOk, Titles, Panes!ReportShownIsCurrent
<1> QED BY <1>1, PaneAlways, PTL

-------------------------------------------------------------------------------
(* The table of entries *)

\* A table is a record of these fields.
TableFields == {"rows", "all", "filtered", "expanding", "sentinel", "cursor", "col", "active",
                "tag", "selected", "anchor", "level", "marked", "yellow", "ticked", "reversed",
                "worn", "pending", "silent"}

\* Its rows are of the ledger; the cursor and the column are numbers.
IsTable(s) ==
    /\ DOMAIN s = TableFields
    /\ s.rows \subseteq Entries /\ s.all \subseteq Entries
    /\ s.cursor \in Int /\ s.col \in Int

\* The cell that is marked is the one drawn yellow, and it is of an entry.
OneMarked(s) ==
    /\ s.yellow = IF s.marked = NoCell THEN {} ELSE {s.marked}
    /\ s.marked # NoCell =>
           /\ s.marked \in Int \X Int
           /\ Cursor!_entry_index_for_row(s, s.marked[1]) # Cursor!NoEntry

\* A hashtag is marked in the item column.
TagsInItem(s) == s.tag # NoTag => s.active /\ s.col = Cursor!item

RowsOf(s) == 0 .. Cursor!Height(s) - 1

IsSelected(s, r) == Cursor!_entry_index_for_row(s, r) \in s.selected

\* The ticks are right, except where marker or change has still to be drawn.
TicksBut(s, rest) ==
    ~ s.silent =>
        \A r \in RowsOf(s) \ rest : r \in s.ticked <=> IsSelected(s, r)

\* Rows are in reverse, but for cells the marker was in.
RowsLit(s) ==
    ~ s.silent =>
        \A r \in RowsOf(s) : r \in s.reversed \cup s.worn <=> IsSelected(s, r)

MarkedItem(s) == {r \in RowsOf(s) : s.marked = <<r, Cursor!item>>}

\* The cell the marker belongs to.
ActiveCell(s) ==
    IF s.active /\ Cursor!EntryUnder(s) # Cursor!NoEntry THEN <<s.cursor, s.col>> ELSE NoCell

\* Drawn once the marked cell is drawn again.
HalfDrawn(s) ==
    IsTable(s) /\ OneMarked(s) /\ TagsInItem(s) /\ TicksBut(s, MarkedItem(s)) /\ RowsLit(s)

TableOk(s) ==
    /\ HalfDrawn(s)
    /\ ~ s.pending => s.marked = ActiveCell(s)
    /\ ~ s.silent =>
           \A r \in MarkedItem(s) : r \in s.ticked <=> IsSelected(s, r) /\ s.tag = NoTag

\* Rows and entries belong to the filled table and the row of the new entry.
LEMMA SameEntries ==
    ASSUME NEW s, NEW t, s.rows = t.rows, s.sentinel = t.sentinel
    PROVE  /\ Cursor!Height(s) = Cursor!Height(t) /\ RowsOf(s) = RowsOf(t)
           /\ \A r : Cursor!_entry_index_for_row(s, r) = Cursor!_entry_index_for_row(t, r)
  BY DEF Cursor!Height, RowsOf, Cursor!_entry_index_for_row, Cursor!_first_entry_row

\* The table counts as the library does.
LEMMA CountIsCardinality ==
    \A S : Cursor!Cardinality(S) = Cardinality(S)
  BY DEF Cardinality, Cursor!Cardinality

\* The row of an entry is where it stands.
LEMMA RowOfEntry ==
    ASSUME NEW s, NEW r, Cursor!_entry_index_for_row(s, r) # Cursor!NoEntry
    PROVE  Cursor!_row_for_entry_index(s, Cursor!_entry_index_for_row(s, r)) = r
<1> DEFINE at == {e \in s.rows :
                    Cursor!_first_entry_row(s) + Cardinality({x \in s.rows : x > e}) = r}
<1>1. at # {} /\ Cursor!_entry_index_for_row(s, r) = CHOOSE e \in at : TRUE
  BY CountIsCardinality DEF Cursor!_entry_index_for_row
<1>2. Cursor!_entry_index_for_row(s, r) \in at
  BY <1>1
<1> QED BY <1>2, CountIsCardinality DEF Cursor!_row_for_entry_index

\* Of two numbers one is the larger.
LEMMA MaxMin ==
    ASSUME NEW a \in Int, NEW b \in Int
    PROVE  Cursor!Max({a, b}) \in {a, b} /\ Cursor!Min({a, b}) \in {a, b}
<1>1. \E x \in {a, b} : \A y \in {a, b} : x >= y
  OBVIOUS
<1>2. \E x \in {a, b} : \A y \in {a, b} : x =< y
  OBVIOUS
<1> QED BY <1>1, <1>2 DEF Cursor!Max, Cursor!Min

LEMMA RowsAreNumbers ==
    ASSUME NEW s, IsTable(s)
    PROVE  /\ Cursor!Height(s) \in Int
           /\ Cursor!_first_entry_row(s) \in Int /\ Cursor!_last_entry_row(s) \in Int
           /\ Cursor!PageUp(s) \in Int /\ Cursor!PageDown(s) \in Int
           /\ \A r \in Int : Cursor!Clamped(s, r) \in Int
<1>1. Cardinality(s.rows) \in Nat
  BY TableAssumption, FS_Subset, FS_CardinalityType DEF IsTable
<1>2. Cursor!_first_entry_row(s) \in Int
  BY DEF Cursor!_first_entry_row
<1>3. Cursor!Height(s) \in Int /\ Cursor!_last_entry_row(s) \in Int
  BY <1>1, <1>2, CountIsCardinality DEF Cursor!Height, Cursor!_last_entry_row
<1>4. Cursor!PageUp(s) \in Int /\ Cursor!PageDown(s) \in Int
  <2>1. s.cursor - PageStep \in Int /\ s.cursor + PageStep \in Int
    BY TableAssumption DEF IsTable
  <2> QED BY <1>2, <1>3, <2>1, MaxMin DEF Cursor!PageUp, Cursor!PageDown
<1>5. ASSUME NEW r \in Int PROVE Cursor!Clamped(s, r) \in Int
  <2>1. Cursor!Height(s) - 1 \in Int
    BY <1>3
  <2>2. Cursor!Min({r, Cursor!Height(s) - 1}) \in {r, Cursor!Height(s) - 1}
    BY <1>5, <2>1, MaxMin
  <2>3. Cursor!Clamped(s, r) \in {0, Cursor!Min({r, Cursor!Height(s) - 1})}
    BY <1>5, <2>1, <2>2, MaxMin DEF Cursor!Clamped
  <2> QED BY <1>5, <2>1, <2>2, <2>3
<1> QED BY <1>2, <1>3, <1>4, <1>5

\* The marked cell drawn plainly again: the ticks are right everywhere.
LEMMA RestoredOk ==
    ASSUME NEW s, HalfDrawn(s)
    PROVE  LET t == Cursor!Restored(s) IN
           /\ IsTable(t) /\ TagsInItem(t) /\ TicksBut(t, {}) /\ RowsLit(t)
           /\ t.marked = NoCell /\ t.yellow = {} /\ t.rows = s.rows /\ t.sentinel = s.sentinel
           /\ t.active = s.active /\ t.cursor = s.cursor /\ t.col = s.col /\ t.tag = s.tag
           /\ t.pending = s.pending /\ t.silent = s.silent /\ t.selected = s.selected
<1>1. CASE s.marked = NoCell
  <2>1. MarkedItem(s) = {}
    BY <1>1, TableAssumption, RowsAreNumbers DEF MarkedItem, HalfDrawn, RowsOf, Cursor!item
  <2>2. Cursor!Restored(s) = s
    BY <1>1 DEF Cursor!Restored
  <2> QED BY <1>1, <2>1, <2>2 DEF HalfDrawn, OneMarked
<1>2. CASE s.marked # NoCell
  <2> PICK r \in Int, c \in Int : s.marked = <<r, c>>
    BY <1>2 DEF HalfDrawn, OneMarked
  <2> PICK t : t = Cursor!Restored(s)
    OBVIOUS
  <2>0. Cursor!_entry_index_for_row(s, s.marked[1]) # Cursor!NoEntry
        /\ s.marked[1] = r /\ s.marked[2] = c
    BY <1>2 DEF HalfDrawn, OneMarked
  <2> PICK plain : plain = Cursor!DrawnPlainly(s, r)
    OBVIOUS
  <2>p. /\ DOMAIN plain = TableFields /\ plain.yellow = s.yellow
        /\ plain.reversed = s.reversed \ {r} /\ plain.worn = s.worn \cup (s.reversed \cap {r})
        /\ plain.rows = s.rows /\ plain.sentinel = s.sentinel /\ plain.all = s.all
        /\ plain.active = s.active /\ plain.cursor = s.cursor /\ plain.col = s.col
        /\ plain.tag = s.tag /\ plain.pending = s.pending /\ plain.silent = s.silent
        /\ plain.selected = s.selected /\ plain.ticked = s.ticked
    BY DEF HalfDrawn, IsTable, TableFields, Cursor!DrawnPlainly
  <2>1. t = [plain EXCEPT !.yellow = plain.yellow \ {s.marked},
                          !.ticked = IF s.marked[2] = Cursor!item
                                     THEN Cursor!Ticks(s, {s.marked[1]}) ELSE plain.ticked,
                          !.marked = NoCell]
    BY <1>2, <2>0, Zenon DEF Cursor!Restored
  <2>2. /\ DOMAIN t = TableFields /\ t.marked = NoCell /\ t.yellow = {}
        /\ t.rows = s.rows /\ t.sentinel = s.sentinel /\ t.all = s.all
        /\ t.active = s.active /\ t.cursor = s.cursor /\ t.col = s.col /\ t.tag = s.tag
        /\ t.pending = s.pending /\ t.silent = s.silent /\ t.selected = s.selected
        /\ t.ticked = IF c = Cursor!item THEN Cursor!Ticks(s, {r}) ELSE s.ticked
        /\ t.reversed = s.reversed \ {r} /\ t.worn = s.worn \cup (s.reversed \cap {r})
    BY <1>2, <2>0, <2>p, <2>1 DEF HalfDrawn, TableFields, OneMarked
  <2>3. IsTable(t) /\ TagsInItem(t)
    BY <2>2 DEF HalfDrawn, IsTable, TagsInItem
  <2>4. ASSUME ~ s.silent, NEW q \in RowsOf(s) PROVE q \in t.ticked <=> IsSelected(s, q)
    <3>1. CASE s.marked # <<q, Cursor!item>>
      BY <2>2, <2>4, <3>1
         DEF MarkedItem, HalfDrawn, TicksBut, Cursor!Ticks, Cursor!SelectedOf, IsSelected
    <3>2. CASE s.marked = <<q, Cursor!item>>
      BY <2>2, <2>4, <3>2 DEF Cursor!Ticks, Cursor!SelectedOf, IsSelected
    <3> QED BY <3>1, <3>2
  <2>5. TicksBut(t, {})
    BY <2>2, <2>4, SameEntries DEF TicksBut, IsSelected
  <2>6. t.reversed \cup t.worn = s.reversed \cup s.worn
    BY ONLY <2>2
  <2>7. RowsLit(t)
    BY <2>2, <2>6, SameEntries DEF HalfDrawn, RowsLit, IsSelected
  <2> QED BY <2>2, <2>3, <2>5, <2>7
<1> QED BY <1>1, <1>2

\* Drawing the marker leaves the table in order.
LEMMA MarkerOk ==
    ASSUME NEW was, HalfDrawn(was)
    PROVE  TableOk(Cursor!_update_active_cell_marker(was))
<1> PICK s : s = Cursor!Restored(was)
  OBVIOUS
<1>1. /\ IsTable(s) /\ TagsInItem(s) /\ TicksBut(s, {}) /\ RowsLit(s)
      /\ s.marked = NoCell /\ s.yellow = {}
  BY RestoredOk
<1> PICK t : t = Cursor!_update_active_cell_marker(was)
  OBVIOUS
<1>2. CASE ActiveCell(s) = NoCell
  <2>1. t = s
    BY <1>1, <1>2, TableAssumption
       DEF Cursor!_update_active_cell_marker, ActiveCell, IsTable
  <2>2. MarkedItem(s) = {}
    BY <1>1, TableAssumption, RowsAreNumbers DEF MarkedItem, RowsOf, Cursor!item
  <2> QED BY <1>1, <1>2, <2>1, <2>2 DEF TableOk, HalfDrawn, OneMarked
<1>3. CASE ActiveCell(s) # NoCell
  <2>1. s.active /\ Cursor!EntryUnder(s) # Cursor!NoEntry
    BY <1>3 DEF ActiveCell
  <2> PICK ticks : ticks = IF s.col # Cursor!item THEN s.ticked
                           ELSE IF s.tag # NoTag THEN s.ticked \ {s.cursor}
                           ELSE Cursor!Ticks(s, {s.cursor})
    OBVIOUS
  <2> PICK plain : plain = Cursor!DrawnPlainly(s, s.cursor)
    OBVIOUS
  <2>p. /\ DOMAIN plain = TableFields /\ plain.yellow = s.yellow
        /\ plain.reversed = s.reversed \ {s.cursor}
        /\ plain.worn = s.worn \cup (s.reversed \cap {s.cursor})
        /\ plain.rows = s.rows /\ plain.sentinel = s.sentinel /\ plain.all = s.all
        /\ plain.active = s.active /\ plain.cursor = s.cursor /\ plain.col = s.col
        /\ plain.tag = s.tag /\ plain.pending = s.pending /\ plain.silent = s.silent
        /\ plain.selected = s.selected /\ plain.ticked = s.ticked
    BY <1>1 DEF IsTable, TableFields, Cursor!DrawnPlainly
  <2>2a. t = [plain EXCEPT !.marked = <<s.cursor, s.col>>,
                          !.yellow = plain.yellow \cup {<<s.cursor, s.col>>},
                          !.ticked = IF s.col # Cursor!item THEN plain.ticked
                                     ELSE IF s.tag # NoTag THEN plain.ticked \ {s.cursor}
                                     ELSE Cursor!Ticks(s, {s.cursor})]
    BY <2>1, Zenon DEF Cursor!_update_active_cell_marker
  <2>2. t = [plain EXCEPT !.marked = <<s.cursor, s.col>>,
                          !.yellow = plain.yellow \cup {<<s.cursor, s.col>>}, !.ticked = ticks]
    BY <2>p, <2>2a, Zenon
  <2>3. /\ DOMAIN t = TableFields /\ t.marked = <<s.cursor, s.col>> /\ t.yellow = {t.marked}
        /\ t.rows = s.rows /\ t.sentinel = s.sentinel /\ t.all = s.all
        /\ t.active = s.active /\ t.cursor = s.cursor /\ t.col = s.col /\ t.tag = s.tag
        /\ t.pending = s.pending /\ t.silent = s.silent /\ t.selected = s.selected
        /\ t.ticked = ticks /\ t.reversed = s.reversed \ {s.cursor}
        /\ t.worn = s.worn \cup (s.reversed \cap {s.cursor})
    BY <1>1, <2>p, <2>2 DEF TableFields
  <2>4. /\ RowsOf(t) = RowsOf(s)
        /\ \A r : Cursor!_entry_index_for_row(t, r) = Cursor!_entry_index_for_row(s, r)
    BY <2>3, SameEntries
  <2>5. Cursor!EntryUnder(t) # Cursor!NoEntry
    BY <2>1, <2>3, <2>4 DEF Cursor!EntryUnder
  <2>6. IsTable(t) /\ TagsInItem(t)
    BY <1>1, <2>3 DEF IsTable, TagsInItem
  <2>7. OneMarked(t) /\ t.marked = ActiveCell(t)
    BY <1>1, <1>3, <2>1, <2>3, <2>5, TableAssumption
       DEF OneMarked, ActiveCell, IsTable, Cursor!EntryUnder
  <2>8. ASSUME ~ s.silent, NEW r \in RowsOf(s)
        PROVE  r \in ticks <=> /\ IsSelected(s, r)
                               /\ ~ (t.marked = <<r, Cursor!item>> /\ s.tag # NoTag)
    <3>1. r \in s.ticked <=> IsSelected(s, r)
      BY <1>1, <2>8 DEF TicksBut
    <3>2. CASE r # s.cursor
      BY <2>3, <3>1, <3>2 DEF Cursor!Ticks, Cursor!SelectedOf
    <3>3. CASE r = s.cursor /\ s.tag # NoTag
      BY <1>1, <2>3, <3>3 DEF TagsInItem
    <3>4. CASE r = s.cursor /\ s.tag = NoTag
      BY <3>1, <3>4 DEF Cursor!Ticks, Cursor!SelectedOf, IsSelected
    <3> QED BY <3>2, <3>3, <3>4
  <2>9. ASSUME ~ t.silent, NEW r \in RowsOf(t)
        PROVE  r \in t.ticked <=> /\ IsSelected(t, r)
                                  /\ ~ (t.marked = <<r, Cursor!item>> /\ t.tag # NoTag)
    BY <2>3, <2>4, <2>8, <2>9 DEF IsSelected
  <2>10. TicksBut(t, MarkedItem(t))
    BY <2>9 DEF TicksBut, MarkedItem
  <2>11. ~ t.silent => \A r \in MarkedItem(t) : r \in t.ticked <=> IsSelected(t, r) /\ t.tag = NoTag
    BY <2>9 DEF MarkedItem
  <2>12. t.reversed \cup t.worn = s.reversed \cup s.worn
    BY ONLY <2>3
  <2>13. RowsLit(t)
    BY <1>1, <2>3, <2>4, <2>12 DEF RowsLit, IsSelected
  <2> QED BY <2>6, <2>7, <2>10, <2>11, <2>13 DEF TableOk, HalfDrawn
<1> QED BY <1>2, <1>3

\* What a table shows does not depend on where its cursor is.
LEMMA HalfDrawnStays ==
    ASSUME NEW s, NEW t, HalfDrawn(s), IsTable(t), TagsInItem(t),
           t.rows = s.rows, t.sentinel = s.sentinel, t.marked = s.marked, t.yellow = s.yellow,
           t.silent \/ (~ s.silent /\ t.ticked = s.ticked /\ t.selected = s.selected
                          /\ t.reversed = s.reversed /\ t.worn = s.worn)
    PROVE  HalfDrawn(t)
<1>1. /\ RowsOf(t) = RowsOf(s)
      /\ \A r : Cursor!_entry_index_for_row(t, r) = Cursor!_entry_index_for_row(s, r)
  BY SameEntries
<1>2. OneMarked(t)
  BY <1>1 DEF OneMarked, HalfDrawn
<1>3. TicksBut(t, MarkedItem(t))
  BY <1>1 DEF TicksBut, MarkedItem, IsSelected, HalfDrawn
<1>4. RowsLit(t)
  BY <1>1 DEF RowsLit, IsSelected, HalfDrawn
<1> QED BY <1>2, <1>3, <1>4 DEF HalfDrawn

\* Until a move of the cursor is heard of, the marker may be elsewhere.
LEMMA MovedOk ==
    ASSUME NEW s, TableOk(s), NEW r \in Int
    PROVE  TableOk(Cursor!move_cursor(s, r))
<1> PICK to : to = Cursor!Clamped(s, r)
  OBVIOUS
<1>1. IsTable(s) /\ to \in Int
  BY RowsAreNumbers DEF TableOk, HalfDrawn
<1> PICK t : t = Cursor!move_cursor(s, r)
  OBVIOUS
<1>2. t = [s EXCEPT !.cursor = to, !.pending = s.pending \/ to # s.cursor]
  BY DEF Cursor!move_cursor
<1>3. /\ DOMAIN t = TableFields /\ t.marked = s.marked /\ t.yellow = s.yellow
      /\ t.rows = s.rows /\ t.sentinel = s.sentinel /\ t.all = s.all
      /\ t.active = s.active /\ t.cursor = to /\ t.col = s.col /\ t.tag = s.tag
      /\ t.pending = (s.pending \/ to # s.cursor) /\ t.silent = s.silent
      /\ t.selected = s.selected /\ t.ticked = s.ticked
      /\ t.reversed = s.reversed /\ t.worn = s.worn
  BY <1>1, <1>2 DEF IsTable, TableFields
<1>4. IsTable(t) /\ TagsInItem(t)
  BY <1>1, <1>3 DEF IsTable, TableOk, HalfDrawn, TagsInItem
<1>5. HalfDrawn(t)
  BY <1>3, <1>4, HalfDrawnStays DEF TableOk
<1>6. /\ RowsOf(t) = RowsOf(s)
      /\ \A q : Cursor!_entry_index_for_row(t, q) = Cursor!_entry_index_for_row(s, q)
  BY <1>3, SameEntries
<1>7. ~ t.pending => t.marked = ActiveCell(t)
  BY <1>3, <1>6 DEF TableOk, ActiveCell, Cursor!EntryUnder
<1>8. ~ t.silent => \A q \in MarkedItem(t) : q \in t.ticked <=> IsSelected(t, q) /\ t.tag = NoTag
  BY <1>3, <1>6 DEF TableOk, MarkedItem, IsSelected
<1> QED BY <1>5, <1>7, <1>8 DEF TableOk

\* A table that is filled again is drawn whole.
LEMMA RenderedOk ==
    ASSUME NEW was, IsTable(was), NEW rows \in SUBSET Entries, NEW target,
           target = {} \/ \E r \in Int : target = {r}
    PROVE  TableOk(Cursor!_render_table(was, rows, target))
<1> PICK s : s = [was EXCEPT !.rows = rows, !.sentinel = was.sentinel \/ rows = {}, !.tag = NoTag,
                             !.marked = NoCell, !.yellow = {}, !.silent = FALSE, !.pending = TRUE]
  OBVIOUS
<1>1. /\ DOMAIN s = TableFields /\ s.marked = NoCell /\ s.yellow = {} /\ s.rows = rows
      /\ s.all = was.all /\ s.cursor = was.cursor /\ s.col = was.col /\ s.tag = NoTag
      /\ s.selected = was.selected /\ s.silent = FALSE
  BY DEF IsTable, TableFields
<1>2. IsTable(s)
  BY <1>1 DEF IsTable
<1> PICK ticks : ticks = Cursor!SelectedOf(s, 0 .. Cursor!Height(s) - 1)
  OBVIOUS
<1> PICK row : row = IF target = {} THEN Cursor!KeptRow(s) ELSE Cursor!Max(target)
  OBVIOUS
<1>3. row \in Int
  <2>1. Cursor!KeptRow(s) \in Int
    <3>1. Cursor!_first_entry_row(s) \in Int /\ s.cursor \in Int
      BY <1>2, RowsAreNumbers DEF IsTable
    <3> QED BY ONLY <3>1 DEF Cursor!KeptRow
  <2>2. ASSUME NEW r \in Int PROVE Cursor!Max({r}) \in Int
    BY MaxMin
  <2> QED BY <2>1, <2>2
<1> PICK to : to = Cursor!Clamped(s, row)
  OBVIOUS
<1>4. to \in Int
  BY <1>2, <1>3, RowsAreNumbers
<1> PICK t : t = [[s EXCEPT !.ticked = ticks, !.reversed = ticks, !.worn = {}]
                      EXCEPT !.cursor = to]
  OBVIOUS
<1>5. /\ DOMAIN t = TableFields /\ t.marked = NoCell /\ t.yellow = {} /\ t.rows = s.rows
      /\ t.all = s.all /\ t.cursor = to /\ t.col = s.col /\ t.tag = NoTag
      /\ t.selected = s.selected /\ t.silent = FALSE /\ t.ticked = ticks
      /\ t.reversed = ticks /\ t.worn = {}
      /\ t.sentinel = s.sentinel
  BY <1>1 DEF TableFields
<1>6. IsTable(t) /\ OneMarked(t) /\ TagsInItem(t)
  BY <1>2, <1>4, <1>5 DEF IsTable, OneMarked, TagsInItem
<1>7. TicksBut(t, MarkedItem(t)) /\ RowsLit(t)
  <2>1. t.rows = s.rows /\ t.sentinel = s.sentinel
    BY <1>5
  <2>2. /\ RowsOf(t) = RowsOf(s)
        /\ \A q : Cursor!_entry_index_for_row(t, q) = Cursor!_entry_index_for_row(s, q)
    BY ONLY <2>1, SameEntries
  <2>3. ticks = {q \in RowsOf(s) : Cursor!_entry_index_for_row(s, q) \in s.selected}
    BY DEF RowsOf, Cursor!SelectedOf
  <2>4. t.ticked = ticks /\ t.reversed = ticks /\ t.worn = {} /\ t.selected = s.selected
    BY <1>5
  <2> QED BY ONLY <2>2, <2>3, <2>4 DEF TicksBut, RowsLit, IsSelected
<1>8. Cursor!_render_table(was, rows, target) = Cursor!_update_active_cell_marker(t)
  BY DEF Cursor!_render_table
<1> QED BY <1>6, <1>7, <1>8, MarkerOk DEF HalfDrawn

\* After a change of the selection the rows of the entries that changed are drawn, and
\* the one of the marker: a row has one entry.
LEMMA SelectionOk ==
    ASSUME NEW s, NEW t, TableOk(s), NEW changed, Cursor!NoEntry \notin changed, NEW to \in Int,
           DOMAIN t = TableFields,
           t.rows = s.rows, t.sentinel = s.sentinel, t.marked = s.marked, t.yellow = s.yellow,
           t.all = s.all, t.cursor = s.cursor, t.col = s.col, t.tag = s.tag, t.active = s.active,
           t.pending = s.pending, t.silent = s.silent, t.ticked = s.ticked,
           t.reversed = s.reversed, t.worn = s.worn,
           \A e : e \notin changed => (e \in t.selected <=> e \in s.selected)
    PROVE  TableOk(Cursor!_refresh_selection_display(t, changed, to))
<1>1. /\ RowsOf(t) = RowsOf(s)
      /\ \A r : Cursor!_entry_index_for_row(t, r) = Cursor!_entry_index_for_row(s, r)
  BY SameEntries
<1>2. IsTable(t) /\ TagsInItem(t)
  BY DEF TableOk, HalfDrawn, IsTable, TagsInItem
<1>3. OneMarked(t)
  BY <1>1 DEF TableOk, HalfDrawn, OneMarked
<1> PICK paint : paint = {Cursor!_row_for_entry_index(t, e) : e \in changed}
                             \cup (IF t.marked = NoCell THEN {} ELSE {t.marked[1]})
  OBVIOUS
<1> PICK rows : rows = {r \in paint : Cursor!_entry_index_for_row(t, r) # Cursor!NoEntry}
  OBVIOUS
<1> PICK p : p = [t EXCEPT !.marked = NoCell, !.yellow = {c \in t.yellow : c[1] \notin rows},
                           !.ticked = Cursor!Ticks(t, rows),
                           !.reversed = (t.reversed \ rows) \cup Cursor!SelectedOf(t, rows),
                           !.worn = t.worn \ rows]
  OBVIOUS
<1>4. /\ DOMAIN p = TableFields /\ p.marked = NoCell
      /\ p.yellow = {c \in t.yellow : c[1] \notin rows}
      /\ p.rows = t.rows /\ p.sentinel = t.sentinel /\ p.all = t.all
      /\ p.active = t.active /\ p.cursor = t.cursor /\ p.col = t.col /\ p.tag = t.tag
      /\ p.silent = t.silent /\ p.selected = t.selected /\ p.ticked = Cursor!Ticks(t, rows)
      /\ p.reversed = (t.reversed \ rows) \cup Cursor!SelectedOf(t, rows) /\ p.worn = t.worn \ rows
  BY DEF TableFields
<1>5. p.yellow = {}
  BY <1>3, <1>4 DEF OneMarked
<1>6. IsTable(p) /\ TagsInItem(p) /\ OneMarked(p)
  BY <1>2, <1>4, <1>5 DEF IsTable, TagsInItem, OneMarked
<1>7. ASSUME ~ t.silent, NEW r \in RowsOf(t)
      PROVE  /\ r \in p.ticked <=> IsSelected(t, r)
             /\ r \in p.reversed \cup p.worn <=> IsSelected(t, r)
  <2>1. CASE r \in rows
    BY <1>4, <2>1 DEF Cursor!Ticks, Cursor!SelectedOf, IsSelected
  <2>2. CASE r \notin rows
    <3>1. Cursor!_entry_index_for_row(t, r) \notin changed
      BY <2>2, RowOfEntry
    <3>2. s.marked # <<r, Cursor!item>>
      <4>1. r \in Int
        BY <1>2, RowsAreNumbers DEF RowsOf
      <4> SUFFICES ASSUME t.marked = <<r, Cursor!item>> PROVE FALSE
        OBVIOUS
      <4>2. t.marked # NoCell
        BY <4>1, TableAssumption DEF Cursor!item
      <4>3. r = t.marked[1] /\ r \in paint
        BY <4>2
      <4> QED BY <1>3, <2>2, <4>2, <4>3 DEF OneMarked
    <3>3. r \in s.ticked <=> IsSelected(s, r)
      BY <1>1, <1>7, <3>2 DEF TableOk, HalfDrawn, TicksBut, MarkedItem
    <3>4. r \in s.reversed \cup s.worn <=> IsSelected(s, r)
      BY <1>1, <1>7 DEF TableOk, HalfDrawn, RowsLit
    <3>5. /\ r \in t.ticked <=> IsSelected(t, r)
          /\ r \in t.reversed \cup t.worn <=> IsSelected(t, r)
      BY <1>1, <3>1, <3>3, <3>4 DEF IsSelected
    <3> QED BY <1>4, <2>2, <3>5 DEF Cursor!Ticks, Cursor!SelectedOf
  <2> QED BY <2>1, <2>2
<1>8. HalfDrawn(Cursor!move_cursor(p, to))
  <2> PICK row : row = Cursor!Clamped(p, to)
    OBVIOUS
  <2>1. row \in Int
    BY <1>6, RowsAreNumbers
  <2> PICK m : m = [p EXCEPT !.cursor = row, !.pending = p.pending \/ row # p.cursor]
    OBVIOUS
  <2>2. /\ DOMAIN m = TableFields /\ m.marked = NoCell /\ m.yellow = p.yellow
        /\ m.rows = p.rows /\ m.sentinel = p.sentinel /\ m.all = p.all
        /\ m.active = p.active /\ m.cursor = row /\ m.col = p.col /\ m.tag = p.tag
        /\ m.silent = p.silent /\ m.selected = p.selected /\ m.ticked = p.ticked
        /\ m.reversed = p.reversed /\ m.worn = p.worn
    BY <1>4 DEF TableFields
  <2>3. IsTable(m) /\ TagsInItem(m) /\ OneMarked(m)
    BY <1>6, <1>5, <2>1, <2>2 DEF IsTable, TagsInItem, OneMarked
  <2>t. m.rows = t.rows /\ m.sentinel = t.sentinel
    BY <1>4, <2>2
  <2>4. /\ RowsOf(m) = RowsOf(t)
        /\ \A r : Cursor!_entry_index_for_row(m, r) = Cursor!_entry_index_for_row(t, r)
    BY ONLY <2>t, SameEntries
  <2>5. TicksBut(m, MarkedItem(m)) /\ RowsLit(m)
    <3>1. /\ m.silent = t.silent /\ m.selected = t.selected /\ m.ticked = p.ticked
          /\ m.reversed = p.reversed /\ m.worn = p.worn
      BY <1>4, <2>2
    <3>2. ~ t.silent => \A r \in RowsOf(t) :
                            /\ r \in p.ticked <=> IsSelected(t, r)
                            /\ r \in p.reversed \cup p.worn <=> IsSelected(t, r)
      BY <1>7
    <3> QED BY ONLY <2>4, <3>1, <3>2 DEF TicksBut, RowsLit, IsSelected
  <2>6. Cursor!move_cursor(p, to) = m
    BY DEF Cursor!move_cursor
  <2> QED BY <2>3, <2>5, <2>6 DEF HalfDrawn
<1>9. Cursor!_refresh_selection_display(t, changed, to)
        = Cursor!_update_active_cell_marker(Cursor!move_cursor(p, to))
  BY DEF Cursor!_refresh_selection_display
<1> QED BY <1>8, <1>9, MarkerOk

\* The anchor, the filter and the width are not drawn, nor is a selection told of later.
LEMMA StillOk ==
    ASSUME NEW s, NEW t, TableOk(s), DOMAIN t = TableFields,
           t.rows = s.rows, t.sentinel = s.sentinel, t.marked = s.marked, t.yellow = s.yellow,
           t.all = s.all, t.cursor = s.cursor, t.col = s.col, t.tag = s.tag, t.active = s.active,
           t.pending = s.pending,
           t.silent \/ (~ s.silent /\ t.ticked = s.ticked /\ t.selected = s.selected
                          /\ t.reversed = s.reversed /\ t.worn = s.worn)
    PROVE  TableOk(t)
<1>1. /\ RowsOf(t) = RowsOf(s)
      /\ \A q : Cursor!_entry_index_for_row(t, q) = Cursor!_entry_index_for_row(s, q)
  BY SameEntries
<1>2. IsTable(t) /\ TagsInItem(t)
  BY DEF IsTable, TagsInItem, TableOk, HalfDrawn
<1>3. HalfDrawn(t)
  BY <1>2, HalfDrawnStays DEF TableOk
<1>4. ~ t.pending => t.marked = ActiveCell(t)
  BY <1>1 DEF TableOk, ActiveCell, Cursor!EntryUnder
<1>5. ~ t.silent => \A q \in MarkedItem(t) : q \in t.ticked <=> IsSelected(t, q) /\ t.tag = NoTag
  BY <1>1 DEF TableOk, MarkedItem, IsSelected
<1> QED BY <1>3, <1>4, <1>5 DEF TableOk

\* Keys of the cursor and the selection.
LEMMA RowKeysOk ==
    ASSUME TableOk(table), Cursor!action_row_up \/ Cursor!action_row_down \/ Cursor!RowKey
    PROVE  TableOk(table)'
<1> PICK s : s = table
  OBVIOUS
<1>1. TableOk(s) /\ IsTable(s) /\ s.rows \in SUBSET Entries /\ s.cursor \in Int
  BY DEF TableOk, HalfDrawn, IsTable
<1>2. ASSUME NEW b PROVE IsTable([s EXCEPT !.sentinel = b])
  BY <1>1 DEF IsTable, TableFields
<1>3. ASSUME NEW b
      PROVE  TableOk(Cursor!_render_table([s EXCEPT !.sentinel = b], s.rows, {0}))
  BY <1>1, <1>2, RenderedOk
<1>4. s.cursor - 1 \in Int /\ s.cursor + 1 \in Int
  BY <1>1
<1>5. CASE Cursor!action_row_up
  <2>1. \/ table' = Cursor!_render_table([s EXCEPT !.sentinel = TRUE], s.rows, {0})
        \/ table' = Cursor!move_cursor(s, s.cursor - 1)
    BY <1>5 DEF Cursor!action_row_up
  <2> QED BY <1>1, <1>3, <1>4, <2>1, MovedOk
<1>6. CASE Cursor!action_row_down
  <2>1. \/ table' = Cursor!_render_table([s EXCEPT !.sentinel = FALSE], s.rows, {0})
        \/ table' = Cursor!move_cursor(s, s.cursor + 1)
    BY <1>6 DEF Cursor!action_row_down
  <2> QED BY <1>1, <1>3, <1>4, <2>1, MovedOk
<1>7. CASE Cursor!RowKey
  <2>1. PICK r \in {Cursor!_first_entry_row(s), Cursor!_last_entry_row(s),
                    Cursor!PageUp(s), Cursor!PageDown(s)} : table' = Cursor!move_cursor(s, r)
    BY <1>7 DEF Cursor!RowKey
  <2>2. r \in Int
    BY <1>1, RowsAreNumbers
  <2> QED BY <1>1, <2>1, <2>2, MovedOk
<1> QED BY <1>5, <1>6, <1>7

\* A added of rows is added to the selection.
LEMMA ExtendedOk ==
    ASSUME NEW s, TableOk(s), NEW r \in Int
    PROVE  TableOk(Cursor!_extend_selection_to(s, r))
<1> PICK anchor : anchor = IF s.anchor = NoAnchor THEN s.cursor ELSE s.anchor
  OBVIOUS
<1> PICK added : added = {Cursor!_entry_index_for_row(s, q) :
                            q \in (anchor .. r) \cup (r .. anchor)} \ {Cursor!NoEntry}
  OBVIOUS
<1> PICK t : t = [s EXCEPT !.anchor = anchor, !.selected = s.selected \cup added]
  OBVIOUS
<1>1. DOMAIN s = TableFields
  BY DEF TableOk, HalfDrawn, IsTable
<1>2. /\ DOMAIN t = TableFields
      /\ t.rows = s.rows /\ t.sentinel = s.sentinel /\ t.marked = s.marked /\ t.yellow = s.yellow
      /\ t.all = s.all /\ t.cursor = s.cursor /\ t.col = s.col /\ t.tag = s.tag
      /\ t.active = s.active /\ t.pending = s.pending /\ t.silent = s.silent
      /\ t.ticked = s.ticked /\ t.selected = s.selected \cup added
      /\ t.reversed = s.reversed /\ t.worn = s.worn
  BY <1>1 DEF TableFields
<1> PICK new : new = added \ s.selected
  OBVIOUS
<1>3. \A e : e \notin new => (e \in t.selected <=> e \in s.selected)
  BY <1>2
<1>4. Cursor!_extend_selection_to(s, r)
        = Cursor!_refresh_selection_display(t, new, r)
  BY DEF Cursor!_extend_selection_to
<1>5. Cursor!NoEntry \notin new
  OBVIOUS
<1>6. TableOk(Cursor!_refresh_selection_display(t, new, r))
  BY ONLY TableOk(s), r \in Int, <1>2, <1>3, <1>5, SelectionOk
<1> QED BY <1>4, <1>6

LEMMA SelectKeyOk ==
    ASSUME TableOk(table), Cursor!SelectKey
    PROVE  TableOk(table)'
<1> PICK s : s = table
  OBVIOUS
<1>1. TableOk(s) /\ IsTable(s) /\ s.cursor \in Int
  BY DEF TableOk, HalfDrawn, IsTable
<1> PICK first : first = Cursor!_first_entry_row(s)
  OBVIOUS
<1> PICK last : last = Cursor!_last_entry_row(s)
  OBVIOUS
<1>2. first \in Int /\ last \in Int /\ Cursor!PageUp(s) \in Int /\ Cursor!PageDown(s) \in Int
  BY <1>1, RowsAreNumbers
<1>3. Cursor!Max({first, s.cursor - 1}) \in Int /\ Cursor!Min({last, s.cursor + 1}) \in Int
  <2>1. s.cursor - 1 \in Int /\ s.cursor + 1 \in Int
    BY <1>1
  <2>2. Cursor!Max({first, s.cursor - 1}) \in {first, s.cursor - 1}
    BY <1>2, <2>1, MaxMin
  <2>3. Cursor!Min({last, s.cursor + 1}) \in {last, s.cursor + 1}
    BY <1>2, <2>1, MaxMin
  <2> QED BY <1>2, <2>1, <2>2, <2>3
<1>4. PICK r \in {Cursor!Max({first, s.cursor - 1}), Cursor!Min({last, s.cursor + 1}),
                  first, last, Cursor!PageUp(s), Cursor!PageDown(s)} :
          table' = Cursor!_extend_selection_to(s, r)
  BY DEF Cursor!SelectKey
<1> QED BY <1>1, <1>2, <1>3, <1>4, ExtendedOk

\* Only the cell of its entry changes when one is selected or not.
LEMMA ToggledOk ==
    ASSUME TableOk(table), Cursor!action_toggle_selection
    PROVE  TableOk(table)'
<1> PICK s : s = table
  OBVIOUS
<1> PICK e : e = Cursor!EntryUnder(s)
  OBVIOUS
<1> PICK t : t = [s EXCEPT !.selected = Cursor!Toggled(s.selected, e)]
  OBVIOUS
<1>1. TableOk(s) /\ DOMAIN s = TableFields /\ s.cursor \in Int
  BY DEF TableOk, HalfDrawn, IsTable
<1>2. e # Cursor!NoEntry /\ table' = Cursor!_refresh_selection_display(t, {e}, s.cursor)
  BY DEF Cursor!action_toggle_selection
<1>3. /\ DOMAIN t = TableFields
      /\ t.rows = s.rows /\ t.sentinel = s.sentinel /\ t.marked = s.marked /\ t.yellow = s.yellow
      /\ t.all = s.all /\ t.cursor = s.cursor /\ t.col = s.col /\ t.tag = s.tag
      /\ t.active = s.active /\ t.pending = s.pending /\ t.silent = s.silent
      /\ t.ticked = s.ticked /\ t.selected = Cursor!Toggled(s.selected, e)
      /\ t.reversed = s.reversed /\ t.worn = s.worn
  BY <1>1 DEF TableFields
<1>4. \A x : x \notin {e} => (x \in t.selected <=> x \in s.selected)
  <2>1. t.selected = Cursor!Toggled(s.selected, e)
    BY <1>3
  <2> QED BY ONLY <2>1 DEF Cursor!Toggled
<1> PICK new : new = {e}
  OBVIOUS
<1>5. Cursor!NoEntry \notin new /\ \A x : x \notin new => (x \in t.selected <=> x \in s.selected)
  BY <1>2, <1>4
<1> PICK to : to = s.cursor
  OBVIOUS
<1>6. to \in Int
  BY <1>1
<1>7. TableOk(Cursor!_refresh_selection_display(t, new, to))
  BY ONLY <1>1, <1>3, <1>5, <1>6, SelectionOk
<1> QED BY <1>2, <1>7

\* A click moves the cursor, and may select.
LEMMA ClickOk ==
    ASSUME TableOk(table), Cursor!on_click
    PROVE  TableOk(table)'
<1> PICK r \in 0 .. Cursor!Height(table) - 1 : \E s, e :
        /\ s = Cursor!move_cursor(table, r) /\ e = Cursor!_entry_index_for_row(table, r)
        /\ \/ table' = s
           \/ table' = [s EXCEPT !.anchor = s.cursor]
           \/ /\ e # Cursor!NoEntry
              /\ table' = Cursor!_render_table([s EXCEPT !.selected = Cursor!Toggled(s.selected, e),
                                                         !.anchor = r], s.rows, {r})
           \/ table' = Cursor!_extend_selection_to(s, r)
  BY DEF Cursor!on_click
<1> PICK s, e :
        /\ s = Cursor!move_cursor(table, r) /\ e = Cursor!_entry_index_for_row(table, r)
        /\ \/ table' = s
           \/ table' = [s EXCEPT !.anchor = s.cursor]
           \/ /\ e # Cursor!NoEntry
              /\ table' = Cursor!_render_table([s EXCEPT !.selected = Cursor!Toggled(s.selected, e),
                                                         !.anchor = r], s.rows, {r})
           \/ table' = Cursor!_extend_selection_to(s, r)
  OBVIOUS
<1>1. r \in Int
  BY RowsAreNumbers DEF TableOk, HalfDrawn
<1>2. TableOk(s) /\ IsTable(s)
  BY <1>1, MovedOk DEF TableOk, HalfDrawn
<1>3. ASSUME NEW t, NEW x, t = [s EXCEPT !.anchor = x] PROVE TableOk(t)
  <2>1. /\ DOMAIN t = TableFields
        /\ t.rows = s.rows /\ t.sentinel = s.sentinel /\ t.marked = s.marked /\ t.yellow = s.yellow
        /\ t.all = s.all /\ t.cursor = s.cursor /\ t.col = s.col /\ t.tag = s.tag
        /\ t.active = s.active /\ t.pending = s.pending /\ t.silent = s.silent
        /\ t.ticked = s.ticked /\ t.selected = s.selected
        /\ t.reversed = s.reversed /\ t.worn = s.worn
    BY <1>2, <1>3 DEF IsTable, TableFields
  <2> QED BY <1>2, <2>1, StillOk
<1>4. ASSUME NEW t, NEW x, NEW y, t = [s EXCEPT !.selected = x, !.anchor = y]
      PROVE  TableOk(Cursor!_render_table(t, s.rows, {r}))
  <2>1. IsTable(t)
    BY <1>2, <1>4 DEF IsTable, TableFields
  <2> QED BY <1>1, <1>2, <2>1, RenderedOk DEF IsTable
<1>5. PICK t : t = table'
  OBVIOUS
<1>6. TableOk(t)
  BY <1>1, <1>2, <1>3, <1>4, <1>5, ExtendedOk
<1> QED BY <1>5, <1>6

\* A selection that is drawn with the next list.
LEMMA BatchOk ==
    ASSUME TableOk(table), Cursor!action_batch_tag \/ Cursor!SelectionUsed
    PROVE  TableOk(table)'
<1> PICK s, t : s = table /\ t = table'
  OBVIOUS
<1>1. PICK x : t = [s EXCEPT !.selected = x, !.silent = TRUE]
  BY DEF Cursor!action_batch_tag, Cursor!SelectionUsed
<1>2. TableOk(s) /\ DOMAIN s = TableFields
  BY DEF TableOk, HalfDrawn, IsTable
<1>3. /\ DOMAIN t = TableFields
      /\ t.rows = s.rows /\ t.sentinel = s.sentinel /\ t.marked = s.marked /\ t.yellow = s.yellow
      /\ t.all = s.all /\ t.cursor = s.cursor /\ t.col = s.col /\ t.tag = s.tag
      /\ t.active = s.active /\ t.pending = s.pending /\ t.silent
  BY <1>1, <1>2 DEF TableFields
<1>4. TableOk(t)
  BY <1>2, <1>3, StillOk
<1> QED BY <1>4

LEMMA ColumnIs ==
    ASSUME NEW s, s.col \in Int, NEW from \in Int, NEW by
    PROVE  Cursor!_next_visible_col(s, from, by) \in Int
<1> PICK seen : seen = {c \in Columns \ Cursor!hidden_columns_for_level(s.level) :
                            IF by > 0 THEN c > from ELSE c < from}
  OBVIOUS
<1>1. seen \subseteq 0 .. 5
  BY MenuAssumption
<1>2. ASSUME seen # {} PROVE Cursor!Max(seen) \in Int /\ Cursor!Min(seen) \in Int
  <2>1. \E x \in seen : \A y \in seen : x >= y
    BY <1>1, <1>2, SMTT(30)
  <2>2. \E x \in seen : \A y \in seen : x =< y
    BY <1>1, <1>2, SMTT(30)
  <2> QED BY <1>1, <2>1, <2>2 DEF Cursor!Max, Cursor!Min
<1>3. Cursor!_next_visible_col(s, from, by) \in {from, Cursor!Max(seen), Cursor!Min(seen)}
  BY DEF Cursor!_next_visible_col
<1>4. seen = {} => Cursor!_next_visible_col(s, from, by) = from
  BY DEF Cursor!_next_visible_col
<1> QED BY <1>2, <1>3, <1>4

\* The marker at another column or hashtag.
LEMMA MarkedOk ==
    ASSUME TableOk(table), NEW col \in Int, NEW tag, tag # NoTag => col = Cursor!item,
           Cursor!MarkerAt(col, tag)
    PROVE  TableOk(table)'
<1> PICK s : s = table
  OBVIOUS
<1> PICK t : t = [s EXCEPT !.active = TRUE, !.col = col, !.tag = tag]
  OBVIOUS
<1>1. HalfDrawn(s) /\ DOMAIN s = TableFields
  BY DEF TableOk, HalfDrawn, IsTable
<1>2. /\ DOMAIN t = TableFields
      /\ t.rows = s.rows /\ t.sentinel = s.sentinel /\ t.marked = s.marked /\ t.yellow = s.yellow
      /\ t.all = s.all /\ t.cursor = s.cursor /\ t.col = col /\ t.tag = tag
      /\ t.active /\ t.pending = s.pending /\ t.silent = s.silent
      /\ t.ticked = s.ticked /\ t.selected = s.selected
      /\ t.reversed = s.reversed /\ t.worn = s.worn
  BY <1>1 DEF TableFields
<1>3. IsTable(t) /\ TagsInItem(t)
  BY <1>1, <1>2 DEF IsTable, HalfDrawn, TagsInItem
<1>4. ~ s.silent \/ t.silent
  BY <1>2
<1>5. HalfDrawn(t)
  BY ONLY <1>1, <1>2, <1>3, <1>4, HalfDrawnStays
<1>6. table' = Cursor!_update_active_cell_marker(t)
  BY DEF Cursor!MarkerAt
<1> QED BY <1>5, <1>6, MarkerOk

LEMMA ColumnKeysOk ==
    ASSUME TableOk(table), Cursor!action_prev_column \/ Cursor!action_next_column
    PROVE  TableOk(table)'
<1>1. table.col \in Int /\ TagsInItem(table) /\ Cursor!item \in Int
  BY DEF TableOk, HalfDrawn, IsTable, Cursor!item
<1>2. \A by : /\ Cursor!_next_visible_col(table, table.col, by) \in Int
              /\ Cursor!_next_visible_col(table, Cursor!item, by) \in Int
  BY <1>1, ColumnIs
<1>3. \E tag : \E col \in Int : (tag # NoTag => col = Cursor!item) /\ Cursor!MarkerAt(col, tag)
  <2>1. CASE ~ table.active
    BY <1>1, <2>1 DEF TagsInItem, Cursor!action_prev_column, Cursor!action_next_column
  <2>2. CASE table.active /\ table.tag # NoTag
    BY <1>1, <1>2, <2>2 DEF Cursor!action_prev_column, Cursor!action_next_column
  <2>3. CASE table.active /\ table.tag = NoTag
    BY <1>1, <1>2, <2>3 DEF Cursor!action_prev_column, Cursor!action_next_column
  <2> QED BY <2>1, <2>2, <2>3
<1> QED BY <1>3, MarkedOk

\* A message of the cursor moves the marker after it.
LEMMA HeardOfOk ==
    ASSUME TableOk(table), Cursor!on_data_table_row_highlighted
    PROVE  TableOk(table)'
<1> PICK s : s = table
  OBVIOUS
<1> PICK t : t = [s EXCEPT !.pending = FALSE, !.tag = NoTag]
  OBVIOUS
<1>1. HalfDrawn(s) /\ DOMAIN s = TableFields
  BY DEF TableOk, HalfDrawn, IsTable
<1>2. /\ DOMAIN t = TableFields
      /\ t.rows = s.rows /\ t.sentinel = s.sentinel /\ t.marked = s.marked /\ t.yellow = s.yellow
      /\ t.all = s.all /\ t.cursor = s.cursor /\ t.col = s.col /\ t.tag = NoTag
      /\ t.active = s.active /\ t.silent = s.silent
      /\ t.ticked = s.ticked /\ t.selected = s.selected
      /\ t.reversed = s.reversed /\ t.worn = s.worn
  BY <1>1 DEF TableFields
<1>3. IsTable(t) /\ TagsInItem(t)
  BY <1>1, <1>2 DEF IsTable, HalfDrawn, TagsInItem
<1>4. HalfDrawn(t)
  BY ONLY <1>1, <1>2, <1>3, HalfDrawnStays
<1>5. table' = Cursor!_update_active_cell_marker(t)
  BY DEF Cursor!on_data_table_row_highlighted
<1> QED BY <1>4, <1>5, MarkerOk

\* Esc draws the marked cell again, and everything if there was more to end.
LEMMA DeactivatedOk ==
    ASSUME TableOk(table), Cursor!action_deactivate_column
    PROVE  TableOk(table)'
<1> PICK was : was = table
  OBVIOUS
<1> PICK off : off = [was EXCEPT !.active = FALSE, !.tag = NoTag]
  OBVIOUS
<1> PICK s : s = IF was.active THEN Cursor!_update_active_cell_marker(off) ELSE was
  OBVIOUS
<1>1. HalfDrawn(was) /\ TableOk(was) /\ DOMAIN was = TableFields
  BY DEF TableOk, HalfDrawn, IsTable
<1>2. /\ DOMAIN off = TableFields
      /\ off.rows = was.rows /\ off.sentinel = was.sentinel /\ off.marked = was.marked
      /\ off.yellow = was.yellow /\ off.all = was.all /\ off.cursor = was.cursor
      /\ off.col = was.col /\ off.tag = NoTag /\ off.silent = was.silent
      /\ off.ticked = was.ticked /\ off.selected = was.selected
      /\ off.reversed = was.reversed /\ off.worn = was.worn
  BY <1>1 DEF TableFields
<1>3. IsTable(off) /\ TagsInItem(off)
  BY <1>1, <1>2 DEF IsTable, HalfDrawn, TagsInItem
<1>4. HalfDrawn(off)
  BY ONLY <1>1, <1>2, <1>3, HalfDrawnStays
<1>5. TableOk(s) /\ IsTable(s)
  BY <1>1, <1>4, MarkerOk DEF TableOk, HalfDrawn
<1> PICK cleared : cleared = [s EXCEPT !.filtered = FALSE, !.selected = {},
                                       !.anchor = IF s.selected # {} THEN NoAnchor ELSE s.anchor]
  OBVIOUS
<1>6. IsTable(cleared)
  BY <1>5 DEF IsTable, TableFields
<1>7. {s.all, s.rows} \subseteq SUBSET Entries
  BY <1>5 DEF IsTable
<1>8. \A rows \in SUBSET Entries : TableOk(Cursor!_render_table(cleared, rows, {}))
  BY <1>6, RenderedOk
<1>9. \/ table' = s
      \/ table' = Cursor!_render_table(cleared, s.all, {})
      \/ table' = Cursor!_render_table(cleared, s.rows, {})
  BY DEF Cursor!action_deactivate_column
<1> QED BY <1>5, <1>7, <1>8, <1>9

\* Other rows are drawn from nothing.
LEMMA FilledOk ==
    ASSUME TableOk(table),
           \/ Cursor!action_context_enter \/ Cursor!_expand_filter_in_past
           \/ Cursor!action_clear_filter \/ Cursor!refresh_entries \/ Cursor!on_resize
    PROVE  TableOk(table)'
<1> PICK s : s = table
  OBVIOUS
<1>1. TableOk(s) /\ IsTable(s) /\ s.all \in SUBSET Entries /\ s.rows \in SUBSET Entries
  BY DEF TableOk, HalfDrawn, IsTable
<1>2. ASSUME NEW t, IsTable(t), NEW rows \in SUBSET Entries
      PROVE  TableOk(Cursor!_render_table(t, rows, {}))
  BY <1>2, RenderedOk
<1>p. SUBSET (s.all \cup Cursor!Past) \subseteq SUBSET Entries
  BY <1>1 DEF Cursor!Past
<1>3. CASE Cursor!action_context_enter
  <2>1. \E rows \in SUBSET Entries :
           \/ table' = Cursor!_render_table([s EXCEPT !.filtered = TRUE], rows, {})
           \/ table' = Cursor!_render_table([s EXCEPT !.filtered = TRUE, !.expanding = TRUE], rows, {})
    BY <1>1, <1>p, <1>3 DEF Cursor!action_context_enter
  <2>2. IsTable([s EXCEPT !.filtered = TRUE])
    BY <1>1 DEF IsTable, TableFields
  <2>3. IsTable([s EXCEPT !.filtered = TRUE, !.expanding = TRUE])
    BY <1>1 DEF IsTable, TableFields
  <2> QED BY <1>2, <2>1, <2>2, <2>3
<1>4. CASE Cursor!_expand_filter_in_past
  BY <1>1, <1>2, <1>p, <1>4 DEF Cursor!_expand_filter_in_past
<1>5. CASE Cursor!action_clear_filter
  <2>1. table' = Cursor!_render_table([s EXCEPT !.filtered = FALSE, !.expanding = FALSE], s.all, {})
    BY <1>5 DEF Cursor!action_clear_filter
  <2>2. IsTable([s EXCEPT !.filtered = FALSE, !.expanding = FALSE])
    BY <1>1 DEF IsTable, TableFields
  <2> QED BY <1>1, <1>2, <2>1, <2>2
<1>6. CASE Cursor!refresh_entries
  <2>1. PICK list \in SUBSET Entries :
          table' = Cursor!_render_table([s EXCEPT !.all = list, !.expanding = FALSE,
                                                  !.selected = s.selected \cap list], list, {})
    BY <1>6 DEF Cursor!refresh_entries
  <2>2. IsTable([s EXCEPT !.all = list, !.expanding = FALSE, !.selected = s.selected \cap list])
    BY <1>1 DEF IsTable, TableFields
  <2> QED BY <1>2, <2>1, <2>2
<1>7. CASE Cursor!on_resize
  <2>1. PICK l, t : t = [s EXCEPT !.level = l] /\ table' \in {Cursor!_render_table(t, t.rows, {}), t}
    BY <1>7 DEF Cursor!on_resize
  <2>2. /\ DOMAIN t = TableFields
        /\ t.rows = s.rows /\ t.sentinel = s.sentinel /\ t.marked = s.marked /\ t.yellow = s.yellow
        /\ t.all = s.all /\ t.cursor = s.cursor /\ t.col = s.col /\ t.tag = s.tag
        /\ t.active = s.active /\ t.pending = s.pending /\ t.silent = s.silent
        /\ t.ticked = s.ticked /\ t.selected = s.selected
        /\ t.reversed = s.reversed /\ t.worn = s.worn
    BY <1>1, <2>1 DEF IsTable, TableFields
  <2>3. IsTable(t) /\ t.rows \in SUBSET Entries
    BY <1>1, <2>2 DEF IsTable
  <2>4. ~ s.silent \/ t.silent
    BY <2>2
  <2>5. TableOk(t)
    BY <1>1, <2>2, <2>4, StillOk
  <2> QED BY <1>2, <2>1, <2>3, <2>5
<1> QED BY <1>3, <1>4, <1>5, <1>6, <1>7

LEMMA TableAlways == Spec => []TableOk(table)
<1>1. Init => TableOk(table)
  <2> SUFFICES ASSUME Init PROVE TableOk(table)
    OBVIOUS
  <2> PICK s : s = table
    OBVIOUS
  <2>1. /\ DOMAIN s = TableFields /\ s.rows = {} /\ s.all = {} /\ s.cursor = 0
        /\ s.col = Cursor!Min(Columns)
        /\ s.active = FALSE /\ s.tag = NoTag /\ s.marked = NoCell /\ s.yellow = {}
        /\ s.ticked = {} /\ s.selected = {} /\ s.reversed = {} /\ s.worn = {}
    BY DEF Init, Cursor!Init, TableFields
  <2>1a. s.col \in Int
    <3>1. \E x \in Columns : \A y \in Columns : x =< y
      BY MenuAssumption
    <3>2. Cursor!Min(Columns) \in Columns
      BY <3>1 DEF Cursor!Min
    <3> QED BY <2>1, <3>2, MenuAssumption
  <2>2. IsTable(s) /\ OneMarked(s) /\ TagsInItem(s) /\ TicksBut(s, {}) /\ RowsLit(s)
    BY <2>1, <2>1a DEF IsTable, OneMarked, TagsInItem, TicksBut, RowsLit, IsSelected
  <2>3. s.marked = ActiveCell(s) /\ \A r \in RowsOf(s) : r \in s.ticked <=> IsSelected(s, r)
    BY <2>1 DEF ActiveCell, IsSelected
  <2>4. TableOk(s)
    BY <2>1, <2>2, <2>3 DEF TableOk, HalfDrawn, TicksBut, MarkedItem
  <2> QED BY <2>4
<1>2. TableOk(table) /\ [Next]_allVars => TableOk(table)'
  <2> SUFFICES ASSUME TableOk(table), [Next]_allVars PROVE TableOk(table)'
    OBVIOUS
  <2>1. Cursor!Next \/ UNCHANGED table
    BY DEF Next, Others, Same, allVars
  <2>2. CASE Cursor!Next
    BY <2>2, RowKeysOk, SelectKeyOk, ClickOk, ToggledOk, BatchOk, ColumnKeysOk,
       DeactivatedOk, HeardOfOk, FilledOk
       DEF Cursor!Next
  <2>3. CASE UNCHANGED table
    <3>1. table' = table
      BY <2>3
    <3> QED BY <3>1
  <2> QED BY <2>1, <2>2, <2>3
<1> QED BY <1>1, <1>2, PTL DEF Spec

\* Although most keys draw a few cells only, for any entries, widths and keys the table is
\* drawn as the screen holds it: one yellow cell at most, the active one once a move of
\* the cursor was heard of, and a tick on exactly the rows whose entries are selected,
\* unless a hashtag of the row is marked; those rows are in reverse, but for the cells
\* the marker was in.
THEOREM TableIsDrawn == Spec => []DrawnIsHeld
<1>1. TableOk(table) => DrawnIsHeld
  <2> SUFFICES ASSUME TableOk(table) PROVE Cursor!DrawnIsHeld
    BY DEF DrawnIsHeld
  <2> PICK s : s = table
    OBVIOUS
  <2>1. Cursor!Cardinality(s.yellow) <= 1
    <3>1. s.yellow = {} \/ \E c : s.yellow = {c}
      BY DEF TableOk, HalfDrawn, OneMarked
    <3>2. Cardinality(s.yellow) \in {0, 1}
      BY <3>1, FS_Singleton, FS_EmptySet
    <3>3. Cursor!Cardinality(s.yellow) \in {0, 1}
      BY <3>2, CountIsCardinality
    <3> QED BY <3>3
  <2>2. ~ s.pending => s.yellow = IF s.active /\ Cursor!EntryUnder(s) # Cursor!NoEntry
                                  THEN {<<s.cursor, s.col>>} ELSE {}
    <3>1. s.cursor \in Int /\ s.col \in Int
      BY DEF TableOk, HalfDrawn, IsTable
    <3>2. <<s.cursor, s.col>> # NoCell
      BY <3>1, TableAssumption
    <3> QED BY <3>2 DEF TableOk, HalfDrawn, OneMarked, ActiveCell
  <2>3. ASSUME ~ s.silent, NEW r \in 0 .. Cursor!Height(s) - 1
        PROVE  /\ r \in s.ticked <=>
                      /\ Cursor!_entry_index_for_row(s, r) \in s.selected
                      /\ ~ (s.tag # NoTag /\ s.marked = <<r, Cursor!item>>)
               /\ r \in s.reversed \cup s.worn <=>
                      Cursor!_entry_index_for_row(s, r) \in s.selected
    <3>0. r \in s.reversed \cup s.worn <=> Cursor!_entry_index_for_row(s, r) \in s.selected
      BY <2>3 DEF TableOk, HalfDrawn, RowsLit, IsSelected, RowsOf
    <3>1. CASE r \in MarkedItem(s)
      BY <2>3, <3>0, <3>1 DEF TableOk, MarkedItem, IsSelected
    <3>2. CASE r \notin MarkedItem(s)
      BY <2>3, <3>0, <3>2 DEF TableOk, HalfDrawn, TicksBut, MarkedItem, IsSelected, RowsOf
    <3> QED BY <3>1, <3>2
  <2> QED BY <2>1, <2>2, <2>3 DEF Cursor!DrawnIsHeld
<1> QED BY <1>1, TableAlways, PTL

-------------------------------------------------------------------------------
(* Counting, and definitions by recursion *)

\* A set of numbers that is not empty has a least one.
LEMMA LeastNumber ==
    ASSUME NEW T \in SUBSET Nat, T # {}
    PROVE  \E m \in T : \A n \in T : m <= n
<1> DEFINE S == FiniteSubsetsOf(Nat)
           U == {0 .. n : n \in T}
<1>1. IsWellFoundedOn(StrictSubsetOrdering(Nat), S)
  BY FS_StrictSubsetOrderingWellFounded
<1>2. U \subseteq S
  <2>1. ASSUME NEW n \in T PROVE 0 .. n \in S
    <3>1. IsFiniteSet(0 .. n) 
      BY FS_Interval
    <3>2. 0 .. n \in SUBSET Nat
      OBVIOUS
    <3> QED BY <3>1, <3>2 DEF FiniteSubsetsOf
  <2> QED BY <2>1
<1>6. U # {}
  OBVIOUS
<1>3. PICK x \in U : \A y \in U : ~ (<<y, x>> \in StrictSubsetOrdering(Nat))
  <2> HIDE DEF S, U
  <2> QED BY <1>1, <1>2, <1>6, WFMin
<1>4. PICK m \in T : x = 0 .. m
  BY <1>3
<1>5. ASSUME NEW n \in T, n < m PROVE FALSE
  <2>1. 0 .. n \in U /\ 0 .. n \subseteq 0 .. m /\ 0 .. n # 0 .. m
    BY <1>5
  <2>2. <<0 .. n, x>> \in StrictSubsetOrdering(Nat)
    BY <1>4, <2>1 DEF StrictSubsetOrdering
  <2> QED BY <1>3, <2>1, <2>2
<1> QED BY <1>5

\* Counting up to N, for a property of numbers given as a set.
LEMMA UpTo ==
    ASSUME NEW N \in Nat, NEW T, 0 \in T, \A n \in 0 .. N - 1 : n \in T => n + 1 \in T
    PROVE  0 .. N \subseteq T
<1> SUFFICES ASSUME (0 .. N) \ T # {} PROVE FALSE
  OBVIOUS
<1>0. (0 .. N) \ T \in SUBSET Nat
  OBVIOUS
<1>1. PICK m \in (0 .. N) \ T : \A n \in (0 .. N) \ T : m <= n
  BY <1>0, LeastNumber
<1>2. m - 1 \in 0 .. N - 1 /\ m - 1 \in T
  BY <1>1
<1> QED BY <1>1, <1>2

\* N steps, each from what was reached before it.
IsProcess(D, first, N, take) == first \in D /\ N \in Nat /\ take \in [D \X (1 .. N) -> D]

IsRun(f, D, first, N, take) ==
    f \in [0 .. N -> D] /\ f[0] = first /\ \A n \in 1 .. N : f[n] = take[<<f[n - 1], n>>]

\* They can be taken one after the other: a definition by recursion has a value.
LEMMA ProcessRuns ==
    ASSUME NEW D, NEW first, NEW N, NEW take, IsProcess(D, first, N, take)
    PROVE  \E f : IsRun(f, D, first, N, take)
<1> USE DEF IsProcess
<1> DEFINE T == {m \in 0 .. N : \E f : IsRun(f, D, first, m, take)}
<1>1. 0 \in T
  <2> DEFINE h == [n \in 0 .. 0 |-> first]
  <2>1. IsRun(h, D, first, 0, take)
    BY DEF IsRun
  <2> HIDE DEF h
  <2> QED BY <2>1
<1>2. ASSUME NEW m \in 0 .. N - 1, m \in T PROVE m + 1 \in T
  <2>1. PICK f : IsRun(f, D, first, m, take)
    BY <1>2
  <2> DEFINE h == [n \in 0 .. m + 1 |-> IF n = m + 1 THEN take[<<f[m], m + 1>>] ELSE f[n]]
  <2>2. take[<<f[m], m + 1>>] \in D
    BY <2>1 DEF IsRun
  <2>3. h \in [0 .. m + 1 -> D] /\ h[0] = first
    BY <2>1, <2>2 DEF IsRun
  <2>4. ASSUME NEW n \in 1 .. m + 1 PROVE h[n] = take[<<h[n - 1], n>>]
    <3>1. CASE n = m + 1
      <4>1. h[n] = take[<<f[m], m + 1>>] /\ h[n - 1] = f[m]
        BY <3>1
      <4> QED BY <3>1, <4>1
    <3>2. CASE n # m + 1
      <4>1. n \in 1 .. m /\ h[n] = f[n] /\ h[n - 1] = f[n - 1]
        BY <3>2
      <4> QED BY <2>1, <4>1 DEF IsRun
    <3> QED BY <3>1, <3>2
  <2>5. IsRun(h, D, first, m + 1, take)
    BY <2>3, <2>4 DEF IsRun
  <2>6. m + 1 \in 0 .. N
    OBVIOUS
  <2> HIDE DEF h
  <2> QED BY <2>5, <2>6
<1>3. N \in T
  <2> HIDE DEF T
  <2>1. 0 .. N \subseteq T
    BY <1>1, <1>2, UpTo
  <2> QED BY <2>1
<1> QED BY <1>3

-------------------------------------------------------------------------------
(* Statements *)

\* The entries the program can meet: of a row or of a ledger it starts with.
LedgerEntry == {Import!Entered(x, n, plain) : x \in Import!Known, n \in Nat, plain \in BOOLEAN}

\* The ledger, numbered from its oldest entry.
IsLedger == entered \in Seq(LedgerEntry) /\ \A k \in DOMAIN entered : entered[k].n = Len(entered) + 1 - k

Near(e, r) == e.a = r.a /\ Import!Apart(e, r) <= 2

\* What a row or an entry of a charge says.
LEMMA KnownRows ==
    /\ \A x \in Import!Known : x.d \in Int /\ x.a \in Int
    /\ Import!AllRows \subseteq Import!Known
    /\ \A f \in DOMAIN Statements :
           /\ Statements[f] \in Seq(Import!AllRows)
           /\ Len(Statements[f]) \in Nat
           /\ DOMAIN Statements[f] = 1 .. Len(Statements[f])
           /\ \A p \in DOMAIN Statements[f] : Statements[f][p] \in Import!AllRows
           /\ \A p, q \in DOMAIN Statements[f] :
                  Statements[f][p].of = Statements[f][q].of => p = q
<1>1. ASSUME NEW x \in Import!Known PROVE x.d \in Int /\ x.a \in Int
  <2>1. CASE x \in Import!AllRows
    BY <2>1, ImportAssumption
  <2>2. CASE \E s \in FirstEntries : x \in Import!ToSet(s)
    BY <2>2, ImportAssumption DEF Import!ToSet
  <2> QED BY <2>1, <2>2 DEF Import!Known
<1>2. Import!AllRows \subseteq Import!Known
  BY DEF Import!Known
<1> QED BY <1>1, <1>2, ImportAssumption

\* The entries near a row that none of the rows before has taken.
LEMMA EntriesRead ==
    ASSUME IsLedger
    PROVE  /\ Len(entered) \in Nat /\ DOMAIN entered = 1 .. Len(entered)
           /\ \A k \in DOMAIN entered :
                  /\ entered[k] \in LedgerEntry
                  /\ entered[k].d \in Int /\ entered[k].a \in Int /\ entered[k].plain \in BOOLEAN
                  /\ \E x \in Import!Known :
                         x.of = entered[k].of /\ x.d = entered[k].d /\ x.a = entered[k].a
<1>1. Len(entered) \in Nat /\ DOMAIN entered = 1 .. Len(entered)
  BY DEF IsLedger
<1>2. ASSUME NEW k \in DOMAIN entered
      PROVE  /\ entered[k] \in LedgerEntry
             /\ entered[k].d \in Int /\ entered[k].a \in Int /\ entered[k].plain \in BOOLEAN
             /\ \E x \in Import!Known :
                    x.of = entered[k].of /\ x.d = entered[k].d /\ x.a = entered[k].a
  <2>1. entered[k] \in LedgerEntry
    BY <1>1, <1>2 DEF IsLedger
  <2>2. PICK x \in Import!Known, n \in Nat, plain \in BOOLEAN : entered[k] = Import!Entered(x, n, plain)
    BY <2>1 DEF LedgerEntry
  <2>3. x.d \in Int /\ x.a \in Int
    BY KnownRows
  <2> QED BY <2>1, <2>2, <2>3 DEF Import!Entered
<1> QED BY <1>1, <1>2

\* The first of some numbers is one of them.
LEMMA FirstTaken ==
    ASSUME NEW K \in SUBSET Nat, K # {}
    PROVE  Import!First(K) \in K
<1>1. \E m \in K : \A n \in K : m <= n
  BY LeastNumber
<1> QED BY <1>1 DEF Import!First

\* A row takes an entry near it, if there is one that is left.
LEMMA MatchIs ==
    ASSUME IsLedger, NEW r, NEW used
    PROVE  /\ Import!Match(r, used) \subseteq Import!Candidates(r, used)
           /\ Import!Match(r, used) = {} <=> Import!Candidates(r, used) = {}
           /\ Import!Candidates(r, used) =
                  {k \in DOMAIN entered \ used : entered[k].plain /\ Near(entered[k], r)}
<1> DEFINE C == Import!Candidates(r, used)
           like == {k \in C : Import!merchant_similar(r.m, entered[k].m)}
<1>1. C = {k \in DOMAIN entered \ used : entered[k].plain /\ Near(entered[k], r)}
  BY EntriesRead DEF Import!Candidates, Near
<1>2. C \subseteq Nat
  BY <1>1, EntriesRead
<1>3. like # {} => Import!First(like) \in like
  BY <1>2, FirstTaken
<1>4. C # {} => Import!First(C) \in C
  BY <1>2, FirstTaken
<1>5. Import!Match(r, used) = IF like # {} THEN {Import!First(like)}
                              ELSE IF C # {} THEN {Import!First(C)} ELSE {}
  BY DEF Import!Match
<1> QED BY <1>1, <1>3, <1>4, <1>5


Accs == [used : SUBSET Nat, new : Seq(Import!AllRows)]

\* What has been made of the first n rows: the entries that are taken are near one of
\* them; each proposal is one of them, in no log, whose near entries are all near other
\* rows; and each row was imported, or is near an entry, or agrees with a proposal.
Explained(acc, rows, n) ==
    /\ acc \in Accs
    /\ \A k \in acc.used : \E p \in 1 .. n : Near(entered[k], rows[p])
    /\ \A i \in DOMAIN acc.new : \E p \in 1 .. n :
           /\ acc.new[i] = rows[p]
           /\ ~ Import!PreviouslyImported(rows[p])
           /\ \A k \in Import!Candidates(rows[p], {}) :
                  \E q \in (1 .. n) \ {p} : Near(entered[k], rows[q])
    /\ \A i, j \in DOMAIN acc.new : acc.new[i].of = acc.new[j].of => i = j
    /\ \A p \in 1 .. n :
           \/ Import!PreviouslyImported(rows[p])
           \/ Import!Candidates(rows[p], {}) # {}
           \/ \E i \in DOMAIN acc.new : Import!SameInBatch(acc.new[i], rows[p])

LEMMA SiftExplains ==
    ASSUME IsLedger, NEW f \in DOMAIN Statements, NEW n \in Nat, n + 1 \in DOMAIN Statements[f],
           NEW acc, Explained(acc, Statements[f], n)
    PROVE  Explained(Import!Sift(acc, Statements[f][n + 1]), Statements[f], n + 1)
<1> DEFINE rows == Statements[f]
<1>1. PICK r, next : r = rows[n + 1] /\ next = Import!Sift(acc, r)
  OBVIOUS
<1>2. /\ r \in Import!AllRows
      /\ \A p \in 1 .. n : rows[p].of # r.of
      /\ \A p \in 1 .. n : p \in DOMAIN rows /\ p \in 1 .. n + 1
      /\ n + 1 \in 1 .. n + 1 /\ n + 1 \notin 1 .. n
      /\ \A p \in 1 .. n + 1 : p \in 1 .. n \/ p = n + 1
  BY <1>1, KnownRows
<1>3. acc \in Accs /\ acc.used \in SUBSET Nat /\ acc.new \in Seq(Import!AllRows)
  BY DEF Explained, Accs
<1>4. Import!Candidates(r, acc.used) =
          {k \in Import!Candidates(r, {}) : k \notin acc.used}
  BY MatchIs
<1>5. \A k \in Import!Candidates(r, {}) : Near(entered[k], r)
  BY MatchIs
<1>6. \A k \in acc.used : \E p \in 1 .. n : Near(entered[k], rows[p])
  BY DEF Explained
<1>7. \A i \in DOMAIN acc.new : \E p \in 1 .. n :
          /\ acc.new[i] = rows[p]
          /\ ~ Import!PreviouslyImported(rows[p])
          /\ \A k \in Import!Candidates(rows[p], {}) :
                 \E q \in (1 .. n) \ {p} : Near(entered[k], rows[q])
  BY DEF Explained
<1>8. \A i \in DOMAIN acc.new : \E p \in 1 .. n + 1 :
          /\ acc.new[i] = rows[p]
          /\ ~ Import!PreviouslyImported(rows[p])
          /\ \A k \in Import!Candidates(rows[p], {}) :
                 \E q \in (1 .. n + 1) \ {p} : Near(entered[k], rows[q])
  <2>1. SUFFICES ASSUME NEW i \in DOMAIN acc.new
                 PROVE  \E p \in 1 .. n + 1 :
          /\ acc.new[i] = rows[p]
          /\ ~ Import!PreviouslyImported(rows[p])
          /\ \A k \in Import!Candidates(rows[p], {}) :
                 \E q \in (1 .. n + 1) \ {p} : Near(entered[k], rows[q])
    OBVIOUS
  <2>2. PICK p \in 1 .. n :
          /\ acc.new[i] = rows[p]
          /\ ~ Import!PreviouslyImported(rows[p])
          /\ \A k \in Import!Candidates(rows[p], {}) :
                 \E q \in (1 .. n) \ {p} : Near(entered[k], rows[q])
    BY <1>7, <2>1
  <2>3. \A q \in (1 .. n) \ {p} : q \in (1 .. n + 1) \ {p}
    BY <1>2
  <2> QED BY <1>2, <2>2, <2>3
<1>9. \A i, j \in DOMAIN acc.new : acc.new[i].of = acc.new[j].of => i = j
  BY DEF Explained
<1>10. \A p \in 1 .. n :
           \/ Import!PreviouslyImported(rows[p])
           \/ Import!Candidates(rows[p], {}) # {}
           \/ \E i \in DOMAIN acc.new : Import!SameInBatch(acc.new[i], rows[p])
  BY DEF Explained
<1> HIDE DEF rows
<1>11. CASE Import!PreviouslyImported(r)
  <2>1. next = acc
    BY <1>1, <1>11 DEF Import!Sift
  <2>2. \A k \in acc.used : \E p \in 1 .. n + 1 : Near(entered[k], rows[p])
    BY <1>2, <1>6
  <2>3. \A p \in 1 .. n + 1 :
            \/ Import!PreviouslyImported(rows[p])
            \/ Import!Candidates(rows[p], {}) # {}
            \/ \E i \in DOMAIN acc.new : Import!SameInBatch(acc.new[i], rows[p])
    BY <1>1, <1>2, <1>10, <1>11
  <2>4. Explained(acc, rows, n + 1)
    BY <1>3, <1>8, <1>9, <2>2, <2>3 DEF Explained
  <2> QED BY <1>1, <2>1, <2>4 DEF rows
<1>12. CASE ~ Import!PreviouslyImported(r) /\ Import!Match(r, acc.used) # {}
  <2>1. PICK m : m = Import!Match(r, acc.used)
    OBVIOUS
  <2>2. next = [acc EXCEPT !.used = acc.used \cup m]
    BY <1>1, <1>12, <2>1 DEF Import!Sift
  <2>3. m # {} /\ m \subseteq Import!Candidates(r, {}) /\ m \subseteq Nat
    BY <1>4, <1>12, <2>1, MatchIs, EntriesRead
  <2>4. next \in Accs /\ next.used = acc.used \cup m /\ next.new = acc.new
    BY <1>3, <2>2, <2>3 DEF Accs
  <2>5. \A k \in next.used : \E p \in 1 .. n + 1 : Near(entered[k], rows[p])
    BY <1>1, <1>2, <1>5, <1>6, <2>3, <2>4
  <2>6. \A p \in 1 .. n + 1 :
            \/ Import!PreviouslyImported(rows[p])
            \/ Import!Candidates(rows[p], {}) # {}
            \/ \E i \in DOMAIN acc.new : Import!SameInBatch(acc.new[i], rows[p])
    BY <1>1, <1>2, <1>10, <2>3
  <2>7. Explained(next, rows, n + 1)
    BY <1>8, <1>9, <2>4, <2>5, <2>6 DEF Explained
  <2> QED BY <1>1, <2>7 DEF rows
<1>13. CASE /\ ~ Import!PreviouslyImported(r) /\ Import!Match(r, acc.used) = {}
            /\ \E i \in DOMAIN acc.new : Import!SameInBatch(acc.new[i], r)
  <2>1. next = acc
    BY <1>1, <1>13 DEF Import!Sift
  <2>2. \A k \in acc.used : \E p \in 1 .. n + 1 : Near(entered[k], rows[p])
    BY <1>2, <1>6
  <2>3. \A p \in 1 .. n + 1 :
            \/ Import!PreviouslyImported(rows[p])
            \/ Import!Candidates(rows[p], {}) # {}
            \/ \E i \in DOMAIN acc.new : Import!SameInBatch(acc.new[i], rows[p])
    BY <1>1, <1>2, <1>10, <1>13
  <2>4. Explained(acc, rows, n + 1)
    BY <1>3, <1>8, <1>9, <2>2, <2>3 DEF Explained
  <2> QED BY <1>1, <2>1, <2>4 DEF rows
<1>14. CASE /\ ~ Import!PreviouslyImported(r) /\ Import!Match(r, acc.used) = {}
            /\ ~ \E i \in DOMAIN acc.new : Import!SameInBatch(acc.new[i], r)
  <2>1. next = [acc EXCEPT !.new = Append(acc.new, r)]
    BY <1>1, <1>14 DEF Import!Sift
  <2>2. PICK new : new = Append(acc.new, r)
    OBVIOUS
  <2>3. /\ new \in Seq(Import!AllRows)
        /\ DOMAIN new = DOMAIN acc.new \cup {Len(acc.new) + 1}
        /\ Len(acc.new) + 1 \notin DOMAIN acc.new
        /\ new[Len(acc.new) + 1] = r
        /\ \A i \in DOMAIN acc.new : new[i] = acc.new[i]
    BY <1>2, <1>3, <2>2
  <2>4. next \in Accs /\ next.used = acc.used /\ next.new = new
    BY <1>3, <2>1, <2>2, <2>3 DEF Accs
  <2>5. \A k \in acc.used : \E p \in 1 .. n + 1 : Near(entered[k], rows[p])
    BY <1>2, <1>6
  <2>6. \A k \in Import!Candidates(r, {}) :
            \E q \in (1 .. n + 1) \ {n + 1} : Near(entered[k], rows[q])
    <3>1. \A k \in Import!Candidates(r, {}) : k \in acc.used
      BY <1>4, <1>14, MatchIs
    <3> QED BY <1>2, <1>6, <3>1
  <2>7. \A i \in DOMAIN new : \E p \in 1 .. n + 1 :
          /\ new[i] = rows[p]
          /\ ~ Import!PreviouslyImported(rows[p])
          /\ \A k \in Import!Candidates(rows[p], {}) :
                 \E q \in (1 .. n + 1) \ {p} : Near(entered[k], rows[q])
    <3>1. \A i \in DOMAIN acc.new : new[i] = acc.new[i]
      BY <2>3
    <3>2. /\ new[Len(acc.new) + 1] = rows[n + 1]
          /\ ~ Import!PreviouslyImported(rows[n + 1])
          /\ \A k \in Import!Candidates(rows[n + 1], {}) :
                 \E q \in (1 .. n + 1) \ {n + 1} : Near(entered[k], rows[q])
      BY <1>1, <1>14, <2>3, <2>6
    <3> QED BY <1>2, <1>8, <2>3, <3>1, <3>2
  <2>8. \A i \in DOMAIN acc.new : acc.new[i].of # r.of
    BY <1>2, <1>7
  <2>9. \A i, j \in DOMAIN new : new[i].of = new[j].of => i = j
    BY <1>9, <2>3, <2>8
  <2>10. Import!SameInBatch(new[Len(acc.new) + 1], r)
    BY <2>3 DEF Import!SameInBatch
  <2>11. \A p \in 1 .. n + 1 :
            \/ Import!PreviouslyImported(rows[p])
            \/ Import!Candidates(rows[p], {}) # {}
            \/ \E i \in DOMAIN new : Import!SameInBatch(new[i], rows[p])
    BY <1>1, <1>2, <1>10, <2>3, <2>10
  <2>12. Explained(next, rows, n + 1)
    BY <2>4, <2>5, <2>7, <2>9, <2>11 DEF Explained
  <2> QED BY <1>1, <2>12 DEF rows
<1> QED BY <1>11, <1>12, <1>13, <1>14

\* What is offered explains every row of the statement.
LEMMA DedupExplains ==
    ASSUME IsLedger, NEW f \in DOMAIN Statements
    PROVE  \E acc : /\ Explained(acc, Statements[f], Len(Statements[f]))
                    /\ acc.new = Import!_dedup(Statements[f])
<1> DEFINE rows == Statements[f]
           N == Len(rows)
           first == [used |-> {}, new |-> << >>]
           take == [p \in Accs \X (1 .. N) |-> Import!Sift(p[1], rows[p[2]])]
           Eqn(h) == h = [n \in 0 .. N |-> IF n = 0 THEN [used |-> {}, new |-> << >>]
                                           ELSE Import!Sift(h[n - 1], rows[n])]
<1>1. N \in Nat /\ DOMAIN rows = 1 .. N
  BY KnownRows
<1>2. first \in Accs
  BY DEF Accs
<1>3. ASSUME NEW acc \in Accs, NEW n \in 1 .. N PROVE Import!Sift(acc, rows[n]) \in Accs
  <2>1. Import!Match(rows[n], acc.used) \in SUBSET Nat
    BY MatchIs, EntriesRead
  <2>2. rows[n] \in Import!AllRows
    BY <1>1, KnownRows
  <2> HIDE DEF rows
  <2>3. acc.used \in SUBSET Nat /\ acc.new \in Seq(Import!AllRows)
    BY DEF Accs
  <2>4. Append(acc.new, rows[n]) \in Seq(Import!AllRows)
    BY <2>2, <2>3
  <2> QED BY <2>1, <2>3, <2>4 DEF Import!Sift, Accs
<1>4. take \in [Accs \X (1 .. N) -> Accs]
  BY <1>3
<1>5. \A acc \in Accs, n \in 1 .. N : take[<<acc, n>>] = Import!Sift(acc, rows[n])
  OBVIOUS
<1>6. PICK h \in [0 .. N -> Accs] :
          h[0] = first /\ \A n \in 1 .. N : h[n] = take[<<h[n - 1], n>>]
  <2>1. IsProcess(Accs, first, N, take)
    BY <1>1, <1>2, <1>4 DEF IsProcess
  <2>2. PICK h : IsRun(h, Accs, first, N, take)
    BY <2>1, ProcessRuns
  <2> QED BY <2>2 DEF IsRun
<1>7. ASSUME NEW n \in 1 .. N PROVE h[n] = Import!Sift(h[n - 1], rows[n])
  <2>1. n - 1 \in 0 .. N
    BY <1>1
  <2> HIDE DEF take, first, N, rows
  <2> QED BY <1>5, <1>6, <2>1
<1>8. Eqn(h)
  <2> HIDE DEF N, rows, take
  <2>1. \A n \in 0 .. N : n = 0 \/ n \in 1 .. N
    BY <1>1
  <2> QED BY <1>6, <1>7, <2>1
<1>9. PICK g : Eqn(g) /\ Import!_dedup(rows) = g[N].new
  <2>1. Import!_dedup(rows) = (CHOOSE x : Eqn(x))[N].new
    BY DEF Import!_dedup
  <2>2. Eqn(CHOOSE x : Eqn(x))
    <3> HIDE DEF Eqn
    <3> QED BY <1>8
  <2> HIDE DEF Eqn, N, rows
  <2> QED BY <2>1, <2>2
<1> DEFINE T == {n \in 0 .. N : Explained(g[n], rows, n)}
<1>10. 0 \in T
  <2>1. g[0] = first
    BY <1>1, <1>9
  <2>2. Explained(first, rows, 0)
    BY <1>2 DEF Explained
  <2> HIDE DEF rows, first
  <2> QED BY <1>1, <2>1, <2>2
<1>11. ASSUME NEW n \in 0 .. N - 1, n \in T PROVE n + 1 \in T
  <2>1. n \in Nat /\ n + 1 \in 0 .. N /\ n + 1 # 0 /\ (n + 1) - 1 = n /\ n + 1 \in DOMAIN rows
    BY <1>1
  <2>2. g[n + 1] = Import!Sift(g[n], rows[n + 1])
    BY <1>9, <2>1
  <2>3. Explained(g[n], rows, n)
    BY <1>11
  <2>4. Explained(g[n + 1], rows, n + 1)
    BY <2>1, <2>2, <2>3, SiftExplains
  <2> HIDE DEF rows, N
  <2> QED BY <2>1, <2>4
<1>12. N \in T
  <2> HIDE DEF T
  <2>1. 0 .. N \subseteq T
    BY <1>1, <1>10, <1>11, UpTo
  <2> QED BY <1>1, <2>1
<1> QED BY <1>9, <1>12


\* The rows of the first n proposals that are chosen.
Picks(rows, n) ==
    /\ rows \in Seq(Import!AllRows)
    /\ \A k \in DOMAIN rows : \E i \in 1 .. n : rows[k] = offered[i]
    /\ \A k, l \in DOMAIN rows : rows[k].of = rows[l].of => k = l

\* Proposals are rows of different charges.
OfferedRows ==
    /\ offered \in Seq(Import!AllRows)
    /\ \A i, j \in DOMAIN offered : offered[i].of = offered[j].of => i = j

\* What is selected is proposed, and each charge once.
LEMMA SelectedRows ==
    ASSUME OfferedRows
    PROVE  Picks(Import!Selected, Len(offered))
<1> DEFINE N == Len(offered)
           D == Seq(Import!AllRows)
           first == << >>
           pick(rows, n) == IF n \in chosen THEN Append(rows, offered[n]) ELSE rows
           take == [p \in D \X (1 .. N) |-> pick(p[1], p[2])]
           Eqn(h) == h = [n \in 0 .. N |-> IF n = 0 THEN << >>
                                           ELSE IF n \in chosen THEN Append(h[n - 1], offered[n])
                                           ELSE h[n - 1]]
<1>1. N \in Nat /\ DOMAIN offered = 1 .. N /\ \A n \in 1 .. N : offered[n] \in Import!AllRows
  BY DEF OfferedRows
<1>2. first \in D
  OBVIOUS
<1>3. ASSUME NEW rows \in D, NEW n \in 1 .. N PROVE pick(rows, n) \in D
  <2>1. offered[n] \in Import!AllRows
    BY <1>1
  <2> QED BY <2>1
<1>4. take \in [D \X (1 .. N) -> D]
  <2> HIDE DEF pick, D
  <2> QED BY <1>3
<1>5. \A rows \in D, n \in 1 .. N : take[<<rows, n>>] = pick(rows, n)
  OBVIOUS
<1>6. PICK h : IsRun(h, D, first, N, take)
  <2>1. IsProcess(D, first, N, take)
    BY <1>1, <1>2, <1>4 DEF IsProcess
  <2> QED BY <2>1, ProcessRuns
<1>7. ASSUME NEW n \in 1 .. N PROVE h[n] = pick(h[n - 1], n)
  <2>1. n - 1 \in 0 .. N
    BY <1>1
  <2> HIDE DEF take, pick, N, D
  <2> QED BY <1>5, <1>6, <2>1 DEF IsRun
<1>8. Eqn(h)
  <2> HIDE DEF N, D, take
  <2>1. \A n \in 0 .. N : n = 0 \/ n \in 1 .. N
    BY <1>1
  <2>2. h \in [0 .. N -> D] /\ h[0] = << >>
    BY <1>6 DEF IsRun
  <2> QED BY <1>7, <2>1, <2>2
<1>9. PICK g : Eqn(g) /\ Import!Selected = g[N]
  <2>1. Import!Selected = (CHOOSE x : Eqn(x))[N]
    BY DEF Import!Selected
  <2>2. Eqn(CHOOSE x : Eqn(x))
    <3> HIDE DEF Eqn
    <3> QED BY <1>8
  <2> HIDE DEF Eqn, N
  <2> QED BY <2>1, <2>2
<1> DEFINE T == {n \in 0 .. N : Picks(g[n], n)}
<1>10. 0 \in T
  <2>1. g[0] = << >>
    BY <1>1, <1>9
  <2>2. Picks(<< >>, 0)
    BY DEF Picks
  <2> HIDE DEF N
  <2> QED BY <1>1, <2>1, <2>2
<1>11. ASSUME NEW n \in 0 .. N - 1, n \in T PROVE n + 1 \in T
  <2>m. PICK m : m = n + 1
    OBVIOUS
  <2>r. PICK r : r = offered[m]
    OBVIOUS
  <2>o. PICK old : old = g[n]
    OBVIOUS
  <2>n. PICK new : new = g[m]
    OBVIOUS
  <2>1. m = n + 1 /\ r = offered[m] /\ old = g[n] /\ new = g[m]
    BY ONLY <2>m, <2>r, <2>o, <2>n
  <2>2. /\ n \in Nat /\ m \in 1 .. N /\ m # 0 /\ m - 1 = n /\ m \in 1 .. m /\ r \in Import!AllRows
        /\ \A i \in 1 .. n : i \in 1 .. m /\ offered[i].of # r.of
    BY <1>1, <2>1 DEF OfferedRows
  <2>3. new = IF m \in chosen THEN Append(old, r) ELSE old
    <3>1. m \in 0 .. N /\ n \in 0 .. N
      BY <1>1, <2>2
    <3>2. g[m] = IF m \in chosen THEN Append(g[m - 1], offered[m]) ELSE g[m - 1]
      BY <1>9, <2>2, <3>1
    <3> QED BY <2>1, <2>2, <3>2
  <2>4. Picks(old, n)
    BY <1>11, <2>1
  <2>5. Picks(new, m)
    <3>1. CASE m \in chosen
      <4>1. /\ new \in Seq(Import!AllRows)
            /\ DOMAIN new = DOMAIN old \cup {Len(old) + 1}
            /\ Len(old) + 1 \notin DOMAIN old
            /\ new[Len(old) + 1] = offered[m]
            /\ \A i \in DOMAIN old : new[i] = old[i]
        BY <2>1, <2>2, <2>3, <2>4, <3>1 DEF Picks
      <4>2. \A k \in DOMAIN old : old[k].of # r.of
        BY <2>2, <2>4 DEF Picks
      <4>3. \A k \in DOMAIN new : \E i \in 1 .. m : new[k] = offered[i]
        BY <2>2, <2>4, <4>1 DEF Picks
      <4>4. \A k, l \in DOMAIN new : new[k].of = new[l].of => k = l
        BY <2>1, <2>4, <4>1, <4>2 DEF Picks
      <4> QED BY <4>1, <4>3, <4>4 DEF Picks
    <3>2. CASE m \notin chosen
      BY <2>2, <2>3, <2>4, <3>2 DEF Picks
    <3> QED BY <3>1, <3>2
  <2>6. n + 1 \in 0 .. N
    BY <1>1
  <2> HIDE DEF N
  <2> QED BY <2>1, <2>5, <2>6
<1>12. N \in T
  <2> HIDE DEF T
  <2>1. 0 .. N \subseteq T
    BY <1>1, <1>10, <1>11, UpTo
  <2> QED BY <1>1, <2>1
<1> QED BY <1>9, <1>12


-------------------------------------------------------------------------------

MadeFrom(e, r) == e.of = r.of /\ e.d = r.d /\ e.a = r.a /\ e.m = r.m

FromRow(e) == \E r \in Import!AllRows : MadeFrom(e, r)

LogRow(e) == [d |-> e.d, a |-> e.a, m |-> e.m]

\* An entry the log does not tell, and whose row may not find it in the ledger.
Missed(e) == e.n \in unlogged /\ (~ e.plain \/ Import!Crowded(e.of))

\* An entry is on its way to the log, in none, or there with the row it was made from.
EntriesFiled ==
    \A k \in DOMAIN entered :
        \/ sent /\ k = 1
        \/ entered[k].n \in unlogged
        \/ FromRow(entered[k]) /\ LogRow(entered[k]) \in logged

\* The log tells entries of the ledger only.
LogTold ==
    \A l \in logged : \E k \in DOMAIN entered : FromRow(entered[k]) /\ l = LogRow(entered[k])

\* The entry that was sent is of the row the worker is at.
InFlight == sent => step = "saving" /\ entered # << >> /\ MadeFrom(entered[1], todo[1])

\* Of the charges that are proposed, entries of before the screen were missed;
OfferedMissed ==
    \A i \in DOMAIN offered, k \in DOMAIN entered :
        entered[k].of = offered[i].of /\ entered[k].n <= since => Missed(entered[k])

\* of those still to be saved, other entries are known to be repeated.
TodoMissed ==
    \A i \in DOMAIN todo, k \in DOMAIN entered :
        entered[k].of = todo[i].of =>
            \/ sent /\ i = 1 /\ k = 1
            \/ entered[k].of \in repeated
            \/ Missed(entered[k])

TodoRows ==
    /\ todo \in Seq(Import!AllRows)
    /\ \A i, j \in DOMAIN todo : todo[i].of = todo[j].of => i = j
    /\ step \in {"starting", "saving"} => todo # << >>

ImportPlace ==
    /\ since \in Nat /\ since <= Len(entered)
    /\ sent \in BOOLEAN
    /\ step \in {"loading", "ready"} => open_file \in DOMAIN Statements

ImportInv ==
    /\ IsLedger /\ ImportPlace /\ OfferedRows /\ TodoRows /\ InFlight
    /\ EntriesFiled /\ LogTold /\ OfferedMissed /\ TodoMissed
    /\ Import!EnteredOnce /\ Import!MissingOffered

\* Rows near one entry are near each other.
LEMMA NearBoth ==
    ASSUME NEW e, NEW x, NEW y, e.d \in Int, x.d \in Int, y.d \in Int, Near(e, x), Near(e, y)
    PROVE  x.a = y.a /\ Import!Apart(x, y) <= 4
  BY DEF Near, Import!Apart

\* An entry of a charge is near every row of it.
LEMMA EntryNear ==
    ASSUME IsLedger, NEW k \in DOMAIN entered, NEW r \in Import!AllRows, entered[k].of = r.of
    PROVE  Near(entered[k], r)
<1>1. PICK e : e = entered[k]
  OBVIOUS
<1>2. PICK x \in Import!Known, n \in Nat, plain \in BOOLEAN : e = Import!Entered(x, n, plain)
  BY <1>1, EntriesRead DEF LedgerEntry
<1>3. e.of = x.of /\ e.d = x.d /\ e.a = x.a
  BY <1>2 DEF Import!Entered
<1>4. r.d \in Int /\ x.d \in Int /\ r.of = x.of
  BY <1>1, <1>3, KnownRows
<1>5. CASE x \in Import!AllRows
  <2>1. x.d = r.d /\ x.a = r.a
    BY <1>4, <1>5, ImportAssumption
  <2> QED BY <1>1, <1>3, <1>4, <2>1 DEF Near, Import!Apart
<1>6. CASE \E s \in FirstEntries : x \in Import!ToSet(s)
  <2>1. x.a = r.a /\ Import!Apart(x, r) <= 2
    BY <1>4, <1>6, ImportAssumption DEF Import!ToSet
  <2> QED BY <1>1, <1>3, <1>4, <2>1 DEF Near, Import!Apart
<1> QED BY <1>2, <1>5, <1>6 DEF Import!Known

\* When nothing is on its way, what a statement leads to is proposed rightly: entries of
\* proposed charges were missed, and other charges are entered or crowded.
LEMMA ProposedRightly ==
    ASSUME IsLedger, EntriesFiled, LogTold, ~ sent, NEW f \in DOMAIN Statements,
           NEW new, new = Import!_dedup(Statements[f])
    PROVE  /\ new \in Seq(Import!AllRows)
           /\ \A i, j \in DOMAIN new : new[i].of = new[j].of => i = j
           /\ \A i \in DOMAIN new, k \in DOMAIN entered :
                  entered[k].of = new[i].of => Missed(entered[k])
           /\ \A r \in Import!ToSet(Statements[f]) :
                  \/ \E k \in DOMAIN entered : entered[k].of = r.of
                  \/ Import!Crowded(r.of)
                  \/ r \in Import!ToSet(new)
<1> DEFINE rows == Statements[f]
           N == Len(rows)
<1>1. PICK acc : Explained(acc, rows, N) /\ acc.new = new
  BY DedupExplains
<1>2. /\ N \in Nat /\ DOMAIN rows = 1 .. N
      /\ \A p \in 1 .. N : rows[p] \in Import!AllRows /\ rows[p] \in Import!Known /\ rows[p].d \in Int
      /\ \A p, q \in 1 .. N : rows[p].of = rows[q].of => p = q
  BY KnownRows
<1> HIDE DEF rows, N
<1>3. /\ new \in Seq(Import!AllRows)
      /\ \A i, j \in DOMAIN new : new[i].of = new[j].of => i = j
  BY <1>1 DEF Explained, Accs
<1>4. ASSUME NEW i \in DOMAIN new, NEW k \in DOMAIN entered, entered[k].of = new[i].of
      PROVE  Missed(entered[k])
  <2>1. PICK p \in 1 .. N :
            /\ new[i] = rows[p]
            /\ ~ Import!PreviouslyImported(rows[p])
            /\ \A j \in Import!Candidates(rows[p], {}) :
                   \E q \in (1 .. N) \ {p} : Near(entered[j], rows[q])
    BY <1>1 DEF Explained
  <2>2. PICK r, e : r = rows[p] /\ e = entered[k]
    OBVIOUS
  <2>3. r \in Import!AllRows /\ r \in Import!Known /\ r.d \in Int /\ e.of = r.of
    BY <1>2, <1>4, <2>1, <2>2
  <2>4. Near(e, r) /\ e.d \in Int /\ e.plain \in BOOLEAN
    BY <2>2, <2>3, EntryNear, EntriesRead
  <2>5. e.n \in unlogged
    <3>1. SUFFICES ASSUME FromRow(e), LogRow(e) \in logged PROVE FALSE
      BY <2>2 DEF EntriesFiled
    <3>2. PICK q \in Import!AllRows : MadeFrom(e, q)
      BY <3>1 DEF FromRow
    <3>3. q.d = r.d /\ q.a = r.a /\ Import!merchant_similar(q.m, r.m)
      BY <2>3, <3>2, ImportAssumption DEF MadeFrom
    <3>4. LogRow(e).d = r.d /\ LogRow(e).a = r.a /\ Import!merchant_similar(LogRow(e).m, r.m)
      BY <3>2, <3>3 DEF MadeFrom, LogRow
    <3> QED BY <2>1, <2>2, <3>1, <3>4 DEF Import!PreviouslyImported
  <2>6. ASSUME e.plain PROVE Import!Crowded(e.of)
    <3>1. k \in Import!Candidates(r, {})
      BY <2>2, <2>4, <2>6, MatchIs
    <3>2. PICK q \in (1 .. N) \ {p} : Near(e, rows[q])
      BY <2>1, <2>2, <3>1
    <3>3. rows[q].of # r.of /\ rows[q] \in Import!Known /\ rows[q].d \in Int
      BY <1>2, <2>2, <3>2
    <3>4. r.a = rows[q].a /\ Import!Apart(r, rows[q]) <= 4
      BY <2>3, <2>4, <3>2, <3>3, NearBoth
    <3> QED BY <2>3, <3>3, <3>4 DEF Import!Crowded
  <2> QED BY <2>2, <2>5, <2>6 DEF Missed
<1>5. ASSUME NEW r \in Import!ToSet(rows),
             \A k \in DOMAIN entered : entered[k].of # r.of, r \notin Import!ToSet(new)
      PROVE  Import!Crowded(r.of)
  <2>1. PICK p \in 1 .. N : r = rows[p]
    BY <1>2 DEF Import!ToSet
  <2>2. r \in Import!AllRows /\ r \in Import!Known /\ r.d \in Int
    BY <1>2, <2>1
  <2>3. CASE Import!PreviouslyImported(r)
    <3>1. PICK l \in logged : l.d = r.d /\ l.a = r.a
      BY <2>3 DEF Import!PreviouslyImported
    <3>2. PICK k \in DOMAIN entered : FromRow(entered[k]) /\ l = LogRow(entered[k])
      BY <3>1 DEF LogTold
    <3>3. PICK q \in Import!AllRows : MadeFrom(entered[k], q)
      BY <3>2 DEF FromRow
    <3>4. q \in Import!Known /\ q.of # r.of /\ q.d = r.d /\ q.a = r.a
      BY <1>5, <3>1, <3>2, <3>3, KnownRows DEF MadeFrom, LogRow
    <3>5. Import!Apart(r, q) <= 4
      BY <2>2, <3>4 DEF Import!Apart
    <3> QED BY <2>2, <3>4, <3>5 DEF Import!Crowded
  <2>4. CASE Import!Candidates(r, {}) # {}
    <3>1. PICK k \in DOMAIN entered : Near(entered[k], r)
      BY <2>4, MatchIs
    <3>2. PICK x \in Import!Known : x.of = entered[k].of /\ x.d = entered[k].d /\ x.a = entered[k].a
      BY EntriesRead
    <3>3. x.d \in Int /\ x.of # r.of
      BY <1>5, <3>2, KnownRows
    <3>4. r.a = x.a /\ Import!Apart(r, x) <= 4
      BY <2>2, <3>1, <3>2, <3>3 DEF Near, Import!Apart
    <3> QED BY <2>2, <3>3, <3>4 DEF Import!Crowded
  <2>5. CASE \E i \in DOMAIN new : Import!SameInBatch(new[i], r)
    <3>1. PICK i \in DOMAIN new : new[i].d = r.d /\ new[i].a = r.a
      BY <2>5 DEF Import!SameInBatch
    <3>2. PICK q \in 1 .. N : new[i] = rows[q]
      BY <1>1 DEF Explained
    <3>3. rows[q].of # r.of
      <4>1. q # p
        BY <1>5, <2>1, <3>2 DEF Import!ToSet
      <4> QED BY <1>2, <2>1, <4>1
    <3>4. Import!Apart(r, rows[q]) <= 4
      BY <2>2, <3>1, <3>2 DEF Import!Apart
    <3> QED BY <1>2, <2>2, <3>1, <3>2, <3>3, <3>4 DEF Import!Crowded
  <2> QED BY <1>1, <2>1, <2>3, <2>4, <2>5 DEF Explained
<1> QED BY <1>3, <1>4, <1>5 DEF rows


\* What no step undoes that leaves ledger and log alone.
LEMMA ImportStays ==
    ASSUME ImportInv, entered' = entered, logged' = logged,
           unlogged \subseteq unlogged', repeated \subseteq repeated',
           \/ sent' = sent
           \/ sent' = FALSE /\ Import!Cut \subseteq unlogged'
    PROVE  /\ IsLedger' /\ EntriesFiled' /\ LogTold' /\ Import!EnteredOnce'
           /\ \A e : Missed(e) => Missed(e)'
<1>1. IsLedger'
  BY DEF ImportInv, IsLedger
<1>2. EntriesFiled'
  <2> SUFFICES ASSUME NEW k \in DOMAIN entered'
               PROVE  \/ sent' /\ k = 1
                      \/ entered'[k].n \in unlogged'
                      \/ FromRow(entered'[k]) /\ LogRow(entered'[k]) \in logged'
    BY DEF EntriesFiled, FromRow, LogRow, MadeFrom
  <2>1. \/ sent /\ k = 1
        \/ entered[k].n \in unlogged
        \/ FromRow(entered[k]) /\ LogRow(entered[k]) \in logged
    BY DEF ImportInv, EntriesFiled
  <2>2. sent => Import!Cut = {entered[1].n}
    BY DEF Import!Cut
  <2> QED BY <2>1, <2>2
<1>3. LogTold'
  BY DEF ImportInv, LogTold, FromRow, LogRow, MadeFrom
<1>4. Import!EnteredOnce'
  BY DEF ImportInv, Import!EnteredOnce
<1>5. \A e : Missed(e) => Missed(e)'
  BY DEF Missed
<1> QED BY <1>1, <1>2, <1>3, <1>4, <1>5

\* While the proposals stay, or go, they are in order.
LEMMA OffersStay ==
    ASSUME ImportInv, entered' = entered, since' = since, offered' = offered,
           \A e : Missed(e) => Missed(e)'
    PROVE  OfferedRows' /\ OfferedMissed'
<1>1. OfferedRows'
  BY DEF ImportInv, OfferedRows
<1>2. OfferedMissed'
  <2> SUFFICES ASSUME NEW i \in DOMAIN offered, NEW k \in DOMAIN entered,
                      entered[k].of = offered[i].of, entered[k].n <= since
               PROVE  Missed(entered[k])'
    BY DEF OfferedMissed
  <2>1. Missed(entered[k])
    BY DEF ImportInv, OfferedMissed
  <2> QED BY <2>1 DEF Missed
<1> QED BY <1>1, <1>2

LEMMA NoOffers ==
    ASSUME offered' = << >>
    PROVE  OfferedRows' /\ OfferedMissed'
  BY DEF OfferedRows, OfferedMissed

LEMMA NoTodo ==
    ASSUME todo' = << >>, step' \notin {"starting", "saving"}
    PROVE  TodoRows' /\ TodoMissed'
  BY DEF TodoRows, TodoMissed

\* Steps of the screen before it saves, and when it is left.
LEMMA ImportReads ==
    ASSUME ImportInv,
           \/ \E f \in Import!File : Import!_import_card_statement_wizard(f)
           \/ Import!ExtractFails \/ Import!_kick_off_extract
           \/ Import!action_back
    PROVE  ImportInv'
<1>0. Len(entered) \in Nat
  BY EntriesRead DEF ImportInv
<1>1. ASSUME NEW f \in Import!File, Import!_import_card_statement_wizard(f) PROVE ImportInv'
  <2> USE <1>1 DEF Import!_import_card_statement_wizard
  <2>1. ~ sent
    BY DEF ImportInv, InFlight
  <2>2. IsLedger' /\ EntriesFiled' /\ LogTold' /\ Import!EnteredOnce'
    BY ImportStays
  <2>3. OfferedRows' /\ OfferedMissed'
    BY NoOffers
  <2>4. ImportPlace' /\ InFlight' /\ Import!MissingOffered'
    BY <1>0, <2>1 DEF ImportInv, ImportPlace, InFlight, Import!File, Import!MissingOffered
  <2>5. TodoRows'
    BY DEF ImportInv, TodoRows
  <2>6. TodoMissed'
    BY DEF ImportInv, TodoMissed, Missed
  <2> QED BY <2>2, <2>3, <2>4, <2>5, <2>6 DEF ImportInv
<1>2. ASSUME Import!ExtractFails PROVE ImportInv'
  <2> USE <1>2 DEF Import!ExtractFails
  <2>1. ~ sent
    BY DEF ImportInv, InFlight
  <2>2. /\ IsLedger' /\ EntriesFiled' /\ LogTold' /\ Import!EnteredOnce'
        /\ \A e : Missed(e) => Missed(e)'
    BY ImportStays
  <2>3. OfferedRows' /\ OfferedMissed'
    BY <2>2, OffersStay
  <2>4. ImportPlace' /\ InFlight' /\ Import!MissingOffered'
    BY <2>1 DEF ImportInv, ImportPlace, InFlight, Import!MissingOffered
  <2>5. TodoRows'
    BY DEF ImportInv, TodoRows
  <2>6. TodoMissed'
    BY DEF ImportInv, TodoMissed, Missed
  <2> QED BY <2>2, <2>3, <2>4, <2>5, <2>6 DEF ImportInv
<1>3. ASSUME Import!_kick_off_extract PROVE ImportInv'
  <2>1. /\ step = "loading" /\ step' = "ready" /\ offered' = Import!_dedup(Statements[open_file])
        /\ UNCHANGED <<entered, logged, open_file, todo, sent, since, repeated, unlogged>>
    BY <1>3 DEF Import!_kick_off_extract
  <2>2. ~ sent /\ open_file \in DOMAIN Statements
    BY <2>1 DEF ImportInv, InFlight, ImportPlace
  <2>3. /\ IsLedger' /\ EntriesFiled' /\ LogTold' /\ Import!EnteredOnce'
        /\ \A e : Missed(e) => Missed(e)'
    BY <2>1, ImportStays
  <2>4. PICK new, f : new = offered' /\ f = open_file
    OBVIOUS
  <2>5. /\ new \in Seq(Import!AllRows)
        /\ \A i, j \in DOMAIN new : new[i].of = new[j].of => i = j
        /\ \A i \in DOMAIN new, k \in DOMAIN entered :
               entered[k].of = new[i].of => Missed(entered[k])
        /\ \A r \in Import!ToSet(Statements[f]) :
               \/ \E k \in DOMAIN entered : entered[k].of = r.of
               \/ Import!Crowded(r.of)
               \/ r \in Import!ToSet(new)
    <3>1. IsLedger /\ EntriesFiled /\ LogTold
      BY DEF ImportInv
    <3>2. f \in DOMAIN Statements /\ new = Import!_dedup(Statements[f])
      BY <2>1, <2>2, <2>4
    <3> QED BY <2>2, <3>1, <3>2, ProposedRightly
  <2>6. OfferedRows'
    BY <2>4, <2>5 DEF OfferedRows
  <2>7. OfferedMissed'
    BY <2>1, <2>4, <2>5 DEF OfferedMissed, Missed
  <2>8. Import!MissingOffered'
    BY <2>1, <2>4, <2>5 DEF Import!MissingOffered
  <2>9. ImportPlace' /\ InFlight'
    BY <2>1, <2>2 DEF ImportInv, ImportPlace, InFlight
  <2>10. TodoRows'
    BY <2>1 DEF ImportInv, TodoRows
  <2>11. TodoMissed'
    BY <2>1 DEF ImportInv, TodoMissed, Missed
  <2> QED BY <2>3, <2>6, <2>7, <2>8, <2>9, <2>10, <2>11 DEF ImportInv
<1>4. ASSUME Import!action_back PROVE ImportInv'
  <2> USE <1>4 DEF Import!action_back
  <2>1. IsLedger' /\ EntriesFiled' /\ LogTold' /\ Import!EnteredOnce'
    BY ImportStays
  <2>2. OfferedRows' /\ OfferedMissed'
    BY NoOffers
  <2>3. TodoRows' /\ TodoMissed'
    BY NoTodo
  <2>4. ImportPlace' /\ InFlight' /\ Import!MissingOffered'
    BY DEF ImportInv, ImportPlace, InFlight, Import!MissingOffered
  <2> QED BY <2>1, <2>2, <2>3, <2>4 DEF ImportInv
<1> QED BY <1>1, <1>2, <1>3, <1>4

\* Choosing,
LEMMA ImportChooses ==
    ASSUME ImportInv, NEW set, Import!Choose(set)
    PROVE  ImportInv'
<1> USE DEF Import!Choose
<1>1. /\ IsLedger' /\ EntriesFiled' /\ LogTold' /\ Import!EnteredOnce'
      /\ \A e : Missed(e) => Missed(e)'
  BY ImportStays
<1>2. OfferedRows' /\ OfferedMissed'
  BY <1>1, OffersStay
<1>3. ImportPlace' /\ InFlight' /\ Import!MissingOffered'
  BY DEF ImportInv, ImportPlace, InFlight, MadeFrom, Import!MissingOffered
<1>4. TodoRows' /\ TodoMissed'
  BY DEF ImportInv, TodoRows, TodoMissed, Missed
<1> QED BY <1>1, <1>2, <1>3, <1>4 DEF ImportInv

\* starting to save what is chosen,
LEMMA ImportConfirms ==
    ASSUME ImportInv, Import!action_confirm
    PROVE  ImportInv'
<1>1. /\ sent' = FALSE /\ unlogged' = unlogged \cup Import!Cut
      /\ UNCHANGED <<entered, logged, open_file, offered, since>>
      /\ IF offered = << >> \/ Import!Selected = << >> THEN step' = "idle" /\ todo' = << >>
         ELSE step' = "starting" /\ todo' = Import!Selected
      /\ repeated' = repeated \cup {c \in {r.of : r \in Import!ToSet(Import!Selected)} :
                          \E k \in DOMAIN entered : entered[k].n > since /\ entered[k].of = c}
  BY DEF Import!action_confirm
<1>2. /\ IsLedger' /\ EntriesFiled' /\ LogTold' /\ Import!EnteredOnce'
      /\ \A e : Missed(e) => Missed(e)'
  BY <1>1, ImportStays
<1>3. OfferedRows' /\ OfferedMissed'
  BY <1>1, <1>2, OffersStay
<1>4. ImportPlace' /\ InFlight' /\ Import!MissingOffered'
  BY <1>1 DEF ImportInv, ImportPlace, InFlight, Import!MissingOffered
<1>5. CASE step' = "idle"
  BY <1>1, <1>2, <1>3, <1>4, <1>5, NoTodo DEF ImportInv
<1>6. CASE step' = "starting"
  <2>1. PICK rows : rows = Import!Selected
    OBVIOUS
  <2>2. todo' = rows /\ rows # << >>
    BY <1>1, <1>6, <2>1
  <2>3. Picks(rows, Len(offered))
    BY <2>1, SelectedRows DEF ImportInv
  <2>4. TodoRows'
    BY <2>2, <2>3 DEF TodoRows, Picks
  <2>5. ASSUME NEW i \in DOMAIN rows, NEW k \in DOMAIN entered, entered[k].of = rows[i].of,
               entered[k].of \notin repeated'
        PROVE  Missed(entered[k])'
    <3>1. PICK j \in 1 .. Len(offered) : rows[i] = offered[j]
      BY <2>3 DEF Picks
    <3>2. j \in DOMAIN offered
      BY DEF ImportInv, OfferedRows
    <3>3. rows[i] \in Import!ToSet(Import!Selected)
      BY <2>1 DEF Import!ToSet
    <3>4. ~ (entered[k].n > since)
      BY <1>1, <2>5, <3>3
    <3>5. entered[k].n \in Int /\ since \in Int
      BY EntriesRead DEF ImportInv, IsLedger, ImportPlace
    <3>6. Missed(entered[k])
      BY <2>5, <3>1, <3>2, <3>4, <3>5 DEF ImportInv, OfferedMissed
    <3> QED BY <1>1, <3>6 DEF Missed
  <2>6. TodoMissed'
    BY <1>1, <2>2, <2>5 DEF TodoMissed, Missed
  <2> QED BY <1>2, <1>3, <1>4, <2>4, <2>6 DEF ImportInv
<1> QED BY <1>1, <1>5, <1>6


\* and saving row by row keep the invariant.
LEMMA ImportSaves ==
    ASSUME ImportInv,
           \/ \E ok \in BOOLEAN : Import!AccountsAnswer(ok)
           \/ \E plain \in BOOLEAN : Import!CreateEntry(plain)
           \/ Import!RowSaved \/ Import!RowFails
    PROVE  ImportInv'
<1>0. Len(entered) \in Nat /\ DOMAIN entered = 1 .. Len(entered)
  BY EntriesRead DEF ImportInv
<1>1. ASSUME NEW ok \in BOOLEAN, Import!AccountsAnswer(ok) PROVE ImportInv'
  <2> USE <1>1 DEF Import!AccountsAnswer
  <2>1. /\ IsLedger' /\ EntriesFiled' /\ LogTold' /\ Import!EnteredOnce'
        /\ \A e : Missed(e) => Missed(e)'
    BY ImportStays
  <2>2. OfferedRows' /\ OfferedMissed'
    BY <2>1, OffersStay
  <2>3. ImportPlace' /\ InFlight' /\ Import!MissingOffered'
    BY DEF ImportInv, ImportPlace, InFlight, Import!MissingOffered
  <2>4. TodoRows' /\ TodoMissed'
    <3>1. CASE ok
      BY <3>1 DEF ImportInv, TodoRows, TodoMissed, Missed
    <3>2. CASE ~ ok
      BY <3>2, NoTodo
    <3> QED BY <3>1, <3>2
  <2> QED BY <2>1, <2>2, <2>3, <2>4 DEF ImportInv
<1>2. ASSUME NEW plain \in BOOLEAN, Import!CreateEntry(plain) PROVE ImportInv'
  <2>1. PICK r, n : r = Head(todo) /\ n = Len(entered) + 1
    OBVIOUS
  <2>2. PICK e : e = Import!Entered(r, n, plain)
    OBVIOUS
  <2>3. /\ step = "saving" /\ ~ sent /\ sent' = TRUE /\ entered' = <<e>> \o entered
        /\ UNCHANGED <<logged, open_file, step, offered, todo, since, repeated, unlogged>>
    BY <1>2, <2>1, <2>2 DEF Import!CreateEntry
  <2>4. /\ todo # << >> /\ r = todo[1] /\ 1 \in DOMAIN todo
        /\ r \in Import!AllRows /\ r \in Import!Known
    BY <2>1, <2>3, KnownRows DEF ImportInv, TodoRows
  <2>5. e.of = r.of /\ MadeFrom(e, r) /\ e.n = n /\ e.plain = plain /\ e \in LedgerEntry
    BY <1>0, <2>1, <2>2, <2>4 DEF Import!Entered, MadeFrom, LedgerEntry
  <2>6. /\ entered' \in Seq(LedgerEntry) /\ Len(entered') = Len(entered) + 1
        /\ DOMAIN entered' = 1 .. Len(entered) + 1
        /\ entered'[1] = e
        /\ \A k \in 1 .. Len(entered) : entered'[k + 1] = entered[k]
        /\ \A k \in DOMAIN entered' :
               k # 1 => k - 1 \in DOMAIN entered /\ entered'[k] = entered[k - 1]
    <3>1. entered \in Seq(LedgerEntry) /\ <<e>> \in Seq(LedgerEntry)
      BY <2>5 DEF ImportInv, IsLedger
    <3>2. Len(<<e>>) = 1 /\ <<e>>[1] = e
      OBVIOUS
    <3>3. /\ entered' \in Seq(LedgerEntry) /\ Len(entered') = Len(entered) + 1
          /\ DOMAIN entered' = 1 .. Len(entered) + 1
      BY <1>0, <2>3, <3>1, <3>2
    <3>4. \A k \in 1 .. Len(entered) + 1 : entered'[k] = IF k <= 1 THEN e ELSE entered[k - 1]
      BY <1>0, <2>3, <3>1, <3>2
    <3> QED BY <1>0, <3>3, <3>4
  <2>7. IsLedger'
    <3>1. ASSUME NEW k \in DOMAIN entered' PROVE entered'[k].n = Len(entered') + 1 - k
      <4>1. CASE k = 1
        BY <1>0, <2>1, <2>5, <2>6, <4>1
      <4>2. CASE k # 1
        <5>1. k - 1 \in DOMAIN entered /\ entered'[k] = entered[k - 1] /\ k \in Int
          BY <2>6, <4>2
        <5>2. entered[k - 1].n = Len(entered) + 1 - (k - 1)
          BY <5>1 DEF ImportInv, IsLedger
        <5> QED BY <1>0, <2>6, <5>1, <5>2
      <4> QED BY <4>1, <4>2
    <3> QED BY <2>6, <3>1 DEF IsLedger
  <2>8. ImportPlace' /\ OfferedRows' /\ TodoRows' /\ Import!MissingOffered'
    <3>1. ImportPlace'
      BY <1>0, <2>3, <2>6 DEF ImportInv, ImportPlace
    <3>2. OfferedRows' /\ TodoRows'
      BY <2>3 DEF ImportInv, OfferedRows, TodoRows
    <3>3. Import!MissingOffered'
      BY <2>3 DEF Import!MissingOffered
    <3> QED BY <3>1, <3>2, <3>3
  <2>9. InFlight'
    BY <2>3, <2>4, <2>5, <2>6 DEF InFlight, MadeFrom
  <2>10. EntriesFiled'
    <3> SUFFICES ASSUME NEW k \in DOMAIN entered', k # 1
                 PROVE  \/ entered'[k].n \in unlogged
                        \/ FromRow(entered'[k]) /\ LogRow(entered'[k]) \in logged
      BY <2>3 DEF EntriesFiled, FromRow, LogRow, MadeFrom
    <3>1. k - 1 \in DOMAIN entered /\ entered'[k] = entered[k - 1]
      BY <2>6
    <3> QED BY <2>3, <3>1 DEF ImportInv, EntriesFiled
  <2>11. LogTold'
    <3> SUFFICES ASSUME NEW l \in logged
                 PROVE  \E k \in DOMAIN entered' : FromRow(entered'[k]) /\ l = LogRow(entered'[k])
      BY <2>3 DEF LogTold, FromRow, LogRow, MadeFrom
    <3>1. PICK k \in DOMAIN entered : FromRow(entered[k]) /\ l = LogRow(entered[k])
      BY DEF ImportInv, LogTold
    <3>2. k + 1 \in DOMAIN entered' /\ entered'[k + 1] = entered[k]
      BY <1>0, <2>6
    <3> QED BY <3>1, <3>2
  <2>12. OfferedMissed'
    <3> SUFFICES ASSUME NEW i \in DOMAIN offered, NEW k \in DOMAIN entered',
                        entered'[k].of = offered[i].of, entered'[k].n <= since
                 PROVE  Missed(entered'[k])
      BY <2>3 DEF OfferedMissed, Missed
    <3>1. k # 1
      BY <1>0, <2>1, <2>5, <2>6 DEF ImportInv, ImportPlace
    <3>2. k - 1 \in DOMAIN entered /\ entered'[k] = entered[k - 1]
      BY <2>6, <3>1
    <3> QED BY <3>2 DEF ImportInv, OfferedMissed
  <2>13. ASSUME NEW i \in DOMAIN todo, NEW k \in DOMAIN entered', k # 1,
                entered'[k].of = todo[i].of
         PROVE  /\ k - 1 \in DOMAIN entered /\ entered'[k] = entered[k - 1]
                /\ entered'[k].of \in repeated \/ Missed(entered'[k])
    <3>1. k - 1 \in DOMAIN entered /\ entered'[k] = entered[k - 1]
      BY <2>6, <2>13
    <3> QED BY <2>3, <2>13, <3>1 DEF ImportInv, TodoMissed
  <2>14. TodoMissed'
    <3> SUFFICES ASSUME NEW i \in DOMAIN todo, NEW k \in DOMAIN entered',
                        entered'[k].of = todo[i].of
                 PROVE  \/ i = 1 /\ k = 1
                        \/ entered'[k].of \in repeated
                        \/ Missed(entered'[k])
      BY <2>3 DEF TodoMissed, Missed
    <3>1. CASE k = 1
      BY <2>4, <2>5, <2>6, <3>1 DEF ImportInv, TodoRows
    <3>2. CASE k # 1
      BY <2>13, <3>2
    <3> QED BY <3>1, <3>2
  <2>15. Import!EnteredOnce'
    <3> SUFFICES ASSUME NEW i \in DOMAIN entered', NEW j \in DOMAIN entered', i < j,
                        entered'[i].of = entered'[j].of
                 PROVE  entered'[j].of \in repeated \/ Missed(entered'[j])
      BY <2>3 DEF Import!EnteredOnce, Missed
    <3>1. j # 1
      BY <2>6
    <3>2. CASE i = 1
      BY <2>4, <2>5, <2>6, <2>13, <3>1, <3>2
    <3>3. CASE i # 1
      <4>1. /\ i - 1 \in DOMAIN entered /\ entered'[i] = entered[i - 1]
            /\ j - 1 \in DOMAIN entered /\ entered'[j] = entered[j - 1]
            /\ i - 1 < j - 1
        BY <1>0, <2>6, <3>1, <3>3
      <4> QED BY <4>1 DEF ImportInv, Import!EnteredOnce, Missed
    <3> QED BY <3>2, <3>3
  <2> QED BY <2>7, <2>8, <2>9, <2>10, <2>11, <2>12, <2>14, <2>15 DEF ImportInv
<1>3. ASSUME Import!RowSaved \/ Import!RowFails PROVE ImportInv'
  <2>1. /\ step = "saving" /\ todo' = Tail(todo) /\ ~ sent'
        /\ step' = IF Tail(todo) = << >> THEN "result" ELSE "saving"
        /\ sent' = FALSE
        /\ UNCHANGED <<entered, open_file, offered, since, repeated>>
    BY <1>3 DEF Import!RowSaved, Import!RowFails, Import!NextRow
  <2>2. todo \in Seq(Import!AllRows) /\ todo # << >> /\ 1 \in DOMAIN todo
    BY <2>1 DEF ImportInv, TodoRows
  <2>3. /\ todo' \in Seq(Import!AllRows)
        /\ \A i \in DOMAIN todo' : i + 1 \in DOMAIN todo /\ todo'[i] = todo[i + 1] /\ i + 1 # 1 /\ i \in Nat
    BY <2>1, <2>2
  <2>4. TodoRows'
    <3>1. \A i, j \in DOMAIN todo' : todo'[i].of = todo'[j].of => i = j
      BY <2>3 DEF ImportInv, TodoRows
    <3> QED BY <2>1, <2>3, <3>1 DEF TodoRows
  <2>5. /\ IsLedger' /\ EntriesFiled' /\ LogTold' /\ Import!EnteredOnce'
        /\ \A e : Missed(e) => Missed(e)'
    <3>1. CASE Import!RowFails
      BY <2>1, <3>1, ImportStays DEF Import!RowFails
    <3>2. CASE Import!RowSaved
      <4>1. /\ sent /\ unlogged' = unlogged
            /\ logged' = logged \cup {[d |-> todo[1].d, a |-> todo[1].a, m |-> todo[1].m]}
        BY <2>2, <3>2 DEF Import!RowSaved, Import!LogImport
      <4>2. /\ entered # << >> /\ MadeFrom(entered[1], todo[1]) /\ todo[1] \in Import!AllRows
            /\ 1 \in DOMAIN entered
        BY <1>0, <2>2, <4>1 DEF ImportInv, InFlight, IsLedger
      <4>3. FromRow(entered[1]) /\ logged' = logged \cup {LogRow(entered[1])}
        BY <4>1, <4>2 DEF FromRow, MadeFrom, LogRow
      <4>4. IsLedger'
        BY <2>1 DEF ImportInv, IsLedger
      <4>5. EntriesFiled'
        <5> SUFFICES ASSUME NEW k \in DOMAIN entered
                     PROVE  \/ entered[k].n \in unlogged
                            \/ FromRow(entered[k]) /\ LogRow(entered[k]) \in logged'
          BY <2>1, <4>1 DEF EntriesFiled, FromRow, LogRow, MadeFrom
        <5>1. \/ k = 1
              \/ entered[k].n \in unlogged
              \/ FromRow(entered[k]) /\ LogRow(entered[k]) \in logged
          BY DEF ImportInv, EntriesFiled
        <5> QED BY <4>3, <5>1
      <4>6. LogTold'
        <5> SUFFICES ASSUME NEW l \in logged'
                     PROVE  \E k \in DOMAIN entered : FromRow(entered[k]) /\ l = LogRow(entered[k])
          BY <2>1 DEF LogTold, FromRow, LogRow, MadeFrom
        <5> QED BY <4>2, <4>3 DEF ImportInv, LogTold
      <4>7. Import!EnteredOnce'
        BY <2>1, <4>1 DEF ImportInv, Import!EnteredOnce
      <4>8. \A e : Missed(e) => Missed(e)'
        BY <4>1 DEF Missed
      <4> QED BY <4>4, <4>5, <4>6, <4>7, <4>8
    <3> QED BY <1>3, <3>1, <3>2
  <2>6. OfferedRows' /\ OfferedMissed'
    BY <2>1, <2>5, OffersStay
  <2>7. ImportPlace' /\ InFlight' /\ Import!MissingOffered'
    BY <2>1 DEF ImportInv, ImportPlace, InFlight, Import!MissingOffered
  <2>8. TodoMissed'
    <3> SUFFICES ASSUME NEW i \in DOMAIN todo', NEW k \in DOMAIN entered,
                        entered[k].of = todo'[i].of, entered[k].of \notin repeated
                 PROVE  Missed(entered[k])'
      BY <2>1 DEF TodoMissed
    <3>1. i + 1 \in DOMAIN todo /\ todo'[i] = todo[i + 1] /\ i + 1 # 1
      BY <2>3
    <3>2. Missed(entered[k])
      BY <3>1 DEF ImportInv, TodoMissed
    <3> QED BY <2>1, <2>5, <3>2 DEF Missed
  <2> QED BY <2>4, <2>5, <2>6, <2>7, <2>8 DEF ImportInv
<1> QED BY <1>1, <1>2, <1>3

LEMMA ImportBegins == Import!Init => ImportInv
<1> SUFFICES ASSUME Import!Init PROVE ImportInv
  OBVIOUS
<1>1. PICK s \in FirstEntries : entered = s
  BY DEF Import!Init
<1>2. /\ s = [k \in 1 .. Len(s) |-> Import!Entered(s[k], Len(s) + 1 - k, s[k].plain)]
      /\ Len(s) \in Nat
      /\ \A i, j \in DOMAIN s : s[i].of = s[j].of => i = j
      /\ \A k \in DOMAIN s : s[k].plain \in BOOLEAN
  BY ImportAssumption
<1>3. DOMAIN s = 1 .. Len(s)
  BY <1>2
<1>4. \A k \in 1 .. Len(s) : s[k] = Import!Entered(s[k], Len(s) + 1 - k, s[k].plain)
  BY <1>2
<1>5. ASSUME NEW k \in 1 .. Len(s) PROVE s[k] \in LedgerEntry /\ s[k].n = Len(s) + 1 - k
  <2>1. s[k] \in Import!Known
    BY <1>3 DEF Import!Known, Import!ToSet
  <2>2. PICK x, n, plain : x = s[k] /\ n = Len(s) + 1 - k /\ plain = s[k].plain
    OBVIOUS
  <2>3. x = Import!Entered(x, n, plain) /\ n \in Nat /\ plain \in BOOLEAN
    BY <1>2, <1>3, <1>4, <2>2
  <2>4. x.n = n
    BY <2>3 DEF Import!Entered
  <2> QED BY <2>1, <2>2, <2>3, <2>4 DEF LedgerEntry
<1>6. IsLedger
  <2>1. s \in Seq(LedgerEntry)
    BY <1>2, <1>3, <1>5
  <2> QED BY <1>1, <1>3, <1>5, <2>1 DEF IsLedger
<1>7. ImportPlace /\ InFlight /\ LogTold /\ Import!MissingOffered
  <2>1. InFlight
    BY DEF Import!Init, InFlight
  <2>2. PICK w : w = s /\ Len(w) \in Nat
    BY <1>2
  <2>3. Len(entered) \in Nat
    BY <1>1, <2>2
  <2>4. since = 0 /\ sent = FALSE /\ step = "picker"
    BY DEF Import!Init
  <2>5. ImportPlace
    <3>1. PICK n : n = Len(entered)
      OBVIOUS
    <3>2. since \in Nat /\ since <= n
      BY <2>3, <2>4, <3>1
    <3>3. sent \in BOOLEAN /\ step \notin {"loading", "ready"}
      BY <2>4
    <3> QED BY <3>1, <3>2, <3>3 DEF ImportPlace
  <2>6. LogTold
    BY DEF Import!Init, LogTold
  <2>7. Import!MissingOffered
    BY DEF Import!Init, Import!MissingOffered
  <2> QED BY <2>1, <2>5, <2>6, <2>7
<1>8. OfferedRows /\ OfferedMissed /\ TodoRows /\ TodoMissed
  BY DEF Import!Init, OfferedRows, OfferedMissed, TodoRows, TodoMissed
<1>9. EntriesFiled
  BY DEF Import!Init, EntriesFiled, Import!ToSet
<1>10. Import!EnteredOnce
  BY <1>1, <1>2, <1>3 DEF Import!EnteredOnce
<1> QED BY <1>6, <1>7, <1>8, <1>9, <1>10 DEF ImportInv

LEMMA ImportAlways == Spec => []ImportInv
<1>1. Init => ImportInv
  BY ImportBegins DEF Init
<1>2. ImportInv /\ [Next]_allVars => ImportInv'
  <2> SUFFICES ASSUME ImportInv, [Next]_allVars PROVE ImportInv'
    OBVIOUS
  <2>1. Import!Next \/ UNCHANGED importVars
    BY DEF Next, Others, Same, allVars
  <2>2. CASE Import!Next
    BY <2>2, ImportReads, ImportChooses, ImportConfirms, ImportSaves
       DEF Import!Next, Import!action_toggle_select, Import!action_select_all,
           Import!action_deselect_all, Import!action_deselect_suspect
  <2>3. CASE UNCHANGED importVars
    <3> USE <2>3 DEF importVars
    <3>1. /\ IsLedger' /\ EntriesFiled' /\ LogTold' /\ Import!EnteredOnce'
          /\ \A e : Missed(e) => Missed(e)'
      BY ImportStays
    <3>2. OfferedRows' /\ OfferedMissed'
      BY <3>1, OffersStay
    <3>3. ImportPlace' /\ InFlight' /\ Import!MissingOffered'
      BY DEF ImportInv, ImportPlace, InFlight, MadeFrom, Import!MissingOffered
    <3>4. TodoRows' /\ TodoMissed'
      BY DEF ImportInv, TodoRows, TodoMissed, Missed
    <3> QED BY <3>1, <3>2, <3>3, <3>4 DEF ImportInv
  <2> QED BY <2>1, <2>2, <2>3
<1> QED BY <1>1, <1>2, PTL DEF Spec

\* For any statements and however imports fail, are left, stopped and repeated, a charge is
\* entered twice only if the user confirmed it again on the screen that had entered it, or
\* the first entry is in no log and cannot be found in the ledger either.
THEOREM ImportEntersOnce == Spec => []EnteredOnce
<1>1. ImportInv => EnteredOnce
  BY DEF ImportInv, EnteredOnce
<1> QED BY <1>1, ImportAlways, PTL

\* For any statements, ledger and log, a charge that was not entered is offered, unless
\* another one of its amount is near.
THEOREM ImportOffersMissing == Spec => []MissingOffered
<1>1. ImportInv => MissingOffered
  BY DEF ImportInv, MissingOffered
<1> QED BY <1>1, ImportAlways, PTL

-------------------------------------------------------------------------------
(* Recurring payments *)

\* The days of the calendar, and what lies before each month.
Through == Recurring!DaysThrough
Months == 0 .. Len(MonthLens)

LEMMA ThroughIs ==
    /\ Len(MonthLens) \in Nat
    /\ \A n \in 1 .. Len(MonthLens) : MonthLens[n] \in 28 .. 31
    /\ Through \in [Months -> Nat] /\ Through[0] = 0
    /\ \A n \in 1 .. Len(MonthLens) : Through[n] = Through[n - 1] + MonthLens[n]
<1> DEFINE N == Len(MonthLens)
           D == Nat
           add(d, n) == d + MonthLens[n]
           take == [p \in D \X (1 .. N) |-> add(p[1], p[2])]
           Eqn(h) == h = [n \in 0 .. N |-> IF n = 0 THEN 0 ELSE h[n - 1] + MonthLens[n]]
<1>1. N \in Nat /\ \A n \in 1 .. N : MonthLens[n] \in 28 .. 31
  BY MenuAssumption
<1>2. take \in [D \X (1 .. N) -> D]
  BY <1>1
<1>3. PICK h : IsRun(h, D, 0, N, take)
  <2>1. IsProcess(D, 0, N, take)
    <3> HIDE DEF take
    <3> QED BY <1>1, <1>2 DEF IsProcess
  <2> HIDE DEF take, D, N
  <2> QED BY <2>1, ProcessRuns
<1>4. \A d \in D, n \in 1 .. N : take[<<d, n>>] = add(d, n)
  OBVIOUS
<1>5. ASSUME NEW n \in 1 .. N PROVE h[n] = h[n - 1] + MonthLens[n]
  <2>1. n - 1 \in 0 .. N
    BY <1>1
  <2> HIDE DEF take, N, D
  <2> QED BY <1>3, <1>4, <2>1 DEF IsRun
<1>6. Eqn(h)
  <2> HIDE DEF N, D, take
  <2>1. \A n \in 0 .. N : n = 0 \/ n \in 1 .. N
    BY <1>1
  <2>2. h \in [0 .. N -> D] /\ h[0] = 0
    BY <1>3 DEF IsRun
  <2> QED BY <1>5, <2>1, <2>2
<1>7. Eqn(Through)
  <2>1. Through = CHOOSE x : Eqn(x)
    BY DEF Through, Recurring!DaysThrough
  <2> HIDE DEF Eqn
  <2> QED BY <1>6, <2>1
<1>8. Through = h
  <2> DEFINE T == {n \in 0 .. N : Through[n] = h[n]}
  <2>1. 0 \in T
    BY <1>1, <1>6, <1>7
  <2>2. ASSUME NEW n \in 0 .. N - 1, n \in T PROVE n + 1 \in T
    <3>1. n + 1 \in 0 .. N /\ n + 1 # 0 /\ (n + 1) - 1 = n
      BY <1>1
    <3>2. Through[n + 1] = Through[n] + MonthLens[n + 1] /\ h[n + 1] = h[n] + MonthLens[n + 1]
      BY <1>6, <1>7, <3>1
    <3> HIDE DEF N, Eqn
    <3> QED BY <2>2, <3>1, <3>2
  <2>3. 0 .. N \subseteq T
    <3> HIDE DEF T
    <3> QED BY <1>1, <2>1, <2>2, UpTo
  <2>4. \E u : h = [n \in 0 .. N |-> u[n]]
    BY <1>6
  <2>5. \E u : Through = [n \in 0 .. N |-> u[n]]
    BY <1>7
  <2> HIDE DEF N, Eqn
  <2> QED BY <2>3, <2>4, <2>5
<1> HIDE DEF take, Eqn
<1> QED BY <1>1, <1>3, <1>5, <1>8 DEF IsRun, Months

\* Months are of 28 to 31 days.
LEMMA MonthsApart ==
    \A i, j \in Months :
        i <= j => /\ 28 * (j - i) <= Through[j] - Through[i]
                  /\ Through[j] - Through[i] <= 31 * (j - i)
<1> SUFFICES ASSUME NEW i \in Months
             PROVE  \A j \in Months :
                        i <= j => /\ 28 * (j - i) <= Through[j] - Through[i]
                                  /\ Through[j] - Through[i] <= 31 * (j - i)
  OBVIOUS
<1> DEFINE N == Len(MonthLens)
           T == {j \in 0 .. N : i <= j => /\ 28 * (j - i) <= Through[j] - Through[i]
                                          /\ Through[j] - Through[i] <= 31 * (j - i)}
<1>1. N \in Nat /\ i \in 0 .. N
  BY ThroughIs DEF Months
<1>2. \A j \in 0 .. N : Through[j] \in Nat
  BY ThroughIs DEF Months
<1>3. 0 \in T
  <2>1. ~ (i <= 0) \/ i = 0
    BY <1>1
  <2> QED BY <1>1, <1>2, <2>1
<1>4. ASSUME NEW j \in 0 .. N - 1, j \in T PROVE j + 1 \in T
  <2>1. j + 1 \in 1 .. N /\ (j + 1) - 1 = j /\ j \in 0 .. N
    BY <1>1
  <2>2. Through[j + 1] = Through[j] + MonthLens[j + 1] /\ MonthLens[j + 1] \in 28 .. 31
    BY <2>1, ThroughIs
  <2>3. Through[j] \in Nat /\ Through[i] \in Nat /\ Through[j + 1] \in Nat
    BY <1>1, <1>2, <2>1
  <2>4. CASE i <= j
    <3>1. /\ 28 * (j - i) <= Through[j] - Through[i]
          /\ Through[j] - Through[i] <= 31 * (j - i)
      BY <1>4, <2>4
    <3>2. i \in Int /\ j \in Int /\ MonthLens[j + 1] \in Int
      BY <1>1, <2>2
    <3>3. 28 * ((j + 1) - i) = 28 * (j - i) + 28 /\ 31 * ((j + 1) - i) = 31 * (j - i) + 31
      BY <3>2
    <3>4. /\ 28 * ((j + 1) - i) <= Through[j + 1] - Through[i]
          /\ Through[j + 1] - Through[i] <= 31 * ((j + 1) - i)
      <4> HIDE DEF T, N
      <4> QED BY <2>2, <2>3, <3>1, <3>2, <3>3
    <3> QED BY <2>1, <3>4
  <2>5. CASE i > j
    BY <1>1, <2>1, <2>3, <2>5
  <2> QED BY <1>1, <2>1, <2>4, <2>5
<1>5. 0 .. N \subseteq T
  <2> HIDE DEF T
  <2> QED BY <1>1, <1>3, <1>4, UpTo
<1> QED BY <1>5 DEF Months

\* The days on which a series may be paid lie in the calendar.
Calendar ==
    {d \in Int : \E m \in DOMAIN MonthLens :
         Recurring!MonthStart(m) <= d /\ d < Recurring!MonthStart(m) + MonthLens[m]}

\* The k-th payment after day d falls in the calendar.
Reached(d, c, k) ==
    c.months = 0 \/ Recurring!MonthOf(d) + k * c.months <= Len(MonthLens)

LEMMA MonthIs ==
    ASSUME NEW d \in Calendar
    PROVE  LET m == Recurring!MonthOf(d) IN
           /\ m \in 1 .. Len(MonthLens) /\ m - 1 \in Months /\ MonthLens[m] \in 28 .. 31
           /\ Recurring!MonthStart(m) \in Int
           /\ d - Recurring!MonthStart(m) + 1 \in 1 .. MonthLens[m]
           /\ 1 + Through[m - 1] = Recurring!MonthStart(m)
<1> DEFINE m == Recurring!MonthOf(d)
<1>1. DOMAIN MonthLens = 1 .. Len(MonthLens)
  BY MenuAssumption
<1>2. /\ m \in DOMAIN MonthLens
      /\ Recurring!MonthStart(m) <= d /\ d < Recurring!MonthStart(m) + MonthLens[m]
  BY DEF Calendar, Recurring!MonthOf
<1>3. m - 1 \in Months /\ m - 1 \in 0 .. Len(MonthLens) /\ MonthLens[m] \in 28 .. 31
  BY <1>1, <1>2, ThroughIs DEF Months
<1>4. Recurring!MonthStart(m) = 1 + Through[m - 1] /\ Through[m - 1] \in Nat
  BY <1>3, ThroughIs DEF Recurring!MonthStart, Through, Months
<1>5. d \in Int
  BY DEF Calendar
<1>6. /\ m \in 1 .. Len(MonthLens)
      /\ Recurring!MonthStart(m) \in Int
      /\ d - Recurring!MonthStart(m) + 1 \in 1 .. MonthLens[m]
      /\ 1 + Through[m - 1] = Recurring!MonthStart(m)
  <2> HIDE DEF m
  <2> QED BY <1>1, <1>2, <1>3, <1>4, <1>5
<1> QED BY <1>3, <1>6

\* A payment some months later is that many months of 28 to 31 days away, but for a day
\* that the month does not have.
LEMMA MonthsLater ==
    ASSUME NEW d \in Calendar, NEW n \in Nat \ {0},
           Recurring!MonthOf(d) + n <= Len(MonthLens)
    PROVE  \E cut \in 0 .. 3 :
               LET m == Recurring!MonthOf(d) IN
               /\ (m + n) - 1 \in Months
               /\ Recurring!_add_months(d, n) = d + (Through[(m + n) - 1] - Through[m - 1]) - cut
<1> DEFINE m == Recurring!MonthOf(d)
           at == m + n
           day == d - Recurring!MonthStart(m) + 1
<1>1. /\ m \in 1 .. Len(MonthLens) /\ m - 1 \in Months /\ MonthLens[m] \in 28 .. 31
      /\ Recurring!MonthStart(m) \in Int /\ day \in 1 .. MonthLens[m]
      /\ 1 + Through[m - 1] = Recurring!MonthStart(m)
  BY MonthIs
<1>2. at \in 1 .. Len(MonthLens) /\ at - 1 \in Months
  BY <1>1, ThroughIs DEF Months
<1>3. MonthLens[at] \in 28 .. 31 /\ Through[at - 1] \in Nat /\ Through[m - 1] \in Nat
  BY <1>1, <1>2, ThroughIs DEF Months
<1>4. Recurring!MonthStart(at) = 1 + Through[at - 1]
  BY DEF Recurring!MonthStart, Through
<1>5. Recurring!_add_months(d, n) =
          Recurring!MonthStart(at) + (IF day > MonthLens[at] THEN MonthLens[at] ELSE day) - 1
  BY DEF Recurring!_add_months
<1>6. d \in Int
  BY DEF Calendar
<1>9. m \in Int /\ day \in 1 .. MonthLens[m] /\ MonthLens[m] \in 28 .. 31
  BY <1>1
<1>10. d - Recurring!MonthStart(m) + 1 = day /\ Recurring!MonthStart(m) \in Int
  BY <1>1
<1>11. 1 + Through[m - 1] = Recurring!MonthStart(m)
  BY <1>1
<1> HIDE DEF m, at, day
<1>12. PICK p \in Int, q \in Int, l \in 28 .. 31, y \in 1 .. 31 :
           /\ p = Through[at - 1] /\ q = Through[m - 1] /\ l = MonthLens[at] /\ y = day
  BY <1>3, <1>9
<1>13. d = q + y
  BY <1>6, <1>10, <1>11, <1>12
<1>14. PICK w \in Int : w = IF y > l THEN l ELSE y
  OBVIOUS
<1>15. Recurring!_add_months(d, n) = p + w
  <2>1. Recurring!MonthStart(at) = 1 + p
    BY <1>4, <1>12
  <2>2. Recurring!_add_months(d, n) = Recurring!MonthStart(at) + w - 1
    BY <1>5, <1>12, <1>14
  <2> QED BY <2>1, <2>2
<1>16. y - w \in 0 .. 3 /\ p + w = d + (p - q) - (y - w)
  BY <1>13, <1>14
<1> QED BY <1>2, <1>12, <1>15, <1>16 DEF m, at

\* The k-th payment after a day: so many weeks or months of 28 to 31 days after it, but
\* for up to 3 days; beyond the calendar there is none.
LEMMA DueIs ==
    ASSUME NEW d \in Calendar, NEW c \in Recurring!Cadences, NEW k \in Nat \ {0}
    PROVE  /\ Recurring!Due(d, c, k) \in Int
           /\ c.months = 0 => Recurring!Due(d, c, k) = d + k * c.base
           /\ c.months # 0 /\ Reached(d, c, k) =>
                  LET m == Recurring!MonthOf(d) IN
                  /\ (m + k * c.months) - 1 \in Months
                  /\ \E cut \in 0 .. 3 :
                         Recurring!Due(d, c, k)
                             = d + (Through[(m + k * c.months) - 1] - Through[m - 1]) - cut
           /\ ~ Reached(d, c, k) => Recurring!Due(d, c, k) = d + 31 * k * c.months
<1> DEFINE m == Recurring!MonthOf(d)
<1>1. m \in Nat /\ m - 1 \in Months /\ d \in Int
  BY MonthIs, ThroughIs DEF Calendar
<1>2. c.months \in {0, 1, 3, 12} /\ c.base \in Nat
  BY DEF Recurring!Cadences, Recurring!Cadence
<1>3. k * c.base \in Int /\ k * c.months \in Nat
  BY <1>2
<1>4. c.months # 0 => k * c.months \in Nat \ {0}
  BY <1>2
<1>8. 31 * k * c.months \in Int
  BY <1>2
<1>5. CASE c.months = 0
  BY <1>1, <1>3, <1>5 DEF Recurring!Due, Reached
<1>6. CASE c.months # 0 /\ ~ Reached(d, c, k)
  <2>1. m + k * c.months > Len(MonthLens)
    BY <1>1, <1>3, <1>6, ThroughIs DEF Reached
  <2> QED BY <1>1, <1>6, <1>8, <2>1 DEF Recurring!Due
<1>7. CASE c.months # 0 /\ Reached(d, c, k)
  <2>1. m + k * c.months <= Len(MonthLens)
    BY <1>7 DEF Reached
  <2>2. ~ (m + k * c.months > Len(MonthLens))
    BY <1>1, <1>3, <2>1, ThroughIs
  <2>3. Recurring!Due(d, c, k) = Recurring!_add_months(d, k * c.months)
    BY <1>7, <2>2 DEF Recurring!Due
  <2>4. PICK cut \in 0 .. 3 :
            /\ (m + k * c.months) - 1 \in Months
            /\ Recurring!_add_months(d, k * c.months)
                   = d + (Through[(m + k * c.months) - 1] - Through[m - 1]) - cut
    BY <1>4, <1>7, <2>1, MonthsLater
  <2>5. Through[(m + k * c.months) - 1] \in Nat /\ Through[m - 1] \in Nat
    BY <1>1, <2>4, ThroughIs
  <2>6. Recurring!Due(d, c, k) \in Int
    BY <1>1, <2>3, <2>4, <2>5
  <2> HIDE DEF m
  <2> QED BY <1>7, <2>3, <2>4, <2>6 DEF m
<1> QED BY <1>5, <1>6, <1>7

\* Months less a few days.
LEMMA CutShort ==
    ASSUME NEW d \in Int, NEW p \in Int, NEW q \in Int, NEW w \in Int, NEW cut \in 0 .. 3,
           NEW low \in 0 .. 3, 28 * w <= p - q
    PROVE  /\ 28 * w - 3 <= (d + p - cut) - (d + q - low)
           /\ p - q <= 31 * w => (d + (p - q) - cut) - d <= 31 * w
           /\ 28 * w - 3 <= (d + (p - q) - cut) - d
  OBVIOUS

\* Two payments of a rhythm are far apart, the fifth is within 61 months of the first, and
\* each is late enough for the projection to get to it.
LEMMA MonthlyApart ==
    ASSUME NEW d \in Calendar, NEW c \in Recurring!Cadences, c.months # 0,
           NEW k \in Nat \ {0}, Reached(d, c, k)
    PROVE  /\ 28 * (k * c.months) - 3 <= Recurring!Due(d, c, k) - d
           /\ Recurring!Due(d, c, k) - d <= 31 * (k * c.months)
           /\ \A j \in Nat \ {0} :
                  j < k => /\ Reached(d, c, j)
                           /\ 28 * ((k - j) * c.months) - 3
                                  <= Recurring!Due(d, c, k) - Recurring!Due(d, c, j)
<1> DEFINE m == Recurring!MonthOf(d)
           x(n) == Through[(m + n * c.months) - 1]
<1>1. m \in Nat /\ m - 1 \in Months /\ d \in Int /\ Len(MonthLens) \in Nat
  BY MonthIs, ThroughIs DEF Calendar
<1>2. c.months \in {1, 3, 12}
  BY DEF Recurring!Cadences, Recurring!Cadence
<1>3. k * c.months \in Nat
  BY <1>2
<1>4. PICK cut \in 0 .. 3 :
          /\ (m + k * c.months) - 1 \in Months
          /\ Recurring!Due(d, c, k) = d + (x(k) - Through[m - 1]) - cut
  BY DueIs
<1>5. x(k) \in Nat /\ Through[m - 1] \in Nat
  BY <1>1, <1>4, ThroughIs
<1>6. 28 * (k * c.months) <= x(k) - Through[m - 1] /\ x(k) - Through[m - 1] <= 31 * (k * c.months)
  <2>1. m - 1 <= (m + k * c.months) - 1 /\ ((m + k * c.months) - 1) - (m - 1) = k * c.months
    BY <1>1, <1>3
  <2> HIDE DEF m
  <2> QED BY <1>1, <1>4, <2>1, MonthsApart
<1>7. /\ 28 * (k * c.months) - 3 <= Recurring!Due(d, c, k) - d
      /\ Recurring!Due(d, c, k) - d <= 31 * (k * c.months)
  <2>1. d + (x(k) - Through[m - 1]) - cut = Recurring!Due(d, c, k)
    BY <1>4
  <2> HIDE DEF x, m
  <2>2. x(k) \in Int /\ Through[m - 1] \in Int /\ k * c.months \in Int /\ 0 \in 0 .. 3
    BY <1>3, <1>5
  <2>3. /\ 28 * (k * c.months) - 3 <= (d + (x(k) - Through[m - 1]) - cut) - d
        /\ (d + (x(k) - Through[m - 1]) - cut) - d <= 31 * (k * c.months)
    BY <1>1, <1>6, <2>2, CutShort
  <2> QED BY <2>1, <2>3
<1>8. ASSUME NEW j \in Nat \ {0}, j < k
      PROVE  /\ Reached(d, c, j)
             /\ 28 * ((k - j) * c.months) - 3 <= Recurring!Due(d, c, k) - Recurring!Due(d, c, j)
  <2>1. j * c.months \in Nat /\ (k - j) * c.months \in Nat
    BY <1>2, <1>8
  <2>2. k * c.months = j * c.months + (k - j) * c.months
    BY <1>2
  <2>3. Reached(d, c, j)
    BY <1>1, <1>3, <2>1, <2>2 DEF Reached
  <2>4. PICK low \in 0 .. 3 :
            /\ (m + j * c.months) - 1 \in Months
            /\ Recurring!Due(d, c, j) = d + (x(j) - Through[m - 1]) - low
    BY <2>3, DueIs
  <2>5. x(j) \in Nat
    BY <2>4, ThroughIs
  <2>6. 28 * ((k - j) * c.months) <= x(k) - x(j)
    <3>1. /\ (m + j * c.months) - 1 <= (m + k * c.months) - 1
          /\ ((m + k * c.months) - 1) - ((m + j * c.months) - 1) = (k - j) * c.months
      BY <1>1, <1>3, <2>1, <2>2
    <3> HIDE DEF m
    <3> QED BY <1>4, <2>4, <3>1, MonthsApart
  <2>7. 28 * ((k - j) * c.months) - 3 <= Recurring!Due(d, c, k) - Recurring!Due(d, c, j)
    <3> DEFINE z == d - Through[m - 1]
    <3>1. z \in Int /\ x(k) \in Int /\ x(j) \in Int /\ (k - j) * c.months \in Int
      BY <1>1, <1>5, <2>1, <2>5
    <3>2. Recurring!Due(d, c, k) = z + x(k) - cut
      <4> HIDE DEF x, m
      <4> QED BY <1>1, <1>4, <1>5
    <3>3. Recurring!Due(d, c, j) = z + x(j) - low
      <4> HIDE DEF x, m
      <4> QED BY <1>1, <1>5, <2>4, <2>5
    <3> HIDE DEF x, m, z
    <3>4. 28 * ((k - j) * c.months) - 3 <= (z + x(k) - cut) - (z + x(j) - low)
      BY <2>6, <3>1, CutShort
    <3> QED BY <3>2, <3>3, <3>4
  <2> QED BY <2>3, <2>7
<1> QED BY <1>7, <1>8

\* The five rhythms.
LEMMA Rhythms ==
    ASSUME NEW c \in Recurring!Cadences
    PROVE  \/ c.months = 0 /\ c.base = 7 /\ c.tol = 2
           \/ c.months = 0 /\ c.base = 14 /\ c.tol = 3
           \/ c.months = 1 /\ c.base = 30 /\ c.tol = 6
           \/ c.months = 3 /\ c.base = 91 /\ c.tol = 10
           \/ c.months = 12 /\ c.base = 365 /\ c.tol = 20
  BY DEF Recurring!Cadences, Recurring!Cadence

\* A payment of the calendar is more than two tolerances away from every other one.
LEMMA DueApart ==
    ASSUME NEW d \in Calendar, NEW c \in Recurring!Cadences, NEW k \in Nat \ {0},
           Reached(d, c, k), NEW j \in Nat \ {0}, j # k
    PROVE  /\ Recurring!Apart(Recurring!Due(d, c, j), Recurring!Due(d, c, k)) > 2 * c.tol
           /\ j < k => Recurring!Due(d, c, j) < Recurring!Due(d, c, k)
<1> DEFINE e == Recurring!Due(d, c, k)
           f == Recurring!Due(d, c, j)
<1>1. e \in Int /\ f \in Int /\ d \in Int /\ k \in Nat \ {0} /\ c.tol \in 2 .. 20
  BY DueIs, Rhythms DEF Calendar
<1>2. CASE c.months = 0
  <2>1. e = d + k * c.base /\ f = d + j * c.base
    BY <1>1, <1>2, DueIs
  <2>2. \/ c.base = 7 /\ c.tol = 2
        \/ c.base = 14 /\ c.tol = 3
    BY <1>2, Rhythms
  <2>3. f - e > 2 * c.tol \/ e - f > 2 * c.tol
    BY <1>1, <2>1, <2>2
  <2>4. j < k => f < e
    BY <1>1, <2>1, <2>2
  <2> HIDE DEF e, f
  <2> QED BY <1>1, <2>3, <2>4 DEF Recurring!Apart, e, f
<1>3. CASE c.months # 0
  <2>1. \/ c.months = 1 /\ c.tol = 6
        \/ c.months = 3 /\ c.tol = 10
        \/ c.months = 12 /\ c.tol = 20
    BY <1>3, Rhythms
  <2>2. CASE j < k
    <3>1. 28 * ((k - j) * c.months) - 3 <= e - f
      BY <1>1, <1>3, <2>2, MonthlyApart
    <3> HIDE DEF e, f
    <3>2. e - f > 2 * c.tol
      BY <1>1, <2>1, <2>2, <3>1
    <3> QED BY <1>1, <3>2 DEF Recurring!Apart, e, f
  <2>3. CASE ~ (j < k) /\ Reached(d, c, j)
    <3>1. k < j
      BY <2>3
    <3>2. 28 * ((j - k) * c.months) - 3 <= f - e
      BY <1>1, <1>3, <2>3, <3>1, MonthlyApart
    <3> HIDE DEF e, f
    <3>3. f - e > 2 * c.tol
      BY <1>1, <2>1, <3>1, <3>2
    <3> QED BY <1>1, <2>3, <3>3 DEF Recurring!Apart, e, f
  <2>4. CASE ~ (j < k) /\ ~ Reached(d, c, j)
    <3>1. e - d <= 31 * (k * c.months)
      BY <1>1, <1>3, MonthlyApart
    <3>2. f = d + 31 * j * c.months
      BY <2>4, DueIs
    <3> HIDE DEF e, f
    <3>4. k < j
      BY <1>1, <2>4
    <3>3. f - e > 2 * c.tol
      BY <1>1, <2>1, <3>1, <3>2, <3>4
    <3> QED BY <1>1, <2>4, <3>3 DEF Recurring!Apart, e, f
  <2> QED BY <2>2, <2>3, <2>4
<1> QED BY <1>2, <1>3

\* Each payment is at least a day later than the one before it.
LEMMA DueInTime ==
    ASSUME NEW d \in Calendar, NEW c \in Recurring!Cadences, NEW k \in Nat \ {0},
           Reached(d, c, k)
    PROVE  k <= Recurring!Due(d, c, k) - d
<1> DEFINE e == Recurring!Due(d, c, k)
<1>1. e \in Int /\ d \in Int /\ k \in Nat \ {0}
  BY DueIs DEF Calendar
<1>2. CASE c.months = 0
  <2>1. e = d + k * c.base /\ c.base \in {7, 14}
    BY <1>1, <1>2, DueIs, Rhythms
  <2> HIDE DEF e
  <2> QED BY <1>1, <2>1 DEF e
<1>3. CASE c.months # 0
  <2>1. c.months \in {1, 3, 12}
    BY <1>3, Rhythms
  <2>2. 28 * (k * c.months) - 3 <= e - d
    BY <1>1, <1>3, MonthlyApart
  <2> HIDE DEF e
  <2> QED BY <1>1, <2>1, <2>2 DEF e
<1> QED BY <1>2, <1>3

\* A payment that is not after a day of the calendar is in it.
LEMMA DueReached ==
    ASSUME NEW d \in Calendar, NEW c \in Recurring!Cadences, NEW k \in Nat \ {0},
           NEW x \in Calendar, Recurring!Due(d, c, k) <= x
    PROVE  Reached(d, c, k)
<1> SUFFICES ASSUME ~ Reached(d, c, k) PROVE FALSE
  OBVIOUS
<1> DEFINE m == Recurring!MonthOf(d)
           n == Recurring!MonthOf(x)
           N == Len(MonthLens)
<1>1. Recurring!Due(d, c, k) = d + 31 * k * c.months
  BY DueIs
<1>2. c.months \in {1, 3, 12} /\ m + k * c.months > N /\ N \in Nat /\ m \in 1 .. N /\ n \in 1 .. N
  <2>1. c.months \in {1, 3, 12}
    BY Rhythms DEF Reached
  <2>2. m \in 1 .. N /\ n \in 1 .. N /\ N \in Nat
    BY MonthIs, ThroughIs
  <2>3. ~ (m + k * c.months <= N)
    BY DEF Reached
  <2> HIDE DEF m, n, N
  <2> QED BY <2>1, <2>2, <2>3
<1>3. (n - 1) - (m - 1) <= k * c.months - 1
  <2> HIDE DEF m, n, N
  <2>1. k * c.months \in Int
    BY <1>2
  <2> QED BY <1>2, <2>1
<1>4. d \in Int /\ x \in Int /\ m - 1 \in Months /\ n - 1 \in Months
  BY MonthIs DEF Calendar
<1>5. Through[m - 1] \in Int /\ Through[n - 1] \in Int
  BY <1>4, ThroughIs
<1>6. Through[m - 1] < d
  <2>1. /\ d - Recurring!MonthStart(m) + 1 \in 1 .. MonthLens[m] /\ MonthLens[m] \in 28 .. 31
        /\ 1 + Through[m - 1] = Recurring!MonthStart(m) /\ Recurring!MonthStart(m) \in Int
    BY MonthIs
  <2> HIDE DEF m
  <2> QED BY <1>4, <1>5, <2>1
<1>7. x <= Through[n - 1] + 31
  <2>1. /\ x - Recurring!MonthStart(n) + 1 \in 1 .. MonthLens[n] /\ MonthLens[n] \in 28 .. 31
        /\ 1 + Through[n - 1] = Recurring!MonthStart(n) /\ Recurring!MonthStart(n) \in Int
    BY MonthIs
  <2> HIDE DEF n
  <2> QED BY <1>4, <1>5, <2>1
<1>8. Through[n - 1] - Through[m - 1] <= 31 * (k * c.months - 1)
  <2> HIDE DEF m, n, N
  <2>1. CASE m <= n
    <3>1. Through[n - 1] - Through[m - 1] <= 31 * ((n - 1) - (m - 1))
      BY <1>2, <1>4, <2>1, MonthsApart
    <3>2. k * c.months \in Int
      BY <1>2
    <3> QED BY <1>2, <1>3, <1>5, <3>1, <3>2
  <2>2. CASE ~ (m <= n)
    <3>1. 28 * ((m - 1) - (n - 1)) <= Through[m - 1] - Through[n - 1]
      BY <1>2, <1>4, <2>2, MonthsApart
    <3>2. k * c.months \in Nat \ {0}
      BY <1>2
    <3> QED BY <1>2, <1>5, <2>2, <3>1, <3>2
  <2> QED BY <2>1, <2>2
<1>9. k * c.months \in Int /\ 31 * k * c.months = 31 * (k * c.months)
  BY <1>2
<1>10. Recurring!Due(d, c, k) <= x
  OBVIOUS
<1> HIDE DEF m, n
<1> QED BY <1>1, <1>4, <1>5, <1>6, <1>7, <1>8, <1>9, <1>10

\* How many days lie before one.
Below(S, d) == {x \in S : x < d}
Rank(S, d) == Recurring!Cardinality(Below(S, d))

LEMMA DaysCounted == \A S : Recurring!Cardinality(S) = Cardinality(S)
  BY DEF Cardinality, Recurring!Cardinality

LEMMA RankCounts == \A S, d : Rank(S, d) = Cardinality(Below(S, d))
  BY DaysCounted DEF Rank

LEMMA BelowIs ==
    ASSUME NEW S \in SUBSET Nat, NEW d \in S
    PROVE  /\ Below(S, d) \in SUBSET (S \ {d})
           /\ \A e \in S : d < e => d \in Below(S, e) /\ Below(S, d) \in SUBSET (Below(S, e) \ {d})
<1>1. \A x \in S : x \in Nat
  OBVIOUS
<1>2. ASSUME NEW x \in Below(S, d) PROVE x \in S \ {d} /\ x < d
  BY <1>1 DEF Below
<1>3. ASSUME NEW e \in S, d < e, NEW x \in Below(S, d) PROVE x \in Below(S, e) \ {d}
  <2>1. x \in S /\ x \in Nat /\ d \in Nat /\ e \in Nat /\ x < d
    BY <1>1, <1>2, <1>3
  <2>2. x < e /\ x # d
    BY <1>3, <2>1
  <2> QED BY <2>1, <2>2 DEF Below
<1>4. ASSUME NEW e \in S, d < e PROVE d \in Below(S, e)
  BY <1>4 DEF Below
<1> QED BY <1>2, <1>3, <1>4

LEMMA RankIs ==
    ASSUME NEW S \in SUBSET Nat, IsFiniteSet(S)
    PROVE  /\ \A d \in S : Rank(S, d) \in 0 .. Cardinality(S) - 1
           /\ \A d, e \in S : d < e => Rank(S, d) < Rank(S, e)
<1>1. ASSUME NEW d \in S PROVE Rank(S, d) \in Nat /\ Rank(S, d) < Cardinality(S)
  <2>1. Below(S, d) \in SUBSET (S \ {d})
    BY BelowIs
  <2>2. IsFiniteSet(S \ {d}) /\ Cardinality(S \ {d}) = Cardinality(S) - 1
    BY FS_RemoveElement
  <2>3. IsFiniteSet(Below(S, d)) /\ Rank(S, d) <= Cardinality(S \ {d})
    BY <2>1, <2>2, FS_Subset, RankCounts
  <2>4. Rank(S, d) \in Nat /\ Cardinality(S) \in Nat
    BY <2>3, FS_CardinalityType, RankCounts
  <2> QED BY <2>2, <2>3, <2>4
<1>2. ASSUME NEW d \in S, NEW e \in S, d < e PROVE Rank(S, d) < Rank(S, e)
  <2>1. Below(S, e) \in SUBSET S
    BY DEF Below
  <2>2. d \in Below(S, e) /\ Below(S, d) \in SUBSET (Below(S, e) \ {d})
    BY <1>2, BelowIs
  <2>3. IsFiniteSet(Below(S, e))
    BY <2>1, FS_Subset
  <2>4. IsFiniteSet(Below(S, e) \ {d}) /\ Cardinality(Below(S, e) \ {d}) = Rank(S, e) - 1
    BY <2>2, <2>3, FS_RemoveElement, RankCounts
  <2>5. Rank(S, d) <= Cardinality(Below(S, e) \ {d})
    BY <2>2, <2>4, FS_Subset, RankCounts
  <2> QED BY <1>1, <2>4, <2>5
<1>3. Cardinality(S) \in Nat
  BY FS_CardinalityType
<1> QED BY <1>1, <1>2, <1>3

\* Every day has its place in the order, and every place its day.
LEMMA InOrderIs ==
    ASSUME NEW S \in SUBSET Nat, IsFiniteSet(S)
    PROVE  LET order == Recurring!InOrder(S) N == Cardinality(S) IN
           /\ N \in Nat /\ order \in [1 .. N -> S]
           /\ \A i, j \in 1 .. N : i < j => order[i] < order[j]
           /\ \A d \in S : \E i \in 1 .. N : order[i] = d
           /\ \A i \in 1 .. N : Rank(S, order[i]) = i - 1
<1> DEFINE order == Recurring!InOrder(S)
           N == Cardinality(S)
           T == {i \in 0 .. N - 1 : \E d \in S : Rank(S, d) = i}
<1>1. N \in Nat
  BY FS_CardinalityType
<1>2. ASSUME N > 0 PROVE 0 .. N - 1 \subseteq T
  <2>1. S # {}
    BY <1>2, FS_EmptySet
  <2>2. 0 \in T
    <3>1. PICK d \in S : \A x \in S : d <= x
      BY <2>1, LeastNumber
    <3>4. \A x \in S : ~ (x < d)
      <4>1. ASSUME NEW x \in S, x < d PROVE FALSE
        <5>1. x \in Nat /\ d \in Nat /\ d <= x
          BY <3>1
        <5> QED BY <4>1, <5>1
      <4> QED BY <4>1
    <3>2. Below(S, d) = {}
      BY <3>4 DEF Below
    <3>3. Rank(S, d) = 0
      BY <3>2, FS_EmptySet, RankCounts
    <3> QED BY <1>1, <1>2, <3>3
  <2>3. ASSUME NEW i \in 0 .. (N - 1) - 1, i \in T PROVE i + 1 \in T
    <3>1. PICK d \in S : Rank(S, d) = i
      BY <2>3
    <3> DEFINE A == Below(S, d)
               B == {x \in S : d < x}
    <3>2. A \in SUBSET S /\ d \notin A
      BY DEF Below
    <3>8. IsFiniteSet(A) /\ Cardinality(A) = i
      BY <3>1, <3>2, FS_Subset, RankCounts
    <3>3. IsFiniteSet(A \cup {d}) /\ Cardinality(A \cup {d}) = i + 1
      BY <3>2, <3>8, FS_AddElement
    <3>4. B # {}
      <4>1. ASSUME B = {}, NEW x \in S PROVE x \in A \cup {d}
        <5>1. x \in Nat /\ d \in Nat /\ ~ (d < x)
          BY <4>1
        <5> QED BY <5>1 DEF Below
      <4>2. B = {} => S = A \cup {d}
        BY <3>2, <4>1
      <4> HIDE DEF A, B
      <4> QED BY <1>1, <3>3, <4>2
    <3>5. PICK e \in B : \A x \in B : e <= x
      <4>1. B \in SUBSET Nat
        OBVIOUS
      <4> HIDE DEF B
      <4> QED BY <3>4, <4>1, LeastNumber
    <3>6. Below(S, e) = A \cup {d}
      <4>1. e \in S /\ d < e
        BY <3>5
      <4>2. ASSUME NEW x \in S PROVE x < e <=> (x < d \/ x = d)
        <5>1. x \in Nat /\ d \in Nat /\ e \in Nat
          OBVIOUS
        <5>2. d < x => e <= x
          BY <3>5
        <5> HIDE DEF A, B
        <5> QED BY <4>1, <5>1, <5>2
      <4> QED BY <4>2 DEF Below
    <3>7. Rank(S, e) = i + 1
      BY <3>3, <3>6, RankCounts
    <3> QED BY <1>1, <3>5, <3>7
  <2> HIDE DEF T
  <2> QED BY <1>1, <1>2, <2>2, <2>3, UpTo
<1>7. order = [i \in 1 .. N |-> CHOOSE d \in S : Rank(S, d) = i - 1]
  <2>1. order = [i \in 1 .. Recurring!Cardinality(S) |->
                    CHOOSE d \in S : Rank(S, d) = i - 1]
    BY Zenon DEF Recurring!InOrder, Rank, Below
  <2> QED BY <2>1, DaysCounted
<1>3. ASSUME NEW i \in 1 .. N PROVE order[i] \in S /\ Rank(S, order[i]) = i - 1
  <2>1. i - 1 \in 0 .. N - 1 /\ N > 0
    BY <1>1
  <2>2. \E d \in S : Rank(S, d) = i - 1
    BY <1>2, <2>1
  <2>3. order[i] = CHOOSE d \in S : Rank(S, d) = i - 1
    <3> HIDE DEF order
    <3> QED BY <1>7
  <2> HIDE DEF order
  <2> QED BY <2>2, <2>3
<1>4. order \in [1 .. N -> S]
  <2> DEFINE at(i) == CHOOSE d \in S : Rank(S, d) = i - 1
  <2>1. order = [i \in 1 .. N |-> at(i)]
    BY <1>7
  <2> HIDE DEF order, at
  <2>2. \A i \in 1 .. N : at(i) \in S
    BY <1>3, <2>1
  <2> QED BY <2>1, <2>2
<1>5. ASSUME NEW i \in 1 .. N, NEW j \in 1 .. N, i < j PROVE order[i] < order[j]
  <2>1. order[i] \in Nat /\ order[j] \in Nat
    BY <1>3
  <2> DEFINE a == order[i]
             b == order[j]
  <2>3. a \in S /\ b \in S /\ Rank(S, a) = i - 1 /\ Rank(S, b) = j - 1
    BY <1>3
  <2>2. ~ (b < a) /\ a # b
    <3> HIDE DEF a, b
    <3>1. b < a => Rank(S, b) < Rank(S, a)
      BY <2>3, RankIs
    <3> QED BY <1>1, <1>5, <2>3, <3>1
  <2> HIDE DEF order
  <2> QED BY <2>1, <2>2
<1>6. ASSUME NEW d \in S PROVE \E i \in 1 .. N : order[i] = d
  <2>1. Rank(S, d) \in 0 .. N - 1
    BY RankIs
  <2> DEFINE i == Rank(S, d) + 1
  <2>2. i \in 1 .. N /\ i - 1 = Rank(S, d)
    BY <1>1, <2>1
  <2>3. order[i] \in S /\ Rank(S, order[i]) = Rank(S, d)
    BY <1>3, <2>2
  <2>4. ~ (order[i] < d) /\ ~ (d < order[i])
    <3> DEFINE a == order[i]
    <3>1. Rank(S, d) \in Int /\ a \in S /\ Rank(S, a) = Rank(S, d)
      BY <2>1, <2>3
    <3> HIDE DEF a
    <3>2. /\ a < d => Rank(S, a) < Rank(S, d)
          /\ d < a => Rank(S, d) < Rank(S, a)
      BY <3>1, RankIs
    <3> QED BY <3>1, <3>2 DEF a
  <2>5. order[i] \in Nat /\ d \in Nat
    BY <2>3
  <2> HIDE DEF order, i
  <2> QED BY <2>2, <2>4, <2>5
<1>8. \A i \in 1 .. N : Rank(S, order[i]) = i - 1
  BY <1>3
<1> HIDE DEF order
<1> QED BY <1>1, <1>4, <1>5, <1>6, <1>8 DEF order

\* What follows is said of the events of one series.
EventsOf(S) == Recurring!_collapse_events(S)

\* Each day after n of them that no event can stand for is an event itself.
Collapsed(S, events, n) ==
    /\ events \in Seq(S)
    /\ n > 0 => events # << >>
    /\ \A i \in DOMAIN events : \E k \in 1 .. n : events[i] = Recurring!InOrder(S)[k]
    /\ \A k \in 1 .. n :
           LET d == Recurring!InOrder(S)[k] IN
           (\A x \in S : x < d => d - x > 3) => \E i \in DOMAIN events : events[i] = d

LEMMA CollapseIs ==
    ASSUME NEW S \in SUBSET Nat, IsFiniteSet(S), NEW n \in 1 .. Cardinality(S), NEW events,
           Collapsed(S, events, n - 1)
    PROVE  Collapsed(S, Recurring!Collapse(events, Recurring!InOrder(S)[n]), n)
<1> DEFINE order == Recurring!InOrder(S)
           N == Cardinality(S)
           next == Recurring!Collapse(events, order[n])
<1>1. /\ N \in Nat /\ order \in [1 .. N -> S] /\ n \in 1 .. N
      /\ \A i, j \in 1 .. N : i < j => order[i] < order[j]
  BY InOrderIs
<1>2. /\ events \in Seq(S)
      /\ \A i \in DOMAIN events : \E k \in 1 .. n - 1 : events[i] = order[k]
      /\ \A k \in 1 .. n - 1 :
             (\A x \in S : x < order[k] => order[k] - x > 3) =>
                 \E i \in DOMAIN events : events[i] = order[k]
  BY DEF Collapsed
<1> HIDE DEF order, N
<1>8. \A k \in 1 .. N : order[k] \in S /\ order[k] \in Nat
  <2>1. \A k \in 1 .. N : order[k] \in S
    BY <1>1
  <2>2. \A x \in S : x \in Nat
    OBVIOUS
  <2> QED BY <2>1, <2>2
<1>9. n \in Nat /\ n > 0 /\ \A k \in 1 .. n - 1 : k \in 1 .. n /\ k \in 1 .. N /\ k < n
  BY <1>1
<1>3. order[n] \in S /\ order[n] \in Nat /\ n \in Nat /\ n > 0
  BY <1>1, <1>8, <1>9
<1>4. \A k \in 1 .. n : k \in 1 .. n - 1 \/ k = n
  BY <1>1
<1>5. \A k \in 1 .. n - 1 : k \in 1 .. n /\ order[k] \in S /\ order[k] \in Nat /\ order[k] < order[n]
  BY <1>1, <1>8, <1>9
<1>6. CASE events # << >> /\ order[n] - Recurring!Last(events) <= 3
  <2>1. next = events
    BY <1>6 DEF Recurring!Collapse, Recurring!SAME_EVENT_DAYS
  <2>2. Len(events) \in DOMAIN events /\ Recurring!Last(events) = events[Len(events)]
    BY <1>2, <1>6 DEF Recurring!Last
  <2>3. PICK k \in 1 .. n - 1 : Recurring!Last(events) = order[k]
    BY <1>2, <2>2
  <2>4. ~ \A x \in S : x < order[n] => order[n] - x > 3
    <3>1. order[k] \in S /\ order[k] < order[n] /\ order[n] - order[k] <= 3 /\ order[k] \in Nat
      BY <1>5, <1>6, <2>3
    <3> QED BY <1>3, <3>1
  <2> HIDE DEF next
  <2> QED BY <1>2, <1>4, <1>5, <1>6, <2>1, <2>4 DEF Collapsed, next, order
<1>7. CASE ~ (events # << >> /\ order[n] - Recurring!Last(events) <= 3)
  <2>1. next = Append(events, order[n])
    BY <1>7 DEF Recurring!Collapse, Recurring!SAME_EVENT_DAYS
  <2>2. /\ next \in Seq(S) /\ next # << >> /\ Len(next) = Len(events) + 1
        /\ DOMAIN events = 1 .. Len(events) /\ DOMAIN next = 1 .. Len(next)
        /\ Len(events) \in Nat
        /\ next[Len(events) + 1] = order[n]
        /\ \A i \in DOMAIN events : next[i] = events[i]
    <3> HIDE DEF next
    <3>1. events \in Seq(S) /\ order[n] \in S
      BY <1>2, <1>3
    <3> QED BY <2>1, <3>1
  <2> HIDE DEF next
  <2>3. \A i \in DOMAIN next : i \in DOMAIN events \/ i = Len(events) + 1
    BY <2>2
  <2>4. Len(events) + 1 \in DOMAIN next /\ \A i \in DOMAIN events : i \in DOMAIN next
    BY <2>2
  <2>5. \A i \in DOMAIN next : \E k \in 1 .. n : next[i] = order[k]
    <3>1. ASSUME NEW i \in DOMAIN next PROVE \E k \in 1 .. n : next[i] = order[k]
      <4>1. CASE i \in DOMAIN events
        <5>1. PICK k \in 1 .. n - 1 : events[i] = order[k]
          BY <1>2, <4>1
        <5> QED BY <1>5, <2>2, <4>1, <5>1
      <4>2. CASE i = Len(events) + 1
        BY <1>9, <2>2, <4>2
      <4> QED BY <2>3, <4>1, <4>2
    <3> QED BY <3>1
  <2>6. \A k \in 1 .. n :
            (\A x \in S : x < order[k] => order[k] - x > 3) =>
                \E i \in DOMAIN next : next[i] = order[k]
    BY <1>2, <1>4, <2>2, <2>4
  <2> QED BY <2>2, <2>5, <2>6 DEF Collapsed, next, order
<1> QED BY <1>6, <1>7

LEMMA EventsAre ==
    ASSUME NEW S \in SUBSET Nat, IsFiniteSet(S)
    PROVE  /\ EventsOf(S) \in Seq(S)
           /\ S # {} => EventsOf(S) # << >>
           /\ \A d \in S : (\A x \in S : x < d => d - x > 3) =>
                               \E i \in DOMAIN EventsOf(S) : EventsOf(S)[i] = d
<1> DEFINE order == Recurring!InOrder(S)
           N == Cardinality(S)
           D == Seq(S)
           add(events, n) == Recurring!Collapse(events, order[n])
           take == [p \in D \X (1 .. N) |-> add(p[1], p[2])]
           Eqn(h) == h = [n \in 0 .. N |-> IF n = 0 THEN << >> ELSE add(h[n - 1], n)]
<1>1. /\ N \in Nat /\ order \in [1 .. N -> S]
      /\ \A d \in S : \E i \in 1 .. N : order[i] = d
  BY InOrderIs
<1>2. ASSUME NEW events \in D, NEW n \in 1 .. N PROVE add(events, n) \in D
  <2>1. order[n] \in S
    <3> HIDE DEF order
    <3> QED BY <1>1
  <2> HIDE DEF order
  <2> QED BY <2>1 DEF Recurring!Collapse
<1>3. take \in [D \X (1 .. N) -> D]
  <2> HIDE DEF add, D, N
  <2> QED BY <1>2
<1>4. \A events \in D, n \in 1 .. N : take[<<events, n>>] = add(events, n)
  OBVIOUS
<1>5. PICK h : IsRun(h, D, << >>, N, take)
  <2>1. << >> \in D
    OBVIOUS
  <2> HIDE DEF take, D, N
  <2>2. IsProcess(D, << >>, N, take)
    BY <1>1, <1>3, <2>1 DEF IsProcess
  <2> QED BY <2>2, ProcessRuns
<1>6. ASSUME NEW n \in 1 .. N PROVE h[n] = add(h[n - 1], n)
  <2>1. n - 1 \in 0 .. N
    BY <1>1
  <2> HIDE DEF take, add, N, D
  <2> QED BY <1>4, <1>5, <2>1 DEF IsRun
<1>7. Eqn(h)
  <2> HIDE DEF N, D, take, add
  <2>1. \A n \in 0 .. N : n = 0 \/ n \in 1 .. N
    BY <1>1
  <2>2. h \in [0 .. N -> D] /\ h[0] = << >>
    BY <1>5 DEF IsRun
  <2> QED BY <1>6, <2>1, <2>2
<1>8. PICK g : Eqn(g) /\ EventsOf(S) = g[N]
  <2>1. EventsOf(S) = (CHOOSE x : Eqn(x))[N]
    BY DaysCounted DEF EventsOf, Recurring!_collapse_events
  <2>2. Eqn(CHOOSE x : Eqn(x))
    <3> HIDE DEF Eqn
    <3> QED BY <1>7
  <2> HIDE DEF Eqn, N
  <2> QED BY <2>1, <2>2
<1> DEFINE T == {n \in 0 .. N : Collapsed(S, g[n], n)}
<1>9. 0 \in T
  <2>1. g[0] = << >>
    BY <1>1, <1>8
  <2>2. << >> \in Seq(S) /\ DOMAIN << >> = {}
    OBVIOUS
  <2>3. Collapsed(S, << >>, 0)
    BY <2>2 DEF Collapsed
  <2> HIDE DEF Eqn
  <2> QED BY <1>1, <2>1, <2>3
<1>10. ASSUME NEW n \in 0 .. N - 1, n \in T PROVE n + 1 \in T
  <2>1. n + 1 \in 0 .. N /\ n + 1 # 0 /\ (n + 1) - 1 = n /\ n + 1 \in 1 .. N
    BY <1>1
  <2>2. g[n + 1] = add(g[n], n + 1)
    <3> HIDE DEF add, N
    <3> QED BY <1>8, <2>1
  <2>3. Collapsed(S, g[n], n)
    BY <1>10
  <2>4. Collapsed(S, g[n + 1], n + 1)
    BY <2>1, <2>2, <2>3, CollapseIs
  <2> HIDE DEF N, Eqn
  <2> QED BY <2>1, <2>4
<1>11. Collapsed(S, g[N], N)
  <2> HIDE DEF T
  <2>1. 0 .. N \subseteq T
    BY <1>1, <1>9, <1>10, UpTo
  <2>2. N \in T
    BY <1>1, <2>1
  <2> QED BY <2>2 DEF T
<1>12. S # {} => N > 0
  <2> HIDE DEF order, N
  <2>1. \A i \in 1 .. N : N > 0
    BY <1>1
  <2> QED BY <1>1, <2>1
<1>13. ASSUME NEW d \in S, \A x \in S : x < d => d - x > 3
       PROVE  \E i \in DOMAIN g[N] : g[N][i] = d
  <2>1. PICK k \in 1 .. N : order[k] = d
    BY <1>1
  <2> QED BY <1>11, <1>13, <2>1 DEF Collapsed
<1> HIDE DEF N, Eqn
<1> QED BY <1>8, <1>11, <1>12, <1>13 DEF Collapsed

\* Expected dates of which the first n found an event or did not.
Taken(expected, events, tol, acc, n) ==
    /\ DOMAIN acc = {"used", "missed"} /\ acc = [used |-> acc.used, missed |-> acc.missed]
    /\ \A i \in acc.used \cap DOMAIN events :
           \E j \in 1 .. n : Recurring!Apart(events[i], expected[j]) <= tol
    /\ \A j \in 1 .. n :
           (\A i \in DOMAIN events : ~ (Recurring!Apart(events[i], expected[j]) <= tol)) =>
               expected[j] \in acc.missed
    /\ \A e \in acc.missed :
           \E j \in 1 .. n :
               /\ expected[j] = e
               /\ \A i \in DOMAIN events :
                      Recurring!Apart(events[i], e) <= tol =>
                          \E l \in 1 .. j - 1 : Recurring!Apart(events[i], expected[l]) <= tol

LEMMA TakeIs ==
    ASSUME NEW expected, NEW events, NEW tol, NEW acc, NEW n \in Nat,
           DOMAIN events \in SUBSET Nat, Taken(expected, events, tol, acc, n)
    PROVE  Taken(expected, events, tol, Recurring!Take(events, tol, acc, expected[n + 1]), n + 1)
<1> DEFINE e == expected[n + 1]
           near == {i \in DOMAIN events \ acc.used : Recurring!Apart(events[i], e) <= tol}
           next == Recurring!Take(events, tol, acc, e)
<1>1. /\ acc = [used |-> acc.used, missed |-> acc.missed]
      /\ \A i \in acc.used \cap DOMAIN events :
             \E j \in 1 .. n : Recurring!Apart(events[i], expected[j]) <= tol
      /\ \A j \in 1 .. n :
             (\A i \in DOMAIN events : ~ (Recurring!Apart(events[i], expected[j]) <= tol)) =>
                 expected[j] \in acc.missed
      /\ \A x \in acc.missed :
             \E j \in 1 .. n :
                 /\ expected[j] = x
                 /\ \A i \in DOMAIN events :
                        Recurring!Apart(events[i], x) <= tol =>
                            \E l \in 1 .. j - 1 : Recurring!Apart(events[i], expected[l]) <= tol
  BY DEF Taken
<1>2. \A j \in 1 .. n + 1 : j \in 1 .. n \/ j = n + 1
  OBVIOUS
<1>3. n + 1 \in 1 .. n + 1 /\ 1 .. n \subseteq 1 .. n + 1 /\ (n + 1) - 1 = n
  OBVIOUS
<1>4. CASE near = {}
  <2>1. next = [used |-> acc.used, missed |-> acc.missed \cup {e}]
    <3>1. next = [acc EXCEPT !.missed = @ \cup {e}]
      BY <1>4 DEF Recurring!Take
    <3> HIDE DEF next, e
    <3> QED BY <1>1, <3>1
  <2>2. next.used = acc.used /\ next.missed = acc.missed \cup {e}
    BY <2>1
  <2>3. \A i \in DOMAIN events : Recurring!Apart(events[i], e) <= tol => i \in acc.used
    BY <1>4
  <2> HIDE DEF next, near
  <2>4. \A i \in DOMAIN events :
            Recurring!Apart(events[i], e) <= tol =>
                \E l \in 1 .. (n + 1) - 1 : Recurring!Apart(events[i], expected[l]) <= tol
    <3> HIDE DEF e
    <3> QED BY <1>1, <1>3, <2>3
  <2>5. \A x \in next.missed :
            \E j \in 1 .. n + 1 :
                /\ expected[j] = x
                /\ \A i \in DOMAIN events :
                       Recurring!Apart(events[i], x) <= tol =>
                           \E l \in 1 .. j - 1 : Recurring!Apart(events[i], expected[l]) <= tol
    <3>1. ASSUME NEW x \in acc.missed
          PROVE  \E j \in 1 .. n + 1 :
                     /\ expected[j] = x
                     /\ \A i \in DOMAIN events :
                            Recurring!Apart(events[i], x) <= tol =>
                                \E l \in 1 .. j - 1 : Recurring!Apart(events[i], expected[l]) <= tol
      BY <1>1, <1>3
    <3> QED BY <1>3, <2>2, <2>4, <3>1
  <2>6. \A j \in 1 .. n + 1 :
            (\A i \in DOMAIN events : ~ (Recurring!Apart(events[i], expected[j]) <= tol)) =>
                expected[j] \in next.missed
    BY <1>1, <1>2, <2>2
  <2>7. \A i \in next.used \cap DOMAIN events :
            \E j \in 1 .. n + 1 : Recurring!Apart(events[i], expected[j]) <= tol
    BY <1>1, <1>3, <2>2
  <2> QED BY <2>1, <2>5, <2>6, <2>7 DEF Taken, next, e
<1>5. CASE near # {}
  <2> DEFINE i0 == CHOOSE i \in near : \A j \in near : i <= j
  <2>1. i0 \in near
    <3>1. near \in SUBSET Nat
      OBVIOUS
    <3> HIDE DEF near
    <3> QED BY <1>5, <3>1, LeastNumber
  <2>2. next = [used |-> acc.used \cup {i0}, missed |-> acc.missed]
    <3>1. next = [acc EXCEPT !.used = @ \cup {i0}]
      BY <1>5 DEF Recurring!Take
    <3> HIDE DEF next, e, i0
    <3> QED BY <1>1, <3>1
  <2>3. next.used = acc.used \cup {i0} /\ next.missed = acc.missed
    BY <2>2
  <2>4. i0 \in DOMAIN events /\ Recurring!Apart(events[i0], e) <= tol
    BY <2>1
  <2> HIDE DEF next, near, i0
  <2>5. \A x \in next.missed :
            \E j \in 1 .. n + 1 :
                /\ expected[j] = x
                /\ \A i \in DOMAIN events :
                       Recurring!Apart(events[i], x) <= tol =>
                           \E l \in 1 .. j - 1 : Recurring!Apart(events[i], expected[l]) <= tol
    BY <1>1, <1>3, <2>3
  <2>6. \A j \in 1 .. n + 1 :
            (\A i \in DOMAIN events : ~ (Recurring!Apart(events[i], expected[j]) <= tol)) =>
                expected[j] \in next.missed
    BY <1>1, <1>2, <2>3, <2>4
  <2>7. \A i \in next.used \cap DOMAIN events :
            \E j \in 1 .. n + 1 : Recurring!Apart(events[i], expected[j]) <= tol
    BY <1>1, <1>3, <2>3, <2>4
  <2> QED BY <2>2, <2>5, <2>6, <2>7 DEF Taken, next, e
<1> QED BY <1>4, <1>5

\* A date is unmatched if no event is near it, and only if those that are were near dates
\* before it.
LEMMA UnmatchedAre ==
    ASSUME NEW expected, Len(expected) \in Nat, NEW events, DOMAIN events \in SUBSET Nat, NEW tol
    PROVE  \E acc : /\ Taken(expected, events, tol, acc, Len(expected))
                    /\ acc.missed = Recurring!Unmatched(expected, events, tol)
<1> DEFINE N == Len(expected)
           first == [used |-> {}, missed |-> {}]
           D == [used : SUBSET DOMAIN events, missed : SUBSET {expected[j] : j \in 1 .. N}]
           add(acc, n) == Recurring!Take(events, tol, acc, expected[n])
           take == [p \in D \X (1 .. N) |-> add(p[1], p[2])]
           Eqn(h) == h = [n \in 0 .. N |-> IF n = 0 THEN first ELSE add(h[n - 1], n)]
<1>1. ASSUME NEW acc \in D, NEW n \in 1 .. N PROVE add(acc, n) \in D
  <2> DEFINE e == expected[n]
             near == {i \in DOMAIN events \ acc.used : Recurring!Apart(events[i], e) <= tol}
             i0 == CHOOSE i \in near : \A j \in near : i <= j
  <2>1. e \in {expected[j] : j \in 1 .. N}
    OBVIOUS
  <2>2. CASE near = {}
    <3>1. add(acc, n) = [acc EXCEPT !.missed = @ \cup {e}]
      BY <2>2 DEF Recurring!Take
    <3> HIDE DEF add, e
    <3> QED BY <2>1, <3>1
  <2>3. CASE near # {}
    <3>1. i0 \in near
      <4>1. near \in SUBSET Nat
        OBVIOUS
      <4> HIDE DEF near
      <4> QED BY <2>3, <4>1, LeastNumber
    <3>2. i0 \in DOMAIN events
      BY <3>1
    <3>3. add(acc, n) = [acc EXCEPT !.used = @ \cup {i0}]
      BY <2>3 DEF Recurring!Take
    <3> HIDE DEF add, e, i0
    <3> QED BY <3>2, <3>3
  <2> QED BY <2>2, <2>3
<1>2. take \in [D \X (1 .. N) -> D]
  <2> HIDE DEF add, D, N
  <2> QED BY <1>1
<1>3. \A acc \in D, n \in 1 .. N : take[<<acc, n>>] = add(acc, n)
  OBVIOUS
<1>4. PICK h : IsRun(h, D, first, N, take)
  <2>1. first \in D
    OBVIOUS
  <2> HIDE DEF take, D, first
  <2>2. IsProcess(D, first, N, take)
    BY <1>2, <2>1 DEF IsProcess
  <2> HIDE DEF N
  <2> QED BY <2>2, ProcessRuns
<1>5. ASSUME NEW n \in 1 .. N PROVE h[n] = add(h[n - 1], n)
  <2>1. n - 1 \in 0 .. N
    OBVIOUS
  <2> HIDE DEF take, add, N, D, first
  <2> QED BY <1>3, <1>4, <2>1 DEF IsRun
<1>6. Eqn(h)
  <2>1. \A n \in 0 .. N : n = 0 \/ n \in 1 .. N
    OBVIOUS
  <2> HIDE DEF N, D, take, add, first
  <2>2. h \in [0 .. N -> D] /\ h[0] = first
    BY <1>4 DEF IsRun
  <2> QED BY <1>5, <2>1, <2>2
<1>7. PICK g : Eqn(g) /\ Recurring!Unmatched(expected, events, tol) = g[N].missed
  <2>1. Recurring!Unmatched(expected, events, tol) = (CHOOSE x : Eqn(x))[N].missed
    BY DEF Recurring!Unmatched
  <2>2. Eqn(CHOOSE x : Eqn(x))
    <3> HIDE DEF Eqn
    <3> QED BY <1>6
  <2> HIDE DEF Eqn, N
  <2> QED BY <2>1, <2>2
<1> DEFINE T == {n \in 0 .. N : Taken(expected, events, tol, g[n], n)}
<1>8. 0 \in T
  <2>1. g[0] = first
    BY <1>7
  <2>2. Taken(expected, events, tol, first, 0)
    BY DEF Taken
  <2> HIDE DEF Eqn, first
  <2> QED BY <2>1, <2>2
<1>9. ASSUME NEW n \in 0 .. N - 1, n \in T PROVE n + 1 \in T
  <2>1. n + 1 \in 0 .. N /\ n + 1 # 0 /\ (n + 1) - 1 = n /\ n \in Nat
    OBVIOUS
  <2>2. g[n + 1] = add(g[n], n + 1)
    <3> HIDE DEF add, N, first
    <3> QED BY <1>7, <2>1
  <2>3. Taken(expected, events, tol, g[n], n)
    BY <1>9
  <2>4. Taken(expected, events, tol, g[n + 1], n + 1)
    BY <2>1, <2>2, <2>3, TakeIs
  <2> HIDE DEF N, Eqn
  <2> QED BY <2>1, <2>4
<1>10. Taken(expected, events, tol, g[N], N)
  <2> HIDE DEF T
  <2>1. 0 .. N \subseteq T
    BY <1>8, <1>9, UpTo
  <2>2. N \in T
    BY <2>1
  <2> QED BY <2>2 DEF T
<1> HIDE DEF Eqn
<1> QED BY <1>7, <1>10

\* Payments are on days of the calendar, and a series has finitely many.
RecurringInv ==
    /\ today \in Nat
    /\ DOMAIN paid = Series
    /\ \A s \in Series : paid[s] \subseteq PayDays[s] /\ IsFiniteSet(paid[s])

\* A series has one cadence at most.
LEMMA OneCadence ==
    \A events : \A b, c \in Recurring!CadenceOf(events) : b = c /\ c \in Recurring!Cadences
<1> SUFFICES ASSUME NEW events, NEW b \in Recurring!CadenceOf(events),
                    NEW c \in Recurring!CadenceOf(events)
             PROVE  b = c /\ c \in Recurring!Cadences
  OBVIOUS
<1>1. PICK m : b \in Recurring!_classify(m) /\ c \in Recurring!_classify(m)
  BY DEF Recurring!CadenceOf
<1>2. b \in Recurring!Cadences /\ c \in Recurring!Cadences /\ b.base <= c.base /\ c.base <= b.base
  BY <1>1 DEF Recurring!_classify, Recurring!Fitting
<1>3. b.base = c.base
  BY <1>2, Rhythms
<1> QED BY <1>2, <1>3 DEF Recurring!Cadences, Recurring!Cadence

\* The payments that are not after today are expected, 2000 at most.
LEMMA ExpectedAre ==
    ASSUME NEW d \in Calendar, NEW events, events[1] = d, NEW c \in Recurring!Cadences,
           NEW as_of \in Nat
    PROVE  LET expected == Recurring!_project_expected(events, c, as_of) IN
           /\ Len(expected) \in Nat
           /\ \A j \in 1 .. Len(expected) : expected[j] = Recurring!Due(d, c, j)
           /\ \A k \in 1 .. Recurring!MAX_PERIODS :
                  Reached(d, c, k) /\ Recurring!Due(d, c, k) <= as_of => k \in 1 .. Len(expected)
<1> DEFINE horizon == as_of + c.base
           K == horizon - d
           ks == {k \in 1 .. K : k <= Recurring!MAX_PERIODS /\ Recurring!Due(d, c, k) <= horizon}
           N == Cardinality(ks)
           expected == Recurring!_project_expected(events, c, as_of)
<1>1. c.base \in {7, 14, 30, 91, 365} /\ d \in Int /\ as_of \in Int
  BY Rhythms DEF Calendar
<1>2. K \in Int
  BY <1>1
<1>3. IsFiniteSet(ks) /\ N \in Nat
  <2>1. IsFiniteSet(1 .. K)
    BY <1>2, FS_Interval
  <2>2. ks \in SUBSET (1 .. K)
    OBVIOUS
  <2> HIDE DEF ks, K
  <2> QED BY <2>1, <2>2, FS_Subset, FS_CardinalityType
<1>4. expected = [k \in 1 .. N |-> Recurring!Due(d, c, k)]
  <2>1. expected = [k \in 1 .. Recurring!Cardinality(ks) |-> Recurring!Due(d, c, k)]
    BY DEF Recurring!_project_expected
  <2> HIDE DEF ks, expected
  <2> QED BY <2>1, DaysCounted
<1>5. ASSUME NEW k \in 1 .. 2000, Reached(d, c, k), Recurring!Due(d, c, k) <= as_of PROVE k <= N
  <2>1. k <= K
    <3>1. k <= Recurring!Due(d, c, k) - d /\ Recurring!Due(d, c, k) \in Int
      BY <1>5, DueInTime, DueIs
    <3> QED BY <1>1, <1>5, <3>1
  <2>2. ASSUME NEW j \in 1 .. k PROVE j \in ks
    <3>1. j \in Nat \ {0} /\ k \in Nat \ {0} /\ j \in 1 .. K /\ j <= 2000
      <4> HIDE DEF K
      <4> QED BY <1>2, <2>1
    <3>2. Recurring!Due(d, c, j) <= Recurring!Due(d, c, k)
      <4>1. CASE j = k
        BY <3>1, <4>1, DueIs
      <4>2. CASE j # k
        <5>1. j < k
          BY <3>1, <4>2
        <5> QED BY <1>5, <3>1, <4>2, <5>1, DueApart, DueIs
      <4> QED BY <4>1, <4>2
    <3>3. Recurring!Due(d, c, j) <= horizon
      BY <1>1, <1>5, <3>1, <3>2, DueIs
    <3> HIDE DEF K, horizon
    <3> QED BY <3>1, <3>3 DEF Recurring!MAX_PERIODS
  <2>3. 1 .. k \in SUBSET ks
    <3> HIDE DEF ks
    <3> QED BY <2>2
  <2>4. IsFiniteSet(1 .. k) /\ Cardinality(1 .. k) = k
    <3>1. 1 \in Int /\ k \in Int /\ ~ (1 > k)
      OBVIOUS
    <3>2. IsFiniteSet(1 .. k) /\ Cardinality(1 .. k) = k - 1 + 1
      BY <3>1, FS_Interval
    <3> QED BY <3>1, <3>2
  <2> HIDE DEF ks
  <2> QED BY <1>3, <2>3, <2>4, FS_Subset
<1> HIDE DEF N, expected
<1>6. Len(expected) = N
  BY <1>3, <1>4
<1> QED BY <1>3, <1>4, <1>5, <1>6 DEF expected, Recurring!MAX_PERIODS

\* What is reported up to the last payment is what found no event.
LEMMA MissingAre ==
    ASSUME NEW days, NEW as_of, NEW c \in Recurring!CadenceOf(EventsOf(days)), NEW e,
           e <= Recurring!Last(EventsOf(days))
    PROVE  e \in Recurring!MissingOf(days, as_of) <=>
               e \in Recurring!Unmatched(
                         Recurring!_project_expected(EventsOf(days), c, as_of),
                         EventsOf(days), c.tol)
<1> DEFINE events == EventsOf(days)
           missed == Recurring!Unmatched(Recurring!_project_expected(events, c, as_of), events, c.tol)
<1>1. Recurring!MissingOf(days, as_of)
          = UNION {Recurring!_find_missing(events, b, as_of) : b \in Recurring!CadenceOf(events)}
  BY DEF Recurring!MissingOf, EventsOf
<1>2. Recurring!MissingOf(days, as_of) = Recurring!_find_missing(events, c, as_of)
  <2> HIDE DEF events
  <2>1. \A b \in Recurring!CadenceOf(events) : b = c
    BY OneCadence DEF events
  <2>2. c \in Recurring!CadenceOf(events)
    BY DEF events
  <2> QED BY <1>1, <2>1, <2>2
<1>3. PICK late \in SUBSET missed :
          Recurring!_find_missing(events, c, as_of)
              = {x \in missed : x <= Recurring!Last(events)} \cup late
  <2> DEFINE overdue == {x \in missed : /\ x > Recurring!Last(events)
                                        /\ as_of - x > c.tol + Recurring!GRACE_DAYS}
             late == IF Recurring!Cardinality(overdue) > Recurring!DISCONTINUED_PERIODS THEN {}
                     ELSE Recurring!FirstOf(overdue, Recurring!MAX_TRAILING)
  <2>1. Recurring!_find_missing(events, c, as_of)
            = {x \in missed : x <= Recurring!Last(events)} \cup late
    BY DEF Recurring!_find_missing
  <2>2. late \in SUBSET missed
    <3>1. overdue \in SUBSET missed
      OBVIOUS
    <3> HIDE DEF overdue, missed
    <3> QED BY <3>1 DEF Recurring!FirstOf
  <2> HIDE DEF late, missed, events
  <2> QED BY <2>1, <2>2
<1> HIDE DEF missed, events
<1> QED BY <1>2, <1>3 DEF missed, events

LEMMA DueInt ==
    \A d \in Calendar, c \in Recurring!Cadences, k \in Nat \ {0} : Recurring!Due(d, c, k) \in Int
  BY DueIs

\* The heuristic, for the payments of a series.
LEMMA MissingOfDays ==
    ASSUME NEW days \in SUBSET Nat, IsFiniteSet(days), days \subseteq Calendar,
           NEW as_of \in Nat, \A d \in days : d <= as_of,
           NEW c \in Recurring!CadenceOf(EventsOf(days)),
           NEW k \in Recurring!DatesOf(EventsOf(days), c)
    PROVE  LET e    == Recurring!Due(EventsOf(days)[1], c, k)
               near == {d \in days : Recurring!Apart(d, e) <= c.tol}
           IN  /\ near = {} => e \in Recurring!MissingOf(days, as_of)
               /\ e \in Recurring!MissingOf(days, as_of) =>
                      \A d \in near : \E x \in days : x < d /\ d - x <= Recurring!SAME_EVENT_DAYS
<1> DEFINE events == EventsOf(days)
           first == events[1]
           e == Recurring!Due(first, c, k)
           near == {d \in days : Recurring!Apart(d, e) <= c.tol}
           expected == Recurring!_project_expected(events, c, as_of)
           missed == Recurring!Unmatched(expected, events, c.tol)
<1>1. /\ events \in Seq(days) /\ Len(events) \in Nat /\ DOMAIN events = 1 .. Len(events)
      /\ \A i \in DOMAIN events : events[i] \in days
      /\ \A d \in days : (\A x \in days : x < d => d - x > 3) => \E i \in DOMAIN events : events[i] = d
  BY EventsAre
<1>2. Len(events) >= 3 /\ c \in Recurring!Cadences
  <2>1. ~ (Len(events) < 3)
    BY DEF Recurring!CadenceOf, Recurring!MIN_OCCURRENCES
  <2> HIDE DEF events
  <2> QED BY <1>1, <2>1, OneCadence DEF events
<1>0. k \in Nat \ {0} /\ k \in 1 .. Recurring!MAX_PERIODS /\ e <= Recurring!Last(events)
  <2> DEFINE top == Recurring!Last(events) - events[1]
  <2>1. k \in 1 .. top /\ k <= Recurring!MAX_PERIODS /\ e <= Recurring!Last(events)
    <3> HIDE DEF events
    <3> QED BY DEF Recurring!DatesOf, events
  <2> HIDE DEF top, e, events
  <2> QED BY <2>1 DEF Recurring!MAX_PERIODS
<1> HIDE DEF events
<1>3. /\ first \in days /\ first \in Calendar
      /\ Recurring!Last(events) \in days /\ Recurring!Last(events) \in Calendar
  <2>1. 1 \in DOMAIN events /\ Len(events) \in DOMAIN events
    BY <1>1, <1>2
  <2> QED BY <1>1, <2>1 DEF Recurring!Last
<1>4. e <= Recurring!Last(events)
  BY <1>0
<1>5. Reached(first, c, k) /\ e \in Int /\ c.tol \in Int /\ k \in Nat \ {0}
  <2>1. k \in Nat \ {0}
    BY <1>0
  <2>2. Reached(first, c, k)
    BY <1>2, <1>3, <1>4, <2>1, DueReached
  <2>3. e \in Int
    BY <1>2, <1>3, <2>1, DueInt
  <2>4. c.tol \in Int
    BY <1>2, Rhythms
  <2> HIDE DEF e
  <2> QED BY <2>1, <2>2, <2>3, <2>4
<1>6. e <= as_of
  <2>2. \A d \in days : d \in Nat
    OBVIOUS
  <2>3. PICK last \in days : last = Recurring!Last(events)
    BY <1>3
  <2>1. Recurring!Last(events) \in Int /\ Recurring!Last(events) <= as_of
    BY <2>2, <2>3
  <2> HIDE DEF e
  <2> QED BY <1>4, <1>5, <2>1
<1>7. /\ Len(expected) \in Nat
      /\ \A j \in 1 .. Len(expected) : expected[j] = Recurring!Due(first, c, j)
      /\ k \in 1 .. Len(expected)
  <2>1. /\ Len(expected) \in Nat
        /\ \A j \in 1 .. Len(expected) : expected[j] = Recurring!Due(first, c, j)
        /\ \A n \in 1 .. Recurring!MAX_PERIODS :
               Reached(first, c, n) /\ Recurring!Due(first, c, n) <= as_of => n \in 1 .. Len(expected)
    BY <1>2, <1>3, ExpectedAre
  <2> HIDE DEF expected
  <2> QED BY <1>0, <1>5, <1>6, <2>1
<1>8. e \in Recurring!MissingOf(days, as_of) <=> e \in missed
  BY <1>4, MissingAre DEF events
<1> HIDE DEF expected
<1>9. PICK acc : Taken(expected, events, c.tol, acc, Len(expected)) /\ acc.missed = missed
  <2>1. DOMAIN events \in SUBSET Nat
    BY <1>1
  <2> QED BY <1>7, <2>1, UnmatchedAre
<1> HIDE DEF missed
<1>10. ASSUME near = {} PROVE e \in missed
  <2>1. \A i \in DOMAIN events : ~ (Recurring!Apart(events[i], e) <= c.tol)
    BY <1>1, <1>10
  <2>2. expected[k] = e
    BY <1>7
  <2> HIDE DEF e
  <2> QED BY <1>7, <1>9, <2>1, <2>2 DEF Taken
<1>11. ASSUME e \in missed, NEW d \in near, \A x \in days : ~ (x < d /\ d - x <= 3)
       PROVE  FALSE
  <2>1. d \in days /\ d \in Nat /\ Recurring!Apart(d, e) <= c.tol
    OBVIOUS
  <2>2. \A x \in days : x < d => d - x > 3
    <3>1. ASSUME NEW x \in days, x < d PROVE d - x > 3
      <4>1. x \in Nat /\ ~ (d - x <= 3)
        BY <1>11, <3>1
      <4> QED BY <2>1, <4>1
    <3> QED BY <3>1
  <2>3. PICK i \in DOMAIN events : events[i] = d
    BY <1>1, <2>1, <2>2
  <2> HIDE DEF e, near
  <2>4. PICK j \in 1 .. Len(expected) :
            /\ expected[j] = e
            /\ \A n \in DOMAIN events :
                   Recurring!Apart(events[n], e) <= c.tol =>
                       \E l \in 1 .. j - 1 : Recurring!Apart(events[n], expected[l]) <= c.tol
    BY <1>9, <1>11 DEF Taken
  <2>5. PICK l \in 1 .. j - 1 : Recurring!Apart(d, expected[l]) <= c.tol
    BY <2>1, <2>3, <2>4
  <2>6. j \in Nat \ {0} /\ l \in Nat \ {0} /\ l \in 1 .. Len(expected) /\ l < j
    BY <1>7, <2>4, <2>5
  <2>7. expected[j] = Recurring!Due(first, c, j) /\ expected[l] = Recurring!Due(first, c, l)
    BY <1>7, <2>6
  <2>8. j = k
    <3>1. Recurring!Apart(e, e) = 0
      BY <1>5 DEF Recurring!Apart
    <3>2. j # k => Recurring!Apart(e, e) > 2 * c.tol
      BY <1>2, <1>3, <1>5, <2>4, <2>6, <2>7, DueApart DEF e
    <3>3. c.tol >= 0
      BY <1>2, Rhythms
    <3> QED BY <1>5, <3>1, <3>2, <3>3
  <2>13. l \in Nat \ {0} /\ l # k
    BY <2>6, <2>8
  <2>9. Recurring!Apart(expected[l], e) > 2 * c.tol
    <3>1. Recurring!Apart(Recurring!Due(first, c, l), Recurring!Due(first, c, k)) > 2 * c.tol
      BY <1>2, <1>3, <1>5, <2>13, DueApart
    <3> QED BY <2>7, <3>1 DEF e
  <2>10. expected[l] \in Int
    <3>1. Recurring!Due(first, c, l) \in Int
      BY <1>2, <1>3, <2>13, DueInt
    <3> QED BY <2>7, <3>1
  <2>11. PICK y \in Int, z \in Int, t \in Int, v \in Int :
             /\ y = expected[l] /\ z = e /\ t = c.tol /\ v = d
    BY <1>5, <2>1, <2>10
  <2>12. /\ (IF v > z THEN v - z ELSE z - v) <= t
         /\ (IF v > y THEN v - y ELSE y - v) <= t
         /\ (IF y > z THEN y - z ELSE z - y) > 2 * t
    BY <2>1, <2>5, <2>9, <2>11 DEF Recurring!Apart
  <2> QED BY <2>11, <2>12
<1>12. e \in missed => \A d \in near : \E x \in days : x < d /\ d - x <= Recurring!SAME_EVENT_DAYS
  BY <1>11 DEF Recurring!SAME_EVENT_DAYS
<1> QED BY <1>8, <1>10, <1>12 DEF events

LEMMA RecurringAlways == Spec => []RecurringInv
<1>1. Init => RecurringInv
  <2> SUFFICES ASSUME Recurring!Init PROVE RecurringInv
    BY DEF Init
  <2>1. today \in Nat
    <3>1. Todays \in SUBSET Nat /\ Todays # {}
      BY MenuAssumption, RecurringAssumption
    <3>2. \E t \in Todays : \A u \in Todays : t <= u
      BY <3>1, LeastNumber
    <3>3. today = CHOOSE t \in Todays : \A u \in Todays : t <= u
      BY DEF Recurring!Init
    <3> QED BY <3>1, <3>2, <3>3
  <2>2. paid = [s \in Series |-> {}]
    BY DEF Recurring!Init
  <2> QED BY <2>1, <2>2, FS_EmptySet DEF RecurringInv
<1>2. RecurringInv /\ [Next]_allVars => RecurringInv'
  <2> SUFFICES ASSUME RecurringInv, [Next]_allVars PROVE RecurringInv'
    OBVIOUS
  <2>1. Recurring!Next \/ UNCHANGED recurringVars
    BY DEF Next, Others, Same, allVars
  <2>2. ASSUME NEW s \in Series, NEW d \in PayDays[s], Recurring!Pay(s, d) PROVE RecurringInv'
    <3>1. today' = today /\ paid' = [paid EXCEPT ![s] = @ \cup {d}]
      BY <2>2 DEF Recurring!Pay
    <3>2. IsFiniteSet(paid[s] \cup {d})
      BY FS_AddElement DEF RecurringInv
    <3> QED BY <3>1, <3>2 DEF RecurringInv
  <2>3. CASE Recurring!Midnight
    <3>1. today' \in Todays /\ paid' = paid
      BY <2>3 DEF Recurring!Midnight
    <3> QED BY <3>1, MenuAssumption DEF RecurringInv
  <2>4. CASE UNCHANGED <<paid, today>>
    BY <2>4 DEF RecurringInv
  <2>5. CASE UNCHANGED recurringVars
    BY <2>4, <2>5 DEF recurringVars
  <2>6. CASE Recurring!Next
    <3>1. \/ \E s \in Series : \E d \in PayDays[s] : Recurring!Pay(s, d)
          \/ Recurring!Midnight
          \/ UNCHANGED <<paid, today>>
      BY <2>6
         DEF Recurring!Next, Recurring!_scan_recurring_worker, Recurring!_refresh_worker,
             Recurring!_fetch_and_save_recurring, Recurring!FetchFails, Recurring!_mark,
             Recurring!action_close, Recurring!Crash
    <3> QED BY <2>2, <2>3, <2>4, <3>1
  <2> QED BY <2>1, <2>5, <2>6
<1> QED BY <1>1, <1>2, PTL DEF Spec

\* For any payments, any days on which the user looks, and a calendar of months of 28 to 31
\* days: each date of a rhythm up to its last event, of the 2000 that are looked at, is
\* reported when nothing was paid near it; and if something was, only when every such
\* payment came up to three days after another, and so may have been merged with it.
THEOREM MissingWasUnpaid == Spec => []MissingIsUnpaid
<1>1. ASSUME RecurringInv PROVE MissingIsUnpaid
  <2>1. ASSUME NEW s \in Series
        PROVE  LET days    == Recurring!Listed(s, [start |-> 0, end |-> today])
                   events  == EventsOf(days)
                   missing == Recurring!MissingOf(days, today)
               IN  \A c \in Recurring!CadenceOf(events) :
                   \A k \in Recurring!DatesOf(events, c) :
                       LET e    == Recurring!Due(events[1], c, k)
                           near == {d \in days : Recurring!Apart(d, e) <= c.tol}
                       IN  /\ near = {} => e \in missing
                           /\ e \in missing =>
                                  \A d \in near :
                                      \E x \in days : x < d /\ d - x <= Recurring!SAME_EVENT_DAYS
    <3> DEFINE days == Recurring!Listed(s, [start |-> 0, end |-> today])
    <3>1. days \in SUBSET paid[s] /\ \A d \in days : d <= today
      BY DEF Recurring!Listed
    <3>2. paid[s] \subseteq PayDays[s] /\ IsFiniteSet(paid[s]) /\ today \in Nat
      BY <1>1 DEF RecurringInv
    <3>3. PayDays[s] \subseteq Nat /\ PayDays[s] \subseteq Calendar
      BY MenuAssumption, RecurringAssumption DEF Calendar
    <3>4. days \in SUBSET Nat /\ IsFiniteSet(days) /\ days \subseteq Calendar
      BY <3>1, <3>2, <3>3, FS_Subset
    <3> HIDE DEF days
    <3>5. \A c \in Recurring!CadenceOf(EventsOf(days)) :
          \A k \in Recurring!DatesOf(EventsOf(days), c) :
              LET e    == Recurring!Due(EventsOf(days)[1], c, k)
                  near == {d \in days : Recurring!Apart(d, e) <= c.tol}
              IN  /\ near = {} => e \in Recurring!MissingOf(days, today)
                  /\ e \in Recurring!MissingOf(days, today) =>
                         \A d \in near :
                             \E x \in days : x < d /\ d - x <= Recurring!SAME_EVENT_DAYS
      BY <3>1, <3>2, <3>4, MissingOfDays
    <3> QED BY <3>5 DEF days
  <2> QED BY <2>1 DEF MissingIsUnpaid, Recurring!MissingIsUnpaid, EventsOf
<1> QED BY <1>1, RecurringAlways, PTL

-------------------------------------------------------------------------------
(* What a settings screen shows *)

\* Rows of a list, told apart by their ids.
AnyRow == [id : Nat, val : Nat]

IsRows(rows) ==
    /\ rows \in Seq(AnyRow)
    /\ \A i, j \in DOMAIN rows : rows[i].id = rows[j].id => i = j

\* The same rows, in whatever order.
SameRows(a, b) ==
    /\ Len(a) = Len(b)
    /\ \A i \in DOMAIN a : \E j \in DOMAIN b : a[i] = b[j]
    /\ \A j \in DOMAIN b : \E i \in DOMAIN a : a[i] = b[j]

LEMMA RowsCounted == \A S : Settings!Cardinality(S) = Cardinality(S)
  BY DEF Cardinality, Settings!Cardinality

LEMMA RowTypes ==
    ASSUME NEW rows \in Seq(AnyRow)
    PROVE  /\ Len(rows) \in Nat /\ DOMAIN rows = 1 .. Len(rows)
           /\ \A i \in DOMAIN rows : rows[i] \in AnyRow /\ rows[i].id \in Nat
           /\ rows = [i \in 1 .. Len(rows) |-> rows[i]]
<1>1. Len(rows) \in Nat /\ DOMAIN rows = 1 .. Len(rows)
  OBVIOUS
<1>2. \A i \in DOMAIN rows : rows[i] \in AnyRow /\ rows[i].id \in Nat
  <2>1. \A i \in DOMAIN rows : rows[i] \in AnyRow
    BY <1>1
  <2> QED BY <2>1 DEF AnyRow
<1>3. rows \in [1 .. Len(rows) -> AnyRow]
  BY <1>1, <1>2
<1> QED BY <1>1, <1>2, <1>3

\* Every row has a place of its own in an order.
LEMMA PlacesApart ==
    ASSUME NEW rows, IsRows(rows), NEW order \in Seq(Nat)
    PROVE  /\ \A i \in DOMAIN rows : Settings!Place(rows, order, i) \in Nat
           /\ \A i, j \in DOMAIN rows :
                  Settings!Place(rows, order, i) = Settings!Place(rows, order, j) => i = j
<1> DEFINE at(i) == Settings!Place(rows, order, i)
           named(i) == \E k \in DOMAIN order : order[k] = rows[i].id
<1>1. /\ Len(order) \in Nat /\ DOMAIN order = 1 .. Len(order)
      /\ \A i \in DOMAIN rows : i \in Nat \ {0}
  BY RowTypes DEF IsRows
<1>2. ASSUME NEW i \in DOMAIN rows, named(i)
      PROVE  at(i) \in DOMAIN order /\ order[at(i)] = rows[i].id
  <2>1. at(i) = CHOOSE k \in DOMAIN order : order[k] = rows[i].id
    BY <1>2 DEF Settings!Place
  <2> HIDE DEF at
  <2> QED BY <1>2, <2>1
<1>3. ASSUME NEW i \in DOMAIN rows, ~ named(i) PROVE at(i) = Len(order) + i
  BY <1>3 DEF Settings!Place
<1> HIDE DEF at, named
<1>4. ASSUME NEW i \in DOMAIN rows PROVE at(i) \in Nat
  BY <1>1, <1>2, <1>3
<1>5. ASSUME NEW i \in DOMAIN rows, NEW j \in DOMAIN rows, at(i) = at(j) PROVE i = j
  <2>1. CASE named(i) /\ named(j)
    BY <1>2, <1>5, <2>1 DEF IsRows
  <2>2. CASE named(i) /\ ~ named(j)
    BY <1>1, <1>2, <1>3, <1>5, <2>2
  <2>3. CASE ~ named(i) /\ named(j)
    BY <1>1, <1>2, <1>3, <1>5, <2>3
  <2>4. CASE ~ named(i) /\ ~ named(j)
    BY <1>1, <1>3, <1>5, <2>4
  <2> QED BY <2>1, <2>2, <2>3, <2>4
<1> QED BY <1>4, <1>5 DEF at

Places(rows, order) == {Settings!Place(rows, order, i) : i \in DOMAIN rows}

\* As many places as rows.
LEMMA PlacesCounted ==
    ASSUME NEW rows, IsRows(rows), NEW order \in Seq(Nat)
    PROVE  /\ Places(rows, order) \in SUBSET Nat /\ IsFiniteSet(Places(rows, order))
           /\ Cardinality(Places(rows, order)) = Len(rows)
<1> DEFINE S == 1 .. Len(rows)
           T == Places(rows, order)
           f == [i \in S |-> Settings!Place(rows, order, i)]
<1>1. Len(rows) \in Nat /\ DOMAIN rows = S
  BY RowTypes DEF IsRows
<1>2. IsFiniteSet(S) /\ Cardinality(S) = Len(rows)
  <2> DEFINE N == Len(rows)
  <2> HIDE DEF N
  <2>3. N \in Nat
    BY <1>1 DEF N
  <2>1. /\ IsFiniteSet(1 .. N)
        /\ Cardinality(1 .. N) = IF 1 > N THEN 0 ELSE N - 1 + 1
    BY <2>3, FS_Interval
  <2>2. N \in Nat => (IF 1 > N THEN 0 ELSE N - 1 + 1) = N
    OBVIOUS
  <2> QED BY <1>1, <2>1, <2>2 DEF N
<1>3. /\ f \in [S -> T]
      /\ \A i, j \in S : f[i] = f[j] => i = j
      /\ \A t \in T : \E i \in S : f[i] = t
  BY <1>1, PlacesApart DEF Places
<1>4. T \in SUBSET Nat
  BY PlacesApart DEF Places
<1> HIDE DEF f, S, T
<1>5. f \in Surjection(S, T) /\ f \in Injection(S, T)
  BY <1>3 DEF Surjection, Injection, IsInjective
<1>6. IsFiniteSet(T) /\ Cardinality(T) = Len(rows)
  BY <1>2, <1>5, FS_Surjection
<1> QED BY <1>4, <1>6 DEF T

\* Sorting takes every row once, by the rank of its place.
Takes(f, rows, order) ==
    /\ f \in [DOMAIN rows -> DOMAIN rows]
    /\ Settings!Sorted(rows, order) = [n \in DOMAIN rows |-> rows[f[n]]]
    /\ \A n \in DOMAIN rows :
           Rank(Places(rows, order), Settings!Place(rows, order, f[n])) = n - 1
    /\ \A m, n \in DOMAIN rows : f[m] = f[n] => m = n
    /\ \A i \in DOMAIN rows : \E n \in DOMAIN rows : f[n] = i

LEMMA SortedTakes ==
    ASSUME NEW rows, IsRows(rows), NEW order \in Seq(Nat)
    PROVE  \E f : Takes(f, rows, order)
<1> DEFINE S == Places(rows, order)
           at(i) == Settings!Place(rows, order, i)
           rank(i) == Rank(S, at(i))
           N == Len(rows)
           f == [n \in DOMAIN rows |-> CHOOSE i \in DOMAIN rows : rank(i) = n - 1]
<1>1. N \in Nat /\ DOMAIN rows = 1 .. N
  BY RowTypes DEF IsRows
<1>2. S \in SUBSET Nat /\ IsFiniteSet(S) /\ Cardinality(S) = N
  BY PlacesCounted
<1>3. Settings!Sorted(rows, order) = [n \in DOMAIN rows |-> rows[f[n]]]
  <2>1. \A i \in DOMAIN rows :
            Settings!Cardinality({p \in S : p < at(i)}) = rank(i)
    BY RowsCounted, RankCounts DEF Below
  <2>2. Settings!Sorted(rows, order) =
            [n \in DOMAIN rows |->
                rows[CHOOSE i \in DOMAIN rows :
                         Settings!Cardinality({p \in S : p < at(i)}) = n - 1]]
    BY Zenon DEF Settings!Sorted, Places
  <2>3. ASSUME NEW n \in DOMAIN rows
        PROVE  (CHOOSE i \in DOMAIN rows : Settings!Cardinality({p \in S : p < at(i)}) = n - 1)
                   = f[n]
    <3> HIDE DEF S, at, rank
    <3>1. \A i \in DOMAIN rows :
              (Settings!Cardinality({p \in S : p < at(i)}) = n - 1) <=> (rank(i) = n - 1)
      BY <2>1
    <3> QED BY <3>1
  <2> HIDE DEF S, at, rank, f
  <2> QED BY <2>2, <2>3
<1>4. ASSUME NEW n \in DOMAIN rows PROVE \E i \in DOMAIN rows : rank(i) = n - 1
  <2>1. PICK p \in S : Rank(S, p) = n - 1
    BY <1>1, <1>2, InOrderIs
  <2>2. PICK i \in DOMAIN rows : p = at(i)
    BY DEF Places
  <2> QED BY <2>1, <2>2
<1>5. ASSUME NEW n \in DOMAIN rows PROVE f[n] \in DOMAIN rows /\ rank(f[n]) = n - 1
  <2> HIDE DEF rank
  <2> QED BY <1>4
<1>6. ASSUME NEW i \in DOMAIN rows
      PROVE  \E n \in DOMAIN rows : f[n] = i
  <2>1. at(i) \in S /\ rank(i) \in 0 .. N - 1
    BY <1>2, RankIs DEF Places
  <2>2. PICK n \in DOMAIN rows : n - 1 = rank(i)
    <3>1. rank(i) + 1 \in 1 .. N /\ (rank(i) + 1) - 1 = rank(i)
      BY <1>1, <2>1
    <3> HIDE DEF rank
    <3> QED BY <1>1, <3>1
  <2>3. f[n] \in DOMAIN rows /\ at(f[n]) \in S /\ rank(f[n]) = rank(i)
    BY <1>5, <2>2 DEF Places
  <2>4. at(f[n]) = at(i)
    <3> DEFINE a == at(f[n])
               b == at(i)
    <3>1. a \in S /\ b \in S /\ a \in Nat /\ b \in Nat /\ Rank(S, a) = Rank(S, b)
      BY <1>2, <2>1, <2>3
    <3>2. /\ a < b => Rank(S, a) < Rank(S, b)
          /\ b < a => Rank(S, b) < Rank(S, a)
          /\ Rank(S, a) \in 0 .. N - 1 /\ Rank(S, b) \in 0 .. N - 1
      BY <1>2, <3>1, RankIs
    <3> HIDE DEF a, b, S
    <3>3. a = b
      BY <1>1, <3>1, <3>2
    <3> QED BY <3>3 DEF a, b
  <2> HIDE DEF f, at
  <2> QED BY <2>3, <2>4, PlacesApart DEF at
<1>7. f \in [DOMAIN rows -> DOMAIN rows]
  BY <1>5
<1>8. \A m, n \in DOMAIN rows : f[m] = f[n] => m = n
  <2> HIDE DEF f, rank
  <2>1. \A m, n \in DOMAIN rows : f[m] = f[n] => m - 1 = n - 1
    BY <1>5
  <2> QED BY <1>1, <2>1
<1> HIDE DEF f, S
<1> QED BY <1>3, <1>5, <1>6, <1>7, <1>8 DEF S, Takes

\* No row is lost,
LEMMA SortedKeeps ==
    ASSUME NEW rows, IsRows(rows), NEW order \in Seq(Nat)
    PROVE  IsRows(Settings!Sorted(rows, order)) /\ SameRows(Settings!Sorted(rows, order), rows)
<1> DEFINE to == Settings!Sorted(rows, order)
<1>1. PICK f \in [DOMAIN rows -> DOMAIN rows] :
               /\ to = [n \in DOMAIN rows |-> rows[f[n]]]
               /\ \A m, n \in DOMAIN rows : f[m] = f[n] => m = n
               /\ \A i \in DOMAIN rows : \E n \in DOMAIN rows : f[n] = i
  BY SortedTakes DEF Takes
<1> HIDE DEF to
<1>2. /\ Len(rows) \in Nat /\ DOMAIN rows = 1 .. Len(rows) /\ rows \in Seq(AnyRow)
      /\ \A i \in DOMAIN rows : rows[i] \in AnyRow
  BY RowTypes DEF IsRows
<1>3. to \in Seq(AnyRow) /\ Len(to) = Len(rows) /\ DOMAIN to = DOMAIN rows
  <2>1. to \in [1 .. Len(rows) -> AnyRow]
    BY <1>1, <1>2
  <2> QED BY <1>2, <2>1
<1>4. \A m, n \in DOMAIN to : to[m].id = to[n].id => m = n
  BY <1>1, <1>3 DEF IsRows
<1>5. SameRows(to, rows)
  BY <1>1, <1>3 DEF SameRows
<1> QED BY <1>3, <1>4, <1>5 DEF IsRows, to

\* and rows are sorted as the ids say, if these are all of them.
LEMMA SortedAs ==
    ASSUME NEW rows, IsRows(rows), NEW m, IsRows(m), SameRows(m, rows)
    PROVE  Settings!Sorted(rows, Settings!Ids(m)) = m
<1> DEFINE order == Settings!Ids(m)
           N == Len(rows)
           at(i) == Settings!Place(rows, order, i)
<1>1. /\ N \in Nat /\ DOMAIN rows = 1 .. N /\ Len(m) = N /\ DOMAIN m = 1 .. N
      /\ m = [i \in 1 .. N |-> m[i]]
  BY RowTypes DEF IsRows, SameRows
<1>2. order = [i \in 1 .. N |-> m[i].id] /\ order \in Seq(Nat) /\ DOMAIN order = 1 .. N
  <2>1. order = [i \in 1 .. N |-> m[i].id]
    BY <1>1 DEF Settings!Ids
  <2>2. \A i \in 1 .. N : m[i].id \in Nat
    BY <1>1, RowTypes DEF IsRows
  <2> HIDE DEF order, N
  <2>3. order \in [1 .. N -> Nat]
    BY <2>1, <2>2
  <2> QED BY <1>1, <2>1, <2>3
<1>3. ASSUME NEW i \in DOMAIN rows PROVE at(i) \in 1 .. N /\ m[at(i)] = rows[i]
  <2>1. PICK k \in DOMAIN m : m[k] = rows[i]
    BY DEF SameRows
  <2>2. \E j \in DOMAIN order : order[j] = rows[i].id
    BY <1>1, <1>2, <2>1
  <2>3. at(i) = CHOOSE j \in DOMAIN order : order[j] = rows[i].id
    BY <2>2 DEF Settings!Place
  <2>4. at(i) \in DOMAIN order /\ order[at(i)] = rows[i].id
    <3> HIDE DEF at, order
    <3> QED BY <2>2, <2>3
  <2>5. at(i) = k
    BY <1>1, <1>2, <2>1, <2>4 DEF IsRows
  <2> QED BY <1>1, <2>1, <2>5
<1>4. Places(rows, order) = 1 .. N
  <2>1. ASSUME NEW k \in 1 .. N PROVE k \in Places(rows, order)
    <3>1. PICK i \in DOMAIN rows : m[k] = rows[i]
      BY <1>1 DEF SameRows
    <3>2. at(i) = k
      BY <1>1, <1>3, <3>1 DEF IsRows
    <3> QED BY <3>2 DEF Places
  <2> QED BY <1>3, <2>1 DEF Places
<1>5. ASSUME NEW k \in 1 .. N PROVE Rank(1 .. N, k) = k - 1
  <2>1. Below(1 .. N, k) = 1 .. k - 1
    BY <1>1 DEF Below
  <2>2. Cardinality(1 .. k - 1) = k - 1
    BY <1>1, FS_Interval
  <2> QED BY <2>1, <2>2, RankCounts
<1>6. PICK f : Takes(f, rows, order)
  <2> HIDE DEF order
  <2> QED BY <1>2, SortedTakes
<1>7. ASSUME NEW n \in 1 .. N PROVE rows[f[n]] = m[n]
  <2>1. f[n] \in DOMAIN rows /\ at(f[n]) \in 1 .. N
    BY <1>1, <1>3, <1>6 DEF Takes
  <2>2. Rank(1 .. N, at(f[n])) = n - 1 /\ Rank(1 .. N, at(f[n])) = at(f[n]) - 1
    BY <1>1, <1>4, <1>5, <1>6, <2>1 DEF Takes
  <2>3. at(f[n]) = n
    <3> HIDE DEF at
    <3> QED BY <1>1, <2>1, <2>2
  <2> QED BY <1>3, <2>1, <2>3
<1>8. Settings!Sorted(rows, order) = [n \in 1 .. N |-> m[n]]
  BY <1>1, <1>6, <1>7 DEF Takes
<1> QED BY <1>1, <1>8


\* All ids were given out.
Issued(rows, n) == \A i \in DOMAIN rows : rows[i].id < n

\* What the server makes of its rows has an id for each of them again.
LEMMA CreatedRows ==
    ASSUME NEW rows, IsRows(rows), NEW row \in AnyRow, nextId \in Nat, Issued(rows, nextId)
    PROVE  /\ IsRows(Settings!Created(rows, row))
           /\ Len(Settings!Created(rows, row)) > Len(rows)
           /\ Issued(Settings!Created(rows, row), nextId + 1)
<1> DEFINE e == [row EXCEPT !.id = nextId]
           to == Append(rows, e)
           N == Len(rows)
<1>1. Settings!Created(rows, row) = to
  BY DEF Settings!Created
<1>2. e \in AnyRow /\ e.id = nextId
  BY DEF AnyRow
<1>3. /\ N \in Nat /\ DOMAIN rows = 1 .. N /\ rows \in Seq(AnyRow)
      /\ \A i \in DOMAIN rows : rows[i].id \in Nat
  BY RowTypes DEF IsRows
<1> HIDE DEF e
<1>4. to \in Seq(AnyRow) /\ Len(to) = N + 1 /\ DOMAIN to = 1 .. N + 1
  BY <1>2, <1>3
<1>5. to[N + 1] = e /\ \A i \in 1 .. N : to[i] = rows[i]
  BY <1>2, <1>3
<1> HIDE DEF to, N
<1>6. \A i \in 1 .. N + 1 : i = N + 1 \/ i \in 1 .. N
  BY <1>3
<1>7. \A i \in 1 .. N : to[i].id < nextId
  BY <1>3, <1>5 DEF Issued
<1>8. \A i \in 1 .. N + 1 : to[i].id < nextId + 1
  BY <1>2, <1>3, <1>5, <1>6, <1>7
<1>9. ASSUME NEW i \in 1 .. N + 1, NEW j \in 1 .. N + 1, to[i].id = to[j].id PROVE i = j
  <2>1. CASE i \in 1 .. N /\ j \in 1 .. N
    BY <1>3, <1>5, <1>9, <2>1 DEF IsRows
  <2>2. CASE ~ (i \in 1 .. N /\ j \in 1 .. N)
    <3>1. \A k \in 1 .. N : to[k].id # nextId
      BY <1>3, <1>5, <1>7
    <3> QED BY <1>2, <1>5, <1>6, <1>9, <2>2, <3>1
  <2> QED BY <2>1, <2>2
<1> QED BY <1>1, <1>3, <1>4, <1>8, <1>9 DEF IsRows, Issued, N

LEMMA UpdatedRows ==
    ASSUME NEW rows, IsRows(rows), NEW row \in AnyRow, NEW n \in Nat, Issued(rows, n)
    PROVE  /\ IsRows(Settings!Updated(rows, row))
           /\ Len(Settings!Updated(rows, row)) = Len(rows)
           /\ Issued(Settings!Updated(rows, row), n)
<1> DEFINE to == Settings!Updated(rows, row)
           N == Len(rows)
<1>1. /\ N \in Nat /\ DOMAIN rows = 1 .. N
      /\ \A i \in 1 .. N : rows[i] \in AnyRow
  BY RowTypes DEF IsRows
<1>2. to = [i \in 1 .. N |-> IF rows[i].id = row.id THEN row ELSE rows[i]]
  BY <1>1 DEF Settings!Updated
<1> HIDE DEF to, N
<1>3. \A i \in 1 .. N : to[i] \in AnyRow /\ to[i].id = rows[i].id
  BY <1>1, <1>2
<1>4. to \in [1 .. N -> AnyRow]
  BY <1>2, <1>3
<1>5. to \in Seq(AnyRow) /\ Len(to) = N /\ DOMAIN to = 1 .. N
  BY <1>1, <1>4
<1> QED BY <1>1, <1>3, <1>5 DEF IsRows, Issued, to, N

LEMMA WithoutRows ==
    ASSUME NEW rows, IsRows(rows), NEW id, NEW n \in Nat, Issued(rows, n)
    PROVE  /\ IsRows(Settings!Without(rows, id))
           /\ Len(Settings!Without(rows, id)) <= Len(rows)
           /\ Issued(Settings!Without(rows, id), n)
<1> DEFINE i0 == CHOOSE i \in DOMAIN rows : rows[i].id = id
           to == Settings!Without(rows, id)
           N == Len(rows)
           from(k) == IF k < i0 THEN k ELSE k + 1
<1>1. /\ N \in Nat /\ DOMAIN rows = 1 .. N
      /\ \A i \in 1 .. N : rows[i] \in AnyRow
  BY RowTypes DEF IsRows
<1>2. CASE ~ Settings!HasId(rows, id)
  BY <1>1, <1>2 DEF Settings!Without
<1>3. CASE Settings!HasId(rows, id)
  <2>1. i0 \in 1 .. N
    BY <1>1, <1>3 DEF Settings!HasId
  <2>2. to = [k \in 1 .. N - 1 |-> rows[from(k)]]
    BY <1>3 DEF Settings!Without
  <2> HIDE DEF i0, to, N
  <2>3. \A k \in 1 .. N - 1 : from(k) \in 1 .. N
    BY <1>1, <2>1
  <2>4. \A j, k \in 1 .. N - 1 : from(j) = from(k) => j = k
    BY <1>1, <2>1
  <2>5. N - 1 \in Nat
    BY <1>1, <2>1
  <2> HIDE DEF from
  <2>6. to \in [1 .. N - 1 -> AnyRow]
    BY <1>1, <2>2, <2>3
  <2>7. to \in Seq(AnyRow) /\ Len(to) = N - 1 /\ DOMAIN to = 1 .. N - 1
    BY <2>5, <2>6
  <2>8. \A j, k \in 1 .. N - 1 : to[j].id = to[k].id => j = k
    BY <1>1, <2>2, <2>3, <2>4 DEF IsRows
  <2>9. \A k \in 1 .. N - 1 : to[k].id < n
    BY <1>1, <2>2, <2>3 DEF Issued
  <2> QED BY <1>1, <2>5, <2>7, <2>8, <2>9 DEF IsRows, Issued, to, N
<1> QED BY <1>2, <1>3

LEMMA SortedRows ==
    ASSUME NEW rows, IsRows(rows), NEW order \in Seq(Nat), NEW n \in Nat, Issued(rows, n)
    PROVE  /\ IsRows(Settings!Sorted(rows, order))
           /\ Len(Settings!Sorted(rows, order)) = Len(rows)
           /\ Issued(Settings!Sorted(rows, order), n)
  BY SortedKeeps DEF SameRows, Issued

\* The same rows in two ways are the same in a third.
LEMMA SameRowsTrans ==
    ASSUME NEW a, NEW b, NEW c, SameRows(a, b), SameRows(b, c)
    PROVE  SameRows(a, c)
<1>1. \A i \in DOMAIN a : \E j \in DOMAIN c : a[i] = c[j]
  <2> SUFFICES ASSUME NEW i \in DOMAIN a PROVE \E j \in DOMAIN c : a[i] = c[j]
    OBVIOUS
  <2>1. PICK k \in DOMAIN b : a[i] = b[k]
    BY DEF SameRows
  <2> QED BY <2>1 DEF SameRows
<1>2. \A j \in DOMAIN c : \E i \in DOMAIN a : a[i] = c[j]
  <2> SUFFICES ASSUME NEW j \in DOMAIN c PROVE \E i \in DOMAIN a : a[i] = c[j]
    OBVIOUS
  <2>1. PICK k \in DOMAIN b : b[k] = c[j]
    BY DEF SameRows
  <2> QED BY <2>1 DEF SameRows
<1> QED BY <1>1, <1>2 DEF SameRows

LEMMA SameRowsSym ==
    ASSUME NEW a, NEW b, SameRows(a, b) PROVE SameRows(b, a)
  BY DEF SameRows

\* Two neighbours changing places are the same rows.
LEMMA MovedRows ==
    ASSUME NEW rows, IsRows(rows), NEW i \in DOMAIN rows, i < Len(rows)
    PROVE  LET to == [rows EXCEPT ![i] = rows[i + 1], ![i + 1] = rows[i]] IN
           IsRows(to) /\ SameRows(to, rows)
<1> DEFINE to == [rows EXCEPT ![i] = rows[i + 1], ![i + 1] = rows[i]]
           N == Len(rows)
<1>1. N \in Nat /\ DOMAIN rows = 1 .. N /\ i \in 1 .. N /\ i + 1 \in 1 .. N /\ i # i + 1
  BY RowTypes DEF IsRows
<1>2. \A k \in 1 .. N : rows[k] \in AnyRow
  BY RowTypes DEF IsRows
<1>3. /\ DOMAIN to = 1 .. N
      /\ to[i] = rows[i + 1] /\ to[i + 1] = rows[i]
      /\ \A k \in (1 .. N) \ {i, i + 1} : to[k] = rows[k]
  BY <1>1
<1>4. to = [k \in 1 .. N |-> to[k]]
  BY <1>1
<1> HIDE DEF to, N
<1>5. \A k \in 1 .. N : to[k] \in AnyRow
  BY <1>1, <1>2, <1>3
<1>6. to \in [1 .. N -> AnyRow]
  BY <1>4, <1>5
<1>7. to \in Seq(AnyRow) /\ Len(to) = N
  BY <1>1, <1>6
<1>8. SameRows(to, rows)
  BY <1>1, <1>3, <1>7 DEF SameRows, N
<1>9. \A j, k \in 1 .. N : to[j].id = to[k].id => j = k
  BY <1>1, <1>3 DEF IsRows, N
<1> QED BY <1>1, <1>7, <1>8, <1>9 DEF IsRows, to


\* Lists by tab, as the screen, the cache and a worker keep them.
IsList(s, l) ==
    /\ l = [t \in DOMAIN l |-> l[t]]
    /\ DOMAIN l \subseteq Settings!Tabs(s)
    /\ \A t \in DOMAIN l : IsRows(l[t])

IsJob(s, j) ==
    /\ DOMAIN j = JobFields
    /\ j.op \in {"list", "check", "sort"} \cup AskOp
    /\ j.stage \in {"ask", "sent", "done"}
    /\ j.tab \in Settings!Tabs(s)
    /\ j.row \in AnyRow /\ j.order \in Seq(Nat) /\ IsList(s, j.rows)

Dialog(s) ==
    [op : AskOp, stage : {"ask"}, tab : Settings!Tabs(s), row : AnyRow,
     order : {<< >>}, rows : {<< >>}]

\* Where the workers of the screen read.
Lister == Settings!GroupOf(screen, "list")
Asks == Settings!Asked(screen, mode)

SettingsTypes ==
    /\ screen \in Screens /\ open \in BOOLEAN /\ mode \in Settings!Tabs(screen)
    /\ nextId \in Nat
    /\ server = [t \in Settings!Tabs(screen) |-> server[t]]
    /\ \A t \in Settings!Tabs(screen) : IsRows(server[t]) /\ Issued(server[t], nextId)
    /\ IsList(screen, shown)
    /\ timer # NoTimer => /\ screen \in {"accounts", "sections"}
                          /\ timer \in [tab : Settings!Tabs(screen), order : Seq(Nat)]
    /\ dialogs \in Seq(Dialog(screen))
    /\ screen # "accounts" => cache = NoList

\* A worker is in the group of what it does, and a list is of the tab of the moment.
WorkersFit ==
    /\ DOMAIN jobs = Settings!Group
    /\ \A g \in Settings!Group : jobs[g] # Settings!NoJob =>
           /\ IsJob(screen, jobs[g])
           /\ g = Settings!GroupOf(screen, jobs[g].op)
           /\ jobs[g].op = "list" => jobs[g].tab = mode /\ jobs[g].stage # "ask"

\* A screen that is left leaves nothing behind.
ClosedIsQuiet ==
    ~ open => /\ \A g \in Settings!Group : jobs[g] = Settings!NoJob
              /\ timer = NoTimer /\ dialogs = << >>

\* A change the server has made, whose reload is to follow,
Changing(g) == jobs[g].op \in AskOp /\ jobs[g].stage = "done"

\* and an order that is on its way to it.
SortSent(g) == jobs[g].op = "sort" /\ jobs[g].stage = "sent"
Timed(t) == timer # NoTimer /\ timer.tab = t

\* A list that was read is what the server has, and no order is to change that.
ListFits ==
    (jobs[Lister].op = "list" /\ jobs[Lister].stage = "done" /\ Lister \notin doubt) =>
        /\ timer = NoTimer /\ \A g \in Settings!Group : ~ SortSent(g)
        /\ \/ jobs[Lister].rows = [t \in Asks |-> server[t]]
           \/ \E g \in Settings!Group : Changing(g)

\* What is shown are the rows of the server, in its order once the last order sent has
\* arrived.
Agrees(t) ==
    /\ SameRows(shown[t], server[t])
    /\ Timed(t) => timer.order = Settings!Ids(shown[t])
    /\ ~ Timed(t) =>
           \/ shown[t] = server[t]
           \/ \E g \in Settings!Group : SortSent(g) /\ jobs[g].tab = t
    /\ \A g \in Settings!Group :
           SortSent(g) /\ jobs[g].tab = t /\ ~ Timed(t) => jobs[g].order = Settings!Ids(shown[t])

ShownFits ==
    ((open \/ screen = "accounts") /\ "shown" \notin doubt) =>
        \/ DOMAIN shown = Asks /\ \A t \in Asks : Agrees(t)
        \/ \E g \in Settings!Group : Changing(g)
        \/ jobs[Lister].op = "list"

\* The cache is what the server has until an answer drops it.
CacheFits ==
    (cache # NoList /\ "cache" \notin doubt) =>
        \/ cache = server
        \/ \E g \in Settings!Group : jobs[g].op \in Settings!ChangeOp /\ jobs[g].stage = "done"

SettledInv ==
    /\ SettingsTypes /\ WorkersFit /\ ClosedIsQuiet
    /\ ListFits /\ ShownFits /\ CacheFits

LEMMA EmptyList == \A s : IsList(s, << >>)
<1>1. << >> = [t \in {} |-> << >>[t]] /\ DOMAIN << >> = {}
  OBVIOUS
<1> QED BY <1>1 DEF IsList

LEMMA GroupsOf ==
    /\ Lister \in Settings!Group /\ "shown" \notin Settings!Group /\ "cache" \notin Settings!Group
    /\ \A op : Settings!GroupOf(screen, op) \in Settings!Group
    /\ screen \in {"accounts", "sections"} => Lister = "list" /\ Settings!GroupOf(screen, "sort") = "mutate"
  BY DEF Lister, Settings!GroupOf, Settings!Group, Settings!Plain

LEMMA NoJobIs == /\ Settings!NoJob.op = "none" /\ Settings!NoJob.stage = "" 
                 /\ \A s, j : IsJob(s, j) => j # Settings!NoJob
<1>1. Settings!NoJob.op = "none" /\ Settings!NoJob.stage = ""
  BY DEF Settings!NoJob, Settings!Job
<1>2. ASSUME NEW s, NEW j, IsJob(s, j) PROVE j.op # "none"
  BY <1>2 DEF IsJob, AskOp
<1> QED BY <1>1, <1>2

\* What is shown still fits when no change or order in flight is taken away,
LEMMA ShownStays ==
    ASSUME ShownFits, UNCHANGED <<screen, mode, server, shown, timer>>, open' => open,
           \A k \in Settings!Group : SortSent(k) \/ SortSent(k)' => jobs'[k] = jobs[k],
           \A k \in Settings!Group : Changing(k) => jobs'[k] = jobs[k],
           jobs[Lister].op = "list" => jobs'[Lister].op = "list",
           "shown" \in doubt => "shown" \in doubt'
    PROVE  ShownFits'
<1>1. Lister' = Lister /\ Asks' = Asks
  BY DEF Lister, Asks
<1>2. ASSUME NEW t, Agrees(t) PROVE Agrees(t)'
  <2>1. \A k \in Settings!Group : SortSent(k) => SortSent(k)' /\ jobs'[k] = jobs[k]
    BY DEF SortSent
  <2>2. \A k \in Settings!Group : SortSent(k)' => SortSent(k) /\ jobs'[k] = jobs[k]
    BY DEF SortSent
  <2>3. Timed(t)' <=> Timed(t)
    BY DEF Timed
  <2> QED BY <1>2, <2>1, <2>2, <2>3 DEF Agrees
<1>3. \A k \in Settings!Group : Changing(k) => Changing(k)'
  BY DEF Changing
<1> QED BY <1>1, <1>2, <1>3 DEF ShownFits

\* likewise a list that was read,
LEMMA ListStays ==
    ASSUME ListFits, UNCHANGED <<screen, mode, server, timer>>,
           \A k \in Settings!Group : SortSent(k)' => jobs'[k] = jobs[k],
           \A k \in Settings!Group : Changing(k) => jobs'[k] = jobs[k],
           \/ jobs'[Lister] = jobs[Lister] /\ (Lister \in doubt => Lister \in doubt')
           \/ jobs'[Lister].op # "list"
           \/ jobs'[Lister].stage # "done"
    PROVE  ListFits'
<1>1. Lister' = Lister /\ Asks' = Asks
  BY DEF Lister, Asks
<1>2. \A k \in Settings!Group : Changing(k) => Changing(k)'
  BY DEF Changing
<1>3. \A k \in Settings!Group : SortSent(k)' => SortSent(k)
  BY DEF SortSent
<1> QED BY <1>1, <1>2, <1>3 DEF ListFits

\* and the cache.
LEMMA CacheStays ==
    ASSUME CacheFits, UNCHANGED server, cache' \in {cache, NoList},
           \A k \in Settings!Group :
               jobs[k].op \in Settings!ChangeOp /\ jobs[k].stage = "done" => jobs'[k] = jobs[k],
           "cache" \in doubt => "cache" \in doubt'
    PROVE  CacheFits'
  BY DEF CacheFits

\* Nothing is claimed of lists in doubt.
LEMMA AllDoubted ==
    ASSUME "shown" \in doubt', "cache" \in doubt',
           jobs'[Lister'].op = "list" /\ jobs'[Lister'].stage = "done" => Lister' \in doubt'
    PROVE  ListFits' /\ ShownFits' /\ CacheFits'
  BY DEF ListFits, ShownFits, CacheFits


\* What stands in a group the new worker takes is told of, or is doubted.
LEMMA BeginFits ==
    ASSUME SettledInv, NEW j, IsJob(screen, j), j.stage \in {"ask", "sent"}, j.op # "sort",
           Settings!Begin(j), UNCHANGED <<screen, server, shown, timer>>, open' => open,
           cache' \in {cache, NoList},
           mode' = mode \/ j.op = "list",
           j.op = "list" => j.tab = mode' /\ j.stage = "sent"
    PROVE  WorkersFit' /\ ListFits' /\ ShownFits' /\ CacheFits'
<1> PICK g \in Settings!Group : g = Settings!GroupOf(screen, j.op)
  BY GroupsOf
<1> DEFINE untold == Settings!Untold(jobs[g], j.op)
<1>0. g \notin {"shown", "cache"} /\ j # Settings!NoJob
  BY GroupsOf, NoJobIs
<1>1. /\ DOMAIN jobs' = Settings!Group /\ jobs'[g] = j
      /\ \A k \in Settings!Group \ {g} : jobs'[k] = jobs[k]
      /\ doubt' = IF untold THEN Settings!Doubts \ {g} ELSE doubt \ {g}
  BY <1>0 DEF SettledInv, WorkersFit, Settings!Begin
<1>2. ASSUME NEW k \in Settings!Group, jobs[k].op = "list" PROVE k = Lister
  BY <1>2, NoJobIs DEF SettledInv, WorkersFit, Lister
<1>3. j.op = "list" => g = Lister
  BY DEF Lister
<1>4. Lister' = Lister /\ Lister \in Settings!Group
  BY GroupsOf DEF Lister
<1>5. WorkersFit'
  <2>2. ASSUME NEW k \in Settings!Group \ {g}, jobs[k].op = "list" PROVE mode' = mode
    BY <1>2, <1>3, <2>2
  <2> HIDE DEF untold
  <2>3. ASSUME NEW k \in Settings!Group, jobs'[k] # Settings!NoJob
        PROVE  /\ IsJob(screen', jobs'[k])
               /\ k = Settings!GroupOf(screen', jobs'[k].op)
               /\ jobs'[k].op = "list" => jobs'[k].tab = mode' /\ jobs'[k].stage # "ask"
    <3>1. CASE k = g
      BY <1>1, <3>1
    <3>2. CASE k # g
      BY <1>1, <2>2, <2>3, <3>2 DEF SettledInv, WorkersFit
    <3> QED BY <3>1, <3>2
  <2> QED BY <1>1, <2>3 DEF WorkersFit
<1>6. CASE untold
  <2>1. "shown" \in doubt' /\ "cache" \in doubt'
    BY <1>0, <1>1, <1>6 DEF Settings!Doubts
  <2>2. jobs'[Lister'].op = "list" /\ jobs'[Lister'].stage = "done" => Lister' \in doubt'
    BY <1>1, <1>4, <1>6, NoJobIs DEF Settings!Doubts
  <2> QED BY <1>5, <2>1, <2>2, AllDoubted
<1>7. CASE ~ untold
  <2>1. /\ ~ Changing(g) /\ ~ SortSent(g)
        /\ ~ (jobs[g].op \in Settings!ChangeOp /\ jobs[g].stage = "done")
        /\ jobs[g].op = "list" => j.op = "list"
    BY <1>7, NoJobIs DEF Settings!Untold, Changing, SortSent, AskOp, Settings!ChangeOp
  <2>2. "shown" \in doubt => "shown" \in doubt'
    BY <1>0, <1>1, <1>7
  <2>3. CacheFits'
    BY <1>0, <1>1, <1>7, <2>1, CacheStays DEF SettledInv
  <2>4. CASE j.op = "list"
    <3>1. jobs'[Lister'].op = "list" /\ jobs'[Lister'].stage # "done"
      BY <1>1, <1>3, <1>4, <2>4
    <3> QED BY <1>5, <2>3, <3>1 DEF ListFits, ShownFits
  <2>5. CASE j.op # "list"
    <3>1. ~ SortSent(g)'
      BY <1>1 DEF SortSent
    <3>2. /\ \A k \in Settings!Group : SortSent(k) \/ SortSent(k)' => jobs'[k] = jobs[k]
          /\ \A k \in Settings!Group : Changing(k) => jobs'[k] = jobs[k]
      BY <1>1, <2>1, <3>1
    <3>3. jobs[Lister].op = "list" => jobs'[Lister].op = "list"
      BY <1>1, <1>4, <2>1, <2>5
    <3>4. ShownFits'
      BY <2>2, <2>5, <3>2, <3>3, ShownStays DEF SettledInv
    <3>5. \/ jobs'[Lister] = jobs[Lister] /\ (Lister \in doubt => Lister \in doubt')
          \/ jobs'[Lister].op # "list"
      BY <1>1, <1>4, <1>7, <2>5
    <3>6. ListFits'
      BY <2>5, <3>2, <3>5, ListStays DEF SettledInv
    <3> QED BY <1>5, <2>3, <3>4, <3>6
  <2> QED BY <2>4, <2>5
<1> QED BY <1>6, <1>7

\* A worker that held no change and no list ends without a word.
LEMMA QuietEnds ==
    ASSUME SettledInv, NEW g \in Settings!Group, jobs[g].op # "list",
           ~ (jobs[g].op \in Settings!ChangeOp /\ jobs[g].stage = "done"),
           ~ SortSent(g), ~ SortSent(g)', ~ (Changing(g)'),
           DOMAIN jobs' = Settings!Group, jobs'[g].op # "list",
           \A k \in Settings!Group \ {g} : jobs'[k] = jobs[k],
           UNCHANGED <<screen, mode, server, shown, timer, cache>>, open' => open,
           \A k \in {"shown", "cache"} \cup (Settings!Group \ {g}) : k \in doubt => k \in doubt'
    PROVE  ListFits' /\ ShownFits' /\ CacheFits'
<1>1. ~ Changing(g)
  BY DEF Changing, AskOp, Settings!ChangeOp
<1>2. /\ \A k \in Settings!Group : SortSent(k) \/ SortSent(k)' => jobs'[k] = jobs[k]
      /\ \A k \in Settings!Group : Changing(k) => jobs'[k] = jobs[k]
  BY <1>1
<1>3. CacheFits'
  BY CacheStays DEF SettledInv
<1>4. ShownFits'
  BY <1>2, ShownStays, GroupsOf DEF SettledInv
<1>5. ListFits'
  <2>1. \/ jobs'[Lister] = jobs[Lister] /\ (Lister \in doubt => Lister \in doubt')
        \/ jobs'[Lister].op # "list"
    BY GroupsOf
  <2> QED BY <1>2, <2>1, ListStays DEF SettledInv
<1> QED BY <1>3, <1>4, <1>5


LEMMA FirstTabIs == \A s : Settings!FirstTab(s) \in Settings!Tabs(s)
<1>1. Settings!_REPORTS[1] \in Settings!Range(Settings!_REPORTS)
  BY DEF Settings!_REPORTS, Settings!Range
<1> QED BY <1>1 DEF Settings!FirstTab, Settings!Tabs

LEMMA NoRowIs == Settings!NoRow \in AnyRow /\ << >> \in Seq(Nat)
<1>1. << >> \in Seq(Nat)
  OBVIOUS
<1> QED BY <1>1 DEF Settings!NoRow, AnyRow

\* A list that is begun is a worker.
LEMMA NewList ==
    ASSUME NEW s, NEW tab \in Settings!Tabs(s), NEW j,
           j = Settings!Job("list", "sent", tab, Settings!NoRow, << >>)
    PROVE  IsJob(s, j) /\ j.op = "list" /\ j.stage = "sent" /\ j.tab = tab
<1>1. /\ j.op = "list" /\ j.stage = "sent" /\ j.tab = tab /\ j.row = Settings!NoRow
      /\ j.order = << >> /\ j.rows = << >> /\ DOMAIN j = JobFields
  BY DEF Settings!Job, JobFields
<1> QED BY <1>1, NoRowIs, EmptyList DEF IsJob

\* The row a key is about.
LEMMA RowIs ==
    ASSUME SettingsTypes, NEW at \in Settings!Row
    PROVE  /\ at[1] \in DOMAIN shown /\ at[1] \in Settings!Tabs(screen)
           /\ at[2] \in DOMAIN shown[at[1]] /\ Settings!Under(at) \in AnyRow
<1>1. PICK t \in DOMAIN shown : \E i \in DOMAIN shown[t] : at = <<t, i>>
  BY DEF Settings!Row
<1>2. PICK i \in DOMAIN shown[t] : at = <<t, i>>
  BY <1>1
<1>3. at[1] = t /\ at[2] = i
  BY <1>2
<1>4. shown[t][i] \in AnyRow /\ t \in Settings!Tabs(screen)
  BY <1>1, <1>2, RowTypes DEF SettingsTypes, IsList, IsRows
<1> QED BY <1>1, <1>2, <1>3, <1>4 DEF Settings!Under

\* Opening a screen reads its list; the accounts are shown from the session.
LEMMA MountFits == ASSUME SettledInv, Settings!on_mount PROVE SettledInv'
<1>1. /\ ~ open /\ open' = TRUE /\ mode' = Settings!FirstTab(screen)
      /\ UNCHANGED <<screen, nextId, server, cache, dialogs, timer>>
      /\ \A k \in Settings!Group : jobs[k] = Settings!NoJob
      /\ timer = NoTimer /\ DOMAIN jobs = Settings!Group
  BY DEF Settings!on_mount, SettledInv, ClosedIsQuiet, WorkersFit
<1>2. mode' \in Settings!Tabs(screen')
  BY <1>1, FirstTabIs
<1>3. Lister' = Lister /\ Lister \in Settings!Group
  BY <1>1, GroupsOf DEF Lister
<1>4. CASE screen = "accounts"
  <2>1. UNCHANGED <<shown, jobs, doubt>>
    BY <1>4 DEF Settings!on_mount
  <2>2. SettingsTypes'
    BY <1>1, <1>2, <2>1 DEF SettledInv, SettingsTypes
  <2>3. WorkersFit' /\ ClosedIsQuiet'
    BY <1>1, <2>1 DEF WorkersFit, ClosedIsQuiet
  <2>4. Asks' = Asks
    BY <1>1, <1>4 DEF Asks, Settings!Asked
  <2>5. ListFits'
    BY <1>1, <1>3, <2>1, NoJobIs DEF ListFits
  <2>6. \A t : Agrees(t) => Agrees(t)'
    BY <1>1, <2>1 DEF Agrees, Timed, SortSent
  <2>7. ~ (\E k \in Settings!Group : Changing(k)) /\ jobs[Lister].op # "list"
    BY <1>1, <1>3, NoJobIs DEF Changing, AskOp
  <2>8. ShownFits'
    BY <1>1, <1>3, <1>4, <2>1, <2>4, <2>6, <2>7 DEF SettledInv, ShownFits
  <2>9. CacheFits'
    BY <1>1, <2>1, CacheStays DEF SettledInv
  <2> QED BY <2>2, <2>3, <2>5, <2>8, <2>9 DEF SettledInv
<1>5. CASE screen # "accounts"
  <2> PICK j : j = Settings!Job("list", "sent", mode', Settings!NoRow, << >>)
    OBVIOUS
  <2>1. IsJob(screen', j) /\ j.op = "list" /\ j.stage = "sent" /\ j.tab = mode'
    BY <1>2, NewList
  <2>2. shown' = << >> /\ jobs' = [jobs EXCEPT ![Lister] = j] /\ doubt' = {}
    BY <1>5 DEF Settings!on_mount, Lister
  <2>3. jobs'[Lister'] = j
    BY <1>1, <1>3, <2>2
  <2>4. SettingsTypes'
    BY <1>1, <1>2, <2>2, EmptyList DEF SettledInv, SettingsTypes
  <2>5. WorkersFit' /\ ClosedIsQuiet'
    BY <1>1, <1>3, <2>1, <2>2 DEF WorkersFit, ClosedIsQuiet, Lister
  <2>6. ListFits' /\ ShownFits'
    BY <2>1, <2>3 DEF ListFits, ShownFits
  <2>7. CacheFits'
    BY <1>1, <1>5 DEF CacheFits, SettledInv, SettingsTypes
  <2> QED BY <2>4, <2>5, <2>6, <2>7 DEF SettledInv
<1> QED BY <1>4, <1>5

\* Leaving it is doubted when it cancels something.
LEMMA BackFits == ASSUME SettledInv, Settings!action_back PROVE SettledInv'
<1>1. /\ open /\ open' = FALSE /\ timer' = NoTimer /\ dialogs = << >>
      /\ jobs' = [g \in Settings!Group |-> Settings!NoJob]
      /\ doubt' = IF timer # NoTimer \/ \E g \in Settings!Group : Settings!Untold(jobs[g], "back")
                  THEN {"shown", "cache"} ELSE doubt \ Settings!Group
      /\ UNCHANGED <<screen, nextId, mode, server, shown, cache, dialogs>>
  BY DEF Settings!action_back, Settings!Key
<1>2. Lister' = Lister /\ Lister \in Settings!Group /\ Asks' = Asks
  BY <1>1, GroupsOf DEF Lister, Asks
<1>3. SettingsTypes' /\ WorkersFit' /\ ClosedIsQuiet'
  BY <1>1 DEF SettledInv, SettingsTypes, WorkersFit, ClosedIsQuiet
<1>4. jobs'[Lister'].op # "list"
  BY <1>1, <1>2, NoJobIs
<1>5. CASE timer # NoTimer \/ \E g \in Settings!Group : Settings!Untold(jobs[g], "back")
  BY <1>1, <1>3, <1>4, <1>5, AllDoubted DEF SettledInv
<1>6. CASE timer = NoTimer /\ ~ \E g \in Settings!Group : Settings!Untold(jobs[g], "back")
  <2>1. ASSUME NEW g \in Settings!Group
        PROVE  /\ ~ Changing(g) /\ ~ SortSent(g) /\ jobs[g].op # "list"
               /\ ~ (jobs[g].op \in Settings!ChangeOp /\ jobs[g].stage = "done")
    BY <1>6, NoJobIs DEF Settings!Untold, Changing, SortSent, AskOp, Settings!ChangeOp
  <2>2. \A k \in {"shown", "cache"} : k \in doubt => k \in doubt'
    BY <1>1, <1>6, GroupsOf
  <2>3. ListFits'
    BY <1>4 DEF ListFits
  <2>4. ASSUME NEW t, Agrees(t) PROVE Agrees(t)'
    <3>1. ~ Timed(t) /\ ~ Timed(t)'
      BY <1>1, <1>6 DEF Timed
    <3>2. shown[t] = server[t]
      BY <2>1, <2>4, <3>1 DEF Agrees
    <3>3. ASSUME NEW g \in Settings!Group PROVE ~ SortSent(g)'
      BY <1>1, NoJobIs DEF SortSent
    <3> QED BY <1>1, <2>4, <3>1, <3>2, <3>3 DEF Agrees
  <2>5. ShownFits'
    BY <1>1, <1>2, <2>1, <2>2, <2>4 DEF SettledInv, ShownFits
  <2>6. CacheFits'
    BY <1>1, <2>1, <2>2, CacheStays DEF SettledInv
  <2> QED BY <1>3, <2>3, <2>5, <2>6 DEF SettledInv
<1> QED BY <1>5, <1>6

\* A reload, and the other tab.
LEMMA ReloadFits ==
    ASSUME SettledInv, Settings!action_refresh \/ Settings!action_toggle \/ Settings!action_toggle_report
    PROVE  SettledInv'
<1>1. /\ open /\ open' = open /\ dialogs = << >> /\ mode' \in Settings!Tabs(screen)
      /\ cache' \in {cache, NoList}
      /\ UNCHANGED <<screen, nextId, server, shown, dialogs, timer>>
      /\ Settings!Begin(Settings!Job("list", "sent", mode', Settings!NoRow, << >>))
  BY DEF Settings!action_refresh, Settings!action_toggle, Settings!action_toggle_report,
         Settings!Key, Settings!Listing, SettledInv, SettingsTypes
<1> PICK j : j = Settings!Job("list", "sent", mode', Settings!NoRow, << >>)
  OBVIOUS
<1>2. IsJob(screen, j) /\ j.op = "list" /\ j.stage = "sent" /\ j.tab = mode'
  BY <1>1, NewList
<1>3. WorkersFit' /\ ListFits' /\ ShownFits' /\ CacheFits'
  BY <1>1, <1>2, BeginFits
<1>4. SettingsTypes' /\ ClosedIsQuiet'
  BY <1>1 DEF SettledInv, SettingsTypes, ClosedIsQuiet
<1> QED BY <1>3, <1>4 DEF SettledInv


\* What is left alone keeps what is said of it.
LEMMA Unmoved ==
    ASSUME SettledInv, UNCHANGED <<screen, open, mode, server, shown, timer, jobs, doubt, cache>>
    PROVE  WorkersFit' /\ ListFits' /\ ShownFits' /\ CacheFits'
<1>1. Lister' = Lister /\ Asks' = Asks
  BY DEF Lister, Asks
<1>2. \A t : Agrees(t) => Agrees(t)'
  BY DEF Agrees, Timed, SortSent
<1>3. \A k : /\ Changing(k) => Changing(k)'
             /\ SortSent(k)' => SortSent(k)
  BY DEF Changing, SortSent
<1>4. WorkersFit' /\ CacheFits'
  BY DEF SettledInv, WorkersFit, CacheFits
<1>5. ListFits' /\ ShownFits'
  BY <1>1, <1>2, <1>3 DEF SettledInv, ListFits, ShownFits
<1> QED BY <1>4, <1>5

\* A dialog is about a row of the screen.
LEMMA OpenFits ==
    ASSUME SettingsTypes, NEW op \in AskOp, NEW tab \in Settings!Tabs(screen), NEW row \in AnyRow,
           Settings!Open(op, tab, row)
    PROVE  dialogs' \in Seq(Dialog(screen))
<1>1. Settings!Job(op, "ask", tab, row, << >>) \in Dialog(screen)
  BY DEF Settings!Job, Dialog
<1> DEFINE d == Settings!Job(op, "ask", tab, row, << >>)
           D == Dialog(screen)
<1>2. dialogs' = <<d>> \o dialogs
  BY DEF Settings!Open
<1>3. d \in D /\ dialogs \in Seq(D)
  BY <1>1 DEF SettingsTypes
<1> HIDE DEF d, D
<1>4. <<d>> \in Seq(D)
  BY <1>3
<1>5. dialogs' \in Seq(D)
  BY <1>2, <1>3, <1>4
<1> QED BY <1>5 DEF D

\* A key that starts a worker
LEMMA StartFits ==
    ASSUME SettledInv, Settings!MayChange,
           NEW op \in {"check"} \cup AskOp, NEW stage \in {"ask", "sent"},
           NEW tab \in Settings!Tabs(screen), NEW row \in AnyRow,
           Settings!Begin(Settings!Job(op, stage, tab, row, << >>)),
           UNCHANGED <<screen, nextId, open, mode, server, cache, shown, timer>>,
           dialogs' \in Seq(Dialog(screen))
    PROVE  SettledInv'
<1> PICK j : j = Settings!Job(op, stage, tab, row, << >>)
  OBVIOUS
<1>1. open
  BY DEF Settings!MayChange, Settings!Key
<1>2. IsJob(screen, j) /\ j.op = op /\ j.stage = stage
  <2>1. /\ j.op = op /\ j.stage = stage /\ j.tab = tab /\ j.row = row
        /\ j.order = << >> /\ j.rows = << >> /\ DOMAIN j = JobFields
    BY DEF Settings!Job, JobFields
  <2> QED BY <2>1, NoRowIs, EmptyList DEF IsJob
<1>3. op \notin {"list", "sort"}
  BY DEF AskOp
<1>4. WorkersFit' /\ ListFits' /\ ShownFits' /\ CacheFits'
  BY <1>1, <1>2, <1>3, BeginFits
<1>5. SettingsTypes' /\ ClosedIsQuiet'
  BY <1>1 DEF SettledInv, SettingsTypes, ClosedIsQuiet
<1> QED BY <1>4, <1>5 DEF SettledInv

\* or opens a dialog,
LEMMA FlowFits ==
    ASSUME SettledInv, Settings!MayChange, NEW op \in AskOp,
           NEW tab \in Settings!Tabs(screen), NEW row \in AnyRow,
           UNCHANGED <<screen, nextId, open, mode, server, cache, shown, timer>>,
           \/ Settings!Flow(op, tab, row)
           \/ Settings!Open(op, tab, row) /\ UNCHANGED <<jobs, doubt>>
    PROVE  SettledInv'
<1>1. dialogs' \in Seq(Dialog(screen))
  BY OpenFits DEF Settings!Flow, SettledInv
<1>2. CASE Settings!Flow(op, tab, row)
  BY <1>1, <1>2, StartFits DEF Settings!Flow
<1>3. CASE Settings!Open(op, tab, row) /\ UNCHANGED <<jobs, doubt>>
  <2>1. WorkersFit' /\ ListFits' /\ ShownFits' /\ CacheFits'
    BY <1>3, Unmoved
  <2>2. SettingsTypes' /\ ClosedIsQuiet'
    BY <1>1 DEF SettledInv, SettingsTypes, ClosedIsQuiet, Settings!MayChange, Settings!Key
  <2> QED BY <2>1, <2>2 DEF SettledInv
<1> QED BY <1>2, <1>3

\* and one that moves a row.  Lists read before that are doubted.
LEMMA ReorderFits ==
    ASSUME SettledInv, Settings!MayChange, Settings!Reorder,
           UNCHANGED <<screen, nextId, open, mode, server, cache>>
    PROVE  SettledInv'
<1>1. screen \in {"accounts", "sections"} /\ UNCHANGED <<jobs, dialogs>>
  BY DEF Settings!Reorder
<1>2. PICK at \in Settings!Row :
          LET tab == at[1]
              i   == at[2]
              moved == [shown[tab] EXCEPT ![i] = shown[tab][i + 1], ![i + 1] = shown[tab][i]]
          IN  /\ i < Len(shown[tab])
              /\ shown' = [shown EXCEPT ![tab] = moved]
              /\ timer' = [tab |-> tab, order |-> Settings!Ids(moved)]
              /\ doubt' = doubt
                    \cup (IF timer # NoTimer /\ timer.tab # tab THEN Settings!Doubts ELSE {})
                    \cup (IF jobs["list"] # Settings!NoJob THEN {"list"} ELSE {})
  BY Zenon DEF Settings!Reorder
<1> PICK tab \in DOMAIN shown : tab = at[1]
  BY RowIs DEF SettledInv
<1> PICK i \in DOMAIN shown[tab] : i = at[2]
  BY RowIs DEF SettledInv
<1> PICK moved : moved = [shown[tab] EXCEPT ![i] = shown[tab][i + 1], ![i + 1] = shown[tab][i]]
  OBVIOUS
<1>3. /\ i < Len(shown[tab])
      /\ shown' = [shown EXCEPT ![tab] = moved]
      /\ timer' = [tab |-> tab, order |-> Settings!Ids(moved)]
      /\ doubt' = doubt
            \cup (IF timer # NoTimer /\ timer.tab # tab THEN Settings!Doubts ELSE {})
            \cup (IF jobs["list"] # Settings!NoJob THEN {"list"} ELSE {})
  BY <1>2
<1>4. IsRows(shown[tab]) /\ tab \in Settings!Tabs(screen)
  BY DEF SettledInv, SettingsTypes, IsList
<1>5. IsRows(moved) /\ SameRows(moved, shown[tab])
  BY <1>3, <1>4, MovedRows
<1>6. Settings!Ids(moved) \in Seq(Nat)
  <2>1. /\ Len(moved) \in Nat /\ DOMAIN moved = 1 .. Len(moved)
        /\ \A k \in 1 .. Len(moved) : moved[k].id \in Nat
    BY <1>5, RowTypes DEF IsRows
  <2>2. Settings!Ids(moved) = [k \in 1 .. Len(moved) |-> moved[k].id]
    BY <2>1 DEF Settings!Ids
  <2> DEFINE o == Settings!Ids(moved)
             N == Len(moved)
  <2>3. o = [k \in 1 .. N |-> moved[k].id] /\ \A k \in 1 .. N : moved[k].id \in Nat
    BY <2>1, <2>2
  <2>5. N \in Nat
    BY <2>1
  <2> HIDE DEF o, N
  <2>4. o \in Seq(Nat)
    BY <2>3, <2>5
  <2> QED BY <2>4 DEF o
<1>8. timer' # NoTimer /\ timer' \in [tab : Settings!Tabs(screen), order : Seq(Nat)]
  <2>1. timer' \in [tab : Settings!Tabs(screen), order : Seq(Nat)]
    BY <1>3, <1>4, <1>6
  <2> QED BY <2>1, SettingsAssumption DEF SettledInv, SettingsTypes
<1>9. IsList(screen', shown')
  BY <1>3, <1>5 DEF SettledInv, SettingsTypes, IsList
<1>10. SettingsTypes' /\ WorkersFit' /\ ClosedIsQuiet'
  BY <1>1, <1>8, <1>9 DEF SettledInv, SettingsTypes, WorkersFit, ClosedIsQuiet,
                          Settings!MayChange, Settings!Key
<1>11. Lister' = Lister /\ Lister = "list" /\ Asks' = Asks /\ "list" \in Settings!Group
  BY <1>1, GroupsOf DEF Lister, Asks
<1>12. ListFits'
  <2>1. jobs[Lister].op = "list" => Lister \in doubt'
    BY <1>3, <1>11, NoJobIs
  <2> QED BY <1>1, <1>11, <2>1 DEF ListFits
<1>13. CacheFits'
  BY <1>1, <1>3, CacheStays DEF SettledInv
<1>14. ShownFits'
  <2>1. CASE "shown" \in doubt'
    BY <2>1 DEF ShownFits
  <2>2. CASE \E g \in Settings!Group : Changing(g)
    <3>1. PICK g \in Settings!Group : Changing(g)
      BY <2>2
    <3>2. Changing(g)'
      BY <1>1, <3>1 DEF Changing
    <3> QED BY <3>2 DEF ShownFits
  <2>3. CASE jobs[Lister].op = "list"
    BY <1>1, <1>11, <2>3 DEF ShownFits
  <2>4. CASE "shown" \notin doubt' /\ DOMAIN shown = Asks /\ \A t \in Asks : Agrees(t)
    <3>1. timer = NoTimer \/ timer.tab = tab
      BY <1>3, <2>4 DEF Settings!Doubts
    <3>2. DOMAIN shown' = Asks'
      BY <1>3, <1>11, <2>4
    <3>3. ASSUME NEW t \in Asks, t # tab PROVE Agrees(t)'
      <4>1. ~ Timed(t) /\ ~ Timed(t)' /\ Agrees(t)
        BY <1>3, <2>4, <3>1, <3>3 DEF Timed
      <4>2. shown'[t] = shown[t]
        BY <1>3, <2>4, <3>3
      <4>3. \A g : SortSent(g)' <=> SortSent(g)
        BY <1>1 DEF SortSent
      <4> QED BY <1>1, <4>1, <4>2, <4>3 DEF Agrees
    <3>4. Agrees(tab)'
      <4>1. Timed(tab)'
        BY <1>3, <1>8 DEF Timed
      <4>2. shown'[tab] = moved
        BY <1>3
      <4>3. Agrees(tab)
        BY <2>4
      <4>4. SameRows(moved, server[tab])
        BY <1>5, <4>3, SameRowsTrans DEF Agrees
      <4> QED BY <1>3, <4>1, <4>2, <4>4 DEF Agrees
    <3> QED BY <1>11, <3>2, <3>3, <3>4 DEF ShownFits
  <2> QED BY <1>3, <2>1, <2>2, <2>3, <2>4 DEF ShownFits, SettledInv
<1> QED BY <1>10, <1>12, <1>13, <1>14 DEF SettledInv

LEMMA ChangeFits == ASSUME SettledInv, Settings!Change PROVE SettledInv'
<1>1. Settings!MayChange /\ UNCHANGED <<screen, nextId, open, mode, server, cache>>
  BY DEF Settings!Change
<1>2. /\ mode \in Settings!Tabs(screen) /\ Settings!NoRow \in AnyRow
      /\ \A at \in Settings!Row : at[1] \in Settings!Tabs(screen) /\ Settings!Under(at) \in AnyRow
  BY RowIs, NoRowIs DEF SettledInv, SettingsTypes
<1>3. screen \in {"sections", "frequent", "monthly"} => "all" \in Settings!Tabs(screen)
  BY DEF Settings!Tabs
<1>4. "create" \in AskOp /\ "update" \in AskOp /\ "delete" \in AskOp
  BY DEF AskOp
<1>5. CASE Settings!action_new_account
  BY <1>1, <1>2, <1>4, <1>5, FlowFits DEF Settings!action_new_account
<1>6. CASE Settings!action_edit_account
  BY <1>1, <1>2, <1>4, <1>6, FlowFits DEF Settings!action_edit_account
<1>7. CASE Settings!action_delete_account
  <2>1. PICK at \in Settings!Row :
            Settings!Begin(Settings!Job("check", "sent", at[1], Settings!Under(at), << >>))
    BY <1>7 DEF Settings!action_delete_account
  <2>2. UNCHANGED <<dialogs, shown, timer>>
    BY <1>7 DEF Settings!action_delete_account
  <2> QED BY <1>1, <1>2, <2>1, <2>2, StartFits DEF SettledInv, SettingsTypes
<1>8. CASE Settings!SectionFlow
  BY <1>1, <1>2, <1>3, <1>4, <1>8, FlowFits DEF Settings!SectionFlow
<1>9. CASE Settings!Reorder
  BY <1>1, <1>9, ReorderFits
<1>10. CASE Settings!NewWorker
  BY <1>1, <1>2, <1>3, <1>4, <1>10, FlowFits DEF Settings!NewWorker
<1>11. CASE Settings!DeleteWorker
  BY <1>1, <1>2, <1>3, <1>4, <1>11, FlowFits DEF Settings!DeleteWorker
<1>12. CASE Settings!NewCustom
  BY <1>1, <1>2, <1>4, <1>12, FlowFits DEF Settings!NewCustom
<1>13. CASE Settings!DeleteCustom
  BY <1>1, <1>2, <1>4, <1>13, FlowFits DEF Settings!DeleteCustom
<1>14. CASE Settings!EditAmount
  BY <1>1, <1>2, <1>4, <1>14, FlowFits DEF Settings!EditAmount
<1>15. CASE Settings!DeleteBudget
  <2>1. PICK at \in Settings!Row :
            Settings!Begin(Settings!Job("delete", "sent", mode, Settings!Under(at), << >>))
    BY <1>15 DEF Settings!DeleteBudget
  <2>2. UNCHANGED <<dialogs, shown, timer>>
    BY <1>15 DEF Settings!DeleteBudget
  <2> QED BY <1>1, <1>2, <1>4, <2>1, <2>2, StartFits DEF SettledInv, SettingsTypes
<1>16. CASE Settings!EditGoal
  BY <1>1, <1>2, <1>4, <1>16, FlowFits DEF Settings!EditGoal
<1> QED BY <1>5, <1>6, <1>7, <1>8, <1>9, <1>10, <1>11, <1>12, <1>13, <1>14, <1>15, <1>16
        DEF Settings!Change


\* The request of a dialog stands in the group of the worker that waits for it.
LEMMA RequestFits ==
    ASSUME NEW d \in Dialog(screen), NEW val \in Nat, NEW r, r = Settings!Request(d, val)
    PROVE  /\ IsJob(screen, r) /\ r.stage = "sent" /\ r.op \in AskOp
           /\ Settings!GroupOf(screen, r.op) = Settings!GroupOf(screen, d.op)
<1>1. /\ DOMAIN d = JobFields /\ d.op \in AskOp /\ d.tab \in Settings!Tabs(screen)
      /\ d.row \in AnyRow /\ d.order = << >> /\ d.rows = << >>
  BY DEF Dialog, JobFields
<1>2. /\ DOMAIN r = JobFields /\ r.stage = "sent" /\ r.tab = d.tab
      /\ r.row = [d.row EXCEPT !.val = val] /\ r.order = d.order /\ r.rows = d.rows
      /\ r.op = IF screen = "budget" /\ val = 0 THEN "delete" ELSE d.op
  BY <1>1 DEF Settings!Request, JobFields
<1>3. r.row \in AnyRow
  BY <1>1, <1>2 DEF AnyRow
<1>4. r.op \in AskOp
  BY <1>1, <1>2 DEF AskOp
<1>5. IsJob(screen, r)
  BY <1>1, <1>2, <1>3, <1>4, EmptyList, NoRowIs DEF IsJob
<1>6. Settings!GroupOf(screen, r.op) = Settings!GroupOf(screen, d.op)
  BY <1>2 DEF Settings!GroupOf
<1> QED BY <1>2, <1>4, <1>5, <1>6

LEMMA FormIs == \A s : Settings!Form(s) \subseteq Nat
  BY DEF Settings!Form, Settings!AccountForm, Settings!FrequentForm, Settings!MonthlyForm,
         Settings!CustomForm, Settings!AmountForm, Settings!GoalForm

\* An answer of a dialog starts a worker or lets one go on; cancelling ends it.
LEMMA DialogFits ==
    ASSUME SettledInv, Settings!Accept \/ Settings!CancelDialog PROVE SettledInv'
<1>1. /\ dialogs # << >> /\ dialogs' = Tail(dialogs)
      /\ UNCHANGED <<screen, nextId, open, mode, server, shown, cache, timer>>
  BY DEF Settings!Accept, Settings!CancelDialog
<1> PICK d : d = Head(dialogs)
  OBVIOUS
<1>2. d \in Dialog(screen) /\ dialogs' \in Seq(Dialog(screen))
  <2> DEFINE D == Dialog(screen)
  <2>1. dialogs \in Seq(D)
    BY DEF SettledInv, SettingsTypes
  <2> HIDE DEF D
  <2>2. Head(dialogs) \in D /\ Tail(dialogs) \in Seq(D)
    BY <1>1, <2>1
  <2> QED BY <1>1, <2>2 DEF D
<1>3. open
  BY <1>1 DEF SettledInv, ClosedIsQuiet
<1>4. SettingsTypes' /\ ClosedIsQuiet'
  BY <1>1, <1>2, <1>3 DEF SettledInv, SettingsTypes, ClosedIsQuiet
<1> PICK g \in Settings!Group : g = Settings!GroupOf(screen, d.op)
  BY GroupsOf
<1>5. d.op \in AskOp
  BY <1>2 DEF Dialog
<1>6. CASE UNCHANGED <<jobs, doubt>>
  BY <1>1, <1>4, <1>6, Unmoved DEF SettledInv
<1>7. ASSUME Settings!Hears(g, d), UNCHANGED doubt, NEW r, jobs' = [jobs EXCEPT ![g] = r],
             \/ r = Settings!NoJob
             \/ IsJob(screen, r) /\ r.stage = "sent" /\ r.op \in AskOp /\ g = Settings!GroupOf(screen, r.op)
      PROVE  SettledInv'
  <2>1. jobs[g].stage = "ask" /\ jobs[g].op = d.op
    BY <1>7 DEF Settings!Hears
  <2>2. /\ jobs[g].op # "list" /\ ~ (jobs[g].op \in Settings!ChangeOp /\ jobs[g].stage = "done")
        /\ ~ SortSent(g)
    BY <1>5, <2>1 DEF AskOp, SortSent
  <2>3. /\ DOMAIN jobs' = Settings!Group /\ jobs'[g] = r
        /\ \A k \in Settings!Group \ {g} : jobs'[k] = jobs[k]
    BY <1>7 DEF SettledInv, WorkersFit
  <2>4. r.op \notin {"list", "sort"} /\ r.stage # "done"
    BY <1>7, NoJobIs DEF AskOp
  <2>5. ~ SortSent(g)' /\ ~ (Changing(g)')
    BY <2>3, <2>4 DEF SortSent, Changing
  <2>6. ListFits' /\ ShownFits' /\ CacheFits'
    BY <1>1, <1>7, <2>2, <2>3, <2>4, <2>5, QuietEnds
  <2>7. WorkersFit'
    BY <1>1, <1>7, <2>3, <2>4 DEF SettledInv, WorkersFit
  <2> QED BY <1>4, <2>6, <2>7 DEF SettledInv
<1>8. CASE Settings!CancelDialog
  <2>1. IF Settings!Hears(g, d) THEN Settings!Ends(g) ELSE UNCHANGED jobs
    BY <1>8 DEF Settings!CancelDialog
  <2>2. UNCHANGED doubt
    BY <1>8 DEF Settings!CancelDialog
  <2> QED BY <1>6, <1>7, <2>1, <2>2 DEF Settings!Ends
<1>9. CASE Settings!Accept
  <2>1. PICK val \in Settings!Form(screen) :
             \/ /\ screen = "accounts"
                /\ Settings!Begin(Settings!Request(d, val))
             \/ /\ screen # "accounts"
                /\ Settings!Hears(g, d)
                /\ jobs' = [jobs EXCEPT ![g] = IF Settings!Unchanged(d, val) THEN Settings!NoJob
                                               ELSE Settings!Request(d, val)]
                /\ UNCHANGED doubt
             \/ /\ screen # "accounts"
                /\ ~ Settings!Hears(g, d)
                /\ UNCHANGED <<jobs, doubt>>
    BY <1>9 DEF Settings!Accept
  <2> PICK r : r = Settings!Request(d, val)
    OBVIOUS
  <2>2. /\ IsJob(screen, r) /\ r.stage = "sent" /\ r.op \in AskOp
        /\ g = Settings!GroupOf(screen, r.op)
    BY <1>2, FormIs, RequestFits
  <2>3. CASE Settings!Begin(r)
    <3>1. r.op \notin {"list", "sort"}
      BY <2>2 DEF AskOp
    <3>2. WorkersFit' /\ ListFits' /\ ShownFits' /\ CacheFits'
      BY <1>1, <2>2, <2>3, <3>1, BeginFits
    <3> QED BY <1>4, <3>2 DEF SettledInv
  <2>4. CASE /\ Settings!Hears(g, d) /\ UNCHANGED doubt
             /\ jobs' = [jobs EXCEPT ![g] = IF Settings!Unchanged(d, val) THEN Settings!NoJob
                                            ELSE r]
    <3>1. CASE Settings!Unchanged(d, val)
      BY <1>7, <2>4, <3>1
    <3>2. CASE ~ Settings!Unchanged(d, val)
      BY <1>7, <2>2, <2>4, <3>2
    <3> QED BY <3>1, <3>2
  <2> QED BY <1>6, <2>1, <2>3, <2>4
<1> QED BY <1>8, <1>9

\* The order that is saved is the one shown.
LEMMA TimerFits == ASSUME SettledInv, Settings!SortTimer PROVE SettledInv'
<1>1. /\ timer # NoTimer /\ timer' = NoTimer
      /\ UNCHANGED <<screen, nextId, open, mode, server, shown, cache, dialogs>>
  BY DEF Settings!SortTimer
<1>2. /\ screen \in {"accounts", "sections"} /\ open
      /\ timer.tab \in Settings!Tabs(screen) /\ timer.order \in Seq(Nat)
  BY <1>1 DEF SettledInv, SettingsTypes, ClosedIsQuiet
<1> PICK j : j = Settings!Job("sort", "sent", timer.tab, Settings!NoRow, timer.order)
  OBVIOUS
<1> PICK g \in Settings!Group : g = "mutate"
  BY DEF Settings!Group
<1>3. /\ j.op = "sort" /\ j.stage = "sent" /\ j.tab = timer.tab /\ j.row = Settings!NoRow
      /\ j.order = timer.order /\ j.rows = << >> /\ DOMAIN j = JobFields
  BY DEF Settings!Job, JobFields
<1>4. IsJob(screen, j)
  BY <1>2, <1>3, NoRowIs, EmptyList DEF IsJob
<1>5. g = Settings!GroupOf(screen, "sort") /\ Lister = "list" /\ Lister' = Lister
  BY <1>1, <1>2, GroupsOf DEF Lister
<1>6. /\ DOMAIN jobs' = Settings!Group /\ jobs'[g] = j
      /\ \A k \in Settings!Group \ {g} : jobs'[k] = jobs[k]
      /\ doubt' = IF Settings!Untold(jobs[g], "sort") THEN Settings!Doubts \ {g} ELSE doubt \ {g}
  BY <1>3, <1>5 DEF Settings!SortTimer, Settings!Begin, SettledInv, WorkersFit
<1>7. SettingsTypes' /\ ClosedIsQuiet'
  BY <1>1, <1>2 DEF SettledInv, SettingsTypes, ClosedIsQuiet
<1>8. WorkersFit'
  BY <1>1, <1>3, <1>4, <1>5, <1>6 DEF SettledInv, WorkersFit
<1>9. Lister \in Settings!Group /\ g # Lister /\ g \notin {"shown", "cache"}
  BY <1>5, GroupsOf
<1>10. jobs'[Lister] = jobs[Lister]
  BY <1>6, <1>9
<1>11. CASE Settings!Untold(jobs[g], "sort")
  <2>1. "shown" \in doubt' /\ "cache" \in doubt'
    BY <1>6, <1>9, <1>11 DEF Settings!Doubts
  <2>2. jobs'[Lister'].op = "list" => Lister' \in doubt'
    BY <1>5, <1>6, <1>9, <1>10, <1>11, NoJobIs DEF Settings!Doubts
  <2>3. ListFits' /\ ShownFits' /\ CacheFits'
    BY <2>1, <2>2, AllDoubted
  <2> QED BY <1>7, <1>8, <2>3 DEF SettledInv
<1>12. CASE ~ Settings!Untold(jobs[g], "sort")
  <2>1. /\ ~ Changing(g) /\ ~ SortSent(g)
        /\ ~ (jobs[g].op \in Settings!ChangeOp /\ jobs[g].stage = "done")
    BY <1>12, NoJobIs DEF Settings!Untold, Changing, SortSent, AskOp, Settings!ChangeOp
  <2>2. \A k \in (Settings!Group \ {g}) \cup {"shown", "cache"} : k \in doubt => k \in doubt'
    BY <1>6, <1>9, <1>12
  <2>3. CacheFits'
    BY <1>1, <1>6, <2>1, <2>2, CacheStays DEF SettledInv
  <2>4. ListFits'
    <3>1. jobs[Lister].op = "list" /\ jobs[Lister].stage = "done" => Lister \in doubt'
      BY <1>1, <1>9, <2>2 DEF SettledInv, ListFits
    <3> QED BY <1>5, <1>10, <3>1 DEF ListFits
  <2>5. ASSUME NEW k \in Settings!Group PROVE ~ SortSent(k)
    <3>1. SortSent(k) => k = g
      BY <1>5, NoJobIs DEF SettledInv, WorkersFit, SortSent
    <3> QED BY <2>1, <3>1
  <2>6. ASSUME NEW k \in Settings!Group, k # g PROVE ~ SortSent(k)'
    BY <1>6, <2>5, <2>6 DEF SortSent
  <2>7. SortSent(g)' /\ jobs'[g].tab = timer.tab /\ jobs'[g].order = timer.order
    BY <1>3, <1>6 DEF SortSent
  <2>8. ASSUME NEW t, Agrees(t) PROVE Agrees(t)'
    <3>1. ~ Timed(t)'
      BY <1>1 DEF Timed
    <3>2. CASE t = timer.tab
      <4>1. timer.order = Settings!Ids(shown[t])
        BY <1>1, <2>8, <3>2 DEF Agrees, Timed
      <4>2. \A k \in Settings!Group : SortSent(k)' => k = g
        BY <2>6
      <4>3. shown' = shown /\ server' = server
        BY <1>1
      <4> QED BY <2>7, <2>8, <3>1, <3>2, <4>1, <4>2, <4>3 DEF Agrees
    <3>3. CASE t # timer.tab
      <4>1. shown[t] = server[t]
        BY <2>5, <2>8, <3>3 DEF Agrees, Timed
      <4>2. \A k \in Settings!Group : SortSent(k)' => jobs'[k].tab # t
        BY <2>6, <2>7, <3>3
      <4>3. shown' = shown /\ server' = server
        BY <1>1
      <4> QED BY <2>8, <3>1, <4>1, <4>2, <4>3 DEF Agrees
    <3> QED BY <3>2, <3>3
  <2>9. Asks' = Asks
    BY <1>1 DEF Asks
  <2>10. \A k \in Settings!Group : Changing(k) => Changing(k)'
    BY <1>6, <2>1 DEF Changing
  <2>11. ShownFits'
    BY <1>1, <1>5, <1>10, <2>2, <2>8, <2>9, <2>10 DEF SettledInv, ShownFits
  <2> QED BY <1>7, <1>8, <2>3, <2>4, <2>11 DEF SettledInv
<1> QED BY <1>11, <1>12


\* What the server makes of a request are rows with ids.
LEMMA ResultFits ==
    ASSUME SettingsTypes, NEW j, IsJob(screen, j)
    PROVE  LET to == Settings!Result(j)
               n  == nextId + IF Len(to) > Len(server[j.tab]) THEN 1 ELSE 0
           IN  /\ IsRows(to) /\ Issued(to, n) /\ n \in Nat /\ n >= nextId
               /\ j.op \in {"list", "check"} => to = server[j.tab]
               /\ j.op = "sort" => to = Settings!Sorted(server[j.tab], j.order)
<1> DEFINE rows == server[j.tab]
           to == Settings!Result(j)
           n == nextId + IF Len(to) > Len(rows) THEN 1 ELSE 0
<1>1. /\ IsRows(rows) /\ Issued(rows, nextId) /\ nextId \in Nat
      /\ j.row \in AnyRow /\ j.order \in Seq(Nat)
      /\ Len(rows) \in Nat
  BY RowTypes DEF SettingsTypes, IsJob, IsRows
<1>2. ASSUME NEW m, IsRows(m), Issued(m, nextId), Len(m) <= Len(rows), to = m
      PROVE  IsRows(to) /\ Issued(to, n) /\ n \in Nat /\ n >= nextId
  <2>1. Len(m) \in Nat
    BY <1>2, RowTypes DEF IsRows
  <2>2. n = nextId
    BY <1>1, <1>2, <2>1
  <2> QED BY <1>1, <1>2, <2>2
<1>3. ASSUME to = Settings!Created(rows, j.row)
      PROVE  IsRows(to) /\ Issued(to, n) /\ n \in Nat /\ n >= nextId
  <2>1. IsRows(to) /\ Len(to) > Len(rows) /\ Issued(to, nextId + 1)
    BY <1>1, <1>3, CreatedRows
  <2>2. n = nextId + 1
    BY <1>1, <2>1
  <2> QED BY <1>1, <2>1, <2>2
<1> HIDE DEF rows, n
<1>4. j.op \in {"list", "check", "sort"} \cup AskOp
  BY DEF IsJob
<1>5. CASE j.op = "create"
  <2>1. to = Settings!Created(rows, j.row)
    BY <1>5 DEF Settings!Result, rows
  <2> HIDE DEF to
  <2> QED BY <1>3, <1>5, <2>1 DEF n, rows, to
<1>6. CASE j.op = "update"
  <2>1. \/ to = Settings!Updated(rows, j.row)
        \/ to = Settings!Created(rows, j.row)
    BY <1>6 DEF Settings!Result, rows
  <2>2. /\ IsRows(Settings!Updated(rows, j.row)) /\ Issued(Settings!Updated(rows, j.row), nextId)
        /\ Len(Settings!Updated(rows, j.row)) <= Len(rows)
    BY <1>1, UpdatedRows
  <2> HIDE DEF to
  <2> QED BY <1>2, <1>3, <1>6, <2>1, <2>2 DEF n, rows, to
<1>7. CASE j.op = "delete"
  <2>1. to = Settings!Without(rows, j.row.id)
    BY <1>7 DEF Settings!Result, rows
  <2>2. /\ IsRows(Settings!Without(rows, j.row.id)) /\ Issued(Settings!Without(rows, j.row.id), nextId)
        /\ Len(Settings!Without(rows, j.row.id)) <= Len(rows)
    BY <1>1, WithoutRows
  <2> HIDE DEF to
  <2> QED BY <1>2, <1>7, <2>1, <2>2 DEF n, rows, to
<1>8. CASE j.op = "sort"
  <2>1. to = Settings!Sorted(rows, j.order)
    BY <1>8 DEF Settings!Result, rows
  <2>2. /\ IsRows(Settings!Sorted(rows, j.order)) /\ Issued(Settings!Sorted(rows, j.order), nextId)
        /\ Len(Settings!Sorted(rows, j.order)) <= Len(rows)
    BY <1>1, SortedRows
  <2> HIDE DEF to
  <2> QED BY <1>2, <1>8, <2>1, <2>2 DEF n, rows, to
<1>9. CASE j.op \in {"list", "check"}
  <2>1. to = rows
    BY <1>9 DEF Settings!Result, rows
  <2> HIDE DEF to
  <2> QED BY <1>1, <1>2, <1>9, <2>1 DEF n, rows, to
<1> QED BY <1>4, <1>5, <1>6, <1>7, <1>8, <1>9 DEF AskOp

\* What a list asks for are tabs of the screen.
LEMMA AskedIs ==
    /\ \A s : \A t \in Settings!Tabs(s) : t \in Settings!Asked(s, t) /\ Settings!Asked(s, t) \subseteq Settings!Tabs(s)
    /\ \A t : Settings!Asked("accounts", t) = Settings!Tabs("accounts")
  BY DEF Settings!Asked

LEMMA ServerFits ==
    ASSUME SettledInv, NEW g \in Settings!Group, Settings!ServerDoes(g) PROVE SettledInv'
<1> PICK j : j = jobs[g]
  OBVIOUS
<1>1. /\ jobs[g] = j /\ IsJob(screen, j) /\ j.stage = "sent" /\ g = Settings!GroupOf(screen, j.op)
      /\ j.op = "list" => j.tab = mode
      /\ j.tab \in Settings!Tabs(screen) /\ open
  BY DEF SettledInv, WorkersFit, ClosedIsQuiet, Settings!ServerDoes, Settings!Sent, IsJob
<1> PICK to : to = Settings!Result(j)
  OBVIOUS
<1> PICK read : read = [t \in Settings!Asked(screen, j.tab) |-> server[t]]
  OBVIOUS
<1>2. /\ server' = [server EXCEPT ![j.tab] = to]
      /\ jobs' = [jobs EXCEPT ![g].stage = "done", ![g].rows = read]
      /\ doubt' = IF j.op # "list" THEN doubt
                  ELSE IF Settings!SortAhead THEN doubt \cup {g} ELSE doubt \ {g}
      /\ nextId' = nextId + IF Len(server'[j.tab]) > Len(server[j.tab]) THEN 1 ELSE 0
      /\ UNCHANGED <<screen, open, mode, shown, cache, dialogs, timer>>
  BY <1>1 DEF Settings!ServerDoes
<1>3. /\ server = [t \in Settings!Tabs(screen) |-> server[t]]
      /\ \A t \in Settings!Tabs(screen) : IsRows(server[t]) /\ Issued(server[t], nextId)
      /\ nextId \in Nat
  BY DEF SettledInv, SettingsTypes
<1>4. server'[j.tab] = to /\ \A t \in Settings!Tabs(screen) \ {j.tab} : server'[t] = server[t]
  BY <1>1, <1>2, <1>3
<1>5. server' = [t \in Settings!Tabs(screen) |-> server'[t]]
  BY <1>1, <1>2, <1>3
<1>6. /\ IsRows(to) /\ Issued(to, nextId') /\ nextId' \in Nat /\ nextId' >= nextId
      /\ j.op \in {"list", "check"} => to = server[j.tab]
      /\ j.op = "sort" => to = Settings!Sorted(server[j.tab], j.order)
  BY <1>1, <1>2, <1>4, ResultFits DEF SettledInv
<1>7. SettingsTypes'
  <2>1. ASSUME NEW t \in Settings!Tabs(screen) PROVE IsRows(server'[t]) /\ Issued(server'[t], nextId')
    <3>1. CASE t = j.tab
      BY <1>4, <1>6, <3>1
    <3>2. CASE t # j.tab
      <4>1. IsRows(server[t]) /\ Issued(server[t], nextId) /\ server'[t] = server[t]
        BY <1>3, <1>4, <3>2
      <4>2. \A i \in DOMAIN server[t] : server[t][i].id \in Nat
        BY <4>1, RowTypes DEF IsRows
      <4>3. Issued(server[t], nextId')
        BY <1>3, <1>6, <4>1, <4>2 DEF Issued
      <4> QED BY <4>1, <4>3
    <3> QED BY <3>1, <3>2
  <2> QED BY <1>2, <1>5, <1>6, <2>1 DEF SettledInv, SettingsTypes
<1>8. IsList(screen, read)
  <2>1. Settings!Asked(screen, j.tab) \subseteq Settings!Tabs(screen)
    BY <1>1, AskedIs
  <2> QED BY <1>3, <2>1 DEF IsList
<1>9. /\ DOMAIN jobs' = Settings!Group
      /\ jobs'[g].op = j.op /\ jobs'[g].stage = "done" /\ jobs'[g].tab = j.tab
      /\ jobs'[g].row = j.row /\ jobs'[g].order = j.order /\ jobs'[g].rows = read
      /\ DOMAIN jobs'[g] = JobFields
      /\ \A k \in Settings!Group \ {g} : jobs'[k] = jobs[k]
  BY <1>1, <1>2 DEF SettledInv, WorkersFit, IsJob, JobFields
<1>10. IsJob(screen, jobs'[g])
  BY <1>1, <1>8, <1>9 DEF IsJob
<1>11. WorkersFit'
  BY <1>1, <1>2, <1>9, <1>10 DEF SettledInv, WorkersFit
<1>12. ClosedIsQuiet'
  BY <1>1, <1>2 DEF ClosedIsQuiet
<1>13. Lister' = Lister /\ Asks' = Asks /\ Lister \in Settings!Group
  BY <1>2, GroupsOf DEF Lister, Asks
<1>14. /\ ~ Changing(g) /\ ~ SortSent(g)'
       /\ ~ (jobs[g].op \in Settings!ChangeOp /\ jobs[g].stage = "done")
  BY <1>1, <1>9 DEF Changing, SortSent
<1>15. \A k \in Settings!Group : Changing(k) => jobs'[k] = jobs[k]
  BY <1>9, <1>14
<1>16. CASE j.op \in {"list", "check"}
  <2>1. server' = server
    BY <1>2, <1>3, <1>6, <1>16
  <2>2. ~ SortSent(g)
    BY <1>1, <1>16 DEF SortSent
  <2>3. \A k \in Settings!Group : SortSent(k) \/ SortSent(k)' => jobs'[k] = jobs[k]
    BY <1>9, <1>14, <2>2
  <2>4. \A k \in {"shown", "cache"} : k \in doubt => k \in doubt'
    BY <1>2, GroupsOf
  <2>5. CacheFits'
    BY <1>2, <1>9, <1>14, <2>1, <2>4, CacheStays DEF SettledInv
  <2>6. jobs[Lister].op = "list" => jobs'[Lister].op = "list"
    BY <1>1, <1>9, <1>13
  <2>7. ShownFits'
    BY <1>2, <1>15, <2>1, <2>3, <2>4, <2>6, ShownStays DEF SettledInv
  <2>8. CASE j.op = "check"
    <3>1. g # Lister \/ jobs'[Lister].op # "list"
      BY <1>9, <2>8
    <3>2. \/ jobs'[Lister] = jobs[Lister] /\ (Lister \in doubt => Lister \in doubt')
          \/ jobs'[Lister].op # "list"
      BY <1>2, <1>9, <1>13, <2>8, <3>1
    <3>3. ListFits'
      BY <1>2, <1>15, <2>1, <2>3, <3>2, ListStays DEF SettledInv
    <3> QED BY <1>7, <1>11, <1>12, <2>5, <2>7, <3>3 DEF SettledInv
  <2>9. CASE j.op = "list"
    <3>1. g = Lister /\ j.tab = mode
      BY <1>1, <2>9 DEF Lister
    <3>2. Lister' \notin doubt' => ~ Settings!SortAhead
      BY <1>2, <1>13, <2>9, <3>1
    <3>3. ~ Settings!SortAhead => timer' = NoTimer /\ \A k \in Settings!Group : ~ SortSent(k)'
      <4>1. ~ Settings!SortAhead => timer = NoTimer /\ \A k \in Settings!Group : ~ SortSent(k)
        BY NoJobIs DEF Settings!SortAhead, SortSent
      <4>2. \A k \in Settings!Group : SortSent(k)' => SortSent(k)
        BY <2>3 DEF SortSent
      <4> QED BY <1>2, <4>1, <4>2
    <3>4. jobs'[Lister'].rows = [t \in Asks' |-> server'[t]]
      BY <1>9, <1>13, <2>1, <3>1 DEF Asks
    <3>5. ListFits'
      BY <3>2, <3>3, <3>4 DEF ListFits
    <3> QED BY <1>7, <1>11, <1>12, <2>5, <2>7, <3>5 DEF SettledInv
  <2> QED BY <1>16, <2>8, <2>9
<1>17. CASE j.op \in AskOp
  <2>1. Changing(g)'
    BY <1>9, <1>17 DEF Changing
  <2>2. ShownFits'
    BY <2>1 DEF ShownFits
  <2>3. CacheFits'
    <3>1. jobs'[g].op \in Settings!ChangeOp /\ jobs'[g].stage = "done"
      BY <1>9, <1>17 DEF AskOp, Settings!ChangeOp
    <3> QED BY <3>1 DEF CacheFits
  <2>4. ListFits'
    <3>1. \A k \in Settings!Group : SortSent(k)' => SortSent(k)
      BY <1>9, <1>14 DEF SortSent
    <3>2. doubt' = doubt
      BY <1>2, <1>17 DEF AskOp
    <3>3. jobs'[Lister].op = "list" => jobs'[Lister] = jobs[Lister]
      BY <1>9, <1>13, <1>17 DEF AskOp
    <3>4. timer' = timer
      BY <1>2
    <3> QED BY <1>13, <2>1, <3>1, <3>2, <3>3, <3>4 DEF SettledInv, ListFits
  <2> QED BY <1>7, <1>11, <1>12, <2>2, <2>3, <2>4 DEF SettledInv
<1>18. CASE j.op = "sort"
  <2>1. SortSent(g) /\ doubt' = doubt
    BY <1>1, <1>2, <1>18 DEF SortSent
  <2>2. jobs'[Lister].op = "list" => jobs'[Lister] = jobs[Lister]
    BY <1>9, <1>13, <1>18
  <2>3. ListFits'
    BY <1>13, <2>1, <2>2 DEF SettledInv, ListFits
  <2>4. CacheFits'
    <3>1. jobs'[g].op \in Settings!ChangeOp /\ jobs'[g].stage = "done"
      BY <1>9, <1>18 DEF Settings!ChangeOp
    <3> QED BY <3>1 DEF CacheFits
  <2>5. ASSUME NEW k \in Settings!Group, SortSent(k) PROVE k = g
    BY <1>1, <1>18, <2>5, NoJobIs DEF SettledInv, WorkersFit, SortSent
  <2>6. ASSUME NEW k \in Settings!Group PROVE ~ SortSent(k)'
    BY <1>9, <1>14, <2>5 DEF SortSent
  <2>7. ASSUME NEW t \in Asks, DOMAIN shown = Asks, Agrees(t) PROVE Agrees(t)'
    <3>1. Timed(t)' <=> Timed(t)
      BY <1>2 DEF Timed
    <3>2. CASE t # j.tab
      <4>1. t \in Settings!Tabs(screen)
        BY AskedIs DEF Asks, SettledInv, SettingsTypes
      <4>2. server'[t] = server[t]
        BY <1>4, <3>2, <4>1
      <4>3. ~ Timed(t) => shown[t] = server[t]
        BY <1>1, <2>5, <2>7, <3>2 DEF Agrees
      <4> QED BY <1>2, <2>6, <2>7, <3>1, <4>2, <4>3 DEF Agrees
    <3>3. CASE t = j.tab
      <4>1. IsRows(server[t]) /\ IsRows(shown[t]) /\ SameRows(shown[t], server[t])
        BY <1>1, <1>3, <2>7, <3>3 DEF Agrees, SettledInv, SettingsTypes, IsList
      <4>2. to = Settings!Sorted(server[t], j.order) /\ j.order \in Seq(Nat)
        BY <1>1, <1>6, <1>18, <3>3 DEF IsJob
      <4>3. SameRows(shown[t], to)
        BY <4>1, <4>2, SortedKeeps, SameRowsSym, SameRowsTrans
      <4>4. ~ Timed(t) => shown[t] = to
        <5>1. ~ Timed(t) => j.order = Settings!Ids(shown[t])
          BY <1>1, <2>1, <2>7, <3>3 DEF Agrees
        <5> QED BY <4>1, <4>2, <5>1, SortedAs
      <4>5. server'[t] = to /\ shown'[t] = shown[t]
        BY <1>2, <1>4, <3>3
      <4> QED BY <1>2, <2>6, <2>7, <3>1, <4>3, <4>4, <4>5 DEF Agrees
    <3> QED BY <3>2, <3>3
  <2>8. \A k \in Settings!Group : Changing(k) => Changing(k)'
    BY <1>15 DEF Changing
  <2>9. jobs[Lister].op = "list" => jobs'[Lister].op = "list"
    BY <1>1, <1>9, <1>13
  <2>10. ShownFits'
    BY <1>2, <1>13, <2>1, <2>7, <2>8, <2>9 DEF SettledInv, ShownFits
  <2> QED BY <1>7, <1>11, <1>12, <2>3, <2>4, <2>10 DEF SettledInv
<1> QED BY <1>1, <1>16, <1>17, <1>18 DEF IsJob


\* What the server and the dialogs leave is typed.
LEMMA EndTypes ==
    ASSUME SettledInv, NEW g \in Settings!Group, jobs[g] # Settings!NoJob, Settings!Ends(g),
           UNCHANGED <<screen, nextId, open, mode, server, timer>>,
           cache' \in {cache, NoList}, IsList(screen, shown'), dialogs' \in Seq(Dialog(screen))
    PROVE  /\ SettingsTypes' /\ WorkersFit' /\ ClosedIsQuiet' /\ open
           /\ DOMAIN jobs' = Settings!Group /\ jobs'[g] = Settings!NoJob
           /\ \A k \in Settings!Group \ {g} : jobs'[k] = jobs[k]
           /\ jobs'[g].op # "list" /\ ~ SortSent(g)' /\ ~ (Changing(g)')
<1>1. /\ DOMAIN jobs' = Settings!Group /\ jobs'[g] = Settings!NoJob
      /\ \A k \in Settings!Group \ {g} : jobs'[k] = jobs[k]
  BY DEF Settings!Ends, SettledInv, WorkersFit
<1>2. jobs'[g].op # "list" /\ ~ SortSent(g)' /\ ~ (Changing(g)')
  BY <1>1, NoJobIs DEF SortSent, Changing
<1>3. open
  BY DEF SettledInv, ClosedIsQuiet
<1>4. SettingsTypes'
  BY DEF SettledInv, SettingsTypes
<1>5. WorkersFit'
  BY <1>1 DEF SettledInv, WorkersFit
<1>6. ClosedIsQuiet'
  BY <1>3 DEF ClosedIsQuiet
<1> QED BY <1>1, <1>2, <1>3, <1>4, <1>5, <1>6

\* A failure is doubted when it leaves a change of the server untold, or a list unread.
LEMMA FailsFits ==
    ASSUME SettledInv, NEW g \in Settings!Group, Settings!Fails(g) PROVE SettledInv'
<1>1. /\ jobs[g] # Settings!NoJob /\ Settings!Ends(g)
      /\ UNCHANGED <<screen, nextId, open, mode, server, shown, cache, dialogs, timer>>
  BY DEF Settings!Fails, Settings!Sent, Settings!Back
<1>2. IsJob(screen, jobs[g]) /\ jobs[g].stage \in {"sent", "done"}
      /\ g = Settings!GroupOf(screen, jobs[g].op)
  BY <1>1 DEF SettledInv, WorkersFit, Settings!Fails, Settings!Sent, Settings!Back
<1>3. doubt' = (doubt \ {g}) \cup
                CASE jobs[g].op = "list" -> {"shown"}
                  [] jobs[g].op = "check" -> {}
                  [] jobs[g].op \in Settings!ChangeOp /\ jobs[g].op # "sort"
                         /\ jobs[g].stage = "sent" -> {}
                  [] OTHER -> Settings!Doubts \ {g}
  BY DEF Settings!Fails
<1>4. /\ SettingsTypes' /\ WorkersFit' /\ ClosedIsQuiet'
      /\ DOMAIN jobs' = Settings!Group /\ jobs'[g] = Settings!NoJob
      /\ \A k \in Settings!Group \ {g} : jobs'[k] = jobs[k]
      /\ jobs'[g].op # "list" /\ ~ SortSent(g)' /\ ~ (Changing(g)')
  <2>1. IsList(screen, shown') /\ dialogs' \in Seq(Dialog(screen))
    BY <1>1 DEF SettledInv, SettingsTypes
  <2> QED BY <1>1, <2>1, EndTypes
<1>5. Lister' = Lister /\ Lister \in Settings!Group /\ g \notin {"shown", "cache"}
  BY <1>1, GroupsOf DEF Lister
<1>6. CASE jobs[g].op = "list"
  <2>3. jobs[g].op # "check" /\ ~ (jobs[g].op \in Settings!ChangeOp)
    BY <1>6 DEF Settings!ChangeOp
  <2>5. doubt' = (doubt \ {g}) \cup {"shown"}
    BY <1>3, <1>6, <2>3, Zenon
  <2>1. g = Lister
    BY <1>2, <1>6 DEF Lister
  <2>2. ListFits' /\ ShownFits'
    BY <1>4, <1>5, <2>5, <2>1 DEF ListFits, ShownFits
  <2>4. CacheFits'
    BY <1>1, <1>4, <1>5, <2>5, <2>3, CacheStays DEF SettledInv
  <2> QED BY <1>4, <2>2, <2>4 DEF SettledInv
<1>7. CASE \/ jobs[g].op = "check"
           \/ jobs[g].op \in AskOp /\ jobs[g].stage = "sent"
  <2>1. doubt' = doubt \ {g}
    BY <1>3, <1>7 DEF AskOp, Settings!ChangeOp
  <2>2. /\ jobs[g].op # "list" /\ ~ SortSent(g)
        /\ ~ (jobs[g].op \in Settings!ChangeOp /\ jobs[g].stage = "done")
    BY <1>7 DEF AskOp, SortSent, Settings!ChangeOp
  <2>3. ListFits' /\ ShownFits' /\ CacheFits'
    BY <1>1, <1>4, <1>5, <2>1, <2>2, QuietEnds
  <2> QED BY <1>4, <2>3 DEF SettledInv
<1>8. CASE \/ jobs[g].op = "sort"
           \/ jobs[g].op \in AskOp /\ jobs[g].stage = "done"
  <2>1. doubt' = (doubt \ {g}) \cup (Settings!Doubts \ {g})
    BY <1>3, <1>8 DEF AskOp, Settings!ChangeOp
  <2>2. "shown" \in doubt' /\ "cache" \in doubt'
    BY <1>5, <2>1 DEF Settings!Doubts
  <2>3. jobs'[Lister'].op = "list" => Lister' \in doubt'
    BY <1>4, <1>5, <2>1, NoJobIs DEF Settings!Doubts
  <2>4. ListFits' /\ ShownFits' /\ CacheFits'
    BY <2>2, <2>3, AllDoubted
  <2> QED BY <1>4, <2>4 DEF SettledInv
<1> QED BY <1>2, <1>6, <1>7, <1>8 DEF IsJob

\* A list that arrives without a doubt is what the server has, or a change is about to
\* be followed by another.
LEMMA ArrivesFits ==
    ASSUME SettledInv, NEW g \in Settings!Group, Settings!ListArrives(g) PROVE SettledInv'
<1>1. /\ jobs[g] # Settings!NoJob /\ jobs[g].op = "list" /\ Settings!Ends(g)
      /\ shown' = jobs[g].rows
      /\ UNCHANGED <<screen, nextId, open, mode, server, dialogs, timer>>
  BY DEF Settings!ListArrives, Settings!Back
<1>2. /\ IsJob(screen, jobs[g]) /\ jobs[g].stage = "done"
      /\ g = Settings!GroupOf(screen, jobs[g].op) /\ jobs[g].tab = mode
  BY <1>1 DEF SettledInv, WorkersFit, Settings!ListArrives, Settings!Back, IsJob
<1>3. g = Lister /\ Lister' = Lister /\ Asks' = Asks
  BY <1>1, <1>2 DEF Lister, Asks
<1> DEFINE told == {"shown"} \cup (IF screen = "accounts" THEN {"cache"} ELSE {})
<1>4. /\ cache' = IF screen = "accounts" THEN jobs[g].rows ELSE cache
      /\ doubt' = ((doubt \ {g}) \ told) \cup (IF g \in doubt THEN told ELSE {})
  BY <1>2 DEF Settings!ListArrives
<1>5. IsList(screen, shown')
  BY <1>1, <1>2 DEF IsJob
<1>6. /\ DOMAIN jobs' = Settings!Group /\ jobs'[g] = Settings!NoJob
      /\ \A k \in Settings!Group \ {g} : jobs'[k] = jobs[k]
      /\ jobs'[g].op # "list"
  BY <1>1, NoJobIs DEF Settings!Ends, SettledInv, WorkersFit
<1>7. SettingsTypes' /\ WorkersFit' /\ ClosedIsQuiet'
  <2>1. SettingsTypes'
    BY <1>1, <1>4, <1>5 DEF SettledInv, SettingsTypes
  <2>2. WorkersFit'
    BY <1>1, <1>6 DEF SettledInv, WorkersFit
  <2>3. ClosedIsQuiet'
    BY <1>1 DEF SettledInv, ClosedIsQuiet
  <2> QED BY <2>1, <2>2, <2>3
<1>8. ListFits'
  BY <1>3, <1>6 DEF ListFits
<1>9. \A k \in Settings!Group : Changing(k) => Changing(k)' /\ k # g
  BY <1>1, <1>6 DEF Changing, AskOp
<1>10. CASE g \in doubt
  <2>1. "shown" \in doubt' /\ (screen = "accounts" => "cache" \in doubt')
    BY <1>4, <1>10
  <2>2. ShownFits'
    BY <2>1 DEF ShownFits
  <2>3. CacheFits'
    BY <1>1, <1>4, <2>1 DEF CacheFits, SettledInv, SettingsTypes
  <2> QED BY <1>7, <1>8, <2>2, <2>3 DEF SettledInv
<1>11. CASE g \notin doubt
  <2>1. /\ timer = NoTimer /\ \A k \in Settings!Group : ~ SortSent(k)
        /\ \/ jobs[g].rows = [t \in Asks |-> server[t]]
           \/ \E k \in Settings!Group : Changing(k)
    BY <1>1, <1>2, <1>3, <1>11 DEF SettledInv, ListFits
  <2>2. CASE \E k \in Settings!Group : Changing(k)
    <3>1. PICK k \in Settings!Group : Changing(k)'
      BY <1>9, <2>2
    <3>2. ShownFits'
      BY <3>1 DEF ShownFits
    <3>3. CacheFits'
      BY <3>1 DEF CacheFits, Changing, AskOp, Settings!ChangeOp
    <3> QED BY <1>7, <1>8, <3>2, <3>3 DEF SettledInv
  <2>3. CASE jobs[g].rows = [t \in Asks |-> server[t]]
    <3>1. DOMAIN shown' = Asks' /\ \A t \in Asks : shown'[t] = server'[t]
      BY <1>1, <1>3, <2>3
    <3>2. ASSUME NEW k \in Settings!Group PROVE ~ SortSent(k)'
      BY <1>6, <2>1, NoJobIs DEF SortSent
    <3>3. ASSUME NEW t \in Asks PROVE Agrees(t)'
      <4>1. ~ Timed(t)'
        BY <1>1, <2>1 DEF Timed
      <4>2. SameRows(server'[t], server'[t])
        BY DEF SameRows
      <4> QED BY <3>1, <3>2, <4>1, <4>2 DEF Agrees
    <3>4. ShownFits'
      BY <1>3, <3>1, <3>3 DEF ShownFits
    <3>5. CacheFits'
      <4>1. CASE screen = "accounts"
        <5>1. Asks = Settings!Tabs(screen)
          BY <4>1, AskedIs DEF Asks
        <5>2. cache' = server
          BY <1>4, <2>3, <4>1, <5>1 DEF SettledInv, SettingsTypes
        <5> QED BY <1>1, <5>2 DEF CacheFits
      <4>2. CASE screen # "accounts"
        BY <1>4, <4>2 DEF CacheFits, SettledInv, SettingsTypes
      <4> QED BY <4>1, <4>2
    <3> QED BY <1>7, <1>8, <3>4, <3>5 DEF SettledInv
  <2> QED BY <2>1, <2>2, <2>3
<1> QED BY <1>10, <1>11

\* A check opens a dialog, a saved order drops what is stored,
LEMMA EndsFits ==
    ASSUME SettledInv, NEW g \in Settings!Group, Settings!Checked(g) \/ Settings!SortSaved(g)
    PROVE  SettledInv'
<1>1. /\ jobs[g] # Settings!NoJob /\ jobs[g].stage = "done" /\ Settings!Ends(g)
      /\ IsJob(screen, jobs[g])
      /\ UNCHANGED <<screen, nextId, open, mode, server, shown, timer, doubt>>
      /\ cache' \in {cache, NoList}
  BY DEF Settings!Checked, Settings!SortSaved, Settings!Back, SettledInv, WorkersFit, IsJob
<1>2. dialogs' \in Seq(Dialog(screen))
  <2>1. CASE Settings!Checked(g)
    <3>1. jobs[g].tab \in Settings!Tabs(screen) /\ jobs[g].row \in AnyRow /\ "delete" \in AskOp
      BY <1>1 DEF IsJob, AskOp
    <3>2. Settings!Open("delete", jobs[g].tab, jobs[g].row)
      BY <2>1 DEF Settings!Checked
    <3> QED BY <3>1, <3>2, OpenFits DEF SettledInv
  <2>2. CASE Settings!SortSaved(g)
    BY <2>2 DEF Settings!SortSaved, SettledInv, SettingsTypes
  <2> QED BY <2>1, <2>2
<1>3. /\ SettingsTypes' /\ WorkersFit' /\ ClosedIsQuiet'
      /\ DOMAIN jobs' = Settings!Group /\ jobs'[g] = Settings!NoJob
      /\ \A k \in Settings!Group \ {g} : jobs'[k] = jobs[k]
      /\ jobs'[g].op # "list" /\ ~ SortSent(g)' /\ ~ (Changing(g)')
  <2>1. IsList(screen, shown')
    BY <1>1 DEF SettledInv, SettingsTypes
  <2> QED BY <1>1, <1>2, <2>1, EndTypes
<1>4. CASE Settings!Checked(g)
  <2>1. jobs[g].op = "check" /\ cache' = cache
    BY <1>4 DEF Settings!Checked
  <2>2. /\ jobs[g].op # "list" /\ ~ SortSent(g)
        /\ ~ (jobs[g].op \in Settings!ChangeOp /\ jobs[g].stage = "done")
    BY <2>1 DEF SortSent, Settings!ChangeOp
  <2>3. ListFits' /\ ShownFits' /\ CacheFits'
    BY <1>1, <1>3, <2>1, <2>2, QuietEnds
  <2> QED BY <1>3, <2>3 DEF SettledInv
<1>5. CASE Settings!SortSaved(g)
  <2>1. jobs[g].op = "sort" /\ cache' = NoList
    BY <1>5 DEF Settings!SortSaved
  <2>2. ~ SortSent(g) /\ ~ Changing(g)
    BY <1>1, <2>1 DEF SortSent, Changing, AskOp
  <2>3. /\ \A k \in Settings!Group : SortSent(k) \/ SortSent(k)' => jobs'[k] = jobs[k]
        /\ \A k \in Settings!Group : Changing(k) => jobs'[k] = jobs[k]
    BY <1>3, <2>2
  <2>4. jobs[Lister].op = "list" => jobs'[Lister].op = "list"
    BY <1>3, <2>1, GroupsOf
  <2>5. ShownFits'
    BY <1>1, <2>3, <2>4, ShownStays DEF SettledInv
  <2>6. \/ jobs'[Lister] = jobs[Lister] /\ (Lister \in doubt => Lister \in doubt')
        \/ jobs'[Lister].op # "list"
    BY <1>1, <1>3, GroupsOf
  <2>7. ListFits'
    BY <1>1, <2>3, <2>6, ListStays DEF SettledInv
  <2>8. CacheFits'
    BY <2>1 DEF CacheFits
  <2> QED BY <1>3, <2>5, <2>7, <2>8 DEF SettledInv
<1> QED BY <1>4, <1>5

\* and a change is followed by a list.
LEMMA ChangedFits ==
    ASSUME SettledInv, NEW g \in Settings!Group, Settings!Changed(g) PROVE SettledInv'
<1>1. /\ jobs[g] # Settings!NoJob /\ cache' = NoList
      /\ UNCHANGED <<screen, nextId, open, mode, server, shown, dialogs, timer>>
  BY DEF Settings!Changed, Settings!Back
<1> PICK l \in Settings!Group : l = Settings!GroupOf(screen, "list")
  BY GroupsOf
<1> PICK j : j = Settings!Job("list", "sent", mode, Settings!NoRow, << >>)
  OBVIOUS
<1>2. jobs' = [jobs EXCEPT ![g] = Settings!NoJob, ![l] = j]
  BY DEF Settings!Changed
<1>3. IsJob(screen, j) /\ j.op = "list" /\ j.stage = "sent" /\ j.tab = mode
  BY NewList DEF SettledInv, SettingsTypes
<1>4. /\ DOMAIN jobs' = Settings!Group /\ jobs'[l] = j
      /\ g = l \/ jobs'[g] = Settings!NoJob
      /\ \A k \in Settings!Group \ {g, l} : jobs'[k] = jobs[k]
  BY <1>2 DEF SettledInv, WorkersFit
<1>5. open
  BY <1>1 DEF SettledInv, ClosedIsQuiet
<1>6. SettingsTypes' /\ ClosedIsQuiet'
  BY <1>1, <1>5 DEF SettledInv, SettingsTypes, ClosedIsQuiet
<1>7. WorkersFit'
  <2>1. ASSUME NEW k \in Settings!Group, jobs'[k] # Settings!NoJob
        PROVE  /\ IsJob(screen', jobs'[k])
               /\ k = Settings!GroupOf(screen', jobs'[k].op)
               /\ jobs'[k].op = "list" => jobs'[k].tab = mode' /\ jobs'[k].stage # "ask"
    <3>1. CASE k = l
      BY <1>1, <1>3, <1>4, <3>1
    <3>2. CASE k # l
      BY <1>1, <1>4, <2>1, <3>2 DEF SettledInv, WorkersFit
    <3> QED BY <3>1, <3>2
  <2> QED BY <1>4, <2>1 DEF WorkersFit
<1>8. l = Lister' /\ jobs'[Lister'].op = "list" /\ jobs'[Lister'].stage # "done"
  BY <1>1, <1>3, <1>4 DEF Lister
<1>9. ListFits' /\ ShownFits' /\ CacheFits'
  BY <1>1, <1>8 DEF ListFits, ShownFits, CacheFits
<1> QED BY <1>6, <1>7, <1>9 DEF SettledInv

LEMMA SettledAlways == Spec => []SettledInv
<1>1. Init => SettledInv
  <2> SUFFICES ASSUME Init PROVE SettledInv
    OBVIOUS
  <2>1. Settings!Init
    BY DEF Init
  <2>2. /\ screen \in Screens /\ open = FALSE /\ mode = Settings!FirstTab(screen)
        /\ server = Start[screen] /\ cache = NoList /\ timer = NoTimer /\ dialogs = << >>
        /\ shown = IF screen = "accounts" THEN server ELSE << >>
        /\ jobs = [g \in Settings!Group |-> Settings!NoJob] /\ nextId = 10 /\ doubt = {}
    BY <2>1 DEF Settings!Init
  <2>3. server \in [Settings!Tabs(screen) -> Seq([id : 1 .. 9, val : Nat])]
    BY <2>2, SettingsAssumption
  <2>4. ASSUME NEW t \in Settings!Tabs(screen) PROVE IsRows(server[t]) /\ Issued(server[t], nextId)
    <3> DEFINE rows == server[t]
               First == [id : 1 .. 9, val : Nat]
    <3>1. rows \in Seq(First)
      BY <2>3
    <3>2. \A i, j \in DOMAIN rows : rows[i].id = rows[j].id => i = j
      BY <2>2, SettingsAssumption
    <3>3. First \subseteq AnyRow /\ \A r \in First : r.id < 10
      BY DEF AnyRow
    <3> HIDE DEF rows, First
    <3>4. rows \in Seq(AnyRow) /\ \A i \in DOMAIN rows : rows[i] \in First
      BY <3>1, <3>3
    <3> QED BY <2>2, <3>2, <3>3, <3>4 DEF IsRows, Issued, rows
  <2>5. IsList(screen, server)
    BY <2>3, <2>4 DEF IsList
  <2>6. IsList(screen, shown)
    BY <2>2, <2>5, EmptyList
  <2>7. dialogs \in Seq(Dialog(screen))
    BY <2>2
  <2>8. SettingsTypes
    BY <2>2, <2>3, <2>4, <2>6, <2>7, FirstTabIs DEF SettingsTypes
  <2>9. WorkersFit /\ ClosedIsQuiet
    BY <2>2 DEF WorkersFit, ClosedIsQuiet
  <2>10. \A g \in Settings!Group : jobs[g].op = "none"
    BY <2>2, NoJobIs
  <2>11. ListFits /\ CacheFits
    BY <2>2, <2>10, GroupsOf DEF ListFits, CacheFits
  <2>12. ShownFits
    <3>1. CASE screen = "accounts"
      <4>1. Asks = Settings!Tabs(screen)
        BY <3>1, AskedIs DEF Asks
      <4>2. DOMAIN shown = Asks /\ shown = server
        BY <2>2, <2>3, <3>1, <4>1
      <4>3. ASSUME NEW t \in Asks PROVE Agrees(t)
        <5>1. ~ Timed(t) /\ \A g \in Settings!Group : ~ SortSent(g)
          BY <2>2, <2>10 DEF Timed, SortSent
        <5>2. SameRows(server[t], server[t])
          BY DEF SameRows
        <5> QED BY <4>2, <5>1, <5>2 DEF Agrees
      <4> QED BY <4>2, <4>3 DEF ShownFits
    <3>2. CASE screen # "accounts"
      BY <2>2, <3>2 DEF ShownFits
    <3> QED BY <3>1, <3>2
  <2> QED BY <2>8, <2>9, <2>11, <2>12 DEF SettledInv
<1>2. SettledInv /\ [Next]_allVars => SettledInv'
  <2> SUFFICES ASSUME SettledInv, [Next]_allVars PROVE SettledInv'
    OBVIOUS
  <2>1. Settings!Next \/ UNCHANGED settingsVars
    BY DEF Next, Others, Same, allVars
  <2>2. CASE Settings!Next
    BY <2>2, MountFits, BackFits, ReloadFits, ChangeFits, DialogFits, ServerFits, FailsFits,
       ArrivesFits, EndsFits, ChangedFits, TimerFits
       DEF Settings!Next
  <2>3. CASE UNCHANGED settingsVars
    <3>1. WorkersFit' /\ ListFits' /\ ShownFits' /\ CacheFits'
      BY <2>3, Unmoved DEF settingsVars
    <3>2. SettingsTypes' /\ ClosedIsQuiet'
      BY <2>3 DEF settingsVars, SettledInv, SettingsTypes, ClosedIsQuiet
    <3> QED BY <3>1, <3>2 DEF SettledInv
  <2> QED BY <2>1, <2>2, <2>3
<1> QED BY <1>1, <1>2, PTL DEF Spec

\* With nothing under way a settings screen shows the rows the server has, in its
\* order, and the stored accounts are those of the server, unless something was
\* cancelled or failed, or a list was read around a move of a row.
THEOREM SettledScreensShow == Spec => []SettledIsShown
<1>1. SettledInv => SettledIsShown
  <2> SUFFICES ASSUME SettledInv PROVE Settings!SettledIsShown
    BY DEF SettledIsShown
  <2>1. ASSUME open, ~ Settings!Busy, "shown" \notin doubt
        PROVE  shown = [t \in Settings!Asked(screen, mode) |-> server[t]]
    <3>1. timer = NoTimer /\ \A g \in Settings!Group : jobs[g] = Settings!NoJob
      BY <2>1 DEF Settings!Busy
    <3>2. \A g \in Settings!Group : jobs[g].op = "none"
      BY <3>1, NoJobIs
    <3>3. DOMAIN shown = Asks /\ \A t \in Asks : Agrees(t)
      BY <2>1, <3>2, GroupsOf DEF SettledInv, ShownFits, Changing, AskOp
    <3>4. \A t \in Asks : shown[t] = server[t]
      BY <3>1, <3>2, <3>3 DEF Agrees, Timed, SortSent
    <3>5. shown = [t \in DOMAIN shown |-> shown[t]]
      BY DEF SettledInv, SettingsTypes, IsList
    <3> QED BY <3>3, <3>4, <3>5 DEF Asks
  <2>2. Settings!CacheKeepsUp
    <3> SUFFICES ASSUME cache # NoList, "cache" \notin doubt,
                        \A g \in Settings!Group :
                            jobs[g] # Settings!NoJob /\ jobs[g].stage = "done" =>
                                jobs[g].op \notin Settings!ChangeOp
                 PROVE  cache = server
      BY DEF Settings!CacheKeepsUp
    <3>1. \A g \in Settings!Group : jobs[g].stage = "done" => jobs[g] # Settings!NoJob
      BY NoJobIs
    <3> QED BY <3>1 DEF SettledInv, CacheFits
  <2> QED BY <2>1, <2>2 DEF Settings!SettledIsShown
<1> QED BY <1>1, SettledAlways, PTL

===============================================================================
