---------------------------- MODULE MCMenuScreens ----------------------------
(* An instance of MenuScreens for TLC: few rows of everything. *)
EXTENDS MenuScreens

All  == {"accounts", "sections", "frequent", "monthly", "budget", "goal", "customs"}
Both == {"busy", "fail"}

Two(a, b) == <<[id |-> a, val |-> 1], [id |-> b, val |-> 1]>>

\* Two rows to move in each tab of the accounts; other tabs with and without rows.
First ==
    [s \in All |->
        CASE s = "accounts" -> [expenses |-> Two(1, 2), income |-> Two(3, 4)]
          [] s = "budget"   -> [expenses |-> Two(1, 2), income |-> <<[id |-> 3, val |-> 1]>>]
          [] s = "goal"     -> [budget_goal |-> << >>, goal |-> Two(1, 2)]
          [] s = "customs"  -> [report_bs |-> <<[id |-> 1, val |-> 1]>>, report_pl |-> << >>]
          [] OTHER          -> [all |-> Two(1, 2)]]

\* Days of a weekly and of a monthly rhythm, some a little late.
One == {"rent"}
Days == [s \in One |-> {1, 8, 10, 13, 15, 22, 29, 31, 59, 90, 151}]
Months == <<31, 28, 31, 30, 31, 30, 31>>

Secs == {"A", "B"}
Ents == {"e1", "e2", "e3"}
Homes == [e \in Ents |-> IF e = "e3" THEN "B" ELSE "A"]
TwoTags == {"t1", "t2"}
TagRow(e, t, s) == [e |-> e, t |-> t, s |-> s]
Rows == {{}, {TagRow("e1", "t1", "A"), TagRow("e1", "t2", "A"), TagRow("e2", "t2", NoSection),
              TagRow("e2", "t1", "A"), TagRow("e3", "t1", "B")}}

Charge(c, d, a, m) == [of |-> c, d |-> d, a |-> a, m |-> m]
\* A charge two days from an entry of its amount; a charge in both statements,
\* spelled differently; another of its amount six days later.
TwoCards ==
    [march |-> <<Charge("c2", 12, 50, "bus"), Charge("c3", 20, 90, "shop")>>,
     april |-> <<Charge("c3", 20, 90, "shop inc"), Charge("c4", 26, 90, "mall")>>]
Spellings == {{"shop", "shop inc"}}
\* Nothing, an entry of another charge, and one of the first charge that was made by
\* hand a day late.
ByHand(c, d) == <<[of |-> c, d |-> d, a |-> 50, m |-> "misc", n |-> 1, plain |-> TRUE]>>
Ledgers == {<< >>, ByHand("x", 14), ByHand("c2", 13)}

\* One report of each renderer.
SomeReports == {"in_out", "calendar", "bill", "entries_latest", "custom_bs", "budget_income",
                "budget_goal"}

Tagged == [e \in {1, 2} |-> IF e = 2 THEN 1 ELSE 0]
===============================================================================
