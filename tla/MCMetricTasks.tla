--------------------------- MODULE MCMetricTasks ---------------------------
(***************************************************************************)
(* Small instances of MetricTasks, with all orders in one store, and of    *)
(* StoreReports, at both sides of the edges of weeks, months and years.    *)
(*                                                                         *)
(* To save TLC the product of what does not interact, a behaviour shows    *)
(* one of four things: the reports, which have no state in common with the *)
(* tasks; several stores, without orders, on one day and with workers that *)
(* are not killed; one store on one day; or one store at midnight, with    *)
(* orders that lack no number and are paid on the day it is, and messages  *)
(* that are not overdue.                                                   *)
(***************************************************************************)
EXTENDS MetricTasks, StoreReports, Sequences

CONSTANTS s1

VARIABLE shown

EdgeDates ==
    {<<2023, 2, 28>>, <<2023, 3, 1>>, <<2024, 1, 30>>, <<2024, 1, 31>>, <<2024, 2, 21>>,
     <<2024, 2, 22>>, <<2024, 2, 28>>, <<2024, 2, 29>>, <<2024, 3, 1>>, <<2025, 2, 28>>,
     <<2025, 3, 1>>}

EdgeMoments == {d \o <<h>> : d \in EdgeDates, h \in {9, 23}}

MCInit == Init /\ ReportInit /\ shown \in {"reports", "stores", "day", "midnight"}

SeveralStores == UNCHANGED <<today, faults>> /\ Orders' = {}

OneStore ==
    /\ beat' \in {None} \cup Kinds \X {s1}
    /\ due \ due' \subseteq Kinds \X {s1}

\* Of the rows that no count of s1 tells apart one is kept, in the name of those of
\* another store, a creation on another day or, to the profit, orders not paid.
Telling(row) ==
    /\ row.store = s1
    /\ "orders" \notin Kinds => row.made = 1 /\ (row.confirmed <=> row.paidOn # None)
    /\ row.paidOn = None => row.priced
    /\ "profit" \notin Kinds => row.paidOn = None

\* What orders become.
OrdersAre(P(_)) == \A o \in Orders' : Telling(order'[o]) /\ P(order'[o])

OneDay == UNCHANGED today /\ OrdersAre(LAMBDA row : row.paidOn \in {None, 1})

TwoDays ==
    /\ OrdersAre(LAMBDA row : row.priced)
    /\ order' = order \/ OrdersAre(LAMBDA row : row.paidOn \in {None, today})
    /\ \A w \in Workers : task'[w].pc # "overdue"

MCNext ==
    /\ UNCHANGED shown
    /\ \/ shown = "reports" /\ ReportNext /\ UNCHANGED vars
       \/ shown = "stores" /\ Next /\ SeveralStores /\ UNCHANGED reportVars
       \/ shown = "day" /\ Next /\ OneStore /\ OneDay /\ UNCHANGED reportVars
       \/ shown = "midnight" /\ Next /\ OneStore /\ TwoDays /\ UNCHANGED reportVars

MCSpec == MCInit /\ [][MCNext]_<<vars, reportVars, shown>> /\ Fairness
=============================================================================
