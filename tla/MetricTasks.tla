---------------------------- MODULE MetricTasks ----------------------------
(***************************************************************************)
(* The daily metrics of the stores: the beat process that queues a task    *)
(* for every store every five minutes, the celery workers that run them,   *)
(* the metric rows they keep.                                              *)
(*                                                                         *)
(* A task creates the row of its day with get_or_create, counts the orders *)
(* of the day and saves the row, in statements of their own, while other   *)
(* workers do the same, orders change and midnight passes.  The profit of  *)
(* an order that lacks a number it is made of raises an error, which ends  *)
(* the task.  The beat asks the broker whether a task of the same name is  *)
(* queued before it queues another: it does not see those that workers     *)
(* have reserved.  A worker that is killed loses its message, or the       *)
(* broker hands it out again, as it does with one that was reserved for    *)
(* longer than the visibility timeout.                                     *)
(***************************************************************************)
EXTENDS Integers, FiniteSets

CONSTANTS
    Workers,   \* the places of celery workers for a message: processes, and prefetch
    Stores,    \* the stores, all of them scheduled
    Kinds,     \* the names of tasks: "orders" and "profit"
    OrderIds,  \* the primary keys orders can have
    LastDay,   \* the last day there is; days are numbered from 1
    MaxFaults, \* how many times a worker may be killed, or a message be overdue
    None       \* an absent value

ASSUME MetricsAssumption ==
    /\ Kinds \subseteq {"orders", "profit"}
    /\ LastDay \in Nat \ {0}
    /\ MaxFaults \in Nat
    /\ None \notin Nat /\ None \notin Kinds \X Stores

VARIABLES
    today,   \* the date on the clock
    order,   \* the rows of Order: a function of their primary keys
    born,    \* history: the days on which each order was inserted
    seen,    \* history: the orders that ever qualified for a kind and a day
    due,     \* the entries of the scheduler whose time has come
    beat,    \* the entry the beat is about to queue
    queue,   \* how many messages of each entry the queue fetch_reports holds
    task,    \* the task each worker runs
    metric,  \* the metric rows: the orders each of them counts
    faults   \* how many more workers may be killed, or messages be overdue

vars == <<today, order, born, seen, due, beat, queue, task, metric, faults>>

Entries == Kinds \X Stores

Days == 1 .. LastDay

\* "priced": the delivery fee of the order, the costs and quantities of its items
\* and the buying prices of their products are there.
Rows == [store : Stores, made : Days, confirmed : BOOLEAN, paidOn : Days \cup {None},
         priced : BOOLEAN]

Orders == DOMAIN order

\* What the tasks filter on: the orders of a store created, or paid, on a day.
\* Of a metric's number only the orders it adds up are kept.
Counts(e, day, table) ==
    {o \in DOMAIN table :
        /\ table[o].store = e[2]
        /\ table[o].confirmed
        /\ CASE e[1] = "orders" -> table[o].made = day
             [] e[1] = "profit" -> table[o].paidOn = day}

-----------------------------------------------------------------------------
(* Metric rows.  A worker inserts at most one row for an entry and a day,  *)
(* and no row is deleted: that worker and these are taken for its key.     *)

MetricKeys == Entries \X Days \X Workers
Metrics == DOMAIN metric
RowsOf(e, day) == {k \in Metrics : k[1] = e /\ k[2] = day}

WriteMetric(k, value) ==
    metric' = [j \in Metrics \cup {k} |-> IF j = k THEN value ELSE metric[j]]

Idle == [pc |-> "idle", entry |-> None, day |-> None, key |-> None, count |-> {}]

Tasks == [pc : {"idle", "reserved", "overdue", "get", "create", "count", "save"},
          entry : Entries \cup {None},
          day : Days \cup {None},
          key : MetricKeys \cup {None},
          count : SUBSET OrderIds]

-----------------------------------------------------------------------------
(* The clients, as far as the metrics see them.                            *)

ChangeOrders(table) ==
    /\ order' = table
    /\ seen' = [e \in Entries |->
                   seen[e] \cup {p \in OrderIds \X Days : p[1] \in Counts(e, p[2], table)}]
    /\ UNCHANGED <<today, due, beat, queue, task, metric, faults>>

WriteOrder(o, row) ==
    /\ ChangeOrders([p \in Orders \cup {o} |-> IF p = o THEN row ELSE order[p]])
    /\ born' = [born EXCEPT ![o] = @ \cup {row.made}]

\* A POST, or the save of a whole row that was deleted after it was read: the
\* row dates its creation anew.
InsertOrder(o) ==
    /\ o \notin Orders
    /\ \E row \in Rows : row.made = today /\ WriteOrder(o, row)

\* A PUT, a confirmation, a payment, a change of an item or of a product, and
\* the save of a whole row read earlier, before a deletion and an insertion maybe.
EditOrder(o) ==
    /\ o \in Orders
    /\ \E row \in Rows : row.made \in born[o] /\ WriteOrder(o, row)

DeleteOrder(o) ==
    /\ o \in Orders
    /\ ChangeOrders([p \in Orders \ {o} |-> order[p]])
    /\ UNCHANGED born

Clients == \E o \in OrderIds : InsertOrder(o) \/ EditOrder(o) \/ DeleteOrder(o)

Midnight ==
    /\ today < LastDay
    /\ today' = today + 1
    /\ UNCHANGED <<order, born, seen, due, beat, queue, task, metric, faults>>

-----------------------------------------------------------------------------
(* The beat.                                                               *)

\* The crontab of every entry is "*/5 * * * *".
Slot ==
    /\ due # Entries
    /\ due' = Entries
    /\ UNCHANGED <<today, order, born, seen, beat, queue, task, metric, faults>>

IsTaskInQueue(kind) == \E s \in Stores : queue[<<kind, s>>] > 0

\* Mistake to be caught: the queue is not looked at.
IsDue_Always ==
    /\ beat = None
    /\ \E e \in due : beat' = e /\ UNCHANGED due
    /\ UNCHANGED <<today, order, born, seen, queue, task, metric, faults>>

\* Mistake to be caught: the answer about the queue is taken the wrong way round.
IsDue_Swapped ==
    /\ beat = None
    /\ \E e \in due :
          IF ~IsTaskInQueue(e[1])
          THEN due' = due \ {e} /\ UNCHANGED beat
          ELSE beat' = e /\ UNCHANGED due
    /\ UNCHANGED <<today, order, born, seen, queue, task, metric, faults>>

\* SmartScheduler.is_due of an entry at the top of the heap: one whose task has
\* a message in the queue, be it for another store, is put off to its next time.
IsDue ==
    /\ beat = None
    /\ \E e \in due :
          IF IsTaskInQueue(e[1])
          THEN due' = due \ {e} /\ UNCHANGED beat
          ELSE beat' = e /\ UNCHANGED due
    /\ UNCHANGED <<today, order, born, seen, queue, task, metric, faults>>

\* The scheduler reserves the entry for its next time and sends the message.
ApplyEntry ==
    /\ beat # None
    /\ queue' = [queue EXCEPT ![beat] = @ + 1]
    /\ due' = due \ {beat}
    /\ beat' = None
    /\ UNCHANGED <<today, order, born, seen, task, metric, faults>>

-----------------------------------------------------------------------------
(* create_store_orders_metrics and create_store_profit_metrics.            *)

At(w, pc) == task[w].pc = pc

Run(w, t) ==
    /\ task' = [task EXCEPT ![w] = t]
    /\ UNCHANGED <<today, order, born, seen, due, beat, faults>>

\* A worker reserves a message, which leaves the list the beat looks at.
Reserve(w) ==
    /\ At(w, "idle")
    /\ \E e \in Entries :
          /\ queue[e] > 0
          /\ queue' = [queue EXCEPT ![e] = @ - 1]
          /\ Run(w, [Idle EXCEPT !.pc = "reserved", !.entry = e])
    /\ UNCHANGED metric

\* Mistake to be caught: the date is left for later.
Take_NoDay(w) ==
    /\ At(w, "reserved") \/ At(w, "overdue")
    /\ Run(w, [task[w] EXCEPT !.pc = "get"])
    /\ UNCHANGED <<queue, metric>>

\* The task begins, and reads the clock, once.
Take(w) ==
    /\ At(w, "reserved") \/ At(w, "overdue")
    /\ Run(w, [task[w] EXCEPT !.pc = "get", !.day = today])
    /\ UNCHANGED <<queue, metric>>

\* get_or_create: with two rows get() raises, and the task ends without a trace.
GetMetric(w) ==
    /\ At(w, "get")
    /\ LET rows == RowsOf(task[w].entry, task[w].day)
       IN  \/ rows = {} /\ Run(w, [task[w] EXCEPT !.pc = "create"])
           \/ \E k \in rows : rows = {k} /\ Run(w, [task[w] EXCEPT !.pc = "count", !.key = k])
           \/ Cardinality(rows) > 1 /\ Run(w, Idle)
    /\ UNCHANGED <<queue, metric>>

CreateMetric(w) ==
    /\ At(w, "create")
    /\ LET k == <<task[w].entry, task[w].day, w>>
       IN  /\ WriteMetric(k, {})
           /\ Run(w, [task[w] EXCEPT !.pc = "count", !.key = k])
    /\ UNCHANGED queue

\* An order whose profit is a sum with an absent number, a TypeError.
Raises(e, counted) == e[1] = "profit" /\ \E o \in counted : ~order[o].priced

\* Mistake to be caught: the clock is read again for the filter.
CountOrders_Clock(w) ==
    /\ At(w, "count")
    /\ LET counted == Counts(task[w].entry, today, order)
       IN  IF Raises(task[w].entry, counted)
           THEN Run(w, Idle)
           ELSE Run(w, [task[w] EXCEPT !.pc = "save", !.count = counted])
    /\ UNCHANGED <<queue, metric>>

\* The filter and, for the profit, the sum; an error is caught, and the row of
\* the metric stays as it is.
CountOrders(w) ==
    /\ At(w, "count")
    /\ LET counted == Counts(task[w].entry, task[w].day, order)
       IN  IF Raises(task[w].entry, counted)
           THEN Run(w, Idle)
           ELSE Run(w, [task[w] EXCEPT !.pc = "save", !.count = counted])
    /\ UNCHANGED <<queue, metric>>

\* Mistake to be caught: a row that was read is not written again.
SaveMetric_Once(w) ==
    /\ At(w, "save")
    /\ IF metric[task[w].key] = {} THEN WriteMetric(task[w].key, task[w].count)
       ELSE UNCHANGED metric
    /\ Run(w, Idle)
    /\ UNCHANGED queue

SaveMetric(w) ==
    /\ At(w, "save")
    /\ WriteMetric(task[w].key, task[w].count)
    /\ Run(w, Idle)
    /\ UNCHANGED queue

\* Tasks acknowledge late: a message reserved for an hour, while the processes are
\* at other tasks, is handed out again, once; its worker does not notice.
HandOutAgain(w) ==
    /\ faults > 0 /\ At(w, "reserved")
    /\ faults' = faults - 1
    /\ task' = [task EXCEPT ![w].pc = "overdue"]
    /\ queue' = [queue EXCEPT ![task[w].entry] = @ + 1]
    /\ UNCHANGED <<today, order, born, seen, due, beat, metric>>

\* A worker is killed.  The broker hands an unfinished message out again, unless
\* the parent acknowledges for a lost child.
KillWorker(w) ==
    /\ faults > 0 /\ ~At(w, "idle")
    /\ faults' = faults - 1
    /\ task' = [task EXCEPT ![w] = Idle]
    /\ queue' \in {queue, [queue EXCEPT ![task[w].entry] = @ + 1]}
    /\ UNCHANGED <<today, order, born, seen, due, beat, metric>>

-----------------------------------------------------------------------------
Init ==
    /\ today = 1
    /\ order = [o \in {} |-> None]
    /\ born = [o \in OrderIds |-> {}]
    /\ seen = [e \in Entries |-> {}]
    /\ due = {} /\ beat = None
    /\ queue = [e \in Entries |-> 0]
    /\ task = [w \in Workers |-> Idle]
    /\ metric = [k \in {} |-> {}]
    /\ faults = MaxFaults

Beat == IsDue \/ ApplyEntry

Work(w) ==
    \/ Reserve(w) \/ Take(w) \/ GetMetric(w)
    \/ CreateMetric(w) \/ CountOrders(w) \/ SaveMetric(w)

Next ==
    \/ Clients \/ Midnight
    \/ Slot \/ Beat
    \/ \E w \in Workers : Work(w) \/ HandOutAgain(w) \/ KillWorker(w)

Spec == Init /\ [][Next]_vars

\* Time passes, the beat goes on and so do the workers: they are loops that wait
\* for nothing but the clock, the broker and the database.
Fairness == WF_vars(Slot) /\ WF_vars(Beat) /\ \A w \in Workers : WF_vars(Work(w))

FairSpec == Spec /\ Fairness

-----------------------------------------------------------------------------
TypeOK ==
    /\ today \in Days
    /\ Orders \subseteq OrderIds /\ order \in [Orders -> Rows]
    /\ born \in [OrderIds -> SUBSET Days]
    /\ seen \in [Entries -> SUBSET (OrderIds \X Days)]
    /\ due \subseteq Entries
    /\ beat \in Entries \cup {None}
    /\ queue \in [Entries -> Nat]
    /\ task \in [Workers -> Tasks]
    /\ Metrics \subseteq MetricKeys /\ metric \in [Metrics -> SUBSET OrderIds]
    /\ faults \in 0 .. MaxFaults

(* A metric counts no order on a day that was not its own: whatever workers *)
(* overwrite each other's counts, orders change while they are counted or   *)
(* midnight passes in the middle of a task, an order in the row of a day    *)
(* was confirmed, and created or paid on that day.                          *)
MetricsAreTrue ==
    \A k \in Metrics : metric[k] \X {k[2]} \subseteq seen[k[1]]

\* The messages of a kind in the queue: each is an entry with a number of its own.
Messages(kind) == UNION {{e} \X (1 .. queue[e]) : e \in {kind} \X Stores}

\* How many there are, the one the beat is about to send included.
Sent(kind) ==
    Cardinality(Messages(kind)) + (IF beat \in {kind} \X Stores THEN 1 ELSE 0)

(* "Smart means that prevents duplicating of tasks in queues": a task has   *)
(* at most one message in the queue, for all stores together, besides those *)
(* the broker hands out again after a kill or the visibility timeout.       *)
QueuedOnce == \A kind \in Kinds : Sent(kind) <= 1 + (MaxFaults - faults)

\* The metric of today shows what a report should show; or there are two rows,
\* or an order that counts lacks a number, and it is not written any more.
Right(e) == \E k \in Metrics : RowsOf(e, today) = {k} /\ metric[k] = Counts(e, today, order)
Doubled(e) == Cardinality(RowsOf(e, today)) > 1
Spoilt(e) == Raises(e, Counts(e, today, order))

(* Once the clients leave the orders alone and the day does not change, the *)
(* metric of a store whose tasks are queued again and again becomes right   *)
(* and stays so, whatever older count was saved over a newer one before,    *)
(* unless two first tasks of the day have created two rows, or the profit   *)
(* has an order in it whose fee, cost, quantity or buying price is null.    *)
MetricsSettle ==
    \A e \in Entries :
       (/\ <>[][FALSE]_<<order, today>>
        /\ []<>(queue[e] > 0)) => <>[](Right(e) \/ Doubled(e) \/ Spoilt(e))

(* Some store's task is queued again and again for every kind.  It need not *)
(* be every store's: the beat puts off an entry while a task of the same    *)
(* name is queued for another store.                                        *)
SomeStoreIsServed ==
    \A kind \in Kinds : \E s \in Stores : []<>(queue[<<kind, s>>] > 0)
=============================================================================
