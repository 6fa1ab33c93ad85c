------------------------- MODULE MetricTasksProofs -------------------------
(***************************************************************************)
(* Theorems about MetricTasks, for any sets of workers, stores and orders  *)
(* and any number of days, kills and overdue messages: types, that no      *)
(* metric counts an order on a day that was not its own, and that the beat *)
(* does not queue a task twice.                                            *)
(***************************************************************************)
EXTENDS MetricTasks, FiniteSetTheorems, TLAPS

\* What a task knows at each of its statements.
WellFormed(t) ==
    /\ t \in Tasks
    /\ t.pc # "idle" => t.entry \in Entries
    /\ t.pc \in {"get", "create", "count", "save"} => t.day \in Days
    /\ t.pc \in {"count", "save"} =>
          t.key \in MetricKeys /\ t.key[1] = t.entry /\ t.key[2] = t.day

OrdersTyped ==
    /\ Orders \subseteq OrderIds /\ order \in [Orders -> Rows]
    /\ born \in [OrderIds -> SUBSET Days]
    /\ seen \in [Entries -> SUBSET (OrderIds \X Days)]

MetricsTyped == Metrics \subseteq MetricKeys /\ metric \in [Metrics -> SUBSET OrderIds]

TasksTyped ==
    /\ task \in [Workers -> Tasks]
    /\ \A w \in Workers : WellFormed(task[w])

QueueTyped ==
    /\ today \in Days
    /\ due \subseteq Entries
    /\ beat \in Entries \cup {None}
    /\ queue \in [Entries -> Nat]
    /\ faults \in 0 .. MaxFaults

\* The inductive type invariant.
Typed == OrdersTyped /\ MetricsTyped /\ TasksTyped /\ QueueTyped

\* Whatever qualifies now has been seen.
NowSeen == \A e \in Entries, d \in Days : Counts(e, d, order) \X {d} \subseteq seen[e]

\* What a task has counted has been seen.
CountSeen(t) == t.pc = "save" => t.count \X {t.day} \subseteq seen[t.entry]

\* The invariant that makes metrics true.
SeenInv == NowSeen /\ (\A w \in Workers : CountSeen(task[w])) /\ MetricsAreTrue

\* The invariant that keeps tasks from being queued twice: the messages are
\* finitely many without any assumption on the set of stores.
QueueInv == (\A kind \in Kinds : IsFiniteSet(Messages(kind))) /\ QueuedOnce

-----------------------------------------------------------------------------
\* The inductive form implies the types.
LEMMA TypedImplies == Typed => TypeOK
BY DEF Typed, OrdersTyped, MetricsTyped, TasksTyped, QueueTyped, TypeOK

\* A worker at rest.
LEMMA IdleWellFormed == WellFormed(Idle) /\ CountSeen(Idle)
BY DEF WellFormed, Idle, Tasks, CountSeen

\* What counts is an order.
LEMMA CountsTyped ==
    ASSUME OrdersTyped, NEW e, NEW d
    PROVE  Counts(e, d, order) \subseteq OrderIds
BY DEF OrdersTyped, Counts, Orders

\* A worker that goes on with a task.
LEMMA RunStep ==
    ASSUME Typed, NEW w \in Workers, NEW t, WellFormed(t), task' = [task EXCEPT ![w] = t]
    PROVE  /\ TasksTyped'
           /\ \A v \in Workers : task'[v] = IF v = w THEN t ELSE task[v]
<1>1. t \in Tasks
  BY DEF WellFormed
<1>2. task' \in [Workers -> Tasks]
  BY <1>1 DEF Typed, TasksTyped
<1>3. \A v \in Workers : task'[v] = IF v = w THEN t ELSE task[v]
  BY DEF Typed, TasksTyped
<1> QED
  BY <1>2, <1>3 DEF Typed, TasksTyped

\* A metric row that is written.
LEMMA WriteTyped ==
    ASSUME MetricsTyped, NEW k \in MetricKeys, NEW value \in SUBSET OrderIds,
           WriteMetric(k, value)
    PROVE  /\ MetricsTyped'
           /\ Metrics' = Metrics \cup {k}
           /\ \A j \in Metrics' : metric'[j] = IF j = k THEN value ELSE metric[j]
<1>1. Metrics' = Metrics \cup {k}
  BY DEF WriteMetric, Metrics
<1>2. \A j \in Metrics' : metric'[j] = IF j = k THEN value ELSE metric[j]
  BY <1>1 DEF WriteMetric
<1>3. metric' = [j \in Metrics' |-> metric'[j]]
  BY <1>1, <1>2 DEF WriteMetric
<1>4. \A j \in Metrics' : metric'[j] \in SUBSET OrderIds
  BY <1>1, <1>2 DEF MetricsTyped
<1>5. metric' \in [Metrics' -> SUBSET OrderIds]
  BY <1>3, <1>4
<1> QED
  BY <1>1, <1>2, <1>5 DEF MetricsTyped

\* A change of the orders to a table of rows.
LEMMA ChangeTyped ==
    ASSUME Typed, NEW table, DOMAIN table \subseteq OrderIds, table \in [DOMAIN table -> Rows],
           ChangeOrders(table), born' \in [OrderIds -> SUBSET Days]
    PROVE  Typed'
<1>1. Orders' = DOMAIN table /\ order' = table
  BY DEF ChangeOrders, Orders
<1>2. seen' \in [Entries -> SUBSET (OrderIds \X Days)]
  BY DEF ChangeOrders, Typed, OrdersTyped
<1>3. OrdersTyped'
  BY <1>1, <1>2 DEF OrdersTyped
<1> QED
  BY <1>3 DEF ChangeOrders, Typed, MetricsTyped, Metrics, TasksTyped, QueueTyped

\* What the clients do is a change of the orders to a table of rows.
LEMMA ClientsChange ==
    ASSUME Typed, Clients
    PROVE  /\ \E table : /\ DOMAIN table \subseteq OrderIds /\ table \in [DOMAIN table -> Rows]
                         /\ ChangeOrders(table)
           /\ born' \in [OrderIds -> SUBSET Days]
<1>0. /\ Orders \subseteq OrderIds /\ order \in [Orders -> Rows]
      /\ born \in [OrderIds -> SUBSET Days]
  BY DEF Typed, OrdersTyped
<1>1. PICK o \in OrderIds : InsertOrder(o) \/ EditOrder(o) \/ DeleteOrder(o)
  BY DEF Clients
<1>2. CASE InsertOrder(o) \/ EditOrder(o)
  <2>1. PICK row \in Rows : WriteOrder(o, row)
    BY <1>2 DEF InsertOrder, EditOrder
  <2> DEFINE table == [p \in Orders \cup {o} |-> IF p = o THEN row ELSE order[p]]
  <2>2. ChangeOrders(table) /\ born' = [born EXCEPT ![o] = @ \cup {row.made}]
    BY <2>1 DEF WriteOrder
  <2>3. DOMAIN table \subseteq OrderIds /\ table \in [DOMAIN table -> Rows]
    BY <1>0
  <2>4. born' \in [OrderIds -> SUBSET Days]
    BY <1>0, <2>2 DEF Rows
  <2> HIDE DEF table
  <2> QED
    BY <2>2, <2>3, <2>4
<1>3. CASE DeleteOrder(o)
  <2> DEFINE table == [p \in Orders \ {o} |-> order[p]]
  <2>1. ChangeOrders(table) /\ born' = born
    BY <1>3 DEF DeleteOrder
  <2>2. DOMAIN table \subseteq OrderIds /\ table \in [DOMAIN table -> Rows]
    BY <1>0
  <2> HIDE DEF table
  <2> QED
    BY <1>0, <2>1, <2>2
<1> QED
  BY <1>1, <1>2, <1>3

\* A worker that takes a message, reads the row or counts goes on with a task
\* of its own.
LEMMA WorkTyped ==
    ASSUME Typed, NEW w \in Workers, Work(w)
    PROVE  Typed'
<1> USE DEF At
<1>0. WellFormed(task[w]) /\ task[w] \in Tasks
  BY DEF Typed, TasksTyped
<1>a. ASSUME NEW t, Run(w, t) PROVE OrdersTyped' /\ today' \in Days /\ due' \subseteq Entries
                                     /\ beat' \in Entries \cup {None} /\ faults' \in 0 .. MaxFaults
                                     /\ task' = [task EXCEPT ![w] = t]
  BY <1>a DEF Run, Typed, OrdersTyped, Orders, QueueTyped
<1>b. ASSUME UNCHANGED metric PROVE MetricsTyped'
  BY <1>b DEF Typed, MetricsTyped, Metrics
<1>1. CASE Reserve(w)
  <2>1. PICK e \in Entries :
           /\ queue[e] > 0
           /\ queue' = [queue EXCEPT ![e] = @ - 1]
           /\ Run(w, [Idle EXCEPT !.pc = "reserved", !.entry = e])
    BY <1>1 DEF Reserve
  <2> DEFINE t == [Idle EXCEPT !.pc = "reserved", !.entry = e]
  <2>2. WellFormed(t)
    BY DEF WellFormed, Idle, Tasks
  <2>3. queue' \in [Entries -> Nat]
    BY <2>1 DEF Typed, QueueTyped
  <2> HIDE DEF t
  <2>4. Run(w, t)
    BY <2>1 DEF t
  <2> QED
    BY <1>1, <1>a, <1>b, <2>2, <2>3, <2>4, RunStep DEF Reserve, Typed, QueueTyped
<1>6. CASE Take(w)
  <2> DEFINE t == [task[w] EXCEPT !.pc = "get", !.day = today]
  <2>1. Run(w, t) /\ UNCHANGED <<queue, metric>>
    BY <1>6 DEF Take
  <2>2. WellFormed(t)
    BY <1>0, <1>6 DEF Take, WellFormed, Tasks, Typed, QueueTyped
  <2>3. queue' \in [Entries -> Nat]
    BY <2>1 DEF Typed, QueueTyped
  <2> HIDE DEF t
  <2> QED
    BY <1>a, <1>b, <2>1, <2>2, <2>3, RunStep DEF Typed, QueueTyped
<1>2. CASE GetMetric(w)
  <2>1. queue' \in [Entries -> Nat] /\ MetricsTyped'
    BY <1>2, <1>b DEF GetMetric, Typed, QueueTyped
  <2>2. PICK t : WellFormed(t) /\ Run(w, t)
    <3>1. CASE Run(w, [task[w] EXCEPT !.pc = "create"])
      <4>1. WellFormed([task[w] EXCEPT !.pc = "create"])
        BY <1>0, <1>2 DEF GetMetric, WellFormed, Tasks
      <4> QED
        BY <3>1, <4>1
    <3>2. CASE \E k \in RowsOf(task[w].entry, task[w].day) :
                  Run(w, [task[w] EXCEPT !.pc = "count", !.key = k])
      <4>1. PICK k \in RowsOf(task[w].entry, task[w].day) :
               Run(w, [task[w] EXCEPT !.pc = "count", !.key = k])
        BY <3>2
      <4>2. k \in MetricKeys /\ k[1] = task[w].entry /\ k[2] = task[w].day
        BY DEF RowsOf, Typed, MetricsTyped
      <4>3. WellFormed([task[w] EXCEPT !.pc = "count", !.key = k])
        BY <1>0, <1>2, <4>2 DEF GetMetric, WellFormed, Tasks
      <4> QED
        BY <4>1, <4>3
    <3>3. CASE Run(w, Idle)
      BY <3>3, IdleWellFormed
    <3> QED
      BY <1>2, <3>1, <3>2, <3>3 DEF GetMetric
  <2> QED
    BY <1>a, <2>1, <2>2, RunStep DEF Typed, QueueTyped
<1>3. CASE CreateMetric(w)
  <2> DEFINE k == <<task[w].entry, task[w].day, w>>
             t == [task[w] EXCEPT !.pc = "count", !.key = k]
  <2>1. WriteMetric(k, {}) /\ Run(w, t) /\ UNCHANGED queue
    BY <1>3 DEF CreateMetric
  <2>2. k \in MetricKeys /\ k[1] = task[w].entry /\ k[2] = task[w].day
    BY <1>0, <1>3 DEF CreateMetric, WellFormed, MetricKeys
  <2>3. WellFormed(t)
    BY <1>0, <1>3, <2>2 DEF CreateMetric, WellFormed, Tasks
  <2>4. queue' \in [Entries -> Nat]
    BY <2>1 DEF Typed, QueueTyped
  <2>5. MetricsTyped'
    BY <2>1, <2>2, WriteTyped DEF Typed
  <2> HIDE DEF t
  <2> QED
    BY <1>a, <2>1, <2>3, <2>4, <2>5, RunStep DEF Typed, QueueTyped
<1>4. CASE CountOrders(w)
  <2> DEFINE n == Counts(task[w].entry, task[w].day, order)
             t == [task[w] EXCEPT !.pc = "save", !.count = n]
  <2>1. (Run(w, t) \/ Run(w, Idle)) /\ UNCHANGED <<queue, metric>>
    BY <1>4 DEF CountOrders
  <2>2. n \subseteq OrderIds
    BY CountsTyped DEF Typed
  <2> HIDE DEF n
  <2>3. WellFormed(t)
    BY <1>0, <1>4, <2>2 DEF CountOrders, WellFormed, Tasks
  <2>4. queue' \in [Entries -> Nat]
    BY <2>1 DEF Typed, QueueTyped
  <2> HIDE DEF t
  <2> QED
    BY <1>a, <1>b, <2>1, <2>3, <2>4, IdleWellFormed, RunStep DEF Typed, QueueTyped
<1>5. CASE SaveMetric(w)
  <2>1. WriteMetric(task[w].key, task[w].count) /\ Run(w, Idle) /\ UNCHANGED queue
    BY <1>5 DEF SaveMetric
  <2>2. task[w].key \in MetricKeys /\ task[w].count \in SUBSET OrderIds
    BY <1>0, <1>5 DEF SaveMetric, WellFormed, Tasks
  <2>3. MetricsTyped'
    BY <2>1, <2>2, WriteTyped DEF Typed
  <2>4. queue' \in [Entries -> Nat]
    BY <2>1 DEF Typed, QueueTyped
  <2> QED
    BY <1>a, <2>1, <2>3, <2>4, IdleWellFormed, RunStep DEF Typed, QueueTyped
<1> QED
  BY <1>1, <1>2, <1>3, <1>4, <1>5, <1>6 DEF Work

\* A worker that is killed has a task in hand.
LEMMA KillTyped ==
    ASSUME Typed, NEW w \in Workers, KillWorker(w)
    PROVE  Typed' /\ task[w].entry \in Entries
<1>1. task[w].entry \in Entries
  BY DEF KillWorker, At, Typed, TasksTyped, WellFormed
<1>2. queue' \in [Entries -> Nat]
  BY DEF KillWorker, Typed, QueueTyped
<1>3. faults' \in 0 .. MaxFaults
  BY MetricsAssumption DEF KillWorker, Typed, QueueTyped
<1>4. TasksTyped'
  BY IdleWellFormed, RunStep DEF KillWorker
<1> QED
  BY <1>1, <1>2, <1>3, <1>4
     DEF KillWorker, Typed, OrdersTyped, Orders, MetricsTyped, Metrics, QueueTyped

\* So has one whose message is overdue.
LEMMA HandOutTyped ==
    ASSUME Typed, NEW w \in Workers, HandOutAgain(w)
    PROVE  Typed' /\ task[w].entry \in Entries
<1>0. WellFormed(task[w]) /\ task[w] \in Tasks /\ task[w].pc = "reserved"
  BY DEF HandOutAgain, At, Typed, TasksTyped
<1>1. task[w].entry \in Entries
  BY <1>0 DEF WellFormed
<1>2. queue' \in [Entries -> Nat]
  BY <1>1 DEF HandOutAgain, Typed, QueueTyped
<1>3. faults' \in 0 .. MaxFaults
  BY MetricsAssumption DEF HandOutAgain, Typed, QueueTyped
<1> DEFINE t == [task[w] EXCEPT !.pc = "overdue"]
<1>4. WellFormed(t)
  BY <1>0 DEF WellFormed, Tasks
<1>5. task' = [task EXCEPT ![w] = t]
  BY DEF HandOutAgain
<1> HIDE DEF t
<1>6. TasksTyped'
  BY <1>4, <1>5, RunStep
<1> QED
  BY <1>1, <1>2, <1>3, <1>6
     DEF HandOutAgain, Typed, OrdersTyped, Orders, MetricsTyped, Metrics, QueueTyped

\* Every step keeps the types.
LEMMA TypeStep ==
    ASSUME Typed, [Next]_vars
    PROVE  Typed'
<1>0. ASSUME UNCHANGED <<order, born, seen, task, metric>>
      PROVE  OrdersTyped' /\ TasksTyped' /\ MetricsTyped'
  BY <1>0 DEF Typed, OrdersTyped, Orders, TasksTyped, MetricsTyped, Metrics
<1>1. CASE Clients
  BY <1>1, ClientsChange, ChangeTyped
<1>2. CASE Midnight
  <2>1. today' \in Days
    BY <1>2, MetricsAssumption DEF Midnight, Typed, QueueTyped, Days
  <2> QED
    BY <1>0, <1>2, <2>1 DEF Midnight, Typed, QueueTyped
<1>3. CASE Slot
  BY <1>0, <1>3 DEF Slot, Typed, QueueTyped
<1>4. CASE IsDue
  <2>1. due' \subseteq Entries /\ beat' \in Entries \cup {None}
    BY <1>4 DEF IsDue, Typed, QueueTyped
  <2> QED
    BY <1>0, <1>4, <2>1 DEF IsDue, Typed, QueueTyped
<1>5. CASE ApplyEntry
  <2>1. queue' \in [Entries -> Nat]
    BY <1>5 DEF ApplyEntry, Typed, QueueTyped
  <2> QED
    BY <1>0, <1>5, <2>1 DEF ApplyEntry, Typed, QueueTyped
<1>6. CASE UNCHANGED vars
  BY <1>0, <1>6 DEF vars, Typed, QueueTyped
<1> QED
  BY <1>1, <1>2, <1>3, <1>4, <1>5, <1>6, WorkTyped, HandOutTyped, KillTyped DEF Next, Beat

\* No orders, metrics and tasks at first.
LEMMA InitTyped == Init => Typed
<1> SUFFICES ASSUME Init PROVE Typed
  OBVIOUS
<1>1. /\ Orders = {} /\ order \in [Orders -> Rows]
      /\ born \in [OrderIds -> SUBSET Days]
      /\ seen \in [Entries -> SUBSET (OrderIds \X Days)]
  BY DEF Init, Orders
<1>2. Metrics = {} /\ metric \in [Metrics -> SUBSET OrderIds]
  BY DEF Init, Metrics
<1>3. task \in [Workers -> Tasks] /\ \A w \in Workers : WellFormed(task[w])
  BY IdleWellFormed DEF Init, WellFormed
<1>4. today \in Days /\ faults \in 0 .. MaxFaults
  BY MetricsAssumption DEF Init, Days
<1> QED
  BY <1>1, <1>2, <1>3, <1>4
     DEF Init, Typed, OrdersTyped, MetricsTyped, TasksTyped, QueueTyped

(* The clock, the orders, the queue, the tasks and the metrics keep their   *)
(* types, for any constants.                                                *)
THEOREM TypeCorrect == Spec => []TypeOK
<1>1. Typed /\ [Next]_vars => Typed'
  BY TypeStep
<1> QED
  BY <1>1, InitTyped, TypedImplies, PTL DEF Spec

-----------------------------------------------------------------------------
(* Metrics.                                                                *)

\* What changes of the orders make count is seen from then on.
LEMMA ChangeSeen ==
    ASSUME Typed, SeenInv, NEW table, DOMAIN table \subseteq OrderIds, ChangeOrders(table)
    PROVE  SeenInv'
<1>1. \A e \in Entries :
         seen'[e] = seen[e] \cup {p \in OrderIds \X Days : p[1] \in Counts(e, p[2], table)}
  BY DEF ChangeOrders
<1>2. NowSeen'
  <2> SUFFICES ASSUME NEW e \in Entries, NEW d \in Days, NEW o \in Counts(e, d, order')
               PROVE  <<o, d>> \in seen'[e]
    BY DEF NowSeen
  <2>1. o \in Counts(e, d, table) /\ o \in OrderIds
    BY DEF ChangeOrders, Counts
  <2> QED
    BY <1>1, <2>1
<1>3. \A w \in Workers : CountSeen(task[w])'
  <2> SUFFICES ASSUME NEW w \in Workers PROVE CountSeen(task[w])'
    OBVIOUS
  <2>1. CountSeen(task[w]) /\ task' = task
    BY DEF SeenInv, ChangeOrders
  <2>2. task[w].pc = "save" => task[w].entry \in Entries
    BY DEF Typed, TasksTyped, WellFormed
  <2> QED
    BY <1>1, <2>1, <2>2 DEF CountSeen
<1>4. MetricsAreTrue'
  <2> SUFFICES ASSUME NEW k \in Metrics PROVE metric[k] \X {k[2]} \subseteq seen'[k[1]]
    BY DEF MetricsAreTrue, ChangeOrders, Metrics
  <2>1. k[1] \in Entries
    BY DEF Typed, MetricsTyped, MetricKeys
  <2> QED
    BY <1>1, <2>1 DEF SeenInv, MetricsAreTrue
<1> QED
  BY <1>2, <1>3, <1>4 DEF SeenInv

\* A worker that goes on with a task, and leaves the orders alone.
LEMMA RunSeen ==
    ASSUME Typed, SeenInv, NEW w \in Workers, NEW t, Run(w, t), CountSeen(t)
    PROVE  NowSeen' /\ \A v \in Workers : CountSeen(task[v])'
<1>1. \A v \in Workers : task'[v] = IF v = w THEN t ELSE task[v]
  BY DEF Run, Typed, TasksTyped
<1>2. UNCHANGED <<order, seen>>
  BY DEF Run
<1>3. NowSeen'
  BY <1>2 DEF SeenInv, NowSeen
<1> QED
  BY <1>1, <1>2, <1>3 DEF SeenInv, CountSeen

\* A metric row that is written with what has been seen.
LEMMA WriteSeen ==
    ASSUME Typed, SeenInv, NEW k \in MetricKeys, NEW value \in SUBSET OrderIds,
           WriteMetric(k, value), value \X {k[2]} \subseteq seen[k[1]], UNCHANGED seen
    PROVE  MetricsAreTrue'
<1>1. /\ Metrics' = Metrics \cup {k}
      /\ \A j \in Metrics' : metric'[j] = IF j = k THEN value ELSE metric[j]
  BY WriteTyped DEF Typed
<1> SUFFICES ASSUME NEW j \in Metrics' PROVE metric'[j] \X {j[2]} \subseteq seen[j[1]]
  BY DEF MetricsAreTrue
<1> QED
  BY <1>1 DEF SeenInv, MetricsAreTrue

\* Every step of a worker keeps the invariant.
LEMMA WorkSeen ==
    ASSUME Typed, SeenInv, NEW w \in Workers, Work(w)
    PROVE  SeenInv'
<1> USE DEF At
<1>0. WellFormed(task[w]) /\ task[w] \in Tasks
  BY DEF Typed, TasksTyped
<1>a. ASSUME UNCHANGED <<metric, seen>> PROVE MetricsAreTrue'
  BY <1>a DEF SeenInv, MetricsAreTrue, Metrics
<1>b. ASSUME NEW t, Run(w, t) PROVE UNCHANGED seen
  BY <1>b DEF Run
<1>1. CASE Reserve(w)
  <2>1. PICK e \in Entries : Run(w, [Idle EXCEPT !.pc = "reserved", !.entry = e])
    BY <1>1 DEF Reserve
  <2>2. CountSeen([Idle EXCEPT !.pc = "reserved", !.entry = e])
    BY DEF CountSeen, Idle
  <2> QED
    BY <1>1, <1>a, <1>b, <2>1, <2>2, RunSeen DEF Reserve, SeenInv
<1>6. CASE Take(w)
  <2> DEFINE t == [task[w] EXCEPT !.pc = "get", !.day = today]
  <2>1. Run(w, t) /\ UNCHANGED metric
    BY <1>6 DEF Take
  <2>2. CountSeen(t)
    BY <1>0 DEF CountSeen, Tasks
  <2> HIDE DEF t
  <2> QED
    BY <1>a, <1>b, <2>1, <2>2, RunSeen DEF SeenInv
<1>2. CASE GetMetric(w)
  <2>1. PICK t : Run(w, t) /\ t.pc # "save"
    <3>1. /\ [task[w] EXCEPT !.pc = "create"].pc = "create" /\ Idle.pc = "idle"
          /\ \A k : [task[w] EXCEPT !.pc = "count", !.key = k].pc = "count"
      BY <1>0 DEF Idle, Tasks
    <3> QED
      BY <1>2, <3>1 DEF GetMetric
  <2>2. CountSeen(t)
    BY <2>1 DEF CountSeen
  <2> QED
    BY <1>2, <1>a, <1>b, <2>1, <2>2, RunSeen DEF GetMetric, SeenInv
<1>3. CASE CreateMetric(w)
  <2> DEFINE k == <<task[w].entry, task[w].day, w>>
             t == [task[w] EXCEPT !.pc = "count", !.key = k]
  <2>1. WriteMetric(k, {}) /\ Run(w, t)
    BY <1>3 DEF CreateMetric
  <2>2. k \in MetricKeys
    BY <1>0, <1>3 DEF CreateMetric, WellFormed, MetricKeys
  <2>3. CountSeen(t)
    BY <1>0 DEF CountSeen, Tasks
  <2>4. MetricsAreTrue'
    BY <1>b, <2>1, <2>2, WriteSeen
  <2> HIDE DEF t
  <2> QED
    BY <2>1, <2>3, <2>4, RunSeen DEF SeenInv
<1>4. CASE CountOrders(w)
  <2> DEFINE n == Counts(task[w].entry, task[w].day, order)
             t == [task[w] EXCEPT !.pc = "save", !.count = n]
  <2>1. (Run(w, t) \/ Run(w, Idle)) /\ UNCHANGED metric
    BY <1>4 DEF CountOrders
  <2>2. n \X {task[w].day} \subseteq seen[task[w].entry]
    BY <1>0, <1>4 DEF CountOrders, WellFormed, SeenInv, NowSeen
  <2> HIDE DEF n
  <2>3. CountSeen(t)
    BY <1>0, <2>2 DEF CountSeen, Tasks
  <2> HIDE DEF t
  <2> QED
    BY <1>a, <1>b, <2>1, <2>3, IdleWellFormed, RunSeen DEF SeenInv
<1>5. CASE SaveMetric(w)
  <2>1. WriteMetric(task[w].key, task[w].count) /\ Run(w, Idle) /\ task[w].pc = "save"
    BY <1>5 DEF SaveMetric
  <2>2. /\ task[w].key \in MetricKeys /\ task[w].count \in SUBSET OrderIds
        /\ task[w].key[1] = task[w].entry /\ task[w].key[2] = task[w].day
    BY <1>0, <2>1 DEF WellFormed, Tasks
  <2>3. task[w].count \X {task[w].day} \subseteq seen[task[w].entry]
    BY <2>1 DEF SeenInv, CountSeen
  <2>4. MetricsAreTrue'
    BY <1>b, <2>1, <2>2, <2>3, WriteSeen
  <2> QED
    BY <2>1, <2>4, IdleWellFormed, RunSeen DEF SeenInv
<1> QED
  BY <1>1, <1>2, <1>3, <1>4, <1>5, <1>6 DEF Work

\* Every step keeps the invariant.
LEMMA SeenStep ==
    ASSUME Typed, SeenInv, [Next]_vars
    PROVE  SeenInv'
<1>1. CASE Clients
  BY <1>1, ClientsChange, ChangeSeen
<1>2. ASSUME UNCHANGED <<order, seen, task, metric>> PROVE SeenInv'
  BY <1>2 DEF SeenInv, NowSeen, CountSeen, MetricsAreTrue, Metrics
<1>3. ASSUME NEW w \in Workers, KillWorker(w) \/ HandOutAgain(w) PROVE SeenInv'
  <2> DEFINE t == task'[w]
  <2>1. /\ CountSeen(t)
        /\ \A v \in Workers : task'[v] = IF v = w THEN t ELSE task[v]
    <3>1. task[w] \in Tasks /\ task \in [Workers -> Tasks]
      BY DEF Typed, TasksTyped
    <3>2. CASE KillWorker(w)
      BY <3>1, <3>2, IdleWellFormed DEF KillWorker
    <3>3. CASE HandOutAgain(w)
      BY <3>1, <3>3 DEF HandOutAgain, CountSeen, Tasks
    <3> QED
      BY <1>3, <3>2, <3>3
  <2>2. UNCHANGED <<order, seen, metric>>
    BY <1>3 DEF KillWorker, HandOutAgain
  <2> HIDE DEF t
  <2>3. \A v \in Workers : CountSeen(task'[v])
    BY <2>1 DEF SeenInv
  <2>4. \A v \in Workers : CountSeen(task[v])'
    BY <2>2, <2>3 DEF CountSeen
  <2>5. NowSeen' /\ MetricsAreTrue'
    BY <2>2 DEF SeenInv, NowSeen, MetricsAreTrue, Metrics
  <2> QED
    BY <2>4, <2>5 DEF SeenInv
<1> QED
  BY <1>1, <1>2, <1>3, WorkSeen DEF Next, Beat, Midnight, Slot, IsDue, ApplyEntry, vars

(* A metric counts no order on a day that was not its own: for any number   *)
(* of workers, stores, orders and days, whoever is killed or overtaken.     *)
THEOREM MetricsTrue == Spec => []MetricsAreTrue
<1>1. Init => SeenInv
  <2> SUFFICES ASSUME Init PROVE SeenInv
    OBVIOUS
  <2>1. NowSeen
    BY DEF Init, NowSeen, Counts
  <2>2. \A w \in Workers : CountSeen(task[w])
    BY IdleWellFormed DEF Init
  <2>3. MetricsAreTrue
    BY DEF Init, MetricsAreTrue, Metrics
  <2> QED
    BY <2>1, <2>2, <2>3 DEF SeenInv
<1>2. Typed /\ SeenInv /\ [Next]_vars => Typed' /\ SeenInv'
  BY TypeStep, SeenStep
<1>3. SeenInv => MetricsAreTrue
  BY DEF SeenInv
<1> QED
  BY <1>1, <1>2, <1>3, InitTyped, PTL DEF Spec

-----------------------------------------------------------------------------
(* The queue.                                                              *)

\* The entries of a kind.
LEMMA EntriesOf ==
    ASSUME NEW kind \in Kinds
    PROVE  {kind} \X Stores \subseteq Entries
BY DEF Entries

\* A message more, or less, of one entry.
LEMMA MessagesStep ==
    ASSUME Typed, NEW e \in Entries, NEW kind \in Kinds, IsFiniteSet(Messages(kind))
    PROVE  /\ Cardinality(Messages(kind)) \in Nat
           /\ queue' = [queue EXCEPT ![e] = @ + 1] =>
                 /\ IsFiniteSet(Messages(kind)')
                 /\ Cardinality(Messages(kind)') = Cardinality(Messages(kind))
                       + (IF e \in {kind} \X Stores THEN 1 ELSE 0)
           /\ queue[e] > 0 /\ queue' = [queue EXCEPT ![e] = @ - 1] =>
                 /\ IsFiniteSet(Messages(kind)')
                 /\ Cardinality(Messages(kind)') = Cardinality(Messages(kind))
                       - (IF e \in {kind} \X Stores THEN 1 ELSE 0)
<1> DEFINE mine == e \in {kind} \X Stores
           n == queue[e]
<1>0. queue \in [Entries -> Nat] /\ n \in Nat /\ {kind} \X Stores \subseteq Entries
  BY EntriesOf DEF Typed, QueueTyped
<1>1. Cardinality(Messages(kind)) \in Nat
  BY FS_CardinalityType
<1>2. ASSUME queue' = [queue EXCEPT ![e] = @ + 1]
      PROVE  /\ IsFiniteSet(Messages(kind)')
             /\ Cardinality(Messages(kind)') = Cardinality(Messages(kind)) + (IF mine THEN 1 ELSE 0)
  <2>1. \A f \in {kind} \X Stores : queue'[f] = IF f = e THEN n + 1 ELSE queue[f]
    BY <1>0, <1>2
  <2>2. CASE mine
    <3>1. 1 .. (n + 1) = (1 .. n) \cup {n + 1}
      BY <1>0
    <3>2. Messages(kind)' = Messages(kind) \cup {<<e, n + 1>>}
      BY <2>1, <2>2, <3>1 DEF Messages
    <3>3. <<e, n + 1>> \notin Messages(kind)
      <4>1. n + 1 \notin 1 .. n
        BY <1>0
      <4> QED
        BY <4>1 DEF Messages
    <3> QED
      BY <2>2, <3>2, <3>3, FS_AddElement
  <2>3. CASE ~mine
    <3>1. Messages(kind)' = Messages(kind)
      BY <2>1, <2>3 DEF Messages
    <3> HIDE DEF mine
    <3> QED
      BY <1>1, <2>3, <3>1
  <2> QED
    BY <2>2, <2>3
<1>3. ASSUME n > 0, queue' = [queue EXCEPT ![e] = @ - 1]
      PROVE  /\ IsFiniteSet(Messages(kind)')
             /\ Cardinality(Messages(kind)') = Cardinality(Messages(kind)) - (IF mine THEN 1 ELSE 0)
  <2>1. \A f \in {kind} \X Stores : queue'[f] = IF f = e THEN n - 1 ELSE queue[f]
    BY <1>0, <1>3
  <2>2. CASE mine
    <3>1. 1 .. (n - 1) = (1 .. n) \ {n} /\ n \in 1 .. n
      BY <1>0, <1>3
    <3>2. Messages(kind)' = Messages(kind) \ {<<e, n>>}
      BY <2>1, <2>2, <3>1 DEF Messages
    <3>3. <<e, n>> \in Messages(kind)
      BY <2>2, <3>1 DEF Messages
    <3> QED
      BY <2>2, <3>2, <3>3, FS_RemoveElement
  <2>3. CASE ~mine
    <3>1. Messages(kind)' = Messages(kind)
      BY <2>1, <2>3 DEF Messages
    <3> HIDE DEF mine
    <3> QED
      BY <1>1, <2>3, <3>1
  <2> QED
    BY <2>2, <2>3
<1> QED
  BY <1>1, <1>2, <1>3

\* The beat sends a message of a kind when the queue holds none.
LEMMA IsDueQueued ==
    ASSUME Typed, QueueInv, IsDue
    PROVE  QueueInv'
<1> SUFFICES ASSUME NEW kind \in Kinds
             PROVE  IsFiniteSet(Messages(kind)') /\ Sent(kind)' <= 1 + (MaxFaults - faults')
  BY DEF QueueInv, QueuedOnce
<1>1. /\ Messages(kind)' = Messages(kind) /\ faults' = faults /\ beat = None
      /\ IsFiniteSet(Messages(kind)) /\ Sent(kind) <= 1 + (MaxFaults - faults)
  BY DEF IsDue, Messages, QueueInv, QueuedOnce
<1>2. faults \in 0 .. MaxFaults /\ MaxFaults \in Nat
  BY MetricsAssumption DEF Typed, QueueTyped
<1>3. CASE beat' = beat
  BY <1>1, <1>3 DEF Sent
<1>4. CASE \E e \in due : beat' = e /\ ~IsTaskInQueue(e[1])
  <2>1. PICK e \in due : beat' = e /\ ~IsTaskInQueue(e[1])
    BY <1>4
  <2>2. CASE beat' \in {kind} \X Stores
    <3>1. \A f \in {kind} \X Stores : queue[f] = 0
      <4> SUFFICES ASSUME NEW s \in Stores PROVE queue[<<kind, s>>] = 0
        OBVIOUS
      <4>1. ~(queue[<<kind, s>>] > 0)
        BY <2>1, <2>2 DEF IsTaskInQueue
      <4>2. queue[<<kind, s>>] \in Nat
        BY DEF Typed, QueueTyped, Entries
      <4> QED
        BY <4>1, <4>2
    <3>2. Messages(kind) = {}
      BY <3>1 DEF Messages
    <3>3. Sent(kind)' = 1
      BY <1>1, <2>2, <3>2, FS_EmptySet DEF Sent
    <3> QED
      BY <1>1, <1>2, <3>3
  <2>3. CASE beat' \notin {kind} \X Stores
    <3>1. beat \notin {kind} \X Stores
      BY <1>1, MetricsAssumption
    <3>2. Sent(kind)' = Sent(kind)
      BY <1>1, <2>3, <3>1 DEF Sent
    <3> QED
      BY <1>1, <3>2
  <2> QED
    BY <2>2, <2>3
<1> QED
  BY <1>3, <1>4 DEF IsDue

\* Every step keeps the bound on the queue.
LEMMA QueueStep ==
    ASSUME Typed, QueueInv, [Next]_vars
    PROVE  QueueInv'
<1>1. ASSUME UNCHANGED <<queue, beat, faults>> PROVE QueueInv'
  BY <1>1 DEF QueueInv, QueuedOnce, Sent, Messages
<1>2. CASE ApplyEntry
  <2> SUFFICES ASSUME NEW kind \in Kinds
               PROVE  IsFiniteSet(Messages(kind)') /\ Sent(kind)' <= 1 + (MaxFaults - faults')
    BY DEF QueueInv, QueuedOnce
  <2>1. /\ beat \in Entries /\ beat' \notin {kind} \X Stores /\ faults' = faults
        /\ queue' = [queue EXCEPT ![beat] = @ + 1]
    BY <1>2, MetricsAssumption DEF ApplyEntry, Typed, QueueTyped
  <2>2. IsFiniteSet(Messages(kind)) /\ Sent(kind) <= 1 + (MaxFaults - faults)
    BY DEF QueueInv, QueuedOnce
  <2>3. /\ IsFiniteSet(Messages(kind)') /\ Cardinality(Messages(kind)) \in Nat
        /\ Cardinality(Messages(kind)') = Cardinality(Messages(kind))
              + (IF beat \in {kind} \X Stores THEN 1 ELSE 0)
    BY <2>1, <2>2, MessagesStep
  <2>4. Sent(kind)' = Sent(kind)
    BY <2>1, <2>3 DEF Sent
  <2> QED
    BY <2>1, <2>2, <2>3, <2>4
<1>3. ASSUME NEW w \in Workers, Reserve(w) PROVE QueueInv'
  <2> SUFFICES ASSUME NEW kind \in Kinds
               PROVE  IsFiniteSet(Messages(kind)') /\ Sent(kind)' <= 1 + (MaxFaults - faults')
    BY DEF QueueInv, QueuedOnce
  <2>1. PICK e \in Entries :
           queue[e] > 0 /\ queue' = [queue EXCEPT ![e] = @ - 1] /\ UNCHANGED <<beat, faults>>
    BY <1>3 DEF Reserve, Run
  <2>2. IsFiniteSet(Messages(kind)) /\ Sent(kind) <= 1 + (MaxFaults - faults)
    BY DEF QueueInv, QueuedOnce
  <2>3. /\ IsFiniteSet(Messages(kind)') /\ Cardinality(Messages(kind)) \in Nat
        /\ Cardinality(Messages(kind)') = Cardinality(Messages(kind))
              - (IF e \in {kind} \X Stores THEN 1 ELSE 0)
    BY <2>1, <2>2, MessagesStep
  <2>4. faults \in Int /\ MaxFaults \in Int
    BY MetricsAssumption DEF Typed, QueueTyped
  <2>5. Sent(kind)' <= Sent(kind) /\ Sent(kind) \in Int /\ Sent(kind)' \in Int
    BY <2>1, <2>3 DEF Sent
  <2> QED
    BY <2>1, <2>2, <2>3, <2>4, <2>5
<1>4. ASSUME NEW w \in Workers, KillWorker(w) \/ HandOutAgain(w) PROVE QueueInv'
  <2> SUFFICES ASSUME NEW kind \in Kinds
               PROVE  IsFiniteSet(Messages(kind)') /\ Sent(kind)' <= 1 + (MaxFaults - faults')
    BY DEF QueueInv, QueuedOnce
  <2> DEFINE e == task[w].entry
  <2>1. /\ e \in Entries /\ beat' = beat /\ faults' = faults - 1
        /\ queue' = queue \/ queue' = [queue EXCEPT ![e] = @ + 1]
    BY <1>4, KillTyped, HandOutTyped DEF KillWorker, HandOutAgain
  <2>2. IsFiniteSet(Messages(kind)) /\ Sent(kind) <= 1 + (MaxFaults - faults)
    BY DEF QueueInv, QueuedOnce
  <2>3. faults \in Int /\ MaxFaults \in Int /\ Cardinality(Messages(kind)) \in Nat
    BY <2>2, MetricsAssumption, FS_CardinalityType DEF Typed, QueueTyped
  <2>4. CASE queue' = queue
    <3>1. Messages(kind)' = Messages(kind)
      BY <2>4 DEF Messages
    <3>2. Sent(kind)' = Sent(kind) /\ Sent(kind) \in Int
      BY <2>1, <2>3, <3>1 DEF Sent
    <3> QED
      BY <2>1, <2>2, <2>3, <3>1, <3>2
  <2>5. CASE queue' = [queue EXCEPT ![e] = @ + 1]
    <3>1. /\ IsFiniteSet(Messages(kind)')
          /\ Cardinality(Messages(kind)') = Cardinality(Messages(kind))
                + (IF e \in {kind} \X Stores THEN 1 ELSE 0)
      BY <2>1, <2>2, <2>5, MessagesStep
    <3>2. Sent(kind)' <= Sent(kind) + 1 /\ Sent(kind) \in Int /\ Sent(kind)' \in Int
      BY <2>1, <2>3, <3>1 DEF Sent
    <3> QED
      BY <2>1, <2>2, <2>3, <3>1, <3>2
  <2> QED
    BY <2>1, <2>4, <2>5
<1>5. ASSUME NEW w \in Workers, Work(w), ~Reserve(w) PROVE QueueInv'
  BY <1>1, <1>5 DEF Work, Take, GetMetric, CreateMetric, CountOrders, SaveMetric, Run
<1>6. CASE Clients
  BY <1>1, <1>6, ClientsChange DEF ChangeOrders
<1>7. CASE Midnight \/ Slot \/ UNCHANGED vars
  BY <1>1, <1>7 DEF Midnight, Slot, vars
<1> QED
  BY <1>2, <1>3, <1>4, <1>5, <1>6, <1>7, IsDueQueued DEF Next, Beat

(* "Smart means that prevents duplicating of tasks in queues": for any      *)
(* number of stores and workers, a task of a name has one message in the    *)
(* queue, for all stores together, and one more for every kill and every    *)
(* message that was overdue.                                                *)
THEOREM NoDuplicatesQueued == Spec => []QueuedOnce
<1>1. Init => QueueInv
  <2> SUFFICES ASSUME Init, NEW kind \in Kinds
               PROVE  IsFiniteSet(Messages(kind)) /\ Sent(kind) <= 1 + (MaxFaults - faults)
    BY DEF QueueInv, QueuedOnce
  <2>1. \A e \in {kind} \X Stores : queue[e] = 0
    BY DEF Init, Entries
  <2>2. Messages(kind) = {}
    BY <2>1 DEF Messages
  <2>3. beat \notin {kind} \X Stores
    BY MetricsAssumption DEF Init
  <2>4. Sent(kind) = 0
    BY <2>2, <2>3, FS_EmptySet DEF Sent
  <2>5. faults = MaxFaults /\ MaxFaults \in Nat
    BY MetricsAssumption DEF Init
  <2> QED
    BY <2>2, <2>4, <2>5, FS_EmptySet
<1>2. Typed /\ QueueInv /\ [Next]_vars => Typed' /\ QueueInv'
  BY TypeStep, QueueStep
<1>3. QueueInv => QueuedOnce
  BY DEF QueueInv
<1> QED
  BY <1>1, <1>2, <1>3, InitTyped, PTL DEF Spec
=============================================================================
