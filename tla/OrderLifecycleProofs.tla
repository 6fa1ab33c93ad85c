------------------------ MODULE OrderLifecycleProofs ------------------------
(***************************************************************************)
(* Theorems about OrderLifecycle, for any sets of workers, orders,         *)
(* payments and codes.                                                     *)
(***************************************************************************)
EXTENDS OrderLifecycle, TLAPS

\* The two halves of the type invariant.
TablesTyped ==
    /\ orders \subseteq OrderIds
    /\ freshOrders \subseteq OrderIds
    /\ row \in [OrderIds -> Rows]
    /\ total \in [OrderIds -> Nat]
    /\ payments \subseteq PaymentIds
    /\ freshPayments \subseteq PaymentIds
    /\ payOf \in [PaymentIds -> OrderIds \cup {None}]
    /\ amount \in [PaymentIds -> Nat]
    /\ codes \subseteq [order : OrderIds, code : Codes]

WellFormed(r) ==
    /\ r \in Requests
    /\ r.pc # "idle" => r.order \in OrderIds
    /\ r.pc \in {"writePayment", "patchPayment"} => r.payment \in PaymentIds

RequestsTyped ==
    req \in [Workers -> Requests] /\ \A w \in Workers : WellFormed(req[w])

\* TypeOK is both halves.
LEMMA TypeOKSplit == TypeOK <=> TablesTyped /\ RequestsTyped
BY DEF TypeOK, TablesTyped, RequestsTyped, WellFormed, Free

\* A worker at rest has a well-formed request.
LEMMA IdleTyped == NoRow \in Rows /\ WellFormed(Idle)
BY DEF NoRow, Rows, Idle, Requests, WellFormed

\* A step that changes one request, to a well-formed one.
LEMMA RequestStep ==
    ASSUME RequestsTyped, NEW w \in Workers, NEW r, WellFormed(r),
           req' = [req EXCEPT ![w] = r]
    PROVE  RequestsTyped'
<1>1. r \in Requests
  BY DEF WellFormed
<1>2. req' \in [Workers -> Requests]
  BY <1>1 DEF RequestsTyped
<1>3. \A v \in Workers : req'[v] = IF v = w THEN r ELSE req[v]
  BY DEF RequestsTyped
<1> QED
  BY <1>2, <1>3 DEF RequestsTyped

\* A response.
LEMMA ReplyStep ==
    ASSUME RequestsTyped, NEW w \in Workers, Reply(w)
    PROVE  RequestsTyped'
BY IdleTyped, RequestStep DEF Reply

\* A step to the next statement of a request.
LEMMA GotoStep ==
    ASSUME RequestsTyped, NEW w \in Workers, ~Free(w),
           NEW pc \in {"total", "dropCode", "saveConfirmed", "fetchOrder"}, Goto(w, pc)
    PROVE  RequestsTyped'
<1> DEFINE r == [req[w] EXCEPT !.pc = pc]
<1>1. req' = [req EXCEPT ![w] = r]
  BY DEF Goto, RequestsTyped
<1>2. req[w] \in Requests /\ req[w].order \in OrderIds
  BY DEF RequestsTyped, WellFormed, Free
<1>3. r \in Requests /\ r.pc = pc /\ r.order \in OrderIds
  BY <1>2 DEF Requests
<1>4. WellFormed(r)
  BY <1>3 DEF WellFormed
<1> QED
  BY <1>1, <1>4, RequestStep

\* Saving a well-formed row.
LEMMA WriteOrderTyped ==
    ASSUME TablesTyped, NEW o \in OrderIds, NEW r \in Rows, WriteOrder(o, r)
    PROVE  orders' \subseteq OrderIds /\ row' \in [OrderIds -> Rows]
BY DEF TablesTyped, WriteOrder
-----------------------------------------------------------------------------
(* The type invariant.                                                     *)

\* Orders keep their types, and so do the requests about them.
LEMMA OrdersTyped ==
    ASSUME TypeOK, NEW w \in Workers,
           CreateOrder(w) \/ PlaceOrder(w) \/ CreateCode(w) \/ LoadOrder(w)
             \/ SaveOrder(w) \/ DeleteOrder(w) \/ ChangeItems(w)
    PROVE  TypeOK'
<1>0. TablesTyped /\ RequestsTyped
  BY TypeOKSplit
<1> SUFFICES TablesTyped' /\ RequestsTyped'
  BY TypeOKSplit DEF TypeOK, TablesTyped, RequestsTyped, WellFormed, Free
<1>1. CASE CreateOrder(w)
  <2>1. PICK o \in freshOrders, c \in {TRUE} \cup PutConfirmed, d \in {None} \cup PutPaidOn :
           InsertOrder(o, c, d)
    BY <1>1 DEF CreateOrder
  <2>2. [status |-> "PENDING", paidOn |-> d, confirmed |-> c] \in Rows
    BY LifecycleAssumption DEF Rows
  <2>3. /\ orders' \subseteq OrderIds /\ row' \in [OrderIds -> Rows]
        /\ freshOrders' \subseteq OrderIds
    BY <1>0, <2>1, <2>2, WriteOrderTyped DEF InsertOrder, TablesTyped
  <2>4. TablesTyped'
    BY <1>0, <1>1, <2>3 DEF CreateOrder, TablesTyped, paymentVars
  <2>5. RequestsTyped'
    BY <1>0, <1>1, IdleTyped, RequestStep DEF CreateOrder, Begin
  <2> QED
    BY <2>4, <2>5
<1>2. CASE PlaceOrder(w)
  <2> DEFINE waits(o) == [Idle EXCEPT !.pc = "createCode", !.order = o]
  <2>1. PICK o \in freshOrders, known \in BOOLEAN, d \in {None} \cup PutPaidOn :
           /\ InsertOrder(o, known, d)
           /\ Begin(w, "place", IF known THEN Idle ELSE waits(o))
    BY <1>2 DEF PlaceOrder
  <2>2. [status |-> "PENDING", paidOn |-> d, confirmed |-> known] \in Rows
    BY LifecycleAssumption DEF Rows
  <2>3. o \in OrderIds
    BY <1>0 DEF TablesTyped
  <2>4. WellFormed(waits(o))
    BY <2>3, IdleTyped DEF Idle, Requests, WellFormed
  <2>5. WellFormed(IF known THEN Idle ELSE waits(o))
    BY <2>4, IdleTyped
  <2>6. RequestsTyped'
    BY <1>0, <2>1, <2>5, RequestStep DEF Begin
  <2>7. /\ orders' \subseteq OrderIds /\ row' \in [OrderIds -> Rows]
        /\ freshOrders' \subseteq OrderIds
    BY <1>0, <2>1, <2>2, <2>3, WriteOrderTyped DEF InsertOrder, TablesTyped
  <2>8. TablesTyped'
    BY <1>0, <1>2, <2>7 DEF PlaceOrder, TablesTyped, paymentVars
  <2> QED
    BY <2>6, <2>8
<1>3. CASE CreateCode(w)
  <2>1. req[w].order \in OrderIds
    BY <1>0, <1>3 DEF CreateCode, RequestsTyped, WellFormed
  <2>2. codes' \subseteq [order : OrderIds, code : Codes]
    BY <1>0, <1>3, <2>1 DEF CreateCode, TablesTyped
  <2>3. TablesTyped'
    BY <1>0, <1>3, <2>2 DEF CreateCode, TablesTyped, orderVars, paymentVars
  <2> QED
    BY <1>0, <1>3, <2>3, ReplyStep DEF CreateCode
<1>4. CASE LoadOrder(w)
  <2> DEFINE patched(o, c, d) == [row[o] EXCEPT !.confirmed = c, !.paidOn = d]
             r(o, c, d) == [Idle EXCEPT !.pc = "saveOrder", !.order = o,
                                        !.row = patched(o, c, d)]
  <2>1. PICK o \in orders :
           \E c \in {row[o].confirmed} \cup PutConfirmed, d \in {row[o].paidOn} \cup PutPaidOn :
              Begin(w, "edit", r(o, c, d))
    BY <1>4 DEF LoadOrder
  <2>2. PICK c \in {row[o].confirmed} \cup PutConfirmed, d \in {row[o].paidOn} \cup PutPaidOn :
           Begin(w, "edit", r(o, c, d))
    BY <2>1
  <2>3. o \in OrderIds /\ row[o] \in Rows
    BY <1>0 DEF TablesTyped
  <2>4. patched(o, c, d) \in Rows
    BY <2>3, LifecycleAssumption DEF Rows
  <2>5. WellFormed(r(o, c, d))
    BY <2>3, <2>4, IdleTyped DEF Idle, Requests, WellFormed
  <2>6. RequestsTyped'
    BY <1>0, <2>2, <2>5, RequestStep DEF Begin
  <2> QED
    BY <1>0, <1>4, <2>6 DEF LoadOrder, TablesTyped, orderVars, paymentVars
<1>5. CASE SaveOrder(w)
  <2>1. req[w].order \in OrderIds /\ req[w].row \in Rows
    BY <1>0, <1>5 DEF SaveOrder, RequestsTyped, WellFormed, Requests
  <2>2. orders' \subseteq OrderIds /\ row' \in [OrderIds -> Rows]
    BY <1>0, <1>5, <2>1, WriteOrderTyped DEF SaveOrder
  <2>3. TablesTyped'
    BY <1>0, <1>5, <2>2 DEF SaveOrder, TablesTyped, paymentVars
  <2> QED
    BY <1>0, <1>5, <2>3, ReplyStep DEF SaveOrder
<1>6. CASE DeleteOrder(w)
  <2>1. TablesTyped'
    BY <1>0, <1>6 DEF DeleteOrder, TablesTyped
  <2> QED
    BY <1>0, <1>6, <2>1, IdleTyped, RequestStep DEF DeleteOrder, Begin
<1>7. CASE ChangeItems(w)
  <2>1. TablesTyped'
    BY <1>0, <1>7, LifecycleAssumption DEF ChangeItems, TablesTyped, paymentVars
  <2> QED
    BY <1>0, <1>7, <2>1, IdleTyped, RequestStep DEF ChangeItems, Begin
<1> QED
  BY <1>1, <1>2, <1>3, <1>4, <1>5, <1>6, <1>7

\* Payments keep their types, and so do the requests that make them.
LEMMA PaymentsTyped ==
    ASSUME TypeOK, NEW w \in Workers,
           ValidatePayment(w) \/ LoadPayment(w) \/ SavePayment(w) \/ FetchOrder(w)
             \/ ReadTotal(w) \/ ReadPaid(w) \/ SaveStatus(w)
    PROVE  TypeOK'
<1>0. TablesTyped /\ RequestsTyped
  BY TypeOKSplit
<1> SUFFICES TablesTyped' /\ RequestsTyped'
  BY TypeOKSplit DEF TypeOK, TablesTyped, RequestsTyped, WellFormed, Free
<1>1. CASE ValidatePayment(w)
  <2> DEFINE r(o, n, p) == [Idle EXCEPT !.pc = "writePayment", !.order = o,
                                        !.payment = p, !.amount = n, !.row = row[o]]
  <2>1. PICK o \in orders, n \in Amounts, p \in freshPayments :
           /\ Begin(w, "pay", r(o, n, p))
           /\ freshPayments' = freshPayments \ {p}
    BY <1>1 DEF ValidatePayment
  <2>2. o \in OrderIds /\ row[o] \in Rows /\ n \in Nat /\ p \in PaymentIds
    BY <1>0, LifecycleAssumption DEF TablesTyped
  <2>3. WellFormed(r(o, n, p))
    BY <2>2, IdleTyped DEF Idle, Requests, WellFormed
  <2>4. RequestsTyped'
    BY <1>0, <2>1, <2>3, RequestStep DEF Begin
  <2> QED
    BY <1>0, <1>1, <2>1, <2>4 DEF ValidatePayment, TablesTyped, orderVars
<1>2. CASE LoadPayment(w)
  <2> DEFINE edit(o, p, n) == [Idle EXCEPT !.pc = "patchPayment", !.order = o,
                                           !.payment = p, !.amount = n]
             move(o, p, n) == [Idle EXCEPT !.pc = "writePayment", !.order = o,
                                           !.payment = p, !.amount = n, !.row = row[o]]
  <2>1. PICK p \in payments, o \in orders : \E n \in {amount[p]} \cup Amounts :
           Begin(w, "editPayment", edit(o, p, n)) \/ Begin(w, "movePayment", move(o, p, n))
    BY <1>2 DEF LoadPayment
  <2>2. PICK n \in {amount[p]} \cup Amounts :
           Begin(w, "editPayment", edit(o, p, n)) \/ Begin(w, "movePayment", move(o, p, n))
    BY <2>1
  <2>3. o \in OrderIds /\ row[o] \in Rows /\ n \in Nat /\ p \in PaymentIds
    BY <1>0, LifecycleAssumption DEF TablesTyped
  <2>4. WellFormed(edit(o, p, n))
    BY <2>3, IdleTyped DEF Idle, Requests, WellFormed
  <2>5. WellFormed(move(o, p, n))
    BY <2>3, IdleTyped DEF Idle, Requests, WellFormed
  <2>6. RequestsTyped'
    BY <1>0, <2>2, <2>4, <2>5, RequestStep DEF Begin
  <2> QED
    BY <1>0, <1>2, <2>6 DEF LoadPayment, TablesTyped, orderVars, paymentVars
<1>3. CASE SavePayment(w)
  <2>1. ~Free(w) /\ req[w].order \in OrderIds /\ req[w].payment \in PaymentIds
        /\ req[w].amount \in Nat
    BY <1>0, <1>3 DEF SavePayment, RequestsTyped, WellFormed, Requests, Free
  <2>2. /\ payments' \subseteq PaymentIds
        /\ payOf' \in [PaymentIds -> OrderIds \cup {None}]
        /\ amount' \in [PaymentIds -> Nat]
    BY <1>0, <1>3, <2>1 DEF SavePayment, WritePayment, TablesTyped
  <2>3. TablesTyped'
    BY <1>0, <1>3, <2>2 DEF SavePayment, TablesTyped, orderVars
  <2>4. Reply(w) \/ Goto(w, "fetchOrder") \/ Goto(w, "total")
    BY <1>3 DEF SavePayment
  <2>5. RequestsTyped'
    BY <1>0, <2>1, <2>4, ReplyStep, GotoStep
  <2> QED
    BY <2>3, <2>5
<1>4. CASE FetchOrder(w)
  <2> DEFINE r == [req[w] EXCEPT !.pc = "total", !.row = row[req[w].order]]
  <2>1. req[w] \in Requests /\ req[w].order \in OrderIds
    BY <1>0, <1>4 DEF FetchOrder, RequestsTyped, WellFormed
  <2>2. row[req[w].order] \in Rows
    BY <1>0, <2>1 DEF TablesTyped
  <2>3. WellFormed(r)
    BY <2>1, <2>2 DEF Requests, WellFormed
  <2>4. Reply(w) \/ req' = [req EXCEPT ![w] = r]
    BY <1>0, <1>4 DEF FetchOrder, RequestsTyped
  <2>5. RequestsTyped'
    BY <1>0, <2>3, <2>4, ReplyStep, RequestStep
  <2> QED
    BY <1>0, <1>4, <2>5 DEF FetchOrder, TablesTyped, orderVars, paymentVars
<1>5. CASE ReadTotal(w)
  <2> DEFINE r == [req[w] EXCEPT !.pc = "paid", !.sum = total[req[w].order]]
  <2>1. req[w] \in Requests /\ req[w].order \in OrderIds
    BY <1>0, <1>5 DEF ReadTotal, RequestsTyped, WellFormed
  <2>2. total[req[w].order] \in Nat
    BY <1>0, <2>1 DEF TablesTyped
  <2>3. WellFormed(r)
    BY <2>1, <2>2 DEF Requests, WellFormed
  <2>4. req' = [req EXCEPT ![w] = r]
    BY <1>0, <1>5 DEF ReadTotal, RequestsTyped
  <2>5. RequestsTyped'
    BY <1>0, <2>3, <2>4, RequestStep
  <2> QED
    BY <1>0, <1>5, <2>5 DEF ReadTotal, TablesTyped, orderVars, paymentVars
<1>6. CASE ReadPaid(w)
  <2> DEFINE paid(d) == [req[w] EXCEPT !.pc = "saveStatus", !.row = Paid(@, d)]
             again == [req[w] EXCEPT !.pc = "total", !.round = 2]
             partly == [req[w] EXCEPT !.pc = "saveStatus", !.row = PartlyPaid(@)]
  <2>1. req[w] \in Requests /\ req[w].order \in OrderIds /\ req[w].row \in Rows
    BY <1>0, <1>6 DEF ReadPaid, RequestsTyped, WellFormed, Requests
  <2>2. /\ \A d \in Days : Paid(req[w].row, d) \in Rows
        /\ PartlyPaid(req[w].row) \in Rows
    BY <2>1 DEF Rows, Paid, PartlyPaid
  <2>3. \A d \in Days : WellFormed(paid(d))
    BY <2>1, <2>2 DEF Requests, WellFormed
  <2>4. WellFormed(again)
    BY <2>1 DEF Requests, WellFormed
  <2>5. WellFormed(partly)
    BY <2>1, <2>2 DEF Requests, WellFormed
  <2>6. \/ \E d \in Days : req' = [req EXCEPT ![w] = paid(d)]
        \/ req' = [req EXCEPT ![w] = again]
        \/ req' = [req EXCEPT ![w] = partly]
        \/ Reply(w)
    BY <1>0, <1>6 DEF ReadPaid, RequestsTyped
  <2>7. RequestsTyped'
    <3>1. CASE \E d \in Days : req' = [req EXCEPT ![w] = paid(d)]
      BY <1>0, <2>3, <3>1, RequestStep
    <3>2. CASE req' = [req EXCEPT ![w] = again]
      BY <1>0, <2>4, <3>2, RequestStep
    <3>3. CASE req' = [req EXCEPT ![w] = partly]
      BY <1>0, <2>5, <3>3, RequestStep
    <3> QED
      BY <1>0, <2>6, <3>1, <3>2, <3>3, ReplyStep
  <2> QED
    BY <1>0, <1>6, <2>7 DEF ReadPaid, TablesTyped, orderVars, paymentVars
<1>7. CASE SaveStatus(w)
  <2> DEFINE r == [req[w] EXCEPT !.pc = "total", !.round = 2]
  <2>1. req[w] \in Requests /\ req[w].order \in OrderIds /\ req[w].row \in Rows
    BY <1>0, <1>7 DEF SaveStatus, RequestsTyped, WellFormed, Requests
  <2>2. orders' \subseteq OrderIds /\ row' \in [OrderIds -> Rows]
    BY <1>0, <1>7, <2>1, WriteOrderTyped DEF SaveStatus
  <2>3. TablesTyped'
    BY <1>0, <1>7, <2>2 DEF SaveStatus, TablesTyped, paymentVars
  <2>4. WellFormed(r)
    BY <2>1 DEF Requests, WellFormed
  <2>5. Reply(w) \/ req' = [req EXCEPT ![w] = r]
    BY <1>0, <1>7 DEF SaveStatus, RequestsTyped
  <2>6. RequestsTyped'
    BY <1>0, <2>4, <2>5, ReplyStep, RequestStep
  <2> QED
    BY <2>3, <2>6
<1> QED
  BY <1>1, <1>2, <1>3, <1>4, <1>5, <1>6, <1>7

\* Confirmation requests keep the types; a killed worker leaves only its request.
LEMMA ConfirmationTyped ==
    ASSUME TypeOK, NEW w \in Workers,
           FindCode(w) \/ GetOrder(w) \/ SaveConfirmed(w) \/ DropCode(w) \/ Kill(w)
    PROVE  TypeOK'
<1>0. TablesTyped /\ RequestsTyped
  BY TypeOKSplit
<1> SUFFICES TablesTyped' /\ RequestsTyped'
  BY TypeOKSplit DEF TypeOK, TablesTyped, RequestsTyped, WellFormed, Free
<1>1. CASE FindCode(w)
  <2> DEFINE r(k) == [Idle EXCEPT !.pc = "getOrder", !.order = k.order, !.code = k.code]
  <2>1. PICK k \in codes : Begin(w, "confirm", r(k))
    BY <1>1 DEF FindCode
  <2>2. k.order \in OrderIds /\ k.code \in Codes
    BY <1>0 DEF TablesTyped
  <2>3. WellFormed(r(k))
    BY <2>2, IdleTyped DEF Idle, Requests, WellFormed
  <2>4. RequestsTyped'
    BY <1>0, <2>1, <2>3, RequestStep DEF Begin
  <2> QED
    BY <1>0, <1>1, <2>4 DEF FindCode, TablesTyped, orderVars, paymentVars
<1>2. CASE GetOrder(w)
  <2>1. ~Free(w) /\ (Reply(w) \/ Goto(w, "dropCode") \/ Goto(w, "saveConfirmed"))
    BY <1>2 DEF GetOrder, Free
  <2>2. RequestsTyped'
    BY <1>0, <2>1, ReplyStep, GotoStep
  <2> QED
    BY <1>0, <1>2, <2>2 DEF GetOrder, TablesTyped, orderVars, paymentVars
<1>3. CASE SaveConfirmed(w)
  <2>1. ~Free(w) /\ (Reply(w) \/ Goto(w, "dropCode"))
    BY <1>3 DEF SaveConfirmed, Free
  <2>2. RequestsTyped'
    BY <1>0, <2>1, ReplyStep, GotoStep
  <2>3. req[w].order \in OrderIds
    BY <1>0, <2>1 DEF RequestsTyped, WellFormed, Free
  <2>4. [row[req[w].order] EXCEPT !.confirmed = TRUE] \in Rows
    <3>1. row[req[w].order] \in Rows
      BY <1>0, <2>3 DEF TablesTyped
    <3> QED
      BY <3>1 DEF Rows
  <2>5. row' \in [OrderIds -> Rows]
    BY <1>0, <1>3, <2>3, <2>4 DEF SaveConfirmed, TablesTyped
  <2> QED
    BY <1>0, <1>3, <2>2, <2>5 DEF SaveConfirmed, TablesTyped, paymentVars
<1>4. CASE DropCode(w)
  <2>1. TablesTyped'
    BY <1>0, <1>4 DEF DropCode, TablesTyped, orderVars, paymentVars
  <2> QED
    BY <1>0, <1>4, <2>1, ReplyStep DEF DropCode
<1>5. CASE Kill(w)
  <2>1. TablesTyped'
    BY <1>0, <1>5 DEF Kill, TablesTyped, orderVars, paymentVars
  <2> QED
    BY <1>0, <1>5, <2>1, ReplyStep DEF Kill
<1> QED
  BY <1>1, <1>2, <1>3, <1>4, <1>5

\* The tables and requests are well formed at the start.
LEMMA InitTyped == Init => TypeOK
<1> SUFFICES ASSUME Init PROVE TablesTyped /\ RequestsTyped
  BY TypeOKSplit
<1>1. RequestsTyped
  BY IdleTyped DEF Init, RequestsTyped, WellFormed
<1> QED
  BY <1>1, IdleTyped DEF Init, TablesTyped

(* The tables and the requests keep their types, whatever the values of    *)
(* the constants.                                                          *)
THEOREM TypeCorrect == Spec => []TypeOK
<1>1. TypeOK /\ [Next]_vars => TypeOK'
  <2> SUFFICES ASSUME TypeOK, [Next]_vars PROVE TypeOK'
    OBVIOUS
  <2>1. CASE UNCHANGED vars
    BY <2>1 DEF TypeOK, Free, vars, orderVars, paymentVars
  <2>2. CASE Next
    BY <2>2, OrdersTyped, PaymentsTyped, ConfirmationTyped DEF Next, Continue, Accept
  <2> QED
    BY <2>1, <2>2
<1> QED
  BY <1>1, InitTyped, PTL DEF Spec
-----------------------------------------------------------------------------
(* Dates of payment.  PaidHasDate is not inductive: a request may save an  *)
(* old copy of a row, and a save may bring back the row of a deleted       *)
(* order.  The invariant is about all copies.                              *)

DatesKept ==
    /\ \A o \in OrderIds : Dated(row[o])
    /\ \A w \in Workers : Dated(req[w].row)

\* A step that changes one request, to one with a dated copy.
LEMMA DatedRequest ==
    ASSUME TypeOK, DatesKept, NEW w \in Workers, NEW r, Dated(r.row),
           req' = [req EXCEPT ![w] = r]
    PROVE  \A v \in Workers : Dated(req'[v].row)
<1>1. \A v \in Workers : req'[v] = IF v = w THEN r ELSE req[v]
  BY DEF TypeOK
<1> QED
  BY <1>1 DEF DatesKept

\* A response.
LEMMA DatedReply ==
    ASSUME TypeOK, DatesKept, NEW w \in Workers, Reply(w)
    PROVE  \A v \in Workers : Dated(req'[v].row)
<1>1. Dated(Idle.row)
  BY DEF Dated, Idle, NoRow
<1> QED
  BY <1>1, DatedRequest DEF Reply

\* A step to the next statement of a request.
LEMMA DatedGoto ==
    ASSUME TypeOK, DatesKept, NEW w \in Workers, NEW pc, Goto(w, pc)
    PROVE  \A v \in Workers : Dated(req'[v].row)
<1> DEFINE r == [req[w] EXCEPT !.pc = pc]
<1>1. req[w] \in Requests
  BY DEF TypeOK
<1>2. r.row = req[w].row
  BY <1>1 DEF Requests
<1>3. req' = [req EXCEPT ![w] = r]
  BY DEF Goto, TypeOK
<1> QED
  BY <1>2, <1>3, DatedRequest DEF DatesKept

\* Saving a dated row.
LEMMA DatedWrite ==
    ASSUME TypeOK, DatesKept, NEW o \in OrderIds, NEW r, Dated(r), WriteOrder(o, r)
    PROVE  \A q \in OrderIds : Dated(row'[q])
BY DEF TypeOK, DatesKept, WriteOrder

\* An inserted order is not paid.
LEMMA DatedInsert ==
    ASSUME TypeOK, DatesKept, NEW o, NEW c, NEW d, InsertOrder(o, c, d)
    PROVE  \A q \in OrderIds : Dated(row'[q])
<1>1. Dated([status |-> "PENDING", paidOn |-> d, confirmed |-> c])
  BY DEF Dated
<1> QED
  BY <1>1, DatedWrite DEF InsertOrder, TypeOK

\* Steps about orders.
LEMMA OrdersDated ==
    ASSUME TypeOK, DatesKept, None \notin PutPaidOn, NEW w \in Workers,
           CreateOrder(w) \/ PlaceOrder(w) \/ CreateCode(w) \/ LoadOrder(w)
             \/ SaveOrder(w) \/ DeleteOrder(w) \/ ChangeItems(w)
    PROVE  DatesKept'
<1> SUFFICES /\ \A o \in OrderIds : Dated(row'[o])
             /\ \A v \in Workers : Dated(req'[v].row)
  BY DEF DatesKept, Dated
<1>0. Dated(Idle.row)
  BY DEF Dated, Idle, NoRow
<1>1. CASE CreateOrder(w)
  <2>1. \E o, c, d : InsertOrder(o, c, d)
    BY <1>1 DEF CreateOrder
  <2> QED
    BY <1>0, <1>1, <2>1, DatedInsert, DatedRequest DEF CreateOrder, Begin
<1>2. CASE PlaceOrder(w)
  <2> DEFINE waits(o) == [Idle EXCEPT !.pc = "createCode", !.order = o]
  <2>1. PICK o \in freshOrders, known \in BOOLEAN, d \in {None} \cup PutPaidOn :
           /\ InsertOrder(o, known, d)
           /\ Begin(w, "place", IF known THEN Idle ELSE waits(o))
    BY <1>2 DEF PlaceOrder
  <2>2. Dated(waits(o).row)
    BY DEF Dated, Idle, NoRow
  <2>3. Dated((IF known THEN Idle ELSE waits(o)).row)
    BY <1>0, <2>2
  <2> QED
    BY <2>1, <2>3, DatedInsert, DatedRequest DEF Begin
<1>3. CASE CreateCode(w)
  BY <1>3, DatedReply DEF CreateCode, orderVars, DatesKept
<1>4. CASE LoadOrder(w)
  <2> DEFINE patched(o, c, d) == [row[o] EXCEPT !.confirmed = c, !.paidOn = d]
             r(o, c, d) == [Idle EXCEPT !.pc = "saveOrder", !.order = o,
                                        !.row = patched(o, c, d)]
  <2>1. PICK o \in orders :
           \E c \in {row[o].confirmed} \cup PutConfirmed, d \in {row[o].paidOn} \cup PutPaidOn :
              Begin(w, "edit", r(o, c, d))
    BY <1>4 DEF LoadOrder
  <2>2. PICK c \in {row[o].confirmed} \cup PutConfirmed, d \in {row[o].paidOn} \cup PutPaidOn :
           Begin(w, "edit", r(o, c, d))
    BY <2>1
  <2>3. o \in OrderIds /\ row[o] \in Rows
    BY DEF TypeOK
  <2>4. patched(o, c, d).status = row[o].status /\ patched(o, c, d).paidOn = d
    BY <2>3 DEF Rows
  <2>5. Dated(patched(o, c, d))
    BY <2>3, <2>4 DEF Dated, DatesKept
  <2>6. r(o, c, d).row = patched(o, c, d)
    BY DEF Idle
  <2>7. \A v \in Workers : Dated(req'[v].row)
    <3>1. Dated(r(o, c, d).row) /\ req' = [req EXCEPT ![w] = r(o, c, d)]
      BY <2>2, <2>5, <2>6 DEF Begin
    <3> HIDE DEF r
    <3> QED
      BY <3>1, DatedRequest
  <2> QED
    BY <1>4, <2>7 DEF LoadOrder, orderVars, DatesKept
<1>5. CASE SaveOrder(w)
  <2>1. req[w].order \in OrderIds
    BY <1>5 DEF SaveOrder, TypeOK, Free
  <2> QED
    BY <1>5, <2>1, DatedWrite, DatedReply DEF SaveOrder, DatesKept
<1>6. CASE DeleteOrder(w)
  BY <1>0, <1>6, DatedRequest DEF DeleteOrder, Begin, DatesKept
<1>7. CASE ChangeItems(w)
  BY <1>0, <1>7, DatedRequest DEF ChangeItems, Begin, DatesKept
<1> QED
  BY <1>1, <1>2, <1>3, <1>4, <1>5, <1>6, <1>7

\* Steps about payments.
LEMMA PaymentsDated ==
    ASSUME TypeOK, DatesKept, NEW w \in Workers,
           ValidatePayment(w) \/ LoadPayment(w) \/ SavePayment(w) \/ FetchOrder(w)
             \/ ReadTotal(w) \/ ReadPaid(w) \/ SaveStatus(w)
    PROVE  DatesKept'
<1> SUFFICES /\ \A o \in OrderIds : Dated(row'[o])
             /\ \A v \in Workers : Dated(req'[v].row)
  BY DEF DatesKept, Dated
<1>0. /\ req[w] \in Requests /\ Dated(req[w].row)
      /\ \A o \in orders : Dated(row[o])
  BY DEF TypeOK, DatesKept
<1>1. CASE ValidatePayment(w)
  <2> DEFINE r(o, n, p) == [Idle EXCEPT !.pc = "writePayment", !.order = o,
                                        !.payment = p, !.amount = n, !.row = row[o]]
  <2>1. PICK o \in orders, n \in Amounts, p \in freshPayments : Begin(w, "pay", r(o, n, p))
    BY <1>1 DEF ValidatePayment
  <2>2. r(o, n, p).row = row[o]
    BY DEF Idle
  <2> QED
    BY <1>0, <1>1, <2>1, <2>2, DatedRequest DEF ValidatePayment, Begin, orderVars, DatesKept
<1>2. CASE LoadPayment(w)
  <2> DEFINE edit(o, p, n) == [Idle EXCEPT !.pc = "patchPayment", !.order = o,
                                           !.payment = p, !.amount = n]
             move(o, p, n) == [Idle EXCEPT !.pc = "writePayment", !.order = o,
                                           !.payment = p, !.amount = n, !.row = row[o]]
  <2>1. PICK o \in orders : \E p, n :
           Begin(w, "editPayment", edit(o, p, n)) \/ Begin(w, "movePayment", move(o, p, n))
    BY <1>2 DEF LoadPayment
  <2>2. PICK p, n :
           Begin(w, "editPayment", edit(o, p, n)) \/ Begin(w, "movePayment", move(o, p, n))
    BY <2>1
  <2>3. Dated(edit(o, p, n).row) /\ Dated(move(o, p, n).row)
    BY <1>0 DEF Dated, Idle, NoRow
  <2> QED
    BY <1>2, <2>2, <2>3, DatedRequest DEF LoadPayment, Begin, orderVars, DatesKept
<1>3. CASE SavePayment(w)
  <2>1. Reply(w) \/ \E pc : Goto(w, pc)
    BY <1>3 DEF SavePayment
  <2> QED
    BY <1>3, <2>1, DatedReply, DatedGoto DEF SavePayment, orderVars, DatesKept
<1>4. CASE FetchOrder(w)
  <2> DEFINE r == [req[w] EXCEPT !.pc = "total", !.row = row[req[w].order]]
  <2>1. Reply(w) \/ (req[w].order \in orders /\ req' = [req EXCEPT ![w] = r])
    BY <1>4 DEF FetchOrder, TypeOK
  <2>2. r.row = row[req[w].order]
    BY <1>0 DEF Requests
  <2> QED
    BY <1>0, <1>4, <2>1, <2>2, DatedReply, DatedRequest DEF FetchOrder, orderVars, DatesKept
<1>5. CASE ReadTotal(w)
  <2> DEFINE r == [req[w] EXCEPT !.pc = "paid", !.sum = total[req[w].order]]
  <2>1. req' = [req EXCEPT ![w] = r]
    BY <1>5 DEF ReadTotal, TypeOK
  <2>2. r.row = req[w].row
    BY <1>0 DEF Requests
  <2> QED
    BY <1>0, <1>5, <2>1, <2>2, DatedRequest DEF ReadTotal, orderVars, DatesKept
<1>6. CASE ReadPaid(w)
  <2> DEFINE paid(d) == [req[w] EXCEPT !.pc = "saveStatus", !.row = Paid(@, d)]
             again == [req[w] EXCEPT !.pc = "total", !.round = 2]
             partly == [req[w] EXCEPT !.pc = "saveStatus", !.row = PartlyPaid(@)]
  <2>1. req[w].row \in Rows
    BY <1>0 DEF Requests
  <2>2. /\ \A d \in Days : Dated(Paid(req[w].row, d))
        /\ Dated(PartlyPaid(req[w].row))
    BY <2>1, LifecycleAssumption DEF Rows, Dated, Paid, PartlyPaid
  <2>3. /\ \A d \in Days : Dated(paid(d).row)
        /\ Dated(again.row) /\ Dated(partly.row)
    BY <1>0, <2>2 DEF Requests
  <2>4. \/ \E d \in Days : req' = [req EXCEPT ![w] = paid(d)]
        \/ req' = [req EXCEPT ![w] = again]
        \/ req' = [req EXCEPT ![w] = partly]
        \/ Reply(w)
    BY <1>6 DEF ReadPaid, TypeOK
  <2>5. \A v \in Workers : Dated(req'[v].row)
    <3> HIDE DEF paid, again, partly
    <3> QED
      BY <2>3, <2>4, DatedRequest, DatedReply
  <2> QED
    BY <1>6, <2>5 DEF ReadPaid, orderVars, DatesKept
<1>7. CASE SaveStatus(w)
  <2> DEFINE r == [req[w] EXCEPT !.pc = "total", !.round = 2]
  <2>1. req[w].order \in OrderIds
    BY <1>7 DEF SaveStatus, TypeOK, Free
  <2>2. Reply(w) \/ req' = [req EXCEPT ![w] = r]
    BY <1>7 DEF SaveStatus, TypeOK
  <2>3. r.row = req[w].row
    BY <1>0 DEF Requests
  <2>4. \A v \in Workers : Dated(req'[v].row)
    BY <1>0, <2>2, <2>3, DatedReply, DatedRequest
  <2> QED
    BY <1>0, <1>7, <2>1, <2>4, DatedWrite DEF SaveStatus
<1> QED
  BY <1>1, <1>2, <1>3, <1>4, <1>5, <1>6, <1>7

\* Steps about confirmations, and kills.
LEMMA ConfirmationDated ==
    ASSUME TypeOK, DatesKept, NEW w \in Workers,
           FindCode(w) \/ GetOrder(w) \/ SaveConfirmed(w) \/ DropCode(w) \/ Kill(w)
    PROVE  DatesKept'
<1> SUFFICES /\ \A o \in OrderIds : Dated(row'[o])
             /\ \A v \in Workers : Dated(req'[v].row)
  BY DEF DatesKept, Dated
<1>1. CASE FindCode(w)
  <2> DEFINE r(k) == [Idle EXCEPT !.pc = "getOrder", !.order = k.order, !.code = k.code]
  <2>1. PICK k : Begin(w, "confirm", r(k))
    BY <1>1 DEF FindCode
  <2>2. Dated(r(k).row)
    BY DEF Dated, Idle, NoRow
  <2> QED
    BY <1>1, <2>1, <2>2, DatedRequest DEF FindCode, Begin, orderVars, DatesKept
<1>2. CASE GetOrder(w)
  <2>1. Reply(w) \/ \E pc : Goto(w, pc)
    BY <1>2 DEF GetOrder
  <2> QED
    BY <1>2, <2>1, DatedReply, DatedGoto DEF GetOrder, orderVars, DatesKept
<1>3. CASE SaveConfirmed(w)
  <2>1. Reply(w) \/ \E pc : Goto(w, pc)
    BY <1>3 DEF SaveConfirmed
  <2>2. \A v \in Workers : Dated(req'[v].row)
    BY <2>1, DatedReply, DatedGoto
  <2>3. ASSUME NEW o \in OrderIds PROVE Dated(row'[o])
    <3>1. row[o] \in Rows
      BY DEF TypeOK
    <3>2. row'[o].status = row[o].status /\ row'[o].paidOn = row[o].paidOn
      BY <1>3, <3>1 DEF SaveConfirmed, Rows, TypeOK
    <3> QED
      BY <3>2 DEF Dated, DatesKept
  <2> QED
    BY <2>2, <2>3
<1>4. CASE DropCode(w)
  BY <1>4, DatedReply DEF DropCode, orderVars, DatesKept
<1>5. CASE Kill(w)
  BY <1>5, DatedReply DEF Kill, orderVars, DatesKept
<1> QED
  BY <1>1, <1>2, <1>3, <1>4, <1>5

(* An order that is PAID has its date, for any number of workers, killed   *)
(* or not, and whatever they call, as long as no admin clears a date.      *)
THEOREM PaidOrdersAreDated ==
    ASSUME None \notin PutPaidOn
    PROVE  Spec => []PaidHasDate
<1>1. Init => DatesKept
  BY DEF Init, DatesKept, Dated, Idle, NoRow
<1>2. TypeOK /\ DatesKept /\ [Next]_vars => DatesKept'
  <2> SUFFICES ASSUME TypeOK, DatesKept, [Next]_vars PROVE DatesKept'
    OBVIOUS
  <2>1. CASE UNCHANGED vars
    BY <2>1 DEF DatesKept, Dated, vars, orderVars
  <2>2. CASE Next
    BY <2>2, OrdersDated, PaymentsDated, ConfirmationDated DEF Next, Continue, Accept
  <2> QED
    BY <2>1, <2>2
<1>3. TypeOK /\ DatesKept => PaidHasDate
  BY DEF TypeOK, DatesKept, PaidHasDate
<1> QED
  BY <1>1, <1>2, <1>3, TypeCorrect, PTL DEF Spec
-----------------------------------------------------------------------------
(* Confirmations, when no save writes an old copy over an order: no edits  *)
(* and no payments.  An order whose code is about to be dropped is already *)
(* confirmed, and it stays so: its key is never used for another order.    *)

NoStaleSave ==
    /\ Calls \subseteq {"create", "place", "confirm", "delete", "items"}
    /\ PutConfirmed \subseteq {TRUE}
    /\ Killable = {}

\* A request that has an order has one whose key is used up.
ConfirmStage(w) ==
    /\ req[w].pc \in {"idle", "createCode", "getOrder", "saveConfirmed", "dropCode"}
    /\ req[w].pc # "idle" => req[w].order \notin freshOrders
    /\ req[w].pc = "dropCode" /\ req[w].order \in orders => row[req[w].order].confirmed

\* An order that is not confirmed has its code, or is about to get it.
AwaitsCode ==
    \A o \in orders :
       \/ row[o].confirmed
       \/ \E k \in codes : k.order = o
       \/ \E w \in Workers : req[w].pc = "createCode" /\ req[w].order = o

ConfirmInv ==
    /\ AwaitsCode
    /\ orders \cap freshOrders = {}
    /\ \A k \in codes : k.order \notin freshOrders
    /\ \A w \in Workers : ConfirmStage(w)

\* What a step leaves alone in the other requests.
LEMMA OtherRequests ==
    ASSUME TypeOK, NEW w \in Workers, NEW r, req' = [req EXCEPT ![w] = r]
    PROVE  req'[w] = r /\ \A v \in Workers \ {w} : req'[v] = req[v]
BY DEF TypeOK

\* Inserting an order leaves the others and their requests alone.
LEMMA InsertConfirm ==
    ASSUME TypeOK, ConfirmInv, NEW w \in Workers, NEW o, NEW c \in BOOLEAN, NEW d,
           InsertOrder(o, c, d), NEW r, req' = [req EXCEPT ![w] = r], Free(w),
           UNCHANGED codes,
           \/ c /\ r.pc = "idle"
           \/ r.pc = "createCode" /\ r.order = o
    PROVE  ConfirmInv'
<1>1. /\ req'[w] = r
      /\ \A v \in Workers \ {w} : req'[v] = req[v]
  BY OtherRequests
<1>2. /\ orders' = orders \cup {o} /\ o \in OrderIds /\ o \notin orders
      /\ freshOrders' = freshOrders \ {o}
      /\ row'[o].confirmed = c
      /\ \A q \in orders : row'[q] = row[q]
  BY DEF InsertOrder, WriteOrder, TypeOK, ConfirmInv
<1>3. ASSUME NEW q \in orders'
      PROVE  \/ row'[q].confirmed
             \/ \E k \in codes' : k.order = q
             \/ \E v \in Workers : req'[v].pc = "createCode" /\ req'[v].order = q
  <2>1. CASE q = o
    BY <1>1, <1>2, <2>1
  <2>2. CASE q # o
    BY <1>1, <1>2, <2>2 DEF ConfirmInv, AwaitsCode, Free
  <2> QED
    BY <2>1, <2>2
<1>4. ASSUME NEW v \in Workers
      PROVE  ConfirmStage(v)'
  <2>1. CASE v = w
    BY <1>1, <1>2, <2>1 DEF ConfirmStage
  <2>2. CASE v # w
    <3>1. req'[v] = req[v] /\ ConfirmStage(v) /\ (req[v].pc # "idle" => req[v].order # o)
      BY <1>1, <2>2 DEF ConfirmInv, ConfirmStage, InsertOrder
    <3> QED
      BY <1>2, <3>1 DEF ConfirmStage
  <2> QED
    BY <2>1, <2>2
<1> QED
  BY <1>2, <1>3, <1>4 DEF ConfirmInv, AwaitsCode

\* A step that goes on with a request, or begins one, and writes no order but to
\* confirm it, and takes no code of an order that is not confirmed.
LEMMA StageConfirm ==
    ASSUME TypeOK, ConfirmInv, NEW w \in Workers, NEW r, req' = [req EXCEPT ![w] = r],
           orders' \subseteq orders, UNCHANGED freshOrders,
           \A q \in orders' : row'[q].confirmed \/ row'[q] = row[q],
           \A k \in codes' : k.order \notin freshOrders,
           \A k \in codes : k.order \in orders' /\ ~row[k.order].confirmed => k \in codes',
           req[w].pc = "createCode" /\ req[w].order \in orders'
             => \E k \in codes' : k.order = req[w].order,
           r.pc \in {"idle", "getOrder", "saveConfirmed", "dropCode"},
           r.pc # "idle" => r.order \notin freshOrders,
           r.pc = "dropCode" /\ r.order \in orders' => row'[r.order].confirmed
    PROVE  ConfirmInv'
<1>1. /\ req'[w] = r
      /\ \A v \in Workers \ {w} : req'[v] = req[v]
  BY OtherRequests
<1>2. ASSUME NEW q \in orders', ~row'[q].confirmed
      PROVE  \/ \E k \in codes' : k.order = q
             \/ \E v \in Workers : req'[v].pc = "createCode" /\ req'[v].order = q
  <2>1. q \in orders /\ ~row[q].confirmed
    BY <1>2
  <2>2. CASE \E k \in codes : k.order = q
    BY <1>2, <2>1, <2>2
  <2>3. CASE \E v \in Workers : req[v].pc = "createCode" /\ req[v].order = q
    BY <1>1, <2>3
  <2> QED
    BY <2>1, <2>2, <2>3 DEF ConfirmInv, AwaitsCode
<1>3. ASSUME NEW v \in Workers
      PROVE  ConfirmStage(v)'
  <2>1. CASE v = w
    BY <1>1, <2>1 DEF ConfirmStage
  <2>2. CASE v # w
    <3>1. req'[v] = req[v] /\ ConfirmStage(v)
      BY <1>1, <2>2 DEF ConfirmInv
    <3> QED
      BY <3>1 DEF ConfirmStage
  <2> QED
    BY <2>1, <2>2
<1>4. orders' \cap freshOrders' = {}
  BY DEF ConfirmInv
<1> QED
  BY <1>2, <1>3, <1>4 DEF ConfirmInv, AwaitsCode

\* Every step leaves unconfirmed orders their code.
LEMMA ConfirmStep ==
    ASSUME TypeOK, ConfirmInv, NoStaleSave, NEW w \in Workers,
           Continue(w) \/ Accept(w) \/ Kill(w)
    PROVE  ConfirmInv'
<1>0. /\ ConfirmStage(w) /\ Idle.pc = "idle"
      /\ ~Kill(w) /\ ~LoadOrder(w) /\ ~SaveOrder(w) /\ ~ValidatePayment(w) /\ ~LoadPayment(w)
      /\ ~SavePayment(w) /\ ~FetchOrder(w) /\ ~ReadTotal(w) /\ ~ReadPaid(w) /\ ~SaveStatus(w)
  <2>1. ConfirmStage(w) /\ Idle.pc = "idle"
    BY DEF ConfirmInv, Idle
  <2>2. ~Kill(w) /\ ~LoadOrder(w) /\ ~ValidatePayment(w) /\ ~LoadPayment(w)
    BY DEF NoStaleSave, Kill, LoadOrder, ValidatePayment, LoadPayment, Begin
  <2>3. /\ ~SaveOrder(w) /\ ~SavePayment(w) /\ ~FetchOrder(w)
        /\ ~ReadTotal(w) /\ ~ReadPaid(w) /\ ~SaveStatus(w)
    BY <2>1 DEF ConfirmStage, SaveOrder, SavePayment, FetchOrder, ReadTotal, ReadPaid, SaveStatus
  <2> QED
    BY <2>1, <2>2, <2>3
<1>1. CASE CreateOrder(w)
  <2>1. PICK o \in freshOrders, c \in {TRUE} \cup PutConfirmed, d \in {None} \cup PutPaidOn :
           InsertOrder(o, c, d)
    BY <1>1 DEF CreateOrder
  <2>2. c = TRUE
    BY DEF NoStaleSave
  <2>3. Free(w) /\ req' = [req EXCEPT ![w] = Idle] /\ UNCHANGED codes
    BY <1>1 DEF CreateOrder, Begin
  <2> QED
    BY <1>0, <2>1, <2>2, <2>3, InsertConfirm
<1>2. CASE PlaceOrder(w)
  <2> DEFINE waits(o) == [Idle EXCEPT !.pc = "createCode", !.order = o]
             r(o, known) == IF known THEN Idle ELSE waits(o)
  <2>1. PICK o \in freshOrders, known \in BOOLEAN, d \in {None} \cup PutPaidOn :
           InsertOrder(o, known, d) /\ Begin(w, "place", r(o, known))
    BY <1>2 DEF PlaceOrder
  <2>2. /\ known => r(o, known).pc = "idle"
        /\ ~known => r(o, known).pc = "createCode" /\ r(o, known).order = o
    BY DEF Idle
  <2>3. Free(w) /\ req' = [req EXCEPT ![w] = r(o, known)] /\ UNCHANGED codes
    BY <1>2, <2>1 DEF PlaceOrder, Begin
  <2> HIDE DEF r
  <2> QED
    BY <2>1, <2>2, <2>3, InsertConfirm
<1>3. CASE CreateCode(w)
  <2>1. /\ req' = [req EXCEPT ![w] = Idle]
        /\ UNCHANGED <<orders, freshOrders, row>>
    BY <1>3 DEF CreateCode, Reply, orderVars
  <2>2. /\ codes \subseteq codes'
        /\ req[w].order \in orders => \E k \in codes' : k.order = req[w].order
        /\ \A k \in codes' : k.order \notin freshOrders
    <3>1. req[w].order \notin freshOrders
      BY <1>0, <1>3 DEF CreateCode, ConfirmStage
    <3>2. \A k \in codes : k.order \notin freshOrders
      BY DEF ConfirmInv
    <3>3. CASE req[w].order \in orders
      <4>1. PICK c \in Codes : codes' = codes \cup {[order |-> req[w].order, code |-> c]}
        BY <1>3, <3>3 DEF CreateCode
      <4> DEFINE new == [order |-> req[w].order, code |-> c]
      <4>2. new.order = req[w].order
        OBVIOUS
      <4>3. codes' = codes \cup {new}
        BY <4>1
      <4> HIDE DEF new
      <4> QED
        BY <3>1, <3>2, <4>2, <4>3
    <3>4. CASE req[w].order \notin orders
      BY <1>3, <3>2, <3>4 DEF CreateCode
    <3> QED
      BY <3>3, <3>4
  <2> QED
    BY <1>0, <2>1, <2>2, StageConfirm
<1>4. CASE DeleteOrder(w)
  <2>1. /\ req' = [req EXCEPT ![w] = Idle] /\ Free(w)
        /\ UNCHANGED <<row, freshOrders>>
    BY <1>4 DEF DeleteOrder, Begin
  <2>2. /\ orders' \subseteq orders /\ codes' \subseteq codes
        /\ \A k \in codes : k.order \in orders' => k \in codes'
    BY <1>4 DEF DeleteOrder
  <2> QED
    BY <1>0, <2>1, <2>2, StageConfirm DEF ConfirmInv, Free
<1>5. CASE ChangeItems(w)
  <2>1. /\ req' = [req EXCEPT ![w] = Idle] /\ Free(w)
        /\ UNCHANGED <<orders, row, freshOrders, codes>>
    BY <1>5 DEF ChangeItems, Begin
  <2> QED
    BY <1>0, <2>1, StageConfirm DEF ConfirmInv, Free
<1>6. CASE FindCode(w)
  <2> DEFINE r(k) == [Idle EXCEPT !.pc = "getOrder", !.order = k.order, !.code = k.code]
  <2>1. PICK k \in codes : Begin(w, "confirm", r(k))
    BY <1>6 DEF FindCode
  <2>2. /\ req' = [req EXCEPT ![w] = r(k)] /\ Free(w)
        /\ UNCHANGED <<orders, row, freshOrders, codes>>
    BY <1>6, <2>1 DEF FindCode, Begin, orderVars
  <2>3. r(k).pc = "getOrder" /\ r(k).order \notin freshOrders
    BY DEF Idle, ConfirmInv
  <2> HIDE DEF r
  <2> QED
    BY <2>2, <2>3, StageConfirm DEF ConfirmInv, Free
<1>7. CASE GetOrder(w)
  <2>1. /\ req[w] \in Requests
        /\ UNCHANGED <<orders, row, freshOrders, codes>> /\ req[w].pc = "getOrder"
    BY <1>7 DEF GetOrder, TypeOK, orderVars
  <2>2. CASE Reply(w)
    BY <1>0, <2>1, <2>2, StageConfirm DEF Reply, ConfirmInv
  <2>3. CASE ~Reply(w)
    <3>1. PICK pc \in {"dropCode", "saveConfirmed"} :
             Goto(w, pc) /\ (pc = "dropCode" => row[req[w].order].confirmed)
      BY <1>7, <2>3 DEF GetOrder
    <3> DEFINE r == [req[w] EXCEPT !.pc = pc]
    <3>2. r.pc = pc /\ r.order = req[w].order
      BY <2>1 DEF Requests
    <3>3. req' = [req EXCEPT ![w] = r]
      BY <3>1 DEF Goto, TypeOK
    <3>4. r.order \notin freshOrders
      BY <1>0, <2>1, <3>2 DEF ConfirmStage
    <3> HIDE DEF r
    <3> QED
      BY <2>1, <3>1, <3>2, <3>3, <3>4, StageConfirm DEF ConfirmInv
  <2> QED
    BY <2>2, <2>3
<1>8. CASE SaveConfirmed(w)
  <2>1. /\ req[w] \in Requests
        /\ UNCHANGED <<orders, freshOrders, codes>> /\ req[w].pc = "saveConfirmed"
    BY <1>8 DEF SaveConfirmed, TypeOK
  <2>2. CASE Reply(w)
    <3>1. UNCHANGED row
      BY <1>8, <2>1, <2>2 DEF SaveConfirmed, Reply, Goto, TypeOK, Idle
    <3> QED
      BY <1>0, <2>1, <2>2, <3>1, StageConfirm DEF Reply, ConfirmInv
  <2>3. CASE ~Reply(w)
    <3> DEFINE r == [req[w] EXCEPT !.pc = "dropCode"]
    <3>1. /\ req[w].order \in orders /\ Goto(w, "dropCode")
          /\ row' = [row EXCEPT ![req[w].order].confirmed = TRUE]
      BY <1>8, <2>3 DEF SaveConfirmed
    <3>2. r.pc = "dropCode" /\ r.order = req[w].order
      BY <2>1 DEF Requests
    <3>3. req' = [req EXCEPT ![w] = r]
      BY <3>1 DEF Goto, TypeOK
    <3>4. r.order \notin freshOrders
      BY <1>0, <2>1, <3>2 DEF ConfirmStage
    <3>5. row[req[w].order] \in Rows /\ req[w].order \in OrderIds
      BY <3>1 DEF TypeOK
    <3>6. row'[req[w].order] = [row[req[w].order] EXCEPT !.confirmed = TRUE]
      BY <3>1, <3>5 DEF TypeOK
    <3>7. row'[req[w].order].confirmed
      BY <3>5, <3>6 DEF Rows
    <3>8. \A q \in orders : q # req[w].order => row'[q] = row[q]
      BY <3>1 DEF TypeOK
    <3> HIDE DEF r
    <3> QED
      BY <2>1, <3>2, <3>3, <3>4, <3>7, <3>8, StageConfirm DEF ConfirmInv
  <2> QED
    BY <2>2, <2>3
<1>9. CASE DropCode(w)
  <2>1. /\ req' = [req EXCEPT ![w] = Idle] /\ req[w].pc = "dropCode"
        /\ UNCHANGED <<orders, row, freshOrders>>
        /\ codes' = codes \ {[order |-> req[w].order, code |-> req[w].code]}
    BY <1>9 DEF DropCode, Reply, orderVars
  <2>2. \A k \in codes : k.order \in orders' /\ ~row[k.order].confirmed => k \in codes'
    BY <1>0, <2>1 DEF ConfirmStage
  <2> QED
    BY <1>0, <2>1, <2>2, StageConfirm DEF ConfirmInv
<1> QED
  BY <1>0, <1>1, <1>2, <1>3, <1>4, <1>5, <1>6, <1>7, <1>8, <1>9 DEF Continue, Accept

\* A code of the order is found by its value, or another order has that value.
LEMMA CodeFoundOrShared ==
    ASSUME TypeOK, NEW o, NEW k \in codes, k.order = o
    PROVE  \/ Findable(k)
           \/ \E j \in codes : j.order # o /\ j.code = k.code
<1> SUFFICES ASSUME NEW j \in codes, j.code = k.code, j # k
             PROVE  j.order # o
  BY DEF Findable
<1>1. j \in [order : OrderIds, code : Codes] /\ k \in [order : OrderIds, code : Codes]
  BY DEF TypeOK
<1> QED
  BY <1>1

(* When orders are placed, confirmed and deleted, and no save writes an old *)
(* copy of an order, no kill interrupts a placement, and admins' orders are *)
(* confirmed, every order is confirmed, or its code is found by its value   *)
(* or about to be created, or a second order drew the same code: then       *)
(* neither customer can confirm while both orders are there.                *)
THEOREM OrdersStayConfirmable ==
    ASSUME NoStaleSave
    PROVE  Spec => []ConfirmableUnlessShared
<1>1. Init => ConfirmInv
  BY DEF Init, ConfirmInv, AwaitsCode, ConfirmStage, Idle
<1>2. TypeOK /\ ConfirmInv /\ [Next]_vars => ConfirmInv'
  <2> SUFFICES ASSUME TypeOK, ConfirmInv, [Next]_vars PROVE ConfirmInv'
    OBVIOUS
  <2>1. CASE UNCHANGED vars
    BY <2>1 DEF ConfirmInv, AwaitsCode, ConfirmStage, vars, orderVars
  <2>2. CASE Next
    BY <2>2, ConfirmStep DEF Next
  <2> QED
    BY <2>1, <2>2
<1>3. TypeOK /\ ConfirmInv => ConfirmableUnlessShared
  BY CodeFoundOrShared DEF ConfirmInv, AwaitsCode, ConfirmableUnlessShared
<1> QED
  BY <1>1, <1>2, <1>3, TypeCorrect, PTL DEF Spec
-----------------------------------------------------------------------------
(* Payments, when one worker serves one request after the other, is not    *)
(* killed, and neither items nor payments are moved after the fact.        *)

OneAtATime(w) ==
    /\ Workers = {w} /\ Killable = {}
    /\ ~LateItems /\ "movePayment" \notin Calls

\* The status an order should have.
Due(o) ==
    IF PaymentsOf(o) = {} THEN "PENDING"
    ELSE IF Balance(o) <= 0 THEN "PAID" ELSE "PARTIALLY_PAID"

\* Payments are of orders there are, and unused keys are nobody's.
KeysUsed ==
    /\ orders \cap freshOrders = {} /\ payments \cap freshPayments = {}
    /\ \A p \in payments : payOf[p] \in orders

\* The order whose status is being worked out, if any.
Settling(r) == IF r.pc \in {"fetchOrder", "total", "paid", "saveStatus"} THEN r.order ELSE None

\* What a request holds while nobody else changes the tables: the row it is
\* about to save is the one that is due, once the sum it compares is the order's.
Holds(r) ==
    /\ r.pc \in {"saveOrder", "writePayment", "patchPayment",
                 "fetchOrder", "total", "paid", "saveStatus"} => r.order \in orders
    /\ r.pc = "saveOrder" => r.row.status = row[r.order].status
    /\ r.pc = "writePayment" => r.payment \notin payments \cup freshPayments
    /\ r.pc = "patchPayment" => r.payment \in PaymentsOf(r.order)
    /\ r.pc \in {"fetchOrder", "total", "paid", "saveStatus"} => PaymentsOf(r.order) # {}
    /\ r.pc \in {"writePayment", "patchPayment", "fetchOrder"} => r.round = 1
    /\ r.pc = "paid" => r.sum = total[r.order]
    /\ r.pc \in {"total", "paid"} /\ r.round = 2 /\ Due(r.order) = "PAID"
         => row[r.order].status = "PAID"
    /\ r.pc = "saveStatus" =>
         /\ r.row.status = Due(r.order)
         /\ r.round = 1 <=> Due(r.order) = "PAID"

StatusInv(w) ==
    /\ KeysUsed
    /\ Holds(req[w])
    /\ \A o \in orders \ {Settling(req[w])} : row[o].status = Due(o)

\* What is due depends on the payments of the order and its total alone.
LEMMA DueKept ==
    ASSUME NEW o, PaymentsOf(o)' = PaymentsOf(o), total'[o] = total[o],
           \A p \in PaymentsOf(o) : amount'[p] = amount[p]
    PROVE  Due(o)' = Due(o)
<1>1. [p \in PaymentsOf(o)' |-> amount'[p]] = [p \in PaymentsOf(o) |-> amount[p]]
  OBVIOUS
<1>2. AmountPaid(o)' = AmountPaid(o)
  BY <1>1 DEF AmountPaid
<1> QED
  BY <1>2 DEF Due, Balance

LEMMA DuesKept ==
    ASSUME UNCHANGED <<total, payments, payOf, amount>>
    PROVE  \A o : Due(o)' = Due(o) /\ PaymentsOf(o)' = PaymentsOf(o)
<1>1. \A o : PaymentsOf(o)' = PaymentsOf(o)
  BY DEF PaymentsOf
<1> QED
  BY <1>1, DueKept

\* A worker at rest holds nothing.
LEMMA NothingHeld ==
    ASSUME NEW w, req'[w].pc = "idle"
    PROVE  Holds(req[w])' /\ Settling(req[w])' = None
BY DEF Holds, Settling


\* What the invariant asks of a state whose worker settles no order.
LEMMA StatusRest ==
    ASSUME TypeOK, KeysUsed', NEW w, Holds(req[w])', Settling(req[w])' = None,
           \A o \in orders' : row'[o].status = Due(o)'
    PROVE  StatusInv(w)'
BY DEF StatusInv

\* Steps that leave payments and totals alone, and the statuses of the orders.
LEMMA StatusQuiet ==
    ASSUME NEW w, StatusInv(w), UNCHANGED <<orders, freshOrders, total, paymentVars>>,
           \A o \in orders : row'[o].status = row[o].status,
           Settling(req[w])' = Settling(req[w]), Holds(req[w])'
    PROVE  StatusInv(w)'
<1>1. \A o : Due(o)' = Due(o)
  BY DuesKept DEF paymentVars
<1>2. KeysUsed'
  BY DEF StatusInv, KeysUsed, paymentVars
<1> QED
  BY <1>1, <1>2 DEF StatusInv

\* A new order has no payments.
LEMMA StatusInsert ==
    ASSUME TypeOK, NEW w, StatusInv(w), Free(w), UNCHANGED <<total, paymentVars>>,
           NEW o, NEW c, NEW d, InsertOrder(o, c, d)
    PROVE  /\ KeysUsed' /\ o \in orders'
           /\ \A q \in orders' : row'[q].status = Due(q)'
<1>1. /\ orders' = orders \cup {o} /\ o \in OrderIds /\ o \notin orders
      /\ freshOrders' = freshOrders \ {o}
      /\ row'[o].status = "PENDING"
      /\ \A q \in orders : row'[q] = row[q]
  BY DEF InsertOrder, WriteOrder, TypeOK, StatusInv, KeysUsed
<1>2. PaymentsOf(o) = {}
  BY <1>1 DEF StatusInv, KeysUsed, PaymentsOf
<1>3. \A q : Due(q)' = Due(q)
  BY DuesKept DEF paymentVars
<1>4. \A q \in orders : row[q].status = Due(q)
  BY LifecycleAssumption DEF StatusInv, Settling, Free, TypeOK
<1>5. KeysUsed'
  BY <1>1 DEF StatusInv, KeysUsed, paymentVars
<1>6. Due(o) = "PENDING"
  BY <1>2 DEF Due
<1> QED
  BY <1>1, <1>3, <1>4, <1>5, <1>6

\* The requests about orders leave every status due.
LEMMA OrdersSettled ==
    ASSUME TypeOK, NEW w \in Workers, OneAtATime(w), StatusInv(w),
           CreateOrder(w) \/ PlaceOrder(w) \/ CreateCode(w) \/ LoadOrder(w)
             \/ SaveOrder(w) \/ DeleteOrder(w) \/ ChangeItems(w)
    PROVE  StatusInv(w)'
<1>0. Idle.pc = "idle" /\ (Free(w) => Settling(req[w]) = None)
  BY DEF Idle, Free, Settling
<1>n. \A o \in orders : o # None
  BY LifecycleAssumption DEF TypeOK
<1>1. CASE CreateOrder(w)
  <2>1. PICK o \in freshOrders, c \in {TRUE} \cup PutConfirmed, d \in {None} \cup PutPaidOn :
           InsertOrder(o, c, d)
    BY <1>1 DEF CreateOrder
  <2>2. Free(w) /\ req'[w] = Idle /\ UNCHANGED <<total, paymentVars>>
    BY <1>1, OtherRequests DEF CreateOrder, Begin
  <2> QED
    BY <1>0, <2>1, <2>2, StatusInsert, NothingHeld, StatusRest
<1>2. CASE PlaceOrder(w)
  <2> DEFINE waits(o) == [Idle EXCEPT !.pc = "createCode", !.order = o]
             r(o, known) == IF known THEN Idle ELSE waits(o)
  <2>1. PICK o \in freshOrders, known \in BOOLEAN, d \in {None} \cup PutPaidOn :
           InsertOrder(o, known, d) /\ Begin(w, "place", r(o, known))
    BY <1>2 DEF PlaceOrder
  <2>2. /\ known => r(o, known).pc = "idle"
        /\ ~known => r(o, known).pc = "createCode" /\ r(o, known).order = o
    BY DEF Idle
  <2>3. Free(w) /\ req'[w] = r(o, known) /\ UNCHANGED <<total, paymentVars>>
    BY <1>2, <2>1, OtherRequests DEF PlaceOrder, Begin
  <2> HIDE DEF r
  <2>4. KeysUsed' /\ o \in orders' /\ \A q \in orders' : row'[q].status = Due(q)'
    BY <2>1, <2>3, StatusInsert
  <2>5. Holds(req[w])' /\ Settling(req[w])' = None
    BY <2>2, <2>3, <2>4 DEF Holds, Settling
  <2> QED
    BY <2>4, <2>5, StatusRest
<1>3. CASE CreateCode(w)
  <2>1. req'[w].pc = "idle" /\ Settling(req[w]) = None
    BY <1>0, <1>3, OtherRequests DEF CreateCode, Reply, Settling
  <2>2. Holds(req[w])' /\ Settling(req[w])' = Settling(req[w])
    BY <2>1, NothingHeld
  <2> QED
    BY <1>3, <2>2, StatusQuiet DEF CreateCode, orderVars
<1>4. CASE LoadOrder(w)
  <2> DEFINE patched(o, c, d) == [row[o] EXCEPT !.confirmed = c, !.paidOn = d]
             r(o, c, d) == [Idle EXCEPT !.pc = "saveOrder", !.order = o,
                                        !.row = patched(o, c, d)]
  <2>1. PICK o \in orders :
           \E c \in {row[o].confirmed} \cup PutConfirmed, d \in {row[o].paidOn} \cup PutPaidOn :
              Begin(w, "edit", r(o, c, d))
    BY <1>4 DEF LoadOrder
  <2>2. PICK c \in {row[o].confirmed} \cup PutConfirmed, d \in {row[o].paidOn} \cup PutPaidOn :
           Begin(w, "edit", r(o, c, d))
    BY <2>1
  <2>3. row[o] \in Rows
    BY DEF TypeOK
  <2>4. patched(o, c, d).status = row[o].status
    BY <2>3 DEF Rows
  <2>5. r(o, c, d).pc = "saveOrder" /\ r(o, c, d).order = o /\ r(o, c, d).row = patched(o, c, d)
    BY DEF Idle
  <2>6. Free(w) /\ req'[w] = r(o, c, d) /\ UNCHANGED <<orderVars, paymentVars>>
    BY <1>4, <2>2, OtherRequests DEF LoadOrder, Begin
  <2> HIDE DEF r, patched
  <2>7. Holds(req[w])' /\ Settling(req[w])' = Settling(req[w])
    BY <1>0, <2>4, <2>5, <2>6 DEF Holds, Settling, orderVars
  <2> QED
    BY <2>6, <2>7, StatusQuiet DEF orderVars
<1>5. CASE SaveOrder(w)
  <2>1. req'[w].pc = "idle" /\ Settling(req[w]) = None
    BY <1>0, <1>5, OtherRequests DEF SaveOrder, Reply, Settling
  <2>2. Holds(req[w])' /\ Settling(req[w])' = Settling(req[w])
    BY <2>1, NothingHeld
  <2>3. req[w].order \in orders /\ req[w].row.status = row[req[w].order].status
    BY <1>5 DEF SaveOrder, StatusInv, Holds
  <2>4. orders' = orders /\ \A o \in orders : row'[o].status = row[o].status
    BY <1>5, <2>3 DEF SaveOrder, WriteOrder, TypeOK
  <2> QED
    BY <1>5, <2>2, <2>4, StatusQuiet DEF SaveOrder
<1>6. CASE DeleteOrder(w)
  <2>1. PICK o \in orders :
          /\ orders' = orders \ {o}
          /\ total' = [total EXCEPT ![o] = 0]
          /\ payments' = {p \in payments : payOf[p] # o}
    BY <1>6 DEF DeleteOrder
  <2>2. /\ req'[w] = Idle /\ Free(w)
        /\ UNCHANGED <<row, freshOrders, payOf, amount, freshPayments>>
    BY <1>6, OtherRequests DEF DeleteOrder, Begin
  <2>3. ASSUME NEW q \in orders'
        PROVE  row'[q].status = Due(q)'
    <3>1. q \in orders /\ q # o /\ row[q].status = Due(q)
      BY <1>0, <1>n, <2>1, <2>2 DEF StatusInv
    <3>2. PaymentsOf(q)' = PaymentsOf(q) /\ total'[q] = total[q]
      BY <2>1, <2>2, <3>1 DEF PaymentsOf, TypeOK
    <3>3. Due(q)' = Due(q)
      BY <2>2, <3>2, DueKept
    <3> QED
      BY <2>2, <3>1, <3>3
  <2>4. KeysUsed'
    BY <2>1, <2>2 DEF StatusInv, KeysUsed
  <2> QED
    BY <1>0, <2>2, <2>3, <2>4, NothingHeld, StatusRest
<1>7. CASE ChangeItems(w)
  <2>1. PICK o \in orders, n \in Totals : ItemsSettle(o) /\ total' = [total EXCEPT ![o] = n]
    BY <1>7 DEF ChangeItems, OneAtATime
  <2>2. /\ req'[w] = Idle /\ Free(w)
        /\ UNCHANGED <<orders, row, freshOrders, paymentVars>>
    BY <1>7, OtherRequests DEF ChangeItems, Begin
  <2>3. ASSUME NEW q \in orders'
        PROVE  row'[q].status = Due(q)'
    <3>1. q \in orders /\ row[q].status = Due(q)
      BY <1>0, <1>n, <2>2 DEF StatusInv
    <3>2. PaymentsOf(q)' = PaymentsOf(q)
      BY <2>2 DEF PaymentsOf, paymentVars
    <3>3. CASE q = o
      BY <2>1, <2>2, <3>1, <3>2, <3>3 DEF ItemsSettle, Due
    <3>4. CASE q # o
      <4>1. total'[q] = total[q]
        BY <2>1, <3>1, <3>4 DEF TypeOK
      <4> QED
        BY <2>2, <3>1, <3>2, <4>1, DueKept DEF paymentVars
    <3> QED
      BY <3>3, <3>4
  <2>4. KeysUsed'
    BY <2>2 DEF StatusInv, KeysUsed, paymentVars
  <2> QED
    BY <1>0, <2>2, <2>3, <2>4, NothingHeld, StatusRest
<1> QED
  BY <1>1, <1>2, <1>3, <1>4, <1>5, <1>6, <1>7

\* Steps of a payment that change its request alone.
LEMMA StatusPayment ==
    ASSUME NEW w, StatusInv(w), UNCHANGED <<orderVars, payments, payOf, amount>>,
           freshPayments' \subseteq freshPayments,
           Settling(req[w])' = Settling(req[w]), Holds(req[w])'
    PROVE  StatusInv(w)'
<1>1. \A o : Due(o)' = Due(o)
  BY DuesKept DEF orderVars
<1>2. KeysUsed'
  BY DEF StatusInv, KeysUsed, orderVars
<1> QED
  BY <1>1, <1>2 DEF StatusInv, orderVars

\* The statement that writes a payment: its order is the one to settle now.
LEMMA StatusWrite ==
    ASSUME TypeOK, NEW w \in Workers, StatusInv(w), SavePayment(w)
    PROVE  StatusInv(w)'
<1> DEFINE o == req[w].order
           p == req[w].payment
<1>1. /\ req[w] \in Requests /\ o \in OrderIds /\ p \in PaymentIds
      /\ req[w].amount \in Nat /\ Settling(req[w]) = None
  BY DEF SavePayment, TypeOK, Requests, Free, Settling
<1>2. /\ o \in orders /\ p \notin freshPayments /\ (p \in payments => payOf[p] = o)
  BY DEF SavePayment, StatusInv, Holds, KeysUsed, PaymentsOf
<1>3. PICK pc \in {"fetchOrder", "total"} :
        /\ WritePayment(req[w]) /\ Goto(w, pc)
        /\ UNCHANGED <<orderVars, freshPayments>>
  BY <1>2 DEF SavePayment
<1>4. /\ payments' = payments \cup {p}
      /\ payOf' = [payOf EXCEPT ![p] = o]
      /\ amount' = [amount EXCEPT ![p] = req[w].amount]
      /\ UNCHANGED <<orders, row, freshOrders, total, freshPayments>>
  BY <1>3 DEF WritePayment, orderVars
<1>5. req'[w] = [req[w] EXCEPT !.pc = pc]
  BY <1>3 DEF Goto, TypeOK
<1>6. req'[w].pc = pc /\ req'[w].order = o /\ req'[w].round = req[w].round
  BY <1>1, <1>5 DEF Requests
<1>r. req[w].round = 1
  BY DEF SavePayment, StatusInv, Holds
<1>7. p \in PaymentsOf(o)'
  BY <1>1, <1>4, <1>6 DEF PaymentsOf, TypeOK
<1>8. Holds(req[w])' /\ Settling(req[w])' = o
  BY <1>2, <1>4, <1>6, <1>7, <1>r DEF Holds, Settling
<1>9. KeysUsed'
  <2>1. \A q \in payments' : payOf'[q] \in orders
    BY <1>1, <1>2, <1>4 DEF StatusInv, KeysUsed, TypeOK
  <2> QED
    BY <1>2, <1>4, <2>1 DEF StatusInv, KeysUsed
<1>10. ASSUME NEW q \in orders \ {o}
       PROVE  row'[q].status = Due(q)'
  <2>1. row[q].status = Due(q)
    BY <1>1, LifecycleAssumption DEF StatusInv, TypeOK
  <2>2. PaymentsOf(q)' = PaymentsOf(q) /\ p \notin PaymentsOf(q)
    BY <1>1, <1>2, <1>4 DEF PaymentsOf, TypeOK
  <2>3. \A k \in PaymentsOf(q) : amount'[k] = amount[k]
    BY <1>1, <1>4, <2>2 DEF PaymentsOf, TypeOK
  <2>4. Due(q)' = Due(q)
    BY <1>4, <2>2, <2>3, DueKept
  <2> QED
    BY <1>4, <2>1, <2>4
<1> QED
  BY <1>4, <1>8, <1>9, <1>10 DEF StatusInv

\* Saving the status that is due.
LEMMA StatusSaved ==
    ASSUME TypeOK, NEW w \in Workers, StatusInv(w), SaveStatus(w)
    PROVE  StatusInv(w)'
<1> DEFINE o == req[w].order
<1>1. /\ req[w] \in Requests /\ o \in orders /\ Settling(req[w]) = o
      /\ PaymentsOf(o) # {} /\ req[w].row.status = Due(o)
      /\ req[w].round = 1 <=> Due(o) = "PAID"
  BY DEF SaveStatus, TypeOK, Settling, StatusInv, Holds
<1>2. /\ orders' = orders /\ row' = [row EXCEPT ![o] = req[w].row]
      /\ UNCHANGED <<freshOrders, total, paymentVars>>
  BY <1>1 DEF SaveStatus, WriteOrder
<1>3. \A q : Due(q)' = Due(q) /\ PaymentsOf(q)' = PaymentsOf(q)
  BY <1>2, DuesKept DEF paymentVars
<1>4. \A q \in orders : row'[q].status = Due(q)
  BY <1>1, <1>2 DEF StatusInv, TypeOK
<1>5. KeysUsed'
  BY <1>2 DEF StatusInv, KeysUsed, paymentVars
<1>6. CASE req[w].round = 1 /\ req' = [req EXCEPT ![w].pc = "total", ![w].round = 2]
  <2>1. req'[w] = [req[w] EXCEPT !.pc = "total", !.round = 2]
    BY <1>6 DEF TypeOK
  <2>2. req'[w].pc = "total" /\ req'[w].order = o /\ req'[w].round = 2
    BY <1>1, <2>1 DEF Requests
  <2>3. Holds(req[w])'
    BY <1>1, <1>2, <1>3, <1>4, <2>2 DEF Holds
  <2> QED
    BY <1>2, <1>3, <1>4, <1>5, <2>3 DEF StatusInv
<1>7. CASE Reply(w)
  <2>1. req'[w].pc = "idle"
    BY <1>7 DEF Reply, Idle, TypeOK
  <2> QED
    BY <1>2, <1>3, <1>4, <1>5, <2>1, NothingHeld DEF StatusInv
<1> QED
  BY <1>6, <1>7 DEF SaveStatus

\* The requests about payments work out what is due.
LEMMA PaymentsSettled ==
    ASSUME TypeOK, NEW w \in Workers, OneAtATime(w), StatusInv(w),
           ValidatePayment(w) \/ LoadPayment(w) \/ SavePayment(w) \/ FetchOrder(w)
             \/ ReadTotal(w) \/ ReadPaid(w) \/ SaveStatus(w)
    PROVE  StatusInv(w)'
<1>0. Free(w) => Settling(req[w]) = None
  BY DEF Free, Settling
<1>1. CASE ValidatePayment(w)
  <2> DEFINE r(o, n, p) == [Idle EXCEPT !.pc = "writePayment", !.order = o,
                                        !.payment = p, !.amount = n, !.row = row[o]]
  <2>1. PICK o \in orders, n \in Amounts, p \in freshPayments :
           /\ Begin(w, "pay", r(o, n, p))
           /\ freshPayments' = freshPayments \ {p}
    BY <1>1 DEF ValidatePayment
  <2>2. /\ r(o, n, p).pc = "writePayment" /\ r(o, n, p).order = o
        /\ r(o, n, p).payment = p /\ r(o, n, p).round = 1
    BY DEF Idle
  <2>3. /\ Free(w) /\ req'[w] = r(o, n, p)
        /\ UNCHANGED <<orderVars, payments, payOf, amount>>
    BY <1>1, <2>1, OtherRequests DEF ValidatePayment, Begin
  <2> HIDE DEF r
  <2>4. Holds(req[w])' /\ Settling(req[w])' = None
    BY <2>1, <2>2, <2>3 DEF Holds, Settling, StatusInv, KeysUsed, orderVars
  <2> QED
    BY <1>0, <2>1, <2>3, <2>4, StatusPayment
<1>2. CASE LoadPayment(w)
  <2> DEFINE edit(o, p, n) == [Idle EXCEPT !.pc = "patchPayment", !.order = o,
                                           !.payment = p, !.amount = n]
  <2>1. PICK p \in payments, o \in orders : \E n \in {amount[p]} \cup Amounts :
           o = payOf[p] /\ Begin(w, "editPayment", edit(o, p, n))
    BY <1>2 DEF LoadPayment, OneAtATime, Begin
  <2>2. PICK n \in {amount[p]} \cup Amounts : Begin(w, "editPayment", edit(o, p, n))
    BY <2>1
  <2>3. /\ edit(o, p, n).pc = "patchPayment" /\ edit(o, p, n).order = o
        /\ edit(o, p, n).payment = p /\ edit(o, p, n).round = 1
    BY DEF Idle
  <2>4. Free(w) /\ req'[w] = edit(o, p, n) /\ UNCHANGED <<orderVars, paymentVars>>
    BY <1>2, <2>2, OtherRequests DEF LoadPayment, Begin
  <2> HIDE DEF edit
  <2>5. p \in PaymentsOf(o)'
    BY <2>1, <2>4 DEF PaymentsOf, paymentVars
  <2>6. Holds(req[w])' /\ Settling(req[w])' = None
    BY <2>3, <2>4, <2>5 DEF Holds, Settling, orderVars
  <2> QED
    BY <1>0, <2>4, <2>6, StatusPayment DEF paymentVars
<1>3. CASE SavePayment(w)
  BY <1>3, StatusWrite
<1>4. CASE FetchOrder(w)
  <2>1. /\ req[w] \in Requests /\ req[w].order \in orders /\ PaymentsOf(req[w].order) # {}
        /\ req[w].pc = "fetchOrder" /\ req[w].round = 1
    BY <1>4 DEF FetchOrder, TypeOK, StatusInv, Holds
  <2>2. /\ req'[w] = [req[w] EXCEPT !.pc = "total", !.row = row[req[w].order]]
        /\ UNCHANGED <<orderVars, paymentVars>>
    BY <1>4, <2>1 DEF FetchOrder, TypeOK
  <2>3. req'[w].pc = "total" /\ req'[w].order = req[w].order /\ req'[w].round = 1
    BY <2>1, <2>2 DEF Requests
  <2>4. PaymentsOf(req[w].order)' = PaymentsOf(req[w].order)
    BY <2>2, <2>3 DEF PaymentsOf, paymentVars
  <2>5. Holds(req[w])' /\ Settling(req[w])' = Settling(req[w])
    BY <2>1, <2>2, <2>3, <2>4 DEF Holds, Settling, orderVars
  <2> QED
    BY <2>2, <2>5, StatusPayment DEF paymentVars
<1>5. CASE ReadTotal(w)
  <2> DEFINE o == req[w].order
  <2>1. /\ req[w] \in Requests /\ req[w].pc = "total" /\ o \in orders /\ PaymentsOf(o) # {}
        /\ req[w].round = 2 /\ Due(o) = "PAID" => row[o].status = "PAID"
    BY <1>5 DEF ReadTotal, TypeOK, StatusInv, Holds
  <2>2. /\ req'[w] = [req[w] EXCEPT !.pc = "paid", !.sum = total[o]]
        /\ UNCHANGED <<orderVars, paymentVars>>
    BY <1>5 DEF ReadTotal, TypeOK
  <2>3. /\ req'[w].pc = "paid" /\ req'[w].order = o
        /\ req'[w].round = req[w].round /\ req'[w].sum = total[o]
    BY <2>1, <2>2 DEF Requests
  <2>4. \A q : Due(q)' = Due(q) /\ PaymentsOf(q)' = PaymentsOf(q)
    BY <2>2, DuesKept DEF orderVars, paymentVars
  <2>5. Holds(req[w])' /\ Settling(req[w])' = Settling(req[w])
    <3> HIDE DEF o
    <3> QED
      BY <2>1, <2>2, <2>3, <2>4 DEF Holds, Settling, orderVars, o
  <2> QED
    BY <2>2, <2>5, StatusPayment DEF paymentVars
<1>6. CASE ReadPaid(w)
  <2> DEFINE o == req[w].order
  <2>1. /\ req[w] \in Requests /\ req[w].pc = "paid" /\ o \in orders /\ PaymentsOf(o) # {}
        /\ req[w].round = 2 /\ Due(o) = "PAID" => row[o].status = "PAID"
        /\ req[w].sum = total[o] /\ req[w].round \in {1, 2} /\ req[w].row \in Rows
    BY <1>6 DEF ReadPaid, TypeOK, StatusInv, Holds, Requests
  <2>2. /\ UNCHANGED <<orderVars, paymentVars>>
        /\ Covered(req[w]) => Due(o) = "PAID"
        /\ ~Covered(req[w]) => Due(o) = "PARTIALLY_PAID"
    BY <1>6, <2>1 DEF ReadPaid, Covered, Due, Balance
  <2>3. \A q : Due(q)' = Due(q) /\ PaymentsOf(q)' = PaymentsOf(q)
    BY <2>2, DuesKept DEF orderVars, paymentVars
  <2>4. CASE req[w].round = 1 /\ Covered(req[w])
    <3>1. PICK today \in Days :
             req' = [req EXCEPT ![w].pc = "saveStatus", ![w].row = Paid(@, today)]
      BY <1>6, <2>4 DEF ReadPaid
    <3>2. req'[w] = [req[w] EXCEPT !.pc = "saveStatus", !.row = Paid(@, today)]
      BY <3>1 DEF TypeOK
    <3>3. /\ req'[w].pc = "saveStatus" /\ req'[w].order = o /\ req'[w].round = 1
          /\ req'[w].row = Paid(req[w].row, today)
      BY <2>1, <2>4, <3>2 DEF Requests
    <3>4. req'[w].row.status = "PAID"
      BY <2>1, <3>3 DEF Paid, Rows
    <3>5. Holds(req[w])' /\ Settling(req[w])' = Settling(req[w])
      BY <2>1, <2>2, <2>3, <2>4, <3>3, <3>4 DEF Holds, Settling, orderVars
    <3> QED
      BY <2>2, <3>5, StatusPayment DEF paymentVars
  <2>5. CASE req[w].round = 1 /\ ~Covered(req[w])
    <3>1. req' = [req EXCEPT ![w].pc = "total", ![w].round = 2]
      BY <1>6, <2>5 DEF ReadPaid
    <3>r. req'[w] = [req[w] EXCEPT !.pc = "total", !.round = 2]
      BY <3>1 DEF TypeOK
    <3>2. req'[w].pc = "total" /\ req'[w].order = o /\ req'[w].round = 2
      BY <2>1, <3>r DEF Requests
    <3>3. Holds(req[w])' /\ Settling(req[w])' = Settling(req[w])
      BY <2>1, <2>2, <2>3, <2>5, <3>2 DEF Holds, Settling, orderVars
    <3> QED
      BY <2>2, <3>3, StatusPayment DEF paymentVars
  <2>6. CASE req[w].round = 2 /\ ~Covered(req[w])
    <3>1. req' = [req EXCEPT ![w].pc = "saveStatus", ![w].row = PartlyPaid(@)]
      BY <1>6, <2>6 DEF ReadPaid
    <3>r. req'[w] = [req[w] EXCEPT !.pc = "saveStatus", !.row = PartlyPaid(@)]
      BY <3>1 DEF TypeOK
    <3>2. /\ req'[w].pc = "saveStatus" /\ req'[w].order = o /\ req'[w].round = 2
          /\ req'[w].row = PartlyPaid(req[w].row)
      BY <2>1, <2>6, <3>r DEF Requests
    <3>3. req'[w].row.status = "PARTIALLY_PAID"
      BY <2>1, <3>2 DEF PartlyPaid, Rows
    <3>4. Holds(req[w])' /\ Settling(req[w])' = Settling(req[w])
      BY <2>1, <2>2, <2>3, <2>6, <3>2, <3>3 DEF Holds, Settling, orderVars
    <3> QED
      BY <2>2, <3>4, StatusPayment DEF paymentVars
  <2>7. CASE req[w].round = 2 /\ Covered(req[w])
    <3>1. req'[w].pc = "idle"
      BY <1>6, <2>7, OtherRequests DEF ReadPaid, Reply, Idle
    <3>2. Holds(req[w])' /\ Settling(req[w])' = None
      BY <3>1, NothingHeld
    <3>3. row[o].status = Due(o) /\ Settling(req[w]) = o
      BY <2>1, <2>2, <2>7 DEF Settling
    <3>4. KeysUsed' /\ \A q \in orders' : row'[q].status = Due(q)'
      BY <2>2, <2>3, <3>3 DEF StatusInv, KeysUsed, orderVars, paymentVars
    <3> QED
      BY <3>2, <3>4, StatusRest
  <2> QED
    BY <2>1, <2>4, <2>5, <2>6, <2>7
<1>7. CASE SaveStatus(w)
  BY <1>7, StatusSaved
<1> QED
  BY <1>1, <1>2, <1>3, <1>4, <1>5, <1>6, <1>7

\* Confirming an order leaves its status alone.
LEMMA ConfirmationSettled ==
    ASSUME TypeOK, NEW w \in Workers, StatusInv(w),
           FindCode(w) \/ GetOrder(w) \/ SaveConfirmed(w) \/ DropCode(w)
    PROVE  StatusInv(w)'
<1>1. Settling(req[w]) = None
  BY DEF FindCode, GetOrder, SaveConfirmed, DropCode, Begin, Free, Settling
<1>2. UNCHANGED <<orders, freshOrders, total, paymentVars>>
  BY DEF FindCode, GetOrder, SaveConfirmed, DropCode, orderVars
<1>3. \A o \in orders : row'[o].status = row[o].status
  <2>1. CASE SaveConfirmed(w)
    <3>1. \A o \in orders : row[o] \in Rows /\ o \in OrderIds
      BY DEF TypeOK
    <3>2. \A o \in orders : row'[o] = row[o] \/ row'[o] = [row[o] EXCEPT !.confirmed = TRUE]
      BY <2>1, <3>1 DEF SaveConfirmed, TypeOK
    <3> QED
      BY <3>1, <3>2 DEF Rows
  <2>2. CASE ~SaveConfirmed(w)
    BY <2>2 DEF FindCode, GetOrder, DropCode, orderVars
  <2> QED
    BY <2>1, <2>2
<1>4. ASSUME req'[w].pc \in {"idle", "getOrder", "saveConfirmed", "dropCode"}
      PROVE  StatusInv(w)'
  BY <1>1, <1>2, <1>3, <1>4, StatusQuiet DEF Holds, Settling
<1>5. CASE FindCode(w)
  <2> DEFINE r(k) == [Idle EXCEPT !.pc = "getOrder", !.order = k.order, !.code = k.code]
  <2>1. PICK k \in codes : req' = [req EXCEPT ![w] = r(k)]
    BY <1>5 DEF FindCode, Begin
  <2>2. r(k).pc = "getOrder"
    BY DEF Idle
  <2> HIDE DEF r
  <2> QED
    BY <1>4, <2>1, <2>2, OtherRequests
<1>6. CASE ~FindCode(w)
  <2>1. Reply(w) \/ Goto(w, "dropCode") \/ Goto(w, "saveConfirmed")
    BY <1>6 DEF GetOrder, SaveConfirmed, DropCode
  <2>2. req[w] \in Requests
    BY DEF TypeOK
  <2>3. \A pc : [req[w] EXCEPT !.pc = pc].pc = pc
    BY <2>2 DEF Requests
  <2>4. req'[w].pc \in {"idle", "dropCode", "saveConfirmed"}
    <3>1. CASE Reply(w)
      BY <3>1 DEF Reply, Idle, TypeOK
    <3>2. ASSUME NEW pc \in {"dropCode", "saveConfirmed"}, Goto(w, pc)
          PROVE  req'[w].pc = pc
      <4>1. req'[w] = [req[w] EXCEPT !.pc = pc]
        BY <3>2 DEF Goto, TypeOK
      <4> QED
        BY <2>3, <4>1
    <3> QED
      BY <2>1, <3>1, <3>2
  <2> QED
    BY <1>4, <2>4
<1> QED
  BY <1>5, <1>6

(* With one worker, that is not killed, items that do not change once an   *)
(* order is paid for, and payments that stay with their order, the status  *)
(* of every order agrees with its balance whenever no request is under way. *)
THEOREM StatusesAreDue ==
    ASSUME NEW w, OneAtATime(w)
    PROVE  Spec => []StatusMatchesBalance
<1>w. w \in Workers
  BY DEF OneAtATime
<1>1. Init => StatusInv(w)
  BY <1>w DEF Init, StatusInv, KeysUsed, Holds, Idle
<1>2. TypeOK /\ StatusInv(w) /\ [Next]_vars => StatusInv(w)'
  <2> SUFFICES ASSUME TypeOK, StatusInv(w), [Next]_vars PROVE StatusInv(w)'
    OBVIOUS
  <2>1. CASE UNCHANGED vars
    <3>1. Holds(req[w])' /\ Settling(req[w])' = Settling(req[w])
      <4>1. \A o : Due(o)' = Due(o) /\ PaymentsOf(o)' = PaymentsOf(o)
        BY <2>1, DuesKept DEF vars, orderVars, paymentVars
      <4> QED
        BY <2>1, <4>1 DEF vars, orderVars, paymentVars, Holds, Settling, StatusInv
    <3> QED
      BY <2>1, <3>1, StatusQuiet DEF vars, orderVars
  <2>2. CASE Next
    <3>1. Continue(w) \/ Accept(w)
      BY <2>2 DEF Next, OneAtATime, Kill
    <3> QED
      BY <1>w, <3>1, OrdersSettled, PaymentsSettled, ConfirmationSettled DEF Continue, Accept
  <2> QED
    BY <2>1, <2>2
<1>3. TypeOK /\ StatusInv(w) => StatusMatchesBalance
  <2> SUFFICES ASSUME TypeOK, StatusInv(w), Free(w), NEW o \in orders
               PROVE  row[o].status = Due(o)
    BY <1>w DEF StatusMatchesBalance, Due
  <2> QED
    BY LifecycleAssumption DEF StatusInv, Settling, Free, TypeOK
<1> QED
  BY <1>1, <1>2, <1>3, TypeCorrect, PTL DEF Spec
=============================================================================
