--------------------------- MODULE OrderLifecycle ---------------------------
(***************************************************************************)
(* An order from its placement to its payment: the Order row, its          *)
(* payments, and the confirmation code of a customer the shop does not     *)
(* know yet.                                                               *)
(*                                                                         *)
(* A payment does not add to a counter: Payment.save() inserts the payment *)
(* and then works the balance of the order out again, twice, and saves the *)
(* whole Order row it had read before.  Editing an order saves the whole   *)
(* row as well.  Requests of the sync workers interleave between database  *)
(* statements, so that a save may write columns somebody else has changed  *)
(* since, or a row somebody else has deleted.                              *)
(***************************************************************************)
EXTENDS Integers, FiniteSets
LOCAL INSTANCE Functions

CONSTANTS
    Workers,       \* the worker processes
    Killable,      \* the workers that may be killed in the middle of a request
    OrderIds,      \* the primary keys orders can have
    PaymentIds,    \* the primary keys payments can have
    Codes,         \* the values confirmation codes can have
    Amounts,       \* the amounts clients pay
    Totals,        \* what the items of an order may cost together
    Days,          \* the dates
    PutConfirmed,  \* the values of "confirmed" in an admin's payload
    PutPaidOn,     \* the values of "paid_on" in an admin's payload
    Calls,         \* the endpoints that are called
    LateItems,     \* whether items change after the first payment
    None           \* an absent value

ASSUME LifecycleAssumption ==
    /\ Killable \subseteq Workers
    /\ Amounts \subseteq Nat /\ Totals \subseteq Nat
    /\ PutConfirmed \subseteq BOOLEAN
    /\ PutPaidOn \subseteq Days \cup {None}
    /\ Calls \subseteq {"create", "place", "confirm", "edit", "delete", "items",
                        "pay", "editPayment", "movePayment"}
    /\ LateItems \in BOOLEAN
    /\ None \notin Days \cup OrderIds \cup PaymentIds \cup Codes

VARIABLES
    orders,        \* the primary keys of the Order rows there are
    row,           \* the columns of an order that are read here
    freshOrders,   \* order keys never used
    total,         \* the sum of the costs of an order's items
    payments,      \* the primary keys of the Payment rows there are
    payOf,         \* column order of Payment
    amount,        \* column amount of Payment
    freshPayments, \* payment keys never used
    codes,         \* the rows of OrderConfirmationCode
    req            \* what each worker's request holds in memory

orderVars == <<orders, row, freshOrders, total>>
paymentVars == <<payments, payOf, amount, freshPayments>>
vars == <<orderVars, paymentVars, codes, req>>

Rows == [status : {"PENDING", "PARTIALLY_PAID", "PAID"},
         paidOn : Days \cup {None},
         confirmed : BOOLEAN]

NoRow == [status |-> "PENDING", paidOn |-> None, confirmed |-> TRUE]

\* Order.amount_paid and Order.balance, in one expression over the tables.
PaymentsOf(o) == {p \in payments : payOf[p] = o}
AmountPaid(o) == SumFunction([p \in PaymentsOf(o) |-> amount[p]])
Balance(o) == total[o] - AmountPaid(o)

-----------------------------------------------------------------------------
(* A request in memory.  "row" is the order as this request read it,       *)
(* patched by what it is about to save; "sum" is the total it read.  A     *)
(* payment settles the status in two rounds, one for each "if".            *)

Idle == [pc |-> "idle", order |-> None, payment |-> None, amount |-> 0,
         round |-> 1, sum |-> 0, row |-> NoRow, code |-> None]

Requests ==
    [pc : {"idle", "saveOrder", "createCode", "writePayment", "patchPayment",
           "fetchOrder", "total", "paid", "saveStatus",
           "getOrder", "saveConfirmed", "dropCode"},
     order : OrderIds \cup {None},
     payment : PaymentIds \cup {None},
     amount : Nat,
     round : {1, 2},
     sum : Nat,
     row : Rows,
     code : Codes \cup {None}]

Free(w) == req[w].pc = "idle"

Begin(w, call, r) == Free(w) /\ call \in Calls /\ req' = [req EXCEPT ![w] = r]

\* The response goes out and the worker is free again.
Reply(w) == req' = [req EXCEPT ![w] = Idle]

Goto(w, pc) == req' = [req EXCEPT ![w].pc = pc]

\* Mistake to be caught: the save names the status column only.
WriteOrder_StatusOnly(o, r) ==
    /\ orders' = orders \cup {o}
    /\ row' = [row EXCEPT ![o].status = r.status]

\* Order.save(): every column, UPDATE first and INSERT if there is no row.
WriteOrder(o, r) ==
    /\ orders' = orders \cup {o}
    /\ row' = [row EXCEPT ![o] = r]

-----------------------------------------------------------------------------
(* Orders.                                                                 *)

\* The INSERT of a new order with these columns.
InsertOrder(o, confirmed, paidOn) ==
    /\ o \in freshOrders
    /\ freshOrders' = freshOrders \ {o}
    /\ WriteOrder(o, [status |-> "PENDING", paidOn |-> paidOn, confirmed |-> confirmed])

\* OrdersEndpoint POST, by an admin: payment_status is read-only, confirmed is
\* true unless the payload has it.
CreateOrder(w) ==
    /\ Begin(w, "create", Idle)
    /\ \E o \in freshOrders, c \in {TRUE} \cup PutConfirmed, d \in {None} \cup PutPaidOn :
          InsertOrder(o, c, d)
    /\ UNCHANGED <<total, paymentVars, codes>>

\* CustomersPlaceOrderEndpoint: the order of a customer the store knows is
\* confirmed; another one waits for a code, created by a statement of its own.
PlaceOrder(w) ==
    /\ \E o \in freshOrders, known \in BOOLEAN, d \in {None} \cup PutPaidOn :
          /\ InsertOrder(o, known, d)
          /\ Begin(w, "place",
                   IF known THEN Idle
                   ELSE [Idle EXCEPT !.pc = "createCode", !.order = o])
    /\ UNCHANGED <<total, paymentVars, codes>>

CreateCode(w) ==
    /\ req[w].pc = "createCode"
    /\ \/ /\ req[w].order \in orders
          /\ \E c \in Codes : codes' = codes \cup {[order |-> req[w].order, code |-> c]}
       \/ /\ req[w].order \notin orders
          /\ UNCHANGED codes
    /\ Reply(w)
    /\ UNCHANGED <<orderVars, paymentVars>>

\* OrderEndpoint PUT: get_object reads the row, the payload patches it.
LoadOrder(w) ==
    /\ \E o \in orders :
       \E c \in {row[o].confirmed} \cup PutConfirmed, d \in {row[o].paidOn} \cup PutPaidOn :
          Begin(w, "edit", [Idle EXCEPT !.pc = "saveOrder", !.order = o,
                                        !.row = [row[o] EXCEPT !.confirmed = c, !.paidOn = d]])
    /\ UNCHANGED <<orderVars, paymentVars, codes>>

SaveOrder(w) ==
    /\ req[w].pc = "saveOrder"
    /\ WriteOrder(req[w].order, req[w].row)
    /\ Reply(w)
    /\ UNCHANGED <<freshOrders, total, paymentVars, codes>>

\* OrderEndpoint DELETE cascades to items, payments and codes.
DeleteOrder(w) ==
    /\ Begin(w, "delete", Idle)
    /\ \E o \in orders :
          /\ orders' = orders \ {o}
          /\ total' = [total EXCEPT ![o] = 0]
          /\ payments' = {p \in payments : payOf[p] # o}
          /\ codes' = {k \in codes : k.order # o}
    /\ UNCHANGED <<row, freshOrders, payOf, amount, freshPayments>>

\* Nobody has paid for the order, or is about to.
ItemsSettle(o) ==
    /\ PaymentsOf(o) = {}
    /\ \A w \in Workers : req[w].order # o

\* Items of the order are created, edited or deleted: its total changes, and
\* nothing else does.
ChangeItems(w) ==
    /\ Begin(w, "items", Idle)
    /\ \E o \in orders, n \in Totals :
          /\ LateItems \/ ItemsSettle(o)
          /\ total' = [total EXCEPT ![o] = n]
    /\ UNCHANGED <<orders, row, freshOrders, paymentVars, codes>>

-----------------------------------------------------------------------------
(* Payments.                                                               *)

\* PaymentsEndpoint POST: the order named in the payload is read.
ValidatePayment(w) ==
    /\ \E o \in orders, n \in Amounts, p \in freshPayments :
          /\ Begin(w, "pay", [Idle EXCEPT !.pc = "writePayment", !.order = o,
                                          !.payment = p, !.amount = n, !.row = row[o]])
          /\ freshPayments' = freshPayments \ {p}
    /\ UNCHANGED <<orderVars, payments, payOf, amount, codes>>

\* PaymentEndpoint PUT: the payment is read; its order is read too if the
\* payload names one, else only when Payment.save() needs it.
LoadPayment(w) ==
    /\ \E p \in payments, o \in orders :
       \E n \in {amount[p]} \cup Amounts :
          \/ /\ o = payOf[p]
             /\ Begin(w, "editPayment", [Idle EXCEPT !.pc = "patchPayment", !.order = o,
                                                     !.payment = p, !.amount = n])
          \/ Begin(w, "movePayment", [Idle EXCEPT !.pc = "writePayment", !.order = o,
                                                  !.payment = p, !.amount = n, !.row = row[o]])
    /\ UNCHANGED <<orderVars, paymentVars, codes>>

\* super().save() of Payment.
WritePayment(r) ==
    /\ payments' = payments \cup {r.payment}
    /\ payOf' = [payOf EXCEPT ![r.payment] = r.order]
    /\ amount' = [amount EXCEPT ![r.payment] = r.amount]

\* The order is a foreign key: without it the save is an IntegrityError.
SavePayment(w) ==
    /\ req[w].pc \in {"writePayment", "patchPayment"}
    /\ \/ /\ req[w].order \in orders
          /\ WritePayment(req[w])
          /\ Goto(w, IF req[w].pc = "patchPayment" THEN "fetchOrder" ELSE "total")
       \/ /\ req[w].order \notin orders
          /\ Reply(w)
          /\ UNCHANGED <<payments, payOf, amount>>
    /\ UNCHANGED <<orderVars, freshPayments, codes>>

\* self.order, when the request has not read it yet.
FetchOrder(w) ==
    /\ req[w].pc = "fetchOrder"
    /\ \/ /\ req[w].order \in orders
          /\ req' = [req EXCEPT ![w].pc = "total", ![w].row = row[req[w].order]]
       \/ /\ req[w].order \notin orders
          /\ Reply(w)
    /\ UNCHANGED <<orderVars, paymentVars, codes>>

\* Mistake to be caught: the payments are subtracted here already.
ReadTotal_LessPaid(w) ==
    /\ req[w].pc = "total"
    /\ req' = [req EXCEPT ![w].pc = "paid", ![w].sum = Balance(req[w].order)]
    /\ UNCHANGED <<orderVars, paymentVars, codes>>

\* The first half of self.order.balance: the sum over the items.
ReadTotal(w) ==
    /\ req[w].pc = "total"
    /\ req' = [req EXCEPT ![w].pc = "paid", ![w].sum = total[req[w].order]]
    /\ UNCHANGED <<orderVars, paymentVars, codes>>

\* Mistake to be caught: an exact payment does not settle the order.
Covered_Strictly(r) == r.sum - AmountPaid(r.order) < 0

\* The second half, the sum over the payments, and the comparison with zero.
Covered(r) == r.sum - AmountPaid(r.order) <= 0

\* What they assign to the order: the date is never taken back.
Paid(r, today) == [r EXCEPT !.status = "PAID", !.paidOn = today]
PartlyPaid(r) == [r EXCEPT !.status = "PARTIALLY_PAID"]

\* The two "if"s of Payment.save(), one for each round.
ReadPaid(w) ==
    /\ req[w].pc = "paid"
    /\ \/ /\ req[w].round = 1 /\ Covered(req[w])
          /\ \E today \in Days :
                req' = [req EXCEPT ![w].pc = "saveStatus", ![w].row = Paid(@, today)]
       \/ /\ req[w].round = 1 /\ ~Covered(req[w])
          /\ req' = [req EXCEPT ![w].pc = "total", ![w].round = 2]
       \/ /\ req[w].round = 2 /\ ~Covered(req[w])
          /\ req' = [req EXCEPT ![w].pc = "saveStatus", ![w].row = PartlyPaid(@)]
       \/ /\ req[w].round = 2 /\ Covered(req[w])
          /\ Reply(w)
    /\ UNCHANGED <<orderVars, paymentVars, codes>>

\* self.order.save().
SaveStatus(w) ==
    /\ req[w].pc = "saveStatus"
    /\ WriteOrder(req[w].order, req[w].row)
    /\ \/ req[w].round = 1 /\ req' = [req EXCEPT ![w].pc = "total", ![w].round = 2]
       \/ req[w].round = 2 /\ Reply(w)
    /\ UNCHANGED <<freshOrders, total, paymentVars, codes>>

-----------------------------------------------------------------------------
(* Confirmation by the customer.                                           *)

\* get(code=...) returns this row: no other one has the same code.
Findable(k) == \A j \in codes : j.code = k.code => j = k

\* OrderConfirmationCode.objects.get(code=...): with no such row the answer is
\* 400, with several MultipleObjectsReturned; nothing changes in either case.
FindCode(w) ==
    /\ \E k \in codes :
          /\ Findable(k)
          /\ Begin(w, "confirm", [Idle EXCEPT !.pc = "getOrder",
                                              !.order = k.order, !.code = k.code])
    /\ UNCHANGED <<orderVars, paymentVars, codes>>

\* Mistake to be caught: the test of "confirmed" is the wrong way round.
GetOrder_Swapped(w) ==
    /\ req[w].pc = "getOrder"
    /\ \/ req[w].order \notin orders /\ Reply(w)
       \/ req[w].order \in orders /\ ~row[req[w].order].confirmed /\ Goto(w, "dropCode")
       \/ req[w].order \in orders /\ row[req[w].order].confirmed /\ Goto(w, "saveConfirmed")
    /\ UNCHANGED <<orderVars, paymentVars, codes>>

\* Order.objects.get: without the order an error, a confirmed one is not saved.
GetOrder(w) ==
    /\ req[w].pc = "getOrder"
    /\ \/ req[w].order \notin orders /\ Reply(w)
       \/ req[w].order \in orders /\ row[req[w].order].confirmed /\ Goto(w, "dropCode")
       \/ req[w].order \in orders /\ ~row[req[w].order].confirmed /\ Goto(w, "saveConfirmed")
    /\ UNCHANGED <<orderVars, paymentVars, codes>>

\* save(update_fields=["confirmed"]): an UPDATE of one column, and a
\* DatabaseError when the row is gone.
SaveConfirmed(w) ==
    /\ req[w].pc = "saveConfirmed"
    /\ \/ /\ req[w].order \in orders
          /\ row' = [row EXCEPT ![req[w].order].confirmed = TRUE]
          /\ Goto(w, "dropCode")
       \/ /\ req[w].order \notin orders
          /\ Reply(w)
          /\ UNCHANGED row
    /\ UNCHANGED <<orders, freshOrders, total, paymentVars, codes>>

\* Mistake to be caught: the code stays valid after it was used.
DropCode_Kept(w) ==
    /\ req[w].pc = "dropCode"
    /\ Reply(w)
    /\ UNCHANGED <<orderVars, paymentVars, codes>>

\* confirmation_code.delete(), then the mail to the store.
DropCode(w) ==
    /\ req[w].pc = "dropCode"
    /\ codes' = codes \ {[order |-> req[w].order, code |-> req[w].code]}
    /\ Reply(w)
    /\ UNCHANGED <<orderVars, paymentVars>>

-----------------------------------------------------------------------------
\* The master kills a worker that takes too long and starts another.
Kill(w) ==
    /\ w \in Killable /\ ~Free(w)
    /\ Reply(w)
    /\ UNCHANGED <<orderVars, paymentVars, codes>>

Init ==
    /\ orders = {} /\ freshOrders = OrderIds
    /\ row = [o \in OrderIds |-> NoRow]
    /\ total = [o \in OrderIds |-> 0]
    /\ payments = {} /\ freshPayments = PaymentIds
    /\ payOf = [p \in PaymentIds |-> None]
    /\ amount = [p \in PaymentIds |-> 0]
    /\ codes = {}
    /\ req = [w \in Workers |-> Idle]

\* The steps that go on with a request, and those that accept one.
Continue(w) ==
    \/ CreateCode(w) \/ SaveOrder(w)
    \/ SavePayment(w) \/ FetchOrder(w) \/ ReadTotal(w) \/ ReadPaid(w) \/ SaveStatus(w)
    \/ GetOrder(w) \/ SaveConfirmed(w) \/ DropCode(w)

Accept(w) ==
    \/ CreateOrder(w) \/ PlaceOrder(w) \/ LoadOrder(w) \/ DeleteOrder(w) \/ ChangeItems(w)
    \/ ValidatePayment(w) \/ LoadPayment(w) \/ FindCode(w)

Next == \E w \in Workers : Continue(w) \/ Accept(w) \/ Kill(w)

Spec == Init /\ [][Next]_vars

\* A worker that has accepted a request goes on with it; nobody has to call.
FairSpec == Spec /\ \A w \in Workers : WF_vars(Continue(w))

-----------------------------------------------------------------------------
(* Every table and every request has the shape the code gives it.          *)
TypeOK ==
    /\ orders \subseteq OrderIds
    /\ freshOrders \subseteq OrderIds
    /\ row \in [OrderIds -> Rows]
    /\ total \in [OrderIds -> Nat]
    /\ payments \subseteq PaymentIds
    /\ freshPayments \subseteq PaymentIds
    /\ payOf \in [PaymentIds -> OrderIds \cup {None}]
    /\ amount \in [PaymentIds -> Nat]
    /\ codes \subseteq [order : OrderIds, code : Codes]
    /\ req \in [Workers -> Requests]
    /\ \A w \in Workers :
          /\ ~Free(w) => req[w].order \in OrderIds
          /\ req[w].pc \in {"writePayment", "patchPayment"} => req[w].payment \in PaymentIds

Dated(r) == r.status = "PAID" => r.paidOn # None

(* An order whose status is PAID has the date it was paid on: the profit   *)
(* of a period counts orders by that date.  Holds however whole rows are   *)
(* overwritten by saves of older copies, since status and date are always  *)
(* written together; requires that no admin clears the date.               *)
PaidHasDate == \A o \in orders : Dated(row[o])

(* The status agrees with the balance whenever no request is under way.    *)
StatusMatchesBalance ==
    (\A w \in Workers : Free(w))
    => \A o \in orders :
          row[o].status =
             IF PaymentsOf(o) = {} THEN "PENDING"
             ELSE IF Balance(o) <= 0 THEN "PAID" ELSE "PARTIALLY_PAID"

(* A customer whose order is not confirmed can still confirm it: the code  *)
(* of the order is found by its value, or about to be created.  The one    *)
(* exception is a code that a second order drew as well: then the endpoint *)
(* finds two rows and refuses, for both orders, until one of them is gone. *)
ConfirmableUnlessShared ==
    \A o \in orders :
       \/ row[o].confirmed
       \/ \E k \in codes : k.order = o /\ Findable(k)
       \/ \E k, j \in codes : k.order = o /\ j.order # o /\ j.code = k.code
       \/ \E w \in Workers : req[w].pc = "createCode" /\ req[w].order = o

(* A confirmation that found the customer's code ends with the order       *)
(* confirmed or deleted and the code used up, whatever the other requests  *)
(* do meanwhile.                                                           *)
ConfirmationEnds ==
    \A o \in OrderIds, c \in Codes :
       (\E w \in Workers : req[w].pc = "getOrder" /\ req[w].order = o /\ req[w].code = c)
       ~> /\ o \in orders => row[o].confirmed
          /\ [order |-> o, code |-> c] \notin codes
=============================================================================
