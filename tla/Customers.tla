----------------------------- MODULE Customers -----------------------------
(***************************************************************************)
(* The customers of the stores, and their e-mail addresses.                *)
(*                                                                         *)
(* A customer is looked up by e-mail address, then by telephone number,    *)
(* with get(), which fails when there are two; no column is unique.  What  *)
(* keeps the addresses of a store apart is a validator that looks for      *)
(* another customer before a row is inserted or saved by a statement of    *)
(* its own.  Saves write the whole row a request has read before.          *)
(***************************************************************************)
EXTENDS Integers, FiniteSets

CONSTANTS
    Workers,      \* the worker processes
    Stores,       \* the stores
    CustomerIds,  \* the primary keys customers can have
    Addresses,    \* the values of the column email
    Blanks,       \* those that are no address: null and the empty string
    Phones,       \* the values of the column phone_number
    NoPhone,      \* the one that is no number
    PutStores,    \* the values of "store_id" in the payload of a PUT
    None          \* an absent value

ASSUME CustomersAssumption ==
    /\ IsFiniteSet(Workers) /\ IsFiniteSet(CustomerIds)
    /\ Blanks \subseteq Addresses
    /\ NoPhone \in Phones
    /\ PutStores \subseteq Stores
    /\ None \notin Stores \cup CustomerIds \cup Addresses
    /\ None \notin (Stores \X Addresses) \X CustomerIds

VARIABLES
    customer,        \* the rows of Customer: a function of their primary keys
    freshCustomers,  \* customer keys never used
    req              \* what each worker's request holds in memory

vars == <<customer, freshCustomers, req>>

Emails == Addresses \ Blanks

Rows == [store : Stores, email : Addresses, phone : Phones]

\* The rows there are, and those that filters of the look-ups select.
Customers == DOMAIN customer
WithEmail(s, a) == {c \in Customers : customer[c].store = s /\ customer[c].email = a}
WithPhone(s, n) == {c \in Customers : customer[c].store = s /\ customer[c].phone = n}

-----------------------------------------------------------------------------
(* A request in memory: the row it will write and, for a PUT, the store of *)
(* the row it has read, which the validator looks at.                      *)

Idle == [pc |-> "idle", customer |-> None, row |-> None, readStore |-> None]

Requests ==
    [pc : {"idle", "findPhone", "validate", "insert", "validateEdit", "save"},
     customer : CustomerIds \cup {None},
     row : Rows \cup {None},
     readStore : Stores \cup {None}]

Free(w) == req[w].pc = "idle"
At(w, pc) == req[w].pc = pc
Become(w, r) == req' = [req EXCEPT ![w] = r]
Goto(w, pc) == Become(w, [req[w] EXCEPT !.pc = pc])
Reply(w) == Become(w, Idle)

-----------------------------------------------------------------------------
(* CustomersPlaceOrderEndpoint POST, up to the customer of the order.  One *)
(* that is found is known and the order is confirmed; several are an error *)
(* (MultipleObjectsReturned, which is not caught).  Either ends here; the  *)
(* order is placed by PlaceOrder of module OrderLifecycle.                 *)

FindByEmail(w) ==
    /\ Free(w)
    /\ \E r \in Rows :
          IF r.email \in Emails /\ WithEmail(r.store, r.email) # {}
          THEN Reply(w)
          ELSE Become(w, [Idle EXCEPT !.pc = "findPhone", !.row = r])
    /\ UNCHANGED <<customer, freshCustomers>>

FindByPhone(w) ==
    /\ At(w, "findPhone")
    /\ LET r == req[w].row
       IN  IF r.phone # NoPhone /\ WithPhone(r.store, r.phone) # {}
           THEN Reply(w)
           ELSE Goto(w, "validate")
    /\ UNCHANGED <<customer, freshCustomers>>

\* CustomersEndpoint POST, by an admin: no look-up, the same serializer.
PostCustomer(w) ==
    /\ Free(w)
    /\ \E r \in Rows : Become(w, [Idle EXCEPT !.pc = "validate", !.row = r])
    /\ UNCHANGED <<customer, freshCustomers>>

\* Mistake to be caught: a customer of another store with the address is taken
\* for one of this store, one of this store is not.
ValidateNew_WrongStore(w) ==
    /\ At(w, "validate")
    /\ LET r == req[w].row
       IN  IF \E s \in Stores \ {r.store} : WithEmail(s, r.email) # {}
           THEN Reply(w) /\ UNCHANGED freshCustomers
           ELSE \E c \in freshCustomers :
                   /\ freshCustomers' = freshCustomers \ {c}
                   /\ Become(w, [req[w] EXCEPT !.pc = "insert", !.customer = c])
    /\ UNCHANGED customer

\* Mistake to be caught: the new row has no key.
ValidateNew_NoKey(w) ==
    /\ At(w, "validate")
    /\ LET r == req[w].row
       IN  IF WithEmail(r.store, r.email) # {}
           THEN Reply(w)
           ELSE Goto(w, "insert")
    /\ UNCHANGED <<customer, freshCustomers>>

\* CustomerSerializer.validate: no other customer of the store has the same
\* value in the column, be it an address or not.
ValidateNew(w) ==
    /\ At(w, "validate")
    /\ LET r == req[w].row
       IN  IF WithEmail(r.store, r.email) # {}
           THEN Reply(w) /\ UNCHANGED freshCustomers
           ELSE \E c \in freshCustomers :
                   /\ freshCustomers' = freshCustomers \ {c}
                   /\ Become(w, [req[w] EXCEPT !.pc = "insert", !.customer = c])
    /\ UNCHANGED customer

\* A save writes every column.
Write(w) ==
    customer' = [c \in Customers \cup {req[w].customer} |->
                    IF c = req[w].customer THEN req[w].row ELSE customer[c]]

InsertCustomer(w) ==
    /\ At(w, "insert")
    /\ Write(w)
    /\ Reply(w)
    /\ UNCHANGED freshCustomers

(* CustomerEndpoint PUT.                                                   *)

\* get_object reads the row, the payload patches it.  The address is validated
\* when the payload has one; an absent or a blank one is not.
LoadCustomer(w) ==
    /\ Free(w)
    /\ \E c \in Customers :
       \E s \in {customer[c].store} \cup PutStores, n \in {customer[c].phone} \cup Phones :
          LET Edited(a) == [store |-> s, email |-> a, phone |-> n]
              Edit(pc, a) == Become(w, [pc |-> pc, customer |-> c, row |-> Edited(a),
                                        readStore |-> customer[c].store])
          IN  \/ \E a \in Emails : Edit("validateEdit", a)
              \/ \E a \in Blanks \cup {customer[c].email} : Edit("save", a)
    /\ UNCHANGED <<customer, freshCustomers>>

\* Mistake to be caught: a customer with the new address is no obstacle.
ValidateEdit_Unchecked(w) ==
    /\ At(w, "validateEdit")
    /\ Goto(w, "save")
    /\ UNCHANGED <<customer, freshCustomers>>

\* EditCustomerSerializer.validate leaves the customer itself out, and looks
\* at the store the customer was read with.
ValidateEdit(w) ==
    /\ At(w, "validateEdit")
    /\ IF WithEmail(req[w].readStore, req[w].row.email) \ {req[w].customer} # {}
       THEN Reply(w)
       ELSE Goto(w, "save")
    /\ UNCHANGED <<customer, freshCustomers>>

SaveCustomer(w) ==
    /\ At(w, "save")
    /\ Write(w)
    /\ Reply(w)
    /\ UNCHANGED freshCustomers

\* gunicorn's master kills a worker.
Kill(w) ==
    /\ ~Free(w)
    /\ Reply(w)
    /\ UNCHANGED <<customer, freshCustomers>>

-----------------------------------------------------------------------------
Init ==
    /\ customer = [c \in {} |-> None]
    /\ freshCustomers = CustomerIds
    /\ req = [w \in Workers |-> Idle]

Next ==
    \E w \in Workers :
       \/ FindByEmail(w) \/ FindByPhone(w) \/ PostCustomer(w)
       \/ ValidateNew(w) \/ InsertCustomer(w)
       \/ LoadCustomer(w) \/ ValidateEdit(w) \/ SaveCustomer(w)
       \/ Kill(w)

Spec == Init /\ [][Next]_vars

-----------------------------------------------------------------------------
TypeOK ==
    /\ Customers \subseteq CustomerIds
    /\ customer \in [Customers -> Rows]
    /\ freshCustomers \subseteq CustomerIds
    /\ req \in [Workers -> Requests]

(* "Store customer with email already exists": an address belongs to one    *)
(* customer of a store, up to the requests that were under way together.    *)
(* With one worker get() by address never finds two; with more, one address *)
(* has at most as many customers as there are workers, including those that *)
(* a save of a row read long ago has given their old address back.          *)
EmailsBounded ==
    PutStores = {} =>
       \A s \in Stores, a \in Emails :
          Cardinality(WithEmail(s, a)) <= Cardinality(Workers)

\* The address of a customer that a request is about to write.
Holding(w) ==
    IF req[w].pc \in {"insert", "save"} /\ req[w].row.email \in Emails
    THEN <<<<req[w].row.store, req[w].row.email>>, req[w].customer>> ELSE None

Unique ==
    INSTANCE Admission
    WITH Groups <- Stores \X Emails,
         Keys <- CustomerIds,
         Limit <- [g \in Stores \X Emails |-> 1],
         present <- {m \in (Stores \X Emails) \X CustomerIds :
                        m[2] \in WithEmail(m[1][1], m[1][2])},
         held <- [w \in Workers |-> Holding(w)]

(* An address of a store is a check before a write with a limit of one, and *)
(* keeps what that promises.                                                *)
ImplementsAdmission == Unique!Spec
=============================================================================
