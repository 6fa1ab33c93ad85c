-------------------------- MODULE CustomersProofs --------------------------
(***************************************************************************)
(* Theorems about Customers, for any sets of workers, stores, addresses    *)
(* and keys: types, and that the validators implement a check before a     *)
(* write, which bounds how many customers share an address.                *)
(***************************************************************************)
EXTENDS Customers, FiniteSetTheorems, TLAPS

\* What a request knows at each of its statements.
WellFormed(r) ==
    /\ r \in Requests
    /\ r.pc # "idle" => r.row \in Rows
    /\ r.pc \in {"insert", "validateEdit", "save"} => r.customer \in CustomerIds
    /\ r.pc = "validateEdit" => r.readStore \in Stores
    /\ r.pc = "validateEdit" /\ PutStores = {} => r.row.store = r.readStore

TablesTyped ==
    /\ customer \in [Customers -> Rows] /\ Customers \subseteq CustomerIds
    /\ freshCustomers \subseteq CustomerIds

\* The inductive type invariant.
Typed ==
    /\ TablesTyped
    /\ req \in [Workers -> Requests]
    /\ \A w \in Workers : WellFormed(req[w])

-----------------------------------------------------------------------------
\* The inductive form implies the types.
LEMMA TypedImplies == Typed => TypeOK
BY DEF Typed, TablesTyped, TypeOK

\* A worker at rest.
LEMMA IdleWellFormed == WellFormed(Idle)
BY DEF WellFormed, Idle, Requests

\* A step that changes one request, to a well-formed one.
LEMMA RequestStep ==
    ASSUME Typed, NEW w \in Workers, NEW r, WellFormed(r),
           Become(w, r), TablesTyped'
    PROVE  Typed'
<1>1. r \in Requests
  BY DEF WellFormed
<1>2. req' \in [Workers -> Requests]
  BY <1>1 DEF Typed, Become
<1>3. \A v \in Workers : req'[v] = IF v = w THEN r ELSE req[v]
  BY DEF Typed, Become
<1> QED
  BY <1>2, <1>3 DEF Typed

\* A save of a typed row.
LEMMA WriteTyped ==
    ASSUME Typed, NEW w \in Workers, At(w, "insert") \/ At(w, "save"),
           Write(w), UNCHANGED freshCustomers
    PROVE  TablesTyped'
<1>1. req[w].customer \in CustomerIds /\ req[w].row \in Rows
  BY DEF Typed, WellFormed, At
<1>2. DOMAIN customer' = Customers \cup {req[w].customer}
  BY DEF Write
<1>3. \A c \in DOMAIN customer' : customer'[c] \in Rows
  BY <1>1, <1>2 DEF Write, Typed, TablesTyped
<1>4. customer' \in [DOMAIN customer' -> Rows]
  BY <1>3 DEF Write
<1> QED
  BY <1>1, <1>2, <1>4 DEF TablesTyped, Typed, Customers

\* Every step keeps the types.
LEMMA TypeStep ==
    ASSUME Typed, [Next]_vars
    PROVE  Typed'
<1>0. ASSUME UNCHANGED <<customer, freshCustomers>>
      PROVE  TablesTyped'
  BY <1>0 DEF Typed, TablesTyped, Customers
<1>1. ASSUME NEW w \in Workers, FindByEmail(w) PROVE Typed'
  <2>1. PICK r \in Rows :
           \/ Reply(w)
           \/ Become(w, [Idle EXCEPT !.pc = "findPhone", !.row = r])
    BY <1>1 DEF FindByEmail
  <2>2. WellFormed([Idle EXCEPT !.pc = "findPhone", !.row = r])
    BY DEF WellFormed, Idle, Requests
  <2>3. TablesTyped'
    BY <1>0, <1>1 DEF FindByEmail
  <2> QED
    BY <2>1, <2>2, <2>3, IdleWellFormed, RequestStep DEF Reply
<1>2. ASSUME NEW w \in Workers, FindByPhone(w) PROVE Typed'
  <2>1. Reply(w) \/ Goto(w, "validate")
    BY <1>2 DEF FindByPhone
  <2>2. WellFormed([req[w] EXCEPT !.pc = "validate"])
    BY <1>2 DEF FindByPhone, Typed, WellFormed, Requests, At
  <2>3. TablesTyped'
    BY <1>0, <1>2 DEF FindByPhone
  <2> QED
    BY <2>1, <2>2, <2>3, IdleWellFormed, RequestStep DEF Reply, Goto
<1>3. ASSUME NEW w \in Workers, PostCustomer(w) PROVE Typed'
  <2>1. PICK r \in Rows : Become(w, [Idle EXCEPT !.pc = "validate", !.row = r])
    BY <1>3 DEF PostCustomer
  <2>2. WellFormed([Idle EXCEPT !.pc = "validate", !.row = r])
    BY DEF WellFormed, Idle, Requests
  <2>3. TablesTyped'
    BY <1>0, <1>3 DEF PostCustomer
  <2> QED
    BY <2>1, <2>2, <2>3, RequestStep
<1>4. ASSUME NEW w \in Workers, ValidateNew(w) PROVE Typed'
  <2>1. CASE Reply(w) /\ UNCHANGED freshCustomers
    <3>1. TablesTyped'
      BY <1>0, <1>4, <2>1 DEF ValidateNew
    <3> QED
      BY <2>1, <3>1, IdleWellFormed, RequestStep DEF Reply
  <2>2. CASE \E c \in freshCustomers :
                /\ freshCustomers' = freshCustomers \ {c}
                /\ Become(w, [req[w] EXCEPT !.pc = "insert", !.customer = c])
    <3>1. PICK c \in freshCustomers :
             /\ freshCustomers' = freshCustomers \ {c}
             /\ Become(w, [req[w] EXCEPT !.pc = "insert", !.customer = c])
      BY <2>2
    <3>2. c \in CustomerIds
      BY DEF Typed, TablesTyped
    <3>3. WellFormed([req[w] EXCEPT !.pc = "insert", !.customer = c])
      BY <1>4, <3>2 DEF ValidateNew, Typed, WellFormed, Requests, At
    <3>4. TablesTyped'
      BY <1>4, <3>1 DEF ValidateNew, Typed, TablesTyped, Customers
    <3> QED
      BY <3>1, <3>3, <3>4, RequestStep
  <2> QED
    BY <1>4, <2>1, <2>2 DEF ValidateNew
<1>5. ASSUME NEW w \in Workers, InsertCustomer(w) PROVE Typed'
  <2>1. TablesTyped'
    BY <1>5, WriteTyped DEF InsertCustomer
  <2> QED
    BY <1>5, <2>1, IdleWellFormed, RequestStep DEF InsertCustomer, Reply
<1>6. ASSUME NEW w \in Workers, LoadCustomer(w) PROVE Typed'
  <2> DEFINE Edit(c, s, n, a, pc) ==
               [pc |-> pc, customer |-> c, row |-> [store |-> s, email |-> a, phone |-> n],
                readStore |-> customer[c].store]
  <2>1. PICK c \in Customers :
         \E s \in {customer[c].store} \cup PutStores, n \in {customer[c].phone} \cup Phones,
            a \in Addresses \cup {customer[c].email}, pc \in {"validateEdit", "save"} :
              Become(w, Edit(c, s, n, a, pc))
    BY <1>6, CustomersAssumption DEF LoadCustomer, Emails
  <2>2. PICK s \in {customer[c].store} \cup PutStores, n \in {customer[c].phone} \cup Phones,
             a \in Addresses \cup {customer[c].email}, pc \in {"validateEdit", "save"} :
           Become(w, Edit(c, s, n, a, pc))
    BY <2>1
  <2>3. c \in CustomerIds /\ customer[c] \in Rows
    BY DEF Typed, TablesTyped
  <2>4. WellFormed(Edit(c, s, n, a, pc))
    <3>1. s \in Stores /\ n \in Phones /\ a \in Addresses /\ customer[c].store \in Stores
      BY <2>3, CustomersAssumption DEF Rows
    <3> QED
      BY <2>3, <3>1 DEF WellFormed, Requests, Rows
  <2>5. TablesTyped'
    BY <1>0, <1>6 DEF LoadCustomer
  <2> QED
    BY <2>2, <2>4, <2>5, RequestStep
<1>7. ASSUME NEW w \in Workers, ValidateEdit(w) PROVE Typed'
  <2>1. Reply(w) \/ Goto(w, "save")
    BY <1>7 DEF ValidateEdit
  <2>2. WellFormed([req[w] EXCEPT !.pc = "save"])
    BY <1>7 DEF ValidateEdit, Typed, WellFormed, Requests, At
  <2>3. TablesTyped'
    BY <1>0, <1>7 DEF ValidateEdit
  <2> QED
    BY <2>1, <2>2, <2>3, IdleWellFormed, RequestStep DEF Reply, Goto
<1>8. ASSUME NEW w \in Workers, SaveCustomer(w) PROVE Typed'
  <2>1. TablesTyped'
    BY <1>8, WriteTyped DEF SaveCustomer
  <2> QED
    BY <1>8, <2>1, IdleWellFormed, RequestStep DEF SaveCustomer, Reply
<1>9. ASSUME NEW w \in Workers, Kill(w) PROVE Typed'
  <2>1. TablesTyped'
    BY <1>0, <1>9 DEF Kill
  <2> QED
    BY <1>9, <2>1, IdleWellFormed, RequestStep DEF Kill, Reply
<1>10. CASE UNCHANGED vars
  BY <1>10 DEF vars, Typed, TablesTyped, Customers
<1> QED
  BY <1>1, <1>2, <1>3, <1>4, <1>5, <1>6, <1>7, <1>8, <1>9, <1>10 DEF Next

\* No customers and no requests at first.
LEMMA InitTyped == Init => Typed
<1> SUFFICES ASSUME Init PROVE Typed
  OBVIOUS
<1>1. Customers = {}
  BY DEF Init, Customers
<1>2. customer \in [Customers -> Rows]
  BY <1>1 DEF Init, Customers
<1>3. req \in [Workers -> Requests] /\ \A w \in Workers : req[w] = Idle
  BY IdleWellFormed DEF Init, WellFormed
<1> QED
  BY <1>1, <1>2, <1>3, IdleWellFormed DEF Init, Typed, TablesTyped

(* Customers and requests keep their types, whatever the constants are.     *)
THEOREM TypeCorrect == Spec => []TypeOK
<1>1. Typed /\ [Next]_vars => Typed'
  BY TypeStep
<1> QED
  BY <1>1, InitTyped, TypedImplies, PTL DEF Spec

-----------------------------------------------------------------------------
(* The refinement of module Admission.                                     *)

\* The theorem about Admission, for the addresses of the stores.
UniqueProofs ==
    INSTANCE AdmissionProofs
    WITH Groups <- Stores \X Emails,
         Keys <- CustomerIds,
         Limit <- [g \in Stores \X Emails |-> 1],
         present <- {m \in (Stores \X Emails) \X CustomerIds :
                        m[2] \in WithEmail(m[1][1], m[1][2])},
         held <- [w \in Workers |-> Holding(w)]

\* The mapped variables.
Present == {m \in (Stores \X Emails) \X CustomerIds : m[2] \in WithEmail(m[1][1], m[1][2])}
Held == [w \in Workers |-> Holding(w)]

\* What a request holds is the membership of a customer, or nothing.
LEMMA HoldingTyped ==
    ASSUME Typed, NEW w \in Workers
    PROVE  Holding(w) \in ((Stores \X Emails) \X CustomerIds) \cup {None}
BY DEF Typed, WellFormed, Rows, Holding

\* A step that leaves the rows and what is held alone.
LEMMA Stutter ==
    ASSUME UNCHANGED customer, \A w \in Workers : Holding(w)' = Holding(w)
    PROVE  Present' = Present /\ Held' = Held
BY DEF Present, Held, WithEmail, Customers

\* A step of one request from a statement that is no write to another.
LEMMA HeldStep ==
    ASSUME Typed, NEW w \in Workers, NEW r, Become(w, r)
    PROVE  Held' = [Held EXCEPT ![w] =
                       IF r.pc \in {"insert", "save"} /\ r.row.email \in Emails
                       THEN <<<<r.row.store, r.row.email>>, r.customer>> ELSE None]
BY DEF Typed, Become, Held, Holding

\* The copies that INSTANCE makes of the operators on finite sets are those
\* operators.
LEMMA SameOperators ==
    ASSUME NEW S
    PROVE  /\ Unique!Cardinality(S) = Cardinality(S)
           /\ UniqueProofs!Cardinality(S) = Cardinality(S)
           /\ UniqueProofs!IsFiniteSet(S) <=> IsFiniteSet(S)
<1>1. Unique!Cardinality(S) = Cardinality(S)
  BY DEF Unique!Cardinality, Cardinality
<1>2. UniqueProofs!Cardinality(S) = Cardinality(S)
  BY DEF UniqueProofs!Cardinality, Cardinality
<1>3. UniqueProofs!IsFiniteSet(S) <=> IsFiniteSet(S)
  BY DEF UniqueProofs!IsFiniteSet, IsFiniteSet
<1> QED
  BY <1>1, <1>2, <1>3

\* The keys of an address are its customers.
LEMMA KeysAreCustomers ==
    ASSUME Typed, NEW s \in Stores, NEW a \in Emails
    PROVE  Unique!KeysOf(<<s, a>>, Present) = WithEmail(s, a)
BY DEF Typed, TablesTyped, Present, WithEmail, Unique!KeysOf

\* A save or its failure settles what was held.
LEMMA WriteSettles ==
    ASSUME Typed, NEW w \in Workers, At(w, "insert") \/ At(w, "save"), Write(w), Reply(w)
    PROVE  Unique!Settle(w)
<1>1. Present' \in SUBSET (Present \cup ({Holding(w)} \cap ((Stores \X Emails) \X CustomerIds)))
  <2> SUFFICES ASSUME NEW s \in Stores, NEW a \in Emails, NEW c \in CustomerIds,
                      <<<<s, a>>, c>> \in Present', <<<<s, a>>, c>> \notin Present
               PROVE  Holding(w) = <<<<s, a>>, c>>
    BY DEF Present
  <2>1. c \in WithEmail(s, a)' /\ c \notin WithEmail(s, a)
    BY DEF Present
  <2>2. c = req[w].customer /\ customer'[c] = req[w].row
    BY <2>1 DEF Write, WithEmail, Customers
  <2> QED
    BY <2>1, <2>2 DEF Holding, At, WithEmail
<1>2. Held' = [Held EXCEPT ![w] = None]
  BY HeldStep DEF Reply, Idle
<1>3. Held[w] = Holding(w)
  BY DEF Held
<1> QED
  BY <1>1, <1>2, <1>3 DEF Unique!Settle, Unique!Memberships, Present, Held

\* A step of a request that neither held something nor will.
LEMMA NothingHeld ==
    ASSUME Typed, NEW w \in Workers, NEW r, Become(w, r), UNCHANGED customer,
           Holding(w) = None, r.pc \in {"insert", "save"} => r.row.email \notin Emails
    PROVE  UNCHANGED Unique!vars
<1>1. Held' = [Held EXCEPT ![w] = None]
  BY HeldStep
<1>2. Held' = Held
  BY <1>1 DEF Held
<1>3. Present' = Present
  BY DEF Present, WithEmail, Customers
<1> QED
  BY <1>2, <1>3 DEF Unique!vars, Present, Held

\* A request that is answered without a write drops what it held.
LEMMA DropSettles ==
    ASSUME Typed, NEW w \in Workers, Reply(w), UNCHANGED customer
    PROVE  Unique!Settle(w)
<1>1. Held' = [Held EXCEPT ![w] = None]
  BY HeldStep DEF Reply, Idle
<1>2. Present' = Present
  BY DEF Present, WithEmail, Customers
<1> QED
  BY <1>1, <1>2 DEF Unique!Settle, Present, Held

\* A validator has found no other customer with the address.
LEMMA Validated ==
    ASSUME Typed, NEW w \in Workers, NEW r, Become(w, r), UNCHANGED customer,
           r.row \in Rows, r.row.email \in Emails, r.customer \in CustomerIds,
           r.pc \in {"insert", "save"},
           WithEmail(r.row.store, r.row.email) \ {r.customer} = {}
    PROVE  Unique!Admit(w)
<1> DEFINE g == <<r.row.store, r.row.email>>
<1>1. r.row.store \in Stores /\ g \in Stores \X Emails
  BY DEF Rows
<1>2. Unique!KeysOf(g, Present) = WithEmail(r.row.store, r.row.email)
  BY <1>1, KeysAreCustomers
<1>3. Cardinality(WithEmail(r.row.store, r.row.email) \ {r.customer}) < 1
  BY FS_EmptySet
<1>4. Held' = [Held EXCEPT ![w] = <<g, r.customer>>]
  BY HeldStep
<1>5. Present' = Present
  BY DEF Present, WithEmail, Customers
<1>6. \E h \in Stores \X Emails, k \in CustomerIds :
         /\ Unique!Cardinality(Unique!KeysOf(h, Present) \ {k})
               < [i \in Stores \X Emails |-> 1][h]
         /\ Held' = [Held EXCEPT ![w] = <<h, k>>]
  BY <1>1, <1>2, <1>3, <1>4, SameOperators
<1> QED
  BY <1>5, <1>6 DEF Unique!Admit, Present, Held

\* Every step is one of the abstract specification, if no customer is moved.
LEMMA Refines ==
    ASSUME Typed, PutStores = {}, [Next]_vars
    PROVE  [Unique!Next]_(Unique!vars)
<1>1. ASSUME NEW w \in Workers, FindByEmail(w) PROVE UNCHANGED Unique!vars
  <2>1. PICK r \in Rows :
           Become(w, Idle) \/ Become(w, [Idle EXCEPT !.pc = "findPhone", !.row = r])
    BY <1>1 DEF FindByEmail, Reply
  <2>2. Holding(w) = None /\ UNCHANGED customer
    BY <1>1 DEF FindByEmail, Free, Holding
  <2> QED
    BY <2>1, <2>2, NothingHeld DEF Idle
<1>2. ASSUME NEW w \in Workers, FindByPhone(w) PROVE UNCHANGED Unique!vars
  <2>1. Become(w, Idle) \/ Become(w, [req[w] EXCEPT !.pc = "validate"])
    BY <1>2 DEF FindByPhone, Reply, Goto
  <2>2. Holding(w) = None /\ UNCHANGED customer /\ req[w] \in Requests
    BY <1>2 DEF FindByPhone, At, Holding, Typed
  <2>3. [req[w] EXCEPT !.pc = "validate"].pc = "validate"
    BY <2>2 DEF Requests
  <2> QED
    BY <2>1, <2>2, <2>3, NothingHeld DEF Idle
<1>3. ASSUME NEW w \in Workers, PostCustomer(w) PROVE UNCHANGED Unique!vars
  <2>1. PICK r \in Rows : Become(w, [Idle EXCEPT !.pc = "validate", !.row = r])
    BY <1>3 DEF PostCustomer
  <2>2. Holding(w) = None /\ UNCHANGED customer
    BY <1>3 DEF PostCustomer, Free, Holding
  <2> QED
    BY <2>1, <2>2, NothingHeld DEF Idle
<1>4. ASSUME NEW w \in Workers, ValidateNew(w) PROVE Unique!Admit(w) \/ UNCHANGED Unique!vars
  <2>1. /\ Holding(w) = None /\ UNCHANGED customer
        /\ req[w] \in Requests /\ req[w].row \in Rows
    BY <1>4 DEF ValidateNew, At, Holding, Typed, WellFormed
  <2>2. CASE Become(w, Idle)
    BY <2>1, <2>2, NothingHeld DEF Idle
  <2>3. CASE /\ WithEmail(req[w].row.store, req[w].row.email) = {}
             /\ \E c \in freshCustomers :
                   Become(w, [req[w] EXCEPT !.pc = "insert", !.customer = c])
    <3>1. PICK c \in freshCustomers : Become(w, [req[w] EXCEPT !.pc = "insert", !.customer = c])
      BY <2>3
    <3> DEFINE r == [req[w] EXCEPT !.pc = "insert", !.customer = c]
    <3>2. c \in CustomerIds /\ r.pc = "insert" /\ r.customer = c /\ r.row = req[w].row
      BY <2>1 DEF Requests, Typed, TablesTyped
    <3>3. CASE r.row.email \in Emails
      BY <2>1, <2>3, <3>1, <3>2, <3>3, Validated
    <3>4. CASE r.row.email \notin Emails
      BY <2>1, <3>1, <3>2, <3>4, NothingHeld
    <3> QED
      BY <3>3, <3>4
  <2> QED
    BY <1>4, <2>2, <2>3 DEF ValidateNew, Reply
<1>5. ASSUME NEW w \in Workers, InsertCustomer(w) PROVE Unique!Settle(w)
  BY <1>5, WriteSettles DEF InsertCustomer
<1>6. ASSUME NEW w \in Workers, LoadCustomer(w) PROVE Unique!Remember(w) \/ UNCHANGED Unique!vars
  <2> DEFINE Edit(c, n, a, pc) ==
               [pc |-> pc, customer |-> c,
                row |-> [store |-> customer[c].store, email |-> a, phone |-> n],
                readStore |-> customer[c].store]
  <2>1. PICK c \in Customers :
         \E n \in {customer[c].phone} \cup Phones :
            \/ \E a \in Emails : Become(w, Edit(c, n, a, "validateEdit"))
            \/ \E a \in Blanks \cup {customer[c].email} : Become(w, Edit(c, n, a, "save"))
    BY <1>6 DEF LoadCustomer
  <2>2. PICK n \in {customer[c].phone} \cup Phones :
            \/ \E a \in Emails : Become(w, Edit(c, n, a, "validateEdit"))
            \/ \E a \in Blanks \cup {customer[c].email} : Become(w, Edit(c, n, a, "save"))
    BY <2>1
  <2>3. Holding(w) = None /\ UNCHANGED customer
    BY <1>6 DEF LoadCustomer, Free, Holding
  <2>4. ASSUME NEW a \in Emails, Become(w, Edit(c, n, a, "validateEdit"))
        PROVE  UNCHANGED Unique!vars
    BY <2>3, <2>4, NothingHeld
  <2>5. ASSUME NEW a \in Blanks, Become(w, Edit(c, n, a, "save"))
        PROVE  UNCHANGED Unique!vars
    BY <2>3, <2>5, NothingHeld DEF Emails
  <2>6. CASE Become(w, Edit(c, n, customer[c].email, "save")) /\ customer[c].email \in Emails
    <3> DEFINE m == <<<<customer[c].store, customer[c].email>>, c>>
    <3>1. c \in CustomerIds /\ customer[c].store \in Stores
      BY DEF Typed, TablesTyped, Rows
    <3>2. m \in Present
      BY <2>6, <3>1 DEF Present, WithEmail
    <3>3. Held' = [Held EXCEPT ![w] = m]
      BY <2>6, HeldStep
    <3>4. Present' = Present
      BY <2>3 DEF Present, WithEmail, Customers
    <3> QED
      BY <3>2, <3>3, <3>4 DEF Unique!Remember, Present, Held
  <2>7. CASE Become(w, Edit(c, n, customer[c].email, "save")) /\ customer[c].email \notin Emails
    BY <2>3, <2>7, NothingHeld
  <2> QED
    BY <2>2, <2>4, <2>5, <2>6, <2>7
<1>7. ASSUME NEW w \in Workers, ValidateEdit(w) PROVE Unique!Admit(w) \/ UNCHANGED Unique!vars
  <2> DEFINE r == [req[w] EXCEPT !.pc = "save"]
  <2>1. /\ Holding(w) = None /\ UNCHANGED customer
        /\ req[w] \in Requests /\ req[w].row \in Rows /\ req[w].customer \in CustomerIds
        /\ req[w].row.store = req[w].readStore
    BY <1>7 DEF ValidateEdit, At, Holding, Typed, WellFormed
  <2>2. r.pc = "save" /\ r.row = req[w].row /\ r.customer = req[w].customer
    BY <2>1 DEF Requests
  <2>3. CASE Become(w, Idle)
    BY <2>1, <2>3, NothingHeld DEF Idle
  <2>4. CASE /\ WithEmail(req[w].readStore, req[w].row.email) \ {req[w].customer} = {}
             /\ Become(w, r)
    <3>1. CASE r.row.email \in Emails
      BY <2>1, <2>2, <2>4, <3>1, Validated
    <3>2. CASE r.row.email \notin Emails
      BY <2>1, <2>2, <2>4, <3>2, NothingHeld
    <3> QED
      BY <3>1, <3>2
  <2> QED
    BY <1>7, <2>3, <2>4 DEF ValidateEdit, Reply, Goto
<1>8. ASSUME NEW w \in Workers, SaveCustomer(w) PROVE Unique!Settle(w)
  BY <1>8, WriteSettles DEF SaveCustomer
<1>9. ASSUME NEW w \in Workers, Kill(w) PROVE Unique!Settle(w)
  BY <1>9, DropSettles DEF Kill
<1>10. CASE UNCHANGED vars
  BY <1>10 DEF vars, Unique!vars, WithEmail, Customers, Holding
<1> QED
  BY <1>1, <1>2, <1>3, <1>4, <1>5, <1>6, <1>7, <1>8, <1>9, <1>10 DEF Next, Unique!Next

\* The initial states are initial states of the abstract specification.
LEMMA InitRefines == Init => Unique!Init
<1> SUFFICES ASSUME Init PROVE Unique!Init
  OBVIOUS
<1>1. Present = {}
  BY DEF Init, Present, WithEmail, Customers
<1>2. Held = [w \in Workers |-> None]
  BY DEF Init, Held, Holding, Idle
<1> QED
  BY <1>1, <1>2 DEF Unique!Init, Present, Held

(* Unless a customer is moved to another store, the validators of new and   *)
(* of edited customers implement the check before a write, for any number   *)
(* of workers: Init maps to Init, every step to a step or to none.          *)
THEOREM Implementation ==
    ASSUME PutStores = {}
    PROVE  Spec => ImplementsAdmission
<1>1. Typed /\ [Next]_vars => Typed'
  BY TypeStep
<1>2. Typed /\ [Next]_vars => [Unique!Next]_(Unique!vars)
  BY Refines
<1> QED
  BY <1>1, <1>2, InitTyped, InitRefines, PTL DEF Spec, ImplementsAdmission, Unique!Spec

-----------------------------------------------------------------------------
\* The abstract specification is the one the theorem on admissions is about.
LEMMA SameSpecification == ImplementsAdmission => UniqueProofs!Spec
<1>1. Unique!Init => UniqueProofs!Init
  BY DEF Unique!Init, UniqueProofs!Init
<1>2. [Unique!Next]_(Unique!vars) => [UniqueProofs!Next]_(UniqueProofs!vars)
  <2> SUFFICES ASSUME [Unique!Next]_(Unique!vars)
               PROVE  [UniqueProofs!Next]_(UniqueProofs!vars)
    OBVIOUS
  <2>1. CASE Unique!Leave
    BY <2>1 DEF Unique!Leave, UniqueProofs!Next, UniqueProofs!Leave
  <2>2. ASSUME NEW w \in Workers, Unique!Remember(w) PROVE UniqueProofs!Next
    BY <2>2 DEF Unique!Remember, UniqueProofs!Next, UniqueProofs!Remember
  <2>3. ASSUME NEW w \in Workers, Unique!Admit(w) PROVE UniqueProofs!Next
    <3>1. PICK g \in Stores \X Emails, k \in CustomerIds :
             /\ Unique!Cardinality(Unique!KeysOf(g, Present) \ {k})
                   < [i \in Stores \X Emails |-> 1][g]
             /\ Held' = [Held EXCEPT ![w] = <<g, k>>]
             /\ Present' = Present
      BY <2>3 DEF Unique!Admit, Present, Held
    <3>2. UniqueProofs!KeysOf(g, Present) = Unique!KeysOf(g, Present)
      BY DEF Unique!KeysOf, UniqueProofs!KeysOf
    <3>3. UniqueProofs!Cardinality(UniqueProofs!KeysOf(g, Present) \ {k})
             = Unique!Cardinality(Unique!KeysOf(g, Present) \ {k})
      BY <3>2, SameOperators
    <3>4. UniqueProofs!Admit(w)
      BY <3>1, <3>3 DEF UniqueProofs!Admit, Present, Held
    <3> QED
      BY <3>4 DEF UniqueProofs!Next
  <2>4. ASSUME NEW w \in Workers, Unique!Settle(w) PROVE UniqueProofs!Next
    BY <2>4 DEF Unique!Settle, UniqueProofs!Next, UniqueProofs!Settle,
                Unique!Memberships, UniqueProofs!Memberships
  <2>5. CASE UNCHANGED Unique!vars
    BY <2>5 DEF Unique!vars, UniqueProofs!vars
  <2> QED
    BY <2>1, <2>2, <2>3, <2>4, <2>5 DEF Unique!Next
<1> QED
  BY <1>1, <1>2, PTL DEF ImplementsAdmission, Unique!Spec, UniqueProofs!Spec

\* What is proved of admissions, in terms of customers.
LEMMA BoundTransfers ==
    ASSUME Typed, UniqueProofs!Bounded
    PROVE  EmailsBounded
<1> SUFFICES ASSUME NEW s \in Stores, NEW a \in Emails
             PROVE  Cardinality(WithEmail(s, a)) <= Cardinality(Workers)
  BY DEF EmailsBounded
<1>1. <<s, a>> \in Stores \X Emails
  OBVIOUS
<1>2. \A g \in Stores \X Emails :
         Cardinality(Unique!KeysOf(g, Present))
            <= [h \in Stores \X Emails |-> 1][g] + Cardinality(Workers) - 1
  BY SameOperators DEF UniqueProofs!Bounded, UniqueProofs!KeysOf, Unique!KeysOf, Present
<1>3. Cardinality(Unique!KeysOf(<<s, a>>, Present)) <= 1 + Cardinality(Workers) - 1
  BY <1>1, <1>2
<1>4. Cardinality(Workers) \in Nat
  BY CustomersAssumption, FS_CardinalityType
<1> QED
  BY <1>3, <1>4, KeysAreCustomers

(* An address of a store has at most as many customers as there are         *)
(* workers, whatever requests interleave, unless customers are moved.       *)
THEOREM AddressesAreBounded ==
    ASSUME Workers # {}
    PROVE  Spec => []EmailsBounded
<1>1. CASE PutStores # {}
  <2>1. EmailsBounded
    BY <1>1 DEF EmailsBounded
  <2> QED
    BY <2>1, PTL
<1>2. CASE PutStores = {}
  <2>1. UniqueProofs!Constants
    BY CustomersAssumption, SameOperators
       DEF UniqueProofs!Constants, UniqueProofs!Memberships, CustomersAssumption, Emails
  <2>2. Spec => ImplementsAdmission
    BY <1>2, Implementation
  <2>3. UniqueProofs!Spec => []UniqueProofs!Bounded
    BY <2>1, UniqueProofs!AdmissionIsBounded
  <2>4. Typed /\ [Next]_vars => Typed'
    BY TypeStep
  <2> QED
    BY <2>2, <2>3, <2>4, SameSpecification, InitTyped, BoundTransfers, PTL DEF Spec
<1> QED
  BY <1>1, <1>2
=============================================================================
