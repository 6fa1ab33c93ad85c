-------------------------- MODULE CatalogueProofs --------------------------
(***************************************************************************)
(* Theorems about Catalogue, for any sets of workers, users, stores and    *)
(* products and any limit: types, that the store a POST gave its owner is  *)
(* complete, and that the limit of products implements a check before a    *)
(* write, which bounds the active products of a store.                     *)
(***************************************************************************)
EXTENDS Catalogue, FiniteSetTheorems, TLAPS

Creating == {"scheduleOrders", "scheduleProfit", "subscribe", "linkAdmin", "onboard"}

\* What a request knows at each of its statements.
WellFormed(r) ==
    /\ r \in Requests
    /\ r.pc \in Creating \cup {"insertStore"} => r.user \in Users
    /\ r.pc \in Creating \cup {"setAdmins", "insertProduct", "saveProduct"} => r.store \in Stores
    /\ r.pc \in {"insertProduct", "insertStock", "saveProduct"} => r.product \in ProductIds

StoresTyped ==
    /\ admins \subseteq Users
    /\ storeOf \in [Users -> Stores \cup {None}]
    /\ stores \subseteq Stores
    /\ scheduled \subseteq Stores \X Kinds
    /\ subscribed \subseteq Stores
    /\ onboarded \subseteq Users
    /\ assigned \subseteq Users

ProductsTyped ==
    /\ Products \subseteq ProductIds
    /\ product \in [Products -> Rows]
    /\ freshProducts \subseteq ProductIds

RequestsTyped ==
    /\ req \in [Workers -> Requests]
    /\ \A w \in Workers : WellFormed(req[w])

\* The inductive type invariant.
Typed == StoresTyped /\ ProductsTyped /\ RequestsTyped

-----------------------------------------------------------------------------
(* What the inductive invariant of OwnStoreComplete says.                  *)

\* What a request that creates a store, or sets its admins, has done so far.
DoneSoFar(r) ==
    /\ r.pc \in Creating \cup {"insertStore"} => r.user \in admins
    /\ r.pc \in Creating \cup {"setAdmins"} => r.store \in stores
    /\ r.pc \in {"scheduleProfit", "subscribe", "linkAdmin"} => <<r.store, "orders">> \in scheduled
    /\ r.pc \in {"subscribe", "linkAdmin"} => <<r.store, "profit">> \in scheduled
    /\ r.pc = "linkAdmin" => r.store \in subscribed

StoreInv == OwnStoreComplete /\ \A w \in Workers : DoneSoFar(req[w])

-----------------------------------------------------------------------------
\* The inductive form implies the types.
LEMMA TypedImplies == Typed => TypeOK
BY DEF Typed, StoresTyped, ProductsTyped, RequestsTyped, TypeOK

\* A worker at rest.
LEMMA IdleWellFormed == WellFormed(Idle) /\ DoneSoFar(Idle)
BY DEF WellFormed, Idle, Requests, Creating, DoneSoFar

\* A step that changes one request, to a well-formed one.
LEMMA RequestStep ==
    ASSUME RequestsTyped, NEW w \in Workers, NEW r, WellFormed(r), Become(w, r)
    PROVE  /\ RequestsTyped'
           /\ \A v \in Workers : req'[v] = IF v = w THEN r ELSE req[v]
<1>1. r \in Requests
  BY DEF WellFormed
<1>2. req' \in [Workers -> Requests]
  BY <1>1 DEF RequestsTyped, Become
<1>3. \A v \in Workers : req'[v] = IF v = w THEN r ELSE req[v]
  BY DEF RequestsTyped, Become
<1> QED
  BY <1>2, <1>3 DEF RequestsTyped

\* A step that leaves the stores alone, and one that leaves the products alone.
LEMMA Same ==
    /\ StoresTyped /\ UNCHANGED storeVars => StoresTyped'
    /\ ProductsTyped /\ UNCHANGED productVars => ProductsTyped'
BY DEF StoresTyped, ProductsTyped, storeVars, productVars, Products

\* The next statement of a request that knows what it needs.
LEMMA GoOn ==
    ASSUME NEW r, WellFormed(r),
           NEW pc \in Creating \cup {"insertStock"},
           pc \in Creating => r.pc \in Creating,
           pc = "insertStock" => r.pc = "insertProduct"
    PROVE  WellFormed([r EXCEPT !.pc = pc])
<1> DEFINE q == [r EXCEPT !.pc = pc]
<1>1. q \in Requests
  BY DEF WellFormed, Requests, Creating
<1>2. q.pc = pc /\ q.user = r.user /\ q.store = r.store /\ q.product = r.product
  BY DEF WellFormed, Requests
<1> HIDE DEF q
<1>3. WellFormed(q)
  BY <1>1, <1>2 DEF WellFormed, Creating
<1> QED
  BY <1>3 DEF q

\* The admins of a store are assigned.
LEMMA AssignTyped ==
    ASSUME StoresTyped, NEW s \in Stores, NEW named, AssignAdmins(s, named)
    PROVE  storeOf' \in [Users -> Stores \cup {None}]
BY DEF StoresTyped, AssignAdmins

\* A row that is written.
LEMMA WriteTyped ==
    ASSUME ProductsTyped, NEW p \in ProductIds, NEW s \in Stores, NEW active \in BOOLEAN,
           WriteProduct(p, s, active)
    PROVE  /\ Products' = Products \cup {p}
           /\ Products' \subseteq ProductIds
           /\ product' \in [Products' -> Rows]
           /\ \A q \in Products' :
                 product'[q] = IF q = p THEN [store |-> s, active |-> active] ELSE product[q]
<1>1. Products' = Products \cup {p}
  BY DEF WriteProduct, Products
<1>2. \A q \in Products' :
         product'[q] = IF q = p THEN [store |-> s, active |-> active] ELSE product[q]
  BY <1>1 DEF WriteProduct
<1>3. product' = [q \in Products' |-> product'[q]]
  BY <1>1, <1>2 DEF WriteProduct
<1>4. [store |-> s, active |-> active] \in Rows
  BY DEF Rows
<1>5. \A q \in Products' : product'[q] \in Rows
  BY <1>1, <1>2, <1>4 DEF ProductsTyped
<1>6. product' \in [Products' -> Rows]
  BY <1>3, <1>5
<1> QED
  BY <1>1, <1>2, <1>6 DEF ProductsTyped

\* What a request that has passed the permission will insert.
NewProduct(s, p, a) ==
    [Idle EXCEPT !.pc = "insertProduct", !.store = s, !.product = p, !.active = a]

\* What a request that has read a product will save.
EditedProduct(s, p, a) ==
    [Idle EXCEPT !.pc = "saveProduct", !.store = s, !.product = p, !.active = a]

LEMMA ProductRequests ==
    ASSUME NEW s, NEW p, NEW a, NEW r \in {NewProduct(s, p, a), EditedProduct(s, p, a)}
    PROVE  /\ r.pc = IF r = NewProduct(s, p, a) THEN "insertProduct" ELSE "saveProduct"
           /\ r.store = s /\ r.product = p /\ r.active = a
           /\ s \in Stores /\ p \in ProductIds /\ a \in BOOLEAN => WellFormed(r)
<1>1. /\ NewProduct(s, p, a).pc = "insertProduct" /\ EditedProduct(s, p, a).pc = "saveProduct"
      /\ r.store = s /\ r.product = p /\ r.active = a
  BY DEF NewProduct, EditedProduct, Idle
<1>2. s \in Stores /\ p \in ProductIds /\ a \in BOOLEAN => r \in Requests
  BY DEF NewProduct, EditedProduct, Idle, Requests
<1> QED
  BY <1>1, <1>2 DEF WellFormed, Creating

\* What LoadProduct reads is typed.
LEMMA LoadProductTyped ==
    ASSUME Typed, NEW w \in Workers, LoadProduct(w)
    PROVE  \E p \in Products :
           \E s \in Stores \cap ({product[p].store} \cup PutStores),
              a \in BOOLEAN \cap ({product[p].active} \cup PutActive) :
              Become(w, EditedProduct(s, p, a))
<1>1. PICK p \in Products :
       \E s \in {product[p].store} \cup PutStores, a \in {product[p].active} \cup PutActive :
          Become(w, EditedProduct(s, p, a))
  BY DEF LoadProduct, EditedProduct
<1>2. product[p] \in Rows
  BY DEF Typed, ProductsTyped
<1>3. product[p].store \in Stores /\ product[p].active \in BOOLEAN
  BY <1>2 DEF Rows
<1> QED
  BY <1>1, <1>3, CatalogueAssumption

\* Every step of a request keeps the types.
LEMMA RequestTyped ==
    ASSUME Typed, NEW w \in Workers, Accept(w) \/ Step(w) \/ Kill(w)
    PROVE  Typed'
<1> USE DEF At, Free
<1>0. WellFormed(req[w]) /\ req[w] \in Requests /\ StoresTyped /\ ProductsTyped /\ RequestsTyped
  BY DEF Typed, RequestsTyped
<1>1. CASE GetAdmin(w)
  <2>1. PICK u \in Users :
           /\ admins' = admins \cup {u}
           /\ Become(w, [Idle EXCEPT !.pc = "insertStore", !.user = u]) \/ UNCHANGED req
    BY <1>1 DEF GetAdmin
  <2>2. WellFormed([Idle EXCEPT !.pc = "insertStore", !.user = u])
    BY DEF WellFormed, Idle, Requests, Creating
  <2>3. StoresTyped'
    BY <1>0, <1>1, <2>1 DEF GetAdmin, StoresTyped
  <2>4. UNCHANGED req => RequestsTyped'
    BY <1>0 DEF RequestsTyped
  <2> QED
    BY <1>0, <1>1, <2>1, <2>2, <2>3, <2>4, RequestStep, Same DEF GetAdmin, Typed
<1>2. CASE InsertStore(w)
  <2>1. PICK s \in Stores \ stores :
           /\ stores' = stores \cup {s}
           /\ Become(w, [req[w] EXCEPT !.pc = "scheduleOrders", !.store = s])
    BY <1>2 DEF InsertStore
  <2>2. WellFormed([req[w] EXCEPT !.pc = "scheduleOrders", !.store = s])
    BY <1>0, <1>2 DEF InsertStore, WellFormed, Requests, Creating
  <2>3. StoresTyped'
    BY <1>0, <1>2, <2>1 DEF InsertStore, StoresTyped
  <2> QED
    BY <1>0, <1>2, <2>1, <2>2, <2>3, RequestStep, Same DEF InsertStore, Typed
<1>3. CASE ScheduleMetrics(w)
  <2>1. PICK kind \in Kinds, pc \in {"scheduleProfit", "subscribe"} :
           /\ scheduled' = scheduled \cup {<<req[w].store, kind>>}
           /\ Goto(w, pc)
           /\ req[w].pc \in Creating
    BY <1>3 DEF ScheduleMetrics, Kinds, Creating
  <2>2. req[w].store \in Stores
    BY <1>0, <2>1 DEF WellFormed
  <2>3. StoresTyped'
    BY <1>0, <1>3, <2>1, <2>2 DEF ScheduleMetrics, StoresTyped
  <2>4. WellFormed([req[w] EXCEPT !.pc = pc])
    BY <1>0, <2>1, GoOn DEF Creating
  <2> QED
    BY <1>0, <1>3, <2>1, <2>3, <2>4, RequestStep, Same DEF ScheduleMetrics, Goto, Typed
<1>4. CASE Subscribe(w)
  <2>1. req[w].store \in Stores /\ req[w].pc \in Creating
    BY <1>0, <1>4 DEF Subscribe, WellFormed, Creating
  <2>2. StoresTyped'
    BY <1>0, <1>4, <2>1 DEF Subscribe, StoresTyped
  <2>3. WellFormed([req[w] EXCEPT !.pc = "linkAdmin"])
    BY <1>0, <2>1, GoOn DEF Creating
  <2> QED
    BY <1>0, <1>4, <2>2, <2>3, RequestStep, Same DEF Subscribe, Goto, Typed
<1>5. CASE LinkAdmin(w)
  <2>1. req[w].store \in Stores /\ req[w].pc \in Creating
    BY <1>0, <1>5 DEF LinkAdmin, WellFormed, Creating
  <2>2. StoresTyped'
    BY <1>0, <1>5, <2>1, AssignTyped DEF LinkAdmin, StoresTyped
  <2>3. WellFormed([req[w] EXCEPT !.pc = "onboard"])
    BY <1>0, <2>1, GoOn DEF Creating
  <2> QED
    BY <1>0, <1>5, <2>2, <2>3, RequestStep, Same DEF LinkAdmin, Goto, Typed
<1>6. CASE Onboard(w)
  <2>1. req[w].user \in Users
    BY <1>0, <1>6 DEF Onboard, WellFormed, Creating
  <2>2. StoresTyped'
    BY <1>0, <1>6, <2>1 DEF Onboard, StoresTyped
  <2> QED
    BY <1>0, <1>6, <2>2, IdleWellFormed, RequestStep, Same DEF Onboard, Reply, Typed
<1>7. CASE LoadStore(w)
  <2>1. PICK s \in stores : Become(w, [Idle EXCEPT !.pc = "setAdmins", !.store = s])
    BY <1>7 DEF LoadStore
  <2>2. s \in Stores
    BY <1>0, <2>1 DEF StoresTyped
  <2>3. WellFormed([Idle EXCEPT !.pc = "setAdmins", !.store = s])
    BY <2>2 DEF WellFormed, Idle, Requests, Creating
  <2> QED
    BY <1>0, <1>7, <2>1, <2>3, RequestStep, Same DEF LoadStore, Typed
<1>8. CASE SetAdmins(w)
  <2>1. req[w].store \in Stores
    BY <1>0, <1>8 DEF SetAdmins, WellFormed
  <2>2. storeOf' \in [Users -> Stores \cup {None}]
    BY <1>0, <1>8, <2>1, AssignTyped DEF SetAdmins
  <2>3. StoresTyped'
    BY <1>0, <1>8, <2>2 DEF SetAdmins, StoresTyped
  <2> QED
    BY <1>0, <1>8, <2>3, IdleWellFormed, RequestStep, Same DEF SetAdmins, Reply, Typed
<1>9. CASE CheckLimit(w)
  <2>1. PICK s \in stores, p \in freshProducts, a \in {TRUE} \cup PutActive :
           freshProducts' = freshProducts \ {p} /\ Become(w, NewProduct(s, p, a))
    BY <1>9 DEF CheckLimit, NewProduct
  <2>2. s \in Stores /\ p \in ProductIds /\ a \in BOOLEAN
    BY <1>0, CatalogueAssumption DEF StoresTyped, ProductsTyped
  <2>3. ProductsTyped'
    BY <1>0, <1>9, <2>1 DEF CheckLimit, ProductsTyped, Products
  <2> QED
    BY <1>0, <1>9, <2>1, <2>2, <2>3, ProductRequests, RequestStep, Same DEF CheckLimit, Typed
<1>10. CASE InsertProduct(w) \/ SaveProduct(w)
  <2>1. /\ req[w].product \in ProductIds /\ req[w].store \in Stores /\ req[w].active \in BOOLEAN
        /\ WriteProduct(req[w].product, req[w].store, req[w].active)
    BY <1>0, <1>10 DEF InsertProduct, SaveProduct, WellFormed, Requests
  <2>2. ProductsTyped'
    BY <1>0, <1>10, <2>1, WriteTyped DEF InsertProduct, SaveProduct, ProductsTyped
  <2>3. InsertProduct(w) => WellFormed([req[w] EXCEPT !.pc = "insertStock"])
    BY <1>0, GoOn DEF InsertProduct, Creating
  <2> QED
    BY <1>0, <1>10, <2>2, <2>3, IdleWellFormed, RequestStep, Same
       DEF InsertProduct, SaveProduct, Goto, Reply, Typed
<1>11. CASE InsertStock(w)
  BY <1>0, <1>11, IdleWellFormed, RequestStep, Same DEF InsertStock, Reply, Typed
<1>12. CASE LoadProduct(w)
  <2>1. PICK p \in Products, s \in Stores, a \in BOOLEAN : Become(w, EditedProduct(s, p, a))
    BY <1>12, LoadProductTyped
  <2>2. p \in ProductIds
    BY <1>0 DEF ProductsTyped
  <2> QED
    BY <1>0, <1>12, <2>1, <2>2, ProductRequests, RequestStep, Same DEF LoadProduct, Typed
<1>13. CASE Deactivate(w)
  <2>1. PICK p \in Products : product' = [product EXCEPT ![p].active = FALSE]
    BY <1>13 DEF Deactivate
  <2>2. product \in [Products -> Rows]
    BY <1>0 DEF ProductsTyped
  <2>3. [product[p] EXCEPT !.active = FALSE] \in Rows
    BY <2>2 DEF Rows
  <2>4. Products' = Products /\ product' \in [Products -> Rows]
    BY <2>1, <2>2, <2>3 DEF Products
  <2> QED
    BY <1>0, <1>13, <2>4, Same DEF Deactivate, Typed, ProductsTyped, RequestsTyped
<1>14. CASE Kill(w)
  BY <1>0, <1>14, IdleWellFormed, RequestStep, Same DEF Kill, Reply, Typed
<1> QED
  BY <1>1, <1>2, <1>3, <1>4, <1>5, <1>6, <1>7, <1>8, <1>9, <1>10, <1>11, <1>12, <1>13, <1>14
     DEF Accept, Step

\* Every step keeps the types.
LEMMA TypeStep ==
    ASSUME Typed, [Next]_vars
    PROVE  Typed'
<1>1. CASE UNCHANGED vars
  BY <1>1, Same DEF vars, Typed, RequestsTyped
<1> QED
  BY <1>1, RequestTyped DEF Next

\* Nothing at first.
LEMMA InitTyped == Init => Typed
<1> SUFFICES ASSUME Init PROVE Typed
  OBVIOUS
<1>1. Products = {} /\ product \in [Products -> Rows]
  BY DEF Init, Products
<1>2. req \in [Workers -> Requests] /\ \A w \in Workers : WellFormed(req[w])
  BY IdleWellFormed DEF Init, WellFormed
<1> QED
  BY <1>1, <1>2 DEF Init, Typed, StoresTyped, ProductsTyped, RequestsTyped

(* Stores, admins, products and requests keep their types, for any          *)
(* constants.                                                               *)
THEOREM TypeCorrect == Spec => []TypeOK
<1>1. Typed /\ [Next]_vars => Typed'
  BY TypeStep
<1> QED
  BY <1>1, InitTyped, TypedImplies, PTL DEF Spec

-----------------------------------------------------------------------------
(* Stores.                                                                 *)

\* Rows of the tables about stores are not deleted.
Growing ==
    /\ admins \subseteq admins' /\ stores \subseteq stores'
    /\ scheduled \subseteq scheduled' /\ subscribed \subseteq subscribed'

\* What was done stays done, and what was complete stays so.
LEMMA DoneStays ==
    ASSUME Growing
    PROVE  /\ \A s : Complete(s) => Complete(s)'
           /\ \A r : DoneSoFar(r) => DoneSoFar(r)'
BY DEF Growing, Complete, DoneSoFar

\* A step of a request that assigns no admins.
LEMMA StoreStep ==
    ASSUME Typed, StoreInv, NEW w \in Workers, NEW r, Become(w, r), Growing,
           UNCHANGED <<storeOf, assigned>>, DoneSoFar(r)'
    PROVE  StoreInv'
<1>1. \A v \in Workers : req'[v] = IF v = w THEN r ELSE req[v]
  BY DEF Typed, RequestsTyped, Become
<1>2. ASSUME NEW v \in Workers PROVE DoneSoFar(req[v])'
  <2>1. CASE v = w
    <3>1. req'[v] = r
      BY <1>1, <2>1
    <3> QED
      BY <3>1 DEF DoneSoFar, Complete
  <2>2. CASE v # w
    <3>1. req'[v] = req[v] /\ DoneSoFar(req[v])
      BY <1>1, <2>2 DEF StoreInv
    <3> QED
      BY <3>1, DoneStays DEF DoneSoFar, Complete
  <2> QED
    BY <2>1, <2>2
<1>3. OwnStoreComplete'
  BY DoneStays DEF StoreInv, OwnStoreComplete, Growing
<1> QED
  BY <1>2, <1>3 DEF StoreInv

\* Admins are assigned to a store: one that is complete, or by a PUT.
LEMMA AssignStep ==
    ASSUME Typed, StoreInv, NEW w \in Workers, NEW r, Become(w, r), DoneSoFar(r),
           UNCHANGED <<admins, stores, scheduled, subscribed>>,
           NEW s \in stores, NEW named \in SUBSET admins, AssignAdmins(s, named),
           \A u \in Users \ named : u \in assigned => u \in assigned',
           Complete(s) \/ assigned' = assigned \cup {u \in named : storeOf[u] # s}
    PROVE  StoreInv'
<1>1. \A v \in Workers : req'[v] = IF v = w THEN r ELSE req[v]
  BY DEF Typed, RequestsTyped, Become
<1>2. \A v \in Workers : DoneSoFar(req[v])'
  BY <1>1 DEF StoreInv, DoneSoFar
<1>3. OwnStoreComplete'
  <2> SUFFICES ASSUME NEW u \in Users, storeOf'[u] # None
               PROVE  /\ u \in admins /\ storeOf'[u] \in stores
                      /\ Complete(storeOf'[u]) \/ u \in assigned'
    BY DEF OwnStoreComplete, Complete
  <2>1. CASE u \in named
    <3>1. storeOf'[u] = s
      BY <2>1 DEF AssignAdmins
    <3>2. storeOf[u] = s => Complete(s) \/ u \in assigned
      BY CatalogueAssumption DEF StoreInv, OwnStoreComplete, Typed, StoresTyped
    <3> QED
      BY <2>1, <3>1, <3>2
  <2>2. CASE u \notin named
    <3>1. storeOf'[u] = storeOf[u]
      BY <2>2 DEF AssignAdmins
    <3> QED
      BY <2>2, <3>1 DEF StoreInv, OwnStoreComplete
  <2> QED
    BY <2>1, <2>2
<1> QED
  BY <1>2, <1>3 DEF StoreInv

\* A request that has nothing to do with the creation of a store.
LEMMA OtherRequests ==
    ASSUME NEW r, r.pc \notin Creating \cup {"insertStore", "setAdmins"}
    PROVE  DoneSoFar(r)'
BY DEF DoneSoFar, Creating

\* Every step of a request keeps the invariant of the stores.
LEMMA RequestComplete ==
    ASSUME Typed, StoreInv, NEW w \in Workers, Accept(w) \/ Step(w) \/ Kill(w)
    PROVE  StoreInv'
<1> USE DEF At, Free
<1>0. DoneSoFar(req[w]) /\ req[w] \in Requests /\ WellFormed(req[w])
  BY DEF StoreInv, Typed, RequestsTyped
<1>a. UNCHANGED storeVars => Growing /\ UNCHANGED <<storeOf, assigned>>
  BY DEF storeVars, Growing
<1>b. ASSUME NEW pc
      PROVE  /\ [req[w] EXCEPT !.pc = pc].pc = pc
             /\ [req[w] EXCEPT !.pc = pc].user = req[w].user
             /\ [req[w] EXCEPT !.pc = pc].store = req[w].store
  BY <1>0 DEF Requests
<1>1. CASE GetAdmin(w)
  <2>1. PICK u \in Users :
           /\ admins' = admins \cup {u}
           /\ Become(w, [Idle EXCEPT !.pc = "insertStore", !.user = u]) \/ UNCHANGED req
    BY <1>1 DEF GetAdmin
  <2>2. DoneSoFar([Idle EXCEPT !.pc = "insertStore", !.user = u])'
    BY <2>1 DEF DoneSoFar, Creating, Idle
  <2>3. Growing /\ UNCHANGED <<storeOf, assigned>>
    BY <1>1, <2>1 DEF GetAdmin, Growing
  <2>4. CASE UNCHANGED req
    <3>1. Become(w, req[w])
      BY <2>4 DEF Become, Typed, RequestsTyped
    <3> QED
      BY <1>0, <2>3, <2>4, <3>1, DoneStays, StoreStep DEF DoneSoFar, Complete
  <2> QED
    BY <2>1, <2>2, <2>3, <2>4, StoreStep
<1>2. CASE InsertStore(w)
  <2>1. PICK s \in Stores \ stores :
           /\ stores' = stores \cup {s}
           /\ Become(w, [req[w] EXCEPT !.pc = "scheduleOrders", !.store = s])
    BY <1>2 DEF InsertStore
  <2>0. PICK r : r = [req[w] EXCEPT !.pc = "scheduleOrders", !.store = s]
    OBVIOUS
  <2>2. r.pc = "scheduleOrders" /\ r.store = s /\ r.user = req[w].user
    BY <1>0, <2>0 DEF Requests
  <2>3. req[w].user \in admins
    BY <1>0, <1>2 DEF InsertStore, DoneSoFar
  <2>4. Growing /\ UNCHANGED <<storeOf, assigned>>
    BY <1>2, <2>1 DEF InsertStore, Growing
  <2>5. DoneSoFar(r)'
    BY <2>1, <2>2, <2>3, <2>4 DEF DoneSoFar, Growing
  <2> QED
    BY <2>0, <2>1, <2>4, <2>5, StoreStep
<1>3. CASE ScheduleMetrics(w)
  <2>1. Growing /\ UNCHANGED <<storeOf, assigned>>
    BY <1>3 DEF ScheduleMetrics, Growing
  <2>2. \E r : Become(w, r) /\ DoneSoFar(r)'
    <3>1. CASE At(w, "scheduleOrders") /\ Goto(w, "scheduleProfit")
               /\ scheduled' = scheduled \cup {<<req[w].store, "orders">>}
      <4>1. PICK r : r = [req[w] EXCEPT !.pc = "scheduleProfit"]
        OBVIOUS
      <4>2. DoneSoFar(r)'
        BY <1>0, <1>b, <2>1, <3>1, <4>1 DEF DoneSoFar, Creating, Growing
      <4> QED
        BY <3>1, <4>1, <4>2 DEF Goto
    <3>2. CASE At(w, "scheduleProfit") /\ Goto(w, "subscribe")
               /\ scheduled' = scheduled \cup {<<req[w].store, "profit">>}
      <4>1. PICK r : r = [req[w] EXCEPT !.pc = "subscribe"]
        OBVIOUS
      <4>2. DoneSoFar(r)'
        BY <1>0, <1>b, <2>1, <3>2, <4>1 DEF DoneSoFar, Creating, Growing
      <4> QED
        BY <3>2, <4>1, <4>2 DEF Goto
    <3> QED
      BY <1>3, <3>1, <3>2 DEF ScheduleMetrics
  <2> QED
    BY <2>1, <2>2, StoreStep
<1>4. CASE Subscribe(w)
  <2>1. Growing /\ UNCHANGED <<storeOf, assigned>>
    BY <1>4 DEF Subscribe, Growing
  <2>2. PICK r : r = [req[w] EXCEPT !.pc = "linkAdmin"]
    OBVIOUS
  <2>3. DoneSoFar(r)'
    BY <1>0, <1>4, <1>b, <2>1, <2>2 DEF Subscribe, DoneSoFar, Creating, Growing
  <2> QED
    BY <1>4, <2>1, <2>2, <2>3, StoreStep DEF Subscribe, Goto
<1>5. CASE LinkAdmin(w)
  <2>1. /\ Complete(req[w].store) /\ req[w].store \in stores
        /\ {req[w].user} \in SUBSET admins
    BY <1>0, <1>5 DEF LinkAdmin, DoneSoFar, Creating, Complete, Kinds
  <2>2. DoneSoFar([req[w] EXCEPT !.pc = "onboard"])
    BY <1>0, <1>5, <1>b DEF LinkAdmin, DoneSoFar, Creating
  <2>3. \A u \in Users \ {req[w].user} : u \in assigned => u \in assigned'
    BY <1>5 DEF LinkAdmin
  <2> QED
    BY <1>5, <2>1, <2>2, <2>3, AssignStep DEF LinkAdmin, Goto
<1>6. CASE Onboard(w)
  <2>1. Growing /\ UNCHANGED <<storeOf, assigned>> /\ Become(w, Idle)
    BY <1>6 DEF Onboard, Growing, Reply
  <2> QED
    BY <2>1, OtherRequests, StoreStep DEF Idle, Creating
<1>7. CASE LoadStore(w)
  <2>1. PICK s \in stores : Become(w, [Idle EXCEPT !.pc = "setAdmins", !.store = s])
    BY <1>7 DEF LoadStore
  <2>2. UNCHANGED storeVars
    BY <1>7 DEF LoadStore
  <2>3. DoneSoFar([Idle EXCEPT !.pc = "setAdmins", !.store = s])'
    BY <2>2 DEF DoneSoFar, Creating, Idle, storeVars
  <2> QED
    BY <1>a, <2>1, <2>2, <2>3, StoreStep
<1>8. CASE SetAdmins(w)
  <2>1. req[w].store \in stores
    BY <1>0, <1>8 DEF SetAdmins, DoneSoFar
  <2>2. PICK named \in SUBSET admins :
           /\ AssignAdmins(req[w].store, named)
           /\ assigned' = assigned \cup {u \in named : storeOf[u] # req[w].store}
    BY <1>8 DEF SetAdmins
  <2> QED
    BY <1>8, <2>1, <2>2, IdleWellFormed, AssignStep DEF SetAdmins, Reply
<1>9. CASE CheckLimit(w) \/ InsertProduct(w) \/ InsertStock(w) \/ LoadProduct(w)
           \/ SaveProduct(w) \/ Kill(w)
  <2>1. UNCHANGED storeVars
    BY <1>9 DEF CheckLimit, InsertProduct, InsertStock, LoadProduct, SaveProduct, Kill
  <2>2. PICK r : Become(w, r) /\ r.pc \in {"idle", "insertProduct", "insertStock", "saveProduct"}
    <3>1. CASE CheckLimit(w)
      <4>1. PICK s, p, a : Become(w, NewProduct(s, p, a))
        BY <3>1 DEF CheckLimit, NewProduct
      <4> QED
        BY <4>1, ProductRequests
    <3>2. CASE InsertProduct(w)
      BY <1>b, <3>2 DEF InsertProduct, Goto
    <3>3. CASE LoadProduct(w)
      <4>1. PICK s, p, a : Become(w, EditedProduct(s, p, a))
        BY <3>3 DEF LoadProduct, EditedProduct
      <4> QED
        BY <4>1, ProductRequests
    <3>4. CASE InsertStock(w) \/ SaveProduct(w) \/ Kill(w)
      BY <3>4 DEF InsertStock, SaveProduct, Kill, Reply, Idle
    <3> QED
      BY <1>9, <3>1, <3>2, <3>3, <3>4
  <2>3. DoneSoFar(r)'
    BY <2>2, OtherRequests DEF Creating
  <2> QED
    BY <1>a, <2>1, <2>2, <2>3, StoreStep
<1>10. CASE Deactivate(w)
  BY <1>10 DEF Deactivate, storeVars, StoreInv, OwnStoreComplete, DoneSoFar, Complete
<1> QED
  BY <1>1, <1>2, <1>3, <1>4, <1>5, <1>6, <1>7, <1>8, <1>9, <1>10 DEF Accept, Step

(* The owner a POST has linked to a store finds its schedules and its       *)
(* subscription there, whatever is cut short or races and whoever edits     *)
(* whatever store, for any number of workers, users and stores; only a user *)
(* whom a PUT of the store has named may work for one that is not complete. *)
THEOREM StoresAreComplete == Spec => []OwnStoreComplete
<1>1. Init => StoreInv
  BY IdleWellFormed DEF Init, StoreInv, OwnStoreComplete
<1>2. Typed /\ StoreInv /\ [Next]_vars => Typed' /\ StoreInv'
  <2> SUFFICES ASSUME Typed, StoreInv, [Next]_vars PROVE StoreInv'
    BY TypeStep
  <2>1. CASE UNCHANGED vars
    BY <2>1 DEF vars, storeVars, StoreInv, OwnStoreComplete, DoneSoFar, Complete
  <2> QED
    BY <2>1, RequestComplete DEF Next
<1>3. StoreInv => OwnStoreComplete
  BY DEF StoreInv
<1> QED
  BY <1>1, <1>2, <1>3, InitTyped, PTL DEF Spec

-----------------------------------------------------------------------------
(* The refinement of module Admission.                                     *)

\* The theorem about Admission, for the products of stores.
LimitedProofs ==
    INSTANCE AdmissionProofs
    WITH Groups <- Stores,
         Keys <- ProductIds,
         Limit <- [s \in Stores |-> ProductsLimit],
         present <- {m \in Stores \X ProductIds : m[2] \in ActiveOf(m[1])},
         held <- [w \in Workers |-> Holding(w)]

\* The mapped variables.
Present == {m \in Stores \X ProductIds : m[2] \in ActiveOf(m[1])}
Held == [w \in Workers |-> Holding(w)]

\* What the request in r holds.
HeldBy(r) ==
    IF r.pc \in {"insertProduct", "saveProduct"} /\ r.active
    THEN <<r.store, r.product>> ELSE None

\* A step of one request.
LEMMA HeldStep ==
    ASSUME Typed, NEW w \in Workers, NEW r, Become(w, r)
    PROVE  Held' = [Held EXCEPT ![w] = HeldBy(r)]
BY DEF Typed, RequestsTyped, Become, Held, Holding, HeldBy

\* The copies that INSTANCE makes of the operators on finite sets are those
\* operators.
LEMMA SameOperators ==
    ASSUME NEW S
    PROVE  /\ Limited!Cardinality(S) = Cardinality(S)
           /\ LimitedProofs!Cardinality(S) = Cardinality(S)
           /\ LimitedProofs!IsFiniteSet(S) <=> IsFiniteSet(S)
<1>1. Limited!Cardinality(S) = Cardinality(S)
  BY DEF Limited!Cardinality, Cardinality
<1>2. LimitedProofs!Cardinality(S) = Cardinality(S)
  BY DEF LimitedProofs!Cardinality, Cardinality
<1>3. LimitedProofs!IsFiniteSet(S) <=> IsFiniteSet(S)
  BY DEF LimitedProofs!IsFiniteSet, IsFiniteSet
<1> QED
  BY <1>1, <1>2, <1>3

\* The keys of a store are its active products, which are finitely many.
LEMMA KeysAreProducts ==
    ASSUME Typed, NEW s \in Stores
    PROVE  /\ Limited!KeysOf(s, Present) = ActiveOf(s)
           /\ IsFiniteSet(ActiveOf(s)) /\ Cardinality(ActiveOf(s)) \in Nat
<1>1. ActiveOf(s) \subseteq ProductIds
  BY DEF Typed, ProductsTyped, ActiveOf
<1>2. IsFiniteSet(ActiveOf(s)) /\ Cardinality(ActiveOf(s)) \in Nat
  BY <1>1, CatalogueAssumption, FS_Subset, FS_CardinalityType
<1>3. Limited!KeysOf(s, Present) = ActiveOf(s)
  BY <1>1 DEF Present, Limited!KeysOf
<1> QED
  BY <1>2, <1>3

\* An INSERT or an UPDATE stores what the request held.
LEMMA WriteStores ==
    ASSUME Typed, NEW w \in Workers, req[w].pc \in {"insertProduct", "saveProduct"},
           WriteProduct(req[w].product, req[w].store, req[w].active)
    PROVE  Present' \in SUBSET (Present \cup ({Holding(w)} \cap (Stores \X ProductIds)))
<1>1. req[w].product \in ProductIds /\ req[w].store \in Stores /\ req[w].active \in BOOLEAN
  BY DEF Typed, RequestsTyped, WellFormed, Requests
<1>2. /\ Products' = Products \cup {req[w].product}
      /\ \A q \in Products' : product'[q] = IF q = req[w].product
                                            THEN [store |-> req[w].store, active |-> req[w].active]
                                            ELSE product[q]
  BY <1>1, WriteTyped DEF Typed
<1> SUFFICES ASSUME NEW s \in Stores, NEW p \in ProductIds,
                    <<s, p>> \in Present', <<s, p>> \notin Present
             PROVE  Holding(w) = <<s, p>>
  BY DEF Present
<1>3. p \in Products' /\ product'[p] = [store |-> s, active |-> TRUE]
  BY DEF Present, ActiveOf
<1>4. p = req[w].product
  BY <1>2, <1>3 DEF Present, ActiveOf
<1>5. [store |-> req[w].store, active |-> req[w].active] = [store |-> s, active |-> TRUE]
  BY <1>2, <1>3, <1>4
<1>6. req[w].store = s /\ req[w].active = TRUE
  BY <1>5
<1> QED
  BY <1>4, <1>6 DEF Holding

\* Every step is one of the abstract specification, for clients that name their
\* own store and neither move nor reactivate products.
LEMMA Refines ==
    ASSUME Typed, Clients, [Next]_vars
    PROVE  [Limited!Next]_(Limited!vars)
<1> USE DEF At, Free
<1>a. UNCHANGED product => Present' = Present
  BY DEF Present, ActiveOf, Products
<1>b. ASSUME NEW w \in Workers PROVE req[w] \in Requests /\ WellFormed(req[w])
  BY DEF Typed, RequestsTyped
<1>c. ASSUME NEW w \in Workers, NEW r, Become(w, r), UNCHANGED product,
             HeldBy(r) = None, Holding(w) = None
      PROVE  UNCHANGED Limited!vars
  <2>1. Held' = [Held EXCEPT ![w] = None] /\ Held[w] = None
    BY <1>c, HeldStep DEF Held
  <2>2. Held' = Held
    BY <2>1 DEF Held
  <2> QED
    BY <1>a, <1>c, <2>2 DEF Limited!vars, Present, Held
<1>1. ASSUME NEW w \in Workers,
             \/ GetAdmin(w) \/ InsertStore(w) \/ ScheduleMetrics(w) \/ Subscribe(w)
             \/ LinkAdmin(w) \/ Onboard(w) \/ LoadStore(w) \/ SetAdmins(w) \/ InsertStock(w)
      PROVE  UNCHANGED Limited!vars
  <2>1. UNCHANGED product /\ Holding(w) = None
    BY <1>1 DEF GetAdmin, InsertStore, ScheduleMetrics, Subscribe, LinkAdmin, Onboard,
                LoadStore, SetAdmins, InsertStock, productVars, Holding
  <2>2. CASE UNCHANGED req
    BY <1>a, <2>1, <2>2 DEF Limited!vars, Present, Held, Holding
  <2>3. CASE \E r : Become(w, r) /\ r.pc \notin {"insertProduct", "saveProduct"}
    <3>1. PICK r : Become(w, r) /\ r.pc \notin {"insertProduct", "saveProduct"}
      BY <2>3
    <3>2. HeldBy(r) = None
      BY <3>1 DEF HeldBy
    <3> QED
      BY <1>c, <2>1, <3>1, <3>2
  <2>4. \/ UNCHANGED req
        \/ \E r : Become(w, r) /\ r.pc \notin {"insertProduct", "saveProduct"}
    <3>0. \A pc : [req[w] EXCEPT !.pc = pc].pc = pc
      BY <1>b DEF Requests
    <3>1. CASE GetAdmin(w)
      <4>1. \A u : [Idle EXCEPT !.pc = "insertStore", !.user = u].pc = "insertStore"
        BY DEF Idle
      <4> QED
        BY <3>1, <4>1 DEF GetAdmin
    <3>2. CASE InsertStore(w)
      <4>1. \A s : [req[w] EXCEPT !.pc = "scheduleOrders", !.store = s].pc = "scheduleOrders"
        BY <1>b DEF Requests
      <4> QED
        BY <3>2, <4>1 DEF InsertStore
    <3>3. CASE ScheduleMetrics(w) \/ Subscribe(w) \/ LinkAdmin(w)
      <4>1. PICK pc \in {"scheduleProfit", "subscribe", "linkAdmin", "onboard"} :
               Become(w, [req[w] EXCEPT !.pc = pc])
        BY <3>3 DEF ScheduleMetrics, Subscribe, LinkAdmin, Goto
      <4>2. [req[w] EXCEPT !.pc = pc].pc = pc
        BY <3>0
      <4> QED
        BY <4>1, <4>2
    <3>4. CASE Onboard(w) \/ SetAdmins(w) \/ InsertStock(w)
      BY <3>4 DEF Onboard, SetAdmins, InsertStock, Reply, Idle
    <3>5. CASE LoadStore(w)
      <4>1. \A s : [Idle EXCEPT !.pc = "setAdmins", !.store = s].pc = "setAdmins"
        BY DEF Idle
      <4> QED
        BY <3>5, <4>1 DEF LoadStore
    <3> QED
      BY <1>1, <3>1, <3>2, <3>3, <3>4, <3>5
  <2> QED
    BY <2>2, <2>3, <2>4
<1>2. ASSUME NEW w \in Workers, CheckLimit(w) PROVE Limited!Admit(w) \/ UNCHANGED Limited!vars
  <2>1. PICK s \in stores, p \in freshProducts, a \in {TRUE} \cup PutActive :
           Cardinality(ActiveOf(s)) < ProductsLimit /\ Become(w, NewProduct(s, p, a))
    <3>1. PICK u \in admins, s \in stores, p \in freshProducts, a \in {TRUE} \cup PutActive :
             /\ ~HitProductsLimit(storeOf[u]) /\ s = storeOf[u]
             /\ Become(w, NewProduct(s, p, a))
      BY <1>2 DEF CheckLimit, Clients, NewProduct
    <3>2. s \in Stores
      BY DEF Typed, StoresTyped
    <3>3. Cardinality(ActiveOf(s)) \in Nat /\ ProductsLimit \in Nat
      BY <3>2, KeysAreProducts, CatalogueAssumption
    <3>4. Cardinality(ActiveOf(s)) < ProductsLimit
      BY <3>1, <3>3 DEF HitProductsLimit
    <3> QED
      BY <3>1, <3>4
  <2>2. s \in Stores /\ p \in ProductIds /\ a \in BOOLEAN
    BY CatalogueAssumption DEF Typed, StoresTyped, ProductsTyped
  <2>3. PICK r : r = NewProduct(s, p, a)
    OBVIOUS
  <2>4. r.pc = "insertProduct" /\ r.store = s /\ r.product = p /\ r.active = a
    BY <2>3, ProductRequests
  <2>5. UNCHANGED product /\ Holding(w) = None
    BY <1>2 DEF CheckLimit, Holding
  <2>6. CASE a
    <3>1. Held' = [Held EXCEPT ![w] = <<s, p>>]
      <4>1. HeldBy(r) = <<s, p>>
        BY <2>4, <2>6 DEF HeldBy
      <4>2. Become(w, r)
        BY <2>1, <2>3
      <4> QED
        BY <4>1, <4>2, HeldStep
    <3>2. /\ IsFiniteSet(ActiveOf(s)) /\ Cardinality(ActiveOf(s)) \in Nat
          /\ Limited!KeysOf(s, Present) = ActiveOf(s)
      BY <2>2, KeysAreProducts
    <3>3. Cardinality(ActiveOf(s) \ {p}) <= Cardinality(ActiveOf(s))
      BY <3>2, FS_Subset
    <3>4. Cardinality(ActiveOf(s) \ {p}) < ProductsLimit
      <4>1. IsFiniteSet(ActiveOf(s) \ {p})
        BY <3>2, FS_Subset
      <4>2. Cardinality(ActiveOf(s) \ {p}) \in Nat
        BY <4>1, FS_CardinalityType
      <4> QED
        BY <2>1, <3>2, <3>3, <4>2, CatalogueAssumption
    <3>5. Limited!Cardinality(Limited!KeysOf(s, Present) \ {p}) < [t \in Stores |-> ProductsLimit][s]
      BY <2>2, <3>2, <3>4, SameOperators
    <3> QED
      BY <1>a, <2>2, <2>5, <3>1, <3>5 DEF Limited!Admit, Present, Held
  <2>7. CASE ~a
    <3>1. HeldBy(r) = None
      BY <2>4, <2>7 DEF HeldBy
    <3> QED
      BY <1>c, <2>1, <2>3, <2>5, <3>1
  <2> QED
    BY <2>2, <2>6, <2>7
<1>3. ASSUME NEW w \in Workers, InsertProduct(w) \/ SaveProduct(w) PROVE Limited!Settle(w)
  <2>1. Present' \in SUBSET (Present \cup ({Holding(w)} \cap (Stores \X ProductIds)))
    BY <1>3, WriteStores DEF InsertProduct, SaveProduct
  <2>2. PICK r : Become(w, r) /\ HeldBy(r) = None
    <3>1. [req[w] EXCEPT !.pc = "insertStock"].pc = "insertStock"
      BY <1>b DEF Requests
    <3> QED
      <4>1. HeldBy([req[w] EXCEPT !.pc = "insertStock"]) = None /\ HeldBy(Idle) = None
        BY <3>1 DEF HeldBy, Idle
      <4>2. Become(w, [req[w] EXCEPT !.pc = "insertStock"]) \/ Become(w, Idle)
        BY <1>3 DEF InsertProduct, SaveProduct, Goto, Reply
      <4> QED
        BY <4>1, <4>2
  <2>3. Held' = [Held EXCEPT ![w] = None] /\ Held[w] = Holding(w)
    BY <2>2, HeldStep DEF Held
  <2> QED
    BY <2>1, <2>3 DEF Limited!Settle, Limited!Memberships, Present, Held
<1>4. ASSUME NEW w \in Workers, LoadProduct(w)
      PROVE  Limited!Remember(w) \/ UNCHANGED Limited!vars
  <2>0. PICK p \in Products : \E a \in {product[p].active} \cup PutActive :
           Become(w, EditedProduct(product[p].store, p, a))
    BY <1>4 DEF LoadProduct, Clients, EditedProduct
  <2>1. PICK a \in {product[p].active} \cup PutActive :
           Become(w, EditedProduct(product[p].store, p, a))
    BY <2>0
  <2>2. PICK r : r = EditedProduct(product[p].store, p, a)
    OBVIOUS
  <2>3. /\ r.pc = "saveProduct" /\ r.store = product[p].store /\ r.product = p /\ r.active = a
    BY <2>2 DEF EditedProduct, Idle
  <2>4. p \in ProductIds /\ product[p] \in Rows
    BY DEF Typed, ProductsTyped
  <2>5. UNCHANGED product /\ Holding(w) = None
    BY <1>4 DEF LoadProduct, productVars, Holding
  <2>6. a \in BOOLEAN /\ product[p].store \in Stores
    BY <2>4, CatalogueAssumption DEF Rows
  <2>7. CASE a
    <3>1. product[p].active = TRUE
      BY <2>4, <2>7 DEF Clients, Rows
    <3>2. product[p] = [store |-> product[p].store, active |-> TRUE]
      BY <2>4, <3>1 DEF Rows
    <3>3. <<product[p].store, p>> \in Present
      BY <2>4, <2>6, <3>2 DEF Present, ActiveOf
    <3>4. Held' = [Held EXCEPT ![w] = <<product[p].store, p>>]
      <4>1. HeldBy(r) = <<product[p].store, p>>
        BY <2>3, <2>7 DEF HeldBy
      <4>2. Become(w, r)
        BY <2>1, <2>2
      <4> QED
        BY <4>1, <4>2, HeldStep
    <3> QED
      BY <1>a, <2>5, <3>3, <3>4 DEF Limited!Remember, Present, Held
  <2>8. CASE ~a
    <3>1. HeldBy(r) = None
      BY <2>3, <2>8 DEF HeldBy
    <3> QED
      BY <1>c, <2>1, <2>2, <2>5, <3>1
  <2> QED
    BY <2>6, <2>7, <2>8
<1>5. ASSUME NEW w \in Workers, Deactivate(w) PROVE Limited!Leave
  <2>1. PICK p \in Products : product' = [product EXCEPT ![p].active = FALSE]
    BY <1>5 DEF Deactivate
  <2>2. product \in [Products -> Rows]
    BY DEF Typed, ProductsTyped
  <2>3. Products' = Products
    BY <2>1 DEF Products
  <2>4. product'[p].active = FALSE /\ \A q \in Products \ {p} : product'[q] = product[q]
    BY <2>1, <2>2 DEF Rows
  <2>5. Present' \in SUBSET Present
    <3> SUFFICES ASSUME NEW s \in Stores, NEW q \in ProductIds, <<s, q>> \in Present'
                 PROVE  <<s, q>> \in Present
      BY DEF Present
    <3>1. q \in Products /\ product'[q] = [store |-> s, active |-> TRUE]
      BY <2>3 DEF Present, ActiveOf
    <3>2. product'[q].active = TRUE
      BY <3>1
    <3>3. q # p
      BY <2>4, <3>2
    <3> QED
      BY <2>4, <3>1, <3>3 DEF Present, ActiveOf
  <2>6. Held' = Held
    BY <1>5 DEF Deactivate, Held, Holding
  <2> QED
    BY <2>5, <2>6 DEF Limited!Leave, Present, Held
<1>6. ASSUME NEW w \in Workers, Kill(w) PROVE Limited!Settle(w)
  <2>1. UNCHANGED product /\ Become(w, Idle) /\ HeldBy(Idle) = None
    BY <1>6 DEF Kill, Reply, HeldBy, Idle, productVars
  <2>2. Held' = [Held EXCEPT ![w] = None]
    BY <2>1, HeldStep
  <2> QED
    BY <1>a, <2>1, <2>2 DEF Limited!Settle, Present, Held
<1>7. CASE UNCHANGED vars
  BY <1>7 DEF vars, productVars, Limited!vars, ActiveOf, Products, Holding
<1> QED
  BY <1>1, <1>2, <1>3, <1>4, <1>5, <1>6, <1>7 DEF Next, Accept, Step, Limited!Next

\* The initial states are initial states of the abstract specification.
LEMMA InitRefines == Init => Limited!Init
<1> SUFFICES ASSUME Init PROVE Limited!Init
  OBVIOUS
<1>1. Present = {}
  BY DEF Init, Present, ActiveOf, Products
<1>2. Held = [w \in Workers |-> None]
  BY DEF Init, Held, Holding, Idle
<1> QED
  BY <1>1, <1>2 DEF Limited!Init, Present, Held

(* The limit of products is a check before a write, for clients that name   *)
(* their own store and neither move nor reactivate products: Init maps to   *)
(* Init, every step to a step or to none.                                   *)
THEOREM Implementation ==
    ASSUME Clients
    PROVE  Spec => ImplementsAdmission
<1>1. Typed /\ [Next]_vars => Typed'
  BY TypeStep
<1>2. Typed /\ [Next]_vars => [Limited!Next]_(Limited!vars)
  BY Refines
<1> QED
  BY <1>1, <1>2, InitTyped, InitRefines, PTL DEF Spec, ImplementsAdmission, Limited!Spec

-----------------------------------------------------------------------------
\* The abstract specification is the one the theorem on admissions is about.
LEMMA SameSpecification == ImplementsAdmission => LimitedProofs!Spec
<1>1. Limited!Init => LimitedProofs!Init
  BY DEF Limited!Init, LimitedProofs!Init
<1>2. [Limited!Next]_(Limited!vars) => [LimitedProofs!Next]_(LimitedProofs!vars)
  <2> SUFFICES ASSUME [Limited!Next]_(Limited!vars)
               PROVE  [LimitedProofs!Next]_(LimitedProofs!vars)
    OBVIOUS
  <2>1. CASE Limited!Leave
    BY <2>1 DEF Limited!Leave, LimitedProofs!Next, LimitedProofs!Leave
  <2>2. ASSUME NEW w \in Workers, Limited!Remember(w) PROVE LimitedProofs!Next
    BY <2>2 DEF Limited!Remember, LimitedProofs!Next, LimitedProofs!Remember
  <2>3. ASSUME NEW w \in Workers, Limited!Admit(w) PROVE LimitedProofs!Next
    <3>1. PICK s \in Stores, p \in ProductIds :
             /\ Limited!Cardinality(Limited!KeysOf(s, Present) \ {p})
                   < [t \in Stores |-> ProductsLimit][s]
             /\ Held' = [Held EXCEPT ![w] = <<s, p>>]
             /\ Present' = Present
      BY <2>3 DEF Limited!Admit, Present, Held
    <3>2. LimitedProofs!KeysOf(s, Present) = Limited!KeysOf(s, Present)
      BY DEF Limited!KeysOf, LimitedProofs!KeysOf
    <3>3. LimitedProofs!Cardinality(LimitedProofs!KeysOf(s, Present) \ {p})
             = Limited!Cardinality(Limited!KeysOf(s, Present) \ {p})
      BY <3>2, SameOperators
    <3>4. LimitedProofs!Admit(w)
      BY <3>1, <3>3 DEF LimitedProofs!Admit, Present, Held
    <3> QED
      BY <3>4 DEF LimitedProofs!Next
  <2>4. ASSUME NEW w \in Workers, Limited!Settle(w) PROVE LimitedProofs!Next
    BY <2>4 DEF Limited!Settle, LimitedProofs!Next, LimitedProofs!Settle,
                Limited!Memberships, LimitedProofs!Memberships
  <2>5. CASE UNCHANGED Limited!vars
    BY <2>5 DEF Limited!vars, LimitedProofs!vars
  <2> QED
    BY <2>1, <2>2, <2>3, <2>4, <2>5 DEF Limited!Next
<1> QED
  BY <1>1, <1>2, PTL DEF ImplementsAdmission, Limited!Spec, LimitedProofs!Spec

\* What is proved of admissions, in terms of products.
LEMMA BoundTransfers ==
    ASSUME Typed, LimitedProofs!Bounded
    PROVE  ProductsBounded
<1> SUFFICES ASSUME NEW s \in Stores
             PROVE  Cardinality(ActiveOf(s)) <= ProductsLimit + Cardinality(Workers) - 1
  BY DEF ProductsBounded
<1>1. \A t \in Stores :
         Cardinality(Limited!KeysOf(t, Present))
            <= [u \in Stores |-> ProductsLimit][t] + Cardinality(Workers) - 1
  BY SameOperators DEF LimitedProofs!Bounded, LimitedProofs!KeysOf, Limited!KeysOf, Present
<1> QED
  BY <1>1, KeysAreProducts

(* A store has at most one active product over its limit for every worker   *)
(* but one, for any limit and whatever requests interleave, if the clients  *)
(* name their own store and neither move nor reactivate products.           *)
THEOREM ProductsAreBounded ==
    ASSUME Workers # {}
    PROVE  Spec => []ProductsBounded
<1>1. CASE ~Clients
  <2>1. ProductsBounded
    BY <1>1 DEF ProductsBounded
  <2> QED
    BY <2>1, PTL
<1>2. CASE Clients
  <2>1. LimitedProofs!Constants
    BY CatalogueAssumption, SameOperators
       DEF LimitedProofs!Constants, LimitedProofs!Memberships, CatalogueAssumption
  <2>2. Spec => ImplementsAdmission
    BY <1>2, Implementation
  <2>3. LimitedProofs!Spec => []LimitedProofs!Bounded
    BY <2>1, LimitedProofs!AdmissionIsBounded
  <2>4. Typed /\ [Next]_vars => Typed'
    BY TypeStep
  <2> QED
    BY <2>2, <2>3, <2>4, SameSpecification, InitTyped, BoundTransfers, PTL DEF Spec
<1> QED
  BY <1>1, <1>2
=============================================================================
