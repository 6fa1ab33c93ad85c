----------------------------- MODULE Catalogue -----------------------------
(***************************************************************************)
(* Stores, their admins, schedules and subscriptions, and the products the *)
(* plan of a subscription limits.                                          *)
(*                                                                         *)
(* A store is created by a series of statements: the admin of its owner,   *)
(* the store, two schedules and a subscription that a signal adds, and     *)
(* last the admin's link to the store.  The limit of products is checked   *)
(* by a permission, long before the product is inserted, and a product is  *)
(* inserted before its first stock.  Any user may edit any store, also one *)
(* still being created, and name its admins.  Requests of the sync workers *)
(* interleave between these statements, and a worker may be killed.        *)
(***************************************************************************)
EXTENDS Integers, FiniteSets

CONSTANTS
    Workers,        \* the worker processes
    Users,          \* the users; an Admin row belongs to one user
    Stores,         \* the primary keys stores can have
    ProductIds,     \* the primary keys products can have
    ProductsLimit,  \* products_limit of the only plan, FREE
    ForeignStores,  \* whether a new product may be for a store of somebody else
    PutActive,      \* the values of "is_active" in the payload of a product
    PutStores,      \* the values of "store_id" in the payload of a product's PUT
    Killable,       \* the workers that may be killed in the middle of a request
    None            \* an absent value

ASSUME CatalogueAssumption ==
    /\ IsFiniteSet(Workers) /\ IsFiniteSet(ProductIds)
    /\ ProductsLimit \in Nat
    /\ ForeignStores \in BOOLEAN
    /\ PutActive \subseteq BOOLEAN /\ PutStores \subseteq Stores
    /\ Killable \subseteq Workers
    /\ None \notin Users \cup Stores \cup ProductIds
    /\ None \notin Stores \X ProductIds

VARIABLES
    admins,         \* the users that have an Admin row
    storeOf,        \* column store of Admin, by the user of the admin
    stores,         \* the rows of Store
    scheduled,      \* the rows of StorePeriodicTask: a store and a kind of task
    subscribed,     \* the stores that have a StoreSubscription
    onboarded,      \* the users whose is_onboarded is set
    product,        \* the rows of Product: a function of their primary keys
    freshProducts,  \* product keys never used
    assigned,       \* history: the users that a PUT was the last to give a store
    req             \* what each worker's request holds in memory

storeVars == <<admins, storeOf, stores, scheduled, subscribed, onboarded, assigned>>
productVars == <<product, freshProducts>>
vars == <<storeVars, productVars, req>>

Kinds == {"orders", "profit"}

Rows == [store : Stores, active : BOOLEAN]

-----------------------------------------------------------------------------
(* A request in memory: the row of the product it will write, with its key.*)

Idle == [pc |-> "idle", user |-> None, store |-> None, product |-> None, active |-> TRUE]

Requests ==
    [pc : {"idle", "insertStore", "scheduleOrders", "scheduleProfit", "subscribe",
           "linkAdmin", "onboard", "setAdmins", "insertProduct", "insertStock",
           "saveProduct"},
     user : Users \cup {None},
     store : Stores \cup {None},
     product : ProductIds \cup {None},
     active : BOOLEAN]

Free(w) == req[w].pc = "idle"
At(w, pc) == req[w].pc = pc
Become(w, r) == req' = [req EXCEPT ![w] = r]
Goto(w, pc) == Become(w, [req[w] EXCEPT !.pc = pc])
Reply(w) == Become(w, Idle)

-----------------------------------------------------------------------------
(* Stores: StoresEndpoint POST.                                            *)

\* get_or_create: the user column is unique, a loser of a race reads the row
\* of the winner.  A payload that is not valid leaves the admin behind.
GetAdmin(w) ==
    /\ Free(w)
    /\ \E u \in Users :
          /\ admins' = admins \cup {u}
          /\ \/ Become(w, [Idle EXCEPT !.pc = "insertStore", !.user = u])
             \/ UNCHANGED req
    /\ UNCHANGED <<storeOf, stores, scheduled, subscribed, onboarded, assigned, productVars>>

\* store.admins.set(...): the admins named now work for this store, those that
\* did and are not named work for none.
AssignAdmins(s, named) ==
    storeOf' = [u \in Users |-> IF u \in named THEN s
                                ELSE IF storeOf[u] = s THEN None ELSE storeOf[u]]

\* Mistake to be caught: the admin is linked before the signal has run.
InsertStore_LinkFirst(w) ==
    /\ At(w, "insertStore")
    /\ \E s \in Stores \ stores :
          /\ stores' = stores \cup {s}
          /\ AssignAdmins(s, {req[w].user})
          /\ Become(w, [req[w] EXCEPT !.pc = "scheduleOrders", !.store = s])
    /\ assigned' = assigned \ {req[w].user}
    /\ UNCHANGED <<admins, scheduled, subscribed, onboarded, productVars>>

InsertStore(w) ==
    /\ At(w, "insertStore")
    /\ \E s \in Stores \ stores :
          /\ stores' = stores \cup {s}
          /\ Become(w, [req[w] EXCEPT !.pc = "scheduleOrders", !.store = s])
    /\ UNCHANGED <<admins, storeOf, scheduled, subscribed, onboarded, assigned, productVars>>

\* The post_save signal: two schedules, then the subscription to the plan FREE.
ScheduleMetrics(w) ==
    /\ \/ At(w, "scheduleOrders") /\ Goto(w, "scheduleProfit")
          /\ scheduled' = scheduled \cup {<<req[w].store, "orders">>}
       \/ At(w, "scheduleProfit") /\ Goto(w, "subscribe")
          /\ scheduled' = scheduled \cup {<<req[w].store, "profit">>}
    /\ UNCHANGED <<admins, storeOf, stores, subscribed, onboarded, assigned, productVars>>

Subscribe(w) ==
    /\ At(w, "subscribe")
    /\ subscribed' = subscribed \cup {req[w].store}
    /\ Goto(w, "linkAdmin")
    /\ UNCHANGED <<admins, storeOf, stores, scheduled, onboarded, assigned, productVars>>

LinkAdmin(w) ==
    /\ At(w, "linkAdmin")
    /\ AssignAdmins(req[w].store, {req[w].user})
    /\ assigned' = assigned \ {req[w].user}
    /\ Goto(w, "onboard")
    /\ UNCHANGED <<admins, stores, scheduled, subscribed, onboarded, productVars>>

Onboard(w) ==
    /\ At(w, "onboard")
    /\ onboarded' = onboarded \cup {req[w].user}
    /\ Reply(w)
    /\ UNCHANGED <<admins, storeOf, stores, scheduled, subscribed, assigned, productVars>>

(* StoreEndpoint PUT: by any user, for any store, however much of the      *)
(* store's own POST has been done.                                         *)

LoadStore(w) ==
    /\ Free(w)
    /\ \E s \in stores : Become(w, [Idle EXCEPT !.pc = "setAdmins", !.store = s])
    /\ UNCHANGED <<storeVars, productVars>>

\* "admins_ids" may name any admins; those that work for the store already
\* are left as they are.
SetAdmins(w) ==
    /\ At(w, "setAdmins")
    /\ \E named \in SUBSET admins :
          /\ AssignAdmins(req[w].store, named)
          /\ assigned' = assigned \cup {u \in named : storeOf[u] # req[w].store}
    /\ Reply(w)
    /\ UNCHANGED <<admins, stores, scheduled, subscribed, onboarded, productVars>>

-----------------------------------------------------------------------------
(* Products.                                                               *)

Products == DOMAIN product

ActiveOf(s) == {p \in Products : product[p] = [store |-> s, active |-> TRUE]}

HitProductsLimit(s) == Cardinality(ActiveOf(s)) >= ProductsLimit

WriteProduct(p, s, active) ==
    product' = [q \in Products \cup {p} |->
                   IF q = p THEN [store |-> s, active |-> active] ELSE product[q]]

\* Mistake to be caught: one product more than the limit is let through.
CheckLimit_OffByOne(w) ==
    /\ Free(w)
    /\ \E u \in admins, s \in stores, p \in freshProducts, active \in {TRUE} \cup PutActive :
          /\ storeOf[u] \in subscribed
          /\ Cardinality(ActiveOf(storeOf[u])) <= ProductsLimit
          /\ s = storeOf[u] \/ ForeignStores
          /\ freshProducts' = freshProducts \ {p}
          /\ Become(w, [Idle EXCEPT !.pc = "insertProduct", !.store = s, !.product = p,
                                    !.active = active])
    /\ UNCHANGED <<storeVars, product>>

\* ProductsEndpoint POST: the permission counts the active products of the
\* store the user works for; the serializer takes the store of the payload.
\* Without an admin, a store or a subscription the permission fails.
CheckLimit(w) ==
    /\ Free(w)
    /\ \E u \in admins, s \in stores, p \in freshProducts, active \in {TRUE} \cup PutActive :
          /\ storeOf[u] \in subscribed
          /\ ~HitProductsLimit(storeOf[u])
          /\ s = storeOf[u] \/ ForeignStores
          /\ freshProducts' = freshProducts \ {p}
          /\ Become(w, [Idle EXCEPT !.pc = "insertProduct", !.store = s, !.product = p,
                                    !.active = active])
    /\ UNCHANGED <<storeVars, product>>

InsertProduct(w) ==
    /\ At(w, "insertProduct")
    /\ WriteProduct(req[w].product, req[w].store, req[w].active)
    /\ Goto(w, "insertStock")
    /\ UNCHANGED <<storeVars, freshProducts>>

\* The last statement inserts the first stock: what that adds to the table of
\* stocks is CreateStock of OrderStock.  It fails, with the product inserted,
\* when the quantity is not a number: no serializer has seen it.
InsertStock(w) ==
    /\ At(w, "insertStock")
    /\ Reply(w)
    /\ UNCHANGED <<storeVars, productVars>>

\* Mistake to be caught: "is_active" takes the serializer's default when the
\* payload has none, as it would if the update were not partial.
LoadProduct_Defaults(w) ==
    /\ Free(w)
    /\ \E p \in Products :
       \E s \in {product[p].store} \cup PutStores, a \in {TRUE} \cup PutActive :
          Become(w, [Idle EXCEPT !.pc = "saveProduct", !.store = s, !.product = p, !.active = a])
    /\ UNCHANGED <<storeVars, productVars>>

\* ProductEndpoint PUT: get_object reads the row, the payload patches it.
LoadProduct(w) ==
    /\ Free(w)
    /\ \E p \in Products :
       \E s \in {product[p].store} \cup PutStores, a \in {product[p].active} \cup PutActive :
          Become(w, [Idle EXCEPT !.pc = "saveProduct", !.store = s, !.product = p, !.active = a])
    /\ UNCHANGED <<storeVars, productVars>>

\* The save writes every column, those somebody has changed since as well.
SaveProduct(w) ==
    /\ At(w, "saveProduct")
    /\ WriteProduct(req[w].product, req[w].store, req[w].active)
    /\ Reply(w)
    /\ UNCHANGED <<storeVars, freshProducts>>

\* Mistake to be caught: the product is taken out of its store as well.
Deactivate_NoStore(w) ==
    /\ Free(w)
    /\ \E p \in Products : product' = [product EXCEPT ![p] = [store |-> None, active |-> FALSE]]
    /\ UNCHANGED <<storeVars, freshProducts, req>>

\* ProductEndpoint DELETE keeps the row and clears is_active, and nothing else.
Deactivate(w) ==
    /\ Free(w)
    /\ \E p \in Products : product' = [product EXCEPT ![p].active = FALSE]
    /\ UNCHANGED <<storeVars, freshProducts, req>>

\* gunicorn's master kills a worker: what its request has written stays.
Kill(w) ==
    /\ w \in Killable
    /\ ~Free(w)
    /\ Reply(w)
    /\ UNCHANGED <<storeVars, productVars>>

-----------------------------------------------------------------------------
Init ==
    /\ admins = {} /\ storeOf = [u \in Users |-> None]
    /\ stores = {} /\ scheduled = {} /\ subscribed = {} /\ onboarded = {}
    /\ product = [p \in {} |-> [store |-> None, active |-> FALSE]]
    /\ freshProducts = ProductIds
    /\ assigned = {}
    /\ req = [w \in Workers |-> Idle]

\* What a request does once a worker has accepted it.
Step(w) ==
    \/ InsertStore(w) \/ ScheduleMetrics(w) \/ Subscribe(w) \/ LinkAdmin(w) \/ Onboard(w)
    \/ SetAdmins(w)
    \/ InsertProduct(w) \/ InsertStock(w) \/ SaveProduct(w)

Accept(w) ==
    GetAdmin(w) \/ LoadStore(w) \/ CheckLimit(w) \/ LoadProduct(w) \/ Deactivate(w)

Next == \E w \in Workers : Accept(w) \/ Step(w) \/ Kill(w)

Spec == Init /\ [][Next]_vars

-----------------------------------------------------------------------------
TypeOK ==
    /\ admins \subseteq Users
    /\ storeOf \in [Users -> Stores \cup {None}]
    /\ stores \subseteq Stores
    /\ scheduled \subseteq Stores \X Kinds
    /\ subscribed \subseteq Stores
    /\ onboarded \subseteq Users
    /\ Products \subseteq ProductIds
    /\ product \in [Products -> Rows]
    /\ freshProducts \subseteq ProductIds
    /\ assigned \subseteq Users
    /\ req \in [Workers -> Requests]

\* What the POST of a store makes, up to its subscription.
Complete(s) == s \in stores \cap subscribed /\ {s} \X Kinds \subseteq scheduled

(* Whoever works for a store is an admin and the store is there, and the    *)
(* owner a POST has linked can use the store: it has its two schedules and  *)
(* the subscription without which every request about products fails.  This *)
(* rests on the order of the statements of serializer.save(): the signal    *)
(* runs before the link is made, so that a kill leaves no owner behind in   *)
(* half a store, and no edit of any store by anybody puts one there unless  *)
(* it names that user.  A user somebody's PUT named is excepted: the store  *)
(* may still be half made, or have been cut short, and nobody checks.       *)
OwnStoreComplete ==
    \A u \in Users :
       storeOf[u] # None =>
          /\ u \in admins
          /\ storeOf[u] \in stores
          /\ Complete(storeOf[u]) \/ u \in assigned

Clients == ~ForeignStores /\ TRUE \notin PutActive /\ PutStores = {}

(* The plan's limit holds up to the requests that were under way together:  *)
(* a store has at most one active product over its limit for every worker   *)
(* but one.  The saves of whole rows that bring a deleted product back are  *)
(* included.  Clients that name another store, move products or reactivate  *)
(* them are not: those paths are not checked at all.                        *)
ProductsBounded ==
    Clients =>
       \A s \in Stores :
          Cardinality(ActiveOf(s)) <= ProductsLimit + Cardinality(Workers) - 1

\* The membership of a product in its store that a request is about to write.
Holding(w) ==
    IF req[w].pc \in {"insertProduct", "saveProduct"} /\ req[w].active
    THEN <<req[w].store, req[w].product>> ELSE None

Limited ==
    INSTANCE Admission
    WITH Groups <- Stores,
         Keys <- ProductIds,
         Limit <- [s \in Stores |-> ProductsLimit],
         present <- {m \in Stores \X ProductIds : m[2] \in ActiveOf(m[1])},
         held <- [w \in Workers |-> Holding(w)]

(* The limit of products is a check before a write, with what that promises. *)
ImplementsAdmission == Limited!Spec
=============================================================================
