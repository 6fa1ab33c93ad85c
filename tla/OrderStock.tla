----------------------------- MODULE OrderStock -----------------------------
(***************************************************************************)
(* How order items draw on the stock of a product.                         *)
(*                                                                         *)
(* A product has ProductStock rows; an OrderItem row names the stock it is *)
(* taken from.  Nothing decrements a counter: what is left of a stock is   *)
(* its quantity less the sum of the quantities of its order items, worked  *)
(* out again at every request.  The endpoints that create and edit order   *)
(* items read, check and write in separate database statements, each its   *)
(* own transaction (no ATOMIC_REQUESTS, no select_for_update anywhere), so *)
(* requests of the sync worker processes interleave between statements.    *)
(*                                                                         *)
(* A worker serves one request at a time: req[w] is what the request of    *)
(* worker w has read and decided so far.  Every step, deletions included,  *)
(* is taken by a worker.                                                   *)
(***************************************************************************)
EXTENDS Integers, FiniteSets

CONSTANTS
    Workers,      \* the worker processes
    Products,     \* the products; the API never removes a product row
    Orders,       \* the primary keys of orders
    StockIds,     \* the primary keys ProductStock rows can have
    ItemIds,      \* the primary keys OrderItem rows can have
    Quantities,   \* the quantities clients put in the payload of an item
    MaxQuantity,  \* no client quantity is further from zero than this
    Levels,       \* the quantities admins write on stocks
    Reassign,     \* the stocks an item PUT may name as product_stock_id
    None          \* an absent value

ASSUME PoolsAssumption ==
    /\ IsFiniteSet(Workers) /\ Workers # {}
    /\ IsFiniteSet(ItemIds)
    /\ None \notin Products \cup Orders \cup StockIds \cup ItemIds \cup Int

ASSUME NumbersAssumption ==
    /\ MaxQuantity \in Nat
    /\ Quantities \subseteq -MaxQuantity .. MaxQuantity
    /\ Levels \subseteq Int
    /\ Reassign \subseteq StockIds

VARIABLES
    stocks,       \* the primary keys of the ProductStock rows there are
    level,        \* column quantity of ProductStock
    productOf,    \* column product of ProductStock
    older,        \* <<r, s>>: row r has the earlier created_at
    freshStocks,  \* stock keys never used
    orders,       \* the primary keys of the Order rows there are
    items,        \* the primary keys of the OrderItem rows there are
    at,           \* column product_stock of OrderItem
    of,           \* column order of OrderItem
    qty,          \* column quantity of OrderItem
    freshItems,   \* item keys never used
    peak,         \* history: the largest quantity a stock was ever given
    req           \* what each worker's request holds in memory

stockVars == <<stocks, level, productOf, older, freshStocks, peak>>
itemVars == <<items, at, of, qty, freshItems>>
vars == <<stockVars, orders, itemVars, req>>

-----------------------------------------------------------------------------
(* What a stock has sold, as sets of units so that sums are cardinalities. *)

Units == ItemIds \X (1 .. MaxQuantity)

Sold(s) == {u \in Units : u[1] \in items /\ at[u[1]] = s /\ u[2] <= qty[u[1]]}

\* The units that items of negative quantity give back.
Credited(s) ==
    {u \in Units : u[1] \in items /\ at[u[1]] = s /\ u[2] <= -qty[u[1]]}

\* ProductStock.num_of_ordered_items: Sum("quantity") of the stock's items.
Ordered(s) == Cardinality(Sold(s)) - Cardinality(Credited(s))

\* ProductStock.num_of_remaining_items, for a row whose quantity was read as n.
RemainingOf(n, s) == n - Ordered(s)

Remaining(s) == RemainingOf(level[s], s)

StocksOf(p) == {s \in stocks : productOf[s] = p}

(* Product.current_stock is s: the oldest stock with something left, else  *)
(* the oldest with a positive quantity.                                    *)
IsCurrentStock(p, s) ==
    LET open   == {r \in StocksOf(p) : Remaining(r) > 0}
        filled == {r \in StocksOf(p) : level[r] > 0}
        choice == IF open # {} THEN open ELSE filled
    IN  s \in choice /\ \A r \in choice \ {s} : <<s, r>> \in older

-----------------------------------------------------------------------------
(* A request in memory.  "stock" is the stock whose remaining items are    *)
(* looked at, "target" the one the saved item will name; "qty" is the      *)
(* quantity read with the item row, "want" the one that will be saved.     *)

Idle == [pc |-> "idle", item |-> None, stock |-> None, target |-> None,
         order |-> None, product |-> None, qty |-> 0, want |-> 0, level |-> 0]

Requests ==
    [pc : {"idle", "validate", "checkCreate", "insert",
           "fetch", "checkUpdate", "saveItem", "saveStock"},
     item : ItemIds \cup {None},
     stock : StockIds \cup {None},
     target : StockIds \cup {None},
     order : Orders \cup {None},
     product : Products \cup {None},
     qty : -MaxQuantity .. MaxQuantity,
     want : -MaxQuantity .. MaxQuantity,
     level : Int]

\* The requests that have taken their first step.
NewCreate(p, s, o, q) ==
    [pc |-> "validate", item |-> None, stock |-> s, target |-> s, order |-> o,
     product |-> p, qty |-> 0, want |-> q, level |-> 0]

\* Mistake to be caught: the payload's quantity is taken as a new total.
NewUpdate_Delta(i, t, o, q) ==
    [pc |-> IF q \in {None, 0} THEN "saveItem" ELSE "fetch",
     item |-> i, stock |-> at[i], target |-> t, order |-> o, product |-> None,
     qty |-> qty[i], want |-> IF q = None THEN qty[i] ELSE q - qty[i], level |-> 0]

\* A payload without a quantity, or with the quantity 0, skips the check.
NewUpdate(i, t, o, q) ==
    [pc |-> IF q \in {None, 0} THEN "saveItem" ELSE "fetch",
     item |-> i, stock |-> at[i], target |-> t, order |-> o, product |-> None,
     qty |-> qty[i], want |-> IF q = None THEN qty[i] ELSE q, level |-> 0]

NewStockEdit(s, p, n) ==
    [pc |-> "saveStock", item |-> None, stock |-> s, target |-> None,
     order |-> None, product |-> p, qty |-> 0, want |-> 0, level |-> n]

Free(w) == req[w].pc = "idle"

\* The response goes out and the worker is free again.
Reply(w) == req' = [req EXCEPT ![w] = Idle]

\* The foreign keys of the item row about to be written.
ForeignKeysExist(r) == r.target \in stocks /\ r.order \in orders

\* Mistake to be caught: an edit adds its quantity to what the row has.
WriteItem_Adds(r) ==
    /\ items' = items \cup {r.item}
    /\ at' = [at EXCEPT ![r.item] = r.target]
    /\ of' = [of EXCEPT ![r.item] = r.order]
    /\ qty' = [qty EXCEPT ![r.item] = qty[r.item] + r.want]

\* The item row is written: every column, UPDATE first and INSERT if no row.
WriteItem(r) ==
    /\ items' = items \cup {r.item}
    /\ at' = [at EXCEPT ![r.item] = r.target]
    /\ of' = [of EXCEPT ![r.item] = r.order]
    /\ qty' = [qty EXCEPT ![r.item] = r.want]

-----------------------------------------------------------------------------
(* POST of an order item.                                                  *)

\* Bound: no more creates are started than there are unused item keys.
KeysLeft ==
    Cardinality({w \in Workers : req[w].pc \in {"validate", "checkCreate"}})
        < Cardinality(freshItems)

\* OrderItemsEndpoint.create: product.current_stock goes into the payload.  A
\* product without one is an AttributeError: the request ends, nothing changed.
\* current_stock's queries are read as one: the checks that follow trust none.
PickStock(w) ==
    /\ Free(w) /\ KeysLeft
    /\ \E p \in Products, s \in stocks, o \in orders, q \in Quantities :
          /\ IsCurrentStock(p, s)
          /\ req' = [req EXCEPT ![w] = NewCreate(p, s, o, q)]
    /\ UNCHANGED <<stockVars, orders, itemVars>>

\* serializer.is_valid: the related fields are looked up; the stock row, and
\* with it its quantity, is read here.
ValidateCreate(w) ==
    /\ req[w].pc = "validate"
    /\ \/ /\ ForeignKeysExist(req[w])
          /\ req' = [req EXCEPT ![w].pc = "checkCreate",
                                ![w].level = level[req[w].target]]
       \/ /\ ~ForeignKeysExist(req[w])
          /\ Reply(w)
    /\ UNCHANGED <<stockVars, orders, itemVars>>

\* Mistakes to be caught: an off-by-one, a check against the whole stock.
CreateExceeds_OffByOne(r) == r.want > RemainingOf(r.level, r.stock) + 1
CreateExceeds_WholeStock(r) == r.want > r.level

\* The check of OrderItemSerializer.create refuses the item.
CreateExceeds(r) == r.want > RemainingOf(r.level, r.stock)

\* OrderItemSerializer.create: the quantity read earlier, less a new sum.
CheckCreate(w) ==
    /\ req[w].pc = "checkCreate"
    /\ \/ /\ CreateExceeds(req[w])
          /\ Reply(w)
          /\ UNCHANGED freshItems
       \/ /\ ~CreateExceeds(req[w])
          /\ \E i \in freshItems :
                /\ freshItems' = freshItems \ {i}
                /\ req' = [req EXCEPT ![w].pc = "insert", ![w].item = i]
    /\ UNCHANGED <<stockVars, orders, items, at, of, qty>>

\* super().create(): the INSERT, or an IntegrityError on a missing parent.
InsertItem(w) ==
    /\ req[w].pc = "insert"
    /\ \/ ForeignKeysExist(req[w]) /\ WriteItem(req[w])
       \/ ~ForeignKeysExist(req[w]) /\ UNCHANGED <<items, at, of, qty>>
    /\ Reply(w)
    /\ UNCHANGED <<stockVars, orders, freshItems>>

-----------------------------------------------------------------------------
(* PUT (a partial update) of an order item.                                *)

\* get_object reads the row, is_valid looks up the related fields of the
\* payload.
LoadItem(w) ==
    /\ Free(w)
    /\ \E i \in items, o \in orders, q \in Quantities \cup {None} :
       \E t \in {at[i]} \cup (Reassign \cap stocks) :
          req' = [req EXCEPT ![w] = NewUpdate(i, t, o, q)]
    /\ UNCHANGED <<stockVars, orders, itemVars>>

\* instance.product_stock is fetched when first used; it may be gone.
FetchStock(w) ==
    /\ req[w].pc = "fetch"
    /\ \/ /\ req[w].stock \in stocks
          /\ req' = [req EXCEPT ![w].pc = "checkUpdate",
                                ![w].level = level[req[w].stock]]
       \/ /\ req[w].stock \notin stocks
          /\ Reply(w)
    /\ UNCHANGED <<stockVars, orders, itemVars>>

\* Mistake to be caught: what the item gives back is counted twice.
UpdateExceeds_Twice(r) == r.want > RemainingOf(r.level, r.stock) + 2 * r.qty

\* The check of OrderItemSerializer.update refuses the new quantity.  The sum
\* is read now, instance.quantity was read with the row.
UpdateExceeds(r) == r.want > RemainingOf(r.level, r.stock) + r.qty

CheckUpdate(w) ==
    /\ req[w].pc = "checkUpdate"
    /\ \/ UpdateExceeds(req[w]) /\ Reply(w)
       \/ ~UpdateExceeds(req[w]) /\ req' = [req EXCEPT ![w].pc = "saveItem"]
    /\ UNCHANGED <<stockVars, orders, itemVars>>

\* super().update(): the whole row is saved; a row deleted since it was read
\* is inserted again.
SaveItem(w) ==
    /\ req[w].pc = "saveItem"
    /\ \/ ForeignKeysExist(req[w]) /\ WriteItem(req[w])
       \/ ~ForeignKeysExist(req[w]) /\ UNCHANGED <<items, at, of, qty>>
    /\ Reply(w)
    /\ UNCHANGED <<stockVars, orders, freshItems>>

DeleteItem(w) ==
    /\ Free(w)
    /\ \E i \in items : items' = items \ {i}
    /\ UNCHANGED <<stockVars, orders, at, of, qty, freshItems, req>>

-----------------------------------------------------------------------------
(* Orders, as far as their items depend on them: any request that saves an *)
(* order row makes it exist; deleting one takes its items along.           *)

SaveOrder(w) ==
    /\ Free(w)
    /\ \E o \in Orders \ orders : orders' = orders \cup {o}
    /\ UNCHANGED <<stockVars, itemVars, req>>

DeleteOrder(w) ==
    /\ Free(w)
    /\ \E o \in orders :
          /\ orders' = orders \ {o}
          /\ items' = {i \in items : of[i] # o}
    /\ UNCHANGED <<stockVars, at, of, qty, freshItems, req>>

-----------------------------------------------------------------------------
(* Stocks.                                                                 *)

Larger(m, n) == IF m < n THEN n ELSE m

\* The stock row is written.  created_at is set by an INSERT only, so a row
\* that did not exist becomes the youngest.
WriteStock(s, p, n) ==
    /\ stocks' = stocks \cup {s}
    /\ level' = [level EXCEPT ![s] = n]
    /\ productOf' = [productOf EXCEPT ![s] = p]
    /\ older' = IF s \in stocks THEN older ELSE older \cup (stocks \X {s})
    /\ peak' = [peak EXCEPT ![s] = Larger(peak[s], n)]

\* POST of a stock, or the second half of the POST of a product.
CreateStock(w) ==
    /\ Free(w)
    /\ \E s \in freshStocks, p \in Products, n \in Levels :
          /\ WriteStock(s, p, n)
          /\ freshStocks' = freshStocks \ {s}
    /\ UNCHANGED <<orders, itemVars, req>>

\* PUT of a stock: the row is read, the payload may replace either column.
LoadStock(w) ==
    /\ Free(w)
    /\ \E s \in stocks :
       \E p \in Products, n \in {level[s]} \cup Levels :
          req' = [req EXCEPT ![w] = NewStockEdit(s, p, n)]
    /\ UNCHANGED <<stockVars, orders, itemVars>>

SaveStock(w) ==
    /\ req[w].pc = "saveStock"
    /\ WriteStock(req[w].stock, req[w].product, req[w].level)
    /\ Reply(w)
    /\ UNCHANGED <<freshStocks, orders, itemVars>>

\* DELETE of a stock cascades to the order items taken from it.
DeleteStock(w) ==
    /\ Free(w)
    /\ \E s \in stocks :
          /\ stocks' = stocks \ {s}
          /\ older' = older \ ((StockIds \X {s}) \cup ({s} \X StockIds))
          /\ items' = {i \in items : at[i] # s}
    /\ UNCHANGED <<level, productOf, freshStocks, peak, orders, at, of, qty,
                   freshItems, req>>

-----------------------------------------------------------------------------
\* A worker whose request takes too long is killed and started again.  What
\* the request has saved stays saved, the rest is never done.
Kill(w) ==
    /\ ~Free(w)
    /\ Reply(w)
    /\ UNCHANGED <<stockVars, orders, itemVars>>

-----------------------------------------------------------------------------
Init ==
    /\ stocks = {} /\ older = {} /\ freshStocks = StockIds
    /\ level = [s \in StockIds |-> 0]
    /\ productOf = [s \in StockIds |-> None]
    /\ peak = [s \in StockIds |-> 0]
    /\ orders = {}
    /\ items = {} /\ freshItems = ItemIds
    /\ at = [i \in ItemIds |-> None]
    /\ of = [i \in ItemIds |-> None]
    /\ qty = [i \in ItemIds |-> 0]
    /\ req = [w \in Workers |-> Idle]

CreateRequest(w) ==
    PickStock(w) \/ ValidateCreate(w) \/ CheckCreate(w) \/ InsertItem(w)

UpdateRequest(w) ==
    LoadItem(w) \/ FetchStock(w) \/ CheckUpdate(w) \/ SaveItem(w)

StockRequest(w) ==
    CreateStock(w) \/ LoadStock(w) \/ SaveStock(w) \/ DeleteStock(w)

Next ==
    \E w \in Workers :
       \/ CreateRequest(w)
       \/ UpdateRequest(w)
       \/ DeleteItem(w)
       \/ SaveOrder(w)
       \/ DeleteOrder(w)
       \/ StockRequest(w)
       \/ Kill(w)

Spec == Init /\ [][Next]_vars

-----------------------------------------------------------------------------
(* Every table and every request has the shape the code gives it.          *)
TypeOK ==
    /\ stocks \subseteq StockIds
    /\ freshStocks \subseteq StockIds
    /\ level \in [StockIds -> Int]
    /\ productOf \in [StockIds -> Products \cup {None}]
    /\ older \subseteq StockIds \X StockIds
    /\ peak \in [StockIds -> Nat]
    /\ orders \subseteq Orders
    /\ items \subseteq ItemIds
    /\ freshItems \subseteq ItemIds
    /\ at \in [ItemIds -> StockIds \cup {None}]
    /\ of \in [ItemIds -> Orders \cup {None}]
    /\ qty \in [ItemIds -> -MaxQuantity .. MaxQuantity]
    /\ req \in [Workers -> Requests]
    /\ \A w \in Workers :
          /\ req[w].pc \in {"insert", "fetch", "checkUpdate", "saveItem"} =>
                req[w].item \in ItemIds
          /\ req[w].pc = "saveStock" => req[w].stock \in StockIds

(* Overselling is bounded.  However the requests interleave, rows deleted  *)
(* and saved again included, the items of a stock exceed the largest       *)
(* quantity it was ever given by at most one client quantity for every     *)
(* worker but one.  Requires that clients send no negative quantity and    *)
(* never move an item to another stock.                                    *)
OversellBounded ==
    \A s \in StockIds :
       Ordered(s) <= peak[s] + (Cardinality(Workers) - 1) * MaxQuantity

(* What the serializer's message "Order item quantity exceeds product      *)
(* quantity" promises: no stock has more items ordered than it ever had.   *)
NoOversell == \A s \in StockIds : Ordered(s) <= peak[s]

(* One request at a time, a stock goes from covered to overdrawn only by   *)
(* an admin's lowering its quantity: no create, edit or delete of an item  *)
(* does it.                                                                *)
OverdrawnOnlyByAdmin ==
    [][\A s \in StockIds :
          Remaining(s) >= 0 /\ Remaining(s)' < 0 => level'[s] < level[s]]_vars

-----------------------------------------------------------------------------
(* Why OversellBounded holds: the inductive invariant behind it.           *)

\* The quantity a request may still write back for its item: what it has been
\* granted by its check, or what it read and can be granted again.
Claim(r) ==
    IF r.pc \in {"insert", "saveItem"} THEN r.want
    ELSE IF r.pc \in {"fetch", "checkUpdate"} THEN r.qty ELSE 0

Held(w, s) ==
    {u \in Units : req[w].stock = s /\ u[1] = req[w].item /\ u[2] <= Claim(req[w])}

\* The units of s that are sold or that some request could write back.
Potential(s) == Sold(s) \cup UNION {Held(w, s) : w \in Workers}

\* No key is used twice, no live item lacks a stock, no quantity is negative,
\* and a stock's quantity is at most its peak.
TablesConsistent ==
    /\ items \cap freshItems = {}
    /\ \A i \in items : at[i] \in StockIds
    /\ \A i \in ItemIds : qty[i] >= 0
    /\ \A s \in StockIds : level[s] <= peak[s]

\* What w has read and decided agrees with the tables it came from.
RequestConsistent(w) ==
    LET r == req[w] IN
    /\ r.qty >= 0 /\ r.want >= 0
    /\ r.item \notin freshItems
    /\ r.pc \in {"validate", "checkCreate", "insert"} =>
          r.stock \in StockIds /\ r.target = r.stock
    /\ r.pc = "insert" =>
          r.item \notin items /\ \A v \in Workers \ {w} : req[v].item # r.item
    /\ r.pc \in {"fetch", "checkUpdate", "saveItem"} =>
          r.stock \in StockIds /\ r.target = r.stock /\ at[r.item] = r.stock
    /\ r.pc \in {"checkCreate", "checkUpdate"} => r.level <= peak[r.stock]

(* A request holds the keys and columns its steps read: the row to insert  *)
(* has a key of its own, an item never changes its stock, quantities are   *)
(* not negative, and a quantity read from a stock was once its quantity.   *)
RequestsConsistent == TablesConsistent /\ \A w \in Workers : RequestConsistent(w)

(* Even if every request wrote all it holds, no stock would exceed the     *)
(* bound.                                                                  *)
PotentialBounded ==
    \A s \in StockIds :
       Cardinality(Potential(s)) <= peak[s] + (Cardinality(Workers) - 1) * MaxQuantity

(* When every worker holds something of s that is not sold, one of them    *)
(* was granted it by a check whose outcome still fits under the peak: the  *)
(* last worker to get there read a sum that covers all the others.         *)
SomeClaimFits ==
    \A s \in StockIds :
       (\A w \in Workers : ~(Held(w, s) \subseteq Sold(s)))
       => \E x \in Workers :
             /\ req[x].pc \in {"insert", "saveItem"}
             /\ Cardinality(Sold(s) \cup Held(x, s)) <= peak[s]

IInv == TypeOK /\ RequestsConsistent /\ PotentialBounded /\ SomeClaimFits
=============================================================================
