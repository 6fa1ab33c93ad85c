-------------------------- MODULE OrderStockProofs --------------------------
(***************************************************************************)
(* Theorems about OrderStock, for any number of workers, stocks and items. *)
(***************************************************************************)
EXTENDS OrderStock, FiniteSetTheorems, TLAPS

-----------------------------------------------------------------------------
\* A worker at rest has a well-formed request.
LEMMA IdleTyped == Idle \in Requests /\ Idle.pc = "idle"
BY NumbersAssumption DEF Idle, Requests

\* What a request is after its first step.
LEMMA NewCreateTyped ==
    ASSUME TypeOK, NEW p \in Products, NEW s \in StockIds, NEW o \in Orders,
           NEW q \in Quantities
    PROVE  LET r == NewCreate(p, s, o, q) IN
           /\ r \in Requests
           /\ r.pc = "validate" /\ r.item = None /\ r.stock = s /\ r.target = s
           /\ r.qty = 0 /\ r.want = q
BY NumbersAssumption DEF NewCreate, Requests

\* An edit starts from the row it read, and saves a checked quantity, or its own, or 0.
LEMMA NewUpdateTyped ==
    ASSUME TypeOK, NEW i \in ItemIds, NEW t \in StockIds \cup {None},
           NEW o \in Orders, NEW q \in Quantities \cup {None}
    PROVE  LET r == NewUpdate(i, t, o, q) IN
           /\ r \in Requests
           /\ r.pc \in {"saveItem", "fetch"} /\ r.item = i
           /\ r.stock = at[i] /\ r.target = t /\ r.qty = qty[i]
           /\ r.pc = "saveItem" => r.want \in {qty[i], 0}
           /\ r.want \in {qty[i]} \cup Quantities
<1> DEFINE pc == IF q \in {None, 0} THEN "saveItem" ELSE "fetch"
           want == IF q = None THEN qty[i] ELSE q
<1>1. /\ pc \in {"saveItem", "fetch"}
      /\ pc = "saveItem" => want \in {qty[i], 0}
      /\ want \in {qty[i]} \cup Quantities
  OBVIOUS
<1>2. /\ qty[i] \in -MaxQuantity .. MaxQuantity
      /\ want \in -MaxQuantity .. MaxQuantity
      /\ at[i] \in StockIds \cup {None}
  BY <1>1, NumbersAssumption DEF TypeOK
<1>3. NewUpdate(i, t, o, q)
        = [pc |-> pc, item |-> i, stock |-> at[i], target |-> t, order |-> o,
           product |-> None, qty |-> qty[i], want |-> want, level |-> 0]
  BY DEF NewUpdate
<1> HIDE DEF pc, want
<1> QED
  BY <1>1, <1>2, <1>3 DEF Requests

\* An edit of a stock holds no item.
LEMMA NewStockEditTyped ==
    ASSUME TypeOK, NEW s \in StockIds, NEW p \in Products, NEW n \in Int
    PROVE  LET r == NewStockEdit(s, p, n) IN
           /\ r \in Requests
           /\ r.pc = "saveStock" /\ r.item = None /\ r.stock = s
           /\ r.qty = 0 /\ r.want = 0 /\ r.level = n
BY NumbersAssumption DEF NewStockEdit, Requests

\* A step that changes one request, and at most uses up item keys.
LEMMA RequestTyped ==
    ASSUME TypeOK, NEW w \in Workers, NEW r \in Requests,
           req' = [req EXCEPT ![w] = r],
           r.pc \in {"insert", "fetch", "checkUpdate", "saveItem"} => r.item \in ItemIds,
           r.pc = "saveStock" => r.stock \in StockIds,
           UNCHANGED <<stockVars, orders, items, at, of, qty>>,
           freshItems' \subseteq freshItems
    PROVE  TypeOK'
<1>1. req' \in [Workers -> Requests]
  BY DEF TypeOK
<1>2. \A v \in Workers : req'[v] = IF v = w THEN r ELSE req[v]
  BY DEF TypeOK
<1> QED
  BY <1>1, <1>2 DEF TypeOK, stockVars

(* The type invariant holds for every value of the constants.              *)
THEOREM TypeCorrect == Spec => []TypeOK
<1>1. Init => TypeOK
  BY PoolsAssumption, NumbersAssumption DEF Init, TypeOK, Idle, Requests
<1>2. TypeOK /\ [Next]_vars => TypeOK'
  <2> SUFFICES ASSUME TypeOK, [Next]_vars PROVE TypeOK'
    OBVIOUS
  <2>0. CASE UNCHANGED vars
    BY <2>0 DEF TypeOK, vars, stockVars, itemVars
  <2>1. ASSUME NEW w \in Workers, PickStock(w) PROVE TypeOK'
    <3>1. PICK p \in Products, s \in stocks, o \in orders, q \in Quantities :
             req' = [req EXCEPT ![w] = NewCreate(p, s, o, q)]
      BY <2>1 DEF PickStock
    <3> QED
      BY <2>1, <3>1, NewCreateTyped DEF PickStock, TypeOK, stockVars, itemVars
  <2>2. ASSUME NEW w \in Workers, ValidateCreate(w) PROVE TypeOK'
    <3>1. UNCHANGED <<stockVars, orders, itemVars>>
      BY <2>2 DEF ValidateCreate
    <3>2. CASE Reply(w)
      BY <3>1, <3>2, IdleTyped, RequestTyped DEF Reply, itemVars
    <3>3. CASE ~Reply(w)
      <4> DEFINE r == [req[w] EXCEPT !.pc = "checkCreate", !.level = level[req[w].target]]
      <4>1. req[w].target \in stocks /\ req' = [req EXCEPT ![w] = r]
        BY <2>2, <3>3 DEF ValidateCreate, ForeignKeysExist, TypeOK
      <4>2. level[req[w].target] \in Int /\ req[w] \in Requests
        BY <4>1 DEF TypeOK
      <4>3. r \in Requests /\ r.pc = "checkCreate"
        BY <4>2 DEF Requests
      <4> QED
        BY <3>1, <4>1, <4>3, RequestTyped DEF itemVars
    <3> QED
      BY <3>2, <3>3
  <2>3. ASSUME NEW w \in Workers, CheckCreate(w) PROVE TypeOK'
    <3>1. UNCHANGED <<stockVars, orders, items, at, of, qty>> /\ freshItems' \subseteq freshItems
      BY <2>3 DEF CheckCreate
    <3>2. CASE Reply(w)
      BY <3>1, <3>2, IdleTyped, RequestTyped DEF Reply
    <3>3. CASE ~Reply(w)
      <4>1. PICK i \in freshItems :
               req' = [req EXCEPT ![w].pc = "insert", ![w].item = i]
        BY <2>3, <3>3 DEF CheckCreate
      <4> DEFINE r == [req[w] EXCEPT !.pc = "insert", !.item = i]
      <4>2. req' = [req EXCEPT ![w] = r]
        BY <4>1 DEF TypeOK
      <4>3. i \in ItemIds /\ req[w] \in Requests
        BY DEF TypeOK
      <4>4. r \in Requests /\ r.pc = "insert" /\ r.item \in ItemIds
        BY <4>3 DEF Requests
      <4> QED
        BY <3>1, <4>2, <4>4, RequestTyped
    <3> QED
      BY <3>2, <3>3
  <2>4. ASSUME NEW w \in Workers, InsertItem(w) PROVE TypeOK'
    <3>1. req[w] \in Requests /\ req[w].item \in ItemIds
      BY <2>4 DEF InsertItem, TypeOK
    <3>2. /\ items' \subseteq ItemIds
          /\ at' \in [ItemIds -> StockIds \cup {None}]
          /\ of' \in [ItemIds -> Orders \cup {None}]
          /\ qty' \in [ItemIds -> -MaxQuantity .. MaxQuantity]
      BY <2>4, <3>1 DEF InsertItem, WriteItem, ForeignKeysExist, TypeOK, Requests
    <3> QED
      BY <2>4, <3>2, IdleTyped DEF InsertItem, Reply, TypeOK, stockVars
  <2>5. ASSUME NEW w \in Workers, LoadItem(w) PROVE TypeOK'
    <3>1. PICK i \in items, o \in orders, q \in Quantities \cup {None} :
             \E t \in {at[i]} \cup (Reassign \cap stocks) :
                req' = [req EXCEPT ![w] = NewUpdate(i, t, o, q)]
      BY <2>5 DEF LoadItem
    <3>2. PICK t \in {at[i]} \cup (Reassign \cap stocks) :
             req' = [req EXCEPT ![w] = NewUpdate(i, t, o, q)]
      BY <3>1
    <3>3. t \in StockIds \cup {None}
      BY DEF TypeOK
    <3>4. /\ NewUpdate(i, t, o, q) \in Requests
          /\ NewUpdate(i, t, o, q).pc # "saveStock"
          /\ NewUpdate(i, t, o, q).item \in ItemIds
      BY <3>3, NewUpdateTyped DEF TypeOK
    <3> QED
      BY <2>5, <3>2, <3>4 DEF LoadItem, TypeOK, stockVars, itemVars
  <2>6. ASSUME NEW w \in Workers, FetchStock(w) PROVE TypeOK'
    <3>1. UNCHANGED <<stockVars, orders, itemVars>>
      BY <2>6 DEF FetchStock
    <3>2. CASE Reply(w)
      BY <3>1, <3>2, IdleTyped, RequestTyped DEF Reply, itemVars
    <3>3. CASE ~Reply(w)
      <4> DEFINE r == [req[w] EXCEPT !.pc = "checkUpdate", !.level = level[req[w].stock]]
      <4>1. req[w].stock \in stocks /\ req' = [req EXCEPT ![w] = r]
        BY <2>6, <3>3 DEF FetchStock, TypeOK
      <4>2. level[req[w].stock] \in Int /\ req[w] \in Requests /\ req[w].item \in ItemIds
        BY <2>6, <4>1 DEF FetchStock, TypeOK
      <4>3. r \in Requests /\ r.pc = "checkUpdate" /\ r.item \in ItemIds
        BY <4>2 DEF Requests
      <4> QED
        BY <3>1, <4>1, <4>3, RequestTyped DEF itemVars
    <3> QED
      BY <3>2, <3>3
  <2>7. ASSUME NEW w \in Workers, CheckUpdate(w) PROVE TypeOK'
    <3>1. UNCHANGED <<stockVars, orders, itemVars>>
      BY <2>7 DEF CheckUpdate
    <3>2. CASE Reply(w)
      BY <3>1, <3>2, IdleTyped, RequestTyped DEF Reply, itemVars
    <3>3. CASE ~Reply(w)
      <4> DEFINE r == [req[w] EXCEPT !.pc = "saveItem"]
      <4>1. req' = [req EXCEPT ![w] = r]
        BY <2>7, <3>3 DEF CheckUpdate, TypeOK
      <4>2. req[w] \in Requests /\ req[w].item \in ItemIds
        BY <2>7 DEF CheckUpdate, TypeOK
      <4>3. r \in Requests /\ r.pc = "saveItem" /\ r.item \in ItemIds
        BY <4>2 DEF Requests
      <4> QED
        BY <3>1, <4>1, <4>3, RequestTyped DEF itemVars
    <3> QED
      BY <3>2, <3>3
  <2>8. ASSUME NEW w \in Workers, SaveItem(w) PROVE TypeOK'
    <3>1. req[w] \in Requests /\ req[w].item \in ItemIds
      BY <2>8 DEF SaveItem, TypeOK
    <3>2. /\ items' \subseteq ItemIds
          /\ at' \in [ItemIds -> StockIds \cup {None}]
          /\ of' \in [ItemIds -> Orders \cup {None}]
          /\ qty' \in [ItemIds -> -MaxQuantity .. MaxQuantity]
      BY <2>8, <3>1 DEF SaveItem, WriteItem, ForeignKeysExist, TypeOK, Requests
    <3> QED
      BY <2>8, <3>2, IdleTyped DEF SaveItem, Reply, TypeOK, stockVars
  <2>9. ASSUME NEW w \in Workers, DeleteItem(w) \/ SaveOrder(w) \/ DeleteOrder(w) \/ DeleteStock(w) PROVE TypeOK'
    BY <2>9 DEF DeleteItem, SaveOrder, DeleteOrder, DeleteStock, TypeOK, stockVars, itemVars
  <2>10. ASSUME NEW w \in Workers, CreateStock(w) PROVE TypeOK'
    BY <2>10, NumbersAssumption DEF CreateStock, WriteStock, Larger, TypeOK, itemVars
  <2>11. ASSUME NEW w \in Workers, LoadStock(w) PROVE TypeOK'
    <3>1. PICK s \in stocks : \E p \in Products, n \in {level[s]} \cup Levels :
             req' = [req EXCEPT ![w] = NewStockEdit(s, p, n)]
      BY <2>11 DEF LoadStock
    <3>2. PICK p \in Products, n \in {level[s]} \cup Levels :
             req' = [req EXCEPT ![w] = NewStockEdit(s, p, n)]
      BY <3>1
    <3>3. n \in Int
      BY NumbersAssumption DEF TypeOK
    <3> QED
      BY <2>11, <3>2, <3>3, NewStockEditTyped DEF LoadStock, TypeOK, stockVars, itemVars
  <2>12. ASSUME NEW w \in Workers, SaveStock(w) PROVE TypeOK'
    <3>1. req[w] \in Requests /\ req[w].stock \in StockIds
      BY <2>12 DEF SaveStock, TypeOK
    <3>2. req[w].product \in Products \cup {None} /\ req[w].level \in Int
      BY <3>1 DEF Requests
    <3>3. /\ stocks' \subseteq StockIds /\ freshStocks' \subseteq StockIds
          /\ older' \subseteq StockIds \X StockIds
          /\ level' \in [StockIds -> Int]
          /\ productOf' \in [StockIds -> Products \cup {None}]
      BY <2>12, <3>1, <3>2 DEF SaveStock, WriteStock, TypeOK
    <3>4. peak' \in [StockIds -> Nat]
      BY <2>12, <3>1, <3>2 DEF SaveStock, WriteStock, Larger, TypeOK
    <3> QED
      BY <2>12, <3>3, <3>4, IdleTyped DEF SaveStock, Reply, TypeOK, itemVars
  <2>13. ASSUME NEW w \in Workers, Kill(w) PROVE TypeOK'
    BY <2>13, IdleTyped, RequestTyped DEF Kill, Reply, itemVars
  <2> QED
    BY <2>0, <2>1, <2>2, <2>3, <2>4, <2>5, <2>6, <2>7, <2>8, <2>9, <2>10, <2>11, <2>12, <2>13
    DEF Next, CreateRequest, UpdateRequest, StockRequest
<1> QED
  BY <1>1, <1>2, PTL DEF Spec
-----------------------------------------------------------------------------
(* Counting units.                                                         *)

\* A set of units is finite, and larger sets are not smaller.
LEMMA UnitSets ==
    ASSUME NEW S \in SUBSET Units
    PROVE  /\ IsFiniteSet(S) /\ Cardinality(S) \in Nat
           /\ \A T \in SUBSET S : IsFiniteSet(T) /\ Cardinality(T) <= Cardinality(S)
<1>1. IsFiniteSet(1 .. MaxQuantity)
  BY FS_Interval, NumbersAssumption
<1>2. IsFiniteSet(Units)
  BY <1>1, FS_Product, PoolsAssumption DEF Units
<1>3. IsFiniteSet(S) /\ Cardinality(S) \in Nat
  BY <1>2, FS_Subset, FS_CardinalityType
<1> QED
  BY <1>3, FS_Subset

\* The union of two sets of units has at most as many units as both together.
LEMMA UnionSize ==
    ASSUME NEW S \in SUBSET Units, NEW T \in SUBSET Units
    PROVE  Cardinality(S \cup T) <= Cardinality(S) + Cardinality(T)
<1>1. IsFiniteSet(S) /\ IsFiniteSet(T)
  BY UnitSets
<1>2. Cardinality(S \cup T)
        = Cardinality(S) + Cardinality(T) - Cardinality(S \cap T)
  BY <1>1, FS_Union
<1>3. /\ S \cap T \in SUBSET Units
      /\ Cardinality(S) \in Nat /\ Cardinality(T) \in Nat
  BY UnitSets
<1>4. Cardinality(S \cap T) \in Nat
  BY <1>3, UnitSets
<1> QED
  BY <1>2, <1>3, <1>4

\* The units of one item numbered from a + 1 to b.
LEMMA CopySize ==
    ASSUME NEW i \in ItemIds, NEW a \in Nat, NEW b \in Nat, a <= b
    PROVE  Cardinality({u \in Units : u[1] = i /\ u[2] > a /\ u[2] <= b}) <= b - a
<1> DEFINE C == {u \in Units : u[1] = i /\ u[2] > a /\ u[2] <= b}
           D == {i} \X ((a + 1) .. b)
<1>1. C \subseteq D
  BY NumbersAssumption DEF Units
<1>2. IsFiniteSet((a + 1) .. b) /\ Cardinality((a + 1) .. b) = b - a
  <2>1. /\ IsFiniteSet((a + 1) .. b)
        /\ Cardinality((a + 1) .. b) = IF a + 1 > b THEN 0 ELSE b - (a + 1) + 1
    BY FS_Interval
  <2> QED
    BY <2>1
<1>3. IsFiniteSet({i}) /\ Cardinality({i}) = 1
  BY FS_Singleton
<1>4. IsFiniteSet(D) /\ Cardinality(D) = Cardinality({i}) * Cardinality((a + 1) .. b)
  BY <1>2, <1>3, FS_Product, Zenon
<1>5. Cardinality(C) <= Cardinality(D)
  BY <1>1, <1>4, FS_Subset
<1>6. Cardinality(D) = b - a
  BY <1>2, <1>3, <1>4
<1> QED
  BY <1>5, <1>6

\* What a group of workers hold of a stock: at most one quantity each.
LEMMA HeldSize ==
    ASSUME NEW V \in SUBSET Workers, NEW s
    PROVE  Cardinality(UNION {Held(v, s) : v \in V}) <= Cardinality(V) * MaxQuantity
<1> DEFINE U == UNION {Held(v, s) : v \in V}
           D == {d \in V \X (1 .. MaxQuantity) : <<req[d[1]].item, d[2]>> \in Held(d[1], s)}
           f == [d \in D |-> <<req[d[1]].item, d[2]>>]
<1>1. IsFiniteSet(V) /\ IsFiniteSet(1 .. MaxQuantity)
  BY PoolsAssumption, NumbersAssumption, FS_Subset, FS_Interval
<1>2. Cardinality(1 .. MaxQuantity) = MaxQuantity
  <2>1. Cardinality(1 .. MaxQuantity) = IF 1 > MaxQuantity THEN 0 ELSE MaxQuantity - 1 + 1
    BY FS_Interval, NumbersAssumption
  <2> QED
    BY <2>1, NumbersAssumption
<1>3. /\ IsFiniteSet(V \X (1 .. MaxQuantity))
      /\ Cardinality(V \X (1 .. MaxQuantity)) = Cardinality(V) * MaxQuantity
  BY <1>1, <1>2, FS_Product
<1>4. /\ IsFiniteSet(D)
      /\ Cardinality(D) <= Cardinality(V) * MaxQuantity
  BY <1>3, FS_Subset
<1>5. f \in Surjection(D, U)
  <2>1. f \in [D -> U]
    OBVIOUS
  <2>2. ASSUME NEW u \in U PROVE \E d \in D : f[d] = u
    <3>1. PICK v \in V : u \in Held(v, s)
      OBVIOUS
    <3>2. u = <<req[v].item, u[2]>> /\ u[2] \in 1 .. MaxQuantity
      BY <3>1 DEF Held, Units
    <3>3. <<v, u[2]>> \in D
      BY <3>1, <3>2
    <3> QED
      BY <3>2, <3>3
  <2> QED
    BY <2>1, <2>2 DEF Surjection
<1>6. Cardinality(U) <= Cardinality(D) /\ IsFiniteSet(U)
  BY <1>4, <1>5, FS_Surjection
<1>7. /\ Cardinality(U) \in Nat /\ Cardinality(D) \in Nat
      /\ Cardinality(V) * MaxQuantity \in Nat
  BY <1>1, <1>3, <1>4, <1>6, FS_CardinalityType
<1> QED
  BY <1>4, <1>6, <1>7

\* A set of units together with what a group of workers hold.
LEMMA CoverSize ==
    ASSUME NEW S \in SUBSET Units, NEW V \in SUBSET Workers, NEW s
    PROVE  Cardinality(S \cup UNION {Held(v, s) : v \in V})
             <= Cardinality(S) + Cardinality(V) * MaxQuantity
<1> DEFINE U == UNION {Held(v, s) : v \in V}
<1>1. U \in SUBSET Units
  BY DEF Held
<1>2. Cardinality(S \cup U) <= Cardinality(S) + Cardinality(U)
  BY <1>1, UnionSize
<1>3. Cardinality(U) <= Cardinality(V) * MaxQuantity
  BY HeldSize
<1>4. /\ Cardinality(S \cup U) \in Nat /\ Cardinality(S) \in Nat
      /\ Cardinality(U) \in Nat
  <2>1. S \cup U \in SUBSET Units
    BY <1>1
  <2> QED
    BY <1>1, <2>1, UnitSets
<1>5. Cardinality(V) * MaxQuantity \in Nat
  <2>1. Cardinality(V) \in Nat
    BY PoolsAssumption, FS_Subset, FS_CardinalityType
  <2> QED
    BY <2>1, NumbersAssumption
<1> QED
  BY <1>2, <1>3, <1>4, <1>5

\* The workers but one, and but two.
LEMMA OtherWorkers ==
    ASSUME NEW w \in Workers
    PROVE  /\ Cardinality(Workers) \in Nat /\ Cardinality(Workers) >= 1
           /\ Cardinality(Workers \ {w}) = Cardinality(Workers) - 1
           /\ \A v \in Workers \ {w} :
                 /\ Cardinality(Workers) >= 2
                 /\ Cardinality(Workers \ {w, v}) = Cardinality(Workers) - 2
<1>1. /\ IsFiniteSet(Workers \ {w})
      /\ Cardinality(Workers \ {w}) = Cardinality(Workers) - 1
  BY PoolsAssumption, FS_RemoveElement
<1>2. Cardinality(Workers) \in Nat /\ Cardinality(Workers \ {w}) \in Nat
  BY <1>1, PoolsAssumption, FS_CardinalityType
<1>3. ASSUME NEW v \in Workers \ {w}
      PROVE  /\ Cardinality(Workers) >= 2
             /\ Cardinality(Workers \ {w, v}) = Cardinality(Workers) - 2
  <2>1. (Workers \ {w}) \ {v} = Workers \ {w, v}
    OBVIOUS
  <2>2. /\ IsFiniteSet((Workers \ {w}) \ {v})
        /\ Cardinality((Workers \ {w}) \ {v}) = Cardinality(Workers \ {w}) - 1
    BY <1>1, FS_RemoveElement
  <2>3. Cardinality((Workers \ {w}) \ {v}) \in Nat
    BY <2>2, FS_CardinalityType
  <2> QED
    BY <1>1, <1>2, <2>1, <2>2, <2>3
<1> QED
  BY <1>1, <1>2, <1>3
\* k workers with a quantity each, and one more.
LEMMA AllowanceTyped ==
    /\ \A k \in Nat : k * MaxQuantity \in Nat
    /\ \A k \in Nat : k * MaxQuantity + MaxQuantity = (k + 1) * MaxQuantity
    /\ (Cardinality(Workers) - 1) * MaxQuantity \in Nat
<1>1. \A k \in Nat : k * MaxQuantity \in Nat
  BY NumbersAssumption
<1>2. \A k \in Nat : k * MaxQuantity + MaxQuantity = (k + 1) * MaxQuantity
  BY NumbersAssumption
<1>3. Cardinality(Workers) - 1 \in Nat
  <2>1. PICK w \in Workers : TRUE
    BY PoolsAssumption
  <2>2. Cardinality(Workers) \in Nat /\ Cardinality(Workers) >= 1
    BY <2>1, OtherWorkers
  <2> QED
    BY <2>2
<1> QED
  BY <1>1, <1>2, <1>3

-----------------------------------------------------------------------------
(* How steps change what is sold and held.                                 *)

\* The other requests hold what they held.
LEMMA OthersHold ==
    ASSUME NEW w \in Workers, \A v \in Workers \ {w} : req'[v] = req[v]
    PROVE  \A v \in Workers \ {w}, s \in StockIds : Held(v, s)' = Held(v, s)
BY DEF Held, Claim

\* A request that can write nothing holds nothing.
LEMMA NothingHeld ==
    ASSUME NEW w \in Workers, Claim(req[w]) = 0
    PROVE  \A s \in StockIds : Held(w, s) = {}
BY NumbersAssumption DEF Held, Units

\* The same, one step later.
LEMMA NothingHeldNext ==
    ASSUME NEW w \in Workers, Claim(req'[w]) = 0
    PROVE  \A s \in StockIds : Held(w, s)' = {}
BY NumbersAssumption DEF Held, Units, Claim

\* A step of w that sells no more than w held, and after which w holds nothing
\* that is not sold, keeps the bound; and then not everyone has a claim.
LEMMA Settles ==
    ASSUME TypeOK, TypeOK', PotentialBounded, NEW w \in Workers,
           \A v \in Workers \ {w} : req'[v] = req[v],
           \A s \in StockIds : /\ Sold(s)' \subseteq Sold(s) \cup Held(w, s)
                               /\ Held(w, s)' \subseteq Sold(s)'
                               /\ peak[s] <= peak'[s]
    PROVE  PotentialBounded' /\ SomeClaimFits'
<1>1. SomeClaimFits'
  BY DEF SomeClaimFits
<1>2. ASSUME NEW s \in StockIds
      PROVE  Cardinality(Potential(s)') <= peak'[s] + (Cardinality(Workers) - 1) * MaxQuantity
  <2>1. Potential(s)' \subseteq Potential(s)
    BY OthersHold DEF Potential
  <2>2. Potential(s) \in SUBSET Units
    BY DEF Potential, Sold, Held
  <2>3. /\ Cardinality(Potential(s)') \in Nat /\ Cardinality(Potential(s)) \in Nat
        /\ Cardinality(Potential(s)') <= Cardinality(Potential(s))
    BY <2>1, <2>2, UnitSets
  <2>4. Cardinality(Potential(s)) <= peak[s] + (Cardinality(Workers) - 1) * MaxQuantity
    BY DEF PotentialBounded
  <2>5. (Cardinality(Workers) - 1) * MaxQuantity \in Nat
    BY OtherWorkers, AllowanceTyped
  <2> QED
    BY <2>3, <2>4, <2>5 DEF TypeOK
<1> QED
  BY <1>1, <1>2 DEF PotentialBounded

\* A step that changes no row and leaves w without a claim.
LEMMA Quiet ==
    ASSUME TypeOK, TypeOK', PotentialBounded, NEW w \in Workers,
           \A v \in Workers \ {w} : req'[v] = req[v],
           Claim(req'[w]) = 0,
           UNCHANGED <<items, at, qty>>,
           \A s \in StockIds : peak[s] <= peak'[s]
    PROVE  PotentialBounded' /\ SomeClaimFits'
<1>1. \A s \in StockIds : Sold(s)' = Sold(s)
  BY DEF Sold
<1> QED
  BY <1>1, NothingHeldNext, Settles

\* A step of a free worker that only deletes items.
LEMMA Deletes ==
    ASSUME TypeOK, TypeOK', PotentialBounded, NEW w \in Workers, Free(w),
           items' \subseteq items, UNCHANGED <<at, qty, peak, req>>
    PROVE  PotentialBounded' /\ SomeClaimFits'
<1>1. \A s \in StockIds : Sold(s)' \subseteq Sold(s)
  BY DEF Sold
<1>2. Claim(req'[w]) = 0
  BY DEF Claim, Free
<1> QED
  BY <1>1, <1>2, NothingHeldNext, Settles DEF TypeOK

\* The row in memory is written, or its foreign keys are gone.
LEMMA Writes ==
    ASSUME TypeOK, TypeOK', RequestsConsistent, PotentialBounded, NEW w \in Workers,
           req[w].pc \in {"insert", "saveItem"},
           WriteItem(req[w]) \/ UNCHANGED <<items, at, of, qty>>,
           Reply(w), UNCHANGED peak
    PROVE  PotentialBounded' /\ SomeClaimFits'
<1>1. Claim(req'[w]) = 0 /\ \A v \in Workers \ {w} : req'[v] = req[v]
  BY DEF Claim, Reply, TypeOK, Idle
<1>2. CASE UNCHANGED <<items, at, of, qty>>
  BY <1>1, <1>2, Quiet DEF TypeOK
<1>3. CASE WriteItem(req[w])
  <2>1. /\ req[w].item \in ItemIds /\ req[w].target = req[w].stock
        /\ Claim(req[w]) = req[w].want
    BY DEF TypeOK, RequestsConsistent, RequestConsistent, Claim
  <2>2. ASSUME NEW s \in StockIds, NEW u \in Sold(s)'
        PROVE  u \in Sold(s) \cup Held(w, s)
    <3>1. /\ u \in Units /\ u[1] \in items' /\ at'[u[1]] = s /\ u[2] <= qty'[u[1]]
      BY <2>2 DEF Sold
    <3>2. u[1] \in ItemIds
      BY <3>1 DEF Units
    <3>3. CASE u[1] = req[w].item
      BY <1>3, <2>1, <3>1, <3>2, <3>3 DEF WriteItem, Held, TypeOK
    <3>4. CASE u[1] # req[w].item
      BY <1>3, <3>1, <3>2, <3>4 DEF WriteItem, Sold, TypeOK
    <3> QED
      BY <3>3, <3>4
  <2> QED
    BY <1>1, <2>2, NothingHeldNext, Settles DEF TypeOK
<1> QED
  BY <1>2, <1>3
-----------------------------------------------------------------------------
(* A check that grants n units of item i, taken from stock r.stock.  "cur" *)
(* is what the item has in the table now, "stale" what the request allowed *)
(* itself to give back.                                                    *)

\* Raising an item that has sold cur units to n adds at most n - cur to what its
\* stock has sold.
LEMMA GrantSize ==
    ASSUME TypeOK, NEW s \in StockIds, NEW i \in ItemIds, NEW n \in 0 .. MaxQuantity,
           NEW cur \in 0 .. MaxQuantity, cur < n,
           \A u \in Units : u[1] = i /\ u[2] <= cur => u \in Sold(s)
    PROVE  Cardinality(Sold(s) \cup {u \in Units : u[1] = i /\ u[2] <= n})
             <= Cardinality(Sold(s)) + (n - cur)
<1> DEFINE C == {u \in Units : u[1] = i /\ u[2] > cur /\ u[2] <= n}
           G == {u \in Units : u[1] = i /\ u[2] <= n}
<1>1. Sold(s) \in SUBSET Units /\ C \in SUBSET Units
  BY DEF Sold
<1>2. \A u \in Units : u[2] \in Int
  BY DEF Units
<1>3. Sold(s) \cup G = Sold(s) \cup C
  BY <1>2, NumbersAssumption
<1>4. Cardinality(Sold(s) \cup C) <= Cardinality(Sold(s)) + Cardinality(C)
  BY <1>1, UnionSize
<1>5. Cardinality(C) <= n - cur
  BY CopySize, NumbersAssumption
<1>6. /\ Cardinality(C) \in Nat /\ Cardinality(Sold(s)) \in Nat
      /\ Cardinality(Sold(s) \cup C) \in Nat
  <2>1. Sold(s) \cup C \in SUBSET Units
    BY <1>1
  <2> QED
    BY <1>1, <2>1, UnitSets
<1>7. n \in Int /\ cur \in Int
  BY NumbersAssumption
<1>8. Cardinality(Sold(s) \cup G) <= Cardinality(Sold(s)) + (n - cur)
  <2>1. Cardinality(Sold(s) \cup G) = Cardinality(Sold(s) \cup C)
    BY <1>3
  <2> HIDE DEF C, G
  <2> QED
    BY <1>4, <1>5, <1>6, <1>7, <2>1
<1> QED
  BY <1>8

\* A check lets w write its item: at most one quantity beyond what the others hold.
LEMMA Grants ==
    ASSUME TypeOK, TypeOK', PotentialBounded, SomeClaimFits,
           NEW w \in Workers, NEW i \in ItemIds, NEW n \in 0 .. MaxQuantity,
           NEW s0 \in StockIds, NEW cur \in 0 .. MaxQuantity,
           NEW stale \in 0 .. MaxQuantity,
           \A v \in Workers \ {w} : req'[v] = req[v],
           UNCHANGED <<items, at, qty, peak>>,
           req[w].pc \in {"checkCreate", "checkUpdate"},
           req'[w].pc \in {"insert", "saveItem"},
           req'[w].stock = s0, req'[w].item = i, req'[w].want = n,
           n <= peak[s0] - Cardinality(Sold(s0)) + stale,
           stale > cur => ~(Held(w, s0) \subseteq Sold(s0)),
           \A u \in Units : u[1] = i /\ u[2] <= cur => u \in Sold(s0)
    PROVE  PotentialBounded' /\ SomeClaimFits'
<1> DEFINE G == {u \in Units : u[1] = i /\ u[2] <= n}
           N == Cardinality(Workers)
           Rest(V) == UNION {Held(v, s0) : v \in V}
<1>1. /\ \A s \in StockIds : Sold(s)' = Sold(s)
      /\ Held(w, s0)' = G
      /\ \A s \in StockIds \ {s0} : Held(w, s)' = {}
  BY DEF Sold, Held, Claim
<1>2. CASE n <= cur
  <2>1. G \subseteq Sold(s0)
    BY <1>2, NumbersAssumption DEF Units
  <2> QED
    BY <1>1, <2>1, Settles DEF TypeOK
<1>3. CASE cur < n
  <2>1. \A s \in StockIds \ {s0} :
           /\ Cardinality(Potential(s)') <= peak'[s] + (N - 1) * MaxQuantity
           /\ ~(\A v \in Workers : ~(Held(v, s)' \subseteq Sold(s)'))
    <3> SUFFICES ASSUME NEW s \in StockIds \ {s0}
                 PROVE  /\ Cardinality(Potential(s)') <= peak'[s] + (N - 1) * MaxQuantity
                        /\ ~(\A v \in Workers : ~(Held(v, s)' \subseteq Sold(s)'))
      OBVIOUS
    <3>1. Potential(s)' \subseteq Potential(s) /\ Potential(s) \in SUBSET Units
      BY <1>1, OthersHold DEF Potential, Sold, Held
    <3>2. /\ Cardinality(Potential(s)') \in Nat /\ Cardinality(Potential(s)) \in Nat
          /\ Cardinality(Potential(s)') <= Cardinality(Potential(s))
      BY <3>1, UnitSets
    <3>3. /\ Cardinality(Potential(s)) <= peak[s] + (N - 1) * MaxQuantity
          /\ (N - 1) * MaxQuantity \in Nat /\ peak[s] \in Nat /\ peak'[s] = peak[s]
      BY AllowanceTyped DEF PotentialBounded, TypeOK
    <3> QED
      BY <1>1, <3>2, <3>3
  <2>2. Potential(s0)' = (Sold(s0) \cup G) \cup Rest(Workers \ {w})
    BY <1>1, OthersHold DEF Potential
  <2>3. /\ Sold(s0) \in SUBSET Units /\ G \in SUBSET Units
        /\ Sold(s0) \cup G \in SUBSET Units
        /\ \A v \in Workers : Sold(s0) \cup Held(v, s0) \in SUBSET Units
        /\ \A v \in Workers : (Sold(s0) \cup Held(v, s0)) \cup G \in SUBSET Units
    BY DEF Sold, Held
  <2>4. Cardinality(Sold(s0) \cup G) <= peak[s0] + (stale - cur)
    <3>1. Cardinality(Sold(s0) \cup G) <= Cardinality(Sold(s0)) + (n - cur)
      BY <1>3, GrantSize
    <3>2. Cardinality(Sold(s0) \cup G) \in Nat /\ Cardinality(Sold(s0)) \in Nat
      BY <2>3, UnitSets
    <3> QED
      BY <3>1, <3>2, NumbersAssumption DEF TypeOK
  <2>5. /\ Cardinality(Sold(s0) \cup G) \in Nat /\ Cardinality(Potential(s0)') \in Nat
        /\ N \in Nat /\ N >= 1 /\ peak[s0] \in Nat /\ peak'[s0] = peak[s0]
        /\ (N - 1) * MaxQuantity \in Nat /\ MaxQuantity \in Nat
    <3>1. Potential(s0)' \in SUBSET Units
      BY <2>2, <2>3 DEF Held
    <3> QED
      BY <2>3, <3>1, UnitSets, OtherWorkers, AllowanceTyped, NumbersAssumption DEF TypeOK
  <2>6. CASE stale <= cur
    \* The check was up to date: what it granted fits under the peak.
    <3>1. Cardinality(Sold(s0) \cup G) <= peak[s0]
      BY <2>4, <2>5, <2>6
    <3>2. Cardinality(Potential(s0)')
            <= Cardinality(Sold(s0) \cup G) + (N - 1) * MaxQuantity
      <4>1. Cardinality(Workers \ {w}) = N - 1 /\ Workers \ {w} \in SUBSET Workers
        BY OtherWorkers
      <4>2. Cardinality((Sold(s0) \cup G) \cup Rest(Workers \ {w}))
              <= Cardinality(Sold(s0) \cup G) + Cardinality(Workers \ {w}) * MaxQuantity
        BY <2>3, <4>1, CoverSize
      <4> QED
        BY <2>2, <4>1, <4>2
    <3>3. Cardinality(Potential(s0)') <= peak'[s0] + (N - 1) * MaxQuantity
      BY <2>5, <3>1, <3>2
    <3>4. Cardinality(Sold(s0)' \cup Held(w, s0)') <= peak'[s0]
      BY <1>1, <2>5, <3>1
    <3> QED
      BY <2>1, <3>3, <3>4 DEF PotentialBounded, SomeClaimFits
  <2>7. CASE stale > cur /\ \E v \in Workers \ {w} : Held(v, s0) \subseteq Sold(s0)
    \* The check was out of date, but some other worker holds nothing new.
    <3>1. PICK v \in Workers \ {w} : Held(v, s0) \subseteq Sold(s0)
      BY <2>7
    <3>2. Potential(s0)' = (Sold(s0) \cup G) \cup Rest(Workers \ {w, v})
      BY <2>2, <3>1
    <3>3. Cardinality(Potential(s0)')
            <= Cardinality(Sold(s0) \cup G) + (N - 2) * MaxQuantity
      <4>1. Cardinality(Workers \ {w, v}) = N - 2 /\ Workers \ {w, v} \in SUBSET Workers
        BY <3>1, OtherWorkers
      <4>2. Cardinality((Sold(s0) \cup G) \cup Rest(Workers \ {w, v}))
              <= Cardinality(Sold(s0) \cup G) + Cardinality(Workers \ {w, v}) * MaxQuantity
        BY <2>3, <4>1, CoverSize
      <4> QED
        BY <3>2, <4>1, <4>2
    <3>4. /\ N - 2 \in Nat /\ (N - 2) * MaxQuantity \in Nat
          /\ (N - 2) * MaxQuantity + MaxQuantity = (N - 1) * MaxQuantity
      <4>1. N - 2 \in Nat /\ (N - 2) + 1 = N - 1
        <5>1. N >= 2
          BY <3>1, OtherWorkers
        <5> QED
          BY <2>5, <5>1
      <4> QED
        BY <4>1, AllowanceTyped
    <3>5. Cardinality(Potential(s0)') <= peak'[s0] + (N - 1) * MaxQuantity
      BY <2>4, <2>5, <3>3, <3>4
    <3>6. Held(v, s0)' \subseteq Sold(s0)'
      BY <1>1, <3>1, OthersHold
    <3> QED
      BY <2>1, <3>1, <3>5, <3>6 DEF PotentialBounded, SomeClaimFits
  <2>8. CASE stale > cur /\ ~\E v \in Workers \ {w} : Held(v, s0) \subseteq Sold(s0)
    \* Everyone has a claim, w included: an earlier one fits under the peak.
    <3>1. \A v \in Workers : ~(Held(v, s0) \subseteq Sold(s0))
      BY <2>8
    <3>2. PICK x \in Workers :
             /\ req[x].pc \in {"insert", "saveItem"}
             /\ Cardinality(Sold(s0) \cup Held(x, s0)) <= peak[s0]
      BY <3>1 DEF SomeClaimFits
    <3>3. x \in Workers \ {w}
      BY <3>2
    <3>4. Potential(s0)' = ((Sold(s0) \cup Held(x, s0)) \cup G) \cup Rest(Workers \ {w, x})
      BY <2>2, <3>3
    <3>5. Cardinality(Potential(s0)')
            <= Cardinality((Sold(s0) \cup Held(x, s0)) \cup G) + (N - 2) * MaxQuantity
      <4>1. Cardinality(Workers \ {w, x}) = N - 2 /\ Workers \ {w, x} \in SUBSET Workers
        BY <3>3, OtherWorkers
      <4>2. Cardinality(((Sold(s0) \cup Held(x, s0)) \cup G) \cup Rest(Workers \ {w, x}))
              <= Cardinality((Sold(s0) \cup Held(x, s0)) \cup G)
                   + Cardinality(Workers \ {w, x}) * MaxQuantity
        BY <2>3, <4>1, CoverSize
      <4> QED
        BY <3>4, <4>1, <4>2
    <3>6. Cardinality((Sold(s0) \cup Held(x, s0)) \cup G)
            <= Cardinality(Sold(s0) \cup Held(x, s0)) + Cardinality(G)
      BY <2>3, UnionSize
    <3>7. Cardinality(G) <= MaxQuantity
      <4>1. G = {u \in Units : u[1] = i /\ u[2] > 0 /\ u[2] <= n}
        BY NumbersAssumption DEF Units
      <4>2. Cardinality(G) <= n - 0
        BY <4>1, CopySize, NumbersAssumption
      <4>3. Cardinality(G) \in Nat
        BY <2>3, UnitSets
      <4> QED
        BY <4>2, <4>3, NumbersAssumption
    <3>8. /\ N - 2 \in Nat /\ (N - 2) * MaxQuantity \in Nat
          /\ (N - 2) * MaxQuantity + MaxQuantity = (N - 1) * MaxQuantity
      <4>1. N - 2 \in Nat /\ (N - 2) + 1 = N - 1
        <5>1. N >= 2
          BY <3>3, OtherWorkers
        <5> QED
          BY <2>5, <5>1
      <4> QED
        BY <4>1, AllowanceTyped
    <3>9. /\ Cardinality(G) \in Nat
          /\ Cardinality(Sold(s0) \cup Held(x, s0)) \in Nat
          /\ Cardinality((Sold(s0) \cup Held(x, s0)) \cup G) \in Nat
      BY <2>3, UnitSets
    <3>10. Cardinality(Potential(s0)') <= peak'[s0] + (N - 1) * MaxQuantity
      BY <2>5, <3>2, <3>5, <3>6, <3>7, <3>8, <3>9
    <3>11. /\ req'[x].pc \in {"insert", "saveItem"}
           /\ Cardinality(Sold(s0)' \cup Held(x, s0)') <= peak'[s0]
      BY <1>1, <2>5, <3>2, <3>3, OthersHold
    <3> QED
      BY <2>1, <3>10, <3>11 DEF PotentialBounded, SomeClaimFits
  <2> QED
    BY <2>6, <2>7, <2>8
<1> QED
  BY <1>2, <1>3
-----------------------------------------------------------------------------
(* The inductive invariant.                                                *)

\* The units sold are units, and finitely many.
LEMMA SoldTyped ==
    \A s : Cardinality(Sold(s)) \in Nat
<1> SUFFICES ASSUME NEW s PROVE Cardinality(Sold(s)) \in Nat
  OBVIOUS
<1>1. Sold(s) \in SUBSET Units
  BY DEF Sold
<1> QED
  BY <1>1, UnitSets

\* Without negative quantities the items of a stock are the units it has sold.
LEMMA OrderedIsSold ==
    ASSUME TypeOK, RequestsConsistent, NEW s
    PROVE  Ordered(s) = Cardinality(Sold(s))
<1>1. Credited(s) = {}
  BY NumbersAssumption DEF Credited, Units, RequestsConsistent, TablesConsistent, TypeOK
<1>2. Cardinality(Credited(s)) = 0
  BY <1>1, FS_EmptySet
<1> QED
  BY <1>2, SoldTyped DEF Ordered


\* A step of w leaves the others' requests consistent: it inserts at most the
\* row of its own request, and moves no other item.
LEMMA OthersConsistent ==
    ASSUME TypeOK, TypeOK', RequestsConsistent, NEW w \in Workers,
           \A v \in Workers \ {w} : req'[v] = req[v],
           freshItems' \subseteq freshItems,
           items' \subseteq items \cup {req[w].item},
           \A i \in ItemIds :
              at'[i] = at[i] \/ (req[w].pc = "insert" /\ i = req[w].item),
           \A s \in StockIds : peak[s] <= peak'[s],
           req'[w].item \in {None, req[w].item} \cup items \cup freshItems
    PROVE  \A v \in Workers \ {w} : RequestConsistent(v)'
<1> SUFFICES ASSUME NEW v \in Workers \ {w} PROVE RequestConsistent(v)'
  OBVIOUS
<1>1. req'[v] = req[v] /\ req[v] \in Requests /\ RequestConsistent(v) /\ RequestConsistent(w)
  BY DEF RequestsConsistent, TypeOK
<1>2. ASSUME req[v].pc = "insert"
      PROVE  /\ req[v].item \notin items'
             /\ \A u \in Workers \ {v} : req'[u].item # req[v].item
  BY <1>1, <1>2, PoolsAssumption DEF RequestConsistent, TypeOK
<1>3. ASSUME req[v].pc \in {"fetch", "checkUpdate", "saveItem"}
      PROVE  at'[req[v].item] = req[v].stock
  BY <1>1, <1>3 DEF RequestConsistent, TypeOK
<1>4. ASSUME req[v].pc \in {"checkCreate", "checkUpdate"}
      PROVE  req[v].level <= peak'[req[v].stock]
  <2>1. req[v].stock \in StockIds /\ req[v].level <= peak[req[v].stock]
    BY <1>1, <1>4 DEF RequestConsistent
  <2>2. /\ peak[req[v].stock] \in Nat /\ peak'[req[v].stock] \in Nat
        /\ peak[req[v].stock] <= peak'[req[v].stock] /\ req[v].level \in Int
    BY <1>1, <2>1 DEF TypeOK, Requests
  <2> QED
    BY <2>1, <2>2
<1> QED
  BY <1>1, <1>2, <1>3, <1>4 DEF RequestConsistent

\* Writing a stock never lowers a peak.
LEMMA PeakGrows ==
    ASSUME TypeOK, NEW t \in StockIds, NEW p, NEW n \in Int, WriteStock(t, p, n)
    PROVE  /\ \A s \in StockIds : peak[s] <= peak'[s]
           /\ (\A s \in StockIds : level[s] <= peak[s])
                => \A s \in StockIds : level'[s] <= peak'[s]
BY DEF WriteStock, Larger, TypeOK

\* A worker at rest is consistent.
LEMMA IdleConsistent ==
    ASSUME TypeOK', NEW w \in Workers, req'[w] = Idle
    PROVE  RequestConsistent(w)'
BY PoolsAssumption DEF RequestConsistent, Idle, TypeOK

\* A response that changes no row leaves the requests consistent.
LEMMA ReplyConsistent ==
    ASSUME TypeOK, TypeOK', RequestsConsistent, NEW w \in Workers, Reply(w),
           UNCHANGED <<items, at, qty, freshItems, level, peak>>
    PROVE  RequestsConsistent'
<1>1. req'[w] = Idle /\ \A v \in Workers \ {w} : req'[v] = req[v]
  BY DEF Reply, TypeOK
<1>2. \A v \in Workers \ {w} : RequestConsistent(v)'
  BY <1>1, OthersConsistent DEF Idle, TypeOK
<1>3. RequestConsistent(w)'
  BY <1>1, IdleConsistent
<1>4. TablesConsistent'
  BY DEF TablesConsistent, RequestsConsistent
<1> QED
  BY <1>2, <1>3, <1>4 DEF RequestsConsistent

\* A step to the next program counter, with a quantity read on the way.
LEMMA AdvanceConsistent ==
    ASSUME TypeOK, TypeOK', RequestsConsistent, NEW w \in Workers, NEW pc, NEW n,
           req' = [req EXCEPT ![w].pc = pc, ![w].level = n],
           UNCHANGED <<items, at, qty, freshItems, level, peak>>,
           \/ req[w].pc = "validate" /\ pc = "checkCreate"
           \/ req[w].pc = "fetch" /\ pc = "checkUpdate"
           \/ req[w].pc = "checkUpdate" /\ pc = "saveItem",
           pc # "saveItem" => n <= peak[req[w].stock]
    PROVE  RequestsConsistent'
<1>1. /\ \A v \in Workers \ {w} : req'[v] = req[v]
      /\ req'[w].pc = pc /\ req'[w].level = n
      /\ req'[w].item = req[w].item /\ req'[w].stock = req[w].stock
      /\ req'[w].target = req[w].target /\ req'[w].qty = req[w].qty
      /\ req'[w].want = req[w].want
  BY DEF TypeOK, Requests
<1>2. \A v \in Workers \ {w} : RequestConsistent(v)'
  BY <1>1, OthersConsistent DEF TypeOK
<1>3. RequestConsistent(w)'
  BY <1>1 DEF RequestConsistent, RequestsConsistent
<1>4. TablesConsistent'
  BY DEF TablesConsistent, RequestsConsistent
<1> QED
  BY <1>2, <1>3, <1>4 DEF RequestsConsistent

\* Requests stay consistent.
LEMMA ConsistentStep ==
    ASSUME Quantities \subseteq Nat, Reassign = {},
           TypeOK, TypeOK', RequestsConsistent, [Next]_vars
    PROVE  RequestsConsistent'
<1>0. CASE UNCHANGED vars
  BY <1>0 DEF RequestsConsistent, TablesConsistent, RequestConsistent, vars, stockVars, itemVars
<1> USE DEF RequestsConsistent
<1>1. ASSUME NEW w \in Workers, PickStock(w) PROVE RequestsConsistent'
  <2>1. PICK p \in Products, s \in stocks, o \in orders, q \in Quantities :
           req' = [req EXCEPT ![w] = NewCreate(p, s, o, q)]
    BY <1>1 DEF PickStock
  <2>2. q \in Nat /\ s \in StockIds /\ None \notin freshItems' /\ req'[w] = NewCreate(p, s, o, q)
    BY <2>1, PoolsAssumption DEF TypeOK
  <2>3. RequestConsistent(w)'
    BY <2>2 DEF NewCreate, RequestConsistent
  <2>4. TablesConsistent'
    BY <1>1 DEF PickStock, TablesConsistent, stockVars, itemVars
  <2>5. \A v \in Workers \ {w} : RequestConsistent(v)'
    BY <1>1, <2>1, <2>2, OthersConsistent DEF PickStock, NewCreate, TypeOK, stockVars, itemVars
  <2> QED
    BY <2>3, <2>4, <2>5
<1>2. ASSUME NEW w \in Workers, ValidateCreate(w) PROVE RequestsConsistent'
  <2>1. CASE Reply(w)
    BY <1>2, <2>1, ReplyConsistent DEF ValidateCreate, stockVars, itemVars
  <2>2. CASE ~Reply(w)
    <3>1. /\ req[w].stock \in StockIds /\ req[w].target = req[w].stock
          /\ level[req[w].target] <= peak[req[w].stock]
      BY <1>2 DEF ValidateCreate, RequestConsistent, TablesConsistent
    <3> QED
      BY <1>2, <2>2, <3>1, AdvanceConsistent DEF ValidateCreate, stockVars, itemVars
  <2> QED
    BY <2>1, <2>2
<1>3. ASSUME NEW w \in Workers, CheckCreate(w) PROVE RequestsConsistent'
  <2>1. CASE Reply(w) /\ UNCHANGED <<items, at, qty, freshItems, level, peak>>
    BY <2>1, ReplyConsistent
  <2>2. ASSUME NEW i \in freshItems, freshItems' = freshItems \ {i},
               req' = [req EXCEPT ![w].pc = "insert", ![w].item = i],
               UNCHANGED <<items, at, qty, level, peak>>
        PROVE  RequestsConsistent'
    <3>1. \A v \in Workers \ {w} : RequestConsistent(v)'
      BY <2>2, OthersConsistent DEF TypeOK
    <3>2. RequestConsistent(w)'
      <4>1. /\ req'[w].pc = "insert" /\ req'[w].item = i
            /\ req'[w].stock = req[w].stock /\ req'[w].target = req[w].target
            /\ req'[w].qty = req[w].qty /\ req'[w].want = req[w].want
            /\ \A v \in Workers \ {w} : req'[v] = req[v]
        BY <2>2 DEF TypeOK, Requests
      <4>2. i \notin items /\ \A v \in Workers : req[v].item # i
        BY DEF RequestConsistent, TablesConsistent
      <4>3. /\ req[w].qty >= 0 /\ req[w].want >= 0
            /\ req[w].stock \in StockIds /\ req[w].target = req[w].stock
        BY <1>3 DEF CheckCreate, RequestConsistent
      <4>4. i \notin freshItems' /\ items' = items
        BY <2>2
      <4> QED
        BY <4>1, <4>2, <4>3, <4>4 DEF RequestConsistent
    <3>3. TablesConsistent'
      BY <2>2 DEF TablesConsistent
    <3> QED
      BY <3>1, <3>2, <3>3
  <2> QED
    BY <1>3, <2>1, <2>2 DEF CheckCreate, stockVars
<1>4. ASSUME NEW w \in Workers, InsertItem(w) PROVE RequestsConsistent'
  <2>1. /\ req[w].item \in ItemIds /\ req[w].item \notin freshItems
        /\ req[w].stock \in StockIds /\ req[w].target = req[w].stock /\ req[w].want >= 0
    BY <1>4 DEF InsertItem, RequestConsistent, TypeOK
  <2>2. \A v \in Workers \ {w} : RequestConsistent(v)'
    BY <1>4, <2>1, OthersConsistent DEF InsertItem, WriteItem, Reply, Idle, TypeOK, stockVars
  <2>3. RequestConsistent(w)'
    BY <1>4, IdleConsistent DEF InsertItem, Reply, TypeOK
  <2>4. TablesConsistent'
    BY <1>4, <2>1 DEF InsertItem, WriteItem, TablesConsistent, TypeOK, stockVars
  <2> QED
    BY <2>2, <2>3, <2>4
<1>5. ASSUME NEW w \in Workers, LoadItem(w) PROVE RequestsConsistent'
  <2>1. PICK i \in items, o \in orders, q \in Quantities \cup {None} :
           req' = [req EXCEPT ![w] = NewUpdate(i, at[i], o, q)]
    BY <1>5 DEF LoadItem
  <2>2. /\ i \in ItemIds /\ i \notin freshItems /\ at[i] \in StockIds
        /\ qty[i] >= 0 /\ o \in Orders /\ req'[w] = NewUpdate(i, at[i], o, q)
    BY <2>1 DEF TypeOK, TablesConsistent
  <2>3. /\ req'[w].pc \in {"saveItem", "fetch"} /\ req'[w].item = i
        /\ req'[w].stock = at[i] /\ req'[w].target = at[i] /\ req'[w].qty = qty[i]
        /\ req'[w].want \in {qty[i]} \cup Quantities
    BY <2>2, NewUpdateTyped
  <2>4. RequestConsistent(w)'
    <3>1. freshItems' = freshItems /\ at' = at
      BY <1>5 DEF LoadItem, itemVars
    <3>2. req'[w].want >= 0
      <4>1. CASE req'[w].want = qty[i]
        BY <2>2, <4>1
      <4>2. CASE req'[w].want \in Quantities
        <5>1. req'[w].want \in Nat
          BY <4>2
        <5> QED
          BY <5>1
      <4> QED
        BY <2>3, <4>1, <4>2
    <3> QED
      BY <2>2, <2>3, <3>1, <3>2 DEF RequestConsistent
  <2>5. \A v \in Workers \ {w} : RequestConsistent(v)'
    BY <1>5, <2>1, <2>3, OthersConsistent DEF LoadItem, TypeOK, stockVars, itemVars
  <2>6. TablesConsistent'
    BY <1>5 DEF LoadItem, TablesConsistent, stockVars, itemVars
  <2> QED
    BY <2>4, <2>5, <2>6
<1>6. ASSUME NEW w \in Workers, FetchStock(w) PROVE RequestsConsistent'
  <2>1. CASE Reply(w)
    BY <1>6, <2>1, ReplyConsistent DEF FetchStock, stockVars, itemVars
  <2>2. CASE ~Reply(w)
    <3>1. level[req[w].stock] <= peak[req[w].stock]
      BY <1>6 DEF FetchStock, RequestConsistent, TablesConsistent
    <3> QED
      BY <1>6, <2>2, <3>1, AdvanceConsistent DEF FetchStock, stockVars, itemVars
  <2> QED
    BY <2>1, <2>2
<1>7. ASSUME NEW w \in Workers, CheckUpdate(w) PROVE RequestsConsistent'
  <2>1. CASE Reply(w)
    BY <1>7, <2>1, ReplyConsistent DEF CheckUpdate, stockVars, itemVars
  <2>2. CASE ~Reply(w)
    <3>1. req' = [req EXCEPT ![w].pc = "saveItem", ![w].level = req[w].level]
      BY <1>7, <2>2 DEF CheckUpdate, TypeOK, Requests
    <3> QED
      BY <1>7, <3>1, AdvanceConsistent DEF CheckUpdate, stockVars, itemVars
  <2> QED
    BY <2>1, <2>2
<1>8. ASSUME NEW w \in Workers, SaveItem(w) PROVE RequestsConsistent'
  <2>1. /\ req[w].item \in ItemIds /\ req[w].item \notin freshItems
        /\ req[w].stock \in StockIds /\ req[w].target = req[w].stock /\ req[w].want >= 0
        /\ at[req[w].item] = req[w].stock
    BY <1>8 DEF SaveItem, RequestConsistent, TypeOK
  <2>2. \A v \in Workers \ {w} : RequestConsistent(v)'
    BY <1>8, <2>1, OthersConsistent DEF SaveItem, WriteItem, Reply, Idle, TypeOK, stockVars
  <2>3. RequestConsistent(w)'
    BY <1>8, IdleConsistent DEF SaveItem, Reply, TypeOK
  <2>4. TablesConsistent'
    BY <1>8, <2>1 DEF SaveItem, WriteItem, TablesConsistent, TypeOK, stockVars
  <2> QED
    BY <2>2, <2>3, <2>4
<1>9. ASSUME NEW w \in Workers,
             DeleteItem(w) \/ SaveOrder(w) \/ DeleteOrder(w) \/ DeleteStock(w)
      PROVE  RequestsConsistent'
  BY <1>9 DEF DeleteItem, SaveOrder, DeleteOrder, DeleteStock, TablesConsistent,
              RequestConsistent, TypeOK, stockVars, itemVars
<1>10. ASSUME NEW w \in Workers, CreateStock(w) \/ SaveStock(w) PROVE RequestsConsistent'
  <2>1. \A s \in StockIds : peak[s] <= peak'[s]
    BY <1>10, PeakGrows, NumbersAssumption DEF CreateStock, SaveStock, TypeOK, Requests
  <2>2. \A v \in Workers \ {w} : RequestConsistent(v)'
    BY <1>10, <2>1, OthersConsistent DEF CreateStock, SaveStock, Reply, Idle, TypeOK, itemVars
  <2>3. RequestConsistent(w)'
    <3>1. CASE SaveStock(w)
      BY <3>1, IdleConsistent DEF SaveStock, Reply, TypeOK
    <3>2. CASE CreateStock(w)
      BY <3>2, <2>1 DEF CreateStock, RequestConsistent, TypeOK, Requests, itemVars
    <3> QED
      BY <1>10, <3>1, <3>2
  <2>4. TablesConsistent'
    BY <1>10, PeakGrows, NumbersAssumption
    DEF CreateStock, SaveStock, TablesConsistent, TypeOK, Requests, itemVars
  <2> QED
    BY <2>2, <2>3, <2>4
<1>11. ASSUME NEW w \in Workers, LoadStock(w) PROVE RequestsConsistent'
  <2>1. PICK s \in stocks : \E p \in Products, n \in {level[s]} \cup Levels :
           req' = [req EXCEPT ![w] = NewStockEdit(s, p, n)]
    BY <1>11 DEF LoadStock
  <2>2. PICK p \in Products, n \in {level[s]} \cup Levels :
           req' = [req EXCEPT ![w] = NewStockEdit(s, p, n)]
    BY <2>1
  <2>3. req'[w] = NewStockEdit(s, p, n) /\ None \notin freshItems'
    BY <2>2, PoolsAssumption DEF TypeOK
  <2>4. RequestConsistent(w)'
    BY <2>3 DEF NewStockEdit, RequestConsistent
  <2>5. \A v \in Workers \ {w} : RequestConsistent(v)'
    BY <1>11, <2>2, <2>3, OthersConsistent DEF LoadStock, NewStockEdit, TypeOK, stockVars, itemVars
  <2>6. TablesConsistent'
    BY <1>11 DEF LoadStock, TablesConsistent, stockVars, itemVars
  <2> QED
    BY <2>4, <2>5, <2>6
<1>12. ASSUME NEW w \in Workers, Kill(w) PROVE RequestsConsistent'
  BY <1>12, ReplyConsistent DEF Kill, stockVars, itemVars
<1> QED
  BY <1>0, <1>1, <1>2, <1>3, <1>4, <1>5, <1>6, <1>7, <1>8, <1>9, <1>10, <1>11, <1>12
  DEF Next, CreateRequest, UpdateRequest, StockRequest
\* The invariant holds at the start.
LEMMA InvariantInit ==
    ASSUME Init PROVE RequestsConsistent /\ PotentialBounded /\ SomeClaimFits
<1>1. RequestsConsistent
  BY PoolsAssumption DEF Init, Idle, RequestsConsistent, TablesConsistent, RequestConsistent
<1>2. \A s \in StockIds : Sold(s) = {} /\ \A w \in Workers : Held(w, s) = {}
  BY NumbersAssumption DEF Init, Idle, Sold, Held, Claim, Units
<1>3. SomeClaimFits
  BY <1>2, PoolsAssumption DEF SomeClaimFits
<1>4. PotentialBounded
  <2> SUFFICES ASSUME NEW s \in StockIds
               PROVE  Cardinality(Potential(s))
                        <= peak[s] + (Cardinality(Workers) - 1) * MaxQuantity
    BY DEF PotentialBounded
  <2>1. Potential(s) = {}
    BY <1>2 DEF Potential
  <2>2. Cardinality(Potential(s)) = 0
    BY <2>1, FS_EmptySet
  <2> QED
    BY <2>2, AllowanceTyped DEF Init
<1> QED
  BY <1>1, <1>3, <1>4

\* Every step keeps what the requests hold within the bound.
LEMMA PotentialStep ==
    ASSUME Quantities \subseteq Nat, Reassign = {},
           TypeOK, TypeOK', RequestsConsistent, PotentialBounded, SomeClaimFits,
           [Next]_vars
    PROVE  PotentialBounded' /\ SomeClaimFits'
<1>0. CASE UNCHANGED vars
  BY <1>0 DEF PotentialBounded, SomeClaimFits, Potential, Sold, Held, Claim,
              vars, stockVars, itemVars
<1>a. ASSUME NEW w \in Workers, UNCHANGED <<items, at, qty, peak>>,
             \/ Reply(w)
             \/ \E r : req' = [req EXCEPT ![w] = r] /\ Claim(r) = 0
      PROVE  PotentialBounded' /\ SomeClaimFits'
  <2>1. Claim(req'[w]) = 0 /\ \A v \in Workers \ {w} : req'[v] = req[v]
    BY <1>a DEF Reply, Idle, Claim, TypeOK
  <2> QED
    BY <1>a, <2>1, Quiet DEF TypeOK
<1>1. ASSUME NEW w \in Workers, PickStock(w) PROVE PotentialBounded' /\ SomeClaimFits'
  <2>1. PICK p \in Products, s \in stocks, o \in orders, q \in Quantities :
           req' = [req EXCEPT ![w] = NewCreate(p, s, o, q)]
    BY <1>1 DEF PickStock
  <2>2. Claim(NewCreate(p, s, o, q)) = 0
    BY DEF Claim, NewCreate
  <2> QED
    BY <1>1, <1>a, <2>1, <2>2 DEF PickStock, stockVars, itemVars
<1>2. ASSUME NEW w \in Workers, ValidateCreate(w) PROVE PotentialBounded' /\ SomeClaimFits'
  <2>1. Claim(req'[w]) = 0 /\ \A v \in Workers \ {w} : req'[v] = req[v]
    BY <1>2 DEF ValidateCreate, Reply, Idle, Claim, TypeOK, Requests
  <2> QED
    BY <1>2, <2>1, Quiet DEF ValidateCreate, TypeOK, stockVars, itemVars
<1>3. ASSUME NEW w \in Workers, CheckCreate(w) PROVE PotentialBounded' /\ SomeClaimFits'
  <2>1. CASE Reply(w)
    BY <1>3, <1>a, <2>1 DEF CheckCreate, stockVars
  <2>2. ASSUME NEW i \in freshItems, ~CreateExceeds(req[w]),
               req' = [req EXCEPT ![w].pc = "insert", ![w].item = i]
        PROVE  PotentialBounded' /\ SomeClaimFits'
    <3>1. /\ req'[w].pc = "insert" /\ req'[w].item = i
          /\ req'[w].stock = req[w].stock /\ req'[w].want = req[w].want
          /\ \A v \in Workers \ {w} : req'[v] = req[v]
      BY <2>2 DEF TypeOK, Requests
    <3>2. /\ i \in ItemIds /\ i \notin items
          /\ req[w].stock \in StockIds /\ req[w].want \in 0 .. MaxQuantity
          /\ req[w].pc = "checkCreate" /\ req[w].level <= peak[req[w].stock]
      BY <1>3 DEF CheckCreate, RequestsConsistent, TablesConsistent,
                  RequestConsistent, TypeOK, Requests
    <3>3. req[w].want <= peak[req[w].stock] - Cardinality(Sold(req[w].stock)) + 0
      <4>1. ~(req[w].want > req[w].level - Cardinality(Sold(req[w].stock)))
        BY <2>2, OrderedIsSold DEF CreateExceeds, RemainingOf
      <4> QED
        BY <3>2, <4>1, SoldTyped DEF TypeOK, Requests
    <3>4. \A u \in Units : u[1] = i /\ u[2] <= 0 => u \in Sold(req[w].stock)
      BY NumbersAssumption DEF Units
    <3>5. UNCHANGED <<items, at, qty, peak>> /\ 0 \in 0 .. MaxQuantity /\ ~(0 > 0)
      BY <1>3, NumbersAssumption DEF CheckCreate, stockVars
    <3> QED
      BY <3>1, <3>2, <3>3, <3>4, <3>5, Grants
  <2> QED
    BY <1>3, <2>1, <2>2 DEF CheckCreate
<1>4. ASSUME NEW w \in Workers, InsertItem(w) \/ SaveItem(w)
      PROVE  PotentialBounded' /\ SomeClaimFits'
  BY <1>4, Writes DEF InsertItem, SaveItem, stockVars
<1>5. ASSUME NEW w \in Workers, LoadItem(w) PROVE PotentialBounded' /\ SomeClaimFits'
  <2>1. PICK i \in items, o \in orders, q \in Quantities \cup {None} :
           req' = [req EXCEPT ![w] = NewUpdate(i, at[i], o, q)]
    BY <1>5 DEF LoadItem
  <2>2. /\ i \in ItemIds /\ at[i] \in StockIds /\ o \in Orders
        /\ qty[i] >= 0 /\ qty[i] \in Int /\ req'[w] = NewUpdate(i, at[i], o, q)
        /\ \A v \in Workers \ {w} : req'[v] = req[v]
    BY <2>1 DEF RequestsConsistent, TablesConsistent, TypeOK
  <2>3. /\ req'[w].pc \in {"saveItem", "fetch"} /\ req'[w].item = i
        /\ req'[w].stock = at[i] /\ req'[w].qty = qty[i]
        /\ req'[w].pc = "saveItem" => req'[w].want \in {qty[i], 0}
    BY <2>2, NewUpdateTyped
  <2>4. Claim(req'[w]) \in {qty[i], 0}
    BY <2>3 DEF Claim
  <2>5. UNCHANGED <<items, at, qty, peak>>
    BY <1>5 DEF LoadItem, stockVars, itemVars
  <2>6. \A s \in StockIds : Sold(s)' = Sold(s)
    BY <2>5 DEF Sold
  <2>7. \A s \in StockIds : Held(w, s)' \subseteq Sold(s)
    <3> SUFFICES ASSUME NEW s \in StockIds, NEW u \in Held(w, s)' PROVE u \in Sold(s)
      OBVIOUS
    <3>1. u \in Units /\ at[i] = s /\ u[1] = i /\ u[2] <= Claim(req'[w])
      BY <2>3 DEF Held, Claim
    <3>2. u[2] <= qty[i]
      BY <2>2, <2>4, <3>1 DEF Units
    <3> QED
      BY <3>1, <3>2 DEF Sold
  <2> QED
    BY <2>2, <2>5, <2>6, <2>7, Settles DEF TypeOK
<1>6. ASSUME NEW w \in Workers, FetchStock(w) PROVE PotentialBounded' /\ SomeClaimFits'
  <2>1. CASE Reply(w)
    BY <1>6, <1>a, <2>1 DEF FetchStock, stockVars, itemVars
  <2>2. CASE ~Reply(w)
    <3>1. /\ req[w].pc = "fetch" /\ req'[w].pc = "checkUpdate"
          /\ req'[w].stock = req[w].stock /\ req'[w].item = req[w].item
          /\ req'[w].qty = req[w].qty /\ \A v \in Workers \ {w} : req'[v] = req[v]
      BY <1>6, <2>2 DEF FetchStock, TypeOK, Requests
    <3>2. UNCHANGED <<items, at, qty, peak>>
      BY <1>6 DEF FetchStock, stockVars, itemVars
    <3>3. \A s \in StockIds : Sold(s)' = Sold(s)
      BY <3>2 DEF Sold
    <3>4. \A v \in Workers, s \in StockIds : Held(v, s)' = Held(v, s)
      BY <3>1, OthersHold DEF Held, Claim
    <3>5. \A v \in Workers :
             req'[v].pc \in {"insert", "saveItem"} <=> req[v].pc \in {"insert", "saveItem"}
      BY <3>1
    <3>6. \A s \in StockIds : Potential(s)' = Potential(s)
      BY <3>3, <3>4 DEF Potential
    <3> QED
      BY <3>2, <3>3, <3>4, <3>5, <3>6 DEF PotentialBounded, SomeClaimFits
  <2> QED
    BY <2>1, <2>2
<1>7. ASSUME NEW w \in Workers, CheckUpdate(w) PROVE PotentialBounded' /\ SomeClaimFits'
  <2>1. CASE Reply(w)
    BY <1>7, <1>a, <2>1 DEF CheckUpdate, stockVars, itemVars
  <2>2. CASE ~UpdateExceeds(req[w]) /\ req' = [req EXCEPT ![w].pc = "saveItem"]
    <3> DEFINE i == req[w].item
               s0 == req[w].stock
               cur == IF i \in items THEN qty[i] ELSE 0
    <3>1. /\ req'[w].pc = "saveItem" /\ req'[w].item = i
          /\ req'[w].stock = s0 /\ req'[w].want = req[w].want
          /\ \A v \in Workers \ {w} : req'[v] = req[v]
      BY <2>2 DEF TypeOK, Requests
    <3>2. /\ req[w].pc = "checkUpdate" /\ i \in ItemIds /\ s0 \in StockIds
          /\ at[i] = s0 /\ req[w].level <= peak[s0]
          /\ req[w].want \in 0 .. MaxQuantity /\ req[w].qty \in 0 .. MaxQuantity
      BY <1>7 DEF CheckUpdate, RequestsConsistent, RequestConsistent, TypeOK, Requests
    <3>3. cur \in 0 .. MaxQuantity
      BY <3>2, NumbersAssumption DEF RequestsConsistent, TablesConsistent, TypeOK
    <3>4. req[w].want <= peak[s0] - Cardinality(Sold(s0)) + req[w].qty
      <4>1. ~(req[w].want > req[w].level - Cardinality(Sold(s0)) + req[w].qty)
        BY <2>2, OrderedIsSold DEF UpdateExceeds, RemainingOf
      <4> QED
        BY <3>2, <4>1, SoldTyped DEF TypeOK, Requests
    <3>5. ASSUME req[w].qty > cur PROVE ~(Held(w, s0) \subseteq Sold(s0))
      <4>1. <<i, req[w].qty>> \in Held(w, s0)
        BY <3>2, <3>3, <3>5, NumbersAssumption DEF Held, Claim, Units
      <4>2. <<i, req[w].qty>> \notin Sold(s0)
        BY <3>2, <3>3, <3>5 DEF Sold
      <4> QED
        BY <4>1, <4>2
    <3>6. ASSUME NEW u \in Units, u[1] = i, u[2] <= cur PROVE u \in Sold(s0)
      BY <3>2, <3>6, NumbersAssumption DEF Units, Sold
    <3> HIDE DEF cur
    <3> QED
      BY <1>7, <3>1, <3>2, <3>3, <3>4, <3>5, <3>6, Grants
      DEF CheckUpdate, stockVars, itemVars
  <2> QED
    BY <1>7, <2>1, <2>2 DEF CheckUpdate
<1>8. ASSUME NEW w \in Workers, DeleteItem(w) \/ DeleteOrder(w) \/ DeleteStock(w)
      PROVE  PotentialBounded' /\ SomeClaimFits'
  BY <1>8, Deletes DEF DeleteItem, DeleteOrder, DeleteStock, stockVars
<1>9. ASSUME NEW w \in Workers, SaveOrder(w) PROVE PotentialBounded' /\ SomeClaimFits'
  BY <1>9, Deletes DEF SaveOrder, stockVars, itemVars
<1>10. ASSUME NEW w \in Workers, CreateStock(w) \/ SaveStock(w)
       PROVE  PotentialBounded' /\ SomeClaimFits'
  <2>1. \A s \in StockIds : peak[s] <= peak'[s]
    BY <1>10, PeakGrows, NumbersAssumption DEF CreateStock, SaveStock, TypeOK, Requests
  <2>2. Claim(req'[w]) = 0 /\ \A v \in Workers \ {w} : req'[v] = req[v]
    BY <1>10 DEF CreateStock, SaveStock, Free, Reply, Idle, Claim, TypeOK
  <2> QED
    BY <1>10, <2>1, <2>2, Quiet DEF CreateStock, SaveStock, itemVars
<1>11. ASSUME NEW w \in Workers, LoadStock(w) PROVE PotentialBounded' /\ SomeClaimFits'
  <2>1. PICK s \in stocks : \E p \in Products, n \in {level[s]} \cup Levels :
           req' = [req EXCEPT ![w] = NewStockEdit(s, p, n)]
    BY <1>11 DEF LoadStock
  <2>2. PICK p \in Products, n \in {level[s]} \cup Levels :
           req' = [req EXCEPT ![w] = NewStockEdit(s, p, n)]
    BY <2>1
  <2>3. Claim(NewStockEdit(s, p, n)) = 0
    BY DEF Claim, NewStockEdit
  <2> QED
    BY <1>11, <1>a, <2>2, <2>3 DEF LoadStock, stockVars, itemVars
<1>12. ASSUME NEW w \in Workers, Kill(w) PROVE PotentialBounded' /\ SomeClaimFits'
  BY <1>12, <1>a DEF Kill, stockVars, itemVars
<1> QED
  BY <1>0, <1>1, <1>2, <1>3, <1>4, <1>5, <1>6, <1>7, <1>8, <1>9, <1>10, <1>11, <1>12
  DEF Next, CreateRequest, UpdateRequest, StockRequest

-----------------------------------------------------------------------------
\* IInv is an invariant, when clients send no negative quantity and never move
\* an item.
LEMMA InvariantHolds ==
    ASSUME Quantities \subseteq Nat, Reassign = {}
    PROVE  Spec => []IInv
<1>1. Init => IInv
  <2>1. Init => TypeOK
    BY PoolsAssumption, NumbersAssumption DEF Init, TypeOK, Idle, Requests
  <2> QED
    BY <2>1, InvariantInit DEF IInv
<1>2. TypeOK /\ TypeOK' /\ IInv /\ [Next]_vars => IInv'
  BY ConsistentStep, PotentialStep DEF IInv
<1>3. Spec => []TypeOK
  BY TypeCorrect
<1> QED
  BY <1>1, <1>2, <1>3, PTL DEF Spec

(* Requests agree with the tables they read, however old what they read is. *)
THEOREM RequestsStayConsistent ==
    ASSUME Quantities \subseteq Nat, Reassign = {}
    PROVE  Spec => []RequestsConsistent
<1>1. IInv => RequestsConsistent
  BY DEF IInv
<1> QED
  BY <1>1, InvariantHolds, PTL

(* The units sold and those that requests may still write are bounded, for  *)
(* any number of workers.                                                   *)
THEOREM PotentialIsBounded ==
    ASSUME Quantities \subseteq Nat, Reassign = {}
    PROVE  Spec => []PotentialBounded
<1>1. IInv => PotentialBounded
  BY DEF IInv
<1> QED
  BY <1>1, InvariantHolds, PTL

(* Among requests that all hold units of one stock, one fits under its peak. *)
THEOREM SomeClaimAlwaysFits ==
    ASSUME Quantities \subseteq Nat, Reassign = {}
    PROVE  Spec => []SomeClaimFits
<1>1. IInv => SomeClaimFits
  BY DEF IInv
<1> QED
  BY <1>1, InvariantHolds, PTL

(* When clients send no negative quantity and never move an item, a stock   *)
(* is oversold by at most one client quantity for every worker but one, for *)
(* any number of workers.                                                   *)
THEOREM OversellIsBounded ==
    ASSUME Quantities \subseteq Nat, Reassign = {}
    PROVE  Spec => []OversellBounded
<1>1. IInv => OversellBounded
  <2> SUFFICES ASSUME IInv, NEW s \in StockIds
               PROVE  Ordered(s) <= peak[s] + (Cardinality(Workers) - 1) * MaxQuantity
    BY DEF OversellBounded
  <2>1. Ordered(s) = Cardinality(Sold(s))
    BY OrderedIsSold DEF IInv
  <2>2. Sold(s) \subseteq Potential(s) /\ Potential(s) \in SUBSET Units
    BY DEF Potential, Sold, Held
  <2>3. /\ Cardinality(Sold(s)) \in Nat /\ Cardinality(Potential(s)) \in Nat
        /\ Cardinality(Sold(s)) <= Cardinality(Potential(s))
    BY <2>2, SoldTyped, UnitSets
  <2>4. Cardinality(Potential(s)) <= peak[s] + (Cardinality(Workers) - 1) * MaxQuantity
    BY DEF IInv, PotentialBounded
  <2>5. peak[s] \in Nat /\ (Cardinality(Workers) - 1) * MaxQuantity \in Nat
    BY AllowanceTyped DEF IInv, TypeOK
  <2> QED
    BY <2>1, <2>3, <2>4, <2>5
<1> QED
  BY <1>1, InvariantHolds, PTL

(* With a single worker no stock is ever oversold, as long as no client     *)
(* orders a negative quantity and no item is moved to another stock.  The   *)
(* serializers refuse neither, and either is enough to oversell alone.      *)
COROLLARY SerialNeverOversells ==
    ASSUME Quantities \subseteq Nat, Reassign = {}, Cardinality(Workers) = 1
    PROVE  Spec => []NoOversell
<1>1. TypeOK /\ OversellBounded => NoOversell
  <2>1. (Cardinality(Workers) - 1) * MaxQuantity = 0
    BY NumbersAssumption
  <2> QED
    BY <2>1 DEF OversellBounded, NoOversell, TypeOK
<1> QED
  BY <1>1, TypeCorrect, OversellIsBounded, PTL
-----------------------------------------------------------------------------
(* With a single worker what a check has compared is still so when the row *)
(* is written.                                                             *)

\* What the check of w's request left to be written.
Granted(r) ==
    /\ r.pc \in {"checkCreate", "checkUpdate"} => r.level = level[r.stock]
    /\ r.pc = "insert" => r.want <= Remaining(r.stock)
    /\ r.pc \in {"fetch", "checkUpdate", "saveItem"} => r.item \in items /\ r.qty = qty[r.item]
    /\ r.pc = "saveItem" => r.want <= r.qty \/ r.want <= Remaining(r.stock) + r.qty

ChecksStand == \A w \in Workers : Granted(req[w])

\* As long as items do not change, neither does what is ordered.
LEMMA OrderedKept ==
    ASSUME UNCHANGED <<items, at, qty>>
    PROVE  \A s : Ordered(s)' = Ordered(s)
BY DEF Ordered, Sold, Credited

\* OrderedIsSold, after a step.
LEMMA OrderedIsSoldNext ==
    ASSUME TypeOK', RequestsConsistent', NEW s
    PROVE  Ordered(s)' = Cardinality(Sold(s)') /\ Cardinality(Sold(s)') \in Nat
<1>1. Credited(s)' = {}
  BY NumbersAssumption DEF Credited, Units, RequestsConsistent, TablesConsistent, TypeOK
<1>2. Cardinality(Credited(s)') = 0
  BY <1>1, FS_EmptySet
<1>3. Sold(s)' \in SUBSET Units
  BY DEF Sold
<1>4. Cardinality(Sold(s)') \in Nat
  BY <1>3, UnitSets
<1> QED
  BY <1>2, <1>4 DEF Ordered

\* What a stock has left is a number.
LEMMA RemainingTyped ==
    ASSUME TypeOK, RequestsConsistent, NEW s \in StockIds
    PROVE  /\ Remaining(s) = level[s] - Cardinality(Sold(s))
           /\ Remaining(s) \in Int /\ level[s] \in Int /\ Cardinality(Sold(s)) \in Nat
BY OrderedIsSold, SoldTyped DEF Remaining, RemainingOf, TypeOK

\* A stock that has not sold more has not less left.
LEMMA LessSold ==
    ASSUME TypeOK, TypeOK', RequestsConsistent, RequestsConsistent', NEW s \in StockIds,
           Sold(s)' \subseteq Sold(s), level'[s] = level[s]
    PROVE  Remaining(s) <= Remaining(s)'
<1>1. Sold(s) \in SUBSET Units
  BY DEF Sold
<1>2. Cardinality(Sold(s)') <= Cardinality(Sold(s))
  BY <1>1, UnitSets
<1>3. Remaining(s)' = level[s] - Cardinality(Sold(s)') /\ Cardinality(Sold(s)') \in Nat
  BY OrderedIsSoldNext DEF Remaining, RemainingOf
<1> QED
  BY <1>2, <1>3, RemainingTyped

\* An item written within what its check left overdraws no stock.
LEMMA WithinGrant ==
    ASSUME TypeOK, TypeOK', RequestsConsistent, RequestsConsistent', ChecksStand,
           NEW w \in Workers, req[w].pc \in {"insert", "saveItem"}, WriteItem(req[w]),
           UNCHANGED stockVars, NEW s \in StockIds, Remaining(s) >= 0
    PROVE  Remaining(s)' >= 0
<1> DEFINE i == req[w].item
           n == req[w].want
           old == IF req[w].pc = "insert" THEN 0 ELSE req[w].qty
           G == {u \in Units : u[1] = i /\ u[2] <= n}
<1>1. /\ i \in ItemIds /\ req[w].stock \in StockIds /\ req[w].target = req[w].stock
      /\ n \in 0 .. MaxQuantity /\ old \in 0 .. MaxQuantity
      /\ n <= old \/ n <= Remaining(req[w].stock) + old
  <2>1. /\ req[w] \in Requests /\ i \in ItemIds
        /\ RequestConsistent(w) /\ Granted(req[w])
    BY DEF TypeOK, RequestsConsistent, ChecksStand
  <2>2. /\ n \in -MaxQuantity .. MaxQuantity /\ req[w].qty \in -MaxQuantity .. MaxQuantity
        /\ n >= 0 /\ req[w].qty >= 0
        /\ req[w].stock \in StockIds /\ req[w].target = req[w].stock
    BY <2>1 DEF Requests, RequestConsistent
  <2>3. CASE req[w].pc = "insert"
    <3>1. n <= Remaining(req[w].stock) /\ old = 0
      BY <2>1, <2>3 DEF Granted
    <3> QED
      BY <2>1, <2>2, <3>1, RemainingTyped, NumbersAssumption
  <2>4. CASE req[w].pc = "saveItem"
    <3>1. old = req[w].qty /\ (n <= req[w].qty \/ n <= Remaining(req[w].stock) + req[w].qty)
      BY <2>1, <2>4 DEF Granted
    <3> QED
      BY <2>1, <2>2, <3>1, NumbersAssumption
  <2> QED
    BY <2>3, <2>4
<1>2. i \in items => at[i] = req[w].stock /\ old = qty[i] /\ req[w].pc = "saveItem"
  BY DEF RequestsConsistent, RequestConsistent, ChecksStand, Granted
<1>3. /\ items' = items \cup {i} /\ level' = level
      /\ \A j \in ItemIds \ {i} : at'[j] = at[j] /\ qty'[j] = qty[j]
      /\ at'[i] = req[w].stock /\ qty'[i] = n
  BY <1>1 DEF WriteItem, TypeOK, stockVars
<1>4. ASSUME NEW u \in Sold(s)'
      PROVE  u \in Sold(s) \/ (s = req[w].stock /\ u \in G)
  <2>1. u \in Units /\ u[1] \in items' /\ at'[u[1]] = s /\ u[2] <= qty'[u[1]] /\ u[1] \in ItemIds
    BY <1>4 DEF Sold, Units
  <2>2. CASE u[1] = i
    BY <1>3, <2>1, <2>2
  <2>3. CASE u[1] # i
    BY <1>3, <2>1, <2>3 DEF Sold
  <2> QED
    BY <2>2, <2>3
<1>5. CASE s # req[w].stock
  <2>1. Sold(s)' \subseteq Sold(s)
    BY <1>4, <1>5
  <2> QED
    BY <1>3, <2>1, LessSold, RemainingTyped, OrderedIsSoldNext DEF Remaining, RemainingOf
<1>6. CASE s = req[w].stock
  <2>1. \A u \in Units : u[1] = i /\ u[2] <= old => u \in Sold(s)
    <3>1. CASE req[w].pc = "insert"
      BY <3>1 DEF Units
    <3>2. CASE req[w].pc = "saveItem"
      <4>1. i \in items
        BY <3>2 DEF ChecksStand, Granted
      <4> QED
        BY <1>2, <1>6, <4>1 DEF Sold
    <3> QED
      BY <3>1, <3>2
  <2>2. CASE n <= old
    <3>1. \A u \in G : u \in Sold(s)
      BY <1>1, <2>1, <2>2, NumbersAssumption DEF Units
    <3>2. Sold(s)' \subseteq Sold(s)
      BY <1>4, <3>1
    <3> QED
      BY <1>3, <3>2, LessSold, RemainingTyped, OrderedIsSoldNext DEF Remaining, RemainingOf
  <2>3. CASE old < n
    <3>1. Cardinality(Sold(s) \cup G) <= Cardinality(Sold(s)) + (n - old)
      BY <1>1, <2>1, <2>3, GrantSize
    <3>2. Sold(s)' \subseteq Sold(s) \cup G /\ Sold(s) \cup G \in SUBSET Units
      BY <1>4 DEF Sold
    <3>3. Cardinality(Sold(s)') <= Cardinality(Sold(s) \cup G) /\ Cardinality(Sold(s) \cup G) \in Nat
      BY <3>2, UnitSets
    <3>4. n - old <= Remaining(s)
      BY <1>1, <1>6, <2>3, RemainingTyped, NumbersAssumption
    <3>5. Remaining(s)' = level[s] - Cardinality(Sold(s)') /\ Cardinality(Sold(s)') \in Nat
      BY <1>3, OrderedIsSoldNext DEF Remaining, RemainingOf
    <3>6. n \in Int /\ old \in Int
      BY <1>1, NumbersAssumption
    <3> HIDE DEF n, old, G
    <3> QED
      BY <3>1, <3>3, <3>4, <3>5, <3>6, RemainingTyped
  <2> QED
    BY <1>1, <2>2, <2>3, NumbersAssumption
<1> QED
  BY <1>5, <1>6

\* A step overdraws a stock only by lowering its quantity.
LEMMA OverdraftStep ==
    ASSUME TypeOK, TypeOK', RequestsConsistent, RequestsConsistent', ChecksStand, [Next]_vars,
           NEW s \in StockIds, Remaining(s) >= 0, Remaining(s)' < 0
    PROVE  level'[s] < level[s]
<1>1. CASE UNCHANGED <<items, at, qty>>
  <2>1. Ordered(s)' = Ordered(s)
    BY <1>1, OrderedKept
  <2>2. level'[s] \in Int /\ level[s] \in Int /\ Ordered(s) \in Int
    BY OrderedIsSold, SoldTyped DEF TypeOK
  <2> QED
    BY <2>1, <2>2 DEF Remaining, RemainingOf
<1>2. CASE items' \subseteq items /\ UNCHANGED <<at, qty, level>>
  <2>1. Sold(s)' \subseteq Sold(s)
    BY <1>2 DEF Sold
  <2>2. Remaining(s) <= Remaining(s)' /\ Remaining(s) \in Int
    BY <1>2, <2>1, LessSold, RemainingTyped
  <2>3. Remaining(s)' \in Int
    BY OrderedIsSoldNext DEF Remaining, RemainingOf, TypeOK
  <2> QED
    BY <2>2, <2>3
<1>3. ASSUME NEW w \in Workers, req[w].pc \in {"insert", "saveItem"}, WriteItem(req[w]),
             UNCHANGED stockVars
      PROVE  FALSE
  <2>1. Remaining(s)' >= 0
    BY <1>3, WithinGrant
  <2>2. Remaining(s)' \in Int
    BY OrderedIsSoldNext DEF Remaining, RemainingOf, TypeOK
  <2> QED
    BY <2>1, <2>2
<1>4. CASE Next
  <2>1. PICK w \in Workers :
          \/ CreateRequest(w) \/ UpdateRequest(w) \/ DeleteItem(w) \/ SaveOrder(w)
          \/ DeleteOrder(w) \/ StockRequest(w) \/ Kill(w)
    BY <1>4 DEF Next
  <2>2. CASE InsertItem(w) \/ SaveItem(w)
    BY <1>1, <1>3, <2>2 DEF InsertItem, SaveItem
  <2>3. CASE DeleteItem(w) \/ DeleteOrder(w) \/ DeleteStock(w)
    BY <1>2, <2>3 DEF DeleteItem, DeleteOrder, DeleteStock, stockVars
  <2>4. CASE PickStock(w) \/ ValidateCreate(w) \/ CheckCreate(w) \/ LoadItem(w)
               \/ FetchStock(w) \/ CheckUpdate(w) \/ SaveOrder(w) \/ CreateStock(w)
               \/ LoadStock(w) \/ SaveStock(w) \/ Kill(w)
    BY <1>1, <2>4
    DEF PickStock, ValidateCreate, CheckCreate, LoadItem, FetchStock, CheckUpdate,
        SaveOrder, CreateStock, LoadStock, SaveStock, Kill, itemVars
  <2> QED
    BY <2>1, <2>2, <2>3, <2>4 DEF CreateRequest, UpdateRequest, StockRequest
<1> QED
  BY <1>1, <1>4 DEF vars, itemVars

\* What the only worker has checked stands until it is written.
LEMMA ChecksStep ==
    ASSUME Quantities \subseteq Nat, Reassign = {}, NEW w, Workers = {w},
           TypeOK, TypeOK', RequestsConsistent, ChecksStand, [Next]_vars
    PROVE  ChecksStand'
<1> SUFFICES Granted(req[w])'
  BY DEF ChecksStand
<1>0. req[w] \in Requests /\ Granted(req[w]) /\ RequestConsistent(w)
  BY DEF TypeOK, ChecksStand, RequestsConsistent
<1>1. ASSUME req'[w].pc \in {"idle", "validate", "saveStock"} PROVE Granted(req[w])'
  BY <1>1 DEF Granted
<1>2. CASE UNCHANGED vars
  <2>1. \A s : Remaining(s)' = Remaining(s)
    BY <1>2, OrderedKept DEF vars, stockVars, itemVars, Remaining, RemainingOf
  <2> QED
    BY <1>0, <1>2, <2>1 DEF Granted, vars, stockVars, itemVars
<1>3. CASE Reply(w) \/ (Free(w) /\ UNCHANGED req)
  BY <1>1, <1>3 DEF Reply, Idle, Free, TypeOK
<1>4. CASE PickStock(w)
  <2>1. PICK p \in Products, s \in stocks, o \in orders, q \in Quantities :
           req' = [req EXCEPT ![w] = NewCreate(p, s, o, q)]
    BY <1>4 DEF PickStock
  <2>2. req'[w].pc = "validate"
    BY <2>1 DEF NewCreate, TypeOK
  <2> QED
    BY <1>1, <2>2
<1>5. CASE LoadStock(w)
  <2>1. PICK s \in stocks : \E p \in Products, n \in {level[s]} \cup Levels :
           req' = [req EXCEPT ![w] = NewStockEdit(s, p, n)]
    BY <1>5 DEF LoadStock
  <2>2. req'[w].pc = "saveStock"
    BY <2>1 DEF NewStockEdit, TypeOK
  <2> QED
    BY <1>1, <2>2
<1>6. CASE ValidateCreate(w) /\ ~Reply(w)
  <2>1. /\ req' = [req EXCEPT ![w].pc = "checkCreate", ![w].level = level[req[w].target]]
        /\ UNCHANGED level /\ req[w].target = req[w].stock
    BY <1>0, <1>6 DEF ValidateCreate, RequestConsistent, stockVars
  <2>2. /\ req'[w].pc = "checkCreate" /\ req'[w].level = level[req[w].stock]
        /\ req'[w].stock = req[w].stock
    BY <1>0, <2>1 DEF TypeOK, Requests
  <2> QED
    BY <2>1, <2>2 DEF Granted
<1>7. CASE CheckCreate(w) /\ ~Reply(w)
  <2>1. PICK i \in freshItems : req' = [req EXCEPT ![w].pc = "insert", ![w].item = i]
    BY <1>7 DEF CheckCreate
  <2>2. /\ req'[w].pc = "insert" /\ req'[w].want = req[w].want
        /\ req'[w].stock = req[w].stock
    BY <1>0, <2>1 DEF TypeOK, Requests
  <2>3. /\ ~(req[w].want > Remaining(req[w].stock)) /\ req[w].stock \in StockIds
        /\ UNCHANGED <<stockVars, items, at, qty>>
    BY <1>0, <1>7
    DEF CheckCreate, CreateExceeds, Remaining, Granted, RequestConsistent
  <2>4. Remaining(req[w].stock)' = RemainingOf(level[req'[w].stock], req'[w].stock)
    BY <2>3, OrderedKept DEF Remaining, RemainingOf, stockVars
  <2>5. Remaining(req[w].stock)' = Remaining(req[w].stock)
    BY <2>2, <2>4 DEF Remaining
  <2>6. req[w].want \in Int /\ Remaining(req[w].stock) \in Int
    BY <1>0, <2>3, RemainingTyped, NumbersAssumption DEF Requests
  <2> QED
    BY <2>2, <2>3, <2>5, <2>6 DEF Granted
<1>8. CASE LoadItem(w)
  <2>1. PICK i \in items, o \in orders, q \in Quantities \cup {None} :
           req' = [req EXCEPT ![w] = NewUpdate(i, at[i], o, q)]
    BY <1>8 DEF LoadItem
  <2>2. /\ i \in ItemIds /\ at[i] \in StockIds /\ o \in Orders
        /\ req'[w] = NewUpdate(i, at[i], o, q) /\ UNCHANGED <<items, qty>> /\ qty[i] \in Nat
    BY <1>8, <2>1, NumbersAssumption
    DEF LoadItem, TypeOK, RequestsConsistent, TablesConsistent, itemVars
  <2>3. /\ req'[w].pc \in {"saveItem", "fetch"} /\ req'[w].item = i /\ req'[w].qty = qty[i]
        /\ req'[w].pc = "saveItem" => req'[w].want \in {qty[i], 0}
    BY <2>2, NewUpdateTyped
  <2> QED
    BY <2>2, <2>3 DEF Granted
<1>9. CASE FetchStock(w) /\ ~Reply(w)
  <2>1. /\ req' = [req EXCEPT ![w].pc = "checkUpdate", ![w].level = level[req[w].stock]]
        /\ UNCHANGED <<level, items, qty>> /\ req[w].pc = "fetch"
    BY <1>9 DEF FetchStock, stockVars, itemVars
  <2>2. /\ req'[w].pc = "checkUpdate" /\ req'[w].level = level[req[w].stock]
        /\ req'[w].stock = req[w].stock /\ req'[w].item = req[w].item /\ req'[w].qty = req[w].qty
    BY <1>0, <2>1 DEF TypeOK, Requests
  <2> QED
    BY <1>0, <2>1, <2>2 DEF Granted
<1>10. CASE CheckUpdate(w) /\ ~Reply(w)
  <2>1. /\ req' = [req EXCEPT ![w].pc = "saveItem"] /\ ~UpdateExceeds(req[w])
        /\ UNCHANGED <<stockVars, itemVars>> /\ req[w].pc = "checkUpdate"
    BY <1>10 DEF CheckUpdate
  <2>2. /\ req'[w].pc = "saveItem" /\ req'[w].want = req[w].want
        /\ req'[w].stock = req[w].stock /\ req'[w].item = req[w].item /\ req'[w].qty = req[w].qty
    BY <1>0, <2>1 DEF TypeOK, Requests
  <2>3. ~(req[w].want > Remaining(req[w].stock) + req[w].qty) /\ req[w].stock \in StockIds
    BY <1>0, <2>1 DEF UpdateExceeds, Remaining, Granted, RequestConsistent
  <2>4. Remaining(req[w].stock)' = Remaining(req[w].stock)
    BY <2>1, <2>2, OrderedKept DEF Remaining, RemainingOf, stockVars, itemVars
  <2>5. req[w].want \in Int /\ req[w].qty \in Int /\ Remaining(req[w].stock) \in Int
    BY <1>0, <2>3, RemainingTyped, NumbersAssumption DEF Requests
  <2> QED
    BY <1>0, <2>1, <2>2, <2>3, <2>4, <2>5 DEF Granted, itemVars
<1>11. CASE Next
  <2>1. \/ CreateRequest(w) \/ UpdateRequest(w) \/ DeleteItem(w) \/ SaveOrder(w)
        \/ DeleteOrder(w) \/ StockRequest(w) \/ Kill(w)
    BY <1>11 DEF Next
  <2>2. CASE InsertItem(w) \/ SaveItem(w) \/ SaveStock(w) \/ Kill(w)
    BY <1>3, <2>2 DEF InsertItem, SaveItem, SaveStock, Kill
  <2>3. CASE DeleteItem(w) \/ SaveOrder(w) \/ DeleteOrder(w) \/ CreateStock(w) \/ DeleteStock(w)
    BY <1>3, <2>3 DEF DeleteItem, SaveOrder, DeleteOrder, CreateStock, DeleteStock
  <2> QED
    BY <1>3, <1>4, <1>5, <1>6, <1>7, <1>8, <1>9, <1>10, <2>1, <2>2, <2>3
    DEF CreateRequest, UpdateRequest, StockRequest
<1> QED
  BY <1>2, <1>11

(* With a single worker, a stock goes from covered to overdrawn only when   *)
(* an admin lowers its quantity: as long as no client orders a negative     *)
(* quantity and no item PUT names another stock.  The serializers refuse    *)
(* neither, and an item PUT of either kind overdraws a stock by itself.     *)
THEOREM OnlyAdminsOverdraw ==
    ASSUME Quantities \subseteq Nat, Reassign = {}, Cardinality(Workers) = 1
    PROVE  Spec => OverdrawnOnlyByAdmin
<1>1. PICK w : Workers = {w}
  BY PoolsAssumption, FS_Singleton
<1>2. Init => ChecksStand
  BY DEF Init, ChecksStand, Granted, Idle
<1>3. /\ TypeOK /\ TypeOK' /\ RequestsConsistent /\ RequestsConsistent' /\ ChecksStand
      /\ [Next]_vars
      => /\ ChecksStand'
         /\ [\A s \in StockIds :
                Remaining(s) >= 0 /\ Remaining(s)' < 0 => level'[s] < level[s]]_vars
  BY <1>1, ChecksStep, OverdraftStep
<1> QED
  BY <1>2, <1>3, TypeCorrect, RequestsStayConsistent, PTL DEF Spec, OverdrawnOnlyByAdmin
=============================================================================
