--------------------------- MODULE AdmissionProofs ---------------------------
(***************************************************************************)
(* A group exceeds its limit by one less than there are workers, at most.  *)
(*                                                                         *)
(* What is stored may not be counted alone: when a worker writes, others   *)
(* may have been admitted since it counted.  The set of keys that are      *)
(* stored or about to be is the invariant.  It grows only when a key is    *)
(* admitted, and then what is stored is below the limit while what is      *)
(* pending is at most one key for each worker.                             *)
(***************************************************************************)
EXTENDS Admission, FiniteSetTheorems, TLAPS

\* The constants: finite sets of workers and keys, and numbers.
Constants ==
    /\ IsFiniteSet(Workers) /\ Workers # {} /\ IsFiniteSet(Keys)
    /\ Limit \in [Groups -> Nat]
    /\ None \notin Memberships

N == Cardinality(Workers)

\* The two variables keep their types.
TypeOK ==
    /\ present \subseteq Memberships
    /\ held \in [Workers -> Memberships \cup {None}]

\* The inductive invariant.
IInv == TypeOK /\ BoundedWithPending

-----------------------------------------------------------------------------
\* Keys of a group are finite in number, and fewer memberships have fewer keys.
LEMMA KeysMonotone ==
    ASSUME Constants, NEW g, NEW M, NEW L \in SUBSET M
    PROVE  /\ IsFiniteSet(KeysOf(g, M))
           /\ Cardinality(KeysOf(g, L)) \in Nat
           /\ Cardinality(KeysOf(g, M)) \in Nat
           /\ Cardinality(KeysOf(g, L)) <= Cardinality(KeysOf(g, M))
<1>1. KeysOf(g, M) \in SUBSET Keys /\ KeysOf(g, L) \in SUBSET KeysOf(g, M)
  BY DEF KeysOf
<1>2. IsFiniteSet(KeysOf(g, M))
  BY <1>1, FS_Subset DEF Constants
<1>3. IsFiniteSet(KeysOf(g, L)) /\ Cardinality(KeysOf(g, L)) <= Cardinality(KeysOf(g, M))
  BY <1>1, <1>2, FS_Subset
<1> QED
  BY <1>2, <1>3, FS_CardinalityType

\* What the workers hold has at most one key of a group for each worker.
LEMMA HeldKeysAreFew ==
    ASSUME Constants, NEW h, NEW g
    PROVE  LET M == {h[w] : w \in Workers} \cap Memberships
           IN  /\ IsFiniteSet(KeysOf(g, M))
               /\ Cardinality(KeysOf(g, M)) \in Nat
               /\ Cardinality(KeysOf(g, M)) <= N
<1> DEFINE image == {h[w] : w \in Workers}
           M == image \cap Memberships
           f == [w \in Workers |-> h[w]]
           j == [k \in KeysOf(g, M) |-> <<g, k>>]
<1>1. f \in Surjection(Workers, image)
  BY DEF Surjection
<1>2. IsFiniteSet(image) /\ Cardinality(image) <= Cardinality(Workers)
  BY <1>1, FS_Surjection, Zenon DEF Constants
<1>3. j \in Injection(KeysOf(g, M), image)
  <2>1. \A k \in KeysOf(g, M) : <<g, k>> \in image
    BY DEF KeysOf
  <2>2. j \in [KeysOf(g, M) -> image]
    BY <2>1
  <2>3. ASSUME NEW k \in KeysOf(g, M), NEW l \in KeysOf(g, M), j[k] = j[l]
        PROVE  k = l
    <3>1. <<g, k>> = <<g, l>>
      BY <2>3
    <3> QED
      BY <3>1
  <2> HIDE DEF j, image, M
  <2> QED
    BY <2>2, <2>3 DEF Injection, IsInjective
<1>4. IsFiniteSet(KeysOf(g, M)) /\ Cardinality(KeysOf(g, M)) <= Cardinality(image)
  <2> HIDE DEF j, image, M
  <2> QED
    BY <1>2, <1>3, FS_Injection
<1>5. Cardinality(KeysOf(g, M)) \in Nat /\ Cardinality(image) \in Nat
      /\ Cardinality(Workers) \in Nat
  BY <1>2, <1>4, FS_CardinalityType DEF Constants
<1> QED
  BY <1>2, <1>4, <1>5 DEF N

-----------------------------------------------------------------------------
\* A step that adds nothing to what is stored or pending keeps the bound.
LEMMA NothingNew ==
    ASSUME Constants, BoundedWithPending,
           present' \cup Pending' \subseteq present \cup Pending
    PROVE  BoundedWithPending'
<1>1. ASSUME NEW g \in Groups
      PROVE  Cardinality(KeysOf(g, present' \cup Pending')) <= Limit[g] + Cardinality(Workers) - 1
  <2>1. /\ Cardinality(KeysOf(g, present' \cup Pending')) \in Nat
        /\ Cardinality(KeysOf(g, present \cup Pending)) \in Nat
        /\ Cardinality(KeysOf(g, present' \cup Pending'))
              <= Cardinality(KeysOf(g, present \cup Pending))
    BY KeysMonotone, Zenon
  <2>2. Cardinality(KeysOf(g, present \cup Pending)) <= Limit[g] + Cardinality(Workers) - 1
    BY DEF BoundedWithPending
  <2>3. Limit[g] \in Nat /\ Cardinality(Workers) \in Nat
    BY FS_CardinalityType DEF Constants
  <2> QED
    BY <2>1, <2>2, <2>3
<1> QED
  BY <1>1 DEF BoundedWithPending, KeysOf

LEMMA TypeStep ==
    ASSUME Constants, TypeOK, [Next]_vars
    PROVE  TypeOK'
<1>1. CASE Leave
  BY <1>1 DEF TypeOK, Leave
<1>2. ASSUME NEW w \in Workers, Remember(w) PROVE TypeOK'
  BY <1>2 DEF TypeOK, Remember
<1>3. ASSUME NEW w \in Workers, Admit(w) PROVE TypeOK'
  BY <1>3 DEF TypeOK, Admit, Memberships
<1>4. ASSUME NEW w \in Workers, Settle(w) PROVE TypeOK'
  BY <1>4 DEF TypeOK, Settle
<1>5. CASE UNCHANGED vars
  BY <1>5 DEF TypeOK, vars
<1> QED
  BY <1>1, <1>2, <1>3, <1>4, <1>5 DEF Next

\* An admission: the group was not full, and what is pending is small.
LEMMA AdmitKeepsBound ==
    ASSUME Constants, TypeOK, BoundedWithPending, NEW w \in Workers, Admit(w)
    PROVE  BoundedWithPending'
<1> PICK g0 \in Groups, k0 \in Keys :
       /\ Cardinality(KeysOf(g0, present) \ {k0}) < Limit[g0]
       /\ held' = [held EXCEPT ![w] = <<g0, k0>>]
  BY DEF Admit
<1>1. present' = present
  BY DEF Admit
<1>2. Pending' \subseteq Pending \cup {<<g0, k0>>}
  BY DEF Pending, TypeOK
<1>3. <<g0, k0>> \in Pending'
  BY DEF Pending, TypeOK, Memberships
<1>4. ASSUME NEW g \in Groups
      PROVE  Cardinality(KeysOf(g, present' \cup Pending')) <= Limit[g] + Cardinality(Workers) - 1
  <2>0. Limit[g] \in Nat /\ Cardinality(Workers) \in Nat
    BY FS_CardinalityType DEF Constants
  <2>1. CASE g # g0
    <3>1. KeysOf(g, present' \cup Pending') = KeysOf(g, (present' \cup Pending') \ {<<g0, k0>>})
      BY <2>1 DEF KeysOf
    <3>2. (present' \cup Pending') \ {<<g0, k0>>} \subseteq present \cup Pending
      BY <1>1, <1>2
    <3>3. /\ Cardinality(KeysOf(g, present' \cup Pending'))
                <= Cardinality(KeysOf(g, present \cup Pending))
          /\ Cardinality(KeysOf(g, present' \cup Pending')) \in Nat
          /\ Cardinality(KeysOf(g, present \cup Pending)) \in Nat
      BY <3>1, <3>2, KeysMonotone, Zenon
    <3>4. Cardinality(KeysOf(g, present \cup Pending)) <= Limit[g] + Cardinality(Workers) - 1
      BY DEF BoundedWithPending
    <3> QED
      BY <2>0, <3>3, <3>4
  <2>2. CASE g = g0
    <3> DEFINE S == KeysOf(g, present) \ {k0}
               P == KeysOf(g, Pending')
    <3>1. KeysOf(g, present' \cup Pending') = S \cup P
      BY <1>1, <1>3, <2>2 DEF KeysOf
    <3>2. IsFiniteSet(S) /\ Cardinality(S) \in Nat /\ Cardinality(S) < Limit[g]
      <4>1. IsFiniteSet(KeysOf(g, present))
        BY KeysMonotone
      <4>2. IsFiniteSet(S)
        BY <4>1, FS_RemoveElement
      <4> QED
        BY <2>2, <4>2, FS_CardinalityType
    <3>3. IsFiniteSet(P) /\ Cardinality(P) \in Nat /\ Cardinality(P) <= Cardinality(Workers)
      BY HeldKeysAreFew DEF Pending, N
    <3>4. /\ Cardinality(S \cup P) = Cardinality(S) + Cardinality(P) - Cardinality(S \cap P)
          /\ Cardinality(S \cap P) \in Nat
      <4>1. IsFiniteSet(S \cap P)
        BY <3>2, FS_Subset
      <4> QED
        BY <3>2, <3>3, <4>1, FS_Union, FS_CardinalityType
    <3>5. Cardinality(S \cup P) <= Limit[g] + Cardinality(Workers) - 1
      <4> HIDE DEF S, P
      <4> QED  BY <2>0, <3>2, <3>3, <3>4
    <3> QED
      BY <3>1, <3>5
  <2> QED
    BY <2>1, <2>2
<1> QED
  BY <1>4 DEF BoundedWithPending, KeysOf

LEMMA BoundStep ==
    ASSUME Constants, TypeOK, BoundedWithPending, [Next]_vars
    PROVE  BoundedWithPending'
<1>1. CASE Leave
  BY <1>1, NothingNew DEF Leave, Pending
<1>2. ASSUME NEW w \in Workers, Remember(w) PROVE BoundedWithPending'
  <2>1. PICK m \in present : held' = [held EXCEPT ![w] = m] /\ present' = present
    BY <1>2 DEF Remember
  <2>2. Pending' \subseteq Pending \cup present
    BY <2>1 DEF Pending, TypeOK
  <2> QED
    BY <2>1, <2>2, NothingNew
<1>3. ASSUME NEW w \in Workers, Admit(w) PROVE BoundedWithPending'
  BY <1>3, AdmitKeepsBound
<1>4. ASSUME NEW w \in Workers, Settle(w) PROVE BoundedWithPending'
  <2>1. Pending' \subseteq Pending
    BY <1>4 DEF Settle, Pending, TypeOK, Constants
  <2>2. present' \subseteq present \cup Pending
    BY <1>4 DEF Settle, Pending
  <2> QED
    BY <2>1, <2>2, NothingNew
<1>5. CASE UNCHANGED vars
  BY <1>5, NothingNew DEF vars, Pending
<1> QED
  BY <1>1, <1>2, <1>3, <1>4, <1>5 DEF Next

\* Nothing is stored and nothing pending at first.
LEMMA Initially ==
    ASSUME Constants, Init
    PROVE  IInv
<1>1. TypeOK
  BY DEF Init, TypeOK
<1>2. present \cup Pending = {}
  BY DEF Init, Pending, Constants
<1>3. \A g \in Groups : KeysOf(g, present \cup Pending) = {}
  BY <1>2 DEF KeysOf
<1>4. Cardinality(Workers) \in Nat \ {0}
  BY FS_CardinalityType, FS_EmptySet DEF Constants
<1>5. BoundedWithPending
  <2>1. ASSUME NEW g \in Groups
        PROVE  Cardinality(KeysOf(g, present \cup Pending)) <= Limit[g] + Cardinality(Workers) - 1
    <3>1. Cardinality(KeysOf(g, present \cup Pending)) = 0
      BY <1>3, FS_EmptySet
    <3>2. Limit[g] \in Nat
      BY DEF Constants
    <3> QED
      BY <1>4, <3>1, <3>2
  <2> QED
    BY <2>1 DEF BoundedWithPending
<1> QED
  BY <1>1, <1>5 DEF IInv

\* The inductive form implies the bound on what is stored.
LEMMA BoundFollows ==
    ASSUME Constants, IInv
    PROVE  Bounded
<1>1. ASSUME NEW g \in Groups
      PROVE  Cardinality(KeysOf(g, present)) <= Limit[g] + Cardinality(Workers) - 1
  <2>1. /\ Cardinality(KeysOf(g, present)) \in Nat
        /\ Cardinality(KeysOf(g, present \cup Pending)) \in Nat
        /\ Cardinality(KeysOf(g, present)) <= Cardinality(KeysOf(g, present \cup Pending))
    BY KeysMonotone
  <2>2. Cardinality(KeysOf(g, present \cup Pending)) <= Limit[g] + Cardinality(Workers) - 1
    BY DEF IInv, BoundedWithPending
  <2>3. Limit[g] \in Nat /\ Cardinality(Workers) \in Nat
    BY FS_CardinalityType DEF Constants
  <2> QED
    BY <2>1, <2>2, <2>3
<1> QED
  BY <1>1 DEF Bounded

(* However many workers count and write at once, a group has at most its    *)
(* limit and one key more for each worker but one.                          *)
THEOREM AdmissionIsBounded ==
    ASSUME Constants
    PROVE  Spec => []Bounded
<1>1. Init => IInv
  BY Initially
<1>2. IInv /\ [Next]_vars => IInv'
  BY TypeStep, BoundStep DEF IInv
<1>3. IInv => Bounded
  BY BoundFollows
<1> QED
  BY <1>1, <1>2, <1>3, PTL DEF Spec
=============================================================================
