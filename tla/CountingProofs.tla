--------------------------- MODULE CountingProofs ---------------------------
(***************************************************************************)
(* What the proofs need to know of the two things they count by the        *)
(* cardinality of a set: the kilograms of the rows of a ledger, and the    *)
(* positions of a list whose elements Array.filter keeps.                  *)
(***************************************************************************)
EXTENDS KilogramSum, Lists, FiniteSetTheorems, SequenceTheorems,
        WellFoundedInduction, TLAPS

-----------------------------------------------------------------------------
(* SUM(quantity_kg) over finitely many rows (44:245, 40:345): it is a      *)
(* number, grows with the rows, grows by at most the kilograms of a row    *)
(* that is added, and is no greater than that of rows it matches one to    *)
(* one.                                                                    *)

(* 44:245, SUM(quantity_kg): over finitely many rows it is a number.       *)
LEMMA SumIsNat ==
  ASSUME NEW rows, IsFiniteSet(rows)
  PROVE  IsFiniteSet(Kilograms(rows)) /\ SumKg(rows) \in Nat
<1>1. IsFiniteSet(1 .. MaxKg)
  BY FS_Interval, MaxKgAssumption
<1>2. IsFiniteSet(rows \X (1 .. MaxKg))
  BY <1>1, FS_Product
<1>3. Kilograms(rows) \subseteq rows \X (1 .. MaxKg)
  BY DEF Kilograms
<1>4. IsFiniteSet(Kilograms(rows))
  BY <1>2, <1>3, FS_Subset
<1> QED
  BY <1>4, FS_CardinalityType DEF SumKg

(* 44:245, over fewer rows the SUM is not greater. *)
LEMMA SumIsMonotone ==
  ASSUME NEW rows, IsFiniteSet(rows), NEW fewer \in SUBSET rows
  PROVE  SumKg(fewer) <= SumKg(rows)
<1>1. Kilograms(fewer) \subseteq Kilograms(rows)
  BY DEF Kilograms
<1> QED
  BY <1>1, SumIsNat, FS_Subset DEF SumKg

(* 44:245, one more row adds at most its kilograms. *)
LEMMA SumOfOneMore ==
  ASSUME NEW rows, IsFiniteSet(rows), NEW r, r.kg \in 1 .. MaxKg
  PROVE  SumKg(rows \cup {r}) <= SumKg(rows) + r.kg
<1> DEFINE mine == {r} \X (1 .. r.kg)
<1>1. IsFiniteSet(mine) /\ Cardinality(mine) = r.kg
  <2>1. IsFiniteSet({r}) /\ Cardinality({r}) = 1
    BY FS_Singleton
  <2>2. r.kg \in Nat
    BY MaxKgAssumption
  <2>3. IsFiniteSet(1 .. r.kg) /\ Cardinality(1 .. r.kg) = r.kg
    BY <2>2, FS_Interval
  <2>4. /\ IsFiniteSet(mine)
        /\ Cardinality(mine) = Cardinality({r}) * Cardinality(1 .. r.kg)
    BY <2>1, <2>3, FS_Product
  <2> QED
    BY <2>1, <2>2, <2>3, <2>4
<1>2. Kilograms(rows \cup {r}) \subseteq Kilograms(rows) \cup mine
  BY MaxKgAssumption DEF Kilograms
<1>3. IsFiniteSet(Kilograms(rows)) /\ Cardinality(Kilograms(rows)) \in Nat
  BY SumIsNat DEF SumKg
<1>4. /\ IsFiniteSet(Kilograms(rows) \cup mine)
      /\ Cardinality(Kilograms(rows) \cup mine)
           <= Cardinality(Kilograms(rows)) + Cardinality(mine)
  <2>1. Cardinality(Kilograms(rows) \cup mine) =
          Cardinality(Kilograms(rows)) + Cardinality(mine)
            - Cardinality(Kilograms(rows) \cap mine)
    BY <1>1, <1>3, FS_Union
  <2>2. Cardinality(Kilograms(rows) \cap mine) \in Nat
    BY <1>3, FS_Intersection, FS_CardinalityType
  <2>3. IsFiniteSet(Kilograms(rows) \cup mine)
    BY <1>1, <1>3, FS_Union
  <2> QED
    BY <1>1, <1>3, <2>1, <2>2, <2>3
<1>5. Cardinality(Kilograms(rows \cup {r})) <= Cardinality(Kilograms(rows) \cup mine)
  BY <1>2, <1>4, FS_Subset
<1>6. Cardinality(Kilograms(rows \cup {r})) \in Nat
  BY <1>2, <1>4, FS_Subset, FS_CardinalityType
<1>7. Cardinality(Kilograms(rows) \cup mine) \in Nat
  BY <1>4, FS_CardinalityType
<1> QED
  BY <1>1, <1>3, <1>4, <1>5, <1>6, <1>7 DEF SumKg

(* 44:245, COALESCE(SUM(...), 0): no row, no kilogram. *)
LEMMA SumOfNone == SumKg({}) = 0
  BY FS_EmptySet DEF SumKg, Kilograms

(* 40:345, the reversals restore no more than was drawn: rows that match   *)
(* other rows of the same kilograms, one to one, do not sum to more.       *)
LEMMA SumOfMatched ==
  ASSUME NEW rows, NEW others, IsFiniteSet(others),
         NEW f \in Injection(rows, others), \A r \in rows : f[r].kg = r.kg
  PROVE  SumKg(rows) <= SumKg(others)
<1> DEFINE g == [p \in Kilograms(rows) |-> <<f[p[1]], p[2]>>]
<1>1. f \in [rows -> others] /\ \A q, r \in rows : f[q] = f[r] => q = r
  BY DEF Injection, IsInjective
<1>2. \A p \in Kilograms(rows) :
        /\ p[1] \in rows /\ p[2] \in 1 .. MaxKg /\ p = <<p[1], p[2]>>
        /\ p[2] <= p[1].kg
  BY DEF Kilograms
<1>3. g \in [Kilograms(rows) -> Kilograms(others)]
  <2>1. ASSUME NEW p \in Kilograms(rows)
        PROVE  <<f[p[1]], p[2]>> \in Kilograms(others)
    <3>1. f[p[1]] \in others /\ f[p[1]].kg = p[1].kg
      BY <1>1, <1>2
    <3> QED
      BY <1>2, <3>1 DEF Kilograms
  <2> QED
    BY <2>1
<1>4. \A p, q \in Kilograms(rows) : g[p] = g[q] => p = q
  BY <1>1, <1>2
<1>5. g \in Injection(Kilograms(rows), Kilograms(others))
  BY <1>3, <1>4 DEF Injection, IsInjective
<1> QED
  BY <1>5, SumIsNat, FS_Injection DEF SumKg

-----------------------------------------------------------------------------
(* Lists and their positions: the least and the greatest of a set of them, *)
(* and that the elements picked from a list are those at the positions,    *)
(* each once and in their order.                                           *)

(* Natural numbers have a least, and a bounded set of them a greatest.     *)
LEMMA LeastNatural ==
  ASSUME NEW T \in SUBSET Nat, T # {}
  PROVE  \E x \in T : \A y \in T : x <= y
<1> DEFINE R == OpToRel(<, Nat)
<1>1. IsWellFoundedOn(R, Nat)
  BY NatLessThanWellFounded
<1>2. \A x, y \in Nat : <<y, x>> \in R <=> y < x
  BY DEF OpToRel
<1> HIDE DEF R
<1>3. PICK x \in T : \A y \in T : ~ (<<y, x>> \in R)
  BY <1>1, WFMin
<1>4. \A y \in T : ~(y < x)
  BY <1>2, <1>3
<1> QED
  BY <1>4

(* Induction: a set of numbers with zero and, with each, the next has all.  *)
LEMMA NaturalsBySuccessor ==
  ASSUME NEW T \in SUBSET Nat, 0 \in T, \A n \in T : n + 1 \in T
  PROVE  T = Nat
<1> SUFFICES ASSUME Nat \ T # {} PROVE FALSE
  OBVIOUS
<1>1. PICK x \in Nat \ T : \A y \in Nat \ T : x <= y
  BY LeastNatural
<1>2. x # 0 /\ x \in Nat
  OBVIOUS
<1>3. x - 1 \in Nat /\ x - 1 < x /\ x = (x - 1) + 1
  BY <1>2
<1>4. x - 1 \in T
  BY <1>1, <1>3
<1> QED
  BY <1>3, <1>4

LEMMA GreatestOfRange ==
  ASSUME NEW N \in Nat, NEW K \in SUBSET (1..N), K # {}
  PROVE  \E x \in K : \A y \in K : y <= x
<1> DEFINE T == {N - y : y \in K}
<1>1. T \in SUBSET Nat /\ T # {}
  <2>1. \A y \in K : N - y \in Nat
    OBVIOUS
  <2> QED
    BY <2>1
<1>2. PICK z \in T : \A y \in T : z <= y
  BY <1>1, LeastNatural
<1>3. PICK x \in K : z = N - x
  BY <1>2
<1>4. \A y \in K : N - x <= N - y
  BY <1>2, <1>3
<1> QED
  BY <1>4

(* The k-th of finitely many positions, in their order (Array.filter).     *)
LEMMA NthOfRange ==
  ASSUME NEW N \in Nat, NEW K \in SUBSET (1..N), NEW k \in 1..Cardinality(K)
  PROVE  \E n \in K : Cardinality({m \in K : m <= n}) = k
<1> DEFINE upTo(j) == {m \in K : m <= j}
           T == {j \in Nat : Cardinality(upTo(j)) >= k}
<1>1. \A S \in SUBSET K : IsFiniteSet(S) /\ Cardinality(S) \in Nat
  <2>1. IsFiniteSet(1..N)
    BY FS_Interval
  <2>2. IsFiniteSet(K)
    BY <2>1, FS_Subset
  <2> QED
    BY <2>2, FS_Subset, FS_CardinalityType
<1>2. \A j \in Nat : upTo(j) \in SUBSET K
  OBVIOUS
<1>0. \A m \in K : m \in Nat /\ 1 <= m /\ m <= N
  OBVIOUS
<1>3. upTo(N) = K /\ upTo(0) = {}
  <2>1. \A m \in K : m <= N /\ ~(m <= 0)
    BY <1>0
  <2>2. upTo(N) = K
    BY <2>1
  <2>3. upTo(0) = {}
    BY <2>1
  <2> QED
    BY <2>2, <2>3
<1>4. N \in T
  BY <1>1, <1>3
<1>5. PICK j \in T : \A i \in T : j <= i
  <2>1. T \in SUBSET Nat /\ T # {}
    BY <1>4
  <2> HIDE DEF T
  <2> QED
    BY <2>1, LeastNatural
<1>6. j # 0
  <2>1. Cardinality(upTo(0)) = 0
    BY <1>3, FS_EmptySet
  <2> QED
    BY <2>1
<1>7. j - 1 \in Nat /\ j - 1 \notin T
  <2>1. j \in Nat
    BY <1>5
  <2>2. \A i \in T : j <= i
    BY <1>5
  <2>3. j - 1 \in Nat /\ ~(j <= j - 1)
    BY <1>6, <2>1
  <2> HIDE DEF T
  <2> QED
    BY <2>2, <2>3
<1>8. Cardinality(upTo(j - 1)) < k /\ Cardinality(upTo(j - 1)) \in Nat /\ Cardinality(upTo(j)) \in Nat
  BY <1>1, <1>2, <1>7
<1>9. upTo(j) = IF j \in K THEN upTo(j - 1) \cup {j} ELSE upTo(j - 1)
  <2>1. \A m \in K : m <= j <=> m <= j - 1 \/ m = j
    BY <1>0, <1>5
  <2> QED
    BY <1>5, <2>1
<1>10. j \in K
  BY <1>8, <1>9
<1>11. Cardinality(upTo(j)) = Cardinality(upTo(j - 1)) + 1
  <2>1. IsFiniteSet(upTo(j - 1)) /\ j \notin upTo(j - 1)
    BY <1>1, <1>7
  <2> HIDE DEF upTo
  <2> QED
    BY <1>9, <1>10, <2>1, FS_AddElement
<1>12. Cardinality(upTo(j)) = k
  BY <1>8, <1>11
<1> QED
  BY <1>10, <1>12

(* Of finitely many positions each is the one of some place in their order, *)
(* and a later place is a later position.                                  *)
LEMMA NthIsPicked ==
  ASSUME NEW N \in Nat, NEW K \in SUBSET (1..N)
  PROVE  /\ IsFiniteSet(K) /\ Cardinality(K) \in Nat /\ Cardinality(K) <= N
         /\ \A k \in 1..Cardinality(K) : NthOf(K, k) \in K
         /\ \A k \in 1..Cardinality(K) : Cardinality({m \in K : m <= NthOf(K, k)}) = k
         /\ \A n \in K : \E k \in 1..Cardinality(K) : NthOf(K, k) = n
         /\ \A j, k \in 1..Cardinality(K) : j < k => NthOf(K, j) < NthOf(K, k)
<1> DEFINE upTo(n) == {m \in K : m <= n}
<1>1. IsFiniteSet(K) /\ Cardinality(K) \in Nat /\ Cardinality(K) <= N
  <2>1. IsFiniteSet(1..N) /\ Cardinality(1..N) = N
    BY FS_Interval
  <2> QED
    BY <2>1, FS_Subset, FS_CardinalityType
<1>2. \A S \in SUBSET K : /\ IsFiniteSet(S) /\ Cardinality(S) \in Nat
                          /\ Cardinality(S) <= Cardinality(K)
  BY <1>1, FS_Subset, FS_CardinalityType
<1>3. \A n \in K : n \in Nat
  OBVIOUS
<1>4. \A k \in 1..Cardinality(K) : NthOf(K, k) \in K /\ Cardinality(upTo(NthOf(K, k))) = k
  <2> SUFFICES ASSUME NEW k \in 1..Cardinality(K)
               PROVE  NthOf(K, k) \in K /\ Cardinality(upTo(NthOf(K, k))) = k
    OBVIOUS
  <2>1. \E n \in K : Cardinality({m \in K : m <= n}) = k
    BY NthOfRange
  <2> QED
    BY <2>1 DEF NthOf
<1>5. ASSUME NEW m \in K, NEW n \in K, m < n
      PROVE  Cardinality(upTo(m)) < Cardinality(upTo(n))
  <2>1. upTo(m) \in SUBSET upTo(n) /\ n \in upTo(n) /\ n \notin upTo(m)
    <3>1. m \in Nat /\ n \in Nat /\ ~(n <= m)
      BY <1>3, <1>5
    <3>2. \A x \in K : x <= m => x <= n
      BY <1>3, <1>5, <3>1
    <3>3. upTo(m) \in SUBSET upTo(n)
      BY <3>2
    <3>4. n <= n
      BY <3>1
    <3>5. n \in upTo(n)
      BY <3>4
    <3>6. n \notin upTo(m)
      BY <3>1
    <3> QED
      BY <3>3, <3>5, <3>6
  <2>2. IsFiniteSet(upTo(n)) /\ IsFiniteSet(upTo(m))
        /\ Cardinality(upTo(m)) \in Nat /\ Cardinality(upTo(n)) \in Nat
    BY <1>2
  <2> HIDE DEF upTo
  <2>3. IsFiniteSet(upTo(m) \cup {n}) /\ Cardinality(upTo(m) \cup {n}) = Cardinality(upTo(m)) + 1
    BY <2>1, <2>2, FS_AddElement
  <2>4. (upTo(m) \cup {n}) \subseteq upTo(n)
    BY <2>1
  <2>5. Cardinality(upTo(m) \cup {n}) <= Cardinality(upTo(n))
    BY <2>2, <2>4, FS_Subset
  <2> QED
    BY <2>2, <2>3, <2>5
<1>6. \A n \in K : \E k \in 1..Cardinality(K) : NthOf(K, k) = n
  <2> SUFFICES ASSUME NEW n \in K PROVE \E k \in 1..Cardinality(K) : NthOf(K, k) = n
    OBVIOUS
  <2> DEFINE k == Cardinality(upTo(n))
  <2>1. k \in 1..Cardinality(K)
    <3>1. n \in upTo(n)
      BY <1>3
    <3>2. k \in Nat /\ k <= Cardinality(K) /\ IsFiniteSet(upTo(n))
      BY <1>2
    <3>3. k # 0
      <4> HIDE DEF upTo
      <4> QED
        BY <3>1, <3>2, FS_EmptySet
    <3> HIDE DEF k
    <3> QED
      BY <1>1, <3>2, <3>3
  <2>2. NthOf(K, k) \in K /\ Cardinality(upTo(NthOf(K, k))) = Cardinality(upTo(n))
    BY <1>4, <2>1
  <2>3. Cardinality(upTo(n)) \in Nat
    BY <1>2
  <2> DEFINE x == NthOf(K, k)
  <2>4. ~(x < n) /\ ~(n < x)
    <3> HIDE DEF x
    <3>1. x \in K /\ Cardinality(upTo(x)) = Cardinality(upTo(n))
      BY <2>2 DEF x
    <3> HIDE DEF upTo
    <3> QED
      BY <1>5, <2>3, <3>1
  <2>5. x = n
    <3> HIDE DEF x
    <3>1. x \in Nat /\ n \in Nat
      BY <1>3, <2>2 DEF x
    <3> QED
      BY <2>4, <3>1
  <2> QED
    BY <2>1, <2>5
<1>7. \A j, k \in 1..Cardinality(K) : j < k => NthOf(K, j) < NthOf(K, k)
  <2> SUFFICES ASSUME NEW j \in 1..Cardinality(K), NEW k \in 1..Cardinality(K), j < k
               PROVE  NthOf(K, j) < NthOf(K, k)
    OBVIOUS
  <2> DEFINE x == NthOf(K, j)
             y == NthOf(K, k)
  <2>1. x \in K /\ y \in K /\ Cardinality(upTo(x)) = j /\ Cardinality(upTo(y)) = k
    BY <1>4
  <2> HIDE DEF x, y, upTo
  <2>2. ~(y < x) /\ x # y
    BY <1>5, <2>1
  <2>3. x \in Nat /\ y \in Nat
    BY <1>3, <2>1
  <2> QED
    BY <2>2, <2>3 DEF x, y
<1> QED
  BY <1>1, <1>4, <1>6, <1>7

(* The elements of a list at some positions, and no other. *)
PicksFrom(list, K, q) ==
  /\ DOMAIN q = 1..Cardinality(K) /\ Cardinality(K) \in Nat
  /\ \A k \in DOMAIN q : \E n \in K : q[k] = list[n]
  /\ \A n \in K : \E k \in DOMAIN q : q[k] = list[n]
(* What Array.filter returns. *)
LEMMA PickedIs ==
  ASSUME NEW N \in Nat, NEW K \in SUBSET (1..N), NEW list
  PROVE  PicksFrom(list, K, Picked(list, K))
<1> DEFINE q == Picked(list, K)
<1>1. DOMAIN q = 1..Cardinality(K)
  BY DEF Picked
<1>2. \A k \in 1..Cardinality(K) : q[k] = list[NthOf(K, k)]
  BY DEF Picked
<1>3. /\ Cardinality(K) \in Nat
      /\ \A k \in 1..Cardinality(K) : NthOf(K, k) \in K
      /\ \A n \in K : \E k \in 1..Cardinality(K) : NthOf(K, k) = n
  BY NthIsPicked
<1> HIDE DEF q
<1>4. \A n \in K : \E k \in DOMAIN q : q[k] = list[n]
  <2> SUFFICES ASSUME NEW n \in K
               PROVE  \E k \in DOMAIN q : q[k] = list[n]
    OBVIOUS
  <2>1. PICK k \in 1..Cardinality(K) : NthOf(K, k) = n
    BY <1>3
  <2> QED
    BY <1>1, <1>2, <2>1
<1>5. PicksFrom(list, K, q)
  BY <1>1, <1>2, <1>3, <1>4 DEF PicksFrom
<1> QED
  BY <1>5 DEF q

(* A list of anything. *)
IsList(q) == \E R : q \in Seq(R)

(* A list of anything that gets one more, or another in a place. *)
LEMMA ListGrows ==
  ASSUME NEW q, IsList(q), NEW x
  PROVE  /\ Len(q) \in Nat /\ DOMAIN q = 1..Len(q)
         /\ IsList(Append(q, x)) /\ Len(Append(q, x)) = Len(q) + 1
         /\ DOMAIN Append(q, x) = 1..(Len(q) + 1)
         /\ \A n \in 1..Len(q) : Append(q, x)[n] = q[n]
         /\ Append(q, x)[Len(q) + 1] = x
<1>1. PICK R : q \in Seq(R)
  BY DEF IsList
<1>2. q \in Seq(R \cup {x})
  BY <1>1
<1>3. Append(q, x) \in Seq(R \cup {x})
  BY <1>2
<1> QED
  BY <1>2, <1>3 DEF IsList

LEMMA ListChanges ==
  ASSUME NEW q, IsList(q), NEW n \in DOMAIN q, NEW x
  PROVE  /\ IsList([q EXCEPT ![n] = x]) /\ Len([q EXCEPT ![n] = x]) = Len(q)
         /\ DOMAIN [q EXCEPT ![n] = x] = DOMAIN q
<1>1. PICK R : q \in Seq(R)
  BY DEF IsList
<1>2. q \in Seq(R \cup {x})
  BY <1>1
<1>3. n \in 1..Len(q) /\ x \in R \cup {x}
  BY <1>1
<1>4. [q EXCEPT ![n] = x] \in Seq(R \cup {x}) /\ Len([q EXCEPT ![n] = x]) = Len(q)
  BY <1>2, <1>3, ExceptSeq
<1> QED
  BY <1>4 DEF IsList

(* A list with its positions numbered from 1 is one. *)
LEMMA ListOfRange ==
  ASSUME NEW N \in Nat, NEW q, q = [n \in 1..N |-> q[n]]
  PROVE  IsList(q) /\ Len(q) = N /\ DOMAIN q = 1..N
<1> DEFINE R == {q[n] : n \in 1..N}
<1>1. q \in [1..N -> R]
  OBVIOUS
<1>2. q \in Seq(R)
  <2>1. Seq(R) = UNION {[1..n -> R] : n \in Nat}
    BY SeqDef
  <2> HIDE DEF R
  <2> QED
    BY <1>1, <2>1
<1> HIDE DEF R
<1> QED
  BY <1>1, <1>2 DEF IsList

(* A list with one in front. *)
LEMMA ListWithFirst ==
  ASSUME NEW q, IsList(q), NEW x
  PROVE  /\ IsList(<<x>> \o q) /\ Len(<<x>> \o q) = Len(q) + 1
         /\ DOMAIN (<<x>> \o q) = 1..(Len(q) + 1)
         /\ (<<x>> \o q)[1] = x
         /\ \A n \in 2..(Len(q) + 1) : (<<x>> \o q)[n] = q[n - 1]
<1>1. PICK R : q \in Seq(R)
  BY DEF IsList
<1>2. q \in Seq(R \cup {x}) /\ <<x>> \in Seq(R \cup {x}) /\ Len(<<x>>) = 1 /\ <<x>>[1] = x
  BY <1>1
<1>3. <<x>> \o q \in Seq(R \cup {x})
  BY <1>2
<1> QED
  BY <1>2, <1>3 DEF IsList

(* The beginning of a list. *)
LEMMA ListBegins ==
  ASSUME NEW q, IsList(q), NEW many \in 0..Len(q)
  PROVE  /\ IsList(SubSeq(q, 1, many)) /\ Len(SubSeq(q, 1, many)) = many
         /\ DOMAIN SubSeq(q, 1, many) = 1..many
         /\ \A n \in 1..many : SubSeq(q, 1, many)[n] = q[n]
<1>1. PICK R : q \in Seq(R)
  BY DEF IsList
<1>2. /\ SubSeq(q, 1, many) \in Seq(R) /\ Len(SubSeq(q, 1, many)) = many
      /\ \A n \in 1..many : SubSeq(q, 1, many)[n] = q[n]
  BY <1>1
<1> QED
  BY <1>2 DEF IsList

(* It is a list, too. *)
LEMMA PickedIsList ==
  ASSUME NEW N \in Nat, NEW K \in SUBSET (1..N), NEW list
  PROVE  IsList(Picked(list, K)) /\ Len(Picked(list, K)) = Cardinality(K)
<1> DEFINE M == Cardinality(K)
           q == Picked(list, K)
<1>1. M \in Nat
  BY NthIsPicked
<1>2. q = [k \in 1..M |-> q[k]]
  BY DEF Picked
<1> HIDE DEF M, q
<1>3. IsList(q) /\ Len(q) = M
  BY <1>1, <1>2, ListOfRange
<1> QED
  BY <1>3 DEF M, q
=============================================================================
