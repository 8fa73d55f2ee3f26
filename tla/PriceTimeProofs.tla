-------------------------- MODULE PriceTimeProofs --------------------------
(***************************************************************************)
(* What the closed form of PriceTime computes, for any book: an incoming   *)
(* order never executes more than it asks for or finds, no resting order   *)
(* gives more than it has, and the trades, told apart by how far they fill *)
(* the incoming order, add up to what it executes.                         *)
(***************************************************************************)
EXTENDS PriceTime, FiniteSetTheorems, TLAPS

Quantity(r) == r.quantity

OfQuantity == INSTANCE Sums WITH Weight <- Quantity

-----------------------------------------------------------------------------
(* Sums of quantities *)

LEMMA SumFinite == \A S : OfQuantity!IsFiniteSet(S) <=> IsFiniteSet(S)
  BY DEF IsFiniteSet, OfQuantity!IsFiniteSet

LEMMA SumQuantity == \A S : QuantityOf(S) = OfQuantity!Sum(S)
  BY DEF QuantityOf, OfQuantity!Sum, Quantity, MapThenSumSet, MapThenFoldSet,
         OfQuantity!MapThenSumSet, OfQuantity!MapThenFoldSet

\* Quantities are numbers.
Counted(S) == IsFiniteSet(S) /\ \A r \in S : r.quantity \in Nat

Quantities(S) == [r \in S |-> r.quantity]

LEMMA QuantityIsTotal ==
  ASSUME NEW S, Counted(S), NEW w, \A r \in S : w[r] = r.quantity
  PROVE  QuantityOf(S) = OfQuantity!Total(w, S)
  BY SumQuantity, SumFinite, OfQuantity!SumOf DEF Quantity, Counted

LEMMA QuantityNat ==
  ASSUME NEW S, Counted(S)
  PROVE  QuantityOf(S) \in Nat
<1>1. QuantityOf(S) = OfQuantity!Total(Quantities(S), S)
  BY QuantityIsTotal DEF Quantities
<1>2. OfQuantity!Total(Quantities(S), S) \in Nat
  BY SumFinite, OfQuantity!TotalNat DEF Quantities, Counted
<1> QED  BY <1>1, <1>2

LEMMA QuantityEmpty == QuantityOf({}) = 0
<1>1. Counted({})
  BY FS_EmptySet DEF Counted
<1>2. QuantityOf({}) = OfQuantity!Total(Quantities({}), {})
  BY <1>1, QuantityIsTotal DEF Quantities
<1> QED  BY <1>2, OfQuantity!TotalEmpty

LEMMA CountedParts ==
  /\ \A S : \A R \in SUBSET S : Counted(S) => Counted(R)
  /\ \A S, R : Counted(S) /\ Counted(R) => Counted(S \cup R)
  BY FS_Subset, FS_Union DEF Counted

LEMMA QuantityUnion ==
  ASSUME NEW S, Counted(S), NEW R, Counted(R), S \cap R = {}
  PROVE  QuantityOf(S \cup R) = QuantityOf(S) + QuantityOf(R)
<1> DEFINE w == Quantities(S \cup R)
<1>1. \A r \in S \cup R : w[r] = r.quantity /\ w[r] \in Int
  BY DEF Quantities, Counted
<1> HIDE DEF w
<1>2. Counted(S \cup R)
  BY CountedParts
<1>3. /\ QuantityOf(S \cup R) = OfQuantity!Total(w, S \cup R)
      /\ QuantityOf(S) = OfQuantity!Total(w, S)
      /\ QuantityOf(R) = OfQuantity!Total(w, R)
  BY <1>1, <1>2, QuantityIsTotal
<1>4. OfQuantity!Total(w, S \cup R) = OfQuantity!Total(w, S) + OfQuantity!Total(w, R)
  BY <1>1, SumFinite, OfQuantity!TotalUnion DEF Counted
<1> QED  BY <1>3, <1>4

LEMMA QuantitySingle ==
  ASSUME NEW r, r.quantity \in Nat
  PROVE  Counted({r}) /\ QuantityOf({r}) = r.quantity
<1>1. Counted({r}) /\ Counted({})
  BY FS_Singleton, FS_EmptySet DEF Counted
<1> DEFINE w == Quantities({r})
<1>2. w[r] = r.quantity
  BY DEF Quantities
<1> HIDE DEF w
<1>3. OfQuantity!Total(w, {} \cup {r}) = w[r] + OfQuantity!Total(w, {})
  <2>1. OfQuantity!IsFiniteSet({}) /\ r \notin {} /\ \A y \in {} \cup {r} : w[y] \in Int
    BY <1>2, SumFinite, FS_EmptySet
  <2> QED  BY <2>1, OfQuantity!TotalAdd
<1>4. {} \cup {r} = {r}
  OBVIOUS
<1>5. QuantityOf({r}) = OfQuantity!Total(w, {r})
  BY <1>1, <1>2, QuantityIsTotal
<1>6. OfQuantity!Total(w, {}) = 0
  BY OfQuantity!TotalEmpty
<1> QED  BY <1>1, <1>2, <1>3, <1>4, <1>5, <1>6

LEMMA QuantityAdd ==
  ASSUME NEW S, Counted(S), NEW r, r \notin S, r.quantity \in Nat
  PROVE  QuantityOf(S \cup {r}) = QuantityOf(S) + r.quantity
<1>1. Counted({r}) /\ QuantityOf({r}) = r.quantity
  BY QuantitySingle
<1>2. S \cap {r} = {}
  OBVIOUS
<1> QED  BY <1>1, <1>2, QuantityUnion

LEMMA QuantityPart ==
  ASSUME NEW S, Counted(S), NEW R \in SUBSET S
  PROVE  QuantityOf(R) <= QuantityOf(S)
<1>1. Counted(R) /\ Counted(S \ R)
  BY CountedParts
<1>2. R \cup (S \ R) = S /\ R \cap (S \ R) = {}
  OBVIOUS
<1>3. QuantityOf(S) = QuantityOf(R) + QuantityOf(S \ R)
  BY <1>1, <1>2, QuantityUnion
<1>4. QuantityOf(S \ R) \in Nat /\ QuantityOf(R) \in Nat
  BY <1>1, QuantityNat
<1> QED  BY <1>3, <1>4

LEMMA QuantityMember ==
  ASSUME NEW S, Counted(S), NEW r \in S
  PROVE  r.quantity <= QuantityOf(S)
<1>1. r.quantity \in Nat
  BY DEF Counted
<1>2. QuantityOf({r}) = r.quantity
  BY <1>1, QuantitySingle
<1>3. {r} \in SUBSET S
  OBVIOUS
<1> QED  BY <1>2, <1>3, QuantityPart

-----------------------------------------------------------------------------
(* The order in which resting orders are served *)

Sides == {"BUY", "SELL"}

\* Resting orders that arrived one after another.
Ordered(R) ==
  /\ IsFiniteSet(R)
  /\ \A r \in R : /\ r.side \in Sides /\ r.price \in Int /\ r.arrival \in Int
                  /\ r.quantity \in Nat \ {0}
  /\ \A r, x \in R : r.arrival = x.arrival => r = x

\* Those of one side wait in a queue.
Queue(E) == Ordered(E) /\ \A r, x \in E : r.side = x.side

LEMMA OrderedParts ==
  ASSUME NEW R, Ordered(R), NEW S \in SUBSET R
  PROVE  Ordered(S) /\ Counted(S)
  BY FS_Subset DEF Ordered, Counted

LEMMA EligibleQueue ==
  ASSUME NEW R, Ordered(R), NEW side \in Sides, NEW limit
  PROVE  LET E == Eligible(R, side, limit)
         IN Queue(E) /\ E \in SUBSET R /\ \A r \in E : r.side # side
<1> DEFINE E == Eligible(R, side, limit)
<1>1. E \in SUBSET R /\ \A r \in E : r.side # side /\ r.side \in Sides
  BY DEF Eligible, Ordered
<1>2. \A r, x \in E : r.side = x.side
  BY <1>1 DEF Sides
<1> HIDE DEF E
<1>3. Ordered(E)
  BY <1>1, OrderedParts
<1>4. Queue(E) /\ E \in SUBSET R /\ \A r \in E : r.side # side
  BY <1>1, <1>2, <1>3 DEF Queue
<1> QED  BY <1>4 DEF E

LEMMA ServedOrder ==
  ASSUME NEW E, Queue(E)
  PROVE  /\ \A r, x \in E : ~(Served(r, x) /\ Served(x, r))
         /\ \A r, x \in E : r = x \/ Served(r, x) \/ Served(x, r)
         /\ \A r, x, y \in E : Served(r, x) /\ Served(x, y) => Served(r, y)
<1>1. \A r \in E : r.side \in Sides /\ r.price \in Int /\ r.arrival \in Int
  BY DEF Queue, Ordered
<1>2. \A r, x \in E : r.side = x.side /\ (r.arrival = x.arrival => r = x)
  BY DEF Queue, Ordered
<1>3. \A r, x \in E : ~(Served(r, x) /\ Served(x, r))
  BY <1>1, <1>2 DEF Served
<1>4. \A r, x \in E : r = x \/ Served(r, x) \/ Served(x, r)
  BY <1>1, <1>2 DEF Served
<1>5. \A r, x, y \in E : Served(r, x) /\ Served(x, y) => Served(r, y)
  <2> SUFFICES ASSUME NEW r \in E, NEW x \in E, NEW y \in E, Served(r, x), Served(x, y)
               PROVE  Served(r, y)
    OBVIOUS
  <2>1. /\ r.price \in Int /\ x.price \in Int /\ y.price \in Int
        /\ r.arrival \in Int /\ x.arrival \in Int /\ y.arrival \in Int
        /\ r.side = x.side /\ x.side = y.side
    BY <1>1, <1>2
  <2> QED  BY <2>1 DEF Served
<1> QED  BY <1>3, <1>4, <1>5

\* Those of E that are served before r.
Before(E, r) == {x \in E : Served(x, r)}

\* The last in a queue that is not empty.
LEMMA LastInQueue ==
  ASSUME NEW E, Queue(E), NEW D \in SUBSET E, D # {}
  PROVE  \E r \in D : Before(D, r) = D \ {r}
<1> DEFINE T == {U \in SUBSET D : U = {} \/ \E r \in U : \A x \in U : x = r \/ Served(x, r)}
<1>1. IsFiniteSet(D)
  BY FS_Subset DEF Queue, Ordered
<1>2. ASSUME NEW U \in SUBSET D, NEW y \in D \ U, U \in T
      PROVE  U \cup {y} \in T
  <2>1. CASE U = {}
    BY <2>1
  <2>2. CASE U # {}
    <3>1. PICK r \in U : \A x \in U : x = r \/ Served(x, r)
      BY <1>2, <2>2
    <3>2. CASE Served(y, r)
      <4>1. \A x \in U \cup {y} : x = r \/ Served(x, r)
        BY <3>1, <3>2
      <4> QED  BY <4>1
    <3>3. CASE ~Served(y, r)
      <4>1. r \in E /\ y \in E /\ y # r /\ U \subseteq E
        OBVIOUS
      <4>2. Served(r, y)
        BY <3>3, <4>1, ServedOrder
      <4>3. \A x \in U \cup {y} : x = y \/ Served(x, y)
        BY <3>1, <4>1, <4>2, ServedOrder
      <4> QED  BY <4>3
    <3> QED  BY <3>2, <3>3
  <2> QED  BY <2>1, <2>2
<1>3. {} \in T
  OBVIOUS
<1>4. D \in T
  <2> HIDE DEF T
  <2> QED  BY <1>1, <1>2, <1>3, SumFinite, OfQuantity!GrowingSubsets
<1>5. PICK r \in D : \A x \in D : x = r \/ Served(x, r)
  BY <1>4
<1>6. ~Served(r, r)
  BY ServedOrder
<1> QED  BY <1>5, <1>6 DEF Before

-----------------------------------------------------------------------------
(* What each resting order gives *)

LEMMA AllottedIs ==
  ASSUME NEW E, Queue(E), NEW r \in E, NEW q \in Nat
  PROVE  LET before == QuantityOf(Before(E, r))
             a == Allotted(r, q, E)
         IN /\ before \in Nat
            /\ a \in Nat /\ a <= r.quantity
            /\ a > 0 <=> before < q
            /\ a > 0 => before + a = Least(q, before + r.quantity)
<1> DEFINE before == QuantityOf(Before(E, r))
<1>1. before \in Nat
  <2>1. Before(E, r) \in SUBSET E
    BY DEF Before
  <2> QED  BY <2>1, OrderedParts, QuantityNat DEF Queue
<1>2. r.quantity \in Nat \ {0}
  BY DEF Queue, Ordered
<1>3. Allotted(r, q, E) = IF q - before <= 0 THEN 0 ELSE Least(q - before, r.quantity)
  BY DEF Allotted, Before
<1> HIDE DEF before
<1>4. /\ Allotted(r, q, E) \in Nat /\ Allotted(r, q, E) <= r.quantity
      /\ Allotted(r, q, E) > 0 <=> before < q
      /\ Allotted(r, q, E) > 0 =>
           before + Allotted(r, q, E) = Least(q, before + r.quantity)
  BY <1>1, <1>2, <1>3 DEF Least
<1> QED  BY <1>1, <1>4 DEF before

\* What the orders of D give an incoming order of quantity q.
Given(q, E) == [r \in E |-> Allotted(r, q, E)]

\* D holds every order that is served before one of its own.
AtFront(D, E) == D \in SUBSET E /\ \A r \in D : Before(E, r) \subseteq D

\* The orders at the front give all they have, or all that is asked for.
LEMMA FrontGives ==
  ASSUME NEW E, Queue(E), NEW q \in Nat, NEW D, AtFront(D, E)
  PROVE  OfQuantity!Total(Given(q, E), D) = Least(q, QuantityOf(D))
<1> DEFINE Gives(U) == OfQuantity!Total(Given(q, E), U) = Least(q, QuantityOf(U))
           T == {U \in SUBSET E : AtFront(U, E) /\ ~Gives(U)}
<1> SUFFICES ASSUME T # {} PROVE FALSE
  BY DEF AtFront
<1>1. PICK m \in T : \A y \in T : y \subseteq m => y = m
  <2>1. T \subseteq SUBSET E /\ OfQuantity!IsFiniteSet(E)
    BY SumFinite DEF Queue, Ordered
  <2> HIDE DEF T
  <2> QED  BY <2>1, OfQuantity!SmallestSubset
<1>2. m \in SUBSET E /\ AtFront(m, E) /\ ~Gives(m)
  OBVIOUS
<1>3. m # {}
  <2>1. Gives({})
    BY QuantityEmpty, OfQuantity!TotalEmpty DEF Least
  <2> QED  BY <1>2, <2>1
<1>4. PICK r \in m : Before(m, r) = m \ {r}
  BY <1>2, <1>3, LastInQueue
<1> DEFINE u == m \ {r}
<1>5. Before(E, r) = u
  BY <1>2, <1>4 DEF AtFront, Before
<1>6. AtFront(u, E)
  <2>1. \A x \in u : Before(E, x) \subseteq u
    <3> SUFFICES ASSUME NEW x \in u PROVE r \notin Before(E, x)
      BY <1>2 DEF AtFront
    <3>1. Served(x, r) /\ x \in E /\ r \in E
      BY <1>2, <1>5 DEF Before
    <3> QED  BY <3>1, ServedOrder DEF Before
  <2> QED  BY <1>2, <2>1 DEF AtFront
<1>7. Gives(u)
  <2>1. u \in SUBSET E /\ u # m
    BY <1>2
  <2> QED  BY <1>1, <1>6, <2>1
<1>8. /\ Counted(m) /\ Counted(u) /\ IsFiniteSet(m) /\ r.quantity \in Nat \ {0}
  BY <1>2, OrderedParts DEF Queue, Ordered, Counted
<1>9. QuantityOf(m) = QuantityOf(u) + r.quantity
  <2>1. u \cup {r} = m /\ r \notin u
    OBVIOUS
  <2> HIDE DEF u
  <2> QED  BY <1>8, <2>1, QuantityAdd
<1>10. OfQuantity!Total(Given(q, E), m) = Given(q, E)[r] + OfQuantity!Total(Given(q, E), u)
  <2>1. \A x \in m : Given(q, E)[x] \in Int
    BY <1>2, AllottedIs DEF Given
  <2> QED  BY <1>8, <2>1, SumFinite, OfQuantity!TotalRemove
<1>11. /\ QuantityOf(u) \in Nat
       /\ Given(q, E)[r] = IF q - QuantityOf(u) <= 0 THEN 0
                           ELSE Least(q - QuantityOf(u), r.quantity)
  BY <1>2, <1>5, <1>8, QuantityNat DEF Given, Allotted, Before
<1> HIDE DEF u, T
<1>12. Gives(m)
  BY <1>7, <1>8, <1>9, <1>10, <1>11 DEF Least
<1> QED  BY <1>2, <1>12

\* Only orders that are reached give something.
LEMMA MakersAtFront ==
  ASSUME NEW E, Queue(E), NEW q \in Nat
  PROVE  AtFront({r \in E : Allotted(r, q, E) > 0}, E)
<1> SUFFICES ASSUME NEW r \in E, Allotted(r, q, E) > 0, NEW x \in E, Served(x, r)
             PROVE  Allotted(x, q, E) > 0
  BY DEF AtFront, Before
<1>1. Before(E, x) \in SUBSET Before(E, r)
  BY ServedOrder DEF Before
<1>2. Counted(Before(E, r))
  BY OrderedParts DEF Before, Queue
<1>3. QuantityOf(Before(E, x)) <= QuantityOf(Before(E, r))
  BY <1>1, <1>2, QuantityPart
<1>4. /\ QuantityOf(Before(E, x)) \in Nat /\ QuantityOf(Before(E, r)) \in Nat
      /\ QuantityOf(Before(E, r)) < q
  BY AllottedIs
<1>5. QuantityOf(Before(E, x)) < q
  BY <1>3, <1>4
<1> QED  BY <1>5, AllottedIs

\* How much of an incoming order is filled once r has traded with it.
Through(r, q, E) == Allotted(r, q, E) + QuantityOf(Before(E, r))

LEMMA ThroughIs ==
  ASSUME NEW E, Queue(E), NEW q \in Nat, NEW r \in E, Allotted(r, q, E) > 0
  PROVE  /\ Through(r, q, E) \in Nat \ {0}
         /\ Through(r, q, E) <= q
         /\ Allotted(r, q, E) <= Through(r, q, E)
         /\ Through(r, q, E) <= QuantityOf(Before(E, r)) + r.quantity
<1>1. r.quantity \in Nat
  BY DEF Queue, Ordered
<1> QED  BY <1>1, AllottedIs DEF Through, Least

\* Each trade fills more of the incoming order than the one before.
LEMMA ThroughDiffers ==
  ASSUME NEW E, Queue(E), NEW q \in Nat,
         NEW r \in E, Allotted(r, q, E) > 0, NEW x \in E, Allotted(x, q, E) > 0,
         Through(r, q, E) = Through(x, q, E)
  PROVE  r = x
<1>1. ASSUME NEW y \in E, NEW z \in E, Served(y, z),
             Allotted(y, q, E) > 0, Allotted(z, q, E) > 0
      PROVE  Through(y, q, E) < Through(z, q, E)
  <2>1. Before(E, y) \cup {y} \in SUBSET Before(E, z) /\ y \notin Before(E, y)
    BY <1>1, ServedOrder DEF Before
  <2>2. Counted(Before(E, z)) /\ Counted(Before(E, y)) /\ y.quantity \in Nat
    BY OrderedParts DEF Before, Queue, Ordered
  <2>3. QuantityOf(Before(E, y)) + y.quantity <= QuantityOf(Before(E, z))
    <3>1. QuantityOf(Before(E, y) \cup {y}) = QuantityOf(Before(E, y)) + y.quantity
      BY <2>1, <2>2, QuantityAdd
    <3> QED  BY <2>1, <2>2, <3>1, QuantityPart
  <2>4. /\ QuantityOf(Before(E, y)) \in Nat /\ QuantityOf(Before(E, z)) \in Nat
        /\ Allotted(y, q, E) \in Nat /\ Allotted(y, q, E) <= y.quantity
        /\ Allotted(z, q, E) \in Nat
    BY AllottedIs
  <2> QED  BY <1>1, <2>2, <2>3, <2>4 DEF Through
<1>2. Through(r, q, E) \in Nat /\ Through(x, q, E) \in Nat
  BY ThroughIs
<1>3. ~Served(r, x)
  BY <1>1, <1>2
<1>4. ~Served(x, r)
  BY <1>1, <1>2
<1> QED  BY <1>3, <1>4, ServedOrder

\* What the makers give in all, and that none of them fills more than that.
LEMMA MakersGive ==
  ASSUME NEW E, Queue(E), NEW q \in Nat
  PROVE  LET M == {r \in E : Allotted(r, q, E) > 0}
             done == OfQuantity!Total(Given(q, E), M)
         IN /\ done \in Nat /\ done <= q
            /\ M # {} => done > 0
            /\ M = {} => done = 0
            /\ \A r \in M : Through(r, q, E) <= done
<1> DEFINE M == {r \in E : Allotted(r, q, E) > 0}
           done == OfQuantity!Total(Given(q, E), M)
<1>1. M \in SUBSET E /\ AtFront(M, E)
  BY MakersAtFront
<1>2. \A r \in M : Allotted(r, q, E) > 0 /\ r \in E /\ r.quantity \in Nat \ {0}
  BY DEF Queue, Ordered
<1>3. M = {} => done = 0
  BY OfQuantity!TotalEmpty
<1>4. done = Least(q, QuantityOf(M))
  <2> HIDE DEF M
  <2> QED  BY <1>1, FrontGives
<1> HIDE DEF M, done
<1>5. Counted(M) /\ QuantityOf(M) \in Nat
  BY <1>1, OrderedParts, QuantityNat DEF Queue
<1>6. M # {} => q > 0 /\ QuantityOf(M) > 0
  <2> SUFFICES ASSUME NEW r \in M PROVE q > 0 /\ QuantityOf(M) > 0
    OBVIOUS
  <2>1. r.quantity <= QuantityOf(M)
    BY <1>5, QuantityMember
  <2>2. QuantityOf(Before(E, r)) < q /\ QuantityOf(Before(E, r)) \in Nat
    BY <1>2, AllottedIs
  <2> QED  BY <1>2, <1>5, <2>1, <2>2
<1>7. ASSUME NEW r \in M
      PROVE  Through(r, q, E) <= done
  <2>1. Before(E, r) \cup {r} \in SUBSET M /\ r \notin Before(E, r)
    BY <1>1, ServedOrder DEF AtFront, Before
  <2>2. Counted(Before(E, r)) /\ QuantityOf(Before(E, r)) \in Nat
    BY <1>2, AllottedIs, OrderedParts DEF Before, Queue
  <2>3. QuantityOf(Before(E, r)) + r.quantity <= QuantityOf(M)
    <3>1. QuantityOf(Before(E, r) \cup {r}) = QuantityOf(Before(E, r)) + r.quantity
      BY <1>2, <2>1, <2>2, QuantityAdd
    <3> QED  BY <1>5, <2>1, <3>1, QuantityPart
  <2>4. /\ Through(r, q, E) <= QuantityOf(Before(E, r)) + r.quantity
        /\ Through(r, q, E) \in Nat /\ Through(r, q, E) <= q
    BY <1>2, <1>7, ThroughIs
  <2> QED  BY <1>2, <1>4, <1>5, <2>2, <2>3, <2>4 DEF Least
<1> QED  BY <1>3, <1>4, <1>5, <1>6, <1>7 DEF Least, M, done

-----------------------------------------------------------------------------
(* The book that is left *)

LEMMA FiniteImage ==
  ASSUME NEW S, IsFiniteSet(S), NEW g
  PROVE  IsFiniteSet({g[x] : x \in S})
<1> DEFINE T == {g[x] : x \in S}
           f == [x \in S |-> g[x]]
<1>1. f \in Surjection(S, T)
  BY DEF Surjection
<1> HIDE DEF f, T
<1>2. IsFiniteSet(T)
  BY <1>1, FS_Surjection
<1> QED  BY <1>2 DEF T

\* Resting orders are records.
Records(R) ==
  \A r \in R : /\ r = [f \in DOMAIN r |-> r[f]]
               /\ {"side", "price", "arrival", "quantity"} \subseteq DOMAIN r

Kept(r, n) == [r EXCEPT !.quantity = r.quantity - n]

LEMMA KeptFields ==
  ASSUME NEW R, Records(R), NEW r \in R, NEW n
  PROVE  /\ DOMAIN Kept(r, n) = DOMAIN r
         /\ \A f \in DOMAIN r \ {"quantity"} : Kept(r, n)[f] = r[f]
         /\ Kept(r, n).quantity = r.quantity - n
         /\ Kept(r, n) = [f \in DOMAIN Kept(r, n) |-> Kept(r, n)[f]]
  BY DEF Records, Kept

Gave(r, q, E) == IF r \in E THEN Allotted(r, q, E) ELSE 0

\* What is left of each order that has something left.
LEMMA SweptIs ==
  ASSUME NEW R, Ordered(R), Records(R), NEW side \in Sides, NEW limit, NEW q \in Nat
  PROVE  LET E == Eligible(R, side, limit)
         IN /\ Swept(R, side, limit, q) =
                 {Kept(r, Gave(r, q, E)) : r \in {x \in R : Gave(x, q, E) < x.quantity}}
            /\ \A r \in R : Gave(r, q, E) \in Nat /\ Gave(r, q, E) <= r.quantity
<1> DEFINE E == Eligible(R, side, limit)
<1>1. \A r \in R : r.quantity \in Nat \ {0}
  BY DEF Ordered
<1>2. Queue(E) /\ E \in SUBSET R
  BY EligibleQueue
<1>3. Swept(R, side, limit, q) =
        {IF r \in E THEN [r EXCEPT !.quantity = @ - Allotted(r, q, E)] ELSE r :
           r \in {x \in R : x \in E => Allotted(x, q, E) < x.quantity}}
  BY DEF Swept
<1> HIDE DEF E
<1>4. {x \in R : x \in E => Allotted(x, q, E) < x.quantity}
        = {x \in R : Gave(x, q, E) < x.quantity}
  BY <1>1 DEF Gave
<1>5. \A r \in R : (IF r \in E THEN [r EXCEPT !.quantity = @ - Allotted(r, q, E)] ELSE r)
                     = Kept(r, Gave(r, q, E))
  <2> SUFFICES ASSUME NEW r \in R
               PROVE  (IF r \in E THEN [r EXCEPT !.quantity = @ - Allotted(r, q, E)] ELSE r)
                        = Kept(r, Gave(r, q, E))
    OBVIOUS
  <2>1. CASE r \in E
    BY <2>1 DEF Kept, Gave
  <2>2. CASE r \notin E
    <3>1. r.quantity - 0 = r.quantity
      BY <1>1
    <3>2. Kept(r, Gave(r, q, E)) = [r EXCEPT !.quantity = r.quantity]
      BY <2>2, <3>1 DEF Kept, Gave
    <3> QED  BY <2>2, <3>2 DEF Records
  <2> QED  BY <2>1, <2>2
<1>6. Swept(R, side, limit, q) =
        {Kept(r, Gave(r, q, E)) : r \in {x \in R : Gave(x, q, E) < x.quantity}}
  BY <1>3, <1>4, <1>5
<1>7. \A r \in R : Gave(r, q, E) \in Nat /\ Gave(r, q, E) <= r.quantity
  BY <1>1, <1>2, AllottedIs DEF Gave
<1> QED  BY <1>6, <1>7 DEF E

LEMMA SweptOrdered ==
  ASSUME NEW R, Ordered(R), Records(R), NEW side \in Sides, NEW limit, NEW q \in Nat
  PROVE  Ordered(Swept(R, side, limit, q)) /\ Records(Swept(R, side, limit, q))
<1> DEFINE E == Eligible(R, side, limit)
           L == {x \in R : Gave(x, q, E) < x.quantity}
           S == {Kept(r, Gave(r, q, E)) : r \in L}
<1>1. Swept(R, side, limit, q) = S /\ \A r \in L : Gave(r, q, E) \in Nat
  BY SweptIs
<1>2. \A r \in L : r \in R /\ Gave(r, q, E) < r.quantity
  OBVIOUS
<1> HIDE DEF E
<1>3. \A r \in L : /\ Kept(r, Gave(r, q, E)).side = r.side
                   /\ Kept(r, Gave(r, q, E)).price = r.price
                   /\ Kept(r, Gave(r, q, E)).arrival = r.arrival
                   /\ Kept(r, Gave(r, q, E)).quantity \in Nat \ {0}
  <2> SUFFICES ASSUME NEW r \in L
               PROVE  /\ Kept(r, Gave(r, q, E)).side = r.side
                      /\ Kept(r, Gave(r, q, E)).price = r.price
                      /\ Kept(r, Gave(r, q, E)).arrival = r.arrival
                      /\ Kept(r, Gave(r, q, E)).quantity \in Nat \ {0}
    OBVIOUS
  <2>1. /\ \A f \in DOMAIN r \ {"quantity"} : Kept(r, Gave(r, q, E))[f] = r[f]
        /\ Kept(r, Gave(r, q, E)).quantity = r.quantity - Gave(r, q, E)
    BY KeptFields
  <2>2. /\ {"side", "price", "arrival"} \subseteq DOMAIN r \ {"quantity"}
        /\ r.quantity \in Nat /\ Gave(r, q, E) \in Nat /\ Gave(r, q, E) < r.quantity
    BY <1>1, <1>2 DEF Records, Ordered
  <2> QED  BY <2>1, <2>2
<1>4. IsFiniteSet(L)
  BY FS_Subset DEF Ordered
<1>5. IsFiniteSet(S)
  <2> DEFINE g == [r \in L |-> Kept(r, Gave(r, q, E))]
  <2>1. S = {g[r] : r \in L}
    OBVIOUS
  <2> HIDE DEF L, g, S
  <2> QED  BY <1>4, <2>1, FiniteImage
<1>6. Ordered(S)
  BY <1>2, <1>3, <1>5 DEF Ordered
<1>7. Records(S)
  <2>1. \A r \in L : LET k == Kept(r, Gave(r, q, E))
                     IN /\ k = [f \in DOMAIN k |-> k[f]]
                        /\ {"side", "price", "arrival", "quantity"} \subseteq DOMAIN k
    <3> SUFFICES ASSUME NEW r \in L, NEW n
                 PROVE  LET k == Kept(r, n)
                        IN /\ k = [f \in DOMAIN k |-> k[f]]
                           /\ {"side", "price", "arrival", "quantity"} \subseteq DOMAIN k
      OBVIOUS
    <3>1. DOMAIN Kept(r, n) = DOMAIN r /\ Kept(r, n) = [f \in DOMAIN Kept(r, n) |-> Kept(r, n)[f]]
      BY <1>2, KeptFields
    <3>2. {"side", "price", "arrival", "quantity"} \subseteq DOMAIN r
      BY <1>2 DEF Records
    <3> QED  BY <3>1, <3>2
  <2> HIDE DEF L
  <2> QED  BY <2>1 DEF Records
<1> QED  BY <1>1, <1>6, <1>7

LEMMA ExecutedIsGiven ==
  ASSUME NEW R, Ordered(R), NEW side \in Sides, NEW limit, NEW q \in Nat
  PROVE  LET E == Eligible(R, side, limit)
         IN /\ Executed(R, side, limit, q) = OfQuantity!Total(Given(q, E), E)
            /\ Executed(R, side, limit, q) \in Nat
<1> DEFINE E == Eligible(R, side, limit)
<1>1. Queue(E)
  BY EligibleQueue
<1>2. AtFront(E, E)
  BY DEF AtFront, Before
<1>3. Executed(R, side, limit, q) = Least(q, QuantityOf(E))
  BY DEF Executed
<1> HIDE DEF E
<1>4. QuantityOf(E) \in Nat
  BY <1>1, OrderedParts, QuantityNat DEF Queue
<1>5. OfQuantity!Total(Given(q, E), E) = Least(q, QuantityOf(E))
  BY <1>1, <1>2, FrontGives
<1> QED  BY <1>3, <1>4, <1>5 DEF Least, E

\* Nothing is lost and nothing appears: what an incoming order executes is what
\* the book that _match leaves has less than the one it found, for any book,
\* whatever the order asks for and however many orders it meets.
THEOREM Conservation ==
  ASSUME NEW R, Ordered(R), Records(R), NEW side \in Sides, NEW limit, NEW q \in Nat
  PROVE  QuantityOf(R) = QuantityOf(Swept(R, side, limit, q)) + Executed(R, side, limit, q)
<1> DEFINE E == Eligible(R, side, limit)
           G(r) == Gave(r, q, E)
           L == {r \in R : G(r) < r.quantity}
           g == [r \in L |-> Kept(r, G(r))]
           S == {g[r] : r \in L}
           a == [r \in R |-> G(r)]
           b == [r \in R |-> r.quantity - G(r)]
           c == Quantities(R)
           d == Quantities(S)
<1>1. Swept(R, side, limit, q) = S /\ \A r \in R : G(r) \in Nat /\ G(r) <= r.quantity
  <2>1. /\ Swept(R, side, limit, q) = {Kept(r, G(r)) : r \in L}
        /\ \A r \in R : G(r) \in Nat /\ G(r) <= r.quantity
    BY SweptIs
  <2>2. \A r \in L : g[r] = Kept(r, G(r))
    OBVIOUS
  <2> HIDE DEF G, L, g
  <2>3. {Kept(r, G(r)) : r \in L} = {g[r] : r \in L}
    BY <2>2
  <2> QED  BY <2>1, <2>3
<1>2. IsFiniteSet(R) /\ L \in SUBSET R /\ IsFiniteSet(L)
  BY FS_Subset DEF Ordered
<1>3. \A r \in R : r.quantity \in Nat
  BY DEF Ordered
<1>4. \A r \in L : /\ g[r].quantity = r.quantity - G(r) /\ g[r].quantity \in Nat
                   /\ g[r].arrival = r.arrival
  <2> SUFFICES ASSUME NEW r \in L
               PROVE  /\ Kept(r, G(r)).quantity = r.quantity - G(r)
                      /\ Kept(r, G(r)).quantity \in Nat
                      /\ Kept(r, G(r)).arrival = r.arrival
    OBVIOUS
  <2>1. /\ \A f \in DOMAIN r \ {"quantity"} : Kept(r, G(r))[f] = r[f]
        /\ Kept(r, G(r)).quantity = r.quantity - G(r)
    BY <1>2, KeptFields
  <2>2. "arrival" \in DOMAIN r \ {"quantity"}
    BY <1>2 DEF Records
  <2>3. r.quantity - G(r) \in Nat
    BY <1>1, <1>2, <1>3
  <2> QED  BY <2>1, <2>2, <2>3
<1>5. \A r, x \in L : g[r] = g[x] => r = x
  <2>1. \A r, x \in R : r.arrival = x.arrival => r = x
    BY DEF Ordered
  <2>2. \A r \in L : r \in R /\ g[r].arrival = r.arrival
    BY <1>2, <1>4
  <2> HIDE DEF g, L
  <2> QED  BY <2>1, <2>2
<1>6. \A r \in L : b[r] = d[g[r]] /\ b[r] \in Int
  <2> SUFFICES ASSUME NEW r \in L
               PROVE  b[r] = d[g[r]] /\ b[r] \in Int
    OBVIOUS
  <2>1. g[r] \in S /\ r \in R
    OBVIOUS
  <2>2. d[g[r]] = g[r].quantity
    BY <2>1 DEF Quantities
  <2>3. b[r] = r.quantity - G(r)
    BY <2>1
  <2> QED  BY <1>4, <2>2, <2>3
<1>7. \A r \in R : /\ a[r] \in Int /\ b[r] \in Int /\ c[r] = a[r] + b[r]
  BY <1>1, <1>3 DEF Quantities
<1>8. \A r \in R \ L : b[r] = 0
  BY <1>1, <1>3
<1>9. E \in SUBSET R /\ (\A r \in R \ E : a[r] = 0)
      /\ \A r \in E : a[r] = Given(q, E)[r] /\ a[r] \in Int
  <2>1. E \in SUBSET R
    BY EligibleQueue
  <2> QED  BY <1>7, <2>1 DEF Gave, Given
<1>10. /\ \A r \in R : c[r] = r.quantity
       /\ \A x \in S : d[x] = x.quantity /\ x.quantity \in Nat
  BY <1>4 DEF Quantities
<1>11. Executed(R, side, limit, q) = OfQuantity!Total(Given(q, E), E)
       /\ Executed(R, side, limit, q) \in Nat
  BY ExecutedIsGiven
<1>12. S = {g[r] : r \in L}
  OBVIOUS
<1> HIDE DEF E, L, g, S, a, b, c, d
<1>13. OfQuantity!Total(c, R) = OfQuantity!Total(a, R) + OfQuantity!Total(b, R)
  BY <1>2, <1>7, SumFinite, OfQuantity!TotalPlus
<1>14. OfQuantity!Total(a, R) = Executed(R, side, limit, q)
  <2>1. OfQuantity!Total(a, R) = OfQuantity!Total(a, E)
    BY <1>2, <1>7, <1>9, SumFinite, OfQuantity!TotalWithin
  <2>2. IsFiniteSet(E)
    BY <1>2, <1>9, FS_Subset
  <2>3. OfQuantity!Total(a, E) = OfQuantity!Total(Given(q, E), E)
    BY <1>9, <2>2, SumFinite, OfQuantity!TotalSame
  <2> QED  BY <1>11, <2>1, <2>3
<1>15. IsFiniteSet(S) /\ OfQuantity!Total(d, S) = OfQuantity!Total(b, L)
  BY <1>2, <1>5, <1>6, <1>12, SumFinite, OfQuantity!TotalImage
<1>16. OfQuantity!Total(b, R) = OfQuantity!Total(b, L)
  BY <1>2, <1>7, <1>8, SumFinite, OfQuantity!TotalWithin
<1>17. QuantityOf(S) = OfQuantity!Total(d, S) /\ QuantityOf(R) = OfQuantity!Total(c, R)
  BY <1>2, <1>3, <1>10, <1>15, QuantityIsTotal DEF Counted
<1>18. Counted(S)
  BY <1>10, <1>15 DEF Counted
<1>19. QuantityOf(S) \in Nat
  BY <1>18, QuantityNat
<1>20. QuantityOf(R) = Executed(R, side, limit, q) + QuantityOf(S)
  BY <1>13, <1>14, <1>15, <1>16, <1>17
<1> QED  BY <1>1, <1>11, <1>19, <1>20
-----------------------------------------------------------------------------
(* An incoming order that goes from one resting order to the next *)

\* Those that are served before one order are a front.
LEMMA BeforeAtFront ==
  ASSUME NEW E, Queue(E), NEW r \in E
  PROVE  AtFront(Before(E, r), E) /\ r \notin Before(E, r)
  BY ServedOrder DEF AtFront, Before

\* A front all of which is taken up is no more than what is asked for.
LEMMA FrontTaken ==
  ASSUME NEW E, Queue(E), NEW q \in Nat, NEW D, AtFront(D, E),
         \A x \in D : Allotted(x, q, E) = x.quantity
  PROVE  QuantityOf(D) \in Nat /\ QuantityOf(D) <= q
<1>1. D \in SUBSET E /\ Counted(D)
  BY OrderedParts DEF AtFront, Queue
<1>2. QuantityOf(D) \in Nat
  BY <1>1, QuantityNat
<1>3. CASE D = {}
  BY <1>3, QuantityEmpty
<1>4. CASE D # {}
  <2>1. PICK r \in D : Before(D, r) = D \ {r}
    BY <1>1, <1>4, LastInQueue
  <2>2. r \in E /\ r.quantity \in Nat \ {0}
    BY <1>1 DEF Queue, Ordered
  <2>3. Before(E, r) = D \ {r}
    BY <1>1, <2>1 DEF AtFront, Before
  <2>4. Counted(D \ {r}) /\ (D \ {r}) \cup {r} = D
    BY <1>1, <2>1, CountedParts
  <2> DEFINE b == QuantityOf(Before(E, r))
  <2>5. QuantityOf(D) = b + r.quantity
    <3>1. QuantityOf((D \ {r}) \cup {r}) = QuantityOf(D \ {r}) + r.quantity
      BY <2>2, <2>4, QuantityAdd
    <3> QED  BY <2>3, <2>4, <3>1
  <2>6. /\ b \in Nat
        /\ Allotted(r, q, E) > 0 => b + Allotted(r, q, E) = Least(q, b + r.quantity)
    BY <2>2, AllottedIs
  <2>7. Allotted(r, q, E) = r.quantity
    BY <2>1
  <2> HIDE DEF b
  <2> QED  BY <2>2, <2>5, <2>6, <2>7 DEF Least
<1> QED  BY <1>2, <1>3, <1>4

\* What has been taken up stays taken up when more is asked for.
LEMMA TakenStays ==
  ASSUME NEW E, Queue(E), NEW q \in Nat, NEW n \in Nat, q <= n,
         NEW r \in E, Allotted(r, q, E) = r.quantity
  PROVE  Allotted(r, n, E) = r.quantity
<1> DEFINE b == QuantityOf(Before(E, r))
<1>1. /\ b \in Nat
      /\ Allotted(r, q, E) > 0 => b + Allotted(r, q, E) = Least(q, b + r.quantity)
      /\ Allotted(r, n, E) \in Nat
      /\ Allotted(r, n, E) > 0 <=> b < n
      /\ Allotted(r, n, E) > 0 => b + Allotted(r, n, E) = Least(n, b + r.quantity)
  BY AllottedIs
<1>2. r.quantity \in Nat \ {0}
  BY DEF Queue, Ordered
<1> HIDE DEF b
<1>3. b + r.quantity <= q
  BY <1>1, <1>2 DEF Least
<1>4. b < n
  BY <1>1, <1>2, <1>3
<1> QED  BY <1>1, <1>2, <1>3, <1>4 DEF Least

\* Where all that come before r are taken up and r is not reached, the next k
\* are r's, and nobody else gets more.
LEMMA NextServed ==
  ASSUME NEW E, Queue(E), NEW q \in Nat, NEW r \in E,
         \A x \in Before(E, r) : Allotted(x, q, E) = x.quantity,
         Allotted(r, q, E) = 0,
         NEW k \in Nat \ {0}, k <= r.quantity
  PROVE  /\ \A y \in E : Allotted(y, q + k, E) = IF y = r THEN k ELSE Allotted(y, q, E)
         /\ q + k <= QuantityOf(E)
<1> DEFINE b == QuantityOf(Before(E, r))
<1>1. AtFront(Before(E, r), E) /\ r \notin Before(E, r) /\ Counted(E)
  BY BeforeAtFront, OrderedParts DEF Queue
<1>2. b \in Nat /\ b <= q
  BY <1>1, FrontTaken
<1>3. r.quantity \in Nat \ {0} /\ q + k \in Nat
  BY DEF Queue, Ordered
<1>4. /\ Allotted(r, q, E) > 0 <=> b < q
      /\ Allotted(r, q + k, E) > 0 <=> b < q + k
      /\ Allotted(r, q + k, E) \in Nat
      /\ Allotted(r, q + k, E) > 0 => b + Allotted(r, q + k, E) = Least(q + k, b + r.quantity)
  BY <1>3, AllottedIs
<1> HIDE DEF b
<1>5. b = q
  BY <1>2, <1>4
<1>6. Allotted(r, q + k, E) = k
  BY <1>2, <1>3, <1>4, <1>5 DEF Least
<1>7. QuantityOf(Before(E, r) \cup {r}) = q + r.quantity
  <2>1. Counted(Before(E, r))
    BY <1>1, CountedParts DEF AtFront
  <2> QED  BY <1>1, <1>3, <1>5, <2>1, QuantityAdd DEF b
<1>8. q + k <= QuantityOf(E)
  <2>1. Before(E, r) \cup {r} \in SUBSET E
    BY DEF Before
  <2>2. QuantityOf(Before(E, r) \cup {r}) <= QuantityOf(E)
    BY <1>1, <2>1, QuantityPart
  <2>3. QuantityOf(E) \in Nat
    BY <1>1, QuantityNat
  <2> QED  BY <1>3, <1>7, <2>2, <2>3
<1>9. ASSUME NEW y \in E, y # r
      PROVE  Allotted(y, q + k, E) = Allotted(y, q, E)
  <2>1. CASE Served(y, r)
    <3>1. Allotted(y, q, E) = y.quantity
      BY <2>1 DEF Before
    <3> QED  BY <1>3, <3>1, TakenStays
  <2>2. CASE Served(r, y)
    <3> DEFINE c == QuantityOf(Before(E, y))
    <3>1. Before(E, r) \cup {r} \in SUBSET Before(E, y)
      BY <2>2, ServedOrder DEF Before
    <3>2. Counted(Before(E, y))
      BY <1>1, CountedParts DEF Before
    <3>3. q + r.quantity <= c
      BY <1>7, <3>1, <3>2, QuantityPart
    <3>4. /\ c \in Nat
          /\ Allotted(y, q, E) \in Nat /\ Allotted(y, q + k, E) \in Nat
          /\ Allotted(y, q, E) > 0 <=> c < q
          /\ Allotted(y, q + k, E) > 0 <=> c < q + k
      BY <1>3, AllottedIs
    <3> HIDE DEF c
    <3> QED  BY <1>3, <3>3, <3>4
  <2> QED  BY <1>9, <2>1, <2>2, ServedOrder
<1> QED  BY <1>6, <1>8, <1>9

\* Where all are taken up and no more was asked for than they have, that is all
\* that can be executed.
LEMMA AllTaken ==
  ASSUME NEW R, Ordered(R), NEW side \in Sides, NEW limit, NEW q \in Nat,
         NEW n \in Nat, q <= n,
         LET E == Eligible(R, side, limit)
         IN q <= QuantityOf(E) /\ \A x \in E : Allotted(x, q, E) = x.quantity
  PROVE  LET E == Eligible(R, side, limit)
         IN /\ \A x \in E : Allotted(x, n, E) = x.quantity
            /\ Executed(R, side, limit, n) = q
<1> DEFINE E == Eligible(R, side, limit)
<1>1. Queue(E) /\ q <= QuantityOf(E) /\ \A x \in E : Allotted(x, q, E) = x.quantity
  BY EligibleQueue
<1>2. Executed(R, side, limit, n) = Least(n, QuantityOf(E))
  BY DEF Executed
<1> HIDE DEF E
<1>3. AtFront(E, E)
  BY DEF AtFront, Before
<1>4. QuantityOf(E) \in Nat /\ QuantityOf(E) <= q
  BY <1>1, <1>3, FrontTaken
<1>5. Executed(R, side, limit, n) = q
  BY <1>1, <1>2, <1>4 DEF Least
<1>6. \A x \in E : Allotted(x, n, E) = x.quantity
  BY <1>1, TakenStays
<1> QED  BY <1>5, <1>6 DEF E
=============================================================================
