-------------------------------- MODULE Sums --------------------------------
(***************************************************************************)
(* What the sums of the community modules compute.  MapThenSumSet takes    *)
(* the elements of a set in an order of its own choice, by a recursion     *)
(* over the subsets; the facts below say that this recursion is well       *)
(* defined on a finite set and that the order does not matter.  They are   *)
(* stated once for sums of the values of a function (Total) and carried    *)
(* over to sums of an operator (Sum), which a module instantiates with the *)
(* weight it sums.                                                         *)
(***************************************************************************)
EXTENDS Integers, FiniteSetsExt, FiniteSetTheorems, WellFoundedInduction, TLAPS

CONSTANT Weight(_)

Sum(S) == MapThenSumSet(Weight, S)

Total(w, S) == MapThenSumSet(LAMBDA x : w[x], S)

-----------------------------------------------------------------------------
(* Induction, as a smallest counterexample *)

\* Among sets of subsets of a finite set there is a smallest one.
LEMMA SmallestSubset ==
  ASSUME NEW S, IsFiniteSet(S), NEW T, T \subseteq SUBSET S, T # {}
  PROVE  \E m \in T : \A y \in T : y \subseteq m => y = m
<1>1. T \subseteq FiniteSubsetsOf(S)
  BY FS_Subset DEF FiniteSubsetsOf
<1>2. \E m \in T : \A y \in T : ~(<<y, m>> \in StrictSubsetOrdering(S))
  BY <1>1, FS_StrictSubsetOrderingWellFounded, WFMin
<1> QED  BY <1>2 DEF StrictSubsetOrdering

\* What holds of the empty set and is kept when an element is added holds of
\* every finite set; T are the subsets of which it holds.
LEMMA GrowingSubsets ==
  ASSUME NEW S, IsFiniteSet(S), NEW T, {} \in T,
         \A U \in SUBSET S : \A x \in S \ U : U \in T => U \cup {x} \in T
  PROVE  S \in T
<1> DEFINE F == (SUBSET S) \ T
<1> SUFFICES ASSUME F # {} PROVE FALSE
  OBVIOUS
<1>1. PICK m \in F : \A y \in F : y \subseteq m => y = m
  <2>1. F \subseteq SUBSET S
    OBVIOUS
  <2> HIDE DEF F
  <2> QED  BY SmallestSubset, <2>1
<1>2. PICK x \in m : TRUE
  BY <1>1
<1>3. m \ {x} \in T
  BY <1>1, <1>2
<1>4. (m \ {x}) \cup {x} = m
  BY <1>2
<1> QED  BY <1>1, <1>2, <1>3, <1>4

\* A set of natural numbers that is not empty has a least one.
LEMMA LeastNatural ==
  ASSUME NEW T, T \subseteq Nat, T # {}
  PROVE  \E m \in T : \A y \in T : m <= y
<1> DEFINE R == OpToRel(<, Nat)
<1>1. IsWellFoundedOn(R, Nat)
  BY NatLessThanWellFounded
<1>2. \A x, y \in T : y < x => <<y, x>> \in R
  BY DEF OpToRel
<1> HIDE DEF R
<1>3. PICK m \in T : \A y \in T : ~(<<y, m>> \in R)
  BY <1>1, WFMin
<1>4. ASSUME NEW y \in T
      PROVE  m <= y
  <2>1. ~(y < m)
    BY <1>2, <1>3
  <2>2. y \in Nat /\ m \in Nat
    OBVIOUS
  <2> QED  BY <2>1, <2>2
<1> QED  BY <1>4

\* Induction on the natural numbers; T are those of which it holds.
LEMMA AllNaturals ==
  ASSUME NEW T, 0 \in T, \A n \in Nat : n \in T => n + 1 \in T
  PROVE  Nat \subseteq T
<1> DEFINE F == Nat \ T
<1> SUFFICES ASSUME F # {} PROVE FALSE
  OBVIOUS
<1>1. PICK m \in F : \A y \in F : m <= y
  <2>1. F \subseteq Nat
    OBVIOUS
  <2> HIDE DEF F
  <2> QED  BY <2>1, LeastNatural
<1>2. m # 0 /\ m - 1 \in Nat /\ m - 1 \notin F
  BY <1>1
<1> QED  BY <1>1, <1>2

-----------------------------------------------------------------------------
(* The recursion of MapThenSumSet *)

First(s) == CHOOSE x \in s : TRUE

LEMMA FirstIn == \A s : s # {} => First(s) \in s
  BY DEF First

IsIter(f, w, S) ==
  f = [s \in SUBSET S |-> IF s = {} THEN 0 ELSE w[First(s)] + f[s \ {First(s)}]]

Iter(w, S) == CHOOSE f : IsIter(f, w, S)

LEMMA TotalIsIter == \A w, S : Total(w, S) = Iter(w, S)[S]
  BY DEF Total, Iter, IsIter, First, MapThenSumSet, MapThenFoldSet

\* Two such functions agree where both are defined.
LEMMA IterUnique ==
  ASSUME NEW S, IsFiniteSet(S), NEW U, S \subseteq U, NEW w, NEW f, NEW g,
         IsIter(f, w, S), IsIter(g, w, U)
  PROVE  \A s \in SUBSET S : f[s] = g[s]
<1> DEFINE T == {s \in SUBSET S : f[s] # g[s]}
<1> SUFFICES ASSUME T # {} PROVE FALSE
  OBVIOUS
<1>1. PICK m \in T : \A y \in T : y \subseteq m => y = m
  <2>1. T \subseteq SUBSET S
    OBVIOUS
  <2> HIDE DEF T
  <2> QED  BY SmallestSubset, <2>1
<1>2. /\ f[m] = IF m = {} THEN 0 ELSE w[First(m)] + f[m \ {First(m)}]
      /\ g[m] = IF m = {} THEN 0 ELSE w[First(m)] + g[m \ {First(m)}]
  BY DEF IsIter
<1>3. m # {}
  BY <1>2
<1>4. First(m) \in m
  BY <1>3, FirstIn
<1>5. f[m \ {First(m)}] = g[m \ {First(m)}]
  BY <1>1, <1>4
<1> QED  BY <1>2, <1>3, <1>5

LEMMA IterExists ==
  ASSUME NEW S, IsFiniteSet(S), NEW w
  PROVE  IsIter(Iter(w, S), w, S)
<1> DEFINE T == {s \in SUBSET S : ~ \E f : IsIter(f, w, s)}
<1>1. T = {}
  <2> SUFFICES ASSUME T # {} PROVE FALSE
    OBVIOUS
  <2>1. PICK m \in T : \A y \in T : y \subseteq m => y = m
    <3>1. T \subseteq SUBSET S
      OBVIOUS
    <3> HIDE DEF T
    <3> QED  BY SmallestSubset, <3>1
  <2>2. \A v : v \subseteq m /\ v # m => IsIter(Iter(w, v), w, v) /\ IsFiniteSet(v)
    <3> SUFFICES ASSUME NEW v, v \subseteq m, v # m
                 PROVE  IsIter(Iter(w, v), w, v) /\ IsFiniteSet(v)
      OBVIOUS
    <3>1. v \in SUBSET S /\ v \notin T
      BY <2>1
    <3>2. \E f : IsIter(f, w, v)
      BY <3>1
    <3>3. IsFiniteSet(v)
      BY <3>1, FS_Subset
    <3> HIDE DEF T
    <3> QED  BY <3>2, <3>3 DEF Iter
  <2> DEFINE V(s) == s \ {First(s)}
             g == [s \in SUBSET m |-> IF s = {} THEN 0
                                      ELSE w[First(s)] + Iter(w, V(s))[V(s)]]
  <2>3. ASSUME NEW s \in SUBSET m, s # {}
        PROVE  g[V(s)] = Iter(w, V(s))[V(s)]
    <3>1. V(s) \subseteq m /\ V(s) # m
      BY <2>3, FirstIn
    <3>2. IsIter(Iter(w, V(s)), w, V(s))
      BY <3>1, <2>2
    <3>3. Iter(w, V(s))[V(s)] =
             IF V(s) = {} THEN 0 ELSE w[First(V(s))] + Iter(w, V(s))[V(V(s))]
      <4> DEFINE i == Iter(w, V(s)) u == V(s)
      <4>1. IsIter(i, w, u)
        BY <3>2
      <4>2. i[u] = IF u = {} THEN 0 ELSE w[First(u)] + i[u \ {First(u)}]
        <5> HIDE DEF i, u
        <5> QED BY <4>1 DEF IsIter
      <4> QED BY <4>2
    <3>4. CASE V(s) = {}
      BY <3>1, <3>3, <3>4
    <3>5. CASE V(s) # {}
      <4>1. V(V(s)) \subseteq V(s) /\ V(V(s)) \subseteq m /\ V(V(s)) # m
        BY <3>1
      <4>2. IsIter(Iter(w, V(V(s))), w, V(V(s))) /\ IsFiniteSet(V(V(s)))
        BY <4>1, <2>2
      <4>3. Iter(w, V(V(s)))[V(V(s))] = Iter(w, V(s))[V(V(s))]
        <5> HIDE DEF V, g
        <5> QED BY <4>1, <4>2, <3>2, IterUnique
      <4>4. g[V(s)] = w[First(V(s))] + Iter(w, V(V(s)))[V(V(s))]
        BY <3>1, <3>5
      <4> QED  BY <4>3, <4>4, <3>3, <3>5
    <3> QED BY <3>4, <3>5
  <2>4. IsIter(g, w, m)
    <3>1. g = [s \in SUBSET m |-> IF s = {} THEN 0 ELSE w[First(s)] + g[V(s)]]
      BY <2>3
    <3> HIDE DEF g
    <3> QED  BY <3>1 DEF IsIter
  <2> QED  BY <2>4
<1>2. \E f : IsIter(f, w, S)
  BY <1>1
<1> HIDE DEF T
<1> QED  BY <1>2 DEF Iter

\* The recursion, of the sums themselves.
LEMMA TotalStep ==
  ASSUME NEW S, IsFiniteSet(S), NEW w
  PROVE  Total(w, S) = IF S = {} THEN 0
                       ELSE w[First(S)] + Total(w, S \ {First(S)})
<1> DEFINE i == Iter(w, S) W == S \ {First(S)}
<1>1. IsIter(i, w, S)
  BY IterExists
<1>2. i[S] = IF S = {} THEN 0 ELSE w[First(S)] + i[W]
  <2> HIDE DEF i
  <2> QED  BY <1>1 DEF IsIter
<1>3. IsFiniteSet(W) /\ W \subseteq S
  BY FS_RemoveElement
<1>4. i[W] = Iter(w, W)[W]
  <2>1. IsIter(Iter(w, W), w, W)
    BY <1>3, IterExists
  <2> HIDE DEF i, W
  <2> QED BY <1>1, <1>3, <2>1, IterUnique
<1> QED  BY <1>2, <1>4, TotalIsIter

-----------------------------------------------------------------------------
(* Sums of the values of a function *)

LEMMA TotalEmpty == \A w : Total(w, {}) = 0
  BY TotalStep, FS_EmptySet

LEMMA TotalInt ==
  ASSUME NEW S, IsFiniteSet(S), NEW w, \A x \in S : w[x] \in Int
  PROVE  Total(w, S) \in Int
<1> DEFINE T == {U \in SUBSET S : Total(w, U) \notin Int}
<1> SUFFICES ASSUME T # {} PROVE FALSE
  OBVIOUS
<1>1. PICK m \in T : \A y \in T : y \subseteq m => y = m
  <2>1. T \subseteq SUBSET S
    OBVIOUS
  <2> HIDE DEF T
  <2> QED  BY SmallestSubset, <2>1
<1>2. IsFiniteSet(m)
  BY <1>1, FS_Subset
<1>3. Total(w, m) = IF m = {} THEN 0 ELSE w[First(m)] + Total(w, m \ {First(m)})
  BY <1>2, TotalStep
<1>4. m # {}
  BY <1>1, <1>3
<1>5. First(m) \in m
  BY <1>4, FirstIn
<1>6. Total(w, m \ {First(m)}) \in Int
  BY <1>1, <1>5
<1> QED  BY <1>1, <1>3, <1>4, <1>5, <1>6

LEMMA TotalNat ==
  ASSUME NEW S, IsFiniteSet(S), NEW w, \A x \in S : w[x] \in Nat
  PROVE  Total(w, S) \in Nat
<1> DEFINE T == {U \in SUBSET S : Total(w, U) \notin Nat}
<1> SUFFICES ASSUME T # {} PROVE FALSE
  OBVIOUS
<1>1. PICK m \in T : \A y \in T : y \subseteq m => y = m
  <2>1. T \subseteq SUBSET S
    OBVIOUS
  <2> HIDE DEF T
  <2> QED  BY SmallestSubset, <2>1
<1>2. IsFiniteSet(m)
  BY <1>1, FS_Subset
<1>3. Total(w, m) = IF m = {} THEN 0 ELSE w[First(m)] + Total(w, m \ {First(m)})
  BY <1>2, TotalStep
<1>4. m # {}
  BY <1>1, <1>3
<1>5. First(m) \in m
  BY <1>4, FirstIn
<1>6. Total(w, m \ {First(m)}) \in Nat
  BY <1>1, <1>5
<1> QED  BY <1>1, <1>3, <1>4, <1>5, <1>6

\* A sum does not depend on the order in which MapThenSumSet takes the elements:
\* any of them may be the first, so that the quantities of a book add up to one
\* number whatever order its queues are walked in.
THEOREM TotalRemove ==
  ASSUME NEW S, IsFiniteSet(S), NEW w, \A x \in S : w[x] \in Int, NEW x \in S
  PROVE  Total(w, S) = w[x] + Total(w, S \ {x})
<1> DEFINE T == {U \in SUBSET S : ~ \A y \in U : Total(w, U) = w[y] + Total(w, U \ {y})}
<1> SUFFICES ASSUME T # {} PROVE FALSE
  OBVIOUS
<1>1. PICK m \in T : \A y \in T : y \subseteq m => y = m
  <2>1. T \subseteq SUBSET S
    OBVIOUS
  <2> HIDE DEF T
  <2> QED  BY SmallestSubset, <2>1
<1>2. PICK y \in m : Total(w, m) # w[y] + Total(w, m \ {y})
  BY <1>1
<1> DEFINE f == First(m)
<1>3. IsFiniteSet(m) /\ m \subseteq S
  BY <1>1, FS_Subset
<1>4. f \in m /\ Total(w, m) = w[f] + Total(w, m \ {f})
  BY <1>2, <1>3, TotalStep, FirstIn
<1> HIDE DEF f
<1>5. f # y
  BY <1>2, <1>4
<1>6. m \ {f} \notin T /\ m \ {y} \notin T
  BY <1>1, <1>2, <1>4
<1>7. /\ Total(w, m \ {f}) = w[y] + Total(w, (m \ {f}) \ {y})
      /\ Total(w, m \ {y}) = w[f] + Total(w, (m \ {y}) \ {f})
  BY <1>2, <1>3, <1>4, <1>5, <1>6
<1>8. (m \ {f}) \ {y} = (m \ {y}) \ {f}
  OBVIOUS
<1>9. IsFiniteSet((m \ {f}) \ {y})
  BY <1>3, FS_RemoveElement
<1>10. Total(w, (m \ {f}) \ {y}) \in Int /\ w[y] \in Int /\ w[f] \in Int
  BY <1>2, <1>3, <1>4, <1>9, TotalInt
<1> DEFINE z == Total(w, (m \ {f}) \ {y})
<1>11. w[f] + (w[y] + z) = w[y] + (w[f] + z)
  BY <1>10
<1>12. Total(w, m) = w[f] + (w[y] + z) /\ Total(w, m \ {y}) = w[f] + z
  BY <1>4, <1>7, <1>8
<1> HIDE DEF T, z
<1> QED  BY <1>2, <1>11, <1>12

LEMMA TotalAdd ==
  ASSUME NEW S, IsFiniteSet(S), NEW w, NEW x, x \notin S,
         \A y \in S \cup {x} : w[y] \in Int
  PROVE  Total(w, S \cup {x}) = w[x] + Total(w, S)
<1>1. IsFiniteSet(S \cup {x}) /\ (S \cup {x}) \ {x} = S
  BY FS_AddElement
<1> QED  BY <1>1, TotalRemove

LEMMA TotalUnion ==
  ASSUME NEW S, IsFiniteSet(S), NEW R, IsFiniteSet(R), S \cap R = {}, NEW w,
         \A x \in S \cup R : w[x] \in Int
  PROVE  Total(w, S \cup R) = Total(w, S) + Total(w, R)
<1> DEFINE T == {U \in SUBSET R : Total(w, S \cup U) = Total(w, S) + Total(w, U)}
<1>1. {} \in T
  <2>1. S \cup {} = S /\ Total(w, S) \in Int
    BY TotalInt
  <2> QED  BY <2>1, TotalEmpty
<1>2. ASSUME NEW U \in SUBSET R, NEW x \in R \ U, U \in T
      PROVE  U \cup {x} \in T
  <2>1. IsFiniteSet(U) /\ IsFiniteSet(S \cup U)
    BY FS_Subset, FS_Union
  <2>2. Total(w, U \cup {x}) = w[x] + Total(w, U)
    BY <2>1, TotalAdd
  <2>3. Total(w, (S \cup U) \cup {x}) = w[x] + Total(w, S \cup U)
    <3>1. x \notin S \cup U /\ \A y \in (S \cup U) \cup {x} : w[y] \in Int
      OBVIOUS
    <3> QED  BY <2>1, <3>1, TotalAdd
  <2>4. (S \cup U) \cup {x} = S \cup (U \cup {x})
    OBVIOUS
  <2>5. Total(w, U) \in Int /\ Total(w, S) \in Int
    BY <2>1, TotalInt
  <2>6. w[x] \in Int
    OBVIOUS
  <2>7. Total(w, S \cup U) = Total(w, S) + Total(w, U)
    BY <1>2
  <2>8. Total(w, S \cup (U \cup {x})) = Total(w, S) + Total(w, U \cup {x})
    <3> DEFINE a == Total(w, S) b == Total(w, U)
    <3>1. Total(w, S \cup (U \cup {x})) = w[x] + (a + b) /\ Total(w, U \cup {x}) = w[x] + b
      BY <2>2, <2>3, <2>4, <2>7
    <3>2. w[x] + (a + b) = a + (w[x] + b)
      BY <2>5, <2>6
    <3> HIDE DEF a, b, T
    <3> QED  BY <3>1, <3>2 DEF a
  <2> QED  BY <2>8
<1> HIDE DEF T
<1>3. R \in T
  BY <1>1, <1>2, GrowingSubsets
<1> QED  BY <1>3 DEF T

\* Only the values on the set matter.
LEMMA TotalSame ==
  ASSUME NEW S, IsFiniteSet(S), NEW w, NEW v,
         \A x \in S : w[x] = v[x] /\ w[x] \in Int
  PROVE  Total(w, S) = Total(v, S)
<1> DEFINE T == {U \in SUBSET S : Total(w, U) = Total(v, U)}
<1>1. {} \in T
  BY TotalEmpty
<1>2. ASSUME NEW U \in SUBSET S, NEW x \in S \ U, U \in T
      PROVE  U \cup {x} \in T
  <2>1. IsFiniteSet(U)
    BY FS_Subset
  <2>2. Total(w, U \cup {x}) = w[x] + Total(w, U) /\ Total(v, U \cup {x}) = v[x] + Total(v, U)
    BY <2>1, TotalAdd
  <2> QED  BY <1>2, <2>2
<1> HIDE DEF T
<1>3. S \in T
  BY <1>1, <1>2, GrowingSubsets
<1> QED  BY <1>3 DEF T

\* The sum of sums is the sum of both.
LEMMA TotalPlus ==
  ASSUME NEW S, IsFiniteSet(S), NEW w, NEW v, NEW u,
         \A x \in S : w[x] \in Int /\ v[x] \in Int /\ u[x] = w[x] + v[x]
  PROVE  Total(u, S) = Total(w, S) + Total(v, S)
<1> DEFINE T == {U \in SUBSET S : Total(u, U) = Total(w, U) + Total(v, U)}
<1>1. {} \in T
  BY TotalEmpty
<1>2. ASSUME NEW U \in SUBSET S, NEW x \in S \ U, U \in T
      PROVE  U \cup {x} \in T
  <2>1. IsFiniteSet(U)
    BY FS_Subset
  <2>2. /\ Total(w, U \cup {x}) = w[x] + Total(w, U)
        /\ Total(v, U \cup {x}) = v[x] + Total(v, U)
        /\ Total(u, U \cup {x}) = u[x] + Total(u, U)
    <3>1. \A y \in U \cup {x} : w[y] \in Int /\ v[y] \in Int /\ u[y] \in Int
      OBVIOUS
    <3> HIDE DEF T
    <3> QED  BY <2>1, <3>1, TotalAdd
  <2>3. Total(w, U) \in Int /\ Total(v, U) \in Int
    BY <2>1, TotalInt
  <2>4. w[x] \in Int /\ v[x] \in Int /\ u[x] = w[x] + v[x]
    OBVIOUS
  <2>5. Total(u, U) = Total(w, U) + Total(v, U)
    BY <1>2
  <2>6. Total(u, U \cup {x}) = Total(w, U \cup {x}) + Total(v, U \cup {x})
    BY <2>2, <2>3, <2>4, <2>5
  <2> QED  BY <2>6
<1> HIDE DEF T
<1>3. S \in T
  BY <1>1, <1>2, GrowingSubsets
<1> QED  BY <1>3 DEF T

LEMMA TotalAtMost ==
  ASSUME NEW S, IsFiniteSet(S), NEW w, NEW v,
         \A x \in S : w[x] \in Int /\ v[x] \in Int /\ w[x] <= v[x]
  PROVE  Total(w, S) <= Total(v, S)
<1> DEFINE T == {U \in SUBSET S : Total(w, U) <= Total(v, U)}
<1>1. {} \in T
  BY TotalEmpty
<1>2. ASSUME NEW U \in SUBSET S, NEW x \in S \ U, U \in T
      PROVE  U \cup {x} \in T
  <2>1. IsFiniteSet(U)
    BY FS_Subset
  <2>2. Total(w, U \cup {x}) = w[x] + Total(w, U) /\ Total(v, U \cup {x}) = v[x] + Total(v, U)
    BY <2>1, TotalAdd
  <2>3. Total(w, U) \in Int /\ Total(v, U) \in Int
    BY <2>1, TotalInt
  <2> QED  BY <1>2, <2>2, <2>3
<1> HIDE DEF T
<1>3. S \in T
  BY <1>1, <1>2, GrowingSubsets
<1> QED  BY <1>3 DEF T

LEMMA TotalZero ==
  ASSUME NEW S, IsFiniteSet(S), NEW w, \A x \in S : w[x] = 0
  PROVE  Total(w, S) = 0
<1>1. \A x \in S : w[x] \in Int /\ w[x] = w[x] + w[x]
  OBVIOUS
<1>2. Total(w, S) \in Int
  BY <1>1, TotalInt
<1>3. Total(w, S) = Total(w, S) + Total(w, S)
  BY <1>1, TotalPlus
<1> DEFINE t == Total(w, S)
<1>4. t \in Int /\ t = t + t
  BY <1>2, <1>3
<1> HIDE DEF t
<1>5. t = 0
  BY <1>4
<1> QED  BY <1>5 DEF t

\* What has no weight adds nothing.
LEMMA TotalWithin ==
  ASSUME NEW S, IsFiniteSet(S), NEW L \in SUBSET S, NEW w, \A x \in S : w[x] \in Int,
         \A x \in S \ L : w[x] = 0
  PROVE  Total(w, S) = Total(w, L)
<1> DEFINE M == S \ L
<1>1. IsFiniteSet(L) /\ IsFiniteSet(M) /\ L \cap M = {} /\ L \cup M = S
  BY FS_Subset
<1>2. Total(w, M) = 0
  BY <1>1, TotalZero
<1> HIDE DEF M
<1>3. Total(w, L) \in Int
  BY <1>1, TotalInt
<1>4. Total(w, L \cup M) = Total(w, L) + Total(w, M)
  BY <1>1, TotalUnion
<1> DEFINE t == Total(w, L)
<1>5. Total(w, S) = t + 0 /\ t \in Int
  BY <1>1, <1>2, <1>3, <1>4
<1> HIDE DEF t
<1>6. Total(w, S) = t
  BY <1>5
<1> QED  BY <1>6 DEF t

\* A sum over the images of a set is a sum over the set when no two elements
\* have the same image.
LEMMA TotalImage ==
  ASSUME NEW S, IsFiniteSet(S), NEW g, NEW w, NEW v,
         \A x \in S : v[x] = w[g[x]] /\ v[x] \in Int,
         \A x, y \in S : g[x] = g[y] => x = y
  PROVE  /\ IsFiniteSet({g[x] : x \in S})
         /\ Total(w, {g[x] : x \in S}) = Total(v, S)
<1> DEFINE I(U) == {g[x] : x \in U}
           T == {U \in SUBSET S : IsFiniteSet(I(U)) /\ Total(w, I(U)) = Total(v, U)}
<1>1. {} \in T
  <2>1. I({}) = {}
    OBVIOUS
  <2> QED  BY <2>1, TotalEmpty, FS_EmptySet
<1>2. ASSUME NEW U \in SUBSET S, NEW x \in S \ U, U \in T
      PROVE  U \cup {x} \in T
  <2>1. IsFiniteSet(U) /\ IsFiniteSet(I(U))
    BY <1>2, FS_Subset
  <2>2. I(U \cup {x}) = I(U) \cup {g[x]} /\ g[x] \notin I(U)
    OBVIOUS
  <2>3. \A y \in I(U) \cup {g[x]} : w[y] \in Int
    OBVIOUS
  <2>4. Total(v, U \cup {x}) = v[x] + Total(v, U)
    BY <2>1, TotalAdd
  <2>5. IsFiniteSet(I(U) \cup {g[x]})
    BY <2>1, FS_AddElement
  <2> DEFINE J == I(U)
  <2>6. Total(w, J \cup {g[x]}) = w[g[x]] + Total(w, J)
    <3>1. IsFiniteSet(J) /\ g[x] \notin J /\ \A y \in J \cup {g[x]} : w[y] \in Int
      BY <2>1, <2>2, <2>3
    <3> HIDE DEF J, T
    <3> QED  BY <3>1, TotalAdd
  <2> QED  BY <1>2, <2>2, <2>4, <2>5, <2>6
<1> HIDE DEF T
<1>3. S \in T
  BY <1>1, <1>2, GrowingSubsets
<1> QED  BY <1>3 DEF T

-----------------------------------------------------------------------------
(* Sums of an operator *)

Weights(S) == [x \in S |-> Weight(x)]

\* The sum of the operator is the sum of its values as a function.
LEMMA SumIsTotal ==
  ASSUME NEW S, IsFiniteSet(S)
  PROVE  Sum(S) = Total(Weights(S), S)
<1> DEFINE W == Weights(S)
           P(f) == f = [s \in SUBSET S |-> IF s = {} THEN 0
                                           ELSE Weight(First(s)) + f[s \ {First(s)}]]
           i == CHOOSE f : P(f)
<1>1. Sum(S) = i[S]
  BY DEF Sum, First, MapThenSumSet, MapThenFoldSet
<1>2. \A f : P(f) <=> IsIter(f, W, S)
  <2>1. \A s \in SUBSET S : s # {} => W[First(s)] = Weight(First(s))
    BY FirstIn DEF Weights
  <2> TAKE f
  <2> HIDE DEF W
  <2>2. [s \in SUBSET S |-> IF s = {} THEN 0 ELSE Weight(First(s)) + f[s \ {First(s)}]]
          = [s \in SUBSET S |-> IF s = {} THEN 0 ELSE W[First(s)] + f[s \ {First(s)}]]
    BY <2>1
  <2> QED  BY <2>2 DEF IsIter
<1> HIDE DEF W, P
<1>3. IsIter(Iter(W, S), W, S)
  BY IterExists
<1>4. P(i)
  BY <1>2, <1>3
<1>5. IsIter(i, W, S)
  BY <1>2, <1>4
<1> HIDE DEF i
<1>6. i[S] = Iter(W, S)[S]
  BY <1>3, <1>5, IterUnique
<1> QED  BY <1>1, <1>6, TotalIsIter DEF W

\* With any function that has those values on the set.
LEMMA SumOf ==
  ASSUME NEW S, IsFiniteSet(S), NEW w,
         \A x \in S : w[x] = Weight(x) /\ Weight(x) \in Int
  PROVE  Sum(S) = Total(w, S)
<1>1. \A x \in S : Weights(S)[x] = w[x] /\ Weights(S)[x] \in Int
  BY DEF Weights
<1>2. Total(Weights(S), S) = Total(w, S)
  <2> DEFINE v == Weights(S)
  <2> HIDE DEF v
  <2>1. \A x \in S : v[x] = w[x] /\ v[x] \in Int
    BY <1>1 DEF v
  <2>2. Total(v, S) = Total(w, S)
    BY <2>1, TotalSame
  <2> QED  BY <2>2 DEF v
<1> QED  BY <1>2, SumIsTotal
=============================================================================
