--------------------------- MODULE StrategyProofs ---------------------------
(***************************************************************************)
(* Facts about the strategy's choice, and about the sums of prices that    *)
(* its promises and the loop's are stated with.                            *)
(*                                                                         *)
(* Each induction is written as a smallest counterexample: among the       *)
(* subsets of a finite set for which a claim fails, one has no smaller one *)
(* (SmallestSet), and that one is refuted.                                 *)
(***************************************************************************)
EXTENDS Strategy, FiniteSetTheorems, TLAPS

-----------------------------------------------------------------------------
(* Sums over finite sets.  SumFunctionOnSet of the community modules is a  *)
(* recursive function that takes the elements in an order CHOOSE picks;    *)
(* the lemmas show that the order does not matter.                         *)

\* The element that the fold takes first.
Some(s) == CHOOSE x \in s : TRUE

\* f is the table of sums over the subsets of S.
Sums(f, w, S) ==
    f = [s \in SUBSET S |->
            IF s = {} THEN 0 ELSE w[Some(s)] + f[s \ {Some(s)}]]

\* SumFunctionOnSet is the entry for S in the table of sums of S.
LEMMA SumDef ==
    ASSUME NEW w, NEW S
    PROVE  SumFunctionOnSet(w, S) = (CHOOSE f : Sums(f, w, S))[S]
  BY Zenon DEF SumFunctionOnSet, FoldFunctionOnSet, MapThenFoldSet, Sums, Some

\* A set of subsets of a finite set has a member that is smallest in it.
LEMMA SmallestSet ==
    ASSUME NEW S, IsFiniteSet(S), NEW T, T \subseteq SUBSET S, T # {}
    PROVE  \E x \in T : \A y \in T : y \subseteq x => y = x
<1>1. IsWellFoundedOn(StrictSubsetOrdering(S), SUBSET S)
  BY FS_StrictSubsetOrderingWellFounded, FS_FiniteSubsetsOfFinite
<1>2. PICK x \in T : \A y \in T : ~ (<<y, x>> \in StrictSubsetOrdering(S))
  BY <1>1, WFMin, Zenon
<1>. QED
  BY <1>2 DEF StrictSubsetOrdering

\* A set that is not empty has an element to take.
LEMMA SomeIn ==
    ASSUME NEW s, s # {}
    PROVE  Some(s) \in s
  BY DEF Some

\* Two tables agree wherever both are defined.
LEMMA SumsAgree ==
    ASSUME NEW w, NEW S, NEW T, IsFiniteSet(S),
           NEW f, Sums(f, w, S), NEW g, Sums(g, w, T)
    PROVE  \A s \in SUBSET (S \cap T) : f[s] = g[s]
<1>. DEFINE Bad == {s \in SUBSET (S \cap T) : f[s] # g[s]}
<1>1. SUFFICES ASSUME Bad # {} PROVE FALSE
  OBVIOUS
<1>2. PICK s \in Bad : \A u \in Bad : u \subseteq s => u = s
  <2>1. IsFiniteSet(S \cap T) /\ Bad \subseteq SUBSET (S \cap T)
    BY FS_Subset
  <2>. HIDE DEF Bad
  <2>. QED
    BY <1>1, <2>1, SmallestSet
<1>3. s # {}
  BY <1>2 DEF Sums
<1>. DEFINE x == Some(s)
            r == s \ {x}
<1>4. x \in s
  BY <1>3, SomeIn
<1>5. r \subseteq s /\ r # s /\ r \in SUBSET (S \cap T)
  BY <1>2, <1>4
<1>6. f[r] = g[r]
  BY <1>2, <1>5
<1>7. f[s] = w[x] + f[r] /\ g[s] = w[x] + g[r]
  <2>1. s \in SUBSET S /\ s \in SUBSET T
    BY <1>2
  <2>. QED
    BY <2>1, <1>3 DEF Sums
<1>. QED
  BY <1>2, <1>6, <1>7

\* There is a table of sums for every finite set.
LEMMA SumsExist ==
    ASSUME NEW w, NEW S, IsFiniteSet(S)
    PROVE  \E f : Sums(f, w, S)
<1>. DEFINE Bad == {s \in SUBSET S : ~ \E f : Sums(f, w, s)}
<1>1. SUFFICES ASSUME Bad # {} PROVE FALSE
  OBVIOUS
<1>2. PICK t \in Bad : \A u \in Bad : u \subseteq t => u = t
  <2>1. Bad \subseteq SUBSET S
    OBVIOUS
  <2>. HIDE DEF Bad
  <2>. QED
    BY <1>1, <2>1, SmallestSet
<1>. DEFINE table(u) == CHOOSE f : Sums(f, w, u)
            rest(s) == s \ {Some(s)}
            value(s) == IF s = {} THEN 0
                        ELSE w[Some(s)] + table(rest(s))[rest(s)]
            f == [s \in SUBSET t |-> value(s)]
<1>3. \A u \in SUBSET t : u # t => Sums(table(u), w, u)
  <2>1. SUFFICES ASSUME NEW u \in SUBSET t, u # t PROVE Sums(table(u), w, u)
    OBVIOUS
  <2>2. \E h : Sums(h, w, u)
    BY <1>2, <2>1
  <2>. QED
    BY <2>2, Zenon
<1>4. \A s \in SUBSET t : s # {} => rest(s) \in SUBSET s /\ rest(s) # s /\ rest(s) # t
  BY SomeIn
<1>5. ASSUME NEW s \in SUBSET t, s # t
      PROVE  table(s)[s] = value(s)
  <2>1. Sums(table(s), w, s)
    BY <1>3, <1>5
  <2>2. CASE s = {}
    BY <2>1, <2>2 DEF Sums
  <2>3. CASE s # {}
    <3>1. table(s)[s] = w[Some(s)] + table(s)[rest(s)]
      <4>. DEFINE h == table(s)
      <4>1. Sums(h, w, s)
        BY <2>1
      <4>. HIDE DEF h
      <4>2. h[s] = w[Some(s)] + h[rest(s)]
        BY <4>1, <2>3 DEF Sums
      <4>. QED
        BY <4>2 DEF h
    <3>2. Sums(table(rest(s)), w, rest(s))
      BY <1>3, <1>4, <2>3
    <3>3. IsFiniteSet(s)
      BY FS_Subset
    <3>4. rest(s) \in SUBSET (s \cap rest(s))
      BY <1>4, <2>3
    <3>5. table(s)[rest(s)] = table(rest(s))[rest(s)]
      <4>. HIDE DEF table, rest
      <4>. QED
        BY <2>1, <3>2, <3>3, <3>4, SumsAgree
    <3>. QED
      BY <3>1, <3>5, <2>3
  <2>. QED
    BY <2>2, <2>3
<1>6. \A s \in SUBSET t : s # {} => f[rest(s)] = table(rest(s))[rest(s)]
  BY <1>4, <1>5
<1>7. Sums(f, w, t)
  <2>. DEFINE sum(s) == IF s = {} THEN 0 ELSE w[Some(s)] + f[rest(s)]
  <2>1. ASSUME NEW s \in SUBSET t PROVE value(s) = sum(s)
    <3>1. CASE s = {}
      BY <3>1
    <3>2. CASE s # {}
      <4>1. f[rest(s)] = table(rest(s))[rest(s)]
        BY <1>6, <3>2
      <4>. HIDE DEF f, table, rest
      <4>. QED
        BY <4>1, <3>2
    <3>. QED
      BY <3>1, <3>2
  <2>2. f = [s \in SUBSET t |-> sum(s)]
    <3>. HIDE DEF value, sum
    <3>. QED
      BY <2>1
  <2>. HIDE DEF f
  <2>. QED
    BY <2>2 DEF Sums
<1>. QED
  BY <1>2, <1>7
-----------------------------------------------------------------------------
\* The empty sum.
LEMMA SumEmpty ==
    ASSUME NEW w
    PROVE  SumFunctionOnSet(w, {}) = 0
<1>. DEFINE f == CHOOSE f : Sums(f, w, {})
<1>1. Sums(f, w, {})
  BY SumsExist, FS_EmptySet, Zenon
<1>. HIDE DEF f
<1>2. f[{}] = 0
  BY <1>1 DEF Sums
<1>. QED
  BY <1>2, SumDef DEF f

\* The sum takes the element that CHOOSE picks first.
LEMMA SumSome ==
    ASSUME NEW w, NEW S, IsFiniteSet(S), S # {}
    PROVE  SumFunctionOnSet(w, S)
              = w[Some(S)] + SumFunctionOnSet(w, S \ {Some(S)})
<1>. DEFINE R == S \ {Some(S)}
            f == CHOOSE h : Sums(h, w, S)
            g == CHOOSE h : Sums(h, w, R)
<1>1. IsFiniteSet(R)
  BY FS_Subset
<1>2. Sums(f, w, S) /\ Sums(g, w, R)
  BY <1>1, SumsExist, Zenon
<1>3. SumFunctionOnSet(w, S) = f[S] /\ SumFunctionOnSet(w, R) = g[R]
  BY SumDef, Zenon
<1>4. R \in SUBSET (S \cap R)
  OBVIOUS
<1>. HIDE DEF f, g
<1>5. f[S] = w[Some(S)] + f[R]
  BY <1>2 DEF Sums
<1>. HIDE DEF R
<1>6. f[R] = g[R]
  BY <1>2, <1>4, SumsAgree
<1>7. SumFunctionOnSet(w, S) = w[Some(S)] + SumFunctionOnSet(w, R)
  BY <1>3, <1>5, <1>6
<1>. QED
  BY <1>7 DEF R

\* Sums of natural numbers are natural numbers.
LEMMA SumNat ==
    ASSUME NEW w, NEW S, IsFiniteSet(S), \A x \in S : w[x] \in Nat
    PROVE  SumFunctionOnSet(w, S) \in Nat
<1>. DEFINE Bad == {s \in SUBSET S : SumFunctionOnSet(w, s) \notin Nat}
<1>1. SUFFICES ASSUME Bad # {} PROVE FALSE
  OBVIOUS
<1>2. PICK s \in Bad : \A u \in Bad : u \subseteq s => u = s
  <2>1. Bad \subseteq SUBSET S
    OBVIOUS
  <2>. HIDE DEF Bad
  <2>. QED
    BY <1>1, <2>1, SmallestSet
<1>3. s # {}
  <2>1. SumFunctionOnSet(w, {}) = 0
    BY SumEmpty
  <2>2. SumFunctionOnSet(w, s) \notin Nat
    BY <1>2
  <2>3. 0 \in Nat
    OBVIOUS
  <2>. QED
    BY <2>1, <2>2, <2>3, Zenon
<1>4. IsFiniteSet(s)
  BY FS_Subset
<1>5. Some(s) \in s
  BY <1>3, SomeIn
<1>6. SumFunctionOnSet(w, s \ {Some(s)}) \in Nat
  BY <1>2, <1>5
<1>7. SumFunctionOnSet(w, s) = w[Some(s)] + SumFunctionOnSet(w, s \ {Some(s)})
  BY <1>3, <1>4, SumSome
<1>. QED
  BY <1>2, <1>5, <1>6, <1>7

\* Whichever element is taken out, the rest is the sum without it.
LEMMA SumTake ==
    ASSUME NEW w, NEW S, IsFiniteSet(S), \A x \in S : w[x] \in Nat
    PROVE  \A x \in S : SumFunctionOnSet(w, S) = w[x] + SumFunctionOnSet(w, S \ {x})
<1>. DEFINE Sum(s) == SumFunctionOnSet(w, s)
            Bad == {s \in SUBSET S : \E x \in s : Sum(s) # w[x] + Sum(s \ {x})}
<1>1. SUFFICES ASSUME Bad # {} PROVE FALSE
  OBVIOUS
<1>2. PICK s \in Bad : \A u \in Bad : u \subseteq s => u = s
  <2>1. Bad \subseteq SUBSET S
    OBVIOUS
  <2>. HIDE DEF Bad
  <2>. QED
    BY <1>1, <2>1, SmallestSet
<1>3. PICK x \in s : Sum(s) # w[x] + Sum(s \ {x})
  BY <1>2
<1>. DEFINE c == Some(s)
            t == s \ {x, c}
<1>4. c \in s
  BY <1>3, SomeIn
<1>5. /\ IsFiniteSet(s) /\ IsFiniteSet(t)
      /\ s \in SUBSET S /\ t \in SUBSET S
  BY FS_Subset
<1>6. Sum(s) = w[c] + Sum(s \ {c})
  BY <1>3, <1>5, SumSome
<1>7. x # c
  BY <1>3, <1>6
<1>. HIDE DEF c
<1>8. Sum(s \ {c}) = w[x] + Sum(t)
  <2>1. s \ {c} \notin Bad /\ s \ {c} \in SUBSET S /\ x \in s \ {c}
    BY <1>2, <1>4, <1>7
  <2>2. (s \ {c}) \ {x} = t
    OBVIOUS
  <2>. QED
    BY <2>1, <2>2
<1>9. Sum(s \ {x}) = w[c] + Sum(t)
  <2>1. s \ {x} \notin Bad /\ s \ {x} \in SUBSET S /\ c \in s \ {x}
    BY <1>2, <1>4, <1>7
  <2>2. (s \ {x}) \ {c} = t
    OBVIOUS
  <2>. QED
    BY <2>1, <2>2
<1>10. w[x] \in Nat /\ w[c] \in Nat /\ Sum(t) \in Nat
  BY <1>4, <1>5, SumNat
<1>. HIDE DEF Sum, t
<1>. QED
  BY <1>3, <1>6, <1>8, <1>9, <1>10

\* A new element adds its weight.
LEMMA SumAdd ==
    ASSUME NEW w, NEW S, IsFiniteSet(S), \A y \in S : w[y] \in Nat,
           NEW x, w[x] \in Nat, x \notin S
    PROVE  SumFunctionOnSet(w, S \cup {x}) = SumFunctionOnSet(w, S) + w[x]
<1>1. IsFiniteSet(S \cup {x})
  BY FS_AddElement
<1>2. (S \cup {x}) \ {x} = S
  OBVIOUS
<1>3. SumFunctionOnSet(w, S \cup {x}) = w[x] + SumFunctionOnSet(w, S)
  BY <1>1, <1>2, SumTake
<1>. QED
  BY <1>3, SumNat

\* If the larger of two sets has, beyond the other, only elements that weigh at
\* least as much as those of the smaller, it weighs more by one of them.
LEMMA LargerCostsMore ==
    ASSUME NEW D, IsFiniteSet(D), NEW w, \A x \in D : w[x] \in Nat,
           NEW A \in SUBSET D, NEW B \in SUBSET D,
           Cardinality(A) < Cardinality(B),
           \A x \in A, y \in B \ A : w[x] <= w[y]
    PROVE  \E y \in B \ A : SumFunctionOnSet(w, A) + w[y] <= SumFunctionOnSet(w, B)
<1> DEFINE Sum(s) == SumFunctionOnSet(w, s)
           Covers(X, Y) == /\ Cardinality(X) < Cardinality(Y)
                           /\ \A x \in X, y \in Y \ X : w[x] <= w[y]
           Exceeds(X, Y) == \E y \in Y \ X : Sum(X) + w[y] <= Sum(Y)
           Bad == {X \in SUBSET D : \E Y \in SUBSET D : Covers(X, Y) /\ ~Exceeds(X, Y)}
<1>1. SUFFICES ASSUME Bad # {} PROVE FALSE
  <2> SUFFICES ASSUME ~Exceeds(A, B) PROVE A \in Bad
    BY DEF Bad
  <2>1. Covers(A, B)
    OBVIOUS
  <2> HIDE DEF Covers, Exceeds
  <2> QED
    BY <2>1
<1>2. PICK X \in Bad : \A U \in Bad : U \subseteq X => U = X
  <2>1. Bad \subseteq SUBSET D
    OBVIOUS
  <2> HIDE DEF Bad
  <2> QED
    BY <1>1, <2>1, SmallestSet
<1>3. X \in SUBSET D /\ \E Y \in SUBSET D : Covers(X, Y) /\ ~Exceeds(X, Y)
  <2> HIDE DEF Covers, Exceeds
  <2> QED
    BY <1>2
<1>4. PICK Y \in SUBSET D : Covers(X, Y) /\ ~Exceeds(X, Y)
  <2> HIDE DEF Covers, Exceeds
  <2> QED
    BY <1>3
<1>5. ASSUME NEW U \in SUBSET D, U \subseteq X, U # X, NEW V \in SUBSET D, Covers(U, V)
      PROVE  Exceeds(U, V)
  <2> HIDE DEF Covers, Exceeds
  <2> QED
    BY <1>2, <1>5
<1>6. ASSUME NEW Z \in SUBSET D
      PROVE  /\ IsFiniteSet(Z) /\ Cardinality(Z) \in Nat /\ Sum(Z) \in Nat
             /\ Z = {} <=> Cardinality(Z) = 0
             /\ \A z \in Z : /\ Cardinality(Z \ {z}) = Cardinality(Z) - 1
                             /\ Sum(Z) = w[z] + Sum(Z \ {z})
                             /\ Sum(Z \ {z}) \in Nat
  <2>1. IsFiniteSet(Z)
    BY FS_Subset
  <2>2. Cardinality(Z) \in Nat /\ (Z = {} <=> Cardinality(Z) = 0)
    BY <2>1, FS_CardinalityType, FS_EmptySet
  <2>3. Sum(Z) \in Nat
    BY <2>1, SumNat
  <2>4. \A z \in Z : Cardinality(Z \ {z}) = Cardinality(Z) - 1
    BY <2>1, FS_RemoveElement
  <2>5. \A z \in Z : Sum(Z) = w[z] + Sum(Z \ {z})
    BY <2>1, SumTake
  <2>6. \A z \in Z : Sum(Z \ {z}) \in Nat
    BY <2>1, FS_Subset, SumNat
  <2> QED
    BY <2>1, <2>2, <2>3, <2>4, <2>5, <2>6
<1>7. Sum({}) = 0
  BY SumEmpty
<1>8. PICK y \in Y \ X : TRUE
  <2> SUFFICES ASSUME Y \subseteq X PROVE FALSE
    OBVIOUS
  <2>1. Cardinality(Y) <= Cardinality(X)
    BY <1>3, <1>6, FS_Subset
  <2> QED
    BY <1>3, <1>4, <1>6, <2>1
<1> HIDE DEF Sum, Bad
<1>9. CASE X = {}
  <2>1. Sum(X) = 0
    BY <1>7, <1>9, Zenon
  <2>2. /\ Sum(Y) = w[y] + Sum(Y \ {y})
        /\ Sum(Y \ {y}) \in Nat /\ w[y] \in Nat
    BY <1>6, <1>8
  <2>3. Sum(X) + w[y] <= Sum(Y)
    BY <2>1, <2>2
  <2> QED
    BY <1>4, <1>8, <2>3
<1>10. CASE X # {}
  <2>1. CASE X \cap Y # {}
    <3>1. PICK x \in X \cap Y : TRUE
      BY <2>1
    <3>2. (Y \ {x}) \ (X \ {x}) = Y \ X
      BY <3>1
    <3>3. Covers(X \ {x}, Y \ {x})
      <4>1. Cardinality(X \ {x}) < Cardinality(Y \ {x})
        BY <1>3, <1>4, <1>6, <3>1
      <4>2. \A u \in X \ {x}, v \in (Y \ {x}) \ (X \ {x}) : w[u] <= w[v]
        BY <1>4, <3>2
      <4> QED
        BY <4>1, <4>2
    <3>4. Exceeds(X \ {x}, Y \ {x})
      <4> HIDE DEF Covers, Exceeds
      <4> QED
        BY <1>3, <1>5, <3>1, <3>3
    <3>5. PICK z \in Y \ X : Sum(X \ {x}) + w[z] <= Sum(Y \ {x})
      BY <3>2, <3>4
    <3>6. Sum(X) + w[z] <= Sum(Y)
      <4>1. /\ Sum(X) = w[x] + Sum(X \ {x}) /\ Sum(Y) = w[x] + Sum(Y \ {x})
            /\ Sum(X \ {x}) \in Nat /\ Sum(Y \ {x}) \in Nat
            /\ w[x] \in Nat /\ w[z] \in Nat
        BY <1>3, <1>6, <3>1
      <4> QED
        BY <3>5, <4>1
    <3> QED
      BY <1>4, <3>6
  <2>2. CASE X \cap Y = {}
    <3>1. PICK x \in X : TRUE
      BY <1>10
    <3>2. (Y \ {y}) \ (X \ {x}) \subseteq Y \ X
      BY <2>2
    <3>3. Covers(X \ {x}, Y \ {y})
      <4>1. Cardinality(X \ {x}) < Cardinality(Y \ {y})
        BY <1>3, <1>4, <1>6, <1>8, <3>1
      <4>2. \A u \in X \ {x}, v \in (Y \ {y}) \ (X \ {x}) : w[u] <= w[v]
        BY <1>4, <3>2
      <4> QED
        BY <4>1, <4>2
    <3>4. Exceeds(X \ {x}, Y \ {y})
      <4> HIDE DEF Covers, Exceeds
      <4> QED
        BY <1>3, <1>5, <3>1, <3>3
    <3>5. PICK z \in Y \ X : Sum(X \ {x}) + w[z] <= Sum(Y \ {y})
      BY <3>2, <3>4
    <3>6. Sum(X) + w[z] <= Sum(Y)
      <4>1. /\ Sum(X) = w[x] + Sum(X \ {x}) /\ Sum(Y) = w[y] + Sum(Y \ {y})
            /\ Sum(X \ {x}) \in Nat /\ Sum(Y \ {y}) \in Nat
            /\ w[x] \in Nat /\ w[y] \in Nat /\ w[z] \in Nat
        BY <1>3, <1>6, <1>8, <3>1
      <4>2. w[x] <= w[y]
        BY <1>4, <1>8, <3>1
      <4> QED
        BY <3>5, <4>1, <4>2
    <3> QED
      BY <1>4, <3>6
  <2> QED
    BY <2>1, <2>2
<1> QED
  BY <1>9, <1>10

-----------------------------------------------------------------------------
(* The strategy's choice                                                   *)

\* The sort order is a total order of the places.
LEMMA PrecedesOrders ==
    ASSUME NEW cat, NEW j \in Nat, NEW k \in Nat, NEW l \in Nat,
           cat[j].offer.amount \in Int, cat[k].offer.amount \in Int,
           cat[l].offer.amount \in Int
    PROVE  /\ Precedes(cat, j, j)
           /\ Precedes(cat, j, k) \/ Precedes(cat, k, j)
           /\ Precedes(cat, j, k) /\ Precedes(cat, k, l) => Precedes(cat, j, l)
BY DEF Precedes

\* A catalog has finitely many places, each with a price.
IsCatalog(cat) ==
    /\ IsFiniteSet(DOMAIN cat)
    /\ \A i \in DOMAIN cat : i \in Nat \ {0} /\ cat[i].offer.amount \in Nat

\* Among finitely many places of a catalog one is first in the order of the
\* stable sort by price.
LEMMA OneIsFirst ==
    ASSUME NEW cat, IsCatalog(cat), NEW S \in SUBSET (DOMAIN cat), S # {}
    PROVE  \E i \in S : \A j \in S : Precedes(cat, i, j)
<1> DEFINE First(P) == \E i \in P : \A j \in P : Precedes(cat, i, j)
           Bad == {P \in SUBSET (DOMAIN cat) : P # {} /\ ~First(P)}
<1>1. SUFFICES ASSUME Bad # {} PROVE FALSE
  OBVIOUS
<1>2. PICK P \in Bad : \A Q \in Bad : Q \subseteq P => Q = P
  <2>1. Bad \subseteq SUBSET (DOMAIN cat) /\ IsFiniteSet(DOMAIN cat)
    BY DEF IsCatalog
  <2> HIDE DEF Bad
  <2> QED
    BY <1>1, <2>1, SmallestSet
<1>3. PICK i \in P : TRUE
  BY <1>2
<1>4. ASSUME NEW m \in P PROVE m \in Nat /\ cat[m].offer.amount \in Int
  BY <1>2 DEF IsCatalog
<1>5. ASSUME NEW j \in P, NEW k \in P, NEW l \in P
      PROVE  /\ Precedes(cat, j, j)
             /\ Precedes(cat, j, k) \/ Precedes(cat, k, j)
             /\ Precedes(cat, j, k) /\ Precedes(cat, k, l) => Precedes(cat, j, l)
  BY <1>4, PrecedesOrders
<1>6. First(P)
  <2>1. CASE P \ {i} = {}
    <3>1. \A j \in P : j = i
      BY <2>1
    <3> QED
      BY <1>5, <3>1
  <2>2. CASE P \ {i} # {}
    <3>1. P \ {i} \notin Bad
      BY <1>2, <1>3
    <3>2. First(P \ {i})
      BY <1>2, <2>2, <3>1
    <3>3. PICK k \in P \ {i} : \A j \in P \ {i} : Precedes(cat, k, j)
      BY <3>2
    <3>4. CASE Precedes(cat, i, k)
      <4>1. \A j \in P : Precedes(cat, i, j)
        BY <1>5, <3>3, <3>4
      <4> QED
        BY <4>1
    <3>5. CASE Precedes(cat, k, i)
      <4>1. \A j \in P : Precedes(cat, k, j)
        BY <3>3, <3>5
      <4> QED
        BY <4>1
    <3> QED
      BY <1>5, <3>4, <3>5
  <2> QED
    BY <2>1, <2>2
<1> QED
  BY <1>2, <1>6

\* What the strategy picks is the first item, in the order of the sort, that
\* fits the goal; it picks none only if none fits.
LEMMA PickedIsFirst ==
    ASSUME NEW cat, IsCatalog(cat), NEW cost, NEW gone, NEW g
    PROVE  LET picked == PickNext(cat, cost, gone, g)
               fitting == Fitting(cat, cost, gone, g)
           IN  /\ picked = 0 => fitting = {}
               /\ picked # 0 => /\ picked \in fitting
                                /\ \A j \in fitting : Precedes(cat, picked, j)
<1> DEFINE picked == PickNext(cat, cost, gone, g)
           fitting == Fitting(cat, cost, gone, g)
<1>1. fitting \in SUBSET (DOMAIN cat)
  BY DEF Fitting, Candidates
<1>2. 0 \notin fitting
  BY <1>1 DEF IsCatalog
<1>3. CASE fitting = {}
  BY <1>3 DEF PickNext
<1>4. CASE fitting # {}
  <2>1. \E i \in fitting : \A j \in fitting : Precedes(cat, i, j)
    <3> HIDE DEF fitting
    <3> QED
      BY <1>1, <1>4, OneIsFirst
  <2>2. picked \in fitting /\ \A j \in fitting : Precedes(cat, picked, j)
    BY <1>4, <2>1, Zenon DEF PickNext
  <2> QED
    BY <1>2, <2>2
<1> QED
  BY <1>3, <1>4
=============================================================================
