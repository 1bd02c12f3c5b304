------------------------- MODULE StrategyRunProofs -------------------------
(***************************************************************************)
(* Theorems about the strategy over a whole run, for any catalog and any   *)
(* limits whose sum does not wrap, whatever is refused on the way.         *)
(***************************************************************************)
EXTENDS StrategyRun, StrategyProofs, TLAPS

price == [i \in DOMAIN catalog |-> catalog[i].offer.amount]

Rest == Candidates(catalog, bought \cup refused, goal)

RunTypes ==
    /\ IsCatalog(catalog)
    /\ \A i \in DOMAIN catalog : catalog[i].id = i
    /\ goal.maxTotal \in Limits /\ goal.maxPerItem \in Limits

\* What has been bought is within the goal, and nothing that is left comes
\* before it in the order of the sort.
CheapestFirst ==
    /\ bought \subseteq Candidates(catalog, {}, goal)
    /\ spent = Cost(bought)
    /\ spent <= goal.maxTotal
    /\ \A i \in bought, j \in Rest : Precedes(catalog, i, j)

\* With nothing left to wrap, an item fits if its price does.
LEMMA FitsByPrice ==
    ASSUME SafeConstants, RunTypes, CheapestFirst
    PROVE  /\ spent \in Nat /\ goal.maxTotal \in Nat
           /\ IsFiniteSet(bought)
           /\ \A i \in DOMAIN catalog : price[i] \in Nat /\ price[i] = catalog[i].offer.amount
           /\ \A i \in Rest : /\ i \in DOMAIN catalog
                              /\ Plus(spent, price[i]) = spent + price[i]
           /\ Fitting(catalog, spent, bought \cup refused, goal) =
                 {i \in Rest : spent + price[i] <= goal.maxTotal}
<1>1. /\ IntMax \in Nat
      /\ goal.maxTotal \in 1..IntMax /\ goal.maxPerItem \in 1..IntMax
      /\ goal.maxTotal + goal.maxPerItem <= IntMax
  BY AmountsAssumption DEF RunTypes, SafeConstants
<1>2. \A i \in DOMAIN catalog : price[i] \in Nat /\ price[i] = catalog[i].offer.amount
  BY DEF RunTypes, IsCatalog, price
<1>3. bought \in SUBSET (DOMAIN catalog)
  BY DEF CheapestFirst, Candidates
<1>4. IsFiniteSet(bought)
  BY <1>3, FS_Subset DEF RunTypes, IsCatalog
<1>5. spent = SumFunctionOnSet(price, bought)
  BY DEF CheapestFirst, Cost, price
<1>6. spent \in Nat /\ spent <= goal.maxTotal
  BY <1>2, <1>3, <1>4, <1>5, SumNat DEF CheapestFirst
<1>7. ASSUME NEW i \in Rest
      PROVE  i \in DOMAIN catalog /\ Plus(spent, price[i]) = spent + price[i]
  <2>1. i \in DOMAIN catalog /\ price[i] <= goal.maxPerItem /\ price[i] \in Nat
    BY <1>2 DEF Rest, Candidates
  <2>2. spent + price[i] \in Nat /\ ~(spent + price[i] > IntMax)
    BY <1>1, <1>6, <2>1
  <2>3. Plus(spent, price[i]) = spent + price[i]
    BY <1>1, <2>2 DEF Plus, Width
  <2> QED
    BY <2>1, <2>3
<1>8. Fitting(catalog, spent, bought \cup refused, goal) =
         {i \in Rest : spent + price[i] <= goal.maxTotal}
  <2>1. Fitting(catalog, spent, bought \cup refused, goal) =
           {i \in Rest : Plus(spent, catalog[i].offer.amount) <= goal.maxTotal}
    BY DEF Fitting, Rest
  <2>2. \A i \in Rest : Plus(spent, catalog[i].offer.amount) = spent + price[i]
    BY <1>2, <1>7
  <2> QED
    BY <2>1, <2>2
<1> QED
  BY <1>1, <1>2, <1>4, <1>6, <1>7, <1>8

LEMMA PickedFits ==
    ASSUME SafeConstants, RunTypes, CheapestFirst
    PROVE  /\ Picked = 0 =>
                 \A i \in Rest : spent + price[i] > goal.maxTotal
           /\ Picked # 0 =>
                 /\ Picked \in Rest
                 /\ spent + price[Picked] <= goal.maxTotal
                 /\ \A i \in Rest : Precedes(catalog, Picked, i)
<1> DEFINE fitting == Fitting(catalog, spent, bought \cup refused, goal)
<1>1. fitting = {i \in Rest : spent + price[i] <= goal.maxTotal}
  BY FitsByPrice
<1>2. /\ Picked = 0 => fitting = {}
      /\ Picked # 0 => Picked \in fitting /\ \A j \in fitting : Precedes(catalog, Picked, j)
  BY PickedIsFirst DEF RunTypes, Picked
<1> HIDE DEF fitting
<1>3. ASSUME Picked = 0, NEW i \in Rest
      PROVE  spent + price[i] > goal.maxTotal
  <2>1. ~(spent + price[i] <= goal.maxTotal)
    BY <1>1, <1>2, <1>3
  <2> QED
    BY <2>1, FitsByPrice
<1>4. ASSUME Picked # 0, NEW i \in Rest
      PROVE  Precedes(catalog, Picked, i)
  <2>1. /\ Picked \in Rest /\ spent + price[Picked] <= goal.maxTotal
        /\ spent \in Nat /\ goal.maxTotal \in Nat
        /\ price[i] \in Nat /\ price[i] = catalog[i].offer.amount
        /\ price[Picked] \in Nat /\ price[Picked] = catalog[Picked].offer.amount
    BY <1>1, <1>2, <1>4, FitsByPrice
  <2>2. CASE i \in fitting
    BY <1>2, <1>4, <2>2
  <2>3. CASE i \notin fitting
    <3>1. ~(spent + price[i] <= goal.maxTotal)
      BY <1>1, <2>3
    <3>2. price[Picked] < price[i]
      BY <2>1, <3>1
    <3> QED
      BY <2>1, <3>2 DEF Precedes
  <2> QED
    BY <2>2, <2>3
<1> QED
  BY <1>1, <1>2, <1>3, <1>4

LEMMA InitRun ==
    ASSUME SafeConstants, Init
    PROVE  RunTypes /\ CheapestFirst
<1>1. PICK n \in 0..Length : \E prices \in [1..n -> Prices] :
         catalog = [i \in DOMAIN prices |->
                       [id |-> i,
                        offer |-> [amount |-> prices[i], currency |-> "usd"]]]
  BY DEF Init, Items
<1>2. PICK prices \in [1..n -> Prices] :
         catalog = [i \in DOMAIN prices |->
                       [id |-> i,
                        offer |-> [amount |-> prices[i], currency |-> "usd"]]]
  BY <1>1
<1>3. n \in Nat /\ DOMAIN catalog = 1..n
  BY <1>2 DEF SafeConstants
<1>4. \A i \in 1..n : catalog[i].id = i /\ catalog[i].offer.amount \in Prices
  BY <1>2
<1>5. goal.maxTotal \in Limits /\ goal.maxPerItem \in Limits
  BY DEF Init
<1>6. \A i \in 1..n : i \in Nat \ {0} /\ catalog[i].offer.amount \in Nat
  <2>1. IntMax \in Nat /\ Prices \subseteq 1..IntMax
    BY AmountsAssumption DEF SafeConstants
  <2>2. \A i \in 1..n : catalog[i].offer.amount \in 1..IntMax
    BY <1>4, <2>1
  <2>3. \A i \in 1..n : i \in Nat \ {0}
    BY <1>3
  <2> QED
    BY <2>1, <2>2, <2>3
<1>7. IsFiniteSet(1..n)
  BY <1>3, FS_Interval
<1>8. RunTypes
  BY <1>3, <1>4, <1>5, <1>6, <1>7 DEF RunTypes, IsCatalog
<1>9. Cost({}) = 0
  BY SumEmpty DEF Cost
<1>10. bought = {} /\ spent = 0
  BY DEF Init
<1>11. 0 <= goal.maxTotal
  <2>1. IntMax \in Nat /\ goal.maxTotal \in 1..IntMax
    BY <1>5, AmountsAssumption DEF SafeConstants
  <2> QED
    BY <2>1
<1>12. CheapestFirst
  BY <1>9, <1>10, <1>11 DEF CheapestFirst
<1> QED
  BY <1>8, <1>12

LEMMA NextRun ==
    ASSUME SafeConstants, RunTypes, CheapestFirst, [Next]_vars
    PROVE  RunTypes' /\ CheapestFirst'
<1>1. CASE UNCHANGED vars
  BY <1>1 DEF vars, RunTypes, CheapestFirst, Rest, Cost
<1>2. CASE Buy
  <2>1. UNCHANGED <<catalog, goal, refused, price>> /\ Picked # 0
    BY <1>2 DEF Buy, price
  <2>2. RunTypes'
    BY <2>1 DEF RunTypes
  <2>3. /\ Picked \in Rest /\ spent + price[Picked] <= goal.maxTotal
        /\ \A i \in Rest : Precedes(catalog, Picked, i)
    BY <2>1, PickedFits
  <2>4. /\ Picked \in DOMAIN catalog /\ Picked \notin bought
        /\ catalog[Picked].offer.amount <= goal.maxPerItem
        /\ catalog[Picked].id = Picked
    BY <2>3 DEF Rest, Candidates, RunTypes
  <2>5. bought' = bought \cup {Picked} /\ spent' = spent + price[Picked]
    BY <1>2, <2>3, <2>4, FitsByPrice DEF Buy
  <2>6. bought' \subseteq Candidates(catalog, {}, goal)
    BY <2>4, <2>5 DEF CheapestFirst, Candidates
  <2>7. Cost(bought)' = spent'
    <3>1. bought \in SUBSET (DOMAIN catalog)
      BY DEF CheapestFirst, Candidates
    <3>2. SumFunctionOnSet(price, bought \cup {Picked})
             = SumFunctionOnSet(price, bought) + price[Picked]
      BY <2>4, <3>1, FitsByPrice, SumAdd
    <3>3. Cost(bought)' = SumFunctionOnSet(price, bought \cup {Picked})
      BY <2>1, <2>5 DEF Cost, price
    <3>4. spent = SumFunctionOnSet(price, bought)
      BY DEF CheapestFirst, Cost, price
    <3> QED
      BY <2>5, <3>2, <3>3, <3>4
  <2>8. Rest' \subseteq Rest
    BY <2>1, <2>5 DEF Rest, Candidates
  <2>9. \A i \in bought', j \in Rest' : Precedes(catalog, i, j)
    BY <2>3, <2>5, <2>8 DEF CheapestFirst
  <2> QED
    BY <2>1, <2>2, <2>3, <2>5, <2>6, <2>7, <2>9 DEF CheapestFirst
<1>3. CASE Refuse
  <2>1. UNCHANGED <<catalog, goal, spent, bought>> /\ refused \subseteq refused'
    BY <1>3 DEF Refuse
  <2>2. Rest' \subseteq Rest
    BY <2>1 DEF Rest, Candidates
  <2> QED
    BY <2>1, <2>2 DEF RunTypes, CheapestFirst, Cost
<1> QED
  BY <1>1, <1>2, <1>3 DEF Next

LEMMA RunCorrect ==
    ASSUME SafeConstants
    PROVE  Spec => [](RunTypes /\ CheapestFirst)
<1>1. RunTypes /\ CheapestFirst /\ [Next]_vars => RunTypes' /\ CheapestFirst'
  BY NextRun
<1>2. Init => RunTypes /\ CheapestFirst
  BY InitRun
<1> QED
  BY <1>1, <1>2, PTL DEF Spec

\* Cheapest first is as good as any choice: with nothing refused, no selection
\* within the goal has more items than the loop has bought when it ends.
THEOREM GreedyIsBest ==
    ASSUME SafeConstants
    PROVE  Spec => []GreedyBuysTheMost
<1>1. RunTypes /\ CheapestFirst => GreedyBuysTheMost
  <2> SUFFICES ASSUME RunTypes, CheapestFirst, Picked = 0, refused = {},
                      NEW S \in SUBSET Candidates(catalog, {}, goal),
                      Cost(S) <= goal.maxTotal
               PROVE  Cardinality(S) <= Cardinality(bought)
    BY DEF GreedyBuysTheMost, CheapestFirst
  <2>1. /\ IsFiniteSet(DOMAIN catalog)
        /\ bought \in SUBSET (DOMAIN catalog) /\ S \in SUBSET (DOMAIN catalog)
    BY DEF RunTypes, IsCatalog, CheapestFirst, Candidates
  <2>2. Cardinality(S) \in Nat /\ Cardinality(bought) \in Nat
    BY <2>1, FS_Subset, FS_CardinalityType
  <2>3. S \ bought \subseteq Rest
    BY DEF Rest, Candidates, RunTypes
  <2>4. /\ \A i \in DOMAIN catalog : price[i] \in Nat /\ price[i] = catalog[i].offer.amount
        /\ spent \in Nat /\ goal.maxTotal \in Nat
    BY FitsByPrice
  <2>5. \A x \in bought, y \in S \ bought : price[x] <= price[y]
    <3> SUFFICES ASSUME NEW x \in bought, NEW y \in S \ bought
                 PROVE  price[x] <= price[y]
      OBVIOUS
    <3>1. Precedes(catalog, x, y)
      BY <2>3 DEF CheapestFirst
    <3> QED
      BY <2>1, <2>4, <3>1 DEF Precedes
  <2>6. /\ spent = SumFunctionOnSet(price, bought)
        /\ SumFunctionOnSet(price, S) \in Nat
        /\ SumFunctionOnSet(price, S) <= goal.maxTotal
    <3>1. IsFiniteSet(S)
      BY <2>1, FS_Subset
    <3>2. SumFunctionOnSet(price, S) \in Nat
      BY <2>1, <2>4, <3>1, SumNat
    <3> QED
      BY <3>2 DEF CheapestFirst, Cost, price
  <2>7. SUFFICES ASSUME Cardinality(bought) < Cardinality(S)
                 PROVE  FALSE
    BY <2>2
  <2>8. PICK y \in S \ bought :
           SumFunctionOnSet(price, bought) + price[y] <= SumFunctionOnSet(price, S)
    BY <2>1, <2>4, <2>5, <2>7, LargerCostsMore
  <2>9. spent + price[y] > goal.maxTotal
    BY <2>3, PickedFits
  <2> QED
    BY <2>1, <2>4, <2>6, <2>8, <2>9
<1> QED
  BY <1>1, RunCorrect, PTL
=============================================================================
