-------------------------- MODULE OracleABCIProofs --------------------------
(***************************************************************************)
(* Proofs about the median, in closed form and as the code's loop computes *)
(* it, and about the ABCI handlers, for every validator set, every         *)
(* Byzantine behaviour of the model, every set of pairs and any number of  *)
(* blocks and rounds. The keeper's invariant is used as a lemma.           *)
(***************************************************************************)
EXTENDS OracleABCI, OracleKeeperProofs, VoteWeightedLoop, WellFoundedInduction

-----------------------------------------------------------------------------
(* Sums and the median. Weight(w, S) is defined by recursion over the      *)
(* subsets of S; facts about it are proved with a smallest counterexample  *)
(* in the well-founded order of finite sets.                               *)

(* The element a sum takes out next, and what it makes of a set.           *)
Some(s) == CHOOSE x \in s : TRUE
SumStep(w, h, s) == IF s = {} THEN 0 ELSE w[Some(s)] + h[s \ {Some(s)}]
IsSum(w, h, S) == h = [s \in SUBSET S |-> SumStep(w, h, s)]

(* Weight is such a sum, by the definition of the library's fold.          *)
LEMMA WeightIsSum ==
  ASSUME NEW w, NEW S
  PROVE  Weight(w, S) = (CHOOSE h : IsSum(w, h, S))[S]
BY DEF Weight, SumFunctionOnSet, FoldFunctionOnSet, MapThenFoldSet, IsSum, SumStep, Some

(* A family of subsets of a finite set has a smallest member.              *)
LEMMA SmallestSubset ==
  ASSUME NEW S, IsFiniteSet(S), NEW T \in SUBSET SUBSET S, T # {}
  PROVE  \E s \in T : \A t \in T : t \subseteq s => t = s
<1> DEFINE R == StrictSubsetOrdering(S)
<1>1. IsWellFoundedOn(R, SUBSET S)
  BY FS_StrictSubsetOrderingWellFounded, FS_FiniteSubsetsOfFinite
<1> HIDE DEF R
<1>2. PICK s \in T : \A t \in T : <<t, s>> \notin R
  BY <1>1, WFMin
<1>3. ASSUME NEW t \in T, t \subseteq s
      PROVE  t = s
  <2>1. t # s => <<t, s>> \in R
    BY <1>3 DEF R, StrictSubsetOrdering
  <2> QED
    BY <1>2, <2>1
<1> QED
  BY <1>3

(* Taking an element out of a set makes it smaller.                        *)
LEMMA SomeFacts ==
  ASSUME NEW s, s # {}
  PROVE  Some(s) \in s /\ s \ {Some(s)} \in SUBSET s /\ s \ {Some(s)} # s
BY DEF Some

(* Sums over a set and over a larger one agree on the subsets.             *)
LEMMA SumUnique ==
  ASSUME NEW w, NEW A, NEW B, NEW g, NEW h, IsSum(w, g, A), IsSum(w, h, B),
         IsFiniteSet(A), A \subseteq B
  PROVE  \A s \in SUBSET A : g[s] = h[s]
<1> DEFINE T == {s \in SUBSET A : g[s] # h[s]}
<1> SUFFICES ASSUME T # {} PROVE FALSE
  OBVIOUS
<1>1. PICK s \in T : \A t \in T : t \subseteq s => t = s
  <2> HIDE DEF T
  <2>1. T \in SUBSET SUBSET A
    BY DEF T
  <2> QED
    BY <2>1, SmallestSubset
<1>2. g[s] = SumStep(w, g, s) /\ h[s] = SumStep(w, h, s)
  BY <1>1 DEF IsSum
<1>3. CASE s = {}
  BY <1>1, <1>2, <1>3 DEF SumStep
<1>4. CASE s # {}
  <2>1. s \ {Some(s)} \in SUBSET A /\ s \ {Some(s)} \notin T
    BY <1>1, <1>4, SomeFacts
  <2> QED
    BY <1>1, <1>2, <1>4, <2>1 DEF SumStep
<1> QED
  BY <1>3, <1>4

(* A sum of natural numbers is one.                                        *)
LEMMA SumIsNat ==
  ASSUME NEW w, NEW A, NEW h, IsSum(w, h, A), IsFiniteSet(A), \A x \in A : w[x] \in Nat
  PROVE  \A s \in SUBSET A : h[s] \in Nat
<1> DEFINE T == {s \in SUBSET A : h[s] \notin Nat}
<1> SUFFICES ASSUME T # {} PROVE FALSE
  OBVIOUS
<1>1. PICK s \in T : \A t \in T : t \subseteq s => t = s
  <2> HIDE DEF T
  <2>1. T \in SUBSET SUBSET A
    BY DEF T
  <2> QED
    BY <2>1, SmallestSubset
<1>2. h[s] = SumStep(w, h, s)
  BY <1>1 DEF IsSum
<1>3. CASE s = {}
  BY <1>1, <1>2, <1>3 DEF SumStep
<1>4. CASE s # {}
  <2>1. s \ {Some(s)} \in SUBSET A /\ s \ {Some(s)} \notin T /\ Some(s) \in A
    BY <1>1, <1>4, SomeFacts
  <2> QED
    BY <1>1, <1>2, <1>4, <2>1 DEF SumStep
<1> QED
  BY <1>3, <1>4

(* Over a finite set, the recursive definition has a solution.             *)
LEMMA SumExists ==
  ASSUME NEW w, NEW A, IsFiniteSet(A)
  PROVE  \E h : IsSum(w, h, A)
<1> DEFINE T == {s \in SUBSET A : ~\E h : IsSum(w, h, s)}
<1> SUFFICES ASSUME T # {} PROVE FALSE
  BY Zenon
<1>1. PICK s \in T : \A t \in T : t \subseteq s => t = s
  <2> HIDE DEF T
  <2>1. T \in SUBSET SUBSET A
    BY DEF T
  <2> QED
    BY <2>1, SmallestSubset
<1> DEFINE sumOf(t) == CHOOSE h : IsSum(w, h, t)
<1>2. \A t \in SUBSET s : t # s => IsSum(w, sumOf(t), t)
  BY <1>1
<1>3. IsFiniteSet(s) /\ \A t \in SUBSET s : IsFiniteSet(t)
  BY <1>1, FS_Subset
<1> HIDE DEF sumOf
<1> DEFINE rest(t) == t \ {Some(t)}
           H == [t \in SUBSET s |-> IF t = {} THEN 0 ELSE w[Some(t)] + sumOf(rest(t))[rest(t)]]
<1>4. ASSUME NEW t \in SUBSET s, t # s
      PROVE  H[t] = sumOf(t)[t]
  <2>1. sumOf(t)[t] = SumStep(w, sumOf(t), t)
    BY <1>2, <1>4 DEF IsSum
  <2>2. CASE t = {}
    BY <2>1, <2>2 DEF SumStep
  <2>3. CASE t # {}
    <3>1. rest(t) \in SUBSET t /\ rest(t) \in SUBSET s /\ rest(t) # s
      BY <1>4, <2>3, SomeFacts
    <3>2. IsSum(w, sumOf(rest(t)), rest(t)) /\ IsSum(w, sumOf(t), t)
      BY <1>2, <1>4, <3>1
    <3> HIDE DEF rest
    <3>3. sumOf(rest(t))[rest(t)] = sumOf(t)[rest(t)]
      BY <1>3, <3>1, <3>2, SumUnique
    <3> QED
      BY <2>1, <2>3, <3>3 DEF SumStep, rest
  <2> QED
    BY <2>2, <2>3
<1>5. ASSUME NEW t \in SUBSET s
      PROVE  H[t] = SumStep(w, H, t)
  <2>1. CASE t = {}
    BY <2>1 DEF SumStep
  <2>2. CASE t # {}
    <3>1. rest(t) \in SUBSET s /\ rest(t) # s
      BY <2>2, SomeFacts
    <3>2. H[rest(t)] = sumOf(rest(t))[rest(t)]
      BY <1>4, <3>1
    <3>3. H[t] = w[Some(t)] + sumOf(rest(t))[rest(t)]
      BY <2>2
    <3> HIDE DEF H
    <3> QED
      BY <2>2, <3>2, <3>3 DEF SumStep
  <2> QED
    BY <2>1, <2>2
<1>6. H = [t \in SUBSET s |-> SumStep(w, H, t)]
  <2>1. H = [t \in SUBSET s |-> H[t]]
    OBVIOUS
  <2> HIDE DEF H
  <2> QED
    BY <1>5, <2>1
<1>7. IsSum(w, H, s)
  BY <1>6 DEF IsSum
<1> QED
  BY <1>1, <1>7

(* The sum of a function with natural values over a finite set, one        *)
(* element at a time.                                                      *)
LEMMA WeightUnfolds ==
  ASSUME NEW w, NEW S, IsFiniteSet(S), \A x \in S : w[x] \in Nat
  PROVE  /\ Weight(w, S) \in Nat
         /\ S = {} => Weight(w, S) = 0
         /\ S # {} => Weight(w, S) = w[Some(S)] + Weight(w, S \ {Some(S)})
<1> DEFINE sumOf(t) == CHOOSE h : IsSum(w, h, t)
<1>1. \A t \in SUBSET S : IsFiniteSet(t) /\ IsSum(w, sumOf(t), t)
  <2>1. \A t \in SUBSET S : IsFiniteSet(t) /\ \E h : IsSum(w, h, t)
    BY FS_Subset, SumExists
  <2> QED
    BY <2>1
<1>2. \A t : Weight(w, t) = sumOf(t)[t]
  BY WeightIsSum
<1> HIDE DEF sumOf
<1>3. sumOf(S)[S] = SumStep(w, sumOf(S), S)
  BY <1>1 DEF IsSum
<1>4. Weight(w, S) \in Nat
  BY <1>1, <1>2, SumIsNat
<1>5. CASE S = {}
  BY <1>2, <1>3, <1>4, <1>5 DEF SumStep
<1>6. CASE S # {}
  <2> DEFINE R == S \ {Some(S)}
  <2>1. R \in SUBSET S
    OBVIOUS
  <2>2. sumOf(S)[S] = w[Some(S)] + sumOf(S)[R]
    BY <1>3, <1>6 DEF SumStep
  <2> HIDE DEF R
  <2>3. sumOf(R)[R] = sumOf(S)[R]
    BY <1>1, <2>1, SumUnique
  <2> QED
    BY <1>2, <1>4, <1>6, <2>2, <2>3 DEF R
<1> QED
  BY <1>5, <1>6

(* Any element may be taken out of the sum.                                *)
LEMMA WeightRemove ==
  ASSUME NEW w, NEW S, IsFiniteSet(S), \A x \in S : w[x] \in Nat
  PROVE  \A x \in S : Weight(w, S) = w[x] + Weight(w, S \ {x})
<1> DEFINE T == {s \in SUBSET S : \E x \in s : Weight(w, s) # w[x] + Weight(w, s \ {x})}
<1> SUFFICES ASSUME T # {} PROVE FALSE
  <2>1. T = {} => \A x \in S : Weight(w, S) = w[x] + Weight(w, S \ {x})
    OBVIOUS
  <2> QED
    BY <2>1
<1>1. PICK s \in T : \A t \in T : t \subseteq s => t = s
  <2> HIDE DEF T
  <2>1. T \in SUBSET SUBSET S
    BY DEF T
  <2> QED
    BY <2>1, SmallestSubset
<1>2. PICK x \in s : Weight(w, s) # w[x] + Weight(w, s \ {x})
  BY <1>1
<1>3. \A t \in SUBSET S : /\ IsFiniteSet(t) /\ Weight(w, t) \in Nat
                          /\ t # {} => Weight(w, t) = w[Some(t)] + Weight(w, t \ {Some(t)})
  BY FS_Subset, WeightUnfolds
<1> DEFINE c == Some(s)
<1>4. c \in s /\ s \in SUBSET S /\ Weight(w, s) = w[c] + Weight(w, s \ {c})
  <2>1. s \in SUBSET S /\ s # {}
    BY <1>1, <1>2
  <2>2. Weight(w, s) = w[c] + Weight(w, s \ {c})
    BY <1>3, <2>1
  <2> QED
    BY <2>1, <2>2, SomeFacts
<1>5. x # c
  BY <1>2, <1>4
<1> HIDE DEF c
<1>6. s \ {x} \notin T /\ s \ {c} \notin T /\ s \ {x} \in SUBSET S /\ s \ {c} \in SUBSET S
  BY <1>1, <1>2, <1>4
<1>7. Weight(w, s \ {c}) = w[x] + Weight(w, (s \ {c}) \ {x})
  BY <1>2, <1>5, <1>6
<1>8. Weight(w, s \ {x}) = w[c] + Weight(w, (s \ {x}) \ {c})
  BY <1>4, <1>5, <1>6
<1> DEFINE rest == (s \ {c}) \ {x}
<1>9. (s \ {x}) \ {c} = rest /\ rest \in SUBSET S
  BY <1>6
<1> HIDE DEF rest, T
<1>10. w[x] \in Nat /\ w[c] \in Nat /\ Weight(w, rest) \in Nat
  <2>1. x \in S /\ c \in S
    BY <1>2, <1>4
  <2>2. Weight(w, rest) \in Nat
    BY <1>3, <1>9
  <2> QED
    BY <2>1, <2>2
<1>11. Weight(w, s) = w[c] + (w[x] + Weight(w, rest))
  BY <1>4, <1>7 DEF rest
<1>12. Weight(w, s \ {x}) = w[c] + Weight(w, rest)
  BY <1>8, <1>9
<1> QED
  BY <1>2, <1>10, <1>11, <1>12

(* The weight of a set is that of its parts.                               *)
LEMMA WeightSplits ==
  ASSUME NEW w, NEW S, IsFiniteSet(S), \A x \in S : w[x] \in Nat
  PROVE  \A A \in SUBSET S : Weight(w, S) = Weight(w, A) + Weight(w, S \ A)
<1> DEFINE T == {s \in SUBSET S : \E A \in SUBSET s : Weight(w, s) # Weight(w, A) + Weight(w, s \ A)}
<1> SUFFICES ASSUME T # {} PROVE FALSE
  <2>1. T = {} => \A A \in SUBSET S : Weight(w, S) = Weight(w, A) + Weight(w, S \ A)
    OBVIOUS
  <2> QED
    BY <2>1
<1>1. PICK s \in T : \A t \in T : t \subseteq s => t = s
  <2> HIDE DEF T
  <2>1. T \in SUBSET SUBSET S
    BY DEF T
  <2> QED
    BY <2>1, SmallestSubset
<1>2. PICK A \in SUBSET s : Weight(w, s) # Weight(w, A) + Weight(w, s \ A)
  BY <1>1
<1>3. \A t \in SUBSET S : /\ IsFiniteSet(t) /\ Weight(w, t) \in Nat
                          /\ t = {} => Weight(w, t) = 0
                          /\ \A x \in t : Weight(w, t) = w[x] + Weight(w, t \ {x})
  <2> TAKE t \in SUBSET S
  <2>1. IsFiniteSet(t) /\ \A x \in t : w[x] \in Nat
    BY FS_Subset
  <2>2. Weight(w, t) \in Nat /\ (t = {} => Weight(w, t) = 0)
    BY <2>1, WeightUnfolds
  <2>3. \A x \in t : Weight(w, t) = w[x] + Weight(w, t \ {x})
    BY <2>1, WeightRemove
  <2> QED
    BY <2>1, <2>2, <2>3
<1>4. s \in SUBSET S
  BY <1>1
<1>5. A # {}
  <2>1. ASSUME A = {}
        PROVE  FALSE
    <3>1. s \ A = s /\ A \in SUBSET S
      BY <2>1
    <3>2. Weight(w, A) = 0
      BY <1>3, <2>1, <3>1
    <3>3. Weight(w, s) \in Nat
      BY <1>3, <1>4
    <3>4. Weight(w, s) = Weight(w, A) + Weight(w, s \ A)
      BY <3>1, <3>2, <3>3
    <3> QED
      BY <1>2, <3>4
  <2> QED
    BY <2>1
<1>6. PICK x : x \in A
  BY <1>5
<1> DEFINE r == s \ {x}
           B == A \ {x}
<1>7. r \in SUBSET S /\ r # s /\ r \subseteq s /\ B \in SUBSET r /\ r \ B = s \ A /\ A \in SUBSET S /\ s \ A \in SUBSET S
      /\ B \in SUBSET S
  BY <1>4, <1>6
<1>8. Weight(w, r) = Weight(w, B) + Weight(w, r \ B)
  BY <1>1, <1>7
<1>9. Weight(w, s) = w[x] + Weight(w, r) /\ Weight(w, A) = w[x] + Weight(w, B)
  <2>1. x \in s
    BY <1>6
  <2>2. Weight(w, s) = w[x] + Weight(w, s \ {x})
    BY <1>3, <1>4, <2>1
  <2>3. Weight(w, A) = w[x] + Weight(w, A \ {x})
    BY <1>3, <1>6, <1>7
  <2> QED
    BY <2>2, <2>3
<1> HIDE DEF r, B, T
<1>10. w[x] \in Nat /\ Weight(w, B) \in Nat /\ Weight(w, s \ A) \in Nat
  <2>1. x \in S
    BY <1>4, <1>6
  <2>2. Weight(w, B) \in Nat
    BY <1>3, <1>7
  <2>3. Weight(w, s \ A) \in Nat
    BY <1>3, <1>7
  <2> QED
    BY <2>1, <2>2, <2>3
<1>11. Weight(w, r) = Weight(w, B) + Weight(w, s \ A)
  BY <1>7, <1>8
<1> QED
  BY <1>2, <1>9, <1>10, <1>11

(* A larger set weighs no less.                                            *)
LEMMA WeightMonotone ==
  ASSUME NEW w, NEW S, IsFiniteSet(S), \A x \in S : w[x] \in Nat, NEW A \in SUBSET S
  PROVE  Weight(w, A) \in Nat /\ Weight(w, S) \in Nat /\ Weight(w, A) <= Weight(w, S)
<1>1. IsFiniteSet(A) /\ IsFiniteSet(S \ A)
  BY FS_Subset
<1>2. Weight(w, A) \in Nat /\ Weight(w, S) \in Nat /\ Weight(w, S \ A) \in Nat
  BY <1>1, WeightUnfolds
<1>3. Weight(w, S) = Weight(w, A) + Weight(w, S \ A)
  BY WeightSplits
<1> QED
  BY <1>2, <1>3

(* Among finitely many prices there is a highest.                          *)
LEMMA HighestPrice ==
  ASSUME NEW r, NEW H, IsFiniteSet(H), H # {}, \A v \in H : r[v] \in Int
  PROVE  \E v \in H : \A u \in H : r[u] <= r[v]
<1> DEFINE above(v) == {u \in H : r[v] < r[u]}
           T == {above(v) : v \in H}
<1>1. PICK s \in T : \A t \in T : t \subseteq s => t = s
  <2>1. T \in SUBSET SUBSET H /\ T # {}
    OBVIOUS
  <2> HIDE DEF T
  <2> QED
    BY <2>1, SmallestSubset
<1>2. PICK v \in H : s = above(v)
  BY <1>1
<1>3. ASSUME NEW u \in H, r[v] < r[u]
      PROVE  FALSE
  <2>1. above(u) \subseteq above(v) /\ u \in above(v) /\ u \notin above(u)
    BY <1>3
  <2> QED
    BY <1>1, <1>2, <2>1
<1>4. \A u \in H : r[u] <= r[v]
  BY <1>3
<1> QED
  BY <1>4

(* The median exists: it is the lowest price at which half is reached.     *)
LEMMA MedianExists ==
  ASSUME NEW w, NEW r, IsFiniteSet(DOMAIN r), DOMAIN r # {},
         \A v \in DOMAIN r : w[v] \in Nat /\ r[v] \in Int
  PROVE  LET m == ComputeMedian(w, r)
         IN  /\ m \in Range(r)
             /\ Weight(w, AtMost(r, m)) >= Middle(w, r)
             /\ \A q \in Range(r) : q < m => Weight(w, AtMost(r, q)) < Middle(w, r)
<1> DEFINE D == DOMAIN r
           enough(p) == Weight(w, AtMost(r, p)) >= Middle(w, r)
           T == {AtMost(r, p) : p \in {q \in Range(r) : enough(q)}}
<1>1. \A p : AtMost(r, p) \in SUBSET D
  BY DEF AtMost
<1>2. Weight(w, D) \in Nat /\ Middle(w, r) \in Nat /\ Middle(w, r) <= Weight(w, D)
  <2>1. Weight(w, D) \in Nat
    BY WeightUnfolds
  <2> QED
    BY <2>1 DEF Middle
<1>3. \A p : Weight(w, AtMost(r, p)) \in Nat
  BY <1>1, WeightMonotone
<1>4. T # {}
  <2>1. PICK v \in D : \A u \in D : r[u] <= r[v]
    BY HighestPrice
  <2>2. AtMost(r, r[v]) = D
    BY <2>1 DEF AtMost
  <2>3. enough(r[v])
    BY <1>2, <2>2
  <2>4. r[v] \in Range(r)
    BY DEF Range
  <2> QED
    BY <2>3, <2>4
<1>5. PICK s \in T : \A t \in T : t \subseteq s => t = s
  <2>1. T \in SUBSET SUBSET D
    BY <1>1
  <2> HIDE DEF T
  <2> QED
    BY <1>4, <2>1, SmallestSubset
<1>6. PICK p \in Range(r) : enough(p) /\ s = AtMost(r, p)
  BY <1>5
<1>7. ASSUME NEW q \in Range(r), q < p
      PROVE  Weight(w, AtMost(r, q)) < Middle(w, r)
  <2>1. PICK u \in D, v \in D : p = r[u] /\ q = r[v]
    BY DEF Range
  <2>2. AtMost(r, q) \subseteq AtMost(r, p) /\ u \in AtMost(r, p) /\ u \notin AtMost(r, q)
    BY <1>7, <2>1 DEF AtMost
  <2>3. ~enough(q)
    BY <1>5, <1>6, <2>2
  <2> QED
    BY <1>2, <1>3, <2>3
<1>8. \E m \in Range(r) : /\ Weight(w, AtMost(r, m)) >= Middle(w, r)
                          /\ \A q \in Range(r) : q < m => Weight(w, AtMost(r, q)) < Middle(w, r)
  BY <1>6, <1>7
<1> QED
  BY <1>8 DEF ComputeMedian

(* Reporters that weigh less than the middle cannot move the median out of *)
(* the range of the others' prices.                                        *)
LEMMA MedianWithinOthers ==
  ASSUME NEW w, NEW r, IsFiniteSet(DOMAIN r), \A v \in DOMAIN r : w[v] \in Nat /\ r[v] \in Int,
         NEW B \in SUBSET DOMAIN r, Weight(w, B) < Middle(w, r)
  PROVE  \E low, high \in DOMAIN r \ B :
           r[low] <= ComputeMedian(w, r) /\ ComputeMedian(w, r) <= r[high]
<1> DEFINE D == DOMAIN r
           H == D \ B
           m == ComputeMedian(w, r)
<1>1. /\ Weight(w, D) \in Nat /\ Weight(w, B) \in Nat /\ Weight(w, H) \in Nat
      /\ Weight(w, D) = Weight(w, B) + Weight(w, H)
  <2>1. Weight(w, D) = Weight(w, B) + Weight(w, D \ B)
    BY WeightSplits
  <2>2. H \in SUBSET D
    OBVIOUS
  <2> QED
    BY <2>1, <2>2, WeightMonotone
<1>2. Middle(w, r) \in Nat /\ 2 * Middle(w, r) <= Weight(w, D)
  BY <1>1 DEF Middle
<1>3. H # {}
  <2>1. H = {} => B = D
    OBVIOUS
  <2> QED
    BY <1>1, <1>2, <2>1
<1>4. /\ m \in Range(r)
      /\ Weight(w, AtMost(r, m)) >= Middle(w, r)
      /\ \A q \in Range(r) : q < m => Weight(w, AtMost(r, q)) < Middle(w, r)
  BY <1>3, MedianExists
<1> HIDE DEF m
<1>5. m \in Int
  BY <1>4 DEF Range
<1>6. \A p : AtMost(r, p) \in SUBSET D /\ Weight(w, AtMost(r, p)) \in Nat
  <2> TAKE p
  <2>1. AtMost(r, p) \in SUBSET D
    BY DEF AtMost
  <2> QED
    BY <2>1, WeightMonotone
<1>7. \E low \in H : r[low] <= m
  <2> SUFFICES ASSUME \A v \in H : ~(r[v] <= m)
               PROVE  FALSE
    OBVIOUS
  <2>1. AtMost(r, m) \in SUBSET B
    BY DEF AtMost
  <2>2. IsFiniteSet(B) /\ \A v \in B : w[v] \in Nat
    BY FS_Subset
  <2>3. Weight(w, AtMost(r, m)) <= Weight(w, B)
    BY <2>1, <2>2, WeightMonotone
  <2> QED
    BY <1>1, <1>2, <1>4, <1>6, <2>3
<1>8. \E high \in H : m <= r[high]
  <2> SUFFICES ASSUME \A v \in H : ~(m <= r[v])
               PROVE  FALSE
    OBVIOUS
  <2>1. IsFiniteSet(H) /\ \A v \in H : r[v] \in Int
    BY FS_Subset
  <2>2. PICK h \in H : \A u \in H : r[u] <= r[h]
    BY <1>3, <2>1, HighestPrice
  <2>3. r[h] \in Range(r) /\ r[h] < m
    BY <1>5, <2>1 DEF Range
  <2>4. H \in SUBSET AtMost(r, r[h])
    BY <2>2 DEF AtMost
  <2>5. IsFiniteSet(AtMost(r, r[h])) /\ \A v \in AtMost(r, r[h]) : w[v] \in Nat
    BY <1>6, FS_Subset
  <2>6. Weight(w, H) <= Weight(w, AtMost(r, r[h]))
    BY <2>4, <2>5, WeightMonotone
  <2>7. Weight(w, AtMost(r, r[h])) < Middle(w, r)
    BY <1>4, <2>3
  <2> QED
    BY <1>1, <1>2, <1>6, <2>6, <2>7
<1> QED
  BY <1>7, <1>8 DEF m

-----------------------------------------------------------------------------
(* The loop of ComputeMedian. A list of prices and weights stands for a    *)
(* set S of reporters: s names the reporter of each entry.                 *)
Lists(t, s, S, w, r) ==
  /\ Len(t) \in Nat /\ DOMAIN t = 1..Len(t)
  /\ s \in [1..Len(t) -> S]
  /\ \A i, j \in 1..Len(t) : s[i] = s[j] => i = j
  /\ \A v \in S : \E i \in 1..Len(t) : s[i] = v
  /\ \A i \in 1..Len(t) : t[i] = [weight |-> w[s[i]], price |-> r[s[i]]]

SortedByPrice(t) == \A i \in 1..(Len(t) - 1) : t[i].price <= t[i + 1].price

(* The reporters of the first k entries.                                   *)
Prefix(s, k) == {s[i] : i \in 1..k}

(* A non-empty set of numbers has a least element.                         *)
LEMMA LeastNumber ==
  ASSUME NEW T \in SUBSET Nat, T # {}
  PROVE  \E x \in T : \A y \in T : x <= y
<1>1. PICK x \in T : \A y \in T : ~(<<y, x>> \in OpToRel(<, Nat))
  BY NatLessThanWellFounded, WFMin
<1>2. \A m, n \in Nat : <<n, m>> \in OpToRel(<, Nat) <=> n < m
  BY DEF OpToRel
<1>3. \A y \in T : ~(y < x)
  BY <1>1, <1>2
<1> QED
  BY <1>3

(* What holds between neighbours after the sort holds between any two.     *)
LEMMA SortedFarApart ==
  ASSUME NEW n \in Nat, NEW p, \A i \in 1..n : p[i] \in Int,
         \A i \in 1..(n - 1) : p[i] <= p[i + 1]
  PROVE  \A i, j \in 1..n : i <= j => p[i] <= p[j]
<1> SUFFICES ASSUME NEW i \in 1..n, NEW k \in 1..n, i <= k, ~(p[i] <= p[k])
             PROVE  FALSE
  OBVIOUS
<1> DEFINE T == {j \in 1..n : i <= j /\ ~(p[i] <= p[j])}
<1>1. T \in SUBSET Nat /\ T # {}
  OBVIOUS
<1> HIDE DEF T
<1>2. PICK j \in T : \A y \in T : j <= y
  BY <1>1, LeastNumber
<1>3. j \in 1..n /\ i <= j /\ ~(p[i] <= p[j])
  BY <1>2 DEF T
<1>4. i < j
  BY <1>3
<1>5. j - 1 \in 1..n /\ i <= j - 1 /\ j - 1 \notin T
  BY <1>2, <1>3, <1>4, <1>1
<1>6. p[i] <= p[j - 1]
  BY <1>5 DEF T
<1>7. p[j - 1] <= p[j]
  <2>1. j - 1 \in 1..(n - 1) /\ (j - 1) + 1 = j
    BY <1>3, <1>4
  <2> QED
    BY <2>1
<1> QED
  BY <1>3, <1>5, <1>6, <1>7

(* The entry the walk stops at carries the median.                         *)
LEMMA WalkFindsMedian ==
  ASSUME NEW w, NEW r, IsFiniteSet(DOMAIN r), \A v \in DOMAIN r : w[v] \in Nat /\ r[v] \in Int,
         NEW t, NEW s, Lists(t, s, DOMAIN r, w, r), SortedByPrice(t),
         NEW k \in 1..Len(t),
         Weight(w, Prefix(s, k)) >= Middle(w, r) \/ k = Len(t),
         k = 1 \/ Weight(w, Prefix(s, k - 1)) < Middle(w, r)
  PROVE  ComputeMedian(w, r) = t[k].price
<1> DEFINE D == DOMAIN r
           n == Len(t)
           p == r[s[k]]
           m == ComputeMedian(w, r)
<1>1. /\ n \in Nat /\ \A i \in 1..n : s[i] \in D /\ t[i].price = r[s[i]]
      /\ \A v \in D : \E i \in 1..n : s[i] = v
  <2>1. /\ n \in Nat /\ s \in [1..n -> D]
        /\ \A i \in 1..n : t[i] = [weight |-> w[s[i]], price |-> r[s[i]]]
        /\ \A v \in D : \E i \in 1..n : s[i] = v
    BY DEF Lists
  <2> HIDE DEF n
  <2>2. ASSUME NEW i \in 1..n PROVE s[i] \in D /\ t[i].price = r[s[i]]
    <3>1. t[i] = [weight |-> w[s[i]], price |-> r[s[i]]]
      BY <2>1
    <3>2. t[i].price = r[s[i]]
      BY <3>1
    <3> QED
      BY <2>1, <3>2
  <2> QED
    BY <2>1, <2>2
<1>2. \A i, j \in 1..n : i <= j => r[s[i]] <= r[s[j]]
  <2> DEFINE q == [i \in 1..n |-> r[s[i]]]
  <2>1. \A i \in 1..n : q[i] \in Int /\ q[i] = r[s[i]] /\ q[i] = t[i].price
    BY <1>1
  <2>2. \A i \in 1..(n - 1) : q[i] <= q[i + 1]
    <3> SUFFICES ASSUME NEW i \in 1..(n - 1) PROVE q[i] <= q[i + 1]
      OBVIOUS
    <3>1. i \in 1..n /\ i + 1 \in 1..n
      BY <1>1
    <3> HIDE DEF q
    <3> QED
      BY <2>1, <3>1 DEF SortedByPrice
  <2> HIDE DEF q
  <2>3. \A i, j \in 1..n : i <= j => q[i] <= q[j]
    BY <1>1, <2>1, <2>2, SortedFarApart
  <2> QED
    BY <2>1, <2>3
<1> HIDE DEF n
<1>3. k \in 1..n /\ p \in Range(r) /\ p \in Int /\ D # {}
  BY <1>1 DEF Range, n
<1>4. \A A \in SUBSET D : /\ IsFiniteSet(A) /\ \A v \in A : w[v] \in Nat
                          /\ Weight(w, A) \in Nat
  <2> SUFFICES ASSUME NEW A \in SUBSET D
               PROVE  /\ IsFiniteSet(A) /\ \A v \in A : w[v] \in Nat
                      /\ Weight(w, A) \in Nat
    OBVIOUS
  <2>1. IsFiniteSet(A) /\ \A v \in A : w[v] \in Nat
    BY FS_Subset
  <2> QED
    BY <2>1, WeightUnfolds
<1>5. \A x : AtMost(r, x) \in SUBSET D
  BY DEF AtMost
<1>6. Middle(w, r) \in Nat /\ Middle(w, r) <= Weight(w, D)
  BY <1>4 DEF Middle
<1>7. Weight(w, AtMost(r, p)) >= Middle(w, r)
  <2>1. CASE k = n
    <3>1. AtMost(r, p) = D
      <4>1. ASSUME NEW v \in D PROVE r[v] <= p
        <5>1. PICK i \in 1..n : s[i] = v
          BY <1>1 DEF n
        <5> QED
          <6>1. n \in Nat /\ i \in 1..n /\ k \in 1..n /\ i <= k
            BY <1>1, <1>3, <2>1, <5>1
          <6> QED
            BY <1>2, <5>1, <6>1
      <4> QED
        BY <4>1 DEF AtMost
    <3> QED
      BY <1>6, <3>1
  <2>2. CASE Weight(w, Prefix(s, k)) >= Middle(w, r)
    <3>1. Prefix(s, k) \in SUBSET AtMost(r, p)
      <4>1. ASSUME NEW i \in 1..k PROVE s[i] \in D /\ r[s[i]] <= p
        <5>1. i \in 1..n /\ i <= k /\ k \in 1..n
          BY <1>1, <4>1 DEF n
        <5> QED
          BY <1>1, <1>2, <5>1 DEF n
      <4> QED
        BY <4>1 DEF AtMost, Prefix
    <3>2. /\ Weight(w, Prefix(s, k)) \in Nat
          /\ Weight(w, Prefix(s, k)) <= Weight(w, AtMost(r, p))
      <4>1. IsFiniteSet(AtMost(r, p)) /\ \A v \in AtMost(r, p) : w[v] \in Nat
        BY <1>4, <1>5
      <4> QED
        BY <3>1, <4>1, WeightMonotone
    <3> QED
      BY <1>4, <1>5, <1>6, <2>2, <3>2
  <2> QED
    BY <2>1, <2>2 DEF n
<1>8. ASSUME NEW q \in Range(r), q < p
      PROVE  Weight(w, AtMost(r, q)) < Middle(w, r)
  <2>1. PICK u \in D : q = r[u]
    BY DEF Range
  <2>2. PICK j \in 1..n : s[j] = u
    BY <1>1 DEF n
  <2>3. j < k
    <3>1. r[s[j]] < r[s[k]] /\ r[s[j]] \in Int /\ r[s[k]] \in Int
      BY <1>1, <1>3, <1>8, <2>1, <2>2
    <3> QED
      <4>1. n \in Nat /\ j \in 1..n /\ k \in 1..n
        BY <1>1, <1>3
      <4>2. ~(k <= j)
        BY <1>2, <3>1, <4>1
      <4> QED
        BY <4>1, <4>2
  <2>4. k # 1 /\ Weight(w, Prefix(s, k - 1)) < Middle(w, r)
    <3>1. k # 1
      BY <2>3
    <3> QED
      BY <3>1
  <2>5. AtMost(r, q) \in SUBSET Prefix(s, k - 1)
    <3>1. ASSUME NEW v \in D, r[v] <= q PROVE v \in Prefix(s, k - 1)
      <4>1. PICK i \in 1..n : s[i] = v
        BY <1>1 DEF n
      <4>2. ~(k <= i)
        <5>1. r[v] \in Int /\ q \in Int
          BY <2>1
        <5>2. r[s[i]] < r[s[k]] /\ r[s[i]] \in Int /\ r[s[k]] \in Int
          BY <1>3, <1>8, <3>1, <4>1, <5>1
        <5> QED
          BY <1>2, <1>3, <4>1, <5>2
      <4>3. i \in 1..(k - 1)
        BY <1>1, <4>1, <4>2 DEF n
      <4> QED
        BY <4>1, <4>3 DEF Prefix
    <3> QED
      BY <3>1 DEF AtMost
  <2>6. Prefix(s, k - 1) \in SUBSET D
    <3>1. \A i \in 1..(k - 1) : i \in 1..n
      BY <1>1 DEF n
    <3> QED
      BY <1>1, <3>1 DEF Prefix, n
  <2>7. IsFiniteSet(Prefix(s, k - 1)) /\ \A v \in Prefix(s, k - 1) : w[v] \in Nat
    BY <1>4, <2>6
  <2>8. Weight(w, AtMost(r, q)) <= Weight(w, Prefix(s, k - 1))
    BY <2>5, <2>7, WeightMonotone
  <2> QED
    BY <1>4, <1>5, <1>6, <2>4, <2>6, <2>8
<1>9. /\ m \in Range(r)
      /\ Weight(w, AtMost(r, m)) >= Middle(w, r)
      /\ \A q \in Range(r) : q < m => Weight(w, AtMost(r, q)) < Middle(w, r)
  BY <1>3, MedianExists
<1>10. m \in Int
  BY <1>9 DEF Range
<1> HIDE DEF m
<1>11. ~(m < p) /\ ~(p < m)
  BY <1>3, <1>4, <1>5, <1>6, <1>7, <1>8, <1>9
<1>12. m = p
  BY <1>3, <1>10, <1>11
<1> QED
  BY <1>1, <1>12 DEF m, n

(* One more entry stands for one more reporter.                            *)
LEMMA ListGrows ==
  ASSUME NEW t, NEW s, NEW S, NEW w, NEW r, Lists(t, s, S, w, r), NEW v, v \notin S,
         NEW u, Len(u) = Len(t) + 1, DOMAIN u = 1..Len(u),
         \A i \in 1..Len(t) : u[i] = t[i],
         u[Len(t) + 1] = [weight |-> w[v], price |-> r[v]]
  PROVE  \E z : Lists(u, z, S \cup {v}, w, r)
<1> DEFINE n == Len(t)
           z == [i \in 1..(n + 1) |-> IF i = n + 1 THEN v ELSE s[i]]
<1>1. /\ n \in Nat /\ s \in [1..n -> S]
      /\ \A i, j \in 1..n : s[i] = s[j] => i = j
      /\ \A x \in S : \E i \in 1..n : s[i] = x
      /\ \A i \in 1..n : u[i] = [weight |-> w[s[i]], price |-> r[s[i]]]
  BY DEF Lists
<1>2. Len(u) = n + 1 /\ u[n + 1] = [weight |-> w[v], price |-> r[v]]
  OBVIOUS
<1> HIDE DEF n
<1>3. \A i \in 1..(n + 1) : i = n + 1 \/ i \in 1..n
  BY <1>1
<1>4. z[n + 1] = v /\ \A i \in 1..n : z[i] = s[i] /\ z[i] \in S
  BY <1>1
<1>5. z \in [1..(n + 1) -> S \cup {v}]
  BY <1>1, <1>3
<1> HIDE DEF z
<1>6. \A i, j \in 1..(n + 1) : z[i] = z[j] => i = j
  BY <1>1, <1>3, <1>4
<1>7. \A x \in S \cup {v} : \E i \in 1..(n + 1) : z[i] = x
  <2> SUFFICES ASSUME NEW x \in S \cup {v}
               PROVE  \E i \in 1..(n + 1) : z[i] = x
    OBVIOUS
  <2>1. CASE x = v
    BY <1>1, <1>4, <2>1
  <2>2. CASE x \in S
    <3>1. PICK i \in 1..n : s[i] = x
      BY <1>1, <2>2
    <3> QED
      BY <1>1, <1>4, <3>1
  <2> QED
    BY <2>1, <2>2
<1>8. \A i \in 1..(n + 1) : u[i] = [weight |-> w[z[i]], price |-> r[z[i]]]
  <2> SUFFICES ASSUME NEW i \in 1..(n + 1)
               PROVE  u[i] = [weight |-> w[z[i]], price |-> r[z[i]]]
    OBVIOUS
  <2>1. CASE i = n + 1
    BY <1>2, <1>4, <2>1
  <2>2. CASE i \in 1..n
    BY <1>1, <1>4, <2>2
  <2> QED
    BY <1>3, <2>1, <2>2
<1>9. Lists(u, z, S \cup {v}, w, r)
  <2>1. Len(u) \in Nat /\ DOMAIN u = 1..Len(u)
    BY <1>1, <1>2
  <2> DEFINE m == Len(u)
  <2>2. m = n + 1
    BY <1>2
  <2> HIDE DEF m
  <2>3. /\ z \in [1..m -> S \cup {v}]
        /\ \A i, j \in 1..m : z[i] = z[j] => i = j
        /\ \A x \in S \cup {v} : \E i \in 1..m : z[i] = x
        /\ \A i \in 1..m : u[i] = [weight |-> w[z[i]], price |-> r[z[i]]]
    BY <1>5, <1>6, <1>7, <1>8, <2>2
  <2> QED
    BY <2>1, <2>3 DEF Lists, m
<1> QED
  BY <1>9

(* Sorted, the list stands for the same reporters.                         *)
LEMMA ListSorted ==
  ASSUME NEW t, NEW s, NEW S, NEW w, NEW r, Lists(t, s, S, w, r),
         NEW u, Len(u) = Len(t), DOMAIN u = 1..Len(t), IsSortOf(u, t)
  PROVE  SortedByPrice(u) /\ \E z : Lists(u, z, S, w, r)
<1> DEFINE n == Len(t)
<1>1. /\ n \in Nat /\ s \in [1..n -> S]
      /\ \A i, j \in 1..n : s[i] = s[j] => i = j
      /\ \A x \in S : \E i \in 1..n : s[i] = x
      /\ \A i \in 1..n : t[i] = [weight |-> w[s[i]], price |-> r[s[i]]]
  BY DEF Lists
<1>2. PICK f \in Bijection(1..n, 1..n) : u = [i \in 1..n |-> t[f[i]]]
  BY DEF IsSortOf
<1>3. /\ f \in [1..n -> 1..n]
      /\ \A i, j \in 1..n : f[i] = f[j] => i = j
      /\ \A j \in 1..n : \E i \in 1..n : f[i] = j
  BY <1>2 DEF Bijection, Injection, Surjection, IsInjective
<1> DEFINE z == [i \in 1..n |-> s[f[i]]]
<1> HIDE DEF n
<1>4. \A i \in 1..n : f[i] \in 1..n /\ z[i] = s[f[i]] /\ z[i] \in S /\ u[i] = t[f[i]]
  BY <1>1, <1>2, <1>3
<1>5. z \in [1..n -> S]
  BY <1>4
<1> HIDE DEF z
<1>6. \A i, j \in 1..n : z[i] = z[j] => i = j
  BY <1>1, <1>3, <1>4
<1>7. \A x \in S : \E i \in 1..n : z[i] = x
  <2> SUFFICES ASSUME NEW x \in S
               PROVE  \E i \in 1..n : z[i] = x
    OBVIOUS
  <2>1. PICK j \in 1..n : s[j] = x
    BY <1>1
  <2>2. PICK i \in 1..n : f[i] = j
    BY <1>3
  <2> QED
    BY <1>4, <2>1, <2>2
<1>8. \A i \in 1..n : u[i] = [weight |-> w[z[i]], price |-> r[z[i]]]
  BY <1>1, <1>4
<1>9. Lists(u, z, S, w, r)
  BY <1>1, <1>5, <1>6, <1>7, <1>8 DEF Lists, n
<1>10. SortedByPrice(u)
  BY DEF IsSortOf, SortedByPrice
<1> QED
  BY <1>9, <1>10

(* The reporters of one more entry weigh more by that entry.               *)
LEMMA PrefixGrows ==
  ASSUME NEW t, NEW s, NEW S, NEW w, NEW r, Lists(t, s, S, w, r), IsFiniteSet(S),
         \A v \in S : w[v] \in Nat, NEW k \in 1..Len(t)
  PROVE  /\ Weight(w, Prefix(s, 0)) = 0
         /\ Weight(w, Prefix(s, k - 1)) \in Nat
         /\ Weight(w, Prefix(s, k)) = Weight(w, Prefix(s, k - 1)) + t[k].weight
<1> DEFINE n == Len(t)
<1>1. /\ n \in Nat /\ s \in [1..n -> S]
      /\ \A i, j \in 1..n : s[i] = s[j] => i = j
      /\ \A i \in 1..n : t[i] = [weight |-> w[s[i]], price |-> r[s[i]]]
      /\ k \in 1..n
  BY DEF Lists
<1> HIDE DEF n
<1>2. \A A \in SUBSET S : IsFiniteSet(A) /\ \A v \in A : w[v] \in Nat
  BY FS_Subset
<1>3. \A i \in 1..k : i \in 1..n
  BY <1>1
<1>4. Prefix(s, k) \in SUBSET S /\ Prefix(s, k - 1) \in SUBSET S
  <2>1. \A i \in 1..k : s[i] \in S
    BY <1>1, <1>3
  <2>2. \A i \in 1..(k - 1) : i \in 1..k
    BY <1>1
  <2> QED
    BY <2>1, <2>2 DEF Prefix
<1>5. s[k] \in Prefix(s, k) /\ Prefix(s, k) \ {s[k]} = Prefix(s, k - 1)
  <2>1. k \in 1..k
    BY <1>1
  <2>2. \A i \in 1..k : i \in 1..(k - 1) \/ i = k
    BY <1>1
  <2>3. \A i \in 1..(k - 1) : i \in 1..k /\ i # k /\ i \in 1..n
    BY <1>1
  <2>4. \A i \in 1..(k - 1) : s[i] # s[k]
    BY <1>1, <2>3
  <2> QED
    BY <2>1, <2>2, <2>3, <2>4 DEF Prefix
<1>6. Weight(w, Prefix(s, k)) = w[s[k]] + Weight(w, Prefix(s, k) \ {s[k]})
  BY <1>2, <1>4, <1>5, WeightRemove
<1>7. t[k].weight = w[s[k]] /\ w[s[k]] \in Nat
  <2>1. t[k] = [weight |-> w[s[k]], price |-> r[s[k]]] /\ s[k] \in S
    BY <1>1
  <2>2. t[k].weight = w[s[k]]
    BY <2>1
  <2> QED
    BY <2>1, <2>2
<1>8. Weight(w, Prefix(s, k - 1)) \in Nat
  BY <1>2, <1>4, WeightUnfolds
<1>9. Weight(w, Prefix(s, 0)) = 0
  <2>1. Prefix(s, 0) = {}
    BY DEF Prefix
  <2>2. IsFiniteSet({}) /\ \A v \in {} : w[v] \in Nat
    BY FS_EmptySet
  <2> QED
    BY <2>1, <2>2, WeightUnfolds
<1>10. Weight(w, Prefix(s, k)) = w[s[k]] + Weight(w, Prefix(s, k - 1))
  BY <1>5, <1>6
<1> HIDE DEF Prefix
<1> QED
  BY <1>7, <1>8, <1>9, <1>10

(* The reporters whose prices have been collected.                         *)
Scanned == (DOMAIN report \ todo) \cap known

LoopTypes ==
  /\ weight \in [Validators -> Nat] /\ known \in SUBSET Validators
  /\ DOMAIN report \in SUBSET Validators
  /\ \A v \in DOMAIN report : report[v] \in Nat
  /\ todo \in SUBSET DOMAIN report
  /\ info \in Seq([weight : Nat, price : Nat])
  /\ pc \in {"collect", "sort", "walk", "done"}

(* Before the walk nothing is summed up, and before its end there is no    *)
(* result. What is walked has enough weight.                               *)
LoopOrder ==
  /\ pc # "collect" => todo = {}
  /\ pc \in {"collect", "sort"} => index = 1 /\ sum = 0
  /\ pc # "done" => result = NoPrice
  /\ pc \in {"sort", "walk"} => Len(info) # 0 /\ EnoughWeight(total)

(* The list stands for the reporters scanned, total is their weight; the   *)
(* walk sums up the entries it has passed, and has not reached the middle. *)
LoopList ==
  /\ total = Weight(weight, Scanned)
  /\ \E s : /\ Lists(info, s, Scanned, weight, report)
            /\ pc = "walk" => sum = Weight(weight, Prefix(s, index - 1))
  /\ pc = "walk" =>
       /\ SortedByPrice(info) /\ index \in 1..Len(info)
       /\ index = 1 \/ ~Reached(sum)

(* The inductive invariant of the loop.                                    *)
LoopInv == LoopTypes /\ LoopOrder /\ LoopList /\ OrderIndependent

(* Every set of validators is finite and has a weight.                     *)
LEMMA ScannedFinite ==
  ASSUME LoopTypes
  PROVE  \A S \in SUBSET Validators :
           IsFiniteSet(S) /\ (\A v \in S : weight[v] \in Nat) /\ Weight(weight, S) \in Nat
<1> SUFFICES ASSUME NEW S \in SUBSET Validators
             PROVE  IsFiniteSet(S) /\ (\A v \in S : weight[v] \in Nat) /\ Weight(weight, S) \in Nat
  OBVIOUS
<1>1. IsFiniteSet(S)
  BY LoopConstants, FS_Subset
<1>2. \A v \in S : weight[v] \in Nat
  BY DEF LoopTypes
<1> QED
  BY <1>1, <1>2, WeightUnfolds

(* The invariant holds before the first validator is ranged over.          *)
LEMMA LoopInitInv == LoopInit => LoopInv
<1> SUFFICES ASSUME LoopInit
             PROVE  LoopInv
  OBVIOUS
<1>1. LoopTypes
  <2>1. weight \in [Validators -> Nat]
    BY LoopConstants DEF LoopInit
  <2>2. PICK S \in SUBSET Validators : report \in [S -> Prices]
    BY DEF LoopInit
  <2>3. DOMAIN report \in SUBSET Validators /\ \A v \in DOMAIN report : report[v] \in Nat
    BY <2>2, LoopConstants
  <2>4. info \in Seq([weight : Nat, price : Nat])
    BY DEF LoopInit
  <2> QED
    BY <2>1, <2>3, <2>4 DEF LoopInit, LoopTypes
<1>2. LoopOrder
  BY DEF LoopInit, LoopOrder
<1>3. LoopList
  <2>1. Scanned = {}
    BY DEF LoopInit, Scanned
  <2>2. Weight(weight, {}) = 0
    <3>1. IsFiniteSet({}) /\ \A v \in {} : weight[v] \in Nat
      BY FS_EmptySet
    <3> QED
      BY <3>1, WeightUnfolds
  <2>3. Lists(info, <<>>, {}, weight, report)
    <3>1. info = <<>> /\ Len(info) = 0 /\ DOMAIN info = {} /\ 1..0 = {}
      BY DEF LoopInit
    <3>2. <<>> \in [1..0 -> {}]
      OBVIOUS
    <3> QED
      BY <3>1, <3>2 DEF Lists
  <2>4. \E s : Lists(info, s, Scanned, weight, report)
    BY <2>1, <2>3
  <2> QED
    BY <2>1, <2>2, <2>4 DEF LoopInit, LoopList
<1>4. OrderIndependent
  BY DEF LoopInit, OrderIndependent
<1> QED
  BY <1>1, <1>2, <1>3, <1>4 DEF LoopInv

(* Ranging over one more validator keeps it: the list and the total grow   *)
(* by the same report, or by none.                                         *)
LEMMA CollectInv ==
  ASSUME LoopInv, NEW v \in Validators, Collect(v)
  PROVE  LoopInv'
<1>1. /\ pc = "collect" /\ pc' = pc /\ v \in todo /\ todo' = todo \ {v}
      /\ weight' = weight /\ known' = known /\ report' = report
      /\ index' = index /\ sum' = sum /\ result' = result
      /\ info' = info \o Entry(v)
      /\ total' = IF v \in known THEN total + weight[v] ELSE total
  BY DEF Collect, inputs
<1>2. LoopTypes /\ LoopOrder /\ LoopList
  BY DEF LoopInv
<1> DEFINE R == [weight : Nat, price : Nat]
           e == [weight |-> weight[v], price |-> report[v]]
<1>3. info \in Seq(R) /\ v \in DOMAIN report /\ e \in R
  <2>1. v \in DOMAIN report /\ weight[v] \in Nat /\ report[v] \in Nat
    BY <1>1, <1>2 DEF LoopTypes
  <2> QED
    BY <1>2, <2>1 DEF LoopTypes
<1>4. PICK s : Lists(info, s, Scanned, weight, report)
  BY <1>2 DEF LoopList
<1>5. /\ total' = Weight(weight', Scanned')
      /\ \E z : Lists(info', z, Scanned', weight', report')
      /\ info' \in Seq([weight : Nat, price : Nat])
  <2>1. CASE v \in known
    <3>1. info' = info \o <<e>> /\ total' = total + weight[v]
      BY <1>1, <2>1 DEF Entry
    <3> HIDE DEF e, R
    <3>2. /\ info' \in Seq(R) /\ Len(info') = Len(info) + 1 /\ DOMAIN info' = 1..Len(info')
          /\ \A i \in 1..Len(info) : info'[i] = info[i]
          /\ info'[Len(info) + 1] = e
      BY <1>3, <3>1
    <3>3. Scanned' = Scanned \cup {v} /\ v \notin Scanned
      BY <1>1, <1>3, <2>1 DEF Scanned
    <3>4. \E z : Lists(info', z, Scanned \cup {v}, weight, report)
      <4>1. info'[Len(info) + 1] = [weight |-> weight[v], price |-> report[v]]
        BY <3>2 DEF e
      <4> QED
        BY <1>4, <3>2, <3>3, <4>1, ListGrows
    <3>5. Weight(weight, Scanned \cup {v}) = weight[v] + Weight(weight, Scanned)
      <4> DEFINE S == Scanned \cup {v}
      <4>1. S \in SUBSET Validators /\ S \ {v} = Scanned /\ v \in S
        BY <1>2, <3>3 DEF Scanned, LoopTypes
      <4>2. IsFiniteSet(S) /\ \A x \in S : weight[x] \in Nat
        BY <1>2, <4>1, ScannedFinite
      <4> HIDE DEF S
      <4>3. Weight(weight, S) = weight[v] + Weight(weight, S \ {v})
        BY <4>1, <4>2, WeightRemove
      <4> QED
        BY <4>1, <4>3 DEF S
    <3>6. total' = Weight(weight', Scanned')
      <4>1. total = Weight(weight, Scanned) /\ weight[v] \in Nat /\ Weight(weight, Scanned) \in Nat
        <5>1. Scanned \in SUBSET Validators
          BY <1>2 DEF Scanned, LoopTypes
        <5> QED
          BY <1>2, <1>3, <5>1, ScannedFinite DEF LoopList, LoopTypes
      <4> QED
        BY <1>1, <3>1, <3>3, <3>5, <4>1
    <3>7. \E z : Lists(info', z, Scanned', weight', report')
      BY <1>1, <3>3, <3>4
    <3>8. info' \in Seq([weight : Nat, price : Nat])
      BY <3>2 DEF R
    <3> QED
      BY <3>6, <3>7, <3>8, <1>1
  <2>2. CASE v \notin known
    <3>1. info' = info /\ total' = total
      BY <1>1, <1>3, <2>2 DEF Entry
    <3>2. Scanned' = Scanned
      BY <1>1, <2>2 DEF Scanned
    <3> QED
      BY <1>1, <1>2, <1>3, <1>4, <3>1, <3>2 DEF LoopList
  <2> QED
    BY <2>1, <2>2
<1>6. LoopTypes'
  BY <1>1, <1>2, <1>5 DEF LoopTypes
<1>7. LoopOrder'
  BY <1>1, <1>2 DEF LoopOrder
<1>8. LoopList'
  BY <1>1, <1>5 DEF LoopList
<1>9. OrderIndependent'
  BY <1>1 DEF OrderIndependent
<1> QED
  BY <1>6, <1>7, <1>8, <1>9 DEF LoopInv

(* All reporters have been scanned when nothing is left to do.             *)
LEMMA AllScanned ==
  ASSUME LoopTypes, todo = {}
  PROVE  /\ Scanned = Reporters /\ Reporters \in SUBSET Validators
         /\ DOMAIN Heard = Reporters /\ \A v \in Reporters : Heard[v] = report[v]
BY DEF LoopTypes, Scanned, Reporters, Heard, Restrict

(* The check of the threshold keeps it: everybody has been scanned.        *)
LEMMA CheckThresholdInv ==
  ASSUME LoopInv, CheckThreshold
  PROVE  LoopInv'
<1>1. /\ pc = "collect" /\ todo = {} /\ todo' = todo
      /\ pc' = IF info # <<>> /\ EnoughWeight(total) THEN "sort" ELSE "done"
      /\ weight' = weight /\ known' = known /\ report' = report
      /\ index' = index /\ sum' = sum /\ result' = result
      /\ info' = info /\ total' = total
  BY DEF CheckThreshold, inputs
<1>2. LoopTypes /\ LoopOrder /\ LoopList
  BY DEF LoopInv
<1>3. LoopTypes'
  BY <1>1, <1>2 DEF LoopTypes
<1>4. info # <<>> <=> Len(info) # 0
  BY <1>2 DEF LoopTypes
<1>5. EnoughWeight(total) = EnoughWeight(total)'
  BY <1>1 DEF EnoughWeight, Bonded
<1>6. LoopOrder'
  BY <1>1, <1>2, <1>4, <1>5 DEF LoopOrder
<1>7. PICK s : Lists(info, s, Scanned, weight, report)
  BY <1>2 DEF LoopList
<1>8. Scanned' = Scanned
  BY <1>1 DEF Scanned
<1>9. LoopList'
  BY <1>1, <1>2, <1>7, <1>8 DEF LoopList
<1>10. OrderIndependent'
  <2> SUFFICES ASSUME pc' = "done",
                      Reporters # {}, 1000 * Weight(weight, Reporters) >= 667 * Weight(weight, known)
               PROVE  FALSE
    <3>1. result' = NoPrice
      BY <1>1, <1>2 DEF LoopOrder
    <3>2. Reporters' = Reporters /\ weight' = weight /\ known' = known
      BY <1>1 DEF Reporters
    <3> QED
      BY <3>1, <3>2 DEF OrderIndependent
  <2>1. Scanned = Reporters
    BY <1>1, <1>2, AllScanned
  <2>2. Len(info) # 0
    <3>1. Len(info) \in Nat /\ \A v \in Reporters : \E i \in 1..Len(info) : s[i] = v
      BY <1>7, <2>1 DEF Lists
    <3> QED
      BY <3>1
  <2>3. EnoughWeight(total)
    BY <1>2, <2>1 DEF EnoughWeight, Bonded, LoopList
  <2> QED
    BY <1>1, <1>4, <2>2, <2>3
<1> QED
  BY <1>3, <1>6, <1>9, <1>10 DEF LoopInv

(* The sort keeps it: the list stands for the same reporters.              *)
LEMMA SortInv ==
  ASSUME LoopInv, Sort
  PROVE  LoopInv'
<1>1. /\ pc = "sort" /\ pc' = "walk" /\ todo' = todo
      /\ weight' = weight /\ known' = known /\ report' = report
      /\ index' = index /\ sum' = sum /\ result' = result /\ total' = total
  BY DEF Sort, inputs
<1>2. LoopTypes /\ LoopOrder /\ LoopList
  BY DEF LoopInv
<1>3. info' \in [1..Len(info) -> Range(info)] /\ IsSortOf(info', info)
  BY DEF Sort
<1> DEFINE R == [weight : Nat, price : Nat]
<1>4. info \in Seq(R)
  BY <1>2 DEF LoopTypes
<1> HIDE DEF R
<1>5. /\ info' \in Seq(R)
      /\ Len(info') = Len(info) /\ DOMAIN info' = 1..Len(info)
  <2> DEFINE n == Len(info)
  <2>1. n \in Nat /\ info \in [1..n -> R]
    BY <1>4
  <2>2. Range(info) \in SUBSET R
    BY <2>1 DEF Range
  <2>3. info' \in [1..n -> R]
    BY <1>3, <2>2
  <2> HIDE DEF n
  <2>4. info' \in Seq(R) /\ Len(info') = n /\ DOMAIN info' = 1..n
    BY <2>1, <2>3
  <2> QED
    BY <2>4 DEF n
<1>6. LoopTypes'
  BY <1>1, <1>2, <1>5 DEF LoopTypes, R
<1>7. LoopOrder'
  <2>1. EnoughWeight(total) = EnoughWeight(total)'
    BY <1>1 DEF EnoughWeight, Bonded
  <2> QED
    BY <1>1, <1>2, <1>5, <2>1 DEF LoopOrder
<1>8. Scanned' = Scanned
  BY <1>1 DEF Scanned
<1>9. PICK s : Lists(info, s, Scanned, weight, report)
  BY <1>2 DEF LoopList
<1>10. SortedByPrice(info') /\ \E z : Lists(info', z, Scanned, weight, report)
  BY <1>3, <1>5, <1>9, ListSorted
<1>11. PICK z : Lists(info', z, Scanned, weight, report)
  BY <1>10
<1>12. index' = 1 /\ sum' = 0 /\ Len(info') \in Nat /\ Len(info') # 0
  BY <1>1, <1>2, <1>4, <1>5 DEF LoopOrder
<1>13. sum' = Weight(weight, Prefix(z, index' - 1))
  <2>1. Scanned \in SUBSET Validators
    BY <1>2 DEF Scanned, LoopTypes
  <2>2. IsFiniteSet(Scanned) /\ \A v \in Scanned : weight[v] \in Nat
    BY <1>2, <2>1, ScannedFinite
  <2>3. 1 \in 1..Len(info')
    BY <1>12
  <2>4. Weight(weight, Prefix(z, 0)) = 0
    BY <1>11, <2>2, <2>3, PrefixGrows
  <2> QED
    BY <1>12, <2>4
<1>14. LoopList'
  <2>1. total' = Weight(weight', Scanned')
    BY <1>1, <1>2, <1>8 DEF LoopList
  <2>2. \E x : Lists(info', x, Scanned', weight', report') /\ sum' = Weight(weight', Prefix(x, index' - 1))
    BY <1>1, <1>8, <1>11, <1>13
  <2>3. SortedByPrice(info') /\ index' \in 1..Len(info') /\ index' = 1
    BY <1>10, <1>12
  <2> QED
    BY <2>1, <2>2, <2>3 DEF LoopList
<1>15. OrderIndependent'
  BY <1>1 DEF OrderIndependent
<1> QED
  BY <1>6, <1>7, <1>14, <1>15 DEF LoopInv

(* A step of the walk keeps it, and if it is the last its price is the     *)
(* median.                                                                 *)
LEMMA WalkInv ==
  ASSUME LoopInv, Walk
  PROVE  LoopInv'
<1>1. /\ pc = "walk" /\ index <= Len(info) /\ todo' = todo
      /\ sum' = sum + info[index].weight
      /\ IF Reached(sum') \/ index = Len(info)
         THEN result' = info[index].price /\ pc' = "done" /\ index' = index
         ELSE index' = index + 1 /\ result' = result /\ pc' = pc
      /\ weight' = weight /\ known' = known /\ report' = report
      /\ info' = info /\ total' = total
  BY DEF Walk, inputs
<1>2. LoopTypes /\ LoopOrder /\ LoopList
  BY DEF LoopInv
<1>3. todo = {} /\ todo' = {} /\ Scanned' = Scanned
  BY <1>1, <1>2 DEF LoopOrder, Scanned
<1>4. PICK s : Lists(info, s, Scanned, weight, report) /\ sum = Weight(weight, Prefix(s, index - 1))
  BY <1>1, <1>2 DEF LoopList
<1>5. /\ SortedByPrice(info) /\ index \in 1..Len(info) /\ Len(info) \in Nat
      /\ index = 1 \/ ~Reached(sum)
      /\ total = Weight(weight, Scanned)
  BY <1>1, <1>2, <1>4 DEF LoopList, Lists
<1>6. Scanned = Reporters /\ Reporters \in SUBSET Validators /\ DOMAIN Heard = Reporters
      /\ \A v \in Reporters : Heard[v] = report[v]
  BY <1>2, <1>3, AllScanned
<1>7. IsFiniteSet(Reporters) /\ \A v \in Reporters : weight[v] \in Nat /\ report[v] \in Nat
  <2>1. \A v \in Reporters : report[v] \in Nat
    BY <1>2 DEF LoopTypes, Reporters
  <2> QED
    BY <1>2, <1>6, <2>1, ScannedFinite
<1>8. /\ sum \in Nat
      /\ sum' = Weight(weight, Prefix(s, index))
  <2>1. /\ Weight(weight, Prefix(s, index - 1)) \in Nat
        /\ Weight(weight, Prefix(s, index)) = Weight(weight, Prefix(s, index - 1)) + info[index].weight
    BY <1>4, <1>5, <1>6, <1>7, PrefixGrows
  <2> QED
    BY <1>1, <1>4, <2>1
<1>9. LoopTypes'
  BY <1>1, <1>2, <1>3 DEF LoopTypes
<1>10. LoopOrder'
  <2>1. EnoughWeight(total) = EnoughWeight(total)'
    BY <1>1 DEF EnoughWeight, Bonded
  <2> QED
    BY <1>1, <1>2, <1>3, <2>1 DEF LoopOrder
<1>11. Reached(sum)' = Reached(sum')
  BY <1>1 DEF Reached
<1>12. LoopList'
  <2>1. total' = Weight(weight', Scanned')
    BY <1>1, <1>3, <1>5
  <2>2. pc' = "walk" =>
          /\ index' = index + 1 /\ index' \in 1..Len(info') /\ ~Reached(sum)'
          /\ SortedByPrice(info')
          /\ sum' = Weight(weight', Prefix(s, index' - 1))
    <3> SUFFICES ASSUME pc' = "walk"
                 PROVE  /\ index' = index + 1 /\ index' \in 1..Len(info') /\ ~Reached(sum)'
                        /\ SortedByPrice(info')
                        /\ sum' = Weight(weight', Prefix(s, index' - 1))
      OBVIOUS
    <3>1. index' = index + 1 /\ index # Len(info) /\ ~Reached(sum')
      BY <1>1
    <3>2. index' \in 1..Len(info') /\ index' - 1 = index
      BY <1>1, <1>5, <3>1
    <3> QED
      BY <1>1, <1>5, <1>8, <1>11, <3>1, <3>2
  <2>3. Lists(info', s, Scanned', weight', report')
    BY <1>1, <1>3, <1>4
  <2>4. pc' = "walk" => SortedByPrice(info)' /\ (index \in 1..Len(info))' /\ (index = 1 \/ ~Reached(sum))'
    BY <2>2
  <2>5. \E x : Lists(info', x, Scanned', weight', report')
               /\ (pc' = "walk" => sum' = Weight(weight', Prefix(x, index' - 1)))
    BY <2>2, <2>3
  <2> QED
    BY <2>1, <2>4, <2>5 DEF LoopList
<1>13. OrderIndependent'
  <2> SUFFICES ASSUME pc' = "done"
               PROVE  OrderIndependent'
    BY DEF OrderIndependent
  <2>1. (Reached(sum') \/ index = Len(info)) /\ result' = info[index].price
    BY <1>1
  <2>2. Middle(weight, Heard) = total \div 2
    BY <1>5, <1>6 DEF Middle
  <2>3. Weight(weight, Prefix(s, index)) >= Middle(weight, Heard) \/ index = Len(info)
    BY <1>8, <2>1, <2>2 DEF Reached
  <2>4. index = 1 \/ Weight(weight, Prefix(s, index - 1)) < Middle(weight, Heard)
    <3>1. total \in Nat
      BY <1>2, <1>5, <1>6, ScannedFinite
    <3> QED
      BY <1>4, <1>5, <1>8, <2>2, <3>1 DEF Reached
  <2>5. Lists(info, s, DOMAIN Heard, weight, Heard)
    <3>1. s \in [1..Len(info) -> Reporters]
      BY <1>4, <1>6 DEF Lists
    <3>2. \A i \in 1..Len(info) : Heard[s[i]] = report[s[i]]
      BY <1>6, <3>1
    <3> QED
      BY <1>4, <1>6, <3>1, <3>2 DEF Lists
  <2>6. IsFiniteSet(DOMAIN Heard) /\ \A v \in DOMAIN Heard : weight[v] \in Nat /\ Heard[v] \in Int
    BY <1>6, <1>7
  <2>7. ComputeMedian(weight, Heard) = info[index].price
    BY <1>5, <2>3, <2>4, <2>5, <2>6, WalkFindsMedian
  <2>8. Reporters # {} /\ 1000 * Weight(weight, Reporters) >= 667 * Weight(weight, known)
    <3>1. EnoughWeight(total)
      BY <1>1, <1>2 DEF LoopOrder
    <3>2. Reporters # {}
      BY <1>4, <1>5, <1>6 DEF Lists
    <3> QED
      BY <1>5, <1>6, <3>1, <3>2 DEF EnoughWeight, Bonded
  <2>9. Heard' = Heard /\ Reporters' = Reporters
    BY <1>1 DEF Heard, Reporters
  <2> QED
    BY <1>1, <2>1, <2>7, <2>8, <2>9 DEF OrderIndependent
<1> QED
  BY <1>9, <1>10, <1>12, <1>13 DEF LoopInv

(* Doing nothing keeps it.                                                 *)
LEMMA LoopStutters ==
  ASSUME LoopInv, UNCHANGED loopVars
  PROVE  LoopInv'
<1>1. /\ weight' = weight /\ known' = known /\ report' = report /\ todo' = todo
      /\ info' = info /\ total' = total /\ pc' = pc /\ index' = index /\ sum' = sum
      /\ result' = result
  BY DEF loopVars
<1>2. LoopTypes /\ LoopOrder /\ LoopList /\ OrderIndependent
  BY DEF LoopInv
<1>3. LoopTypes'
  BY <1>1, <1>2 DEF LoopTypes
<1>4. LoopOrder'
  BY <1>1, <1>2 DEF LoopOrder, EnoughWeight, Bonded
<1>5. LoopList'
  <2>1. Scanned' = Scanned /\ Reached(sum)' = Reached(sum)
    BY <1>1 DEF Scanned, Reached
  <2>2. SortedByPrice(info)' = SortedByPrice(info)
    BY <1>1
  <2>3. PICK s : /\ Lists(info, s, Scanned, weight, report)
                 /\ pc = "walk" => sum = Weight(weight, Prefix(s, index - 1))
    BY <1>2 DEF LoopList
  <2>4. /\ Lists(info', s, Scanned', weight', report')
        /\ pc' = "walk" => sum' = Weight(weight', Prefix(s, index' - 1))
    BY <1>1, <2>1, <2>3
  <2> QED
    BY <1>1, <1>2, <2>1, <2>2, <2>4 DEF LoopList
<1>6. OrderIndependent'
  <2>1. Heard' = Heard /\ Reporters' = Reporters
    BY <1>1 DEF Heard, Reporters
  <2> QED
    BY <1>1, <1>2, <2>1 DEF OrderIndependent
<1> QED
  BY <1>3, <1>4, <1>5, <1>6 DEF LoopInv

(* The loop keeps its invariant, for every set of validators, their        *)
(* weights and prices, in every order of the map and of equal prices.      *)
THEOREM LoopInvariant == LoopSpec => []LoopInv
<1>1. LoopInv /\ [LoopNext]_loopVars => LoopInv'
  <2> SUFFICES ASSUME LoopInv, [LoopNext]_loopVars
               PROVE  LoopInv'
    OBVIOUS
  <2>1. ASSUME NEW v \in Validators, Collect(v)
        PROVE  LoopInv'
    BY <2>1, CollectInv
  <2>2. CASE CheckThreshold
    BY <2>2, CheckThresholdInv
  <2>3. CASE Sort
    BY <2>3, SortInv
  <2>4. CASE Walk
    BY <2>4, WalkInv
  <2>5. CASE Done \/ UNCHANGED loopVars
    <3>1. UNCHANGED loopVars
      BY <2>5 DEF Done
    <3> QED
      BY <3>1, LoopStutters
  <2> QED
    BY <2>1, <2>2, <2>3, <2>4, <2>5 DEF LoopNext
<1> QED
  BY <1>1, LoopInitInv, PTL DEF LoopSpec

(* The code computes the closed form of the median, whatever the order of  *)
(* the map and of equal prices, or no price below the threshold.           *)
THEOREM OrderIndependentTheorem == LoopSpec => []OrderIndependent
<1>1. LoopInv => OrderIndependent
  BY DEF LoopInv
<1> QED
  BY <1>1, LoopInvariant, PTL

(* A coalition that weighs less than the middle cannot move the price out  *)
(* of the range of the prices of the others.                               *)
THEOREM CoalitionBoundedTheorem == LoopSpec => []CoalitionBounded
<1>1. LoopInv => CoalitionBounded
  <2> SUFFICES ASSUME LoopInv, pc = "done", result # NoPrice,
                      NEW C \in SUBSET Reporters, Weight(weight, C) < Middle(weight, Heard)
               PROVE  /\ \E v \in Reporters \ C : report[v] <= result
                      /\ \E v \in Reporters \ C : result <= report[v]
    BY DEF CoalitionBounded
  <2>1. LoopTypes /\ todo = {} /\ OrderIndependent
    BY DEF LoopInv, LoopOrder
  <2>2. result = ComputeMedian(weight, Heard)
    BY <2>1 DEF OrderIndependent
  <2>3. /\ Reporters \in SUBSET Validators
        /\ DOMAIN Heard = Reporters /\ \A v \in Reporters : Heard[v] = report[v]
    BY <2>1, AllScanned
  <2>4. /\ IsFiniteSet(DOMAIN Heard) /\ \A v \in DOMAIN Heard : weight[v] \in Nat
        /\ \A v \in DOMAIN Heard : Heard[v] \in Int
    <3>1. \A v \in Reporters : report[v] \in Nat
      BY <2>1 DEF LoopTypes, Reporters
    <3> QED
      BY <2>1, <2>3, <3>1, ScannedFinite
  <2>5. \E low, high \in DOMAIN Heard \ C :
           Heard[low] <= ComputeMedian(weight, Heard) /\ ComputeMedian(weight, Heard) <= Heard[high]
    BY <2>3, <2>4, MedianWithinOthers
  <2> QED
    BY <2>2, <2>3, <2>5
<1> QED
  BY <1>1, LoopInvariant, PTL

-----------------------------------------------------------------------------
(* A vote extension that decodes to at most n prices of legal length.      *)
Fits(ve, n) ==
  /\ Decodes(ve)
  /\ Cardinality(DOMAIN ve) \in Nat /\ Cardinality(DOMAIN ve) <= n
  /\ \A id \in DOMAIN ve : ve[id] # LongPrice

(* Vote extensions exist between a block's votes and its execution only,   *)
(* and have finitely many prices.                                          *)
VotesShape ==
  /\ \A v \in Validator : votes[v] \in {NoVote, Malformed} \/ IsFiniteSet(DOMAIN votes[v])
  /\ phase \notin {"vote", "preblock"} => \A v \in Validator : votes[v] = NoVote

(* Honest votes fit the pairs of the state they were made on.              *)
HonestVotesFit ==
  phase = "vote" => \A v \in Honest : votes[v] # NoVote => Fits(votes[v], numCPs)

(* The accounting: a verified vote fits the pairs; once the removals are   *)
(* being counted it fits the pairs and the removed ones.                   *)
VerifiedFit ==
  /\ verified \subseteq Validator
  /\ phase = "preblock" => \A v \in verified : Fits(votes[v], numCPs)
  /\ phase = "begin" => \A v \in lastVerified : Fits(lastVotes[v], numCPs)
  /\ phase \in {"txs", "propose", "process"} =>
       \A v \in lastVerified : Fits(lastVotes[v], numCPs + numRemoves)

(* What was accepted decodes.                                              *)
AcceptedDecodes ==
  phase \in {"vote", "preblock"} /\ VoteExtensionsEnabled(height + 1) =>
    VotesDecode(proposal.info)

(* The inductive invariant.                                                *)
ABCIInv ==
  KeeperInv /\ nextCurrencyPairID <= MaxID /\ VotesShape /\ HonestVotesFit /\ VerifiedFit /\ AcceptedDecodes

-----------------------------------------------------------------------------
(* The counters are natural numbers.                                       *)
LEMMA CounterTypes ==
  ASSUME KeeperInv
  PROVE  /\ numCPs \in Nat /\ numRemoves \in Nat
         /\ numCPs = Cardinality(Tracked) /\ IsFiniteSet(Tracked)
BY TrackedFinite DEF KeeperInv, KeeperTypeOK, NumCPsExact

(* The empty vote extension fits always.                                   *)
LEMMA NoVEFits ==
  ASSUME NEW n \in Nat
  PROVE  Fits(NoVE, n) /\ IsFiniteSet(DOMAIN NoVE)
<1>1. DOMAIN NoVE = {}
  BY DEF NoVE
<1>2. IsFiniteSet({}) /\ Cardinality({}) = 0
  BY FS_EmptySet
<1> QED
  BY <1>1, <1>2, ABCIConstants DEF Fits, Decodes, NoVE

(* VerifyVoteExtension is the test of Fits for the current pairs.          *)
LEMMA VerifyFits ==
  ASSUME KeeperInv, NEW ve, ve = Malformed \/ IsFiniteSet(DOMAIN ve)
  PROVE  VerifyVoteExtension(ve) <=> Fits(ve, numCPs)
<1>1. numCPs \in Nat
  BY CounterTypes
<1>2. CASE ve = NoVE
  BY <1>1, <1>2, NoVEFits DEF VerifyVoteExtension
<1>3. CASE ve # NoVE
  <2>1. Decodes(ve) => Cardinality(DOMAIN ve) \in Nat
    BY FS_CardinalityType DEF Decodes
  <2> QED
    BY <1>3, <2>1 DEF VerifyVoteExtension, Fits, ValidateOracleVoteExtension, GetMaxNumCP
<1> QED
  BY <1>2, <1>3

(* What an honest ExtendVote makes fits the pairs it was made for: the ids *)
(* are an image of tracked pairs, whose number is numCPs.                  *)
LEMMA ExtensionFits ==
  ASSUME KeeperInv, nextCurrencyPairID <= MaxID, NEW answer \in Answers
  PROVE  Fits(Extension(answer), numCPs) /\ IsFiniteSet(DOMAIN Extension(answer))
<1> DEFINE D == DOMAIN answer \cap Tracked
           I == {currencyPairs[cp].id : cp \in D}
<1>1. numCPs \in Nat /\ numCPs = Cardinality(Tracked) /\ IsFiniteSet(Tracked)
  BY CounterTypes
<1>2. CASE ~VotesDecode(proposal.info)
  BY <1>1, <1>2, NoVEFits DEF Extension
<1>3. CASE VotesDecode(proposal.info)
  <2>1. IsFiniteSet(D) /\ Cardinality(D) <= numCPs
    BY <1>1, FS_Subset
  <2>2. IsFiniteSet(I) /\ Cardinality(I) <= Cardinality(D)
    <3> DEFINE f == [cp \in D |-> currencyPairs[cp].id]
    <3>1. f \in Surjection(D, I)
      BY DEF Surjection
    <3> QED
      BY <2>1, <3>1, FS_Surjection
  <2>3. Cardinality(I) \in Nat /\ Cardinality(D) \in Nat
    BY <2>1, <2>2, FS_CardinalityType
  <2>4. Extension(answer) = [id \in I |-> answer[CHOOSE cp \in D : currencyPairs[cp].id = id]]
    BY <1>3 DEF Extension
  <2>5. \A id \in I : answer[CHOOSE cp \in D : currencyPairs[cp].id = id] \in Price
    <3> SUFFICES ASSUME NEW id \in I
                 PROVE  answer[CHOOSE cp \in D : currencyPairs[cp].id = id] \in Price
      OBVIOUS
    <3>1. (CHOOSE cp \in D : currencyPairs[cp].id = id) \in D
      OBVIOUS
    <3>2. \A cp \in DOMAIN answer : answer[cp] \in FairPrices[cp] /\ cp \in CurrencyPair
      BY ABCIConstants DEF Answers
    <3> QED
      BY <3>1, <3>2, ABCIConstants
  <2>9. I \in SUBSET (0..MaxID)
    BY KeeperConstants DEF KeeperInv, KeeperTypeOK, IDsUnique, Tracked, CurrencyPairState
  <2> HIDE DEF D, I
  <2>6. DOMAIN Extension(answer) = I
    BY <2>4
  <2>10. Extension(answer) \in [I -> Price]
    BY <2>4, <2>5
  <2>7. \A id \in I : Extension(answer)[id] # LongPrice
    BY <2>10, ABCIConstants
  <2>8. Decodes(Extension(answer))
    BY <2>9, <2>10, ABCIConstants DEF Decodes
  <2> QED
    BY <1>1, <2>1, <2>2, <2>3, <2>6, <2>7, <2>8 DEF Fits
<1> QED
  BY <1>2, <1>3

-----------------------------------------------------------------------------
(* The accounting holds at the start of the chain.                         *)
LEMMA ABCIInit ==
  ASSUME Init
  PROVE  ABCIInv
<1>1. KeeperInv
  BY InitInv DEF Init
<1>2. nextCurrencyPairID <= MaxID
  BY KeeperConstants DEF Init, InitGenesis
<1>3. VotesShape /\ HonestVotesFit /\ VerifiedFit /\ AcceptedDecodes
  BY ABCIConstants DEF Init, VotesShape, HonestVotesFit, VerifiedFit, AcceptedDecodes, Honest
<1> QED
  BY <1>1, <1>2, <1>3 DEF ABCIInv

(* Steps that change neither the keeper nor the votes.                     *)
LEMMA ProposalSteps ==
  ASSUME ABCIInv, UNCHANGED <<keeperVars, votes, verified, lastVotes, lastVerified>>,
         \/ phase = "propose" /\ phase' = "process"
         \/ phase \in {"propose", "process"} /\ phase' = "propose"
         \/ phase = "txs" /\ phase' = "propose"
         \/ UNCHANGED <<height, phase, proposal>>
  PROVE  ABCIInv'
<1>1. KeeperInv' /\ (nextCurrencyPairID <= MaxID)'
  BY DEF ABCIInv, keeperVars, KeeperInv, KeeperTypeOK, IDsUnique, NumCPsExact, NonceHasPrice,
         Tracked
<1>2. UNCHANGED <<numCPs, numRemoves>>
  BY DEF keeperVars
<1>3. VotesShape' /\ HonestVotesFit' /\ VerifiedFit'
  BY <1>2 DEF ABCIInv, VotesShape, HonestVotesFit, VerifiedFit, Fits
<1>4. AcceptedDecodes'
  BY DEF ABCIInv, AcceptedDecodes, VoteExtensionsEnabled, VotesDecode
<1> QED
  BY <1>1, <1>3, <1>4 DEF ABCIInv

(* A proposal that was accepted decodes.                                   *)
LEMMA ProcessProposalInv ==
  ASSUME ABCIInv, ProcessProposal
  PROVE  ABCIInv'
<1>1. KeeperInv' /\ (nextCurrencyPairID <= MaxID)' /\ UNCHANGED <<numCPs, numRemoves>>
  BY DEF ABCIInv, ProcessProposal, keeperVars, KeeperInv, KeeperTypeOK, IDsUnique, NumCPsExact,
         NonceHasPrice, Tracked
<1>2. VotesShape' /\ HonestVotesFit' /\ VerifiedFit'
  BY <1>1, ABCIConstants
     DEF ABCIInv, ProcessProposal, VotesShape, HonestVotesFit, VerifiedFit, Honest
<1>3. VoteExtensionsEnabled(height + 1) => VotesDecode(proposal.info)
  BY ABCIConstants DEF ProcessProposal, Accepts, VotesDecode, ValidVote, Decodes, NoVE
<1>4. AcceptedDecodes'
  BY <1>3 DEF ProcessProposal, AcceptedDecodes, VoteExtensionsEnabled, VotesDecode
<1> QED
  BY <1>1, <1>2, <1>4 DEF ABCIInv

(* One vote more: an honest one fits, any other is a finite map or         *)
(* malformed.                                                              *)
LEMMA ExtendVoteInv ==
  ASSUME ABCIInv, NEW v \in Validator, ExtendVote(v)
  PROVE  ABCIInv'
<1>1. KeeperInv' /\ (nextCurrencyPairID <= MaxID)' /\ UNCHANGED <<numCPs, numRemoves>>
  BY DEF ABCIInv, ExtendVote, keeperVars, KeeperInv, KeeperTypeOK, IDsUnique, NumCPsExact,
         NonceHasPrice, Tracked
<1>2. PICK ve : /\ votes' = [votes EXCEPT ![v] = ve]
                /\ ve = Malformed \/ IsFiniteSet(DOMAIN ve)
                /\ v \in Honest => Fits(ve, numCPs)
  <2>1. numCPs \in Nat
    BY CounterTypes DEF ABCIInv
  <2>2. CASE votes' = [votes EXCEPT ![v] = NoVE]
    BY <2>1, <2>2, NoVEFits
  <2>3. ASSUME NEW answer \in Answers, votes' = [votes EXCEPT ![v] = Extension(answer)]
        PROVE  /\ IsFiniteSet(DOMAIN Extension(answer))
               /\ Fits(Extension(answer), numCPs)
    BY ExtensionFits DEF ABCIInv
  <2>4. ASSUME NEW ve \in ByzExtensions, v \in Byzantine, votes' = [votes EXCEPT ![v] = ve]
        PROVE  /\ ve = Malformed \/ IsFiniteSet(DOMAIN ve)
               /\ v \notin Honest
    BY <2>4, ABCIConstants DEF Honest
  <2> QED
    BY <2>2, <2>3, <2>4 DEF ExtendVote
<1>3. UNCHANGED <<height, phase, proposal, verified, lastVotes, lastVerified>> /\ phase = "vote"
  BY DEF ExtendVote
<1>4. VotesShape' /\ HonestVotesFit'
  <2>1. \A u \in Validator : votes'[u] = votes[u] \/ (u = v /\ votes'[u] = ve)
    BY <1>2 DEF ABCIInv
  <2> QED
    BY <1>1, <1>2, <1>3, <2>1 DEF ABCIInv, VotesShape, HonestVotesFit, Honest, Fits
<1>5. VerifiedFit' /\ AcceptedDecodes'
  BY <1>3 DEF ABCIInv, VerifiedFit, AcceptedDecodes, VoteExtensionsEnabled, VotesDecode
<1> QED
  BY <1>1, <1>4, <1>5 DEF ABCIInv

(* The counted precommits passed VerifyVoteExtension, so they fit.         *)
LEMMA DecideInv ==
  ASSUME ABCIInv, Decide
  PROVE  ABCIInv'
<1>1. KeeperInv' /\ (nextCurrencyPairID <= MaxID)' /\ UNCHANGED <<numCPs, numRemoves>>
  BY DEF ABCIInv, Decide, keeperVars, KeeperInv, KeeperTypeOK, IDsUnique, NumCPsExact,
         NonceHasPrice, Tracked
<1>2. \A v \in Counted : Fits(votes[v], numCPs)
  BY VerifyFits DEF ABCIInv, VotesShape, Counted
<1>3. VotesShape' /\ HonestVotesFit' /\ AcceptedDecodes'
  BY DEF ABCIInv, Decide, VotesShape, HonestVotesFit, AcceptedDecodes,
         VoteExtensionsEnabled, VotesDecode
<1>4. VerifiedFit'
  <2>1. Counted \subseteq Validator
    BY DEF Counted
  <2> QED
    BY <1>1, <1>2, <2>1 DEF Decide, VerifiedFit, Fits
<1> QED
  BY <1>1, <1>3, <1>4 DEF ABCIInv

(* Execution changes prices but neither the pairs nor the counters.        *)
LEMMA PreBlockerInv ==
  ASSUME ABCIInv, PreBlocker
  PROVE  ABCIInv'
<1> DEFINE prices == Written(AggregateOracleVotes(proposal.info))
<1>1. /\ KeeperInv' /\ (nextCurrencyPairID <= MaxID)'
      /\ UNCHANGED <<numCPs, numRemoves>>
  <2>1. CASE VoteExtensionsEnabled(height + 1)
    <3>1. ApplyPrices(prices)
      BY <2>1 DEF PreBlocker
    <3>2. DOMAIN prices \in SUBSET CurrencyPair /\ prices \in [DOMAIN prices -> Price]
      BY DEF Written, AggregateOracleVotes, Priced, Tracked
    <3>3. KeeperInv'
      BY <3>1, <3>2, ApplyPricesInv DEF ABCIInv
    <3> QED
      BY <3>1, <3>3 DEF ApplyPrices, ABCIInv
  <2>2. CASE ~VoteExtensionsEnabled(height + 1)
    BY <2>2 DEF ABCIInv, PreBlocker, keeperVars, KeeperInv, KeeperTypeOK, IDsUnique,
                NumCPsExact, NonceHasPrice, Tracked
  <2> QED
    BY <2>1, <2>2
<1>2. VotesShape' /\ HonestVotesFit' /\ AcceptedDecodes'
  BY DEF PreBlocker, VotesShape, HonestVotesFit, AcceptedDecodes
<1>3. VerifiedFit'
  BY <1>1 DEF ABCIInv, PreBlocker, VerifiedFit, Fits
<1> QED
  BY <1>1, <1>2, <1>3 DEF ABCIInv

(* The removal counter is reset and starts to make up for removals.        *)
LEMMA BeginBlockInv ==
  ASSUME ABCIInv, BeginBlock
  PROVE  ABCIInv'
<1>1. KeeperInv' /\ (nextCurrencyPairID <= MaxID)'
  BY NextInv DEF ABCIInv, BeginBlock, BeginBlocker, KeeperNext
<1>2. VotesShape' /\ HonestVotesFit' /\ AcceptedDecodes'
  BY DEF ABCIInv, BeginBlock, VotesShape, HonestVotesFit, AcceptedDecodes
<1>3. VerifiedFit'
  <2>1. numCPs \in Nat
    BY CounterTypes DEF ABCIInv
  <2>2. numCPs' = numCPs /\ numRemoves' = 0
    BY DEF BeginBlock, BeginBlocker
  <2>3. numCPs' + numRemoves' = numCPs
    BY <2>1, <2>2
  <2> QED
    BY <2>3 DEF ABCIInv, BeginBlock, VerifiedFit, Fits
<1> QED
  BY <1>1, <1>2, <1>3 DEF ABCIInv

(* What fits a limit fits a larger one: the arithmetic of numCPs and       *)
(* numRemoves over a message.                                              *)
LEMMA SumMonotone ==
  ASSUME NEW a \in Nat, NEW b \in Nat, NEW c \in Nat, NEW d \in Nat, a + b <= c + d,
         NEW n \in Nat, n <= a + b
  PROVE  n <= c + d
OBVIOUS

(* A message never lowers numCPs + numRemoves.                             *)
LEMMA DeliverTxInv ==
  ASSUME ABCIInv, DeliverTx
  PROVE  ABCIInv'
<1>1. PICK msg \in Messages : AddCurrencyPairs(msg) \/ RemoveCurrencyPairs(msg)
  BY DEF DeliverTx
<1>2. KeeperInv'
  BY <1>1, NextInv DEF ABCIInv, KeeperNext
<1>3. numCPs + numRemoves <= numCPs' + numRemoves' /\ (nextCurrencyPairID <= MaxID)'
  <2>1. /\ numCPs \in Nat /\ numRemoves \in Nat
        /\ numCPs = Cardinality(Tracked) /\ IsFiniteSet(Tracked)
    BY CounterTypes DEF ABCIInv
  <2>2. CASE AddCurrencyPairs(msg)
    <3>1. Cardinality(CreatedAt(msg)) \in Nat
      BY CreatedFacts, MessagesAreMentions
    <3> QED
      BY <2>1, <2>2, <3>1 DEF AddCurrencyPairs, CreateAll
  <2>3. CASE RemoveCurrencyPairs(msg)
    <3>1. Named(msg) \in SUBSET Tracked
      BY <2>3, MessageShape
         DEF RemoveCurrencyPairs, Removable, Named, Tracked, HasCurrencyPair
    <3>2. Cardinality(Named(msg)) \in Nat /\ Cardinality(Named(msg)) <= numCPs
      BY <2>1, <3>1, FS_Subset, FS_CardinalityType
    <3>3. numCPs < Uint64 /\ Uint64 \in Nat
      BY <2>1, TrackedFinite, KeeperConstants
    <3>4. (numCPs - Cardinality(Named(msg))) % Uint64 = numCPs - Cardinality(Named(msg))
      BY <2>1, <3>2, <3>3
    <3> QED
      BY <2>1, <2>3, <3>2, <3>4 DEF RemoveCurrencyPairs, RemovedBy, ABCIInv
  <2> QED
    BY <1>1, <2>2, <2>3
<1>6. numCPs + numRemoves <= numCPs' + numRemoves'
  BY <1>3
<1>4. VotesShape' /\ HonestVotesFit' /\ AcceptedDecodes'
  BY DEF ABCIInv, DeliverTx, consensusVars, VotesShape, HonestVotesFit, AcceptedDecodes
<1>5. VerifiedFit'
  <2>1. /\ numCPs \in Nat /\ numRemoves \in Nat
        /\ numCPs' \in Nat /\ numRemoves' \in Nat
    BY <1>2 DEF ABCIInv, KeeperInv, KeeperTypeOK
  <2>0. \A n \in Nat : n <= numCPs + numRemoves => n <= numCPs' + numRemoves'
    BY <2>1, <1>6, SumMonotone
  <2>2. \A ve : Fits(ve, numCPs + numRemoves) => Fits(ve, numCPs' + numRemoves')
    BY <2>0 DEF Fits
  <2>3. phase = "txs" /\ UNCHANGED consensusVars
    BY DEF DeliverTx
  <2>4. \A v \in lastVerified : Fits(lastVotes[v], numCPs' + numRemoves')
    BY <2>2, <2>3 DEF ABCIInv, VerifiedFit
  <2> QED
    BY <2>3, <2>4 DEF ABCIInv, VerifiedFit, consensusVars, Fits
<1> QED
  BY <1>2, <1>3, <1>4, <1>5 DEF ABCIInv

(* Every step keeps the accounting.                                        *)
LEMMA ABCINext ==
  ASSUME ABCIInv, [Next]_vars
  PROVE  ABCIInv'
<1>1. ASSUME NEW S, PrepareProposal(S) PROVE ABCIInv'
  BY <1>1, ProposalSteps DEF PrepareProposal
<1>2. ASSUME NEW S, NEW T, ByzantineProposal(S, T) PROVE ABCIInv'
  BY <1>2, ProposalSteps DEF ByzantineProposal
<1>3. CASE NextRound
  BY <1>3, ProposalSteps DEF NextRound
<1>4. CASE Commit
  BY <1>4, ProposalSteps DEF Commit
<1>5. CASE UNCHANGED vars
  BY <1>5, ProposalSteps DEF vars, consensusVars
<1>6. CASE Finished
  BY <1>5, <1>6 DEF Finished
<1> QED
  BY <1>1, <1>2, <1>3, <1>4, <1>5, <1>6, ProcessProposalInv, ExtendVoteInv, DecideInv,
     PreBlockerInv, BeginBlockInv, DeliverTxInv DEF Next

-----------------------------------------------------------------------------
(* The invariant of the chain, whatever a Byzantine proposer or voter      *)
(* sends.                                                                  *)
THEOREM ABCIInvariant == Spec => []ABCIInv
<1>1. Init => ABCIInv
  BY ABCIInit
<1>2. ABCIInv /\ [Next]_vars => ABCIInv'
  BY ABCINext
<1> QED
  BY <1>1, <1>2, PTL DEF Spec

(* A vote extension that passed VerifyVoteExtension passes the validation  *)
(* of the next proposal, whatever the block in between removed.            *)
THEOREM VerifiedVotesSurviveTheorem == Spec => []VerifiedVotesSurvive
<1>1. ABCIInv => VerifiedVotesSurvive
  BY DEF ABCIInv, VerifiedFit, VerifiedVotesSurvive, ValidVote, Signed, Fits,
         ValidateOracleVoteExtension, GetMaxNumCP
<1> QED
  BY <1>1, ABCIInvariant, PTL

(* The peers accept the vote extension of an honest validator.             *)
THEOREM HonestVotesVerifiedTheorem == Spec => []HonestVotesVerified
<1>1. ABCIInv => HonestVotesVerified
  BY DEF ABCIInv, HonestVotesFit, HonestVotesVerified, Fits, VerifyVoteExtension,
         ValidateOracleVoteExtension, GetMaxNumCP
<1> QED
  BY <1>1, ABCIInvariant, PTL

(* A decided block never fails to decode in PreBlock.                      *)
THEOREM DecidedBlockExecutesTheorem == Spec => []DecidedBlockExecutes
<1>1. ABCIInv => DecidedBlockExecutes
  BY DEF ABCIInv, AcceptedDecodes, DecidedBlockExecutes
<1> QED
  BY <1>1, ABCIInvariant, PTL
-----------------------------------------------------------------------------
(* The shape of votes and proposals.                                       *)

(* A block is being made below the last height, and a proposal's last      *)
(* commit names validators that voted.                                     *)
ChainTypes ==
  /\ ABCITypeOK
  /\ phase # "propose" => height < MaxHeight
  /\ phase = "process" => \A v \in proposal.lastCommit : lastVotes[v] # NoVote

(* Validators whose votes of the last height a proposer may hold.          *)
Voters == {v \in Validator : lastVotes[v] # NoVote}

(* An extended commit holds validators that voted.                         *)
LEMMA SeenVoted ==
  ASSUME NEW S \in Seen
  PROVE  S \subseteq Voters
BY DEF Seen, Voters

(* The extended commit of such validators, pruned or not, is one.          *)
LEMMA CommitShape ==
  ASSUME ABCITypeOK, NEW S, S \subseteq Voters
  PROVE  /\ S \in SUBSET Validator
         /\ LocalLastCommit(S) \in ExtendedCommitInfo
         /\ PreparedInfo(S) \in ExtendedCommitInfo
<1> DEFINE VoteRecord == [flag : {"commit", "absent"}, ve : VoteExtension, sig : BOOLEAN]
<1>1. S \in SUBSET Validator
  BY DEF Voters
<1>2. Absent \in VoteRecord
  BY DEF Absent, VoteExtension
<1>3. \A v \in S : Signed(lastVotes[v]) \in VoteRecord
  <2> TAKE v \in S
  <2>1. lastVotes[v] \in VoteExtension
    BY DEF Voters, ABCITypeOK
  <2> QED
    BY <2>1 DEF Signed
<1> HIDE DEF VoteRecord
<1>4. \A v \in Validator : LocalLastCommit(S)[v] \in VoteRecord
  BY <1>2, <1>3 DEF LocalLastCommit
<1>5. \A v \in Validator : PreparedInfo(S)[v] \in VoteRecord
  BY <1>2, <1>4 DEF PreparedInfo, PruneExtendedCommitInfo, Pruned
<1>6. /\ LocalLastCommit(S) = [v \in Validator |-> LocalLastCommit(S)[v]]
      /\ PreparedInfo(S) = [v \in Validator |-> PreparedInfo(S)[v]]
  BY DEF LocalLastCommit, PreparedInfo, PruneExtendedCommitInfo
<1>7. LocalLastCommit(S) \in [Validator -> VoteRecord] /\ PreparedInfo(S) \in [Validator -> VoteRecord]
  BY <1>4, <1>5, <1>6
<1> QED
  BY <1>1, <1>7 DEF ExtendedCommitInfo, VoteRecord

(* A vote extension that decodes has finitely many prices.                 *)
LEMMA VoteExtensionFinite ==
  ASSUME NEW ve \in VoteExtension, Decodes(ve)
  PROVE  IsFiniteSet(DOMAIN ve)
<1>1. IsFiniteSet(DOMAIN NoVE)
  <2>1. DOMAIN NoVE = {}
    BY DEF NoVE
  <2> QED
    BY <2>1, FS_EmptySet
<1>2. ASSUME NEW ids \in SUBSET (0..MaxID), ve \in [ids -> Price]
      PROVE  IsFiniteSet(DOMAIN ve)
  <2>1. IsFiniteSet(0..MaxID) /\ DOMAIN ve = ids
    BY <1>2, KeeperConstants, FS_Interval
  <2> QED
    BY <2>1, FS_Subset
<1> QED
  BY <1>1, <1>2, ABCIConstants DEF VoteExtension, Decodes

(* What a vote extension says under an id is a fair price of the pair that *)
(* has this id, if any has it; the id was handed out before.               *)
FairUnder(ve, pairs, next) ==
  \A id \in DOMAIN ve :
    /\ id \in Nat /\ id < next
    /\ \A cp \in CurrencyPair :
         (pairs[cp] # NoState /\ pairs[cp].id = id) => ve[id] \in FairPrices[cp]

(* An honest vote extension is one, and is fair to the pairs.              *)
LEMMA ExtensionIsFair ==
  ASSUME KeeperInv, nextCurrencyPairID <= MaxID, NEW answer \in Answers
  PROVE  /\ Extension(answer) \in VoteExtension
         /\ FairUnder(Extension(answer), currencyPairs, nextCurrencyPairID)
<1> DEFINE D == DOMAIN answer \cap Tracked
           I == {currencyPairs[cp].id : cp \in D}
           pair(id) == CHOOSE cp \in D : currencyPairs[cp].id = id
<1>1. CASE ~VotesDecode(proposal.info)
  <2>1. Extension(answer) = NoVE /\ DOMAIN NoVE = {}
    BY <1>1 DEF Extension, NoVE
  <2> QED
    BY <2>1 DEF VoteExtension, FairUnder
<1>2. CASE VotesDecode(proposal.info)
  <2>1. Extension(answer) = [id \in I |-> answer[pair(id)]]
    BY <1>2 DEF Extension
  <2>2. \A id \in I : pair(id) \in D /\ currencyPairs[pair(id)].id = id
    OBVIOUS
  <2>3. \A cp \in D : /\ cp \in CurrencyPair /\ cp \in Tracked
                      /\ answer[cp] \in FairPrices[cp] /\ FairPrices[cp] \subseteq Price
    BY ABCIConstants DEF Answers
  <2>4. \A cp \in D : /\ currencyPairs[cp].id \in Nat
                      /\ currencyPairs[cp].id < nextCurrencyPairID
    BY <2>3 DEF KeeperInv, KeeperTypeOK, IDsUnique, Tracked, CurrencyPairState
  <2>5. \A id \in I : id \in Nat /\ id < nextCurrencyPairID /\ id \in 0..MaxID
    <3>1. nextCurrencyPairID \in Nat /\ MaxID \in Nat
      BY KeeperConstants DEF KeeperInv, KeeperTypeOK
    <3> QED
      BY <2>4, <3>1
  <2>6. ASSUME NEW id \in I, NEW cp \in CurrencyPair,
               currencyPairs[cp] # NoState, currencyPairs[cp].id = id
        PROVE  cp = pair(id)
    <3> HIDE DEF pair, D, I
    <3>1. cp \in Tracked /\ pair(id) \in Tracked
      BY <2>2, <2>3, <2>6 DEF Tracked
    <3> QED
      BY <2>2, <2>6, <3>1 DEF KeeperInv, IDsUnique
  <2> HIDE DEF pair, D, I
  <2>7. \A id \in I : Extension(answer)[id] = answer[pair(id)]
    BY <2>1
  <2>8. DOMAIN Extension(answer) = I
    BY <2>1
  <2>9. \A id \in I : answer[pair(id)] \in Price /\ answer[pair(id)] \in FairPrices[pair(id)]
    BY <2>2, <2>3
  <2>10. Extension(answer) \in [I -> Price] /\ I \in SUBSET (0..MaxID)
    BY <2>1, <2>5, <2>9
  <2> QED
    BY <2>5, <2>6, <2>7, <2>8, <2>9, <2>10 DEF VoteExtension, FairUnder
<1> QED
  BY <1>1, <1>2

(* The types hold at the start of the chain.                               *)
LEMMA ChainTypesInit ==
  ASSUME Init
  PROVE  ChainTypes
<1>1. KeeperTypeOK
  BY InitInv DEF Init, KeeperInv
<1> QED
  BY <1>1, ABCIConstants DEF Init, ChainTypes, ABCITypeOK

(* Every step keeps the shape; the keeper's part is ABCIInv's.             *)
LEMMA ChainTypesNext ==
  ASSUME ABCIInv, ABCIInv', ChainTypes, [Next]_vars
  PROVE  ChainTypes'
<1>1. KeeperTypeOK'
  BY DEF ABCIInv, KeeperInv
<1>2. ABCITypeOK
  BY DEF ChainTypes
<1>3. ASSUME NEW S \in Seen, NEW ci \in ExtendedCommitInfo \cup {Missing, Malformed},
             phase = "propose", height < MaxHeight, phase' = "process",
             proposal' = [lastCommit |-> S, info |-> ci],
             UNCHANGED <<height, round, votes, verified, lastVotes, lastVerified>>
      PROVE  ChainTypes'
  <2>1. proposal' \in Proposal
    BY <1>2, <1>3, SeenVoted, CommitShape DEF Proposal
  <2>2. \A v \in S : lastVotes'[v] # NoVote
    BY <1>3, SeenVoted DEF Voters
  <2> QED
    BY <1>1, <1>2, <1>3, <2>1, <2>2 DEF ChainTypes, ABCITypeOK
<1>4. ASSUME NEW S \in Seen, PrepareProposal(S)
      PROVE  ChainTypes'
  <2>1. PreparedInfo(S) \in ExtendedCommitInfo
    BY <1>2, SeenVoted, CommitShape
  <2> DEFINE ci == IF VoteExtensionsEnabled(height + 1) THEN PreparedInfo(S) ELSE Missing
  <2>2. ci \in ExtendedCommitInfo \cup {Missing, Malformed}
    BY <2>1
  <2> QED
    BY <1>3, <1>4, <2>2 DEF PrepareProposal
<1>5. ASSUME NEW S \in Seen, NEW T \in SUBSET Validator, ByzantineProposal(S, T)
      PROVE  ChainTypes'
  <2>1. PICK ci \in {Missing, Malformed, LocalLastCommit(T)} :
          proposal' = [lastCommit |-> S, info |-> ci]
    BY <1>5 DEF ByzantineProposal
  <2>2. LocalLastCommit(T) \in ExtendedCommitInfo
    BY <1>2, <1>5, CommitShape DEF ByzantineProposal, Voters
  <2> QED
    BY <1>3, <1>5, <2>1, <2>2 DEF ByzantineProposal
<1>6. CASE ProcessProposal
  BY <1>1, <1>2, <1>6 DEF ProcessProposal, ChainTypes, ABCITypeOK
<1>7. CASE NextRound
  BY <1>1, <1>2, <1>7, ABCIConstants DEF NextRound, ChainTypes, ABCITypeOK
<1>8. ASSUME NEW v \in Validator, ExtendVote(v)
      PROVE  ChainTypes'
  <2>1. PICK ve \in VoteExtension : votes' = [votes EXCEPT ![v] = ve]
    <3>1. \A answer \in Answers : Extension(answer) \in VoteExtension
      BY ExtensionIsFair DEF ABCIInv
    <3>2. NoVE \in VoteExtension /\ ByzExtensions \subseteq VoteExtension
      BY DEF VoteExtension
    <3> QED
      BY <1>8, <3>1, <3>2 DEF ExtendVote
  <2>2. votes' \in [Validator -> VoteExtension \cup {NoVote}]
    BY <1>2, <2>1 DEF ABCITypeOK
  <2> QED
    BY <1>1, <1>2, <1>8, <2>2 DEF ExtendVote, ChainTypes, ABCITypeOK
<1>9. CASE Decide
  <2>1. verified' \subseteq Validator
    BY <1>9 DEF Decide, Counted
  <2> QED
    BY <1>1, <1>2, <1>9, <2>1 DEF Decide, ChainTypes, ABCITypeOK
<1>10. CASE PreBlocker
  BY <1>1, <1>2, <1>10 DEF PreBlocker, ChainTypes, ABCITypeOK
<1>11. CASE BeginBlock
  BY <1>1, <1>2, <1>11 DEF BeginBlock, ChainTypes, ABCITypeOK
<1>12. CASE DeliverTx
  BY <1>1, <1>2, <1>12 DEF DeliverTx, consensusVars, ChainTypes, ABCITypeOK
<1>13. CASE Commit
  BY <1>1, <1>2, <1>13, ABCIConstants DEF Commit, ChainTypes, ABCITypeOK
<1>14. CASE UNCHANGED vars
  BY <1>1, <1>2, <1>14 DEF vars, consensusVars, ChainTypes, ABCITypeOK
<1> QED
  BY <1>4, <1>5, <1>6, <1>7, <1>8, <1>9, <1>10, <1>11, <1>12, <1>13, <1>14 DEF Next, Finished

-----------------------------------------------------------------------------
(* Honest proposals.                                                       *)

(* The two kinds of entry of an extended commit.                           *)
LEMMA EntryFields ==
  /\ Absent.flag = "absent" /\ Absent.ve = NoVE /\ Absent.sig = FALSE
  /\ \A ve : Signed(ve).flag = "commit" /\ Signed(ve).ve = ve /\ Signed(ve).sig = TRUE
BY DEF Absent, Signed

(* What is left of a pruned vote is valid, and agrees with the last commit *)
(* and with the vote.                                                      *)
LEMMA PrunedFacts ==
  ASSUME NEW S \in SUBSET Validator, NEW v \in Validator
  PROVE  LET vote == PreparedInfo(S)[v]
         IN  /\ ValidVote(vote)
             /\ vote = Absent \/ (v \in S /\ vote = Signed(lastVotes[v]))
             /\ v \in S /\ ValidVote(Signed(lastVotes[v])) => vote = Signed(lastVotes[v])
<1> DEFINE entry == LocalLastCommit(S)[v]
<1>1. entry = IF v \in S THEN Signed(lastVotes[v]) ELSE Absent
  BY DEF LocalLastCommit
<1>2. ValidVote(Absent)
  BY DEF ValidVote, Absent
<1>3. PreparedInfo(S)[v] = IF ValidVote(entry) THEN entry ELSE Absent
  BY DEF PreparedInfo, PruneExtendedCommitInfo, Pruned
<1> HIDE DEF entry
<1> QED
  BY <1>1, <1>2, <1>3

(* Whatever a proposer prepared passes ProcessProposal on the same state.  *)
LEMMA PreparedIsAccepted ==
  ASSUME ChainTypes, NEW S \in Seen, PrepareProposal(S)
  PROVE  Accepts(proposal)'
<1>1. S \in SUBSET Validator /\ PreparedInfo(S) \in ExtendedCommitInfo
  BY SeenVoted, CommitShape DEF ChainTypes
<1>2. UNCHANGED <<height, numCPs, numRemoves, lastVotes>>
  BY DEF PrepareProposal, keeperVars
<1> SUFFICES ASSUME VoteExtensionsEnabled(height + 1)
             PROVE  /\ proposal'.info \notin {Missing, Malformed}
                    /\ ValidateVoteExtensions(proposal.info, proposal.lastCommit)'
                    /\ (\A v \in Validator : ValidVote(proposal.info[v]))'
  BY <1>2 DEF Accepts, VoteExtensionsEnabled
<1>3. proposal'.info = PreparedInfo(S) /\ proposal'.lastCommit = S
  BY DEF PrepareProposal
<1>4. ValidateVoteExtensions(PreparedInfo(S), S)
  BY DEF PrepareProposal, PrepareSucceeds
<1>5. \A v \in Validator : ValidVote(PreparedInfo(S)[v])
  BY <1>1, PrunedFacts
<1> DEFINE ci == PreparedInfo(S)
<1> HIDE DEF ci
<1>6. ValidateVoteExtensions(proposal.info, proposal.lastCommit)'
  BY <1>2, <1>3, <1>4 DEF ValidateVoteExtensions, Quorum
<1>7. (\A v \in Validator : ValidVote(proposal.info[v]))'
  BY <1>2, <1>3, <1>5 DEF ValidVote, ValidateOracleVoteExtension, GetMaxNumCP
<1> QED
  BY <1>1, <1>3, <1>6, <1>7, ABCIConstants

(* Every step keeps an honest proposal acceptable.                         *)
LEMMA HonestProposalNext ==
  ASSUME ChainTypes, HonestProposalAccepted, [Next]_vars
  PROVE  HonestProposalAccepted'
<1>1. ASSUME NEW S \in Seen, PrepareProposal(S) PROVE HonestProposalAccepted'
  BY <1>1, PreparedIsAccepted DEF HonestProposalAccepted
<1>2. ASSUME NEW S \in Seen, NEW T, ByzantineProposal(S, T) PROVE HonestProposalAccepted'
  BY <1>2 DEF ByzantineProposal, HonestProposalAccepted, Proposer, Honest
<1>3. CASE ProcessProposal \/ NextRound \/ (\E v \in Validator : ExtendVote(v)) \/ Decide
  BY <1>3 DEF ProcessProposal, NextRound, ExtendVote, Decide, HonestProposalAccepted
<1>4. CASE PreBlocker \/ BeginBlock \/ DeliverTx \/ Commit
  BY <1>4 DEF PreBlocker, BeginBlock, DeliverTx, Commit, consensusVars, HonestProposalAccepted
<1>5. CASE UNCHANGED vars
  BY <1>5 DEF vars, keeperVars, consensusVars, HonestProposalAccepted, Proposer, Accepts,
     VoteExtensionsEnabled, ValidateVoteExtensions, Quorum, ValidVote,
     ValidateOracleVoteExtension, GetMaxNumCP
<1> QED
  BY <1>1, <1>2, <1>3, <1>4, <1>5 DEF Next, Finished

(* The size of a block's vote extensions is a number.                      *)
LEMMA SizeIsNat ==
  ASSUME NEW ci \in ExtendedCommitInfo
  PROVE  Size(ci) \in Nat
<1> DEFINE f == [v \in Validator |->
                   IF Decodes(ci[v].ve) THEN Cardinality(DOMAIN ci[v].ve) ELSE 1]
<1>1. \A v \in Validator : f[v] \in Nat
  <2> TAKE v \in Validator
  <2>1. ci[v].ve \in VoteExtension
    BY DEF ExtendedCommitInfo
  <2>2. Decodes(ci[v].ve) => Cardinality(DOMAIN ci[v].ve) \in Nat
    BY <2>1, VoteExtensionFinite, FS_CardinalityType
  <2> QED
    BY <2>2
<1>2. DOMAIN f = Validator /\ IsFiniteSet(Validator)
  BY ABCIConstants
<1>3. Size(ci) = Weight(f, DOMAIN f)
  BY DEF Size, SumFunction, Weight
<1> HIDE DEF f
<1> QED
  BY <1>1, <1>2, <1>3, WeightUnfolds

(* The verified votes of a proposer's commit are not pruned, and they are  *)
(* a quorum.                                                               *)
LEMMA PreparedIsValid ==
  ASSUME ChainTypes, VerifiedVotesSurvive, phase = "propose", VoteExtensionsEnabled(height + 1),
         NEW S \in Seen
  PROVE  ValidateVoteExtensions(PreparedInfo(S), S)
<1> DEFINE ci == PreparedInfo(S)
           commits == {v \in Validator : ci[v].flag = "commit"}
<1>1. S \in SUBSET Validator /\ lastVerified \subseteq Validator /\ height \in Nat
  <2>1. ABCITypeOK
    BY DEF ChainTypes
  <2>2. S \in SUBSET Validator
    BY <2>1, SeenVoted, CommitShape
  <2> QED
    BY <2>1, <2>2, ABCIConstants DEF ABCITypeOK
<1>2. Quorum(S \cap lastVerified)
  BY <1>1 DEF Seen, VoteExtensionsEnabled
<1>3. \A v \in Validator : ci[v] = Absent \/ (v \in S /\ ci[v] = Signed(lastVotes[v]))
  BY <1>1, PrunedFacts
<1>4. \A v \in S \cap lastVerified : ci[v] = Signed(lastVotes[v])
  BY <1>1, PrunedFacts DEF VerifiedVotesSurvive
<1> HIDE DEF ci
<1>5. S \cap lastVerified \subseteq commits
  <2> SUFFICES ASSUME NEW v \in S \cap lastVerified
               PROVE  v \in commits
    OBVIOUS
  <2>1. ci[v].flag = "commit"
    BY <1>4, EntryFields
  <2> QED
    BY <1>1, <2>1
<1>6. IsFiniteSet(commits) /\ \A v \in commits : Power[v] \in Nat
  BY ABCIConstants, FS_Subset
<1> HIDE DEF commits
<1>7. /\ Weight(Power, S \cap lastVerified) \in Nat /\ Weight(Power, commits) \in Nat
      /\ Weight(Power, S \cap lastVerified) <= Weight(Power, commits)
  BY <1>5, <1>6, WeightMonotone
<1>8. Weight(Power, Validator) \in Nat
  BY ABCIConstants, WeightUnfolds
<1>9. Quorum(commits)
  BY <1>2, <1>7, <1>8 DEF Quorum
<1>10. ASSUME NEW v \in Validator
       PROVE
         /\ ci[v] # Absent => (ci[v].flag = "commit" <=> v \in S)
         /\ ci[v].flag = "commit" => ci[v].sig /\ ci[v].ve = lastVotes[v]
         /\ ci[v].flag # "commit" => ci[v].ve = NoVE /\ ~ci[v].sig
  <2>1. CASE ci[v] = Absent
    BY <2>1, EntryFields
  <2>2. CASE ci[v] # Absent
    <3>1. v \in S /\ ci[v] = Signed(lastVotes[v])
      BY <1>3, <2>2
    <3> QED
      BY <2>2, <3>1, EntryFields
  <2> QED
    BY <2>1, <2>2
<1> QED
  BY <1>9, <1>10 DEF ValidateVoteExtensions, ci, commits

-----------------------------------------------------------------------------
(* Fair prices. Ids are never used twice, so that an honest vote extension *)
(* stays fair while pairs come and go.                                     *)
VotesFair ==
  \A v \in Honest :
    /\ votes[v] # NoVote => FairUnder(votes[v], currencyPairs, nextCurrencyPairID)
    /\ lastVotes[v] # NoVote => FairUnder(lastVotes[v], currencyPairs, nextCurrencyPairID)

(* So are the honest votes that the block under vote carries.              *)
ProposalFair ==
  phase \in {"vote", "preblock"} /\ VoteExtensionsEnabled(height + 1) =>
    \A v \in Honest : FairUnder(proposal.info[v].ve, currencyPairs, nextCurrencyPairID)

FairInv == VotesFair /\ ProposalFair /\ PricesFair

(* A fair vote extension stays fair while pairs keep their ids and new     *)
(* pairs get ids from the sequence.                                        *)
LEMMA FairKept ==
  ASSUME NEW pairs, NEW next \in Nat, NEW pairs2, NEW next2 \in Nat, next <= next2,
         \A cp \in CurrencyPair :
           pairs2[cp] # NoState =>
             \/ pairs[cp] # NoState /\ pairs2[cp].id = pairs[cp].id
             \/ pairs2[cp].id \in Nat /\ next <= pairs2[cp].id,
         NEW ve, FairUnder(ve, pairs, next)
  PROVE  FairUnder(ve, pairs2, next2)
<1> SUFFICES ASSUME NEW id \in DOMAIN ve
             PROVE  /\ id \in Nat /\ id < next2
                    /\ \A cp \in CurrencyPair :
                         (pairs2[cp] # NoState /\ pairs2[cp].id = id) => ve[id] \in FairPrices[cp]
  BY DEF FairUnder
<1>1. /\ id \in Nat /\ id < next
      /\ \A cp \in CurrencyPair :
           (pairs[cp] # NoState /\ pairs[cp].id = id) => ve[id] \in FairPrices[cp]
  BY DEF FairUnder
<1>2. ASSUME NEW cp \in CurrencyPair, pairs2[cp] # NoState, pairs2[cp].id = id
      PROVE  pairs[cp] # NoState /\ pairs[cp].id = id
  BY <1>1, <1>2
<1> QED
  BY <1>1, <1>2

(* What a step of the chain does to the pairs is a step of the keeper.     *)
LEMMA KeeperStep ==
  ASSUME ABCIInv, [Next]_vars
  PROVE  [KeeperNext]_keeperVars /\ nextCurrencyPairID <= nextCurrencyPairID'
<1>1. nextCurrencyPairID \in Nat
  BY DEF ABCIInv, KeeperInv, KeeperTypeOK
<1>2. CASE UNCHANGED keeperVars
  BY <1>1, <1>2 DEF keeperVars
<1>3. CASE PreBlocker /\ ~UNCHANGED keeperVars
  <2> DEFINE prices == Written(AggregateOracleVotes(proposal.info))
  <2>1. ApplyPrices(prices)
    BY <1>3 DEF PreBlocker
  <2>2. DOMAIN prices \in SUBSET CurrencyPair /\ prices \in [DOMAIN prices -> Price]
    BY DEF Written, AggregateOracleVotes, Priced, Tracked
  <2> HIDE DEF prices
  <2>3. UNCHANGED nextCurrencyPairID
    BY <2>1 DEF ApplyPrices
  <2> QED
    BY <1>1, <2>1, <2>2, <2>3 DEF KeeperNext
<1>4. CASE BeginBlock
  BY <1>1, <1>4 DEF BeginBlock, BeginBlocker, KeeperNext
<1>5. CASE DeliverTx
  <2>1. PICK msg \in Messages : AddCurrencyPairs(msg) \/ RemoveCurrencyPairs(msg)
    BY <1>5 DEF DeliverTx
  <2>2. Cardinality(CreatedAt(msg)) \in Nat
    BY CreatedFacts, MessagesAreMentions
  <2>3. nextCurrencyPairID <= nextCurrencyPairID'
    BY <1>1, <2>1, <2>2 DEF AddCurrencyPairs, CreateAll, RemoveCurrencyPairs
  <2> QED
    BY <2>1, <2>3 DEF KeeperNext
<1>6. CASE ProcessProposal \/ NextRound \/ Decide \/ Commit \/ Finished \/ UNCHANGED vars
  BY <1>2, <1>6 DEF ProcessProposal, NextRound, Decide, Commit, Finished, vars
<1>7. CASE \/ \E S \in Seen : PrepareProposal(S)
           \/ \E S \in Seen, T \in SUBSET Validator : ByzantineProposal(S, T)
           \/ \E v \in Validator : ExtendVote(v)
  BY <1>2, <1>7 DEF PrepareProposal, ByzantineProposal, ExtendVote
<1> QED
  BY <1>3, <1>4, <1>5, <1>6, <1>7, <1>2 DEF Next

(* A fair vote extension stays fair, whatever the step does to the pairs.  *)
LEMMA FairStep ==
  ASSUME ABCIInv, ABCIInv', [Next]_vars
  PROVE  \A ve : FairUnder(ve, currencyPairs, nextCurrencyPairID)
                   => FairUnder(ve, currencyPairs', nextCurrencyPairID')
<1>1. [KeeperNext]_keeperVars /\ nextCurrencyPairID <= nextCurrencyPairID' /\ KeeperInv
  BY KeeperStep DEF ABCIInv
<1>2. nextCurrencyPairID \in Nat /\ nextCurrencyPairID' \in Nat
  BY DEF ABCIInv, KeeperInv, KeeperTypeOK
<1>3. ASSUME NEW cp \in CurrencyPair, currencyPairs'[cp] # NoState
      PROVE  \/ currencyPairs[cp] # NoState /\ currencyPairs'[cp].id = currencyPairs[cp].id
             \/ currencyPairs'[cp].id \in Nat /\ nextCurrencyPairID <= currencyPairs'[cp].id
  <2>1. currencyPairs'[cp].id \in Nat
    BY <1>3 DEF ABCIInv, KeeperInv, KeeperTypeOK, CurrencyPairState
  <2>2. \/ currencyPairs'[cp] = currencyPairs[cp]
        \/ cp \in Tracked /\ currencyPairs'[cp].id = currencyPairs[cp].id
        \/ nextCurrencyPairID <= currencyPairs'[cp].id
    BY <1>1, <1>3, StepOnPair
  <2> QED
    BY <1>3, <2>1, <2>2 DEF Tracked
<1> QED
  BY <1>1, <1>2, <1>3, FairKept

(* The price of a pair that enough power reported lies within the honest   *)
(* reports: the Byzantine ones weigh less than the middle.                 *)
LEMMA MedianIsFair ==
  ASSUME NEW ci \in ExtendedCommitInfo, VotesDecode(ci), NEW cp \in Priced(ci),
         \A v \in Honest : FairUnder(ci[v].ve, currencyPairs, nextCurrencyPairID)
  PROVE  \E low, high \in FairPrices[cp] :
           /\ low <= ComputeMedian(Power, Reports(ci, cp))
           /\ ComputeMedian(Power, Reports(ci, cp)) <= high
<1> DEFINE r == Reports(ci, cp)
           D == DOMAIN r
           B == D \cap Byzantine
           i == currencyPairs[cp].id
<1>1. /\ cp \in CurrencyPair /\ currencyPairs[cp] # NoState
      /\ D \subseteq Validator /\ D # {} /\ ThresholdMet(Power, D)
  BY DEF Priced, Tracked, Reports
<1>2. \A v \in D : /\ v \in Validator /\ i \in DOMAIN ci[v].ve
                   /\ r[v] = ci[v].ve[i] /\ r[v] \notin {BadPrice, LongPrice}
  BY DEF Reports
<1> HIDE DEF r
<1>3. IsFiniteSet(D) /\ \A v \in D : Power[v] \in Nat
  BY <1>1, ABCIConstants, FS_Subset
<1>4. ASSUME NEW v \in D
      PROVE  r[v] \in Int
  <2>1. ci[v].ve \in VoteExtension /\ ci[v].ve # Malformed
    BY <1>2 DEF ExtendedCommitInfo, VotesDecode, Decodes
  <2>2. CASE ci[v].ve = NoVE
    BY <1>2, <2>2 DEF NoVE
  <2>3. CASE ci[v].ve \in ByzExtensions
    BY <1>2, <2>1, <2>3, ABCIConstants
  <2>4. ASSUME NEW ids \in SUBSET (0..MaxID), ci[v].ve \in [ids -> Price]
        PROVE  r[v] \in Int
    BY <1>2, <2>4, ABCIConstants
  <2> QED
    BY <2>1, <2>2, <2>3, <2>4 DEF VoteExtension
<1>5. Weight(Power, B) < Middle(Power, r)
  <2>1. IsFiniteSet(Validator) /\ \A v \in Validator : Power[v] \in Nat
    BY ABCIConstants
  <2>2. IsFiniteSet(Byzantine) /\ \A v \in Byzantine : Power[v] \in Nat
    BY <2>1, ABCIConstants, FS_Subset
  <2>3. Weight(Power, Validator) \in Nat
    BY <2>1, WeightUnfolds
  <2>4. /\ Weight(Power, B) \in Nat /\ Weight(Power, Byzantine) \in Nat
        /\ Weight(Power, B) <= Weight(Power, Byzantine)
    <3>1. B \in SUBSET Byzantine
      OBVIOUS
    <3> HIDE DEF B
    <3> QED
      BY <2>2, <3>1, WeightMonotone
  <2>5. Weight(Power, D) \in Nat
    BY <1>3, WeightUnfolds
  <2>6. 3 * Weight(Power, Byzantine) + 2 <= Weight(Power, Validator)
    BY ABCIConstants
  <2>7. 1000 * Weight(Power, D) >= 667 * Weight(Power, Validator)
    <3>1. DOMAIN Power = Validator
      BY ABCIConstants
    <3> QED
      BY <1>1, <3>1 DEF ThresholdMet
  <2> QED
    BY <2>3, <2>4, <2>5, <2>6, <2>7 DEF Middle
<1>6. PICK low \in D \ B, high \in D \ B :
        r[low] <= ComputeMedian(Power, r) /\ ComputeMedian(Power, r) <= r[high]
  <2>1. B \in SUBSET D
    OBVIOUS
  <2> HIDE DEF B
  <2> QED
    BY <1>3, <1>4, <1>5, <2>1, MedianWithinOthers
<1>7. \A v \in D \ B : r[v] \in FairPrices[cp]
  <2> TAKE v \in D \ B
  <2>1. v \in Honest /\ i \in DOMAIN ci[v].ve /\ r[v] = ci[v].ve[i]
    BY <1>2 DEF Honest
  <2>2. FairUnder(ci[v].ve, currencyPairs, nextCurrencyPairID)
    BY <2>1
  <2> QED
    BY <1>1, <2>1, <2>2 DEF FairUnder
<1> QED
  BY <1>6, <1>7 DEF r

(* At the start of the chain there are no prices and no votes.             *)
LEMMA FairInit ==
  ASSUME Init
  PROVE  FairInv
BY DEF Init, FairInv, VotesFair, ProposalFair, PricesFair, Honest

(* The prices of the block are fair to the pairs they are written to.      *)
LEMMA PreBlockerPrices ==
  ASSUME ABCIInv, ChainTypes, FairInv, PreBlocker
  PROVE  PricesFair'
<1> DEFINE ci == proposal.info
           prices == Written(AggregateOracleVotes(ci))
<1>1. PricesFair /\ ProposalFair
  BY DEF FairInv
<1>2. CASE ~VoteExtensionsEnabled(height + 1)
  <2>1. UNCHANGED keeperVars
    BY <1>2 DEF PreBlocker
  <2> QED
    BY <1>1, <2>1 DEF keeperVars, PricesFair, Tracked
<1>3. CASE VoteExtensionsEnabled(height + 1)
  <2>1. phase = "preblock" /\ VotesDecode(ci) /\ ApplyPrices(prices)
    BY <1>3 DEF PreBlocker
  <2>2. ci \in ExtendedCommitInfo
    BY <2>1 DEF ChainTypes, ABCITypeOK, Proposal, VotesDecode
  <2>3. \A v \in Honest : FairUnder(ci[v].ve, currencyPairs, nextCurrencyPairID)
    BY <1>1, <1>3, <2>1 DEF ProposalFair
  <2>4. \A cp \in DOMAIN prices :
          /\ cp \in Priced(ci) /\ prices[cp] = ComputeMedian(Power, Reports(ci, cp))
    BY DEF Written, AggregateOracleVotes
  <2> HIDE DEF ci, prices
  <2>5. \A cp \in DOMAIN prices : \E low, high \in FairPrices[cp] : low <= prices[cp] /\ prices[cp] <= high
    BY <2>1, <2>2, <2>3, <2>4, MedianIsFair
  <2>6. \A cp \in CurrencyPair :
          \/ currencyPairs'[cp] = currencyPairs[cp]
          \/ cp \in DOMAIN prices /\ currencyPairs'[cp].price = prices[cp]
    BY <2>1 DEF ApplyPrices, Updated, NewCurrencyPairState
  <2> QED
    BY <1>1, <2>5, <2>6 DEF PricesFair, Tracked
<1> QED
  BY <1>2, <1>3

(* Messages write no price: a new pair has none.                           *)
LEMMA DeliverTxPrices ==
  ASSUME PricesFair, DeliverTx
  PROVE  PricesFair'
<1>1. PICK msg \in Messages : AddCurrencyPairs(msg) \/ RemoveCurrencyPairs(msg)
  BY DEF DeliverTx
<1>2. \A cp \in CurrencyPair :
        \/ currencyPairs'[cp] = currencyPairs[cp]
        \/ currencyPairs'[cp] = NoState
        \/ currencyPairs'[cp].price = NilPrice
  BY <1>1 DEF AddCurrencyPairs, CreateAll, RemoveCurrencyPairs, NewCurrencyPairState
<1> QED
  BY <1>2 DEF PricesFair, Tracked

(* Every step keeps the stored prices fair.                                *)
LEMMA PricesFairNext ==
  ASSUME ABCIInv, ChainTypes, FairInv, [Next]_vars
  PROVE  PricesFair'
<1>1. PricesFair
  BY DEF FairInv
<1>2. CASE UNCHANGED currencyPairs
  BY <1>1, <1>2 DEF PricesFair, Tracked
<1>3. CASE PreBlocker
  BY <1>3, PreBlockerPrices
<1>4. CASE DeliverTx
  BY <1>1, <1>4, DeliverTxPrices
<1>5. CASE BeginBlock \/ ProcessProposal \/ NextRound \/ Decide \/ Commit \/ Finished \/ UNCHANGED vars
  BY <1>2, <1>5 DEF BeginBlock, BeginBlocker, ProcessProposal, NextRound, Decide, Commit, Finished,
     vars, keeperVars
<1>6. CASE \/ \E S \in Seen : PrepareProposal(S)
           \/ \E S \in Seen, T \in SUBSET Validator : ByzantineProposal(S, T)
           \/ \E v \in Validator : ExtendVote(v)
  BY <1>2, <1>6 DEF PrepareProposal, ByzantineProposal, ExtendVote, keeperVars
<1> QED
  BY <1>3, <1>4, <1>5, <1>6 DEF Next

(* Honest votes are made fair, and stay so.                                *)
LEMMA VotesFairNext ==
  ASSUME ABCIInv, ABCIInv', ChainTypes, VotesFair, [Next]_vars
  PROVE  VotesFair'
<1> DEFINE fair(ve) == FairUnder(ve, currencyPairs, nextCurrencyPairID)
<1>1. \A ve : fair(ve) => fair(ve)'
  BY FairStep
<1>2. \A v \in Honest : /\ v \in Validator
                        /\ votes[v] # NoVote => fair(votes[v])
                        /\ lastVotes[v] # NoVote => fair(lastVotes[v])
  BY DEF VotesFair, Honest
<1> SUFFICES ASSUME NEW v \in Honest
             PROVE  /\ votes'[v] # NoVote => FairUnder(votes'[v], currencyPairs', nextCurrencyPairID')
                    /\ lastVotes'[v] # NoVote
                         => FairUnder(lastVotes'[v], currencyPairs', nextCurrencyPairID')
  BY DEF VotesFair
<1>3. \/ votes'[v] \in {votes[v], NoVote}
      \/ UNCHANGED <<currencyPairs, nextCurrencyPairID>> /\ fair(votes'[v])
  <2>1. CASE UNCHANGED votes
    BY <2>1
  <2>2. CASE PreBlocker
    BY <1>2, <2>2 DEF PreBlocker
  <2>3. ASSUME NEW u \in Validator, ExtendVote(u)
        PROVE  \/ votes'[v] \in {votes[v], NoVote}
               \/ UNCHANGED <<currencyPairs, nextCurrencyPairID>> /\ fair(votes'[v])
    <3>1. CASE u # v
      BY <2>3, <3>1, <1>2 DEF ExtendVote, ChainTypes, ABCITypeOK
    <3>2. CASE u = v
      <4>1. UNCHANGED <<currencyPairs, nextCurrencyPairID>>
        BY <2>3 DEF ExtendVote, keeperVars
      <4>2. fair(NoVE) /\ \A answer \in Answers : fair(Extension(answer))
        <5>1. fair(NoVE)
          BY DEF NoVE, FairUnder
        <5>2. \A answer \in Answers : fair(Extension(answer))
          BY ExtensionIsFair DEF ABCIInv
        <5> QED
          BY <5>1, <5>2
      <4>3. v \notin Byzantine /\ votes \in [Validator -> VoteExtension \cup {NoVote}]
        BY DEF Honest, ChainTypes, ABCITypeOK
      <4> HIDE DEF fair
      <4>4. votes'[v] = NoVE \/ \E answer \in Answers : votes'[v] = Extension(answer)
        BY <2>3, <3>2, <4>3 DEF ExtendVote
      <4> QED
        BY <4>1, <4>2, <4>4
    <3> QED
      BY <3>1, <3>2
  <2>4. CASE BeginBlock \/ ProcessProposal \/ NextRound \/ Decide \/ DeliverTx \/ Commit
    BY <2>1, <2>4 DEF BeginBlock, ProcessProposal, NextRound, Decide, DeliverTx, Commit, consensusVars
  <2>5. CASE \/ \E S \in Seen : PrepareProposal(S)
             \/ \E S \in Seen, T \in SUBSET Validator : ByzantineProposal(S, T)
             \/ Finished \/ UNCHANGED vars
    BY <2>1, <2>5 DEF PrepareProposal, ByzantineProposal, Finished, vars, consensusVars
  <2> QED
    BY <2>2, <2>3, <2>4, <2>5 DEF Next
<1>4. lastVotes'[v] \in {lastVotes[v], votes[v], NoVote}
  <2>1. CASE UNCHANGED lastVotes
    BY <2>1
  <2>2. CASE PreBlocker
    BY <2>2 DEF PreBlocker
  <2>3. CASE ProcessProposal
    BY <1>2, <2>3 DEF ProcessProposal
  <2>4. CASE BeginBlock \/ NextRound \/ Decide \/ DeliverTx \/ Commit
    BY <2>1, <2>4 DEF BeginBlock, NextRound, Decide, DeliverTx, Commit, consensusVars
  <2>5. CASE \/ \E S \in Seen : PrepareProposal(S)
             \/ \E S \in Seen, T \in SUBSET Validator : ByzantineProposal(S, T)
             \/ \E u \in Validator : ExtendVote(u)
             \/ Finished \/ UNCHANGED vars
    BY <2>1, <2>5 DEF PrepareProposal, ByzantineProposal, ExtendVote, Finished, vars, consensusVars
  <2> QED
    BY <2>2, <2>3, <2>4, <2>5 DEF Next
<1> QED
  BY <1>1, <1>2, <1>3, <1>4

(* What is accepted carries the honest votes of the last height as they    *)
(* were made, or none.                                                     *)
LEMMA AcceptedIsFair ==
  ASSUME ChainTypes, VotesFair, ProcessProposal, VoteExtensionsEnabled(height + 1), NEW v \in Honest
  PROVE  FairUnder(proposal.info[v].ve, currencyPairs, nextCurrencyPairID)
<1> DEFINE vote == proposal.info[v]
<1>1. /\ v \in Validator /\ phase = "process"
      /\ ValidateVoteExtensions(proposal.info, proposal.lastCommit)
  BY DEF ProcessProposal, Accepts, Honest
<1>2. /\ vote # Absent => (vote.flag = "commit" <=> v \in proposal.lastCommit)
      /\ vote.flag = "commit" => vote.ve = lastVotes[v]
      /\ vote.flag # "commit" => vote.ve = NoVE
  BY <1>1 DEF ValidateVoteExtensions
<1>3. v \in proposal.lastCommit => lastVotes[v] # NoVote
  BY <1>1 DEF ChainTypes
<1> HIDE DEF vote
<1>4. CASE vote.flag = "commit"
  <2>1. vote # Absent
    BY <1>4, EntryFields
  <2>2. vote.ve = lastVotes[v] /\ lastVotes[v] # NoVote
    BY <1>2, <1>3, <1>4, <2>1
  <2> QED
    BY <2>2 DEF VotesFair, vote
<1>5. CASE vote.flag # "commit"
  <2>1. vote.ve = NoVE /\ DOMAIN NoVE = {}
    BY <1>2, <1>5 DEF NoVE
  <2> QED
    BY <2>1 DEF FairUnder, vote
<1> QED
  BY <1>4, <1>5

(* Every step keeps the honest votes in a proposal fair.                   *)
LEMMA ProposalFairNext ==
  ASSUME ABCIInv, ABCIInv', ChainTypes, VotesFair, ProposalFair, [Next]_vars
  PROVE  ProposalFair'
<1>1. \A ve : FairUnder(ve, currencyPairs, nextCurrencyPairID)
                => FairUnder(ve, currencyPairs', nextCurrencyPairID')
  BY FairStep
<1>2. CASE ProcessProposal
  <2>1. UNCHANGED <<height, proposal, currencyPairs, nextCurrencyPairID>>
    BY <1>2 DEF ProcessProposal, keeperVars
  <2>2. VoteExtensionsEnabled(height + 1) =>
          \A v \in Honest : FairUnder(proposal.info[v].ve, currencyPairs, nextCurrencyPairID)
    BY <1>2, AcceptedIsFair
  <2> QED
    BY <2>1, <2>2 DEF ProposalFair, VoteExtensionsEnabled
<1>3. CASE UNCHANGED <<height, proposal>> /\ (phase' \in {"vote", "preblock"} => phase \in {"vote", "preblock"})
  BY <1>1, <1>3 DEF ProposalFair, VoteExtensionsEnabled
<1>4. CASE phase' \notin {"vote", "preblock"}
  BY <1>4 DEF ProposalFair
<1>5. CASE Decide \/ \E v \in Validator : ExtendVote(v)
  BY <1>3, <1>5 DEF Decide, ExtendVote
<1>6. CASE UNCHANGED vars \/ Finished
  BY <1>3, <1>6 DEF vars, consensusVars, Finished
<1>7. CASE \/ \E S \in Seen : PrepareProposal(S)
           \/ \E S \in Seen, T \in SUBSET Validator : ByzantineProposal(S, T)
           \/ NextRound \/ PreBlocker \/ BeginBlock \/ DeliverTx \/ Commit
  BY <1>4, <1>7 DEF PrepareProposal, ByzantineProposal, NextRound, PreBlocker, BeginBlock, DeliverTx,
     Commit, consensusVars
<1> QED
  BY <1>2, <1>5, <1>6, <1>7 DEF Next

-----------------------------------------------------------------------------
(* The whole invariant: the counters, the shape, and the fairness.         *)
ChainInv == ABCIInv /\ ChainTypes /\ HonestProposalAccepted /\ FairInv

(* The types of votes and proposals, the acceptance of honest proposals    *)
(* and the fairness of votes and prices hold together, in every state of   *)
(* the chain (the ABCI handlers and the keeper).                           *)
THEOREM ChainInvariant == Spec => []ChainInv
<1>1. Init => ChainInv
  BY ABCIInit, ChainTypesInit, FairInit DEF ChainInv, HonestProposalAccepted, Init
<1>2. ChainInv /\ [Next]_vars => ChainInv'
  <2> SUFFICES ASSUME ChainInv, [Next]_vars PROVE ChainInv'
    OBVIOUS
  <2>1. ABCIInv'
    BY ABCINext DEF ChainInv
  <2>2. ChainTypes'
    BY <2>1, ChainTypesNext DEF ChainInv
  <2>3. HonestProposalAccepted'
    BY HonestProposalNext DEF ChainInv
  <2>4. PricesFair'
    BY PricesFairNext DEF ChainInv
  <2>5. VotesFair' /\ ProposalFair'
    BY <2>1, VotesFairNext, ProposalFairNext DEF ChainInv, FairInv
  <2> QED
    BY <2>1, <2>2, <2>3, <2>4, <2>5 DEF ChainInv, FairInv
<1> QED
  BY <1>1, <1>2, PTL DEF Spec

(* The state of the chain and the keeper has its type.                     *)
THEOREM ABCITypeCorrect == Spec => []ABCITypeOK
BY ChainInvariant, PTL DEF ChainInv, ChainTypes

(* What PrepareProposal of an honest proposer made, ProcessProposal        *)
(* accepts on every node.                                                  *)
THEOREM HonestProposalAcceptedTheorem == Spec => []HonestProposalAccepted
BY ChainInvariant, PTL DEF ChainInv

(* PrepareProposal of an honest proposer succeeds with every extended      *)
(* commit that holds a verified quorum, unless the votes do not fit.       *)
THEOREM HonestProposerSucceedsTheorem == Spec => []HonestProposerSucceeds
<1>1. ChainTypes /\ VerifiedVotesSurvive => HonestProposerSucceeds
  <2> SUFFICES ASSUME ChainTypes, VerifiedVotesSurvive, phase = "propose", NEW S \in Seen,
                      ~PrepareSucceeds(S)
               PROVE  Size(PreparedInfo(S)) > MaxTxBytes
    BY DEF HonestProposerSucceeds
  <2>1. PreparedInfo(S) \in ExtendedCommitInfo
    BY SeenVoted, CommitShape DEF ChainTypes
  <2>2. Size(PreparedInfo(S)) \in Nat /\ MaxTxBytes \in Nat
    BY <2>1, SizeIsNat, ABCIConstants
  <2>3. ~(Size(PreparedInfo(S)) <= MaxTxBytes)
    BY PreparedIsValid DEF PrepareSucceeds
  <2> QED
    BY <2>2, <2>3
<1> QED
  BY <1>1, ChainInvariant, VerifiedVotesSurviveTheorem, PTL DEF ChainInv

(* A stored price lies within what honest oracles report for the pair.     *)
THEOREM PricesFairTheorem == Spec => []PricesFair
BY ChainInvariant, PTL DEF ChainInv, FairInv
=============================================================================
