-------------------------- MODULE VoteWeightedLoop --------------------------
(***************************************************************************)
(* The code that computes the median of one pair, step by step: Median     *)
(* ranges over a Go map of validators, so in an order of its own on every  *)
(* node, collects prices and weights, and ComputeMedian sorts them and     *)
(* walks the sorted list. Every node has to arrive at the same price.      *)
(***************************************************************************)
EXTENDS VoteWeighted, Sequences

CONSTANTS Validators, Weights, Prices

ASSUME LoopConstants ==
  /\ IsFiniteSet(Validators)
  /\ Weights \subseteq Nat /\ Prices \subseteq Nat

VARIABLES
  weight,     \* GetBondedTokens of each validator in the validator store
  known,      \* the validators the store still knows
  report,     \* providers: the price each reporting validator's vote holds
  todo,       \* the part of the map not yet ranged over
  info,       \* PriceInfo.Prices
  total,      \* PriceInfo.TotalWeight
  pc,         \* "collect", "sort", "walk" or "done"
  index, sum, \* of the loop in ComputeMedian
  result      \* the returned price, or -1 for none

loopVars == <<weight, known, report, todo, info, total, pc, index, sum, result>>
inputs == <<weight, known, report>>

NoPrice == -1

LoopInit ==
  /\ weight \in [Validators -> Weights]
  /\ known \in SUBSET Validators
  /\ Weight(weight, known) > 0    \* a chain has bonded tokens
  /\ report \in UNION {[S -> Prices] : S \in SUBSET Validators}
  /\ todo = DOMAIN report
  /\ info = <<>> /\ total = 0
  /\ pc = "collect"
  /\ index = 1 /\ sum = 0
  /\ result = NoPrice

(* A validator that the store does not find is skipped, price and weight.  *)
Entry(v) == IF v \in known THEN <<[weight |-> weight[v], price |-> report[v]]>> ELSE <<>>

(* One step of the range over the map.                                     *)
Collect(v) ==
  /\ pc = "collect" /\ v \in todo
  /\ todo' = todo \ {v}
  /\ info' = info \o Entry(v)
  /\ total' = IF v \in known THEN total + weight[v] ELSE total
  /\ UNCHANGED <<inputs, pc, index, sum, result>>

(* TotalBondedTokens is the sum over the store.                            *)
Bonded == Weight(weight, known)

(* DefaultPowerThreshold is 0.667.                                         *)
EnoughWeight(t) == 1000 * t >= 667 * Bonded

(* A pair nobody reported has no entry in priceInfo; one below the         *)
(* threshold gets no price.                                                *)
CheckThreshold ==
  /\ pc = "collect" /\ todo = {}
  /\ pc' = IF info # <<>> /\ EnoughWeight(total) THEN "sort" ELSE "done"
  /\ UNCHANGED <<inputs, todo, info, total, index, sum, result>>

(* Two entries compare as true both ways when their prices are equal, so   *)
(* the sort may leave entries of one price in any order.                   *)
IsSortOf(t, s) ==
  /\ \E f \in Bijection(1..Len(s), 1..Len(s)) : t = [i \in 1..Len(s) |-> s[f[i]]]
  /\ \A i \in 1..(Len(t) - 1) : t[i].price <= t[i + 1].price

Sort ==
  /\ pc = "sort"
  /\ \E t \in [1..Len(info) -> Range(info)] : IsSortOf(t, info) /\ info' = t
  /\ pc' = "walk"
  /\ UNCHANGED <<inputs, todo, total, index, sum, result>>

(* Faulty variant of the next operator: the walk goes on past the middle.  *)
ReachedMore(s) == s > total \div 2
(* Faulty variant of the next operator: a third instead of a half.         *)
ReachedThird(s) == s >= total \div 3

Reached(s) == s >= total \div 2

Walk ==
  /\ pc = "walk" /\ index <= Len(info)
  /\ sum' = sum + info[index].weight
  /\ IF Reached(sum') \/ index = Len(info)
     THEN result' = info[index].price /\ pc' = "done" /\ index' = index
     ELSE index' = index + 1 /\ UNCHANGED <<result, pc>>
  /\ UNCHANGED <<inputs, todo, info, total>>

Done == pc = "done" /\ UNCHANGED loopVars

LoopNext ==
  \/ \E v \in Validators : Collect(v)
  \/ CheckThreshold
  \/ Sort
  \/ Walk
  \/ Done

LoopSpec == LoopInit /\ [][LoopNext]_loopVars

-----------------------------------------------------------------------------
Reporters == DOMAIN report \cap known
Heard == Restrict(report, Reporters)

(* Whatever the order of the map and of equal prices, a node ends with the *)
(* price of the closed form, or with none exactly when the validators      *)
(* known to the store that reported weigh less than the threshold: all     *)
(* nodes write the same price.                                             *)
OrderIndependent ==
  pc = "done" =>
    IF Reporters # {} /\ 1000 * Weight(weight, Reporters) >= 667 * Weight(weight, known)
    THEN result = ComputeMedian(weight, Heard)
    ELSE result = NoPrice

(* A coalition that weighs less than the middle cannot move the price out  *)
(* of the range of the prices the others reported.                         *)
CoalitionBounded ==
  (pc = "done" /\ result # NoPrice) =>
    \A C \in SUBSET Reporters :
      Weight(weight, C) < Middle(weight, Heard) =>
        /\ \E v \in Reporters \ C : report[v] <= result
        /\ \E v \in Reporters \ C : result <= report[v]

=============================================================================
