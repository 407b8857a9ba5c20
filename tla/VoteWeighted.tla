---------------------------- MODULE VoteWeighted ----------------------------
(***************************************************************************)
(* The stake-weighted median of pkg/math/voteweighted in closed form.      *)
(* A report is a function from the validators that reported a price for a  *)
(* pair to their prices; a weight function gives the bonded tokens.        *)
(***************************************************************************)
EXTENDS Integers, FiniteSets, Functions

Weight(w, S) == SumFunctionOnSet(w, S)

(* percentSubmitted >= DefaultPowerThreshold, which is 0.667.               *)
ThresholdMet(w, reporters) ==
  1000 * Weight(w, reporters) >= 667 * Weight(w, DOMAIN w)

AtMost(r, p) == {v \in DOMAIN r : r[v] <= p}

(* The middle weight rounds down.                                          *)
Middle(w, r) == Weight(w, DOMAIN r) \div 2

(* The lowest reported price whose reporters, with those of the lower      *)
(* prices, weigh at least the middle.                                      *)
ComputeMedian(w, r) ==
  CHOOSE p \in Range(r) :
    /\ Weight(w, AtMost(r, p)) >= Middle(w, r)
    /\ \A q \in Range(r) : q < p => Weight(w, AtMost(r, q)) < Middle(w, r)
=============================================================================
