---------------------------- MODULE MCOracleABCI ----------------------------
(***************************************************************************)
(* A chain of three validators, one of them Byzantine with a quarter of    *)
(* the power. Vote extensions are enabled at the second height, so that    *)
(* the heights before, at and after it all happen; pairs are removed and   *)
(* added again while vote extensions with their ids are in flight.         *)
(***************************************************************************)
EXTENDS OracleABCI, TLC

CONSTANTS btc, eth, v1, v2, v3

MCPower == (v1 :> 20) @@ (v2 :> 10) @@ (v3 :> 10)
MCProposers == <<v1, v3>>
MCFairPrices == (btc :> {10}) @@ (eth :> {20})

MCAnswerSets == {{}, {btc, eth}}

(* Nothing, undecodable bytes, outlying prices, more prices than pairs, a  *)
(* price that does not decode and one that is too long.                    *)
MCByzExtensions ==
  {Malformed, (0 :> 1) @@ (1 :> 99), (0 :> 99) @@ (1 :> 1) @@ (2 :> 1),
   (0 :> BadPrice) @@ (1 :> 99), (0 :> LongPrice)}

(* The genesis lists both pairs under the first ids; one more id is left   *)
(* for a pair that is added again.                                         *)
MCInit == Init /\ Tracked = CurrencyPair /\ nextCurrencyPairID = 2
MCSpec == MCInit /\ [][Next]_vars
MCFairSpec == MCSpec /\ Fairness
=============================================================================
