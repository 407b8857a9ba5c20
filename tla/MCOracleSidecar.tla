-------------------------- MODULE MCOracleSidecar --------------------------
(***************************************************************************)
(* Two providers and two markets: BTC/USD, which may be normalized by      *)
(* USDT/USD, and USDT/USD.                                                 *)
(***************************************************************************)
EXTENDS OracleSidecar

CONSTANTS btc, usdt, a, b, btcTicker, usdtTicker, j

Direct(p, o) == [name |-> p, off |-> o, json |-> j, norm |-> NoPair, invert |-> FALSE]
By(t, c) == [c EXCEPT !.norm = t]
Inverted(c) == [c EXCEPT !.invert = TRUE]
Listed(configs) == [enabled |-> TRUE, min |-> 1, configs |-> configs]
Disabled(m) == [m EXCEPT !.enabled = FALSE]
Map(m, n) == [t \in Pair |-> IF t = btc THEN m ELSE n]

(* BTC/USD from one provider, normalized by USDT/USD from the other, and   *)
(* USDT/USD disabled, which leaves BTC/USD without a provider.             *)
MCTwoMaps ==
  {Map(Listed({By(usdt, Direct(a, btcTicker))}), Listed({Direct(b, usdtTicker)})),
   Map(Listed({By(usdt, Direct(a, btcTicker))}), Disabled(Listed({Direct(b, usdtTicker)})))}

(* BTC/USD from both providers, or normalized by USDT/USD inverted, so     *)
(* that a zero price of it makes an infinite one.                          *)
MCInvertedMaps ==
  {Map([Listed({Direct(a, btcTicker), Direct(b, btcTicker)}) EXCEPT !.min = 2], NoMarket),
   Map(Listed({By(usdt, Direct(a, btcTicker))}), Listed({Inverted(Direct(b, usdtTicker))}))}

MCMaps == MCTwoMaps \cup MCInvertedMaps

(* The maps of one family follow each other. With the first, time passes,  *)
(* the results of one provider may be late, and the map changes at time 1; *)
(* with the second, there are zero prices.                                 *)
InvertedMaps == {ValidSubset(m) : m \in MCInvertedMaps}
Inverting(mm) == mm \in InvertedMaps
MCNext ==
  /\ Next
  /\ Inverting(newMap') = Inverting(newMap)
  /\ IF Inverting(newMap) THEN now' = now
     ELSE /\ newMap' # newMap => now = 1
          /\ \A p \in Provider, tk \in ProviderTicker :
               data'[p][tk] \notin {data[p][tk], NoData} =>
                 data'[p][tk].class # Zero /\ (p = b => data'[p][tk].ts = now)
MCSpec == Init /\ [][MCNext]_vars /\ Fairness
=============================================================================
