----------------------------- MODULE PriceFeed ------------------------------
(***************************************************************************)
(* What a price provider promises of the data it stores: a ticker has no   *)
(* price, or one its market has had, and a stored price is replaced only   *)
(* by a later one of the same market. A price is known by its number in    *)
(* the market's history; 0 is no price.                                    *)
(***************************************************************************)
EXTENDS Integers

CONSTANT Ticker

VARIABLES
  market,  \* ticker -> the number of its latest price
  price    \* ticker -> the number of the stored price

feedVars == <<market, price>>

FeedInit ==
  /\ market = [t \in Ticker |-> 1]
  /\ price = [t \in Ticker |-> 0]

(* Prices move; those of a chain all at once.                              *)
Trade ==
  /\ \E S \in SUBSET Ticker : market' = [t \in Ticker |-> IF t \in S THEN market[t] + 1 ELSE market[t]]
  /\ UNCHANGED price

(* One response may store the prices of several tickers.                   *)
Store ==
  /\ UNCHANGED market
  /\ DOMAIN price' = Ticker
  /\ \A t \in Ticker : price'[t] \in price[t]..market[t]

FeedNext == Trade \/ Store
FeedSpec == FeedInit /\ [][FeedNext]_feedVars
=============================================================================
