---------------------------- MODULE APIExchanges ----------------------------
(***************************************************************************)
(* What the API price fetchers of providers/apis/ make of the answers to a *)
(* query: the handlers of the exchanges behind the REST fetcher, and the   *)
(* fetchers that ask several nodes of a chain and take the answer of the   *)
(* greatest height.                                                        *)
(*                                                                         *)
(* A price is <<ticker, number>>; a ticker stands for its off-chain name.  *)
(* An answer of an exchange is a status and a price for some tickers; that *)
(* of a node is a height, 0 if it tells none, and a price for every ticker *)
(* asked for. URLs, JSON, decimals and pool arithmetic are left out: a     *)
(* price either parses or is Bad. That an exchange lists a name once in an *)
(* answer is assumed.                                                      *)
(***************************************************************************)
EXTENDS Integers, Sequences, FiniteSets, SequencesExt

CONSTANTS
  Bad,      \* a price that does not parse
  Unknown   \* an off-chain ticker nobody asked for

RESTKinds == {"binance", "bitstamp", "coinbase", "coingecko", "coinmarketcap",
              "geckoterminal", "kraken", "polymarket"}
ChainKinds == {"osmosis", "raydium", "uniswap"}

(* NewPriceResponseWithErr.                                                *)
WithErr(batch) == [resolved |-> <<>>, unresolved |-> batch]

-----------------------------------------------------------------------------
(* Exchanges.                                                              *)

(* The request is sent unless CreateURL refuses the tickers, and its       *)
(* answer is parsed unless it failed, was rate limited or not a success.   *)
CreateURLFails(kind, batch) == kind \in {"coinbase", "polymarket"} /\ Cardinality(batch) # 1
RequestFails(a) == a.status \in {"failed", "limited", "refused"}

(* Faulty variant: a ticker that is missing from the answer is forgotten.  *)
ParseKnownOnly(cache, batch, prices) ==
  LET known == DOMAIN prices \cap cache
      good  == {t \in known : prices[t] # Bad}
  IN  [resolved |-> [t \in good |-> prices[t]], unresolved |-> known \ good]

(* The prices of tickers in the cache count, whether asked for or not;     *)
(* the tickers that were asked for and have no price are unresolved.       *)
ParseKnown(cache, batch, prices) ==
  LET known == DOMAIN prices \cap cache
      good  == {t \in known : prices[t] # Bad}
  IN  [resolved |-> [t \in good |-> prices[t]], unresolved |-> (known \cup batch) \ good]

(* The answer has the price of the one ticker and not its name.            *)
OnlyOf(batch) == CHOOSE t \in batch : TRUE
ParseSingle(batch, prices) ==
  LET t == OnlyOf(batch)
  IN  IF t \in DOMAIN prices /\ prices[t] # Bad
      THEN [resolved |-> [x \in {t} |-> prices[t]], unresolved |-> {}]
      ELSE WithErr(batch)

BinanceParse(cache, batch, a) == ParseKnown(cache, batch, a.prices)

BitstampParse(cache, batch, a) == ParseKnown(cache, batch, a.prices)

(* CoinGecko's prices are numbers: one that does not parse is an answer    *)
(* that does not decode.                                                   *)
CoinGeckoParse(cache, batch, a) ==
  IF \E t \in DOMAIN a.prices : a.prices[t] = Bad THEN WithErr(batch)
  ELSE ParseKnown(cache, batch, a.prices)

(* The first of the close prices is taken of a list that may be empty: the *)
(* parser panics.                                                          *)
ParsePanics(kind, a) == kind = "kraken" /\ a.status = "empty"

KrakenParse(cache, batch, a) ==
  IF a.status = "error" THEN WithErr(batch) ELSE ParseKnown(cache, batch, a.prices)

(* One unknown address spoils the whole answer.                            *)
GeckoTerminalParse(cache, batch, a) ==
  IF a.status = "error" \/ ~(DOMAIN a.prices \subseteq cache) THEN WithErr(batch)
  ELSE ParseKnown(cache, batch, a.prices)

(* A ticker that is missing from the answer is neither resolved nor        *)
(* unresolved.                                                             *)
CoinMarketCapParse(cache, batch, a) ==
  LET known == DOMAIN a.prices \cap cache
      good  == {t \in known : a.prices[t] # Bad}
  IN  IF a.status = "error" THEN WithErr(batch)
      ELSE [resolved |-> [t \in good |-> a.prices[t]], unresolved |-> known \ good]

CoinbaseParse(batch, a) == ParseSingle(batch, a.prices)

PolymarketParse(batch, a) == ParseSingle(batch, a.prices)

(* An answer that does not decode is an error for every handler.           *)
ParseResponse(kind, cache, batch, a) ==
  IF a.status = "malformed" THEN WithErr(batch)
  ELSE CASE kind = "binance"       -> BinanceParse(cache, batch, a)
         [] kind = "bitstamp"      -> BitstampParse(cache, batch, a)
         [] kind = "coinbase"      -> CoinbaseParse(batch, a)
         [] kind = "coingecko"     -> CoinGeckoParse(cache, batch, a)
         [] kind = "coinmarketcap" -> CoinMarketCapParse(cache, batch, a)
         [] kind = "geckoterminal" -> GeckoTerminalParse(cache, batch, a)
         [] kind = "kraken"        -> KrakenParse(cache, batch, a)
         [] kind = "polymarket"    -> PolymarketParse(batch, a)

FetchREST(kind, cache, batch, a) ==
  IF CreateURLFails(kind, batch) \/ RequestFails(a) THEN WithErr(batch)
  ELSE ParseResponse(kind, cache, batch, a)

-----------------------------------------------------------------------------
(* Nodes of a chain. Answers is a function from endpoints, numbered in the *)
(* order of the configuration.                                             *)
Heights(answers) == {answers[e].height : e \in DOMAIN answers}
MaxHeight(answers) == CHOOSE h \in Heights(answers) : \A g \in Heights(answers) : g <= h

(* Faulty variant: the first answer that did not fail.                     *)
FilterResponsesFirst(answers) ==
  LET answered == {e \in DOMAIN answers : answers[e].height > 0}
  IN  IF answered = {} THEN 1 ELSE CHOOSE e \in answered : \A f \in answered : e <= f

(* The first endpoint with the greatest height; the first one if all       *)
(* heights are 0.                                                          *)
FilterResponses(answers) ==
  LET best == {e \in DOMAIN answers : answers[e].height = MaxHeight(answers)}
  IN  CHOOSE e \in best : \A f \in best : e <= f

ParsePrices(batch, prices) ==
  LET good == {t \in batch : prices[t] # Bad}
  IN  [resolved |-> [t \in good |-> prices[t]], unresolved |-> batch \ good]

(* Osmosis leaves the response of a failed node empty, which does not      *)
(* parse. An answer without the header of the height counts as one of      *)
(* height 0: it is used if it is the first and no other has a height.      *)
FetchOsmosis(batch, answers, valid) ==
  LET chosen == answers[FilterResponses(answers)]
  IN  IF ~valid \/ chosen.status = "failed" THEN WithErr(batch)
      ELSE ParsePrices(batch, chosen.prices)

(* Raydium has no response at all if every node failed.                    *)
FetchRaydium(batch, answers, valid) ==
  IF MaxHeight(answers) = 0 \/ ~valid THEN WithErr(batch)
  ELSE ParsePrices(batch, answers[FilterResponses(answers)].prices)

(* Uniswap: the batch elements are copied for every endpoint, but not the  *)
(* strings their results point to: errors are those of the chosen answer,  *)
(* results those of the endpoint that answered last, be it one that told   *)
(* no height.                                                              *)
FetchUniswap(batch, answers, results, valid) ==
  LET chosen == answers[FilterResponses(answers)]
  IN  IF chosen.height = 0 \/ ~valid THEN WithErr(batch)
      ELSE ParsePrices(batch, [t \in batch |-> IF chosen.prices[t] = Bad THEN Bad ELSE results[t]])
=============================================================================
