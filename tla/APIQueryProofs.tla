--------------------------- MODULE APIQueryProofs ---------------------------
(***************************************************************************)
(* Proofs about the API query handler, its fetchers and the provider's     *)
(* recv: for every list of tickers, every configuration of the fetchers,   *)
(* any number of nodes and requests at a time, channels of every size and  *)
(* prices without bound.                                                   *)
(***************************************************************************)
EXTENDS APIQuery, FiniteSetTheorems, SequenceTheorems, WellFoundedInduction, TLAPS

(* A price as <<ticker, number>>, and the prices of some tickers.          *)
Priced == Ticker \X (Nat \ {0})
Prices == UNION {[D -> Priced] : D \in SUBSET Ticker}
Response == [batch : SUBSET Ticker, resolved : Prices, unresolved : SUBSET Ticker, height : Nat]

Types ==
  /\ kind \in Kinds /\ ids \in IDs
  /\ index \in 0..(Len(Tasks) - 1)
  /\ cache \in SUBSET Ticker
  /\ market \in [Ticker -> Nat \ {0}]
  /\ responseCh \in Seq(Response)
  /\ data \in [Ticker -> Priced \cup {NoData}]
  /\ DOMAIN task = Workers

(* The answer of an exchange, to be read with the cache: the price of a    *)
(* ticker is the ticker's own, and its market has had it. The answer of a  *)
(* node is of a block that the chain has had, and if it tells which, so    *)
(* are its prices.                                                         *)
ExchangeAnswerOK(a) ==
  \A t \in DOMAIN a.prices \cap Ticker :
    a.prices[t] # Bad => /\ a.prices[t] = <<t, a.prices[t][2]>>
                         /\ a.prices[t][2] \in 1..market[t]
NodeAnswerOK(a, batch) ==
  /\ a.height \in 0..Tip
  /\ a.height > 0 => \A t \in batch : a.prices[t] # Bad => a.prices[t] = <<t, a.height>>
  /\ a.status # "failed" => \A t \in batch : a.prices[t] = Bad \/ a.prices[t] \in Priced

AnswerOK(a, batch) ==
  IF kind \in ChainKinds THEN NodeAnswerOK(a, batch) ELSE a.height = 0 /\ ExchangeAnswerOK(a)

RequestOK(T) ==
  /\ T.batch \in SUBSET Ticker /\ IsFiniteSet(T.batch)
  /\ DOMAIN T.answers = IF kind \in ChainKinds THEN Endpoint ELSE {1}
  /\ \A e \in DOMAIN T.answers : T.answers[e] = NoAnswer \/ AnswerOK(T.answers[e], T.batch)
  /\ \A t \in T.batch : T.results[t] = Bad \/ T.results[t] \in Priced

(* What EveryTickerAnswered and GreatestHeightWins say of one response,    *)
(* and the origin of its prices.                                           *)
Answered(r) ==
  /\ DOMAIN r.resolved \cap r.unresolved = {}
  /\ kind # "coinmarketcap" => r.batch \subseteq DOMAIN r.resolved \cup r.unresolved
OfGreatestHeight(r) ==
  kind \in {"osmosis", "raydium"} =>
    (r.height > 0 => \A t \in DOMAIN r.resolved : r.resolved[t][2] = r.height)
OfItsMarket(r) ==
  kind \in RESTKinds =>
    \A t \in DOMAIN r.resolved : r.resolved[t][1] = t /\ r.resolved[t][2] <= market[t]
ResponseOK(r) == r \in Response /\ Answered(r) /\ OfGreatestHeight(r) /\ OfItsMarket(r)

TaskOK(T) ==
  /\ T.pc \in {"off", "fetch", "record", "send"}
  /\ T.pc \in {"fetch", "record"} => RequestOK(T)
  /\ T.pc = "record" => /\ kind \in ChainKinds
                        /\ \A e \in DOMAIN T.answers : T.answers[e] # NoAnswer
  /\ T.pc = "send" => ResponseOK(T.response)

(* The inductive invariant for what the responses say.                     *)
ResponsesInv ==
  /\ Types
  /\ \A k \in Workers : TaskOK(task[k])
  /\ \A i \in DOMAIN responseCh : ResponseOK(responseCh[i])

(* Only the first goroutine works for an exchange that is asked in order.  *)
OneAtATime == InOrder => \A k \in Workers : k # 1 => task[k].pc = "off"

(* The price of a ticker in the hands of that goroutine, or else the next  *)
(* one to be asked for, the market's.                                      *)
Held(t) ==
  LET T == task[1]
  IN  CASE T.pc = "fetch" /\ T.answers[1] # NoAnswer /\ t \in DOMAIN T.answers[1].prices
             /\ T.answers[1].prices[t] # Bad                -> T.answers[1].prices[t][2]
        [] T.pc = "send" /\ t \in DOMAIN T.response.resolved -> T.response.resolved[t][2]
        [] OTHER                                             -> market[t]

(* The prices of a ticker on their way from the market to the store are    *)
(* in the order in which the market had them.                              *)
InPipeline ==
  InOrder =>
    \A t \in Ticker :
      /\ FeedPrice[t] \in Nat /\ FeedPrice[t] <= Held(t)
      /\ \A i \in DOMAIN responseCh : t \in DOMAIN responseCh[i].resolved =>
           /\ FeedPrice[t] <= responseCh[i].resolved[t][2]
           /\ responseCh[i].resolved[t][2] <= Held(t)
           /\ \A j \in DOMAIN responseCh : i <= j /\ t \in DOMAIN responseCh[j].resolved =>
                responseCh[i].resolved[t][2] <= responseCh[j].resolved[t][2]

PipelineInv == ResponsesInv /\ OneAtATime /\ InPipeline

-----------------------------------------------------------------------------
(* A non-empty set of numbers has a least element, and a greatest one if   *)
(* the numbers have a bound.                                               *)
LEMMA LeastExists ==
  ASSUME NEW T \in SUBSET Nat, T # {}
  PROVE  \E x \in T : \A y \in T : x <= y
<1>1. IsWellFoundedOn(OpToRel(<, Nat), Nat)
  BY NatLessThanWellFounded
<1>2. PICK x \in T : \A y \in T : ~(<<y, x>> \in OpToRel(<, Nat))
  BY <1>1, WFMin
<1>3. \A m, n \in Nat : <<n, m>> \in OpToRel(<, Nat) <=> n < m
  BY DEF OpToRel
<1>4. x \in Nat /\ \A y \in T : y \in Nat
  OBVIOUS
<1>5. \A y \in T : ~(y < x)
  BY <1>2, <1>3, <1>4
<1> QED
  BY <1>4, <1>5

(* A set of numbers with a bound has a greatest one.                       *)
LEMMA GreatestExists ==
  ASSUME NEW n \in Nat, NEW T \in SUBSET (0..n), T # {}
  PROVE  \E x \in T : \A y \in T : y <= x
<1> DEFINE U == {n - x : x \in T}
<1>1. U \in SUBSET Nat
  OBVIOUS
<1>2. U # {}
  OBVIOUS
<1>3. PICK u \in U : \A v \in U : u <= v
  BY <1>1, <1>2, LeastExists
<1>4. PICK x \in T : u = n - x
  OBVIOUS
<1>5. \A y \in T : n - y \in U
  OBVIOUS
<1> HIDE DEF U
<1>6. \A y \in T : n - x <= n - y
  BY <1>3, <1>4, <1>5
<1>7. \A y \in T : y \in Nat
  OBVIOUS
<1> QED
  BY <1>6, <1>7

(* Where the tickers come from: a task is a finite set of them.            *)
LEMMA SequenceSets ==
  ASSUME NEW s \in Seq(Ticker)
  PROVE  ToSet(s) \in SUBSET Ticker /\ IsFiniteSet(ToSet(s))
<1>1. ToSet(s) = {s[i] : i \in DOMAIN s}
  BY DEF ToSet
<1>2. DOMAIN s = 1..Len(s) /\ Len(s) \in Nat
  OBVIOUS
<1>3. IsFiniteSet(DOMAIN s)
  BY <1>2, FS_Interval
<1>4. IsFiniteSet(ToSet(s))
  <2> DEFINE f == [i \in DOMAIN s |-> s[i]]
  <2>1. f \in Surjection(DOMAIN s, ToSet(s))
    BY <1>1 DEF Surjection
  <2> QED
    BY <2>1, <1>3, FS_Surjection
<1> QED
  BY <1>1, <1>2, <1>4

(* The tickers are split into at least one batch, each a finite set.       *)
LEMMA TasksFacts ==
  ASSUME kind \in Kinds, ids \in IDs
  PROVE  /\ Len(Tasks) \in Nat \ {0}
         /\ \A i \in 1..Len(Tasks) : Tasks[i] \in SUBSET Ticker /\ IsFiniteSet(Tasks[i])
<1> DEFINE size == IF Config[kind].batchSize > 0 THEN Config[kind].batchSize ELSE 1
           n == (Len(ids) + size - 1) \div size
           batch(i) == SubSeq(ids, (i - 1) * size + 1, Minimum(Len(ids), i * size))
<1>1. ids \in Seq(Ticker) /\ ids # <<>> /\ Len(ids) \in Nat /\ Len(ids) >= 1
  BY APIConstants
<1>2. size \in Nat /\ size >= 1
  BY APIConstants
<1>3. CASE Config[kind].atomic
  <2>1. Tasks = <<ToSet(ids)>>
    BY <1>3 DEF Tasks
  <2>2. ToSet(ids) \in SUBSET Ticker /\ IsFiniteSet(ToSet(ids))
    BY <1>1, SequenceSets
  <2> QED
    BY <2>1, <2>2
<1>4. CASE ~Config[kind].atomic
  <2>1. Tasks = [i \in 1..n |-> ToSet(batch(i))]
    BY <1>4 DEF Tasks
  <2>2. n \in Nat /\ n >= 1
    <3>1. \A a, b \in Nat : b >= 1 /\ a >= b => a \div b \in Nat /\ a \div b >= 1
      OBVIOUS
    <3>2. Len(ids) + size - 1 \in Nat /\ Len(ids) + size - 1 >= size
      BY <1>1, <1>2
    <3> HIDE DEF size
    <3> QED
      BY <1>2, <3>1, <3>2
  <2>3. ASSUME NEW i \in 1..n
        PROVE  batch(i) \in Seq(Ticker)
    <3> DEFINE a == (i - 1) * size + 1
               b == Minimum(Len(ids), i * size)
    <3>0. i \in Nat /\ i >= 1
      BY <2>2
    <3> HIDE DEF n, size
    <3>1. (i - 1) * size \in Nat /\ i * size \in Nat
      BY <1>2, <3>0
    <3>2. a \in Int /\ a >= 1 /\ b \in Int /\ b <= Len(ids)
      BY <1>1, <3>1 DEF Minimum
    <3> HIDE DEF a, b
    <3>3. \A j \in a..b : ids[j] \in Ticker
      BY <1>1, <3>2
    <3>4. SubSeq(ids, a, b) \in Seq(Ticker)
      BY <3>2, <3>3, SubSeqProperties
    <3> QED
      BY <3>4 DEF a, b
  <2> HIDE DEF batch, n
  <2>4. Len(Tasks) = n
    BY <2>1, <2>2
  <2>5. \A i \in 1..n : ToSet(batch(i)) \in SUBSET Ticker /\ IsFiniteSet(ToSet(batch(i)))
    BY <2>3, SequenceSets
  <2> QED
    BY <2>1, <2>2, <2>4, <2>5
<1> QED
  BY <1>3, <1>4

(* Of the answers of all nodes the one with the greatest height is chosen, *)
(* whatever order they came in.                                            *)
LEMMA ChosenAnswer ==
  ASSUME NEW answers, NEW b \in Nat, DOMAIN answers \subseteq Nat, DOMAIN answers # {},
         \A e \in DOMAIN answers : answers[e].height \in 0..b
  PROVE  /\ MaxHeight(answers) \in 0..b
         /\ FilterResponses(answers) \in DOMAIN answers
         /\ answers[FilterResponses(answers)].height = MaxHeight(answers)
<1> DEFINE best == {e \in DOMAIN answers : answers[e].height = MaxHeight(answers)}
<1>1. Heights(answers) \in SUBSET (0..b) /\ Heights(answers) # {}
  BY DEF Heights
<1>2. PICK h \in Heights(answers) : \A g \in Heights(answers) : g <= h
  BY <1>1, GreatestExists
<1>3. MaxHeight(answers) \in Heights(answers)
  BY <1>2 DEF MaxHeight
<1>4. best \in SUBSET Nat
  OBVIOUS
<1>5. best # {}
  BY <1>3 DEF Heights
<1>6. PICK e \in best : \A f \in best : e <= f
  BY <1>4, <1>5, LeastExists
<1>7. FilterResponses(answers) \in best
  BY <1>6 DEF FilterResponses
<1> QED
  BY <1>1, <1>3, <1>7

(* A response without prices.                                              *)
LEMMA NothingResolved ==
  ASSUME NEW batch \in SUBSET Ticker
  PROVE  /\ WithErr(batch).resolved \in Prices /\ DOMAIN WithErr(batch).resolved = {}
         /\ WithErr(batch).unresolved = batch
<1>1. <<>> = [t \in {} |-> Bad]
  OBVIOUS
<1>2. [t \in {} |-> Bad] \in [{} -> Priced]
  OBVIOUS
<1>3. <<>> \in Prices
  BY <1>1, <1>2 DEF Prices
<1> QED
  BY <1>1, <1>3 DEF WithErr

(* What every exchange handler makes of an answer: an asked ticker has a   *)
(* price or is unresolved and never both, and a price is one that the      *)
(* answer has for the ticker. The exception is CoinMarketCap.              *)
ResolvedFrom(res, prices) ==
  /\ res.resolved \in Prices
  /\ \A t \in DOMAIN res.resolved :
       t \in DOMAIN prices /\ prices[t] # Bad /\ res.resolved[t] = prices[t]

Partitioned(res, batch) ==
  /\ res.unresolved \in SUBSET Ticker
  /\ DOMAIN res.resolved \cap res.unresolved = {}
  /\ batch \subseteq DOMAIN res.resolved \cup res.unresolved

(* Prices that are right for some tickers are resolved prices.             *)
LEMMA ResolvedPrices ==
  ASSUME Types, NEW prices, NEW good \in SUBSET Ticker,
         \A t \in good : /\ prices[t] = <<t, prices[t][2]>>
                         /\ prices[t][2] \in 1..market[t]
  PROVE  [t \in good |-> prices[t]] \in Prices
<1>1. \A t \in good : market[t] \in Nat
  BY DEF Types
<1>2. \A t \in good : prices[t][2] \in Nat \ {0}
  BY <1>1
<1>3. \A t \in good : <<t, prices[t][2]>> \in Priced
  BY <1>2 DEF Priced
<1>4. \A t \in good : prices[t] \in Priced
  BY <1>3
<1> QED
  BY <1>4 DEF Prices

(* ParseResponse of an exchange resolves prices of the answer only, and no *)
(* ticker is both resolved and unresolved.                                 *)
LEMMA ParseFacts ==
  ASSUME Types, NEW batch \in SUBSET Ticker, IsFiniteSet(batch),
         NEW a, ExchangeAnswerOK(a), kind \in RESTKinds
  PROVE  LET res == FetchREST(kind, cache, batch, a)
         IN  /\ ResolvedFrom(res, a.prices)
             /\ res.unresolved \in SUBSET Ticker
             /\ DOMAIN res.resolved \cap res.unresolved = {}
             /\ kind # "coinmarketcap" => Partitioned(res, batch)
<1> DEFINE known == DOMAIN a.prices \cap cache
           good == {t \in known : a.prices[t] # Bad}
           OK(res) == ResolvedFrom(res, a.prices) /\ Partitioned(res, batch)
<1>1. OK(WithErr(batch))
  BY NothingResolved DEF ResolvedFrom, Partitioned
<1>2. [t \in good |-> a.prices[t]] \in Prices /\ known \in SUBSET Ticker /\ good \subseteq known
  <2>1. good \in SUBSET Ticker /\ known \in SUBSET Ticker
    BY DEF Types
  <2>2. \A t \in good : a.prices[t] = <<t, a.prices[t][2]>> /\ a.prices[t][2] \in 1..market[t]
    BY <2>1 DEF ExchangeAnswerOK
  <2> HIDE DEF good, known
  <2>3. [t \in good |-> a.prices[t]] \in Prices
    BY <2>1, <2>2, ResolvedPrices
  <2> QED
    BY <2>1, <2>3 DEF good
<1>3. OK(ParseKnown(cache, batch, a.prices))
  BY <1>2 DEF ParseKnown, ResolvedFrom, Partitioned
<1>4. ASSUME Cardinality(batch) = 1
      PROVE  OK(ParseSingle(batch, a.prices))
  <2>1. PICK x : batch = {x}
    BY <1>4, FS_Singleton
  <2>2. OnlyOf(batch) = x
    BY <2>1 DEF OnlyOf
  <2>3. CASE x \in DOMAIN a.prices /\ a.prices[x] # Bad
    <3>1. x \in Ticker
      BY <2>1
    <3>2. a.prices[x] = <<x, a.prices[x][2]>> /\ a.prices[x][2] \in 1..market[x]
      BY <2>3, <3>1 DEF ExchangeAnswerOK
    <3>3. [y \in {x} |-> a.prices[x]] = [y \in {x} |-> a.prices[y]]
      OBVIOUS
    <3>4. [y \in {x} |-> a.prices[x]] \in Prices
      BY <3>1, <3>2, <3>3, ResolvedPrices
    <3>5. ParseSingle(batch, a.prices) = [resolved |-> [y \in {x} |-> a.prices[x]], unresolved |-> {}]
      BY <2>2, <2>3 DEF ParseSingle
    <3> QED
      BY <2>1, <2>3, <3>4, <3>5 DEF ResolvedFrom, Partitioned
  <2>4. CASE ~(x \in DOMAIN a.prices /\ a.prices[x] # Bad)
    <3>1. ParseSingle(batch, a.prices) = WithErr(batch)
      BY <2>2, <2>4 DEF ParseSingle
    <3> HIDE DEF OK
    <3> QED
      BY <1>1, <3>1
  <2> QED
    BY <2>3, <2>4
<1>5. LET res == CoinMarketCapParse(cache, batch, a)
      IN  /\ ResolvedFrom(res, a.prices)
          /\ res.unresolved \in SUBSET Ticker
          /\ DOMAIN res.resolved \cap res.unresolved = {}
  <2>1. CASE a.status = "error"
    BY <2>1, NothingResolved DEF CoinMarketCapParse, ResolvedFrom
  <2>2. CASE a.status # "error"
    BY <1>2, <2>2 DEF CoinMarketCapParse, ResolvedFrom
  <2> QED
    BY <2>1, <2>2
<1> DEFINE res == FetchREST(kind, cache, batch, a)
<1>6. kind \in {"coinbase", "polymarket"} =>
         OK(res) \/ Cardinality(batch) = 1
  BY <1>1 DEF FetchREST, CreateURLFails
<1> HIDE DEF OK
<1>7. CASE kind = "coinmarketcap"
  <2>1. res = WithErr(batch) \/ res = CoinMarketCapParse(cache, batch, a)
    BY <1>7 DEF FetchREST, ParseResponse
  <2> QED
    BY <1>1, <1>5, <1>7, <2>1 DEF OK, Partitioned
<1>8. CASE kind \in {"coinbase", "polymarket"} /\ Cardinality(batch) = 1
  <2>1. res = WithErr(batch) \/ res = ParseSingle(batch, a.prices)
    BY <1>8 DEF FetchREST, ParseResponse, CoinbaseParse, PolymarketParse
  <2> QED
    BY <1>1, <1>4, <1>8, <2>1 DEF OK, Partitioned
<1>9. CASE kind \in {"binance", "bitstamp", "coingecko", "geckoterminal", "kraken"}
  <2>1. res = WithErr(batch) \/ res = ParseKnown(cache, batch, a.prices)
    BY <1>9 DEF FetchREST, ParseResponse, BinanceParse, BitstampParse, CoinGeckoParse,
                GeckoTerminalParse, KrakenParse
  <2> QED
    BY <1>1, <1>3, <2>1 DEF OK, Partitioned
<1> QED
  BY <1>6, <1>7, <1>8, <1>9 DEF OK, Partitioned, RESTKinds

(* Of the prices a chain's node returned, each ticker's either parses and  *)
(* is resolved, or the ticker is unresolved.                               *)
LEMMA ParsePricesFacts ==
  ASSUME NEW batch \in SUBSET Ticker, NEW prices,
         \A t \in batch : prices[t] # Bad => prices[t] \in Priced
  PROVE  LET res == ParsePrices(batch, prices)
         IN  /\ res.resolved \in Prices
             /\ Partitioned(res, batch)
             /\ \A t \in DOMAIN res.resolved :
                  t \in batch /\ prices[t] # Bad /\ res.resolved[t] = prices[t]
<1> DEFINE good == {t \in batch : prices[t] # Bad}
<1>1. [t \in good |-> prices[t]] \in [good -> Priced] /\ good \in SUBSET Ticker
  OBVIOUS
<1>2. [t \in good |-> prices[t]] \in Prices
  BY <1>1 DEF Prices
<1> QED
  BY <1>2 DEF ParsePrices, Partitioned

(* The tip of a chain is a price the market has had.                       *)
LEMMA TipFacts == Types => Tip \in Nat \ {0} /\ \E t \in Ticker : TRUE
<1> SUFFICES ASSUME Types PROVE Tip \in Nat \ {0} /\ \E t \in Ticker : TRUE
  OBVIOUS
<1>1. ids \in Seq(Ticker) /\ ids # <<>>
  BY APIConstants DEF Types
<1>2. ids[1] \in Ticker
  BY <1>1
<1>3. PICK u \in Ticker : u = CHOOSE t \in Ticker : TRUE
  BY <1>2
<1>4. Tip = market[u]
  BY <1>3 DEF Tip
<1> QED
  BY <1>3, <1>4 DEF Types

(* The nodes of a chain, as positions.                                     *)
LEMMA EndpointFacts == Endpoint \subseteq Nat /\ Endpoint # {}
BY APIConstants, FS_CardinalityType

(* The result a fetcher makes of the answers to a request.                 *)
ResultOf(T, valid) ==
  CASE kind = "osmosis" -> FetchOsmosis(T.batch, T.answers, valid)
    [] kind = "raydium" -> FetchRaydium(T.batch, T.answers, valid)
    [] kind = "uniswap" -> FetchUniswap(T.batch, T.answers, T.results, valid)
    [] OTHER -> FetchREST(kind, cache, T.batch, T.answers[1])
ResponseTo(T, valid) ==
  LET res == ResultOf(T, valid)
  IN  [batch |-> T.batch, resolved |-> res.resolved, unresolved |-> res.unresolved,
       height |-> MaxHeight(T.answers)]

(* A request that is done sends the response to what it asked.             *)
LEMMA RespondSends ==
  ASSUME NEW k \in Workers, NEW valid, Respond(k, valid)
  PROVE  task' = [task EXCEPT ![k] = [pc |-> "send", response |-> ResponseTo(task[k], valid)]]
BY DEF Respond, ResponseTo, ResultOf

(* The response to a request that every node, or the exchange, answered.   *)
LEMMA ResponseFacts ==
  ASSUME Types, NEW T, RequestOK(T), NEW valid \in BOOLEAN,
         \A e \in DOMAIN T.answers : T.answers[e] # NoAnswer
  PROVE  /\ ResponseOK(ResponseTo(T, valid))
         /\ kind \in RESTKinds =>
              \A t \in DOMAIN ResponseTo(T, valid).resolved :
                /\ t \in DOMAIN T.answers[1].prices
                /\ T.answers[1].prices[t] # Bad
                /\ ResponseTo(T, valid).resolved[t] = T.answers[1].prices[t]
<1> DEFINE res == ResultOf(T, valid)
           h == MaxHeight(T.answers)
           r == ResponseTo(T, valid)
<1>1. T.batch \in SUBSET Ticker /\ IsFiniteSet(T.batch) /\ kind \in RESTKinds \cup ChainKinds
  BY APIConstants DEF RequestOK, Types
<1>2. /\ r.batch = T.batch /\ r.resolved = res.resolved
      /\ r.unresolved = res.unresolved /\ r.height = h
      /\ r = [batch |-> T.batch, resolved |-> res.resolved, unresolved |-> res.unresolved, height |-> h]
  BY DEF ResponseTo
<1>3. CASE kind \in RESTKinds
  <2> DEFINE a == T.answers[1]
  <2>1. kind \notin ChainKinds
    BY <1>3 DEF RESTKinds, ChainKinds
  <2>2. DOMAIN T.answers = {1} /\ a.height = 0 /\ ExchangeAnswerOK(a)
    BY <2>1 DEF RequestOK, AnswerOK
  <2>3. h \in 0..0
    BY <2>2, ChosenAnswer
  <2>4. res = FetchREST(kind, cache, T.batch, a)
    BY <1>3 DEF ResultOf, RESTKinds
  <2>5. /\ ResolvedFrom(res, a.prices)
        /\ res.unresolved \in SUBSET Ticker
        /\ DOMAIN res.resolved \cap res.unresolved = {}
        /\ kind # "coinmarketcap" => Partitioned(res, T.batch)
    BY <1>1, <1>3, <2>2, <2>4, ParseFacts
  <2> HIDE DEF res, h, a, r
  <2>6. r \in Response
    BY <1>1, <1>2, <2>3, <2>5 DEF Response, ResolvedFrom
  <2>7. Answered(r)
    BY <1>2, <2>5 DEF Answered, Partitioned
  <2>8. OfGreatestHeight(r)
    BY <1>3 DEF OfGreatestHeight, RESTKinds
  <2>9. OfItsMarket(r)
    <3> SUFFICES ASSUME NEW t \in DOMAIN r.resolved
                 PROVE  r.resolved[t][1] = t /\ r.resolved[t][2] <= market[t]
      BY DEF OfItsMarket
    <3>1. t \in DOMAIN a.prices /\ a.prices[t] # Bad /\ r.resolved[t] = a.prices[t] /\ t \in Ticker
      BY <1>2, <2>5 DEF ResolvedFrom, Prices
    <3>2. a.prices[t] = <<t, a.prices[t][2]>> /\ a.prices[t][2] \in 1..market[t]
      BY <2>2, <3>1 DEF ExchangeAnswerOK
    <3>3. market[t] \in Nat
      BY <3>1 DEF Types
    <3>4. a.prices[t][1] = t
      BY <3>2
    <3> QED
      BY <3>1, <3>2, <3>3, <3>4
  <2> QED
    BY <1>2, <2>5, <2>6, <2>7, <2>8, <2>9 DEF ResponseOK, ResolvedFrom, a, r
<1>4. CASE kind \in ChainKinds
  <2> DEFINE a == T.answers[FilterResponses(T.answers)]
             Good(x) == /\ x.resolved \in Prices /\ Partitioned(x, T.batch)
                        /\ kind # "uniswap" /\ h # 0 => \A t \in DOMAIN x.resolved : x.resolved[t][2] = h
  <2>1. /\ DOMAIN T.answers = Endpoint
        /\ \A e \in Endpoint : NodeAnswerOK(T.answers[e], T.batch)
    BY <1>4 DEF RequestOK, AnswerOK
  <2>2. Tip \in Nat
    BY TipFacts
  <2>3. \A e \in DOMAIN T.answers : T.answers[e].height \in 0..Tip
    BY <2>1 DEF NodeAnswerOK
  <2>4. h \in 0..Tip /\ FilterResponses(T.answers) \in Endpoint /\ a.height = h
    BY <2>1, <2>2, <2>3, EndpointFacts, ChosenAnswer
  <2>5. h \in Nat /\ (h # 0 => \A t \in T.batch : a.prices[t] # Bad => a.prices[t] = <<t, h>>)
    BY <2>1, <2>2, <2>4 DEF NodeAnswerOK
  <2>14. a.status # "failed" => \A t \in T.batch : a.prices[t] = Bad \/ a.prices[t] \in Priced
    BY <2>1, <2>4 DEF NodeAnswerOK
  <2> HIDE DEF h, a
  <2>6. Good(WithErr(T.batch))
    BY <1>1, NothingResolved DEF Partitioned
  <2>7. h # 0 \/ a.status # "failed" => Good(ParsePrices(T.batch, a.prices))
    <3> SUFFICES ASSUME h # 0 \/ a.status # "failed" PROVE Good(ParsePrices(T.batch, a.prices))
      OBVIOUS
    <3>1. h # 0 => \A t \in T.batch : a.prices[t] # Bad => a.prices[t] = <<t, h>> /\ t \in Ticker
      BY <1>1, <2>5
    <3>2. h # 0 => \A t \in Ticker : <<t, h>> \in Priced /\ <<t, h>>[2] = h
      BY <2>5 DEF Priced
    <3>3. \A t \in T.batch : a.prices[t] # Bad => a.prices[t] \in Priced
      BY <2>14, <3>1, <3>2
    <3>4. h # 0 => \A t \in T.batch : a.prices[t] # Bad => a.prices[t][2] = h
      BY <3>1, <3>2
    <3> DEFINE prices == a.prices
               parsed == ParsePrices(T.batch, prices)
    <3> HIDE DEF prices
    <3>5. /\ parsed.resolved \in Prices /\ Partitioned(parsed, T.batch)
          /\ \A t \in DOMAIN parsed.resolved :
               t \in T.batch /\ prices[t] # Bad /\ parsed.resolved[t] = prices[t]
      <4>1. \A t \in T.batch : prices[t] # Bad => prices[t] \in Priced
        BY <3>3 DEF prices
      <4> QED
        BY <1>1, <4>1, ParsePricesFacts
    <3> HIDE DEF parsed
    <3>6. h # 0 => \A t \in DOMAIN parsed.resolved : parsed.resolved[t][2] = h
      BY <3>4, <3>5 DEF prices
    <3>7. Good(parsed)
      BY <3>5, <3>6
    <3> QED
      BY <3>7 DEF parsed, prices
  <2> DEFINE shared == [t \in T.batch |-> IF a.prices[t] = Bad THEN Bad ELSE T.results[t]]
  <2>8. kind = "uniswap" => Good(ParsePrices(T.batch, shared))
    <3>1. \A t \in T.batch : T.results[t] = Bad \/ T.results[t] \in Priced
      BY DEF RequestOK
    <3>2. \A t \in T.batch : shared[t] # Bad => shared[t] \in Priced
      BY <3>1
    <3> HIDE DEF shared
    <3> QED
      BY <1>1, <3>2, ParsePricesFacts
  <2> HIDE DEF Good, shared
  <2>9. Good(res)
    <3>1. CASE kind = "osmosis"
      <4>1. res = FetchOsmosis(T.batch, T.answers, valid)
        BY <3>1 DEF ResultOf
      <4>2. \/ res = WithErr(T.batch)
            \/ a.status # "failed" /\ res = ParsePrices(T.batch, a.prices)
        BY <2>4, <4>1 DEF FetchOsmosis, a
      <4> QED
        BY <2>6, <2>7, <4>2
    <3>2. CASE kind = "raydium"
      <4>1. res = FetchRaydium(T.batch, T.answers, valid)
        BY <3>2 DEF ResultOf
      <4>2. res = WithErr(T.batch) \/ (h # 0 /\ res = ParsePrices(T.batch, a.prices))
        BY <4>1 DEF FetchRaydium, a, h
      <4> QED
        BY <2>6, <2>7, <4>2
    <3>3. CASE kind = "uniswap"
      <4>1. res = FetchUniswap(T.batch, T.answers, T.results, valid)
        BY <3>3 DEF ResultOf
      <4>2. \/ res = WithErr(T.batch)
            \/ res = ParsePrices(T.batch, shared)
        BY <4>1 DEF FetchUniswap, a, shared
      <4> QED
        BY <2>6, <2>8, <3>3, <4>2
    <3> QED
      BY <1>4, <3>1, <3>2, <3>3 DEF ChainKinds
  <2>10. /\ res.resolved \in Prices /\ Partitioned(res, T.batch)
         /\ kind # "uniswap" /\ h # 0 => \A t \in DOMAIN res.resolved : res.resolved[t][2] = h
    BY <2>9 DEF Good
  <2>11. kind \notin RESTKinds
    BY <1>4 DEF RESTKinds, ChainKinds
  <2> HIDE DEF res, r
  <2>12. r \in Response
    BY <1>1, <1>2, <2>5, <2>10 DEF Response, Partitioned
  <2>13. Answered(r) /\ OfGreatestHeight(r) /\ OfItsMarket(r)
    BY <1>2, <2>10, <2>11 DEF Answered, OfGreatestHeight, OfItsMarket, Partitioned
  <2> QED
    BY <2>11, <2>12, <2>13 DEF ResponseOK, r
<1> QED
  BY <1>1, <1>3, <1>4

-----------------------------------------------------------------------------
(* What every step leaves alone: the provider's tickers and the past of    *)
(* the markets.                                                            *)
LEMMA MarketGrows ==
  ASSUME Types, [Next]_vars
  PROVE  /\ kind' = kind /\ ids' = ids
         /\ market' \in [Ticker -> Nat \ {0}]
         /\ \A t \in Ticker : market[t] <= market'[t]
<1>1. kind' = kind /\ ids' = ids
  BY DEF Next, vars, QueryNext, CallQuery, Tick, StopTicks, Return, Spawn, QueryStep, Recv, Cancel,
         Age, Stopped, TaskNext, Answer, CheckHeight, RecordHeight, Finish, Recover, WriteResponse, TaskStep,
         TradeAt
<1>2. ASSUME NEW t \in Ticker, TradeAt(t)
      PROVE  market' \in [Ticker -> Nat \ {0}] /\ \A u \in Ticker : market[u] <= market'[u]
  BY <1>2 DEF TradeAt, Types
<1>3. market' = market \/ \E t \in Ticker : TradeAt(t)
  BY DEF Next, vars, QueryNext, CallQuery, Tick, StopTicks, Return, Spawn, QueryStep, Recv, Cancel,
         Age, Stopped, TaskNext, Answer, CheckHeight, RecordHeight, Finish, Recover, WriteResponse, TaskStep
<1>4. market' = market => /\ market' \in [Ticker -> Nat \ {0}]
                          /\ \A u \in Ticker : market[u] <= market'[u]
  BY DEF Types
<1> QED
  BY <1>1, <1>2, <1>3, <1>4

(* Answers and responses that were right stay right while prices move.     *)
LEMMA StaysOK ==
  ASSUME Types, [Next]_vars, NEW T
  PROVE  /\ RequestOK(T) => RequestOK(T)'
         /\ ResponseOK(T) => ResponseOK(T)'
         /\ TaskOK(T) => TaskOK(T)'
<1>1. /\ kind' = kind
      /\ \A t \in Ticker : /\ market[t] \in Nat /\ market'[t] \in Nat
                            /\ market[t] <= market'[t]
  BY MarketGrows DEF Types
<1>2. Tip \in Nat /\ Tip' \in Nat /\ Tip <= Tip'
  <2>1. PICK u \in Ticker : u = CHOOSE t \in Ticker : TRUE
    BY TipFacts
  <2>2. Tip = market[u] /\ Tip' = market'[u]
    BY <2>1 DEF Tip
  <2> QED
    BY <1>1, <2>2
<1>3. ASSUME NEW a, NEW batch, AnswerOK(a, batch) PROVE AnswerOK(a, batch)'
  <2>1. ExchangeAnswerOK(a) => ExchangeAnswerOK(a)'
    BY <1>1 DEF ExchangeAnswerOK
  <2>2. NodeAnswerOK(a, batch) => NodeAnswerOK(a, batch)'
    BY <1>2 DEF NodeAnswerOK
  <2> QED
    BY <1>1, <1>3, <2>1, <2>2 DEF AnswerOK
<1>4. RequestOK(T) => RequestOK(T)'
  BY <1>1, <1>3 DEF RequestOK
<1>5. ASSUME NEW r, ResponseOK(r) PROVE ResponseOK(r)'
  <2>1. \A t \in DOMAIN r.resolved : t \in Ticker /\ r.resolved[t][2] \in Nat
    BY <1>5 DEF ResponseOK, Response, Prices, Priced
  <2>2. OfItsMarket(r)'
    BY <1>1, <1>5, <2>1 DEF ResponseOK, OfItsMarket
  <2> QED
    BY <1>1, <1>5, <2>2 DEF ResponseOK, Answered, OfGreatestHeight
<1>6. TaskOK(T) => TaskOK(T)'
  BY <1>1, <1>4, <1>5 DEF TaskOK
<1> QED
  BY <1>4, <1>5, <1>6

(* A step that gives one goroutine a new state keeps the others right.     *)
LEMMA OneTaskMoves ==
  ASSUME ResponsesInv, [Next]_vars, NEW k, NEW T, task' = [task EXCEPT ![k] = T], TaskOK(T)
  PROVE  DOMAIN task' = Workers /\ \A j \in Workers : TaskOK(task[j])'
<1>1. Types /\ DOMAIN task = Workers /\ \A j \in Workers : TaskOK(task[j])
  BY DEF ResponsesInv, Types
<1>2. DOMAIN task' = Workers
  BY <1>1
<1>3. ASSUME NEW j \in Workers PROVE TaskOK(task[j])'
  <2>1. PICK U : U = task'[j]
    OBVIOUS
  <2>2. U = task[j] \/ U = T
    BY <1>1, <2>1
  <2>3. TaskOK(U)
    BY <1>1, <2>2
  <2>4. TaskOK(U)'
    BY <1>1, <2>3, StaysOK
  <2> QED
    BY <2>1, <2>4
<1> QED
  BY <1>2, <1>3

(* The answers that exchanges and nodes give are as the invariant says.    *)
LEMMA AnswersAreOK ==
  ASSUME Types, NEW T, RequestOK(T),
         NEW a \in IF kind \in ChainKinds THEN NodeAnswers(T.batch) ELSE ExchangeAnswers(T.batch)
  PROVE  /\ AnswerOK(a, T.batch)
         /\ kind \in ChainKinds /\ a.status = "ok" =>
              \A t \in T.batch : a.prices[t] = Bad \/ a.prices[t] \in Priced
<1>1. T.batch \in SUBSET Ticker /\ Unknown \notin Ticker
  BY APIConstants DEF RequestOK
<1>2. CASE kind \in ChainKinds
  <2>1. Tip \in Nat \ {0}
    BY TipFacts
  <2>2. \A h \in {Tip - 1, Tip} \ {0} : h \in Nat \ {0} /\ h \in 0..Tip
    BY <2>1
  <2>3. \/ a.height = 0 /\ a.status = "failed"
        \/ \E h \in {Tip - 1, Tip} \ {0}, bad \in SUBSET T.batch :
             /\ a.height \in {0, h}
             /\ a.prices = [t \in T.batch |-> IF t \in bad THEN Bad ELSE <<t, h>>]
    <3> DEFINE height(h, told) == IF told THEN h ELSE 0
               prices(h, bad) == [t \in T.batch |-> IF t \in bad THEN Bad ELSE <<t, h>>]
               node(h, told, bad) == [height |-> height(h, told), status |-> "ok", prices |-> prices(h, bad)]
               failed == [height |-> 0, status |-> "failed", prices |-> <<>>]
               Told == {TRUE, kind = "raydium"}
               Some == {b \in SUBSET T.batch : Cardinality(b) <= 1}
               Recent == {Tip - 1, Tip} \ {0}
    <3>1. a \in NodeAnswers(T.batch)
      BY <1>2
    <3>2. NodeAnswers(T.batch) =
            {failed} \cup {node(h, told, bad) : h \in Recent, told \in Told, bad \in Some}
      BY DEF NodeAnswers
    <3>3. \A h, told : height(h, told) \in {0, h}
      OBVIOUS
    <3>4. \A h, told, bad : node(h, told, bad).height = height(h, told) /\ node(h, told, bad).prices = prices(h, bad)
      BY DEF height, prices
    <3>5. failed.height = 0 /\ failed.status = "failed" /\ Some \subseteq SUBSET T.batch
      OBVIOUS
    <3> HIDE DEF height, prices, node, failed, Told, Some, Recent
    <3>6. a = failed \/ \E h \in Recent, told \in Told, bad \in Some : a = node(h, told, bad)
      BY <3>1, <3>2
    <3>7. a = failed \/ \E h \in Recent, bad \in SUBSET T.batch :
                          a.height \in {0, h} /\ a.prices = prices(h, bad)
      BY <3>3, <3>4, <3>5, <3>6
    <3> QED
      BY <3>5, <3>7 DEF prices, Recent
  <2>4. CASE a.height = 0 /\ a.status = "failed"
    BY <1>2, <2>1, <2>4 DEF AnswerOK, NodeAnswerOK
  <2>5. ASSUME NEW h \in {Tip - 1, Tip} \ {0}, NEW bad \in SUBSET T.batch,
               a.height \in {0, h}, a.prices = [t \in T.batch |-> IF t \in bad THEN Bad ELSE <<t, h>>]
        PROVE  /\ AnswerOK(a, T.batch)
               /\ \A t \in T.batch : a.prices[t] = Bad \/ a.prices[t] \in Priced
    <3>1. \A t \in Ticker : <<t, h>> \in Priced
      BY <2>2 DEF Priced
    <3>2. \A t \in T.batch : a.prices[t] = Bad \/ (t \in Ticker /\ a.prices[t] = <<t, h>>)
      BY <1>1, <2>5
    <3>3. AnswerOK(a, T.batch)
      BY <1>2, <2>1, <2>2, <2>5, <3>1, <3>2 DEF AnswerOK, NodeAnswerOK
    <3> QED
      BY <3>1, <3>2, <3>3
  <2> QED
    BY <2>3, <2>4, <2>5
<1>3. CASE kind \notin ChainKinds
  <2>1. a.height = 0
    BY <1>3 DEF ExchangeAnswers
  <2>2. \/ a.prices = <<>>
        \/ \E S \in SUBSET T.batch, bad \in SUBSET T.batch :
             a.prices = [t \in S |-> IF t \in bad THEN Bad ELSE <<t, market[t]>>]
        \/ a.prices = [t \in T.batch \cup {Unknown} |-> IF t = Unknown THEN <<t, 1>> ELSE <<t, market[t]>>]
    <3> DEFINE some(S, bad) == [t \in S |-> IF t \in bad THEN Bad ELSE <<t, market[t]>>]
               every == [t \in T.batch \cup {Unknown} |-> IF t = Unknown THEN <<t, 1>> ELSE <<t, market[t]>>]
    <3>1. a \in ExchangeAnswers(T.batch)
      BY <1>3
    <3>2. ExchangeAnswers(T.batch) =
            {[height |-> 0, status |-> s, prices |-> <<>>] :
               s \in {"failed", "limited", "refused", "malformed", "error", "empty"}}
              \cup {[height |-> 0, status |-> "ok", prices |-> some(S, bad)] :
                      S \in SUBSET T.batch, bad \in SUBSET T.batch}
              \cup {[height |-> 0, status |-> "ok", prices |-> every]}
      BY DEF ExchangeAnswers
    <3> HIDE DEF some, every
    <3>3. \/ a.prices = <<>>
          \/ \E S \in SUBSET T.batch, bad \in SUBSET T.batch : a.prices = some(S, bad)
          \/ a.prices = every
      BY <3>1, <3>2
    <3> QED
      BY <3>3 DEF some, every
  <2>3. \A t \in Ticker : /\ <<t, market[t]>> = <<t, <<t, market[t]>>[2]>>
                          /\ <<t, market[t]>>[2] \in 1..market[t]
    BY DEF Types
  <2>4. \A t \in DOMAIN a.prices \cap Ticker : a.prices[t] = Bad \/ a.prices[t] = <<t, market[t]>>
    <3>1. CASE a.prices = <<>>
      BY <3>1
    <3>2. ASSUME NEW S \in SUBSET T.batch, NEW bad \in SUBSET T.batch,
                 a.prices = [t \in S |-> IF t \in bad THEN Bad ELSE <<t, market[t]>>]
          PROVE  \A t \in DOMAIN a.prices : a.prices[t] = Bad \/ a.prices[t] = <<t, market[t]>>
      BY <3>2
    <3>3. CASE a.prices = [t \in T.batch \cup {Unknown} |-> IF t = Unknown THEN <<t, 1>> ELSE <<t, market[t]>>]
      BY <1>1, <3>3
    <3> QED
      BY <2>2, <3>1, <3>2, <3>3
  <2>5. ExchangeAnswerOK(a)
    BY <2>3, <2>4 DEF ExchangeAnswerOK
  <2> QED
    BY <1>3, <2>1, <2>5 DEF AnswerOK
<1> QED
  BY <1>2, <1>3

(* The steps that do not touch the goroutines.                             *)
QuietStep ==
  \/ CallQuery \/ Tick \/ StopTicks \/ Return \/ Recv \/ Cancel \/ Age \/ Stopped
  \/ (\E t \in Ticker : TradeAt(t)) \/ UNCHANGED vars

(* The steps, by what they do to the requests.                             *)
LEMMA StepKinds ==
  ASSUME [Next]_vars
  PROVE  \/ QuietStep
         \/ \E k \in Slots : Spawn(k)
         \/ \E k \in Workers, e \in Endpoint : Answer(k, e)
         \/ \E k \in Workers : CheckHeight(k) \/ RecordHeight(k) \/ Finish(k) \/ Recover(k) \/ WriteResponse(k)
BY DEF Next, QueryNext, TaskNext, QuietStep

(* All other steps leave the requests alone.                               *)
LEMMA QuietSteps == QuietStep => task' = task
BY DEF QuietStep, CallQuery, Tick, StopTicks, Return, Recv, Cancel, Age, Stopped, TradeAt, vars

(* The new state of the goroutine that a step moves.                       *)
LEMMA SpawnedTask ==
  ASSUME ResponsesInv, NEW k, Spawn(k)
  PROVE  \E T : task' = [task EXCEPT ![k] = T] /\ TaskOK(T) /\ T.pc = "fetch"
               /\ \A e \in DOMAIN T.answers : T.answers[e] = NoAnswer
<1> DEFINE batch == Tasks[index + 1]
           asked == IF kind \in ChainKinds THEN Endpoint ELSE {1}
           T == Request("fetch", batch, [e \in asked |-> NoAnswer], [t \in batch |-> Bad])
<1>1. batch \in SUBSET Ticker /\ IsFiniteSet(batch)
  BY TasksFacts DEF ResponsesInv, Types
<1>2. task' = [task EXCEPT ![k] = T]
  BY DEF Spawn
<1> HIDE DEF batch
<1>3. /\ T.pc = "fetch" /\ T.batch = batch /\ T.answers = [e \in asked |-> NoAnswer]
      /\ T.results = [t \in batch |-> Bad]
  BY DEF Request
<1> HIDE DEF T
<1>4. RequestOK(T)
  BY <1>1, <1>3 DEF RequestOK
<1>5. TaskOK(T)
  BY <1>3, <1>4 DEF TaskOK
<1> QED
  BY <1>2, <1>3, <1>5

HasAnswer(k, T) ==
  kind \notin ChainKinds =>
    T.pc = "fetch" /\ \E a \in ExchangeAnswers(task[k].batch) : T.answers[1] = a

(* A request that gets an answer is as it should be afterwards.            *)
LEMMA AnsweredTask ==
  ASSUME ResponsesInv, NEW k \in Workers, NEW e \in Endpoint, Answer(k, e)
  PROVE  \E T : task' = [task EXCEPT ![k] = T] /\ TaskOK(T) /\ HasAnswer(k, T)
<1> DEFINE old == task[k]
           overwritten(a) == [t \in old.batch |-> IF a.prices[t] = Bad THEN old.results[t] ELSE a.prices[t]]
           results(a) == IF kind = "uniswap" /\ a.status = "ok" THEN overwritten(a) ELSE old.results
           new(a) == Request("fetch", old.batch, [old.answers EXCEPT ![e] = a], results(a))
           given == IF kind \in ChainKinds THEN NodeAnswers(old.batch) ELSE ExchangeAnswers(old.batch)
<1>1. PICK a \in given : task' = [task EXCEPT ![k] = new(a)]
  BY DEF Answer
<1>2. Types /\ RequestOK(old) /\ e \in DOMAIN old.answers
  BY DEF ResponsesInv, TaskOK, Answer
<1>3. /\ AnswerOK(a, old.batch)
      /\ kind \in ChainKinds /\ a.status = "ok" =>
           \A t \in old.batch : a.prices[t] = Bad \/ a.prices[t] \in Priced
  BY <1>1, <1>2, AnswersAreOK
<1>4. /\ new(a).pc = "fetch" /\ new(a).batch = old.batch
      /\ new(a).answers = [old.answers EXCEPT ![e] = a] /\ new(a).results = results(a)
  BY DEF Request
<1>5. \A t \in old.batch : results(a)[t] = Bad \/ results(a)[t] \in Priced
  <2>1. \A t \in old.batch : old.results[t] = Bad \/ old.results[t] \in Priced
    BY <1>2 DEF RequestOK
  <2>2. kind = "uniswap" => kind \in ChainKinds
    BY DEF ChainKinds
  <2> QED
    BY <1>3, <2>1, <2>2
<1>6. PICK T : T = new(a)
  OBVIOUS
<1> HIDE DEF old, results, new, given
<1>7. RequestOK(T)
  BY <1>2, <1>3, <1>4, <1>5, <1>6 DEF RequestOK
<1>8. TaskOK(T) /\ T.pc = "fetch"
  BY <1>4, <1>6, <1>7 DEF TaskOK
<1>9. kind \notin ChainKinds => T.answers[1] = a /\ a \in ExchangeAnswers(task[k].batch)
  <2>1. kind \notin ChainKinds => DOMAIN old.answers = {1}
    BY <1>2 DEF RequestOK
  <2> QED
    BY <1>1, <1>2, <1>4, <1>6, <2>1 DEF given, old
<1> QED
  BY <1>1, <1>6, <1>8, <1>9 DEF HasAnswer

(* So is one whose answer's height is checked.                             *)
LEMMA CheckedTask ==
  ASSUME ResponsesInv, NEW k \in Workers, CheckHeight(k)
  PROVE  \E T : task' = [task EXCEPT ![k] = T] /\ TaskOK(T) /\ kind \in ChainKinds
<1> DEFINE old == task[k]
           new == Request("record", old.batch, old.answers, old.results)
<1>1. task' = [task EXCEPT ![k] = new] /\ kind \in ChainKinds
  BY DEF CheckHeight, IsNewHeight
<1>2. RequestOK(old) /\ \A e \in DOMAIN old.answers : old.answers[e] # NoAnswer
  BY DEF ResponsesInv, TaskOK, CheckHeight, Complete
<1>3. /\ new.pc = "record" /\ new.batch = old.batch /\ new.answers = old.answers
      /\ new.results = old.results
  BY DEF Request
<1> HIDE DEF old, new
<1>4. RequestOK(new)
  BY <1>2, <1>3 DEF RequestOK
<1>5. TaskOK(new)
  BY <1>1, <1>2, <1>3, <1>4 DEF TaskOK
<1> QED
  BY <1>1, <1>5

PassesOn(k, T) ==
  kind \in RESTKinds =>
    /\ T.pc = "send" /\ task[k].pc = "fetch" /\ task[k].answers[1] # NoAnswer
    /\ \A t \in DOMAIN T.response.resolved :
         /\ t \in DOMAIN task[k].answers[1].prices
         /\ task[k].answers[1].prices[t] # Bad
         /\ T.response.resolved[t] = task[k].answers[1].prices[t]

(* So is one that is done and about to send.                               *)
LEMMA RespondedTask ==
  ASSUME ResponsesInv, NEW k \in Workers, RecordHeight(k) \/ Finish(k)
  PROVE  \E T : task' = [task EXCEPT ![k] = T] /\ TaskOK(T) /\ PassesOn(k, T)
<1>1. PICK valid \in BOOLEAN : Respond(k, valid)
  <2>1. RecordHeight(k) => Respond(k, TRUE)
    BY DEF RecordHeight
  <2>2. Finish(k) => Respond(k, ~aged)
    BY DEF Finish
  <2> QED
    BY <2>1, <2>2
<1>2. Types /\ RequestOK(task[k]) /\ \A e \in DOMAIN task[k].answers : task[k].answers[e] # NoAnswer
  BY DEF ResponsesInv, TaskOK, RecordHeight, Finish, Complete
<1>3. PICK r : r = ResponseTo(task[k], valid)
  OBVIOUS
<1>4. PICK T : T = [pc |-> "send", response |-> r]
  OBVIOUS
<1>5. task' = [task EXCEPT ![k] = T]
  BY <1>1, <1>3, <1>4, RespondSends
<1>6. /\ ResponseOK(r)
      /\ kind \in RESTKinds => \A t \in DOMAIN r.resolved :
           /\ t \in DOMAIN task[k].answers[1].prices
           /\ task[k].answers[1].prices[t] # Bad
           /\ r.resolved[t] = task[k].answers[1].prices[t]
  BY <1>2, <1>3, ResponseFacts
<1>7. T.pc = "send" /\ T.response = r
  BY <1>4
<1>8. TaskOK(T)
  BY <1>6, <1>7 DEF TaskOK
<1>9. kind \in RESTKinds => task[k].pc = "fetch" /\ task[k].answers[1] # NoAnswer
  <2>1. kind \in RESTKinds => kind \notin ChainKinds
    BY DEF RESTKinds, ChainKinds
  <2>2. kind \in RESTKinds => DOMAIN task[k].answers = {1}
    BY <1>2, <2>1 DEF RequestOK
  <2>3. kind \in RESTKinds => task[k].pc # "record"
    BY <2>1 DEF ResponsesInv, TaskOK
  <2> QED
    BY <1>2, <2>2, <2>3 DEF RecordHeight, Finish, Complete
<1> QED
  <2>1. PassesOn(k, T)
    BY <1>6, <1>7, <1>9 DEF PassesOn
  <2> QED
    BY <1>5, <1>8, <2>1

(* A request that has written its response is idle again, and what it      *)
(* wrote is right.                                                         *)
LEMMA WrittenTask ==
  ASSUME ResponsesInv, NEW k \in Workers, WriteResponse(k)
  PROVE  /\ task' = [task EXCEPT ![k] = Idle] /\ TaskOK(Idle)
         /\ ResponseOK(task[k].response)
<1>1. TaskOK(Idle)
  BY DEF TaskOK, Idle
<1>2. ResponseOK(task[k].response)
  BY DEF ResponsesInv, TaskOK, WriteResponse
<1> QED
  BY <1>1, <1>2 DEF WriteResponse

(* So is one whose fetcher panicked.                                       *)
LEMMA RecoveredTask ==
  ASSUME NEW k \in Workers, Recover(k)
  PROVE  task' = [task EXCEPT ![k] = Idle] /\ TaskOK(Idle)
BY DEF TaskOK, Idle, Recover

(* Every step leaves every request as it should be.                        *)
LEMMA TasksStayOK ==
  ASSUME ResponsesInv, [Next]_vars
  PROVE  DOMAIN task' = Workers /\ \A j \in Workers : TaskOK(task[j])'
<1>1. CASE QuietStep
  <2>1. task' = task
    BY <1>1, QuietSteps
  <2>2. ASSUME NEW j \in Workers PROVE TaskOK(task[j])'
    <3>1. PICK U : U = task[j]
      OBVIOUS
    <3>2. Types /\ TaskOK(U)
      BY <3>1 DEF ResponsesInv
    <3>3. TaskOK(U)'
      BY <3>2, StaysOK
    <3>4. U = task'[j]
      BY <2>1, <3>1
    <3> QED
      BY <3>3, <3>4
  <2> QED
    BY <2>1, <2>2 DEF ResponsesInv, Types
<1>2. ASSUME NEW k \in Slots, Spawn(k)
      PROVE  \E T : task' = [task EXCEPT ![k] = T] /\ TaskOK(T)
  BY <1>2, SpawnedTask
<1>3. ASSUME NEW k \in Workers, NEW e \in Endpoint, Answer(k, e)
      PROVE  \E T : task' = [task EXCEPT ![k] = T] /\ TaskOK(T)
  <2>1. PICK T : task' = [task EXCEPT ![k] = T] /\ TaskOK(T)
    BY <1>3, AnsweredTask
  <2> QED
    BY <2>1
<1>4. ASSUME NEW k \in Workers, CheckHeight(k) \/ RecordHeight(k) \/ Finish(k) \/ Recover(k) \/ WriteResponse(k)
      PROVE  \E T : task' = [task EXCEPT ![k] = T] /\ TaskOK(T)
  <2>1. ASSUME CheckHeight(k) PROVE \E T : task' = [task EXCEPT ![k] = T] /\ TaskOK(T)
    <3>1. PICK T : task' = [task EXCEPT ![k] = T] /\ TaskOK(T)
      BY <2>1, CheckedTask
    <3> QED
      BY <3>1
  <2>2. ASSUME RecordHeight(k) \/ Finish(k) PROVE \E T : task' = [task EXCEPT ![k] = T] /\ TaskOK(T)
    <3>1. PICK T : task' = [task EXCEPT ![k] = T] /\ TaskOK(T)
      BY <2>2, RespondedTask
    <3> QED
      BY <3>1
  <2>3. ASSUME WriteResponse(k) PROVE \E T : task' = [task EXCEPT ![k] = T] /\ TaskOK(T)
    BY <2>3, WrittenTask
  <2>4. ASSUME Recover(k) PROVE \E T : task' = [task EXCEPT ![k] = T] /\ TaskOK(T)
    BY <2>4, RecoveredTask
  <2> QED
    BY <1>4, <2>1, <2>2, <2>3, <2>4
<1>5. ASSUME NEW k, \E T : task' = [task EXCEPT ![k] = T] /\ TaskOK(T)
      PROVE  DOMAIN task' = Workers /\ \A j \in Workers : TaskOK(task[j])'
  BY <1>5, OneTaskMoves
<1> QED
  BY <1>1, <1>2, <1>3, <1>4, <1>5, StepKinds

(* The channel gets the response of a goroutine, or loses its first one.   *)
LEMMA ChannelSteps ==
  ASSUME ResponsesInv, [Next]_vars
  PROVE  \/ responseCh' = responseCh
         \/ responseCh # <<>> /\ responseCh' = Tail(responseCh) /\ Recv
         \/ \E k \in Workers : WriteResponse(k) /\ responseCh' = Append(responseCh, task[k].response)
<1>1. ASSUME NEW k \in Workers, WriteResponse(k)
      PROVE  responseCh' = responseCh \/ responseCh' = Append(responseCh, task[k].response)
  BY <1>1 DEF WriteResponse
<1>2. Recv => responseCh # <<>> /\ responseCh' = Tail(responseCh)
  BY DEF Recv
<1>3. QuietStep => Recv \/ responseCh' = responseCh
  BY DEF QuietStep, CallQuery, Tick, StopTicks, Return, QueryStep, Cancel, Age, Stopped, TradeAt, vars
<1>4. ASSUME NEW k, Spawn(k) PROVE responseCh' = responseCh
  BY <1>4 DEF Spawn, QueryStep
<1>5. ASSUME NEW k, NEW e, Answer(k, e) PROVE responseCh' = responseCh
  BY <1>5 DEF Answer
<1>6. ASSUME NEW k, CheckHeight(k) \/ RecordHeight(k) \/ Finish(k) \/ Recover(k)
      PROVE  responseCh' = responseCh
  BY <1>6 DEF CheckHeight, RecordHeight, Finish, Recover
<1> QED
  BY <1>1, <1>2, <1>3, <1>4, <1>5, <1>6, StepKinds

(* Stored data changes by a receive only.                                  *)
LEMMA DataSteps ==
  ASSUME [Next]_vars
  PROVE  Recv \/ data' = data
<1>1. QuietStep => Recv \/ data' = data
  BY DEF QuietStep, CallQuery, Tick, StopTicks, Return, QueryStep, Cancel, Age, Stopped, TradeAt, vars
<1>2. ASSUME NEW k, Spawn(k) PROVE data' = data
  BY <1>2 DEF Spawn, QueryStep
<1>3. ASSUME NEW k, NEW e, Answer(k, e) PROVE data' = data
  BY <1>3 DEF Answer
<1>4. ASSUME NEW k, CheckHeight(k) \/ RecordHeight(k) \/ Finish(k) \/ Recover(k) \/ WriteResponse(k) PROVE data' = data
  BY <1>4 DEF CheckHeight, RecordHeight, Finish, Recover, WriteResponse
<1> QED
  BY <1>1, <1>2, <1>3, <1>4, StepKinds

(* Every step keeps the types.                                             *)
LEMMA TypesKept ==
  ASSUME ResponsesInv, [Next]_vars
  PROVE  Types'
<1>1. Types /\ kind \in Kinds /\ ids \in IDs
  BY DEF ResponsesInv, Types
<1>2. /\ kind' = kind /\ ids' = ids
      /\ market' \in [Ticker -> Nat \ {0}]
  BY <1>1, MarketGrows
<1>3. Tasks' = Tasks
  BY <1>2 DEF Tasks
<1>4. Len(Tasks) \in Nat \ {0}
  BY <1>1, TasksFacts
<1>5. index' \in 0..(Len(Tasks) - 1) /\ cache' \in SUBSET Ticker
  <2>1. CASE QuietStep
    <3>1. index' = index \/ index' = 0
      BY <2>1 DEF QuietStep, CallQuery, Tick, StopTicks, Return, QueryStep, Recv, Cancel, Age, Stopped,
                  TradeAt, vars
    <3>2. cache' = cache
      BY <2>1 DEF QuietStep, CallQuery, Tick, StopTicks, Return, QueryStep, Recv, Cancel, Age, Stopped,
                  TradeAt, vars
    <3> QED
      BY <1>1, <1>4, <3>1, <3>2 DEF Types
  <2>2. ASSUME NEW k, Spawn(k) PROVE index' \in 0..(Len(Tasks) - 1) /\ cache' \in SUBSET Ticker
    <3>1. index' = (index + 1) % Len(Tasks) /\ cache' = cache \cup Tasks[index + 1]
      BY <2>2 DEF Spawn
    <3>2. index + 1 \in 1..Len(Tasks)
      BY <1>1, <1>4 DEF Types
    <3>3. Tasks[index + 1] \in SUBSET Ticker
      BY <1>1, <3>2, TasksFacts
    <3> HIDE DEF Tasks
    <3>4. index' \in 0..(Len(Tasks) - 1)
      BY <1>4, <3>1, <3>2
    <3> QED
      BY <1>1, <3>1, <3>3, <3>4 DEF Types
  <2>3. ASSUME NEW k, NEW e, Answer(k, e) PROVE index' = index /\ cache' = cache
    BY <2>3 DEF Answer, TaskStep
  <2>4. ASSUME NEW k, CheckHeight(k) \/ RecordHeight(k) \/ Finish(k) \/ Recover(k) \/ WriteResponse(k)
        PROVE  index' = index /\ cache' = cache
    BY <2>4 DEF CheckHeight, RecordHeight, Finish, Recover, WriteResponse, TaskStep
  <2>5. index' = index /\ cache' = cache => index' \in 0..(Len(Tasks) - 1) /\ cache' \in SUBSET Ticker
    BY <1>1 DEF Types
  <2> QED
    BY <2>1, <2>2, <2>3, <2>4, <2>5, StepKinds
<1>6. responseCh' \in Seq(Response)
  <2>1. responseCh \in Seq(Response)
    BY <1>1 DEF Types
  <2>2. ASSUME NEW k \in Workers, WriteResponse(k) PROVE task[k].response \in Response
    BY <2>2, WrittenTask DEF ResponseOK
  <2>3. ASSUME NEW k \in Workers, WriteResponse(k), responseCh' = Append(responseCh, task[k].response)
        PROVE  responseCh' \in Seq(Response)
    <3>1. PICK r : r = task[k].response
      OBVIOUS
    <3>2. Append(responseCh, r) \in Seq(Response)
      BY <2>1, <2>2, <2>3, <3>1
    <3> QED
      BY <2>3, <3>1, <3>2
  <2>4. responseCh # <<>> => Tail(responseCh) \in Seq(Response)
    BY <2>1
  <2> QED
    BY <2>1, <2>3, <2>4, ChannelSteps
<1>7. data' \in [Ticker -> Priced \cup {NoData}]
  <2>1. CASE data' = data
    BY <1>1, <2>1 DEF Types
  <2>2. CASE Recv
    <3> DEFINE resolved == Head(responseCh).resolved
    <3>1. responseCh # <<>> /\ responseCh \in Seq(Response)
      BY <1>1, <2>2 DEF Recv, Types
    <3>2. Head(responseCh) \in Response
      BY <3>1
    <3>3. resolved \in Prices
      BY <3>2 DEF Response
    <3>4. data' = [t \in Ticker |-> IF InOrder /\ t \in DOMAIN resolved THEN resolved[t] ELSE data[t]]
      BY <2>2 DEF Recv
    <3> HIDE DEF resolved
    <3>5. \A t \in DOMAIN resolved : resolved[t] \in Priced
      BY <3>3 DEF Prices
    <3> QED
      BY <1>1, <3>4, <3>5 DEF Types
  <2> QED
    BY <2>1, <2>2, DataSteps
<1>8. DOMAIN task' = Workers
  BY TasksStayOK
<1> QED
  BY <1>1, <1>2, <1>3, <1>5, <1>6, <1>7, <1>8 DEF Types

(* Every step keeps the first invariant.                                   *)
LEMMA ResponsesNextInv ==
  ASSUME ResponsesInv, [Next]_vars
  PROVE  ResponsesInv'
<1>1. Types' /\ \A k \in Workers : TaskOK(task[k])'
  BY TypesKept, TasksStayOK
<1>2. ASSUME NEW i \in DOMAIN responseCh' PROVE ResponseOK(responseCh[i])'
  <2>1. responseCh \in Seq(Response) /\ \A j \in DOMAIN responseCh : ResponseOK(responseCh[j])
    BY DEF ResponsesInv, Types
  <2>2. PICK r : r = responseCh'[i]
    OBVIOUS
  <2>3. ResponseOK(r)
    <3>1. CASE responseCh' = responseCh
      BY <1>2, <2>1, <2>2, <3>1
    <3>2. CASE responseCh # <<>> /\ responseCh' = Tail(responseCh)
      <4>1. i + 1 \in DOMAIN responseCh /\ responseCh'[i] = responseCh[i + 1]
        BY <1>2, <2>1, <3>2
      <4> QED
        BY <2>1, <2>2, <4>1
    <3>3. ASSUME NEW k \in Workers, WriteResponse(k), responseCh' = Append(responseCh, task[k].response)
          PROVE  ResponseOK(r)
      <4>1. ResponseOK(task[k].response)
        BY <3>3, WrittenTask
      <4>2. PICK s : s = task[k].response
        OBVIOUS
      <4>3. r = s \/ \E j \in DOMAIN responseCh : r = responseCh[j]
        <5>1. responseCh' = Append(responseCh, s)
          BY <3>3, <4>2
        <5> QED
          BY <1>2, <2>1, <2>2, <5>1
      <4> QED
        BY <2>1, <4>1, <4>2, <4>3
    <3> QED
      BY <3>1, <3>2, <3>3, ChannelSteps
  <2>4. ResponseOK(r)'
    BY <2>3, StaysOK DEF ResponsesInv
  <2> QED
    BY <2>2, <2>4
<1> QED
  BY <1>1, <1>2 DEF ResponsesInv

(* The first invariant holds when a query starts.                          *)
LEMMA ResponsesInit == Init => ResponsesInv
<1> SUFFICES ASSUME Init PROVE ResponsesInv
  OBVIOUS
<1>1. Len(Tasks) \in Nat \ {0}
  BY TasksFacts DEF Init
<1>2. Types
  <2>1. index \in 0..(Len(Tasks) - 1)
    BY <1>1 DEF Init
  <2>2. /\ market \in [Ticker -> Nat \ {0}] /\ data \in [Ticker -> Priced \cup {NoData}]
        /\ responseCh \in Seq(Response) /\ DOMAIN task = Workers
    BY DEF Init
  <2> QED
    BY <2>1, <2>2 DEF Init, Types
<1>3. ASSUME NEW k \in Workers PROVE TaskOK(task[k])
  BY DEF Init, TaskOK, Idle
<1>4. DOMAIN responseCh = {}
  BY DEF Init
<1> QED
  BY <1>2, <1>3, <1>4 DEF ResponsesInv

(* What goroutines and the channel hold is, at any time: requests with the *)
(* right answers, and responses that are complete and of one source.       *)
THEOREM ResponsesInvariant == Spec => []ResponsesInv
<1>1. ResponsesInv /\ [Next]_vars => ResponsesInv'
  BY ResponsesNextInv
<1> QED
  BY <1>1, ResponsesInit, PTL DEF Spec

(* A response is right wherever it is on its way.                          *)
LEMMA ResponsesAreOK ==
  ASSUME ResponsesInv, NEW r \in Responses
  PROVE  ResponseOK(r)
<1>1. CASE r \in ToSet(responseCh)
  <2>1. PICK i \in DOMAIN responseCh : r = responseCh[i]
    BY <1>1 DEF ToSet
  <2> QED
    BY <2>1 DEF ResponsesInv
<1>2. CASE r \notin ToSet(responseCh)
  <2>1. PICK k \in Workers : task[k].pc = "send" /\ r = task[k].response
    BY <1>2 DEF Responses
  <2> QED
    BY <2>1 DEF ResponsesInv, TaskOK
<1> QED
  BY <1>1, <1>2

(* Every response accounts for the tickers that were asked for, whatever   *)
(* the exchange or the nodes answered.                                     *)
THEOREM EveryTickerAnsweredTheorem == Spec => []EveryTickerAnswered
<1>1. ResponsesInv => EveryTickerAnswered
  BY ResponsesAreOK DEF EveryTickerAnswered, ResponseOK, Answered
<1> QED
  BY <1>1, ResponsesInvariant, PTL

(* The prices of a chain are those of the node that is furthest ahead.     *)
THEOREM GreatestHeightWinsTheorem == Spec => []GreatestHeightWins
<1>1. ResponsesInv => GreatestHeightWins
  BY ResponsesAreOK DEF GreatestHeightWins, ResponseOK, OfGreatestHeight
<1> QED
  BY <1>1, ResponsesInvariant, PTL

-----------------------------------------------------------------------------
(* The data is a price feed.                                               *)
LEMMA FirstWorker ==
  ASSUME Types
  PROVE  /\ 1 \in Workers
         /\ InOrder => Slots = {1}
<1> DEFINE limits == {Config[k].maxQueries : k \in Kinds}
<1>1. kind \in Kinds /\ ids \in Seq(Ticker) /\ ids # <<>> /\ Len(ids) \in Nat /\ Len(ids) >= 1
  BY APIConstants DEF Types
<1>2. InOrder => Limit = 1
  <2>1. \A n \in Nat : n >= 1 => Minimum(1, n) = 1
    BY DEF Minimum
  <2>2. InOrder => Limit = Minimum(1, Len(ids))
    BY DEF InOrder, Limit
  <2> QED
    BY <1>1, <2>1, <2>2
<1>3. limits \in SUBSET (Nat \ {0}) /\ limits # {}
  BY <1>1, APIConstants
<1>4. \E n \in Nat : \A k \in Kinds : Config[k].maxQueries <= n
  <2> DEFINE q(k) == IF k \in Kinds THEN Config[k].maxQueries ELSE 0
             n == q("binance") + q("bitstamp") + q("coinbase") + q("coingecko") + q("coinmarketcap")
                    + q("geckoterminal") + q("kraken") + q("polymarket") + q("osmosis") + q("raydium")
                    + q("uniswap")
  <2>1. \A k : q(k) \in Nat
    BY APIConstants
  <2>2. \A k \in Kinds : q(k) = Config[k].maxQueries
    OBVIOUS
  <2> HIDE DEF q
  <2>3. /\ n \in Nat
        /\ \A k \in RESTKinds \cup ChainKinds : q(k) <= n
    BY <2>1 DEF RESTKinds, ChainKinds
  <2> HIDE DEF n
  <2>4. \A k \in Kinds : Config[k].maxQueries <= n
    BY <2>2, <2>3, APIConstants
  <2> QED
    BY <2>3, <2>4
<1>5. PICK n \in Nat : \A k \in Kinds : Config[k].maxQueries <= n
  BY <1>4
<1>6. \A x \in limits : x <= n
  BY <1>5
<1> HIDE DEF limits
<1>7. limits \in SUBSET (0..n)
  BY <1>3, <1>5, <1>6
<1>8. \E x \in limits : \A y \in limits : y <= x
  BY <1>3, <1>5, <1>7, GreatestExists
<1>9. \E x \in limits : \A y \in limits : x >= y
  <2>1. PICK x \in limits : \A y \in limits : y <= x
    BY <1>8
  <2> QED
    BY <1>3, <2>1
<1>10. Max(limits) \in limits
  BY <1>9 DEF Max
<1>11. 1 \in 1..Max(limits)
  <2>1. PICK m : m = Max(limits)
    OBVIOUS
  <2>2. m \in Nat \ {0}
    BY <1>3, <1>10, <2>1
  <2>3. 1 \in 1..m
    BY <2>2
  <2> QED
    BY <2>1, <2>3
<1>12. Workers = 1..Max(limits)
  BY DEF Workers, limits
<1> QED
  BY <1>2, <1>11, <1>12 DEF Slots

(* An exchange answers with the price its market has at the time.          *)
LEMMA FreshAnswers ==
  ASSUME NEW batch, NEW a \in ExchangeAnswers(batch),
         NEW t \in DOMAIN a.prices \cap Ticker, a.prices[t] # Bad
  PROVE  a.prices[t][2] = market[t]
<1>1. CASE a.prices = <<>>
  BY <1>1
<1>2. ASSUME NEW S \in SUBSET batch, NEW bad \in SUBSET batch,
             a.prices = [u \in S |-> IF u \in bad THEN Bad ELSE <<u, market[u]>>]
      PROVE  a.prices[t][2] = market[t]
  BY <1>2
<1>3. ASSUME a.prices = [u \in batch \cup {Unknown} |-> IF u = Unknown THEN <<u, 1>> ELSE <<u, market[u]>>]
      PROVE  a.prices[t][2] = market[t]
  <2>1. t # Unknown
    BY APIConstants
  <2> QED
    BY <1>3, <2>1
<1> QED
  BY <1>1, <1>2, <1>3 DEF ExchangeAnswers

(* Only exchanges are asked in order, and a fetcher does not change its    *)
(* kind.                                                                   *)
LEMMA InOrderKind ==
  /\ InOrder => kind \in RESTKinds /\ kind \notin ChainKinds
  /\ kind' = kind => InOrder' = InOrder
BY DEF InOrder, RESTKinds, ChainKinds

(* Who moves when an exchange is asked in order.                           *)
LEMMA OrderedSteps ==
  ASSUME ResponsesInv, OneAtATime, InOrder, [Next]_vars
  PROVE  \/ QuietStep \/ Spawn(1)
         \/ \E e \in Endpoint : Answer(1, e)
         \/ Finish(1) \/ Recover(1) \/ WriteResponse(1)
<1>1. \A k \in Workers : k # 1 => task[k].pc = "off"
  BY DEF OneAtATime
<1>2. 1 \in Workers /\ Slots = {1}
  BY FirstWorker DEF ResponsesInv
<1>3. kind \notin ChainKinds
  BY InOrderKind
<1>4. ASSUME NEW k \in Workers, NEW e, Answer(k, e) PROVE k = 1
  BY <1>1, <1>4 DEF Answer
<1>5. ASSUME NEW k \in Workers, CheckHeight(k) PROVE FALSE
  BY <1>3, <1>5 DEF CheckHeight, IsNewHeight
<1>6. ASSUME NEW k \in Workers, RecordHeight(k) PROVE FALSE
  BY <1>3, <1>6 DEF RecordHeight, ResponsesInv, TaskOK
<1>7. ASSUME NEW k \in Workers, Finish(k) \/ Recover(k) \/ WriteResponse(k) PROVE k = 1
  BY <1>1, <1>7 DEF Finish, Recover, Complete, WriteResponse
<1> QED
  BY <1>2, <1>4, <1>5, <1>6, <1>7, StepKinds

(* With a limit of one, no second goroutine starts.                        *)
LEMMA OnlyFirstWorks ==
  ASSUME ResponsesInv, OneAtATime, [Next]_vars
  PROVE  OneAtATime'
<1> SUFFICES ASSUME InOrder, NEW k \in Workers, k # 1
             PROVE  task'[k].pc = "off"
  BY MarketGrows, InOrderKind DEF OneAtATime, ResponsesInv, Workers
<1>1. DOMAIN task = Workers /\ task[k].pc = "off" /\ 1 \in Workers
  BY FirstWorker DEF OneAtATime, ResponsesInv, Types
<1>2. ASSUME NEW T, task' = [task EXCEPT ![1] = T] PROVE task'[k].pc = "off"
  BY <1>1, <1>2
<1>3. CASE QuietStep
  BY <1>1, <1>3, QuietSteps
<1>4. CASE Spawn(1)
  <2>1. PICK T : task' = [task EXCEPT ![1] = T]
    BY <1>4, SpawnedTask
  <2> QED
    BY <1>2, <2>1
<1>5. ASSUME NEW e \in Endpoint, Answer(1, e) PROVE task'[k].pc = "off"
  <2>1. PICK T : task' = [task EXCEPT ![1] = T]
    BY <1>1, <1>5, AnsweredTask
  <2> QED
    BY <1>2, <2>1
<1>6. CASE Finish(1)
  <2>1. PICK T : task' = [task EXCEPT ![1] = T]
    BY <1>1, <1>6, RespondedTask
  <2> QED
    BY <1>2, <2>1
<1>7. CASE WriteResponse(1)
  BY <1>1, <1>2, <1>7, WrittenTask
<1>8. CASE Recover(1)
  BY <1>1, <1>2, <1>8, RecoveredTask
<1> QED
  BY <1>3, <1>4, <1>5, <1>6, <1>7, <1>8, OrderedSteps

(* A price in hand is one that the ticker's market has had.                *)
LEMMA HeldFacts ==
  ASSUME ResponsesInv, InOrder, NEW t \in Ticker
  PROVE  Held(t) \in 1..market[t]
<1>1. 1 \in Workers /\ Types /\ TaskOK(task[1]) /\ kind \in RESTKinds /\ kind \notin ChainKinds
  BY FirstWorker, InOrderKind DEF ResponsesInv
<1>2. PICK T : T = task[1]
  OBVIOUS
<1>3. market[t] \in Nat \ {0}
  BY <1>1 DEF Types
<1>4. CASE T.pc = "fetch" /\ T.answers[1] # NoAnswer /\ t \in DOMAIN T.answers[1].prices
             /\ T.answers[1].prices[t] # Bad
  <2>1. RequestOK(T)
    BY <1>1, <1>2, <1>4 DEF TaskOK
  <2>2. ExchangeAnswerOK(T.answers[1])
    BY <1>1, <1>4, <2>1 DEF RequestOK, AnswerOK
  <2>3. T.answers[1].prices[t][2] \in 1..market[t]
    BY <1>4, <2>2 DEF ExchangeAnswerOK
  <2> QED
    BY <1>2, <1>4, <2>3 DEF Held
<1>5. CASE T.pc = "send" /\ t \in DOMAIN T.response.resolved
  <2>1. ResponseOK(T.response)
    BY <1>1, <1>2, <1>5 DEF TaskOK
  <2>2. T.response.resolved[t][2] \in Nat \ {0}
    BY <1>5, <2>1 DEF ResponseOK, Response, Prices, Priced
  <2>3. T.response.resolved[t][2] <= market[t]
    BY <1>1, <1>5, <2>1 DEF ResponseOK, OfItsMarket
  <2>4. Held(t) = T.response.resolved[t][2]
    BY <1>2, <1>5 DEF Held
  <2> QED
    BY <1>3, <2>2, <2>3, <2>4
<1>6. CASE ~(T.pc = "fetch" /\ T.answers[1] # NoAnswer /\ t \in DOMAIN T.answers[1].prices
             /\ T.answers[1].prices[t] # Bad)
           /\ ~(T.pc = "send" /\ t \in DOMAIN T.response.resolved)
  <2>1. Held(t) = market[t]
    BY <1>2, <1>6 DEF Held
  <2> QED
    BY <1>3, <2>1
<1> QED
  BY <1>4, <1>5, <1>6

(* The price in hand never gives way to an older one.                      *)
LEMMA HeldMoves ==
  ASSUME ResponsesInv, OneAtATime, InOrder, [Next]_vars, NEW t \in Ticker
  PROVE  Held(t)' \in Nat /\ Held(t) <= Held(t)'
<1>1. /\ 1 \in Workers /\ Types /\ TaskOK(task[1]) /\ DOMAIN task = Workers
      /\ kind \in RESTKinds /\ kind \notin ChainKinds
  BY FirstWorker, InOrderKind DEF ResponsesInv, Types
<1>2. /\ market[t] \in Nat /\ market'[t] \in Nat /\ market[t] <= market'[t]
      /\ Held(t) \in 1..market[t]
  BY <1>1, MarketGrows, HeldFacts DEF Types
<1>3. ASSUME task' = task PROVE Held(t)' \in Nat /\ Held(t) <= Held(t)'
  <2>1. Held(t)' = Held(t) \/ (Held(t)' = market'[t] /\ Held(t) = market[t])
    BY <1>3 DEF Held
  <2> QED
    BY <1>2, <2>1
<1>4. ASSUME Held(t)' = market'[t] PROVE Held(t)' \in Nat /\ Held(t) <= Held(t)'
  BY <1>2, <1>4
<1>5. CASE Spawn(1)
  <2>1. PICK T : /\ task' = [task EXCEPT ![1] = T] /\ TaskOK(T) /\ T.pc = "fetch"
                 /\ \A e \in DOMAIN T.answers : T.answers[e] = NoAnswer
    BY <1>5, SpawnedTask
  <2>2. DOMAIN T.answers = {1}
    BY <1>1, <2>1 DEF TaskOK, RequestOK
  <2>3. task'[1] = T /\ T.answers[1] = NoAnswer /\ T.pc # "send"
    BY <1>1, <2>1, <2>2
  <2>4. Held(t)' = market'[t]
    BY <2>3 DEF Held
  <2> QED
    BY <1>4, <2>4
<1>6. ASSUME NEW e \in Endpoint, Answer(1, e) PROVE Held(t)' \in Nat /\ Held(t) <= Held(t)'
  <2>1. PICK T : task' = [task EXCEPT ![1] = T] /\ HasAnswer(1, T)
    BY <1>1, <1>6, AnsweredTask
  <2>2. PICK a \in ExchangeAnswers(task[1].batch) : T.answers[1] = a
    BY <1>1, <2>1 DEF HasAnswer
  <2>3. task'[1] = T /\ T.pc = "fetch" /\ market' = market
    BY <1>1, <1>6, <2>1 DEF HasAnswer, Answer, TaskStep
  <2>4. t \in DOMAIN a.prices /\ a.prices[t] # Bad => a.prices[t][2] = market[t]
    BY <2>2, FreshAnswers
  <2>5. Held(t)' = market'[t]
    BY <2>2, <2>3, <2>4 DEF Held
  <2> QED
    BY <1>4, <2>5
<1>7. CASE Finish(1)
  <2>1. PICK T : task' = [task EXCEPT ![1] = T] /\ PassesOn(1, T)
    BY <1>1, <1>7, RespondedTask
  <2>2. /\ task'[1] = T /\ T.pc = "send" /\ task[1].pc = "fetch" /\ task[1].answers[1] # NoAnswer
        /\ \A u \in DOMAIN T.response.resolved :
             /\ u \in DOMAIN task[1].answers[1].prices
             /\ task[1].answers[1].prices[u] # Bad
             /\ T.response.resolved[u] = task[1].answers[1].prices[u]
    BY <1>1, <2>1 DEF PassesOn
  <2>3. t \in DOMAIN T.response.resolved => Held(t)' = Held(t)
    BY <2>2 DEF Held
  <2>4. t \notin DOMAIN T.response.resolved => Held(t)' = market'[t]
    BY <2>2 DEF Held
  <2> QED
    BY <1>2, <1>4, <2>3, <2>4
<1>8. CASE WriteResponse(1) \/ Recover(1)
  <2>1. task'[1] = Idle
    BY <1>1, <1>8, WrittenTask, RecoveredTask
  <2>2. Held(t)' = market'[t]
    BY <2>1 DEF Held, Idle
  <2> QED
    BY <1>4, <2>2
<1> QED
  BY <1>3, <1>5, <1>6, <1>7, <1>8, QuietSteps, OrderedSteps

(* The stored price of a ticker of an exchange.                            *)
LEMMA FeedFacts ==
  ASSUME NEW t \in Ticker, data[t] \in Priced \cup {NoData}, data[t] # NoData => data[t][1] = t
  PROVE  /\ FeedPrice[t] \in Nat
         /\ data[t] # NoData => FeedPrice[t] = data[t][2]
<1>1. data[t] # NoData => data[t][2] \in Nat
  BY DEF Priced
<1> QED
  BY <1>1 DEF FeedPrice

(* What recv stores of a ticker.                                           *)
LEMMA StoredPrice ==
  ASSUME ResponsesInv, InOrder, Recv, NEW t \in Ticker
  PROVE  \/ FeedPrice'[t] = FeedPrice[t]
         \/ /\ responseCh # <<>> /\ 1 \in DOMAIN responseCh
            /\ t \in DOMAIN responseCh[1].resolved
            /\ FeedPrice'[t] = responseCh[1].resolved[t][2]
<1> DEFINE resolved == responseCh[1].resolved
<1>1. responseCh \in Seq(Response) /\ responseCh # <<>> /\ kind \in RESTKinds
  BY InOrderKind DEF Recv, ResponsesInv, Types
<1>2. 1 \in DOMAIN responseCh /\ Head(responseCh) = responseCh[1]
  BY <1>1
<1>3. ResponseOK(responseCh[1])
  BY <1>2 DEF ResponsesInv
<1>4. data' = [u \in Ticker |-> IF u \in DOMAIN resolved THEN resolved[u] ELSE data[u]]
  BY <1>2 DEF Recv
<1>5. t \notin DOMAIN resolved => data'[t] = data[t]
  BY <1>4
<1>6. t \notin DOMAIN resolved => FeedPrice'[t] = FeedPrice[t]
  BY <1>5 DEF FeedPrice
<1>7. ASSUME t \in DOMAIN resolved PROVE FeedPrice'[t] = resolved[t][2]
  <2>1. resolved[t] \in Priced /\ resolved[t][1] = t
    BY <1>1, <1>3, <1>7 DEF ResponseOK, Response, Prices, OfItsMarket
  <2>2. data'[t] = resolved[t]
    BY <1>4, <1>7
  <2>3. data'[t] # NoData
    BY <2>1, <2>2 DEF Priced, NoData
  <2> HIDE DEF resolved
  <2> QED
    BY <2>1, <2>2, <2>3 DEF FeedPrice
<1> QED
  BY <1>1, <1>2, <1>6, <1>7

(* What a step does to the store and the channel at once.                  *)
LEMMA StoreSteps ==
  ASSUME ResponsesInv, [Next]_vars
  PROVE  \/ Recv /\ responseCh # <<>> /\ responseCh' = Tail(responseCh)
         \/ data' = data /\ responseCh' = responseCh
         \/ /\ data' = data
            /\ \E k \in Workers : WriteResponse(k) /\ responseCh' = Append(responseCh, task[k].response)
<1>1. Recv => responseCh # <<>> /\ responseCh' = Tail(responseCh)
  BY DEF Recv
<1> QED
  BY <1>1, DataSteps, ChannelSteps

(* The invariant for one ticker: with what is on its way in order, before  *)
(* and after a step.                                                       *)
LEMMA InPipelineNext ==
  ASSUME PipelineInv, [Next]_vars
  PROVE  InPipeline'
<1>1. ResponsesInv /\ OneAtATime /\ InPipeline /\ Types /\ responseCh \in Seq(Response)
  BY DEF PipelineInv, ResponsesInv, Types
<1>2. InOrder' = InOrder
  BY <1>1, MarketGrows, InOrderKind
<1> SUFFICES ASSUME InOrder, NEW t \in Ticker
             PROVE  /\ FeedPrice'[t] \in Nat /\ FeedPrice'[t] <= Held(t)'
                    /\ \A i \in DOMAIN responseCh' : t \in DOMAIN responseCh'[i].resolved =>
                         /\ FeedPrice'[t] <= responseCh'[i].resolved[t][2]
                         /\ responseCh'[i].resolved[t][2] <= Held(t)'
                         /\ \A j \in DOMAIN responseCh' : i <= j /\ t \in DOMAIN responseCh'[j].resolved =>
                              responseCh'[i].resolved[t][2] <= responseCh'[j].resolved[t][2]
  BY <1>2 DEF InPipeline
<1> DEFINE In(r) == t \in DOMAIN r.resolved
           Num(r) == r.resolved[t][2]
<1>3. /\ FeedPrice[t] \in Nat /\ FeedPrice[t] <= Held(t)
      /\ \A i \in DOMAIN responseCh : In(responseCh[i]) =>
           /\ FeedPrice[t] <= Num(responseCh[i])
           /\ Num(responseCh[i]) <= Held(t)
           /\ \A j \in DOMAIN responseCh : i <= j /\ In(responseCh[j]) =>
                Num(responseCh[i]) <= Num(responseCh[j])
  BY <1>1 DEF InPipeline
<1>4. \A r : ResponseOK(r) /\ In(r) => Num(r) \in Nat
  BY DEF ResponseOK, Response, Prices, Priced
<1>5. \A i \in DOMAIN responseCh : In(responseCh[i]) => Num(responseCh[i]) \in Nat
  BY <1>1, <1>4 DEF ResponsesInv
<1>6. Held(t) \in Nat /\ Held(t)' \in Nat /\ Held(t) <= Held(t)'
  BY <1>1, HeldFacts, HeldMoves DEF Types
<1>7. PICK h, g : h = Held(t) /\ g = Held(t)' /\ h \in Nat /\ g \in Nat /\ h <= g
  BY <1>6
<1>8. PICK f : f = FeedPrice'[t]
  OBVIOUS
<1>9. PICK c : c = responseCh'
  OBVIOUS
<1> SUFFICES /\ f \in Nat /\ f <= g
             /\ \A i \in DOMAIN c : In(c[i]) =>
                  /\ f <= Num(c[i]) /\ Num(c[i]) <= g
                  /\ \A j \in DOMAIN c : i <= j /\ In(c[j]) => Num(c[i]) <= Num(c[j])
  BY <1>7, <1>8, <1>9
<1>10. CASE data' = data /\ responseCh' = responseCh
  <2>1. f = FeedPrice[t] /\ c = responseCh
    BY <1>8, <1>9, <1>10 DEF FeedPrice
  <2> HIDE DEF In, Num
  <2> QED
    BY <1>3, <1>5, <1>7, <2>1
<1>11. CASE Recv /\ responseCh # <<>> /\ responseCh' = Tail(responseCh)
  <2>1. \/ f = FeedPrice[t]
        \/ 1 \in DOMAIN responseCh /\ In(responseCh[1]) /\ f = Num(responseCh[1])
    BY <1>1, <1>8, <1>11, StoredPrice
  <2>2. \A i \in DOMAIN c : i \in Nat \ {0} /\ i + 1 \in DOMAIN responseCh /\ c[i] = responseCh[i + 1]
    BY <1>1, <1>9, <1>11
  <2> HIDE DEF In, Num
  <2>3. f \in Nat /\ f <= h /\ \A i \in DOMAIN c : In(c[i]) => f <= Num(c[i])
    <3>1. CASE f = FeedPrice[t]
      BY <1>3, <1>7, <2>2, <3>1
    <3>2. CASE 1 \in DOMAIN responseCh /\ In(responseCh[1]) /\ f = Num(responseCh[1])
      <4>1. ASSUME NEW i \in DOMAIN c, In(c[i]) PROVE f <= Num(c[i])
        <5>1. 1 <= i + 1 /\ i + 1 \in DOMAIN responseCh /\ c[i] = responseCh[i + 1]
          BY <2>2
        <5> QED
          BY <1>3, <3>2, <4>1, <5>1
      <4> QED
        BY <1>3, <1>5, <1>7, <3>2, <4>1
    <3> QED
      BY <2>1, <3>1, <3>2
  <2>4. ASSUME NEW i \in DOMAIN c, In(c[i])
        PROVE  /\ Num(c[i]) \in Nat /\ Num(c[i]) <= h
               /\ \A j \in DOMAIN c : i <= j /\ In(c[j]) => Num(c[i]) <= Num(c[j])
    <3>1. i + 1 \in DOMAIN responseCh /\ c[i] = responseCh[i + 1] /\ i \in Nat
      BY <2>2
    <3>2. ASSUME NEW j \in DOMAIN c, i <= j, In(c[j]) PROVE Num(c[i]) <= Num(c[j])
      <4>1. j + 1 \in DOMAIN responseCh /\ c[j] = responseCh[j + 1] /\ i + 1 <= j + 1
        BY <2>2, <3>1, <3>2
      <4> QED
        BY <1>3, <2>4, <3>1, <3>2, <4>1
    <3> QED
      BY <1>3, <1>5, <1>7, <2>4, <3>1, <3>2
  <2> QED
    BY <1>7, <2>3, <2>4
<1>12. ASSUME data' = data, NEW k \in Workers, WriteResponse(k),
              responseCh' = Append(responseCh, task[k].response)
       PROVE  /\ f \in Nat /\ f <= g
              /\ \A i \in DOMAIN c : In(c[i]) =>
                   /\ f <= Num(c[i]) /\ Num(c[i]) <= g
                   /\ \A j \in DOMAIN c : i <= j /\ In(c[j]) => Num(c[i]) <= Num(c[j])
  <2>1. k = 1 /\ task[1].pc = "send"
    BY <1>1, <1>12 DEF WriteResponse, OneAtATime
  <2>2. PICK r : r = task[1].response
    OBVIOUS
  <2>3. In(r) => Num(r) = h
    BY <1>7, <2>1, <2>2 DEF Held
  <2>4. f = FeedPrice[t] /\ c = Append(responseCh, r)
    BY <1>8, <1>9, <1>12, <2>1, <2>2 DEF FeedPrice
  <2>5. DOMAIN responseCh = 1..Len(responseCh) /\ Len(responseCh) \in Nat /\ DOMAIN c = 1..(Len(responseCh) + 1)
        /\ (\A i \in DOMAIN responseCh : c[i] = responseCh[i]) /\ c[Len(responseCh) + 1] = r
    BY <1>1, <2>4
  <2> HIDE DEF In, Num
  <2>6. ASSUME NEW i \in DOMAIN c, In(c[i])
        PROVE  /\ Num(c[i]) \in Nat /\ f <= Num(c[i]) /\ Num(c[i]) <= h
               /\ \A j \in DOMAIN c : i <= j /\ In(c[j]) => Num(c[i]) <= Num(c[j])
    <3>1. CASE i = Len(responseCh) + 1
      <4>1. c[i] = r /\ Num(c[i]) = h
        BY <2>3, <2>5, <2>6, <3>1
      <4>2. \A j \in DOMAIN c : i <= j => j = i
        BY <2>5, <3>1
      <4> QED
        BY <1>3, <1>7, <2>4, <4>1, <4>2
    <3>2. CASE i # Len(responseCh) + 1
      <4>1. i \in DOMAIN responseCh /\ c[i] = responseCh[i]
        BY <2>5, <3>2
      <4>2. ASSUME NEW j \in DOMAIN c, i <= j, In(c[j]) PROVE Num(c[i]) <= Num(c[j])
        <5>1. CASE j = Len(responseCh) + 1
          BY <1>3, <1>7, <2>3, <2>5, <2>6, <4>1, <4>2, <5>1
        <5>2. CASE j # Len(responseCh) + 1
          <6>1. j \in DOMAIN responseCh /\ c[j] = responseCh[j]
            BY <2>5, <5>2
          <6> QED
            BY <1>3, <2>6, <4>1, <4>2, <6>1
        <5> QED
          BY <5>1, <5>2
      <4> QED
        BY <1>3, <1>5, <1>7, <2>4, <2>6, <4>1, <4>2
    <3> QED
      BY <3>1, <3>2
  <2> QED
    BY <1>3, <1>7, <2>4, <2>6
<1> QED
  BY <1>1, <1>10, <1>11, <1>12, StoreSteps

(* The second invariant holds when a query starts.                         *)
LEMMA PipelineInit == Init => PipelineInv
<1> SUFFICES ASSUME Init PROVE PipelineInv
  OBVIOUS
<1>1. ResponsesInv
  BY ResponsesInit
<1>2. OneAtATime
  BY DEF Init, OneAtATime, Idle
<1>3. ASSUME NEW t \in Ticker PROVE FeedPrice[t] = 0 /\ Held(t) = 1
  <2>1. 1 \in Workers
    BY <1>1, FirstWorker DEF ResponsesInv
  <2>2. task[1] = Idle /\ market[t] = 1
    BY <2>1 DEF Init
  <2>3. FeedPrice[t] = 0
    BY DEF Init, FeedPrice
  <2> QED
    BY <2>2, <2>3 DEF Held, Idle
<1>4. DOMAIN responseCh = {}
  BY DEF Init
<1>5. InPipeline
  BY <1>3, <1>4 DEF InPipeline
<1> QED
  BY <1>1, <1>2, <1>5 DEF PipelineInv

(* Every step keeps the second invariant.                                  *)
LEMMA PipelineNext ==
  ASSUME PipelineInv, [Next]_vars
  PROVE  PipelineInv'
<1>1. ResponsesInv'
  BY ResponsesNextInv DEF PipelineInv
<1>2. OneAtATime'
  BY OnlyFirstWorks DEF PipelineInv
<1>3. InPipeline'
  BY InPipelineNext
<1> QED
  BY <1>1, <1>2, <1>3 DEF PipelineInv

(* With one request at a time, the prices of a ticker that are asked for,  *)
(* on their way and stored are in the order of its market (Query and       *)
(* recv).                                                                  *)
THEOREM PipelineInvariant == Spec => []PipelineInv
<1>1. PipelineInv /\ [Next]_vars => PipelineInv'
  BY PipelineNext
<1> QED
  BY <1>1, PipelineInit, PTL DEF Spec

(* A trade is one of the feed's, and recv's update of the data is its      *)
(* store; every other step leaves the feed alone.                          *)
LEMMA TradesAreFeeds ==
  ASSUME Types, NEW t \in Ticker, TradeAt(t)
  PROVE  Feed!Trade
<1> DEFINE S == IF kind \in ChainKinds THEN Ticker ELSE {t}
<1>1. market \in [Ticker -> Nat \ {0}]
  BY DEF Types
<1>2. market' = [u \in Ticker |-> IF u \in S THEN market[u] + 1 ELSE market[u]]
  BY <1>1 DEF TradeAt
<1>3. S \in SUBSET Ticker
  OBVIOUS
<1>4. FeedPrice' = FeedPrice
  BY DEF TradeAt, FeedPrice
<1> QED
  BY <1>2, <1>3, <1>4 DEF Feed!Trade

(* A receive stores prices as the abstract feed does.                      *)
LEMMA RecvIsStore ==
  ASSUME PipelineInv, InOrder, Recv
  PROVE  Feed!Store
<1>1. ResponsesInv /\ InPipeline /\ Types
  BY DEF PipelineInv, ResponsesInv
<1>2. market' = market
  BY DEF Recv
<1>3. DOMAIN FeedPrice' = Ticker
  BY DEF FeedPrice
<1>4. ASSUME NEW t \in Ticker PROVE FeedPrice'[t] \in FeedPrice[t]..market[t]
  <2>1. /\ Held(t) \in 1..market[t] /\ market[t] \in Nat
        /\ FeedPrice[t] \in Nat /\ FeedPrice[t] <= Held(t)
    BY <1>1, HeldFacts DEF InPipeline, Types
  <2>2. CASE FeedPrice'[t] = FeedPrice[t]
    BY <2>1, <2>2
  <2>3. CASE /\ 1 \in DOMAIN responseCh /\ t \in DOMAIN responseCh[1].resolved
             /\ FeedPrice'[t] = responseCh[1].resolved[t][2]
    <3>1. PICK n : n = responseCh[1].resolved[t][2]
      OBVIOUS
    <3>2. ResponseOK(responseCh[1])
      BY <1>1, <2>3 DEF ResponsesInv
    <3>3. n \in Nat
      BY <2>3, <3>1, <3>2 DEF ResponseOK, Response, Prices, Priced
    <3>4. FeedPrice[t] <= n /\ n <= Held(t)
      BY <1>1, <2>3, <3>1 DEF InPipeline
    <3> QED
      BY <2>1, <2>3, <3>1, <3>3, <3>4
  <2> QED
    BY <1>1, <2>2, <2>3, StoredPrice
<1> QED
  BY <1>2, <1>3, <1>4 DEF Feed!Store

(* Whatever the configuration and the interleaving of Query, its requests  *)
(* and recv, the provider's data is a price feed.                          *)
THEOREM APIQueryImplementsPriceFeed == Spec => ImplementsPriceFeed
<1>1. Init => Feed!FeedInit
  <2> SUFFICES ASSUME Init PROVE Feed!FeedInit
    OBVIOUS
  <2>1. FeedPrice = [t \in Ticker |-> 0]
    BY DEF Init, FeedPrice
  <2> QED
    BY <2>1 DEF Init, Feed!FeedInit
<1>2. PipelineInv /\ [Next]_vars => [Feed!FeedNext]_(Feed!feedVars)
  <2> SUFFICES ASSUME PipelineInv, [Next]_vars
               PROVE  Feed!FeedNext \/ UNCHANGED <<market, FeedPrice>>
    BY DEF Feed!feedVars
  <2>1. ResponsesInv /\ Types
    BY DEF PipelineInv, ResponsesInv
  <2>2. market' = market \/ \E t \in Ticker : TradeAt(t)
    BY DEF Next, vars, QueryNext, CallQuery, Tick, StopTicks, Return, Spawn, QueryStep, Recv, Cancel,
           Age, Stopped, TaskNext, Answer, CheckHeight, RecordHeight, Finish, Recover, WriteResponse, TaskStep
  <2>3. CASE \E t \in Ticker : TradeAt(t)
    BY <2>1, <2>3, TradesAreFeeds DEF Feed!FeedNext
  <2>4. CASE Recv /\ InOrder
    BY <2>4, RecvIsStore DEF Feed!FeedNext
  <2>5. CASE Recv /\ ~InOrder
    <3>1. data \in [Ticker -> Priced \cup {NoData}]
      BY <2>1 DEF Types
    <3>2. data' = data /\ market' = market
      BY <2>5, <3>1 DEF Recv
    <3> QED
      BY <3>2 DEF FeedPrice
  <2>6. CASE data' = data /\ market' = market
    BY <2>6 DEF FeedPrice
  <2> QED
    BY <2>1, <2>2, <2>3, <2>4, <2>5, <2>6, DataSteps
<1> QED
  BY <1>1, <1>2, PipelineInvariant, PTL DEF Spec, ImplementsPriceFeed, Feed!FeedSpec
=============================================================================
