------------------------------ MODULE APIQuery ------------------------------
(***************************************************************************)
(* The query loop of an API provider: Query of the API query handler, with *)
(* a goroutine for every request, bounded by an errgroup, the fetcher that *)
(* asks one exchange or several nodes of a chain, and the provider's recv  *)
(* that stores the responses. Query is called by startAPI.                 *)
(*                                                                         *)
(* Exchanges and nodes are external: a request gets an answer that is      *)
(* complete or not, of the time it was made, or fails; a node may be       *)
(* behind the others.                                                      *)
(***************************************************************************)
EXTENDS APIExchanges

CONSTANTS
  Ticker,
  Kinds,       \* the fetchers to look at
  IDs,         \* the lists of tickers a provider may be given
  Config,      \* kind -> MaxQueries, BatchSize, Atomic of its APIConfig
  Endpoint,    \* the endpoints of a chain's client, 1..n
  BufferSize,  \* capacity of the response channel
  MaxPrices    \* bound: prices of a ticker, or blocks

ASSUME APIConstants ==
  /\ Kinds \subseteq RESTKinds \cup ChainKinds /\ IDs \subseteq Seq(Ticker) \ {<<>>}
  /\ \A k \in Kinds : /\ Config[k].maxQueries \in Nat \ {0} /\ Config[k].batchSize \in Nat
                      /\ Config[k].atomic => Config[k].batchSize = 0
  /\ IsFiniteSet(Endpoint) /\ Endpoint = 1..Cardinality(Endpoint) /\ Endpoint # {}
  /\ Unknown \notin Ticker

VARIABLES
  kind, ids,     \* the fetcher, and the provider's tickers
  ctxDone,       \* the fetch context
  pc,            \* where startAPI and Query are
  index,         \* the next task, modulo the number of tasks
  spawned,       \* the tasks started for this tick
  task,          \* the goroutines of the errgroup
  cache,         \* the tickers of the handler's cache
  lastHeight, aged,  \* BlockAgeChecker: its height, and whether it is too old
  responseCh,
  data,          \* ticker -> the stored price
  market         \* ticker -> the number of its latest price

vars == <<kind, ids, ctxDone, pc, index, spawned, task, cache, lastHeight, aged,
          responseCh, data, market>>

Minimum(a, b) == IF a < b THEN a ELSE b

(* One task for all tickers, or one for every batch.                       *)
Tasks ==
  LET size == IF Config[kind].batchSize > 0 THEN Config[kind].batchSize ELSE 1
  IN  IF Config[kind].atomic THEN <<ToSet(ids)>>
      ELSE [i \in 1..((Len(ids) + size - 1) \div size) |->
              ToSet(SubSeq(ids, (i - 1) * size + 1, Minimum(Len(ids), i * size)))]

(* Faulty variant: MaxQueries is not looked at.                            *)
LimitOfIDs == Len(ids)

(* The limit of the errgroup, and the tasks of a tick.                     *)
Limit == Minimum(Config[kind].maxQueries, Len(ids))
PerTick == IF Config[kind].atomic THEN Limit ELSE Minimum(Limit, Len(Tasks))

(* Room for the goroutines of any kind; Limit of them are used.            *)
Workers == 1..Max({Config[k].maxQueries : k \in Kinds})
Slots == 1..Limit
Idle == [pc |-> "off"]
Request(step, batch, answers, results) ==
  [pc |-> step, batch |-> batch, answers |-> answers, results |-> results]
NoAnswer == [height |-> -1]
NoData == <<>>

-----------------------------------------------------------------------------
(* startAPI and Query.                                                     *)
QueryStep == UNCHANGED <<kind, ids, ctxDone, lastHeight, aged, responseCh, data, market>>

CallQuery ==
  /\ pc = "idle"
  /\ pc' = IF ctxDone THEN "stopped" ELSE "select"
  /\ index' = 0
  /\ QueryStep /\ UNCHANGED <<spawned, task, cache>>

(* Faulty variant: every tick starts with the first task.                  *)
TickFromFirst ==
  /\ pc = "select"
  /\ pc' = "spawn" /\ spawned' = 0 /\ index' = 0
  /\ QueryStep /\ UNCHANGED <<task, cache>>

(* A tick, also if the context is done as well.                            *)
Tick ==
  /\ pc = "select"
  /\ pc' = "spawn" /\ spawned' = 0
  /\ QueryStep /\ UNCHANGED <<index, task, cache>>

(* wg.Go blocks until the errgroup has room. The goroutine's fetcher adds  *)
(* the tickers to its cache and asks.                                      *)
Spawn(k) ==
  /\ pc = "spawn" /\ task[k].pc = "off" /\ \A j \in Slots : task[j].pc = "off" => k <= j
  /\ LET batch == Tasks[index + 1]
         asked == IF kind \in ChainKinds THEN Endpoint ELSE {1}
     IN  /\ task' = [task EXCEPT ![k] =
              Request("fetch", batch, [e \in asked |-> NoAnswer], [t \in batch |-> Bad])]
         /\ cache' = cache \cup batch
  /\ index' = (index + 1) % Len(Tasks)
  /\ spawned' = IF spawned + 1 = PerTick THEN 0 ELSE spawned + 1
  /\ pc' = IF spawned + 1 = PerTick THEN "select" ELSE "spawn"
  /\ QueryStep

StopTicks ==
  /\ pc = "select" /\ ctxDone
  /\ pc' = "wait"
  /\ QueryStep /\ UNCHANGED <<index, spawned, task, cache>>

(* wg.Wait.                                                                *)
Return ==
  /\ pc = "wait" /\ \A k \in Workers : task[k].pc = "off"
  /\ pc' = "idle"
  /\ QueryStep /\ UNCHANGED <<index, spawned, task, cache>>

-----------------------------------------------------------------------------
(* The answers. An exchange has prices or errors for some of the tickers,  *)
(* and maybe for others, or decodes to something empty.                    *)
TaskStep == UNCHANGED <<kind, ids, ctxDone, pc, index, spawned, cache, market>>

ExchangeAnswers(batch) ==
  {[height |-> 0, status |-> s, prices |-> <<>>] : s \in {"failed", "limited", "refused", "malformed", "error", "empty"}}
    \cup {[height |-> 0, status |-> "ok", prices |-> [t \in S |-> IF t \in bad THEN Bad ELSE <<t, market[t]>>]] :
            S \in SUBSET batch, bad \in SUBSET batch}
    \cup {[height |-> 0, status |-> "ok",
           prices |-> [t \in batch \cup {Unknown} |-> IF t = Unknown THEN <<t, 1>> ELSE <<t, market[t]>>]]}

(* The number of a price of a chain is its height. A node is at the tip,   *)
(* or one block behind; one of its results may be an error. It may answer  *)
(* without telling its height; not so on Raydium.                          *)
Tip == market[CHOOSE t \in Ticker : TRUE]
NodeAnswers(batch) ==
  {[height |-> 0, status |-> "failed", prices |-> <<>>]}
    \cup {[height |-> IF told THEN h ELSE 0, status |-> "ok",
           prices |-> [t \in batch |-> IF t \in bad THEN Bad ELSE <<t, h>>]] :
            h \in {Tip - 1, Tip} \ {0}, told \in {TRUE, kind = "raydium"},
            bad \in {b \in SUBSET batch : Cardinality(b) <= 1}}

(* An answer arrives. Where the results of the endpoints share their       *)
(* place, it overwrites the ones before.                                   *)
Answer(k, e) ==
  /\ task[k].pc = "fetch" /\ e \in DOMAIN task[k].answers /\ task[k].answers[e] = NoAnswer
  /\ LET T == task[k]
         overwritten(a) == [t \in T.batch |-> IF a.prices[t] = Bad THEN T.results[t] ELSE a.prices[t]]
     IN  \E a \in IF kind \in ChainKinds THEN NodeAnswers(T.batch) ELSE ExchangeAnswers(T.batch) :
           task' = [task EXCEPT ![k] =
             Request("fetch", T.batch, [T.answers EXCEPT ![e] = a],
                     IF kind = "uniswap" /\ a.status = "ok" THEN overwritten(a) ELSE T.results)]
  /\ TaskStep /\ UNCHANGED <<responseCh, data, lastHeight, aged>>

(* The fetch is complete. A client that picks an answer checks its height  *)
(* first: whether it is new is decided and remembered without a lock, so   *)
(* another request may come in between.                                    *)
Complete(k) ==
  /\ task[k].pc = "fetch"
  /\ \A e \in DOMAIN task[k].answers : task[k].answers[e] # NoAnswer
IsNewHeight(k) ==
  /\ kind \in ChainKinds
  /\ MaxHeight(task[k].answers) > lastHeight

CheckHeight(k) ==
  /\ Complete(k) /\ IsNewHeight(k)
  /\ LET T == task[k]
     IN  task' = [task EXCEPT ![k] = Request("record", T.batch, T.answers, T.results)]
  /\ TaskStep /\ UNCHANGED <<responseCh, data, lastHeight, aged>>

(* The result is turned into a response. All nodes of Raydium at slot 0    *)
(* would make the fetcher panic and end the goroutine: no node reports     *)
(* that.                                                                   *)
Respond(k, valid) ==
  LET T == task[k]
      res == CASE kind = "osmosis" -> FetchOsmosis(T.batch, T.answers, valid)
               [] kind = "raydium" -> FetchRaydium(T.batch, T.answers, valid)
               [] kind = "uniswap" -> FetchUniswap(T.batch, T.answers, T.results, valid)
               [] OTHER -> FetchREST(kind, cache, T.batch, T.answers[1])
  IN  task' = [task EXCEPT ![k] =
        [pc |-> "send",
         response |-> [batch |-> T.batch, resolved |-> res.resolved, unresolved |-> res.unresolved,
                       height |-> MaxHeight(T.answers)]]]

RecordHeight(k) ==
  /\ task[k].pc = "record"
  /\ lastHeight' = MaxHeight(task[k].answers) /\ aged' = FALSE
  /\ Respond(k, TRUE)
  /\ TaskStep /\ UNCHANGED <<responseCh, data>>

Panics(k) == ParsePanics(kind, task[k].answers[1])

Finish(k) ==
  /\ Complete(k) /\ ~IsNewHeight(k) /\ ~Panics(k)
  /\ Respond(k, ~aged)
  /\ TaskStep /\ UNCHANGED <<responseCh, data, lastHeight, aged>>

(* The sub-task recovers from a panic of the fetcher, and sends nothing.   *)
Recover(k) ==
  /\ Complete(k) /\ Panics(k)
  /\ task' = [task EXCEPT ![k] = Idle]
  /\ TaskStep /\ UNCHANGED <<responseCh, data, lastHeight, aged>>

(* Faulty variant: the response is sent whatever happens.                  *)
WriteResponseAlways(k) ==
  /\ task[k].pc = "send" /\ Len(responseCh) < BufferSize
  /\ responseCh' = Append(responseCh, task[k].response)
  /\ task' = [task EXCEPT ![k] = Idle]
  /\ TaskStep /\ UNCHANGED <<data, lastHeight, aged>>

(* writeResponse: the response is sent or the context is done.             *)
WriteResponse(k) ==
  /\ task[k].pc = "send"
  /\ \/ ctxDone /\ UNCHANGED responseCh
     \/ Len(responseCh) < BufferSize /\ responseCh' = Append(responseCh, task[k].response)
  /\ task' = [task EXCEPT ![k] = Idle]
  /\ TaskStep /\ UNCHANGED <<data, lastHeight, aged>>

-----------------------------------------------------------------------------
(* The provider's recv and updateData. With one request at a time the      *)
(* responses are in the order of their timestamps, and each is stored.     *)
(* With more, one that another has overtaken is dropped: that is the       *)
(* subject of module OracleSidecar, and such data is not followed here.    *)
InOrder == kind \in RESTKinds /\ Config[kind].maxQueries = 1

Recv ==
  LET resolved == Head(responseCh).resolved
  IN  /\ responseCh # <<>>
      /\ data' = [t \in Ticker |-> IF InOrder /\ t \in DOMAIN resolved THEN resolved[t] ELSE data[t]]
      /\ responseCh' = Tail(responseCh)
      /\ UNCHANGED <<kind, ids, ctxDone, pc, index, spawned, task, cache, lastHeight, aged, market>>

Cancel ==
  /\ ~ctxDone
  /\ ctxDone' = TRUE
  /\ UNCHANGED <<kind, ids, pc, index, spawned, task, cache, lastHeight, aged, responseCh, data, market>>

(* A trade, or a block with the prices of all tickers.                     *)
TradeAt(t) ==
  /\ t \in ToSet(ids) /\ market[t] < MaxPrices
  /\ market' = IF kind \in ChainKinds THEN [u \in Ticker |-> market[u] + 1]
               ELSE [market EXCEPT ![t] = @ + 1]
  /\ UNCHANGED <<kind, ids, ctxDone, pc, index, spawned, task, cache, lastHeight, aged, responseCh, data>>

(* MaxBlockHeightAge passes without a new height.                          *)
Age ==
  /\ kind \in ChainKinds /\ ~aged
  /\ aged' = TRUE
  /\ UNCHANGED <<kind, ids, ctxDone, pc, index, spawned, task, cache, lastHeight, responseCh, data, market>>

-----------------------------------------------------------------------------
Init ==
  /\ kind \in Kinds /\ ids \in IDs
  /\ ctxDone = FALSE /\ pc = "idle" /\ index = 0 /\ spawned = 0
  /\ task = [k \in Workers |-> Idle]
  /\ cache = {} /\ lastHeight = 0 /\ aged = FALSE
  /\ responseCh = <<>>
  /\ data = [t \in Ticker |-> NoData]
  /\ market = [t \in Ticker |-> 1]

QueryNext == CallQuery \/ Tick \/ StopTicks \/ Return \/ \E k \in Slots : Spawn(k)

TaskNext(k) ==
  \/ \E e \in Endpoint : Answer(k, e)
  \/ CheckHeight(k) \/ RecordHeight(k) \/ Finish(k) \/ Recover(k) \/ WriteResponse(k)

Stopped == pc = "stopped" /\ UNCHANGED vars

Next ==
  \/ QueryNext \/ Recv \/ Cancel \/ Age \/ Stopped
  \/ \E k \in Workers : TaskNext(k)
  \/ \E t \in Ticker : TradeAt(t)

(* Go runs the goroutines; the ticker ticks; the provider receives as long *)
(* as its context is not done. A request is answered or fails: the others  *)
(* have timeouts, and of Uniswap's nodes, whose batch calls end with the   *)
(* fetch context alone, it is assumed. A select chooses at random among    *)
(* the cases that are ready, so a context that is done is not passed over  *)
(* forever.                                                                *)
Fairness ==
  /\ WF_vars(QueryNext) /\ SF_vars(StopTicks)
  /\ \A k \in Workers : WF_vars(TaskNext(k))
  /\ WF_vars(~ctxDone /\ Recv)

Spec == Init /\ [][Next]_vars /\ Fairness

-----------------------------------------------------------------------------
(* The stored data as the abstract feed sees it.                           *)
FeedPrice == [t \in Ticker |->
  CASE data[t] = NoData -> 0
    [] data[t] # NoData /\ data[t][1] = t -> data[t][2]
    [] OTHER -> -1]
Feed == INSTANCE PriceFeed WITH price <- FeedPrice

(* Every stored price of an exchange that is asked by one goroutine at a   *)
(* time is one of its own ticker's market, and replaced only by a later    *)
(* one, however Query, its request and the provider's recv overlap (Query, *)
(* writeResponse, recv). With more requests at a time, or nodes that lag   *)
(* behind, an older price may come later.                                  *)
ImplementsPriceFeed == Feed!FeedSpec

Responses == ToSet(responseCh) \cup {task[k].response : k \in {j \in Workers : task[j].pc = "send"}}

(* A response says of each ticker that was asked for whether it has a      *)
(* price or an error, and never both, whatever the exchange or the nodes   *)
(* answer (ParseResponse, Fetch); but for CoinMarketCap, whose handler     *)
(* says nothing of a ticker the answer leaves out. A parser that panics    *)
(* makes no response.                                                      *)
EveryTickerAnswered ==
  \A r \in Responses :
    /\ DOMAIN r.resolved \cap r.unresolved = {}
    /\ kind # "coinmarketcap" => r.batch \subseteq DOMAIN r.resolved \cup r.unresolved

(* No batch starves: every ticker is asked for again and again, although a *)
(* tick starts only as many requests as the errgroup allows (Query).       *)
InFlight(t) == \E k \in Workers : task[k].pc = "fetch" /\ t \in task[k].batch
EveryTickerAskedAgain == \A t \in Ticker : []<>(ctxDone \/ t \notin ToSet(ids) \/ InFlight(t))

(* "The handler must respect the context timeout" (APIQueryHandler): once  *)
(* the context is done Query returns, although requests are in flight and  *)
(* nobody receives responses any more.                                     *)
QueryReturns == ctxDone ~> pc = "stopped"

(* The prices of a response are those of the node with the greatest height *)
(* (filterAccountsResponses, filterSpotPriceResponses), whichever node     *)
(* answers first and however many fail or tell no height. Not so for       *)
(* Uniswap, although BatchCallContext promises it: the results of the      *)
(* endpoints share their place (FetchUniswap).                             *)
GreatestHeightWins ==
  kind \in {"osmosis", "raydium"} =>
    \A r \in Responses : r.height > 0 =>
      \A t \in DOMAIN r.resolved : r.resolved[t][2] = r.height
=============================================================================
