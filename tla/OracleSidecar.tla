--------------------------- MODULE OracleSidecar ---------------------------
(***************************************************************************)
(* The price loop of the oracle side-car: the data the base providers      *)
(* keep, the tick that collects it (fetchAllPrices), the index price       *)
(* aggregator, and the listener that applies new market maps while the     *)
(* loop runs. Provider models how a provider starts, stops and restarts    *)
(* its fetches; here a provider is its ids, the ids of its running fetch   *)
(* and whether it runs.                                                    *)
(*                                                                         *)
(* A price is what the properties tell apart: whether it is zero, positive *)
(* or infinite (an inverted zero), and the age of the provider prices it   *)
(* was made from. Decimals only scale a price and are left out, so         *)
(* indexPrices stands for scaledPrices too.                                *)
(***************************************************************************)
EXTENDS Integers, FiniteSets, FiniteSetsExt

CONSTANTS
  Provider,     \* names of the configured price providers
  Pair,         \* currency pairs
  OffChain,     \* off-chain tickers
  Json,         \* metadata of a provider config
  NoPair,       \* a config without NormalizeByPair
  NoMarket,     \* no market for the pair
  NoData,       \* no price
  MarketMaps,   \* the market maps the chain may serve: [Pair -> Market or NoMarket]
  Classes,      \* the classes of price the exchanges report
  MaxPriceAge,
  Depth,        \* the ticks to look back
  MaxDelay,     \* bound: how old a result is when recv applies it
  MaxTime       \* bound: the clock

Zero == 0  Positive == 1  Infinite == 2

Config == [name : Provider, off : OffChain, json : Json, norm : Pair \cup {NoPair}, invert : BOOLEAN]
Market == [enabled : BOOLEAN, min : 1 .. Cardinality(Provider), configs : SUBSET Config]
MarketMap == [Pair -> Market \cup {NoMarket}]
ProviderTicker == [off : OffChain, json : Json]
Time == 0 .. MaxTime
Price == [class : {Zero, Positive, Infinite}, ts : Time]
IndexPrice == [class : {Zero, Positive, Infinite}, direct : Time, oldest : Time]

ASSUME SidecarConstants ==
  /\ MarketMaps \subseteq MarketMap
  /\ \A mm \in MarketMaps, t \in Pair : mm[t] # NoMarket => IsFiniteSet(mm[t].configs)
  /\ NoPair \notin Pair /\ NoMarket \notin Market /\ NoData \notin Price
  /\ Classes \subseteq {Zero, Positive}
  /\ {MaxPriceAge, Depth, MaxDelay, MaxTime} \subseteq Nat

VARIABLES
  now,
  ids, fetchIDs,    \* of each provider, and of its running fetch
  started,          \* "stopped", "starting" or "running"
  data,             \* Provider.data
  marketMap, cfg,   \* the market maps of the oracle and of the aggregator
  newMap, mapper,   \* listenForMarketMapUpdates: its map, "idle", "checked" or "updating"
  loop, todo,       \* fetchAllPrices: where it is, the providers it has yet to read
  providerPrices, indexPrices,
  tickStart,        \* when the last tick began
  starts            \* when the tick that made indexPrices, and those before it, began

providerVars == <<ids, fetchIDs, started, data>>
mapVars == <<marketMap, cfg, newMap, mapper>>
loopVars == <<loop, todo, providerPrices, indexPrices, tickStart, starts>>
vars == <<now, providerVars, mapVars, loopVars>>

-----------------------------------------------------------------------------
(* Market.ValidateBasic: enough providers, no (provider, ticker) twice.    *)
MarketValid(m) ==
  /\ Cardinality(m.configs) >= m.min
  /\ \A c, d \in m.configs : c.name = d.name /\ c.off = d.off => c = d

Normalizable(c, enabled, mm) ==
  c.norm # NoPair => mm[c.norm] # NoMarket /\ (enabled => mm[c.norm].enabled)

MapValid(mm) ==
  \A t \in Pair : mm[t] # NoMarket =>
    MarketValid(mm[t]) /\ \A c \in mm[t].configs : Normalizable(c, mm[t].enabled, mm)

(* GetValidSubset, first pass: configs that cannot be normalized go.       *)
WithoutInvalidConfigs(mm) ==
  [t \in Pair |-> IF mm[t] = NoMarket THEN NoMarket
                  ELSE [enabled |-> mm[t].enabled, min |-> mm[t].min,
                        configs |-> {c \in mm[t].configs : Normalizable(c, mm[t].enabled, mm)}]]

(* Second pass: markets that are left invalid go.                          *)
ValidSubset(mm) ==
  LET pruned == WithoutInvalidConfigs(mm)
  IN  [t \in Pair |-> IF pruned[t] # NoMarket /\ MarketValid(pruned[t]) THEN pruned[t] ELSE NoMarket]

(* The configs of the enabled markets that name the provider, as tickers;  *)
(* an off-chain ticker that comes with different metadata is taken from    *)
(* the market the iteration over the map meets first.                      *)
TickersOf(p, mm) ==
  {[off |-> c.off, json |-> c.json] :
     c \in {c \in UNION {mm[t].configs : t \in {t \in Pair : mm[t] # NoMarket /\ mm[t].enabled}} : c.name = p}}

(* The sets with one of the tickers T for every off-chain ticker in T.     *)
OnePerOffChain(T) == {S \in SUBSET T : \A tk \in T : Cardinality({u \in S : u.off = tk.off}) = 1}

ProviderTickersFromMarketMap(p, mm) == OnePerOffChain(TickersOf(p, mm))

Assignments(mm) == {f \in [Provider -> SUBSET ProviderTicker] :
                      \A p \in Provider : f[p] \in ProviderTickersFromMarketMap(p, mm)}

-----------------------------------------------------------------------------
(* The providers' own goroutines.                                          *)

(* The goroutine of UpdateProviderState reaches Provider.Start, which      *)
(* returns at once without ids.                                            *)
StartProvider(p) ==
  /\ started[p] = "starting"
  /\ started' = [started EXCEPT ![p] = IF ids[p] = {} THEN "stopped" ELSE "running"]
  /\ fetchIDs' = [fetchIDs EXCEPT ![p] = ids[p]]
  /\ UNCHANGED <<now, ids, data, mapVars, loopVars>>

(* The fetch that Update cancelled ends and the next one begins.           *)
RestartFetch(p) ==
  /\ started[p] = "running" /\ fetchIDs[p] # ids[p]
  /\ fetchIDs' = [fetchIDs EXCEPT ![p] = ids[p]]
  /\ UNCHANGED <<now, ids, started, data, mapVars, loopVars>>

(* Faulty variant: a result replaces a later one.                          *)
UpdatedDataAnyOrder(current, result, unchanged) ==
  CASE current = NoData -> IF unchanged THEN NoData ELSE result
    [] current # NoData -> [class |-> IF unchanged THEN current.class ELSE result.class, ts |-> result.ts]

UpdatedData(current, result, unchanged) ==
  CASE current = NoData                               -> IF unchanged THEN NoData ELSE result
    [] current # NoData /\ result.ts < current.ts    -> current
    [] current # NoData /\ ~(result.ts < current.ts) ->
         [class |-> IF unchanged THEN current.class ELSE result.class, ts |-> result.ts]

(* recv applies a result; results of concurrent queries come in any order. *)
UpdateData(p) ==
  /\ started[p] = "running"
  /\ \E tk \in fetchIDs[p], class \in Classes, ts \in {t \in Time : t <= now /\ now - t <= MaxDelay},
        unchanged \in BOOLEAN :
       data' = [data EXCEPT ![p] = [data[p] EXCEPT ![tk] =
                  UpdatedData(data[p][tk], [class |-> class, ts |-> ts], unchanged)]]
  /\ UNCHANGED <<now, ids, fetchIDs, started, mapVars, loopVars>>

-----------------------------------------------------------------------------
(* The listener for market maps. o.mut is held by UpdateMarketMap while    *)
(* mapper is "updating" and by fetchAllPrices while loop is "fetch".       *)

(* IsMarketMapValidUpdated: the valid subset of a map that differs from the *)
(* oracle's, if what is left is a valid map.                               *)
CheckMarketMap(mm) ==
  LET subset == ValidSubset(mm)
  IN  /\ mapper = "idle" /\ mm # marketMap
      /\ MapValid(subset) /\ subset # marketMap
      /\ newMap' = subset /\ mapper' = "checked"
      /\ UNCHANGED <<now, marketMap, cfg, providerVars, loopVars>>

(* UpdateProviderState: Stop does nothing to a provider that has not yet   *)
(* reached Start.                                                          *)
StateAfter(state, tickers) ==
  CASE tickers = {} -> IF state = "running" THEN "stopped" ELSE state
    [] tickers # {} -> IF state = "running" THEN state ELSE "starting"

(* UpdateMarketMap gives every provider its tickers...                     *)
UpdateProviders ==
  /\ mapper = "checked" /\ loop # "fetch"
  /\ mapper' = "updating"
  /\ ids' \in Assignments(newMap)
  /\ started' = [p \in Provider |-> StateAfter(started[p], ids'[p])]
  /\ UNCHANGED <<now, fetchIDs, data, marketMap, cfg, newMap, loopVars>>

(* Faulty variant: the aggregator keeps its market map.                    *)
UpdateMarketMapOfOracle ==
  /\ mapper = "updating"
  /\ mapper' = "idle" /\ marketMap' = newMap
  /\ UNCHANGED <<now, cfg, newMap, providerVars, loopVars>>

(* ... and then itself and the aggregator the map.                         *)
UpdateMarketMap ==
  /\ mapper = "updating"
  /\ mapper' = "idle" /\ marketMap' = newMap /\ cfg' = newMap
  /\ UNCHANGED <<now, newMap, providerVars, loopVars>>

-----------------------------------------------------------------------------
(* fetchAllPrices.                                                         *)
NoPrices == [p \in Provider |-> [o \in OffChain |-> NoData]]

Reset == providerPrices' = NoPrices

BeginTick ==
  /\ loop = "idle"
  /\ Reset
  /\ loop' = "begun" /\ tickStart' = now
  /\ UNCHANGED <<now, todo, indexPrices, starts, providerVars, mapVars>>

LockForFetch ==
  /\ loop = "begun" /\ mapper # "updating"
  /\ loop' = "fetch" /\ todo' = Provider
  /\ UNCHANGED <<now, providerPrices, indexPrices, tickStart, starts, providerVars, mapVars>>

(* Faulty variant: one unit of time too old is let through.                *)
FreshTooOld(price) == price # NoData /\ now - price.ts <= MaxPriceAge + 1

Fresh(price) == price # NoData /\ now - price.ts <= MaxPriceAge

FreshTickers(p) == {tk \in ProviderTicker : Fresh(data[p][tk])}

(* Of two young prices for an off-chain ticker the one that the iteration  *)
(* over the data meets last is taken.                                      *)
FetchPrices(p) ==
  /\ loop = "fetch" /\ p \in todo
  /\ todo' = todo \ {p}
  /\ IF started[p] = "running"
     THEN \E taken \in OnePerOffChain(FreshTickers(p)) :
            providerPrices' = [providerPrices EXCEPT ![p] =
              [o \in OffChain |-> IF \E tk \in taken : tk.off = o
                                  THEN data[p][CHOOSE tk \in taken : tk.off = o] ELSE NoData]]
     ELSE UNCHANGED providerPrices
  /\ loop' = IF todo' = {} THEN "aggregate" ELSE "fetch"
  /\ UNCHANGED <<now, indexPrices, tickStart, starts, providerVars, mapVars>>

-----------------------------------------------------------------------------
(* The aggregator.                                                         *)
Invert(class) == 2 - class

(* big.Float.Mul; zero times infinity panics.                              *)
Mul(a, b) == IF Zero \in {a, b} THEN Zero ELSE IF Infinite \in {a, b} THEN Infinite ELSE Positive
MulPanics(a, b) == {a, b} = {Zero, Infinite}

GetProviderPrice(c) ==
  LET price == providerPrices[c.name][c.off]
  IN  IF price # NoData /\ c.invert THEN [class |-> Invert(price.class), ts |-> price.ts] ELSE price

(* The configs whose price can be had: the provider's, and the index price *)
(* of the last tick if the config is normalized.                           *)
Convertible(m) ==
  {c \in m.configs : /\ GetProviderPrice(c) # NoData
                     /\ c.norm # NoPair => indexPrices[c.norm] # NoData}

CalculateAdjustedPrice(c) ==
  LET price == GetProviderPrice(c)
  IN  IF c.norm = NoPair
      THEN [class |-> price.class, direct |-> price.ts, oldest |-> price.ts]
      ELSE [class  |-> Mul(price.class, indexPrices[c.norm].class),
            direct |-> price.ts,
            oldest |-> Min({price.ts, indexPrices[c.norm].oldest})]

Panics == \E t \in Pair : cfg[t] # NoMarket /\ cfg[t].enabled /\
            \E c \in Convertible(cfg[t]) :
              c.norm # NoPair /\ MulPanics(GetProviderPrice(c).class, indexPrices[c.norm].class)

(* CalculateMedian: of an even number the average of the middle two, which *)
(* is of the class of the greater.                                         *)
MedianClass(S) ==
  Min({k \in {Zero, Positive, Infinite} :
         Cardinality({c \in S : CalculateAdjustedPrice(c).class <= k}) >= (Cardinality(S) \div 2) + 1})

MedianPrice(S) ==
  [class  |-> MedianClass(S),
   direct |-> Min({CalculateAdjustedPrice(c).direct : c \in S}),
   oldest |-> Min({CalculateAdjustedPrice(c).oldest : c \in S})]

(* Faulty variant: a market without enough prices keeps its last price.    *)
AggregatedOrLast(t) ==
  IF cfg[t] # NoMarket /\ cfg[t].enabled /\ Cardinality(Convertible(cfg[t])) >= cfg[t].min
  THEN MedianPrice(Convertible(cfg[t])) ELSE indexPrices[t]

Aggregated(t) ==
  IF cfg[t] # NoMarket /\ cfg[t].enabled /\ Cardinality(Convertible(cfg[t])) >= cfg[t].min
  THEN MedianPrice(Convertible(cfg[t])) ELSE NoData

(* A panic leaves the prices of the last tick and is recovered by          *)
(* fetchAllPrices, which does not set the sync time then.                  *)
AggregatePrices ==
  /\ loop = "aggregate"
  /\ IF Panics THEN loop' = "idle" /\ UNCHANGED <<indexPrices, starts>>
     ELSE /\ loop' = "sync"
          /\ indexPrices' = [t \in Pair |-> Aggregated(t)]
          /\ starts' = [d \in 0 .. Depth |-> IF d = 0 THEN tickStart ELSE starts[d - 1]]
  /\ UNCHANGED <<now, todo, providerPrices, tickStart, providerVars, mapVars>>

(* setLastSyncTime waits for o.mut; the time itself is in PriceService.    *)
SetLastSyncTime ==
  /\ loop = "sync" /\ mapper # "updating"
  /\ loop' = "idle"
  /\ UNCHANGED <<now, todo, providerPrices, indexPrices, tickStart, starts, providerVars, mapVars>>

-----------------------------------------------------------------------------
PassTime ==
  /\ now < MaxTime
  /\ now' = now + 1
  /\ UNCHANGED <<providerVars, mapVars, loopVars>>

(* Start: the providers of the configured market map are started.          *)
Init ==
  /\ now = 0
  /\ marketMap \in {mm \in MarketMaps : MapValid(mm)} /\ cfg = marketMap
  /\ newMap = marketMap /\ mapper = "idle"
  /\ ids \in Assignments(marketMap) /\ fetchIDs = [p \in Provider |-> {}]
  /\ started = [p \in Provider |-> IF ids[p] = {} THEN "stopped" ELSE "starting"]
  /\ data = [p \in Provider |-> [tk \in ProviderTicker |-> NoData]]
  /\ loop = "idle" /\ todo = {}
  /\ providerPrices = NoPrices /\ indexPrices = [t \in Pair |-> NoData]
  /\ tickStart = 0 /\ starts = [d \in 0 .. Depth |-> 0]

ProviderNext == \E p \in Provider : StartProvider(p) \/ RestartFetch(p) \/ UpdateData(p)
MapperNext == (\E mm \in MarketMaps : CheckMarketMap(mm)) \/ UpdateProviders \/ UpdateMarketMap
LoopNext == BeginTick \/ LockForFetch \/ (\E p \in Provider : FetchPrices(p)) \/ AggregatePrices \/ SetLastSyncTime
Next == ProviderNext \/ MapperNext \/ LoopNext \/ PassTime

(* The goroutines of the side-car run; nothing is asked of the exchanges,  *)
(* of the chain that serves market maps or of the clock.                   *)
Fairness ==
  /\ WF_vars(LoopNext)
  /\ WF_vars(UpdateProviders) /\ WF_vars(UpdateMarketMap)
  /\ \A p \in Provider : WF_vars(StartProvider(p)) /\ WF_vars(RestartFetch(p))

Spec == Init /\ [][Next]_vars /\ Fairness

-----------------------------------------------------------------------------
(* Every variable of the loop, the listener and the providers has its type.*)
SidecarTypeOK ==
  /\ now \in Time /\ tickStart \in Time /\ starts \in [0 .. Depth -> Time]
  /\ ids \in [Provider -> SUBSET ProviderTicker] /\ fetchIDs \in [Provider -> SUBSET ProviderTicker]
  /\ started \in [Provider -> {"stopped", "starting", "running"}]
  /\ data \in [Provider -> [ProviderTicker -> Price \cup {NoData}]]
  /\ marketMap \in MarketMap /\ cfg \in MarketMap /\ newMap \in MarketMap
  /\ mapper \in {"idle", "checked", "updating"}
  /\ loop \in {"idle", "begun", "fetch", "aggregate", "sync"} /\ todo \in SUBSET Provider
  /\ providerPrices \in [Provider -> [OffChain -> Price \cup {NoData}]]
  /\ indexPrices \in [Pair -> IndexPrice \cup {NoData}]

Priced == {t \in Pair : indexPrices[t] # NoData}

(* After a tick, GetPrices serves no price that was made from a provider   *)
(* price older than MaxPriceAge when the tick began, whichever providers   *)
(* stopped, failed or were replaced meanwhile (fetchPrices, Reset and      *)
(* AggregatePrices together). A tick that panics is the exception: it      *)
(* leaves the prices of the last one that did not.                         *)
ServedPricesFresh ==
  loop = "idle" /\ starts[0] = tickStart =>
    \A t \in Priced : indexPrices[t].direct + MaxPriceAge >= tickStart

(* The pairs by how far their prices are from the exchanges': 0 for one    *)
(* that no market map normalizes, d for one that is normalized by pairs of *)
(* lower rank only, Depth + 1 for all others, such as those of a cycle.    *)
Rankings ==
  {rank \in [Pair -> 0 .. (Depth + 1)] :
     \A mm \in MarketMaps, t \in Pair : mm[t] # NoMarket =>
       \A c \in mm[t].configs :
         c.norm # NoPair => rank[t] = Depth + 1 \/ rank[c.norm] < rank[t]}

(* Also with the index prices it was normalized by, no price of rank d is  *)
(* made from one older than MaxPriceAge at the start of the d-th tick      *)
(* before: AggregatePrices multiplies by the index prices of the last tick.*)
(* Where pairs normalize each other, as USDT/USD and BTC/USD do in the     *)
(* repository's core market map, there is no such bound.                   *)
IngredientsFresh ==
  \A rank \in Rankings : \A t \in Priced :
    rank[t] <= Depth => indexPrices[t].oldest + MaxPriceAge >= starts[rank[t]]

(* The data of a provider never goes back in time (updateData).            *)
DataMovesForward ==
  [][\A p \in Provider, tk \in ProviderTicker :
       data[p][tk] # NoData => data'[p][tk] # NoData /\ data'[p][tk].ts >= data[p][tk].ts]_vars

(* The providers that deliver what the market map asks of them.            *)
Delivered(mm) ==
  \A t \in Pair : mm[t] # NoMarket /\ mm[t].enabled =>
    \A c \in mm[t].configs : started[c.name] = "running" /\ \E tk \in FreshTickers(c.name) : tk.off = c.off

(* When the market map has settled and its providers keep delivering, and  *)
(* no zero price meets an infinite one, every enabled market gets a price, *)
(* also those that wait for the index price of another market, and the     *)
(* price stays.                                                            *)
MarketsArePriced ==
  \A mm \in {ValidSubset(mm) : mm \in MarketMaps} :
    <>[](marketMap = mm /\ Delivered(mm) /\ ~Panics)
      => <>[](\A t \in Pair : mm[t] # NoMarket /\ mm[t].enabled => indexPrices[t] # NoData)
=============================================================================
