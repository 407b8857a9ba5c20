# A TLA+ model of the Orynx price oracle

Orynx puts prices on a Cosmos chain. A *side-car* process next to every
validator collects prices from exchanges; the validator's application asks it
for them, signs them into its *vote extension*, and the next proposer injects
the vote extensions of a quorum into its block. Every node aggregates them by
stake-weighted median and writes the result to the `x/oracle` module. Which
pairs exist, and where their prices come from, is kept on the chain in
`x/marketmap`; side-cars follow that market map.

This directory models that path from an exchange's answer to the stored price,
checks the models with TLC and proves part of what they show with TLAPS.
`PROJECT.json` holds the index: components, runs, the source lines of every
definition, hazards, findings and theorems.

1. [The system](#1-the-system)
2. [The modules](#2-the-modules)
3. [The runs](#3-the-runs)
4. [Findings](#4-findings)
5. [Bounds](#5-bounds)
6. [Fairness and deadlock](#6-fairness-and-deadlock)
7. [Proofs](#7-proofs)
8. [What is left out](#8-what-is-left-out)
9. [Plan](#9-plan)

## 1. The system

| Component | State | Operations | What makes it correct |
|---|---|---|---|
| `x/oracle` keeper (`x/oracle/keeper`) | pair -> (id, nonce, price), id sequence, `numCPs`, `numRemoves` | add and remove messages, price write, begin blocker, genesis import and export, `CreateCurrencyPair` for the hooks | an id is never used twice; the counters are exact; an exported genesis can be imported |
| Stake-weighted median (`pkg/math/voteweighted`) | none between calls | `Median`, `ComputeMedian` | the same answer on every node, though it ranges over Go maps; a minority cannot move it |
| ABCI++ handlers (`abci/proposals`, `abci/ve`, `abci/preblock`, `abci/strategies`) | the votes in flight, of two heights | `PrepareProposal`, `ProcessProposal`, `ExtendVote`, `VerifyVoteExtension`, `PreBlocker` | what was verified stays valid; honest proposals are accepted; decided blocks execute; stored prices are fair |
| `x/marketmap` (`x/marketmap/keeper`) and its hooks (`x/oracle/keeper/hooks.go`) | markets, authorities, admin, `lastUpdated` | create, update, upsert, remove, params, authorities, genesis, the `MarketMap` query | the map is valid and agrees with `x/oracle`; who polls `lastUpdated` learns of every change |
| Base provider (`providers/base`) | ids, contexts, response channel, data | `Start`, `Update`, `Stop`, the fetch and receive goroutines | new ids are fetched, no response is lost, `Stop` ends it |
| API and web socket query handlers (`providers/base/api`, `providers/base/websocket`) | sub-tasks, a connection, error counts | `Query`, `Start`, heartbeats, reads | results reach the provider, a cancelled query returns |
| Exchange handlers (`providers/apis`, `providers/websockets`) | tickers, channel ids, sequences | create messages and URLs, parse answers | an answer is attributed to the right ticker; a refused subscription is asked for again |
| Side-car loop (`oracle`) and aggregator (`pkg/math/oracle`) | provider prices, index prices, market map | `fetchAllPrices`, `UpdateMarketMap`, `AggregatePrices` | no stale price is served; every enabled market gets a price |
| gRPC server and client, price daemon (`service`) | the latest response, its time | `Prices`, `Start`, `Stop`, `fetchPrices` | the application is handed recent prices only |
| DeFi fetchers, multi clients (`providers/apis/defi`) | the greatest height seen, and when | `Fetch`, `BatchCallContext`, `GetMultipleAccountsWithOpts`, `IsHeightValid` | the answer of the node that is furthest ahead counts |
| Market map fetchers (`providers/apis/agex`, `marketmap`) | the source in use | `Fetch` | the map does not go back |
| Delta strategy (`abci/strategies/currencypair`) | the price on chain, cached by height | `GetEncodedPrice`, `GetDecodedPrice` | what is decoded is what was encoded |
| Configuration, metrics, wiring, command line, other queries | - | - | - |

**Interactions.** The components meet in four places, each with a hazard of
its own:

- *Shared state on the chain*: the market map's hooks create pairs in
  `x/oracle`; the ABCI handlers read its ids and counters in one block and use
  what they read in the next, after messages may have removed the pair.
- *Messages*: vote extensions and proposals, from validators that may lie, with
  votes that join late and were never verified.
- *Goroutines*: the side-car's tick, the listener for market maps, and per
  provider a main loop, a fetch, its sub-tasks and a receiver. They share
  fields behind a mutex, but operations take the mutex several times.
- *Remote calls*: the daemon's calls have a deadline, the server's handlers
  outlive it.

The list of what is hard to test, each at its line, is under `hazards` in
`PROJECT.json`.

## 2. The modules

```
OracleKeeper <--- MarketMap            x/oracle with x/marketmap and the hooks
     ^
     +----------- OracleABCI           x/oracle with the ABCI++ handlers
                     |
VoteWeighted <-------+----- VoteWeightedLoop   the median: definition, and code
     ^
     +----------- DeltaStrategy        the delta encoding, over rounds

PriceFeed <-- implemented by --+-- WebSocketQuery --> WebSocketExchanges
                               +-- APIQuery -------> APIExchanges

Provider        one provider's goroutines
OracleSidecar   the tick, the aggregator, market maps; many providers
PriceService    ticks -> gRPC server -> daemon -> ExtendVote
```

The last three and the two query modules are links of one chain: an exchange's
message becomes a response (`*Exchanges`), the response reaches the provider's
channel (`*Query`), the provider's goroutines pass it on while ids change and it
is stopped and started (`Provider`), the tick reads what was stored
(`OracleSidecar`), and the daemon reads what the tick made (`PriceService`).

`MC*` modules give constants their values; `*Proofs` modules hold the proofs.
Definitions called "Faulty variant" in a comment are the mutated forms that
`PROJECT.json` lists under `mutants`: with one of them in place of the
definition it follows, TLC finds the property violated.

### OracleKeeper

`currencyPairs` is the indexed map of `CurrencyPairState`,
`nextCurrencyPairID`, `numCPs` and `numRemoves` are the other items of the
store. `AddCurrencyPairs` and `RemoveCurrencyPairs` are the whole message
handlers, with their loops, in closed form: `CreatedAt(msg)` are the positions
whose pair does not exist yet when the loop reaches it, `IDAt` the id it takes
from the sequence. A failing message leaves no trace (the SDK reverts it), so it
is a disabled action. `BeginBlocker` resets `numRemoves`. `ApplyPrices` is
the write of a block's prices with its nonces. `ExportAndInitGenesis` is a
restart from the exported genesis and is blocked, as the panic would do, when
`Validate` refuses it. `SetPriceForCurrencyPair` is modelled as its one caller
uses it, on pairs that have state. Counters are unsigned, modulo `Uint64`.

### VoteWeighted and VoteWeightedLoop

`VoteWeighted` defines the median without order: the smallest price whose
cumulated weight reaches half of the reported weight, if at least the threshold
was reported. `VoteWeightedLoop` is the code, step by step: the range over the
map, the sort with a comparator that is true both ways for equal prices, the
walk. `OrderIndependent` shows that every execution computes the definition,
which is why `OracleABCI` may use the latter.

### OracleABCI

Extends the keeper with `height`, `round`, `phase`, the `proposal`, and the
`votes` and `verified` sets of this height and the last. CometBFT is external
and modelled by what it guarantees: less than a third of the power is
Byzantine, a decided proposal was accepted by a quorum, an extended commit holds
a quorum whose extensions were verified, plus any late precommits, which were
not.

| Action | Code |
|---|---|
| `PrepareProposal(S)` | `proposals.go` with `PruneExtendedCommitInfo`; `S` are the votes this proposer has seen |
| `ByzantineProposal(S, T)` | any proposal a Byzantine proposer can make from signed votes |
| `ProcessProposal` | `proposals.go`, `ValidateExtendedCommitInfo`, the validation of signatures and power |
| `ExtendVote(v)` | `vote_extension.go` with the daemon's answer, the ids of the default strategy and its failures |
| `Decide`, `NextRound` | CometBFT; `VerifyVoteExtension` guards what is counted |
| `PreBlocker`, `BeginBlock`, `DeliverTx`, `Commit` | `preblock/oracle`, the vote aggregator, `ApplyPricesFromVoteExtensions`, the keeper's begin blocker and messages |

`GetMaxNumCP(proposing)` keeps the asymmetry that the code relies on:
`numCPs` when voting, `numCPs + numRemoves` when proposing. A vote extension is
a function from ids to prices, or `Malformed`; `BadPrice` and `LongPrice` are
prices that do not decode or are too long. A block's size is counted in prices.

### MarketMap

Extends the keeper with `markets`, `lastUpdated`, `marketAuthorities`, `admin`
and `blockHeight`. A market is whether it is enabled and which pairs it is
normalized by, the two things the messages check across markets. Every
message is an action, with the hooks it calls on `x/oracle` inside it;
`DeletedInRange` is what `slices.Delete` inside `range` really does.
`SetEnabled` is the keeper's `EnableMarket` / `DisableMarket`, for other modules.
`Restart` is export and import of both modules in the order of the app.
`client` is a reader of the query service: `QueryMarketMap` gives it the stored
map with its `lastUpdated`, and it keeps both until it asks again. With it are the
tickers that `SetEnabled` has switched since.

### Provider

A *run* is one call of `Start`, a *round* a turn of its loop; contexts and
channels are named `<<run, round>>`. A step is one access to a shared field,
context or channel, so every interleaving of `Update` and `Stop` with the loop,
the fetch goroutine, its sub-tasks or connections (`worker`) and the receiver is
there. `kind`, chosen in `Init` from `Kinds`, selects API or web socket
behaviour: who sends a response, how big
the channel is, and the sends that ignore the context. `Spec` lets the oracle
update and stop at any time; `SettledSpec` lets it do so only when a started run
has set its context and a stopped one has returned. The second is what an
operator would see with market maps minutes apart, and the first is what the
code permits; the findings lie in the difference.

### OracleSidecar

The tick of `fetchAllPrices` is split where it releases a lock: `BeginTick`
(with `Reset`), `LockForFetch`, `FetchPrices(p)` per provider,
`AggregatePrices`, `SetLastSyncTime`. The listener is split the same way:
`CheckMarketMap`, `UpdateProviders`, `UpdateMarketMap`. A provider
is its ids, the ids of its running fetch, and its stored `data`, which
`UpdateData` changes with results up to `MaxDelay` old and in any order.
A price is a class (zero, positive, infinite), and the times of the provider
prices it was made from: `direct` from its own provider, `oldest` with the index
prices it was normalized by. `big.Float`'s panic on zero times infinity is
`Panics`; the recovered tick changes nothing.

### PriceFeed

What a provider promises of the data it stores, whatever it is connected to: a
ticker has no price, or one that its own market had, and a price is replaced
only by a later one. A price is known by its number in its market's history.
`WebSocketQuery` and `APIQuery` implement it by the mapping `FeedPrice`, which
turns a price filed under another ticker into one that no market has.

### WebSocketExchanges and WebSocketQuery

`WebSocketExchanges` holds `HandleMessage`, `CreateMessages` and
`HeartBeatMessages` of the twelve exchanges as operators from a handler's state
and a message to the new state, the prices, the renewed tickers, the messages to
write and whether there was an error. A message is its kind, its tickers, its
channel or message id and its prices; a price is `<<ticker, number>>` or `Bad`.
The handler's state is what the handlers keep: the ticker cache, Bitfinex' and
Crypto.com's ids, Binance's message ids, sequence and trade numbers.

`WebSocketQuery` runs one of them. `startWebSocket` calls `Start` again and again
on the same handler; `DialSucceeds`, `WriteSubscription`, `CheckContext`,
`ReadMessage`, `SendResponse`, `WriteUpdate` are its steps between two accesses
to the connection or the channel. `Read` holds the mutex of the connection while
it waits (`Locked`), so a heartbeat (`HeartBeatWrite`) waits for it, and one of
an ended call may hit the connection of the next. `Close` leaves a connection
open when it cannot write the close message, as the code does, and so does a
handler that panics (`ReadPanics`). `UpdateData` is the provider's. The exchange is external: it confirms, refuses, trades, repeats
prices, sends heartbeats, falls silent or breaks.

### APIExchanges and APIQuery

`APIExchanges` holds, per exchange, what `ParseResponse` makes of an answer that
may be partial, unparsable, about other tickers or an error, and, per chain, how
the fetcher picks one of the nodes' answers. `APIQuery` is `Query`: the
tick, the batches in turn, `wg.Go` that blocks at the limit of the errgroup,
and every request as a goroutine with `Answer`, for a chain `CheckHeight` and
`RecordHeight` (`BlockAgeChecker` has no lock), `WriteResponse`, or `Recover` from
a parser that panics, then the provider's `Recv`. `kind` selects the fetcher, `Config` its limits. For
Uniswap the nodes' results share their place in memory, and the model lets
every answer overwrite it.

### DeltaStrategy

One pair and honest validators, over heights and rounds: `ExtendVote` encodes
against the price that the proposal would lead to, cached by height; a
validator that is locked on a proposal stays with it; the next block decodes
against the price on chain. This is a module of its own, since its question is
about rounds and the cache, and not about the proposals that `OracleABCI`
follows.

### PriceService

The side-car's ticks (`Aggregate`, `SetLastSyncTime`), the server's handlers
with the goroutine of each (`GetPrices`, `GetLastSyncTime`, the unbuffered
send), and the daemon: its loop, the call with its deadline, the stored
response with its TTL, `Stop` and cancellation. Handlers of calls that
timed out stay around and are never mixed up with the next call's.

## 3. The runs

Runs that pass:

| Run | Shows | Distinct states |
|---|---|---|
| `oracle_keeper` | From every valid genesis and under every sequence of messages, prices, blocks and restarts, ids are unique and fresh, the counter exact, losses counted, the export importable, and (id, nonce) identifies a price. | 9,129 |
| `median_loop` | All orders of iteration and sorting agree with the definition; a coalition that weighs less than the middle (half of the reported weight, rounded down) cannot move the price out of the others' range. | 241,143 |
| `abci_chain` | With a Byzantine validator that votes and proposes arbitrarily, pairs removed and added while votes are in flight, and blocks too small for all the votes: verified votes stay valid, honest votes and proposals are accepted, an honest proposer fails only for want of room, decided blocks execute, prices are fair, the chain goes on. | 546,556 |
| `market_map` | Markets keep their pair in `x/oracle`; no normalization dangles; a client that keeps the map it read while `lastUpdated` stands still is never behind by a creation or an update, a change of the `enabled` flag alone included. | 308,816 |
| `provider` | API and web socket providers, settled updates: no panic, a fetch with old ids is always about to be cancelled, no response is stranded, stopped runs exit, new ids are fetched and `Stop` returns, both but for a report that is stuck (section 4). | 63,777 |
| `sidecar_prices` | No stale price is served, directly or (for one level of normalization) through index prices, also while market maps change in the middle of a tick; stored data never goes back in time; a settled map whose providers deliver has a price for every enabled market, unless a tick panics (section 4). | 374,706 |
| `price_service` | What the daemon serves was aggregated at most `PriceTTL + ClientTimeout + UpdateInterval` ago, and never gets older by a late answer; `Stop` returns unless the context is cancelled too. | 314,858 |
| `web_socket` | Twelve exchanges: the connection implements `PriceFeed` over reconnects, reordered, repeated and unparsable prices; a price renewed by a heartbeat or ping was the exchange's price; no ticker of a working connection is forgotten when a subscription is refused; a cancelled connection ends. | 437,839 |
| `api_query` | Eight exchanges and three chains: one request at a time implements `PriceFeed`; every ticker asked for has a price or an error; the node that is furthest ahead wins; no batch starves; a cancelled `Query` returns with requests in flight and nobody receiving. | 296,590 |

Each property of these runs has a mutant. The runs that are expected to be
violated, `market_map_authorities`, `provider_panic` and `delta_rounds`, belong
to the findings.

The type invariants (`KeeperTypeOK`, `ABCITypeOK`, `MarketMapTypeOK`,
`ProviderTypeOK`, `SidecarTypeOK`, `ServiceTypeOK`, `WebSocketTypeOK`) stay with
their modules as documentation of the state and for the proofs. Those of the
keeper and the price service are theorems; the others hold on the instances of
the runs (add the name under `INVARIANTS` of the `.cfg` to repeat that), and no run
spends a property on them.

To repeat a run: `tlc -workers 2 -config MCOracleABCI.cfg MCOracleABCI`. The longest
(`api_query`, `abci_chain`, `market_map`) take two to four minutes.

## 4. Findings

Three runs state what the repository says and TLC refutes it; `PROJECT.json`
quotes the line:

| Run | What the code does |
|---|---|
| `market_map_authorities` | Of two neighbouring authorities to remove, one stays. |
| `provider_panic` | Two overlapping calls of `Start` close one channel twice: a provider that two market maps stop and start before its old run has returned. |
| `delta_rounds` | The delta strategy caches the price on chain by height, while the proposals of a height's rounds lead to different prices: a vote extension made after a failed round may decode to another price than the oracle reported. With one round per height the property holds. |

The following were met while modelling. They have no run of their own; the
models do what the code does, and where a property would run into one its
statement names the exception.

| Where | What the code does | In the model |
|---|---|---|
| `x/oracle/keeper/keeper.go`, `SetPriceForCurrencyPair` | Creates a pair without counting it in `numCPs`. No caller does so today. | `ApplyPrices` writes to tracked pairs only, as its caller does |
| `x/oracle/keeper/msg_server.go`, `RemoveCurrencyPairs` | A message that names an untracked pair fails as a whole; the comment says the pair is skipped. | guard of `RemoveCurrencyPairs` |
| `x/marketmap/keeper`, `UpdateMarkets` | Disabling a market is accepted although enabled markets normalize by it. | `ValidBy` |
| `RemoveMarkets`, `EnableMarket`, `DisableMarket` (the last two are called by no message) | Do not move `lastUpdated`, so that a client which polls it keeps a market that is gone, or the old flag. Only disabled markets can be removed. | `RemoveMarkets`, `SetEnabled`; `PollersKeepUp` excepts markets the client holds as disabled, and those switched |
| `x/oracle/keeper/hooks.go` | A removed market cannot be created again: the hook fails on the pair that `x/oracle` kept. | `AfterMarketsCreated` |
| `providers/base/websocket` | A failed dial is reported with a send that ignores the context; when the channel is full and its reader gone, `Stop` waits forever. | `ReportStuck`, excepted in `StopReturns`, `NewIDsAreFetched` |
| `providers/base/provider.go` | A stopped run goes on when the provider was started again meanwhile. | outside `SettledSpec` |
| `pkg/math/voteweighted` | The middle is half of the reported weight rounded down: with an odd weight a coalition with less than half of it reaches the middle, and with a total of 3B + 1 Byzantine validators of power B may set a price alone. | `CoalitionBounded` is about coalitions below the rounded middle; `ABCIConstants` asks for 3B + 2 |
| `pkg/math/oracle` | Markets that normalize each other hand an old price on from tick to tick. | the instance of `IngredientsFresh` has one level |
| `pkg/math/oracle`, `oracle/update.go` | Zero times an infinite (inverted zero) price panics in `big.Float`; the recovered tick leaves all prices as they were. | `Panics`, excepted in `ServedPricesFresh`, `MarketsArePriced` |
| `oracle/update.go`, `fetchPrices` | After a change of a ticker's metadata the price fetched with the old one may be used. | one metadata per ticker |
| `x/marketmap/types/market.go`, `GetValidSubset` | May return an invalid map, and the side-car then refuses all of it. | `CheckMarketMap` |
| `service/clients/oracle` | `Stop` blocks when the context ends the loop between its check and its send. | excepted in `DaemonStopReturns` |
| `service/clients/oracle` | A second call of `Stop` that saw `isRunning` before the loop had left sends on the channel that the first has closed, and panics. | one `Stopper` |
| `service/servers/oracle` (the daemon does not use it) | Prices get the timestamp of a tick that completes between the server's two reads. | `GetPrices`, `GetLastSyncTime` |
| `providers/apis/defi/uniswapv3/fetcher.go`, `ethmulticlient/multi_client.go` | The batch is copied for every endpoint, but the copies point to the same result strings. `BatchCallContext` promises the answer of the greatest height; its results may be those of the endpoint that answered last. | `FetchUniswap`, excepted in `GreatestHeightWins` |
| `providers/apis/defi/types/block_age.go` | Heights are checked and recorded without a lock: the height may go back, and a chain that stands still is refused later. | `CheckHeight`, `RecordHeight` |
| `providers/apis/defi/osmosis/client.go` | Among answers that tell no height the first endpoint's is taken, be it the empty one of a request that failed: a good answer of another is dropped. An answer that tells none counts if it is the first. | `FetchOsmosis`; `GreatestHeightWins` is about responses with a height |
| `providers/apis/defi/uniswapv3/fetcher.go` | The batch call has no timeout of its own, only the context of the query: a node that never answers holds its request until then. | assumed to answer (section 6) |
| `providers/apis/kraken/utils.go` | An empty list of close prices makes the parser panic; the sub-task recovers, and no response tells the tickers' fate. | `ParsePanics`, `Recover` |
| `providers/apis/coinmarketcap` | A ticker that the answer leaves out is neither resolved nor unresolved. | excepted in `EveryTickerAnswered` |
| `providers/base/api`, `tickerWithImmediateFirstTick` | Its goroutine sends a tick that nobody may take any more, and stays. | left out: it holds nothing |
| `providers/base/websocket`, `Close` | A close message that cannot be written leaves the connection open, and `Dial` replaces it. | `Close` |
| `providers/websockets/bitfinex` | A channel number or price that is not a number makes the handler panic. `recv` recovers, and `Start` returns without an error and leaves the connection open. | `BitfinexMayPanic`, `ReadPanics` |
| `providers/websockets/huobi` | A ping renews the prices of all tickers, also of one that is left from an earlier connection and has moved since. | `RenewedIsCurrent` asks for the same connection |
| `providers/websockets/kucoin` | Sequence numbers outlive the connection; the ping interval is written to one copy of the configuration and read from another. | numbers belong to the market; heartbeats are due at any time |
| `providers/apis/agex/switch_over_fetcher.go` | The first map from `x/marketmap` switches the source for good; when it fails later, the side-car keeps its last map. | any map may arrive at any time, or none |

## 5. Bounds

| Module | Instance | Why it is enough for the questions asked |
|---|---|---|
| OracleKeeper | 3 pairs, messages of up to 3 names, ids up to 4, nonce up to 1, `Uint64` 16 | A message can create several pairs, repeat one and name a known one; an id beyond those of three pairs lets a removed pair come back. The proofs lift the bound. |
| VoteWeightedLoop | 3 validators, weights 0..3, prices 0..2 | Ties in price, odd and even totals, validators without weight or unknown to the staking module. |
| OracleABCI | powers 20/10/10 with the third validator Byzantine, 2 pairs, 3 ids, extensions enabled at height 2, 4 heights, one extra round, room for 5 prices | The heights before, at and after enabling, then a block whose votes were made before a removal, and one for which the pair was added again. A failed round leads to another proposer. |
| MarketMap | 2 tickers, each enabled or not, normalized by nothing or by one of the two, 1 account (2 in `market_map_authorities`), 3 blocks, messages of up to 2 markets | Dependency between two markets, of one on itself, and the order inside one message; a client that reads in one block, misses a change in the second and polls in the third. |
| Provider | 2 ids, 3 updates (so up to 3 overlapping runs), 4 rounds, buffer of 1, one ticker per connection | Two connections and a channel that can be full; a restart during a restart. |
| OracleSidecar | 2 providers, 2 pairs, two families of two market maps, `MaxPriceAge` 1, times up to 2, delays up to 1; positive prices and a map change at time 1 with the first family, zero prices and an inverted market, with the clock stopped, with the second | A price can be fresh, just fresh and stale, and a map change can hit every point of a tick; zero times infinity happens. |
| WebSocketQuery | 2 tickers, alone or (for the handlers that can tell) together, 2 dials, 2 prices, channel and wire of 1 and 2, at most 3 (Coinbase, Huobi) or 2 (others) heartbeats, refusals, bad or repeated prices; with two tickers 1 of them and one trade | A reconnect with messages of the first connection behind it, and a price that moves in between. A lost trade followed by a renewal needs the third extra message. |
| APIQuery | 2 tickers, 2 nodes, 2 prices or blocks, channel of 1, the default limits; two requests at a time for Osmosis, for which only the first node fails or lags, or neither tells a height, and whose prices parse; nodes that tell no height answer with the first block's prices; answers come in the order of the nodes but for Uniswap | A full channel, a batch that waits, a node that is behind, two height checks that overlap. |
| DeltaStrategy | 4 validators of equal power, 3 heights, 2 rounds, prices 1 and 2 | The smallest chain in which one round locks fewer than a quorum and the next decides another proposal. |
| PriceService | 2 handlers alive, interval and timeout 1, TTL 2, times up to 5; one caller of `Stop`, early, after which the clock stands still | One late answer next to the current call, and the whole bound of 4 reached and passed. The proofs lift the bound. |

With the clock stopped the question is whether prices spread through the
normalizations; data that the providers keep delivering does not age.

## 6. Fairness and deadlock

- **OracleABCI**: weak fairness of what honest validators and the engine do,
  and of the round's timeout; none for Byzantine validators. `ChainProgress`
  asks for the last height: within `MaxRound` an honest proposer gets its turn.
- **Provider**: weak fairness of every step a goroutine can take by itself,
  and of finishing an `Update` that was begun. Nothing is asked of the exchange,
  of the arrival of market maps or of `Stop`.
- **OracleSidecar**: weak fairness of the loop, of the listener once it has a
  map and of starting and restarting fetches. None for exchanges, for the source
  of market maps or for the clock.
- **WebSocketQuery**: weak fairness of the handler's steps, a read that ends at
  its deadline included, and of the provider's receive while its context is not
  done. None for the exchange, for dials to succeed or for heartbeats to be due.
- **APIQuery**: weak fairness of the loop and of every request, since it has a
  timeout. Uniswap's batch calls have none, and end with the query's context:
  that its nodes answer or fail is assumed. Weak fairness of the provider's receive while its context is not done; strong
  fairness of `StopTicks`, for the same reason as below.
- **PriceService**: weak fairness of the daemon's goroutine and of the end of
  a call, which its deadline enforces; strong fairness of leaving the loop and
  of handing over the stop signal, since Go's `select` chooses among ready
  cases at random and so takes one that is ready again and again.

Deadlock is checked except in Provider, where a stuck report blocks a web
socket provider for good, and in PriceService, where a stopped daemon at the
end of the bounded clock has nothing left to do. `delta_rounds` does not check
it either: its bounded chain ends. `Finished` (OracleABCI) and `Stopped` (Provider, WebSocketQuery, APIQuery) are the ends of a bounded chain
and of a stopped provider or query.

## 7. Proofs

All are checked by TLAPS from the assumptions on constants named in the
modules.

**OracleKeeperProofs** (`KeeperConstants`: finitely many pairs, sentinels
outside their sets, `Uint64` large enough for the pairs). `KeeperInv` joins the
types, `IDsUnique`, `NumCPsExact` and `NonceHasPrice`. Each needs the others:
uniqueness is inductive only with every id below the sequence; the decrement of
the unsigned `numCPs` stays above zero only because the counter is exact;
and `ExportImportable` needs that a nonce above zero comes with a price.
`CreatedIDs` shows that a message's new ids are an interval above the
sequence, by a bijection and without induction over the message. From the
invariant follow `IDsUnique`, `NumCPsExact`, `ExportImportable`, and the action
properties `NewIDsAreFresh`, `StampIdentifiesPrice` and `LossesAreCounted`, for
any number of pairs and messages of any length.

**OracleABCIProofs** (`ABCIConstants`, `LoopConstants`) has three parts.

*Sums and the median.* A sum of voting power is a recursive function over
finite sets; what the proofs need of it (`WeightRemove`, `WeightSplits`,
`WeightMonotone`) is proved by a smallest counterexample in the well-founded
order of the subsets of a finite set, since induction takes an operator.
`MedianExists` and `MedianWithinOthers` are the facts about the closed form.
`LoopInv` is about the code: the list of prices stands for the reporters scanned
so far (`Lists`, a bijection that an addition extends and a sort permutes),
`total` is their weight, and the walk has summed up a prefix that weighs less
than the middle. In a list that is sorted pairwise any two entries are in order
(`SortedFarApart`), so the entry at which the walk stops has the median's
price (`WalkFindsMedian`): `OrderIndependent` and `CoalitionBounded`, for every
number of validators.

*The accounting.* `ABCIInv` extends `KeeperInv` with the shape of votes,
`HonestVotesFit`, `VerifiedFit` and `AcceptedDecodes`. The heart is
`VerifiedFit`: after BeginBlock has reset `numRemoves`, the sum
`numCPs + numRemoves` never falls, so that a vote extension that had at most
`numCPs` prices when it was verified has at most `GetMaxNumCP(TRUE)` of them one
block later, whatever the block removed (`SumMonotone`). From it follow
`VerifiedVotesSurvive`, `HonestVotesVerified` and `DecidedBlockExecutes`, for
every validator set and every Byzantine behaviour.

*Proposals and prices.* `ChainInv` joins `ABCIInv`, the types of votes and
proposals, `HonestProposalAccepted` and `FairInv`. What `PrepareProposal` has
pruned passes `ProcessProposal` (`PreparedIsValid`: the verified votes of a
quorum survive, so the commits left in have its power), hence
`HonestProposalAccepted` and `HonestProposerSucceeds`. For `PricesFair`, the votes
of honest validators in flight carry fair prices under the ids they were made
for, and stay so when pairs are removed and added, because an id is never used
again (`FairKept`, from the keeper's invariant); a pair is priced when at least
0.667 of the power reported it, Byzantine validators then weigh less than the
middle, and the median lies between two honest prices (`MedianIsFair`).

**MarketMapProofs** (`MarketMapConstants`). `MarketMapInv` joins `KeeperInv`, the
types, `MarketsAreTracked` and `NormalizePairsListed`. The keeper's part makes the
hook's creations legal; that markets are tracked makes the entries harmless which an
upsert does not report to the hook. `MarketMapImplementsKeeper` shows that every message of
`x/marketmap`, with its hooks, is a step of the keeper's specification or leaves
it alone, which brings the keeper's theorems here; `TrackedOnlyGrows` is an
action property. `PollersKeepUp` needs `PollInv`: a query sees a committed state,
so that what the client holds as `lastUpdated` is lower than the height of the
block under way. A change that is recorded moves `lastUpdated` to that height, which
the client does not hold; a removal takes disabled markets only, and a market that was
disabled since the query has moved `lastUpdated`, unless it was switched. All are about `APISpec`, in which other modules may enable
and disable markets through the keeper (`SetEnabled`).

**ProviderProofs** (`ProviderConstants`) are about `SettledSpec`; under `Spec`
`NoPanic` is false, as `provider_panic` shows. `ProviderInv` says that one run is
active at a time (`OneRun`), where a half-finished `Update` may be
(`SettledUpdate`), which goroutines of a round may be where (`Goroutines`), that
the shared fields name the active run's context and channel (`Sharing`), that a
fetch with old ids has its context cancelled or about to be (`StaleFetch`), and
that channels of rounds to come are empty (`Fresh`). `NoPanic`,
`StaleFetchIsCancelled` and `ResponsesAreReceived` follow for every number of
runs, rounds, ids and connections.

**WebSocketQueryProofs** (`QueryConstants`: finitely many tickers, `Bad` is no
price). Three invariants, one on top of the other. `Base` has the types, what is
written next (`WritesOK`), that requests and answers are about the connection's
tickers (`RequestsOK`, `MessagesOK`), which Bitfinex channel stands for which
ticker when a message is read (`ChannelsOK`) and who gets pings
(`HeartBeatsOK`). `InOrder` says that the prices of a ticker stored, in the
channel, about to be sent and on the wire are in the order of the market, or,
where the exchange reorders, behind the handler's sequence number.
The renewals add to it what price a heartbeat will find when it is read
(`RenewsOK`, `DialsOK`, and for the two exchanges that do this
`TradesOK`, `CoinbaseHeartbeatsOK`, `HuobiOK`). From them follow
`NoTickerForgotten`, `ImplementsPriceFeed` with its refinement mapping, and
`RenewedIsCurrent`, for all twelve exchanges, any number of tickers, connections and
messages, and any size of batches and buffers.

**APIQueryProofs** (`APIConstants`). `ResponsesInv` says what a request holds at
each of its steps, and that every response on its way has each ticker asked for
resolved or unresolved, and none twice; for a chain, that the answer taken has the
greatest height among those that succeeded. `EveryTickerAnswered` and
`GreatestHeightWins` follow. `PipelineInv` adds that with one request at a time
what is asked, held, in the channel and stored gets older in this order, from which
`ImplementsPriceFeed` follows.

**OracleSidecarProofs** (`SidecarConstants`). `SidecarInv` relates what a tick has
collected to its start (`PricesOK`), what the aggregator holds to the start of the
tick that made it (`IndexOK`), and the chain of starts to each other (`TimesOK`):
a tick that panics moves neither. `ServedPricesFresh`, `DataMovesForward` and
`IngredientsFresh` follow, the last for chains of any length: a price that is d
normalizations away from an exchange looks back d ticks. That the least of
a set of times exists is shown in the well-founded order of the numbers.

**PriceServiceProofs** (`PriceServiceConstants`). `ServiceInv` adds to the types
that the clock passes no due tick and no deadline (`OnTime`), that the
handler of the current call holds prices no older than `UpdateInterval` before
the call began (`CallInFlight`), and how old a response was when it arrived
(`ResponseAge`). `ServedInTime` and `ResponsesMoveForward` follow for every
interval, deadline, TTL and number of late handlers.

**Only model-checked.** Every invariant and action property of the runs that pass
has its theorem, but for `StoppedRunExits`: with settled updates the context in the
provider's field is always the run's own, and a theorem would say no more than that
the loop looks at it. What else stays with TLC is liveness, which needs ENABLED:
`ChainProgress`, `StopReturns`, `NewIDsAreFetched`, `MarketsArePriced`,
`DaemonStopReturns`, `StartReturns`, `EveryTickerAskedAgain` and `QueryReturns`.
`DeltaRoundTrips` is violated, and what of it holds with one round per height
was checked with `MaxRound` 0. The proofs are about the models, with their bounds
as parameters: bounds that appear in a guard (`MaxHeight`, `MaxTime`, `MaxUpdates`
and the like) may have any value.

## 8. What is left out

- **Data**: decimals and the scaling of prices, tickers' names, JSON, encodings
  and compression (a message decodes or does not), transactions other than
  those of the two modules, gas and fees.
- **Time**: in PriceService the side-car ticks on time and a call ends by its
  deadline; in OracleSidecar the clock does not wait for the loop, so that a tick
  may be late.
- **Freshness through index prices**: a chain of n normalizations lags by n ticks,
  which is proved for every n and checked for one; for markets that normalize each
  other no bound is stated, since there is none (section 4).
- **Answers and parties**: an exchange's answer names a ticker once, where a
  JSON array could repeat it with a good and a bad price; an honest side-car's
  prices are not too long for the chain; the validator set is fixed, so that the
  public key of a voter is always found.
- **Order of API responses with several requests at a time**: `updateData`
  drops what was overtaken, which `OracleSidecar` models (`DataMovesForward`);
  `APIQuery` follows stored data for one request at a time only.
- **Not modelled**, and why:
  - Market map fetchers (`providers/apis/agex`, `providers/apis/marketmap`): each
    is a request and a conversion, with one bit of state between them, and
    OracleSidecar takes any map at any time.
  - The hash strategy: it replaces ids by hashes of names, and only a collision,
    which a model would have to assume or exclude, could make a difference.
  - The formulas of the pools and the scaling of prices by decimals (also
    `GetDecimalsForCurrencyPair`, `x/oracle/keeper/keeper.go:352`, which reads the
    decimals of the current market for a price of an earlier one): real arithmetic.
  - The queries of the two modules other than `MarketMap`: they read and change
    nothing.
  - Configuration, metrics, wiring, command line tools, helpers: no state after
    start-up, or nothing reads it back.
  - Generated code (`*.pb.go`, `*.pulsar.go`, `*.pb.gw.go`, ABI bindings) and the
    constant market maps in `cmd/constants`: two thirds of the repository's lines
    of Go. They hold encodings and data, and no control of this program; this is
    why the lines that the map names are a small share of all lines (7,300 of
    88,000), and a larger one, about a quarter, of the code that is written by
    hand.

## 9. Plan

The suite is kept to a dozen runs that finish in minutes: a new question joins the
run of its component, or takes the place of one that says less. What is left
is to prove more, in this order:

1. DeltaStrategy with `MaxRound` 0: `DeltaRoundTrips`, by the invariant that a
   cached price is the one the height's only proposal leads to. This needs a
   specification of its own beside the one whose run is expected to fail.
2. What of Provider holds under `Spec` too, where updates overlap restarts.
3. Refinement between the links of the chain.

For the last, two abstract specifications would close the chain: the ticks of
PriceService implemented by OracleSidecar, and the provider seen by OracleSidecar
implemented by Provider.
