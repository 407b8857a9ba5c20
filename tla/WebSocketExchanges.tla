------------------------- MODULE WebSocketExchanges -------------------------
(***************************************************************************)
(* The web socket data handlers of providers/websockets/: what a handler   *)
(* does with a message of its exchange, and the messages it subscribes     *)
(* with. A handler keeps state between messages: its cache of tickers and, *)
(* by exchange, the ids of its requests (Binance), the channels it was     *)
(* given (Bitfinex), sequence numbers (Coinbase, KuCoin) and trade ids     *)
(* (Coinbase).                                                             *)
(*                                                                         *)
(* A message is a record: its type, whatever the exchange calls it, and    *)
(* the fields the handlers look at. JSON, gzip and the names of channels   *)
(* and topics are left out; a message no handler decodes, or of a channel  *)
(* nobody asked for, is of type "unknown".                                 *)
(***************************************************************************)
EXTENDS Integers, Sequences, SequencesExt, FiniteSets, TLC

CONSTANTS
  Bad,                      \* a price that does not parse
  MaxSubscriptionsPerBatch, \* WebSocketConfig.MaxSubscriptionsPerBatch
  MexcLimit                 \* mexc.MaxSubscriptionsPerConnection

ASSUME ExchangeConstants == MaxSubscriptionsPerBatch \in Nat \ {0} /\ MexcLimit \in Nat

Exchanges == {"binance", "bitfinex", "bitstamp", "bybit", "coinbase", "cryptodotcom",
              "gate", "huobi", "kraken", "kucoin", "mexc", "okx"}

(* The exchanges whose PingInterval is not zero.                           *)
PingExchanges == {"bitstamp", "bybit", "kucoin", "mexc"}

Handler(cache, messageIDs, channelMap, sequence, tradeIDs) ==
  [cache |-> cache, messageIDs |-> messageIDs, channelMap |-> channelMap,
   sequence |-> sequence, tradeIDs |-> tradeIDs]

NewHandler == Handler({}, <<>>, <<>>, <<>>, <<>>)

(* The result of HandleMessage: the handler's new state, an error, or what *)
(* is sent to the provider and the messages for the exchange.              *)
Result(h, err, resolved, unchanged, unresolved, writes) ==
  [h |-> h, err |-> err, resolved |-> resolved, unchanged |-> unchanged,
   unresolved |-> unresolved, writes |-> writes]
Quiet(h) == Result(h, FALSE, <<>>, {}, {}, <<>>)
Failed(h) == Result(h, TRUE, <<>>, {}, {}, <<>>)
Resolved(h, prices) == Result(h, FALSE, prices, {}, {}, <<>>)
Unchanged(h, tickers) == Result(h, FALSE, <<>>, tickers, {}, <<>>)
Unresolved(h, tickers) == Result(h, FALSE, <<>>, {}, tickers, <<>>)
Writes(h, msgs) == Result(h, FALSE, <<>>, {}, {}, msgs)

Get(f, x, default) == IF x \in DOMAIN f THEN f[x] ELSE default
Put(f, x, v) == [y \in DOMAIN f \cup {x} |-> IF y = x THEN v ELSE f[y]]

-----------------------------------------------------------------------------
(* Subscriptions.                                                          *)
Request(type, tickers, id) == [type |-> type, tickers |-> tickers, id |-> id]

(* The tickers of a subscription are spread over batches; the exchanges    *)
(* with one ticker per message have batches of one.                        *)
Batches(exchange, tickers) ==
  LET size == IF exchange \in {"bitfinex", "bitstamp", "huobi"} THEN 1
              ELSE MaxSubscriptionsPerBatch
  IN  [i \in 1..((Len(tickers) + size - 1) \div size) |->
         ToSet(SubSeq(tickers, (i - 1) * size + 1,
                      IF i * size < Len(tickers) THEN i * size ELSE Len(tickers)))]

(* Binance numbers its requests, to know what an answer is about.          *)
BinanceSubscribe(h, batches) ==
  LET first == Len(h.messageIDs)
  IN  Result(Handler(h.cache, h.messageIDs \o batches, h.channelMap, h.sequence, h.tradeIDs),
             batches = <<>>, <<>>, {}, {},
             [i \in DOMAIN batches |-> Request("subscribe", batches[i], first + i)])

Subscribe(h, batches) ==
  Result(h, batches = <<>>, <<>>, {}, {},
         [i \in DOMAIN batches |-> Request("subscribe", batches[i], 0)])

(* CreateMessages: the tickers are added to the cache first; MEXC refuses  *)
(* more tickers than a connection may have before it adds any.             *)
CreateMessages(exchange, h, tickers) ==
  LET batches == Batches(exchange, tickers)
      cached  == Handler(h.cache \cup ToSet(tickers), h.messageIDs, h.channelMap,
                         h.sequence, h.tradeIDs)
  IN  CASE exchange = "binance" -> BinanceSubscribe(cached, batches)
        [] exchange = "mexc" /\ Len(tickers) > MexcLimit -> Failed(h)
        [] exchange # "binance" /\ ~(exchange = "mexc" /\ Len(tickers) > MexcLimit) ->
             Subscribe(cached, batches)

HeartBeatMessages(exchange) ==
  IF exchange \in PingExchanges THEN <<Request("ping", {}, 0)>> ELSE <<>>

-----------------------------------------------------------------------------
(* Prices. An update carries the prices of one ticker, or of several where *)
(* the exchange sends them together.                                       *)

(* The handlers that give up on the first ticker they do not know or price *)
(* they cannot parse. The unresolved price they return goes with an error, *)
(* for which the response is dropped.                                      *)
ParseTicker(h, msg) ==
  IF \E t \in DOMAIN msg.prices : t \notin h.cache \/ msg.prices[t] = Bad
  THEN Failed(h)
  ELSE Resolved(h, msg.prices)

(* The handlers that skip unknown tickers and report prices they cannot    *)
(* parse one by one.                                                       *)
ParseTickers(h, msg) ==
  LET known == DOMAIN msg.prices \cap h.cache
      bad   == {t \in known : msg.prices[t] = Bad}
  IN  Result(h, FALSE, [t \in known \ bad |-> msg.prices[t]], {}, bad, <<>>)

BinanceHandle(h, msg) ==
  CASE msg.type \in {"subscribed", "rejected"} ->
         IF msg.id \notin DOMAIN h.messageIDs THEN Failed(h)
         ELSE IF msg.type = "rejected"
              THEN BinanceSubscribe(h, Batches("binance", SetToSeq(h.messageIDs[msg.id])))
              ELSE Quiet(h)
    [] msg.type = "update" -> ParseTicker(h, msg)
    [] OTHER -> Failed(h)

(* Faulty variant: a channel keeps the ticker it was first given for.      *)
UpdateChannelMapOnce(h, ch, ticker) ==
  Handler(h.cache, h.messageIDs, h.channelMap @@ (ch :> ticker), h.sequence, h.tradeIDs)

UpdateChannelMap(h, ch, ticker) ==
  Handler(h.cache, h.messageIDs, Put(h.channelMap, ch, ticker), h.sequence, h.tradeIDs)

(* Bitfinex sends prices by channel; the channel's ticker is known from    *)
(* the answer to the subscription. Its prices are numbers: Bad is an       *)
(* update of the wrong shape, or a price that is not a number.             *)
BitfinexStream(h, msg) ==
  LET price == CHOOSE p \in Range(msg.prices) : TRUE
  IN  IF msg.id \notin DOMAIN h.channelMap THEN Failed(h)
      ELSE IF msg.type = "heartbeat" THEN Quiet(h)
      ELSE IF price = Bad THEN Failed(h)
      ELSE Resolved(h, [t \in {h.channelMap[msg.id]} |-> price])

(* Neither the channel number nor the price is looked at before it is      *)
(* taken for a number: a stream that starts with something else, or a      *)
(* price that is something else, makes the handler panic.                  *)
BitfinexMayPanic(h, msg) ==
  \/ msg.type = "unknown"
  \/ msg.type = "update" /\ msg.id \in DOMAIN h.channelMap /\ Bad \in Range(msg.prices)

BitfinexHandle(h, msg) ==
  CASE msg.type = "subscribed" ->
         IF msg.tickers \subseteq h.cache
         THEN Quiet(UpdateChannelMap(h, msg.id, CHOOSE t \in msg.tickers : TRUE))
         ELSE Failed(h)
    [] msg.type \in {"heartbeat", "update"} -> BitfinexStream(h, msg)
    [] OTHER -> Failed(h)

(* Coinbase accepts equal sequence numbers, KuCoin only higher ones.       *)
CheckSequenceNumber(h, ticker, seq) == Get(h.sequence, ticker, 0) <= seq

Observe(h, ticker, seq) ==
  Handler(h.cache, h.messageIDs, h.channelMap, Put(h.sequence, ticker, seq), h.tradeIDs)

(* The trade that a heartbeat renews.                                      *)
Traded(h, ticker, trade) ==
  Handler(h.cache, h.messageIDs, h.channelMap, h.sequence, Put(h.tradeIDs, ticker, trade))

(* Faulty variant: the trade counts before its price is parsed.            *)
CoinbaseTickerTradeFirst(h, ticker, msg) ==
  LET seen == Traded(Observe(h, ticker, msg.seq), ticker, msg.trade)
  IN  IF ~CheckSequenceNumber(h, ticker, msg.seq) THEN Failed(h)
      ELSE IF msg.prices[ticker] = Bad THEN Failed(seen)
      ELSE Resolved(seen, msg.prices)

(* The sequence number counts even if the price does not parse; the trade  *)
(* only if it does.                                                        *)
CoinbaseTicker(h, ticker, msg) ==
  LET seen == Observe(h, ticker, msg.seq)
  IN  IF ~CheckSequenceNumber(h, ticker, msg.seq) THEN Failed(h)
      ELSE IF msg.prices[ticker] = Bad THEN Failed(seen)
      ELSE Resolved(Traded(seen, ticker, msg.trade), msg.prices)

(* A heartbeat renews the price of the trade it names.                     *)
CoinbaseHeartbeat(h, ticker, msg) ==
  LET seen == Observe(h, ticker, msg.seq)
  IN  IF ~CheckSequenceNumber(h, ticker, msg.seq) THEN Failed(h)
      ELSE IF Get(h.tradeIDs, ticker, 0) # msg.trade THEN Unresolved(seen, {ticker})
      ELSE Unchanged(seen, {ticker})

CoinbaseHandle(h, msg) ==
  LET ticker == CHOOSE t \in msg.tickers : TRUE
  IN  CASE msg.type = "subscribed" -> Quiet(h)
        [] msg.type \in {"update", "heartbeat"} /\ ticker \notin h.cache -> Failed(h)
        [] msg.type = "update" /\ ticker \in h.cache -> CoinbaseTicker(h, ticker, msg)
        [] msg.type = "heartbeat" /\ ticker \in h.cache -> CoinbaseHeartbeat(h, ticker, msg)
        [] OTHER -> Failed(h)

KucoinTicker(h, ticker, msg) ==
  LET seen == Observe(h, ticker, msg.seq)
  IN  IF ticker \notin h.cache \/ Get(h.sequence, ticker, 0) >= msg.seq THEN Failed(h)
      ELSE IF msg.prices[ticker] = Bad THEN Failed(seen)
      ELSE Resolved(seen, msg.prices)

(* NoPriceChangeResponse: a pong renews the price of every ticker.         *)
KucoinHandle(h, msg) ==
  CASE msg.type \in {"welcome", "subscribed"} -> Quiet(h)
    [] msg.type = "pong" -> Unchanged(h, h.cache)
    [] msg.type = "update" -> KucoinTicker(h, CHOOSE t \in msg.tickers : TRUE, msg)
    [] OTHER -> Failed(h)

(* A subscription that was refused is sent again.                          *)
HuobiSubscription(h, msg) ==
  IF msg.type = "rejected" THEN Subscribe(h, <<msg.tickers>>) ELSE Quiet(h)

(* A ping of Huobi renews every price too, and is answered.                *)
HuobiHandle(h, msg) ==
  CASE msg.type = "ping" -> Result(h, FALSE, <<>>, h.cache, {}, <<Request("pong", {}, 0)>>)
    [] msg.type \in {"subscribed", "rejected"} -> HuobiSubscription(h, msg)
    [] msg.type = "update" -> ParseTicker(h, msg)
    [] OTHER -> Failed(h)

(* Faulty variant: a refused subscription is only logged.                  *)
KrakenBaseMessageLogs(h, msg) == Quiet(h)

(* A system status other than online and an unknown subscription status    *)
(* are errors, like messages of type "unknown".                            *)
KrakenBaseMessage(h, msg) ==
  IF msg.type = "rejected" THEN Subscribe(h, Batches("kraken", SetToSeq(msg.tickers)))
  ELSE Quiet(h)

KrakenHandle(h, msg) ==
  CASE msg.type \in {"welcome", "heartbeat", "subscribed", "rejected"} -> KrakenBaseMessage(h, msg)
    [] msg.type = "update" -> ParseTicker(h, msg)
    [] OTHER -> Failed(h)

(* The error of OKX quotes the request, which is sent again.               *)
OkxSubscription(h, msg) ==
  IF msg.type = "rejected" THEN Subscribe(h, <<msg.tickers>>) ELSE Quiet(h)

OkxHandle(h, msg) ==
  CASE msg.type \in {"subscribed", "rejected"} -> OkxSubscription(h, msg)
    [] msg.type = "update" -> ParseTickers(h, msg)
    [] OTHER -> Failed(h)

(* A request of Bitstamp to reconnect is answered on the same connection.  *)
BitstampHandle(h, msg) ==
  CASE msg.type \in {"heartbeat", "subscribed"} -> Quiet(h)
    [] msg.type = "reconnect" -> Writes(h, <<Request("reconnect", {}, 0)>>)
    [] msg.type = "update" -> ParseTicker(h, msg)
    [] OTHER -> Failed(h)

(* An unknown ticker is an error, a price that does not parse is not.      *)
BybitTicker(h, msg) ==
  IF DOMAIN msg.prices \subseteq h.cache THEN ParseTickers(h, msg) ELSE Failed(h)

BybitHandle(h, msg) ==
  CASE msg.type \in {"subscribed", "pong"} -> Quiet(h)
    [] msg.type = "update" -> BybitTicker(h, msg)
    [] OTHER -> Failed(h)

(* The answer to a subscription of crypto.com holds no instrument, which   *)
(* is an error.                                                            *)
CryptodotcomHandle(h, msg) ==
  CASE msg.type = "heartbeat" -> Writes(h, <<Request("heartbeat", {}, msg.id)>>)
    [] msg.type = "update" -> ParseTickers(h, msg)
    [] OTHER -> Failed(h)

GateHandle(h, msg) ==
  CASE msg.type = "subscribed" -> Quiet(h)
    [] msg.type = "update" -> ParseTicker(h, msg)
    [] OTHER -> Failed(h)

MexcHandle(h, msg) ==
  CASE msg.type \in {"subscribed", "pong"} -> Quiet(h)
    [] msg.type = "update" -> ParseTicker(h, msg)
    [] OTHER -> Failed(h)

HandleMessage(exchange, h, msg) ==
  CASE exchange = "binance" -> BinanceHandle(h, msg)
    [] exchange = "bitfinex" -> BitfinexHandle(h, msg)
    [] exchange = "bitstamp" -> BitstampHandle(h, msg)
    [] exchange = "bybit" -> BybitHandle(h, msg)
    [] exchange = "coinbase" -> CoinbaseHandle(h, msg)
    [] exchange = "cryptodotcom" -> CryptodotcomHandle(h, msg)
    [] exchange = "gate" -> GateHandle(h, msg)
    [] exchange = "huobi" -> HuobiHandle(h, msg)
    [] exchange = "kraken" -> KrakenHandle(h, msg)
    [] exchange = "kucoin" -> KucoinHandle(h, msg)
    [] exchange = "mexc" -> MexcHandle(h, msg)
    [] exchange = "okx" -> OkxHandle(h, msg)
=============================================================================
