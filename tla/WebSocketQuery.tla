--------------------------- MODULE WebSocketQuery ---------------------------
(***************************************************************************)
(* A web socket connection of a provider: startWebSocket calls Start of    *)
(* the query handler again and again, on one copy of the data handler;     *)
(* Start dials, subscribes, and receives until the connection fails or the *)
(* context is done, with a goroutine that sends heartbeats over the same   *)
(* connection. The connection handler's mutex is held while Read waits.    *)
(* The responses go through the provider's channel to updateData.          *)
(*                                                                         *)
(* The exchange is external: it confirms or refuses subscriptions, sends   *)
(* every price of a subscribed ticker, in order except where a handler     *)
(* checks sequence numbers, and may break the connection at any time. A    *)
(* price is <<ticker, number>>, its place in the history of the ticker.    *)
(***************************************************************************)
EXTENDS WebSocketExchanges

CONSTANTS
  Ticker,             \* the tickers of the exchange
  Exchange,           \* the exchanges to look at
  IDs,                \* the lists of tickers a connection may be given
  BufferSize,         \* WebSocketConfig.MaxBufferSize
  MaxReadErrorCount,  \* WebSocketConfig.MaxReadErrorCount
  MaxPrices,          \* bound: prices of a ticker
  MaxDials,           \* bound: calls of Start
  MaxExtra,           \* bound: heartbeats, rejections, bad prices, other messages
  MaxInFlight         \* bound: messages on the wire, each way

ASSUME QueryConstants ==
  /\ IsFiniteSet(Ticker) /\ Bad \notin Ticker \X Nat
  /\ Exchange \subseteq Exchanges /\ IDs \subseteq Seq(Ticker) \ {<<>>}
  /\ BufferSize \in Nat /\ MaxReadErrorCount \in Nat

VARIABLES
  exchange, ids,  \* which data handler this is, and its tickers
  ctxDone,        \* the fetch context
  pc,             \* where startWebSocket, Start and recv are
  handler,        \* the data handler's state
  writes,         \* the messages still to be written
  readErrCount,
  dial,           \* the number of the connection
  conn,           \* "none", "open", "deaf" (reads fail), "broken" or "closed"
  heartBeat,      \* dial -> its heartbeat goroutine
  response,       \* what recv is about to send
  responseCh,
  data,           \* ticker -> the stored price, as the provider keeps it
  market,         \* ticker -> the number of its latest price
  subs,           \* the tickers subscribed on this connection, with their channel
  toExchange, fromExchange,
  extra           \* the budget of MaxExtra that is used up

handlerVars == <<exchange, ids, pc, handler, writes, readErrCount, response>>
connVars == <<dial, conn, subs, toExchange, fromExchange>>
vars == <<handlerVars, connVars, ctxDone, heartBeat, responseCh, data, market, extra>>

NoData == [price |-> <<>>, asOf |-> 0, dial |-> 0]

(* A response: the prices, and for the unchanged ones the exchange's price *)
(* at the time it sent the message; and the connection it came over.       *)
Report(res, msg) == [resolved |-> res.resolved, unchanged |-> res.unchanged,
                     asOf |-> [t \in res.unchanged |-> msg.asOf[t]], dial |-> dial]

-----------------------------------------------------------------------------
(* The connection. Read waits with the mutex held; Write and Close take it *)
(* for a moment.                                                           *)
Locked == pc = "reading"

(* What is written to a connection that works reaches the exchange, which  *)
(* answers subscriptions and pings.                                        *)
Write(msg) ==
  /\ conn \in {"open", "deaf"}
  /\ toExchange' =
       IF conn = "open" /\ (msg.type = "subscribe" \/ (msg.type = "ping" /\ Len(toExchange) < MaxInFlight))
       THEN Append(toExchange, msg) ELSE toExchange

WriteFails == conn \in {"none", "broken", "closed"}

(* Close leaves the connection as it is when it cannot write the close     *)
(* message.                                                                *)
Close == conn' = IF conn \in {"open", "deaf"} THEN "closed" ELSE conn

(* What is on its way when the connection ends is lost, and so are the     *)
(* subscriptions.                                                          *)
DropWire == subs' = <<>> /\ toExchange' = <<>> /\ fromExchange' = <<>>

Goto(next) == pc' = next
Spend == extra < MaxExtra /\ extra' = extra + 1
HandlerStep == UNCHANGED <<exchange, ids, ctxDone, heartBeat, data, market, extra>>

-----------------------------------------------------------------------------
(* startWebSocket's loop: the handler is started unless the context is     *)
(* done. Start dials, on a connection of its own.                          *)
StopLoop ==
  /\ pc = "idle" /\ ctxDone
  /\ Goto("stopped")
  /\ HandlerStep /\ UNCHANGED <<handler, writes, readErrCount, response, responseCh, connVars>>

DialSucceeds ==
  LET created == CreateMessages(exchange, handler, ids)
  IN  /\ pc = "idle" /\ ~ctxDone /\ dial < MaxDials
      /\ dial' = dial + 1 /\ conn' = "open"
      /\ DropWire
      /\ handler' = created.h
      /\ writes' = created.writes
      /\ Goto(IF created.err THEN "report" ELSE "subscribe")
      /\ HandlerStep /\ UNCHANGED <<readErrCount, response, responseCh>>

(* The dialer returns no connection.                                       *)
DialFails ==
  /\ pc = "idle" /\ ~ctxDone /\ dial < MaxDials
  /\ dial' = dial + 1 /\ conn' = "none" /\ DropWire
  /\ Goto("report")
  /\ HandlerStep /\ UNCHANGED <<handler, writes, readErrCount, response, responseCh>>

(* The subscriptions are written one by one; then the heartbeats start.    *)
WriteSubscription ==
  /\ pc = "subscribe"
  /\ Write(Head(writes))
  /\ writes' = Tail(writes)
  /\ IF Len(writes) = 1
     THEN /\ Goto("loop")
          /\ heartBeat' = IF exchange \in PingExchanges
                          THEN [heartBeat EXCEPT ![dial] = "on"] ELSE heartBeat
     ELSE Goto("interval") /\ UNCHANGED heartBeat
  /\ UNCHANGED <<exchange, ids, ctxDone, handler, readErrCount, response, responseCh, data, market, extra,
                 dial, conn, subs, fromExchange>>

WriteSubscriptionFails ==
  /\ pc = "subscribe" /\ WriteFails
  /\ Goto("report")
  /\ HandlerStep /\ UNCHANGED <<handler, writes, readErrCount, response, responseCh, connVars>>

(* The write interval. If the context is done first, start closes the      *)
(* connection and returns what close returned: nothing, and Start goes on  *)
(* to recv, or an error.                                                   *)
WriteInterval ==
  /\ pc = "interval"
  /\ Goto("subscribe")
  /\ HandlerStep /\ UNCHANGED <<handler, writes, readErrCount, response, responseCh, connVars>>

CancelSubscribe ==
  /\ pc = "interval" /\ ctxDone
  /\ Close /\ DropWire
  /\ Goto(IF WriteFails THEN "report" ELSE "loop")
  /\ HandlerStep /\ UNCHANGED <<handler, writes, readErrCount, response, responseCh, dial>>

(* The error of a failed start is sent without a look at the context.      *)
ReportStartError ==
  /\ pc = "report" /\ Len(responseCh) < BufferSize
  /\ responseCh' = Append(responseCh, [resolved |-> <<>>, unchanged |-> {}, asOf |-> <<>>, dial |-> dial])
  /\ Goto("return")
  /\ HandlerStep /\ UNCHANGED <<handler, writes, readErrCount, response, connVars>>

(* The deferred cancel of Start ends its heartbeats, and startWebSocket    *)
(* waits and starts over.                                                  *)
Return ==
  /\ pc = "return"
  /\ Goto("idle")
  /\ writes' = <<>> /\ readErrCount' = 0 /\ response' = <<>>
  /\ HandlerStep /\ UNCHANGED <<handler, responseCh, connVars>>

-----------------------------------------------------------------------------
(* recv.                                                                   *)
CloseAndReturn == Close /\ DropWire /\ Goto("return") /\ UNCHANGED dial

CheckContext ==
  /\ pc = "loop"
  /\ IF ctxDone THEN CloseAndReturn ELSE Goto("reading") /\ UNCHANGED connVars
  /\ HandlerStep /\ UNCHANGED <<handler, writes, readErrCount, response, responseCh>>

(* Read returns a message, which is handled. With an error the response is *)
(* dropped.                                                                *)
ReadMessage(i) ==
  LET msg == fromExchange[i]
      res == HandleMessage(exchange, handler, msg)
  IN  /\ pc = "reading" /\ conn = "open"
      /\ fromExchange' = RemoveAt(fromExchange, i)
      /\ handler' = res.h
      /\ IF res.err
         THEN Goto("loop") /\ UNCHANGED <<response, writes>>
         ELSE Goto("send") /\ response' = Report(res, msg) /\ writes' = res.writes
      /\ HandlerStep /\ UNCHANGED <<readErrCount, responseCh, dial, conn, subs, toExchange>>

(* Read fails: the connection broke, or nothing came before the deadline,  *)
(* after which every further read of the connection fails.                 *)
ReadFails ==
  /\ pc = "reading" /\ (conn # "open" \/ fromExchange = <<>>)
  /\ readErrCount' = readErrCount + 1
  /\ IF readErrCount + 1 < MaxReadErrorCount
     THEN Goto("loop") /\ conn' = IF conn = "open" THEN "deaf" ELSE conn
     ELSE Goto("return") /\ Close
  /\ DropWire
  /\ HandlerStep /\ UNCHANGED <<handler, writes, response, responseCh, dial>>

(* A panic of the handler is recovered: Start returns, and the connection  *)
(* stays open with nobody reading from it.                                 *)
ReadPanics ==
  /\ pc = "reading" /\ conn = "open" /\ fromExchange # <<>>
  /\ exchange = "bitfinex" /\ BitfinexMayPanic(handler, Head(fromExchange))
  /\ conn' = "deaf" /\ DropWire
  /\ Goto("return")
  /\ HandlerStep /\ UNCHANGED <<handler, writes, readErrCount, response, responseCh, dial>>

(* Faulty variant: the response is sent whatever happens.                  *)
SendResponseAlways ==
  /\ pc = "send" /\ Len(responseCh) < BufferSize
  /\ response' = <<>> /\ responseCh' = Append(responseCh, response)
  /\ Goto(IF writes = <<>> THEN "loop" ELSE "update")
  /\ HandlerStep /\ UNCHANGED <<handler, writes, readErrCount, connVars>>

(* The response is sent, unless the context is done; both may be possible. *)
SendResponse ==
  /\ pc = "send"
  /\ response' = <<>>
  /\ \/ ctxDone /\ CloseAndReturn /\ UNCHANGED responseCh
     \/ /\ Len(responseCh) < BufferSize
        /\ responseCh' = Append(responseCh, response)
        /\ Goto(IF writes = <<>> THEN "loop" ELSE "update")
        /\ UNCHANGED connVars
  /\ HandlerStep /\ UNCHANGED <<handler, writes, readErrCount>>

(* A write that fails is logged.                                           *)
WriteUpdate ==
  /\ pc = "update"
  /\ Write(Head(writes)) \/ (WriteFails /\ UNCHANGED toExchange)
  /\ writes' = Tail(writes)
  /\ Goto(IF Len(writes) = 1 THEN "loop" ELSE "update")
  /\ HandlerStep /\ UNCHANGED <<handler, readErrCount, response, responseCh,
                                dial, conn, subs, fromExchange>>

-----------------------------------------------------------------------------
(* The heartbeat goroutine of the call of Start number d. It writes to the *)
(* connection there is, which may be a later one; it notices that its call *)
(* has returned only between two heartbeats.                               *)
HeartBeatDone(d) == ctxDone \/ d < dial \/ pc \in {"idle", "stopped"}

HeartBeatTick(d) ==
  /\ heartBeat[d] = "on"
  /\ Spend
  /\ heartBeat' = [heartBeat EXCEPT ![d] = "ping"]
  /\ UNCHANGED <<handlerVars, connVars, ctxDone, responseCh, data, market>>

HeartBeatWrite(d) ==
  /\ heartBeat[d] = "ping" /\ ~Locked
  /\ Write(Head(HeartBeatMessages(exchange))) \/ (WriteFails /\ UNCHANGED toExchange)
  /\ heartBeat' = [heartBeat EXCEPT ![d] = "on"]
  /\ UNCHANGED <<handlerVars, dial, conn, subs, fromExchange, ctxDone, responseCh, data, market, extra>>

HeartBeatStops(d) ==
  /\ heartBeat[d] = "on" /\ HeartBeatDone(d)
  /\ heartBeat' = [heartBeat EXCEPT ![d] = "off"]
  /\ UNCHANGED <<handlerVars, connVars, ctxDone, responseCh, data, market, extra>>

-----------------------------------------------------------------------------
(* The provider's recv, which ends with the context, and updateData: an    *)
(* unchanged price is renewed if there is one. Timestamps are taken when a *)
(* message is parsed, and parsed in the order of the channel.              *)
UpdateData(old, r) ==
  [t \in Ticker |->
     IF t \in DOMAIN r.resolved
     THEN [price |-> r.resolved[t], asOf |-> r.resolved[t][2], dial |-> r.dial]
     ELSE IF t \in r.unchanged /\ old[t] # NoData
     THEN [price |-> old[t].price, asOf |-> r.asOf[t],
           dial |-> IF old[t].dial = r.dial THEN r.dial ELSE 0]
     ELSE old[t]]

Recv ==
  /\ responseCh # <<>>
  /\ data' = UpdateData(data, Head(responseCh))
  /\ responseCh' = Tail(responseCh)
  /\ UNCHANGED <<handlerVars, connVars, ctxDone, heartBeat, market, extra>>

(* The provider's ids change, or the oracle stops.                         *)
Cancel ==
  /\ ~ctxDone
  /\ ctxDone' = TRUE
  /\ UNCHANGED <<handlerVars, connVars, heartBeat, responseCh, data, market, extra>>

-----------------------------------------------------------------------------
(* The exchange.                                                           *)
ExchangeStep == UNCHANGED <<handlerVars, ctxDone, dial, heartBeat, responseCh, data>>
MessageAt(seq, type, tickers, id, prices) ==
  [type |-> type, tickers |-> tickers, id |-> id, prices |-> prices,
   asOf |-> IF type \in {"heartbeat", "ping", "pong"} THEN market ELSE <<>>,
   seq |-> seq, trade |-> seq]
Message(type, tickers, id, prices) ==
  MessageAt(IF tickers = {} THEN 0 ELSE market[CHOOSE t \in tickers : TRUE],
            type, tickers, id, prices)
CanSend(n) == conn = "open" /\ Len(fromExchange) + n <= MaxInFlight

(* The exchanges that may send prices out of order.                        *)
Reorders == exchange \in {"coinbase", "kucoin"}

(* The channel numbers of a connection are not those of the one before.    *)
Channels == 1..Cardinality(Ticker)

(* A subscription is confirmed, with a channel number for every ticker     *)
(* that has none ...                                                       *)
Confirm ==
  /\ toExchange # <<>> /\ Head(toExchange).type = "subscribe" /\ CanSend(1)
  /\ LET req == Head(toExchange) IN
     \E chans \in IF exchange = "bitfinex" THEN [req.tickers -> Channels] ELSE {[t \in req.tickers |-> 0]} :
       /\ exchange = "bitfinex" => Range(chans) \cap Range(subs) = {}
       /\ subs' = [t \in req.tickers \cup DOMAIN subs |-> IF t \in req.tickers THEN chans[t] ELSE subs[t]]
       /\ fromExchange' = Append(fromExchange, Message("subscribed", req.tickers,
            IF exchange = "bitfinex" THEN chans[CHOOSE t \in req.tickers : TRUE] ELSE req.id, <<>>))
  /\ toExchange' = Tail(toExchange)
  /\ ExchangeStep /\ UNCHANGED <<conn, market, extra>>

(* ... or refused.                                                         *)
Reject ==
  /\ toExchange # <<>> /\ Head(toExchange).type = "subscribe" /\ CanSend(1)
  /\ Spend
  /\ fromExchange' = Append(fromExchange, Message("rejected", Head(toExchange).tickers, Head(toExchange).id, <<>>))
  /\ toExchange' = Tail(toExchange)
  /\ ExchangeStep /\ UNCHANGED <<conn, market, subs>>

Pong ==
  /\ toExchange # <<>> /\ Head(toExchange).type = "ping" /\ CanSend(1)
  /\ fromExchange' = Append(fromExchange, Message("pong", {}, 0, <<>>))
  /\ toExchange' = Tail(toExchange)
  /\ ExchangeStep /\ UNCHANGED <<conn, market, subs, extra>>

(* A trade: the new price goes to the connection that subscribed to it. A  *)
(* price in text may be one that does not parse; Huobi's are numbers.      *)
TradeAt(t) ==
  /\ t \in ToSet(ids) /\ market[t] < MaxPrices
  /\ market' = [market EXCEPT ![t] = @ + 1]
  /\ IF t \in DOMAIN subs /\ conn = "open"
     THEN /\ Len(fromExchange) < MaxInFlight
          /\ \E p \in {<<t, market'[t]>>} \cup (IF exchange = "huobi" THEN {} ELSE {Bad}) :
               /\ IF p = Bad THEN Spend ELSE UNCHANGED extra
               /\ fromExchange' = Append(fromExchange,
                    MessageAt(market'[t], "update", {t}, subs[t], [s \in {t} |-> p]))
     ELSE UNCHANGED <<fromExchange, extra>>
  /\ ExchangeStep /\ UNCHANGED <<conn, subs, toExchange>>

(* Some exchanges send the latest price with the subscription, or again;   *)
(* OKX and crypto.com may send several at once.                            *)
Snapshot(S) ==
  /\ S # {} /\ S \subseteq DOMAIN subs /\ CanSend(1)
  /\ Cardinality(S) > 1 => exchange \in {"okx", "cryptodotcom"}
  /\ Spend
  /\ fromExchange' = Append(fromExchange,
       Message("update", S, subs[CHOOSE t \in S : TRUE], [t \in S |-> <<t, market[t]>>]))
  /\ ExchangeStep /\ UNCHANGED <<conn, market, subs, toExchange>>

(* Other messages of an exchange. A heartbeat of Coinbase or Bitfinex is   *)
(* about a ticker.                                                         *)
OtherTypes ==
  {"unknown"}
    \cup (IF exchange \in {"bitfinex", "bitstamp", "coinbase", "cryptodotcom", "kraken"}
          THEN {"heartbeat"} ELSE {})
    \cup (IF exchange = "huobi" THEN {"ping"} ELSE {})
    \cup (IF exchange \in {"kucoin", "kraken"} THEN {"welcome"} ELSE {})
    \cup (IF exchange = "bitstamp" THEN {"reconnect"} ELSE {})

Other(type, t) ==
  /\ CanSend(1)
  /\ Spend
  /\ IF type = "heartbeat" /\ exchange \in {"coinbase", "bitfinex"}
     THEN t \in DOMAIN subs /\ fromExchange' = Append(fromExchange, Message(type, {t}, subs[t], <<>>))
     ELSE fromExchange' = Append(fromExchange, Message(type, {}, 0, <<>>))
  /\ ExchangeStep /\ UNCHANGED <<conn, market, subs, toExchange>>

(* The connection breaks; what was on its way is lost.                     *)
Break ==
  /\ conn = "open"
  /\ conn' = "broken"
  /\ DropWire
  /\ ExchangeStep /\ UNCHANGED <<market, extra>>

-----------------------------------------------------------------------------
Init ==
  /\ exchange \in Exchange /\ ids \in IDs
  /\ ctxDone = FALSE /\ pc = "idle"
  /\ handler = NewHandler /\ writes = <<>> /\ readErrCount = 0 /\ response = <<>>
  /\ dial = 0 /\ conn = "none" /\ subs = <<>> /\ toExchange = <<>> /\ fromExchange = <<>>
  /\ heartBeat = [d \in 1..MaxDials |-> "off"]
  /\ responseCh = <<>>
  /\ data = [t \in Ticker |-> NoData]
  /\ market = [t \in Ticker |-> 1]
  /\ extra = 0

HandlerNext ==
  \/ StopLoop \/ DialSucceeds \/ DialFails
  \/ WriteSubscription \/ WriteSubscriptionFails \/ WriteInterval \/ CancelSubscribe
  \/ ReportStartError \/ Return
  \/ CheckContext \/ ReadFails \/ ReadPanics \/ SendResponse \/ WriteUpdate
  \/ \E i \in DOMAIN fromExchange : (i = 1 \/ Reorders) /\ ReadMessage(i)

HeartBeatNext ==
  \E d \in 1..MaxDials : HeartBeatTick(d) \/ HeartBeatWrite(d) \/ HeartBeatStops(d)

ExchangeNext ==
  \/ Confirm \/ Reject \/ Pong \/ Break
  \/ \E t \in Ticker : TradeAt(t) \/ \E type \in OtherTypes : Other(type, t)
  \/ \E S \in SUBSET Ticker : Snapshot(S)

Stopped == pc = "stopped" /\ UNCHANGED vars

Next == HandlerNext \/ HeartBeatNext \/ ExchangeNext \/ Recv \/ Cancel \/ Stopped

(* Go runs the goroutines, and a read ends at its deadline. The provider   *)
(* receives as long as its context is not done. Nothing is assumed of the  *)
(* exchange, nor of how often heartbeats are due.                          *)
Fairness == WF_vars(HandlerNext) /\ WF_vars(~ctxDone /\ Recv)

Spec == Init /\ [][Next]_vars /\ Fairness

-----------------------------------------------------------------------------
(* Type invariant.                                                         *)
WebSocketTypeOK ==
  /\ exchange \in Exchange /\ ids \in IDs /\ ctxDone \in BOOLEAN
  /\ pc \in {"idle", "subscribe", "interval", "report", "return", "loop", "reading", "send",
             "update", "stopped"}
  /\ handler.cache \subseteq Ticker
  /\ readErrCount \in 0..MaxReadErrorCount + 1 /\ dial \in 0..MaxDials
  /\ conn \in {"none", "open", "deaf", "broken", "closed"}
  /\ DOMAIN subs \subseteq Ticker
  /\ heartBeat \in [1..MaxDials -> {"off", "on", "ping"}]
  /\ Len(responseCh) <= BufferSize
  /\ market \in [Ticker -> 1..MaxPrices]

(* The stored data as the abstract feed sees it; a price that is filed     *)
(* under another ticker is none the market ever had.                       *)
FeedPrice == [t \in Ticker |->
  CASE data[t] = NoData -> 0
    [] data[t] # NoData /\ data[t].price[1] = t -> data[t].price[2]
    [] OTHER -> -1]
Feed == INSTANCE PriceFeed WITH price <- FeedPrice

(* Every stored price is one of its own ticker's market, and it is only    *)
(* replaced by a later one: over reconnects with other channel numbers     *)
(* (Bitfinex), messages out of order (Coinbase, KuCoin), prices that do    *)
(* not parse and snapshots that repeat a price.                            *)
ImplementsPriceFeed == Feed!FeedSpec

(* "The receipt of a ping message means that ... market prices are still   *)
(* valid" (huobi/ws_data_handler.go): a price that was renewed without     *)
(* being sent again was the exchange's price when it sent the renewing     *)
(* message. True of Coinbase's heartbeats always, since they name the      *)
(* trade; of Huobi's pings for a price that came over the same connection. *)
RenewedIsCurrent ==
  \A t \in Ticker :
    (data[t] # NoData /\ (exchange = "coinbase" \/ (exchange = "huobi" /\ data[t].dial # 0)))
      => data[t].price[2] = data[t].asOf

(* While a connection works, each of its tickers is subscribed, or its     *)
(* subscription, or the answer that makes the handler ask again, is on its *)
(* way; for the exchanges whose handlers ask again.                        *)
TickersOf(msgs, types) == UNION {msgs[i].tickers : i \in {j \in DOMAIN msgs : msgs[j].type \in types}}
NoTickerForgotten ==
  (exchange \in {"binance", "huobi", "kraken", "okx"} /\ conn = "open" /\ ~ctxDone
     /\ pc \in {"subscribe", "interval", "loop", "reading", "send", "update"})
    => ToSet(ids) \subseteq DOMAIN subs \cup TickersOf(writes, {"subscribe"})
         \cup TickersOf(toExchange, {"subscribe"}) \cup TickersOf(fromExchange, {"rejected"})

(* "The handler must respect the context timeout and close the connection  *)
(* if the context is cancelled" (ws_query_handler.go): once the context is *)
(* done, Start returns and startWebSocket with it, but for a failed start  *)
(* that waits to report to a full channel.                                 *)
ReportStuck == pc = "report" /\ Len(responseCh) = BufferSize
StartReturns == ctxDone ~> (pc = "stopped" \/ ReportStuck)
=============================================================================
