------------------------ MODULE WebSocketQueryProofs ------------------------
(***************************************************************************)
(* Proofs about a web socket connection and the handlers of its exchange:  *)
(* for every set of tickers, size of batches and buffers, number of        *)
(* connections, prices and messages, and every behaviour of the exchange.  *)
(***************************************************************************)
EXTENDS WebSocketQuery, FiniteSetTheorems, SequenceTheorems, TLAPS

(* Prices, by ticker; and what travels on the wire and in the channel.     *)
Price == Ticker \X (Nat \ {0})
Requests ==
  [type : {"subscribe", "ping", "pong", "reconnect", "heartbeat"}, tickers : SUBSET Ticker, id : Nat]
SentPrices == UNION {[S -> Price \cup {Bad}] : S \in SUBSET Ticker}
MessageTypes ==
  {"subscribed", "rejected", "update", "heartbeat", "ping", "pong", "welcome", "reconnect", "unknown"}
Messages ==
  {msg \in [type : MessageTypes, tickers : SUBSET Ticker, id : Nat, prices : SentPrices,
            asOf : {<<>>} \cup [Ticker -> Nat], seq : Nat, trade : Nat] :
     msg.trade = msg.seq}
PriceMaps == UNION {[S -> Price] : S \in SUBSET Ticker}
Responses ==
  {r \in [resolved : PriceMaps, unchanged : SUBSET Ticker,
          asOf : UNION {[S -> Nat] : S \in SUBSET Ticker}, dial : Nat] :
     DOMAIN r.asOf = r.unchanged}
StoredData == [price : Price, asOf : Nat, dial : Nat] \cup {NoData}

Types ==
  /\ exchange \in Exchange /\ ids \in IDs
  /\ handler.cache \in SUBSET Ticker /\ handler.messageIDs \in Seq(SUBSET Ticker)
  /\ writes \in Seq(Requests) /\ toExchange \in Seq(Requests) /\ fromExchange \in Seq(Messages)
  /\ DOMAIN subs \in SUBSET Ticker /\ \A t \in DOMAIN subs : subs[t] \in Nat
  /\ responseCh \in Seq(Responses) /\ (pc = "send" => response \in Responses)
  /\ data \in [Ticker -> StoredData] /\ market \in [Ticker -> Nat \ {0}]
  /\ dial \in Nat

-----------------------------------------------------------------------------
(* Only the exchanges that expect pings are sent any.                      *)
HeartBeatsOK ==
  /\ heartBeat \in [1..MaxDials -> {"off", "on", "ping"}]
  /\ exchange \notin PingExchanges => \A d \in 1..MaxDials : heartBeat[d] = "off"

(* Requests are about tickers of the connection, by batches; the answers   *)
(* repeat them. Binance knows a request by its number.                     *)
AboutRequest(tickers, id, x, h) ==
  /\ tickers \subseteq h.cache /\ IsFiniteSet(tickers)
  /\ x = "bitfinex" => \E t \in Ticker : tickers = {t}
  /\ x = "binance" => id \in DOMAIN h.messageIDs /\ h.messageIDs[id] = tickers
RequestOK(req, x, h) == req.type = "subscribe" => AboutRequest(req.tickers, req.id, x, h)

RequestsOK ==
  /\ \A i \in DOMAIN writes : RequestOK(writes[i], exchange, handler)
  /\ \A i \in DOMAIN toExchange : RequestOK(toExchange[i], exchange, handler)

(* What is written next is what is left of the subscriptions, or of the    *)
(* handler's answer; a connection that is not open carries nothing.        *)
WritesOK ==
  /\ pc \in {"subscribe", "interval", "update"} => writes # <<>>
  /\ pc \in {"loop", "reading"} /\ ~ctxDone => writes = <<>>
  /\ conn # "open" => subs = <<>> /\ toExchange = <<>> /\ fromExchange = <<>>

(* An answer is about the tickers of its request, a price is the ticker's  *)
(* own, and where messages are reordered it is numbered.                   *)
PriceOK(price, t, seq, x, m) == price # Bad =>
  /\ price = <<t, price[2]>> /\ price[2] \in 1..m[t]
  /\ x \in {"coinbase", "kucoin"} => price[2] = seq
MessageOK(msg, x, h, m) ==
  /\ msg.type \in {"subscribed", "rejected"} => AboutRequest(msg.tickers, msg.id, x, h)
  /\ msg.type # "update" => msg.prices = <<>>
  /\ msg.type \in {"heartbeat", "ping", "pong"} => msg.asOf \in [Ticker -> Nat]
  /\ \A t \in DOMAIN msg.prices : PriceOK(msg.prices[t], t, msg.seq, x, m)
  /\ msg.type = "update" => msg.tickers = DOMAIN msg.prices
  /\ msg.type \in {"update", "heartbeat"} /\ x \in {"bitfinex", "coinbase", "kucoin"} =>
       \E t \in Ticker : msg.tickers = {t} /\ msg.seq <= m[t]
MessagesOK == \A i \in DOMAIN fromExchange : MessageOK(fromExchange[i], exchange, handler, market)

(* Bitfinex: when message i is read, its channel is the one the handler    *)
(* was last told for the ticker.                                           *)
Maps(msg, ch) == msg.type = "subscribed" /\ msg.id = ch
ChannelIs(wire, map, ch, t, i) ==
  \/ \E j \in 1 .. i - 1 :
       /\ Maps(wire[j], ch) /\ wire[j].tickers = {t}
       /\ \A k \in j + 1 .. i - 1 : ~Maps(wire[k], ch)
  \/ /\ \A k \in 1 .. i - 1 : ~Maps(wire[k], ch)
     /\ ch \in DOMAIN map /\ map[ch] = t
ChannelsOK ==
  exchange = "bitfinex" =>
    /\ \A t \in DOMAIN subs :
         ChannelIs(fromExchange, handler.channelMap, subs[t], t, Len(fromExchange) + 1)
    /\ \A i \in DOMAIN fromExchange : \A t \in DOMAIN fromExchange[i].prices :
         ChannelIs(fromExchange, handler.channelMap, fromExchange[i].id, t, i)

-----------------------------------------------------------------------------
(* The responses on their way, with the one recv is about to send.         *)
Queue == IF pc = "send" THEN Append(responseCh, response) ELSE responseCh

(* The stored price of a ticker, and those on their way, are at most n.    *)
Number(d) == IF d = NoData THEN 0 ELSE d.price[2]
Prices(r, t) == t \in DOMAIN r.resolved
AtMost(queue, d, t, n) ==
  /\ Number(d) <= n
  /\ \A i \in DOMAIN queue : Prices(queue[i], t) => queue[i].resolved[t][2] <= n

(* The prices of a ticker are its own, and on their way in the order of    *)
(* the market.                                                             *)
QueueInOrder(queue, d, t) ==
  /\ d # NoData => d.price[1] = t
  /\ \A i \in DOMAIN queue : Prices(queue[i], t) =>
       /\ queue[i].resolved[t][1] = t
       /\ Number(d) <= queue[i].resolved[t][2]
       /\ \A j \in DOMAIN queue : i <= j /\ Prices(queue[j], t) =>
            queue[i].resolved[t][2] <= queue[j].resolved[t][2]
Good(msg, t) == t \in DOMAIN msg.prices /\ msg.prices[t] # Bad
WireInOrder(wire, queue, d, t) ==
  \A i \in DOMAIN wire : Good(wire[i], t) =>
    /\ AtMost(queue, d, t, wire[i].prices[t][2])
    /\ \A j \in DOMAIN wire : i <= j /\ Good(wire[j], t) =>
         wire[i].prices[t][2] <= wire[j].prices[t][2]
SequenceOf(h, t) == Get(h.sequence, t, 0)
InOrder ==
  \A t \in Ticker :
    /\ QueueInOrder(Queue, data[t], t) /\ AtMost(Queue, data[t], t, market[t])
    /\ ~Reorders => WireInOrder(fromExchange, Queue, data[t], t)
    /\ Reorders => /\ SequenceOf(handler, t) \in 0 .. market[t]
                   /\ AtMost(Queue, data[t], t, SequenceOf(handler, t))

-----------------------------------------------------------------------------
(* The renewal of prices. A price of ticker t is the last one before the   *)
(* response k, or message k, if it is number j and none follows.           *)
LastInQueue(queue, t, j, k) == j < k /\ \A i \in j + 1 .. k - 1 : ~Prices(queue[i], t)
LastOnWire(wire, t, j, k) == j < k /\ \A i \in j + 1 .. k - 1 : t \notin DOMAIN wire[i].prices

(* If the last price in the queue before k, or else the stored one, came   *)
(* over connection c, or whatever it came over, it is number n.            *)
LastPriceIs(queue, d, x, t, k, c, n) ==
  /\ \A j \in 1 .. k - 1 :
       (LastInQueue(queue, t, j, k) /\ Prices(queue[j], t) /\ (x = "coinbase" \/ queue[j].dial = c))
         => queue[j].resolved[t][2] = n
  /\ (LastInQueue(queue, t, 0, k) /\ d # NoData /\ (x = "coinbase" \/ d.dial = c)) => d.price[2] = n

RenewsOK ==
  exchange \in {"coinbase", "huobi"} =>
  \A t \in Ticker : \A k \in DOMAIN Queue :
    t \in Queue[k].unchanged =>
      LastPriceIs(Queue, data[t], exchange, t, k, Queue[k].dial, Queue[k].asOf[t])

(* No response came over a connection to come; one came over none at all   *)
(* is a failed start's, which renews nothing.                              *)
DialsOK ==
  /\ \A k \in DOMAIN Queue : Queue[k].dial \in 1 .. dial
  /\ \A t \in Ticker : data[t] # NoData => data[t].dial \in 0 .. dial
  /\ conn = "open" => dial > 0
  /\ pc \notin {"idle", "stopped"} => dial > 0

(* Coinbase: the trade of a ticker is the one of its last price, unless    *)
(* that was not sent because the context was done.                         *)
TradesOK ==
  (exchange = "coinbase" /\ ~(ctxDone /\ pc \in {"return", "idle", "stopped"})) =>
    \A t \in Ticker :
      LastPriceIs(Queue, data[t], exchange, t, Len(Queue) + 1, dial, Get(handler.tradeIDs, t, 0))
CoinbaseHeartbeatsOK ==
  exchange = "coinbase" =>
    \A i \in DOMAIN fromExchange : fromExchange[i].type = "heartbeat" =>
      \A t \in fromExchange[i].tickers : fromExchange[i].trade = fromExchange[i].asOf[t]

(* Huobi: the last price that came over this connection, before the ping   *)
(* i, is the one the exchange had then; before what comes next, the one it *)
(* has now.                                                                *)
HuobiLastIs(wire, queue, d, t, i, c, n) ==
  /\ \A j \in 1 .. i - 1 :
       (LastOnWire(wire, t, j, i) /\ t \in DOMAIN wire[j].prices) => wire[j].prices[t][2] = n
  /\ LastOnWire(wire, t, 0, i) => LastPriceIs(queue, d, "huobi", t, Len(queue) + 1, c, n)
HuobiOK ==
  exchange = "huobi" /\ conn = "open" =>
    /\ \A i \in DOMAIN fromExchange :
         /\ DOMAIN fromExchange[i].prices \subseteq handler.cache
         /\ \A t \in DOMAIN fromExchange[i].prices : fromExchange[i].prices[t] # Bad
         /\ fromExchange[i].type = "ping" =>
              \A t \in Ticker : HuobiLastIs(fromExchange, Queue, data[t], t, i, dial, fromExchange[i].asOf[t])
    /\ \A t \in Ticker :
         HuobiLastIs(fromExchange, Queue, data[t], t, Len(fromExchange) + 1, dial, market[t])
    /\ DOMAIN subs \subseteq handler.cache
    /\ \A t \in Ticker \ DOMAIN subs :
         /\ \A i \in DOMAIN fromExchange : t \notin DOMAIN fromExchange[i].prices
         /\ \A j \in DOMAIN Queue : Prices(Queue[j], t) => Queue[j].dial # dial
         /\ data[t] # NoData => data[t].dial # dial

-----------------------------------------------------------------------------
(* Helpers: finite sets as sequences, batches, and functions with updates. *)
LEMMA SequenceSets ==
  ASSUME NEW s \in Seq(Ticker)
  PROVE  ToSet(s) \in SUBSET Ticker /\ IsFiniteSet(ToSet(s))
<1>1. ToSet(s) = {s[i] : i \in DOMAIN s} /\ DOMAIN s = 1..Len(s) /\ Len(s) \in Nat
  BY DEF ToSet
<1>2. IsFiniteSet(DOMAIN s)
  BY <1>1, FS_Interval
<1>3. [i \in DOMAIN s |-> s[i]] \in Surjection(DOMAIN s, ToSet(s))
  BY <1>1 DEF Surjection
<1> QED
  BY <1>1, <1>2, <1>3, FS_Surjection

(* A finite set of tickers as a sequence.                                  *)
LEMMA SetToSeqFacts ==
  ASSUME NEW S \in SUBSET Ticker, IsFiniteSet(S)
  PROVE  SetToSeq(S) \in Seq(Ticker) /\ ToSet(SetToSeq(S)) = S
<1> DEFINE n == Cardinality(S)
           f == SetToSeq(S)
<1>1. n \in Nat
  BY FS_CardinalityType
<1>2. \E g \in [1..n -> S] : IsInjective(g)
  <2>1. ExistsBijection(1..n, S)
    BY FS_CardinalityType
  <2>2. PICK g : g \in Bijection(1..n, S)
    BY <2>1 DEF ExistsBijection
  <2> QED
    BY <2>2 DEF Bijection, Injection, IsInjective
<1>3. f \in [1..n -> S] /\ IsInjective(f)
  BY <1>2 DEF SetToSeq
<1> HIDE DEF f, n
<1>4. f \in Seq(Ticker) /\ Len(f) = n /\ DOMAIN f = 1..n
  BY <1>1, <1>3
<1>5. f \in Injection(1..n, S)
  BY <1>3 DEF Injection, IsInjective
<1>6. IsFiniteSet(1..n) /\ Cardinality(1..n) = n
  BY <1>1, FS_Interval
<1>7. f \in Surjection(1..n, S)
  BY <1>5, <1>6, FS_Injection DEF n
<1>8. ToSet(f) = S
  BY <1>4, <1>7 DEF ToSet, Surjection
<1> QED
  BY <1>4, <1>8 DEF f

(* Every ticker is in a batch, and the batches are subsets of the tickers. *)
LEMMA BatchesFacts ==
  ASSUME NEW x, NEW s \in Seq(Ticker)
  PROVE  /\ Batches(x, s) \in Seq(SUBSET Ticker)
         /\ \A i \in DOMAIN Batches(x, s) :
              /\ Batches(x, s)[i] \subseteq ToSet(s) /\ IsFiniteSet(Batches(x, s)[i])
              /\ x = "bitfinex" => \E t \in Ticker : Batches(x, s)[i] = {t}
         /\ \A t \in ToSet(s) : \E i \in DOMAIN Batches(x, s) : t \in Batches(x, s)[i]
<1> DEFINE size == IF x \in {"bitfinex", "bitstamp", "huobi"} THEN 1 ELSE MaxSubscriptionsPerBatch
           n == (Len(s) + size - 1) \div size
           first(i) == (i - 1) * size + 1
           last(i) == IF i * size < Len(s) THEN i * size ELSE Len(s)
           batch(i) == SubSeq(s, first(i), last(i))
<1>1. size \in Nat /\ size >= 1 /\ Len(s) \in Nat
  BY ExchangeConstants
<1>2. n \in Nat /\ \A i \in 1..n : (i - 1) * size < Len(s)
  <2>1. \A a, b \in Nat : b >= 1 => a \div b \in Nat /\ (a \div b) * b <= a
    OBVIOUS
  <2>2. Len(s) + size - 1 \in Nat
    BY <1>1
  <2> HIDE DEF size
  <2>3. n \in Nat /\ n * size <= Len(s) + size - 1
    BY <1>1, <2>1, <2>2
  <2> HIDE DEF n
  <2>4. ASSUME NEW i \in 1..n
        PROVE  (i - 1) * size < Len(s)
    <3>1. i * size <= n * size
      BY <1>1, <2>3
    <3>2. (i - 1) * size = i * size - size
      BY <1>1
    <3> QED
      BY <1>1, <2>3, <3>1, <3>2
  <2> QED
    BY <2>3, <2>4
<1>3. ASSUME NEW j \in 1..Len(s)
      PROVE  \E i \in 1..n : first(i) <= j /\ j <= last(i)
  <2> DEFINE q == (j - 1) \div size
  <2>1. \A a, b \in Nat : b >= 1 =>
          a \div b \in Nat /\ (a \div b) * b <= a /\ a < (a \div b) * b + b
    OBVIOUS
  <2>2. Len(s) + size - 1 \in Nat /\ j - 1 \in Nat /\ j <= Len(s)
    BY <1>1
  <2> HIDE DEF size
  <2>3. n \in Nat /\ Len(s) + size - 1 < n * size + size
    BY <1>1, <2>1, <2>2
  <2>4. q \in Nat /\ q * size <= j - 1 /\ j - 1 < q * size + size
    BY <1>1, <2>1, <2>2
  <2> HIDE DEF n, q
  <2>5. q < n
    <3>1. q * size < n * size
      BY <1>1, <2>2, <2>3, <2>4
    <3> QED
      BY <1>1, <2>3, <2>4, <3>1
  <2>6. (q + 1) * size = q * size + size /\ (q + 1 - 1) * size = q * size
    BY <1>1, <2>4
  <2>7. q + 1 \in 1..n
    BY <2>3, <2>4, <2>5
  <2>8. first(q + 1) <= j /\ j <= last(q + 1)
    BY <1>1, <2>2, <2>4, <2>6
  <2> QED
    BY <2>7, <2>8
<1>4. Batches(x, s) = [i \in 1..n |-> ToSet(batch(i))]
  BY DEF Batches
<1>5. ASSUME NEW i \in 1..n
      PROVE  /\ first(i) \in 1..Len(s) /\ last(i) \in first(i)..Len(s)
             /\ x = "bitfinex" => last(i) = first(i)
  <2>1. (i - 1) * size \in Nat /\ i * size = (i - 1) * size + size /\ (i - 1) * size < Len(s)
    <3> HIDE DEF size, n
    <3> QED
      BY <1>1, <1>2
  <2>2. x = "bitfinex" => size = 1
    OBVIOUS
  <2> HIDE DEF size, n
  <2> QED
    BY <1>1, <2>1, <2>2
<1> HIDE DEF first, last, n
<1>6. ASSUME NEW i \in 1..n
      PROVE  /\ batch(i) \in Seq(Ticker)
             /\ ToSet(batch(i)) = {s[j] : j \in first(i)..last(i)}
  <2> DEFINE a == first(i)
             b == last(i)
             B == batch(i)
  <2>1. a \in 1..Len(s) /\ b \in a..Len(s) /\ \A j \in a..b : s[j] \in Ticker
    BY <1>1, <1>5
  <2> HIDE DEF a, b
  <2>2. /\ B \in Seq(Ticker) /\ Len(B) = b - a + 1
        /\ \A k \in 1..(b - a + 1) : B[k] = s[a + k - 1]
    BY <1>1, <2>1, SubSeqProperties DEF a, b
  <2> HIDE DEF B
  <2>3. DOMAIN B = 1..(b - a + 1)
    BY <2>2
  <2>4. \A k \in 1..(b - a + 1) : a + k - 1 \in a..b
    BY <1>1, <2>1
  <2>5. \A j \in a..b : j - a + 1 \in 1..(b - a + 1) /\ a + (j - a + 1) - 1 = j
    BY <1>1, <2>1
  <2>6. ToSet(B) \subseteq {s[j] : j \in a..b}
    BY <2>2, <2>3, <2>4 DEF ToSet
  <2>7. ASSUME NEW j \in a..b
        PROVE  s[j] \in ToSet(B)
    <3>1. B[j - a + 1] = s[j] /\ j - a + 1 \in DOMAIN B
      BY <2>2, <2>3, <2>5
    <3> QED
      BY <3>1 DEF ToSet
  <2> QED
    BY <2>2, <2>6, <2>7 DEF a, b, B
<1> HIDE DEF batch
<1>7. \A i \in 1..n : ToSet(batch(i)) \in SUBSET Ticker /\ IsFiniteSet(ToSet(batch(i)))
  BY <1>6, SequenceSets
<1>8. Batches(x, s) \in Seq(SUBSET Ticker) /\ DOMAIN Batches(x, s) = 1..n
  BY <1>2, <1>4, <1>7
<1>9. ASSUME NEW i \in 1..n
      PROVE  ToSet(batch(i)) \subseteq ToSet(s)
  <2>1. first(i)..last(i) \subseteq DOMAIN s
    BY <1>1, <1>5
  <2>2. ToSet(batch(i)) = {s[j] : j \in first(i)..last(i)}
    BY <1>6
  <2> QED
    BY <2>1, <2>2 DEF ToSet
<1>10. ASSUME NEW t \in ToSet(s)
       PROVE  \E i \in 1..n : t \in ToSet(batch(i))
  <2>1. PICK j \in 1..Len(s) : t = s[j]
    BY <1>1 DEF ToSet
  <2>2. PICK i \in 1..n : first(i) <= j /\ j <= last(i)
    BY <1>3
  <2>3. j \in first(i)..last(i)
    BY <1>5, <2>2
  <2> QED
    BY <1>6, <2>1, <2>3
<1>11. ASSUME NEW i \in 1..n, x = "bitfinex"
       PROVE  \E t \in Ticker : ToSet(batch(i)) = {t}
  <2>1. first(i)..last(i) = {first(i)} /\ s[first(i)] \in Ticker
    BY <1>1, <1>5, <1>11
  <2>2. ToSet(batch(i)) = {s[first(i)]}
    BY <1>6, <2>1
  <2> QED
    BY <2>1, <2>2
<1> QED
  BY <1>4, <1>7, <1>8, <1>9, <1>10, <1>11

(* A function with one value set.                                          *)
LEMMA PutFacts ==
  ASSUME NEW f, NEW x, NEW v
  PROVE  /\ DOMAIN Put(f, x, v) = DOMAIN f \cup {x}
         /\ \A y \in DOMAIN f \cup {x} : Put(f, x, v)[y] = IF y = x THEN v ELSE f[y]
         /\ \A y, d : Get(Put(f, x, v), y, d) = IF y = x THEN v ELSE Get(f, y, d)
BY DEF Put, Get

-----------------------------------------------------------------------------
(* What a handler makes of a message: the prices it resolves are those of  *)
(* the message, and its requests are about what was refused.               *)
NoPrices == <<>>
ResolvedFrom(prices, msg) ==
  /\ prices \in PriceMaps
  /\ \A t \in DOMAIN prices : t \in DOMAIN msg.prices /\ msg.prices[t] # Bad /\ prices[t] = msg.prices[t]

RequestFor(req, h, msg) ==
  /\ exchange # "bitfinex" /\ msg.type = "rejected" /\ req.tickers \subseteq msg.tickers /\ IsFiniteSet(req.tickers)
  /\ exchange = "binance" => req.id \in DOMAIN h.messageIDs /\ h.messageIDs[req.id] = req.tickers

Outcome(res, msg) ==
  /\ res.err \in BOOLEAN
  /\ ~res.err => ResolvedFrom(res.resolved, msg)
  /\ res.unchanged \in SUBSET Ticker
  /\ res.unchanged # {} => DOMAIN res.resolved = {} /\ msg.type \in {"heartbeat", "ping", "pong"}
  /\ res.h.cache = handler.cache
  /\ res.h.messageIDs \in Seq(SUBSET Ticker)
  /\ \A k \in DOMAIN handler.messageIDs :
       k \in DOMAIN res.h.messageIDs /\ res.h.messageIDs[k] = handler.messageIDs[k]
  /\ res.writes \in Seq(Requests)
  /\ \A i \in DOMAIN res.writes : res.writes[i].type = "subscribe" => RequestFor(res.writes[i], res.h, msg)

(* A state of the handler with the cache and the requests it has.          *)
SameCache(h) == h.cache = handler.cache /\ h.messageIDs = handler.messageIDs

(* No prices are prices of any message.                                    *)
LEMMA NoPricesFacts ==
  /\ NoPrices \in PriceMaps /\ DOMAIN NoPrices = {}
  /\ \A msg : ResolvedFrom(NoPrices, msg)
<1>1. NoPrices = [t \in {} |-> Bad] /\ [t \in {} |-> Bad] \in [{} -> Price]
  BY DEF NoPrices
<1> QED
  BY <1>1 DEF PriceMaps, ResolvedFrom

(* The plain outcomes of a message are as they should be.                  *)
LEMMA SimpleOutcomes ==
  ASSUME Types, NEW msg \in Messages, NEW h, SameCache(h)
  PROVE  /\ Outcome(Quiet(h), msg) /\ Outcome(Failed(h), msg)
         /\ \A S : Outcome(Unresolved(h, S), msg)
         /\ \A S \in SUBSET Ticker : msg.type \in {"heartbeat", "ping", "pong"} =>
              Outcome(Unchanged(h, S), msg)
         /\ \A prices : ResolvedFrom(prices, msg) => Outcome(Resolved(h, prices), msg)
         /\ \A w \in Seq(Requests) : (\A i \in DOMAIN w : w[i].type # "subscribe") => Outcome(Writes(h, w), msg)
<1>1. /\ h.messageIDs \in Seq(SUBSET Ticker)
      /\ \A k \in DOMAIN handler.messageIDs :
           k \in DOMAIN h.messageIDs /\ h.messageIDs[k] = handler.messageIDs[k]
  BY DEF Types, SameCache
<1>2. ResolvedFrom(<<>>, msg) /\ DOMAIN <<>> = {}
  BY NoPricesFacts DEF NoPrices
<1> QED
  BY <1>1, <1>2 DEF Outcome, SameCache, Quiet, Failed, Unresolved, Unchanged, Resolved, Writes, Result

(* So is what comes of parsing one price, or several.                      *)
LEMMA ParseOutcomes ==
  ASSUME Types, NEW msg \in Messages
  PROVE  Outcome(ParseTicker(handler, msg), msg) /\ Outcome(ParseTickers(handler, msg), msg)
<1>1. PICK S \in SUBSET Ticker : msg.prices \in [S -> Price \cup {Bad}]
  BY DEF Messages, SentPrices
<1>2. ASSUME \A t \in DOMAIN msg.prices : msg.prices[t] # Bad
      PROVE  ResolvedFrom(msg.prices, msg)
  <2>1. msg.prices \in [S -> Price]
    BY <1>1, <1>2
  <2> QED
    BY <1>2, <2>1 DEF ResolvedFrom, PriceMaps
<1>3. SameCache(handler)
  BY DEF SameCache
<1>4. Outcome(ParseTicker(handler, msg), msg)
  BY <1>2, <1>3, SimpleOutcomes DEF ParseTicker
<1> DEFINE known == DOMAIN msg.prices \cap handler.cache
           bad == {t \in known : msg.prices[t] = Bad}
           prices == [t \in known \ bad |-> msg.prices[t]]
<1>5. ResolvedFrom(prices, msg)
  <2>1. known \ bad \in SUBSET Ticker /\ prices \in [known \ bad -> Price]
    BY <1>1
  <2> QED
    BY <2>1 DEF ResolvedFrom, PriceMaps
<1> HIDE DEF prices
<1>6. Outcome(Resolved(handler, prices), msg)
  BY <1>3, <1>5, SimpleOutcomes
<1>7. ParseTickers(handler, msg) = Result(handler, FALSE, prices, {}, bad, <<>>)
  BY DEF ParseTickers, prices
<1>8. Outcome(ParseTickers(handler, msg), msg)
  BY <1>6, <1>7 DEF Outcome, Resolved, Result
<1> QED
  BY <1>4, <1>8

(* Subscriptions to batches: one request for each, which Binance numbers.  *)
LEMMA SubscribeFacts ==
  ASSUME NEW h, NEW batches \in Seq(SUBSET Ticker)
  PROVE  LET res == Subscribe(h, batches)
         IN  /\ res.h = h /\ res.err \in BOOLEAN /\ (res.err <=> batches = <<>>)
             /\ res.resolved = <<>> /\ res.unchanged = {}
             /\ res.writes \in Seq(Requests) /\ DOMAIN res.writes = DOMAIN batches
             /\ \A i \in DOMAIN batches :
                  res.writes[i].type = "subscribe" /\ res.writes[i].tickers = batches[i]
<1> DEFINE w == [i \in DOMAIN batches |-> Request("subscribe", batches[i], 0)]
           res == Subscribe(h, batches)
<1>1. /\ w \in Seq(Requests) /\ DOMAIN w = DOMAIN batches
      /\ \A i \in DOMAIN batches : w[i].type = "subscribe" /\ w[i].tickers = batches[i]
  <2>1. \A i \in DOMAIN batches : Request("subscribe", batches[i], 0) \in Requests
    BY DEF Request, Requests
  <2> QED
    BY <2>1 DEF Request
<1> HIDE DEF w
<1>2. res = Result(h, batches = <<>>, <<>>, {}, {}, w)
  BY DEF Subscribe, w
<1> HIDE DEF res
<1>3. /\ res.h = h /\ res.err = (batches = <<>>)
      /\ res.resolved = <<>> /\ res.unchanged = {} /\ res.writes = w
  BY <1>2, Zenon DEF Result
<1>4. res.err \in BOOLEAN /\ (res.err <=> batches = <<>>)
  BY <1>3
<1> QED
  BY <1>1, <1>3, <1>4 DEF res

(* Binance numbers a request by the batches remembered.                    *)
LEMMA BinanceSubscribeFacts ==
  ASSUME NEW h, h.messageIDs \in Seq(SUBSET Ticker), NEW batches \in Seq(SUBSET Ticker)
  PROVE  LET res == BinanceSubscribe(h, batches)
         IN  /\ res.err \in BOOLEAN /\ (res.err <=> batches = <<>>)
             /\ res.resolved = <<>> /\ res.unchanged = {} /\ res.h.cache = h.cache
             /\ res.h.messageIDs \in Seq(SUBSET Ticker)
             /\ \A k \in DOMAIN h.messageIDs :
                  k \in DOMAIN res.h.messageIDs /\ res.h.messageIDs[k] = h.messageIDs[k]
             /\ res.h.channelMap = h.channelMap
             /\ res.h.sequence = h.sequence /\ res.h.tradeIDs = h.tradeIDs
             /\ res.writes \in Seq(Requests) /\ DOMAIN res.writes = DOMAIN batches
             /\ \A i \in DOMAIN batches :
                  /\ res.writes[i].type = "subscribe" /\ res.writes[i].tickers = batches[i]
                  /\ res.writes[i].id \in DOMAIN res.h.messageIDs
                  /\ res.h.messageIDs[res.writes[i].id] = batches[i]
<1> DEFINE first == Len(h.messageIDs)
           ids2 == h.messageIDs \o batches
           writes2 == [i \in DOMAIN batches |-> Request("subscribe", batches[i], first + i)]
<1>1. first \in Nat /\ Len(batches) \in Nat /\ DOMAIN batches = 1..Len(batches)
      /\ DOMAIN h.messageIDs = 1..first
  OBVIOUS
<1>2. ids2 \in Seq(SUBSET Ticker) /\ Len(ids2) = first + Len(batches)
      /\ DOMAIN ids2 = 1..(first + Len(batches))
  OBVIOUS
<1>3. \A k \in DOMAIN h.messageIDs : k \in DOMAIN ids2 /\ ids2[k] = h.messageIDs[k]
  BY <1>1, <1>2
<1>4. \A i \in DOMAIN batches : first + i \in DOMAIN ids2 /\ ids2[first + i] = batches[i]
  BY <1>1, <1>2
<1> HIDE DEF ids2
<1>5. /\ writes2 \in Seq(Requests) /\ DOMAIN writes2 = DOMAIN batches
      /\ \A i \in DOMAIN batches :
           writes2[i].type = "subscribe" /\ writes2[i].tickers = batches[i] /\ writes2[i].id = first + i
  <2>1. \A i \in DOMAIN batches : Request("subscribe", batches[i], first + i) \in Requests
    BY <1>1 DEF Request, Requests
  <2> QED
    BY <1>1, <2>1 DEF Request
<1> HIDE DEF writes2
<1>6. BinanceSubscribe(h, batches) =
        Result(Handler(h.cache, ids2, h.channelMap, h.sequence, h.tradeIDs),
               batches = <<>>, <<>>, {}, {}, writes2)
  BY DEF BinanceSubscribe, ids2, writes2
<1> DEFINE res == BinanceSubscribe(h, batches)
<1> HIDE DEF res
<1>7. res = Result(Handler(h.cache, ids2, h.channelMap, h.sequence, h.tradeIDs),
                   batches = <<>>, <<>>, {}, {}, writes2)
  BY <1>6 DEF res
<1>8. /\ res.err = (batches = <<>>)
      /\ res.resolved = <<>> /\ res.unchanged = {} /\ res.writes = writes2
      /\ res.h = Handler(h.cache, ids2, h.channelMap, h.sequence, h.tradeIDs)
  BY <1>7, Zenon DEF Result
<1>9. /\ res.h.cache = h.cache /\ res.h.messageIDs = ids2 /\ res.h.channelMap = h.channelMap
      /\ res.h.sequence = h.sequence /\ res.h.tradeIDs = h.tradeIDs
  BY <1>8 DEF Handler
<1>10. res.err \in BOOLEAN /\ (res.err <=> batches = <<>>)
  BY <1>8
<1> QED
  BY <1>1, <1>2, <1>3, <1>4, <1>5, <1>8, <1>9, <1>10 DEF res

(* A request that was refused is sent again, batch by batch.               *)
AskedAgain(res, msg) ==
  msg.type = "rejected" =>
    /\ res.err => msg.tickers = {}
    /\ ~res.err => msg.tickers \subseteq TickersOf(res.writes, {"subscribe"})

(* The batches of what was refused ask for all of it.                      *)
LEMMA BatchesAskAgain ==
  ASSUME Types, NEW msg \in Messages, msg.type = "rejected", IsFiniteSet(msg.tickers),
         exchange # "bitfinex", NEW x
  PROVE  LET batches == Batches(x, SetToSeq(msg.tickers))
             res == BinanceSubscribe(handler, batches)
         IN  /\ Outcome(res, msg) /\ AskedAgain(res, msg)
             /\ exchange # "binance" =>
                  /\ Outcome(Subscribe(handler, batches), msg)
                  /\ AskedAgain(Subscribe(handler, batches), msg)
<1> DEFINE batches == Batches(x, SetToSeq(msg.tickers))
<1>1. /\ batches \in Seq(SUBSET Ticker)
      /\ \A i \in DOMAIN batches : batches[i] \subseteq msg.tickers /\ IsFiniteSet(batches[i])
      /\ \A t \in msg.tickers : \E i \in DOMAIN batches : t \in batches[i]
  <2>1. msg.tickers \in SUBSET Ticker
    BY DEF Messages
  <2>2. SetToSeq(msg.tickers) \in Seq(Ticker) /\ ToSet(SetToSeq(msg.tickers)) = msg.tickers
    BY <2>1, SetToSeqFacts
  <2> QED
    BY <2>2, BatchesFacts
<1> HIDE DEF batches
<1>2. handler.messageIDs \in Seq(SUBSET Ticker)
  BY DEF Types
<1>3. ResolvedFrom(<<>>, msg) /\ DOMAIN <<>> = {}
  BY NoPricesFacts DEF NoPrices
<1>4. batches = <<>> => msg.tickers = {}
  BY <1>1
<1>5. ASSUME NEW w, DOMAIN w = DOMAIN batches,
             \A i \in DOMAIN batches : w[i].type = "subscribe" /\ w[i].tickers = batches[i]
      PROVE  msg.tickers \subseteq TickersOf(w, {"subscribe"})
  <2>1. SUFFICES ASSUME NEW t \in msg.tickers
                 PROVE  t \in TickersOf(w, {"subscribe"})
    OBVIOUS
  <2>2. PICK i \in DOMAIN batches : t \in batches[i]
    BY <1>1
  <2>3. i \in {j \in DOMAIN w : w[j].type \in {"subscribe"}} /\ t \in w[i].tickers
    BY <1>5, <2>2
  <2> QED
    BY <2>3 DEF TickersOf
<1>6. Outcome(BinanceSubscribe(handler, batches), msg) /\ AskedAgain(BinanceSubscribe(handler, batches), msg)
  <2> DEFINE res == BinanceSubscribe(handler, batches)
  <2>1. /\ res.err \in BOOLEAN /\ (res.err <=> batches = <<>>)
        /\ res.resolved = <<>> /\ res.unchanged = {} /\ res.h.cache = handler.cache
        /\ res.h.messageIDs \in Seq(SUBSET Ticker)
        /\ \A k \in DOMAIN handler.messageIDs :
             k \in DOMAIN res.h.messageIDs /\ res.h.messageIDs[k] = handler.messageIDs[k]
        /\ res.writes \in Seq(Requests) /\ DOMAIN res.writes = DOMAIN batches
        /\ \A i \in DOMAIN batches :
             /\ res.writes[i].type = "subscribe" /\ res.writes[i].tickers = batches[i]
             /\ res.writes[i].id \in DOMAIN res.h.messageIDs
             /\ res.h.messageIDs[res.writes[i].id] = batches[i]
    BY <1>1, <1>2, BinanceSubscribeFacts
  <2> HIDE DEF res
  <2>2. \A i \in DOMAIN res.writes : RequestFor(res.writes[i], res.h, msg)
    BY <1>1, <2>1 DEF RequestFor
  <2>3. Outcome(res, msg)
    BY <1>3, <2>1, <2>2 DEF Outcome
  <2>4. AskedAgain(res, msg)
    BY <1>4, <1>5, <2>1 DEF AskedAgain
  <2> QED
    BY <2>3, <2>4 DEF res
<1>7. ASSUME exchange # "binance"
      PROVE  Outcome(Subscribe(handler, batches), msg) /\ AskedAgain(Subscribe(handler, batches), msg)
  <2> DEFINE res == Subscribe(handler, batches)
  <2>2. /\ res.h = handler /\ res.err \in BOOLEAN /\ (res.err <=> batches = <<>>)
        /\ res.resolved = <<>> /\ res.unchanged = {}
        /\ res.writes \in Seq(Requests) /\ DOMAIN res.writes = DOMAIN batches
        /\ \A i \in DOMAIN batches : res.writes[i].type = "subscribe" /\ res.writes[i].tickers = batches[i]
    BY <1>1, SubscribeFacts
  <2> HIDE DEF res
  <2>3. \A i \in DOMAIN res.writes : RequestFor(res.writes[i], res.h, msg)
    BY <1>1, <1>7, <2>2 DEF RequestFor
  <2>4. Outcome(res, msg)
    BY <1>2, <1>3, <2>2, <2>3 DEF Outcome
  <2>5. AskedAgain(res, msg)
    BY <1>4, <1>5, <2>2 DEF AskedAgain
  <2> QED
    BY <2>4, <2>5 DEF res
<1> QED
  BY <1>6, <1>7 DEF batches

(* The exchanges whose messages are about one ticker.                      *)
Singles == {"bitfinex", "coinbase", "kucoin"}
(* A message of such an exchange has one ticker, the price and the number  *)
(* of which are its own.                                                   *)
LEMMA SingleTicker ==
  ASSUME NEW msg \in Messages, MessageOK(msg, exchange, handler, market), msg.type \in {"update", "heartbeat"},
         exchange \in Singles
  PROVE  LET t == CHOOSE s \in msg.tickers : TRUE
         IN  /\ t \in Ticker /\ msg.tickers = {t} /\ msg.seq <= market[t]
             /\ msg.type = "update" => DOMAIN msg.prices = {t}
             /\ msg.type # "update" => msg.prices = <<>>
<1>1. PICK t \in Ticker : msg.tickers = {t} /\ msg.seq <= market[t]
  BY DEF MessageOK, Singles
<1>2. (CHOOSE s \in msg.tickers : TRUE) = t
  BY <1>1
<1> QED
  BY <1>1, <1>2 DEF MessageOK

(* What Binance's handler makes of a message is as it should be.           *)
LEMMA BinanceOutcome ==
  ASSUME Types, NEW msg \in Messages, MessageOK(msg, exchange, handler, market), exchange = "binance"
  PROVE  Outcome(BinanceHandle(handler, msg), msg) /\ AskedAgain(BinanceHandle(handler, msg), msg)
<1>1. Outcome(Quiet(handler), msg) /\ Outcome(Failed(handler), msg)
  BY SimpleOutcomes DEF SameCache
<1>2. CASE msg.type = "rejected"
  <2>1. /\ msg.id \in DOMAIN handler.messageIDs /\ handler.messageIDs[msg.id] = msg.tickers
        /\ IsFiniteSet(msg.tickers)
    BY <1>2 DEF MessageOK, AboutRequest
  <2>2. BinanceHandle(handler, msg) = BinanceSubscribe(handler, Batches("binance", SetToSeq(msg.tickers)))
    BY <1>2, <2>1 DEF BinanceHandle
  <2> QED
    BY <1>2, <2>1, <2>2, BatchesAskAgain
<1>3. CASE msg.type # "rejected"
  <2>1. BinanceHandle(handler, msg) \in {Quiet(handler), Failed(handler), ParseTicker(handler, msg)}
    BY <1>3 DEF BinanceHandle
  <2> QED
    BY <1>1, <1>3, <2>1, ParseOutcomes DEF AskedAgain
<1> QED
  BY <1>2, <1>3

(* The same for Huobi and OKX.                                             *)
LEMMA HuobiOutcome ==
  ASSUME Types, NEW msg \in Messages, MessageOK(msg, exchange, handler, market), exchange \in {"huobi", "okx"}
  PROVE  /\ exchange = "huobi" =>
              Outcome(HuobiHandle(handler, msg), msg) /\ AskedAgain(HuobiHandle(handler, msg), msg)
         /\ exchange = "okx" =>
              Outcome(OkxHandle(handler, msg), msg) /\ AskedAgain(OkxHandle(handler, msg), msg)
<1>1. Outcome(Quiet(handler), msg) /\ Outcome(Failed(handler), msg)
  BY SimpleOutcomes DEF SameCache
<1>2. Outcome(ParseTicker(handler, msg), msg) /\ Outcome(ParseTickers(handler, msg), msg)
  BY ParseOutcomes
<1>3. ASSUME msg.type = "rejected"
      PROVE  /\ Outcome(Subscribe(handler, <<msg.tickers>>), msg)
             /\ AskedAgain(Subscribe(handler, <<msg.tickers>>), msg)
  <2> DEFINE batches == <<msg.tickers>>
             res == Subscribe(handler, batches)
  <2>1. /\ batches \in Seq(SUBSET Ticker) /\ DOMAIN batches = {1} /\ batches[1] = msg.tickers
        /\ IsFiniteSet(msg.tickers)
    BY <1>3 DEF MessageOK, AboutRequest, Messages
  <2>2. batches # <<>>
    OBVIOUS
  <2> HIDE DEF batches
  <2>3. /\ res.h = handler /\ res.err \in BOOLEAN /\ (res.err <=> batches = <<>>)
        /\ res.resolved = <<>> /\ res.unchanged = {}
        /\ res.writes \in Seq(Requests) /\ DOMAIN res.writes = DOMAIN batches
        /\ \A i \in DOMAIN batches : res.writes[i].type = "subscribe" /\ res.writes[i].tickers = batches[i]
    BY <2>1, SubscribeFacts
  <2> HIDE DEF res
  <2>4. \A i \in DOMAIN res.writes : RequestFor(res.writes[i], res.h, msg)
    BY <1>3, <2>1, <2>3 DEF RequestFor
  <2>5. ResolvedFrom(<<>>, msg) /\ DOMAIN <<>> = {} /\ handler.messageIDs \in Seq(SUBSET Ticker)
    BY NoPricesFacts DEF NoPrices, Types
  <2>6. Outcome(res, msg)
    BY <2>3, <2>4, <2>5 DEF Outcome
  <2>7. 1 \in {j \in DOMAIN res.writes : res.writes[j].type \in {"subscribe"}} /\ res.writes[1].tickers = msg.tickers
    BY <2>1, <2>3
  <2>8. msg.tickers \subseteq TickersOf(res.writes, {"subscribe"})
    BY <2>7 DEF TickersOf
  <2> QED
    BY <2>2, <2>3, <2>6, <2>8 DEF AskedAgain, batches, res
<1>4. ASSUME exchange = "huobi"
      PROVE  Outcome(HuobiHandle(handler, msg), msg) /\ AskedAgain(HuobiHandle(handler, msg), msg)
  <2>1. CASE msg.type = "rejected"
    BY <1>3, <2>1 DEF HuobiHandle, HuobiSubscription
  <2>2. CASE msg.type = "ping"
    <3> DEFINE pong == <<Request("pong", {}, 0)>>
               res == Result(handler, FALSE, <<>>, handler.cache, {}, pong)
    <3>1. pong \in Seq(Requests) /\ \A i \in DOMAIN pong : pong[i].type # "subscribe"
      BY DEF Request, Requests
    <3> HIDE DEF pong
    <3>2. Outcome(Writes(handler, pong), msg)
      BY <3>1, SimpleOutcomes DEF SameCache
    <3>3. Outcome(Unchanged(handler, handler.cache), msg)
      BY <2>2, SimpleOutcomes DEF SameCache, Types
    <3>4. Outcome(res, msg)
      BY <3>2, <3>3 DEF Outcome, Writes, Unchanged, Result
    <3>5. HuobiHandle(handler, msg) = res
      BY <2>2 DEF HuobiHandle, pong
    <3> QED
      BY <2>2, <3>4, <3>5 DEF AskedAgain
  <2>3. CASE msg.type \notin {"rejected", "ping"}
    <3>1. HuobiHandle(handler, msg) \in {Quiet(handler), Failed(handler), ParseTicker(handler, msg)}
      BY <2>3 DEF HuobiHandle, HuobiSubscription
    <3> QED
      BY <1>1, <1>2, <2>3, <3>1 DEF AskedAgain
  <2> QED
    BY <2>1, <2>2, <2>3
<1>5. ASSUME exchange = "okx"
      PROVE  Outcome(OkxHandle(handler, msg), msg) /\ AskedAgain(OkxHandle(handler, msg), msg)
  <2>1. CASE msg.type = "rejected"
    BY <1>3, <2>1 DEF OkxHandle, OkxSubscription
  <2>2. CASE msg.type # "rejected"
    <3>1. OkxHandle(handler, msg) \in {Quiet(handler), Failed(handler), ParseTickers(handler, msg)}
      BY <2>2 DEF OkxHandle, OkxSubscription
    <3> QED
      BY <1>1, <1>2, <2>2, <3>1 DEF AskedAgain
  <2> QED
    BY <2>1, <2>2
<1> QED
  BY <1>4, <1>5

(* The same for Kraken.                                                    *)
LEMMA KrakenOutcome ==
  ASSUME Types, NEW msg \in Messages, MessageOK(msg, exchange, handler, market), exchange = "kraken"
  PROVE  Outcome(KrakenHandle(handler, msg), msg) /\ AskedAgain(KrakenHandle(handler, msg), msg)
<1>1. Outcome(Quiet(handler), msg) /\ Outcome(Failed(handler), msg)
  BY SimpleOutcomes DEF SameCache
<1>2. CASE msg.type = "rejected"
  <2>1. IsFiniteSet(msg.tickers)
    BY <1>2 DEF MessageOK, AboutRequest
  <2>2. KrakenHandle(handler, msg) = Subscribe(handler, Batches("kraken", SetToSeq(msg.tickers)))
    BY <1>2 DEF KrakenHandle, KrakenBaseMessage
  <2> QED
    BY <1>2, <2>1, <2>2, BatchesAskAgain
<1>3. CASE msg.type # "rejected"
  <2>1. KrakenHandle(handler, msg) \in {Quiet(handler), Failed(handler), ParseTicker(handler, msg)}
    BY <1>3 DEF KrakenHandle, KrakenBaseMessage
  <2> QED
    BY <1>1, <1>3, <2>1, ParseOutcomes DEF AskedAgain
<1> QED
  BY <1>2, <1>3

(* The same for the exchanges that do not ask again.                       *)
LEMMA PlainOutcomes ==
  ASSUME Types, NEW msg \in Messages, MessageOK(msg, exchange, handler, market)
  PROVE  /\ Outcome(BitstampHandle(handler, msg), msg) /\ Outcome(BybitHandle(handler, msg), msg)
         /\ Outcome(CryptodotcomHandle(handler, msg), msg) /\ Outcome(GateHandle(handler, msg), msg)
         /\ Outcome(MexcHandle(handler, msg), msg)
<1>1. Outcome(Quiet(handler), msg) /\ Outcome(Failed(handler), msg)
  BY SimpleOutcomes DEF SameCache
<1>2. Outcome(ParseTicker(handler, msg), msg) /\ Outcome(ParseTickers(handler, msg), msg)
  BY ParseOutcomes
<1>3. ASSUME NEW type \in {"reconnect", "heartbeat"}, NEW id \in Nat
      PROVE  Outcome(Writes(handler, <<Request(type, {}, id)>>), msg)
  <2> DEFINE w == <<Request(type, {}, id)>>
  <2>1. w \in Seq(Requests) /\ \A i \in DOMAIN w : w[i].type # "subscribe"
    BY DEF Request, Requests
  <2> HIDE DEF w
  <2>2. Outcome(Writes(handler, w), msg)
    BY <2>1, SimpleOutcomes DEF SameCache
  <2> QED
    BY <2>2 DEF w
<1>4. msg.id \in Nat
  BY DEF Messages
<1>5. BitstampHandle(handler, msg) \in
        {Quiet(handler), Writes(handler, <<Request("reconnect", {}, 0)>>), ParseTicker(handler, msg), Failed(handler)}
  BY DEF BitstampHandle
<1>6. BybitHandle(handler, msg) \in {Quiet(handler), ParseTickers(handler, msg), Failed(handler)}
  BY DEF BybitHandle, BybitTicker
<1>7. CryptodotcomHandle(handler, msg) \in
        {Writes(handler, <<Request("heartbeat", {}, msg.id)>>), ParseTickers(handler, msg), Failed(handler)}
  BY DEF CryptodotcomHandle
<1>8. /\ GateHandle(handler, msg) \in {Quiet(handler), ParseTicker(handler, msg), Failed(handler)}
      /\ MexcHandle(handler, msg) \in {Quiet(handler), ParseTicker(handler, msg), Failed(handler)}
  BY DEF GateHandle, MexcHandle
<1> QED
  BY <1>1, <1>2, <1>3, <1>4, <1>5, <1>6, <1>7, <1>8

(* A price of one ticker that parses is one to resolve.                    *)
LEMMA SinglePrice ==
  ASSUME NEW msg \in Messages, NEW t \in Ticker, DOMAIN msg.prices = {t}, msg.prices[t] # Bad
  PROVE  ResolvedFrom(msg.prices, msg)
<1>1. PICK S \in SUBSET Ticker : msg.prices \in [S -> Price \cup {Bad}]
  BY DEF Messages, SentPrices
<1>2. msg.prices \in [{t} -> Price]
  BY <1>1
<1> QED
  BY <1>2 DEF ResolvedFrom, PriceMaps

(* The same for KuCoin.                                                    *)
LEMMA KucoinOutcome ==
  ASSUME Types, NEW msg \in Messages, MessageOK(msg, exchange, handler, market), exchange = "kucoin"
  PROVE  Outcome(KucoinHandle(handler, msg), msg)
<1>1. Outcome(Quiet(handler), msg) /\ Outcome(Failed(handler), msg)
  BY SimpleOutcomes DEF SameCache
<1>2. CASE msg.type = "pong"
  <2>1. KucoinHandle(handler, msg) = Unchanged(handler, handler.cache)
    BY <1>2 DEF KucoinHandle
  <2> QED
    BY <1>2, <2>1, SimpleOutcomes DEF SameCache, Types
<1>3. CASE msg.type = "update"
  <2> DEFINE t == CHOOSE s \in msg.tickers : TRUE
             seen == Observe(handler, t, msg.seq)
  <2>1. t \in Ticker /\ DOMAIN msg.prices = {t}
    BY <1>3, SingleTicker DEF Singles
  <2>2. KucoinHandle(handler, msg) = KucoinTicker(handler, t, msg)
    BY <1>3 DEF KucoinHandle
  <2> HIDE DEF t
  <2>3. SameCache(seen)
    BY DEF SameCache, Observe, Handler
  <2> HIDE DEF seen
  <2>4. KucoinTicker(handler, t, msg) =
          IF t \notin handler.cache \/ Get(handler.sequence, t, 0) >= msg.seq THEN Failed(handler)
          ELSE IF msg.prices[t] = Bad THEN Failed(seen) ELSE Resolved(seen, msg.prices)
    BY DEF KucoinTicker, seen
  <2>5. Outcome(Failed(seen), msg)
    BY <2>3, SimpleOutcomes
  <2>6. msg.prices[t] # Bad => Outcome(Resolved(seen, msg.prices), msg)
    BY <2>1, <2>3, SimpleOutcomes, SinglePrice
  <2> QED
    BY <1>1, <2>2, <2>4, <2>5, <2>6
<1>4. CASE msg.type \notin {"pong", "update"}
  <2>1. KucoinHandle(handler, msg) \in {Quiet(handler), Failed(handler)}
    BY <1>4 DEF KucoinHandle
  <2> QED
    BY <1>1, <2>1
<1> QED
  BY <1>2, <1>3, <1>4

(* The same for Coinbase.                                                  *)
LEMMA CoinbaseOutcome ==
  ASSUME Types, NEW msg \in Messages, MessageOK(msg, exchange, handler, market), exchange = "coinbase"
  PROVE  Outcome(CoinbaseHandle(handler, msg), msg)
<1>1. Outcome(Quiet(handler), msg) /\ Outcome(Failed(handler), msg)
  BY SimpleOutcomes DEF SameCache
<1>2. CASE msg.type \in {"update", "heartbeat"}
  <2> DEFINE t == CHOOSE s \in msg.tickers : TRUE
             seen == Observe(handler, t, msg.seq)
             traded == Traded(seen, t, msg.trade)
  <2>1. t \in Ticker /\ (msg.type = "update" => DOMAIN msg.prices = {t})
    BY <1>2, SingleTicker DEF Singles
  <2>2. CoinbaseHandle(handler, msg) =
          IF t \notin handler.cache THEN Failed(handler)
          ELSE IF msg.type = "update" THEN CoinbaseTicker(handler, t, msg)
          ELSE CoinbaseHeartbeat(handler, t, msg)
    BY <1>2 DEF CoinbaseHandle
  <2> HIDE DEF t
  <2>3. SameCache(seen) /\ SameCache(traded)
    BY DEF SameCache, Observe, Traded, Handler
  <2>4. CoinbaseTicker(handler, t, msg) =
          IF ~CheckSequenceNumber(handler, t, msg.seq) THEN Failed(handler)
          ELSE IF msg.prices[t] = Bad THEN Failed(seen) ELSE Resolved(traded, msg.prices)
    BY DEF CoinbaseTicker
  <2>5. CoinbaseHeartbeat(handler, t, msg) \in
          {Failed(handler), Unresolved(seen, {t}), Unchanged(seen, {t})}
    BY DEF CoinbaseHeartbeat
  <2> HIDE DEF seen, traded
  <2>6. Outcome(Failed(seen), msg) /\ Outcome(Unresolved(seen, {t}), msg)
    BY <2>3, SimpleOutcomes
  <2>7. msg.type = "heartbeat" => Outcome(Unchanged(seen, {t}), msg)
    BY <2>1, <2>3, SimpleOutcomes
  <2>8. msg.type = "update" /\ msg.prices[t] # Bad => Outcome(Resolved(traded, msg.prices), msg)
    BY <2>1, <2>3, SimpleOutcomes, SinglePrice
  <2> QED
    BY <1>1, <1>2, <2>2, <2>4, <2>5, <2>6, <2>7, <2>8
<1>3. CASE msg.type \notin {"update", "heartbeat"}
  <2>1. CoinbaseHandle(handler, msg) \in {Quiet(handler), Failed(handler)}
    BY <1>3 DEF CoinbaseHandle
  <2> QED
    BY <1>1, <2>1
<1> QED
  BY <1>2, <1>3

(* A function of one argument has one value.                               *)
LEMMA OnlyElement ==
  ASSUME NEW f, NEW t, DOMAIN f = {t}
  PROVE  Range(f) = {f[t]}
<1>1. \A y \in Range(f) : y = f[t]
  BY DEF Range
<1>2. f[t] \in Range(f)
  BY DEF Range
<1> QED
  BY <1>1, <1>2

(* Bitfinex files a price under the ticker of its channel.                 *)
ChannelKnown(msg) ==
  exchange = "bitfinex" =>
    \A t \in DOMAIN msg.prices : msg.id \in DOMAIN handler.channelMap /\ handler.channelMap[msg.id] = t

(* What Bitfinex' handler makes of a message is as it should be.           *)
LEMMA BitfinexOutcome ==
  ASSUME Types, NEW msg \in Messages, MessageOK(msg, exchange, handler, market), exchange = "bitfinex", ChannelKnown(msg)
  PROVE  Outcome(BitfinexHandle(handler, msg), msg)
<1>1. Outcome(Quiet(handler), msg) /\ Outcome(Failed(handler), msg)
  BY SimpleOutcomes DEF SameCache
<1>2. CASE msg.type = "subscribed"
  <2> DEFINE h == UpdateChannelMap(handler, msg.id, CHOOSE t \in msg.tickers : TRUE)
  <2>1. SameCache(h)
    BY DEF SameCache, UpdateChannelMap, Handler
  <2>2. BitfinexHandle(handler, msg) \in {Quiet(h), Failed(handler)}
    BY <1>2 DEF BitfinexHandle
  <2> HIDE DEF h
  <2> QED
    BY <1>1, <2>1, <2>2, SimpleOutcomes
<1>3. CASE msg.type = "update"
  <2> DEFINE price == CHOOSE p \in Range(msg.prices) : TRUE
             t == CHOOSE s \in msg.tickers : TRUE
             prices == [s \in {handler.channelMap[msg.id]} |-> price]
  <2>1. t \in Ticker /\ DOMAIN msg.prices = {t}
    BY <1>3, SingleTicker DEF Singles
  <2>2. BitfinexHandle(handler, msg) = Failed(handler)
        \/ (price # Bad /\ BitfinexHandle(handler, msg) = Resolved(handler, prices))
    BY <1>3 DEF BitfinexHandle, BitfinexStream
  <2> HIDE DEF t
  <2>3. price = msg.prices[t]
    <3>1. Range(msg.prices) = {msg.prices[t]}
      BY <2>1, OnlyElement
    <3>2. price \in Range(msg.prices)
      BY <3>1
    <3> QED
      BY <3>1, <3>2
  <2>4. handler.channelMap[msg.id] = t
    BY <2>1 DEF ChannelKnown
  <2>5. ASSUME price # Bad
        PROVE  ResolvedFrom(prices, msg)
    <3>1. PICK S \in SUBSET Ticker : msg.prices \in [S -> Price \cup {Bad}]
      BY DEF Messages, SentPrices
    <3>2. price \in Price
      BY <2>1, <2>3, <2>5, <3>1
    <3> HIDE DEF price
    <3>3. prices \in [{t} -> Price] /\ DOMAIN prices = {t} /\ prices[t] = price
      BY <2>4, <3>2
    <3> QED
      BY <2>1, <2>3, <2>5, <3>3 DEF ResolvedFrom, PriceMaps
  <2> HIDE DEF prices, price
  <2> QED
    BY <1>1, <2>2, <2>5, SimpleOutcomes DEF SameCache
<1>4. CASE msg.type \notin {"subscribed", "update"}
  <2>1. BitfinexHandle(handler, msg) \in {Quiet(handler), Failed(handler)}
    BY <1>4 DEF BitfinexHandle, BitfinexStream
  <2> QED
    BY <1>1, <2>1
<1> QED
  BY <1>2, <1>3, <1>4

AsksAgain == {"binance", "huobi", "kraken", "okx"}
(* What any handler makes of a message is as it should be, and asks again  *)
(* for what was refused where the handlers do.                             *)
LEMMA MessageOutcome ==
  ASSUME Types, NEW msg \in Messages, MessageOK(msg, exchange, handler, market), ChannelKnown(msg)
  PROVE  /\ Outcome(HandleMessage(exchange, handler, msg), msg)
         /\ exchange \in AsksAgain => AskedAgain(HandleMessage(exchange, handler, msg), msg)
<1>1. exchange \in Exchanges
  BY QueryConstants DEF Types
<1>2. CASE exchange \in {"bitstamp", "bybit", "cryptodotcom", "gate", "mexc"}
  BY <1>2, PlainOutcomes DEF HandleMessage, AsksAgain
<1>3. CASE exchange = "binance"
  BY <1>3, BinanceOutcome DEF HandleMessage
<1>4. CASE exchange \in {"huobi", "okx"}
  BY <1>4, HuobiOutcome DEF HandleMessage
<1>5. CASE exchange = "kraken"
  BY <1>5, KrakenOutcome DEF HandleMessage
<1>6. CASE exchange = "kucoin"
  BY <1>6, KucoinOutcome DEF HandleMessage, AsksAgain
<1>7. CASE exchange = "coinbase"
  BY <1>7, CoinbaseOutcome DEF HandleMessage, AsksAgain
<1>8. CASE exchange = "bitfinex"
  BY <1>8, BitfinexOutcome DEF HandleMessage, AsksAgain
<1> QED
  BY <1>1, <1>2, <1>3, <1>4, <1>5, <1>6, <1>7, <1>8 DEF Exchanges

-----------------------------------------------------------------------------
(* Sequences that grow at the end and shrink at the front, or, where       *)
(* messages are reordered, anywhere.                                       *)
LEMMA AppendFacts ==
  ASSUME NEW S, NEW s \in Seq(S), NEW e \in S
  PROVE  /\ Append(s, e) \in Seq(S) /\ Len(Append(s, e)) = Len(s) + 1 /\ Len(s) \in Nat
         /\ DOMAIN s = 1 .. Len(s) /\ DOMAIN Append(s, e) = 1 .. Len(s) + 1
         /\ \A i \in 1 .. Len(s) : Append(s, e)[i] = s[i]
         /\ Append(s, e)[Len(s) + 1] = e
OBVIOUS

(* A sequence without its first element.                                   *)
LEMMA TailFacts ==
  ASSUME NEW S, NEW s \in Seq(S), s # <<>>
  PROVE  /\ Tail(s) \in Seq(S) /\ Len(s) \in Nat \ {0} /\ Len(Tail(s)) = Len(s) - 1
         /\ DOMAIN s = 1 .. Len(s) /\ DOMAIN Tail(s) = 1 .. Len(s) - 1
         /\ \A i \in 1 .. Len(s) - 1 : Tail(s)[i] = s[i + 1]
         /\ Head(s) = s[1] /\ Head(s) \in S
OBVIOUS

(* A sequence without one of its elements.                                 *)
LEMMA RemoveAtFacts ==
  ASSUME NEW S, NEW s \in Seq(S), NEW i \in DOMAIN s
  PROVE  /\ RemoveAt(s, i) \in Seq(S) /\ Len(s) \in Nat \ {0} /\ Len(RemoveAt(s, i)) = Len(s) - 1
         /\ DOMAIN s = 1 .. Len(s) /\ DOMAIN RemoveAt(s, i) = 1 .. Len(s) - 1
         /\ \A j \in 1 .. Len(s) - 1 : RemoveAt(s, i)[j] = s[IF j < i THEN j ELSE j + 1]
<1> DEFINE a == SubSeq(s, 1, i - 1)
           b == SubSeq(s, i + 1, Len(s))
<1>1. Len(s) \in Nat /\ i \in 1 .. Len(s) /\ DOMAIN s = 1 .. Len(s)
  OBVIOUS
<1>2. a \in Seq(S) /\ Len(a) = i - 1 /\ \A j \in 1 .. i - 1 : a[j] = s[j]
  BY <1>1
<1>3. b \in Seq(S) /\ Len(b) = Len(s) - i /\ \A j \in 1 .. Len(s) - i : b[j] = s[i + j]
  BY <1>1
<1>4. RemoveAt(s, i) = a \o b
  BY DEF RemoveAt
<1> HIDE DEF a, b
<1> DEFINE c == a \o b
<1>5. /\ c \in Seq(S) /\ Len(c) = Len(s) - 1
      /\ \A j \in 1 .. Len(s) - 1 : c[j] = IF j <= i - 1 THEN a[j] ELSE b[j - (i - 1)]
  <2>1. /\ c \in Seq(S) /\ Len(c) = Len(a) + Len(b)
        /\ \A j \in 1 .. Len(a) + Len(b) : c[j] = IF j <= Len(a) THEN a[j] ELSE b[j - Len(a)]
    BY <1>2, <1>3, ConcatProperties
  <2> HIDE DEF c
  <2>2. Len(a) = i - 1 /\ Len(a) + Len(b) = Len(s) - 1
    BY <1>1, <1>2, <1>3
  <2> QED
    BY <2>1, <2>2
<1> HIDE DEF c
<1>6. DOMAIN c = 1 .. Len(s) - 1
  BY <1>5
<1>7. ASSUME NEW j \in 1 .. Len(s) - 1
      PROVE  c[j] = s[IF j < i THEN j ELSE j + 1]
  <2>1. CASE j < i
    BY <1>1, <1>2, <1>5, <2>1
  <2>2. CASE ~(j < i)
    <3>1. j - (i - 1) \in 1 .. Len(s) - i /\ i + (j - (i - 1)) = j + 1 /\ ~(j <= i - 1)
      BY <1>1, <2>2
    <3>2. c[j] = b[j - (i - 1)]
      BY <1>5, <3>1
    <3>3. b[j - (i - 1)] = s[j + 1]
      BY <1>3, <3>1
    <3> QED
      BY <2>2, <3>2, <3>3
  <2> QED
    BY <2>1, <2>2
<1>8. Len(s) \in Nat \ {0}
  BY <1>1
<1> QED
  BY <1>1, <1>4, <1>5, <1>6, <1>7, <1>8 DEF c

(* The tickers that requests or messages of some types are about.          *)
LEMMA TickersOfFacts ==
  ASSUME NEW S, NEW s \in Seq(S), NEW T
  PROVE  /\ \A e \in S : TickersOf(s, T) \subseteq TickersOf(Append(s, e), T)
         /\ \A e \in S : e.type \in T => e.tickers \subseteq TickersOf(Append(s, e), T)
         /\ s # <<>> => TickersOf(s, T) \subseteq
              TickersOf(Tail(s), T) \cup (IF Head(s).type \in T THEN Head(s).tickers ELSE {})
         /\ \A i \in DOMAIN s : TickersOf(s, T) \subseteq
              TickersOf(RemoveAt(s, i), T) \cup (IF s[i].type \in T THEN s[i].tickers ELSE {})
<1>1. \A r, t : t \in TickersOf(r, T) <=> \E j \in DOMAIN r : r[j].type \in T /\ t \in r[j].tickers
  BY DEF TickersOf
<1>2. ASSUME NEW e \in S
      PROVE  /\ TickersOf(s, T) \subseteq TickersOf(Append(s, e), T)
             /\ e.type \in T => e.tickers \subseteq TickersOf(Append(s, e), T)
  <2>1. /\ DOMAIN s = 1 .. Len(s) /\ DOMAIN Append(s, e) = 1 .. Len(s) + 1 /\ Len(s) \in Nat
        /\ \A i \in 1 .. Len(s) : Append(s, e)[i] = s[i]
        /\ Append(s, e)[Len(s) + 1] = e
    BY AppendFacts
  <2> DEFINE r == Append(s, e)
  <2> HIDE DEF r
  <2>2. /\ DOMAIN s = 1 .. Len(s) /\ DOMAIN r = 1 .. Len(s) + 1 /\ Len(s) \in Nat
        /\ \A i \in 1 .. Len(s) : r[i] = s[i]
        /\ r[Len(s) + 1] = e
    BY <2>1 DEF r
  <2>3. /\ \A i \in DOMAIN s : i \in DOMAIN r
        /\ Len(s) + 1 \in DOMAIN r
    BY <2>2
  <2>4. TickersOf(s, T) \subseteq TickersOf(r, T)
    BY <1>1, <2>2, <2>3
  <2>5. e.type \in T => e.tickers \subseteq TickersOf(r, T)
    BY <1>1, <2>2, <2>3
  <2> QED
    BY <2>4, <2>5 DEF r
<1>3. ASSUME s # <<>>
      PROVE  TickersOf(s, T) \subseteq
               TickersOf(Tail(s), T) \cup (IF Head(s).type \in T THEN Head(s).tickers ELSE {})
  <2> DEFINE r == Tail(s)
  <2>1. /\ DOMAIN s = 1 .. Len(s) /\ DOMAIN r = 1 .. Len(s) - 1 /\ Len(s) \in Nat \ {0}
        /\ \A i \in 1 .. Len(s) - 1 : r[i] = s[i + 1]
        /\ Head(s) = s[1]
    BY <1>3, TailFacts
  <2> HIDE DEF r
  <2>2. \A j \in DOMAIN s : j = 1 \/ (j - 1 \in DOMAIN r /\ r[j - 1] = s[j])
    BY <2>1
  <2>3. TickersOf(s, T) \subseteq TickersOf(r, T) \cup (IF Head(s).type \in T THEN Head(s).tickers ELSE {})
    BY <1>1, <2>1, <2>2
  <2> QED
    BY <2>3 DEF r
<1>4. ASSUME NEW i \in DOMAIN s
      PROVE  TickersOf(s, T) \subseteq
               TickersOf(RemoveAt(s, i), T) \cup (IF s[i].type \in T THEN s[i].tickers ELSE {})
  <2> DEFINE r == RemoveAt(s, i)
  <2>1. /\ DOMAIN s = 1 .. Len(s) /\ DOMAIN r = 1 .. Len(s) - 1 /\ Len(s) \in Nat \ {0}
        /\ \A j \in 1 .. Len(s) - 1 : r[j] = s[IF j < i THEN j ELSE j + 1]
    BY RemoveAtFacts
  <2> HIDE DEF r
  <2>2. \A j \in DOMAIN s : j = i \/ \E k \in DOMAIN r : r[k] = s[j]
    <3>1. \A j \in DOMAIN s : j < i => j \in DOMAIN r /\ r[j] = s[j]
      BY <2>1
    <3>2. \A j \in DOMAIN s : j > i => j - 1 \in DOMAIN r /\ r[j - 1] = s[j]
      BY <2>1
    <3> QED
      BY <2>1, <3>1, <3>2
  <2>3. TickersOf(s, T) \subseteq TickersOf(r, T) \cup (IF s[i].type \in T THEN s[i].tickers ELSE {})
    BY <1>1, <2>2
  <2> QED
    BY <2>3 DEF r
<1> QED
  BY <1>2, <1>3, <1>4

(* What is right of a request or a message stays so as the handler learns  *)
(* of more tickers and requests, and the market moves on.                  *)
Extends(h, g) ==
  /\ h.cache \subseteq g.cache
  /\ \A k \in DOMAIN h.messageIDs : k \in DOMAIN g.messageIDs /\ g.messageIDs[k] = h.messageIDs[k]
(* Requests and messages stay as they should be while the handler and the  *)
(* market grow.                                                            *)
LEMMA GrowthKeeps ==
  ASSUME NEW x, NEW h, NEW g, Extends(h, g),
         NEW m \in [Ticker -> Nat], NEW n \in [Ticker -> Nat], \A t \in Ticker : m[t] <= n[t]
  PROVE  /\ \A req : RequestOK(req, x, h) => RequestOK(req, x, g)
         /\ \A msg \in Messages : MessageOK(msg, x, h, m) => MessageOK(msg, x, g, n)
<1>1. \A tickers, id : AboutRequest(tickers, id, x, h) => AboutRequest(tickers, id, x, g)
  BY DEF AboutRequest, Extends
<1>2. \A t \in Ticker : m[t] \in Nat /\ n[t] \in Nat /\ m[t] <= n[t]
  OBVIOUS
<1>3. ASSUME NEW msg \in Messages, MessageOK(msg, x, h, m)
      PROVE  MessageOK(msg, x, g, n)
  <2>1. msg.seq \in Nat
    BY DEF Messages
  <2>2. ASSUME NEW t \in DOMAIN msg.prices
        PROVE  PriceOK(msg.prices[t], t, msg.seq, x, n)
    <3>1. t \in Ticker
      BY DEF Messages, SentPrices
    <3>2. PriceOK(msg.prices[t], t, msg.seq, x, m)
      BY <1>3 DEF MessageOK
    <3> QED
      BY <1>2, <3>1, <3>2 DEF PriceOK
  <2>3. msg.type \in {"update", "heartbeat"} /\ x \in {"bitfinex", "coinbase", "kucoin"} =>
          \E t \in Ticker : msg.tickers = {t} /\ msg.seq <= n[t]
    <3>1. SUFFICES ASSUME msg.type \in {"update", "heartbeat"}, x \in {"bitfinex", "coinbase", "kucoin"}
                   PROVE  \E t \in Ticker : msg.tickers = {t} /\ msg.seq <= n[t]
      OBVIOUS
    <3>2. PICK t \in Ticker : msg.tickers = {t} /\ msg.seq <= m[t]
      BY <1>3, <3>1 DEF MessageOK
    <3> QED
      BY <1>2, <2>1, <3>2
  <2> QED
    BY <1>1, <1>3, <2>2, <2>3 DEF MessageOK
<1> QED
  BY <1>1, <1>3 DEF RequestOK

-----------------------------------------------------------------------------
(* The steps, by what they do to the handler, the connection, the channel  *)
(* of the responses and the stored prices.                                 *)
Working == {"subscribe", "interval", "loop", "reading", "send", "update"}
Over == {"return", "idle", "stopped"}

(* None of them changes.                                                   *)
LocalStep ==
  /\ UNCHANGED <<exchange, ids, handler, connVars, responseCh, data, market>>
  /\ (pc = "send" <=> pc' = "send") /\ (pc = "send" => response' = response)
  /\ pc' \in Working => pc \in Working
  /\ writes' \in {writes, <<>>} /\ (pc' \in Working => writes' = writes)
  /\ ctxDone => ctxDone'
  /\ ctxDone /\ pc \in Over => ctxDone' /\ pc' \in Over
  /\ pc' \notin {"idle", "stopped"} => pc \notin {"idle", "stopped"}

(* The connection is lost, or a new one not made.                          *)
DropStep ==
  /\ UNCHANGED <<exchange, ids, ctxDone, handler, writes, responseCh, data, market>>
  /\ conn' # "open" /\ DropWire
  /\ \/ pc' # "send" /\ (pc = "send" => ctxDone /\ pc' = "return")
     \/ UNCHANGED <<pc, response>>
  /\ dial' \in {dial, dial + 1}
  /\ ctxDone /\ pc \in Over => pc' \in Over
  /\ pc' \notin {"idle", "stopped"} => pc \notin {"idle", "stopped"} \/ dial' = dial + 1

(* A message is written.                                                   *)
WriteStep ==
  /\ UNCHANGED <<exchange, ids, ctxDone, handler, dial, conn, subs, fromExchange, response, responseCh, data, market>>
  /\ \/ /\ pc \in {"subscribe", "update"} /\ pc' \in {"loop", "interval", "update"}
        /\ writes' = Tail(writes)
        /\ conn = "open" /\ Head(writes).type = "subscribe" => toExchange' = Append(toExchange, Head(writes))
        /\ \/ toExchange' = toExchange
           \/ conn = "open" /\ toExchange' = Append(toExchange, Head(writes))
     \/ /\ UNCHANGED <<pc, writes>>
        /\ \/ toExchange' = toExchange
           \/ conn = "open" /\ toExchange' = Append(toExchange, Request("ping", {}, 0))

(* A response is sent.                                                     *)
SendStep ==
  /\ UNCHANGED <<exchange, ids, ctxDone, handler, writes, connVars, data, market>>
  /\ pc = "send" /\ pc' \in {"loop", "update"}
  /\ responseCh' = Append(responseCh, response)

(* A message is read, or one of the exchange's steps is taken.             *)
ReadStep == \E i \in DOMAIN fromExchange : (i = 1 \/ Reorders) /\ ReadMessage(i)
ExchangeSteps ==
  \/ Confirm \/ Reject \/ Pong
  \/ (\E t \in Ticker : TradeAt(t) \/ \E type \in OtherTypes : Other(type, t))
  \/ \E S \in SUBSET Ticker : Snapshot(S)

(* Every step keeps the heartbeats to the exchanges that expect them.      *)
LEMMA HeartBeatsStep ==
  ASSUME HeartBeatsOK, [Next]_vars
  PROVE  HeartBeatsOK'
<1>1. CASE UNCHANGED vars
  BY <1>1 DEF vars, handlerVars, HeartBeatsOK
<1>2. ASSUME NEW d \in 1..MaxDials, HeartBeatTick(d) \/ HeartBeatWrite(d) \/ HeartBeatStops(d)
      PROVE  HeartBeatsOK'
  BY <1>2 DEF HeartBeatTick, HeartBeatWrite, HeartBeatStops, handlerVars, HeartBeatsOK
<1>3. CASE WriteSubscription
  BY <1>3 DEF WriteSubscription, HeartBeatsOK
<1>4. CASE UNCHANGED <<exchange, heartBeat>>
  BY <1>4 DEF HeartBeatsOK
<1>5. CASE StopLoop \/ DialSucceeds \/ DialFails \/ WriteSubscriptionFails \/ WriteInterval \/ CancelSubscribe
           \/ ReportStartError \/ Return \/ CheckContext \/ ReadFails \/ ReadPanics \/ SendResponse \/ WriteUpdate
  BY <1>4, <1>5 DEF StopLoop, DialSucceeds, DialFails, WriteSubscriptionFails, WriteInterval, CancelSubscribe,
       ReportStartError, Return, CheckContext, ReadFails, ReadPanics, SendResponse, WriteUpdate, HandlerStep
<1>6. ASSUME NEW i, ReadMessage(i)
      PROVE  HeartBeatsOK'
  BY <1>4, <1>6 DEF ReadMessage, HandlerStep
<1>7. CASE Confirm \/ Reject \/ Pong \/ Break
  BY <1>4, <1>7 DEF Confirm, Reject, Pong, Break, ExchangeStep, handlerVars
<1>8. ASSUME NEW t, NEW type, NEW S, TradeAt(t) \/ Other(type, t) \/ Snapshot(S)
      PROVE  HeartBeatsOK'
  BY <1>4, <1>8 DEF TradeAt, Other, Snapshot, ExchangeStep, handlerVars
<1>9. CASE Recv \/ Cancel
  BY <1>4, <1>9 DEF Recv, Cancel, handlerVars
<1> QED
  BY <1>1, <1>2, <1>3, <1>5, <1>6, <1>7, <1>8, <1>9 DEF Next, HandlerNext, HeartBeatNext, ExchangeNext, Stopped

(* Every step has one of these effects.                                    *)
LEMMA Effects ==
  ASSUME HeartBeatsOK, [Next]_vars
  PROVE  \/ LocalStep \/ DropStep \/ DialSucceeds \/ WriteStep \/ ReportStartError
         \/ ReadStep \/ SendStep \/ Recv \/ ExchangeSteps
<1>1. CASE UNCHANGED vars
  BY <1>1 DEF vars, handlerVars, connVars, LocalStep
<1>2. CASE StopLoop
  BY <1>2 DEF StopLoop, Goto, HandlerStep, handlerVars, connVars, LocalStep, Working, Over
<1>3. CASE DialFails
  BY <1>3 DEF DialFails, Goto, HandlerStep, DropStep, Over
<1>4. CASE WriteSubscription
  BY <1>4 DEF WriteSubscription, Write, Goto, WriteStep
<1>5. CASE WriteSubscriptionFails
  BY <1>5 DEF WriteSubscriptionFails, Goto, HandlerStep, handlerVars, connVars, LocalStep, Working, Over
<1>6. CASE WriteInterval
  BY <1>6 DEF WriteInterval, Goto, HandlerStep, handlerVars, connVars, LocalStep, Working, Over
<1>7. CASE CancelSubscribe
  BY <1>7 DEF CancelSubscribe, Close, Goto, HandlerStep, DropStep, Over
<1>8. CASE Return
  BY <1>8 DEF Return, Goto, HandlerStep, handlerVars, connVars, LocalStep, Working, Over
<1>9. CASE CheckContext
  <2>1. CASE ctxDone
    BY <1>9, <2>1 DEF CheckContext, CloseAndReturn, Close, Goto, HandlerStep, DropStep, Over
  <2>2. CASE ~ctxDone
    BY <1>9, <2>2 DEF CheckContext, Goto, HandlerStep, handlerVars, connVars, LocalStep, Working, Over
  <2> QED
    BY <2>1, <2>2
<1>10. CASE ReadFails \/ ReadPanics
  BY <1>10 DEF ReadFails, ReadPanics, Close, Goto, HandlerStep, DropStep, Over
<1>11. CASE SendResponse
  BY <1>11 DEF SendResponse, CloseAndReturn, Close, Goto, HandlerStep, DropStep, SendStep, Over, connVars
<1>12. CASE WriteUpdate
  BY <1>12 DEF WriteUpdate, Write, Goto, HandlerStep, WriteStep, WriteFails
<1>13. ASSUME NEW d \in 1 .. MaxDials, HeartBeatTick(d) \/ HeartBeatWrite(d) \/ HeartBeatStops(d)
       PROVE  LocalStep \/ WriteStep
  <2>1. CASE HeartBeatTick(d) \/ HeartBeatStops(d)
    BY <2>1 DEF HeartBeatTick, HeartBeatStops, handlerVars, connVars, LocalStep
  <2>2. CASE HeartBeatWrite(d)
    <3>1. Head(HeartBeatMessages(exchange)) = Request("ping", {}, 0)
      BY <2>2 DEF HeartBeatWrite, HeartBeatsOK, HeartBeatMessages
    <3> QED
      BY <2>2, <3>1 DEF HeartBeatWrite, Write, WriteFails, handlerVars, WriteStep
  <2> QED
    BY <1>13, <2>1, <2>2
<1>14. CASE Break
  BY <1>14 DEF Break, ExchangeStep, handlerVars, DropStep
<1>15. CASE Cancel
  BY <1>15 DEF Cancel, handlerVars, connVars, LocalStep
<1>16. CASE Stopped
  BY <1>16, <1>1 DEF Stopped
<1> QED
  BY <1>1, <1>2, <1>3, <1>4, <1>5, <1>6, <1>7, <1>8, <1>9, <1>10, <1>11, <1>12, <1>13, <1>14, <1>15, <1>16
     DEF Next, HandlerNext, HeartBeatNext, ExchangeNext, ReadStep, ExchangeSteps

-----------------------------------------------------------------------------
(* What Start does first: the tickers are cached, and asked for.           *)
LEMMA CreateFacts ==
  ASSUME Types
  PROVE  LET c == CreateMessages(exchange, handler, ids)
         IN  /\ c.err \in BOOLEAN /\ Extends(handler, c.h)
             /\ c.h.cache \in SUBSET Ticker /\ c.h.messageIDs \in Seq(SUBSET Ticker)
             /\ c.h.channelMap = handler.channelMap
             /\ c.h.sequence = handler.sequence /\ c.h.tradeIDs = handler.tradeIDs
             /\ c.writes \in Seq(Requests)
             /\ \A i \in DOMAIN c.writes : RequestOK(c.writes[i], exchange, c.h)
             /\ ~c.err => /\ c.writes # <<>> /\ ToSet(ids) \subseteq c.h.cache
                          /\ ToSet(ids) \subseteq TickersOf(c.writes, {"subscribe"})
<1> DEFINE batches == Batches(exchange, ids)
           cached == Handler(handler.cache \cup ToSet(ids), handler.messageIDs, handler.channelMap,
                             handler.sequence, handler.tradeIDs)
           c == CreateMessages(exchange, handler, ids)
<1>1. ids \in Seq(Ticker) /\ handler.cache \in SUBSET Ticker /\ handler.messageIDs \in Seq(SUBSET Ticker)
  BY QueryConstants DEF Types
<1>2. ToSet(ids) \in SUBSET Ticker
  BY <1>1, SequenceSets
<1>3. /\ batches \in Seq(SUBSET Ticker)
      /\ \A i \in DOMAIN batches :
           /\ batches[i] \subseteq ToSet(ids) /\ IsFiniteSet(batches[i])
           /\ exchange = "bitfinex" => \E t \in Ticker : batches[i] = {t}
      /\ \A t \in ToSet(ids) : \E i \in DOMAIN batches : t \in batches[i]
  BY <1>1, BatchesFacts
<1>4. /\ cached.cache = handler.cache \cup ToSet(ids) /\ cached.messageIDs = handler.messageIDs
      /\ cached.channelMap = handler.channelMap /\ cached.sequence = handler.sequence
      /\ cached.tradeIDs = handler.tradeIDs
  BY DEF Handler
<1>5. \/ exchange = "binance" /\ c = BinanceSubscribe(cached, batches)
      \/ exchange = "mexc" /\ c = Failed(handler)
      \/ exchange # "binance" /\ c = Subscribe(cached, batches)
  BY DEF CreateMessages
<1>6. ASSUME NEW w, DOMAIN w = DOMAIN batches,
             \A i \in DOMAIN batches : w[i].type = "subscribe" /\ w[i].tickers = batches[i]
      PROVE  ToSet(ids) \subseteq TickersOf(w, {"subscribe"})
  <2>1. SUFFICES ASSUME NEW t \in ToSet(ids)
                 PROVE  t \in TickersOf(w, {"subscribe"})
    OBVIOUS
  <2>2. PICK i \in DOMAIN batches : t \in batches[i]
    BY <1>3
  <2>3. i \in {j \in DOMAIN w : w[j].type \in {"subscribe"}} /\ t \in w[i].tickers
    BY <1>6, <2>2
  <2> QED
    BY <2>3 DEF TickersOf
<1> HIDE DEF batches, cached, c
<1>7. CASE exchange = "binance" /\ c = BinanceSubscribe(cached, batches)
  <2> DEFINE r == BinanceSubscribe(cached, batches)
  <2>1. /\ r.err \in BOOLEAN /\ (r.err <=> batches = <<>>)
        /\ r.h.cache = cached.cache
        /\ r.h.messageIDs \in Seq(SUBSET Ticker)
        /\ \A k \in DOMAIN cached.messageIDs :
             k \in DOMAIN r.h.messageIDs /\ r.h.messageIDs[k] = cached.messageIDs[k]
        /\ r.h.channelMap = cached.channelMap
        /\ r.h.sequence = cached.sequence /\ r.h.tradeIDs = cached.tradeIDs
        /\ r.writes \in Seq(Requests) /\ DOMAIN r.writes = DOMAIN batches
        /\ \A i \in DOMAIN batches :
             /\ r.writes[i].type = "subscribe" /\ r.writes[i].tickers = batches[i]
             /\ r.writes[i].id \in DOMAIN r.h.messageIDs
             /\ r.h.messageIDs[r.writes[i].id] = batches[i]
    BY <1>1, <1>3, <1>4, BinanceSubscribeFacts
  <2> HIDE DEF r
  <2>6. c = r
    BY <1>7 DEF r
  <2>2. Extends(handler, c.h) /\ c.h.cache \in SUBSET Ticker
    BY <1>1, <1>2, <1>4, <2>1, <2>6 DEF Extends
  <2>3. \A i \in DOMAIN c.writes : RequestOK(c.writes[i], exchange, c.h)
    BY <1>3, <1>4, <1>7, <2>1, <2>6 DEF RequestOK, AboutRequest
  <2>4. c.writes # <<>> \/ batches = <<>>
    BY <1>3, <2>1, <2>6
  <2>5. ToSet(ids) \subseteq TickersOf(c.writes, {"subscribe"}) /\ ToSet(ids) \subseteq c.h.cache
    BY <1>4, <1>6, <2>1, <2>6
  <2> QED
    BY <1>4, <2>1, <2>2, <2>3, <2>4, <2>5, <2>6 DEF c
<1>8. CASE exchange = "mexc" /\ c = Failed(handler)
  <2>1. c.err = TRUE /\ c.h = handler /\ c.writes = <<>>
    BY <1>8 DEF Failed, Result
  <2>2. c.writes \in Seq(Requests) /\ \A i \in DOMAIN c.writes : RequestOK(c.writes[i], exchange, c.h)
    BY <2>1
  <2>3. Extends(handler, handler)
    BY DEF Extends
  <2> QED
    BY <1>1, <2>1, <2>2, <2>3 DEF c
<1>9. CASE exchange # "binance" /\ c = Subscribe(cached, batches)
  <2>1. /\ c.h = cached /\ c.err \in BOOLEAN /\ (c.err <=> batches = <<>>)
        /\ c.writes \in Seq(Requests) /\ DOMAIN c.writes = DOMAIN batches
        /\ \A i \in DOMAIN batches : c.writes[i].type = "subscribe" /\ c.writes[i].tickers = batches[i]
    BY <1>3, <1>9, SubscribeFacts
  <2>2. Extends(handler, c.h) /\ c.h.cache \in SUBSET Ticker
    BY <1>1, <1>2, <1>4, <2>1 DEF Extends
  <2>3. \A i \in DOMAIN c.writes : RequestOK(c.writes[i], exchange, c.h)
    BY <1>3, <1>4, <1>9, <2>1 DEF RequestOK, AboutRequest
  <2>4. c.writes # <<>> \/ batches = <<>>
    BY <1>3, <2>1
  <2>5. ToSet(ids) \subseteq TickersOf(c.writes, {"subscribe"}) /\ ToSet(ids) \subseteq c.h.cache
    BY <1>4, <1>6, <2>1
  <2> QED
    BY <1>1, <1>4, <2>1, <2>2, <2>3, <2>4, <2>5 DEF c
<1> QED
  BY <1>5, <1>7, <1>8, <1>9

(* The message that is read is as it should be, and so is what comes of it. *)
LEMMA ReadFacts ==
  ASSUME Types, MessagesOK, ChannelsOK, NEW i \in DOMAIN fromExchange, i = 1 \/ Reorders
  PROVE  LET msg == fromExchange[i]
             res == HandleMessage(exchange, handler, msg)
         IN  /\ msg \in Messages /\ MessageOK(msg, exchange, handler, market) /\ ChannelKnown(msg)
             /\ Outcome(res, msg) /\ (exchange \in AsksAgain => AskedAgain(res, msg))
             /\ Extends(handler, res.h)
<1> DEFINE msg == fromExchange[i]
           res == HandleMessage(exchange, handler, msg)
<1>1. msg \in Messages
  BY DEF Types
<1>2. MessageOK(msg, exchange, handler, market)
  BY DEF MessagesOK
<1>3. ChannelKnown(msg)
  <2>1. SUFFICES ASSUME exchange = "bitfinex", NEW t \in DOMAIN msg.prices
                 PROVE  msg.id \in DOMAIN handler.channelMap /\ handler.channelMap[msg.id] = t
    BY DEF ChannelKnown
  <2>2. i = 1 /\ ChannelIs(fromExchange, handler.channelMap, msg.id, t, i)
    BY <2>1 DEF Reorders, ChannelsOK
  <2> QED
    BY <2>2 DEF ChannelIs
<1> HIDE DEF msg
<1>4. Outcome(res, msg) /\ (exchange \in AsksAgain => AskedAgain(res, msg))
  BY <1>1, <1>2, <1>3, MessageOutcome
<1>5. Extends(handler, res.h)
  BY <1>4 DEF Outcome, Extends
<1> QED
  BY <1>1, <1>2, <1>3, <1>4, <1>5 DEF msg

-----------------------------------------------------------------------------
(* The steps keep what is written next in step with where Start is.        *)
LEMMA WritesStep ==
  ASSUME Types, WritesOK, [Next]_vars
  PROVE  WritesOK'
<1>1. writes # <<>> => (Len(writes) = 1 => Tail(writes) = <<>>) /\ (Len(writes) # 1 => Tail(writes) # <<>>)
  <2>1. SUFFICES ASSUME writes # <<>>
                 PROVE  (Len(writes) = 1 => Tail(writes) = <<>>) /\ (Len(writes) # 1 => Tail(writes) # <<>>)
    OBVIOUS
  <2> DEFINE r == Tail(writes)
  <2>2. writes \in Seq(Requests)
    BY DEF Types
  <2>3. r \in Seq(Requests) /\ Len(writes) \in Nat \ {0} /\ Len(r) = Len(writes) - 1
    BY <2>1, <2>2, TailFacts
  <2> HIDE DEF r
  <2>4. (r = <<>>) <=> Len(r) = 0
    BY <2>3, EmptySeq
  <2> QED
    BY <2>3, <2>4 DEF r
<1>2. CASE UNCHANGED vars
  BY <1>2 DEF vars, handlerVars, connVars, WritesOK
<1>3. CASE DialSucceeds
  <2>1. LET c == CreateMessages(exchange, handler, ids) IN c.err \in BOOLEAN /\ (~c.err => c.writes # <<>>)
    BY CreateFacts
  <2> QED
    BY <1>3, <2>1 DEF DialSucceeds, Goto, DropWire, WritesOK
<1>4. CASE StopLoop \/ DialFails
  BY <1>4 DEF StopLoop, DialFails, HandlerStep, connVars, Goto, DropWire, WritesOK
<1>5. CASE WriteSubscription
  BY <1>1, <1>5 DEF WriteSubscription, Write, Goto, WritesOK
<1>6. CASE WriteSubscriptionFails \/ WriteInterval \/ ReportStartError \/ Return
  BY <1>6 DEF WriteSubscriptionFails, WriteInterval, ReportStartError, Return, HandlerStep, connVars, Goto, WritesOK
<1>7. CASE CancelSubscribe
  BY <1>7 DEF CancelSubscribe, Close, DropWire, Goto, HandlerStep, WritesOK
<1>8. CASE CheckContext
  BY <1>8 DEF CheckContext, CloseAndReturn, DropWire, Goto, HandlerStep, connVars, WritesOK
<1>9. CASE ReadFails \/ ReadPanics
  BY <1>9 DEF ReadFails, ReadPanics, Close, DropWire, Goto, HandlerStep, WritesOK
<1>10. CASE SendResponse
  BY <1>10 DEF SendResponse, CloseAndReturn, DropWire, Goto, HandlerStep, connVars, WritesOK
<1>11. CASE WriteUpdate
  BY <1>1, <1>11 DEF WriteUpdate, Write, WriteFails, Goto, HandlerStep, WritesOK
<1>12. ASSUME NEW i \in DOMAIN fromExchange, ReadMessage(i)
       PROVE  WritesOK'
  BY <1>12 DEF ReadMessage, Goto, HandlerStep, WritesOK
<1>13. ASSUME NEW d \in 1..MaxDials, HeartBeatTick(d) \/ HeartBeatStops(d)
       PROVE  WritesOK'
  BY <1>13 DEF HeartBeatTick, HeartBeatStops, handlerVars, connVars, WritesOK
<1>14. ASSUME NEW d \in 1..MaxDials, HeartBeatWrite(d)
       PROVE  WritesOK'
  BY <1>14 DEF HeartBeatWrite, Write, WriteFails, handlerVars, WritesOK
<1>15. CASE Confirm \/ Reject \/ Pong \/ Break
  BY <1>15 DEF Confirm, Reject, Pong, Break, CanSend, DropWire, ExchangeStep, handlerVars, WritesOK
<1>16. ASSUME NEW t, NEW type, NEW S, TradeAt(t) \/ Other(type, t) \/ Snapshot(S)
       PROVE  WritesOK'
  BY <1>16 DEF TradeAt, Other, Snapshot, CanSend, ExchangeStep, handlerVars, WritesOK
<1>17. CASE Recv \/ Cancel
  BY <1>17 DEF Recv, Cancel, handlerVars, connVars, WritesOK
<1> QED
  BY <1>2, <1>3, <1>4, <1>5, <1>6, <1>7, <1>8, <1>9, <1>10, <1>11, <1>12, <1>13, <1>14, <1>15, <1>16, <1>17
     DEF Next, HandlerNext, HeartBeatNext, ExchangeNext, Stopped

(* What the exchange sends.                                                *)
LEMMA MessageFacts ==
  ASSUME Types, NEW seq \in Nat, NEW type \in MessageTypes, NEW tickers \in SUBSET Ticker, NEW id \in Nat,
         NEW prices \in SentPrices
  PROVE  MessageAt(seq, type, tickers, id, prices) \in Messages
<1>1. market \in [Ticker -> Nat]
  BY DEF Types
<1> QED
  BY <1>1 DEF MessageAt, Messages

(* What is reported of a message is a response.                            *)
LEMMA ReportType ==
  ASSUME Types, NEW msg \in Messages, MessageOK(msg, exchange, handler, market),
         NEW res, Outcome(res, msg), ~res.err
  PROVE  Report(res, msg) \in Responses
<1>1. res.resolved \in PriceMaps /\ res.unchanged \in SUBSET Ticker /\ dial \in Nat
  BY DEF Outcome, ResolvedFrom, Types
<1>2. [t \in res.unchanged |-> msg.asOf[t]] \in [res.unchanged -> Nat]
  <2>1. res.unchanged # {} => msg.asOf \in [Ticker -> Nat]
    BY DEF Outcome, MessageOK
  <2> QED
    BY <1>1, <2>1
<1> QED
  BY <1>1, <1>2 DEF Report, Responses

-----------------------------------------------------------------------------
(* The steps of the exchange, by what it sends.                            *)
Sent(msg) ==
  /\ conn = "open" /\ fromExchange' = Append(fromExchange, msg)
  /\ ExchangeStep /\ UNCHANGED conn
  /\ msg \in Messages /\ MessageOK(msg, exchange, handler, market')
  /\ msg.type \in {"heartbeat", "ping", "pong"} => msg.asOf = market /\ market' = market

ConfirmStep(msg) ==
  /\ Sent(msg) /\ UNCHANGED market /\ msg.type = "subscribed" /\ msg.prices = <<>>
  /\ toExchange # <<>> /\ toExchange' = Tail(toExchange) /\ msg.tickers = Head(toExchange).tickers
  /\ DOMAIN subs' = msg.tickers \cup DOMAIN subs /\ \A t \in DOMAIN subs' : subs'[t] \in Nat
  /\ \A t \in DOMAIN subs \ msg.tickers : subs'[t] = subs[t]
  /\ exchange = "bitfinex" =>
       (\A t \in msg.tickers : subs'[t] = msg.id) /\ (\A t \in DOMAIN subs : subs[t] # msg.id)

RejectStep(msg) ==
  /\ Sent(msg) /\ UNCHANGED <<market, subs>> /\ msg.type = "rejected" /\ msg.prices = <<>>
  /\ toExchange # <<>> /\ toExchange' = Tail(toExchange) /\ msg.tickers = Head(toExchange).tickers

PriceStep(msg) ==
  /\ Sent(msg) /\ UNCHANGED <<subs, toExchange>> /\ msg.type = "update"
  /\ DOMAIN msg.prices \subseteq DOMAIN subs
  /\ \A t \in DOMAIN msg.prices :
       /\ msg.prices[t] \in {<<t, market'[t]>>, Bad}
       /\ exchange = "huobi" => msg.prices[t] # Bad
       /\ exchange = "bitfinex" => msg.id = subs[t]
  /\ \A t \in Ticker : market'[t] \in {market[t], market[t] + 1}
  /\ \A t \in Ticker \ DOMAIN msg.prices : market'[t] = market[t]
  /\ market' \in [Ticker -> Nat \ {0}]

OtherStep(msg) ==
  /\ Sent(msg) /\ UNCHANGED <<market, subs>> /\ msg.prices = <<>>
  /\ msg.type \notin {"subscribed", "rejected", "update"}
  /\ \/ toExchange' = toExchange
     \/ toExchange # <<>> /\ toExchange' = Tail(toExchange) /\ Head(toExchange).type = "ping"
  /\ exchange = "coinbase" /\ msg.type = "heartbeat" => \A t \in msg.tickers : msg.trade = msg.asOf[t]

UnsentStep ==
  /\ ExchangeStep /\ UNCHANGED <<conn, subs, toExchange, fromExchange>>
  /\ \A t \in Ticker : /\ market'[t] \in {market[t], market[t] + 1}
                       /\ t \in DOMAIN subs => market'[t] = market[t]
  /\ market' \in [Ticker -> Nat \ {0}]

(* A message may be sent without prices.                                   *)
LEMMA NoPricesSent == <<>> \in SentPrices
<1>1. <<>> = [t \in {} |-> Bad] /\ [t \in {} |-> Bad] \in [{} -> Price \cup {Bad}]
  OBVIOUS
<1> QED
  BY <1>1 DEF SentPrices

(* The message the exchange makes.                                         *)
LEMMA MessageIs ==
  ASSUME Types, NEW type \in MessageTypes, NEW tickers \in SUBSET Ticker, NEW id \in Nat,
         NEW prices \in SentPrices
  PROVE  LET msg == Message(type, tickers, id, prices)
         IN  /\ msg \in Messages
             /\ msg.type = type /\ msg.tickers = tickers /\ msg.id = id /\ msg.prices = prices
             /\ type \in {"heartbeat", "ping", "pong"} => msg.asOf = market
             /\ \A t \in Ticker : tickers = {t} => msg.seq = market[t] /\ msg.trade = market[t]
<1> DEFINE t0 == CHOOSE t \in tickers : TRUE
           seq == IF tickers = {} THEN 0 ELSE market[t0]
<1>1. market \in [Ticker -> Nat]
  BY DEF Types
<1>2. tickers # {} => t0 \in tickers
  OBVIOUS
<1>3. \A t \in Ticker : tickers = {t} => t0 = t
  BY <1>2
<1> HIDE DEF t0
<1>4. seq \in Nat /\ \A t \in Ticker : tickers = {t} => seq = market[t]
  BY <1>1, <1>2, <1>3
<1>5. Message(type, tickers, id, prices) = MessageAt(seq, type, tickers, id, prices)
  BY DEF Message, t0
<1> HIDE DEF seq
<1>6. MessageAt(seq, type, tickers, id, prices) \in Messages
  BY <1>4, MessageFacts
<1> QED
  BY <1>4, <1>5, <1>6 DEF MessageAt

(* The exchange confirms a subscription.                                   *)
LEMMA ConfirmFacts ==
  ASSUME Types, WritesOK, RequestsOK, Confirm
  PROVE  \E msg : ConfirmStep(msg)
<1> DEFINE req == Head(toExchange)
           C == IF exchange = "bitfinex" THEN [req.tickers -> Channels] ELSE {[t \in req.tickers |-> 0]}
<1>1. PICK chans \in C :
        /\ exchange = "bitfinex" => Range(chans) \cap Range(subs) = {}
        /\ subs' = [t \in req.tickers \cup DOMAIN subs |-> IF t \in req.tickers THEN chans[t] ELSE subs[t]]
        /\ fromExchange' = Append(fromExchange, Message("subscribed", req.tickers,
             IF exchange = "bitfinex" THEN chans[CHOOSE t \in req.tickers : TRUE] ELSE req.id, <<>>))
  BY DEF Confirm
<1>2. /\ toExchange # <<>> /\ req.type = "subscribe" /\ conn = "open" /\ toExchange' = Tail(toExchange)
      /\ ExchangeStep /\ UNCHANGED <<conn, market>>
  BY DEF Confirm, CanSend
<1>3. toExchange \in Seq(Requests)
  BY DEF Types
<1>4. req \in Requests /\ RequestOK(req, exchange, handler)
  BY <1>2, <1>3, TailFacts DEF RequestsOK
<1> DEFINE id == IF exchange = "bitfinex" THEN chans[CHOOSE t \in req.tickers : TRUE] ELSE req.id
           msg == Message("subscribed", req.tickers, id, <<>>)
<1>5. /\ AboutRequest(req.tickers, req.id, exchange, handler)
      /\ req.tickers \in SUBSET Ticker /\ req.id \in Nat
  BY <1>2, <1>4 DEF RequestOK, Requests
<1>6. Channels \subseteq Nat
  BY QueryConstants, FS_CardinalityType DEF Channels
<1> HIDE DEF req
<1>7. \A t \in req.tickers : chans[t] \in Nat
  <2>1. CASE exchange = "bitfinex"
    BY <1>1, <1>6, <2>1
  <2>2. CASE exchange # "bitfinex"
    BY <1>1, <2>2
  <2> QED
    BY <2>1, <2>2
<1>8. ASSUME exchange = "bitfinex"
      PROVE  /\ id \in Nat /\ \A t \in req.tickers : chans[t] = id
             /\ id \in Range(chans)
  <2>1. PICK t \in Ticker : req.tickers = {t}
    BY <1>5, <1>8 DEF AboutRequest
  <2>2. id = chans[t] /\ DOMAIN chans = {t}
    BY <1>1, <1>8, <2>1
  <2> QED
    BY <1>7, <2>1, <2>2 DEF Range
<1>9. id \in Nat
  BY <1>5, <1>8
<1> HIDE DEF id
<1>10. /\ msg \in Messages /\ msg.type = "subscribed" /\ msg.tickers = req.tickers
       /\ msg.id = id /\ msg.prices = <<>>
  BY <1>5, <1>9, NoPricesSent, MessageIs DEF MessageTypes
<1>11. exchange # "bitfinex" => id = req.id
  BY DEF id
<1>12. AboutRequest(msg.tickers, msg.id, exchange, handler)
  BY <1>5, <1>10, <1>11 DEF AboutRequest
<1>13. MessageOK(msg, exchange, handler, market')
  BY <1>10, <1>12, NoPricesFacts DEF MessageOK, NoPrices
<1>14. fromExchange' = Append(fromExchange, msg)
  BY <1>1 DEF id
<1> HIDE DEF msg
<1>15. Sent(msg)
  BY <1>2, <1>10, <1>13, <1>14 DEF Sent
<1>16. /\ DOMAIN subs' = msg.tickers \cup DOMAIN subs /\ \A t \in DOMAIN subs' : subs'[t] \in Nat
       /\ \A t \in DOMAIN subs \ msg.tickers : subs'[t] = subs[t]
       /\ \A t \in msg.tickers : subs'[t] = chans[t]
  BY <1>1, <1>7, <1>10 DEF Types
<1>17. exchange = "bitfinex" => \A t \in DOMAIN subs : subs[t] # msg.id
  BY <1>1, <1>8, <1>10 DEF Range
<1> QED
  BY <1>2, <1>8, <1>10, <1>15, <1>16, <1>17 DEF ConfirmStep, req

(* The exchange refuses one, or answers a ping.                            *)
LEMMA AnswerFacts ==
  ASSUME Types, WritesOK, RequestsOK, Reject \/ Pong
  PROVE  \E msg : RejectStep(msg) \/ OtherStep(msg)
<1> DEFINE req == Head(toExchange)
           msg == IF Reject THEN Message("rejected", req.tickers, req.id, <<>>)
                  ELSE Message("pong", {}, 0, <<>>)
<1>1. /\ toExchange # <<>> /\ conn = "open" /\ toExchange' = Tail(toExchange)
      /\ ExchangeStep /\ UNCHANGED <<conn, market, subs>>
  BY DEF Reject, Pong, CanSend
<1>2. toExchange \in Seq(Requests)
  BY DEF Types
<1>3. req \in Requests /\ RequestOK(req, exchange, handler)
  BY <1>1, <1>2, TailFacts DEF RequestsOK
<1>4. CASE Reject
  <2>1. req.type = "subscribe" /\ fromExchange' = Append(fromExchange, msg)
    BY <1>4 DEF Reject
  <2>2. /\ AboutRequest(req.tickers, req.id, exchange, handler)
        /\ req.tickers \in SUBSET Ticker /\ req.id \in Nat
    BY <1>3, <2>1 DEF RequestOK, Requests
  <2>3. msg = Message("rejected", req.tickers, req.id, <<>>)
    BY <1>4
  <2> HIDE DEF req, msg
  <2>4. /\ msg \in Messages /\ msg.type = "rejected" /\ msg.tickers = req.tickers
        /\ msg.id = req.id /\ msg.prices = <<>>
    BY <2>2, <2>3, NoPricesSent, MessageIs DEF MessageTypes
  <2>5. MessageOK(msg, exchange, handler, market')
    BY <2>2, <2>4, NoPricesFacts DEF MessageOK, NoPrices
  <2>6. Sent(msg)
    BY <1>1, <2>1, <2>4, <2>5 DEF Sent
  <2> QED
    BY <1>1, <2>1, <2>4, <2>6 DEF RejectStep, req
<1>5. CASE ~Reject
  <2>1. req.type = "ping" /\ fromExchange' = Append(fromExchange, msg)
    BY <1>5 DEF Pong
  <2>2. msg = Message("pong", {}, 0, <<>>)
    BY <1>5
  <2> HIDE DEF req, msg
  <2>3. msg \in Messages /\ msg.type = "pong" /\ msg.prices = <<>> /\ msg.asOf = market
    <3> DEFINE none == {}
    <3>1. "pong" \in MessageTypes /\ none \in SUBSET Ticker /\ 0 \in Nat
      BY DEF MessageTypes
    <3>2. msg = Message("pong", none, 0, <<>>)
      BY <2>2
    <3> HIDE DEF none
    <3> QED
      BY <3>1, <3>2, NoPricesSent, MessageIs
  <2>4. MessageOK(msg, exchange, handler, market')
    BY <2>3, NoPricesFacts DEF MessageOK, NoPrices, Types
  <2>5. Sent(msg)
    BY <1>1, <2>1, <2>3, <2>4 DEF Sent
  <2> QED
    BY <1>1, <2>1, <2>3, <2>5 DEF OtherStep, req
<1> QED
  BY <1>4, <1>5

(* The exchange sends a heartbeat, a ping or something unknown.            *)
LEMMA OtherFacts ==
  ASSUME Types, WritesOK, NEW t \in Ticker, NEW type \in OtherTypes, Other(type, t)
  PROVE  \E msg : OtherStep(msg)
<1> DEFINE about == type = "heartbeat" /\ exchange \in {"coinbase", "bitfinex"}
           tickers == IF about THEN {t} ELSE {}
           id == IF about THEN subs[t] ELSE 0
           msg == Message(type, tickers, id, <<>>)
<1>1. /\ conn = "open" /\ fromExchange' = Append(fromExchange, msg)
      /\ about => t \in DOMAIN subs
      /\ ExchangeStep /\ UNCHANGED <<conn, market, subs, toExchange>>
  BY DEF Other, CanSend
<1>2. type \in {"unknown", "heartbeat", "ping", "welcome", "reconnect"} /\ type \in MessageTypes
      /\ (exchange = "kucoin" => type # "heartbeat")
  <2>1. type \in {"unknown", "heartbeat", "ping", "welcome", "reconnect"}
    BY DEF OtherTypes
  <2>2. type = "heartbeat" => exchange \in {"bitfinex", "bitstamp", "coinbase", "cryptodotcom", "kraken"}
    BY DEF OtherTypes
  <2> QED
    BY <2>1, <2>2 DEF MessageTypes
<1>3. id \in Nat /\ tickers \in SUBSET Ticker /\ (about => tickers = {t})
  BY <1>1 DEF Types
<1> HIDE DEF tickers, id
<1>4. /\ msg \in Messages /\ msg.type = type /\ msg.prices = <<>> /\ msg.tickers = tickers
      /\ type \in {"heartbeat", "ping", "pong"} => msg.asOf = market
      /\ tickers = {t} => msg.seq = market[t] /\ msg.trade = market[t]
  BY <1>2, <1>3, NoPricesSent, MessageIs DEF MessageTypes
<1> HIDE DEF msg
<1>5. market \in [Ticker -> Nat]
  BY DEF Types
<1>6. msg.type \in {"update", "heartbeat"} /\ exchange \in {"bitfinex", "coinbase", "kucoin"} =>
        \E u \in Ticker : msg.tickers = {u} /\ msg.seq <= market[u]
  BY <1>2, <1>3, <1>4, <1>5
<1>7. MessageOK(msg, exchange, handler, market)
  BY <1>2, <1>4, <1>5, <1>6, NoPricesFacts DEF MessageOK, NoPrices
<1>8. Sent(msg)
  BY <1>1, <1>2, <1>4, <1>7 DEF Sent
<1>9. exchange = "coinbase" /\ msg.type = "heartbeat" => \A u \in msg.tickers : msg.trade = msg.asOf[u]
  BY <1>3, <1>4
<1> QED
  BY <1>1, <1>2, <1>4, <1>8, <1>9 DEF OtherStep

(* The exchange repeats its prices.                                        *)
LEMMA SnapshotFacts ==
  ASSUME Types, WritesOK, NEW S \in SUBSET Ticker, Snapshot(S)
  PROVE  \E msg : PriceStep(msg)
<1> DEFINE prices == [t \in S |-> <<t, market[t]>>]
           id == subs[CHOOSE t \in S : TRUE]
           msg == Message("update", S, id, prices)
<1>1. /\ conn = "open" /\ fromExchange' = Append(fromExchange, msg)
      /\ S # {} /\ S \subseteq DOMAIN subs /\ (Cardinality(S) > 1 => exchange \in {"okx", "cryptodotcom"})
      /\ ExchangeStep /\ UNCHANGED <<conn, market, subs, toExchange>>
  BY DEF Snapshot, CanSend
<1>2. id \in Nat
  BY <1>1 DEF Types
<1>3. market \in [Ticker -> Nat \ {0}]
  BY DEF Types
<1>4. prices \in SentPrices /\ DOMAIN prices = S /\ \A t \in S : prices[t] = <<t, market[t]>>
  <2>1. prices \in [S -> Price \cup {Bad}]
    BY <1>3 DEF Price
  <2> QED
    BY <2>1 DEF SentPrices
<1>5. ASSUME exchange \in {"bitfinex", "coinbase", "kucoin"}
      PROVE  \E t \in Ticker : S = {t} /\ id = subs[t]
  <2>1. IsFiniteSet(S) /\ Cardinality(S) \in Nat /\ ~(Cardinality(S) > 1)
    BY <1>1, <1>5, QueryConstants, FS_Subset, FS_CardinalityType
  <2>2. Cardinality(S) = 1
    BY <1>1, <2>1, FS_EmptySet
  <2>3. PICK t : S = {t}
    BY <2>1, <2>2, FS_Singleton
  <2> QED
    BY <2>3
<1> HIDE DEF prices, id
<1>6. /\ msg \in Messages /\ msg.type = "update" /\ msg.tickers = S /\ msg.id = id /\ msg.prices = prices
      /\ \A t \in Ticker : S = {t} => msg.seq = market[t]
  BY <1>2, <1>4, MessageIs DEF MessageTypes
<1> HIDE DEF msg
<1>7. \A t \in S : PriceOK(prices[t], t, msg.seq, exchange, market)
  <2>1. SUFFICES ASSUME NEW t \in S
                 PROVE  PriceOK(prices[t], t, msg.seq, exchange, market)
    OBVIOUS
  <2>2. prices[t][2] = market[t] /\ market[t] \in Nat \ {0}
    BY <1>3, <1>4
  <2>3. exchange \in {"coinbase", "kucoin"} => msg.seq = market[t]
    BY <1>5, <1>6
  <2> QED
    BY <1>4, <2>2, <2>3 DEF PriceOK
<1>8. exchange \in {"bitfinex", "coinbase", "kucoin"} =>
        \E t \in Ticker : S = {t} /\ msg.seq <= market[t]
  BY <1>3, <1>5, <1>6
<1>9. MessageOK(msg, exchange, handler, market)
  BY <1>4, <1>6, <1>7, <1>8 DEF MessageOK
<1>10. Sent(msg)
  BY <1>1, <1>6, <1>9 DEF Sent
<1>11. \A t \in S : prices[t] # Bad
  <2>1. SUFFICES ASSUME NEW t \in S
                 PROVE  prices[t] # Bad
    OBVIOUS
  <2>2. prices[t] \in Ticker \X Nat
    BY <1>3, <1>4
  <2> QED
    BY <2>2, QueryConstants
<1>12. exchange = "bitfinex" => \A t \in S : msg.id = subs[t]
  BY <1>5, <1>6
<1> QED
  BY <1>1, <1>3, <1>4, <1>6, <1>10, <1>11, <1>12 DEF PriceStep

(* A price moves, and the exchange sends it, or not.                       *)
LEMMA TradeFacts ==
  ASSUME Types, WritesOK, NEW t \in Ticker, TradeAt(t)
  PROVE  UnsentStep \/ \E msg : PriceStep(msg)
<1>1. market \in [Ticker -> Nat \ {0}]
  BY DEF Types
<1>2. /\ market' \in [Ticker -> Nat \ {0}] /\ market'[t] = market[t] + 1
      /\ \A u \in Ticker \ {t} : market'[u] = market[u]
  BY <1>1 DEF TradeAt
<1>3. ExchangeStep /\ UNCHANGED <<conn, subs, toExchange>>
  BY DEF TradeAt
<1>4. CASE ~(t \in DOMAIN subs /\ conn = "open")
  <2>1. t \notin DOMAIN subs
    BY <1>4 DEF WritesOK
  <2>2. UNCHANGED fromExchange
    BY <1>4 DEF TradeAt
  <2> QED
    BY <1>2, <1>3, <2>1, <2>2 DEF UnsentStep
<1>5. CASE t \in DOMAIN subs /\ conn = "open"
  <2>1. PICK p \in {<<t, market'[t]>>} \cup (IF exchange = "huobi" THEN {} ELSE {Bad}) :
          fromExchange' = Append(fromExchange,
            MessageAt(market'[t], "update", {t}, subs[t], [s \in {t} |-> p]))
    BY <1>5 DEF TradeAt
  <2> DEFINE prices == [s \in {t} |-> p]
             msg == MessageAt(market'[t], "update", {t}, subs[t], prices)
  <2>2. subs[t] \in Nat
    BY <1>5 DEF Types
  <2>3. p \in Price \cup {Bad}
    BY <1>2, <2>1 DEF Price
  <2>4. prices \in SentPrices /\ DOMAIN prices = {t} /\ prices[t] = p
    <3>1. prices \in [{t} -> Price \cup {Bad}]
      BY <2>3
    <3> QED
      BY <3>1 DEF SentPrices
  <2> HIDE DEF prices
  <2>5. msg \in Messages
    BY <1>2, <2>2, <2>4, MessageFacts DEF MessageTypes
  <2>6. /\ msg.type = "update" /\ msg.tickers = {t} /\ msg.id = subs[t] /\ msg.prices = prices
        /\ msg.seq = market'[t]
    BY DEF MessageAt
  <2> HIDE DEF msg
  <2>7. PriceOK(p, t, msg.seq, exchange, market')
    BY <1>2, <2>1, <2>6 DEF PriceOK
  <2>8. MessageOK(msg, exchange, handler, market')
    BY <1>2, <2>4, <2>6, <2>7 DEF MessageOK
  <2>9. fromExchange' = Append(fromExchange, msg)
    BY <2>1 DEF msg, prices
  <2>10. Sent(msg)
    BY <1>3, <1>5, <2>5, <2>6, <2>8, <2>9 DEF Sent
  <2>11. p \in {<<t, market'[t]>>, Bad} /\ (exchange = "huobi" => p # Bad)
    BY <1>2, <2>1, QueryConstants
  <2> QED
    BY <1>2, <1>3, <1>5, <2>4, <2>6, <2>10, <2>11 DEF PriceStep
<1> QED
  BY <1>4, <1>5

(* Every step of the exchange has one of these effects.                    *)
LEMMA ExchangeEffects ==
  ASSUME Types, WritesOK, RequestsOK, ExchangeSteps
  PROVE  UnsentStep \/ \E msg : ConfirmStep(msg) \/ RejectStep(msg) \/ PriceStep(msg) \/ OtherStep(msg)
BY ConfirmFacts, AnswerFacts, OtherFacts, SnapshotFacts, TradeFacts DEF ExchangeSteps

-----------------------------------------------------------------------------
(* The types of what is stored and sent.                                   *)
Base == HeartBeatsOK /\ Types /\ WritesOK /\ RequestsOK /\ MessagesOK /\ ChannelsOK

(* A message is read: what becomes of the handler, the response and the    *)
(* requests.                                                               *)
LEMMA ReadEffect ==
  ASSUME Base, ReadStep
  PROVE  \E i \in DOMAIN fromExchange :
           LET msg == fromExchange[i]
               res == HandleMessage(exchange, handler, msg)
           IN  /\ i = 1 \/ Reorders
               /\ msg \in Messages /\ MessageOK(msg, exchange, handler, market) /\ ChannelKnown(msg)
               /\ Outcome(res, msg) /\ (exchange \in AsksAgain => AskedAgain(res, msg))
               /\ Extends(handler, res.h)
               /\ pc = "reading" /\ conn = "open"
               /\ fromExchange' = RemoveAt(fromExchange, i) /\ handler' = res.h
               /\ res.err => pc' = "loop" /\ UNCHANGED <<response, writes>>
               /\ ~res.err => /\ pc' = "send" /\ response' = Report(res, msg) /\ writes' = res.writes
                              /\ response' \in Responses
               /\ UNCHANGED <<exchange, ids, ctxDone, data, market, responseCh, dial, conn, subs, toExchange>>
<1>1. PICK i \in DOMAIN fromExchange : (i = 1 \/ Reorders) /\ ReadMessage(i)
  BY DEF ReadStep
<1> DEFINE msg == fromExchange[i]
           res == HandleMessage(exchange, handler, msg)
<1>2. /\ msg \in Messages /\ MessageOK(msg, exchange, handler, market) /\ ChannelKnown(msg)
      /\ Outcome(res, msg) /\ (exchange \in AsksAgain => AskedAgain(res, msg))
      /\ Extends(handler, res.h)
  BY <1>1, ReadFacts DEF Base
<1>3. /\ pc = "reading" /\ conn = "open"
      /\ fromExchange' = RemoveAt(fromExchange, i) /\ handler' = res.h
      /\ res.err => pc' = "loop" /\ UNCHANGED <<response, writes>>
      /\ ~res.err => pc' = "send" /\ response' = Report(res, msg) /\ writes' = res.writes
      /\ UNCHANGED <<exchange, ids, ctxDone, data, market, responseCh, dial, conn, subs, toExchange>>
  BY <1>1 DEF ReadMessage, Goto, HandlerStep
<1> HIDE DEF msg, res
<1>4. ~res.err => Report(res, msg) \in Responses
  BY <1>2, ReportType DEF Base
<1>5. ~res.err => response' \in Responses
  BY <1>3, <1>4
<1> QED
  BY <1>1, <1>2, <1>3, <1>5 DEF msg, res

(* What is stored of a response is data.                                   *)
LEMMA UpdateType ==
  ASSUME NEW old \in [Ticker -> StoredData], NEW r \in Responses
  PROVE  UpdateData(old, r) \in [Ticker -> StoredData]
<1>1. ASSUME NEW t \in Ticker
      PROVE  UpdateData(old, r)[t] \in StoredData
  <2>1. r.dial \in Nat /\ r.unchanged \in SUBSET Ticker
    BY DEF Responses
  <2>2. CASE t \in DOMAIN r.resolved
    <3>1. r.resolved[t] \in Price
      BY <2>2 DEF Responses, PriceMaps
    <3>2. r.resolved[t][2] \in Nat
      BY <3>1 DEF Price
    <3>3. UpdateData(old, r)[t] = [price |-> r.resolved[t], asOf |-> r.resolved[t][2], dial |-> r.dial]
      BY <2>2 DEF UpdateData
    <3> QED
      BY <2>1, <3>1, <3>2, <3>3 DEF StoredData
  <2>3. CASE t \notin DOMAIN r.resolved /\ t \in r.unchanged /\ old[t] # NoData
    <3>1. r.asOf[t] \in Nat
      BY <2>3 DEF Responses
    <3>2. old[t] \in [price : Price, asOf : Nat, dial : Nat]
      BY <2>3 DEF StoredData
    <3>3. UpdateData(old, r)[t] =
            [price |-> old[t].price, asOf |-> r.asOf[t],
             dial |-> IF old[t].dial = r.dial THEN r.dial ELSE 0]
      BY <2>3 DEF UpdateData
    <3> QED
      BY <2>1, <3>1, <3>2, <3>3 DEF StoredData
  <2>4. CASE t \notin DOMAIN r.resolved /\ ~(t \in r.unchanged /\ old[t] # NoData)
    BY <2>4 DEF UpdateData
  <2> QED
    BY <2>2, <2>3, <2>4
<1>2. UpdateData(old, r) = [t \in Ticker |-> UpdateData(old, r)[t]]
  BY DEF UpdateData
<1> HIDE DEF UpdateData
<1> QED
  BY <1>1, <1>2

(* Every step keeps the types.                                             *)
LEMMA TypesStep ==
  ASSUME Base, [Next]_vars
  PROVE  Types'
<1>1. Types /\ WritesOK
  BY DEF Base
<1>2. /\ \A s \in Seq(Requests) : \A e \in Requests : Append(s, e) \in Seq(Requests)
      /\ \A s \in Seq(Messages) : \A e \in Messages : Append(s, e) \in Seq(Messages)
      /\ \A s \in Seq(Responses) : \A e \in Responses : Append(s, e) \in Seq(Responses)
  OBVIOUS
<1>3. /\ \A s \in Seq(Requests) : s # <<>> => Head(s) \in Requests /\ Tail(s) \in Seq(Requests)
      /\ \A s \in Seq(Responses) : s # <<>> => Head(s) \in Responses /\ Tail(s) \in Seq(Responses)
  BY TailFacts
<1>4. <<>> \in Seq(Requests) /\ <<>> \in Seq(Messages) /\ DOMAIN <<>> = {}
  OBVIOUS
<1>5. CASE LocalStep
  BY <1>1, <1>4, <1>5 DEF LocalStep, connVars, Types
<1>6. CASE DropStep
  BY <1>1, <1>4, <1>6 DEF DropStep, DropWire, Types
<1>7. CASE DialSucceeds
  <2> DEFINE c == CreateMessages(exchange, handler, ids)
  <2>1. /\ handler' = c.h /\ writes' = c.writes /\ DropWire /\ dial' = dial + 1
        /\ pc' \in {"report", "subscribe"}
        /\ UNCHANGED <<exchange, ids, data, market, responseCh>>
    BY <1>7 DEF DialSucceeds, Goto, HandlerStep
  <2>2. c.h.cache \in SUBSET Ticker /\ c.h.messageIDs \in Seq(SUBSET Ticker) /\ c.writes \in Seq(Requests)
    BY <1>1, CreateFacts
  <2> HIDE DEF c
  <2> QED
    BY <1>1, <1>4, <2>1, <2>2 DEF DropWire, Types
<1>8. CASE WriteStep
  <2>1. /\ writes' \in Seq(Requests)
        /\ toExchange' \in Seq(Requests)
    <3>1. pc \in {"subscribe", "update"} => Head(writes) \in Requests /\ Tail(writes) \in Seq(Requests)
      BY <1>1, <1>3 DEF WritesOK, Types
    <3>2. Request("ping", {}, 0) \in Requests
      BY DEF Request, Requests
    <3> QED
      BY <1>1, <1>2, <1>8, <3>1, <3>2 DEF WriteStep, Types
  <2> QED
    BY <1>1, <1>8, <2>1 DEF WriteStep, Types
<1>9. CASE ReportStartError
  <2> DEFINE r == [resolved |-> <<>>, unchanged |-> {}, asOf |-> <<>>, dial |-> dial]
  <2>1. <<>> \in PriceMaps /\ dial \in Nat
    BY <1>1, NoPricesFacts DEF NoPrices, Types
  <2>2. <<>> = [t \in {} |-> 0] /\ [t \in {} |-> 0] \in [{} -> Nat]
    OBVIOUS
  <2>3. r \in Responses
    BY <2>1, <2>2 DEF Responses
  <2>4. /\ responseCh' = Append(responseCh, r) /\ pc' = "return"
        /\ UNCHANGED <<exchange, ids, handler, writes, connVars, data, market>>
    BY <1>9 DEF ReportStartError, Goto, HandlerStep
  <2> HIDE DEF r
  <2> QED
    BY <1>1, <1>2, <2>3, <2>4 DEF connVars, Types
<1>10. CASE ReadStep
  <2>1. PICK i \in DOMAIN fromExchange :
           LET res == HandleMessage(exchange, handler, fromExchange[i])
           IN  /\ Outcome(res, fromExchange[i])
               /\ fromExchange' = RemoveAt(fromExchange, i) /\ handler' = res.h
               /\ res.err => pc' = "loop" /\ UNCHANGED <<response, writes>>
               /\ ~res.err => pc' = "send" /\ writes' = res.writes /\ response' \in Responses
               /\ UNCHANGED <<exchange, ids, data, market, responseCh, dial, conn, subs, toExchange>>
    BY <1>10, ReadEffect
  <2> DEFINE res == HandleMessage(exchange, handler, fromExchange[i])
  <2> HIDE DEF res
  <2>2. /\ Outcome(res, fromExchange[i]) /\ handler' = res.h
        /\ res.err => pc' = "loop" /\ UNCHANGED <<response, writes>>
        /\ ~res.err => pc' = "send" /\ writes' = res.writes /\ response' \in Responses
        /\ UNCHANGED <<exchange, ids, data, market, responseCh, dial, conn, subs, toExchange>>
    BY <2>1 DEF res
  <2>3. res.h.cache = handler.cache /\ res.h.messageIDs \in Seq(SUBSET Ticker) /\ res.writes \in Seq(Requests)
    BY <2>2 DEF Outcome
  <2>4. fromExchange' \in Seq(Messages)
    BY <1>1, <2>1, RemoveAtFacts DEF Types
  <2> QED
    BY <1>1, <2>2, <2>3, <2>4 DEF Types
<1>11. CASE SendStep
  BY <1>1, <1>2, <1>11 DEF SendStep, connVars, Types
<1>12. CASE Recv
  <2>1. /\ responseCh # <<>> /\ data' = UpdateData(data, Head(responseCh)) /\ responseCh' = Tail(responseCh)
        /\ UNCHANGED <<handlerVars, connVars, market>>
    BY <1>12 DEF Recv
  <2>2. data' \in [Ticker -> StoredData]
    BY <1>1, <1>3, <2>1, UpdateType DEF Types
  <2> QED
    BY <1>1, <1>3, <2>1, <2>2 DEF handlerVars, connVars, Types
<1>13. CASE UnsentStep
  BY <1>1, <1>13 DEF UnsentStep, ExchangeStep, handlerVars, Types
<1>14. ASSUME NEW msg, ConfirmStep(msg) \/ RejectStep(msg) \/ PriceStep(msg) \/ OtherStep(msg)
       PROVE  Types'
  <2>1. msg \in Messages /\ fromExchange' = Append(fromExchange, msg) /\ ExchangeStep
    BY <1>14 DEF ConfirmStep, RejectStep, PriceStep, OtherStep, Sent
  <2>2. toExchange' = toExchange \/ (toExchange # <<>> /\ toExchange' = Tail(toExchange))
    BY <1>14 DEF ConfirmStep, RejectStep, PriceStep, OtherStep
  <2>3. market' = market \/ market' \in [Ticker -> Nat \ {0}]
    BY <1>14 DEF ConfirmStep, RejectStep, PriceStep, OtherStep
  <2>4. DOMAIN subs' \in SUBSET Ticker /\ \A t \in DOMAIN subs' : subs'[t] \in Nat
    <3>1. CASE ConfirmStep(msg)
      <4>1. msg.tickers \in SUBSET Ticker
        BY <2>1 DEF Messages
      <4> QED
        BY <1>1, <3>1, <4>1 DEF ConfirmStep, Types
    <3>2. CASE ~ConfirmStep(msg)
      BY <1>1, <1>14, <3>2 DEF RejectStep, PriceStep, OtherStep, Types
    <3> QED
      BY <3>1, <3>2
  <2> QED
    BY <1>1, <1>2, <1>3, <2>1, <2>2, <2>3, <2>4 DEF ExchangeStep, handlerVars, Types
<1> QED
  BY <1>5, <1>6, <1>7, <1>8, <1>9, <1>10, <1>11, <1>12, <1>13, <1>14, Effects, ExchangeEffects DEF Base

-----------------------------------------------------------------------------
(* Requests and messages stay as they should be.                           *)
LEMMA Elements ==
  ASSUME NEW S, NEW s \in Seq(S)
  PROVE  /\ s # <<>> => /\ 1 \in DOMAIN s /\ Head(s) = s[1]
                        /\ \A i \in DOMAIN Tail(s) : \E j \in DOMAIN s : Tail(s)[i] = s[j]
         /\ \A e \in S : \A i \in DOMAIN Append(s, e) :
              Append(s, e)[i] = e \/ \E j \in DOMAIN s : Append(s, e)[i] = s[j]
         /\ \A k \in DOMAIN s : \A i \in DOMAIN RemoveAt(s, k) : \E j \in DOMAIN s : RemoveAt(s, k)[i] = s[j]
<1>1. ASSUME s # <<>>
      PROVE  /\ 1 \in DOMAIN s /\ Head(s) = s[1]
             /\ \A i \in DOMAIN Tail(s) : \E j \in DOMAIN s : Tail(s)[i] = s[j]
  <2>1. /\ Len(s) \in Nat \ {0} /\ DOMAIN s = 1 .. Len(s) /\ DOMAIN Tail(s) = 1 .. Len(s) - 1
        /\ \A i \in 1 .. Len(s) - 1 : Tail(s)[i] = s[i + 1]
        /\ Head(s) = s[1]
    BY <1>1, TailFacts
  <2>2. \A i \in DOMAIN Tail(s) : i + 1 \in DOMAIN s /\ Tail(s)[i] = s[i + 1]
    BY <2>1
  <2> QED
    BY <2>1, <2>2
<1>2. ASSUME NEW e \in S, NEW i \in DOMAIN Append(s, e)
      PROVE  Append(s, e)[i] = e \/ \E j \in DOMAIN s : Append(s, e)[i] = s[j]
  <2>1. /\ Len(s) \in Nat /\ DOMAIN s = 1 .. Len(s) /\ DOMAIN Append(s, e) = 1 .. Len(s) + 1
        /\ \A j \in 1 .. Len(s) : Append(s, e)[j] = s[j]
        /\ Append(s, e)[Len(s) + 1] = e
    BY AppendFacts
  <2>2. i = Len(s) + 1 \/ i \in 1 .. Len(s)
    BY <2>1
  <2> QED
    BY <2>1, <2>2
<1>3. ASSUME NEW k \in DOMAIN s, NEW i \in DOMAIN RemoveAt(s, k)
      PROVE  \E j \in DOMAIN s : RemoveAt(s, k)[i] = s[j]
  <2>1. /\ Len(s) \in Nat \ {0} /\ DOMAIN s = 1 .. Len(s) /\ DOMAIN RemoveAt(s, k) = 1 .. Len(s) - 1
        /\ \A j \in 1 .. Len(s) - 1 : RemoveAt(s, k)[j] = s[IF j < k THEN j ELSE j + 1]
    BY RemoveAtFacts
  <2>2. (IF i < k THEN i ELSE i + 1) \in DOMAIN s
    BY <2>1
  <2> QED
    BY <2>1, <2>2
<1> QED
  BY <1>1, <1>2, <1>3

(* The handler only learns, and the markets only move on.                  *)
LEMMA GrowthStep ==
  ASSUME Base, [Next]_vars
  PROVE  /\ exchange' = exchange /\ ids' = ids /\ Extends(handler, handler')
         /\ \A t \in Ticker : market'[t] \in {market[t], market[t] + 1}
         /\ market \in [Ticker -> Nat] /\ market' \in [Ticker -> Nat]
         /\ \A t \in Ticker : market[t] <= market[t] /\ market[t] <= market'[t]
<1>1. Types /\ Types' /\ WritesOK
  BY TypesStep DEF Base
<1>2. exchange' = exchange /\ ids' = ids
  BY Effects, ExchangeEffects DEF Base, LocalStep, DropStep, DialSucceeds, WriteStep, ReportStartError, ReadStep, ReadMessage,
     SendStep, Recv, UnsentStep, ConfirmStep, RejectStep, PriceStep, OtherStep, Sent, ExchangeStep, HandlerStep, handlerVars
<1>3. Extends(handler, handler')
  <2>1. Extends(handler, handler)
    BY DEF Extends
  <2>2. CASE DialSucceeds
    <3>1. handler' = CreateMessages(exchange, handler, ids).h
      BY <2>2 DEF DialSucceeds
    <3> QED
      BY <1>1, <3>1, CreateFacts
  <2>3. CASE ReadStep
    BY <2>3, ReadEffect
  <2>4. CASE ~DialSucceeds /\ ~ReadStep
    <3>1. handler' = handler
      BY <2>4, Effects, ExchangeEffects DEF Base, LocalStep, DropStep, WriteStep, ReportStartError,
         SendStep, Recv, UnsentStep, ConfirmStep, RejectStep, PriceStep, OtherStep, Sent, ExchangeStep, HandlerStep, handlerVars
    <3> QED
      BY <2>1, <3>1
  <2> QED
    BY <2>2, <2>3, <2>4
<1>4. market \in [Ticker -> Nat \ {0}] /\ market' \in [Ticker -> Nat \ {0}]
  BY <1>1 DEF Types
<1>5. \/ market' = market
      \/ \A t \in Ticker : market'[t] \in {market[t], market[t] + 1}
  BY Effects, ExchangeEffects DEF Base, LocalStep, DropStep, DialSucceeds, WriteStep, ReportStartError, ReadStep, ReadMessage,
     SendStep, Recv, UnsentStep, ConfirmStep, RejectStep, PriceStep, OtherStep, HandlerStep
<1>6. \A t \in Ticker : market[t] \in Nat /\ market'[t] \in Nat
  BY <1>4
<1>7. \A t \in Ticker : market'[t] \in {market[t], market[t] + 1}
  BY <1>5
<1>8. \A t \in Ticker : market[t] <= market[t] /\ market[t] <= market'[t]
  BY <1>6, <1>7
<1>9. market \in [Ticker -> Nat] /\ market' \in [Ticker -> Nat]
  BY <1>4, <1>6
<1> QED
  BY <1>2, <1>3, <1>7, <1>8, <1>9

(* Every step keeps the requests as they should be.                        *)
LEMMA RequestsStep ==
  ASSUME Base, [Next]_vars
  PROVE  RequestsOK'
<1>1. Types /\ WritesOK /\ RequestsOK /\ exchange' = exchange
  BY GrowthStep DEF Base
<1>2. writes \in Seq(Requests) /\ toExchange \in Seq(Requests) /\ market \in [Ticker -> Nat]
  BY <1>1 DEF Types
<1>3. \A req : RequestOK(req, exchange, handler) => RequestOK(req, exchange, handler')
  BY <1>2, GrowthStep, GrowthKeeps
<1>4. /\ \A i \in DOMAIN writes : RequestOK(writes[i], exchange, handler')
      /\ \A i \in DOMAIN toExchange : RequestOK(toExchange[i], exchange, handler')
  BY <1>1, <1>3 DEF RequestsOK
<1>5. writes' = writes \/ writes' = <<>> \/ (writes # <<>> /\ writes' = Tail(writes)) \/ DialSucceeds \/ ReadStep
  <2>1. CASE WriteStep
    BY <1>1, <2>1 DEF WriteStep, WritesOK
  <2>2. CASE LocalStep \/ DropStep \/ ReportStartError \/ SendStep \/ Recv
    BY <2>2 DEF LocalStep, DropStep, ReportStartError, SendStep, Recv, HandlerStep, handlerVars
  <2>3. CASE ExchangeSteps
    BY <2>3, ExchangeEffects DEF Base, UnsentStep, ConfirmStep, RejectStep, PriceStep, OtherStep, Sent, ExchangeStep, handlerVars
  <2> QED
    BY <2>1, <2>2, <2>3, Effects DEF Base
<1>6. \A i \in DOMAIN writes' : RequestOK(writes'[i], exchange, handler')
  <2>1. CASE writes' = writes
    BY <1>4, <2>1
  <2>2. CASE writes' = <<>>
    BY <2>2
  <2>3. CASE writes # <<>> /\ writes' = Tail(writes)
    BY <1>2, <1>4, <2>3, Elements
  <2>4. CASE DialSucceeds
    <3> DEFINE c == CreateMessages(exchange, handler, ids)
    <3>1. handler' = c.h /\ writes' = c.writes
      BY <2>4 DEF DialSucceeds
    <3>2. \A i \in DOMAIN c.writes : RequestOK(c.writes[i], exchange, c.h)
      BY <1>1, CreateFacts
    <3> HIDE DEF c
    <3> QED
      BY <3>1, <3>2
  <2>5. CASE ReadStep
    <3>1. PICK i \in DOMAIN fromExchange :
             LET msg == fromExchange[i]
                 res == HandleMessage(exchange, handler, msg)
             IN  /\ MessageOK(msg, exchange, handler, market)
                 /\ Outcome(res, msg) /\ handler' = res.h
                 /\ res.err => writes' = writes
                 /\ ~res.err => writes' = res.writes
      BY <2>5, ReadEffect
    <3> DEFINE msg == fromExchange[i]
               res == HandleMessage(exchange, handler, msg)
    <3> HIDE DEF msg, res
    <3>2. /\ MessageOK(msg, exchange, handler, market) /\ Outcome(res, msg) /\ handler' = res.h
          /\ res.err => writes' = writes
          /\ ~res.err => writes' = res.writes
      BY <3>1 DEF msg, res
    <3>3. CASE res.err
      BY <1>4, <3>2, <3>3
    <3>4. ASSUME ~res.err, NEW j \in DOMAIN res.writes
          PROVE  RequestOK(res.writes[j], exchange, res.h)
      <4>1. SUFFICES ASSUME res.writes[j].type = "subscribe"
                     PROVE  AboutRequest(res.writes[j].tickers, res.writes[j].id, exchange, res.h)
        BY DEF RequestOK
      <4>2. RequestFor(res.writes[j], res.h, msg) /\ res.h.cache = handler.cache
        BY <3>2, <4>1 DEF Outcome
      <4>3. msg.tickers \subseteq handler.cache
        BY <3>2, <4>2 DEF RequestFor, MessageOK, AboutRequest
      <4> QED
        BY <4>2, <4>3 DEF RequestFor, AboutRequest
    <3> QED
      BY <3>2, <3>3, <3>4
  <2> QED
    BY <1>5, <2>1, <2>2, <2>3, <2>4, <2>5
<1>7. \/ toExchange' = toExchange \/ toExchange' = <<>>
      \/ toExchange # <<>> /\ toExchange' = Tail(toExchange)
      \/ writes # <<>> /\ toExchange' = Append(toExchange, Head(writes))
      \/ toExchange' = Append(toExchange, Request("ping", {}, 0))
  BY <1>1, Effects, ExchangeEffects DEF Base, WritesOK, LocalStep, DropStep, DropWire, DialSucceeds, WriteStep, ReportStartError, ReadStep,
     ReadMessage, SendStep, Recv, UnsentStep, ConfirmStep, RejectStep, PriceStep, OtherStep, connVars
<1>8. \A i \in DOMAIN toExchange' : RequestOK(toExchange'[i], exchange, handler')
  <2>1. CASE toExchange' = toExchange
    BY <1>4, <2>1
  <2>2. CASE toExchange' = <<>>
    BY <2>2
  <2>3. CASE toExchange # <<>> /\ toExchange' = Tail(toExchange)
    BY <1>2, <1>4, <2>3, Elements
  <2>4. CASE writes # <<>> /\ toExchange' = Append(toExchange, Head(writes))
    <3>1. Head(writes) \in Requests /\ RequestOK(Head(writes), exchange, handler')
      BY <1>2, <1>4, <2>4, Elements, TailFacts
    <3> QED
      BY <1>2, <1>4, <2>4, <3>1, Elements
  <2>5. CASE toExchange' = Append(toExchange, Request("ping", {}, 0))
    <3> DEFINE ping == Request("ping", {}, 0)
    <3>1. ping \in Requests /\ RequestOK(ping, exchange, handler')
      BY DEF Request, Requests, RequestOK
    <3> HIDE DEF ping
    <3>2. toExchange' = Append(toExchange, ping)
      BY <2>5 DEF ping
    <3> QED
      BY <1>2, <1>4, <3>1, <3>2, Elements
  <2> QED
    BY <1>7, <2>1, <2>2, <2>3, <2>4, <2>5
<1> QED
  BY <1>1, <1>6, <1>8 DEF RequestsOK

(* Every step keeps the messages as they should be.                        *)
LEMMA MessagesStep ==
  ASSUME Base, [Next]_vars
  PROVE  MessagesOK'
<1>1. Types /\ WritesOK /\ MessagesOK /\ exchange' = exchange
  BY GrowthStep DEF Base
<1>2. fromExchange \in Seq(Messages) /\ market \in [Ticker -> Nat] /\ market' \in [Ticker -> Nat]
      /\ \A t \in Ticker : market[t] <= market'[t]
  BY <1>1, GrowthStep DEF Types
<1>3. \A msg \in Messages :
        MessageOK(msg, exchange, handler, market) => MessageOK(msg, exchange, handler', market')
  BY <1>2, GrowthStep, GrowthKeeps
<1>4. \A i \in DOMAIN fromExchange : MessageOK(fromExchange[i], exchange, handler', market')
  BY <1>1, <1>2, <1>3 DEF MessagesOK
<1>5. \/ fromExchange' = fromExchange \/ fromExchange' = <<>>
      \/ \E i \in DOMAIN fromExchange : fromExchange' = RemoveAt(fromExchange, i)
      \/ \E msg : Sent(msg)
  BY <1>1, Effects, ExchangeEffects DEF Base, LocalStep, DropStep, DropWire, DialSucceeds, WriteStep, ReportStartError, ReadStep,
     ReadMessage, SendStep, Recv, UnsentStep, ConfirmStep, RejectStep, PriceStep, OtherStep, connVars
<1>6. \A i \in DOMAIN fromExchange' : MessageOK(fromExchange'[i], exchange, handler', market')
  <2>1. CASE fromExchange' = fromExchange
    BY <1>4, <2>1
  <2>2. CASE fromExchange' = <<>>
    BY <2>2
  <2>3. CASE \E i \in DOMAIN fromExchange : fromExchange' = RemoveAt(fromExchange, i)
    BY <1>2, <1>4, <2>3, Elements
  <2>4. ASSUME NEW msg, Sent(msg)
        PROVE  \A i \in DOMAIN fromExchange' : MessageOK(fromExchange'[i], exchange, handler', market')
    <3>1. /\ msg \in Messages /\ MessageOK(msg, exchange, handler, market')
          /\ fromExchange' = Append(fromExchange, msg) /\ handler' = handler
      BY <2>4 DEF Sent, ExchangeStep, handlerVars
    <3>2. MessageOK(msg, exchange, handler', market')
      BY <3>1
    <3> QED
      BY <1>2, <1>4, <3>1, <3>2, Elements
  <2> QED
    BY <1>5, <2>1, <2>2, <2>3, <2>4
<1> QED
  BY <1>1, <1>6 DEF MessagesOK

-----------------------------------------------------------------------------
(* Bitfinex: the channels as messages are sent and read.                   *)
LEMMA ChannelSent ==
  ASSUME NEW wire \in Seq(Messages), NEW msg \in Messages, NEW map, NEW ch, NEW t
  PROVE  LET sent == Append(wire, msg)
             n == Len(wire)
         IN  /\ \A i \in 1 .. n + 1 : ChannelIs(wire, map, ch, t, i) => ChannelIs(sent, map, ch, t, i)
             /\ ~Maps(msg, ch) /\ ChannelIs(wire, map, ch, t, n + 1) => ChannelIs(sent, map, ch, t, n + 2)
             /\ Maps(msg, ch) /\ msg.tickers = {t} => ChannelIs(sent, map, ch, t, n + 2)
<1> DEFINE sent == Append(wire, msg)
           n == Len(wire)
<1>1. n \in Nat /\ (\A i \in 1 .. n : sent[i] = wire[i]) /\ sent[n + 1] = msg
  BY AppendFacts
<1> HIDE DEF sent, n
<1>2. ASSUME NEW i \in 1 .. n + 1, ChannelIs(wire, map, ch, t, i)
      PROVE  ChannelIs(sent, map, ch, t, i)
  <2>1. \A j \in 1 .. i - 1 : sent[j] = wire[j]
    BY <1>1
  <2>2. ASSUME NEW j \in 1 .. i - 1, Maps(wire[j], ch), wire[j].tickers = {t},
               \A k \in j + 1 .. i - 1 : ~Maps(wire[k], ch)
        PROVE  ChannelIs(sent, map, ch, t, i)
    <3>1. \A k \in j + 1 .. i - 1 : k \in 1 .. i - 1
      OBVIOUS
    <3>2. Maps(sent[j], ch) /\ sent[j].tickers = {t} /\ \A k \in j + 1 .. i - 1 : ~Maps(sent[k], ch)
      BY <2>1, <2>2, <3>1
    <3> QED
      BY <3>2 DEF ChannelIs
  <2>3. ASSUME \A k \in 1 .. i - 1 : ~Maps(wire[k], ch), ch \in DOMAIN map /\ map[ch] = t
        PROVE  ChannelIs(sent, map, ch, t, i)
    BY <2>1, <2>3 DEF ChannelIs
  <2> QED
    BY <1>2, <2>2, <2>3 DEF ChannelIs
<1>3. ASSUME ~Maps(msg, ch), ChannelIs(wire, map, ch, t, n + 1)
      PROVE  ChannelIs(sent, map, ch, t, n + 2)
  <2>1. (n + 1) - 1 = n /\ (n + 2) - 1 = n + 1 /\ n + 1 \in 1 .. n + 1
    BY <1>1
  <2>2. ChannelIs(sent, map, ch, t, n + 1)
    BY <1>2, <1>3, <2>1
  <2>3. \A j : \A k \in j + 1 .. n + 1 : k = n + 1 \/ k \in j + 1 .. n
    BY <1>1
  <2>4. \A k \in 1 .. n + 1 : k = n + 1 \/ k \in 1 .. n
    BY <1>1
  <2>5. ~Maps(sent[n + 1], ch)
    BY <1>1, <1>3
  <2>6. ASSUME NEW j \in 1 .. n, Maps(sent[j], ch), sent[j].tickers = {t},
               \A k \in j + 1 .. n : ~Maps(sent[k], ch)
        PROVE  ChannelIs(sent, map, ch, t, n + 2)
    <3>1. j \in 1 .. n + 1 /\ \A k \in j + 1 .. n + 1 : ~Maps(sent[k], ch)
      BY <1>1, <2>3, <2>5, <2>6
    <3> QED
      BY <2>1, <2>6, <3>1 DEF ChannelIs
  <2>7. ASSUME \A k \in 1 .. n : ~Maps(sent[k], ch), ch \in DOMAIN map /\ map[ch] = t
        PROVE  ChannelIs(sent, map, ch, t, n + 2)
    BY <2>1, <2>4, <2>5, <2>7 DEF ChannelIs
  <2> QED
    BY <2>1, <2>2, <2>6, <2>7 DEF ChannelIs
<1>4. ASSUME Maps(msg, ch), msg.tickers = {t}
      PROVE  ChannelIs(sent, map, ch, t, n + 2)
  <2>1. (n + 2) - 1 = n + 1 /\ n + 1 \in 1 .. n + 1 /\ \A k \in (n + 1) + 1 .. n + 1 : FALSE
    BY <1>1
  <2>2. Maps(sent[n + 1], ch) /\ sent[n + 1].tickers = {t}
    BY <1>1, <1>4
  <2> QED
    BY <2>1, <2>2 DEF ChannelIs
<1> QED
  BY <1>2, <1>3, <1>4 DEF sent, n

(* When a message is read, the channels as seen from the messages behind   *)
(* it are the same.                                                        *)
LEMMA ChannelRead ==
  ASSUME NEW wire \in Seq(Messages), 1 \in DOMAIN wire, NEW map, NEW new,
         NEW ch, NEW t, NEW i \in 2 .. Len(wire) + 1, ChannelIs(wire, map, ch, t, i),
         Maps(wire[1], ch) => \A u : wire[1].tickers = {u} => ch \in DOMAIN new /\ new[ch] = u,
         ~Maps(wire[1], ch) => (ch \in DOMAIN map => ch \in DOMAIN new /\ new[ch] = map[ch])
  PROVE  ChannelIs(RemoveAt(wire, 1), new, ch, t, i - 1)
<1> DEFINE rest == RemoveAt(wire, 1)
           n == Len(wire)
<1>1. n \in Nat \ {0} /\ \A j \in 1 .. n - 1 : rest[j] = wire[j + 1]
  <2>1. n \in Nat \ {0} /\ \A j \in 1 .. n - 1 : rest[j] = wire[IF j < 1 THEN j ELSE j + 1]
    BY RemoveAtFacts
  <2> HIDE DEF rest
  <2> QED
    BY <2>1
<1> HIDE DEF rest
<1>2. i \in Nat /\ i >= 2 /\ i <= n + 1
  BY <1>1
<1> HIDE DEF n
<1>3. \A j \in 1 .. (i - 1) - 1 : rest[j] = wire[j + 1] /\ j + 1 \in 1 .. i - 1
  BY <1>1, <1>2
<1>4. ASSUME NEW j \in 1 .. i - 1, Maps(wire[j], ch), wire[j].tickers = {t},
             \A k \in j + 1 .. i - 1 : ~Maps(wire[k], ch)
      PROVE  ChannelIs(rest, new, ch, t, i - 1)
  <2>1. CASE j = 1
    <3>1. \A k \in 1 .. (i - 1) - 1 : ~Maps(rest[k], ch)
      <4>1. \A k \in 1 .. (i - 1) - 1 : k + 1 \in j + 1 .. i - 1
        BY <1>2, <2>1
      <4> QED
        BY <1>3, <1>4, <4>1
    <3>2. ch \in DOMAIN new /\ new[ch] = t
      BY <1>4, <2>1
    <3> QED
      BY <3>1, <3>2 DEF ChannelIs
  <2>2. CASE j # 1
    <3>1. j - 1 \in 1 .. (i - 1) - 1 /\ rest[j - 1] = wire[j]
      <4>1. j - 1 \in 1 .. (i - 1) - 1 /\ (j - 1) + 1 = j
        BY <1>2, <2>2
      <4> QED
        BY <1>3, <4>1
    <3>2. \A k \in (j - 1) + 1 .. (i - 1) - 1 : ~Maps(rest[k], ch)
      <4>1. \A k \in (j - 1) + 1 .. (i - 1) - 1 : k \in 1 .. (i - 1) - 1 /\ k + 1 \in j + 1 .. i - 1
        BY <1>2, <2>2
      <4> QED
        BY <1>3, <1>4, <4>1
    <3> QED
      BY <1>4, <3>1, <3>2 DEF ChannelIs
  <2> QED
    BY <2>1, <2>2
<1>5. ASSUME \A k \in 1 .. i - 1 : ~Maps(wire[k], ch), ch \in DOMAIN map /\ map[ch] = t
      PROVE  ChannelIs(rest, new, ch, t, i - 1)
  <2>1. ~Maps(wire[1], ch)
    BY <1>2, <1>5
  <2>2. \A k \in 1 .. (i - 1) - 1 : ~Maps(rest[k], ch)
    BY <1>3, <1>5
  <2> QED
    BY <1>5, <2>1, <2>2 DEF ChannelIs
<1> QED
  BY <1>4, <1>5 DEF ChannelIs, rest

(* Bitfinex' handler learns a channel from a confirmation only.            *)
LEMMA BitfinexMap ==
  ASSUME NEW msg \in Messages, MessageOK(msg, exchange, handler, market), exchange = "bitfinex"
  PROVE  LET res == HandleMessage(exchange, handler, msg)
         IN  /\ msg.type = "subscribed" => \E t \in Ticker :
                  msg.tickers = {t} /\ res.h.channelMap = Put(handler.channelMap, msg.id, t)
             /\ msg.type # "subscribed" => res.h.channelMap = handler.channelMap
<1> DEFINE res == BitfinexHandle(handler, msg)
<1>1. CASE msg.type = "subscribed"
  <2>1. PICK t \in Ticker : msg.tickers = {t}
    BY <1>1 DEF MessageOK, AboutRequest
  <2>2. msg.tickers \subseteq handler.cache /\ (CHOOSE u \in msg.tickers : TRUE) = t
    BY <1>1, <2>1 DEF MessageOK, AboutRequest
  <2>3. res = Quiet(UpdateChannelMap(handler, msg.id, t))
    BY <1>1, <2>2 DEF BitfinexHandle
  <2> HIDE DEF res
  <2>4. res.h.channelMap = Put(handler.channelMap, msg.id, t)
    BY <2>3 DEF Quiet, Result, UpdateChannelMap, Handler
  <2>5. HandleMessage(exchange, handler, msg) = res
    BY DEF HandleMessage, res
  <2> QED
    BY <1>1, <2>1, <2>4, <2>5
<1>2. CASE msg.type # "subscribed"
  <2>1. \E p : res \in {Quiet(handler), Failed(handler), Resolved(handler, p)}
    BY <1>2 DEF BitfinexHandle, BitfinexStream
  <2> HIDE DEF res
  <2>2. res.h = handler
    BY <2>1 DEF Quiet, Failed, Resolved, Result
  <2>3. HandleMessage(exchange, handler, msg) = res
    BY DEF HandleMessage, res
  <2> QED
    BY <1>2, <2>2, <2>3
<1> QED
  BY <1>1, <1>2

(* What the exchange sends keeps the channels known.                       *)
LEMMA ChannelsSentStep ==
  ASSUME Types, ChannelsOK, exchange = "bitfinex",
         NEW msg, ConfirmStep(msg) \/ RejectStep(msg) \/ PriceStep(msg) \/ OtherStep(msg)
  PROVE  ChannelsOK'
<1> DEFINE map == handler.channelMap
           n == Len(fromExchange)
           sent == Append(fromExchange, msg)
<1>1. /\ msg \in Messages /\ MessageOK(msg, exchange, handler, market')
      /\ fromExchange' = sent /\ handler' = handler /\ exchange' = exchange
  BY DEF ConfirmStep, RejectStep, PriceStep, OtherStep, Sent, ExchangeStep, handlerVars
<1>2. fromExchange \in Seq(Messages)
  BY DEF Types
<1>3. /\ n \in Nat /\ DOMAIN fromExchange = 1 .. n /\ DOMAIN sent = 1 .. n + 1 /\ Len(sent) = n + 1
      /\ \A i \in 1 .. n : sent[i] = fromExchange[i]
      /\ sent[n + 1] = msg
  BY <1>1, <1>2, AppendFacts
<1>4. \A ch, t :
        /\ \A i \in 1 .. n + 1 : ChannelIs(fromExchange, map, ch, t, i) => ChannelIs(sent, map, ch, t, i)
        /\ ~Maps(msg, ch) /\ ChannelIs(fromExchange, map, ch, t, n + 1) => ChannelIs(sent, map, ch, t, n + 2)
        /\ Maps(msg, ch) /\ msg.tickers = {t} => ChannelIs(sent, map, ch, t, n + 2)
  BY <1>1, <1>2, ChannelSent
<1> HIDE DEF sent, n, map
<1>5. \A t \in DOMAIN subs : ChannelIs(fromExchange, map, subs[t], t, n + 1)
  BY DEF ChannelsOK, map, n
<1>6. \A i \in 1 .. n : \A t \in DOMAIN fromExchange[i].prices :
        ChannelIs(fromExchange, map, fromExchange[i].id, t, i)
  BY <1>3 DEF ChannelsOK, map
<1>7. ASSUME NEW t \in DOMAIN subs'
      PROVE  ChannelIs(sent, map, subs'[t], t, n + 2)
  <2>1. CASE ConfirmStep(msg)
    <3>1. PICK u \in Ticker : msg.tickers = {u}
      BY <1>1, <2>1 DEF ConfirmStep, MessageOK, AboutRequest
    <3>2. CASE t = u
      <4>1. subs'[t] = msg.id /\ Maps(msg, msg.id)
        BY <2>1, <3>1, <3>2 DEF ConfirmStep, Maps
      <4> QED
        BY <1>4, <3>1, <3>2, <4>1
    <3>3. CASE t # u
      <4>1. t \in DOMAIN subs /\ subs'[t] = subs[t] /\ subs[t] # msg.id
        BY <2>1, <3>1, <3>3 DEF ConfirmStep
      <4>2. ~Maps(msg, subs[t])
        BY <4>1 DEF Maps
      <4> QED
        BY <1>4, <1>5, <4>1, <4>2
    <3> QED
      BY <3>2, <3>3
  <2>2. CASE ~ConfirmStep(msg)
    <3>1. t \in DOMAIN subs /\ subs'[t] = subs[t] /\ ~Maps(msg, subs[t])
      BY <2>2 DEF RejectStep, PriceStep, OtherStep, Maps
    <3> QED
      BY <1>4, <1>5, <3>1
  <2> QED
    BY <2>1, <2>2
<1>8. ASSUME NEW i \in 1 .. n + 1, NEW t \in DOMAIN sent[i].prices
      PROVE  ChannelIs(sent, map, sent[i].id, t, i)
  <2>1. CASE i \in 1 .. n
    BY <1>3, <1>4, <1>6, <2>1
  <2>2. CASE i = n + 1
    <3>1. t \in DOMAIN msg.prices /\ DOMAIN <<>> = {}
      BY <1>3, <2>2
    <3>2. PriceStep(msg)
      BY <3>1 DEF ConfirmStep, RejectStep, OtherStep
    <3>3. t \in DOMAIN subs /\ msg.id = subs[t]
      BY <3>1, <3>2 DEF PriceStep
    <3>4. ChannelIs(sent, map, msg.id, t, n + 1)
      BY <1>3, <1>4, <1>5, <3>3
    <3> QED
      BY <1>3, <2>2, <3>4
  <2> QED
    BY <1>3, <2>1, <2>2
<1>9. map' = map /\ Len(sent) + 1 = n + 2
  BY <1>1, <1>3 DEF map
<1> QED
  BY <1>1, <1>3, <1>7, <1>8, <1>9 DEF ChannelsOK, map

(* What the handler reads keeps the channels known.                        *)
LEMMA ChannelsReadStep ==
  ASSUME Base, exchange = "bitfinex", ReadStep
  PROVE  ChannelsOK'
<1> DEFINE map == handler.channelMap
           n == Len(fromExchange)
           rest == RemoveAt(fromExchange, 1)
           msg == fromExchange[1]
           res == HandleMessage(exchange, handler, msg)
           new == res.h.channelMap
<1>1. /\ 1 \in DOMAIN fromExchange /\ msg \in Messages /\ MessageOK(msg, exchange, handler, market)
      /\ fromExchange' = rest /\ handler' = res.h /\ UNCHANGED <<exchange, subs>>
  BY ReadEffect DEF Reorders
<1>2. fromExchange \in Seq(Messages) /\ ChannelsOK
  BY DEF Base, Types
<1>3. /\ n \in Nat \ {0} /\ DOMAIN fromExchange = 1 .. n /\ Len(rest) = n - 1 /\ DOMAIN rest = 1 .. n - 1
      /\ \A j \in 1 .. n - 1 : rest[j] = fromExchange[j + 1]
  <2>1. /\ n \in Nat \ {0} /\ DOMAIN fromExchange = 1 .. n /\ Len(rest) = n - 1 /\ DOMAIN rest = 1 .. n - 1
        /\ \A j \in 1 .. n - 1 : rest[j] = fromExchange[IF j < 1 THEN j ELSE j + 1]
    BY <1>1, <1>2, RemoveAtFacts
  <2> HIDE DEF rest, n
  <2> QED
    BY <2>1
<1>4. /\ msg.type = "subscribed" => \E t \in Ticker : msg.tickers = {t} /\ new = Put(map, msg.id, t)
      /\ msg.type # "subscribed" => new = map
  BY <1>1, BitfinexMap
<1> HIDE DEF new, res, map, msg
<1>5. ASSUME NEW ch
      PROVE  /\ Maps(msg, ch) => \A u : msg.tickers = {u} => ch \in DOMAIN new /\ new[ch] = u
             /\ ~Maps(msg, ch) => (ch \in DOMAIN map => ch \in DOMAIN new /\ new[ch] = map[ch])
  <2>1. CASE msg.type = "subscribed"
    <3>1. PICK t \in Ticker : msg.tickers = {t} /\ new = Put(map, msg.id, t)
      BY <1>4, <2>1
    <3>2. DOMAIN new = DOMAIN map \cup {msg.id}
          /\ \A y \in DOMAIN map \cup {msg.id} : new[y] = IF y = msg.id THEN t ELSE map[y]
      BY <3>1 DEF Put
    <3> QED
      BY <2>1, <3>1, <3>2 DEF Maps
  <2>2. CASE msg.type # "subscribed"
    BY <1>4, <2>2 DEF Maps
  <2> QED
    BY <2>1, <2>2
<1>6. \A ch, t : \A i \in 2 .. n + 1 : ChannelIs(fromExchange, map, ch, t, i) => ChannelIs(rest, new, ch, t, i - 1)
  BY <1>1, <1>2, <1>5, ChannelRead DEF msg
<1> HIDE DEF rest, n
<1>7. \A t \in DOMAIN subs : ChannelIs(rest, new, subs[t], t, n)
  <2>1. \A t \in DOMAIN subs : ChannelIs(fromExchange, map, subs[t], t, n + 1)
    BY <1>2 DEF ChannelsOK, map, n
  <2>2. n + 1 \in 2 .. n + 1 /\ (n + 1) - 1 = n
    BY <1>3
  <2> QED
    BY <1>6, <2>1, <2>2
<1>8. ASSUME NEW i \in 1 .. n - 1, NEW t \in DOMAIN rest[i].prices
      PROVE  ChannelIs(rest, new, rest[i].id, t, i)
  <2>1. rest[i] = fromExchange[i + 1] /\ i + 1 \in DOMAIN fromExchange /\ i + 1 \in 2 .. n + 1 /\ (i + 1) - 1 = i
    BY <1>3
  <2>2. ChannelIs(fromExchange, map, rest[i].id, t, i + 1)
    BY <1>2, <1>8, <2>1 DEF ChannelsOK, map
  <2> QED
    BY <1>6, <2>1, <2>2
<1>9. handler'.channelMap = new /\ Len(rest) + 1 = n
  BY <1>1, <1>3 DEF new
<1> QED
  BY <1>1, <1>3, <1>7, <1>8, <1>9 DEF ChannelsOK

(* Every step keeps the channels known.                                    *)
LEMMA ChannelsStep ==
  ASSUME Base, [Next]_vars
  PROVE  ChannelsOK'
<1>1. Types /\ WritesOK /\ ChannelsOK /\ exchange' = exchange
  BY GrowthStep DEF Base
<1>2. CASE exchange # "bitfinex"
  BY <1>1, <1>2 DEF ChannelsOK
<1>3. CASE exchange = "bitfinex"
  <2>1. CASE UNCHANGED <<exchange, handler, subs, fromExchange>>
    BY <1>1, <2>1 DEF ChannelsOK
  <2>2. CASE LocalStep \/ WriteStep \/ ReportStartError \/ SendStep \/ Recv
    BY <2>1, <2>2 DEF LocalStep, WriteStep, ReportStartError, SendStep, Recv, HandlerStep, handlerVars, connVars
  <2>3. CASE DropStep \/ DialSucceeds
    BY <2>3 DEF DropStep, DialSucceeds, DropWire, ChannelsOK
  <2>4. CASE ReadStep
    BY <1>3, <2>4, ChannelsReadStep
  <2>5. CASE ExchangeSteps
    <3>1. CASE UnsentStep
      BY <2>1, <3>1 DEF UnsentStep, ExchangeStep, handlerVars
    <3>2. ASSUME NEW msg, ConfirmStep(msg) \/ RejectStep(msg) \/ PriceStep(msg) \/ OtherStep(msg)
          PROVE  ChannelsOK'
      BY <1>1, <1>3, <3>2, ChannelsSentStep
    <3> QED
      BY <2>5, <3>1, <3>2, ExchangeEffects DEF Base
  <2> QED
    BY <2>2, <2>3, <2>4, <2>5, Effects DEF Base
<1> QED
  BY <1>2, <1>3

(* The first invariant holds before the first connection.                  *)
LEMMA BaseInit == Init => Base
<1> SUFFICES ASSUME Init
             PROVE  Base
  OBVIOUS
<1>1. <<>> \in Seq(Requests) /\ <<>> \in Seq(Messages) /\ <<>> \in Seq(Responses) /\ <<>> \in Seq(SUBSET Ticker)
      /\ DOMAIN <<>> = {}
  OBVIOUS
<1>2. NoData \in StoredData /\ handler.cache = {} /\ handler.messageIDs = <<>>
  BY DEF Init, StoredData, NewHandler, Handler
<1>3. Types
  BY <1>1, <1>2 DEF Init, Types
<1>4. HeartBeatsOK /\ WritesOK
  BY DEF Init, HeartBeatsOK, WritesOK
<1>5. RequestsOK /\ MessagesOK /\ ChannelsOK
  BY <1>1 DEF Init, RequestsOK, MessagesOK, ChannelsOK
<1> QED
  BY <1>3, <1>4, <1>5 DEF Base

(* Every step keeps the first invariant.                                   *)
LEMMA BaseStep ==
  ASSUME Base, [Next]_vars
  PROVE  Base'
BY HeartBeatsStep, TypesStep, WritesStep, RequestsStep, MessagesStep, ChannelsStep DEF Base

-----------------------------------------------------------------------------
(* The tickers of a connection are subscribed, or asked for.               *)
Asked == TickersOf(writes, {"subscribe"}) \cup TickersOf(toExchange, {"subscribe"})
           \cup TickersOf(fromExchange, {"rejected"})

(* No step forgets a ticker.                                               *)
LEMMA ForgottenStep ==
  ASSUME Base, NoTickerForgotten, [Next]_vars
  PROVE  NoTickerForgotten'
<1> SUFFICES ASSUME exchange \in AsksAgain, conn' = "open", ~ctxDone', pc' \in Working
             PROVE  ToSet(ids) \subseteq DOMAIN subs' \cup Asked'
  <2>1. exchange' = exchange /\ ids' = ids
    BY GrowthStep
  <2> QED
    BY <2>1 DEF NoTickerForgotten, AsksAgain, Working, Asked
<1>1. Types /\ WritesOK
  BY DEF Base
<1>2. writes \in Seq(Requests) /\ toExchange \in Seq(Requests) /\ fromExchange \in Seq(Messages)
  BY <1>1 DEF Types
<1>3. conn = "open" /\ ~ctxDone /\ pc \in Working => ToSet(ids) \subseteq DOMAIN subs \cup Asked
  BY DEF NoTickerForgotten, AsksAgain, Working, Asked
<1>4. CASE LocalStep
  BY <1>3, <1>4 DEF LocalStep, connVars, Asked
<1>5. CASE DropStep
  BY <1>5 DEF DropStep
<1>6. CASE DialSucceeds
  <2> DEFINE c == CreateMessages(exchange, handler, ids)
  <2>1. ~c.err /\ writes' = c.writes
    BY <1>6 DEF DialSucceeds, Goto, Working
  <2>2. ~c.err => ToSet(ids) \subseteq TickersOf(c.writes, {"subscribe"})
    BY <1>1, CreateFacts
  <2> HIDE DEF c
  <2> QED
    BY <2>1, <2>2 DEF Asked
<1>7. CASE WriteStep
  <2>1. UNCHANGED <<conn, ctxDone, subs, fromExchange>> /\ pc \in Working
    BY <1>7 DEF WriteStep, Working
  <2>2. TickersOf(toExchange, {"subscribe"}) \subseteq TickersOf(toExchange', {"subscribe"})
    <3>1. toExchange' = toExchange \/ \E e \in Requests : toExchange' = Append(toExchange, e)
      <4>1. pc \in {"subscribe", "update"} => Head(writes) \in Requests
        BY <1>1, <1>2, TailFacts DEF WritesOK
      <4>2. Request("ping", {}, 0) \in Requests
        BY DEF Request, Requests
      <4> QED
        BY <1>7, <4>1, <4>2 DEF WriteStep
    <3> QED
      BY <1>2, <3>1, TickersOfFacts
  <2>3. TickersOf(writes, {"subscribe"})
          \subseteq TickersOf(writes', {"subscribe"}) \cup TickersOf(toExchange', {"subscribe"})
    <3>1. CASE writes' = writes
      BY <3>1
    <3>2. CASE writes' # writes
      <4>1. /\ pc \in {"subscribe", "update"} /\ writes' = Tail(writes)
            /\ Head(writes).type = "subscribe" => toExchange' = Append(toExchange, Head(writes))
        BY <1>7, <2>1, <3>2 DEF WriteStep
      <4>2. writes # <<>> /\ Head(writes) \in Requests
        BY <1>1, <1>2, <4>1, TailFacts DEF WritesOK
      <4>3. TickersOf(writes, {"subscribe"}) \subseteq
              TickersOf(Tail(writes), {"subscribe"})
                \cup (IF Head(writes).type \in {"subscribe"} THEN Head(writes).tickers ELSE {})
        BY <1>2, <4>2, TickersOfFacts
      <4>4. Head(writes).type \in {"subscribe"} =>
              Head(writes).tickers \subseteq TickersOf(toExchange', {"subscribe"})
        BY <1>2, <4>1, <4>2, TickersOfFacts
      <4> QED
        BY <4>1, <4>3, <4>4
    <3> QED
      BY <3>1, <3>2
  <2> QED
    BY <1>3, <2>1, <2>2, <2>3 DEF Asked
<1>8. CASE ReportStartError
  BY <1>8 DEF ReportStartError, Goto, Working
<1>9. CASE ReadStep
  <2>1. PICK i \in DOMAIN fromExchange :
           LET res == HandleMessage(exchange, handler, fromExchange[i])
           IN  /\ Outcome(res, fromExchange[i]) /\ AskedAgain(res, fromExchange[i])
               /\ pc = "reading"
               /\ fromExchange' = RemoveAt(fromExchange, i)
               /\ res.err => writes' = writes
               /\ ~res.err => writes' = res.writes
               /\ UNCHANGED <<ctxDone, conn, subs, toExchange>>
    BY <1>9, ReadEffect
  <2> DEFINE msg == fromExchange[i]
             res == HandleMessage(exchange, handler, msg)
  <2> HIDE DEF res
  <2>2. /\ Outcome(res, msg) /\ AskedAgain(res, msg) /\ pc = "reading"
        /\ res.err => writes' = writes
        /\ ~res.err => writes' = res.writes
        /\ UNCHANGED <<ctxDone, conn, subs, toExchange>>
    BY <2>1 DEF res
  <2>3. TickersOf(fromExchange, {"rejected"}) \subseteq
          TickersOf(fromExchange', {"rejected"}) \cup (IF msg.type \in {"rejected"} THEN msg.tickers ELSE {})
    BY <1>2, <2>1, TickersOfFacts
  <2>4. TickersOf(writes, {"subscribe"}) = {}
    <3>1. writes = <<>>
      BY <1>1, <2>2 DEF WritesOK
    <3> QED
      BY <3>1 DEF TickersOf
  <2> HIDE DEF msg
  <2>5. msg.type \in {"rejected"} => msg.tickers \subseteq TickersOf(writes', {"subscribe"})
    BY <2>2 DEF AskedAgain, Outcome
  <2>6. ToSet(ids) \subseteq DOMAIN subs \cup Asked
    BY <1>3, <2>2 DEF Working
  <2> QED
    BY <2>2, <2>3, <2>4, <2>5, <2>6 DEF Asked
<1>10. CASE SendStep \/ Recv
  BY <1>3, <1>10 DEF SendStep, Recv, connVars, handlerVars, Working, Asked
<1>11. CASE UnsentStep
  BY <1>3, <1>11 DEF UnsentStep, ExchangeStep, handlerVars, Asked
<1>12. ASSUME NEW msg, ConfirmStep(msg) \/ RejectStep(msg) \/ PriceStep(msg) \/ OtherStep(msg)
       PROVE  ToSet(ids) \subseteq DOMAIN subs' \cup Asked'
  <2>1. /\ msg \in Messages /\ fromExchange' = Append(fromExchange, msg)
        /\ UNCHANGED <<pc, writes, ctxDone, conn>>
    BY <1>12 DEF ConfirmStep, RejectStep, PriceStep, OtherStep, Sent, ExchangeStep, handlerVars
  <2>2. TickersOf(fromExchange, {"rejected"}) \subseteq TickersOf(fromExchange', {"rejected"})
    BY <1>2, <2>1, TickersOfFacts
  <2>3. DOMAIN subs \subseteq DOMAIN subs'
    BY <1>12 DEF ConfirmStep, RejectStep, PriceStep, OtherStep
  <2>4. TickersOf(toExchange, {"subscribe"}) \subseteq
          DOMAIN subs' \cup TickersOf(toExchange', {"subscribe"}) \cup TickersOf(fromExchange', {"rejected"})
    <3>1. CASE toExchange' = toExchange
      BY <3>1
    <3>2. CASE toExchange # <<>> /\ toExchange' = Tail(toExchange)
      <4>1. TickersOf(toExchange, {"subscribe"}) \subseteq TickersOf(toExchange', {"subscribe"})
              \cup (IF Head(toExchange).type \in {"subscribe"} THEN Head(toExchange).tickers ELSE {})
        BY <1>2, <3>2, TickersOfFacts
      <4>2. CASE ConfirmStep(msg)
        BY <4>1, <4>2 DEF ConfirmStep
      <4>3. CASE RejectStep(msg)
        <5>1. msg.tickers \subseteq TickersOf(fromExchange', {"rejected"}) /\ msg.tickers = Head(toExchange).tickers
          BY <1>2, <2>1, <4>3, TickersOfFacts DEF RejectStep
        <5> QED
          BY <4>1, <5>1
      <4>4. CASE PriceStep(msg)
        BY <4>4 DEF PriceStep
      <4>5. CASE OtherStep(msg)
        <5>1. Head(toExchange).type \notin {"subscribe"} \/ toExchange' = toExchange
          BY <4>5 DEF OtherStep
        <5> QED
          BY <4>1, <5>1
      <4> QED
        BY <1>12, <4>2, <4>3, <4>4, <4>5
    <3> QED
      BY <1>12, <3>1, <3>2 DEF ConfirmStep, RejectStep, PriceStep, OtherStep
  <2>5. ToSet(ids) \subseteq DOMAIN subs \cup Asked
    BY <1>3, <2>1
  <2> QED
    BY <2>1, <2>2, <2>3, <2>4, <2>5 DEF Asked
<1> QED
  BY <1>4, <1>5, <1>6, <1>7, <1>8, <1>9, <1>10, <1>11, <1>12, Effects, ExchangeEffects DEF Base

(* "NoTickerForgotten": while a connection works, each of its tickers is   *)
(* subscribed, or on its way to be, for the exchanges whose handlers ask   *)
(* again for what was refused (binance, huobi, kraken and okx).            *)
THEOREM NoTickerForgottenTheorem == Spec => []NoTickerForgotten
<1>1. Init => Base /\ NoTickerForgotten
  BY BaseInit DEF Init, NoTickerForgotten
<1>2. Base /\ NoTickerForgotten /\ [Next]_vars => Base' /\ NoTickerForgotten'
  BY BaseStep, ForgottenStep
<1> QED
  BY <1>1, <1>2, PTL DEF Spec

-----------------------------------------------------------------------------
(* Prices stay in order on their way: how the queue of responses and the   *)
(* wire change, for one ticker.                                            *)
LEMMA NumberTypes ==
  ASSUME NEW t \in Ticker
  PROVE  /\ \A r \in Responses : Prices(r, t) => r.resolved[t] \in Price /\ r.resolved[t][2] \in Nat \ {0}
         /\ \A msg \in Messages : Good(msg, t) => msg.prices[t] \in Price /\ msg.prices[t][2] \in Nat \ {0}
         /\ \A d \in StoredData : Number(d) \in Nat /\ (d # NoData => d.price \in Price)
         /\ NoData.price \notin Price
<1>1. \A p \in Price : p[2] \in Nat \ {0} /\ p[1] \in Ticker
  BY DEF Price
<1>2. \A r \in Responses : Prices(r, t) => r.resolved[t] \in Price
  BY DEF Responses, PriceMaps, Prices
<1>3. \A msg \in Messages : Good(msg, t) => msg.prices[t] \in Price
  BY DEF Messages, SentPrices, Good
<1>4. \A d \in StoredData : d # NoData => d.price \in Price
  BY DEF StoredData
<1>5. NoData.price \notin Price
  BY DEF NoData, Price
<1> QED
  BY <1>1, <1>2, <1>3, <1>4, <1>5 DEF Number

(* What is at most n is at most anything larger.                           *)
LEMMA AtMostLess ==
  ASSUME NEW t \in Ticker, NEW q \in Seq(Responses), NEW d \in StoredData,
         NEW n \in Nat, NEW m \in Nat, n <= m, AtMost(q, d, t, n)
  PROVE  AtMost(q, d, t, m)
<1>1. Number(d) \in Nat /\ \A i \in DOMAIN q : Prices(q[i], t) => q[i].resolved[t][2] \in Nat
  BY NumberTypes
<1> QED
  BY <1>1 DEF AtMost

(* A response is sent, or not sent because the context is done.            *)
LEMMA QueueAppended ==
  ASSUME NEW t \in Ticker, NEW q \in Seq(Responses), NEW r \in Responses, NEW d \in StoredData
  PROVE  /\ QueueInOrder(Append(q, r), d, t) => QueueInOrder(q, d, t)
         /\ \A n : AtMost(Append(q, r), d, t, n) => AtMost(q, d, t, n)
         /\ \A n : AtMost(q, d, t, n) /\ (Prices(r, t) => r.resolved[t][2] <= n) => AtMost(Append(q, r), d, t, n)
         /\ QueueInOrder(q, d, t) /\ (Prices(r, t) => r.resolved[t][1] = t /\ AtMost(q, d, t, r.resolved[t][2]))
              => QueueInOrder(Append(q, r), d, t)
<1> DEFINE s == Append(q, r)
           l == Len(q)
<1>1. /\ l \in Nat /\ DOMAIN q = 1 .. l /\ DOMAIN s = 1 .. l + 1
      /\ \A i \in 1 .. l : s[i] = q[i]
      /\ s[l + 1] = r
  BY AppendFacts
<1>2. Prices(r, t) => r.resolved[t][2] \in Nat
  BY NumberTypes
<1> HIDE DEF s, l
<1>3. 1 .. l \subseteq 1 .. l + 1 /\ \A i \in 1 .. l + 1 : i \in 1 .. l \/ i = l + 1
  BY <1>1
<1>4. QueueInOrder(s, d, t) => QueueInOrder(q, d, t)
  BY <1>1, <1>3 DEF QueueInOrder
<1>5. \A n : AtMost(s, d, t, n) => AtMost(q, d, t, n)
  BY <1>1, <1>3 DEF AtMost
<1>6. ASSUME NEW n, AtMost(q, d, t, n), Prices(r, t) => r.resolved[t][2] <= n
      PROVE  AtMost(s, d, t, n)
  <2>1. ASSUME NEW i \in 1 .. l + 1, Prices(s[i], t)
        PROVE  s[i].resolved[t][2] <= n
    BY <1>1, <1>3, <1>6, <2>1 DEF AtMost
  <2> QED
    BY <1>1, <1>6, <2>1 DEF AtMost
<1>7. ASSUME QueueInOrder(q, d, t), Prices(r, t) => r.resolved[t][1] = t /\ AtMost(q, d, t, r.resolved[t][2])
      PROVE  QueueInOrder(s, d, t)
  <2>1. ASSUME NEW i \in 1 .. l + 1, Prices(s[i], t)
        PROVE  /\ s[i].resolved[t][1] = t /\ Number(d) <= s[i].resolved[t][2]
               /\ \A j \in 1 .. l + 1 : i <= j /\ Prices(s[j], t) => s[i].resolved[t][2] <= s[j].resolved[t][2]
    <3>1. CASE i = l + 1
      <4>1. s[i] = r /\ \A j \in 1 .. l + 1 : i <= j => j = i
        BY <1>1, <3>1
      <4> QED
        BY <1>2, <1>7, <2>1, <4>1 DEF AtMost
    <3>2. CASE i \in 1 .. l
      <4>1. s[i] = q[i] /\ i \in DOMAIN q /\ Prices(q[i], t)
        BY <1>1, <2>1, <3>2
      <4>2. ASSUME NEW j \in 1 .. l + 1, i <= j, Prices(s[j], t)
            PROVE  s[i].resolved[t][2] <= s[j].resolved[t][2]
        <5>1. CASE j = l + 1
          BY <1>1, <1>7, <4>1, <4>2, <5>1 DEF AtMost
        <5>2. CASE j \in 1 .. l
          BY <1>1, <1>7, <4>1, <4>2, <5>2 DEF QueueInOrder
        <5> QED
          BY <1>3, <5>1, <5>2
      <4> QED
        BY <1>7, <4>1, <4>2 DEF QueueInOrder
    <3> QED
      BY <1>3, <3>1, <3>2
  <2> QED
    BY <1>1, <1>7, <2>1 DEF QueueInOrder
<1> QED
  BY <1>4, <1>5, <1>6, <1>7 DEF s

(* The provider receives a response.                                       *)
LEMMA QueueReceived ==
  ASSUME NEW t \in Ticker, NEW q \in Seq(Responses), q # <<>>, NEW old \in [Ticker -> StoredData]
  PROVE  LET new == UpdateData(old, Head(q))[t]
         IN  /\ QueueInOrder(q, old[t], t) =>
                  QueueInOrder(Tail(q), new, t) /\ Number(old[t]) <= Number(new)
             /\ \A n : AtMost(q, old[t], t, n) => AtMost(Tail(q), new, t, n)
<1> DEFINE new == UpdateData(old, Head(q))[t]
           r == q[1]
           s == Tail(q)
           l == Len(q)
<1>1. /\ l \in Nat \ {0} /\ DOMAIN q = 1 .. l /\ DOMAIN s = 1 .. l - 1
      /\ \A i \in 1 .. l - 1 : s[i] = q[i + 1]
      /\ Head(q) = r /\ r \in Responses
  BY TailFacts
<1>2. new \in StoredData /\ old[t] \in StoredData
  BY <1>1, UpdateType
<1>3. /\ Prices(r, t) => new.price = r.resolved[t] /\ new # NoData
      /\ ~Prices(r, t) => new = old[t] \/ (new.price = old[t].price /\ new # NoData /\ old[t] # NoData)
  <2>1. CASE Prices(r, t)
    <3>1. new.price = r.resolved[t]
      BY <1>1, <2>1 DEF UpdateData, Prices
    <3> QED
      BY <1>1, <2>1, <3>1, NumberTypes
  <2>2. CASE ~Prices(r, t)
    <3>1. new = old[t] \/ (new.price = old[t].price /\ old[t] # NoData)
      BY <1>1, <2>2 DEF UpdateData, Prices
    <3> QED
      BY <1>2, <2>2, <3>1, NumberTypes
  <2> QED
    BY <2>1, <2>2
<1> HIDE DEF new, r, s, l
<1>4. /\ Prices(r, t) => Number(new) = r.resolved[t][2] /\ new.price[1] = r.resolved[t][1]
      /\ ~Prices(r, t) => Number(new) = Number(old[t])
      /\ ~Prices(r, t) /\ new # NoData => old[t] # NoData /\ new.price = old[t].price
  BY <1>3 DEF Number
<1>5. 1 \in 1 .. l /\ \A i \in 1 .. l - 1 : i + 1 \in 1 .. l /\ 1 <= i + 1
  BY <1>1
<1>6. ASSUME QueueInOrder(q, old[t], t)
      PROVE  QueueInOrder(s, new, t) /\ Number(old[t]) <= Number(new)
  <2>1. Number(old[t]) \in Nat
    BY <1>2, NumberTypes
  <2>2. Number(old[t]) <= Number(new)
    BY <1>1, <1>4, <1>5, <1>6, <2>1 DEF QueueInOrder, r
  <2>3. new # NoData => new.price[1] = t
    BY <1>1, <1>4, <1>5, <1>6 DEF QueueInOrder, r
  <2>4. ASSUME NEW i \in 1 .. l - 1, Prices(s[i], t)
        PROVE  /\ s[i].resolved[t][1] = t /\ Number(new) <= s[i].resolved[t][2]
               /\ \A j \in 1 .. l - 1 : i <= j /\ Prices(s[j], t) => s[i].resolved[t][2] <= s[j].resolved[t][2]
    <3>1. s[i] = q[i + 1] /\ i + 1 \in DOMAIN q /\ Prices(q[i + 1], t)
      BY <1>1, <1>5, <2>4
    <3>2. Number(new) <= s[i].resolved[t][2]
      BY <1>1, <1>4, <1>5, <1>6, <3>1 DEF QueueInOrder, r
    <3>3. ASSUME NEW j \in 1 .. l - 1, i <= j, Prices(s[j], t)
          PROVE  s[i].resolved[t][2] <= s[j].resolved[t][2]
      <4>1. s[j] = q[j + 1] /\ j + 1 \in DOMAIN q /\ i + 1 <= j + 1
        BY <1>1, <1>5, <3>3
      <4> QED
        BY <1>6, <3>1, <3>3, <4>1 DEF QueueInOrder
    <3> QED
      BY <1>6, <3>1, <3>2, <3>3 DEF QueueInOrder
  <2> QED
    BY <1>1, <2>2, <2>3, <2>4 DEF QueueInOrder
<1>7. ASSUME NEW n, AtMost(q, old[t], t, n)
      PROVE  AtMost(s, new, t, n)
  <2>1. Number(new) <= n
    BY <1>1, <1>4, <1>5, <1>7 DEF AtMost, r
  <2>2. \A i \in 1 .. l - 1 : Prices(s[i], t) => s[i].resolved[t][2] <= n
    BY <1>1, <1>5, <1>7 DEF AtMost
  <2> QED
    BY <1>1, <2>1, <2>2 DEF AtMost
<1> QED
  BY <1>6, <1>7 DEF new, s

(* The first message is read: the queue has its price. A message is sent.  *)
LEMMA WireRead ==
  ASSUME NEW t \in Ticker, NEW w \in Seq(Messages), 1 \in DOMAIN w, NEW q \in Seq(Responses),
         NEW d \in StoredData, WireInOrder(w, q, d, t)
  PROVE  /\ WireInOrder(RemoveAt(w, 1), q, d, t)
         /\ \A r \in Responses :
              (Prices(r, t) => Good(w[1], t) /\ r.resolved[t] = w[1].prices[t])
                => WireInOrder(RemoveAt(w, 1), Append(q, r), d, t)
<1> DEFINE s == RemoveAt(w, 1)
           l == Len(w)
<1>1. l \in Nat \ {0} /\ DOMAIN w = 1 .. l /\ DOMAIN s = 1 .. l - 1 /\ \A i \in 1 .. l - 1 : s[i] = w[i + 1]
  <2>1. /\ l \in Nat \ {0} /\ DOMAIN w = 1 .. l /\ DOMAIN s = 1 .. l - 1
        /\ \A i \in 1 .. l - 1 : s[i] = w[IF i < 1 THEN i ELSE i + 1]
    BY RemoveAtFacts
  <2> HIDE DEF s, l
  <2> QED
    BY <2>1
<1> HIDE DEF s, l
<1>2. 1 \in 1 .. l /\ \A i \in 1 .. l - 1 : i + 1 \in 1 .. l /\ 1 <= i + 1
  BY <1>1
<1>3. ASSUME NEW i \in 1 .. l - 1, Good(s[i], t)
      PROVE  /\ AtMost(q, d, t, s[i].prices[t][2])
             /\ Good(w[1], t) => w[1].prices[t][2] <= s[i].prices[t][2]
             /\ \A j \in 1 .. l - 1 : i <= j /\ Good(s[j], t) => s[i].prices[t][2] <= s[j].prices[t][2]
  <2>1. s[i] = w[i + 1] /\ i + 1 \in DOMAIN w /\ Good(w[i + 1], t) /\ 1 <= i + 1 /\ 1 \in DOMAIN w
    BY <1>1, <1>2, <1>3
  <2>2. ASSUME NEW j \in 1 .. l - 1, i <= j, Good(s[j], t)
        PROVE  s[i].prices[t][2] <= s[j].prices[t][2]
    <3>1. s[j] = w[j + 1] /\ j + 1 \in DOMAIN w /\ i + 1 <= j + 1
      BY <1>1, <1>2, <2>2
    <3> QED
      BY <2>1, <2>2, <3>1 DEF WireInOrder
  <2> QED
    BY <2>1, <2>2 DEF WireInOrder
<1>4. WireInOrder(s, q, d, t)
  BY <1>1, <1>3 DEF WireInOrder
<1>5. ASSUME NEW r \in Responses, Prices(r, t) => Good(w[1], t) /\ r.resolved[t] = w[1].prices[t]
      PROVE  WireInOrder(s, Append(q, r), d, t)
  <2>1. ASSUME NEW i \in 1 .. l - 1, Good(s[i], t)
        PROVE  AtMost(Append(q, r), d, t, s[i].prices[t][2])
    BY <1>3, <1>5, <2>1, QueueAppended
  <2> QED
    BY <1>1, <1>3, <2>1 DEF WireInOrder
<1> QED
  BY <1>4, <1>5 DEF s

(* A message with the latest price keeps the wire in order.                *)
LEMMA WireSent ==
  ASSUME NEW t \in Ticker, NEW w \in Seq(Messages), NEW msg \in Messages, NEW q \in Seq(Responses),
         NEW d \in StoredData, WireInOrder(w, q, d, t),
         Good(msg, t) => /\ AtMost(q, d, t, msg.prices[t][2])
                         /\ \A i \in DOMAIN w : Good(w[i], t) => w[i].prices[t][2] <= msg.prices[t][2]
  PROVE  WireInOrder(Append(w, msg), q, d, t)
<1> DEFINE s == Append(w, msg)
           l == Len(w)
<1>1. /\ l \in Nat /\ DOMAIN w = 1 .. l /\ DOMAIN s = 1 .. l + 1
      /\ \A i \in 1 .. l : s[i] = w[i]
      /\ s[l + 1] = msg
  BY AppendFacts
<1>2. Good(msg, t) => msg.prices[t][2] \in Nat
  BY NumberTypes
<1> HIDE DEF s, l
<1>3. \A i \in 1 .. l + 1 : i \in 1 .. l \/ i = l + 1
  BY <1>1
<1>4. ASSUME NEW i \in 1 .. l + 1, Good(s[i], t)
      PROVE  /\ AtMost(q, d, t, s[i].prices[t][2])
             /\ \A j \in 1 .. l + 1 : i <= j /\ Good(s[j], t) => s[i].prices[t][2] <= s[j].prices[t][2]
  <2>1. CASE i = l + 1
    <3>1. s[i] = msg /\ \A j \in 1 .. l + 1 : i <= j => j = i
      BY <1>1, <2>1
    <3> QED
      BY <1>2, <1>4, <3>1
  <2>2. CASE i \in 1 .. l
    <3>1. s[i] = w[i] /\ i \in DOMAIN w /\ Good(w[i], t)
      BY <1>1, <1>4, <2>2
    <3>2. ASSUME NEW j \in 1 .. l + 1, i <= j, Good(s[j], t)
          PROVE  s[i].prices[t][2] <= s[j].prices[t][2]
      <4>1. CASE j = l + 1
        BY <1>1, <3>1, <3>2, <4>1
      <4>2. CASE j \in 1 .. l
        BY <1>1, <3>1, <3>2, <4>2 DEF WireInOrder
      <4> QED
        BY <1>3, <4>1, <4>2
    <3> QED
      BY <3>1, <3>2 DEF WireInOrder
  <2> QED
    BY <1>3, <2>1, <2>2
<1> QED
  BY <1>1, <1>4 DEF WireInOrder, s

-----------------------------------------------------------------------------
(* Coinbase and KuCoin: the sequence number of a ticker only advances, and *)
(* a price that is resolved has the latest.                                *)
Advances(res, t) ==
  /\ SequenceOf(res.h, t) \in SequenceOf(handler, t) .. market[t]
  /\ ~res.err /\ t \in DOMAIN res.resolved => res.resolved[t][2] = SequenceOf(res.h, t)

(* Coinbase's and KuCoin's handlers note the number of a message before    *)
(* anything else.                                                          *)
LEMMA AdvanceFacts ==
  ASSUME Types, NEW msg \in Messages, MessageOK(msg, exchange, handler, market),
         exchange \in {"coinbase", "kucoin"}, NEW t \in Ticker, SequenceOf(handler, t) \in 0 .. market[t],
         NEW u \in Ticker, msg.type \in {"update", "heartbeat"}, msg.tickers = {u},
         SequenceOf(handler, u) <= msg.seq
  PROVE  LET seen == Observe(handler, u, msg.seq)
             traded == Traded(seen, u, msg.trade)
         IN  /\ Advances(Failed(seen), t) /\ (\A S : Advances(Unresolved(seen, S), t) /\ Advances(Unchanged(seen, S), t))
             /\ msg.type = "update" /\ msg.prices[u] # Bad =>
                  Advances(Resolved(seen, msg.prices), t) /\ Advances(Resolved(traded, msg.prices), t)
<1> DEFINE seen == Observe(handler, u, msg.seq)
           traded == Traded(seen, u, msg.trade)
<1>1. market[t] \in Nat /\ market[u] \in Nat /\ msg.seq \in Nat
  BY DEF Types, Messages
<1>2. msg.seq <= market[u]
  BY DEF MessageOK
<1>3. SequenceOf(seen, t) = IF t = u THEN msg.seq ELSE SequenceOf(handler, t)
  <2>1. seen.sequence = Put(handler.sequence, u, msg.seq)
    BY DEF Observe, Handler
  <2> HIDE DEF seen
  <2>2. \A y : Get(Put(handler.sequence, u, msg.seq), y, 0) = IF y = u THEN msg.seq ELSE Get(handler.sequence, y, 0)
    BY DEF Put, Get
  <2> QED
    BY <2>1, <2>2 DEF SequenceOf
<1>4. traded.sequence = seen.sequence
  BY DEF Traded, Handler
<1> HIDE DEF seen, traded
<1>5. SequenceOf(traded, t) = SequenceOf(seen, t)
  BY <1>4 DEF SequenceOf
<1>6. SequenceOf(seen, t) \in SequenceOf(handler, t) .. market[t]
  BY <1>1, <1>2, <1>3
<1>7. msg.type = "update" /\ msg.prices[u] # Bad =>
        \A v \in DOMAIN msg.prices : v = u /\ msg.prices[v][2] = msg.seq
  <2>1. SUFFICES ASSUME msg.type = "update", msg.prices[u] # Bad
                 PROVE  \A v \in DOMAIN msg.prices : v = u /\ msg.prices[v][2] = msg.seq
    OBVIOUS
  <2>2. DOMAIN msg.prices = {u}
    BY <2>1 DEF MessageOK
  <2>3. PriceOK(msg.prices[u], u, msg.seq, exchange, market)
    BY <2>2 DEF MessageOK
  <2> QED
    BY <2>1, <2>2, <2>3 DEF PriceOK
<1>8. DOMAIN <<>> = {}
  OBVIOUS
<1>9. \A S : Advances(Failed(seen), t) /\ Advances(Unresolved(seen, S), t) /\ Advances(Unchanged(seen, S), t)
  BY <1>6, <1>8 DEF Advances, Failed, Unresolved, Unchanged, Result
<1>10. msg.type = "update" /\ msg.prices[u] # Bad =>
         Advances(Resolved(seen, msg.prices), t) /\ Advances(Resolved(traded, msg.prices), t)
  BY <1>3, <1>5, <1>6, <1>7 DEF Advances, Resolved, Result
<1> QED
  BY <1>9, <1>10 DEF seen, traded

(* Whatever they are sent, the sequence numbers advance, with the prices   *)
(* resolved.                                                               *)
LEMMA SequenceAdvances ==
  ASSUME Types, NEW msg \in Messages, MessageOK(msg, exchange, handler, market), Reorders,
         NEW t \in Ticker, SequenceOf(handler, t) \in 0 .. market[t],
         \A u \in Ticker : SequenceOf(handler, u) \in Nat
  PROVE  Advances(HandleMessage(exchange, handler, msg), t)
<1>1. market[t] \in Nat /\ msg.seq \in Nat
  BY DEF Types, Messages
<1>2. \A S : Advances(Quiet(handler), t) /\ Advances(Failed(handler), t) /\ Advances(Unchanged(handler, S), t)
  <2>1. DOMAIN <<>> = {} /\ SequenceOf(handler, t) \in SequenceOf(handler, t) .. market[t]
    BY <1>1
  <2> QED
    BY <2>1 DEF Advances, Quiet, Failed, Unchanged, Result
<1> DEFINE u == CHOOSE s \in msg.tickers : TRUE
           seen == Observe(handler, u, msg.seq)
           traded == Traded(seen, u, msg.trade)
<1>3. CASE exchange = "kucoin"
  <2>1. HandleMessage(exchange, handler, msg) = KucoinHandle(handler, msg)
    BY <1>3 DEF HandleMessage
  <2>2. CASE msg.type # "update"
    <3>1. KucoinHandle(handler, msg) \in {Quiet(handler), Unchanged(handler, handler.cache), Failed(handler)}
      BY <2>2 DEF KucoinHandle
    <3> QED
      BY <1>2, <2>1, <3>1
  <2>3. CASE msg.type = "update"
    <3>1. u \in Ticker /\ msg.tickers = {u}
      BY <1>3, <2>3, SingleTicker DEF Singles
    <3>2. KucoinHandle(handler, msg) = KucoinTicker(handler, u, msg)
      BY <2>3 DEF KucoinHandle
    <3> HIDE DEF u
    <3>3. KucoinTicker(handler, u, msg) =
            IF u \notin handler.cache \/ Get(handler.sequence, u, 0) >= msg.seq THEN Failed(handler)
            ELSE IF msg.prices[u] = Bad THEN Failed(seen) ELSE Resolved(seen, msg.prices)
      BY DEF KucoinTicker
    <3> HIDE DEF seen
    <3>4. CASE SequenceOf(handler, u) <= msg.seq
      <4>1. Advances(Failed(seen), t) /\ (msg.prices[u] # Bad => Advances(Resolved(seen, msg.prices), t))
        BY <1>3, <2>3, <3>1, <3>4, AdvanceFacts DEF seen
      <4> QED
        BY <1>2, <2>1, <3>2, <3>3, <4>1
    <3>5. CASE ~(SequenceOf(handler, u) <= msg.seq)
      <4>1. Get(handler.sequence, u, 0) >= msg.seq
        BY <1>1, <3>1, <3>5 DEF SequenceOf
      <4> QED
        BY <1>2, <2>1, <3>2, <3>3, <4>1
    <3> QED
      BY <3>4, <3>5
  <2> QED
    BY <2>2, <2>3
<1>4. CASE exchange = "coinbase"
  <2>1. HandleMessage(exchange, handler, msg) = CoinbaseHandle(handler, msg)
    BY <1>4 DEF HandleMessage
  <2>2. CASE msg.type \notin {"update", "heartbeat"}
    <3>1. CoinbaseHandle(handler, msg) \in {Quiet(handler), Failed(handler)}
      BY <2>2 DEF CoinbaseHandle
    <3> QED
      BY <1>2, <2>1, <3>1
  <2>3. CASE msg.type \in {"update", "heartbeat"}
    <3>1. u \in Ticker /\ msg.tickers = {u}
      BY <1>4, <2>3, SingleTicker DEF Singles
    <3>2. CoinbaseHandle(handler, msg) =
            IF u \notin handler.cache THEN Failed(handler)
            ELSE IF msg.type = "update" THEN CoinbaseTicker(handler, u, msg)
            ELSE CoinbaseHeartbeat(handler, u, msg)
      BY <2>3 DEF CoinbaseHandle
    <3> HIDE DEF u
    <3>3. CoinbaseTicker(handler, u, msg) =
            IF ~(SequenceOf(handler, u) <= msg.seq) THEN Failed(handler)
            ELSE IF msg.prices[u] = Bad THEN Failed(seen) ELSE Resolved(traded, msg.prices)
      BY DEF CoinbaseTicker, CheckSequenceNumber, SequenceOf
    <3>4. CoinbaseHeartbeat(handler, u, msg) =
            IF ~(SequenceOf(handler, u) <= msg.seq) THEN Failed(handler)
            ELSE IF Get(handler.tradeIDs, u, 0) # msg.trade THEN Unresolved(seen, {u}) ELSE Unchanged(seen, {u})
      BY DEF CoinbaseHeartbeat, CheckSequenceNumber, SequenceOf
    <3> HIDE DEF seen, traded
    <3>5. CASE SequenceOf(handler, u) <= msg.seq
      <4>1. /\ Advances(Failed(seen), t)
            /\ Advances(Unresolved(seen, {u}), t) /\ Advances(Unchanged(seen, {u}), t)
            /\ msg.type = "update" /\ msg.prices[u] # Bad => Advances(Resolved(traded, msg.prices), t)
        BY <1>4, <2>3, <3>1, <3>5, AdvanceFacts DEF seen, traded
      <4> QED
        BY <1>2, <2>1, <2>3, <3>2, <3>3, <3>4, <4>1
    <3>6. CASE ~(SequenceOf(handler, u) <= msg.seq)
      BY <1>2, <2>1, <3>2, <3>3, <3>4, <3>6
    <3> QED
      BY <3>5, <3>6
  <2> QED
    BY <2>2, <2>3
<1> QED
  BY <1>3, <1>4 DEF Reorders

-----------------------------------------------------------------------------
(* Every step keeps the prices in order.                                   *)
TickerInOrder(t) ==
  /\ QueueInOrder(Queue, data[t], t) /\ AtMost(Queue, data[t], t, market[t])
  /\ ~Reorders => WireInOrder(fromExchange, Queue, data[t], t)
  /\ Reorders => /\ SequenceOf(handler, t) \in 0 .. market[t]
                 /\ AtMost(Queue, data[t], t, SequenceOf(handler, t))

(* The types that the order of prices is about.                            *)
LEMMA OrderTypes ==
  ASSUME Base, [Next]_vars
  PROVE  /\ Types /\ WritesOK /\ MessagesOK
         /\ Queue \in Seq(Responses) /\ Queue' \in Seq(Responses) /\ responseCh \in Seq(Responses)
         /\ fromExchange \in Seq(Messages)
         /\ data \in [Ticker -> StoredData] /\ data' \in [Ticker -> StoredData]
         /\ \A t \in Ticker : market[t] \in Nat /\ market'[t] \in Nat /\ market[t] <= market'[t]
         /\ exchange' = exchange /\ Reorders' = Reorders
<1>1. Types /\ WritesOK /\ MessagesOK /\ Types'
  BY TypesStep DEF Base
<1>2. \A s \in Seq(Responses) : \A r \in Responses : Append(s, r) \in Seq(Responses)
  OBVIOUS
<1>3. Queue \in Seq(Responses) /\ Queue' \in Seq(Responses) /\ responseCh \in Seq(Responses)
  BY <1>1, <1>2 DEF Types, Queue
<1>4. \A t \in Ticker : market[t] \in Nat /\ market'[t] \in Nat /\ market[t] <= market'[t]
  BY GrowthStep
<1>5. exchange' = exchange
  BY GrowthStep
<1> QED
  BY <1>1, <1>3, <1>4, <1>5 DEF Types, Reorders

(* Neither the queue nor the wire gets anything new.                       *)
LEMMA OrderKept ==
  ASSUME Base, [Next]_vars, NEW t \in Ticker, TickerInOrder(t),
         UNCHANGED data, handler'.sequence = handler.sequence, fromExchange' \in {fromExchange, <<>>},
         \/ Queue' = Queue
         \/ fromExchange' = <<>> /\ pc = "send" /\ Queue' = responseCh
  PROVE  TickerInOrder(t)'
<1>1. /\ Types /\ Queue \in Seq(Responses) /\ Queue' \in Seq(Responses) /\ responseCh \in Seq(Responses)
      /\ data \in [Ticker -> StoredData] /\ market[t] \in Nat /\ market'[t] \in Nat /\ market[t] <= market'[t]
      /\ Reorders' = Reorders
  BY OrderTypes
<1>2. /\ QueueInOrder(Queue', data[t], t) /\ \A n : AtMost(Queue, data[t], t, n) => AtMost(Queue', data[t], t, n)
  <2>1. CASE Queue' = Queue
    BY <2>1 DEF TickerInOrder
  <2>2. CASE Queue' # Queue
    <3>1. pc = "send" /\ Queue' = responseCh /\ Queue = Append(responseCh, response) /\ response \in Responses
      BY <1>1, <2>2 DEF Queue, Types
    <3>2. QueueInOrder(Append(responseCh, response), data[t], t)
      BY <3>1 DEF TickerInOrder
    <3>3. /\ QueueInOrder(responseCh, data[t], t)
          /\ \A n : AtMost(Append(responseCh, response), data[t], t, n) => AtMost(responseCh, data[t], t, n)
      BY <1>1, <3>1, <3>2, QueueAppended
    <3> QED
      BY <3>1, <3>3
  <2> QED
    BY <2>1, <2>2
<1>3. AtMost(Queue', data[t], t, market'[t])
  BY <1>1, <1>2, AtMostLess DEF TickerInOrder
<1>4. ~Reorders => WireInOrder(fromExchange', Queue', data[t], t)
  <2>1. CASE fromExchange' = <<>>
    BY <2>1 DEF WireInOrder
  <2>2. CASE fromExchange' = fromExchange /\ fromExchange # <<>>
    <3>1. Queue' = Queue
      BY <2>2
    <3> QED
      BY <2>2, <3>1 DEF TickerInOrder
  <2> QED
    BY <2>1, <2>2
<1>5. SequenceOf(handler', t) = SequenceOf(handler, t)
  BY DEF SequenceOf
<1>6. Reorders => /\ SequenceOf(handler', t) \in 0 .. market'[t]
                  /\ AtMost(Queue', data[t], t, SequenceOf(handler', t))
  BY <1>1, <1>2, <1>5 DEF TickerInOrder
<1>7. data'[t] = data[t]
  OBVIOUS
<1> QED
  BY <1>1, <1>2, <1>3, <1>4, <1>6, <1>7 DEF TickerInOrder

(* A message is read, and what it resolves, or nothing, is to be sent.     *)
LEMMA OrderRead ==
  ASSUME Base, [Next]_vars, NEW t \in Ticker, \A u \in Ticker : TickerInOrder(u), ReadStep
  PROVE  TickerInOrder(t)'
<1>1. /\ Types /\ Queue \in Seq(Responses) /\ Queue' \in Seq(Responses) /\ responseCh \in Seq(Responses)
      /\ fromExchange \in Seq(Messages) /\ data \in [Ticker -> StoredData]
      /\ market[t] \in Nat /\ exchange' = exchange /\ Reorders' = Reorders
  BY OrderTypes
<1>2. PICK i \in DOMAIN fromExchange :
        LET msg == fromExchange[i]
            res == HandleMessage(exchange, handler, msg)
        IN  /\ i = 1 \/ Reorders
            /\ msg \in Messages /\ MessageOK(msg, exchange, handler, market) /\ Outcome(res, msg)
            /\ pc = "reading"
            /\ fromExchange' = RemoveAt(fromExchange, i) /\ handler' = res.h
            /\ res.err => pc' = "loop"
            /\ ~res.err => pc' = "send" /\ response' = Report(res, msg) /\ response' \in Responses
            /\ UNCHANGED <<data, market, responseCh>>
  BY ReadEffect
<1> DEFINE msg == fromExchange[i]
           res == HandleMessage(exchange, handler, msg)
           q == responseCh
           r == response'
           d == data[t]
<1>3. /\ i = 1 \/ Reorders
      /\ msg \in Messages /\ MessageOK(msg, exchange, handler, market) /\ Outcome(res, msg)
      /\ fromExchange' = RemoveAt(fromExchange, i) /\ handler' = res.h
      /\ Queue = q
      /\ res.err => Queue' = q
      /\ ~res.err => Queue' = Append(q, r) /\ r \in Responses /\ r.resolved = res.resolved
      /\ UNCHANGED <<data, market>>
  BY <1>2 DEF Queue, Report
<1>4. /\ QueueInOrder(q, d, t) /\ AtMost(q, d, t, market[t])
      /\ ~Reorders => WireInOrder(fromExchange, q, d, t)
      /\ Reorders => SequenceOf(handler, t) \in 0 .. market[t] /\ AtMost(q, d, t, SequenceOf(handler, t))
      /\ Reorders => \A u \in Ticker : SequenceOf(handler, u) \in Nat
  BY <1>3 DEF TickerInOrder
<1>5. Reorders => Advances(res, t)
  BY <1>1, <1>3, <1>4, SequenceAdvances
<1> HIDE DEF msg, res, q, r, d
<1>6. ~res.err /\ Prices(r, t) => /\ Good(msg, t) /\ r.resolved[t] = msg.prices[t] /\ msg.prices[t][1] = t
                                  /\ msg.prices[t][2] \in 1 .. market[t]
  <2>1. SUFFICES ASSUME ~res.err, Prices(r, t)
                 PROVE  /\ Good(msg, t) /\ r.resolved[t] = msg.prices[t] /\ msg.prices[t][1] = t
                        /\ msg.prices[t][2] \in 1 .. market[t]
    OBVIOUS
  <2>2. t \in DOMAIN msg.prices /\ msg.prices[t] # Bad /\ r.resolved[t] = msg.prices[t]
    BY <1>3, <2>1 DEF Outcome, ResolvedFrom, Prices
  <2>3. PriceOK(msg.prices[t], t, msg.seq, exchange, market)
    BY <1>3, <2>2 DEF MessageOK
  <2> DEFINE p == msg.prices[t]
  <2>4. p = <<t, p[2]>> /\ p[2] \in 1 .. market[t]
    BY <2>2, <2>3 DEF PriceOK
  <2> HIDE DEF p
  <2>5. p[1] = t
    BY <2>4
  <2> QED
    BY <2>2, <2>4, <2>5 DEF p, Good
<1>7. d \in StoredData
  BY <1>1 DEF d
<1>8. ~res.err /\ Prices(r, t) => AtMost(q, d, t, r.resolved[t][2])
  <2>1. SUFFICES ASSUME ~res.err, Prices(r, t)
                 PROVE  AtMost(q, d, t, r.resolved[t][2])
    OBVIOUS
  <2>2. CASE Reorders
    <3>1. r.resolved[t][2] = SequenceOf(res.h, t) /\ SequenceOf(res.h, t) \in SequenceOf(handler, t) .. market[t]
      BY <1>3, <1>5, <2>1, <2>2 DEF Advances, Prices
    <3>2. SequenceOf(handler, t) \in Nat /\ SequenceOf(res.h, t) \in Nat /\ SequenceOf(handler, t) <= SequenceOf(res.h, t)
      BY <1>1, <1>4, <2>2, <3>1
    <3> QED
      BY <1>1, <1>4, <1>7, <2>2, <3>1, <3>2, AtMostLess DEF q
  <2>3. CASE ~Reorders
    <3>1. i = 1 /\ Good(fromExchange[1], t) /\ r.resolved[t] = fromExchange[1].prices[t] /\ 1 \in DOMAIN fromExchange
      BY <1>3, <1>6, <2>1, <2>3 DEF msg
    <3> QED
      BY <1>4, <2>3, <3>1 DEF WireInOrder
  <2> QED
    BY <2>2, <2>3
<1>9. QueueInOrder(Queue', d, t) /\ AtMost(Queue', d, t, market[t])
  <2>1. CASE res.err
    BY <1>3, <1>4, <2>1
  <2>2. CASE ~res.err
    <3>1. Prices(r, t) => /\ r.resolved[t][1] = t /\ r.resolved[t][2] <= market[t]
                          /\ AtMost(q, d, t, r.resolved[t][2])
      BY <1>1, <1>6, <1>8, <2>2
    <3>2. q \in Seq(Responses) /\ r \in Responses /\ Queue' = Append(q, r)
      BY <1>1, <1>3, <2>2 DEF q
    <3> QED
      BY <1>4, <1>7, <3>1, <3>2, QueueAppended
  <2> QED
    BY <2>1, <2>2
<1>10. ~Reorders => WireInOrder(fromExchange', Queue', d, t)
  <2>1. SUFFICES ASSUME ~Reorders
                 PROVE  WireInOrder(fromExchange', Queue', d, t)
    OBVIOUS
  <2>2. i = 1 /\ msg = fromExchange[1] /\ 1 \in DOMAIN fromExchange /\ q \in Seq(Responses)
    BY <1>1, <1>3, <2>1 DEF msg, q
  <2>3. /\ WireInOrder(RemoveAt(fromExchange, 1), q, d, t)
        /\ \A e \in Responses :
              (Prices(e, t) => Good(fromExchange[1], t) /\ e.resolved[t] = fromExchange[1].prices[t])
                => WireInOrder(RemoveAt(fromExchange, 1), Append(q, e), d, t)
    BY <1>1, <1>4, <1>7, <2>1, <2>2, WireRead
  <2> QED
    BY <1>3, <1>6, <2>2, <2>3
<1>11. Reorders => /\ SequenceOf(handler', t) \in 0 .. market[t]
                   /\ AtMost(Queue', d, t, SequenceOf(handler', t))
  <2>1. SUFFICES ASSUME Reorders
                 PROVE  /\ SequenceOf(handler', t) \in 0 .. market[t]
                        /\ AtMost(Queue', d, t, SequenceOf(handler', t))
    OBVIOUS
  <2> DEFINE n == SequenceOf(handler, t)
             m == SequenceOf(res.h, t)
  <2>2. /\ n \in 0 .. market[t] /\ m \in n .. market[t] /\ AtMost(q, d, t, n)
        /\ ~res.err /\ t \in DOMAIN res.resolved => res.resolved[t][2] = m
    BY <1>4, <1>5, <2>1 DEF Advances
  <2>3. SequenceOf(handler', t) = m
    BY <1>3
  <2> HIDE DEF n, m
  <2>4. n \in Nat /\ m \in Nat /\ n <= m /\ m \in 0 .. market[t]
    BY <1>1, <2>2
  <2>5. q \in Seq(Responses)
    BY <1>1 DEF q
  <2>6. AtMost(q, d, t, m)
    BY <1>7, <2>2, <2>4, <2>5, AtMostLess
  <2>7. CASE res.err
    BY <1>3, <2>3, <2>4, <2>6, <2>7
  <2>8. CASE ~res.err
    <3>1. Prices(r, t) => r.resolved[t][2] <= m
      BY <1>3, <2>2, <2>4, <2>8 DEF Prices
    <3>2. r \in Responses /\ Queue' = Append(q, r)
      BY <1>3, <2>8
    <3>3. AtMost(Append(q, r), d, t, m)
      BY <1>7, <2>5, <2>6, <3>1, <3>2, QueueAppended
    <3> QED
      BY <2>3, <2>4, <3>2, <3>3
  <2> QED
    BY <2>7, <2>8
<1>12. data'[t] = d /\ market'[t] = market[t]
  BY <1>3 DEF d
<1> QED
  BY <1>1, <1>9, <1>10, <1>11, <1>12 DEF TickerInOrder

(* The wire stays in order when the queue changes and its prices get no    *)
(* later.                                                                  *)
LEMMA WireKept ==
  ASSUME NEW t \in Ticker, NEW w, NEW q, NEW d, NEW p, NEW e, WireInOrder(w, q, d, t),
         \A n : AtMost(q, d, t, n) => AtMost(p, e, t, n)
  PROVE  WireInOrder(w, p, e, t)
BY DEF WireInOrder

(* A start fails, which is reported without any price.                     *)
LEMMA OrderReport ==
  ASSUME Base, [Next]_vars, NEW t \in Ticker, TickerInOrder(t), ReportStartError
  PROVE  TickerInOrder(t)'
<1> DEFINE r == [resolved |-> <<>>, unchanged |-> {}, asOf |-> <<>>, dial |-> dial]
           q == Queue
<1>1. /\ Types /\ q \in Seq(Responses) /\ Queue' \in Seq(Responses)
      /\ data \in [Ticker -> StoredData] /\ Reorders' = Reorders
  BY OrderTypes
<1>2. Queue = responseCh /\ Queue' = Append(q, r) /\ UNCHANGED <<data, market, handler, fromExchange>>
  BY DEF ReportStartError, Goto, HandlerStep, connVars, Queue
<1>3. r \in Responses
  <2>1. <<>> \in PriceMaps /\ dial \in Nat
    BY <1>1, NoPricesFacts DEF NoPrices, Types
  <2>2. <<>> = [u \in {} |-> 0] /\ [u \in {} |-> 0] \in [{} -> Nat]
    OBVIOUS
  <2> QED
    BY <2>1, <2>2 DEF Responses
<1>4. ~Prices(r, t)
  <2>1. DOMAIN <<>> = {}
    OBVIOUS
  <2> QED
    BY <2>1 DEF Prices
<1> HIDE DEF r, q
<1>5. data[t] \in StoredData
  BY <1>1
<1>6. QueueInOrder(q, data[t], t)
  BY DEF TickerInOrder, q
<1>7. /\ QueueInOrder(Append(q, r), data[t], t)
      /\ \A n : AtMost(q, data[t], t, n) => AtMost(Append(q, r), data[t], t, n)
  BY <1>1, <1>3, <1>4, <1>5, <1>6, QueueAppended
<1>8. ~Reorders => WireInOrder(fromExchange, Append(q, r), data[t], t)
  BY <1>7, WireKept DEF TickerInOrder, q
<1>9. /\ AtMost(Append(q, r), data[t], t, market[t])
      /\ Reorders => /\ SequenceOf(handler, t) \in 0 .. market[t]
                     /\ AtMost(Append(q, r), data[t], t, SequenceOf(handler, t))
  BY <1>7 DEF TickerInOrder, q
<1>10. data'[t] = data[t] /\ market'[t] = market[t] /\ SequenceOf(handler', t) = SequenceOf(handler, t)
  BY <1>2
<1> QED
  BY <1>1, <1>2, <1>7, <1>8, <1>9, <1>10 DEF TickerInOrder

(* The provider receives the first response there is.                      *)
LEMMA Received ==
  ASSUME Base, [Next]_vars, Recv
  PROVE  /\ Queue # <<>> /\ data' = UpdateData(data, Head(Queue)) /\ Queue' = Tail(Queue)
         /\ UNCHANGED <<exchange, ctxDone, pc, handler, market, dial, conn, subs, fromExchange>>
<1>1. Types /\ responseCh \in Seq(Responses)
  BY OrderTypes
<1>2. /\ responseCh # <<>> /\ data' = UpdateData(data, Head(responseCh)) /\ responseCh' = Tail(responseCh)
      /\ UNCHANGED <<exchange, ctxDone, pc, response, handler, market, dial, conn, subs, fromExchange>>
  BY DEF Recv, handlerVars, connVars
<1>3. CASE pc = "send"
  <2>1. Queue = Append(responseCh, response) /\ Queue' = Append(Tail(responseCh), response)
    BY <1>2, <1>3 DEF Queue
  <2>2. /\ Head(Append(responseCh, response)) = Head(responseCh)
        /\ Tail(Append(responseCh, response)) = Append(Tail(responseCh), response)
    BY <1>1, <1>2, HeadTailAppend
  <2>3. Len(Append(responseCh, response)) = Len(responseCh) + 1 /\ Len(responseCh) \in Nat
    BY <1>1, <1>3, AppendFacts DEF Types
  <2>4. Append(responseCh, response) # <<>>
    BY <2>3
  <2> QED
    BY <1>2, <2>1, <2>2, <2>4
<1>4. CASE pc # "send"
  BY <1>2, <1>4 DEF Queue
<1> QED
  BY <1>3, <1>4

(* A receive keeps the prices in order, and the stored one moves forward.  *)
LEMMA OrderReceived ==
  ASSUME Base, [Next]_vars, NEW t \in Ticker, TickerInOrder(t), Recv
  PROVE  TickerInOrder(t)' /\ Number(data[t]) <= Number(data'[t]) /\ Number(data'[t]) <= market[t]
<1>1. Queue \in Seq(Responses) /\ data \in [Ticker -> StoredData] /\ Reorders' = Reorders
  BY OrderTypes
<1>2. /\ Queue # <<>> /\ data' = UpdateData(data, Head(Queue)) /\ Queue' = Tail(Queue)
      /\ UNCHANGED <<market, handler, fromExchange>>
  BY Received
<1> DEFINE q == Queue
           old == data[t]
           new == UpdateData(data, Head(Queue))[t]
<1>4. /\ QueueInOrder(q, old, t) => QueueInOrder(Tail(q), new, t) /\ Number(old) <= Number(new)
      /\ \A n : AtMost(q, old, t, n) => AtMost(Tail(q), new, t, n)
  BY <1>1, <1>2, QueueReceived
<1>5. data'[t] = new /\ Queue' = Tail(q) /\ SequenceOf(handler', t) = SequenceOf(handler, t) /\ market'[t] = market[t]
  BY <1>2
<1> HIDE DEF q, old, new
<1>6. /\ QueueInOrder(Tail(q), new, t) /\ Number(old) <= Number(new) /\ AtMost(Tail(q), new, t, market[t])
      /\ Reorders => /\ SequenceOf(handler, t) \in 0 .. market[t]
                     /\ AtMost(Tail(q), new, t, SequenceOf(handler, t))
  BY <1>4 DEF TickerInOrder, q, old
<1>7. ~Reorders => WireInOrder(fromExchange, Tail(q), new, t)
  BY <1>4, WireKept DEF TickerInOrder, q, old
<1>8. Number(new) <= market[t]
  BY <1>6 DEF AtMost
<1>9. TickerInOrder(t)'
  BY <1>1, <1>2, <1>5, <1>6, <1>7 DEF TickerInOrder
<1> QED
  BY <1>5, <1>6, <1>8, <1>9 DEF old

(* The exchange sends a message; a price in it is the latest.              *)
LEMMA OrderSent ==
  ASSUME Base, [Next]_vars, NEW t \in Ticker, TickerInOrder(t),
         NEW msg, ConfirmStep(msg) \/ RejectStep(msg) \/ PriceStep(msg) \/ OtherStep(msg)
  PROVE  TickerInOrder(t)'
<1>1. /\ Types /\ MessagesOK /\ Queue \in Seq(Responses)
      /\ fromExchange \in Seq(Messages) /\ data \in [Ticker -> StoredData]
      /\ market[t] \in Nat /\ market'[t] \in Nat /\ market[t] <= market'[t]
      /\ Reorders' = Reorders
  BY OrderTypes
<1>2. /\ msg \in Messages /\ fromExchange' = Append(fromExchange, msg)
      /\ Queue' = Queue /\ UNCHANGED <<handler, data>>
  BY DEF ConfirmStep, RejectStep, PriceStep, OtherStep, Sent, ExchangeStep, handlerVars, Queue
<1>3. Good(msg, t) => msg.prices[t] = <<t, market'[t]>>
  <2>1. DOMAIN <<>> = {}
    OBVIOUS
  <2> QED
    BY <2>1 DEF ConfirmStep, RejectStep, PriceStep, OtherStep, Good
<1>4. data[t] \in StoredData
  BY <1>1
<1>5. AtMost(Queue, data[t], t, market'[t])
  BY <1>1, <1>4, AtMostLess DEF TickerInOrder
<1>6. \A i \in DOMAIN fromExchange : Good(fromExchange[i], t) => fromExchange[i].prices[t][2] <= market'[t]
  <2>1. SUFFICES ASSUME NEW i \in DOMAIN fromExchange, Good(fromExchange[i], t)
                 PROVE  fromExchange[i].prices[t][2] <= market'[t]
    OBVIOUS
  <2> DEFINE p == fromExchange[i].prices[t]
  <2>2. PriceOK(p, t, fromExchange[i].seq, exchange, market) /\ p # Bad
    BY <1>1, <2>1 DEF MessagesOK, MessageOK, Good
  <2> HIDE DEF p
  <2>3. p[2] \in 1 .. market[t]
    BY <2>2 DEF PriceOK
  <2>4. p[2] <= market'[t]
    BY <1>1, <2>3
  <2> QED
    BY <2>4 DEF p
<1>7. ~Reorders => WireInOrder(fromExchange', Queue, data[t], t)
  <2>1. Good(msg, t) => msg.prices[t][2] = market'[t]
    BY <1>3
  <2>2. Good(msg, t) => /\ AtMost(Queue, data[t], t, msg.prices[t][2])
                        /\ \A i \in DOMAIN fromExchange : Good(fromExchange[i], t) =>
                             fromExchange[i].prices[t][2] <= msg.prices[t][2]
    BY <1>5, <1>6, <2>1
  <2>3. ~Reorders => WireInOrder(fromExchange, Queue, data[t], t)
    BY DEF TickerInOrder
  <2>4. ~Reorders => WireInOrder(Append(fromExchange, msg), Queue, data[t], t)
    BY <1>1, <1>2, <1>4, <2>2, <2>3, WireSent
  <2> QED
    BY <1>2, <2>4
<1>8. Reorders => /\ SequenceOf(handler, t) \in 0 .. market'[t]
                  /\ AtMost(Queue, data[t], t, SequenceOf(handler, t))
  BY <1>1 DEF TickerInOrder
<1>9. QueueInOrder(Queue, data[t], t)
  BY DEF TickerInOrder
<1>10. data'[t] = data[t] /\ SequenceOf(handler', t) = SequenceOf(handler, t)
  BY <1>2
<1> QED
  BY <1>1, <1>2, <1>5, <1>7, <1>8, <1>9, <1>10 DEF TickerInOrder

(* Every step keeps the prices in order.                                   *)
LEMMA InOrderStep ==
  ASSUME Base, InOrder, [Next]_vars
  PROVE  InOrder'
<1> SUFFICES ASSUME NEW t \in Ticker
             PROVE  TickerInOrder(t)'
  BY DEF InOrder, TickerInOrder
<1>1. \A u \in Ticker : TickerInOrder(u)
  BY DEF InOrder, TickerInOrder
<1>2. CASE LocalStep
  <2>1. Queue' = Queue /\ UNCHANGED <<data, handler, fromExchange>>
    BY <1>2 DEF LocalStep, connVars, Queue
  <2> QED
    BY <1>1, <2>1, OrderKept
<1>3. CASE DropStep
  <2>1. /\ fromExchange' = <<>> /\ UNCHANGED <<data, handler>>
        /\ Queue' = Queue \/ (pc = "send" /\ Queue' = responseCh)
    BY <1>3 DEF DropStep, DropWire, Queue
  <2> QED
    BY <1>1, <2>1, OrderKept
<1>4. CASE DialSucceeds
  <2>1. /\ fromExchange' = <<>> /\ UNCHANGED data /\ Queue' = Queue
        /\ handler' = CreateMessages(exchange, handler, ids).h
    BY <1>4 DEF DialSucceeds, Goto, DropWire, HandlerStep, Queue
  <2>2. handler'.sequence = handler.sequence
    BY <2>1, CreateFacts DEF Base
  <2> QED
    BY <1>1, <2>1, <2>2, OrderKept
<1>5. CASE WriteStep
  <2>1. Queue' = Queue /\ UNCHANGED <<data, handler, fromExchange>>
    BY <1>5 DEF WriteStep, Queue
  <2> QED
    BY <1>1, <2>1, OrderKept
<1>6. CASE SendStep
  <2>1. Queue' = Queue /\ UNCHANGED <<data, handler, fromExchange>>
    BY <1>6 DEF SendStep, connVars, Queue
  <2> QED
    BY <1>1, <2>1, OrderKept
<1>7. CASE UnsentStep
  <2>1. Queue' = Queue /\ UNCHANGED <<data, handler, fromExchange>>
    BY <1>7 DEF UnsentStep, ExchangeStep, handlerVars, Queue
  <2> QED
    BY <1>1, <2>1, OrderKept
<1>8. CASE ReportStartError
  BY <1>1, <1>8, OrderReport
<1>9. CASE ReadStep
  BY <1>1, <1>9, OrderRead
<1>10. CASE Recv
  BY <1>1, <1>10, OrderReceived
<1>11. ASSUME NEW msg, ConfirmStep(msg) \/ RejectStep(msg) \/ PriceStep(msg) \/ OtherStep(msg)
       PROVE  TickerInOrder(t)'
  BY <1>1, <1>11, OrderSent
<1> QED
  BY <1>2, <1>3, <1>4, <1>5, <1>6, <1>7, <1>8, <1>9, <1>10, <1>11, Effects, ExchangeEffects DEF Base

(* Before the first connection there are no prices.                        *)
LEMMA InOrderInit == Init => InOrder
<1> SUFFICES ASSUME Init, NEW t \in Ticker
             PROVE  TickerInOrder(t)
  BY DEF InOrder, TickerInOrder
<1>1. /\ data[t] = NoData /\ market[t] = 1 /\ Queue = <<>> /\ fromExchange = <<>>
      /\ handler.sequence = <<>>
  BY DEF Init, Queue, NewHandler, Handler
<1>2. DOMAIN <<>> = {}
  OBVIOUS
<1>3. SequenceOf(handler, t) = 0
  BY <1>1, <1>2 DEF SequenceOf, Get
<1> QED
  BY <1>1, <1>2, <1>3 DEF TickerInOrder, QueueInOrder, AtMost, WireInOrder, Number

(* The stored prices as the abstract feed sees them.                       *)
LEMMA FeedNumbers ==
  ASSUME InOrder, NEW t \in Ticker
  PROVE  FeedPrice[t] = Number(data[t])
<1>1. data[t] # NoData => data[t].price[1] = t
  BY DEF InOrder, QueueInOrder
<1> QED
  BY <1>1 DEF FeedPrice, Number

(* Each step is a trade, a store, or neither.                              *)
LEMMA FeedStep ==
  ASSUME Base, InOrder, [Next]_vars
  PROVE  [Feed!FeedNext]_(Feed!feedVars)
<1>1. /\ Types /\ data \in [Ticker -> StoredData] /\ data' \in [Ticker -> StoredData]
      /\ \A t \in Ticker : market[t] \in Nat /\ market'[t] \in Nat /\ market[t] <= market'[t]
  BY OrderTypes
<1>2. /\ DOMAIN FeedPrice = Ticker /\ DOMAIN FeedPrice' = Ticker
      /\ data' = data => FeedPrice' = FeedPrice
  BY DEF FeedPrice
<1>3. CASE data' = data /\ market' = market
  BY <1>2, <1>3 DEF Feed!feedVars
<1>4. CASE data' = data /\ \A t \in Ticker : market'[t] \in {market[t], market[t] + 1}
  <2> DEFINE S == {t \in Ticker : market'[t] # market[t]}
  <2>1. \A t \in Ticker : market'[t] = IF t \in S THEN market[t] + 1 ELSE market[t]
    BY <1>4
  <2>2. market' \in [Ticker -> Nat \ {0}]
    BY TypesStep DEF Types
  <2>3. market' = [t \in Ticker |-> market'[t]]
    BY <2>2
  <2> HIDE DEF S
  <2>4. market' = [t \in Ticker |-> IF t \in S THEN market[t] + 1 ELSE market[t]]
    BY <2>1, <2>3
  <2>5. S \in SUBSET Ticker
    BY DEF S
  <2> QED
    BY <1>2, <1>4, <2>4, <2>5 DEF Feed!FeedNext, Feed!Trade
<1>5. CASE Recv
  <2>1. market' = market
    BY <1>5 DEF Recv
  <2>2. InOrder'
    BY InOrderStep
  <2>3. ASSUME NEW t \in Ticker
        PROVE  FeedPrice'[t] \in FeedPrice[t] .. market[t]
    <3>1. TickerInOrder(t)
      BY DEF InOrder, TickerInOrder
    <3>2. Number(data[t]) <= Number(data'[t]) /\ Number(data'[t]) <= market[t]
      BY <1>5, <3>1, OrderReceived
    <3>3. FeedPrice[t] = Number(data[t])
      BY FeedNumbers
    <3>4. FeedPrice'[t] = Number(data'[t])
      <4>1. data'[t] # NoData => data'[t].price[1] = t
        BY <2>2 DEF InOrder, QueueInOrder
      <4> QED
        BY <4>1 DEF FeedPrice, Number
    <3>5. Number(data[t]) \in Nat /\ Number(data'[t]) \in Nat
      BY <1>1, NumberTypes
    <3> QED
      BY <1>1, <3>2, <3>3, <3>4, <3>5
  <2> QED
    BY <1>2, <2>1, <2>3 DEF Feed!FeedNext, Feed!Store
<1>6. ASSUME ~Recv
      PROVE  data' = data /\ (market' = market \/ \A t \in Ticker : market'[t] \in {market[t], market[t] + 1})
  BY <1>6, GrowthStep, Effects, ExchangeEffects DEF Base, LocalStep, DropStep, DialSucceeds, WriteStep, ReportStartError, ReadStep,
     ReadMessage, SendStep, UnsentStep, ConfirmStep, RejectStep, PriceStep, OtherStep, Sent, ExchangeStep, HandlerStep
<1> QED
  BY <1>3, <1>4, <1>5, <1>6

(* "ImplementsPriceFeed": a connection's stored prices are an abstract     *)
(* price feed: each is one that its ticker's market had, and is replaced   *)
(* only by a later one, over reconnects with other channel numbers         *)
(* (Bitfinex), messages out of order (Coinbase, KuCoin), prices that do    *)
(* not parse and snapshots that repeat a price.                            *)
THEOREM ImplementsPriceFeedTheorem == Spec => ImplementsPriceFeed
<1>1. Init => Base /\ InOrder
  BY BaseInit, InOrderInit
<1>2. Base /\ InOrder /\ [Next]_vars => Base' /\ InOrder'
  BY BaseStep, InOrderStep
<1>3. Init => Feed!FeedInit
  <2>1. Init => market = [t \in Ticker |-> 1]
    BY DEF Init
  <2>2. Init => FeedPrice = [t \in Ticker |-> 0]
    BY DEF Init, FeedPrice
  <2> QED
    BY <2>1, <2>2 DEF Feed!FeedInit
<1>4. Base /\ InOrder /\ [Next]_vars => [Feed!FeedNext]_(Feed!feedVars)
  BY FeedStep
<1> QED
  BY <1>1, <1>2, <1>3, <1>4, PTL DEF Spec, ImplementsPriceFeed, Feed!FeedSpec

-----------------------------------------------------------------------------
(* The last price before a place in the queue, as the queue changes.       *)
LEMMA LastAppended ==
  ASSUME NEW t \in Ticker, NEW q \in Seq(Responses), NEW r \in Responses, NEW d, NEW x, NEW c, NEW n
  PROVE  /\ \A k \in 1 .. Len(q) + 1 :
              LastPriceIs(Append(q, r), d, x, t, k, c, n) <=> LastPriceIs(q, d, x, t, k, c, n)
         /\ Prices(r, t) /\ (x = "coinbase" \/ r.dial = c => r.resolved[t][2] = n)
              => LastPriceIs(Append(q, r), d, x, t, Len(q) + 2, c, n)
         /\ ~Prices(r, t) /\ LastPriceIs(q, d, x, t, Len(q) + 1, c, n)
              => LastPriceIs(Append(q, r), d, x, t, Len(q) + 2, c, n)
<1> DEFINE s == Append(q, r)
           l == Len(q)
<1>1. l \in Nat /\ (\A i \in 1 .. l : s[i] = q[i]) /\ s[l + 1] = r
  BY AppendFacts
<1> HIDE DEF s, l
<1>2. ASSUME NEW k \in 1 .. l + 1
      PROVE  LastPriceIs(s, d, x, t, k, c, n) <=> LastPriceIs(q, d, x, t, k, c, n)
  <2>1. \A i \in 1 .. k - 1 : s[i] = q[i]
    BY <1>1
  <2>2. \A j \in 0 .. k - 1 : \A i \in j + 1 .. k - 1 : i \in 1 .. k - 1
    BY <1>1
  <2>3. \A j \in 0 .. k - 1 : LastInQueue(s, t, j, k) <=> LastInQueue(q, t, j, k)
    BY <2>1, <2>2 DEF LastInQueue
  <2>4. 0 \in 0 .. k - 1 /\ \A j \in 1 .. k - 1 : j \in 0 .. k - 1
    BY <1>1
  <2> QED
    BY <2>1, <2>3, <2>4 DEF LastPriceIs
<1>3. (l + 2) - 1 = l + 1 /\ (l + 1) - 1 = l /\ l + 1 \in Nat /\ l + 2 \in Nat
  BY <1>1
<1>4. ASSUME Prices(r, t), x = "coinbase" \/ r.dial = c => r.resolved[t][2] = n
      PROVE  LastPriceIs(s, d, x, t, l + 2, c, n)
  <2>1. ASSUME NEW j \in 0 .. l + 1, LastInQueue(s, t, j, l + 2)
        PROVE  j = l + 1
    <3>1. SUFFICES ASSUME j # l + 1
                   PROVE  FALSE
      OBVIOUS
    <3>2. l + 1 \in j + 1 .. (l + 2) - 1
      BY <1>1, <3>1
    <3> QED
      BY <1>1, <1>4, <2>1, <3>2 DEF LastInQueue
  <2>2. ~LastInQueue(s, t, 0, l + 2)
    BY <1>1, <2>1
  <2>3. ASSUME NEW j \in 1 .. (l + 2) - 1, LastInQueue(s, t, j, l + 2), x = "coinbase" \/ s[j].dial = c
        PROVE  s[j].resolved[t][2] = n
    BY <1>1, <1>4, <2>1, <2>3
  <2> QED
    BY <2>2, <2>3 DEF LastPriceIs
<1>5. ASSUME ~Prices(r, t), LastPriceIs(q, d, x, t, l + 1, c, n)
      PROVE  LastPriceIs(s, d, x, t, l + 2, c, n)
  <2>1. LastPriceIs(s, d, x, t, l + 1, c, n)
    BY <1>1, <1>2, <1>5
  <2>2. ASSUME NEW j \in 0 .. l, LastInQueue(s, t, j, l + 2)
        PROVE  LastInQueue(s, t, j, l + 1)
    <3>1. j < l + 1 /\ \A i \in j + 1 .. (l + 1) - 1 : i \in j + 1 .. (l + 2) - 1
      BY <1>1
    <3> QED
      BY <2>2, <3>1 DEF LastInQueue
  <2>3. ASSUME NEW j \in 1 .. (l + 2) - 1, LastInQueue(s, t, j, l + 2), Prices(s[j], t), x = "coinbase" \/ s[j].dial = c
        PROVE  s[j].resolved[t][2] = n
    <3>1. j # l + 1
      BY <1>1, <1>5, <2>3
    <3>2. j \in 0 .. l /\ j \in 1 .. (l + 1) - 1
      BY <1>1, <3>1
    <3> QED
      BY <2>1, <2>2, <2>3, <3>2 DEF LastPriceIs
  <2>4. LastInQueue(s, t, 0, l + 2) => LastInQueue(s, t, 0, l + 1)
    BY <1>1, <2>2
  <2> QED
    BY <2>1, <2>3, <2>4 DEF LastPriceIs
<1> QED
  BY <1>2, <1>4, <1>5 DEF s, l

(* When a response is received, what was last in the queue is last, or is  *)
(* stored.                                                                 *)
LEMMA LastReceived ==
  ASSUME NEW t \in Ticker, NEW q \in Seq(Responses), q # <<>>, NEW old \in [Ticker -> StoredData],
         NEW x, NEW k \in 2 .. Len(q) + 1, NEW c \in Nat \ {0}, NEW n,
         LastPriceIs(q, old[t], x, t, k, c, n)
  PROVE  LastPriceIs(Tail(q), UpdateData(old, Head(q))[t], x, t, k - 1, c, n)
<1> DEFINE new == UpdateData(old, Head(q))[t]
           r == q[1]
           s == Tail(q)
           l == Len(q)
<1>1. l \in Nat \ {0} /\ (\A i \in 1 .. l - 1 : s[i] = q[i + 1]) /\ Head(q) = r /\ r \in Responses
  BY TailFacts
<1>2. /\ Prices(r, t) => new.price = r.resolved[t] /\ new.dial = r.dial
      /\ ~Prices(r, t) => \/ new = old[t]
                          \/ new.price = old[t].price /\ old[t] # NoData /\ new.dial \in {0, old[t].dial}
  BY <1>1 DEF UpdateData, Prices
<1> HIDE DEF new, r, s
<1>3. k \in Nat /\ k >= 2 /\ k <= l + 1
  BY <1>1
<1> HIDE DEF l
<1>4. ASSUME NEW j \in 0 .. k - 2, LastInQueue(s, t, j, k - 1)
      PROVE  LastInQueue(q, t, j + 1, k)
  <2>1. \A i \in (j + 1) + 1 .. k - 1 : i - 1 \in j + 1 .. (k - 1) - 1 /\ i - 1 \in 1 .. l - 1 /\ (i - 1) + 1 = i
    BY <1>1, <1>3
  <2>2. \A i \in (j + 1) + 1 .. k - 1 : s[i - 1] = q[i]
    BY <1>1, <2>1
  <2>3. j + 1 < k
    BY <1>3
  <2> QED
    BY <1>4, <2>1, <2>2, <2>3 DEF LastInQueue
<1>5. ASSUME NEW j \in 1 .. (k - 1) - 1, LastInQueue(s, t, j, k - 1), Prices(s[j], t), x = "coinbase" \/ s[j].dial = c
      PROVE  s[j].resolved[t][2] = n
  <2>1. j \in 0 .. k - 2 /\ j + 1 \in 1 .. k - 1 /\ s[j] = q[j + 1]
    BY <1>1, <1>3
  <2>2. LastInQueue(q, t, j + 1, k)
    BY <1>4, <1>5, <2>1
  <2> QED
    BY <1>5, <2>1, <2>2 DEF LastPriceIs
<1>6. ASSUME LastInQueue(s, t, 0, k - 1), new # NoData, x = "coinbase" \/ new.dial = c
      PROVE  new.price[2] = n
  <2>1. LastInQueue(q, t, 1, k)
    <3>1. 0 \in 0 .. k - 2 /\ 0 + 1 = 1
      BY <1>3
    <3> QED
      BY <1>4, <1>6, <3>1
  <2>2. CASE Prices(r, t)
    <3>1. 1 \in 1 .. k - 1 /\ Prices(q[1], t) /\ (x = "coinbase" \/ q[1].dial = c)
      BY <1>2, <1>3, <1>6, <2>2 DEF r
    <3>2. q[1].resolved[t][2] = n
      BY <2>1, <3>1 DEF LastPriceIs
    <3> QED
      BY <1>2, <2>2, <3>2 DEF r
  <2>3. CASE ~Prices(r, t)
    <3>1. LastInQueue(q, t, 0, k)
      <4>1. \A i \in 0 + 1 .. k - 1 : i = 1 \/ i \in 1 + 1 .. k - 1
        BY <1>3
      <4>2. 0 < k
        BY <1>3
      <4> QED
        BY <2>1, <2>3, <4>1, <4>2 DEF LastInQueue, r
    <3>2. old[t] # NoData /\ new.price = old[t].price /\ (x = "coinbase" \/ old[t].dial = c)
      BY <1>2, <1>6, <2>3
    <3> QED
      BY <3>1, <3>2 DEF LastPriceIs
  <2> QED
    BY <2>2, <2>3
<1> QED
  BY <1>5, <1>6 DEF LastPriceIs, new, s

-----------------------------------------------------------------------------
(* Coinbase: the trade of a ticker is the one of the price resolved last,  *)
(* and a heartbeat that names it renews it. Huobi: a message with prices   *)
(* resolves all of them, and only a ping renews any.                       *)
LEMMA CoinbaseRenews ==
  ASSUME Types, NEW msg \in Messages, MessageOK(msg, exchange, handler, market), exchange = "coinbase", NEW t \in Ticker
  PROVE  LET res == HandleMessage(exchange, handler, msg)
         IN  /\ t \in DOMAIN res.resolved => Get(res.h.tradeIDs, t, 0) = res.resolved[t][2]
             /\ res.err \/ t \notin DOMAIN res.resolved => Get(res.h.tradeIDs, t, 0) = Get(handler.tradeIDs, t, 0)
             /\ t \in res.unchanged =>
                  msg.type = "heartbeat" /\ t \in msg.tickers /\ Get(handler.tradeIDs, t, 0) = msg.trade
<1> DEFINE res == CoinbaseHandle(handler, msg)
           Goal(r) ==
             /\ t \in DOMAIN r.resolved => Get(r.h.tradeIDs, t, 0) = r.resolved[t][2]
             /\ r.err \/ t \notin DOMAIN r.resolved => Get(r.h.tradeIDs, t, 0) = Get(handler.tradeIDs, t, 0)
             /\ t \in r.unchanged =>
                  msg.type = "heartbeat" /\ t \in msg.tickers /\ Get(handler.tradeIDs, t, 0) = msg.trade
<1>1. DOMAIN <<>> = {}
  OBVIOUS
<1>2. \A h : h.tradeIDs = handler.tradeIDs =>
        /\ Goal(Quiet(h)) /\ Goal(Failed(h)) /\ \A S : Goal(Unresolved(h, S))
        /\ \A S : S \subseteq msg.tickers /\ msg.type = "heartbeat" /\ Get(handler.tradeIDs, t, 0) = msg.trade
             => Goal(Unchanged(h, S))
        /\ \A S : t \notin S => Goal(Unchanged(h, S))
  BY <1>1 DEF Quiet, Failed, Unresolved, Unchanged, Result
<1>3. CASE msg.type \in {"update", "heartbeat"}
  <2> DEFINE u == CHOOSE s \in msg.tickers : TRUE
             seen == Observe(handler, u, msg.seq)
             traded == Traded(seen, u, msg.trade)
  <2>1. /\ u \in Ticker /\ msg.tickers = {u} /\ (msg.type = "update" => DOMAIN msg.prices = {u})
    BY <1>3, SingleTicker DEF Singles
  <2>2. res =
          IF u \notin handler.cache THEN Failed(handler)
          ELSE IF msg.type = "update" THEN CoinbaseTicker(handler, u, msg)
          ELSE CoinbaseHeartbeat(handler, u, msg)
    BY <1>3 DEF CoinbaseHandle
  <2> HIDE DEF u
  <2>3. seen.tradeIDs = handler.tradeIDs /\ traded.tradeIDs = Put(handler.tradeIDs, u, msg.trade)
    BY DEF Observe, Traded, Handler
  <2>4. CoinbaseTicker(handler, u, msg) \in {Failed(handler), Failed(seen)}
        \/ (msg.prices[u] # Bad /\ CoinbaseTicker(handler, u, msg) = Resolved(traded, msg.prices))
    BY DEF CoinbaseTicker
  <2>5. CoinbaseHeartbeat(handler, u, msg) \in {Failed(handler), Unresolved(seen, {u})}
        \/ (Get(handler.tradeIDs, u, 0) = msg.trade /\ CoinbaseHeartbeat(handler, u, msg) = Unchanged(seen, {u}))
    BY DEF CoinbaseHeartbeat
  <2> HIDE DEF seen, traded, res, Goal
  <2>6. Goal(Failed(handler)) /\ Goal(Failed(seen)) /\ Goal(Unresolved(seen, {u}))
    BY <1>2, <2>3
  <2>7. ASSUME msg.type = "update", msg.prices[u] # Bad
        PROVE  Goal(Resolved(traded, msg.prices))
    <3>1. Get(Put(handler.tradeIDs, u, msg.trade), t, 0) =
            IF t = u THEN msg.trade ELSE Get(handler.tradeIDs, t, 0)
      BY DEF Put, Get
    <3>2. PriceOK(msg.prices[u], u, msg.seq, exchange, market)
      BY <2>1, <2>7 DEF MessageOK
    <3>3. msg.prices[u][2] = msg.trade
      BY <2>7, <3>2 DEF PriceOK, Messages
    <3>4. Get(traded.tradeIDs, t, 0) = IF t = u THEN msg.trade ELSE Get(handler.tradeIDs, t, 0)
      BY <2>3, <3>1
    <3> QED
      BY <2>1, <2>7, <3>3, <3>4 DEF Goal, Resolved, Result
  <2>8. ASSUME msg.type # "update", Get(handler.tradeIDs, u, 0) = msg.trade
        PROVE  Goal(Unchanged(seen, {u}))
    <3>1. CASE t = u
      BY <1>2, <1>3, <2>1, <2>3, <2>8, <3>1
    <3>2. CASE t # u
      BY <1>2, <2>3, <3>2
    <3> QED
      BY <3>1, <3>2
  <2>9. Goal(res)
    <3>1. CASE u \notin handler.cache
      BY <2>2, <2>6, <3>1
    <3>2. CASE u \in handler.cache /\ msg.type = "update"
      BY <2>2, <2>4, <2>6, <2>7, <3>2
    <3>3. CASE u \in handler.cache /\ msg.type # "update"
      BY <2>2, <2>5, <2>6, <2>8, <3>3
    <3> QED
      BY <3>1, <3>2, <3>3
  <2>10. HandleMessage(exchange, handler, msg) = res
    BY DEF HandleMessage, res
  <2> QED
    BY <2>9, <2>10 DEF Goal
<1>4. CASE msg.type \notin {"update", "heartbeat"}
  <2>1. res \in {Quiet(handler), Failed(handler)}
    BY <1>4 DEF CoinbaseHandle
  <2> HIDE DEF res, Goal
  <2>2. Goal(res)
    BY <1>2, <2>1
  <2>3. HandleMessage(exchange, handler, msg) = res
    BY DEF HandleMessage, res
  <2> QED
    BY <2>2, <2>3 DEF Goal
<1> QED
  BY <1>3, <1>4

(* Huobi's handler renews prices on a ping only.                           *)
LEMMA HuobiRenews ==
  ASSUME NEW msg \in Messages, MessageOK(msg, exchange, handler, market), exchange = "huobi",
         DOMAIN msg.prices \subseteq handler.cache, \A t \in DOMAIN msg.prices : msg.prices[t] # Bad
  PROVE  LET res == HandleMessage(exchange, handler, msg)
         IN  /\ res.err => msg.prices = <<>>
             /\ ~res.err => res.resolved = msg.prices
             /\ res.unchanged # {} => msg.type = "ping"
<1> DEFINE res == HuobiHandle(handler, msg)
<1>1. HandleMessage(exchange, handler, msg) = res
  BY DEF HandleMessage
<1>2. msg.type # "update" => msg.prices = <<>>
  BY DEF MessageOK
<1>3. CASE msg.type = "ping"
  <2>1. res = Result(handler, FALSE, <<>>, handler.cache, {}, <<Request("pong", {}, 0)>>)
    BY <1>3 DEF HuobiHandle
  <2> HIDE DEF res
  <2> QED
    BY <1>1, <1>2, <1>3, <2>1 DEF Result
<1>4. CASE msg.type \in {"subscribed", "rejected"}
  <2>1. res \in {Subscribe(handler, <<msg.tickers>>), Quiet(handler)}
    BY <1>4 DEF HuobiHandle, HuobiSubscription
  <2> HIDE DEF res
  <2> QED
    BY <1>1, <1>2, <1>4, <2>1 DEF Subscribe, Quiet, Result
<1>5. CASE msg.type = "update"
  <2>1. res = Resolved(handler, msg.prices)
    BY <1>5 DEF HuobiHandle, ParseTicker
  <2> HIDE DEF res
  <2> QED
    BY <1>1, <2>1 DEF Resolved, Result
<1>6. CASE msg.type \notin {"ping", "subscribed", "rejected", "update"}
  <2>1. res = Failed(handler)
    BY <1>6 DEF HuobiHandle
  <2> HIDE DEF res
  <2> QED
    BY <1>1, <1>2, <1>6, <2>1 DEF Failed, Result
<1> QED
  BY <1>3, <1>4, <1>5, <1>6

-----------------------------------------------------------------------------
(* What a step may do to the queue of responses and the stored prices.     *)
QueueSame == UNCHANGED data /\ Queue' = Queue
QueueCut ==
  /\ UNCHANGED <<data, handler>> /\ Queue' = responseCh /\ Queue = Append(responseCh, response) /\ response \in Responses
  /\ ctxDone' /\ pc' = "return" /\ conn' # "open"
QueueGets(r) == UNCHANGED <<data, dial, conn>> /\ pc \in {"report", "reading"} /\ r.dial = dial /\ Queue' = Append(Queue, r)
ReadOf(i, msg, res) ==
  /\ i = 1 \/ Reorders
  /\ i \in DOMAIN fromExchange /\ msg = fromExchange[i] /\ res = HandleMessage(exchange, handler, msg)
  /\ msg \in Messages /\ MessageOK(msg, exchange, handler, market) /\ Outcome(res, msg)
  /\ pc = "reading" /\ conn = "open"
  /\ fromExchange' = RemoveAt(fromExchange, i) /\ handler' = res.h
  /\ UNCHANGED <<exchange, ctxDone, data, market, dial, conn, subs>>
  /\ res.err => QueueSame
  /\ ~res.err => Report(res, msg) \in Responses /\ QueueGets(Report(res, msg))

(* What reading a message does to the queue.                               *)
LEMMA ReadQueue ==
  ASSUME Base, ReadStep
  PROVE  \E i, msg, res : ReadOf(i, msg, res)
<1>1. PICK i \in DOMAIN fromExchange :
         LET msg == fromExchange[i]
             res == HandleMessage(exchange, handler, msg)
         IN  /\ i = 1 \/ Reorders
             /\ msg \in Messages /\ MessageOK(msg, exchange, handler, market) /\ Outcome(res, msg)
             /\ pc = "reading" /\ conn = "open"
             /\ fromExchange' = RemoveAt(fromExchange, i) /\ handler' = res.h
             /\ res.err => pc' = "loop"
             /\ ~res.err => pc' = "send" /\ response' = Report(res, msg) /\ response' \in Responses
             /\ UNCHANGED <<exchange, ctxDone, data, market, responseCh, dial, conn, subs>>
  BY ReadEffect
<1> DEFINE msg == fromExchange[i]
           res == HandleMessage(exchange, handler, msg)
           r == Report(res, msg)
<1> HIDE DEF msg, res
<1>2. /\ i = 1 \/ Reorders
      /\ msg \in Messages /\ MessageOK(msg, exchange, handler, market) /\ Outcome(res, msg)
      /\ pc = "reading" /\ conn = "open"
      /\ fromExchange' = RemoveAt(fromExchange, i) /\ handler' = res.h
      /\ res.err => pc' = "loop"
      /\ ~res.err => pc' = "send" /\ response' = r /\ r \in Responses
      /\ UNCHANGED <<exchange, ctxDone, data, market, responseCh, dial, conn, subs>>
  BY <1>1 DEF msg, res
<1>3. r.dial = dial
  BY DEF Report
<1> HIDE DEF r
<1>4. res.err => QueueSame
  BY <1>2 DEF Queue, QueueSame
<1>5. ~res.err => r \in Responses /\ QueueGets(r)
  BY <1>2, <1>3 DEF Queue, QueueGets
<1>6. ReadOf(i, msg, res)
  BY <1>1, <1>2, <1>4, <1>5 DEF ReadOf, msg, res, r
<1> QED
  BY <1>6

(* Every step has one of these effects on the queue.                       *)
LEMMA QueueEffects ==
  ASSUME Base, [Next]_vars
  PROVE  \/ QueueSame /\ UNCHANGED handler
         \/ DialSucceeds /\ QueueSame
         \/ QueueCut
         \/ Recv
         \/ \E r \in Responses : QueueGets(r) /\ r.unchanged = {} /\ DOMAIN r.resolved = {} /\ UNCHANGED handler
         \/ \E i, msg, res : ReadOf(i, msg, res)
<1>1. Types
  BY DEF Base
<1>2. CASE LocalStep \/ WriteStep \/ SendStep \/ DialSucceeds \/ UnsentStep
  BY <1>2 DEF LocalStep, WriteStep, SendStep, DialSucceeds, Goto, HandlerStep, UnsentStep, ExchangeStep, handlerVars,
     connVars, Queue, QueueSame
<1>3. CASE DropStep
  BY <1>1, <1>3 DEF DropStep, Queue, QueueSame, QueueCut, Types
<1>4. ASSUME NEW msg, ConfirmStep(msg) \/ RejectStep(msg) \/ PriceStep(msg) \/ OtherStep(msg)
      PROVE  QueueSame /\ UNCHANGED handler
  BY <1>4 DEF ConfirmStep, RejectStep, PriceStep, OtherStep, Sent, ExchangeStep, handlerVars, Queue, QueueSame
<1>5. CASE ReportStartError
  <2> DEFINE r == [resolved |-> <<>>, unchanged |-> {}, asOf |-> <<>>, dial |-> dial]
  <2>1. r.unchanged = {} /\ DOMAIN r.resolved = {} /\ r.dial = dial
    OBVIOUS
  <2>2. r \in Responses
    <3>1. <<>> \in PriceMaps /\ dial \in Nat
      BY <1>1, NoPricesFacts DEF NoPrices, Types
    <3>2. <<>> = [u \in {} |-> 0] /\ [u \in {} |-> 0] \in [{} -> Nat]
      OBVIOUS
    <3> QED
      BY <3>1, <3>2 DEF Responses
  <2>3. Queue = responseCh /\ Queue' = Append(Queue, r) /\ UNCHANGED <<data, dial, conn, handler>> /\ pc = "report"
    BY <1>5 DEF ReportStartError, Goto, HandlerStep, connVars, Queue
  <2> HIDE DEF r
  <2> QED
    BY <2>1, <2>2, <2>3 DEF QueueGets
<1> QED
  BY <1>2, <1>3, <1>4, <1>5, Effects, ExchangeEffects, ReadQueue DEF Base

(* No response comes over a connection to come.                            *)
LEMMA DialsStep ==
  ASSUME Base, DialsOK, [Next]_vars
  PROVE  DialsOK'
<1>1. /\ Types /\ Queue \in Seq(Responses) /\ responseCh \in Seq(Responses) /\ data \in [Ticker -> StoredData]
      /\ dial \in Nat
  BY OrderTypes DEF Types
<1>2. dial' \in {dial, dial + 1}
  BY Effects, ExchangeEffects DEF Base, LocalStep, DropStep, DialSucceeds, WriteStep, ReportStartError, ReadStep,
     ReadMessage, SendStep, Recv, UnsentStep, ConfirmStep, RejectStep, PriceStep, OtherStep, Sent, ExchangeStep, HandlerStep, connVars
<1>3. dial' \in Nat /\ dial <= dial' /\ 1 .. dial \subseteq 1 .. dial' /\ 0 .. dial \subseteq 0 .. dial'
  BY <1>1, <1>2
<1>4. conn' = "open" => dial' > 0
  <2>1. conn' = "open" => conn = "open" \/ dial' = dial + 1
    BY Effects, ExchangeEffects DEF Base, LocalStep, DropStep, DialSucceeds, WriteStep, ReportStartError, ReadStep,
     ReadMessage, SendStep, Recv, UnsentStep, ConfirmStep, RejectStep, PriceStep, OtherStep, Sent, ExchangeStep, HandlerStep, connVars
  <2> QED
    BY <1>1, <1>3, <2>1 DEF DialsOK
<1>5. pc' \notin {"idle", "stopped"} => dial' > 0
  <2>1. pc' \notin {"idle", "stopped"} => pc \notin {"idle", "stopped"} \/ dial' = dial + 1
    BY Effects, ExchangeEffects DEF Base, LocalStep, DropStep, DialSucceeds, WriteStep, ReportStartError, ReadStep,
     ReadMessage, SendStep, Recv, UnsentStep, ConfirmStep, RejectStep, PriceStep, OtherStep, Sent, ExchangeStep, HandlerStep, handlerVars
  <2> QED
    BY <1>1, <1>3, <2>1 DEF DialsOK
<1>6. \A k \in DOMAIN Queue : Queue[k].dial \in 1 .. dial'
  BY <1>3 DEF DialsOK
<1>7. \A t \in Ticker : data[t] # NoData => data[t].dial \in 0 .. dial'
  BY <1>3 DEF DialsOK
<1>8. /\ \A k \in DOMAIN Queue' : Queue'[k].dial \in 1 .. dial'
      /\ \A t \in Ticker : data'[t] # NoData => data'[t].dial \in 0 .. dial'
  <2>1. CASE QueueSame
    BY <1>6, <1>7, <2>1 DEF QueueSame
  <2>2. CASE QueueCut
    <3>1. \A i \in DOMAIN responseCh : i \in DOMAIN Queue /\ Queue[i] = responseCh[i]
      <4>1. response \in Responses /\ Queue = Append(responseCh, response)
        BY <2>2 DEF QueueCut
      <4> QED
        BY <1>1, <4>1, AppendFacts
    <3> QED
      BY <1>6, <1>7, <2>2, <3>1 DEF QueueCut
  <2>3. ASSUME NEW r \in Responses, QueueGets(r)
        PROVE  /\ \A k \in DOMAIN Queue' : Queue'[k].dial \in 1 .. dial'
               /\ \A t \in Ticker : data'[t] # NoData => data'[t].dial \in 0 .. dial'
    <3>1. r.dial \in 1 .. dial' /\ Queue' = Append(Queue, r) /\ data' = data
      BY <1>1, <1>3, <2>3 DEF QueueGets, DialsOK
    <3>2. \A i \in DOMAIN Append(Queue, r) : Append(Queue, r)[i] = r \/ \E j \in DOMAIN Queue : Append(Queue, r)[i] = Queue[j]
      BY <1>1, Elements
    <3> QED
      BY <1>6, <1>7, <3>1, <3>2
  <2>4. CASE Recv
    <3>1. Queue # <<>> /\ data' = UpdateData(data, Head(Queue)) /\ Queue' = Tail(Queue)
      BY <2>4, Received
    <3>2. /\ \A i \in DOMAIN Queue' : \E j \in DOMAIN Queue : Queue'[i] = Queue[j]
          /\ \E j \in DOMAIN Queue : Head(Queue) = Queue[j]
      BY <1>1, <3>1, Elements
    <3>3. Head(Queue).dial \in 1 .. dial'
      BY <1>6, <3>2
    <3>4. ASSUME NEW t \in Ticker, data'[t] # NoData
          PROVE  data'[t].dial \in 0 .. dial'
      <4>1. \/ data'[t].dial \in {Head(Queue).dial, 0}
            \/ data'[t] = data[t]
        BY <3>1 DEF UpdateData
      <4> QED
        BY <1>3, <1>7, <3>3, <3>4, <4>1
    <3> QED
      BY <1>6, <3>2, <3>4
  <2> QED
    BY <2>1, <2>2, <2>3, <2>4, QueueEffects DEF ReadOf
<1> QED
  BY <1>4, <1>5, <1>8 DEF DialsOK

-----------------------------------------------------------------------------
(* The renewals on their way, as the queue changes.                        *)
Renews(q, d, x, t) ==
  \A k \in DOMAIN q : t \in q[k].unchanged => LastPriceIs(q, d, x, t, k, q[k].dial, q[k].asOf[t])

(* A response at the end of the queue renews what it should if its own     *)
(* renewals are of the last price.                                         *)
LEMMA RenewsAppended ==
  ASSUME NEW t \in Ticker, NEW q \in Seq(Responses), NEW r \in Responses, NEW d, NEW x
  PROVE  /\ Renews(Append(q, r), d, x, t) => Renews(q, d, x, t)
         /\ Renews(q, d, x, t) /\ (t \in r.unchanged => LastPriceIs(q, d, x, t, Len(q) + 1, r.dial, r.asOf[t]))
              => Renews(Append(q, r), d, x, t)
<1> DEFINE s == Append(q, r)
           l == Len(q)
<1>1. /\ l \in Nat /\ DOMAIN q = 1 .. l /\ DOMAIN s = 1 .. l + 1
      /\ \A i \in 1 .. l : s[i] = q[i]
      /\ s[l + 1] = r
  BY AppendFacts
<1>2. \A k \in 1 .. l + 1 : \A c, n : LastPriceIs(s, d, x, t, k, c, n) <=> LastPriceIs(q, d, x, t, k, c, n)
  BY LastAppended
<1> HIDE DEF s, l
<1>3. 1 .. l \subseteq 1 .. l + 1 /\ \A k \in 1 .. l + 1 : k \in 1 .. l \/ k = l + 1
  BY <1>1
<1>4. Renews(s, d, x, t) => Renews(q, d, x, t)
  BY <1>1, <1>2, <1>3 DEF Renews
<1>5. Renews(q, d, x, t) /\ (t \in r.unchanged => LastPriceIs(q, d, x, t, l + 1, r.dial, r.asOf[t])) => Renews(s, d, x, t)
  BY <1>1, <1>2, <1>3 DEF Renews
<1> QED
  BY <1>4, <1>5 DEF s, l

(* When a response is received, those behind it renew what they should.    *)
LEMMA RenewsReceived ==
  ASSUME NEW t \in Ticker, NEW q \in Seq(Responses), q # <<>>, NEW old \in [Ticker -> StoredData], NEW x,
         \A k \in DOMAIN q : q[k].dial \in Nat \ {0}, Renews(q, old[t], x, t)
  PROVE  Renews(Tail(q), UpdateData(old, Head(q))[t], x, t)
<1> DEFINE s == Tail(q)
           new == UpdateData(old, Head(q))[t]
           l == Len(q)
<1>1. /\ l \in Nat \ {0} /\ DOMAIN q = 1 .. l /\ DOMAIN s = 1 .. l - 1
      /\ \A i \in 1 .. l - 1 : s[i] = q[i + 1]
  BY TailFacts
<1>2. \A k \in 2 .. l + 1 : \A c \in Nat \ {0} : \A n :
        LastPriceIs(q, old[t], x, t, k, c, n) => LastPriceIs(s, new, x, t, k - 1, c, n)
  BY LastReceived
<1> HIDE DEF s, new, l
<1>3. \A k \in 1 .. l - 1 : k + 1 \in 1 .. l /\ k + 1 \in 2 .. l + 1 /\ (k + 1) - 1 = k
  BY <1>1
<1>4. ASSUME NEW k \in 1 .. l - 1, t \in s[k].unchanged
      PROVE  LastPriceIs(s, new, x, t, k, s[k].dial, s[k].asOf[t])
  <2>1. s[k] = q[k + 1] /\ k + 1 \in DOMAIN q /\ s[k].dial \in Nat \ {0}
    BY <1>1, <1>3
  <2>2. LastPriceIs(q, old[t], x, t, k + 1, s[k].dial, s[k].asOf[t])
    BY <1>4, <2>1 DEF Renews
  <2> QED
    BY <1>2, <1>3, <2>1, <2>2
<1> QED
  BY <1>1, <1>4 DEF Renews, s, new

(* What is read renews the price that is the last one sent.                *)
LEMMA RenewsRead ==
  ASSUME Base, DialsOK, TradesOK, CoinbaseHeartbeatsOK, HuobiOK, NEW i, NEW msg, NEW res, ReadOf(i, msg, res), ~res.err,
         exchange \in {"coinbase", "huobi"}, NEW t \in Ticker, t \in res.unchanged
  PROVE  LastPriceIs(Queue, data[t], exchange, t, Len(Queue) + 1, dial, msg.asOf[t])
<1>1. /\ Types /\ i \in DOMAIN fromExchange /\ msg = fromExchange[i] /\ res = HandleMessage(exchange, handler, msg)
      /\ msg \in Messages /\ MessageOK(msg, exchange, handler, market) /\ pc = "reading" /\ conn = "open"
      /\ i = 1 \/ Reorders
  BY DEF Base, ReadOf
<1>2. CASE exchange = "coinbase"
  <2>1. msg.type = "heartbeat" /\ t \in msg.tickers /\ Get(handler.tradeIDs, t, 0) = msg.trade
    BY <1>1, <1>2, CoinbaseRenews
  <2>2. msg.trade = msg.asOf[t]
    BY <1>1, <1>2, <2>1 DEF CoinbaseHeartbeatsOK
  <2>3. LastPriceIs(Queue, data[t], exchange, t, Len(Queue) + 1, dial, Get(handler.tradeIDs, t, 0))
    BY <1>1, <1>2 DEF TradesOK
  <2> QED
    BY <2>1, <2>2, <2>3
<1>3. CASE exchange = "huobi"
  <2>1. i = 1 /\ 1 \in DOMAIN fromExchange /\ msg = fromExchange[1]
    BY <1>1, <1>3 DEF Reorders
  <2>2. DOMAIN msg.prices \subseteq handler.cache /\ \A u \in DOMAIN msg.prices : msg.prices[u] # Bad
    BY <1>1, <1>3 DEF HuobiOK
  <2>3. msg.type = "ping"
    BY <1>1, <1>3, <2>2, HuobiRenews
  <2>4. HuobiLastIs(fromExchange, Queue, data[t], t, 1, dial, msg.asOf[t])
    BY <1>1, <1>3, <2>1, <2>3 DEF HuobiOK
  <2>5. LastOnWire(fromExchange, t, 0, 1)
    BY DEF LastOnWire
  <2> QED
    BY <1>3, <2>4, <2>5 DEF HuobiLastIs
<1> QED
  BY <1>2, <1>3

(* Every step keeps the renewals to the last prices.                       *)
LEMMA RenewsStep ==
  ASSUME Base, RenewsOK, DialsOK, TradesOK, CoinbaseHeartbeatsOK, HuobiOK, [Next]_vars
  PROVE  RenewsOK'
<1> SUFFICES ASSUME exchange \in {"coinbase", "huobi"}, NEW t \in Ticker
             PROVE  Renews(Queue', data'[t], exchange, t)
  <2>1. exchange' = exchange
    BY OrderTypes
  <2> QED
    BY <2>1 DEF RenewsOK, Renews
<1>1. Queue \in Seq(Responses) /\ responseCh \in Seq(Responses) /\ data \in [Ticker -> StoredData] /\ dial \in Nat
  BY OrderTypes DEF Types
<1>2. Renews(Queue, data[t], exchange, t)
  BY DEF RenewsOK, Renews
<1>3. CASE QueueSame
  BY <1>2, <1>3 DEF QueueSame
<1>4. CASE QueueCut
  <2>1. response \in Responses /\ Queue = Append(responseCh, response) /\ Queue' = responseCh /\ data' = data
    BY <1>4 DEF QueueCut
  <2>2. Renews(Append(responseCh, response), data[t], exchange, t) => Renews(responseCh, data[t], exchange, t)
    BY <1>1, <2>1, RenewsAppended
  <2> QED
    BY <1>2, <2>1, <2>2
<1>5. CASE Recv
  <2>1. Queue # <<>> /\ data' = UpdateData(data, Head(Queue)) /\ Queue' = Tail(Queue)
    BY <1>5, Received
  <2>2. \A k \in DOMAIN Queue : Queue[k].dial \in Nat \ {0}
    BY <1>1 DEF DialsOK
  <2> QED
    BY <1>1, <1>2, <2>1, <2>2, RenewsReceived
<1>6. ASSUME NEW r \in Responses, QueueGets(r),
             t \in r.unchanged => LastPriceIs(Queue, data[t], exchange, t, Len(Queue) + 1, dial, r.asOf[t])
      PROVE  Renews(Queue', data'[t], exchange, t)
  <2>1. Queue' = Append(Queue, r) /\ data' = data /\ r.dial = dial
    BY <1>6 DEF QueueGets
  <2>2. Renews(Append(Queue, r), data[t], exchange, t)
    BY <1>1, <1>2, <1>6, <2>1, RenewsAppended
  <2> QED
    BY <2>1, <2>2
<1>7. ASSUME NEW i, NEW msg, NEW res, ReadOf(i, msg, res), ~res.err
      PROVE  Renews(Queue', data'[t], exchange, t)
  <2> DEFINE r == Report(res, msg)
  <2>1. r \in Responses /\ QueueGets(r)
    BY <1>7 DEF ReadOf
  <2>2. r.unchanged = res.unchanged /\ (t \in res.unchanged => r.asOf[t] = msg.asOf[t])
    BY DEF Report
  <2> HIDE DEF r
  <2>3. t \in res.unchanged => LastPriceIs(Queue, data[t], exchange, t, Len(Queue) + 1, dial, msg.asOf[t])
    BY <1>7, RenewsRead
  <2>4. t \in r.unchanged => LastPriceIs(Queue, data[t], exchange, t, Len(Queue) + 1, dial, r.asOf[t])
    BY <2>2, <2>3
  <2> QED
    BY <1>6, <2>1, <2>4
<1> QED
  BY <1>3, <1>4, <1>5, <1>6, <1>7, QueueEffects DEF ReadOf

(* A price renewed by what the provider receives is the one the exchange   *)
(* had when it sent the renewing message.                                  *)
LEMMA RenewedStep ==
  ASSUME Base, RenewsOK, DialsOK, RenewedIsCurrent, [Next]_vars
  PROVE  RenewedIsCurrent'
<1> SUFFICES ASSUME NEW t \in Ticker, data'[t] # NoData, exchange = "coinbase" \/ (exchange = "huobi" /\ data'[t].dial # 0)
             PROVE  data'[t].price[2] = data'[t].asOf
  <2>1. exchange' = exchange
    BY OrderTypes
  <2> QED
    BY <2>1 DEF RenewedIsCurrent
<1>1. CASE data' = data
  BY <1>1 DEF RenewedIsCurrent
<1>2. CASE Recv
  <2>1. Queue # <<>> /\ data' = UpdateData(data, Head(Queue))
    BY <1>2, Received
  <2> DEFINE r == Head(Queue)
  <2>2. Queue \in Seq(Responses)
    BY OrderTypes
  <2>3. 1 \in DOMAIN Queue /\ r = Queue[1]
    BY <2>1, <2>2, Elements
  <2>4. r.dial \in 1 .. dial /\ dial \in Nat
    BY <2>3, OrderTypes DEF DialsOK, Types
  <2>5. t \in r.unchanged => LastPriceIs(Queue, data[t], exchange, t, 1, r.dial, r.asOf[t])
    BY <2>3 DEF RenewsOK
  <2>6. LastInQueue(Queue, t, 0, 1)
    BY DEF LastInQueue
  <2> HIDE DEF r
  <2>7. t \in r.unchanged /\ data[t] # NoData /\ (exchange = "coinbase" \/ data[t].dial = r.dial)
          => data[t].price[2] = r.asOf[t]
    BY <2>5, <2>6 DEF LastPriceIs
  <2>8. data'[t] =
          IF t \in DOMAIN r.resolved
          THEN [price |-> r.resolved[t], asOf |-> r.resolved[t][2], dial |-> r.dial]
          ELSE IF t \in r.unchanged /\ data[t] # NoData
          THEN [price |-> data[t].price, asOf |-> r.asOf[t],
                dial |-> IF data[t].dial = r.dial THEN r.dial ELSE 0]
          ELSE data[t]
    BY <2>1 DEF UpdateData, r
  <2>9. CASE t \in DOMAIN r.resolved
    BY <2>8, <2>9
  <2>10. CASE t \notin DOMAIN r.resolved /\ t \in r.unchanged /\ data[t] # NoData
    BY <2>7, <2>8, <2>10
  <2>11. CASE t \notin DOMAIN r.resolved /\ ~(t \in r.unchanged /\ data[t] # NoData)
    BY <2>8, <2>11 DEF RenewedIsCurrent
  <2> QED
    BY <2>9, <2>10, <2>11
<1> QED
  BY <1>1, <1>2, QueueEffects DEF QueueSame, QueueCut, QueueGets, ReadOf

(* Coinbase: a heartbeat names the last trade.                             *)
LEMMA CoinbaseHeartbeatsStep ==
  ASSUME Base, CoinbaseHeartbeatsOK, [Next]_vars
  PROVE  CoinbaseHeartbeatsOK'
<1> DEFINE Named(msg) == msg.type = "heartbeat" => \A t \in msg.tickers : msg.trade = msg.asOf[t]
<1> SUFFICES ASSUME exchange = "coinbase", NEW k \in DOMAIN fromExchange'
             PROVE  Named(fromExchange'[k])
  <2>1. exchange' = exchange
    BY OrderTypes
  <2> QED
    BY <2>1 DEF CoinbaseHeartbeatsOK
<1>1. fromExchange \in Seq(Messages)
  BY OrderTypes
<1>2. \A j \in DOMAIN fromExchange : Named(fromExchange[j])
  BY DEF CoinbaseHeartbeatsOK
<1>3. \/ fromExchange' = fromExchange \/ fromExchange' = <<>>
      \/ \E i \in DOMAIN fromExchange : fromExchange' = RemoveAt(fromExchange, i)
      \/ \E msg : ConfirmStep(msg) \/ RejectStep(msg) \/ PriceStep(msg) \/ OtherStep(msg)
  BY Effects, ExchangeEffects DEF Base, LocalStep, DropStep, DropWire, DialSucceeds, WriteStep, ReportStartError, ReadStep,
     ReadMessage, SendStep, Recv, UnsentStep, connVars
<1>4. ASSUME NEW msg, ConfirmStep(msg) \/ RejectStep(msg) \/ PriceStep(msg) \/ OtherStep(msg)
      PROVE  Named(fromExchange'[k])
  <2>1. Named(msg)
    BY <1>4 DEF ConfirmStep, RejectStep, PriceStep, OtherStep
  <2>2. msg \in Messages /\ fromExchange' = Append(fromExchange, msg)
    BY <1>4 DEF ConfirmStep, RejectStep, PriceStep, OtherStep, Sent
  <2>3. fromExchange'[k] = msg \/ \E j \in DOMAIN fromExchange : fromExchange'[k] = fromExchange[j]
    BY <1>1, <2>2, Elements
  <2> HIDE DEF Named
  <2> QED
    BY <1>2, <2>1, <2>3
<1> HIDE DEF Named
<1>5. ASSUME NEW i \in DOMAIN fromExchange, fromExchange' = RemoveAt(fromExchange, i)
      PROVE  Named(fromExchange'[k])
  <2>1. \E j \in DOMAIN fromExchange : fromExchange'[k] = fromExchange[j]
    BY <1>1, <1>5, Elements
  <2> QED
    BY <1>2, <2>1
<1>6. fromExchange' # <<>>
  OBVIOUS
<1> QED
  BY <1>2, <1>3, <1>4, <1>5, <1>6

(* Every step keeps Coinbase's trades those of the last prices.            *)
LEMMA TradesStep ==
  ASSUME Base, DialsOK, TradesOK, [Next]_vars
  PROVE  TradesOK'
<1> DEFINE Goal(q, d, h, t) ==
             LastPriceIs(q, d, exchange, t, Len(q) + 1, dial, Get(h.tradeIDs, t, 0))
<1>1. /\ Types /\ Queue \in Seq(Responses) /\ responseCh \in Seq(Responses) /\ data \in [Ticker -> StoredData]
      /\ dial \in Nat /\ exchange' = exchange
  BY OrderTypes DEF Types
<1> SUFFICES ASSUME exchange = "coinbase", ~(ctxDone' /\ pc' \in Over), NEW t \in Ticker
             PROVE  Goal(Queue', data'[t], handler', t)
  BY <1>1 DEF TradesOK, Over, LastPriceIs
<1>2. ~(ctxDone /\ pc \in Over)
  <2>1. CASE DialSucceeds
    BY <2>1 DEF DialSucceeds
  <2>2. CASE ~DialSucceeds
    <3>1. ctxDone /\ pc \in Over => ctxDone' /\ pc' \in Over
      BY <2>2, Effects, ExchangeEffects DEF Base, LocalStep, DropStep, WriteStep, ReportStartError, Goto, HandlerStep,
         ReadStep, ReadMessage, SendStep, Recv, UnsentStep, ConfirmStep, RejectStep, PriceStep, OtherStep, Sent,
         ExchangeStep, handlerVars, Over
    <3> QED
      BY <3>1
  <2> QED
    BY <2>1, <2>2
<1>3. Goal(Queue, data[t], handler, t)
  BY <1>2 DEF TradesOK, Over
<1>4. ASSUME QueueSame, handler'.tradeIDs = handler.tradeIDs
      PROVE  Goal(Queue', data'[t], handler', t)
  BY <1>3, <1>4 DEF QueueSame
<1>5. ASSUME NEW r \in Responses, Queue' = Append(Queue, r), data' = data,
             Prices(r, t) => Get(handler'.tradeIDs, t, 0) = r.resolved[t][2],
             ~Prices(r, t) => Get(handler'.tradeIDs, t, 0) = Get(handler.tradeIDs, t, 0)
      PROVE  Goal(Queue', data'[t], handler', t)
  <2>1. Len(Queue') + 1 = Len(Queue) + 2
    BY <1>1, <1>5, AppendFacts
  <2> DEFINE n == Get(handler'.tradeIDs, t, 0)
  <2>2. /\ Prices(r, t) => r.resolved[t][2] = n
        /\ ~Prices(r, t) => LastPriceIs(Queue, data[t], exchange, t, Len(Queue) + 1, dial, n)
    BY <1>3, <1>5
  <2> HIDE DEF n
  <2>3. LastPriceIs(Append(Queue, r), data[t], exchange, t, Len(Queue) + 2, dial, n)
    BY <1>1, <2>2, LastAppended
  <2> QED
    BY <1>5, <2>1, <2>3 DEF n
<1>6. CASE DialSucceeds /\ QueueSame
  <2> DEFINE c == CreateMessages(exchange, handler, ids)
  <2>1. handler' = c.h
    BY <1>6 DEF DialSucceeds
  <2>2. c.h.tradeIDs = handler.tradeIDs
    BY <1>1, CreateFacts
  <2> HIDE DEF c
  <2>3. handler'.tradeIDs = handler.tradeIDs
    BY <2>1, <2>2
  <2> QED
    BY <1>4, <1>6, <2>3
<1>7. CASE QueueCut
  BY <1>7 DEF QueueCut, Over
<1>8. CASE Recv
  <2>1. Queue # <<>> /\ data' = UpdateData(data, Head(Queue)) /\ Queue' = Tail(Queue) /\ handler' = handler
    BY <1>8, Received
  <2>2. Len(Queue) \in Nat \ {0} /\ Len(Tail(Queue)) = Len(Queue) - 1
    BY <1>1, <2>1, TailFacts
  <2> DEFINE n == Get(handler.tradeIDs, t, 0)
             k == Len(Queue) + 1
  <2>3. LastPriceIs(Queue, data[t], exchange, t, k, dial, n)
    BY <1>3
  <2>4. LastPriceIs(Queue, data[t], exchange, t, k, 1, n)
    BY <2>3 DEF LastPriceIs
  <2>5. k \in 2 .. Len(Queue) + 1 /\ k - 1 = Len(Tail(Queue)) + 1
    BY <2>2
  <2> DEFINE Before(m) == LastPriceIs(Queue, data[t], exchange, t, m, 1, n)
             After(m) == LastPriceIs(Tail(Queue), UpdateData(data, Head(Queue))[t], exchange, t, m - 1, 1, n)
  <2> HIDE DEF n, k
  <2>6. ASSUME NEW m \in 2 .. Len(Queue) + 1, Before(m)
        PROVE  After(m)
    <3>1. Queue # <<>> /\ 1 \in Nat \ {0}
      BY <2>1
    <3> QED
      BY <1>1, <2>6, <3>1, LastReceived
  <2>7. LastPriceIs(Tail(Queue), UpdateData(data, Head(Queue))[t], exchange, t, k - 1, 1, n)
    <3> HIDE DEF Before, After
    <3>1. Before(k) => After(k)
      BY <2>5, <2>6
    <3> QED
      BY <2>4, <3>1 DEF Before, After
  <2>8. LastPriceIs(Tail(Queue), UpdateData(data, Head(Queue))[t], exchange, t, k - 1, dial, n)
    BY <2>7 DEF LastPriceIs
  <2> QED
    BY <2>1, <2>5, <2>8 DEF n
<1>9. ASSUME NEW r \in Responses, QueueGets(r), DOMAIN r.resolved = {}, UNCHANGED handler
      PROVE  Goal(Queue', data'[t], handler', t)
  <2>1. ~Prices(r, t) /\ Queue' = Append(Queue, r) /\ data' = data /\ handler' = handler
    BY <1>9 DEF QueueGets, Prices
  <2> QED
    BY <1>5, <2>1
<1>10. ASSUME NEW i, NEW msg, NEW res, ReadOf(i, msg, res)
       PROVE  Goal(Queue', data'[t], handler', t)
  <2>1. /\ res = HandleMessage(exchange, handler, msg) /\ msg \in Messages /\ MessageOK(msg, exchange, handler, market)
        /\ handler' = res.h
        /\ res.err => QueueSame
        /\ ~res.err => Report(res, msg) \in Responses /\ QueueGets(Report(res, msg))
    BY <1>10 DEF ReadOf
  <2>2. /\ t \in DOMAIN res.resolved => Get(res.h.tradeIDs, t, 0) = res.resolved[t][2]
        /\ res.err \/ t \notin DOMAIN res.resolved => Get(res.h.tradeIDs, t, 0) = Get(handler.tradeIDs, t, 0)
    BY <1>1, <2>1, CoinbaseRenews
  <2>3. CASE res.err
    <3>1. Get(handler'.tradeIDs, t, 0) = Get(handler.tradeIDs, t, 0) /\ QueueSame
      BY <2>1, <2>2, <2>3
    <3> QED
      BY <1>3, <3>1 DEF QueueSame
  <2>4. CASE ~res.err
    <3> DEFINE r == Report(res, msg)
    <3>1. r \in Responses /\ QueueGets(r)
      BY <2>1, <2>4
    <3>2. r.resolved = res.resolved
      BY DEF Report
    <3> HIDE DEF r
    <3>3. /\ Prices(r, t) => Get(handler'.tradeIDs, t, 0) = r.resolved[t][2]
          /\ ~Prices(r, t) => Get(handler'.tradeIDs, t, 0) = Get(handler.tradeIDs, t, 0)
      BY <2>1, <2>2, <3>2 DEF Prices
    <3> QED
      BY <1>5, <3>1, <3>3 DEF QueueGets
  <2> QED
    BY <2>3, <2>4
<1> QED
  BY <1>4, <1>6, <1>7, <1>8, <1>9, <1>10, QueueEffects

-----------------------------------------------------------------------------
(* Huobi: the last price before a place on the wire, as the wire and the   *)
(* queue change.                                                           *)
LEMMA HuobiLastRead ==
  ASSUME NEW t \in Ticker, NEW wire \in Seq(Messages), NEW rest \in Seq(Messages), wire # <<>>,
         Len(rest) = Len(wire) - 1, \A j \in 1 .. Len(rest) : rest[j] = wire[j + 1],
         NEW q \in Seq(Responses), NEW r \in Responses, NEW d, NEW c, NEW n, NEW next,
         \/ next = q /\ t \notin DOMAIN wire[1].prices
         \/ next = Append(q, r) /\ r.resolved = wire[1].prices,
         NEW i \in 2 .. Len(wire) + 1, HuobiLastIs(wire, q, d, t, i, c, n)
  PROVE  HuobiLastIs(rest, next, d, t, i - 1, c, n)
<1> DEFINE l == Len(wire)
           P(j) == t \in DOMAIN wire[j].prices
<1>1. l \in Nat \ {0} /\ Len(rest) = l - 1 /\ \A j \in 1 .. l - 1 : rest[j] = wire[j + 1]
  OBVIOUS
<1>2. i \in 2 .. l + 1
  OBVIOUS
<1> HIDE DEF l
<1>3. i - 1 \in 1 .. l /\ (\A j \in 1 .. i - 2 : j + 1 \in 2 .. i - 1 /\ j \in 1 .. l - 1) /\ (i - 1) - 1 = i - 2
  BY <1>1, <1>2
<1>4. ASSUME NEW j \in 1 .. i - 2, LastOnWire(rest, t, j, i - 1), t \in DOMAIN rest[j].prices
      PROVE  rest[j].prices[t][2] = n
  <2>1. rest[j] = wire[j + 1] /\ j + 1 \in 1 .. i - 1 /\ j + 1 < i
    BY <1>1, <1>2, <1>3
  <2>2. \A m \in j + 1 .. i - 2 : ~P(m + 1)
    <3>1. \A m \in j + 1 .. i - 2 : m \in 1 .. l - 1
      BY <1>1, <1>2
    <3> QED
      BY <1>1, <1>3, <1>4, <3>1 DEF LastOnWire
  <2>3. \A m \in (j + 1) + 1 .. i - 1 : ~P(m)
    <3>1. \A m \in (j + 1) + 1 .. i - 1 : m - 1 \in j + 1 .. i - 2 /\ (m - 1) + 1 = m
      BY <1>2
    <3> QED
      BY <2>2, <3>1
  <2>4. LastOnWire(wire, t, j + 1, i)
    BY <2>1, <2>3 DEF LastOnWire
  <2> QED
    BY <1>4, <2>1, <2>4 DEF HuobiLastIs
<1>5. ASSUME LastOnWire(rest, t, 0, i - 1)
      PROVE  LastPriceIs(next, d, "huobi", t, Len(next) + 1, c, n)
  <2>1. \A m \in 1 .. i - 2 : ~P(m + 1)
    <3>1. \A m \in 0 + 1 .. (i - 1) - 1 : t \notin DOMAIN rest[m].prices
      BY <1>5 DEF LastOnWire
    <3>2. \A m \in 1 .. i - 2 : m \in 0 + 1 .. (i - 1) - 1
      BY <1>2
    <3> QED
      BY <1>1, <1>3, <3>1, <3>2
  <2>2. \A m \in 2 .. i - 1 : ~P(m)
    <3>1. \A m \in 2 .. i - 1 : m - 1 \in 1 .. i - 2 /\ (m - 1) + 1 = m
      BY <1>2
    <3> QED
      BY <2>1, <3>1
  <2>3. CASE P(1)
    <3>1. LastOnWire(wire, t, 1, i)
      <4>1. 1 < i /\ (1 + 1) .. i - 1 = 2 .. i - 1
        BY <1>2
      <4>2. \A m \in (1 + 1) .. i - 1 : t \notin DOMAIN wire[m].prices
        BY <2>2, <4>1
      <4> QED
        BY <4>1, <4>2 DEF LastOnWire
    <3>2. wire[1].prices[t][2] = n
      <4>1. 1 \in 1 .. i - 1
        BY <1>2
      <4> QED
        BY <2>3, <3>1, <4>1 DEF HuobiLastIs
    <3>3. next = Append(q, r) /\ Prices(r, t) /\ r.resolved[t][2] = n
      BY <2>3, <3>2 DEF Prices
    <3>4. LastPriceIs(Append(q, r), d, "huobi", t, Len(q) + 2, c, n)
      BY <3>3, LastAppended
    <3>5. Len(Append(q, r)) + 1 = Len(q) + 2
      BY AppendFacts
    <3> QED
      BY <3>3, <3>4, <3>5
  <2>4. CASE ~P(1)
    <3>1. \A m \in 1 .. i - 1 : ~P(m)
      <4>1. \A m \in 1 .. i - 1 : m = 1 \/ m \in 2 .. i - 1
        BY <1>2
      <4> QED
        BY <2>2, <2>4, <4>1
    <3>2. LastOnWire(wire, t, 0, i)
      BY <1>2, <3>1 DEF LastOnWire
    <3>3. LastPriceIs(q, d, "huobi", t, Len(q) + 1, c, n)
      BY <3>2 DEF HuobiLastIs
    <3>4. CASE next = q
      BY <3>3, <3>4
    <3>5. CASE next = Append(q, r) /\ ~Prices(r, t)
      <4>1. LastPriceIs(Append(q, r), d, "huobi", t, Len(q) + 2, c, n)
        BY <3>3, <3>5, LastAppended
      <4>2. Len(Append(q, r)) + 1 = Len(q) + 2
        BY AppendFacts
      <4> QED
        BY <3>5, <4>1, <4>2
    <3> QED
      BY <2>4, <3>4, <3>5 DEF Prices
  <2> QED
    BY <2>3, <2>4
<1> QED
  BY <1>3, <1>4, <1>5 DEF HuobiLastIs

(* Huobi: the last price after a message is sent.                          *)
LEMMA HuobiLastSent ==
  ASSUME NEW t \in Ticker, NEW wire \in Seq(Messages), NEW msg \in Messages, NEW q, NEW d, NEW c, NEW n
  PROVE  /\ \A i \in 1 .. Len(wire) + 1 :
              HuobiLastIs(Append(wire, msg), q, d, t, i, c, n) <=> HuobiLastIs(wire, q, d, t, i, c, n)
         /\ \/ t \in DOMAIN msg.prices /\ msg.prices[t][2] = n
            \/ t \notin DOMAIN msg.prices /\ HuobiLastIs(wire, q, d, t, Len(wire) + 1, c, n)
            => HuobiLastIs(Append(wire, msg), q, d, t, Len(wire) + 2, c, n)
<1> DEFINE s == Append(wire, msg)
           l == Len(wire)
<1>1. l \in Nat /\ (\A j \in 1 .. l : s[j] = wire[j]) /\ s[l + 1] = msg
  BY AppendFacts
<1> HIDE DEF s, l
<1>2. ASSUME NEW i \in 1 .. l + 1
      PROVE  HuobiLastIs(s, q, d, t, i, c, n) <=> HuobiLastIs(wire, q, d, t, i, c, n)
  <2>1. \A j \in 1 .. i - 1 : s[j] = wire[j]
    BY <1>1
  <2>2. \A j \in 0 .. i - 1 : \A m \in j + 1 .. i - 1 : m \in 1 .. i - 1
    OBVIOUS
  <2>3. \A j \in 0 .. i - 1 : LastOnWire(s, t, j, i) <=> LastOnWire(wire, t, j, i)
    BY <2>1, <2>2 DEF LastOnWire
  <2>4. 0 \in 0 .. i - 1 /\ \A j \in 1 .. i - 1 : j \in 0 .. i - 1
    BY <1>1
  <2> QED
    BY <2>1, <2>3, <2>4 DEF HuobiLastIs
<1>3. ASSUME t \in DOMAIN msg.prices, msg.prices[t][2] = n
      PROVE  HuobiLastIs(s, q, d, t, l + 2, c, n)
  <2>1. ASSUME NEW j \in 0 .. l, LastOnWire(s, t, j, l + 2)
        PROVE  FALSE
    <3>1. l + 1 \in j + 1 .. (l + 2) - 1
      BY <1>1
    <3> QED
      BY <1>1, <1>3, <2>1, <3>1 DEF LastOnWire
  <2>2. \A j \in 1 .. (l + 2) - 1 : j \in 0 .. l \/ j = l + 1
    BY <1>1
  <2>3. 0 \in 0 .. l
    BY <1>1
  <2> QED
    BY <1>1, <1>3, <2>1, <2>2, <2>3 DEF HuobiLastIs
<1>4. ASSUME t \notin DOMAIN msg.prices, HuobiLastIs(wire, q, d, t, l + 1, c, n)
      PROVE  HuobiLastIs(s, q, d, t, l + 2, c, n)
  <2>1. ASSUME NEW j \in 0 .. l, LastOnWire(s, t, j, l + 2)
        PROVE  LastOnWire(wire, t, j, l + 1)
    <3>1. \A m \in j + 1 .. (l + 1) - 1 : m \in j + 1 .. (l + 2) - 1 /\ m \in 1 .. l
      BY <1>1
    <3>2. j < l + 1
      BY <1>1
    <3> QED
      BY <1>1, <2>1, <3>1, <3>2 DEF LastOnWire
  <2>2. \A j \in 1 .. (l + 2) - 1 : (j \in 0 .. l /\ j \in 1 .. l /\ j \in 1 .. (l + 1) - 1) \/ j = l + 1
    BY <1>1
  <2>3. 0 \in 0 .. l
    BY <1>1
  <2> QED
    BY <1>1, <1>4, <2>1, <2>2, <2>3 DEF HuobiLastIs
<1> QED
  BY <1>1, <1>2, <1>3, <1>4 DEF s, l

(* Where no price came over the connection, the last one is any.           *)
LEMMA HuobiLastNone ==
  ASSUME NEW wire, NEW q, NEW d, NEW t, NEW c, NEW i, NEW n, Len(q) \in Nat,
         \A j \in 1 .. i - 1 : t \notin DOMAIN wire[j].prices,
         \A j \in 1 .. Len(q) : Prices(q[j], t) => q[j].dial # c,
         d # NoData => d.dial # c
  PROVE  HuobiLastIs(wire, q, d, t, i, c, n)
<1>1. \A j \in 1 .. (Len(q) + 1) - 1 : j \in 1 .. Len(q)
  OBVIOUS
<1>2. LastPriceIs(q, d, "huobi", t, Len(q) + 1, c, n)
  BY <1>1 DEF LastPriceIs
<1> QED
  BY <1>2 DEF HuobiLastIs

(* The last price stays when a response without it joins the queue.        *)
LEMMA HuobiLastAppended ==
  ASSUME NEW t \in Ticker, NEW wire, NEW q \in Seq(Responses), NEW r \in Responses, ~Prices(r, t), NEW d, NEW c, NEW n,
         NEW i, HuobiLastIs(wire, q, d, t, i, c, n)
  PROVE  HuobiLastIs(wire, Append(q, r), d, t, i, c, n)
<1>1. LastPriceIs(q, d, "huobi", t, Len(q) + 1, c, n) => LastPriceIs(Append(q, r), d, "huobi", t, Len(q) + 2, c, n)
  BY LastAppended
<1>2. Len(Append(q, r)) + 1 = Len(q) + 2
  BY AppendFacts
<1> QED
  BY <1>1, <1>2 DEF HuobiLastIs

(* The last price stays when a response is received.                       *)
LEMMA HuobiLastReceived ==
  ASSUME NEW t \in Ticker, NEW wire, NEW q \in Seq(Responses), q # <<>>, NEW old \in [Ticker -> StoredData],
         NEW c \in Nat \ {0}, NEW n, NEW i, HuobiLastIs(wire, q, old[t], t, i, c, n)
  PROVE  HuobiLastIs(wire, Tail(q), UpdateData(old, Head(q))[t], t, i, c, n)
<1> DEFINE new == UpdateData(old, Head(q))[t]
           k == Len(q) + 1
<1>1. k \in 2 .. Len(q) + 1 /\ k - 1 = Len(Tail(q)) + 1
  BY TailFacts
<1> HIDE DEF k
<1>2. ASSUME LastPriceIs(q, old[t], "huobi", t, k, c, n)
      PROVE  LastPriceIs(Tail(q), new, "huobi", t, k - 1, c, n)
  BY <1>1, <1>2, LastReceived
<1> HIDE DEF new
<1>3. LastPriceIs(q, old[t], "huobi", t, Len(q) + 1, c, n) => LastPriceIs(Tail(q), new, "huobi", t, Len(Tail(q)) + 1, c, n)
  BY <1>1, <1>2 DEF k
<1> QED
  BY <1>3 DEF HuobiLastIs, new

(* What is true of one ticker of a connection to Huobi, and of the wire.   *)
HuobiTicker(wire, queue, d, t, c, m, unsubscribed) ==
  /\ \A i \in DOMAIN wire : wire[i].type = "ping" => HuobiLastIs(wire, queue, d, t, i, c, wire[i].asOf[t])
  /\ HuobiLastIs(wire, queue, d, t, Len(wire) + 1, c, m)
  /\ unsubscribed =>
       /\ \A i \in DOMAIN wire : t \notin DOMAIN wire[i].prices
       /\ \A j \in DOMAIN queue : Prices(queue[j], t) => queue[j].dial # c
       /\ d # NoData => d.dial # c
HuobiMessage(msg, cache) ==
  DOMAIN msg.prices \subseteq cache /\ \A t \in DOMAIN msg.prices : msg.prices[t] # Bad

(* Huobi: what is said of a ticker stays so when a message is sent.        *)
LEMMA HuobiTickerSent ==
  ASSUME NEW t \in Ticker, NEW wire \in Seq(Messages), NEW msg \in Messages, NEW q, NEW d, NEW c, NEW m, NEW n,
         NEW off, NEW still, HuobiTicker(wire, q, d, t, c, m, off), still => off,
         \/ t \in DOMAIN msg.prices /\ msg.prices[t][2] = n /\ ~still
         \/ t \notin DOMAIN msg.prices /\ n = m,
         msg.type = "ping" => msg.asOf[t] = m
  PROVE  HuobiTicker(Append(wire, msg), q, d, t, c, n, still)
<1> DEFINE s == Append(wire, msg)
           l == Len(wire)
<1>1. /\ l \in Nat /\ DOMAIN wire = 1 .. l /\ DOMAIN s = 1 .. l + 1 /\ Len(s) = l + 1
      /\ \A j \in 1 .. l : s[j] = wire[j]
      /\ s[l + 1] = msg
  BY AppendFacts
<1>2. \A i \in 1 .. l + 1 : \A k : HuobiLastIs(s, q, d, t, i, c, k) <=> HuobiLastIs(wire, q, d, t, i, c, k)
  BY HuobiLastSent
<1>3. HuobiLastIs(s, q, d, t, l + 2, c, n)
  BY HuobiLastSent DEF HuobiTicker
<1> HIDE DEF s, l
<1>4. \A i \in DOMAIN s : (i \in DOMAIN wire /\ i \in 1 .. l + 1 /\ s[i] = wire[i]) \/ (i = l + 1 /\ s[i] = msg)
  BY <1>1
<1>5. l + 1 \in 1 .. l + 1 /\ Len(s) + 1 = l + 2
  BY <1>1
<1>6. HuobiLastIs(wire, q, d, t, l + 1, c, m)
  BY DEF HuobiTicker, l
<1>7. ASSUME NEW i \in DOMAIN s, s[i].type = "ping"
      PROVE  HuobiLastIs(s, q, d, t, i, c, s[i].asOf[t])
  <2>1. CASE i \in DOMAIN wire /\ i \in 1 .. l + 1 /\ s[i] = wire[i]
    BY <1>2, <1>7, <2>1 DEF HuobiTicker
  <2>2. CASE i = l + 1 /\ s[i] = msg
    BY <1>2, <1>5, <1>6, <1>7, <2>2
  <2> QED
    BY <1>4, <2>1, <2>2
<1>8. still => \A i \in DOMAIN s : t \notin DOMAIN s[i].prices
  BY <1>4 DEF HuobiTicker
<1>9. HuobiTicker(s, q, d, t, c, n, still)
  BY <1>3, <1>5, <1>7, <1>8 DEF HuobiTicker
<1> QED
  BY <1>9 DEF s

(* It stays so when a message is read.                                     *)
LEMMA HuobiTickerRead ==
  ASSUME NEW t \in Ticker, NEW wire \in Seq(Messages), wire # <<>>,
         NEW q \in Seq(Responses), NEW r \in Responses, NEW d, NEW c, NEW m, NEW off, NEW next,
         \/ next = q /\ t \notin DOMAIN wire[1].prices
         \/ next = Append(q, r) /\ r.resolved = wire[1].prices,
         HuobiTicker(wire, q, d, t, c, m, off)
  PROVE  HuobiTicker(RemoveAt(wire, 1), next, d, t, c, m, off)
<1> DEFINE rest == RemoveAt(wire, 1)
           l == Len(wire)
<1>1. /\ rest \in Seq(Messages) /\ l \in Nat \ {0} /\ Len(rest) = l - 1
      /\ DOMAIN wire = 1 .. l /\ DOMAIN rest = 1 .. l - 1
      /\ \A j \in 1 .. l - 1 : rest[j] = wire[j + 1]
  <2>1. 1 \in DOMAIN wire
    BY Elements
  <2>2. /\ rest \in Seq(Messages) /\ l \in Nat \ {0} /\ Len(rest) = l - 1
        /\ DOMAIN wire = 1 .. l /\ DOMAIN rest = 1 .. l - 1
        /\ \A j \in 1 .. l - 1 : rest[j] = wire[IF j < 1 THEN j ELSE j + 1]
    BY <2>1, RemoveAtFacts
  <2> HIDE DEF rest, l
  <2> QED
    BY <2>2
<1> HIDE DEF rest, l
<1>2. ASSUME NEW i \in 2 .. l + 1, NEW n, HuobiLastIs(wire, q, d, t, i, c, n)
      PROVE  HuobiLastIs(rest, next, d, t, i - 1, c, n)
  <2>1. i \in 2 .. Len(wire) + 1 /\ Len(rest) = Len(wire) - 1 /\ \A j \in 1 .. Len(rest) : rest[j] = wire[j + 1]
    BY <1>1, <1>2 DEF l
  <2> QED
    BY <1>1, <1>2, <2>1, HuobiLastRead
<1>3. ASSUME NEW i \in DOMAIN rest, rest[i].type = "ping"
      PROVE  HuobiLastIs(rest, next, d, t, i, c, rest[i].asOf[t])
  <2> DEFINE k == i + 1
  <2>1. k \in DOMAIN wire /\ k \in 2 .. l + 1 /\ k - 1 = i /\ rest[i] = wire[k]
    BY <1>1
  <2> HIDE DEF k
  <2>2. HuobiLastIs(wire, q, d, t, k, c, rest[i].asOf[t])
    BY <1>3, <2>1 DEF HuobiTicker
  <2>3. HuobiLastIs(rest, next, d, t, k - 1, c, rest[i].asOf[t])
    BY <1>2, <2>1, <2>2
  <2> QED
    BY <2>1, <2>3
<1>4. HuobiLastIs(rest, next, d, t, Len(rest) + 1, c, m)
  <2>1. HuobiLastIs(wire, q, d, t, l + 1, c, m)
    BY DEF HuobiTicker, l
  <2>2. l + 1 \in 2 .. l + 1 /\ (l + 1) - 1 = Len(rest) + 1
    BY <1>1
  <2>3. HuobiLastIs(rest, next, d, t, (l + 1) - 1, c, m)
    BY <1>2, <2>1, <2>2
  <2> QED
    BY <2>2, <2>3
<1>5. ASSUME off
      PROVE  /\ \A i \in DOMAIN rest : t \notin DOMAIN rest[i].prices
             /\ \A j \in DOMAIN next : Prices(next[j], t) => next[j].dial # c
  <2>1. /\ \A i \in DOMAIN wire : t \notin DOMAIN wire[i].prices
        /\ \A j \in DOMAIN q : Prices(q[j], t) => q[j].dial # c
    BY <1>5 DEF HuobiTicker
  <2>2. (\A i \in DOMAIN rest : i + 1 \in DOMAIN wire /\ rest[i] = wire[i + 1]) /\ 1 \in DOMAIN wire
    BY <1>1
  <2>3. next = q \/ (next = Append(q, r) /\ ~Prices(r, t))
    BY <2>1, <2>2 DEF Prices
  <2>4. \A j \in DOMAIN next : (next = Append(q, r) /\ next[j] = r) \/ \E k \in DOMAIN q : next[j] = q[k]
    BY <2>3, Elements
  <2>5. next = q => \A j \in DOMAIN next : Prices(next[j], t) => next[j].dial # c
    BY <2>1
  <2>6. next = Append(q, r) /\ ~Prices(r, t) => \A j \in DOMAIN next : Prices(next[j], t) => next[j].dial # c
    BY <2>1, <2>4
  <2> QED
    BY <2>1, <2>2, <2>3, <2>5, <2>6
<1>6. HuobiTicker(rest, next, d, t, c, m, off)
  BY <1>3, <1>4, <1>5 DEF HuobiTicker
<1> QED
  BY <1>6 DEF rest

(* It stays so when a response without its price joins the queue.          *)
LEMMA HuobiTickerAppended ==
  ASSUME NEW t \in Ticker, NEW wire, NEW q \in Seq(Responses), NEW r \in Responses, ~Prices(r, t), NEW d, NEW c, NEW m,
         NEW off, HuobiTicker(wire, q, d, t, c, m, off)
  PROVE  HuobiTicker(wire, Append(q, r), d, t, c, m, off)
<1>1. \A i, n : HuobiLastIs(wire, q, d, t, i, c, n) => HuobiLastIs(wire, Append(q, r), d, t, i, c, n)
  BY HuobiLastAppended
<1>2. \A i \in DOMAIN Append(q, r) : Append(q, r)[i] = r \/ \E j \in DOMAIN q : Append(q, r)[i] = q[j]
  BY Elements
<1> QED
  BY <1>1, <1>2 DEF HuobiTicker

(* It stays so when a response is received.                                *)
LEMMA HuobiTickerReceived ==
  ASSUME NEW t \in Ticker, NEW wire, NEW q \in Seq(Responses), q # <<>>, NEW old \in [Ticker -> StoredData],
         NEW c \in Nat \ {0}, NEW m, NEW off, HuobiTicker(wire, q, old[t], t, c, m, off)
  PROVE  HuobiTicker(wire, Tail(q), UpdateData(old, Head(q))[t], t, c, m, off)
<1> DEFINE new == UpdateData(old, Head(q))[t]
           s == Tail(q)
           r == Head(q)
<1>1. \A i, n : HuobiLastIs(wire, q, old[t], t, i, c, n) => HuobiLastIs(wire, s, new, t, i, c, n)
  BY HuobiLastReceived
<1>2. /\ \A i \in DOMAIN s : \E j \in DOMAIN q : s[i] = q[j]
      /\ \E j \in DOMAIN q : r = q[j]
  BY Elements
<1>3. \/ Prices(r, t) /\ new.dial = r.dial
      \/ ~Prices(r, t) /\ (new = old[t] \/ (old[t] # NoData /\ new.dial \in {0, old[t].dial}))
  BY DEF UpdateData, Prices
<1> HIDE DEF new, s, r
<1>4. ASSUME off
      PROVE  /\ \A i \in DOMAIN wire : t \notin DOMAIN wire[i].prices
             /\ \A j \in DOMAIN s : Prices(s[j], t) => s[j].dial # c
             /\ new # NoData => new.dial # c
  <2>1. /\ \A i \in DOMAIN wire : t \notin DOMAIN wire[i].prices
        /\ \A j \in DOMAIN q : Prices(q[j], t) => q[j].dial # c
        /\ old[t] # NoData => old[t].dial # c
    BY <1>4 DEF HuobiTicker
  <2>2. Prices(r, t) => r.dial # c
    BY <1>2, <2>1
  <2>3. new # NoData => new.dial # c
    BY <1>3, <2>1, <2>2
  <2> QED
    BY <1>2, <2>1, <2>3
<1>5. HuobiTicker(wire, s, new, t, c, m, off)
  BY <1>1, <1>4 DEF HuobiTicker
<1> QED
  BY <1>5 DEF s, new

(* It is so of a ticker of which this connection has sent nothing.         *)
LEMMA HuobiTickerNone ==
  ASSUME NEW t \in Ticker, NEW wire \in Seq(Messages), NEW q \in Seq(Responses), NEW d, NEW c, NEW n, NEW off,
         \A i \in DOMAIN wire : t \notin DOMAIN wire[i].prices,
         \A j \in DOMAIN q : Prices(q[j], t) => q[j].dial # c,
         d # NoData => d.dial # c
  PROVE  HuobiTicker(wire, q, d, t, c, n, off)
<1>1. /\ Len(q) \in Nat /\ DOMAIN q = 1 .. Len(q) /\ Len(wire) \in Nat /\ DOMAIN wire = 1 .. Len(wire)
  OBVIOUS
<1>2. ASSUME NEW i \in 1 .. Len(wire) + 1, NEW k
      PROVE  HuobiLastIs(wire, q, d, t, i, c, k)
  <2>1. \A j \in 1 .. i - 1 : j \in DOMAIN wire
    BY <1>1
  <2> QED
    BY <1>1, <2>1, HuobiLastNone
<1>3. Len(wire) + 1 \in 1 .. Len(wire) + 1 /\ \A i \in DOMAIN wire : i \in 1 .. Len(wire) + 1
  BY <1>1
<1> QED
  BY <1>2, <1>3 DEF HuobiTicker

(* The steps that may leave a connection to Huobi open.                    *)
HuobiSame == UNCHANGED <<fromExchange, subs, dial, market, handler>>
(* The steps, by what they do to an open connection of Huobi.              *)
LEMMA HuobiEffects ==
  ASSUME Base, [Next]_vars, conn' = "open"
  PROVE  \/ conn = "open" /\ HuobiSame /\ QueueSame
         \/ DialSucceeds /\ QueueSame /\ fromExchange' = <<>> /\ subs' = <<>> /\ dial' = dial + 1
         \/ /\ conn = "open" /\ HuobiSame
            /\ \E r \in Responses : QueueGets(r) /\ DOMAIN r.resolved = {}
         \/ conn = "open" /\ Recv /\ HuobiSame
         \/ \E i, msg, res : ReadOf(i, msg, res)
         \/ /\ UnsentStep \/ \E msg : ConfirmStep(msg) \/ RejectStep(msg) \/ PriceStep(msg) \/ OtherStep(msg)
            /\ conn = "open" /\ QueueSame /\ UNCHANGED <<dial, handler>>
<1>1. CASE LocalStep \/ WriteStep \/ SendStep
  BY <1>1 DEF LocalStep, WriteStep, SendStep, connVars, Queue, QueueSame, HuobiSame
<1>2. CASE DropStep
  BY <1>2 DEF DropStep
<1>3. CASE DialSucceeds
  BY <1>3 DEF DialSucceeds, DropWire, Goto, HandlerStep, Queue, QueueSame
<1>4. CASE ReportStartError
  <2>1. conn = "open" /\ HuobiSame /\ pc = "report"
    BY <1>4 DEF ReportStartError, HandlerStep, connVars, HuobiSame
  <2>2. \/ QueueSame /\ UNCHANGED handler
        \/ \E r \in Responses : QueueGets(r) /\ r.unchanged = {} /\ DOMAIN r.resolved = {} /\ UNCHANGED handler
    BY <1>4, <2>1, QueueEffects DEF DialSucceeds, QueueCut, Recv, ReportStartError, Goto, ReadOf, handlerVars
  <2> QED
    BY <2>1, <2>2
<1>5. CASE Recv
  BY <1>5, Received DEF HuobiSame
<1>6. CASE ReadStep
  BY <1>6, ReadQueue
<1>7. ASSUME UnsentStep \/ \E msg : ConfirmStep(msg) \/ RejectStep(msg) \/ PriceStep(msg) \/ OtherStep(msg)
      PROVE  conn = "open" /\ QueueSame /\ UNCHANGED <<dial, handler>>
  BY <1>7 DEF UnsentStep, ConfirmStep, RejectStep, PriceStep, OtherStep, Sent, ExchangeStep, handlerVars, Queue, QueueSame
<1> QED
  BY <1>1, <1>2, <1>3, <1>4, <1>5, <1>6, <1>7, Effects, ExchangeEffects DEF Base

(* Every step keeps it so.                                                 *)
LEMMA HuobiStep ==
  ASSUME Base, DialsOK, HuobiOK, [Next]_vars
  PROVE  HuobiOK'
<1> DEFINE Ticks(wire, q, d, m, c, on) ==
             \A t \in Ticker : HuobiTicker(wire, q, d[t], t, c, m[t], t \notin on)
           Wire(wire, cache) == \A i \in DOMAIN wire : HuobiMessage(wire[i], cache)
<1>1. /\ Types /\ Queue \in Seq(Responses) /\ data \in [Ticker -> StoredData] /\ dial \in Nat
      /\ fromExchange \in Seq(Messages) /\ exchange' = exchange
  BY OrderTypes DEF Types
<1> SUFFICES ASSUME exchange = "huobi", conn' = "open"
             PROVE  /\ Wire(fromExchange', handler'.cache) /\ DOMAIN subs' \subseteq handler'.cache
                    /\ Ticks(fromExchange', Queue', data', market', dial', DOMAIN subs')
  BY <1>1 DEF HuobiOK, HuobiTicker, HuobiMessage
<1>2. conn = "open" => /\ Wire(fromExchange, handler.cache) /\ DOMAIN subs \subseteq handler.cache
                       /\ Ticks(fromExchange, Queue, data, market, dial, DOMAIN subs)
  BY DEF HuobiOK, HuobiTicker, HuobiMessage
<1> DEFINE Goal == /\ Wire(fromExchange', handler'.cache) /\ DOMAIN subs' \subseteq handler'.cache
                   /\ Ticks(fromExchange', Queue', data', market', dial', DOMAIN subs')
<1>3. CASE conn = "open" /\ HuobiSame /\ QueueSame
  BY <1>2, <1>3 DEF HuobiSame, QueueSame
<1>4. CASE QueueSame /\ fromExchange' = <<>> /\ subs' = <<>> /\ dial' = dial + 1
  <2>1. DOMAIN <<>> = {} /\ <<>> \in Seq(Messages)
    OBVIOUS
  <2>2. ASSUME NEW t \in Ticker
        PROVE  HuobiTicker(<<>>, Queue, data[t], t, dial + 1, market'[t], TRUE)
    <3>1. \A j \in DOMAIN Queue : Prices(Queue[j], t) => Queue[j].dial # dial + 1
      BY <1>1 DEF DialsOK
    <3>2. data[t] # NoData => data[t].dial # dial + 1
      BY <1>1 DEF DialsOK
    <3> QED
      BY <1>1, <2>1, <3>1, <3>2, HuobiTickerNone
  <2> QED
    BY <1>4, <2>1, <2>2 DEF QueueSame
<1>5. ASSUME NEW r \in Responses, QueueGets(r), DOMAIN r.resolved = {}, conn = "open", HuobiSame
      PROVE  Goal
  <2>1. Queue' = Append(Queue, r) /\ data' = data /\ \A t \in Ticker : ~Prices(r, t)
    BY <1>5 DEF QueueGets, Prices
  <2>2. ASSUME NEW t \in Ticker
        PROVE  HuobiTicker(fromExchange, Append(Queue, r), data[t], t, dial, market[t], t \notin DOMAIN subs)
    BY <1>1, <1>2, <1>5, <2>1, HuobiTickerAppended
  <2> QED
    BY <1>2, <1>5, <2>1, <2>2 DEF HuobiSame
<1>6. CASE conn = "open" /\ Recv /\ HuobiSame
  <2>1. Queue # <<>> /\ data' = UpdateData(data, Head(Queue)) /\ Queue' = Tail(Queue)
    BY <1>6, Received
  <2>2. dial \in Nat \ {0}
    BY <1>1, <1>6 DEF DialsOK
  <2>3. ASSUME NEW t \in Ticker
        PROVE  HuobiTicker(fromExchange, Tail(Queue), UpdateData(data, Head(Queue))[t], t, dial, market[t], t \notin DOMAIN subs)
    BY <1>1, <1>2, <1>6, <2>1, <2>2, HuobiTickerReceived
  <2> QED
    BY <1>2, <1>6, <2>1, <2>3 DEF HuobiSame
<1>7. ASSUME NEW i, NEW msg, NEW res, ReadOf(i, msg, res)
      PROVE  Goal
  <2>1. /\ i = 1 /\ 1 \in DOMAIN fromExchange /\ msg = fromExchange[1] /\ res = HandleMessage(exchange, handler, msg)
        /\ msg \in Messages /\ MessageOK(msg, exchange, handler, market) /\ Outcome(res, msg) /\ conn = "open"
        /\ fromExchange' = RemoveAt(fromExchange, 1) /\ handler' = res.h
        /\ UNCHANGED <<data, market, dial, subs>>
        /\ res.err => QueueSame
        /\ ~res.err => Report(res, msg) \in Responses /\ QueueGets(Report(res, msg))
    BY <1>7 DEF ReadOf, Reorders
  <2>2. HuobiMessage(msg, handler.cache)
    BY <1>2, <2>1
  <2>3. (res.err => msg.prices = <<>>) /\ (~res.err => res.resolved = msg.prices)
    BY <2>1, <2>2, HuobiRenews DEF HuobiMessage
  <2>4. handler'.cache = handler.cache
    BY <2>1 DEF Outcome
  <2>5. Wire(fromExchange', handler'.cache)
    <3>1. \A k \in DOMAIN fromExchange' : \E j \in DOMAIN fromExchange : fromExchange'[k] = fromExchange[j]
      BY <1>1, <2>1, Elements
    <3> QED
      BY <1>2, <2>1, <2>4, <3>1
  <2>6. fromExchange # <<>>
    BY <2>1
  <2>7. ASSUME NEW q \in Responses, ~res.err => q = Report(res, msg), NEW t \in Ticker
        PROVE  HuobiTicker(RemoveAt(fromExchange, 1), Queue', data[t], t, dial, market[t], t \notin DOMAIN subs)
    <3>1. HuobiTicker(fromExchange, Queue, data[t], t, dial, market[t], t \notin DOMAIN subs)
      BY <1>2, <2>1
    <3>2. \/ Queue' = Queue /\ t \notin DOMAIN fromExchange[1].prices
          \/ Queue' = Append(Queue, q) /\ q.resolved = fromExchange[1].prices
      <4>1. CASE res.err
        BY <2>1, <2>3, <4>1 DEF QueueSame
      <4>2. CASE ~res.err
        <5>1. Report(res, msg).resolved = res.resolved
          BY DEF Report
        <5> QED
          BY <2>1, <2>3, <2>7, <4>2, <5>1 DEF QueueGets
      <4> QED
        BY <4>1, <4>2
    <3> QED
      BY <1>1, <2>6, <3>1, <3>2, HuobiTickerRead
  <2>8. \E q \in Responses : ~res.err => q = Report(res, msg)
    <3> DEFINE q == [resolved |-> <<>>, unchanged |-> {}, asOf |-> <<>>, dial |-> 0]
    <3>1. <<>> \in PriceMaps
      BY NoPricesFacts DEF NoPrices
    <3>2. <<>> = [u \in {} |-> 0] /\ [u \in {} |-> 0] \in [{} -> Nat]
      OBVIOUS
    <3>3. q \in Responses
      BY <3>1, <3>2 DEF Responses
    <3> HIDE DEF q
    <3> QED
      BY <2>1, <3>3
  <2> QED
    BY <1>2, <2>1, <2>4, <2>5, <2>7, <2>8
<1>8. CASE UnsentStep /\ conn = "open" /\ QueueSame /\ UNCHANGED <<dial, handler>>
  <2>1. UNCHANGED <<fromExchange, subs>> /\ \A t \in Ticker : t \in DOMAIN subs => market'[t] = market[t]
    BY <1>8 DEF UnsentStep
  <2>2. ASSUME NEW t \in Ticker
        PROVE  HuobiTicker(fromExchange, Queue, data[t], t, dial, market'[t], t \notin DOMAIN subs)
    <3>1. HuobiTicker(fromExchange, Queue, data[t], t, dial, market[t], t \notin DOMAIN subs)
      BY <1>2, <1>8
    <3>2. CASE t \in DOMAIN subs
      BY <2>1, <3>1, <3>2
    <3>3. CASE t \notin DOMAIN subs
      BY <1>1, <3>1, <3>3, HuobiTickerNone DEF HuobiTicker
    <3> QED
      BY <3>2, <3>3
  <2> QED
    BY <1>2, <1>8, <2>1, <2>2 DEF QueueSame
<1>9. ASSUME NEW msg, ConfirmStep(msg) \/ RejectStep(msg) \/ PriceStep(msg) \/ OtherStep(msg),
             conn = "open", QueueSame, UNCHANGED <<dial, handler>>
      PROVE  Goal
  <2>1. /\ msg \in Messages /\ MessageOK(msg, exchange, handler, market')
        /\ fromExchange' = Append(fromExchange, msg)
        /\ msg.type = "ping" => msg.asOf = market /\ market' = market
    BY <1>9 DEF ConfirmStep, RejectStep, PriceStep, OtherStep, Sent
  <2>2. /\ DOMAIN msg.prices \subseteq DOMAIN subs
        /\ DOMAIN msg.prices # {} => msg.type = "update"
        /\ \A t \in DOMAIN msg.prices : msg.prices[t] = <<t, market'[t]>> /\ msg.prices[t] # Bad
        /\ \A t \in Ticker \ DOMAIN msg.prices : market'[t] = market[t]
    <3>1. DOMAIN <<>> = {}
      OBVIOUS
    <3>2. CASE PriceStep(msg)
      BY <3>2 DEF PriceStep
    <3>3. CASE ConfirmStep(msg) \/ RejectStep(msg) \/ OtherStep(msg)
      BY <3>1, <3>3 DEF ConfirmStep, RejectStep, OtherStep
    <3> QED
      BY <1>9, <3>2, <3>3
  <2>3. DOMAIN subs' \subseteq handler.cache /\ DOMAIN subs \subseteq DOMAIN subs'
    <3>1. CASE ConfirmStep(msg)
      BY <1>2, <1>9, <2>1, <3>1 DEF ConfirmStep, MessageOK, AboutRequest
    <3>2. CASE RejectStep(msg) \/ PriceStep(msg) \/ OtherStep(msg)
      BY <1>2, <1>9, <3>2 DEF RejectStep, PriceStep, OtherStep
    <3> QED
      BY <1>9, <3>1, <3>2
  <2>4. HuobiMessage(msg, handler.cache)
    BY <1>2, <1>9, <2>2 DEF HuobiMessage
  <2>5. Wire(fromExchange', handler'.cache)
    <3>1. \A k \in DOMAIN fromExchange' : fromExchange'[k] = msg \/ \E j \in DOMAIN fromExchange : fromExchange'[k] = fromExchange[j]
      BY <1>1, <2>1, Elements
    <3> QED
      BY <1>2, <1>9, <2>4, <3>1
  <2>6. ASSUME NEW t \in Ticker
        PROVE  HuobiTicker(Append(fromExchange, msg), Queue, data[t], t, dial, market'[t], t \notin DOMAIN subs')
    <3>1. HuobiTicker(fromExchange, Queue, data[t], t, dial, market[t], t \notin DOMAIN subs)
      BY <1>2, <1>9
    <3>2. t \notin DOMAIN subs' => t \notin DOMAIN subs
      BY <2>3
    <3>3. \/ t \in DOMAIN msg.prices /\ msg.prices[t][2] = market'[t] /\ ~(t \notin DOMAIN subs')
          \/ t \notin DOMAIN msg.prices /\ market'[t] = market[t]
      BY <2>2, <2>3
    <3>4. msg.type = "ping" => msg.asOf[t] = market[t]
      BY <2>1
    <3> QED
      BY <1>1, <2>1, <3>1, <3>2, <3>3, <3>4, HuobiTickerSent
  <2> QED
    BY <1>9, <2>1, <2>3, <2>5, <2>6 DEF QueueSame
<1> QED
  BY <1>3, <1>4, <1>5, <1>6, <1>7, <1>8, <1>9, HuobiEffects

-----------------------------------------------------------------------------
Renewal == RenewsOK /\ DialsOK /\ TradesOK /\ CoinbaseHeartbeatsOK /\ HuobiOK

(* Before the first connection nothing is renewed.                         *)
LEMMA RenewalInit ==
  ASSUME Init
  PROVE  Renewal /\ RenewedIsCurrent
<1>1. /\ Queue = <<>> /\ fromExchange = <<>> /\ dial = 0 /\ conn = "none" /\ pc = "idle"
      /\ \A t \in Ticker : data[t] = NoData /\ Get(handler.tradeIDs, t, 0) = 0
  BY DEF Init, Queue, NewHandler, Handler, Get
<1>2. DOMAIN <<>> = {} /\ Len(<<>>) = 0 /\ 1 .. 0 = {}
  OBVIOUS
<1>3. RenewsOK /\ DialsOK /\ CoinbaseHeartbeatsOK /\ HuobiOK
  BY <1>1, <1>2 DEF RenewsOK, DialsOK, CoinbaseHeartbeatsOK, HuobiOK
<1>4. TradesOK
  <2>1. \A t \in Ticker : LastPriceIs(<<>>, NoData, exchange, t, 1, 0, 0)
    BY <1>2 DEF LastPriceIs
  <2> QED
    BY <1>1, <1>2, <2>1 DEF TradesOK
<1>5. RenewedIsCurrent
  BY <1>1 DEF RenewedIsCurrent
<1> QED
  BY <1>3, <1>4, <1>5 DEF Renewal

(* "RenewedIsCurrent": "The receipt of a ping message means that ...       *)
(* market prices are still valid" (huobi/ws_data_handler.go). A price of   *)
(* Coinbase, or of Huobi that came over the same connection, is the one    *)
(* the exchange had when it sent the message that renewed the price.       *)
THEOREM RenewedIsCurrentTheorem == Spec => []RenewedIsCurrent
<1>1. Init => Base /\ Renewal /\ RenewedIsCurrent
  BY BaseInit, RenewalInit
<1>2. Base /\ Renewal /\ RenewedIsCurrent /\ [Next]_vars => Base' /\ Renewal' /\ RenewedIsCurrent'
  BY BaseStep, RenewsStep, RenewedStep, DialsStep, TradesStep, CoinbaseHeartbeatsStep, HuobiStep DEF Renewal
<1> QED
  BY <1>1, <1>2, PTL DEF Spec
=============================================================================
