-------------------------- MODULE MCWebSocketQuery --------------------------
(* Two tickers, subscribed to alone or together, on two connections.       *)
EXTENDS WebSocketQuery

CONSTANTS btc, eth

MCIDs == {<<btc>>, <<btc, eth>>}

(* The renewal of a price takes a longer history than the rest.            *)
(*                                                                         *)
(* Only some handlers tell apart a connection with one ticker from one     *)
(* with two: by batches, channels, several prices at once, or a limit. Of  *)
(* those one message in excess and one trade are enough.                   *)
MCInit == Init /\ (Len(ids) = 2 => exchange \in {"binance", "bitfinex", "mexc", "okx"})
MCNext ==
  /\ Next
  /\ exchange \notin {"coinbase", "huobi"} => extra' <= 2
  /\ Len(ids) = 2 => extra' <= 1 /\ market'[btc] + market'[eth] <= 3
MCSpec == MCInit /\ [][MCNext]_vars /\ Fairness
=============================================================================
