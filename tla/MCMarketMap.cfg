SPECIFICATION APISpec
CONSTANTS
  CurrencyPair = {btc, usdt}
  Price = {p1}
  NilPrice = nil
  NoState = none
  Uint64 = 16
  MaxMsgLen = 2
  MaxID = 3
  MaxNonce = 1
  MarketConfigs <- MCMarketConfigs
  NoMarket = NoMarket
  Account = {alice}
  MaxBlock = 3
  usdt = usdt
  alice = alice
  p1 = p1
  nil = nil
  none = none
INVARIANTS
  MarketsAreTracked
  NormalizePairsListed
  PollersKeepUp
