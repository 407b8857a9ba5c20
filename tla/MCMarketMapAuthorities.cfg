SPECIFICATION MCAdminSpec
CONSTANTS
  CurrencyPair = {btc, usdt}
  Price = {p1}
  NilPrice = nil
  NoState = none
  Uint64 = 16
  MaxMsgLen = 2
  MaxID = 3
  MaxNonce = 1
  MarketConfigs <- MCMarketConfigs
  NoMarket = NoMarket
  Account = {alice, bob}
  MaxBlock = 2
  usdt = usdt
  alice = alice
  bob = bob
  p1 = p1
  nil = nil
  none = none
PROPERTIES
  RemovedAuthoritiesGone
