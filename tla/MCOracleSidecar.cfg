SPECIFICATION MCSpec
CONSTANTS
  a = a
  b = b
  btc = btc
  usdt = usdt
  btcTicker = btcTicker
  usdtTicker = usdtTicker
  j = j
  NoPair = NoPair
  NoMarket = NoMarket
  NoData = NoData
  Provider = {a, b}
  Pair = {btc, usdt}
  OffChain = {btcTicker, usdtTicker}
  Json = {j}
  MarketMaps <- MCMaps
  Classes = {0, 1}
  MaxPriceAge = 1
  Depth = 1
  MaxDelay = 1
  MaxTime = 2
INVARIANTS
  ServedPricesFresh
  IngredientsFresh
PROPERTIES
  DataMovesForward
  MarketsArePriced
