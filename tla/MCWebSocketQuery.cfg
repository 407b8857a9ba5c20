CONSTANTS
  btc = btc
  eth = eth
  Ticker = {btc, eth}
  Exchange = {"binance", "bitfinex", "bitstamp", "bybit", "coinbase", "cryptodotcom",
              "gate", "huobi", "kraken", "kucoin", "mexc", "okx"}
  IDs <- MCIDs
  Bad = Bad
  MaxSubscriptionsPerBatch = 1
  MexcLimit = 1
  BufferSize = 1
  MaxReadErrorCount = 2
  MaxPrices = 2
  MaxDials = 2
  MaxExtra = 3
  MaxInFlight = 2
SPECIFICATION MCSpec
INVARIANTS
  RenewedIsCurrent
  NoTickerForgotten
PROPERTIES
  ImplementsPriceFeed
  StartReturns
