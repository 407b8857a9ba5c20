CONSTANTS
  btc = btc
  eth = eth
  Ticker = {btc, eth}
  Kinds = {"binance", "bitstamp", "coinbase", "coingecko", "coinmarketcap",
           "geckoterminal", "kraken", "polymarket", "osmosis", "raydium", "uniswap"}
  IDs <- MCIDs
  Config <- MCConfig
  Endpoint = {1, 2}
  Bad = Bad
  Unknown = Unknown
  BufferSize = 1
  MaxPrices = 2
SPECIFICATION MCSpec
INVARIANTS
  EveryTickerAnswered
  GreatestHeightWins
PROPERTIES
  ImplementsPriceFeed
  EveryTickerAskedAgain
  QueryReturns
