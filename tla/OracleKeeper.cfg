SPECIFICATION KeeperSpec
CONSTANTS
  CurrencyPair = {btc, eth, sol}
  Price = {p1, p2}
  NilPrice = nil
  NoState = none
  Uint64 = 16
  MaxMsgLen = 3
  MaxID = 4
  MaxNonce = 1
  btc = btc
  eth = eth
  sol = sol
  p1 = p1
  p2 = p2
  nil = nil
  none = none
INVARIANTS
  IDsUnique
  NumCPsExact
  ExportImportable
PROPERTIES
  NewIDsAreFresh
  StampIdentifiesPrice
  LossesAreCounted
