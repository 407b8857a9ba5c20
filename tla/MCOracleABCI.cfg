SPECIFICATION MCFairSpec
CONSTANTS
  CurrencyPair = {btc, eth}
  Price = {1, 10, 20, 99}
  NilPrice = nil
  NoState = none
  Uint64 = 16
  MaxMsgLen = 1
  MaxID = 3
  MaxNonce = 3
  Validator = {v1, v2, v3}
  Byzantine = {v3}
  Power <- MCPower
  Proposers <- MCProposers
  AnswerSets <- MCAnswerSets
  FairPrices <- MCFairPrices
  ByzExtensions <- MCByzExtensions
  Malformed = Malformed
  Missing = Missing
  BadPrice = BadPrice
  LongPrice = LongPrice
  NoVote = NoVote
  NoProposal = NoProposal
  EnableHeight = 2
  MaxTxBytes = 5
  MaxHeight = 4
  MaxRound = 1
  btc = btc
  eth = eth
  v1 = v1
  v2 = v2
  v3 = v3
  nil = nil
  none = none
INVARIANTS
  VerifiedVotesSurvive
  HonestProposerSucceeds
  HonestProposalAccepted
  HonestVotesVerified
  DecidedBlockExecutes
  PricesFair
PROPERTIES
  ChainProgress
