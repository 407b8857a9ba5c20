-------------------------- MODULE MarketMapProofs --------------------------
(***************************************************************************)
(* Proofs about x/marketmap and its hooks into x/oracle, for every set of  *)
(* tickers and markets, messages of every length and any number of blocks, *)
(* with other modules that switch markets on and off (APISpec). The        *)
(* keeper's invariant is not proved again: every step of the two modules   *)
(* is shown to be a step of the keeper.                                    *)
(***************************************************************************)
EXTENDS MarketMap, OracleKeeperProofs, WellFoundedInduction

(* The inductive invariant. The keeper's part is what makes the hook's     *)
(* creations legal; the part on tracked markets is what makes the entries  *)
(* that an upsert does not report to the hook harmless.                    *)
MarketsTyped == markets \in [CurrencyPair -> Market \cup {NoMarket}]
MarketMapInv == KeeperInv /\ MarketsTyped /\ MarketsAreTracked /\ NormalizePairsListed

-----------------------------------------------------------------------------
(* A non-empty set of numbers has a least element.                         *)
LEMMA LeastExists ==
  ASSUME NEW T \in SUBSET Nat, T # {}
  PROVE  \E x \in T : \A y \in T : x <= y
<1>1. IsWellFoundedOn(OpToRel(<, Nat), Nat)
  BY NatLessThanWellFounded
<1>2. PICK x \in T : \A y \in T : ~(<<y, x>> \in OpToRel(<, Nat))
  BY <1>1, WFMin
<1>3. \A m, n \in Nat : <<n, m>> \in OpToRel(<, Nat) <=> n < m
  BY DEF OpToRel
<1>4. x \in Nat /\ \A y \in T : y \in Nat
  OBVIOUS
<1>5. \A y \in T : ~(y < x)
  BY <1>2, <1>3, <1>4
<1> QED
  BY <1>4, <1>5

(* Max is the greatest element of a non-empty set of positions.            *)
LEMMA MaxOfPositions ==
  ASSUME NEW n \in Nat, NEW T \in SUBSET (1..n), T # {}
  PROVE  Max(T) \in T
<1> DEFINE U == {n - x : x \in T}
<1>1. U \in SUBSET Nat
  OBVIOUS
<1>2. U # {}
  OBVIOUS
<1>3. PICK u \in U : \A v \in U : u <= v
  BY <1>1, <1>2, LeastExists
<1>4. PICK x \in T : u = n - x
  OBVIOUS
<1>5. \A y \in T : n - y \in U
  OBVIOUS
<1> HIDE DEF U
<1>6. \A y \in T : n - x <= n - y
  BY <1>3, <1>4, <1>5
<1>7. \A y \in T : y \in Nat
  OBVIOUS
<1>8. \A y \in T : x >= y
  BY <1>6, <1>7
<1> QED
  BY <1>8 DEF Max

(* A message is a finite sequence of tickers with markets; its tickers are *)
(* a message of the keeper.                                                *)
LEMMA MsgShape ==
  ASSUME NEW msg \in MarketMsgs
  PROVE  /\ \E n \in Nat : /\ n <= MaxMsgLen /\ DOMAIN msg = 1..n
                           /\ \A i \in 1..n : /\ msg[i].ticker \in CurrencyPair
                                              /\ msg[i].market \in MarketConfigs
         /\ DOMAIN Tickers(msg) = DOMAIN msg
         /\ Tickers(msg) \in Messages
<1>1. PICK n \in 0..MaxMsgLen : msg \in [1..n -> [ticker : CurrencyPair, market : MarketConfigs]]
  BY DEF MarketMsgs, SeqOf
<1>2. n \in Nat /\ n <= MaxMsgLen /\ DOMAIN msg = 1..n
  BY <1>1, KeeperConstants
<1>3. \A i \in 1..n : msg[i].ticker \in CurrencyPair /\ msg[i].market \in MarketConfigs
  BY <1>1
<1>4. Tickers(msg) \in [1..n -> CurrencyPair]
  BY <1>2, <1>3 DEF Tickers
<1>5. Tickers(msg) \in Messages
  BY <1>1, <1>4 DEF Messages
<1> QED
  BY <1>2, <1>3, <1>5 DEF Tickers

(* The store after the setMarket calls of a message: a ticker it names has *)
(* one of the message's markets, the others keep theirs.                   *)
LEMMA SetAllFacts ==
  ASSUME MarketsTyped, NEW msg \in MarketMsgs
  PROVE  /\ SetAll(msg) \in [CurrencyPair -> Market \cup {NoMarket}]
         /\ \A t \in CurrencyPair :
              \/ /\ \E i \in DOMAIN msg : msg[i].ticker = t /\ SetAll(msg)[t] = msg[i].market
                 /\ SetAll(msg)[t] \in Market /\ SetAll(msg)[t] # NoMarket
              \/ /\ \A i \in DOMAIN msg : msg[i].ticker # t
                 /\ SetAll(msg)[t] = markets[t]
<1>1. PICK n \in Nat : /\ DOMAIN msg = 1..n
                       /\ \A i \in 1..n : /\ msg[i].ticker \in CurrencyPair
                                          /\ msg[i].market \in MarketConfigs
  BY MsgShape
<1>2. \A m \in MarketConfigs : m \in Market /\ m # NoMarket
  BY MarketMapConstants DEF Market
<1>3. ASSUME NEW t \in CurrencyPair, NEW j \in DOMAIN msg, msg[j].ticker = t
      PROVE  \E i \in DOMAIN msg : msg[i].ticker = t /\ SetAll(msg)[t] = msg[i].market
  <2> DEFINE at == {i \in DOMAIN msg : msg[i].ticker = t}
  <2>1. at \in SUBSET (1..n) /\ at # {}
    BY <1>1, <1>3
  <2>2. Max(at) \in at
    BY <2>1, MaxOfPositions
  <2>3. t \in Range(Tickers(msg))
    BY <1>3 DEF Range, Tickers
  <2>4. SetAll(msg)[t] = msg[Max(at)].market
    BY <2>3 DEF SetAll
  <2> HIDE DEF at
  <2>5. Max(at) \in DOMAIN msg /\ msg[Max(at)].ticker = t
    BY <2>2 DEF at
  <2> QED
    BY <2>4, <2>5
<1>4. ASSUME NEW t \in CurrencyPair, \A i \in DOMAIN msg : msg[i].ticker # t
      PROVE  SetAll(msg)[t] = markets[t]
  <2>1. t \notin Range(Tickers(msg))
    BY <1>4 DEF Range, Tickers
  <2> QED
    BY <2>1 DEF SetAll
<1>5. \A t \in CurrencyPair : \A i \in DOMAIN msg :
         SetAll(msg)[t] = msg[i].market => SetAll(msg)[t] \in Market /\ SetAll(msg)[t] # NoMarket
  BY <1>1, <1>2
<1>6. SetAll(msg) = [t \in CurrencyPair |-> SetAll(msg)[t]]
  BY DEF SetAll
<1>7. \A t \in CurrencyPair : SetAll(msg)[t] \in Market \cup {NoMarket}
  BY <1>3, <1>4, <1>5 DEF MarketsTyped
<1> QED
  BY <1>3, <1>4, <1>5, <1>6, <1>7

-----------------------------------------------------------------------------
(* The hook of x/oracle sees only the markets that an upsert creates. As   *)
(* every market's pair is tracked, the keeper does what it would do for    *)
(* all tickers of the message.                                             *)
LEMMA UpsertCreatesAll ==
  ASSUME MarketsAreTracked, NEW msg \in MarketMsgs, IsInjective(Tickers(msg)),
         AfterMarketsCreated(NewTickers(msg))
  PROVE  CreateAll(Tickers(msg))
<1> DEFINE all == Tickers(msg)
           new == NewTickers(msg)
<1>1. /\ DOMAIN all = DOMAIN msg /\ all \in Messages
      /\ \A i \in DOMAIN msg : all[i] = msg[i].ticker /\ msg[i].ticker \in CurrencyPair
  BY MsgShape DEF Tickers
<1>2. /\ DOMAIN new = {j \in DOMAIN msg : ~HasMarket(msg[j].ticker)}
      /\ \A i \in DOMAIN new : i \in DOMAIN msg /\ new[i] = all[i]
  BY <1>1 DEF NewTickers
<1>3. \A i \in DOMAIN new : ~HasCurrencyPair(new[i])
  BY DEF AfterMarketsCreated
<1>4. \A i \in DOMAIN msg \ DOMAIN new : HasCurrencyPair(all[i])
  BY <1>1, <1>2 DEF MarketsAreTracked, Listed, Tracked, HasMarket, HasCurrencyPair
<1>5. \A i, j \in DOMAIN msg : all[i] = all[j] => i = j
  BY <1>1 DEF IsInjective
<1>6. DOMAIN msg \subseteq Nat
  BY MsgShape
<1> HIDE DEF all, new
<1>7. CreatedAt(all) = DOMAIN new
  BY <1>1, <1>2, <1>3, <1>4, <1>5, <1>6 DEF CreatedAt
<1>8. CreatedAt(new) = DOMAIN new
  BY <1>2, <1>3, <1>5, <1>6 DEF CreatedAt
<1>9. Created(all) = Created(new)
  BY <1>2, <1>7, <1>8 DEF Created
<1>10. \A cp \in Created(all) : PositionOf(all, cp) = PositionOf(new, cp)
  <2> SUFFICES ASSUME NEW cp \in Created(all) PROVE PositionOf(all, cp) = PositionOf(new, cp)
    OBVIOUS
  <2>1. PositionOf(all, cp) \in DOMAIN new /\ all[PositionOf(all, cp)] = cp
    BY <1>7 DEF PositionOf, Created
  <2>2. PositionOf(new, cp) \in DOMAIN new /\ new[PositionOf(new, cp)] = cp
    BY <1>8, <1>9 DEF PositionOf, Created
  <2> QED
    BY <1>2, <1>5, <2>1, <2>2
<1>11. \A i : IDAt(all, i) = IDAt(new, i)
  BY <1>7, <1>8 DEF IDAt
<1>12. CreateAll(new)
  BY DEF AfterMarketsCreated, new
<1> QED
  <2>1. /\ nextCurrencyPairID + Cardinality(CreatedAt(all)) <= MaxID
        /\ nextCurrencyPairID' = nextCurrencyPairID + Cardinality(CreatedAt(all))
        /\ numCPs' = numCPs + Cardinality(CreatedAt(all))
    BY <1>7, <1>8, <1>12 DEF CreateAll
  <2>2. currencyPairs' =
          [cp \in CurrencyPair |->
             IF cp \in Created(all)
             THEN NewCurrencyPairState(IDAt(all, PositionOf(all, cp)), 0, NilPrice)
             ELSE currencyPairs[cp]]
    BY <1>9, <1>10, <1>11, <1>12 DEF CreateAll
  <2>3. CreateAll(all)
    BY <2>1, <2>2 DEF CreateAll
  <2> QED
    BY <2>3 DEF all

(* Every step of the two modules is a step of the keeper, or leaves it     *)
(* alone.                                                                  *)
LEMMA StepIsKeeperStep ==
  ASSUME MarketMapInv, [APINext]_vars
  PROVE  [KeeperNext]_keeperVars
<1>1. ASSUME NEW authority \in Account, NEW msg \in MarketMsgs, CreateMarkets(authority, msg)
      PROVE  KeeperNext
  <2>1. AddCurrencyPairs(Tickers(msg))
    BY <1>1 DEF CreateMarkets, AfterMarketsCreated, AddCurrencyPairs
  <2> QED
    BY <2>1, MsgShape DEF KeeperNext
<1>2. ASSUME NEW authority \in Account, NEW msg \in MarketMsgs, UpsertMarkets(authority, msg)
      PROVE  KeeperNext
  <2>1. CreateAll(Tickers(msg)) /\ UNCHANGED numRemoves
    BY <1>2, UpsertCreatesAll DEF UpsertMarkets, MarketMapInv
  <2>2. AddCurrencyPairs(Tickers(msg))
    BY <2>1 DEF AddCurrencyPairs
  <2> QED
    BY <2>2, MsgShape DEF KeeperNext
<1>3. ASSUME NEW authority \in Account, NEW msg \in MarketMsgs, UpdateMarkets(authority, msg)
      PROVE  UNCHANGED keeperVars
  BY <1>3 DEF UpdateMarkets
<1>4. ASSUME NEW authority \in Account, NEW ts \in SUBSET CurrencyPair, RemoveMarkets(authority, ts)
      PROVE  UNCHANGED keeperVars
  BY <1>4 DEF RemoveMarkets
<1>5. CASE NextBlock \/ Restart
  BY <1>5 DEF NextBlock, Restart, KeeperNext
<1>6. CASE ParamsNext
  BY <1>6 DEF ParamsNext, UpdateParams, RemoveMarketAuthorities
<1>7. ASSUME NEW t \in CurrencyPair, NEW flag \in BOOLEAN, SetEnabled(t, flag)
      PROVE  UNCHANGED keeperVars
  BY <1>7 DEF SetEnabled
<1>8. CASE UNCHANGED vars
  BY <1>8 DEF vars
<1> QED
  BY <1>1, <1>2, <1>3, <1>4, <1>5, <1>6, <1>7, <1>8 DEF APINext, Next, MarketMapNext

-----------------------------------------------------------------------------
(* Neither module forgets a pair: with x/marketmap in the application the  *)
(* state of a pair outlives its market.                                    *)
LEMMA PairsAreKept ==
  ASSUME MarketMapInv, [APINext]_vars
  PROVE  Tracked \subseteq Tracked'
<1>1. ASSUME NEW msg \in Mentions, CreateAll(msg)
      PROVE  Tracked \subseteq Tracked'
  <2>1. Created(msg) \cap Tracked = {}
    BY CreatedFacts
  <2>2. \A cp \in CurrencyPair : cp \notin Created(msg) => currencyPairs'[cp] = currencyPairs[cp]
    BY <1>1 DEF CreateAll
  <2> QED
    BY <2>1, <2>2 DEF Tracked
<1>2. ASSUME NEW authority \in Account, NEW msg \in MarketMsgs,
             CreateMarkets(authority, msg) \/ UpsertMarkets(authority, msg)
      PROVE  Tracked \subseteq Tracked'
  <2>1. CreateAll(Tickers(msg))
    BY <1>2, UpsertCreatesAll
       DEF CreateMarkets, UpsertMarkets, AfterMarketsCreated, MarketMapInv
  <2>2. Tickers(msg) \in Mentions
    BY MsgShape, MessagesAreMentions
  <2> QED
    BY <1>1, <2>1, <2>2
<1>3. CASE NextBlock
  BY <1>3 DEF NextBlock, BeginBlocker, Tracked
<1>4. CASE Restart
  BY <1>4, ExportFacts DEF Restart, ExportAndInitGenesis, Tracked, MarketMapInv
<1>5. CASE UNCHANGED keeperVars
  BY <1>5 DEF keeperVars, Tracked
<1>6. ASSUME NEW authority \in Account, NEW msg \in MarketMsgs, UpdateMarkets(authority, msg)
      PROVE  UNCHANGED keeperVars
  BY <1>6 DEF UpdateMarkets
<1>7. ASSUME NEW authority \in Account, NEW ts \in SUBSET CurrencyPair, RemoveMarkets(authority, ts)
      PROVE  UNCHANGED keeperVars
  BY <1>7 DEF RemoveMarkets
<1>8. CASE ParamsNext
  BY <1>5, <1>8 DEF ParamsNext, UpdateParams, RemoveMarketAuthorities
<1>9. ASSUME NEW t \in CurrencyPair, NEW flag \in BOOLEAN, SetEnabled(t, flag)
      PROVE  UNCHANGED keeperVars
  BY <1>9 DEF SetEnabled
<1>10. CASE UNCHANGED vars
  BY <1>5, <1>10 DEF vars
<1> QED
  BY <1>2, <1>3, <1>4, <1>5, <1>6, <1>7, <1>8, <1>9, <1>10 DEF APINext, Next, MarketMapNext

(* The markets part of the invariant, as a relation of the store before    *)
(* and after.                                                              *)
MarketsInv == MarketsTyped /\ MarketsAreTracked /\ NormalizePairsListed

(* Storing the markets of a message whose ValidateState succeeded: no      *)
(* market of the message dangles by the check, no other one because a      *)
(* message lists markets and unlists none.                                 *)
LEMMA SetAllInv ==
  ASSUME MarketMapInv, NEW msg \in MarketMsgs, ValidateState(msg), markets' = SetAll(msg),
         Tracked \subseteq Tracked',
         \A i \in DOMAIN msg : msg[i].ticker \in Tracked'
  PROVE  MarketsInv'
<1>1. MarketsTyped /\ MarketsAreTracked /\ NormalizePairsListed
  BY DEF MarketMapInv
<1>2. MarketsTyped'
  BY <1>1, SetAllFacts DEF MarketsTyped, Market
<1>3. \A t \in CurrencyPair :
        \/ /\ \E i \in DOMAIN msg : msg[i].ticker = t /\ markets'[t] = msg[i].market
           /\ markets'[t] # NoMarket
        \/ markets'[t] = markets[t]
  BY <1>1, SetAllFacts
<1>4. MarketsAreTracked'
  BY <1>1, <1>3 DEF MarketsAreTracked, Listed
<1>5. Listed \subseteq Listed'
  BY <1>3 DEF Listed
<1>6. ASSUME NEW t \in Listed', NEW s \in markets'[t].normalize
      PROVE  s \in Listed'
  <2>1. t \in CurrencyPair /\ markets'[t] \in Market /\ s \in CurrencyPair
    BY <1>2, <1>6 DEF Listed, MarketsTyped, Market
  <2>2. CASE \E i \in DOMAIN msg : markets'[t] = msg[i].market
    BY <1>6, <2>1, <2>2 DEF ValidateState, ValidBy, Listed
  <2>3. CASE markets'[t] = markets[t]
    BY <1>1, <1>5, <1>6, <2>1, <2>3 DEF NormalizePairsListed, Listed
  <2> QED
    BY <1>3, <2>1, <2>2, <2>3
<1> QED
  BY <1>2, <1>4, <1>6 DEF MarketsInv, NormalizePairsListed

(* The pairs that the hook was run for have state.                         *)
LEMMA HookTracks ==
  ASSUME MarketMapInv, KeeperInv', NEW msg \in MarketMsgs, CreateAll(Tickers(msg))
  PROVE  \A i \in DOMAIN msg : msg[i].ticker \in Tracked'
<1> SUFFICES ASSUME NEW i \in DOMAIN msg PROVE msg[i].ticker \in Tracked'
  OBVIOUS
<1> DEFINE all == Tickers(msg)
           cp == all[i]
<1>1. PICK n \in Nat : DOMAIN msg = 1..n
  BY MsgShape
<1>2. all \in Mentions /\ DOMAIN all = 1..n /\ cp = msg[i].ticker /\ cp \in CurrencyPair
  BY <1>1, MsgShape, MessagesAreMentions DEF Tickers
<1>3. KeeperTypeOK
  BY DEF MarketMapInv, KeeperInv
<1>4. CASE cp \in Created(all)
  <2>1. currencyPairs'[cp] = NewCurrencyPairState(IDAt(all, PositionOf(all, cp)), 0, NilPrice)
    BY <1>2, <1>4 DEF CreateAll
  <2>2. IDAt(all, PositionOf(all, cp)) \in Nat
    BY <1>2, <1>3, <1>4, CreatedIDs
  <2>3. currencyPairs'[cp] \in CurrencyPairState
    BY <2>1, <2>2 DEF NewCurrencyPairState, CurrencyPairState
  <2> QED
    BY <1>2, <2>3, KeeperConstants DEF Tracked, CurrencyPairState
<1>5. CASE cp \notin Created(all)
  <2>1. currencyPairs'[cp] = currencyPairs[cp]
    BY <1>2, <1>5 DEF CreateAll
  <2>2. SUFFICES ASSUME currencyPairs[cp] = NoState PROVE FALSE
    BY <1>2, <2>1 DEF Tracked
  <2> DEFINE at == {j \in 1..n : all[j] = cp}
  <2>3. at \in SUBSET Nat
    OBVIOUS
  <2>4. at # {}
    BY <1>1
  <2>5. PICK j \in at : \A k \in at : j <= k
    BY <2>3, <2>4, LeastExists
  <2>6. j \in CreatedAt(all)
    BY <1>2, <2>2, <2>5 DEF CreatedAt, HasCurrencyPair
  <2>7. cp \in Created(all)
    BY <2>5, <2>6 DEF Created
  <2> QED
    BY <1>5, <2>7
<1> QED
  BY <1>4, <1>5

(* Every step preserves the invariant.                                     *)
LEMMA MarketMapNextInv ==
  ASSUME MarketMapInv, [APINext]_vars
  PROVE  MarketMapInv'
<1>1. KeeperInv /\ MarketsTyped /\ MarketsAreTracked /\ NormalizePairsListed
  BY DEF MarketMapInv
<1>2. KeeperInv'
  BY <1>1, StepIsKeeperStep, NextInv
<1>3. Tracked \subseteq Tracked'
  BY PairsAreKept
<1>4. ASSUME NEW authority \in Account, NEW msg \in MarketMsgs,
             CreateMarkets(authority, msg) \/ UpsertMarkets(authority, msg)
      PROVE  MarketsInv'
  <2>1. CreateAll(Tickers(msg))
    BY <1>1, <1>4, UpsertCreatesAll DEF CreateMarkets, UpsertMarkets, AfterMarketsCreated
  <2>2. ValidateState(msg) /\ markets' = SetAll(msg)
    BY <1>4 DEF CreateMarkets, UpsertMarkets
  <2> QED
    BY <1>2, <1>3, <2>1, <2>2, HookTracks, SetAllInv
<1>5. ASSUME NEW authority \in Account, NEW msg \in MarketMsgs, UpdateMarkets(authority, msg)
      PROVE  MarketsInv'
  <2>1. \A i \in DOMAIN msg : msg[i].ticker \in Tracked
    BY <1>1, <1>5, MsgShape DEF UpdateMarkets, HasMarket, MarketsAreTracked, Listed
  <2>2. ValidateState(msg) /\ markets' = SetAll(msg)
    BY <1>5 DEF UpdateMarkets
  <2> QED
    BY <1>3, <2>1, <2>2, SetAllInv
<1>6. ASSUME NEW authority \in Account, NEW ts \in SUBSET CurrencyPair, RemoveMarkets(authority, ts)
      PROVE  MarketsInv'
  <2> DEFINE rest == [t \in CurrencyPair |-> IF t \in ts THEN NoMarket ELSE markets[t]]
  <2>1. markets' = rest /\ MarketMapValidateBasic(rest)
    BY <1>6 DEF RemoveMarkets, Deletable
  <2>2. MarketsTyped'
    BY <1>1, <2>1 DEF MarketsTyped, Market
  <2>3. Listed' \subseteq Listed
    BY <2>1 DEF Listed
  <2>4. MarketsAreTracked'
    BY <1>1, <1>3, <2>3 DEF MarketsAreTracked
  <2> HIDE DEF rest
  <2>5. NormalizePairsListed'
    <3> SUFFICES ASSUME NEW t \in Listed', NEW s \in markets'[t].normalize PROVE s \in Listed'
      BY DEF NormalizePairsListed
    <3>1. t \in CurrencyPair /\ markets'[t] # NoMarket
      BY DEF Listed
    <3>2. s \in CurrencyPair
      BY <2>2, <3>1 DEF MarketsTyped, Market
    <3> QED
      BY <2>1, <3>1, <3>2 DEF MarketMapValidateBasic, ValidBy, Listed
  <2> QED
    BY <2>2, <2>4, <2>5 DEF MarketsInv
<1>7. ASSUME NEW t \in CurrencyPair, NEW flag \in BOOLEAN, SetEnabled(t, flag)
      PROVE  MarketsInv'
  <2>1. /\ markets[t] # NoMarket
        /\ markets' = [markets EXCEPT ![t] = [markets[t] EXCEPT !.enabled = flag]]
    BY <1>7, Zenon DEF SetEnabled, HasMarket
  <2>2. markets[t] \in Market
    BY <1>1, <2>1 DEF MarketsTyped
  <2>3. PICK m : m = [markets[t] EXCEPT !.enabled = flag]
    OBVIOUS
  <2>4. m = [enabled |-> flag, normalize |-> markets[t].normalize]
    BY <2>2, <2>3, Zenon DEF Market
  <2>5. m \in Market /\ m # NoMarket /\ m.normalize = markets[t].normalize
    BY <2>2, <2>4, MarketMapConstants DEF Market
  <2>6. markets' = [markets EXCEPT ![t] = m]
    BY <2>1, <2>3, Zenon
  <2>7. MarketsTyped'
    BY <1>1, <2>5, <2>6 DEF MarketsTyped, Market
  <2>8. Listed' = Listed
    BY <1>1, <2>1, <2>5, <2>6 DEF MarketsTyped, Listed
  <2>9. \A s \in Listed : markets'[s].normalize = markets[s].normalize
    BY <1>1, <2>5, <2>6 DEF MarketsTyped, Listed
  <2> QED
    BY <1>1, <1>3, <2>7, <2>8, <2>9 DEF MarketsInv, MarketsAreTracked, NormalizePairsListed
<1>8. ASSUME UNCHANGED markets PROVE MarketsInv'
  BY <1>1, <1>3, <1>8
     DEF MarketsInv, MarketsTyped, MarketsAreTracked, NormalizePairsListed, Listed, Market
<1>9. ASSUME NextBlock \/ Restart \/ ParamsNext \/ UNCHANGED vars
      PROVE  UNCHANGED markets
  BY <1>9 DEF NextBlock, Restart, ParamsNext, UpdateParams, RemoveMarketAuthorities, vars,
              marketMapVars
<1>10. MarketsInv'
  BY <1>4, <1>5, <1>6, <1>7, <1>8, <1>9 DEF APINext, Next, MarketMapNext
<1> QED
  BY <1>2, <1>10 DEF MarketMapInv, MarketsInv

(* The genesis states of the two modules satisfy the invariant.            *)
LEMMA MarketMapInitInv == Init => MarketMapInv
<1> SUFFICES ASSUME Init PROVE MarketMapInv
  OBVIOUS
<1>1. KeeperInv
  BY InitInv DEF Init
<1>2. MarketsTyped
  BY MarketMapConstants DEF Init, MarketsTyped, Market
<1>3. MarketsAreTracked
  BY DEF Init, MarketsAreTracked
<1>4. NormalizePairsListed
  <2> SUFFICES ASSUME NEW t \in Listed, NEW s \in markets[t].normalize PROVE s \in Listed
    BY DEF NormalizePairsListed
  <2>1. t \in CurrencyPair /\ markets[t] # NoMarket
    BY DEF Listed
  <2>2. s \in CurrencyPair
    BY <1>2, <2>1 DEF MarketsTyped, Market
  <2> QED
    BY <2>1, <2>2 DEF Init, MarketMapValidateBasic, ValidBy, Listed
<1> QED
  BY <1>1, <1>2, <1>3, <1>4 DEF MarketMapInv

-----------------------------------------------------------------------------
(* In every reachable state of the two modules, whatever other modules     *)
(* switch on and off, the keeper's invariant holds, every market's pair    *)
(* has state in x/oracle and no market normalizes by an unlisted pair.     *)
THEOREM MarketMapInvariant == APISpec => []MarketMapInv
<1>1. Init => MarketMapInv
  BY MarketMapInitInv
<1>2. MarketMapInv /\ [APINext]_vars => MarketMapInv'
  BY MarketMapNextInv
<1> QED
  BY <1>1, <1>2, PTL DEF APISpec

(* Every market's pair has state in x/oracle.                              *)
THEOREM MarketsAreTrackedTheorem == APISpec => []MarketsAreTracked
BY MarketMapInvariant, PTL DEF MarketMapInv

(* The pairs that a market normalizes by are listed.                       *)
THEOREM NormalizePairsListedTheorem == APISpec => []NormalizePairsListed
BY MarketMapInvariant, PTL DEF MarketMapInv

(* x/marketmap with its hooks drives x/oracle as the keeper's own messages *)
(* would: what is proved of the keeper on its own holds of the two modules *)
(* together.                                                               *)
THEOREM MarketMapImplementsKeeper == APISpec => KeeperSpec
<1>1. Init => InitGenesis
  BY DEF Init
<1>2. MarketMapInv /\ [APINext]_vars => [KeeperNext]_keeperVars
  BY StepIsKeeperStep
<1> QED
  BY <1>1, <1>2, MarketMapInvariant, PTL DEF APISpec, KeeperSpec

(* The keeper's ids stay unique, its counter exact, and an id is never     *)
(* given out twice, when the pairs are created by markets.                 *)
COROLLARY MarketsGetFreshIDs ==
  APISpec => []IDsUnique /\ []NumCPsExact /\ NewIDsAreFresh
BY MarketMapImplementsKeeper, IDsUniqueTheorem, NumCPsExactTheorem, NewIDsAreFreshTheorem, PTL

(* No state of a pair is lost to the removal of its market: the price and  *)
(* the id are there when the market comes back.                            *)
THEOREM TrackedOnlyGrows == APISpec => [][Tracked \subseteq Tracked']_vars
<1>1. MarketMapInv /\ [APINext]_vars => [Tracked \subseteq Tracked']_vars
  BY PairsAreKept
<1> QED
  BY <1>1, MarketMapInvariant, PTL DEF APISpec

-----------------------------------------------------------------------------
(* The clients of the query service.                                       *)

(* A market of the store is the one the client holds, or is gone and the   *)
(* client holds it as disabled.                                            *)
Same(t) ==
  \/ markets[t] = client.markets[t]
  \/ client.markets[t] # NoMarket /\ ~client.markets[t].enabled /\ markets[t] = NoMarket

(* The inductive invariant: what a client read was committed before the    *)
(* block that is running, so that an update of this block gives lastUpdated *)
(* a value the client cannot hold.                                         *)
PollInv ==
  /\ lastUpdated \in Nat /\ blockHeight \in Nat /\ lastUpdated <= blockHeight
  /\ client \in Client
  /\ client.lastUpdated < blockHeight
  /\ PollersKeepUp

(* A step that writes markets and lastUpdated.                             *)
LEMMA RecordedStep ==
  ASSUME PollInv, SetLastUpdated, UNCHANGED <<blockHeight, client>>
  PROVE  PollInv'
<1>1. lastUpdated' = blockHeight /\ client.lastUpdated # lastUpdated'
  BY DEF PollInv, SetLastUpdated, Client
<1>2. client' \in Client
  BY DEF PollInv
<1> QED
  BY <1>1, <1>2 DEF PollInv, PollersKeepUp

(* A step that leaves what the property is about as it is.                 *)
LEMMA QuietStep ==
  ASSUME PollInv, UNCHANGED <<markets, lastUpdated, blockHeight, client>>
  PROVE  PollInv'
<1>1. client' \in Client
  BY DEF PollInv
<1> QED
  BY <1>1 DEF PollInv, PollersKeepUp

(* A removal takes away disabled markets only. One that differs from the   *)
(* client's is gone already.                                               *)
LEMMA RemovalStep ==
  ASSUME PollInv, NEW authority \in Account, NEW ts \in SUBSET CurrencyPair,
         RemoveMarkets(authority, ts)
  PROVE  PollInv'
<1>1. /\ markets' = [t \in CurrencyPair |-> IF t \in ts THEN NoMarket ELSE markets[t]]
      /\ \A t \in ts : markets[t] # NoMarket => ~markets[t].enabled
      /\ UNCHANGED <<lastUpdated, blockHeight, client>>
  BY DEF RemoveMarkets, Deletable, HasMarket
<1>2. ASSUME client.lastUpdated = lastUpdated, NEW t \in CurrencyPair \ client.switched
      PROVE  Same(t)'
  <2>1. Same(t)
    BY <1>2 DEF PollInv, PollersKeepUp, Same
  <2>2. CASE t \notin ts
    BY <1>1, <2>1, <2>2 DEF Same
  <2>3. CASE t \in ts
    BY <1>1, <2>1, <2>3 DEF Same
  <2> QED
    BY <2>2, <2>3
<1>3. PollersKeepUp'
  BY <1>1, <1>2 DEF PollersKeepUp, Same
<1>4. client' \in Client
  BY <1>1 DEF PollInv
<1> QED
  BY <1>1, <1>3, <1>4 DEF PollInv

(* A switch by another module is one that the client is not told of.       *)
LEMMA SwitchStep ==
  ASSUME PollInv, MarketsTyped, NEW s \in CurrencyPair, NEW flag \in BOOLEAN, SetEnabled(s, flag)
  PROVE  PollInv'
<1>1. /\ markets' = [markets EXCEPT ![s] = [markets[s] EXCEPT !.enabled = flag]]
      /\ client' = [client EXCEPT !.switched = client.switched \cup {s}]
      /\ UNCHANGED <<lastUpdated, blockHeight>>
  BY Zenon DEF SetEnabled
<1>2. client' = [lastUpdated |-> client.lastUpdated, markets |-> client.markets,
                 switched |-> client.switched \cup {s}]
  BY <1>1, Zenon DEF PollInv, Client
<1>3. client' \in Client
  BY <1>2 DEF PollInv, Client
<1>4. PICK m : m = [markets[s] EXCEPT !.enabled = flag]
  OBVIOUS
<1>5. markets' = [markets EXCEPT ![s] = m]
  BY <1>1, <1>4, Zenon
<1>6. \A t \in CurrencyPair : t # s => markets'[t] = markets[t]
  BY <1>5 DEF MarketsTyped
<1>7. PollersKeepUp'
  <2> SUFFICES ASSUME client'.lastUpdated = lastUpdated', NEW t \in CurrencyPair \ client'.switched
               PROVE  Same(t)'
    BY DEF PollersKeepUp, Same
  <2>1. t # s /\ t \in CurrencyPair \ client.switched /\ client.lastUpdated = lastUpdated
    BY <1>1, <1>2
  <2>2. Same(t)
    BY <2>1 DEF PollInv, PollersKeepUp, Same
  <2> QED
    BY <1>2, <1>6, <2>1, <2>2 DEF Same
<1> QED
  BY <1>1, <1>2, <1>3, <1>7 DEF PollInv

(* A client that queries at the end of a block holds the store.            *)
LEMMA BlockStep ==
  ASSUME PollInv, MarketsTyped, NextBlock
  PROVE  PollInv'
<1>1. blockHeight' = blockHeight + 1 /\ UNCHANGED <<markets, lastUpdated>>
  BY DEF NextBlock
<1>2. CASE QueryMarketMap
  <2>1. client' = [lastUpdated |-> lastUpdated, markets |-> markets, switched |-> {}]
    BY <1>2 DEF QueryMarketMap
  <2>2. client' \in Client
    BY <2>1 DEF PollInv, Client, MarketsTyped
  <2>3. PollersKeepUp'
    BY <1>1, <2>1 DEF PollersKeepUp
  <2> QED
    BY <1>1, <2>1, <2>2, <2>3 DEF PollInv
<1>3. CASE UNCHANGED client
  <2>1. client' \in Client
    BY <1>3 DEF PollInv
  <2>2. PollersKeepUp'
    BY <1>1, <1>3 DEF PollInv, PollersKeepUp
  <2> QED
    BY <1>1, <1>3, <2>1, <2>2 DEF PollInv, Client
<1> QED
  BY <1>2, <1>3 DEF NextBlock

LEMMA PollNextInv ==
  ASSUME PollInv, MarketMapInv, [APINext]_vars
  PROVE  PollInv'
<1>1. MarketsTyped
  BY DEF MarketMapInv
<1>2. ASSUME NEW authority \in Account, NEW msg \in MarketMsgs,
             \/ CreateMarkets(authority, msg) \/ UpdateMarkets(authority, msg)
             \/ UpsertMarkets(authority, msg)
      PROVE  PollInv'
  BY <1>2, RecordedStep DEF CreateMarkets, UpdateMarkets, UpsertMarkets
<1>3. ASSUME NEW authority \in Account, NEW ts \in SUBSET CurrencyPair, RemoveMarkets(authority, ts)
      PROVE  PollInv'
  BY <1>3, RemovalStep
<1>4. ASSUME NEW s \in CurrencyPair, NEW flag \in BOOLEAN, SetEnabled(s, flag)
      PROVE  PollInv'
  BY <1>1, <1>4, SwitchStep
<1>5. CASE NextBlock
  BY <1>1, <1>5, BlockStep
<1>6. CASE Restart \/ ParamsNext \/ UNCHANGED vars
  BY <1>6, QuietStep
     DEF Restart, ParamsNext, UpdateParams, RemoveMarketAuthorities, vars, marketMapVars
<1> QED
  BY <1>2, <1>3, <1>4, <1>5, <1>6 DEF APINext, Next, MarketMapNext

LEMMA PollInitInv == Init => PollInv
<1> SUFFICES ASSUME Init PROVE PollInv
  OBVIOUS
<1>1. MarketsTyped
  BY MarketMapInitInv DEF MarketMapInv
<1>2. /\ client = [lastUpdated |-> 0, markets |-> markets, switched |-> {}]
      /\ lastUpdated = 0 /\ blockHeight = 1
  BY DEF Init
<1>3. client \in Client
  BY <1>1, <1>2 DEF Client, MarketsTyped
<1> QED
  BY <1>2, <1>3 DEF PollInv, PollersKeepUp

(* A client that keeps the map it read while the height stands still holds *)
(* every market as it is stored, removals of disabled markets and switches *)
(* by other modules apart: for any number of blocks and restarts, and      *)
(* whenever it polls.                                                      *)
THEOREM PollersKeepUpTheorem == APISpec => []PollersKeepUp
<1>1. Init => PollInv
  BY PollInitInv
<1>2. PollInv /\ MarketMapInv /\ [APINext]_vars => PollInv'
  BY PollNextInv
<1>3. PollInv => PollersKeepUp
  BY DEF PollInv
<1> QED
  BY <1>1, <1>2, <1>3, MarketMapInvariant, PTL DEF APISpec
=============================================================================
