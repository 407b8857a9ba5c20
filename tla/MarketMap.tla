----------------------------- MODULE MarketMap -----------------------------
(***************************************************************************)
(* The x/marketmap module composed with the x/oracle keeper through the    *)
(* hooks of x/oracle. With x/marketmap in the application the messages of  *)
(* x/oracle are disabled: currency pairs are created by the creation of    *)
(* markets and are never removed.                                          *)
(*                                                                         *)
(* A market is its enabled flag and the set of pairs its provider configs  *)
(* normalize by; everything else in it is checked by ValidateBasic alone,  *)
(* before the message reaches the module. A message is atomic.             *)
(***************************************************************************)
EXTENDS OracleKeeper, SequencesExt

CONSTANTS
  MarketConfigs,  \* the markets a message may carry: [enabled, normalize]
  NoMarket,       \* no market is stored under the ticker
  Account,        \* accounts that sign messages
  MaxBlock        \* bound: blocks

ASSUME MarketMapConstants ==
  /\ MarketConfigs \subseteq [enabled : BOOLEAN, normalize : SUBSET CurrencyPair]
  /\ NoMarket \notin [enabled : BOOLEAN, normalize : SUBSET CurrencyPair]
  /\ MaxBlock \in Nat

VARIABLES
  markets,            \* ticker -> market
  lastUpdated,        \* the height of the last update
  marketAuthorities,  \* Params.MarketAuthorities, a sequence
  admin,              \* Params.Admin
  blockHeight,
  client              \* what a client of the query service read last

marketMapVars == <<markets, lastUpdated, marketAuthorities, admin, blockHeight, client>>
vars == <<keeperVars, marketMapVars>>

Market == [enabled : BOOLEAN, normalize : SUBSET CurrencyPair]
Listed == {t \in CurrencyPair : markets[t] # NoMarket}
HasMarket(t) == markets[t] # NoMarket

(* The response to a MarketMap query, and the tickers that other modules   *)
(* of the application have switched since.                                 *)
Client == [lastUpdated : Nat, markets : [CurrencyPair -> Market \cup {NoMarket}],
           switched : SUBSET CurrencyPair]

(* Params.ValidateBasic: no authority twice.                               *)
Authorities == {a \in SeqOf(Account, Cardinality(Account)) : IsInjective(a)}

(* A create, update or upsert message: tickers with their new markets.     *)
MarketMsgs == SeqOf([ticker : CurrencyPair, market : MarketConfigs], MaxMsgLen) \ {<<>>}
Tickers(msg) == [i \in DOMAIN msg |-> msg[i].ticker]

-----------------------------------------------------------------------------
(* The store after setMarket of every entry in turn: the last one counts.  *)
SetAll(msg) ==
  [t \in CurrencyPair |->
     IF t \in Range(Tickers(msg))
     THEN msg[Max({i \in DOMAIN msg : msg[i].ticker = t})].market
     ELSE markets[t]]

(* ValidBy: what a market needs of the markets mm it is listed with. In    *)
(* IsMarketValid mm is the store after the message, in MarketMap's         *)
(* ValidateBasic the whole map.                                            *)
ValidBy(m, mm) ==
  \A t \in m.normalize : mm[t] # NoMarket /\ (m.enabled => mm[t].enabled)

(* ValidateState looks at the markets of the message only.                 *)
ValidateState(msg) == \A i \in DOMAIN msg : ValidBy(msg[i].market, SetAll(msg))

MarketMapValidateBasic(mm) ==
  \A t \in CurrencyPair : mm[t] # NoMarket => ValidBy(mm[t], mm)

VerifyMarketAuthorities(authority) == authority \in Range(marketAuthorities)

(* Faulty variant: the height is forgotten.                                *)
SetLastUpdatedNever == UNCHANGED lastUpdated

SetLastUpdated == lastUpdated' = blockHeight

(* Faulty variant: the hook is not run.                                    *)
AfterMarketsCreatedNever(tickers) == UNCHANGED <<currencyPairs, nextCurrencyPairID, numCPs>>

(* AfterMarketCreated of x/oracle for every created market in turn: an     *)
(* error if the pair has state, which reverts the message.                 *)
AfterMarketsCreated(tickers) ==
  /\ \A i \in DOMAIN tickers : ~HasCurrencyPair(tickers[i])
  /\ CreateAll(tickers)

CreateMarkets(authority, msg) ==
  /\ VerifyMarketAuthorities(authority)
  /\ IsInjective(Tickers(msg)) /\ \A i \in DOMAIN msg : ~HasMarket(msg[i].ticker)
  /\ AfterMarketsCreated(Tickers(msg))
  /\ ValidateState(msg)
  /\ markets' = SetAll(msg)
  /\ SetLastUpdated
  /\ UNCHANGED <<numRemoves, marketAuthorities, admin, blockHeight, client>>

(* AfterMarketUpdated of x/oracle does nothing.                            *)
UpdateMarkets(authority, msg) ==
  /\ VerifyMarketAuthorities(authority)
  /\ \A i \in DOMAIN msg : HasMarket(msg[i].ticker)
  /\ ValidateState(msg)
  /\ markets' = SetAll(msg)
  /\ SetLastUpdated
  /\ UNCHANGED <<keeperVars, marketAuthorities, admin, blockHeight, client>>

(* The entries of an upsert that create a market, at their positions.      *)
NewTickers(msg) == [i \in {j \in DOMAIN msg : ~HasMarket(msg[j].ticker)} |-> msg[i].ticker]

(* The message may name a ticker once.                                     *)
UpsertMarkets(authority, msg) ==
  /\ VerifyMarketAuthorities(authority)
  /\ IsInjective(Tickers(msg))
  /\ AfterMarketsCreated(NewTickers(msg))
  /\ ValidateState(msg)
  /\ markets' = SetAll(msg)
  /\ SetLastUpdated
  /\ UNCHANGED <<numRemoves, marketAuthorities, admin, blockHeight, client>>

(* Faulty variant: the rest of the map is not checked.                     *)
DeletableUnchecked(ts) == \A t \in ts : HasMarket(t) => ~markets[t].enabled

(* DefaultDeleteMarketValidationHook refuses an enabled market, and what   *)
(* remains must be valid. A ticker without a market is skipped.            *)
Deletable(ts) ==
  /\ \A t \in ts : HasMarket(t) => ~markets[t].enabled
  /\ MarketMapValidateBasic([t \in CurrencyPair |-> IF t \in ts THEN NoMarket ELSE markets[t]])

(* RemoveMarkets: x/oracle retains the state of the pairs, and lastUpdated *)
(* stays.                                                                  *)
RemoveMarkets(authority, ts) ==
  /\ VerifyMarketAuthorities(authority)
  /\ Deletable(ts)
  /\ markets' = [t \in CurrencyPair |-> IF t \in ts THEN NoMarket ELSE markets[t]]
  /\ UNCHANGED <<keeperVars, lastUpdated, marketAuthorities, admin, blockHeight, client>>

(* UpdateParams by the module's authority.                                 *)
UpdateParams(auths, adm) ==
  /\ marketAuthorities' = auths
  /\ admin' = adm
  /\ UNCHANGED <<keeperVars, markets, lastUpdated, blockHeight, client>>

(* slices.Delete inside a range over the same slice: deleting at i moves   *)
(* the next address to i, and the loop goes on at i + 1. The range runs to *)
(* the old length; the vacated tail is zeroed and matches nothing.         *)
DeletedInRange(auths, removed) ==
  LET after[i \in 0..Len(auths)] ==
        IF i = 0 THEN auths
        ELSE IF i <= Len(after[i - 1]) /\ after[i - 1][i] \in removed
             THEN RemoveAt(after[i - 1], i)
             ELSE after[i - 1]
  IN  after[Len(auths)]

(* RemoveMarketAuthorities by the admin.                                   *)
RemoveMarketAuthorities(sender, removed) ==
  /\ sender = admin
  /\ Cardinality(removed) <= Len(marketAuthorities)
  /\ marketAuthorities' = DeletedInRange(marketAuthorities, removed)
  /\ UNCHANGED <<keeperVars, markets, lastUpdated, admin, blockHeight, client>>

(* EnableMarket and DisableMarket of the keeper, for other modules of the  *)
(* application to call: the flag is set and nothing is checked. No message *)
(* calls them.                                                             *)
SetEnabled(t, flag) ==
  /\ HasMarket(t)
  /\ markets' = [markets EXCEPT ![t].enabled = flag]
  /\ client' = [client EXCEPT !.switched = @ \cup {t}]
  /\ UNCHANGED <<keeperVars, lastUpdated, marketAuthorities, admin, blockHeight>>

(* A chain restarts from the genesis both modules export. InitGenesis      *)
(* panics on an invalid map and AfterMarketGenesis on a market whose pair  *)
(* x/oracle does not have: then there is no such step. The new chain goes  *)
(* on at the height of the export.                                         *)
Restart ==
  /\ ExportAndInitGenesis
  /\ MarketMapValidateBasic(markets)
  /\ \A t \in Listed : HasCurrencyPair(t)'
  /\ UNCHANGED marketMapVars

(* MarketMap of the query server. A query sees the committed state.        *)
QueryMarketMap ==
  client' = [lastUpdated |-> lastUpdated, markets |-> markets, switched |-> {}]

(* The block is committed, a client may query its state, and the next      *)
(* block begins.                                                           *)
NextBlock ==
  /\ blockHeight < MaxBlock
  /\ blockHeight' = blockHeight + 1
  /\ BeginBlocker
  /\ QueryMarketMap \/ UNCHANGED client
  /\ UNCHANGED <<markets, lastUpdated, marketAuthorities, admin>>

-----------------------------------------------------------------------------
(* InitGenesis of both modules, x/oracle first: the map is valid and       *)
(* AfterMarketGenesis found every market's pair in x/oracle.               *)
Init ==
  /\ InitGenesis
  /\ \A cp \in Tracked : currencyPairs[cp].price = NilPrice
  /\ markets \in [CurrencyPair -> MarketConfigs \cup {NoMarket}]
  /\ MarketMapValidateBasic(markets)
  /\ Listed \subseteq Tracked
  /\ lastUpdated = 0 /\ blockHeight = 1
  /\ marketAuthorities \in Authorities /\ admin \in Account
  /\ client = [lastUpdated |-> 0, markets |-> markets, switched |-> {}]

MarketMapNext ==
  \/ \E authority \in Account, msg \in MarketMsgs :
       CreateMarkets(authority, msg) \/ UpdateMarkets(authority, msg) \/ UpsertMarkets(authority, msg)
  \/ \E authority \in Account, ts \in (SUBSET CurrencyPair) \ {{}} : RemoveMarkets(authority, ts)
  \/ NextBlock
  \/ Restart

ParamsNext ==
  \/ \E auths \in Authorities, adm \in Account : UpdateParams(auths, adm)
  \/ \E sender \in Account, removed \in (SUBSET Account) \ {{}} :
       RemoveMarketAuthorities(sender, removed)

Next == MarketMapNext \/ ParamsNext

Spec == Init /\ [][Next]_vars

(* With other modules that switch markets on and off.                      *)
APINext == Next \/ \E t \in CurrencyPair, flag \in BOOLEAN : SetEnabled(t, flag)
APISpec == Init /\ [][APINext]_vars

-----------------------------------------------------------------------------
(* Type invariant of both modules.                                         *)
MarketMapTypeOK ==
  /\ KeeperTypeOK
  /\ markets \in [CurrencyPair -> Market \cup {NoMarket}]
  /\ marketAuthorities \in Seq(Account) /\ admin \in Account
  /\ lastUpdated \in Nat /\ blockHeight \in Nat /\ lastUpdated <= blockHeight
  /\ client \in Client

(* Every market's pair has state in x/oracle, whatever sequence of         *)
(* creations, removals and upserts led here: its prices are never dropped. *)
MarketsAreTracked == Listed \subseteq Tracked

(* The pairs that a market normalizes by are listed: no removal or update  *)
(* ever leaves a dangling conversion.                                      *)
NormalizePairsListed == \A t \in Listed : markets[t].normalize \subseteq Listed

(* "LastUpdated is the last block height that the market map was updated" *)
(* (query.proto): a client that keeps the map it read and polls the height *)
(* is never behind by a creation or an update of a market, be it of the    *)
(* enabled flag alone, over any number of blocks and restarts. What the    *)
(* height hides is the removal of a market that the client holds as        *)
(* disabled, which RemoveMarkets does not record, and the switches of      *)
(* other modules, which EnableMarket and DisableMarket do not record.      *)
PollersKeepUp ==
  client.lastUpdated = lastUpdated =>
    \A t \in CurrencyPair \ client.switched :
      \/ markets[t] = client.markets[t]
      \/ client.markets[t] # NoMarket /\ ~client.markets[t].enabled /\ markets[t] = NoMarket

(* "It contains the new addresses to remove from the list of authorities"  *)
(* (tx.proto): none of them is in the list that RemoveMarketAuthorities    *)
(* stores.                                                                 *)
RemovedAuthoritiesGone ==
  [][\A sender \in Account, removed \in SUBSET Account :
       RemoveMarketAuthorities(sender, removed)
         => Range(marketAuthorities') \cap removed = {}]_vars
=============================================================================
