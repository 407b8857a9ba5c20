---------------------------- MODULE OracleKeeper ----------------------------
(***************************************************************************)
(* The x/oracle module's keeper: the store of tracked currency pairs, its  *)
(* id sequence and its two counters, the message server, the genesis       *)
(* import/export and the begin-blocker.                                    *)
(*                                                                         *)
(* A message handler runs inside a transaction, so an action is a whole    *)
(* message: an error anywhere in it reverts everything the message did.    *)
(* The loops of the handlers are written in closed form (the i-th new pair *)
(* of a message gets the i-th next id), so that TLAPS can reason about     *)
(* messages of any length.                                                 *)
(***************************************************************************)
EXTENDS Integers, FiniteSets, Sequences

CONSTANTS
  CurrencyPair,   \* the pairs a message may name
  Price,          \* the quote prices a block may write (price, time, height)
  NilPrice,       \* CurrencyPairState.Price == nil: no update was ever made
  NoState,        \* the pair has no entry in the store
  Uint64,         \* 2^64: the counters are unsigned 64-bit integers
  MaxMsgLen,      \* bound: pairs named by one message
  MaxID,          \* bound: ids ever handed out by the sequence
  MaxNonce        \* bound: price updates of one pair

ASSUME KeeperConstants ==
  /\ IsFiniteSet(CurrencyPair)
  /\ NilPrice \notin Price
  /\ Uint64 \in Nat /\ Cardinality(CurrencyPair) < Uint64
  /\ MaxMsgLen \in Nat /\ MaxID \in Nat /\ MaxNonce \in Nat
  /\ NoState \notin [id : Nat, nonce : Nat, price : Price \cup {NilPrice}]

VARIABLES
  currencyPairs,       \* the indexed map: pair -> [id, nonce, price] or NoState
  nextCurrencyPairID,  \* the sequence's next value
  numRemoves,          \* pairs removed in the current block
  numCPs               \* the number of pairs

keeperVars == <<currencyPairs, nextCurrencyPairID, numRemoves, numCPs>>

CurrencyPairState == [id : Nat, nonce : Nat, price : Price \cup {NilPrice}]

(* The store's contents are what Has, GetAll and IterateCurrencyPairs see.  *)
Tracked == {cp \in CurrencyPair : currencyPairs[cp] # NoState}
HasCurrencyPair(cp) == currencyPairs[cp] # NoState

NewCurrencyPairState(i, n, p) == [id |-> i, nonce |-> n, price |-> p]

-----------------------------------------------------------------------------
(* Messages: sequences of pairs, possibly with repetitions. ValidateBasic  *)
(* checks the format of each pair only.                                    *)
Messages == UNION {[1..n -> CurrencyPair] : n \in 0..MaxMsgLen}
Named(msg) == {msg[i] : i \in DOMAIN msg}

(* Faulty variant: a repeated mention creates the pair again.              *)
CreatedAtRepeated(msg) == {i \in DOMAIN msg : ~HasCurrencyPair(msg[i])}

(* The positions at which AddCurrencyPairs creates a pair: the first       *)
(* mention of a pair that has no state (later ones find it and skip).      *)
CreatedAt(msg) ==
  {i \in DOMAIN msg : /\ ~HasCurrencyPair(msg[i])
                      /\ \A j \in DOMAIN msg : j < i => msg[j] # msg[i]}

Created(msg) == {msg[i] : i \in CreatedAt(msg)}
PositionOf(msg, cp) == CHOOSE i \in CreatedAt(msg) : msg[i] = cp

(* Faulty variants of the next operator: one id for all pairs of a message, *)
(* the sequence's value after the right one, the number of pairs           *)
(* instead of the sequence.                                                *)
IDAtPeeked(msg, i) == nextCurrencyPairID
IDAtTooHigh(msg, i) == nextCurrencyPairID + Cardinality({j \in CreatedAt(msg) : j <= i})
IDAtFromCount(msg, i) == numCPs + Cardinality({j \in CreatedAt(msg) : j < i})

(* The id given out at position i: one Next() per earlier creation.        *)
IDAt(msg, i) ==
  nextCurrencyPairID + Cardinality({j \in CreatedAt(msg) : j < i})

(* CreateCurrencyPair of every pair the message creates: the sequence      *)
(* advances and the counter is incremented once for each.                  *)
CreateAll(msg) ==
  LET n == Cardinality(CreatedAt(msg))
  IN  /\ nextCurrencyPairID + n <= MaxID
      /\ currencyPairs' =
           [cp \in CurrencyPair |->
              IF cp \in Created(msg)
              THEN NewCurrencyPairState(IDAt(msg, PositionOf(msg, cp)), 0, NilPrice)
              ELSE currencyPairs[cp]]
      /\ nextCurrencyPairID' = nextCurrencyPairID + n
      /\ numCPs' = numCPs + n

(* MsgAddCurrencyPairs by the module's authority, with no x/marketmap.     *)
AddCurrencyPairs(msg) ==
  /\ CreateAll(msg)
  /\ UNCHANGED numRemoves

(* CreateCurrencyPair fails if the pair exists: the call a market's        *)
(* creation makes through the AfterMarketCreated hook.                     *)
CreateCurrencyPair(cp) ==
  /\ ~HasCurrencyPair(cp)
  /\ CreateAll(<<cp>>)
  /\ UNCHANGED numRemoves

(* MsgRemoveCurrencyPairs succeeds only if every pair it names is tracked  *)
(* when its turn comes, hence named once: RemoveCurrencyPair of a pair     *)
(* without state is an error and the whole message is reverted.            *)
Removable(msg) ==
  /\ \A i \in DOMAIN msg : HasCurrencyPair(msg[i])
  /\ \A i, j \in DOMAIN msg : i # j => msg[i] # msg[j]

(* Faulty variant: the counters move once per message.                     *)
RemovedByOnce(msg) == IF msg = <<>> THEN 0 ELSE 1

(* incrementRemovedCPCounter and decrementCPCounter run once per pair.     *)
RemovedBy(msg) == Cardinality(Named(msg))

RemoveCurrencyPairs(msg) ==
  /\ Removable(msg)
  /\ currencyPairs' = [cp \in CurrencyPair |->
                         IF cp \in Named(msg) THEN NoState ELSE currencyPairs[cp]]
  /\ numRemoves' = numRemoves + RemovedBy(msg)
  /\ numCPs' = (numCPs - RemovedBy(msg)) % Uint64
  /\ UNCHANGED nextCurrencyPairID

(* Faulty variant: the price is written without counting the update.       *)
UpdatedSilently(cps, p) == NewCurrencyPairState(cps.id, cps.nonce, p)

(* SetPriceForCurrencyPair of a tracked pair: the nonce counts the update. *)
Updated(cps, p) == NewCurrencyPairState(cps.id, cps.nonce + 1, p)

(* The price applier's loop: every tracked pair that got a price. It walks *)
(* the store, so a price for a pair without state is never written.        *)
ApplyPrices(prices) ==
  /\ \A cp \in DOMAIN prices \cap Tracked : currencyPairs[cp].nonce < MaxNonce
  /\ currencyPairs' = [cp \in CurrencyPair |->
                         IF HasCurrencyPair(cp) /\ cp \in DOMAIN prices
                         THEN Updated(currencyPairs[cp], prices[cp])
                         ELSE currencyPairs[cp]]
  /\ UNCHANGED <<nextCurrencyPairID, numRemoves, numCPs>>

(* BeginBlocker forgets the removals of the previous block.                *)
BeginBlocker ==
  /\ numRemoves' = 0
  /\ UNCHANGED <<currencyPairs, nextCurrencyPairID, numCPs>>

-----------------------------------------------------------------------------
(* Genesis. A genesis state is a list; what the import depends on is the   *)
(* set of entries, as Validate refuses a repeated pair or id.              *)
ExportGenesis ==
  [nextId |-> nextCurrencyPairID,
   pairs  |-> {[cp |-> cp, state |-> currencyPairs[cp]] : cp \in Tracked}]

GenesisValid(gs) ==
  /\ \A e \in gs.pairs : /\ e.state.price = NilPrice => e.state.nonce = 0
                         /\ e.state.id < gs.nextId
  /\ \A e, f \in gs.pairs : e # f => e.cp # f.cp /\ e.state.id # f.state.id

(* What InitGenesis puts into an empty store.                              *)
ImportedPairs(gs) ==
  [cp \in CurrencyPair |->
     IF \E e \in gs.pairs : e.cp = cp
     THEN (CHOOSE e \in gs.pairs : e.cp = cp).state
     ELSE NoState]

(* A chain is exported and restarted from its own genesis file. InitGenesis *)
(* panics on an invalid genesis state: then there is no such step.         *)
ExportAndInitGenesis ==
  /\ GenesisValid(ExportGenesis)
  /\ currencyPairs' = ImportedPairs(ExportGenesis)
  /\ nextCurrencyPairID' = ExportGenesis.nextId
  /\ numCPs' = Cardinality(ExportGenesis.pairs)
  /\ numRemoves' = 0

-----------------------------------------------------------------------------
(* A chain starts from a valid genesis state: some tracked pairs with      *)
(* distinct ids below the next id, a price or none.                        *)
InitGenesis ==
  /\ nextCurrencyPairID \in 0..MaxID
  /\ currencyPairs \in [CurrencyPair -> {NoState} \cup
                          {s \in [id : 0..MaxID, nonce : 0..MaxNonce,
                                  price : Price \cup {NilPrice}] :
                             /\ s.id < nextCurrencyPairID
                             /\ s.price = NilPrice => s.nonce = 0}]
  /\ \A cp, dp \in Tracked : cp # dp => currencyPairs[cp].id # currencyPairs[dp].id
  /\ numCPs = Cardinality(Tracked)
  /\ numRemoves = 0

KeeperNext ==
  \/ \E msg \in Messages : AddCurrencyPairs(msg) \/ RemoveCurrencyPairs(msg)
  \/ \E cps \in SUBSET CurrencyPair : \E prices \in [cps -> Price] : ApplyPrices(prices)
  \/ BeginBlocker
  \/ ExportAndInitGenesis

KeeperSpec == InitGenesis /\ [][KeeperNext]_keeperVars

-----------------------------------------------------------------------------
(* Type invariant: every entry of the store is a CurrencyPairState and the *)
(* counters are natural numbers.                                           *)
KeeperTypeOK ==
  /\ currencyPairs \in [CurrencyPair -> CurrencyPairState \cup {NoState}]
  /\ nextCurrencyPairID \in Nat
  /\ numRemoves \in Nat
  /\ numCPs \in Nat

(* The unique index never finds two pairs under one id, and the sequence   *)
(* has passed every id in use: a message that mixes new, known and         *)
(* repeated pairs, removals in between and a restart from an exported      *)
(* genesis leave no two pairs that a vote extension could confuse.         *)
IDsUnique ==
  /\ \A cp \in Tracked : currencyPairs[cp].id < nextCurrencyPairID
  /\ \A cp, dp \in Tracked : cp # dp => currencyPairs[cp].id # currencyPairs[dp].id

(* "numCPs is the number of CPs" (keeper.go): the counter that bounds the  *)
(* size of vote extensions agrees with the store, whatever is added,       *)
(* skipped, removed, reverted or imported.                                 *)
NumCPsExact == numCPs = Cardinality(Tracked)

(* A pair without a price has never been updated.                          *)
NonceHasPrice ==
  \A cp \in Tracked : currencyPairs[cp].price = NilPrice => currencyPairs[cp].nonce = 0

(* The genesis file a running chain exports is one that InitGenesis takes: *)
(* a restart never panics on the chain's own state.                        *)
ExportImportable == GenesisValid(ExportGenesis)

(* An id is handed out once: a pair that appears, also one that was        *)
(* removed before, gets an id the sequence had not reached. A vote         *)
(* extension signed before a removal can therefore never price the pair    *)
(* created after it.                                                       *)
NewIDsAreFresh ==
  [][\A cp \in CurrencyPair :
       (HasCurrencyPair(cp)' /\ (HasCurrencyPair(cp) => currencyPairs'[cp].id # currencyPairs[cp].id))
         => nextCurrencyPairID <= currencyPairs'[cp].id]_keeperVars

(* Id and nonce identify a price: as long as a pair keeps its id its nonce *)
(* only grows, and while its nonce stands still so does its price.         *)
StampIdentifiesPrice ==
  [][\A cp \in Tracked :
       (HasCurrencyPair(cp)' /\ currencyPairs'[cp].id = currencyPairs[cp].id)
         => /\ currencyPairs[cp].nonce <= currencyPairs'[cp].nonce
            /\ currencyPairs'[cp].nonce = currencyPairs[cp].nonce
                 => currencyPairs'[cp].price = currencyPairs[cp].price]_keeperVars

(* The pairs that a step takes from the store.                             *)
Lost == {cp \in Tracked : ~HasCurrencyPair(cp)'}

(* A pair never leaves the store uncounted: whatever a step forgets is     *)
(* added to numRemoves, which is what lets the next proposal still accept  *)
(* vote extensions that price the forgotten pairs.                         *)
LossesAreCounted ==
  [][Lost # {} => numRemoves' = numRemoves + Cardinality(Lost)]_keeperVars
=============================================================================
