------------------------- MODULE OracleKeeperProofs -------------------------
(***************************************************************************)
(* Proofs about the x/oracle keeper, for every set of pairs and prices and *)
(* messages of every length.                                               *)
(***************************************************************************)
EXTENDS OracleKeeper, FiniteSetTheorems, TLAPS

(* The inductive invariant: the type invariant, the two properties of the  *)
(* ids, the counter, and the fact about unpriced pairs that the genesis    *)
(* validation needs.                                                       *)
KeeperInv == KeeperTypeOK /\ IDsUnique /\ NumCPsExact /\ NonceHasPrice

-----------------------------------------------------------------------------
(* The store holds finitely many pairs, fewer than the counter can count.  *)
LEMMA TrackedFinite ==
  /\ IsFiniteSet(Tracked)
  /\ Cardinality(Tracked) \in Nat
  /\ Cardinality(Tracked) < Uint64
<1>1. Tracked \in SUBSET CurrencyPair
  BY DEF Tracked
<1>2. IsFiniteSet(Tracked) /\ Cardinality(Tracked) <= Cardinality(CurrencyPair)
  BY <1>1, KeeperConstants, FS_Subset DEF KeeperConstants
<1>3. Cardinality(Tracked) \in Nat /\ Cardinality(CurrencyPair) \in Nat
  BY <1>2, KeeperConstants, FS_CardinalityType
<1> QED
  BY <1>2, <1>3, KeeperConstants

(* A message is a finite sequence of pairs.                                *)
LEMMA MessageShape ==
  ASSUME NEW msg \in Messages
  PROVE  \E n \in Nat : n <= MaxMsgLen /\ DOMAIN msg = 1..n /\ msg \in [1..n -> CurrencyPair]
<1>1. PICK n \in 0..MaxMsgLen : msg \in [1..n -> CurrencyPair]
  BY DEF Messages
<1>2. n \in Nat /\ n <= MaxMsgLen
  BY KeeperConstants
<1> QED
  BY <1>1, <1>2

(* What the lemmas on creations need of a message: pairs at positions. A   *)
(* message has them at all positions up to its length; the entries of a    *)
(* market map's upsert that create a market need not.                      *)
Mentions == UNION {[D -> CurrencyPair] : D \in SUBSET (1..MaxMsgLen)}

(* A message is a sequence of mentioned pairs.                             *)
LEMMA MessagesAreMentions == Messages \subseteq Mentions
<1> SUFFICES ASSUME NEW msg \in Messages PROVE msg \in Mentions
  OBVIOUS
<1>1. PICK n \in Nat : n <= MaxMsgLen /\ msg \in [1..n -> CurrencyPair]
  BY MessageShape
<1>2. 1..n \in SUBSET (1..MaxMsgLen)
  BY <1>1, KeeperConstants
<1> QED
  BY <1>1, <1>2 DEF Mentions

(* A message creates every pair at one position, and nothing that was      *)
(* tracked.                                                                *)
LEMMA CreatedFacts ==
  ASSUME NEW msg \in Mentions
  PROVE  /\ IsFiniteSet(CreatedAt(msg))
         /\ Cardinality(CreatedAt(msg)) \in Nat
         /\ CreatedAt(msg) \subseteq Nat
         /\ Created(msg) \subseteq CurrencyPair
         /\ Created(msg) \cap Tracked = {}
         /\ IsFiniteSet(Created(msg))
         /\ Cardinality(Created(msg)) = Cardinality(CreatedAt(msg))
         /\ \A cp \in Created(msg) :
              PositionOf(msg, cp) \in CreatedAt(msg) /\ msg[PositionOf(msg, cp)] = cp
<1> DEFINE n == MaxMsgLen
<1>1. PICK D \in SUBSET (1..n) : DOMAIN msg = D /\ msg \in [D -> CurrencyPair]
  BY DEF Mentions
<1>2. IsFiniteSet(1..n) /\ n \in Nat
  BY FS_Interval, KeeperConstants
<1>3. CreatedAt(msg) \in SUBSET (1..n)
  BY <1>1 DEF CreatedAt
<1>4. IsFiniteSet(CreatedAt(msg))
  BY <1>2, <1>3, FS_Subset
<1>5. Cardinality(CreatedAt(msg)) \in Nat
  BY <1>4, FS_CardinalityType
<1>6. Created(msg) \subseteq CurrencyPair /\ Created(msg) \cap Tracked = {}
  BY <1>1, <1>3 DEF Created, CreatedAt, Tracked, HasCurrencyPair
<1>7. \A cp \in Created(msg) :
         PositionOf(msg, cp) \in CreatedAt(msg) /\ msg[PositionOf(msg, cp)] = cp
  BY DEF Created, PositionOf
<1>8. \A i, j \in CreatedAt(msg) : msg[i] = msg[j] => i = j
  BY <1>1, <1>2, <1>3 DEF CreatedAt
<1>9. IsFiniteSet(Created(msg)) /\ Cardinality(Created(msg)) = Cardinality(CreatedAt(msg))
  <2> DEFINE f == [i \in CreatedAt(msg) |-> msg[i]]
  <2>1. f \in Bijection(CreatedAt(msg), Created(msg))
    BY <1>8 DEF Created, Bijection, Injection, Surjection, IsInjective
  <2>2. ExistsBijection(CreatedAt(msg), Created(msg))
    BY <2>1 DEF ExistsBijection
  <2> QED
    BY <2>2, <1>4, FS_Bijection
<1> QED
  BY <1>1, <1>2, <1>3, <1>4, <1>5, <1>6, <1>7, <1>9

(* The ids of one message: each lies between the sequence's value before   *)
(* and after the message, and different pairs get different ids.           *)
LEMMA CreatedIDs ==
  ASSUME KeeperTypeOK, NEW msg \in Mentions
  PROVE  /\ \A cp \in Created(msg) :
              LET id == IDAt(msg, PositionOf(msg, cp))
              IN  /\ id \in Nat
                  /\ nextCurrencyPairID <= id
                  /\ id < nextCurrencyPairID + Cardinality(CreatedAt(msg))
         /\ \A cp, dp \in Created(msg) :
              cp # dp => IDAt(msg, PositionOf(msg, cp)) # IDAt(msg, PositionOf(msg, dp))
<1> DEFINE new == CreatedAt(msg)
           before(i) == {j \in new : j < i}
<1>1. /\ IsFiniteSet(new) /\ Cardinality(new) \in Nat /\ new \subseteq Nat
      /\ \A cp \in Created(msg) :
           PositionOf(msg, cp) \in new /\ msg[PositionOf(msg, cp)] = cp
  BY CreatedFacts
<1>2. \A i \in new : /\ IsFiniteSet(before(i))
                     /\ Cardinality(before(i)) \in Nat
                     /\ Cardinality(before(i)) < Cardinality(new)
  <2> SUFFICES ASSUME NEW i \in new
               PROVE  /\ IsFiniteSet(before(i))
                      /\ Cardinality(before(i)) \in Nat
                      /\ Cardinality(before(i)) < Cardinality(new)
    OBVIOUS
  <2>1. before(i) \in SUBSET new /\ before(i) # new
    BY <1>1
  <2>2. /\ IsFiniteSet(before(i))
        /\ Cardinality(before(i)) <= Cardinality(new)
        /\ Cardinality(new) # Cardinality(before(i))
    BY <1>1, <2>1, FS_Subset
  <2>3. Cardinality(before(i)) \in Nat
    BY <2>2, FS_CardinalityType
  <2> HIDE DEF before, new
  <2> QED
    BY <1>1, <2>2, <2>3
<1>3. \A i, j \in new : i < j => Cardinality(before(i)) < Cardinality(before(j))
  <2> SUFFICES ASSUME NEW i \in new, NEW j \in new, i < j
               PROVE  Cardinality(before(i)) < Cardinality(before(j))
    OBVIOUS
  <2>1. before(i) \in SUBSET before(j) /\ before(i) # before(j)
    BY <1>1
  <2>2. /\ Cardinality(before(i)) <= Cardinality(before(j))
        /\ Cardinality(before(j)) # Cardinality(before(i))
    BY <1>2, <2>1, FS_Subset
  <2> HIDE DEF before, new
  <2> QED
    BY <1>2, <2>2
<1>4. \A i : IDAt(msg, i) = nextCurrencyPairID + Cardinality(before(i))
  BY DEF IDAt
<1>5. nextCurrencyPairID \in Nat
  BY DEF KeeperTypeOK
<1> HIDE DEF before, new
<1>6. \A cp \in Created(msg) :
        LET id == IDAt(msg, PositionOf(msg, cp))
        IN  /\ id \in Nat
            /\ nextCurrencyPairID <= id
            /\ id < nextCurrencyPairID + Cardinality(new)
  <2> SUFFICES ASSUME NEW cp \in Created(msg)
               PROVE  LET id == IDAt(msg, PositionOf(msg, cp))
                      IN  /\ id \in Nat
                          /\ nextCurrencyPairID <= id
                          /\ id < nextCurrencyPairID + Cardinality(new)
    OBVIOUS
  <2>1. PositionOf(msg, cp) \in new
    BY <1>1
  <2>2. /\ Cardinality(before(PositionOf(msg, cp))) \in Nat
        /\ Cardinality(before(PositionOf(msg, cp))) < Cardinality(new)
    BY <1>2, <2>1
  <2>3. IDAt(msg, PositionOf(msg, cp)) =
          nextCurrencyPairID + Cardinality(before(PositionOf(msg, cp)))
    BY <1>4
  <2> QED
    BY <1>1, <1>5, <2>2, <2>3
<1>7. ASSUME NEW cp \in Created(msg), NEW dp \in Created(msg), cp # dp
      PROVE  IDAt(msg, PositionOf(msg, cp)) # IDAt(msg, PositionOf(msg, dp))
  <2> DEFINE i == PositionOf(msg, cp)
             j == PositionOf(msg, dp)
  <2>1. i \in new /\ j \in new /\ i # j /\ i \in Nat /\ j \in Nat
    BY <1>1, <1>7
  <2>2. i < j \/ j < i
    BY <2>1
  <2>3. /\ Cardinality(before(i)) \in Nat /\ Cardinality(before(j)) \in Nat
        /\ Cardinality(before(i)) # Cardinality(before(j))
    BY <1>2, <1>3, <2>1, <2>2
  <2> QED
    BY <1>4, <1>5, <2>3
<1> QED
  BY <1>6, <1>7 DEF new

-----------------------------------------------------------------------------
(* Every genesis state the chain may start from satisfies the invariant.   *)
LEMMA InitInv == InitGenesis => KeeperInv
<1> SUFFICES ASSUME InitGenesis PROVE KeeperInv
  OBVIOUS
<1>1. nextCurrencyPairID \in Nat
  BY KeeperConstants DEF InitGenesis
<1>2. \A cp \in CurrencyPair :
        currencyPairs[cp] = NoState \/
          /\ currencyPairs[cp] \in CurrencyPairState
          /\ currencyPairs[cp].id < nextCurrencyPairID
          /\ currencyPairs[cp].price = NilPrice => currencyPairs[cp].nonce = 0
  BY KeeperConstants DEF InitGenesis, CurrencyPairState
<1>3. KeeperTypeOK
  BY <1>1, <1>2, TrackedFinite DEF InitGenesis, KeeperTypeOK
<1>4. IDsUnique /\ NonceHasPrice
  BY <1>2 DEF InitGenesis, IDsUnique, NonceHasPrice, Tracked
<1>5. NumCPsExact
  BY DEF InitGenesis, NumCPsExact
<1> QED
  BY <1>3, <1>4, <1>5 DEF KeeperInv

(* Creating the new pairs of a message preserves the invariant.            *)
LEMMA CreateAllInv ==
  ASSUME KeeperInv, NEW msg \in Mentions, CreateAll(msg), UNCHANGED numRemoves
  PROVE  KeeperInv'
<1> DEFINE n == Cardinality(CreatedAt(msg))
           fresh(cp) == NewCurrencyPairState(IDAt(msg, PositionOf(msg, cp)), 0, NilPrice)
<1>1. KeeperTypeOK /\ IDsUnique /\ NumCPsExact /\ NonceHasPrice
  BY DEF KeeperInv
<1>2. /\ n \in Nat
      /\ Created(msg) \subseteq CurrencyPair
      /\ Created(msg) \cap Tracked = {}
      /\ IsFiniteSet(Created(msg)) /\ Cardinality(Created(msg)) = n
  BY CreatedFacts
<1>3. \A cp \in Created(msg) :
        /\ fresh(cp) \in CurrencyPairState
        /\ fresh(cp).id = IDAt(msg, PositionOf(msg, cp))
        /\ fresh(cp).price = NilPrice /\ fresh(cp).nonce = 0
        /\ nextCurrencyPairID <= fresh(cp).id
        /\ fresh(cp).id < nextCurrencyPairID + n
  BY <1>1, CreatedIDs DEF NewCurrencyPairState, CurrencyPairState
<1>4. \A cp, dp \in Created(msg) : cp # dp => fresh(cp).id # fresh(dp).id
  BY <1>1, <1>3, CreatedIDs
<1>5. /\ currencyPairs' = [cp \in CurrencyPair |->
                             IF cp \in Created(msg) THEN fresh(cp) ELSE currencyPairs[cp]]
      /\ nextCurrencyPairID' = nextCurrencyPairID + n
      /\ numCPs' = numCPs + n
  BY DEF CreateAll
<1>6. NoState \notin CurrencyPairState
  BY KeeperConstants DEF CurrencyPairState
<1> HIDE DEF fresh, n
<1>7. KeeperTypeOK'
  BY <1>1, <1>2, <1>3, <1>5 DEF KeeperTypeOK
<1>8. Tracked' = Tracked \cup Created(msg)
  BY <1>2, <1>3, <1>5, <1>6 DEF Tracked
<1>9. \A cp \in Tracked' : \/ cp \in Created(msg) /\ currencyPairs'[cp] = fresh(cp)
                          \/ /\ cp \in Tracked /\ cp \notin Created(msg)
                             /\ currencyPairs'[cp] = currencyPairs[cp]
                             /\ currencyPairs[cp] \in CurrencyPairState
  BY <1>1, <1>2, <1>5, <1>8 DEF Tracked, KeeperTypeOK
<1>10. IDsUnique'
  <2>1. \A cp \in Tracked : currencyPairs[cp].id \in Nat /\ currencyPairs[cp].id < nextCurrencyPairID
    BY <1>1 DEF KeeperTypeOK, IDsUnique, Tracked, CurrencyPairState
  <2>2. \A cp \in Created(msg) : fresh(cp).id \in Nat
    BY <1>3 DEF CurrencyPairState
  <2>3. nextCurrencyPairID \in Nat /\ n \in Nat
    BY <1>1, <1>2 DEF KeeperTypeOK
  <2>4. \A cp \in Tracked' : currencyPairs'[cp].id < nextCurrencyPairID'
    BY <1>3, <1>5, <1>9, <2>1, <2>2, <2>3
  <2>5. \A cp, dp \in Tracked' : cp # dp => currencyPairs'[cp].id # currencyPairs'[dp].id
    BY <1>1, <1>3, <1>4, <1>9, <2>1, <2>2, <2>3 DEF IDsUnique
  <2> QED
    BY <2>4, <2>5 DEF IDsUnique
<1>11. NumCPsExact'
  <2>1. Cardinality(Tracked \cup Created(msg)) =
           Cardinality(Tracked) + n - Cardinality(Tracked \cap Created(msg))
    BY <1>2, TrackedFinite, FS_Union
  <2>2. Cardinality(Tracked \cap Created(msg)) = 0
    BY <1>2, FS_EmptySet
  <2> QED
    BY <1>1, <1>2, <1>5, <1>8, <2>1, <2>2, TrackedFinite DEF NumCPsExact
<1>12. NonceHasPrice'
  BY <1>1, <1>3, <1>9 DEF NonceHasPrice
<1> QED
  BY <1>7, <1>10, <1>11, <1>12 DEF KeeperInv

(* Removing the pairs of a message preserves the invariant: the guard      *)
(* makes every decrement of the counter one of a pair in the store, so it  *)
(* never wraps around.                                                     *)
LEMMA RemoveInv ==
  ASSUME KeeperInv, NEW msg \in Messages, RemoveCurrencyPairs(msg)
  PROVE  KeeperInv'
<1> DEFINE r == Named(msg)
<1>1. KeeperTypeOK /\ IDsUnique /\ NumCPsExact /\ NonceHasPrice
  BY DEF KeeperInv
<1>2. r \in SUBSET Tracked
  BY MessageShape DEF RemoveCurrencyPairs, Removable, Named, Tracked, HasCurrencyPair
<1>3. IsFiniteSet(r) /\ Cardinality(r) \in Nat /\ Cardinality(r) <= Cardinality(Tracked)
  BY <1>2, TrackedFinite, FS_Subset, FS_CardinalityType
<1>4. /\ currencyPairs' = [cp \in CurrencyPair |->
                             IF cp \in r THEN NoState ELSE currencyPairs[cp]]
      /\ nextCurrencyPairID' = nextCurrencyPairID
      /\ numRemoves' = numRemoves + Cardinality(r)
      /\ numCPs' = (numCPs - Cardinality(r)) % Uint64
  BY DEF RemoveCurrencyPairs, RemovedBy
<1> HIDE DEF r
<1>5. Tracked' = Tracked \ r
  BY <1>4 DEF Tracked
<1>6. Cardinality(Tracked \ r) = Cardinality(Tracked) - Cardinality(r)
  <2>1. Tracked \ r \in SUBSET Tracked
    OBVIOUS
  <2>2. IsFiniteSet(Tracked \ r)
    BY <2>1, TrackedFinite, FS_Subset
  <2>3. Cardinality((Tracked \ r) \cup r) =
          Cardinality(Tracked \ r) + Cardinality(r) - Cardinality((Tracked \ r) \cap r)
    BY <1>3, <2>2, FS_Union
  <2>4. (Tracked \ r) \cup r = Tracked /\ (Tracked \ r) \cap r = {}
    BY <1>2
  <2>5. Cardinality(Tracked \ r) \in Nat
    BY <2>2, FS_CardinalityType
  <2>6. Cardinality((Tracked \ r) \cap r) = 0
    BY <2>4, FS_EmptySet
  <2>7. Cardinality(Tracked) = Cardinality(Tracked \ r) + Cardinality(r) - 0
    BY <2>3, <2>4, <2>6
  <2> QED
    BY <1>3, <2>5, <2>7
<1>7. numCPs' = Cardinality(Tracked) - Cardinality(r)
  <2> DEFINE a == Cardinality(Tracked) - Cardinality(r)
  <2>1. a \in Nat /\ a < Uint64 /\ Uint64 \in Nat
    BY <1>3, TrackedFinite, KeeperConstants
  <2>2. numCPs' = a % Uint64
    BY <1>1, <1>4 DEF NumCPsExact
  <2> HIDE DEF a
  <2>3. a % Uint64 = a
    BY <2>1
  <2> QED
    BY <2>2, <2>3 DEF a
<1>8. KeeperTypeOK'
  BY <1>1, <1>3, <1>4, <1>7, TrackedFinite DEF KeeperTypeOK
<1>9. \A cp \in Tracked' : cp \in Tracked /\ currencyPairs'[cp] = currencyPairs[cp]
  BY <1>4, <1>5 DEF Tracked
<1>10. IDsUnique' /\ NonceHasPrice'
  BY <1>1, <1>4, <1>9 DEF IDsUnique, NonceHasPrice
<1>11. NumCPsExact'
  BY <1>5, <1>6, <1>7 DEF NumCPsExact
<1> QED
  BY <1>8, <1>10, <1>11 DEF KeeperInv

(* Writing prices preserves the invariant.                                 *)
LEMMA ApplyPricesInv ==
  ASSUME KeeperInv, NEW cps \in SUBSET CurrencyPair, NEW prices \in [cps -> Price],
         ApplyPrices(prices)
  PROVE  KeeperInv'
<1>1. KeeperTypeOK /\ IDsUnique /\ NumCPsExact /\ NonceHasPrice
  BY DEF KeeperInv
<1>2. \A cp \in CurrencyPair :
        \/ currencyPairs'[cp] = currencyPairs[cp]
        \/ /\ cp \in Tracked
           /\ currencyPairs'[cp] \in CurrencyPairState
           /\ currencyPairs'[cp].id = currencyPairs[cp].id
           /\ currencyPairs'[cp].price # NilPrice
  <2> SUFFICES ASSUME NEW cp \in CurrencyPair,
                      currencyPairs'[cp] # currencyPairs[cp]
               PROVE  /\ cp \in Tracked
                      /\ currencyPairs'[cp] \in CurrencyPairState
                      /\ currencyPairs'[cp].id = currencyPairs[cp].id
                      /\ currencyPairs'[cp].price # NilPrice
    OBVIOUS
  <2>1. /\ cp \in Tracked /\ cp \in cps
        /\ currencyPairs'[cp] = Updated(currencyPairs[cp], prices[cp])
    BY DEF ApplyPrices, HasCurrencyPair, Tracked
  <2>2. prices[cp] \in Price /\ prices[cp] # NilPrice
    BY <2>1, KeeperConstants
  <2>3. currencyPairs[cp] \in CurrencyPairState
    BY <1>1, <2>1 DEF KeeperTypeOK, Tracked
  <2> QED
    BY <2>1, <2>2, <2>3 DEF Updated, NewCurrencyPairState, CurrencyPairState
<1>3. UNCHANGED <<nextCurrencyPairID, numRemoves, numCPs>>
  BY DEF ApplyPrices
<1>4. currencyPairs' \in [CurrencyPair -> CurrencyPairState \cup {NoState}]
  <2>1. currencyPairs' = [cp \in CurrencyPair |-> currencyPairs'[cp]]
    BY DEF ApplyPrices
  <2>2. \A cp \in CurrencyPair : currencyPairs'[cp] \in CurrencyPairState \cup {NoState}
    BY <1>1, <1>2 DEF KeeperTypeOK
  <2> QED
    BY <2>1, <2>2
<1>5. KeeperTypeOK'
  BY <1>1, <1>3, <1>4 DEF KeeperTypeOK
<1>6. Tracked' = Tracked
  BY <1>2, KeeperConstants DEF Tracked, CurrencyPairState
<1>7. \A cp \in Tracked : currencyPairs'[cp].id = currencyPairs[cp].id
  BY <1>2 DEF Tracked
<1>8. IDsUnique' /\ NumCPsExact'
  BY <1>1, <1>3, <1>6, <1>7 DEF IDsUnique, NumCPsExact
<1>9. NonceHasPrice'
  BY <1>1, <1>2, <1>6 DEF NonceHasPrice, Tracked
<1> QED
  BY <1>5, <1>8, <1>9 DEF KeeperInv

(* The entries of the exported genesis are the tracked pairs with their    *)
(* states, one entry each.                                                 *)
LEMMA ExportFacts ==
  ASSUME KeeperInv
  PROVE  /\ GenesisValid(ExportGenesis)
         /\ ExportGenesis.nextId = nextCurrencyPairID
         /\ ImportedPairs(ExportGenesis) = currencyPairs
         /\ Cardinality(ExportGenesis.pairs) = Cardinality(Tracked)
<1> DEFINE E == {[cp |-> cp, state |-> currencyPairs[cp]] : cp \in Tracked}
<1>1. KeeperTypeOK /\ IDsUnique /\ NonceHasPrice
  BY DEF KeeperInv
<1>2. ExportGenesis.pairs = E /\ ExportGenesis.nextId = nextCurrencyPairID
  BY DEF ExportGenesis
<1>3. \A e \in E : e.cp \in Tracked /\ e.state = currencyPairs[e.cp]
                   /\ e = [cp |-> e.cp, state |-> currencyPairs[e.cp]]
  OBVIOUS
<1>4. \A cp \in Tracked : \E e \in E : e.cp = cp
  <2> SUFFICES ASSUME NEW cp \in Tracked PROVE \E e \in E : e.cp = cp
    OBVIOUS
  <2>1. [cp |-> cp, state |-> currencyPairs[cp]] \in E
    OBVIOUS
  <2>2. [cp |-> cp, state |-> currencyPairs[cp]].cp = cp
    OBVIOUS
  <2> HIDE DEF E
  <2> QED
    BY <2>1, <2>2
<1>5. Cardinality(E) = Cardinality(Tracked)
  <2> DEFINE f == [cp \in Tracked |-> [cp |-> cp, state |-> currencyPairs[cp]]]
  <2>1. f \in Bijection(Tracked, E)
    BY DEF Bijection, Injection, Surjection, IsInjective
  <2> QED
    BY <2>1, TrackedFinite, FS_Bijection DEF ExistsBijection
<1> HIDE DEF E
<1>6. GenesisValid(ExportGenesis)
  BY <1>1, <1>2, <1>3 DEF GenesisValid, IDsUnique, NonceHasPrice
<1>7. ImportedPairs(ExportGenesis) = currencyPairs
  <2>1. ASSUME NEW cp \in CurrencyPair
        PROVE  ImportedPairs(ExportGenesis)[cp] = currencyPairs[cp]
    <3>1. CASE cp \in Tracked
      BY <3>1, <1>2, <1>3, <1>4 DEF ImportedPairs
    <3>2. CASE cp \notin Tracked
      BY <3>2, <1>2, <1>3 DEF ImportedPairs, Tracked
    <3> QED
      BY <3>1, <3>2
  <2>2. currencyPairs = [cp \in CurrencyPair |-> currencyPairs[cp]]
    BY <1>1 DEF KeeperTypeOK
  <2>3. ImportedPairs(ExportGenesis) =
          [cp \in CurrencyPair |-> ImportedPairs(ExportGenesis)[cp]]
    BY DEF ImportedPairs
  <2> QED
    BY <2>1, <2>2, <2>3
<1> QED
  BY <1>2, <1>5, <1>6, <1>7

(* Every step of the keeper preserves the invariant.                       *)
LEMMA NextInv ==
  ASSUME KeeperInv, [KeeperNext]_keeperVars
  PROVE  KeeperInv'
<1>1. ASSUME NEW msg \in Messages, AddCurrencyPairs(msg)
      PROVE  KeeperInv'
  BY <1>1, CreateAllInv, MessagesAreMentions DEF AddCurrencyPairs
<1>2. ASSUME NEW msg \in Messages, RemoveCurrencyPairs(msg)
      PROVE  KeeperInv'
  BY <1>2, RemoveInv
<1>3. ASSUME NEW cps \in SUBSET CurrencyPair, NEW prices \in [cps -> Price],
             ApplyPrices(prices)
      PROVE  KeeperInv'
  BY <1>3, ApplyPricesInv
<1>4. CASE BeginBlocker
  BY <1>4 DEF BeginBlocker, KeeperInv, KeeperTypeOK, IDsUnique, NumCPsExact,
              NonceHasPrice, Tracked
<1>5. CASE ExportAndInitGenesis
  <2>1. /\ currencyPairs' = currencyPairs
        /\ nextCurrencyPairID' = nextCurrencyPairID
        /\ numCPs' = Cardinality(Tracked)
        /\ numRemoves' = 0
    BY <1>5, ExportFacts DEF ExportAndInitGenesis
  <2> QED
    BY <2>1 DEF KeeperInv, KeeperTypeOK, IDsUnique, NumCPsExact, NonceHasPrice, Tracked
<1>6. CASE UNCHANGED keeperVars
  BY <1>6 DEF keeperVars, KeeperInv, KeeperTypeOK, IDsUnique, NumCPsExact,
              NonceHasPrice, Tracked
<1> QED
  BY <1>1, <1>2, <1>3, <1>4, <1>5, <1>6 DEF KeeperNext

(* In every reachable state of the keeper, from every valid genesis, the   *)
(* ids are unique and below the sequence, the counter numCPs is the number *)
(* of tracked pairs, and no unpriced pair has a nonce.                     *)
THEOREM KeeperInvariant == KeeperSpec => []KeeperInv
<1>1. InitGenesis => KeeperInv
  BY InitInv
<1>2. KeeperInv /\ [KeeperNext]_keeperVars => KeeperInv'
  BY NextInv
<1> QED
  BY <1>1, <1>2, PTL DEF KeeperSpec

(* Every entry of the store is a pair's state and the counters, whose      *)
(* decrement is taken modulo 2^64, stay natural numbers.                   *)
THEOREM KeeperTypeCorrect == KeeperSpec => []KeeperTypeOK
BY KeeperInvariant, PTL DEF KeeperInv

(* The unique index on ids is never violated.                              *)
THEOREM IDsUniqueTheorem == KeeperSpec => []IDsUnique
BY KeeperInvariant, PTL DEF KeeperInv

(* The counter of pairs is exact.                                          *)
THEOREM NumCPsExactTheorem == KeeperSpec => []NumCPsExact
BY KeeperInvariant, PTL DEF KeeperInv

(* What the chain exports can be imported.                                 *)
THEOREM ExportImportableTheorem == KeeperSpec => []ExportImportable
<1>1. KeeperInv => ExportImportable
  BY ExportFacts DEF ExportImportable
<1> QED
  BY <1>1, KeeperInvariant, PTL

-----------------------------------------------------------------------------
(* The effect of each step on one pair, the facts the action properties    *)
(* follow from: a pair's state is kept, forgotten, updated or created.     *)
LEMMA StepOnPair ==
  ASSUME KeeperInv, [KeeperNext]_keeperVars, NEW cp \in CurrencyPair
  PROVE  \/ currencyPairs'[cp] = currencyPairs[cp]
         \/ currencyPairs'[cp] = NoState
         \/ /\ cp \in Tracked /\ currencyPairs'[cp] \in CurrencyPairState
            /\ currencyPairs'[cp].id = currencyPairs[cp].id
            /\ currencyPairs'[cp].nonce = currencyPairs[cp].nonce + 1
         \/ /\ cp \notin Tracked
            /\ nextCurrencyPairID <= currencyPairs'[cp].id
<1>0. KeeperTypeOK
  BY DEF KeeperInv
<1>1. ASSUME NEW msg \in Messages, AddCurrencyPairs(msg), cp \in Created(msg)
      PROVE  cp \notin Tracked /\ nextCurrencyPairID <= currencyPairs'[cp].id
  <2>1. cp \notin Tracked
    BY <1>1, CreatedFacts, MessagesAreMentions
  <2>2. currencyPairs'[cp] = NewCurrencyPairState(IDAt(msg, PositionOf(msg, cp)), 0, NilPrice)
    BY <1>1 DEF AddCurrencyPairs, CreateAll
  <2>3. nextCurrencyPairID <= IDAt(msg, PositionOf(msg, cp))
    BY <1>0, <1>1, CreatedIDs, MessagesAreMentions
  <2> QED
    BY <2>1, <2>2, <2>3 DEF NewCurrencyPairState
<1>2. ASSUME NEW msg \in Messages, AddCurrencyPairs(msg), cp \notin Created(msg)
      PROVE  currencyPairs'[cp] = currencyPairs[cp]
  BY <1>2 DEF AddCurrencyPairs, CreateAll
<1>3. ASSUME NEW msg \in Messages, RemoveCurrencyPairs(msg)
      PROVE  currencyPairs'[cp] = currencyPairs[cp] \/ currencyPairs'[cp] = NoState
  BY <1>3 DEF RemoveCurrencyPairs
<1>4. ASSUME NEW cps \in SUBSET CurrencyPair, NEW prices \in [cps -> Price],
             ApplyPrices(prices), currencyPairs'[cp] # currencyPairs[cp]
      PROVE  /\ cp \in Tracked /\ currencyPairs'[cp] \in CurrencyPairState
             /\ currencyPairs'[cp].id = currencyPairs[cp].id
             /\ currencyPairs'[cp].nonce = currencyPairs[cp].nonce + 1
  <2>1. /\ cp \in Tracked /\ cp \in cps
        /\ currencyPairs'[cp] = Updated(currencyPairs[cp], prices[cp])
    BY <1>4 DEF ApplyPrices, HasCurrencyPair, Tracked
  <2>2. prices[cp] \in Price
    BY <2>1
  <2>3. currencyPairs[cp] \in CurrencyPairState
    BY <1>0, <2>1 DEF KeeperTypeOK, Tracked
  <2> QED
    BY <2>1, <2>2, <2>3 DEF Updated, NewCurrencyPairState, CurrencyPairState
<1>5. CASE ExportAndInitGenesis
  BY <1>5, ExportFacts DEF ExportAndInitGenesis
<1>6. CASE BeginBlocker \/ UNCHANGED keeperVars
  BY <1>6 DEF BeginBlocker, keeperVars
<1> QED
  BY <1>1, <1>2, <1>3, <1>4, <1>5, <1>6 DEF KeeperNext

(* An id is never given to a second pair, nor to a pair that comes back    *)
(* after its removal.                                                      *)
THEOREM NewIDsAreFreshTheorem == KeeperSpec => NewIDsAreFresh
<1> DEFINE Step == \A cp \in CurrencyPair :
       (HasCurrencyPair(cp)' /\ (HasCurrencyPair(cp) => currencyPairs'[cp].id # currencyPairs[cp].id))
         => nextCurrencyPairID <= currencyPairs'[cp].id
<1>1. KeeperInv /\ [KeeperNext]_keeperVars => [Step]_keeperVars
  BY StepOnPair DEF HasCurrencyPair, Tracked
<1>2. KeeperSpec => [][Step]_keeperVars
  BY <1>1, KeeperInvariant, PTL DEF KeeperSpec
<1> QED
  BY <1>2 DEF NewIDsAreFresh

(* Id and nonce identify a price.                                          *)
THEOREM StampIdentifiesPriceTheorem == KeeperSpec => StampIdentifiesPrice
<1> DEFINE Step == \A cp \in Tracked :
       (HasCurrencyPair(cp)' /\ currencyPairs'[cp].id = currencyPairs[cp].id)
         => /\ currencyPairs[cp].nonce <= currencyPairs'[cp].nonce
            /\ currencyPairs'[cp].nonce = currencyPairs[cp].nonce
                 => currencyPairs'[cp].price = currencyPairs[cp].price
<1>1. KeeperInv /\ [KeeperNext]_keeperVars => [Step]_keeperVars
  <2> SUFFICES ASSUME KeeperInv, [KeeperNext]_keeperVars, NEW cp \in Tracked,
                      HasCurrencyPair(cp)'
               PROVE  /\ currencyPairs[cp].nonce <= currencyPairs'[cp].nonce
                      /\ currencyPairs'[cp].nonce = currencyPairs[cp].nonce
                           => currencyPairs'[cp].price = currencyPairs[cp].price
    OBVIOUS
  <2>1. currencyPairs[cp].nonce \in Nat /\ cp \in CurrencyPair
    BY DEF KeeperInv, KeeperTypeOK, Tracked, CurrencyPairState
  <2>2. \/ currencyPairs'[cp] = currencyPairs[cp]
        \/ currencyPairs'[cp].nonce = currencyPairs[cp].nonce + 1
    BY <2>1, StepOnPair DEF HasCurrencyPair
  <2> QED
    BY <2>1, <2>2
<1>2. KeeperSpec => [][Step]_keeperVars
  BY <1>1, KeeperInvariant, PTL DEF KeeperSpec
<1> QED
  BY <1>2 DEF StampIdentifiesPrice

(* Only RemoveCurrencyPairs forgets pairs, and it counts each of them.     *)
LEMMA LossesOfStep ==
  ASSUME KeeperInv, [KeeperNext]_keeperVars, Lost # {}
  PROVE  numRemoves' = numRemoves + Cardinality(Lost)
<1>0. KeeperTypeOK
  BY DEF KeeperInv
<1>1. PICK dp \in Tracked : currencyPairs'[dp] = NoState
  BY DEF Lost, HasCurrencyPair
<1>2. dp \in CurrencyPair /\ currencyPairs[dp] # NoState
  BY DEF Tracked
<1>3. ASSUME NEW msg \in Messages, AddCurrencyPairs(msg) PROVE FALSE
  <2>1. dp \notin Created(msg)
    BY CreatedFacts, MessagesAreMentions
  <2> QED
    BY <1>1, <1>2, <1>3, <2>1 DEF AddCurrencyPairs, CreateAll
<1>4. ASSUME NEW msg \in Messages, RemoveCurrencyPairs(msg)
      PROVE  numRemoves' = numRemoves + Cardinality(Lost)
  <2>1. Named(msg) \subseteq Tracked
    BY <1>4, MessageShape DEF RemoveCurrencyPairs, Removable, Named, Tracked, HasCurrencyPair
  <2>2. Lost = Named(msg)
    BY <1>4, <2>1 DEF Lost, RemoveCurrencyPairs, HasCurrencyPair, Tracked
  <2> QED
    BY <1>4, <2>2 DEF RemoveCurrencyPairs, RemovedBy
<1>5. ASSUME NEW cps \in SUBSET CurrencyPair, NEW prices \in [cps -> Price], ApplyPrices(prices)
      PROVE  FALSE
  <2>1. \/ currencyPairs'[dp] = currencyPairs[dp]
        \/ dp \in cps /\ currencyPairs'[dp] = Updated(currencyPairs[dp], prices[dp])
    BY <1>2, <1>5 DEF ApplyPrices
  <2>2. currencyPairs[dp] \in CurrencyPairState
    BY <1>0, <1>2 DEF KeeperTypeOK
  <2>3. dp \in cps => Updated(currencyPairs[dp], prices[dp]) \in CurrencyPairState
    BY <2>2 DEF Updated, NewCurrencyPairState, CurrencyPairState
  <2> QED
    BY <1>1, <1>2, <2>1, <2>3, KeeperConstants DEF CurrencyPairState
<1>6. CASE ExportAndInitGenesis
  BY <1>1, <1>2, <1>6, ExportFacts DEF ExportAndInitGenesis
<1>7. CASE BeginBlocker \/ UNCHANGED keeperVars
  BY <1>1, <1>2, <1>7 DEF BeginBlocker, keeperVars
<1> QED
  BY <1>3, <1>4, <1>5, <1>6, <1>7 DEF KeeperNext

(* A pair that leaves the store is counted in numRemoves: GetMaxNumCP of   *)
(* the next proposal still has room for the votes that price it.           *)
THEOREM LossesAreCountedTheorem == KeeperSpec => LossesAreCounted
<1> DEFINE Step == Lost # {} => numRemoves' = numRemoves + Cardinality(Lost)
<1>1. KeeperInv /\ [KeeperNext]_keeperVars => [Step]_keeperVars
  BY LossesOfStep
<1>2. KeeperSpec => [][Step]_keeperVars
  BY <1>1, KeeperInvariant, PTL DEF KeeperSpec
<1> QED
  BY <1>2 DEF LossesAreCounted
=============================================================================
