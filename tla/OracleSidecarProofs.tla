------------------------ MODULE OracleSidecarProofs ------------------------
(***************************************************************************)
(* Proofs about the price loop of the side-car: for every set of providers *)
(* and pairs, every market map that is served and applied between or       *)
(* during ticks, every delay of the results and every normalization.       *)
(***************************************************************************)
EXTENDS OracleSidecar, FiniteSetTheorems, WellFoundedInduction, TLAPS

(* The clock, and the beginnings of the ticks in their order.              *)
TimesOK ==
  /\ now \in Time /\ tickStart \in Time /\ starts \in [0 .. Depth -> Time]
  /\ tickStart <= now /\ starts[0] <= tickStart
  /\ \A d, e \in 0 .. Depth : d <= e => starts[e] <= starts[d]

(* The markets of a map: what they are made of was served.                 *)
MarketOK(m, t) ==
  /\ m \in Market /\ IsFiniteSet(m.configs)
  /\ \E mm \in MarketMaps : mm[t] # NoMarket /\ m.configs \subseteq mm[t].configs
MapOK(mm) ==
  /\ DOMAIN mm = Pair
  /\ \A t \in Pair : mm[t] # NoMarket => MarketOK(mm[t], t)

DataOK == data \in [Provider -> [ProviderTicker -> Price \cup {NoData}]]

(* What has been collected for this tick is fresh.                         *)
PricesOK ==
  /\ providerPrices \in [Provider -> [OffChain -> Price \cup {NoData}]]
  /\ \A p \in Provider, o \in OffChain :
       providerPrices[p][o] # NoData => providerPrices[p][o].ts + MaxPriceAge >= tickStart

(* The index prices were fresh when their tick began.                      *)
IndexOK ==
  /\ indexPrices \in [Pair -> IndexPrice \cup {NoData}]
  /\ \A t \in Priced : indexPrices[t].direct + MaxPriceAge >= starts[0]

(* The inductive invariant.                                                *)
SidecarInv ==
  TimesOK /\ MapOK(cfg) /\ MapOK(newMap) /\ DataOK /\ PricesOK /\ IndexOK /\ IngredientsFresh

-----------------------------------------------------------------------------
(* A non-empty set of numbers has a least element.                         *)
LEMMA LeastExists ==
  ASSUME NEW T \in SUBSET Nat, T # {}
  PROVE  Min(T) \in T /\ \A y \in T : Min(T) <= y
<1>1. IsWellFoundedOn(OpToRel(<, Nat), Nat)
  BY NatLessThanWellFounded
<1>2. PICK x \in T : \A y \in T : ~(<<y, x>> \in OpToRel(<, Nat))
  BY <1>1, WFMin
<1>3. \A m, n \in Nat : <<n, m>> \in OpToRel(<, Nat) <=> n < m
  BY DEF OpToRel
<1>4. x \in Nat /\ \A y \in T : y \in Nat
  OBVIOUS
<1>5. \A y \in T : ~(y < x)
  BY <1>2, <1>3, <1>4
<1>6. \E z \in T : \A y \in T : z =< y
  BY <1>4, <1>5
<1> QED
  BY <1>6 DEF Min

(* What the proofs use of the constants.                                   *)
LEMMA Constants ==
  /\ MaxPriceAge \in Nat /\ Depth \in Nat /\ MaxTime \in Nat /\ Time \subseteq Nat
  /\ 0 \in Time /\ 0 \in 0 .. Depth
BY SidecarConstants DEF Time

(* A price that is not there is none.                                      *)
LEMMA NoDataIsNoPrice == NoData \notin Price
BY SidecarConstants

-----------------------------------------------------------------------------
(* The clock.                                                              *)
LEMMA TimesNext ==
  ASSUME TimesOK, [Next]_vars
  PROVE  TimesOK'
<1>1. \/ UNCHANGED <<now, tickStart, starts>>
      \/ PassTime
      \/ BeginTick
      \/ AggregatePrices
  BY DEF Next, vars, loopVars, ProviderNext, MapperNext, LoopNext, StartProvider, RestartFetch, UpdateData,
         CheckMarketMap, UpdateProviders, UpdateMarketMap, LockForFetch, FetchPrices, SetLastSyncTime
<1>2. CASE UNCHANGED <<now, tickStart, starts>>
  BY <1>2 DEF TimesOK
<1>3. CASE PassTime
  <2>1. now' = now + 1 /\ now < MaxTime /\ UNCHANGED <<tickStart, starts>>
    BY <1>3 DEF PassTime, loopVars
  <2> QED
    BY <2>1, Constants DEF TimesOK, Time
<1>4. CASE BeginTick
  <2>1. tickStart' = now /\ UNCHANGED <<now, starts>>
    BY <1>4 DEF BeginTick
  <2>2. starts[0] \in Nat
    BY Constants DEF TimesOK
  <2> QED
    BY <2>1, <2>2, Constants DEF TimesOK
<1>5. CASE AggregatePrices
  <2>1. UNCHANGED <<now, tickStart>>
    BY <1>5 DEF AggregatePrices
  <2>2. CASE UNCHANGED starts
    BY <2>1, <2>2 DEF TimesOK
  <2>3. CASE starts' = [d \in 0 .. Depth |-> IF d = 0 THEN tickStart ELSE starts[d - 1]]
    <3>1. \A d \in 0 .. Depth : starts[d] \in Time /\ starts[d] \in Nat
      BY Constants DEF TimesOK
    <3>2. \A d \in 0 .. Depth : d # 0 => d - 1 \in 0 .. Depth
      BY Constants
    <3>3. starts' \in [0 .. Depth -> Time]
      BY <2>3, <3>1, <3>2 DEF TimesOK
    <3>4. starts'[0] = tickStart
      BY <2>3, Constants
    <3>5. ASSUME NEW d \in 0 .. Depth, NEW e \in 0 .. Depth, d <= e
          PROVE  starts'[e] <= starts'[d]
      <4>1. \A k \in 0 .. Depth : starts[k] <= tickStart
        BY <3>1, Constants DEF TimesOK
      <4>2. tickStart \in Nat /\ tickStart <= tickStart
        BY Constants DEF TimesOK
      <4>3. CASE d = 0
        BY <2>3, <3>1, <3>2, <3>5, <4>1, <4>2, <4>3
      <4>4. CASE d # 0
        <5>1. e # 0 /\ d - 1 <= e - 1
          BY <3>5, <4>4, Constants
        <5>2. starts[e - 1] <= starts[d - 1]
          BY <3>2, <4>4, <5>1 DEF TimesOK
        <5> QED
          BY <2>3, <4>4, <5>1, <5>2
      <4> QED
        BY <4>3, <4>4
    <3>6. tickStart \in Nat
      BY Constants DEF TimesOK
    <3> QED
      BY <2>1, <3>3, <3>4, <3>5, <3>6 DEF TimesOK
  <2> QED
    BY <1>5, <2>2, <2>3 DEF AggregatePrices
<1> QED
  BY <1>1, <1>2, <1>3, <1>4, <1>5

-----------------------------------------------------------------------------
(* The market maps.                                                        *)
LEMMA ServedMaps ==
  ASSUME NEW mm \in MarketMaps
  PROVE  MapOK(mm)
<1>1. mm \in [Pair -> Market \cup {NoMarket}]
  BY SidecarConstants DEF MarketMap
<1>2. ASSUME NEW t \in Pair, mm[t] # NoMarket PROVE MarketOK(mm[t], t)
  BY <1>1, <1>2, SidecarConstants DEF MarketOK
<1> QED
  BY <1>1, <1>2 DEF MapOK

(* The valid subset of a market map is a market map.                       *)
LEMMA ValidSubsets ==
  ASSUME NEW mm \in MarketMaps
  PROVE  MapOK(ValidSubset(mm))
<1> DEFINE pruned == WithoutInvalidConfigs(mm)
           kept(t) == {c \in mm[t].configs : Normalizable(c, mm[t].enabled, mm)}
<1>1. DOMAIN ValidSubset(mm) = Pair
  BY DEF ValidSubset
<1>2. ASSUME NEW t \in Pair, ValidSubset(mm)[t] # NoMarket
      PROVE  MarketOK(ValidSubset(mm)[t], t)
  <2>1. ValidSubset(mm)[t] = pruned[t] /\ pruned[t] # NoMarket
    BY <1>2 DEF ValidSubset
  <2>2. /\ mm[t] # NoMarket
        /\ pruned[t] = [enabled |-> mm[t].enabled, min |-> mm[t].min, configs |-> kept(t)]
    BY <2>1 DEF WithoutInvalidConfigs
  <2>3. mm[t] \in Market /\ IsFiniteSet(mm[t].configs)
    BY <2>2, ServedMaps DEF MapOK, MarketOK
  <2>4. kept(t) \subseteq mm[t].configs
    OBVIOUS
  <2>5. IsFiniteSet(kept(t))
    BY <2>3, <2>4, FS_Subset
  <2> HIDE DEF kept, pruned
  <2>6. pruned[t] \in Market /\ pruned[t].configs = kept(t)
    BY <2>2, <2>3, <2>4 DEF Market
  <2> QED
    BY <2>1, <2>2, <2>4, <2>5, <2>6 DEF MarketOK
<1> QED
  BY <1>1, <1>2 DEF MapOK

(* Every step keeps the market maps well-formed.                           *)
LEMMA MapsNext ==
  ASSUME MapOK(cfg), MapOK(newMap), [Next]_vars
  PROVE  MapOK(cfg)' /\ MapOK(newMap)'
<1>1. \/ UNCHANGED <<cfg, newMap>>
      \/ UNCHANGED cfg /\ \E mm \in MarketMaps : newMap' = ValidSubset(mm)
      \/ UNCHANGED newMap /\ cfg' = newMap
  BY DEF Next, vars, mapVars, ProviderNext, MapperNext, LoopNext, StartProvider, RestartFetch, UpdateData,
         CheckMarketMap, UpdateProviders, UpdateMarketMap, BeginTick, LockForFetch, FetchPrices,
         AggregatePrices, SetLastSyncTime, PassTime
<1>2. ASSUME NEW mm \in MarketMaps, newMap' = ValidSubset(mm) PROVE MapOK(newMap')
  BY <1>2, ValidSubsets
<1>3. MapOK(cfg') /\ MapOK(newMap')
  BY <1>1, <1>2
<1> QED
  BY <1>3 DEF MapOK, MarketOK

-----------------------------------------------------------------------------
(* The providers' data.                                                    *)
LEMMA Updated ==
  ASSUME NEW current \in Price \cup {NoData}, NEW result \in Price, NEW unchanged \in BOOLEAN
  PROVE  /\ UpdatedData(current, result, unchanged) \in Price \cup {NoData}
         /\ current # NoData => /\ UpdatedData(current, result, unchanged) # NoData
                                /\ UpdatedData(current, result, unchanged).ts >= current.ts
<1> DEFINE renewed == [class |-> IF unchanged THEN current.class ELSE result.class, ts |-> result.ts]
           u == UpdatedData(current, result, unchanged)
<1>1. NoData \notin Price /\ result.ts \in Nat
  BY Constants, NoDataIsNoPrice DEF Price
<1>2. current # NoData => renewed \in Price /\ renewed.ts = result.ts /\ current.ts \in Nat
  BY Constants DEF Price
<1>3. CASE current = NoData
  <2>1. u = IF unchanged THEN NoData ELSE result
    BY <1>3 DEF UpdatedData
  <2> QED
    BY <1>3, <2>1
<1>4. CASE current # NoData
  <2>1. u = IF result.ts < current.ts THEN current ELSE renewed
    BY <1>4 DEF UpdatedData
  <2> HIDE DEF u, renewed
  <2>2. u \in Price /\ u.ts >= current.ts
    BY <1>1, <1>2, <1>4, <2>1
  <2> QED
    BY <1>1, <2>2 DEF u
<1> QED
  BY <1>3, <1>4

(* Stored data changes when a provider receives only.                      *)
LEMMA DataStep ==
  ASSUME [Next]_vars
  PROVE  \/ UNCHANGED data
         \/ \E p \in Provider : UpdateData(p)
BY DEF Next, vars, providerVars, ProviderNext, MapperNext, LoopNext, StartProvider, RestartFetch,
       CheckMarketMap, UpdateProviders, UpdateMarketMap, BeginTick, LockForFetch, FetchPrices,
       AggregatePrices, SetLastSyncTime, PassTime

(* Stored data keeps its type and does not go back in time.                *)
LEMMA DataNext ==
  ASSUME DataOK, [Next]_vars
  PROVE  /\ DataOK'
         /\ \A p \in Provider, tk \in ProviderTicker :
              data[p][tk] # NoData => data'[p][tk] # NoData /\ data'[p][tk].ts >= data[p][tk].ts
<1>1. \A p \in Provider, tk \in ProviderTicker : data[p][tk] \in Price \cup {NoData}
  BY DEF DataOK
<1>2. \A price \in Price : price.ts >= price.ts
  <2>1. \A price \in Price : price.ts \in Nat
    BY Constants DEF Price
  <2> QED
    BY <2>1
<1>3. CASE UNCHANGED data
  BY <1>1, <1>2, <1>3 DEF DataOK
<1>4. ASSUME NEW p \in Provider, UpdateData(p)
      PROVE  /\ data' \in [Provider -> [ProviderTicker -> Price \cup {NoData}]]
             /\ \A q \in Provider, tk \in ProviderTicker :
                  data[q][tk] # NoData => data'[q][tk] # NoData /\ data'[q][tk].ts >= data[q][tk].ts
  <2>1. PICK tk \in fetchIDs[p], class \in Classes, ts \in {t \in Time : t <= now /\ now - t <= MaxDelay},
             unchanged \in BOOLEAN :
          data' = [data EXCEPT ![p] = [data[p] EXCEPT ![tk] =
                     UpdatedData(data[p][tk], [class |-> class, ts |-> ts], unchanged)]]
    BY <1>4, Zenon DEF UpdateData
  <2>2. PICK r : r = [class |-> class, ts |-> ts]
    OBVIOUS
  <2>3. r \in Price
    BY <2>2, SidecarConstants DEF Price
  <2>4. PICK u : u = UpdatedData(data[p][tk], r, unchanged)
    OBVIOUS
  <2>5. tk \in ProviderTicker => /\ u \in Price \cup {NoData}
                                 /\ data[p][tk] # NoData => u # NoData /\ u.ts >= data[p][tk].ts
    BY <1>1, <2>3, <2>4, Updated
  <2>6. PICK dp : dp = [data[p] EXCEPT ![tk] = u]
    OBVIOUS
  <2>7. data' = [data EXCEPT ![p] = dp]
    BY <2>1, <2>2, <2>4, <2>6
  <2>8. data[p] \in [ProviderTicker -> Price \cup {NoData}]
    BY DEF DataOK
  <2>9. dp \in [ProviderTicker -> Price \cup {NoData}]
    BY <2>5, <2>6, <2>8
  <2>10. data' \in [Provider -> [ProviderTicker -> Price \cup {NoData}]]
    BY <2>7, <2>9 DEF DataOK
  <2>11. ASSUME NEW q \in Provider, NEW x \in ProviderTicker, data[q][x] # NoData
         PROVE  data'[q][x] # NoData /\ data'[q][x].ts >= data[q][x].ts
    <3>1. data[q][x] \in Price /\ data[q][x].ts >= data[q][x].ts
      BY <1>1, <1>2, <2>11
    <3>2. CASE q = p /\ x = tk
      <4>1. data'[q][x] = u
        BY <2>6, <2>7, <2>8, <3>2 DEF DataOK
      <4> QED
        BY <2>5, <2>11, <3>2, <4>1
    <3>3. CASE ~(q = p /\ x = tk)
      <4>1. data'[q][x] = data[q][x]
        BY <2>6, <2>7, <2>8, <3>3 DEF DataOK
      <4> QED
        BY <2>11, <3>1, <4>1
    <3> QED
      BY <3>2, <3>3
  <2> QED
    BY <2>10, <2>11
<1> QED
  BY <1>3, <1>4, DataStep DEF DataOK

(* What the tick collects.                                                 *)
LEMMA PricesNext ==
  ASSUME TimesOK, DataOK, PricesOK, [Next]_vars
  PROVE  PricesOK'
<1>1. \/ UNCHANGED <<providerPrices, tickStart>>
      \/ BeginTick
      \/ \E p \in Provider : FetchPrices(p)
  BY DEF Next, vars, loopVars, ProviderNext, MapperNext, LoopNext, StartProvider, RestartFetch, UpdateData,
         CheckMarketMap, UpdateProviders, UpdateMarketMap, LockForFetch, AggregatePrices, SetLastSyncTime,
         PassTime
<1>2. CASE UNCHANGED <<providerPrices, tickStart>>
  BY <1>2 DEF PricesOK
<1>3. CASE BeginTick
  <2>1. providerPrices' = [p \in Provider |-> [o \in OffChain |-> NoData]]
    BY <1>3 DEF BeginTick, Reset, NoPrices
  <2> QED
    BY <2>1 DEF PricesOK
<1>4. ASSUME NEW p \in Provider, FetchPrices(p) PROVE PricesOK'
  <2>1. tickStart' = tickStart
    BY <1>4 DEF FetchPrices
  <2>2. CASE UNCHANGED providerPrices
    BY <2>1, <2>2 DEF PricesOK
  <2>3. ASSUME NEW taken \in OnePerOffChain(FreshTickers(p)),
               providerPrices' = [providerPrices EXCEPT ![p] =
                 [o \in OffChain |-> IF \E tk \in taken : tk.off = o
                                     THEN data[p][CHOOSE tk \in taken : tk.off = o] ELSE NoData]]
        PROVE  PricesOK'
    <3> DEFINE first(o) == CHOOSE tk \in taken : tk.off = o
               prices == [o \in OffChain |-> IF \E tk \in taken : tk.off = o
                                             THEN data[p][first(o)] ELSE NoData]
    <3>1. taken \subseteq FreshTickers(p)
      BY DEF OnePerOffChain
    <3>2. ASSUME NEW tk \in taken
          PROVE  /\ data[p][tk] \in Price \cup {NoData}
                 /\ data[p][tk] # NoData => data[p][tk].ts + MaxPriceAge >= tickStart
      <4>1. tk \in ProviderTicker /\ Fresh(data[p][tk])
        BY <3>1 DEF FreshTickers
      <4>2. data[p][tk] \in Price
        BY <4>1 DEF DataOK, Fresh
      <4>3. data[p][tk].ts \in Nat /\ now - data[p][tk].ts <= MaxPriceAge
        BY <4>1, <4>2, Constants DEF Fresh, Price
      <4>4. now \in Nat /\ tickStart \in Nat /\ tickStart <= now
        BY Constants DEF TimesOK
      <4> QED
        BY <4>2, <4>3, <4>4, Constants
    <3>3. ASSUME NEW o, \E tk \in taken : tk.off = o PROVE first(o) \in taken
      BY <3>3
    <3> HIDE DEF first
    <3>4. \A o \in OffChain :
            /\ prices[o] \in Price \cup {NoData}
            /\ prices[o] # NoData => prices[o].ts + MaxPriceAge >= tickStart
      BY <3>2, <3>3
    <3>5. prices \in [OffChain -> Price \cup {NoData}]
      BY <3>4
    <3>6. providerPrices' = [providerPrices EXCEPT ![p] = prices]
      BY <2>3 DEF first
    <3> HIDE DEF prices
    <3>7. providerPrices' \in [Provider -> [OffChain -> Price \cup {NoData}]]
      BY <3>5, <3>6 DEF PricesOK
    <3>8. \A q \in Provider, o \in OffChain :
            providerPrices'[q][o] # NoData => providerPrices'[q][o].ts + MaxPriceAge >= tickStart
      BY <3>4, <3>6 DEF PricesOK
    <3> QED
      BY <2>1, <3>7, <3>8 DEF PricesOK
  <2> QED
    BY <1>4, <2>2, <2>3 DEF FetchPrices
<1> QED
  BY <1>1, <1>2, <1>3, <1>4

-----------------------------------------------------------------------------
(* The aggregator. The price a config contributes: its own age, and that   *)
(* of the index price it is multiplied by.                                 *)
Class == {Zero, Positive, Infinite}

(* A price that is adjusted is as old as the provider price it is made     *)
(* from, or as the index price it is normalized by.                        *)
LEMMA AdjustedPrices ==
  ASSUME PricesOK, IndexOK, NEW m, m.configs \subseteq Config, NEW c \in Convertible(m)
  PROVE  /\ CalculateAdjustedPrice(c) \in IndexPrice
         /\ CalculateAdjustedPrice(c).direct + MaxPriceAge >= tickStart
         /\ \/ CalculateAdjustedPrice(c).oldest = CalculateAdjustedPrice(c).direct
            \/ /\ c.norm # NoPair /\ c.norm \in Priced
               /\ CalculateAdjustedPrice(c).oldest = indexPrices[c.norm].oldest
<1> DEFINE given == providerPrices[c.name][c.off]
           price == GetProviderPrice(c)
           index == indexPrices[c.norm]
           a == CalculateAdjustedPrice(c)
<1>1. c \in m.configs /\ price # NoData /\ (c.norm # NoPair => index # NoData)
  BY DEF Convertible
<1>2. c.name \in Provider /\ c.off \in OffChain /\ c.norm \in Pair \cup {NoPair}
  BY <1>1 DEF Config
<1>3. given # NoData /\ price = IF c.invert THEN [class |-> Invert(given.class), ts |-> given.ts] ELSE given
  BY <1>1 DEF GetProviderPrice
<1>4. given \in Price /\ given.ts + MaxPriceAge >= tickStart
  BY <1>2, <1>3 DEF PricesOK
<1>5. given.ts \in Time /\ given.class \in Class /\ Invert(given.class) \in Class
  BY <1>4 DEF Price, Class, Invert, Zero, Positive, Infinite
<1>6. PICK p : p = price
  OBVIOUS
<1>7. p.ts = given.ts /\ p.class \in Class
  BY <1>3, <1>5, <1>6
<1>8. CASE c.norm = NoPair
  <2>1. a = [class |-> p.class, direct |-> p.ts, oldest |-> p.ts]
    BY <1>6, <1>8 DEF CalculateAdjustedPrice
  <2> HIDE DEF a
  <2>2. a \in IndexPrice /\ a.direct + MaxPriceAge >= tickStart /\ a.oldest = a.direct
    BY <1>4, <1>5, <1>7, <2>1 DEF IndexPrice, Class
  <2> QED
    BY <2>2 DEF a
<1>9. CASE c.norm # NoPair
  <2> DEFINE class == Mul(p.class, index.class)
             oldest == Min({p.ts, index.oldest})
  <2>1. a = [class |-> class, direct |-> p.ts, oldest |-> oldest]
    BY <1>6, <1>9 DEF CalculateAdjustedPrice
  <2>2. c.norm \in Priced /\ index \in IndexPrice
    BY <1>1, <1>2, <1>9 DEF IndexOK, Priced
  <2>3. index.oldest \in Time
    BY <2>2 DEF IndexPrice
  <2>4. class \in Class
    BY DEF Mul, Class
  <2>5. oldest \in {p.ts, index.oldest}
    <3>1. {p.ts, index.oldest} \in SUBSET Nat /\ {p.ts, index.oldest} # {}
      BY <1>5, <1>7, <2>3, Constants
    <3> HIDE DEF index
    <3> QED
      BY <3>1, LeastExists
  <2>6. oldest \in Time
    BY <1>5, <1>7, <2>3, <2>5
  <2> HIDE DEF a, class, oldest, index
  <2>7. a \in IndexPrice /\ a.direct = p.ts /\ a.oldest = oldest
    BY <1>5, <1>7, <2>1, <2>4, <2>6 DEF IndexPrice, Class
  <2>8. a.direct + MaxPriceAge >= tickStart
    BY <1>4, <1>7, <2>7
  <2>9. a.oldest = a.direct \/ a.oldest = index.oldest
    BY <2>5, <2>7
  <2> QED
    BY <1>9, <2>2, <2>7, <2>8, <2>9 DEF a, index
<1> QED
  BY <1>8, <1>9

(* The median is of one of the classes, and as old as one of its prices.   *)
LEMMA Medians ==
  ASSUME NEW S, IsFiniteSet(S), S # {},
         \A c \in S : CalculateAdjustedPrice(c) \in IndexPrice
  PROVE  /\ MedianPrice(S) \in IndexPrice
         /\ \E c \in S : MedianPrice(S).direct = CalculateAdjustedPrice(c).direct
         /\ \E c \in S : MedianPrice(S).oldest = CalculateAdjustedPrice(c).oldest
<1> DEFINE A(c) == CalculateAdjustedPrice(c)
           most == {k \in Class : Cardinality({c \in S : A(c).class <= k}) >= (Cardinality(S) \div 2) + 1}
           directs == {A(c).direct : c \in S}
           oldests == {A(c).oldest : c \in S}
<1>1. \A c \in S : A(c).class \in Class /\ A(c).direct \in Time /\ A(c).oldest \in Time
  BY DEF IndexPrice, Class
<1>2. MedianPrice(S) = [class |-> Min(most), direct |-> Min(directs), oldest |-> Min(oldests)]
  BY DEF MedianPrice, MedianClass, Class
<1>3. Cardinality(S) \in Nat \ {0}
  BY FS_CardinalityType, FS_EmptySet
<1>4. Min(most) \in Class
  <2>1. Class \in SUBSET Nat /\ Infinite \in Class /\ \A k \in Class : k <= Infinite
    BY DEF Class, Zero, Positive, Infinite
  <2>2. {c \in S : A(c).class <= Infinite} = S
    BY <1>1, <2>1
  <2>3. Cardinality(S) >= (Cardinality(S) \div 2) + 1
    BY <1>3
  <2>4. Infinite \in most
    BY <2>1, <2>2, <2>3
  <2>5. most \in SUBSET Nat /\ most # {} /\ most \subseteq Class
    BY <2>1, <2>4
  <2> HIDE DEF most
  <2> QED
    BY <2>5, LeastExists
<1> HIDE DEF A, most
<1>5. Min(directs) \in directs
  <2>1. directs \in SUBSET Nat /\ directs # {}
    BY <1>1, Constants
  <2> HIDE DEF directs
  <2> QED
    BY <2>1, LeastExists
<1>6. Min(oldests) \in oldests
  <2>1. oldests \in SUBSET Nat /\ oldests # {}
    BY <1>1, Constants
  <2> HIDE DEF oldests
  <2> QED
    BY <2>1, LeastExists
<1>7. PICK c \in S : Min(directs) = A(c).direct
  BY <1>5
<1>8. PICK d \in S : Min(oldests) = A(d).oldest
  BY <1>6
<1> HIDE DEF directs, oldests
<1>9. MedianPrice(S) \in IndexPrice
  BY <1>1, <1>2, <1>4, <1>7, <1>8 DEF IndexPrice, Class
<1> QED
  BY <1>2, <1>7, <1>8, <1>9 DEF A

(* When the tick that a pair of a given rank is bound by began.            *)
NextStart(d) == IF d = 0 THEN tickStart ELSE starts[d - 1]

(* With the next tick, each start moves one place back, and they stay in   *)
(* order.                                                                  *)
LEMMA OlderStarts ==
  ASSUME TimesOK, NEW d \in 0 .. Depth
  PROVE  /\ NextStart(d) \in Nat /\ NextStart(d) <= tickStart /\ tickStart \in Nat
         /\ \A e \in 0 .. Depth : e < d => starts[e] \in Nat /\ NextStart(d) <= starts[e]
<1>1. tickStart \in Nat /\ \A e \in 0 .. Depth : starts[e] \in Nat /\ starts[e] <= tickStart
  <2>1. tickStart \in Nat /\ \A e \in 0 .. Depth : starts[e] \in Nat /\ starts[e] <= starts[0]
    <3>1. \A e \in 0 .. Depth : 0 \in 0 .. Depth /\ 0 <= e
      BY Constants
    <3>2. \A e \in 0 .. Depth : starts[e] <= starts[0]
      BY <3>1 DEF TimesOK
    <3>3. tickStart \in Nat /\ \A e \in 0 .. Depth : starts[e] \in Nat
      BY Constants DEF TimesOK
    <3> QED
      BY <3>2, <3>3
  <2> QED
    BY <2>1, Constants DEF TimesOK
<1>2. CASE d = 0
  BY <1>1, <1>2 DEF NextStart
<1>3. CASE d # 0
  <2>1. d - 1 \in 0 .. Depth /\ NextStart(d) = starts[d - 1]
    BY <1>3, Constants DEF NextStart
  <2>2. \A e \in 0 .. Depth : e < d => e <= d - 1
    BY Constants
  <2>3. \A e \in 0 .. Depth : e < d => starts[d - 1] <= starts[e]
    BY <2>1, <2>2 DEF TimesOK
  <2> QED
    BY <1>1, <2>1, <2>3
<1> QED
  BY <1>2, <1>3

(* A contribution to the price of a pair is as young as the pair's rank    *)
(* says.                                                                   *)
LEMMA RankedPrices ==
  ASSUME TimesOK, MapOK(cfg), PricesOK, IndexOK, IngredientsFresh, NEW t \in Pair, cfg[t] # NoMarket,
         NEW c \in Convertible(cfg[t]), NEW rank \in Rankings, rank[t] <= Depth
  PROVE  CalculateAdjustedPrice(c).oldest + MaxPriceAge >= NextStart(rank[t])
<1>1. MarketOK(cfg[t], t) /\ c \in cfg[t].configs
  BY DEF MapOK, Convertible
<1>2. cfg[t].configs \subseteq Config
  BY <1>1 DEF MarketOK, Market
<1>3. PICK a : a = CalculateAdjustedPrice(c)
  OBVIOUS
<1>4. a \in IndexPrice /\ a.direct + MaxPriceAge >= tickStart
  BY <1>2, <1>3, AdjustedPrices
<1>5. rank[t] \in 0 .. Depth
  BY Constants DEF Rankings
<1>6. a.direct \in Nat /\ a.oldest \in Nat
  BY <1>4, Constants DEF IndexPrice
<1>7. NextStart(rank[t]) \in Nat /\ NextStart(rank[t]) <= tickStart /\ tickStart \in Nat
  BY <1>5, OlderStarts
<1>8. CASE a.oldest = a.direct
  BY <1>3, <1>4, <1>6, <1>7, <1>8, Constants
<1>9. CASE c.norm # NoPair /\ c.norm \in Priced /\ a.oldest = indexPrices[c.norm].oldest
  <2>1. rank[c.norm] < rank[t]
    <3>1. PICK mm \in MarketMaps : mm[t] # NoMarket /\ cfg[t].configs \subseteq mm[t].configs
      BY <1>1 DEF MarketOK
    <3>2. rank[t] = Depth + 1 \/ rank[c.norm] < rank[t]
      BY <1>1, <1>9, <3>1 DEF Rankings
    <3> QED
      BY <1>5, <3>2, Constants
  <2>2. rank[c.norm] \in 0 .. (Depth + 1)
    BY <1>9 DEF Rankings, Priced
  <2>3. rank[c.norm] \in 0 .. Depth
    BY <1>5, <2>1, <2>2, Constants
  <2>4. a.oldest + MaxPriceAge >= starts[rank[c.norm]]
    BY <1>9, <2>3, Constants DEF IngredientsFresh
  <2>5. starts[rank[c.norm]] \in Nat /\ NextStart(rank[t]) <= starts[rank[c.norm]]
    BY <1>5, <2>1, <2>3, OlderStarts
  <2> QED
    BY <1>3, <1>6, <1>7, <2>4, <2>5, Constants
<1> QED
  BY <1>2, <1>3, <1>8, <1>9, AdjustedPrices

(* The price of a pair is fresh, and looks back no more ticks than the     *)
(* pair is normalizations away from an exchange.                           *)
LEMMA AggregatedPrices ==
  ASSUME TimesOK, MapOK(cfg), PricesOK, IndexOK, IngredientsFresh, NEW t \in Pair
  PROVE  /\ Aggregated(t) \in IndexPrice \cup {NoData}
         /\ Aggregated(t) # NoData =>
              /\ Aggregated(t).direct + MaxPriceAge >= tickStart
              /\ \A rank \in Rankings :
                   rank[t] <= Depth => Aggregated(t).oldest + MaxPriceAge >= NextStart(rank[t])
<1> DEFINE S == Convertible(cfg[t])
<1>1. CASE cfg[t] # NoMarket /\ cfg[t].enabled /\ Cardinality(S) >= cfg[t].min
  <2>1. /\ cfg[t] \in Market /\ IsFiniteSet(cfg[t].configs)
    BY <1>1 DEF MapOK, MarketOK
  <2>2. cfg[t].configs \subseteq Config /\ cfg[t].min \in Nat /\ cfg[t].min >= 1
    <3>1. cfg[t].min \in 1 .. Cardinality(Provider) /\ cfg[t].configs \subseteq Config
      BY <2>1 DEF Market
    <3> QED
      BY <3>1
  <2>3. S \subseteq cfg[t].configs
    BY DEF Convertible
  <2>4. IsFiniteSet(S)
    BY <2>1, <2>3, FS_Subset
  <2>5. S # {}
    BY <1>1, <2>2, FS_EmptySet
  <2>6. \A c \in S : /\ CalculateAdjustedPrice(c) \in IndexPrice
                     /\ CalculateAdjustedPrice(c).direct + MaxPriceAge >= tickStart
    BY <2>2, AdjustedPrices
  <2>7. Aggregated(t) = MedianPrice(S)
    BY <1>1 DEF Aggregated
  <2>8. /\ MedianPrice(S) \in IndexPrice
        /\ \E c \in S : MedianPrice(S).direct = CalculateAdjustedPrice(c).direct
        /\ \E c \in S : MedianPrice(S).oldest = CalculateAdjustedPrice(c).oldest
    <3> HIDE DEF S
    <3> QED
      BY <2>4, <2>5, <2>6, Medians
  <2>9. \A c \in S, rank \in Rankings :
          rank[t] <= Depth => CalculateAdjustedPrice(c).oldest + MaxPriceAge >= NextStart(rank[t])
    BY <1>1, RankedPrices
  <2> HIDE DEF S
  <2>10. /\ MedianPrice(S).direct + MaxPriceAge >= tickStart
         /\ \A rank \in Rankings :
              rank[t] <= Depth => MedianPrice(S).oldest + MaxPriceAge >= NextStart(rank[t])
    BY <2>6, <2>8, <2>9
  <2> QED
    BY <2>7, <2>8, <2>10
<1>2. CASE ~(cfg[t] # NoMarket /\ cfg[t].enabled /\ Cardinality(S) >= cfg[t].min)
  BY <1>2 DEF Aggregated
<1> QED
  BY <1>1, <1>2

(* Every step keeps the index prices, and what they are made from, fresh.  *)
LEMMA IndexNext ==
  ASSUME TimesOK, MapOK(cfg), PricesOK, IndexOK, IngredientsFresh, [Next]_vars
  PROVE  IndexOK' /\ IngredientsFresh'
<1>1. \/ UNCHANGED <<indexPrices, starts>>
      \/ /\ indexPrices' = [t \in Pair |-> Aggregated(t)]
         /\ starts' = [d \in 0 .. Depth |-> NextStart(d)]
  BY DEF Next, vars, loopVars, ProviderNext, MapperNext, LoopNext, StartProvider, RestartFetch, UpdateData,
         CheckMarketMap, UpdateProviders, UpdateMarketMap, BeginTick, LockForFetch, FetchPrices,
         AggregatePrices, SetLastSyncTime, PassTime, NextStart
<1>2. CASE UNCHANGED <<indexPrices, starts>>
  BY <1>2 DEF IndexOK, IngredientsFresh, Priced
<1>3. CASE /\ indexPrices' = [t \in Pair |-> Aggregated(t)]
           /\ starts' = [d \in 0 .. Depth |-> NextStart(d)]
  <2>1. \A t \in Pair : indexPrices'[t] = Aggregated(t)
    BY <1>3
  <2>2. \A d \in 0 .. Depth : starts'[d] = NextStart(d)
    BY <1>3
  <2>3. starts'[0] = tickStart
    BY <2>2, Constants DEF NextStart
  <2>4. indexPrices' \in [Pair -> IndexPrice \cup {NoData}]
    BY <1>3, AggregatedPrices
  <2>5. Priced' = {t \in Pair : Aggregated(t) # NoData}
    BY <2>1 DEF Priced
  <2>6. IndexOK'
    BY <2>1, <2>3, <2>4, <2>5, AggregatedPrices DEF IndexOK
  <2>7. ASSUME NEW rank \in Rankings, NEW t \in Priced', rank[t] <= Depth
        PROVE  indexPrices'[t].oldest + MaxPriceAge >= starts'[rank[t]]
    <3>1. t \in Pair /\ Aggregated(t) # NoData
      BY <2>5, <2>7
    <3>2. rank[t] \in 0 .. Depth
      BY <2>7, <3>1, Constants DEF Rankings
    <3> QED
      BY <2>1, <2>2, <2>7, <3>1, <3>2, AggregatedPrices
  <2>8. IngredientsFresh'
    BY <2>7 DEF IngredientsFresh, Rankings
  <2> QED
    BY <2>6, <2>8
<1> QED
  BY <1>1, <1>2, <1>3

-----------------------------------------------------------------------------
(* The invariant holds when the side-car starts.                           *)
LEMMA SidecarInit == Init => SidecarInv
<1> SUFFICES ASSUME Init PROVE SidecarInv
  OBVIOUS
<1>1. TimesOK
  BY Constants DEF Init, TimesOK
<1>2. MapOK(cfg) /\ MapOK(newMap)
  BY ServedMaps DEF Init
<1>3. DataOK /\ PricesOK
  BY DEF Init, DataOK, PricesOK, NoPrices
<1>4. Priced = {}
  BY DEF Init, Priced
<1>5. indexPrices \in [Pair -> IndexPrice \cup {NoData}]
  BY DEF Init
<1>6. IndexOK /\ IngredientsFresh
  BY <1>4, <1>5 DEF IndexOK, IngredientsFresh
<1> QED
  BY <1>1, <1>2, <1>3, <1>6 DEF SidecarInv

(* Every step keeps the invariant.                                         *)
LEMMA SidecarNextInv ==
  ASSUME SidecarInv, [Next]_vars
  PROVE  SidecarInv'
<1>1. TimesOK'
  BY TimesNext DEF SidecarInv
<1>2. MapOK(cfg)' /\ MapOK(newMap)'
  BY MapsNext DEF SidecarInv
<1>3. DataOK'
  BY DataNext DEF SidecarInv
<1>4. PricesOK'
  BY PricesNext DEF SidecarInv
<1>5. IndexOK' /\ IngredientsFresh'
  BY IndexNext DEF SidecarInv
<1> QED
  BY <1>1, <1>2, <1>3, <1>4, <1>5 DEF SidecarInv

(* What the clock, the market maps, the providers' data, the tick's prices *)
(* and the index prices say together.                                      *)
THEOREM SidecarInvariant == Spec => []SidecarInv
<1>1. SidecarInv /\ [Next]_vars => SidecarInv'
  BY SidecarNextInv
<1> QED
  BY <1>1, SidecarInit, PTL DEF Spec

(* GetPrices serves no price that was made from a provider price older     *)
(* than MaxPriceAge when the tick began.                                   *)
THEOREM ServedPricesFreshTheorem == Spec => []ServedPricesFresh
<1>1. SidecarInv => ServedPricesFresh
  BY DEF SidecarInv, IndexOK, ServedPricesFresh
<1> QED
  BY <1>1, SidecarInvariant, PTL

(* Through d normalizations a price looks back no further than d ticks.    *)
THEOREM IngredientsFreshTheorem == Spec => []IngredientsFresh
<1>1. SidecarInv => IngredientsFresh
  BY DEF SidecarInv
<1> QED
  BY <1>1, SidecarInvariant, PTL

(* A provider's data never goes back in time.                              *)
THEOREM DataMovesForwardTheorem == Spec => DataMovesForward
<1> DEFINE Step == \A p \in Provider, tk \in ProviderTicker :
       data[p][tk] # NoData => data'[p][tk] # NoData /\ data'[p][tk].ts >= data[p][tk].ts
<1>1. SidecarInv /\ [Next]_vars => [Step]_vars
  BY DataNext DEF SidecarInv
<1>2. Spec => [][Step]_vars
  BY <1>1, SidecarInvariant, PTL DEF Spec
<1> QED
  BY <1>2 DEF DataMovesForward

-----------------------------------------------------------------------------
(* The types that the invariant does not need.                             *)
OtherTypes ==
  /\ ids \in [Provider -> SUBSET ProviderTicker] /\ fetchIDs \in [Provider -> SUBSET ProviderTicker]
  /\ started \in [Provider -> {"stopped", "starting", "running"}]
  /\ marketMap \in MarketMap /\ cfg \in MarketMap /\ newMap \in MarketMap
  /\ mapper \in {"idle", "checked", "updating"}
  /\ loop \in {"idle", "begun", "fetch", "aggregate", "sync"} /\ todo \in SUBSET Provider

(* Every step keeps the types that the invariant has no use for.           *)
LEMMA OtherTypesNext ==
  ASSUME OtherTypes, [Next]_vars
  PROVE  OtherTypes'
<1>1. \A mm : ids' \in Assignments(mm) => ids' \in [Provider -> SUBSET ProviderTicker]
  BY DEF Assignments
<1>2. ASSUME NEW p \in Provider, StartProvider(p) \/ RestartFetch(p) PROVE OtherTypes'
  BY <1>2 DEF OtherTypes, StartProvider, RestartFetch, mapVars, loopVars
<1>3. ASSUME NEW mm \in MarketMaps, CheckMarketMap(mm) PROVE OtherTypes'
  <2>1. ValidSubset(mm) \in MarketMap
    <3>1. \A t \in Pair : ValidSubset(mm)[t] \in Market \cup {NoMarket}
      BY ValidSubsets DEF MapOK, MarketOK
    <3> QED
      BY <3>1 DEF MarketMap, ValidSubset
  <2>2. newMap' = ValidSubset(mm) /\ mapper' = "checked" /\ UNCHANGED <<marketMap, cfg, providerVars, loopVars>>
    BY <1>3 DEF CheckMarketMap
  <2> QED
    BY <2>1, <2>2 DEF OtherTypes, providerVars, loopVars
<1>4. CASE UpdateProviders
  <2>1. /\ ids' \in Assignments(newMap) /\ mapper' = "updating"
        /\ started' = [p \in Provider |-> StateAfter(started[p], ids'[p])]
        /\ UNCHANGED <<fetchIDs, marketMap, cfg, newMap, loopVars>>
    BY <1>4 DEF UpdateProviders
  <2>2. \A state \in {"stopped", "starting", "running"} : \A tickers :
          StateAfter(state, tickers) \in {"stopped", "starting", "running"}
    BY DEF StateAfter
  <2>3. started' \in [Provider -> {"stopped", "starting", "running"}]
    BY <2>1, <2>2 DEF OtherTypes
  <2> QED
    BY <1>1, <2>1, <2>3 DEF OtherTypes, loopVars
<1>5. CASE UpdateMarketMap \/ PassTime \/ UNCHANGED vars \/ (\E p \in Provider : UpdateData(p))
  BY <1>5 DEF OtherTypes, UpdateMarketMap, PassTime, UpdateData, vars, providerVars, mapVars, loopVars
<1>6. CASE BeginTick \/ LockForFetch \/ AggregatePrices \/ SetLastSyncTime
  BY <1>6 DEF OtherTypes, BeginTick, LockForFetch, AggregatePrices, SetLastSyncTime, providerVars, mapVars
<1>7. ASSUME NEW p \in Provider, FetchPrices(p) PROVE OtherTypes'
  BY <1>7 DEF OtherTypes, FetchPrices, providerVars, mapVars
<1> QED
  BY <1>2, <1>3, <1>4, <1>5, <1>6, <1>7 DEF Next, ProviderNext, MapperNext, LoopNext

(* They hold when the side-car starts.                                     *)
LEMMA OtherTypesInit == Init => OtherTypes
<1> SUFFICES ASSUME Init PROVE OtherTypes
  OBVIOUS
<1>1. ids \in [Provider -> SUBSET ProviderTicker]
  BY DEF Init, Assignments
<1>2. marketMap \in MarketMap /\ cfg \in MarketMap /\ newMap \in MarketMap
  BY SidecarConstants DEF Init
<1> QED
  BY <1>1, <1>2 DEF Init, OtherTypes

(* Every variable of the loop, the listener and the providers has its      *)
(* type.                                                                   *)
THEOREM SidecarTypeCorrect == Spec => []SidecarTypeOK
<1>1. OtherTypes /\ [Next]_vars => OtherTypes'
  BY OtherTypesNext
<1>2. Spec => []OtherTypes
  BY <1>1, OtherTypesInit, PTL DEF Spec
<1>3. SidecarInv /\ OtherTypes => SidecarTypeOK
  BY DEF SidecarInv, TimesOK, DataOK, PricesOK, IndexOK, OtherTypes, SidecarTypeOK
<1> QED
  BY <1>2, <1>3, SidecarInvariant, PTL
=============================================================================
