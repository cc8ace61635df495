--------------------------- MODULE PricingProofs ----------------------------
(***************************************************************************)
(* Theorems about sync and about two sources of a pricing chain:           *)
(* PriceSelection, for any catalog, products and prices; SyncPool, for any *)
(* number of workers, units and pages; Conversion, for any TTL, timeout,   *)
(* feed and estimate; Retry, for any policy and any errors.  They share no *)
(* state.                                                                  *)
(***************************************************************************)
EXTENDS PriceSelection, SyncPool, Conversion, Retry, FiniteSetTheorems, TLAPS

-----------------------------------------------------------------------------
(* The largest of a set of amounts.                                        *)

LEMMA LargestFacts ==
    ASSUME NEW S \in SUBSET Amounts, ~(S \subseteq {0})
    PROVE  /\ Largest(S) \in S /\ Largest(S) # 0 /\ Largest(S) \in Nat
           /\ \A x \in S : x <= Largest(S)
<1>1. PICK y \in S : y # 0
  OBVIOUS
<1>2. \E m \in S : \A x \in S : x <= m
  BY AmountAssumption
<1>3. Largest(S) \in S /\ \A x \in S : x <= Largest(S)
  BY <1>2 DEF Largest
<1>4. S \subseteq Nat
  BY AmountAssumption
<1>5. y \in Nat /\ y <= Largest(S) /\ Largest(S) \in Nat
  BY <1>1, <1>3, <1>4
<1> QED
  BY <1>1, <1>3, <1>5

LEMMA LargestIs ==
    ASSUME NEW S \in SUBSET Amounts, NEW m \in S, m # 0, \A x \in S : x <= m
    PROVE  Largest(S) = m
<1>1. ~(S \subseteq {0}) /\ S \subseteq Nat
  BY AmountAssumption
<1>2. Largest(S) \in S /\ Largest(S) \in Nat /\ m <= Largest(S)
  BY <1>1, LargestFacts
<1> QED
  BY <1>1, <1>2

\* What a product's rows quote, and the rate sync takes from them.
Quotes(p, option, measure) == {price.usd : price \in Eligible(p.prices, option, measure)}

LEMMA QuotesAreAmounts ==
    ASSUME NEW p \in Products, NEW option, NEW measure
    PROVE  Quotes(p, option, measure) \ {Bad} \in SUBSET Amounts
BY SelectionAssumption DEF Quotes, Eligible

LEMMA RateFacts ==
    ASSUME NEW p \in Products, NEW option, NEW measure
    PROVE  LET best == SelectRate(p.prices, option, measure)
           IN  /\ best \in Nat
               /\ best # 0 => best \in Quotes(p, option, measure) \ {Bad}
               /\ \A x \in Quotes(p, option, measure) \ {Bad} : x <= best
<1> DEFINE S == Quotes(p, option, measure) \ {Bad}
<1>1. S \in SUBSET Amounts /\ S \subseteq Nat
  BY QuotesAreAmounts, AmountAssumption
<1>2. SelectRate(p.prices, option, measure) = Largest(S)
  BY DEF SelectRate, Quotes
<1> HIDE DEF S
<1>3. CASE S \subseteq {0}
  <2>1. Largest(S) = 0
    BY <1>3 DEF Largest
  <2> QED
    BY <1>2, <1>3, <2>1 DEF S
<1>4. CASE ~(S \subseteq {0})
  BY <1>1, <1>2, <1>4, LargestFacts DEF S
<1> QED
  BY <1>3, <1>4

-----------------------------------------------------------------------------
(* The inductive invariant: the entries are the largest offers so far.     *)

\* Every entry is what one of the products was offered at, ...
Sound ==
    \A k \in DOMAIN byKey :
        \E i \in DOMAIN seen : \E o \in Offers(seen[i]) : o.key = k /\ o.rate = byKey[k]

\* ... and no product was offered for more.
Complete ==
    \A i \in DOMAIN seen : \A o \in Offers(seen[i]) :
        o.key \in DOMAIN byKey /\ o.rate <= byKey[o.key]

IInv ==
    /\ syncing \in PlanUnits
    /\ seen \in Seq(Products) /\ Len(seen) <= MaxProducts
    /\ \A k \in DOMAIN byKey : byKey[k] \in Amounts \ {0}
    /\ Sound /\ Complete

LEMMA OfferFacts ==
    ASSUME NEW p \in Products, NEW o \in Offers(p)
    PROVE  o.rate \in Amounts \ {0}
<1>1. PICK s \in syncing.shapes :
          /\ Sells(s, p)
          /\ o = [key |-> KeyOf(s, p), rate |-> SelectRate(p.prices, s.option, s.measure)]
          /\ o.rate # 0
  BY DEF Offers
<1>2. o.rate = SelectRate(p.prices, s.option, s.measure)
  BY <1>1
<1>3. o.rate \in Quotes(p, s.option, s.measure) \ {Bad}
  BY <1>1, <1>2, RateFacts
<1> QED
  BY <1>1, <1>3, QuotesAreAmounts

LEMMA InitEstablishes == SelectionInit => IInv
<1> SUFFICES ASSUME SelectionInit PROVE IInv
  OBVIOUS
<1>1. syncing \in PlanUnits /\ seen = <<>> /\ byKey = [k \in {} |-> 0]
  BY DEF SelectionInit
<1>2. seen \in Seq(Products) /\ Len(seen) = 0 /\ DOMAIN seen = {} /\ DOMAIN byKey = {}
  BY <1>1
<1> QED
  BY <1>1, <1>2, SelectionAssumption DEF IInv, Sound, Complete

\* A product's offers are merged into the entries.
LEMMA ResolveKeeps ==
    ASSUME IInv, Len(seen) < MaxProducts, NEW p \in Products, ResolveProduct(p)
    PROVE  IInv'
<1> DEFINE keys == DOMAIN byKey \cup {o.key : o \in Offers(p)}
           merged(k) == {o.rate : o \in {x \in Offers(p) : x.key = k}}
                          \cup {byKey[j] : j \in {k} \cap DOMAIN byKey}
<1>1. /\ syncing \in PlanUnits /\ seen \in Seq(Products) /\ Len(seen) \in Nat
      /\ \A k \in DOMAIN byKey : byKey[k] \in Amounts \ {0}
      /\ Sound /\ Complete
  BY DEF IInv
<1>2. /\ syncing' = syncing /\ seen' = Append(seen, p)
      /\ byKey' = [k \in keys |-> Largest(merged(k))]
  BY DEF ResolveProduct
<1>3. /\ seen' \in Seq(Products) /\ Len(seen') = Len(seen) + 1
      /\ DOMAIN seen' = 1 .. Len(seen) + 1 /\ DOMAIN seen = 1 .. Len(seen)
      /\ seen'[Len(seen) + 1] = p /\ \A i \in DOMAIN seen : seen'[i] = seen[i]
  BY <1>1, <1>2
<1>4. \A i \in DOMAIN seen' : i \in DOMAIN seen \/ i = Len(seen) + 1
  BY <1>1, <1>3
<1>5. \A x : Offers(x)' = Offers(x)
  BY <1>2 DEF Offers, KeyOf
<1>6. Amounts \subseteq Nat
  BY AmountAssumption
<1>7. ASSUME NEW k \in keys
      PROVE  /\ merged(k) \in SUBSET Amounts /\ byKey'[k] \in merged(k) /\ byKey'[k] # 0
             /\ \A x \in merged(k) : x <= byKey'[k]
  <2>1. \A x \in merged(k) : x \in Amounts \ {0}
    BY <1>1, OfferFacts
  <2>2. merged(k) # {}
    <3>1. CASE k \in DOMAIN byKey
      BY <3>1
    <3>2. CASE k \in {o.key : o \in Offers(p)}
      <4>1. PICK o \in Offers(p) : o.key = k
        BY <3>2
      <4>2. o.rate \in merged(k)
        BY <4>1
      <4> QED
        BY <4>2
    <3> QED
      BY <3>1, <3>2
  <2>3. byKey'[k] = Largest(merged(k))
    BY <1>2
  <2> HIDE DEF merged
  <2>4. ~(merged(k) \subseteq {0})
    BY <2>1, <2>2
  <2> QED
    BY <2>1, <2>3, <2>4, LargestFacts
<1>8. DOMAIN byKey' = keys
  BY <1>2
<1>9. Sound'
  <2> SUFFICES ASSUME NEW k \in keys
               PROVE  \E i \in DOMAIN seen' : \E o \in Offers(seen'[i]) :
                          o.key = k /\ o.rate = byKey'[k]
    BY <1>5, <1>8 DEF Sound
  <2>1. CASE \E o \in Offers(p) : o.key = k /\ o.rate = byKey'[k]
    <3>1. Len(seen) + 1 \in DOMAIN seen' /\ seen'[Len(seen) + 1] = p
      BY <1>1, <1>3
    <3> QED
      BY <2>1, <3>1
  <2>2. CASE k \in DOMAIN byKey /\ byKey'[k] = byKey[k]
    <3>1. PICK i \in DOMAIN seen :
             \E o \in Offers(seen[i]) : o.key = k /\ o.rate = byKey[k]
      BY <1>1, <2>2 DEF Sound
    <3>2. i \in DOMAIN seen' /\ seen'[i] = seen[i]
      BY <1>1, <1>3
    <3> QED
      BY <2>2, <3>1, <3>2
  <2> QED
    BY <1>7, <2>1, <2>2
<1>10. Complete'
  <2> SUFFICES ASSUME NEW i \in DOMAIN seen', NEW o \in Offers(seen'[i])
               PROVE  o.key \in keys /\ o.rate <= byKey'[o.key]
    BY <1>5, <1>8 DEF Complete
  <2>1. CASE i \in DOMAIN seen
    <3>1. o.key \in DOMAIN byKey /\ o.rate <= byKey[o.key] /\ seen[i] \in Products
          /\ o \in Offers(seen[i])
      BY <1>1, <1>3, <2>1 DEF Complete
    <3>2. byKey[o.key] <= byKey'[o.key]
      BY <1>7, <3>1
    <3>3. o.rate \in Nat /\ byKey[o.key] \in Nat /\ byKey'[o.key] \in Nat
      BY <1>1, <1>6, <1>7, <3>1, OfferFacts
    <3> QED
      BY <3>1, <3>2, <3>3
  <2>2. CASE i = Len(seen) + 1
    <3>1. o \in Offers(p)
      BY <1>3, <2>2
    <3> QED
      BY <1>7, <3>1
  <2> QED
    BY <1>4, <2>1, <2>2
<1>11. \A k \in DOMAIN byKey' : byKey'[k] \in Amounts \ {0}
  BY <1>7, <1>8
<1>12. Len(seen') <= MaxProducts
  BY <1>1, <1>3, SelectionAssumption
<1> QED
  BY <1>1, <1>2, <1>3, <1>9, <1>10, <1>11, <1>12 DEF IInv

LEMMA Invariance == SelectionSpec => []IInv
<1>1. IInv /\ [SelectionNext]_selectionVars => IInv'
  <2> SUFFICES ASSUME IInv, [SelectionNext]_selectionVars PROVE IInv'
    OBVIOUS
  <2>1. CASE UNCHANGED selectionVars
    BY <2>1 DEF selectionVars, IInv, Sound, Complete, Offers, KeyOf
  <2> QED
    BY <2>1, ResolveKeeps DEF SelectionNext
<1> QED
  BY <1>1, InitEstablishes, PTL DEF SelectionSpec

\* What a unit's synchronization holds: entries with positive rates only.
THEOREM SelectionTypeCorrect == SelectionSpec => []SelectionTypeOK
<1>1. IInv => SelectionTypeOK
  BY DEF IInv, SelectionTypeOK
<1> QED
  BY <1>1, Invariance, PTL

-----------------------------------------------------------------------------
(* The live path and the sync path name a rate alike.                      *)

\* A product that is stored under a query is one the query matches, ...
LEMMA KeyMatches ==
    ASSUME NEW s, NEW p, NEW q, Sells(s, p), KeyOf(s, p) = q
    PROVE  Matches(q, p) /\ q.option = s.option /\ q.measure = s.measure
<1>1. /\ q.family = s.family /\ q.option = s.option /\ q.measure = s.measure
      /\ q.filters = ProjectFilters(s, p)
  BY DEF KeyOf
<1>2. DOMAIN q.filters = DOMAIN s.fixed \cup s.keys
  BY <1>1 DEF ProjectFilters
<1>3. ASSUME NEW k \in DOMAIN q.filters
      PROVE  k \in DOMAIN p.attrs /\ p.attrs[k] = q.filters[k]
  <2>1. q.filters[k] = IF k \in s.keys THEN p.attrs[k] ELSE s.fixed[k]
    BY <1>1, <1>2, <1>3 DEF ProjectFilters
  <2> QED
    BY <1>2, <2>1 DEF Sells, MatchesFixed
<1> QED
  BY <1>1, <1>3 DEF Matches, Sells

\* ... and a product that a query of the engine matches is stored under it.
LEMMA MatchIsKey ==
    ASSUME NEW m \in Mappings, NEW vals, NEW p,
           syncing \in PlanUnits,
           m.service = syncing.service, syncing.region \in PlannedRegions(Shape(m)),
           Matches(EngineQuery(m, syncing.region, vals), p)
    PROVE  /\ Shape(m) \in syncing.shapes /\ Sells(Shape(m), p)
           /\ KeyOf(Shape(m), p) = EngineQuery(m, syncing.region, vals)
<1> DEFINE s == Shape(m)
           q == EngineQuery(m, syncing.region, vals)
<1>1. /\ s.service = m.service /\ s.family = m.family /\ s.measure = m.measure
      /\ s.option = ResolvePurchaseOption(m.option) /\ s.region = m.region
      /\ s.fixed = [k \in {j \in DOMAIN m.filters : m.filters[j] # Dynamic} |-> m.filters[k]]
      /\ s.keys = {k \in DOMAIN m.filters : m.filters[k] = Dynamic}
  BY DEF Shape
<1>2. /\ q.service = m.service /\ q.family = m.family /\ q.measure = m.measure
      /\ q.option = ResolvePurchaseOption(m.option)
      /\ q.region = IF m.region # None THEN m.region ELSE syncing.region
      /\ q.filters = [k \in DOMAIN m.filters |->
                         IF m.filters[k] = Dynamic THEN vals[k] ELSE m.filters[k]]
  BY DEF EngineQuery
<1>3. s \in syncing.shapes
  <2>1. PICK t \in Shapes, r \in UNION {PlannedRegions(x) : x \in Shapes} :
           syncing = [service |-> t.service, region |-> r,
                   shapes |-> {x \in Shapes : x.service = t.service /\ r \in PlannedRegions(x)}]
    BY DEF PlanUnits
  <2>2. /\ syncing.service = t.service
        /\ syncing.shapes = {x \in Shapes : /\ x.service = syncing.service
                                         /\ syncing.region \in PlannedRegions(x)}
    BY <2>1
  <2>3. t.service # None
    <3>1. PICK n \in Mappings : n.service # None /\ t = Shape(n)
      BY DEF Shapes
    <3> QED
      BY <3>1 DEF Shape
  <2>4. s \in Shapes
    BY <2>2, <2>3 DEF Shapes
  <2> QED
    BY <1>1, <2>2, <2>4
<1>4. q.region = syncing.region
  BY <1>1, <1>2 DEF PlannedRegions
<1> HIDE DEF s
<1>5. Matches(q, p)
  OBVIOUS
<1> HIDE DEF q
<1>6. /\ q.family # None => p.family = q.family
      /\ \A k \in DOMAIN m.filters : k \in DOMAIN p.attrs /\ p.attrs[k] = q.filters[k]
  BY <1>2, <1>5 DEF Matches
<1>7. Sells(s, p)
  <2>1. MatchesFixed(p.attrs, s.fixed)
    BY <1>1, <1>2, <1>6 DEF MatchesFixed
  <2>2. s.keys \subseteq DOMAIN p.attrs
    BY <1>1, <1>6
  <2> QED
    BY <1>1, <1>2, <1>6, <2>1, <2>2 DEF Sells
<1>8. ProjectFilters(s, p) = q.filters
  <2>1. DOMAIN s.fixed \cup s.keys = DOMAIN m.filters
    BY <1>1
  <2>2. ASSUME NEW k \in DOMAIN m.filters
        PROVE  (IF k \in s.keys THEN p.attrs[k] ELSE s.fixed[k])
                 = IF m.filters[k] = Dynamic THEN vals[k] ELSE m.filters[k]
    BY <1>1, <1>2, <1>6
  <2> QED
    BY <1>2, <2>1, <2>2 DEF ProjectFilters
<1>9. q = [service |-> q.service, family |-> q.family, region |-> q.region,
           filters |-> q.filters, option |-> q.option, measure |-> q.measure]
  BY DEF q, EngineQuery
<1>10. KeyOf(s, p) = q
  BY <1>1, <1>2, <1>4, <1>8, <1>9 DEF KeyOf
<1> QED
  BY <1>3, <1>7, <1>10 DEF s, q

\* Up to the limit, the upstream returns every product that matches.
LEMMA AllReturned ==
    ASSUME IInv, MaxProducts <= Limit, NEW q
    PROVE  Returned(q, seen) = {seen[i] : i \in {j \in DOMAIN seen : Matches(q, seen[j])}}
<1> DEFINE upTo(j) == {i \in 1 .. j : Matches(q, seen[i])}
<1>1. DOMAIN seen = 1 .. Len(seen) /\ Len(seen) \in Nat /\ Len(seen) <= Limit
  BY SelectionAssumption DEF IInv
<1>2. ASSUME NEW j \in DOMAIN seen
      PROVE  /\ Cardinality(upTo(j)) <= Limit
             /\ j \in upTo(j) <=> Matches(q, seen[j])
  <2>1. j \in Nat /\ 1 <= j /\ j <= Limit /\ Limit \in Nat
    BY <1>1, SelectionAssumption
  <2>2. IsFiniteSet(1 .. j) /\ Cardinality(1 .. j) = j
    BY <2>1, FS_Interval
  <2>3. upTo(j) \in SUBSET (1 .. j)
    OBVIOUS
  <2>4. j \in upTo(j) <=> Matches(q, seen[j])
    BY <2>1
  <2> HIDE DEF upTo
  <2>5. Cardinality(upTo(j)) \in Nat /\ Cardinality(upTo(j)) <= j
    BY <2>2, <2>3, FS_Subset, FS_CardinalityType
  <2> QED
    BY <2>1, <2>4, <2>5
<1>3. Returned(q, seen) =
        {seen[i] : i \in {j \in DOMAIN seen : j \in upTo(j) /\ Cardinality(upTo(j)) <= Limit}}
  BY DEF Returned
<1> HIDE DEF upTo
<1> QED
  BY <1>2, <1>3

-----------------------------------------------------------------------------
(* The theorem.                                                            *)

\* As long as a query matches no more products than the upstream returns at
\* once, sync stores, for every query the engine can ask, the rate that the
\* live path picks, and nothing where that picks zero.
THEOREM MirrorCorrect ==
    ASSUME MaxProducts <= Limit
    PROVE  SelectionSpec => []MirrorsLive
<1>1. IInv => MirrorsLive
  <2> SUFFICES ASSUME IInv, NEW q \in Asked, ~LookupFails(q, seen)
               PROVE  Synced(q) = PickNonZeroPrice(q, seen)
    BY DEF MirrorsLive
  <2> DEFINE S == Quoted(q, seen)
             matching == {j \in DOMAIN seen : Matches(q, seen[j])}
             quotes(i) == Quotes(seen[i], q.option, q.measure)
             best(i) == SelectRate(seen[i].prices, q.option, q.measure)
  <2>1. PICK m \in Mappings, vals \in [UNION {DOMAIN n.filters : n \in Mappings} -> Values] :
           /\ m.service = syncing.service /\ syncing.region \in PlannedRegions(Shape(m))
           /\ q = EngineQuery(m, syncing.region, vals)
    <3> DEFINE M == {n \in Mappings : /\ n.service = syncing.service
                                      /\ syncing.region \in PlannedRegions(Shape(n))}
               V == [UNION {DOMAIN n.filters : n \in Mappings} -> Values]
    <3>1. Asked = {EngineQuery(n, syncing.region, v) : n \in M, v \in V}
      BY DEF Asked
    <3> HIDE DEF V
    <3>2. PICK n \in M, v \in V : q = EngineQuery(n, syncing.region, v)
      BY <3>1
    <3>3. n \in Mappings /\ n.service = syncing.service /\ syncing.region \in PlannedRegions(Shape(n))
      OBVIOUS
    <3> QED
      BY <3>2, <3>3 DEF V
  <2>2. /\ seen \in Seq(Products) /\ syncing \in PlanUnits /\ Sound /\ Complete
        /\ \A k \in DOMAIN byKey : byKey[k] \in Amounts \ {0}
    BY DEF IInv
  <2>3. \A i \in DOMAIN seen : seen[i] \in Products
    BY <2>2
  <2>4. Bad \notin S /\ \A x : x \in S <=> \E i \in matching : x \in quotes(i)
    <3>1. Returned(q, seen) = {seen[i] : i \in matching}
      BY AllReturned
    <3>2. S = {price.usd : price \in UNION {Eligible(p.prices, q.option, q.measure) :
                                              p \in Returned(q, seen)}}
      BY DEF Quoted
    <3> HIDE DEF S, matching
    <3>3. \A x : x \in S <=> \E i \in matching : x \in quotes(i)
      BY <3>1, <3>2 DEF Quotes
    <3> QED
      BY <3>3 DEF LookupFails, S
  <2>5. PickNonZeroPrice(q, seen) = Largest(S)
    <3>1. S \ {Bad} = S
      BY <2>4
    <3> QED
      BY <3>1 DEF PickNonZeroPrice
  <2>6. S \in SUBSET Amounts
    BY <2>3, <2>4, QuotesAreAmounts
  <2>7. ASSUME NEW i \in matching
        PROVE  /\ best(i) \in Nat /\ (best(i) # 0 => best(i) \in S)
               /\ \A x \in quotes(i) : x <= best(i)
               /\ best(i) # 0 => q \in DOMAIN byKey /\ best(i) <= byKey[q]
    <3>1. i \in DOMAIN seen /\ seen[i] \in Products /\ Matches(q, seen[i])
      BY <2>3
    <3>2. /\ best(i) \in Nat /\ (best(i) # 0 => best(i) \in quotes(i))
          /\ \A x \in quotes(i) \ {Bad} : x <= best(i)
      BY <3>1, RateFacts
    <3>3. \A x \in quotes(i) : x \in S
      BY <2>4
    <3>4. best(i) # 0 => q \in DOMAIN byKey /\ best(i) <= byKey[q]
      <4> SUFFICES ASSUME best(i) # 0 PROVE q \in DOMAIN byKey /\ best(i) <= byKey[q]
        OBVIOUS
      <4>1. /\ Shape(m) \in syncing.shapes /\ Sells(Shape(m), seen[i])
            /\ KeyOf(Shape(m), seen[i]) = q
        BY <2>1, <2>2, <3>1, MatchIsKey
      <4>2. q.option = Shape(m).option /\ q.measure = Shape(m).measure
        BY <4>1, KeyMatches
      <4> DEFINE o == [key |-> q, rate |-> best(i)]
      <4>3. o \in Offers(seen[i])
        BY <4>1, <4>2 DEF Offers
      <4> QED
        BY <2>2, <3>1, <4>3 DEF Complete
    <3> QED
      BY <2>4, <3>2, <3>3, <3>4
  <2>8. CASE q \in DOMAIN byKey
    <3>0. PICK i \in DOMAIN seen :
             \E o \in Offers(seen[i]) : o.key = q /\ o.rate = byKey[q]
      BY <2>2, <2>8 DEF Sound
    <3>1. PICK o \in Offers(seen[i]) : o.key = q /\ o.rate = byKey[q]
      BY <3>0
    <3>2. PICK s \in syncing.shapes :
             /\ Sells(s, seen[i])
             /\ o = [key |-> KeyOf(s, seen[i]),
                     rate |-> SelectRate(seen[i].prices, s.option, s.measure)]
      BY <3>1 DEF Offers
    <3>3. Matches(q, seen[i]) /\ q.option = s.option /\ q.measure = s.measure
      BY <3>1, <3>2, KeyMatches
    <3>4. i \in matching /\ best(i) = byKey[q]
      BY <3>1, <3>2, <3>3
    <3>5. byKey[q] # 0 /\ byKey[q] \in S /\ byKey[q] \in Nat
      BY <2>2, <2>7, <2>8, <3>4
    <3>6. \A x \in S : x <= byKey[q]
      <4> SUFFICES ASSUME NEW x \in S PROVE x <= byKey[q]
        OBVIOUS
      <4>1. PICK k \in matching : x \in quotes(k)
        BY <2>4
      <4>2. /\ x <= best(k) /\ best(k) \in Nat /\ x \in Nat
            /\ best(k) # 0 => best(k) <= byKey[q]
        BY <2>6, <2>7, <4>1, AmountAssumption
      <4> HIDE DEF best
      <4> QED
        BY <3>5, <4>2
    <3> HIDE DEF S
    <3>7. Largest(S) = byKey[q]
      BY <2>6, <3>5, <3>6, LargestIs
    <3> QED
      BY <2>5, <2>8, <3>7 DEF Synced
  <2>9. CASE q \notin DOMAIN byKey
    <3>1. S \subseteq {0}
      <4> SUFFICES ASSUME NEW x \in S PROVE x = 0
        OBVIOUS
      <4>1. PICK k \in matching : x \in quotes(k)
        BY <2>4
      <4>2. x <= best(k) /\ best(k) = 0 /\ x \in Nat
        BY <2>6, <2>7, <2>9, <4>1, AmountAssumption
      <4> HIDE DEF best
      <4> QED
        BY <4>2
    <3>2. Largest(S) = 0
      BY <3>1 DEF Largest
    <3> QED
      BY <2>5, <2>9, <3>2 DEF Synced
  <2> QED
    BY <2>8, <2>9
<1> QED
  BY <1>1, Invariance, PTL

-----------------------------------------------------------------------------
(* SyncPool.                                                               *)

\* An induction step is the same for every property: a step of the dispatcher,
\* of a worker, an interruption, or a stutter.
LEMMA StepCases ==
    ASSUME NEW P,
           [Next]_vars,
           \A w \in Workers : Dispatch(w) => P,
           Skip => P, Close => P, Return => P,
           \A w \in Workers : Exit(w) => P,
           \A w \in Workers : RequestPage(w) => P,
           \A w \in Workers : ReceivePage(w) => P,
           \A w \in Workers : LosePage(w) => P,
           \A w \in Workers : RecordFailure(w) => P,
           \A w \in Workers : WriteBatch(w) => P,
           \A w \in Workers : Notify(w) => P,
           \A w \in Workers : Count(w) => P,
           Interrupt => P,
           UNCHANGED vars => P
    PROVE  P
  BY DEF Next, Dispatcher, Work, Terminated

-----------------------------------------------------------------------------
(* Types.                                                                  *)

LEMMA CallTypes ==
    /\ \A u \in Units, n \in Nat : [unit |-> u, done |-> n] \in Calls
    /\ \A c \in Calls : c.unit \in Int
  BY PoolAssumption DEF Calls, Units

\* TypeOK is not inductive alone: a worker that is at a unit has a real one, and
\* a page of it is still to come.
Working(w) == pc[w] \notin {"receive", "exit"}

Engaged ==
    \A w \in Workers : /\ Working(w) => unit[w] \in Units
                       /\ pc[w] \in {"page", "fetch"} => page[w] < MaxPages

TypeInv == TypeOK /\ Engaged

LEMMA TypeInit == Init => TypeInv
<1> SUFFICES ASSUME Init PROVE TypeInv
  OBVIOUS
<1>1. next \in 1 .. Total + 1 /\ 0 \in 0 .. Total /\ 0 \in 0 .. MaxPages
  BY PoolAssumption DEF Init
<1>2. progress \in Seq(Calls)
  BY DEF Init
<1>3. Engaged
  BY DEF Init, Engaged, Working
<1>4. QED
  BY <1>1, <1>2, <1>3 DEF Init, TypeInv, TypeOK, Labels, Causes, NoErr

LEMMA TypeStep == TypeInv /\ [Next]_vars => TypeInv'
<1> SUFFICES ASSUME TypeInv, [Next]_vars PROVE TypeInv'
  OBVIOUS
<1> USE PoolAssumption
    DEF TypeInv, TypeOK, Engaged, Working, Labels, Causes, Units, NoErr, Goto,
        pool, local, shared
<1>1. ASSUME NEW w \in Workers, Dispatch(w) PROVE TypeInv'
  BY <1>1 DEF Dispatch
<1>2. Skip => TypeInv'
  BY DEF Skip
<1>3. Close => TypeInv'
  BY DEF Close
<1>4. Return => TypeInv'
  BY DEF Return
<1>5. ASSUME NEW w \in Workers, Exit(w) PROVE TypeInv'
  BY <1>5 DEF Exit
<1>6. ASSUME NEW w \in Workers, RequestPage(w) PROVE TypeInv'
  BY <1>6 DEF RequestPage
<1>7. ASSUME NEW w \in Workers, ReceivePage(w) PROVE TypeInv'
  <2>1. page[w] + 1 \in 0 .. MaxPages
    BY <1>7 DEF ReceivePage
  <2>2. page' \in [Workers -> 0 .. MaxPages]
    BY <1>7, <2>1 DEF ReceivePage
  <2>3. pc' \in [Workers -> Labels]
    BY <1>7 DEF ReceivePage
  <2>4. Engaged'
    BY <1>7, <2>2, <2>3 DEF ReceivePage
  <2>5. QED
    BY <1>7, <2>2, <2>3, <2>4 DEF ReceivePage
<1>8. ASSUME NEW w \in Workers, LosePage(w) PROVE TypeInv'
  BY <1>8 DEF LosePage
<1>9. ASSUME NEW w \in Workers, RecordFailure(w) PROVE TypeInv'
  BY <1>9 DEF RecordFailure
<1>10. ASSUME NEW w \in Workers, WriteBatch(w) PROVE TypeInv'
  <2>0. done + 1 \in Nat
    OBVIOUS
  <2>1. unit[w] \in Units
    BY <1>10 DEF WriteBatch
  <2>2. failure' \in [Workers -> Causes]
    BY <1>10 DEF WriteBatch, PutBatch
  <2>3. cached' \subseteq Units
    BY <1>10, <2>1 DEF WriteBatch, PutBatch
  <2>4. pc' \in [Workers -> Labels]
    BY <1>10 DEF WriteBatch
  <2>5. QED
    BY <1>10, <2>0, <2>1, <2>2, <2>3, <2>4 DEF WriteBatch
<1>11. ASSUME NEW w \in Workers, Notify(w) PROVE TypeInv'
  <2>1. [unit |-> unit[w], done |-> done] \in Calls
    BY <1>11, CallTypes DEF Notify
  <2>2. progress' \in Seq(Calls)
    BY <1>11, <2>1 DEF Notify
  <2>3. QED
    BY <1>11, <2>2 DEF Notify
<1>12. ASSUME NEW w \in Workers, Count(w) PROVE TypeInv'
  BY <1>12 DEF Count
<1>13. Interrupt => TypeInv'
  BY DEF Interrupt
<1>14. UNCHANGED vars => TypeInv'
  BY DEF vars
<1> HIDE DEF TypeInv
<1>15. QED
  BY <1>1, <1>2, <1>3, <1>4, <1>5, <1>6, <1>7, <1>8, <1>9, <1>10, <1>11,
     <1>12, <1>13, <1>14, StepCases

\* Type correctness.
THEOREM TypeCorrect == Spec => []TypeOK
<1>1. TypeInv => TypeOK
  BY DEF TypeInv
<1>2. QED
  BY <1>1, TypeInit, TypeStep, PTL DEF Spec

-----------------------------------------------------------------------------
(* The error and the completeness of a sync.                               *)

Alive(w) == pc[w] \in {"page", "fetch", "batch"}
Written(w) == pc[w] \in {"notify", "count"}

\* What a worker's failure is at each of its steps.  A worker whose context was
\* cancelled was cancelled by the caller or after a recorded error.
FailureInv(w) ==
    /\ Alive(w) => failure[w] = NoErr
    /\ pc[w] = "failed" => failure[w] \in {"upstream", "canceled"}
    /\ pc[w] = "failed" /\ failure[w] = "canceled" => Canceled
    /\ Written(w) => /\ failure[w] \in {NoErr, "write"}
                     /\ failure[w] = NoErr => unit[w] \in cached

CauseInv ==
    /\ \A w \in Workers : FailureInv(w)
    /\ CauseReported

LEMMA CauseInit == Init => CauseInv
  BY DEF Init, CauseInv, FailureInv, CauseReported, Alive, Written, Canceled, NoErr

LEMMA CauseStep == TypeInv /\ CauseInv /\ [Next]_vars => CauseInv'
<1> SUFFICES ASSUME TypeInv, CauseInv, [Next]_vars PROVE CauseInv'
  OBVIOUS
<1> USE PoolAssumption
    DEF TypeInv, TypeOK, Labels, Causes, CauseInv, FailureInv, CauseReported,
        Alive, Written, Canceled, NoErr, Goto, pool, local, shared
<1>1. ASSUME NEW w \in Workers, Dispatch(w) PROVE CauseInv'
  BY <1>1 DEF Dispatch
<1>2. Skip => CauseInv'
  BY DEF Skip
<1>3. Close => CauseInv'
  BY DEF Close
<1>4. Return => CauseInv'
  BY DEF Return
<1>5. ASSUME NEW w \in Workers, Exit(w) PROVE CauseInv'
  BY <1>5 DEF Exit
<1>6. ASSUME NEW w \in Workers, RequestPage(w) PROVE CauseInv'
  BY <1>6 DEF RequestPage
<1>7. ASSUME NEW w \in Workers, ReceivePage(w) PROVE CauseInv'
  BY <1>7 DEF ReceivePage
<1>8. ASSUME NEW w \in Workers, LosePage(w) PROVE CauseInv'
  BY <1>8 DEF LosePage
<1>9. ASSUME NEW w \in Workers, RecordFailure(w) PROVE CauseInv'
  BY <1>9 DEF RecordFailure
<1>10. ASSUME NEW w \in Workers, WriteBatch(w) PROVE CauseInv'
  BY <1>10 DEF WriteBatch, PutBatch
<1>11. ASSUME NEW w \in Workers, Notify(w) PROVE CauseInv'
  BY <1>11 DEF Notify
<1>12. ASSUME NEW w \in Workers, Count(w) PROVE CauseInv'
  BY <1>12 DEF Count
<1>13. Interrupt => CauseInv'
  BY DEF Interrupt
<1>14. UNCHANGED vars => CauseInv'
  BY DEF vars
<1> HIDE DEF CauseInv
<1>15. QED
  BY <1>1, <1>2, <1>3, <1>4, <1>5, <1>6, <1>7, <1>8, <1>9, <1>10, <1>11,
     <1>12, <1>13, <1>14, StepCases

\* The error Sync returns is never a cancellation that Sync itself caused.
THEOREM CauseCorrect == Spec => []CauseReported
<1>1. CauseInv => CauseReported
  BY DEF CauseInv
<1>2. QED
  BY <1>1, TypeInit, TypeStep, CauseInit, CauseStep, PTL DEF Spec

Holds(w, u) == Working(w) /\ unit[w] = u

\* No unit is lost between the dispatcher, the workers and the cache, unless
\* the sync is cancelled.
Handled ==
    \A u \in Units :
        u < next => \/ u \in cached
                    \/ Canceled
                    \/ \E w \in Workers : Holds(w, u)

\* After the loop every unit was offered; after wg.Wait every worker is gone.
Drained ==
    /\ main # "dispatch" => next > Total
    /\ main = "returned" => \A w \in Workers : pc[w] = "exit"

\* A unit in the cache is in the totals, or about to be; and conversely, unless
\* its write failed.
Totalled ==
    /\ \A u \in counted : u \in cached \/ firstErr # NoErr
    /\ \A u \in cached : \/ u \in counted
                         \/ \E w \in Workers : Written(w) /\ unit[w] = u

HandledInv == Handled /\ Drained

LEMMA HandledInit == Init => HandledInv /\ Totalled
<1> SUFFICES ASSUME Init PROVE HandledInv /\ Totalled
  OBVIOUS
<1>1. \A u \in Units : ~(u < next)
  BY PoolAssumption DEF Init, Units
<1>2. QED
  BY <1>1 DEF Init, HandledInv, Handled, Drained, Totalled

LEMMA HandledStep ==
    TypeInv /\ CauseInv /\ HandledInv /\ [Next]_vars => HandledInv'
<1> SUFFICES ASSUME TypeInv, CauseInv, HandledInv, [Next]_vars PROVE HandledInv'
  OBVIOUS
<1> USE PoolAssumption
    DEF TypeInv, TypeOK, Units, CauseInv, FailureInv, Written,
        HandledInv, Handled, Drained, Holds, Working, Canceled, NoErr, Goto,
        pool, local, shared
<1>1. ASSUME NEW w \in Workers, Dispatch(w) PROVE HandledInv'
  BY <1>1 DEF Dispatch
<1>2. Skip => HandledInv'
  BY DEF Skip
<1>3. Close => HandledInv'
  BY DEF Close
<1>4. Return => HandledInv'
  BY DEF Return
<1>5. ASSUME NEW w \in Workers, Exit(w) PROVE HandledInv'
  BY <1>5 DEF Exit
<1>6. ASSUME NEW w \in Workers, RequestPage(w) PROVE HandledInv'
  BY <1>6 DEF RequestPage
<1>7. ASSUME NEW w \in Workers, ReceivePage(w) PROVE HandledInv'
  BY <1>7 DEF ReceivePage
<1>8. ASSUME NEW w \in Workers, LosePage(w) PROVE HandledInv'
  BY <1>8 DEF LosePage
<1>9. ASSUME NEW w \in Workers, RecordFailure(w) PROVE HandledInv'
  BY <1>9 DEF RecordFailure
<1>10. ASSUME NEW w \in Workers, WriteBatch(w) PROVE HandledInv'
  BY <1>10 DEF WriteBatch, PutBatch
<1>11. ASSUME NEW w \in Workers, Notify(w) PROVE HandledInv'
  BY <1>11 DEF Notify
<1>12. ASSUME NEW w \in Workers, Count(w) PROVE HandledInv'
  BY <1>12 DEF Count
<1>13. Interrupt => HandledInv'
  BY DEF Interrupt
<1>14. UNCHANGED vars => HandledInv'
  BY DEF vars
<1> HIDE DEF HandledInv
<1>15. QED
  BY <1>1, <1>2, <1>3, <1>4, <1>5, <1>6, <1>7, <1>8, <1>9, <1>10, <1>11,
     <1>12, <1>13, <1>14, StepCases

LEMMA TotalledStep ==
    TypeInv /\ CauseInv /\ Totalled /\ [Next]_vars => Totalled'
<1> SUFFICES ASSUME TypeInv, CauseInv, Totalled, [Next]_vars PROVE Totalled'
  OBVIOUS
<1> USE PoolAssumption
    DEF TypeInv, TypeOK, Units, CauseInv, FailureInv, Written,
        Totalled, NoErr, Goto, pool, local, shared
<1>1. ASSUME NEW w \in Workers, Dispatch(w) PROVE Totalled'
  BY <1>1 DEF Dispatch
<1>2. Skip => Totalled'
  BY DEF Skip
<1>3. Close => Totalled'
  BY DEF Close
<1>4. Return => Totalled'
  BY DEF Return
<1>5. ASSUME NEW w \in Workers, Exit(w) PROVE Totalled'
  BY <1>5 DEF Exit
<1>6. ASSUME NEW w \in Workers, RequestPage(w) PROVE Totalled'
  BY <1>6 DEF RequestPage
<1>7. ASSUME NEW w \in Workers, ReceivePage(w) PROVE Totalled'
  BY <1>7 DEF ReceivePage
<1>8. ASSUME NEW w \in Workers, LosePage(w) PROVE Totalled'
  BY <1>8 DEF LosePage
<1>9. ASSUME NEW w \in Workers, RecordFailure(w) PROVE Totalled'
  BY <1>9 DEF RecordFailure
<1>10. ASSUME NEW w \in Workers, WriteBatch(w) PROVE Totalled'
  BY <1>10 DEF WriteBatch, PutBatch
<1>11. ASSUME NEW w \in Workers, Notify(w) PROVE Totalled'
  BY <1>11 DEF Notify
<1>12. ASSUME NEW w \in Workers, Count(w) PROVE Totalled'
  BY <1>12 DEF Count
<1>13. Interrupt => Totalled'
  BY DEF Interrupt
<1>14. UNCHANGED vars => Totalled'
  BY DEF vars
<1> HIDE DEF Totalled
<1>15. QED
  BY <1>1, <1>2, <1>3, <1>4, <1>5, <1>6, <1>7, <1>8, <1>9, <1>10, <1>11,
     <1>12, <1>13, <1>14, StepCases

\* A sync that the caller did not cut short and that returns no error has
\* written every planned unit.
THEOREM CompleteCorrect == Spec => []SuccessMeansComplete
<1>1. TypeInv /\ HandledInv => SuccessMeansComplete
  <2> SUFFICES ASSUME TypeInv, HandledInv, interrupted = FALSE, Succeeded
               PROVE  cached = Units
    BY DEF SuccessMeansComplete, TypeInv, TypeOK
  <2>1. next > Total /\ \A w \in Workers : pc[w] = "exit"
    BY DEF HandledInv, Drained, Succeeded
  <2>2. ~Canceled
    BY DEF Canceled, Succeeded
  <2>3. \A u \in Units : u < next
    BY <2>1, PoolAssumption DEF TypeInv, TypeOK, Units
  <2>4. Units \subseteq cached
    BY <2>1, <2>2, <2>3 DEF HandledInv, Handled, Holds, Working
  <2>5. QED
    BY <2>4 DEF TypeInv, TypeOK
<1>2. QED
  BY <1>1, TypeInit, TypeStep, CauseInit, CauseStep,
     HandledInit, HandledStep, PTL DEF Spec

\* The totals of a successful sync are those of what it cached, even when the
\* caller cut it short.
THEOREM TotalsCorrect == Spec => []TotalsMatchCache
<1>1. TypeInv /\ HandledInv /\ Totalled => TotalsMatchCache
  BY DEF TypeInv, TypeOK, HandledInv, Drained, Totalled, Written,
         TotalsMatchCache, Succeeded
<1>2. QED
  BY <1>1, TypeInit, TypeStep, CauseInit, CauseStep,
     HandledInit, HandledStep, TotalledStep, PTL DEF Spec

\* Nothing is written or reported after Sync has returned.
THEOREM QuietCorrect == Spec => ReturnsQuiet
<1>1. HandledInv /\ [Next]_vars => [main = "returned" => UNCHANGED shared]_vars
  <2> SUFFICES ASSUME HandledInv, [Next]_vars, main = "returned"
               PROVE  UNCHANGED shared
    BY DEF vars
  <2>1. \A w \in Workers : pc[w] = "exit"
    BY DEF HandledInv, Drained
  <2>2. QED
    BY <2>1, StepCases
    DEF Dispatch, Skip, Close, Return, Exit, RequestPage, ReceivePage, LosePage,
        RecordFailure, WriteBatch, Notify, Count, Interrupt, vars, shared
<1>2. QED
  BY <1>1, TypeInit, TypeStep, CauseInit, CauseStep,
     HandledInit, HandledStep, PTL DEF Spec, ReturnsQuiet

-----------------------------------------------------------------------------
(* Progress.                                                               *)

\* Whoever is between WriteBatch and Notify holds writeMu; every unit in hand was
\* dispatched, to one worker only.
Owned ==
    /\ \A w \in Workers : writer = w <=> pc[w] = "notify"
    /\ \A w \in Workers : Working(w) => unit[w] < next
    /\ \A v, w \in Workers :
          Working(v) /\ Working(w) /\ unit[v] = unit[w] => v = w

LEMMA OwnedInit == Init => Owned
  BY PoolAssumption DEF Init, Owned, Working

LEMMA OwnedStep == TypeInv /\ Owned /\ [Next]_vars => Owned'
<1> SUFFICES ASSUME TypeInv, Owned, [Next]_vars PROVE Owned'
  OBVIOUS
<1> USE PoolAssumption
    DEF TypeInv, TypeOK, Units, Owned, Working, Goto, pool, local, shared
<1>1. ASSUME NEW w \in Workers, Dispatch(w) PROVE Owned'
  BY <1>1 DEF Dispatch
<1>2. Skip => Owned'
  BY DEF Skip
<1>3. Close => Owned'
  BY DEF Close
<1>4. Return => Owned'
  BY DEF Return
<1>5. ASSUME NEW w \in Workers, Exit(w) PROVE Owned'
  BY <1>5 DEF Exit
<1>6. ASSUME NEW w \in Workers, RequestPage(w) PROVE Owned'
  BY <1>6 DEF RequestPage
<1>7. ASSUME NEW w \in Workers, ReceivePage(w) PROVE Owned'
  BY <1>7 DEF ReceivePage
<1>8. ASSUME NEW w \in Workers, LosePage(w) PROVE Owned'
  BY <1>8 DEF LosePage
<1>9. ASSUME NEW w \in Workers, RecordFailure(w) PROVE Owned'
  BY <1>9 DEF RecordFailure
<1>10. ASSUME NEW w \in Workers, WriteBatch(w) PROVE Owned'
  BY <1>10 DEF WriteBatch
<1>11. ASSUME NEW w \in Workers, Notify(w) PROVE Owned'
  BY <1>11 DEF Notify
<1>12. ASSUME NEW w \in Workers, Count(w) PROVE Owned'
  BY <1>12 DEF Count
<1>13. Interrupt => Owned'
  BY DEF Interrupt
<1>14. UNCHANGED vars => Owned'
  BY DEF vars
<1> HIDE DEF Owned
<1>15. QED
  BY <1>1, <1>2, <1>3, <1>4, <1>5, <1>6, <1>7, <1>8, <1>9, <1>10, <1>11,
     <1>12, <1>13, <1>14, StepCases

\* Every unit reported was dispatched, and is in no worker's hands any more
\* unless it is about to be counted.
Reported ==
    /\ done = Len(progress) + IF writer = NoWorker THEN 0 ELSE 1
    /\ \A i \in 1 .. Len(progress) :
          /\ progress[i].unit < next
          /\ \A w \in Workers : Working(w) /\ pc[w] # "count"
                => progress[i].unit # unit[w]
    /\ ProgressSerial

LEMMA ReportedInit == Init => Reported
  BY DEF Init, Reported, ProgressSerial

LEMMA ReportedStep ==
    TypeInv /\ Owned /\ Reported /\ [Next]_vars => Reported'
<1> SUFFICES ASSUME TypeInv, Owned, Reported, [Next]_vars PROVE Reported'
  OBVIOUS
<1>0. \A i \in 1 .. Len(progress) : progress[i].unit \in Int
  BY CallTypes DEF TypeInv, TypeOK
<1> USE PoolAssumption
    DEF TypeInv, TypeOK, Units, Owned, Working, Reported, ProgressSerial, Goto,
        pool, local, shared
<1>1. ASSUME NEW w \in Workers, Dispatch(w) PROVE Reported'
  BY <1>0, <1>1 DEF Dispatch
<1>2. Skip => Reported'
  BY <1>0 DEF Skip
<1>3. Close => Reported'
  BY DEF Close
<1>4. Return => Reported'
  BY DEF Return
<1>5. ASSUME NEW w \in Workers, Exit(w) PROVE Reported'
  BY <1>5 DEF Exit
<1>6. ASSUME NEW w \in Workers, RequestPage(w) PROVE Reported'
  <2>1. \A v \in Workers : Working(v)' /\ pc'[v] # "count"
                              => Working(v) /\ pc[v] # "count"
    BY <1>6 DEF RequestPage
  <2>2. UNCHANGED <<next, unit, writer, done, progress>>
    BY <1>6 DEF RequestPage
  <2>3. QED
    BY <2>1, <2>2
<1>7. ASSUME NEW w \in Workers, ReceivePage(w) PROVE Reported'
  <2>1. \A v \in Workers : Working(v)' /\ pc'[v] # "count"
                              => Working(v) /\ pc[v] # "count"
    BY <1>7 DEF ReceivePage
  <2>2. UNCHANGED <<next, unit, writer, done, progress>>
    BY <1>7 DEF ReceivePage
  <2>3. QED
    BY <2>1, <2>2
<1>8. ASSUME NEW w \in Workers, LosePage(w) PROVE Reported'
  BY <1>8 DEF LosePage
<1>9. ASSUME NEW w \in Workers, RecordFailure(w) PROVE Reported'
  BY <1>9 DEF RecordFailure
<1>10. ASSUME NEW w \in Workers, WriteBatch(w) PROVE Reported'
  BY <1>10 DEF WriteBatch
<1>11. ASSUME NEW w \in Workers, Notify(w) PROVE Reported'
  <2> DEFINE call == [unit |-> unit[w], done |-> done]
             n == Len(progress)
  <2>1. /\ progress' = Append(progress, call)
        /\ writer = w /\ w # NoWorker /\ writer' = NoWorker
        /\ pc[w] = "notify" /\ pc' = [pc EXCEPT ![w] = "count"]
        /\ UNCHANGED <<next, unit, done>>
    BY <1>11 DEF Notify
  <2>2. call \in Calls
    BY <2>1, CallTypes DEF Engaged
  <2>3. /\ n \in Nat /\ Len(progress') = n + 1
        /\ progress'[n + 1] = call
        /\ \A i \in 1 .. n : progress'[i] = progress[i]
    BY <2>1, <2>2
  <2>4. done = n + 1
    BY <2>1
  <2>5. done' = Len(progress') + IF writer' = NoWorker THEN 0 ELSE 1
    BY <2>1, <2>3, <2>4
  <2>6. \A i \in 1 .. n + 1 : i \in 1 .. n \/ i = n + 1
    BY <2>3
  <2>7. call.unit = unit[w] /\ call.done = done /\ unit[w] < next
    BY <2>1
  <2>8. \A i \in 1 .. n : progress[i].unit # unit[w]
    BY <2>1
  <2> HIDE DEF call, n
  <2>9. ASSUME NEW i \in 1 .. n + 1
        PROVE  /\ progress'[i].unit < next'
               /\ \A v \in Workers : Working(v)' /\ pc'[v] # "count"
                     => progress'[i].unit # unit'[v]
    <3>1. CASE i \in 1 .. n
      BY <2>1, <2>3, <3>1 DEF n
    <3>2. CASE i = n + 1
      <4>1. progress'[i] = call
        BY <2>3, <3>2
      <4>2. ASSUME NEW v \in Workers, Working(v)', pc'[v] # "count"
            PROVE  unit[w] # unit'[v]
        BY <2>1, <4>2
      <4>3. unit[w] < next'
        BY <2>1, <2>7
      <4>4. QED
        BY <2>7, <4>1, <4>2, <4>3
    <3>3. QED
      BY <2>6, <3>1, <3>2
  <2>10. \A i \in 1 .. n + 1 : progress'[i].done = i
    <3>1. \A i \in 1 .. n : progress'[i].done = i
      BY <2>3 DEF n
    <3>2. progress'[n + 1].done = n + 1
      BY <2>3, <2>4, <2>7
    <3>3. QED
      BY <2>6, <3>1, <3>2
  <2>11. \A i, j \in 1 .. n + 1 :
            progress'[i].unit = progress'[j].unit => i = j
    BY <2>3, <2>6, <2>7, <2>8 DEF n
  <2>12. QED
    BY <2>3, <2>5, <2>9, <2>10, <2>11
<1>12. ASSUME NEW w \in Workers, Count(w) PROVE Reported'
  BY <1>12 DEF Count
<1>13. Interrupt => Reported'
  BY DEF Interrupt
<1>14. UNCHANGED vars => Reported'
  BY DEF vars
<1> HIDE DEF Reported
<1>15. QED
  BY <1>1, <1>2, <1>3, <1>4, <1>5, <1>6, <1>7, <1>8, <1>9, <1>10, <1>11,
     <1>12, <1>13, <1>14, StepCases

\* Progress counts every unit once, in order.
THEOREM ProgressCorrect == Spec => []ProgressSerial
<1>1. Reported => ProgressSerial
  BY DEF Reported
<1>2. QED
  BY <1>1, TypeInit, TypeStep, OwnedInit, OwnedStep, ReportedInit,
     ReportedStep, PTL DEF Spec

-----------------------------------------------------------------------------
(* Conversion: the inductive invariant.                                    *)

ClockInv ==
    /\ now \in Times /\ fetched \in Times /\ asked \in Times
    /\ market \in [Times -> MarketRates]
    /\ fetched <= now

\* r is what the feed said at some moment of the request answered at time f.
FromFeed(r, f) == \E t \in Times : f - MaxLatency <= t /\ t <= f /\ r = market[t]

RateInv == rate \in Nat /\ (rate # 0 => FromFeed(rate, fetched))

\* A request is never out for long.
RequestInv == fetching => asked <= now /\ now - asked <= MaxLatency

Records == [currency : {"none", "usd", "target"}, rate : Nat, at : Times]

FXInv ==
    /\ ClockInv /\ RateInv /\ RequestInv
    /\ items \in Seq(Records) /\ RatesRecent

LEMMA FXInitially == FXInit => FXInv
BY ConversionAssumption
DEF FXInit, FXInv, ClockInv, RateInv, RequestInv, RatesRecent, Times

\* A line item is added.
LEMMA AddKeeps ==
    ASSUME FXInv, NEW currency \in {"none", "usd", "target"}, NEW r \in Nat,
           Add(currency, r), UNCHANGED <<now, market>>,
           currency = "target" =>
              \E t \in Times : now - TTL - MaxLatency <= t /\ t <= now /\ r = market[t]
    PROVE  items' \in Seq(Records) /\ RatesRecent'
<1> DEFINE n == Len(items)
           item == [currency |-> currency, rate |-> r, at |-> now]
<1>1. items \in Seq(Records) /\ n \in Nat /\ now \in Times
  BY DEF FXInv, ClockInv
<1>2. item \in Records
  BY <1>1 DEF Records
<1>3. item.currency = currency /\ item.rate = r /\ item.at = now
  OBVIOUS
<1>4. items' = Append(items, item)
  BY DEF Add
<1> HIDE DEF item
<1>5. /\ items' \in Seq(Records) /\ Len(items') = n + 1 /\ items'[n + 1] = item
      /\ \A i \in 1 .. n : items'[i] = items[i]
  BY <1>1, <1>2, <1>4
<1> HIDE DEF n
<1>6. \A i \in 1 .. n + 1 : i \in 1 .. n \/ i = n + 1
  BY <1>1
<1>7. RatesRecent'
  <2> SUFFICES ASSUME NEW i \in 1 .. n + 1, items'[i].currency = "target"
               PROVE  \E t \in Times : /\ items'[i].at - TTL - MaxLatency <= t
                                       /\ t <= items'[i].at
                                       /\ items'[i].rate = market[t]
    BY <1>5 DEF RatesRecent
  <2>1. CASE i \in 1 .. n
    BY <1>5, <2>1 DEF FXInv, RatesRecent, n
  <2>2. CASE i = n + 1
    BY <1>3, <1>5, <2>2
  <2> QED
    BY <1>6, <2>1, <2>2
<1> QED
  BY <1>5, <1>7

-----------------------------------------------------------------------------
(* Conversion: the steps.                                                  *)

LEMMA LookupKeeps ==
    ASSUME FXInv, LookupUnpriced \/ LookupFresh \/ LookupStale
    PROVE  FXInv'
<1>1. /\ now \in Times /\ fetched \in Times /\ Times \subseteq Int /\ Times \subseteq Nat
      /\ TTL \in Nat /\ MaxLatency \in Nat /\ fetched <= now
      /\ rate \in Nat /\ (rate # 0 => FromFeed(rate, fetched))
  BY ConversionAssumption DEF FXInv, ClockInv, RateInv, Times
<1>2. UNCHANGED <<now, market, rate, fetched>>
  BY DEF LookupUnpriced, LookupFresh, LookupStale
<1>3. ClockInv' /\ RateInv'
  <2>1. asked' \in Times
    BY DEF LookupUnpriced, LookupFresh, LookupStale, FXInv, ClockInv
  <2> QED
    BY <1>2, <2>1 DEF FXInv, ClockInv, RateInv, FromFeed
<1>4. RequestInv'
  <2>1. CASE LookupStale
    <3>1. asked' = now /\ now' = now
      BY <2>1 DEF LookupStale
    <3> QED
      BY <1>1, <3>1 DEF RequestInv
  <2>2. CASE UNCHANGED <<fetching, asked>>
    BY <1>2, <2>2 DEF FXInv, RequestInv
  <2> QED
    BY <2>1, <2>2 DEF LookupUnpriced, LookupFresh, LookupStale
<1>5. CASE LookupUnpriced
  <2>1. Add("none", 0)
    BY <1>5 DEF LookupUnpriced
  <2>2. items' \in Seq(Records) /\ RatesRecent'
    BY <1>1, <1>2, <2>1, AddKeeps
  <2> QED
    BY <1>3, <1>4, <2>2 DEF FXInv
<1>6. CASE LookupFresh
  <2>1. Add("target", rate) /\ rate # 0 /\ now - fetched < TTL
    BY <1>6 DEF LookupFresh, Fresh
  <2>2. PICK t \in Times : fetched - MaxLatency <= t /\ t <= fetched /\ rate = market[t]
    BY <1>1, <2>1 DEF FromFeed
  <2>3. now - TTL - MaxLatency <= t /\ t <= now
    BY <1>1, <2>1, <2>2
  <2>4. items' \in Seq(Records) /\ RatesRecent'
    BY <1>1, <1>2, <2>1, <2>2, <2>3, AddKeeps
  <2> QED
    BY <1>3, <1>4, <2>4 DEF FXInv
<1>7. CASE LookupStale
  BY <1>2, <1>3, <1>4, <1>7
  DEF LookupStale, FXInv, RatesRecent
<1> QED
  BY <1>5, <1>6, <1>7

LEMMA FetchKeeps ==
    ASSUME FXInv, FetchReply \/ FetchFail
    PROVE  FXInv'
<1>1. /\ now \in Times /\ fetched \in Times /\ asked \in Times
      /\ Times \subseteq Int /\ Times \subseteq Nat
      /\ TTL \in Nat /\ MaxLatency \in Nat /\ fetched <= now
      /\ rate \in Nat /\ (rate # 0 => FromFeed(rate, fetched))
      /\ market \in [Times -> MarketRates] /\ MarketRates \subseteq Nat \ {0}
  BY ConversionAssumption DEF FXInv, ClockInv, RateInv, Times
<1>2. asked <= now /\ now - asked <= MaxLatency
  BY DEF FXInv, RequestInv, FetchReply, FetchFail
<1>3. UNCHANGED <<now, market, asked>> /\ ~fetching'
  BY DEF FetchReply, FetchFail
<1>4. RequestInv'
  BY <1>3 DEF RequestInv
<1>5. CASE FetchReply
  <2>1. PICK t \in asked .. now : rate' = market[t]
    BY <1>5 DEF FetchReply
  <2>2. t \in Times /\ t <= now /\ now - MaxLatency <= t
    <3>1. /\ now \in 0 .. MaxTime /\ asked \in 0 .. MaxTime /\ MaxTime \in Nat
          /\ MaxLatency \in Nat
      BY <1>1, ConversionAssumption DEF Times
    <3>2. t \in Int /\ asked <= t /\ t <= now
      BY <2>1, <3>1
    <3> QED
      BY <1>2, <3>1, <3>2 DEF Times
  <2>3. rate' \in Nat /\ rate' # 0
    BY <1>1, <2>1, <2>2
  <2>4. fetched' = now /\ Add("target", rate')
    BY <1>5 DEF FetchReply
  <2>5. ClockInv' /\ RateInv'
    BY <1>1, <1>3, <2>1, <2>2, <2>3, <2>4 DEF ClockInv, RateInv, FromFeed
  <2>6. now - TTL - MaxLatency <= t
    BY <1>1, <2>2
  <2>7. PICK r \in Nat : r = rate'
    BY <2>3
  <2>8. items' \in Seq(Records) /\ RatesRecent'
    <3>1. Add("target", r) /\ r = market[t]
      BY <2>1, <2>4, <2>7
    <3> QED
      BY <1>1, <1>3, <2>2, <2>6, <3>1, AddKeeps
  <2> QED
    BY <1>4, <2>5, <2>8 DEF FXInv
<1>6. CASE FetchFail
  <2>1. Add("usd", 0) /\ UNCHANGED <<rate, fetched>>
    BY <1>6 DEF FetchFail
  <2>2. items' \in Seq(Records) /\ RatesRecent'
    BY <1>3, <2>1, AddKeeps
  <2>3. ClockInv' /\ RateInv'
    BY <1>3, <2>1 DEF FXInv, ClockInv, RateInv, FromFeed
  <2> QED
    BY <1>4, <2>2, <2>3 DEF FXInv
<1> QED
  BY <1>5, <1>6

LEMMA TickKeeps ==
    ASSUME FXInv, Tick
    PROVE  FXInv'
<1>1. /\ now \in 0 .. MaxTime /\ fetched \in 0 .. MaxTime /\ asked \in 0 .. MaxTime
      /\ MaxTime \in Nat /\ MaxLatency \in Nat /\ TTL \in Nat
  BY ConversionAssumption DEF FXInv, ClockInv, Times
<1>2. /\ now < MaxTime /\ now' = now + 1 /\ (fetching => now - asked < MaxLatency)
      /\ UNCHANGED <<market, rate, fetched, fetching, asked, items>>
  BY DEF Tick
<1>3. ClockInv' /\ RateInv'
  BY <1>1, <1>2 DEF FXInv, ClockInv, RateInv, FromFeed, Times
<1>4. RequestInv'
  BY <1>1, <1>2 DEF FXInv, RequestInv
<1>5. items' \in Seq(Records) /\ RatesRecent'
  BY <1>2 DEF FXInv, RatesRecent
<1> QED
  BY <1>3, <1>4, <1>5 DEF FXInv

LEMMA FXInvariance == FXSpec => []FXInv
<1>1. FXInv /\ [FXNext]_fxVars => FXInv'
  <2> SUFFICES ASSUME FXInv, [FXNext]_fxVars PROVE FXInv'
    OBVIOUS
  <2>1. CASE UNCHANGED fxVars
    BY <2>1 DEF fxVars, FXInv, ClockInv, RateInv, FromFeed, RequestInv,
                RatesRecent
  <2> QED
    BY <2>1, LookupKeeps, FetchKeeps, TickKeeps DEF FXNext
<1> QED
  BY <1>1, FXInitially, PTL DEF FXSpec

-----------------------------------------------------------------------------
(* Conversion: theorems.                                                   *)

\* A line item that is not converted, or is at a rate of the market, has a type.
LEMMA AddTypes ==
    ASSUME FXTypeOK, NEW currency \in {"none", "usd", "target"}, NEW r,
           Add(currency, r),
           IF currency = "target" THEN r \in MarketRates ELSE r = 0
    PROVE  items' \in Seq(Items)
<1> DEFINE item == [currency |-> currency, rate |-> r, at |-> now]
<1>1. item \in Items
  BY DEF Items, FXTypeOK
<1>2. items \in Seq(Items) /\ items' = Append(items, item)
  BY DEF FXTypeOK, Add
<1> HIDE DEF item
<1> QED
  BY <1>1, <1>2

\* Items converted have a rate that the market had, the others none.
THEOREM FXTypeCorrect == FXSpec => []FXTypeOK
<1>1. FXInit => FXTypeOK
  BY ConversionAssumption DEF FXInit, FXTypeOK, Times
<1>2. ASSUME FXInv, FXTypeOK, [FXNext]_fxVars PROVE FXTypeOK'
  <2> USE <1>2
  <2>1. CASE LookupUnpriced
    <3>1. Add("none", 0) /\ UNCHANGED <<now, market, rate, fetched, fetching, asked>>
      BY <2>1 DEF LookupUnpriced
    <3>2. items' \in Seq(Items)
      BY <3>1, AddTypes DEF FXTypeOK
    <3> QED
      BY <3>1, <3>2 DEF FXTypeOK
  <2>2. CASE LookupFresh
    <3>1. /\ Add("target", rate) /\ rate # 0
          /\ UNCHANGED <<now, market, rate, fetched, fetching, asked>>
      BY <2>2 DEF LookupFresh, Fresh
    <3>2. items' \in Seq(Items)
      BY <3>1, AddTypes DEF FXTypeOK
    <3> QED
      BY <3>1, <3>2 DEF FXTypeOK
  <2>3. CASE LookupStale
    BY <2>3 DEF LookupStale, FXTypeOK
  <2>4. CASE FetchReply
    <3>1. PICK t \in asked .. now : rate' = market[t]
      BY <2>4 DEF FetchReply
    <3>2. t \in Times
      BY <3>1, ConversionAssumption DEF FXTypeOK, Times
    <3>3. /\ rate' \in MarketRates /\ fetched' = now /\ fetching' = FALSE
          /\ Add("target", rate') /\ UNCHANGED <<now, market, asked>>
      BY <2>4, <3>1, <3>2 DEF FetchReply, FXTypeOK
    <3>4. items' \in Seq(Items)
      BY <3>3, AddTypes DEF FXTypeOK
    <3> QED
      BY <3>3, <3>4 DEF FXTypeOK
  <2>5. CASE FetchFail
    <3>1. /\ Add("usd", 0) /\ fetching' = FALSE
          /\ UNCHANGED <<now, market, rate, fetched, asked>>
      BY <2>5 DEF FetchFail
    <3>2. items' \in Seq(Items)
      BY <3>1, AddTypes DEF FXTypeOK
    <3> QED
      BY <3>1, <3>2 DEF FXTypeOK
  <2>6. CASE Tick
    <3>1. now' \in Times
      BY <2>6, ConversionAssumption DEF Tick, FXTypeOK, Times
    <3> QED
      BY <2>6, <3>1 DEF Tick, FXTypeOK
  <2>7. CASE UNCHANGED fxVars
    BY <2>7 DEF fxVars, FXTypeOK
  <2> QED
    BY <2>1, <2>2, <2>3, <2>4, <2>5, <2>6, <2>7 DEF FXNext
<1> QED
  BY <1>1, <1>2, FXInvariance, PTL DEF FXSpec

\* No line item is converted at a rate older than the TTL and one request.
THEOREM RecentCorrect == FXSpec => []RatesRecent
<1>1. FXInv => RatesRecent
  BY DEF FXInv
<1> QED
  BY <1>1, FXInvariance, PTL

-----------------------------------------------------------------------------
(* Retry: the inductive invariant.                                         *)

Errs == Errors \cup {ContextCanceled}

CountersInv ==
    /\ state \in {"idle", "call", "sleep"} /\ answer \in {"none", "value", "error"}
    /\ attempt \in 0 .. MaxAttempts /\ cancelledIn \in 0 .. Never
    /\ failures \in Seq(Errs)

\* A lookup sleeps only before a retry, and not for an attempt that came after
\* the cancellation.
CancelInv ==
    /\ CancelEnds
    /\ state = "sleep" => attempt < MaxAttempts /\ attempt <= cancelledIn
    /\ state # "idle" => attempt >= 1

\* What has failed was retried, but for the error that ended the lookup.
FailuresInv ==
    /\ state = "call" => /\ Len(failures) = attempt - 1
                      /\ \A i \in 1 .. Len(failures) : IsTransient(failures[i])
    /\ state = "sleep" => /\ Len(failures) = attempt
                       /\ \A i \in 1 .. Len(failures) : IsTransient(failures[i])
    /\ \A i \in 1 .. Len(failures) : i < Len(failures) => IsTransient(failures[i])

\* Nobody cancelled: the last attempt's error, or one that is not retried.
AnswerInv ==
    answer = "error" /\ cancelledIn = Never =>
        /\ state = "idle"
        /\ Len(failures) \in Nat \ {0}
        /\ failures[Len(failures)] \in Errors
        /\ Len(failures) = MaxAttempts \/ ~IsTransient(failures[Len(failures)])

\* Outside a call no answer is being made.
RInv ==
    /\ CountersInv /\ CancelInv /\ FailuresInv /\ AnswerInv
    /\ state # "idle" => answer = "none"

LEMMA CanceledIsPermanent == ~IsTransient(ContextCanceled)
BY DEF IsTransient, ContextCanceled

LEMMA RetryInitially == RetryInit => RInv
<1> SUFFICES ASSUME RetryInit PROVE RInv
  OBVIOUS
<1>1. MaxAttempts \in Nat /\ MaxAttempts >= 2
  BY PolicyAssumption
<1>2. CountersInv
  BY <1>1 DEF RetryInit, CountersInv, Never
<1> QED
  BY <1>2 DEF RetryInit, RInv, CancelInv, CancelEnds, FailuresInv, AnswerInv

-----------------------------------------------------------------------------
(* Retry: the steps.                                                       *)

LEMMA LookupStarts == RInv /\ Lookup => RInv'
<1> SUFFICES ASSUME RInv, Lookup PROVE RInv'
  OBVIOUS
<1>1. /\ state' = "call" /\ attempt' = 1 /\ failures' = <<>> /\ answer' = "none"
      /\ cancelledIn' \in {0, Never}
  BY DEF Lookup
<1>2. MaxAttempts \in Nat /\ MaxAttempts >= 2 /\ Never = MaxAttempts + 1
  BY PolicyAssumption DEF Never
<1>3. CountersInv'
  BY <1>1, <1>2 DEF CountersInv, Never
<1>4. CancelInv'
  <2>1. cancelledIn' \in Nat
    <3>1. Never \in Nat
      BY <1>2
    <3> QED
      BY <1>1, <3>1
  <2>2. attempt' <= cancelledIn' + 1 /\ attempt' >= 1
    <3>1. \A a, c \in Nat : a = 1 => a <= c + 1 /\ a >= 1
      OBVIOUS
    <3>2. attempt' \in Nat /\ attempt' = 1
      BY <1>1
    <3> QED
      BY <2>1, <3>1, <3>2, Zenon
  <2> QED
    BY <1>1, <2>2 DEF CancelInv, CancelEnds
<1>5. FailuresInv' /\ AnswerInv'
  BY <1>1 DEF FailuresInv, AnswerInv
<1> QED
  BY <1>1, <1>3, <1>4, <1>5 DEF RInv

LEMMA SucceedEnds == RInv /\ Succeed => RInv'
BY DEF RInv, Succeed, CountersInv, CancelInv, CancelEnds, FailuresInv, AnswerInv, Never

\* The failure of an attempt is waited out, or is the answer.
LEMMA FailKeeps == RInv /\ Fail => RInv'
<1> SUFFICES ASSUME RInv, Fail PROVE RInv'
  OBVIOUS
<1>1. PICK e \in Failures :
         /\ failures' = Append(failures, e)
         /\ \/ IsTransient(e) /\ attempt < MaxAttempts /\ state' = "sleep" /\ answer' = answer
            \/ ~(IsTransient(e) /\ attempt < MaxAttempts) /\ state' = "idle" /\ answer' = "error"
  BY DEF Fail
<1>2. UNCHANGED <<attempt, cancelledIn>> /\ state = "call" /\ answer = "none"
  BY DEF Fail, RInv
<1>3. /\ attempt \in 1 .. MaxAttempts /\ cancelledIn \in 0 .. Never
      /\ MaxAttempts \in Nat /\ Never = MaxAttempts + 1 /\ attempt <= cancelledIn + 1
      /\ failures \in Seq(Errs) /\ Len(failures) = attempt - 1
      /\ \A i \in 1 .. Len(failures) : IsTransient(failures[i])
  <2>1. attempt \in 0 .. MaxAttempts /\ attempt >= 1
    BY <1>2 DEF RInv, CountersInv, CancelInv
  <2>2. MaxAttempts \in Nat /\ Never = MaxAttempts + 1
    BY PolicyAssumption DEF Never
  <2>3. attempt <= cancelledIn + 1
    BY <1>2 DEF RInv, CancelInv, CancelEnds
  <2> QED
    BY <1>2, <2>1, <2>2, <2>3 DEF RInv, CountersInv, FailuresInv
<1>4. /\ e \in Errs
      /\ IsTransient(e) => attempt <= cancelledIn
      /\ cancelledIn = Never => e \in Errors
  <2>1. CASE Doomed
    <3>1. e = ContextCanceled /\ cancelledIn < attempt
      BY <2>1 DEF Failures, Doomed
    <3>2. ~IsTransient(e)
      BY <3>1, CanceledIsPermanent
    <3>3. cancelledIn # Never
      BY <1>3, <3>1
    <3> QED
      BY <3>1, <3>2, <3>3 DEF Errs
  <2>2. CASE ~Doomed
    <3>1. attempt <= cancelledIn
      BY <1>3, <2>2 DEF Doomed
    <3>2. cancelledIn = Never => cancelledIn # attempt
      BY <1>3
    <3>3. e \in Errs /\ (cancelledIn # attempt => e \in Errors)
      BY <2>2 DEF Failures, Errs
    <3> QED
      BY <3>1, <3>2, <3>3
  <2> QED
    BY <2>1, <2>2
<1> DEFINE n == Len(failures)
<1>5. /\ failures' \in Seq(Errs) /\ Len(failures') = attempt /\ failures'[attempt] = e
      /\ \A i \in 1 .. attempt : i < attempt => IsTransient(failures'[i])
  <2>1. /\ failures' \in Seq(Errs) /\ Len(failures') = n + 1 /\ failures'[n + 1] = e
        /\ \A i \in 1 .. n : failures'[i] = failures[i]
    BY <1>1, <1>3, <1>4
  <2>2. n + 1 = attempt /\ \A i \in 1 .. attempt : i < attempt => i \in 1 .. n
    BY <1>3
  <2> QED
    BY <1>3, <2>1, <2>2
<1> HIDE DEF n
<1>6. state' = "sleep" => /\ IsTransient(e) /\ attempt < MaxAttempts /\ answer' = "none"
                       /\ attempt <= cancelledIn
  BY <1>1, <1>2, <1>4
<1>7. CountersInv'
  BY <1>1, <1>2, <1>3, <1>5 DEF CountersInv, Never
<1>8. CancelInv'
  BY <1>1, <1>2, <1>3, <1>6 DEF CancelInv, CancelEnds
<1>9. FailuresInv'
  <2>1. IsTransient(e) => \A i \in 1 .. attempt : IsTransient(failures'[i])
    <3>1. \A i \in 1 .. attempt : i < attempt \/ i = attempt
      BY <1>3
    <3> QED
      BY <1>5, <3>1
  <2> QED
    BY <1>1, <1>2, <1>5, <1>6, <2>1 DEF FailuresInv
<1>10. AnswerInv'
  <2> SUFFICES ASSUME answer' = "error", cancelledIn = Never
               PROVE  /\ state' = "idle" /\ attempt \in Nat \ {0} /\ e \in Errors
                      /\ attempt = MaxAttempts \/ ~IsTransient(e)
    BY <1>2, <1>5 DEF AnswerInv, Never
  <2>1. ~(IsTransient(e) /\ attempt < MaxAttempts) /\ state' = "idle"
    BY <1>1, <1>2
  <2> QED
    BY <1>3, <1>4, <2>1
<1> QED
  BY <1>6, <1>7, <1>8, <1>9, <1>10, <1>1 DEF RInv

\* The next attempt is made.
LEMMA WakeKeeps == RInv /\ Wake => RInv'
<1> SUFFICES ASSUME RInv, Wake PROVE RInv'
  OBVIOUS
<1>1. /\ state = "sleep" /\ state' = "call" /\ attempt' = attempt + 1
      /\ UNCHANGED <<failures, cancelledIn, answer>>
  BY DEF Wake
<1>2. /\ attempt \in 0 .. MaxAttempts /\ cancelledIn \in 0 .. Never
      /\ MaxAttempts \in Nat /\ Never = MaxAttempts + 1 /\ answer = "none"
      /\ attempt < MaxAttempts /\ attempt <= cancelledIn
  BY <1>1, PolicyAssumption DEF RInv, CountersInv, CancelInv, Never
<1>3. CountersInv'
  BY <1>1, <1>2 DEF RInv, CountersInv, Never
<1>4. CancelInv'
  BY <1>1, <1>2 DEF CancelInv, CancelEnds
<1>5. FailuresInv' /\ AnswerInv'
  BY <1>1, <1>2 DEF RInv, FailuresInv, AnswerInv
<1> QED
  BY <1>1, <1>2, <1>3, <1>4, <1>5 DEF RInv

\* Ctrl-C is noted, and ends a sleep.
LEMMA CancelKeeps == RInv /\ (Cancel \/ Interrupted) => RInv'
<1> SUFFICES ASSUME RInv, Cancel \/ Interrupted PROVE RInv'
  OBVIOUS
<1>1. /\ attempt \in 0 .. MaxAttempts /\ MaxAttempts \in Nat /\ Never = MaxAttempts + 1
  BY PolicyAssumption DEF RInv, CountersInv, Never
<1>2. CASE Cancel
  <2>1. /\ cancelledIn' = attempt /\ UNCHANGED <<state, attempt, failures, answer>>
    BY <1>2 DEF Cancel
  <2>2. attempt \in 0 .. Never /\ attempt # Never /\ attempt <= attempt + 1
    BY <1>1
  <2>3. CountersInv' /\ CancelInv'
    BY <1>1, <2>1, <2>2 DEF RInv, CountersInv, CancelInv, CancelEnds, Never
  <2>4. AnswerInv' /\ FailuresInv'
    BY <2>1, <2>2 DEF RInv, AnswerInv, FailuresInv, Never
  <2> QED
    BY <2>1, <2>3, <2>4 DEF RInv
<1>3. CASE Interrupted
  <2>1. /\ state' = "idle" /\ cancelledIn # Never /\ answer' = "error"
        /\ UNCHANGED <<attempt, failures, cancelledIn>>
    BY <1>3 DEF Interrupted
  <2> QED
    BY <2>1 DEF RInv, CountersInv, CancelInv, CancelEnds, FailuresInv, AnswerInv, Never
<1> QED
  BY <1>2, <1>3

LEMMA RetryInvariance == RetrySpec => []RInv
<1>1. RInv /\ [RetryNext]_retryVars => RInv'
  <2>1. RInv /\ UNCHANGED retryVars => RInv'
    BY DEF retryVars, RInv, CountersInv, CancelInv, CancelEnds, FailuresInv, AnswerInv, Never
  <2> QED
    BY <2>1, LookupStarts, SucceedEnds, FailKeeps, WakeKeeps, CancelKeeps
    DEF RetryNext, Attempt
<1> QED
  BY <1>1, RetryInitially, PTL DEF RetrySpec

\* The longest delay with its jitter.
Longest == MaxDelay + MaxDelay \div 4

\* Every attempt after the first was waited for, and no delay exceeds the longest.
WaitInv ==
    /\ delay \in 0 .. MaxDelay /\ waited \in Nat /\ Len(failures) <= MaxAttempts
    /\ attempt = 0 => waited = 0
    /\ attempt # 0 => waited <= (attempt - 1) * Longest

LEMMA DelayBounded ==
    ASSUME NEW d \in 0 .. MaxDelay
    PROVE  /\ Longest \in Nat /\ NextDelay(d) \in 0 .. MaxDelay
           /\ \A w \in Jitter(d) : w \in Nat /\ w <= Longest
<1>1. MaxDelay \in Nat /\ Multiplier \in Nat /\ d \in Nat /\ d <= MaxDelay
  BY PolicyAssumption
<1>2. d * Multiplier \in Nat
  BY <1>1
<1> QED
  BY <1>1, <1>2 DEF Longest, NextDelay, Jitter

LEMMA WaitStep ==
    ASSUME RInv, WaitInv, [RetryNext]_retryVars
    PROVE  WaitInv'
<1>1. /\ MaxAttempts \in Nat /\ attempt \in 0 .. MaxAttempts /\ failures \in Seq(Errs)
      /\ state # "idle" => attempt >= 1 /\ CountersInv
  BY PolicyAssumption DEF RInv, CountersInv, CancelInv
<1>2. CASE Lookup
  <2>1. attempt' = 1 /\ delay' = InitialDelay /\ waited' = 0 /\ failures' = <<>>
    BY <1>2 DEF Lookup
  <2>2. InitialDelay \in 0 .. MaxDelay /\ MaxDelay \in Nat
    BY PolicyAssumption
  <2>3. Longest \in Nat
    BY <2>2, DelayBounded
  <2>4. (attempt' - 1) * Longest = 0
    BY <2>1, <2>3
  <2> QED
    BY <1>1, <2>1, <2>2, <2>4 DEF WaitInv, Longest
<1>3. CASE Fail
  <2>1. PICK e : failures' = Append(failures, e)
    BY <1>3 DEF Fail
  <2>2. state = "call" /\ UNCHANGED <<attempt, delay, waited>>
    BY <1>3 DEF Fail
  <2>3. Len(failures') = attempt
    BY <1>1, <2>1, <2>2 DEF RInv, FailuresInv
  <2> QED
    BY <1>1, <2>2, <2>3 DEF WaitInv, Longest
<1>4. CASE Wake
  <2>1. PICK w \in Jitter(delay) : waited' = waited + w
    BY <1>4 DEF Wake
  <2>2. /\ attempt' = attempt + 1 /\ delay' = NextDelay(delay) /\ failures' = failures
        /\ attempt >= 1
    BY <1>1, <1>4 DEF Wake
  <2>3. /\ Longest \in Nat /\ w \in Nat /\ w <= Longest /\ delay' \in 0 .. MaxDelay
    BY <2>1, <2>2, DelayBounded DEF WaitInv
  <2>4. /\ waited \in Nat /\ waited <= (attempt - 1) * Longest
    BY <1>1, <2>2 DEF WaitInv
  <2>5. (attempt - 1) * Longest + Longest = attempt * Longest
    BY <1>1, <2>3
  <2>6. waited + w <= attempt * Longest
    <3>1. (attempt - 1) * Longest \in Int /\ attempt * Longest \in Int
      BY <1>1, <2>3
    <3>2. \A a, b, c, d, g \in Int : a <= b /\ c <= d /\ b + d = g => a + c <= g
      OBVIOUS
    <3> QED
      BY <2>3, <2>4, <2>5, <3>1, <3>2
  <2>7. attempt' # 0 /\ attempt' - 1 = attempt
    BY <1>1, <2>2
  <2> QED
    BY <2>1, <2>2, <2>3, <2>4, <2>6, <2>7 DEF WaitInv, Longest
<1>5. CASE Succeed \/ Interrupted \/ Cancel \/ UNCHANGED retryVars
  BY <1>5 DEF Succeed, Interrupted, Cancel, retryVars, WaitInv, Longest
<1> QED
  BY <1>2, <1>3, <1>4, <1>5 DEF RetryNext, Attempt

LEMMA WaitInvariance == RetrySpec => [](RInv /\ WaitInv)
<1>1. RetryInit => WaitInv
  BY PolicyAssumption DEF RetryInit, WaitInv
<1>2. RInv /\ WaitInv /\ [RetryNext]_retryVars => WaitInv'
  BY WaitStep
<1> QED
  BY <1>1, <1>2, RetryInvariance, PTL DEF RetrySpec

-----------------------------------------------------------------------------
(* Retry: theorems.                                                        *)

\* After a cancellation at most one more attempt is made.
THEOREM CancelCorrect == RetrySpec => []CancelEnds
<1>1. RInv => CancelEnds
  BY DEF RInv, CancelInv
<1> QED
  BY <1>1, RetryInvariance, PTL

\* Whatever attempts fail with, only documented transient errors and those whose
\* text holds another retried code are followed by another attempt.
THEOREM PermanentCorrect == RetrySpec => []OnlyTransientRetried
<1>1. \A e \in Errs : IsTransient(e) =>
         /\ DocumentedTransient(e) \/ Misleading(e)
         /\ e.class \notin {"canceled", "decode", "timeout"}
  <2> SUFFICES ASSUME NEW e \in Errs, IsTransient(e)
               PROVE  /\ DocumentedTransient(e) \/ Misleading(e)
                      /\ e.class \notin {"canceled", "decode", "timeout"}
    OBVIOUS
  <2>1. e.class \in {"network", "status", "graphql"}
    BY DEF IsTransient
  <2>2. CASE e.class = "status"
    <3>1. PICK c \in RetriedCodes : c \in e.digits
      BY <2>2 DEF IsTransient
    <3>2. CASE c = e.code
      BY <2>2, <3>1, <3>2 DEF RetriedCodes, DocumentedTransient
    <3>3. CASE c # e.code
      BY <2>2, <3>1, <3>3 DEF Misleading
    <3> QED
      BY <2>1, <2>2, <3>2, <3>3
  <2>3. CASE e.class \in {"network", "graphql"}
    BY <2>3 DEF IsTransient, DocumentedTransient, Misleading
  <2> QED
    BY <2>1, <2>2, <2>3
<1>2. RInv => OnlyTransientRetried
  <2> SUFFICES ASSUME RInv, NEW i \in 1 .. Len(failures), i < Len(failures) \/ state = "sleep"
               PROVE  /\ DocumentedTransient(failures[i]) \/ Misleading(failures[i])
                      /\ failures[i].class \notin {"canceled", "decode", "timeout"}
    BY DEF OnlyTransientRetried
  <2>1. failures[i] \in Errs
    BY DEF RInv, CountersInv
  <2>2. IsTransient(failures[i])
    BY DEF RInv, FailuresInv
  <2> QED
    BY <1>1, <2>1, <2>2
<1> QED
  BY <1>2, RetryInvariance, PTL

\* Whatever attempts fail with, a network error and a status of the list are
\* retried while there is an attempt left.
THEOREM TransientCorrect == RetrySpec => []ListedErrorsRetried
<1>1. \A e \in Errors : ~IsTransient(e) =>
         /\ e.class # "network"
         /\ e.class = "status" => e.code \notin RetriedCodes
  BY ErrorAssumption DEF IsTransient
<1>2. RInv => ListedErrorsRetried
  <2> SUFFICES ASSUME RInv, answer = "error", Len(failures) < MaxAttempts, cancelledIn = Never
               PROVE  /\ failures[Len(failures)].class # "network"
                      /\ failures[Len(failures)].class = "status" =>
                            failures[Len(failures)].code \notin RetriedCodes
    BY DEF ListedErrorsRetried
  <2>1. /\ failures[Len(failures)] \in Errors
        /\ Len(failures) = MaxAttempts \/ ~IsTransient(failures[Len(failures)])
    BY DEF RInv, AnswerInv
  <2>2. Len(failures) # MaxAttempts
    BY PolicyAssumption DEF RInv, CountersInv
  <2> QED
    BY <1>1, <2>1, <2>2
<1> QED
  BY <1>2, RetryInvariance, PTL

\* The counters of a lookup stay in their ranges, and it fails no more often than
\* it is attempted.
THEOREM RetryTypeCorrect == RetrySpec => []RetryTypeOK
<1>1. RInv /\ WaitInv => RetryTypeOK
  BY DEF RInv, CountersInv, WaitInv, RetryTypeOK, Errs
<1> QED
  BY <1>1, WaitInvariance, PTL

\* A lookup never sleeps longer than the longest delay before every attempt but
\* the first, whatever fails and whatever the jitter.
THEOREM WaitCorrect ==
    RetrySpec => [](waited <= (MaxAttempts - 1) * Longest)
<1>1. RInv /\ WaitInv => waited <= (MaxAttempts - 1) * Longest
  <2> SUFFICES ASSUME RInv, WaitInv PROVE waited <= (MaxAttempts - 1) * Longest
    OBVIOUS
  <2>1. /\ MaxAttempts \in Nat /\ MaxAttempts >= 2 /\ attempt \in 0 .. MaxAttempts
        /\ MaxDelay \in Nat /\ waited \in Nat
    BY PolicyAssumption DEF RInv, CountersInv, WaitInv
  <2>2. Longest \in Nat
    BY <2>1 DEF Longest
  <2>3. CASE attempt = 0
    <3>1. (MaxAttempts - 1) * Longest \in Nat
      BY <2>1, <2>2
    <3> QED
      BY <2>3, <3>1 DEF WaitInv
  <2>4. CASE attempt # 0
    <3>1. waited <= (attempt - 1) * Longest
      BY <2>4 DEF WaitInv
    <3>2. \A a, b, c \in Nat : a <= b => a * c <= b * c
      OBVIOUS
    <3>3. (attempt - 1) * Longest <= (MaxAttempts - 1) * Longest
      BY <2>1, <2>2, <2>4, <3>2
    <3>4. (attempt - 1) * Longest \in Int /\ (MaxAttempts - 1) * Longest \in Int
      BY <2>1, <2>2
    <3> QED
      BY <2>1, <3>1, <3>3, <3>4
  <2> QED
    BY <2>3, <2>4
<1> QED
  BY <1>1, WaitInvariance, PTL

\* DefaultRetryPolicy, in quarters of a second.
DefaultPolicy == MaxAttempts = 3 /\ InitialDelay = 4 /\ MaxDelay = 20 /\ Multiplier = 2

\* Under it the first retry comes after one second, the second after two more,
\* each a quarter more or less.
PolicyInv ==
    /\ attempt = 0 => waited = 0
    /\ attempt = 1 => waited = 0 /\ delay = 4
    /\ attempt = 2 => waited <= 5 /\ delay = 8
    /\ attempt = 3 => waited <= 15

\* With the default policy a lookup never sleeps longer than the eight seconds that
\* its comment gives as the worst case.
THEOREM DefaultWaitCorrect ==
    ASSUME DefaultPolicy
    PROVE  RetrySpec => []WaitBounded
<1>1. RetryInit => PolicyInv
  BY DEF RetryInit, PolicyInv
<1>2. ASSUME RInv, WaitInv, PolicyInv, [RetryNext]_retryVars PROVE PolicyInv'
  <2>1. /\ attempt \in 0 .. 3 /\ waited \in Nat /\ delay \in 0 .. 20
        /\ state = "sleep" => attempt < 3 /\ attempt >= 1
    BY <1>2 DEF RInv, CountersInv, CancelInv, WaitInv, DefaultPolicy
  <2>2. CASE Lookup
    BY <2>2 DEF Lookup, PolicyInv, DefaultPolicy
  <2>3. CASE Wake
    <3>1. PICK w \in Jitter(delay) : waited' = waited + w
      BY <2>3 DEF Wake
    <3>2. attempt' = attempt + 1 /\ delay' = NextDelay(delay) /\ attempt \in {1, 2}
      BY <2>1, <2>3 DEF Wake
    <3>3. /\ delay = 4 => w <= 5 /\ delay' = 8
          /\ delay = 8 => w <= 10
          /\ w \in Int
      BY <2>1, <3>2 DEF Jitter, NextDelay, DefaultPolicy
    <3> QED
      BY <1>2, <2>1, <3>1, <3>2, <3>3 DEF PolicyInv
  <2>4. CASE Fail \/ Succeed \/ Interrupted \/ Cancel \/ UNCHANGED retryVars
    BY <1>2, <2>4 DEF Fail, Succeed, Interrupted, Cancel, retryVars, PolicyInv
  <2> QED
    BY <1>2, <2>2, <2>3, <2>4 DEF RetryNext, Attempt
<1>3. RInv /\ WaitInv /\ PolicyInv => WaitBounded
  <2> SUFFICES ASSUME RInv, WaitInv, PolicyInv PROVE waited <= 32
    BY DEF WaitBounded, DocumentedWait
  <2>1. attempt \in 0 .. 3 /\ waited \in Nat
    BY DEF RInv, CountersInv, WaitInv, DefaultPolicy
  <2> QED
    BY <2>1 DEF PolicyInv
<1> QED
  BY <1>1, <1>2, <1>3, WaitInvariance, PTL DEF RetrySpec

=============================================================================
