--------------------------- MODULE PriceSelection ---------------------------
(***************************************************************************)
(* How a rate is chosen, live and offline.  The calculator turns a catalog *)
(* mapping and a resource into a query; HTTPSource asks the upstream and   *)
(* picks the largest price.  `c3x pricing sync` turns the same mapping     *)
(* into a shape, enumerates every product of a unit and builds the cache   *)
(* entries itself.  Both must come to the same rate under the same key.    *)
(*                                                                         *)
(* One unit's products arrive one after another.  A set of filters is a    *)
(* function from its keys: queryKey sorts them, and no mapping names a key *)
(* twice.                                                                  *)
(***************************************************************************)
EXTENDS Integers, Sequences, FiniteSets

CONSTANTS
    Mappings,       \* [service, family, filters, option, measure, region]
    Regions,        \* what --regions lists, or the reference region
    Products,       \* [family, attrs, prices], what the upstream may list
    Values,         \* of attributes
    Amounts,        \* USD amounts that parse
    Bad,            \* one that does not
    DefaultOption,  \* DefaultPurchaseOption(provider)
    Limit,          \* how many products a live query returns, "limit:50"
    MaxProducts,    \* bound: products of the unit
    None,           \* an empty field of a mapping
    Any,            \* the "any" sentinel of purchaseOption
    Dynamic         \* a filter given by an expression over the resource

\* Amounts are not negative; a set of them has a largest one, as a finite set has.
ASSUME AmountAssumption ==
    /\ Amounts \subseteq Nat /\ Bad \notin Amounts
    /\ \A S \in SUBSET Amounts :
          S # {} => \E m \in S : \A x \in S : x <= m
ASSUME SelectionAssumption ==
    /\ \A p \in Products : \A price \in p.prices : price.usd \in Amounts \cup {Bad}
    /\ Dynamic \notin Values
    /\ Limit \in Nat /\ MaxProducts \in Nat

VARIABLES
    syncing,        \* the unit being synced
    seen,           \* its products enumerated so far
    byKey           \* the entries so far, a function from queries to rates

selectionVars == <<syncing, seen, byKey>>

\* The largest of a set of amounts; 0, "no price", if there is none but 0.
Largest(S) ==
    IF S \subseteq {0} THEN 0 ELSE CHOOSE m \in S : \A x \in S : x <= m

-----------------------------------------------------------------------------
(* What both paths share.                                                  *)

ResolvePurchaseOption(option) == IF option = None THEN DefaultOption ELSE option

\* The rows of a product that purchaseOption and unit let through.
Eligible(prices, option, measure) ==
    {price \in prices : /\ option \in {None, Any} \/ price.option = option
                        /\ measure = None \/ price.measure = measure}

-----------------------------------------------------------------------------
(* The live path.                                                          *)

\* Engine.buildQuery, for a resource whose filter expressions evaluate to vals.
EngineQuery(m, region, vals) ==
    [service |-> m.service,
     family  |-> m.family,
     region  |-> IF m.region # None THEN m.region ELSE region,
     filters |-> [k \in DOMAIN m.filters |->
                     IF m.filters[k] = Dynamic THEN vals[k] ELSE m.filters[k]],
     option  |-> ResolvePurchaseOption(m.option),
     measure |-> m.measure]

\* The upstream's products filter.
Matches(q, p) ==
    /\ q.family # None => p.family = q.family
    /\ \A k \in DOMAIN q.filters : /\ k \in DOMAIN p.attrs
                                   /\ p.attrs[k] = q.filters[k]

\* The first Limit products that match.
Returned(q, products) ==
    LET upTo(j) == {i \in 1 .. j : Matches(q, products[i])}
    IN  {products[i] : i \in {j \in DOMAIN products :
                                j \in upTo(j) /\ Cardinality(upTo(j)) <= Limit}}

Quoted(q, products) ==
    {price.usd : price \in
        UNION {Eligible(p.prices, q.option, q.measure) : p \in Returned(q, products)}}

\* An amount that does not parse fails the lookup.
LookupFails(q, products) == Bad \in Quoted(q, products)

PickNonZeroPrice(q, products) == Largest(Quoted(q, products) \ {Bad})

-----------------------------------------------------------------------------
(* The sync path.                                                          *)

\* buildSyncShapes: literal filters are fixed, the others are keys to project.
Shape(m) ==
    [service |-> m.service,
     family  |-> m.family,
     fixed   |-> [k \in {j \in DOMAIN m.filters : m.filters[j] # Dynamic} |->
                     m.filters[k]],
     keys    |-> {k \in DOMAIN m.filters : m.filters[k] = Dynamic},
     option  |-> ResolvePurchaseOption(m.option),
     measure |-> m.measure,
     region  |-> m.region]

Shapes == {Shape(m) : m \in {m \in Mappings : m.service # None}}

\* Where planUnits puts a shape: syncRegionsFor unless it is pinned.
PlannedRegions(s) == IF s.region # None THEN {s.region} ELSE Regions

PlanUnits ==
    {[service |-> s.service, region |-> r,
      shapes  |-> {t \in Shapes : t.service = s.service /\ r \in PlannedRegions(t)}] :
        s \in Shapes, r \in UNION {PlannedRegions(t) : t \in Shapes}}

MatchesFixed(attrs, fixed) ==
    \A k \in DOMAIN fixed : k \in DOMAIN attrs /\ attrs[k] = fixed[k]

\* Whether a shape sells a product at all.
Sells(s, p) ==
    /\ s.family # None => p.family = s.family
    /\ MatchesFixed(p.attrs, s.fixed)
    /\ s.keys \subseteq DOMAIN p.attrs

\* The fixed filters followed by the projected ones, as queryKey sorts them.
ProjectFilters(s, p) ==
    [k \in DOMAIN s.fixed \cup s.keys |->
        IF k \in s.keys THEN p.attrs[k] ELSE s.fixed[k]]

KeyOf(s, p) ==
    [service |-> s.service,
     family  |-> s.family,
     region  |-> syncing.region,
     filters |-> ProjectFilters(s, p),
     option  |-> s.option,
     measure |-> s.measure]

\* Amounts that do not parse are passed over.
SelectRate(prices, option, measure) ==
    Largest({price.usd : price \in Eligible(prices, option, measure)} \ {Bad})

\* The (query, rate) pairs a product contributes.
Offers(p) ==
    {o \in {[key |-> KeyOf(s, p), rate |-> SelectRate(p.prices, s.option, s.measure)] :
               s \in {t \in syncing.shapes : Sells(t, p)}} :
        o.rate # 0}

SelectionInit ==
    /\ syncing \in {u \in PlanUnits : u.shapes # {}}
    /\ seen = <<>>
    /\ byKey = [k \in {} |-> 0]

\* Faulty ResolveProduct: a later product replaces an earlier one.
ResolveProductLast(p) ==
    /\ seen' = Append(seen, p)
    /\ byKey' = [k \in DOMAIN byKey \cup {o.key : o \in Offers(p)} |->
                    IF k \in {o.key : o \in Offers(p)}
                    THEN Largest({o.rate : o \in {x \in Offers(p) : x.key = k}})
                    ELSE byKey[k]]
    /\ UNCHANGED syncing

\* Products that project to one key keep the larger rate.
ResolveProduct(p) ==
    /\ seen' = Append(seen, p)
    /\ byKey' = [k \in DOMAIN byKey \cup {o.key : o \in Offers(p)} |->
                    Largest({o.rate : o \in {x \in Offers(p) : x.key = k}}
                              \cup {byKey[j] : j \in {k} \cap DOMAIN byKey})]
    /\ UNCHANGED syncing

SelectionNext ==
    /\ Len(seen) < MaxProducts
    /\ \E p \in Products : ResolveProduct(p)

SelectionSpec == SelectionInit /\ [][SelectionNext]_selectionVars

-----------------------------------------------------------------------------
(* Properties.                                                             *)

\* Type invariant.
SelectionTypeOK ==
    /\ syncing \in PlanUnits
    /\ seen \in Seq(Products)
    /\ \A k \in DOMAIN byKey : byKey[k] \in Amounts \ {0}

\* What offline mode answers from the entries: no entry is a zero.
Synced(q) == IF q \in DOMAIN byKey THEN byKey[q] ELSE 0

\* The queries of this unit that the engine can ask.
Asked ==
    {EngineQuery(m, syncing.region, vals) :
        m \in {m \in Mappings : /\ m.service = syncing.service
                                /\ syncing.region \in PlannedRegions(Shape(m))},
        vals \in [UNION {DOMAIN m.filters : m \in Mappings} -> Values]}

\* For every query the engine can ask, sync stores under the engine's own key the
\* rate the live path picks from the same products; where it stores nothing the
\* live path picks zero.
MirrorsLive ==
    \A q \in Asked :
        LookupFails(q, seen) \/ Synced(q) = PickNonZeroPrice(q, seen)
=============================================================================
