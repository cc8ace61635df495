---------------------------- MODULE Expectation -----------------------------
(***************************************************************************)
(* What an estimate of internal/calculator consists of, and what it should *)
(* be: a function of the resources, the catalog's definitions and the      *)
(* prices of a process, whatever was estimated before.                     *)
(*                                                                         *)
(* A pricing query is the product it is for, which is what its filters     *)
(* evaluate to.                                                            *)
(***************************************************************************)
EXTENDS Estimates, Catalog

CONSTANTS
    LegitimatelyFree,
    ItemGrain       \* 0.0001, in units of money

ASSUME GrainAssumption ==
    ItemGrain \in Nat \ {0} /\ CentGrain % ItemGrain = 0

References == STRING \X STRING
Items == [dimension : STRING, quantity : Int, rate : Int, monthly : Int]
Costs == [ref : References, items : Seq(Items), action : STRING, subtotal : Int]
EstimateRecord == [costs : Seq(Costs), skipped : Seq(References), total : Int]

Ref(r) == <<r.kind, r.name>>

\* "No priced products matched" is a price of 0.
Quote(chain, product) == IF product \in DOMAIN chain THEN chain[product] ELSE 0

Item(d, n, rate) ==
    [dimension |-> d.id, quantity |-> n, rate |-> rate,
     monthly |-> Rounded(n * rate, ItemGrain)]

Cost(r, items) ==
    [ref |-> Ref(r), items |-> items, action |-> r.action,
     subtotal |-> Rounded(Total([i \in DOMAIN items |-> items[i].monthly]), CentGrain)]

Unpriced(registry, r, items) ==
    \/ r.kind \notin DOMAIN registry
    \/ items = <<>> /\ ~IsFreeShell(registry, r.kind) /\ r.kind \notin LegitimatelyFree

-----------------------------------------------------------------------------
(* What is expected.                                                       *)

Filters(registry, r, d) == registry[r.kind].mappings[d.rate.mapping]

Filtered(filters, size) ==
    [i \in DOMAIN filters |->
        IF filters[i].expr = None THEN filters[i].const ELSE filters[i].expr[size]]

Product(registry, r, d) == Filtered(Filters(registry, r, d), r.size)

Price(registry, chain, r, d) ==
    IF d.rate.mapping = Static THEN d.rate.number
    ELSE d.rate.number * Quote(chain, Product(registry, r, d))

\* That there is no such mapping is found out here only if the name is computed.
CannotPrice(registry, chain, r, d) ==
    /\ d.when[r.size] # FALSE
    /\ \/ d.when[r.size] = Failed \/ d.quantity[r.size] = Failed
       \/ /\ d.rate.mapping # Static
          /\ \/ d.rate.mapping \notin DOMAIN registry[r.kind].mappings /\ ~d.rate.spelled
             \/ /\ d.rate.mapping \in DOMAIN registry[r.kind].mappings
                /\ \/ Failed \in Range(Product(registry, r, d))
                   \/ Quote(chain, Product(registry, r, d)) = Failed

Fails(registry, chain, r) ==
    r.kind \in DOMAIN registry
      /\ \E i \in DOMAIN registry[r.kind].dimensions :
            CannotPrice(registry, chain, r, registry[r.kind].dimensions[i])

ExpectedItem(registry, chain, r, d) ==
    Item(d, d.quantity[r.size], Price(registry, chain, r, d))

\* Those of the first k dimensions.
ItemsUpTo(registry, chain, r) ==
    LET dimensions == registry[r.kind].dimensions
        items[k \in 0 .. Len(dimensions)] ==
            IF k = 0 THEN <<>>
            ELSE LET d == dimensions[k]
                 IN  IF d.when[r.size] = FALSE THEN items[k - 1]
                     ELSE Append(items[k - 1], ExpectedItem(registry, chain, r, d))
    IN  items

ExpectedItems(registry, chain, r) ==
    IF r.kind \notin DOMAIN registry THEN <<>>
    ELSE ItemsUpTo(registry, chain, r)[Len(registry[r.kind].dimensions)]

ExpectedCost(registry, chain, r) == Cost(r, ExpectedItems(registry, chain, r))

\* Of the first k resources.
SkippedUpTo(registry, chain, resources) ==
    LET refs[k \in 0 .. Len(resources)] ==
            IF k = 0 THEN <<>>
            ELSE LET r == resources[k]
                 IN  IF Unpriced(registry, r, ExpectedItems(registry, chain, r))
                     THEN Append(refs[k - 1], Ref(r))
                     ELSE refs[k - 1]
    IN  refs

Expected(registry, chain, resources) ==
    NewEstimate([i \in DOMAIN resources |-> ExpectedCost(registry, chain, resources[i])],
                SkippedUpTo(registry, chain, resources)[Len(resources)])
=============================================================================
