---------------------------- MODULE PriceHistory ----------------------------
(***************************************************************************)
(* The environment every c3x price lookup runs in: a clock and the prices  *)
(* the upstream pricing API quotes.  A query stands for a pricing.Query    *)
(* (its CacheKey); a price of 0 means "no priced products matched".        *)
(*                                                                         *)
(* The upstream may reprice anything whenever time advances.  The history  *)
(* of what it quoted is kept so that "this number was really quoted, and   *)
(* recently enough" can be said of a number found anywhere in the system.  *)
(***************************************************************************)
EXTENDS Integers

CONSTANTS
    Queries,    \* the distinct pricing queries
    Ref,        \* Ref[q]: q asked of the provider's reference region, or q
                \* itself when the code has no fallback for q
    Prices,     \* rates, 0 included
    PriceLists, \* what the upstream may quote: each list prices every query
    MaxTime     \* bound: the clock stops here

ASSUME RefAssumption ==
    /\ Queries # {}
    /\ Ref \in [Queries -> Queries]
    /\ \A q \in Queries : Ref[Ref[q]] = Ref[q]
ASSUME PriceAssumption ==
    /\ Prices \subseteq Nat /\ 0 \in Prices
    /\ PriceLists \subseteq [Queries -> Prices]
ASSUME TimeAssumption == MaxTime \in Nat

VARIABLES
    clock,      \* the time, in units the TTL is a multiple of
    priceAt     \* priceAt[t][q]: what the upstream quotes for q at time t

history == <<clock, priceAt>>

Times == 0 .. MaxTime

HistoryTypeOK ==
    /\ clock \in Times
    /\ priceAt \in [Times -> [Queries -> Prices]]

HistoryInit ==
    /\ clock = 0
    /\ \E quotes \in PriceLists :
          priceAt = [t \in Times |->
                        IF t = 0 THEN quotes ELSE [q \in Queries |-> 0]]

\* Time advances by one unit and the upstream publishes a price list.
AdvanceTime ==
    /\ clock < MaxTime
    /\ clock' = clock + 1
    /\ \E quotes \in PriceLists :
          priceAt' = [priceAt EXCEPT ![clock + 1] = quotes]

\* The fallback of HTTPSource.Lookup and OfflineSource.Lookup exists for q.
HasFallback(q) == Ref[q] # q

Now(q) == priceAt[clock][q]

\* Under the price history h, p is an answer an honest upstream lookup of q
\* could have obtained between times lo and hi: q's own quote, or the reference
\* region's quote obtained after q itself was seen to be unpriced.
QuotedBy(h, q, p, lo, hi) ==
    \E t \in Times :
        /\ lo <= t /\ t <= hi
        /\ \/ h[t][q] = p
           \/ /\ h[t][Ref[q]] = p
              /\ \E t0 \in Times : lo <= t0 /\ t0 <= t /\ h[t0][q] = 0

\* Under h, an honest lookup of q between lo and hi could have concluded that q
\* has no price: it saw q unpriced and, after that, its reference region too.
UnpricedBy(h, q, lo, hi) ==
    \E t0, t \in Times :
        /\ lo <= t0 /\ t0 <= t /\ t <= hi
        /\ h[t0][q] = 0
        /\ h[t][Ref[q]] = 0

QuotedIn(q, p, lo, hi) == QuotedBy(priceAt, q, p, lo, hi)

UnpricedIn(q, lo, hi) == UnpricedBy(priceAt, q, lo, hi)
=============================================================================
