---------------------------- MODULE MCPriceCache ----------------------------
(* Instances of PriceCache for TLC: one query in a region of its own and    *)
(* the same query in the reference region, which is its own fallback.       *)
EXTENDS PriceCache, TLC

CONSTANTS r1, r2

MCQueries == {"regional", "reference"}
MCRef == [q \in MCQueries |-> "reference"]
\* Nothing priced; a price in the reference region only; a price in both.
MCPriceLists ==
    {[q \in MCQueries |-> 0],
     [q \in MCQueries |-> IF q = "reference" THEN 1 ELSE 0],
     [q \in MCQueries |-> IF q = "reference" THEN 1 ELSE 2]}
\* The first two, for the long runs of one process.
MCShortPriceLists == {pl \in MCPriceLists : pl["regional"] = 0}
\* No step depends on what lookups lost: the run whose properties do not speak
\* of it does not tell states apart by it.
MCView == <<history, disk, runVars>>
MCSymmetry == Permutations(Runs)

=============================================================================
