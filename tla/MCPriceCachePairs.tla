-------------------------- MODULE MCPriceCachePairs --------------------------
(* Several processes at once: a behaviour is about one pair of chains, and  *)
(* any process may be either.                                               *)
EXTENDS MCPriceCache, FiniteSets

VARIABLE chains     \* the chains of this behaviour

MCPairs == {{"online", "sync"}, {"offline", "sync"}}

\* The reference region is priced.  Rows take two units of time to expire; what
\* an offline chain does to the rows written beside it takes one, and does not
\* depend on the upstream repricing them.
MCHistory ==
    /\ \A t \in 0 .. clock : priceAt[t]["reference"] # 0
    /\ "offline" \in chains =>
          clock <= 1 /\ \A t \in 0 .. clock : priceAt[t] = priceAt[0]

\* One lost answer or row is enough to come back with a wrong price.
MCLosses == Cardinality(lost) <= 1

MCInit == Init /\ chains \in MCPairs /\ MCHistory

MCNext ==
    /\ Next
    /\ UNCHANGED chains
    /\ \A r \in Runs : mode'[r] \in chains \cup {"none"}
    /\ MCHistory' /\ MCLosses'

MCSpec == MCInit /\ [][MCNext]_<<vars, chains>>
=============================================================================
