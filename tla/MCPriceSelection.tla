-------------------------- MODULE MCPriceSelection --------------------------
(* Instances of PriceSelection: mappings that pin, leave open or share     *)
(* attributes, so that different mappings and products meet in one key.    *)
EXTENDS PriceSelection

CONSTANTS a, b, F, G, s1, s2, ref, eu, global, hours, gigs, od, ri

Map(s, f, filters, o, m, r) ==
    [service |-> s, family |-> f, filters |-> filters, option |-> o,
     measure |-> m, region |-> r]

NoFilters == [k \in {} |-> 0]

\* A literal and an open filter; the same key with both open; the family open,
\* "any" option and no unit; pinned to a region; nothing to look up.
SomeMappings ==
    {Map(s1, F, [k \in {a, b} |-> IF k = a THEN 1 ELSE Dynamic], None, hours, None),
     Map(s1, F, [k \in {a, b} |-> Dynamic], od, hours, None),
     Map(s1, None, [k \in {b} |-> Dynamic], Any, None, None),
     Map(s1, G, NoFilters, ri, gigs, global),
     Map(s2, F, [k \in {a} |-> 2], None, hours, None),
     Map(None, None, NoFilters, None, None, None)}

SomeRegions == {ref, eu}
SomeValues == {1, 2}
SomeAmounts == {0, 1, 2}

Price(usd, m, o) == [usd |-> usd, measure |-> m, option |-> o]

\* Nothing, free, one row, rows told apart by option or unit, a bad row.
SomePrices ==
    {{}, {Price(0, hours, od)}, {Price(1, hours, od)},
     {Price(0, hours, od), Price(2, hours, od)},
     {Price(1, hours, od), Price(2, hours, ri)},
     {Price(2, gigs, ri), Price(1, gigs, od)},
     {Price(Bad, hours, od), Price(1, hours, ri)}}

SomeProducts ==
    [family : {F, G},
     attrs  : UNION {[K -> SomeValues] : K \in SUBSET {a, b}},
     prices : SomePrices]
=============================================================================
