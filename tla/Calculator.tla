----------------------------- MODULE Calculator -----------------------------
(***************************************************************************)
(* Engine.Estimate of internal/calculator, with its cache of compiled      *)
(* expressions, under three commands: estimate, which saves a baseline;    *)
(* diff, which compares a later estimate with it; and recommend, which     *)
(* estimates alternatives of a project.  One step is the evaluation of one *)
(* expression.                                                             *)
(*                                                                         *)
(* Money is an integer, of a unit small enough to make rounding visible.   *)
(***************************************************************************)
EXTENDS Expectation

CONSTANTS
    Catalogs,       \* what there is to load: [embedded, bundle]
    Projects,       \* what the parsers return: sequences of resources
    Chains,         \* what pricing answers in one process: product -> rate
    MaxProposals    \* bound: proposals of the rules

ASSUME BoundAssumption == MaxProposals \in Nat
ASSUME FailedAssumption == Failed \notin BOOLEAN \cup Int
ASSUME StaticAssumption == Static \notin STRING
ASSUME NoneAssumption == None \notin EstimateRecord

\* As of any literals, which the provers have no facts about.
ASSUME LiteralAssumption == {"free", "none"} \subseteq STRING

Resources == [kind : STRING, name : STRING, size : Sizes, action : STRING]

ASSUME ProjectAssumption == Projects \subseteq Seq(Resources)
ASSUME ChainAssumption ==
    \A answers \in Chains : Range(answers) \subseteq Int \cup {Failed}
ASSUME CatalogAssumption == \A catalog \in Catalogs : Readable(catalog)

-----------------------------------------------------------------------------

VARIABLES
    command,
    registry,       \* as loaded by the process: kind -> definition
    project,        \* as parsed by the process
    chain,          \* a process's answers do not change: see PriceCache
    baseline,       \* the file
    report,         \* what the command prints
    pc,
    job,            \* the resources being estimated
    programs,       \* the compiled expressions
    dim,            \* the dimension being evaluated
    quantity,       \* its quantity
    items,          \* of the resource being estimated
    costs, skipped, \* of the resources before
    base,           \* recommend: the estimate of the project
    changes,        \* the proposal being scored
    proposals       \* how many there were

process == <<command, registry, project, chain, baseline>>
engine == <<pc, job, programs, dim, quantity, items, costs, skipped>>
vars == <<process, report, engine, base, changes, proposals>>

Init ==
    /\ command = "none" /\ registry = <<>> /\ project = <<>> /\ chain \in Chains
    /\ baseline = None /\ report = None
    /\ pc = "exit" /\ job = <<>> /\ programs = <<>>
    /\ dim = 1 /\ quantity = 0 /\ items = <<>> /\ costs = <<>> /\ skipped = <<>>
    /\ base = None /\ changes = None /\ proposals = 0

Goto(l) == pc' = l

BeginEstimate(resources) ==
    /\ job' = resources
    /\ dim' = 1 /\ items' = <<>> /\ costs' = <<>> /\ skipped' = <<>>
    /\ Goto("when")
    /\ UNCHANGED quantity

\* A process starts, with a catalog, a chain and an engine of its own; without
\* a catalog that loads it ends.
Start ==
    /\ pc = "exit"
    /\ \/ command = "none" /\ command' \in {"estimate", "recommend"}
       \/ baseline # None /\ command = "estimate" /\ command' = "diff"
    /\ \E catalog \in Catalogs :
          LET loaded == LoadAuto(catalog)
          IN  \/ /\ loaded # Failed
                 /\ registry' = loaded
                 /\ project' \in Projects
                 /\ chain' \in Chains
                 /\ BeginEstimate(project')
              \/ /\ loaded = Failed /\ Goto("refused")
                 /\ UNCHANGED <<registry, project, chain, job, dim, quantity, items, costs,
                                skipped>>
    /\ programs' = <<>>
    /\ report' = None /\ base' = None /\ changes' = None /\ proposals' = 0
    /\ UNCHANGED baseline

-----------------------------------------------------------------------------
(* The engine.                                                             *)

Current == job[Len(costs) + 1]
Definition == registry[Current.kind]
Dimension == Definition.dimensions[dim]
Unfinished == Len(costs) < Len(job)
Known == Current.kind \in DOMAIN registry
AtDimension == Unfinished /\ Known /\ dim <= Len(Definition.dimensions)

\* programCache.compile
Compiled(key, source) == IF key \in DOMAIN programs THEN programs[key] ELSE source
Compile(key, source) ==
    [k \in DOMAIN programs \cup {key} |-> IF k \in DOMAIN programs THEN programs[k] ELSE source]

\* Faulty Key: the kind is left out.
KeyOfDimension(tag, kind, id) == <<tag, id>>

Key(tag, kind, id) == <<tag, kind, id>>

\* With its source: two mappings of a kind may filter on one key differently.
FilterKey(kind, filter) == <<"filter", kind, filter.key, filter.expr>>

\* resolveFilter: a literal, or an expression.
FilterValue(kind, filter, size) ==
    IF filter.expr = None THEN filter.const
    ELSE Compiled(FilterKey(kind, filter), filter.expr)[size]

\* buildQuery: the product is all the values, if none of them fails.
FilterValues(kind, filters, size) ==
    [i \in DOMAIN filters |-> FilterValue(kind, filters[i], size)]

\* In their order, up to the first that fails; the source is in the key.
CompileFilters(kind, filters, size) ==
    LET reached == {i \in DOMAIN filters : \A k \in 1 .. i - 1 :
                       FilterValue(kind, filters[k], size) # Failed}
        keys == {FilterKey(kind, filters[i]) : i \in {k \in reached : filters[k].expr # None}}
    IN  [k \in DOMAIN programs \cup keys |-> IF k \in DOMAIN programs THEN programs[k] ELSE k[4]]

\* An estimate that fails ends its command, but only skips a proposal.
Fail ==
    IF changes = None THEN Goto("failed") ELSE Goto("propose")

EvaluateWhen ==
    /\ pc = "when" /\ AtDimension
    /\ LET key == Key("when", Current.kind, Dimension.id)
           ok == Compiled(key, Dimension.when)[Current.size]
       IN  /\ programs' = Compile(key, Dimension.when)
           /\ \/ ok = TRUE /\ Goto("quantity") /\ UNCHANGED dim
              \/ ok = FALSE /\ dim' = dim + 1 /\ UNCHANGED pc
              \/ ok = Failed /\ Fail /\ UNCHANGED dim
    /\ UNCHANGED <<process, report, job, quantity, items, costs, skipped, base, changes,
                   proposals>>

EvaluateQuantity ==
    /\ pc = "quantity"
    /\ LET key == Key("qty", Current.kind, Dimension.id)
           n == Compiled(key, Dimension.quantity)[Current.size]
       IN  /\ programs' = Compile(key, Dimension.quantity)
           /\ \/ n # Failed /\ quantity' = n /\ Goto("rate")
              \/ n = Failed /\ Fail /\ UNCHANGED quantity
    /\ UNCHANGED <<process, report, job, dim, items, costs, skipped, base, changes,
                   proposals>>

RateKey == Key("rate", Current.kind, Dimension.id)
Rate == Compiled(RateKey, Dimension.rate)

\* An inline literal.
StaticRate ==
    /\ pc = "rate"
    /\ Rate.mapping = Static
    /\ programs' = Compile(RateKey, Dimension.rate)
    /\ items' = Append(items, Item(Dimension, quantity, Rate.number))
    /\ dim' = dim + 1
    /\ Goto("when")
    /\ UNCHANGED <<process, report, job, quantity, costs, skipped, base, changes,
                   proposals>>

\* A multiple of price("mapping"), whose filters may be expressions too.
PricedRate ==
    /\ pc = "rate"
    /\ Rate.mapping \in DOMAIN Definition.mappings
    /\ LET filters == Definition.mappings[Rate.mapping]
           product == FilterValues(Current.kind, filters, Current.size)
           price == IF Failed \in Range(product) THEN Failed ELSE Quote(chain, product)
           compiled == CompileFilters(Current.kind, filters, Current.size)
       IN  /\ programs' = [k \in DOMAIN compiled \cup {RateKey} |->
                             IF k \in DOMAIN compiled THEN compiled[k] ELSE Dimension.rate]
           /\ \/ /\ price # Failed
                 /\ items' = Append(items, Item(Dimension, quantity, Rate.number * price))
                 /\ dim' = dim + 1 /\ Goto("when")
              \/ price = Failed /\ Fail /\ UNCHANGED <<items, dim>>
    /\ UNCHANGED <<process, report, job, quantity, costs, skipped, base, changes,
                   proposals>>

\* A name that is not a string in the source, which the loader does not check.
UndeclaredMapping ==
    /\ pc = "rate"
    /\ Rate.mapping \notin DOMAIN Definition.mappings \cup {Static}
    /\ programs' = Compile(RateKey, Dimension.rate)
    /\ Fail
    /\ UNCHANGED <<process, report, job, dim, quantity, items, costs, skipped, base,
                   changes, proposals>>

EndResource ==
    /\ pc = "when" /\ Unfinished /\ ~AtDimension
    /\ costs' = Append(costs, Cost(Current, items))
    /\ skipped' = IF Unpriced(registry, Current, items) THEN Append(skipped, Ref(Current))
                  ELSE skipped
    /\ dim' = 1 /\ items' = <<>>
    /\ UNCHANGED <<process, report, pc, job, programs, quantity, base, changes,
                   proposals>>

Estimated == pc = "when" /\ ~Unfinished
Estimate == NewEstimate(costs, skipped)

-----------------------------------------------------------------------------
(* The commands.                                                           *)

EstimateEnds ==
    /\ command = "estimate" /\ Estimated
    /\ report' = Estimate
    /\ baseline' = Saved(Estimate)
    /\ Goto("exit")
    /\ UNCHANGED <<command, registry, project, chain, job, programs, dim, quantity, items,
                   costs, skipped, base, changes,
                   proposals>>

DiffEnds ==
    /\ command = "diff" /\ Estimated
    /\ report' = ComputeDiff(baseline, Estimate)
    /\ Goto("exit")
    /\ UNCHANGED <<process, job, programs, dim, quantity, items, costs, skipped,
                   base, changes,
                   proposals>>

RecommendBegins ==
    /\ command = "recommend" /\ Estimated /\ base = None
    /\ base' = Estimate
    /\ report' = <<>>
    /\ Goto("propose")
    /\ UNCHANGED <<process, job, programs, dim, quantity, items, costs, skipped,
                   changes, proposals>>

\* indexResources, indexCosts: the last of equal references.
ResourceOf(ref) == project[SelectLastInSeq(project, LAMBDA r : Ref(r) = ref)]
BaseCost(ref) == base.costs[SelectLastInSeq(base.costs, LAMBDA c : c.ref = ref)].subtotal

\* applyProposal: the alternative is not scheduled for anything.
Changed(r, size) == [r EXCEPT !.size = size, !.action = "none"]

\* Faulty Propose: the change is made in the project's own attributes.
ProposeInPlace ==
    /\ pc = "propose" /\ proposals < MaxProposals
    /\ \E i \in DOMAIN project, size \in Sizes :
          /\ changes' = [ref \in {Ref(project[i])} |-> size]
          /\ project' = [project EXCEPT ![i].size = size]
          /\ BeginEstimate(<<Changed(project[i], size)>>)
    /\ proposals' = proposals + 1
    /\ UNCHANGED <<command, registry, chain, baseline, report, programs, base>>

\* A rule proposes another size for one resource.
Propose ==
    /\ pc = "propose" /\ proposals < MaxProposals
    /\ \E i \in DOMAIN project, size \in Sizes :
          /\ changes' = [ref \in {Ref(project[i])} |-> size]
          /\ BeginEstimate(<<Changed(project[i], size)>>)
    /\ proposals' = proposals + 1
    /\ UNCHANGED <<process, report, programs, base>>

\* A tree rule proposes one for several; the order is that of a Go map.
ProposeTree ==
    /\ pc = "propose" /\ proposals < MaxProposals
    /\ \E refs \in SUBSET {Ref(project[i]) : i \in DOMAIN project} \ {{}},
          size \in Sizes :
          /\ changes' = [ref \in refs |-> size]
          /\ \E order \in [1 .. Cardinality(refs) -> refs] :
                /\ Range(order) = refs
                /\ BeginEstimate([i \in DOMAIN order |->
                                    Changed(ResourceOf(order[i]), size)])
    /\ proposals' = proposals + 1
    /\ UNCHANGED <<process, report, programs, base>>

Spent == Total([i \in DOMAIN job |-> BaseCost(Ref(job[i]))])
After == Total(Subtotals(costs))

\* Kept if it saves something; the list is sorted by savings in the end.
Score ==
    /\ command = "recommend" /\ Estimated /\ base # None
    /\ LET savings == Rounded(Spent - After, CentGrain)
       IN  report' = IF savings <= 0 THEN report
                     ELSE Append(report, [changes |-> changes, savings |-> savings])
    /\ Goto("propose")
    /\ UNCHANGED <<process, job, programs, dim, quantity, items, costs, skipped,
                   base, changes, proposals>>

\* sortBySavings is stable.
BySavings(p) ==
    \A i, k \in DOMAIN report : i < k =>
        \/ report[p[i]].savings > report[p[k]].savings
        \/ report[p[i]].savings = report[p[k]].savings /\ p[i] < p[k]

RecommendEnds ==
    /\ pc = "propose"
    /\ \E p \in Bijection(DOMAIN report, DOMAIN report) :
          BySavings(p) /\ report' = [i \in DOMAIN report |-> report[p[i]]]
    /\ Goto("exit")
    /\ UNCHANGED <<process, job, programs, dim, quantity, items, costs, skipped,
                   base, changes, proposals>>

Evaluate ==
    \/ EvaluateWhen \/ EvaluateQuantity
    \/ StaticRate \/ PricedRate \/ UndeclaredMapping

Next ==
    \/ Start
    \/ Evaluate \/ EndResource
    \/ EstimateEnds \/ DiffEnds
    \/ RecommendBegins \/ Propose \/ ProposeTree \/ Score \/ RecommendEnds

Spec == Init /\ [][Next]_vars

-----------------------------------------------------------------------------
(* Properties.                                                             *)

\* The cache of compiled expressions, which outlives a resource, a kind and an
\* estimate, never shows: every estimate is that of the catalog's own
\* expressions, and one fails only over an expression or a lookup that fails: a
\* catalog with a dimension twice, or a price("name") of no mapping, is refused.
EstimatesMatchCatalog ==
    /\ Estimated => Estimate = Expected(registry, chain, job)
    /\ pc = "failed" => \E i \in DOMAIN job : Fails(registry, chain, job[i])

Compared == command = "diff" /\ pc = "exit"

\* What diff prints resource by resource adds up to the change of the total,
\* on which the budget gate decides, unless something is to be removed.
DiffAddsUp ==
    Compared /\ UniqueRefs(Estimate) /\ UniqueRefs(baseline)
        /\ CountsAll(Estimate) /\ CountsAll(baseline) =>
            Total(Deltas(report.rows)) = report.delta

\* The same of a plan that removes something: "the resource was in the baseline
\* and is gone".
RemovalsAddUp ==
    Compared /\ UniqueRefs(Estimate) /\ UniqueRefs(baseline) =>
        Total(Deltas(report.rows)) = report.delta

\* With a recommendation followed.
Followed(resources, advice) ==
    [i \in DOMAIN resources |->
        IF Ref(resources[i]) \in DOMAIN advice.changes
        THEN Changed(resources[i], advice.changes[Ref(resources[i])])
        ELSE resources[i]]

\* Nothing that costs anything is scheduled for removal.
RemovesNothing(estimate) ==
    \A i \in DOMAIN estimate.costs :
        estimate.costs[i].action = "delete" => estimate.costs[i].subtotal = 0

\* The savings of a recommendation are what the project's total falls by when
\* that recommendation, and no other, is followed.
SavingsAreReal ==
    command = "recommend" /\ base # None =>
        \A i \in DOMAIN report :
            LET followed == Followed(project, report[i])
            IN  UniqueRefs(base) /\ RemovesNothing(base) =>
                  /\ \A j \in DOMAIN followed : ~Fails(registry, chain, followed[j])
                  /\ base.total - Expected(registry, chain, followed).total
                       = report[i].savings
=============================================================================
