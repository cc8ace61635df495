-------------------------- MODULE CalculatorProofs --------------------------
(***************************************************************************)
(* Estimates are what the catalog says, and diffs add up, for any catalogs,*)
(* projects and prices.                                                    *)
(***************************************************************************)
EXTENDS Calculator, EstimatesProofs, FiniteSetTheorems

-----------------------------------------------------------------------------
(* The inductive invariant.                                                *)

\* What the loader lets through.
Loaded(definitions) ==
    \A kind \in DOMAIN definitions :
        LET def == definitions[kind]
        IN  /\ def.dimensions \in Seq(DimensionsRead)
            /\ DOMAIN def.mappings \subseteq STRING
            /\ \A i \in DOMAIN def.dimensions :
                  /\ def.dimensions[i].quantity # None /\ def.dimensions[i].rate # None
                  /\ PriceLookupsIn(def.dimensions[i].rate) \subseteq DOMAIN def.mappings
            /\ \A i, k \in DOMAIN def.dimensions :
                  def.dimensions[i].id = def.dimensions[k].id => i = k

Typed ==
    /\ command \in {"none", "estimate", "diff", "recommend"}
    /\ pc \in {"exit", "refused", "failed", "when", "quantity", "rate", "propose"}
    /\ project \in Seq(Resources) /\ job \in Seq(Resources)
    /\ chain \in Chains
    /\ Loaded(registry)
    /\ dim \in Nat
    /\ items \in Seq(Items) /\ costs \in Seq(Costs) /\ skipped \in Seq(References)
    /\ {baseline, base} \subseteq EstimateRecord \cup {None}

\* Under the key of one dimension there is no other's expression.
Faithful(definitions, compiled) ==
    /\ \A kind \in DOMAIN definitions : \A i \in DOMAIN definitions[kind].dimensions :
          LET d == definitions[kind].dimensions[i]
              is(tag, source) == Key(tag, kind, d.id) \in DOMAIN compiled =>
                                    compiled[Key(tag, kind, d.id)] = source
          IN  is("when", d.when) /\ is("qty", d.quantity) /\ is("rate", d.rate)
    /\ \A kind, key, expr : <<"filter", kind, key, expr>> \in DOMAIN compiled =>
          compiled[<<"filter", kind, key, expr>>] = expr

NotMixedUp == Faithful(registry, programs)

\* So far everything is as expected, and nothing failed.
AsExpected ==
    /\ Len(costs) <= Len(job)
    /\ \A i \in 1 .. Len(costs) :
          costs[i] = ExpectedCost(registry, chain, job[i]) /\ ~Fails(registry, chain, job[i])
    /\ skipped = SkippedUpTo(registry, chain, job)[Len(costs)]
    /\ IF Unfinished /\ Known
       THEN /\ dim \in 1 .. Len(Definition.dimensions) + 1
            /\ items = ItemsUpTo(registry, chain, Current)[dim - 1]
            /\ \A k \in 1 .. dim - 1 :
                  ~CannotPrice(registry, chain, Current, Definition.dimensions[k])
       ELSE dim = 1 /\ items = <<>>
    /\ pc \in {"quantity", "rate"} =>
          AtDimension /\ Dimension.when[Current.size] \notin {FALSE, Failed}
    /\ pc = "rate" => quantity = Dimension.quantity[Current.size] /\ quantity # Failed
    /\ pc = "failed" => \E i \in DOMAIN job : Fails(registry, chain, job[i])

\* Only recommend goes on after a failure, and only diff compares.
Commands ==
    /\ changes # None \/ pc = "propose" => command = "recommend"
    /\ command = "diff" => baseline # None
    /\ Compared => report = ComputeDiff(baseline, Estimate)

IInv == Typed /\ NotMixedUp /\ AsExpected /\ Commands

Evaluating == pc \in {"when", "quantity", "rate"}

\* What is estimated is some of the project, changed as the proposal says.
IsProposal(resources, all, sizes) ==
    \E choice \in Injection(DOMAIN resources, DOMAIN all) :
        /\ DOMAIN sizes = {Ref(all[choice[i]]) : i \in DOMAIN resources}
        /\ \A i \in DOMAIN resources :
              resources[i] = Changed(all[choice[i]], sizes[Ref(all[choice[i]])])

\* A recommendation is worth what it says.
Pays(definitions, answers, resources, estimate, advice) ==
    UniqueRefs(estimate) /\ RemovesNothing(estimate) =>
        LET followed == Followed(resources, advice)
        IN  /\ \A j \in DOMAIN followed : ~Fails(definitions, answers, followed[j])
            /\ estimate.total - Expected(definitions, answers, followed).total
                 = advice.savings

\* First the project is estimated, then, with its estimate, the proposals.
Advised ==
    /\ changes # None \/ pc = "propose" => base # None
    /\ base = None /\ Evaluating => job = project
    /\ base # None =>
          /\ command = "recommend"
          /\ base = Expected(registry, chain, project)
          /\ \A i \in DOMAIN project : ~Fails(registry, chain, project[i])
          /\ Evaluating => IsProposal(job, project, changes)
          /\ report \in Seq(Range(report))
          /\ \A i \in DOMAIN report : Pays(registry, chain, project, base, report[i])

-----------------------------------------------------------------------------
(* The loader.                                                             *)

LEMMA FreeIsLoaded ==
    ASSUME NEW kind, NEW provider
    PROVE  LET def == FreeDefinition(kind, provider)
           IN  def.dimensions \in Seq(DimensionsRead) /\ DOMAIN def.mappings \subseteq STRING
<1> DEFINE d == [id |-> "free", when |-> Always, quantity |-> Zero, rate |-> Literal(0)]
<1>1. Always \in Evaluations(BOOLEAN) /\ Zero \in Evaluations(Int) \cup {None}
  BY DEF Always, Zero, Constantly, Evaluations
<1>2. Literal(0) \in [mapping : STRING \cup {Static}, number : Int, spelled : BOOLEAN]
  BY DEF Literal
<1>3. d \in DimensionsRead
  <2> DEFINE W == Evaluations(BOOLEAN)
             Q == Evaluations(Int) \cup {None}
             R == [mapping : STRING \cup {Static}, number : Int, spelled : BOOLEAN]
                    \cup {None}
  <2>1. Always \in W /\ Zero \in Q
    BY <1>1
  <2>2. Literal(0) \in R
    BY <1>2, Zenon
  <2>3. "free" \in STRING
    BY LiteralAssumption
  <2>4. DimensionsRead = [id : STRING, when : W, quantity : Q, rate : R]
    BY DEF DimensionsRead
  <2> HIDE DEF W, Q, R
  <2> QED
    BY <2>1, <2>2, <2>3, <2>4 DEF d
<1> HIDE DEF d
<1>4. <<d>> \in Seq(DimensionsRead)
  BY <1>3
<1>5. DOMAIN <<>> = {}
  OBVIOUS
<1>6. /\ FreeDefinition(kind, provider).dimensions = <<d>>
      /\ FreeDefinition(kind, provider).mappings = <<>>
  BY DEF FreeDefinition, d
<1> QED
  BY <1>4, <1>5, <1>6

LEMMA FilesAreLoaded ==
    ASSUME NEW files, \A i \in DOMAIN files : Decoded(files[i].free, files[i].content),
           LoadFromFS(files) # Failed
    PROVE  Loaded(LoadFromFS(files))
<1> DEFINE all == UNION {Definitions(files[i]) : i \in DOMAIN files}
           reg == [kind \in {def.kind : def \in all} |-> CHOOSE def \in all : def.kind = kind]
<1>1. LoadFromFS(files) = reg /\ \A i \in DOMAIN files : ValidFile(files[i])
  BY DEF LoadFromFS
<1>2. ASSUME NEW def \in all
      PROVE  /\ def.dimensions \in Seq(DimensionsRead) /\ DOMAIN def.mappings \subseteq STRING
             /\ \E directories : Validate(def, directories)
  <2>1. PICK i \in DOMAIN files : def \in Definitions(files[i])
    OBVIOUS
  <2>2. ValidFile(files[i]) /\ Decoded(files[i].free, files[i].content)
    BY <1>1
  <2>3. Validate(def, files[i].directories)
    BY <2>1, <2>2 DEF ValidFile
  <2>4. CASE files[i].free
    <3>1. PICK kind, provider : def = FreeDefinition(kind, provider)
      BY <2>1, <2>4 DEF Definitions
    <3> QED
      BY <2>3, <3>1, FreeIsLoaded
  <2>5. CASE ~files[i].free
    <3>1. def = files[i].content
      BY <2>1, <2>5 DEF Definitions
    <3> QED
      BY <2>2, <2>3, <2>5, <3>1 DEF ValidFile, Decoded
  <2> QED
    BY <2>4, <2>5
<1>3. \A kind \in DOMAIN reg : reg[kind] \in all
  OBVIOUS
<1> HIDE DEF all, reg
<1>4. ASSUME NEW kind \in DOMAIN reg
      PROVE  /\ reg[kind].dimensions \in Seq(DimensionsRead)
             /\ DOMAIN reg[kind].mappings \subseteq STRING
             /\ \A i \in DOMAIN reg[kind].dimensions :
                   ValidDimension(reg[kind], reg[kind].dimensions[i])
             /\ \A i, k \in DOMAIN reg[kind].dimensions :
                   reg[kind].dimensions[i].id = reg[kind].dimensions[k].id => i = k
  BY <1>2, <1>3 DEF Validate
<1>5. Loaded(reg)
  BY <1>4 DEF Loaded, ValidDimension
<1> QED
  BY <1>1, <1>5

LEMMA CatalogIsLoaded ==
    ASSUME NEW catalog \in Catalogs, LoadAuto(catalog) # Failed
    PROVE  Loaded(LoadAuto(catalog))
<1>1. Readable(catalog)
  BY CatalogAssumption
<1>2. CASE LoadAuto(catalog) = LoadFromFS(catalog.embedded)
  BY <1>1, <1>2, FilesAreLoaded DEF Readable
<1>3. CASE catalog.bundle # None /\ LoadAuto(catalog) = RegistryFromBundle(catalog.bundle)
  <2> DEFINE entries == catalog.bundle.entries
             name(i) == <<entries[i].provider, entries[i].kind>>
             kept == {i \in DOMAIN entries :
                        \A k \in DOMAIN entries : k > i => name(k) # name(i)}
             files == [i \in kept |->
                        [directories |-> {entries[i].provider},
                         free |-> entries[i].kind = "free", content |-> entries[i].content]]
  <2>1. LoadAuto(catalog) = LoadFromFS(files)
    BY <1>3 DEF RegistryFromBundle
  <2>2. \A i \in DOMAIN files : Decoded(files[i].free, files[i].content)
                                /\ files[i].free \in BOOLEAN
    BY <1>1, <1>3 DEF Readable
  <2> HIDE DEF files
  <2> QED
    BY <2>1, <2>2, FilesAreLoaded
<1> QED
  BY <1>2, <1>3 DEF LoadAuto

-----------------------------------------------------------------------------
(* What is expected, from one dimension or resource to the next.            *)

OneByOne(g, definitions, answers, r) ==
    LET ds == definitions[r.kind].dimensions
    IN  /\ g[0] = <<>>
        /\ \A k \in 1 .. Len(ds) :
              g[k] = IF ds[k].when[r.size] = FALSE THEN g[k - 1]
                     ELSE Append(g[k - 1], ExpectedItem(definitions, answers, r, ds[k]))

LEMMA ItemsUpToFacts ==
    ASSUME NEW definitions, NEW answers, NEW r,
           Len(definitions[r.kind].dimensions) \in Nat
    PROVE  OneByOne(ItemsUpTo(definitions, answers, r), definitions, answers, r)
<1> DEFINE ds == definitions[r.kind].dimensions
           m == Len(ds)
           item(k) == ExpectedItem(definitions, answers, r, ds[k])
           S == Seq({item(k) : k \in 1 .. m})
           Step(k, its) == IF ds[k].when[r.size] = FALSE THEN its ELSE Append(its, item(k))
           F == [k \in 1 .. m |-> [its \in S |-> Step(k, its)]]
           Body(g) == [k \in 0 .. m |-> IF k = 0 THEN <<>> ELSE Step(k, g[k - 1])]
<1>1. ItemsUpTo(definitions, answers, r) = CHOOSE g : g = Body(g)
  BY DEF ItemsUpTo
<1>2. m \in Nat
  OBVIOUS
<1>3. <<>> \in S
  OBVIOUS
<1>4. \A k \in 1 .. m : \A its \in S : Step(k, its) \in S
  <2> HIDE DEF item
  <2> QED
    OBVIOUS
<1> HIDE DEF Step, S, m
<1>5. F \in [1 .. m -> [S -> S]]
  BY <1>4
<1>6. PICK g : Recursion(g, m, S, <<>>, F)
  <2> HIDE DEF F
  <2> QED
    BY <1>2, <1>3, <1>5, RecursionExists, Zenon
<1>7. g = Body(g)
  <2>1. \A k \in 1 .. m : g[k] = Step(k, g[k - 1])
    <3>1. \A k \in 1 .. m : k - 1 \in 0 .. m
      BY <1>2
    <3> QED
      BY <1>6, <3>1 DEF Recursion
  <2>2. \A k \in 0 .. m : k # 0 => k \in 1 .. m
    BY <1>2
  <2> QED
    BY <1>6, <2>1, <2>2 DEF Recursion
<1> DEFINE f == CHOOSE h : h = Body(h)
<1> HIDE DEF F
<1>8. f = Body(f)
  <2> HIDE DEF Body
  <2> QED
    BY <1>7
<1> HIDE DEF f
<1>9. f[0] = <<>> /\ \A k \in 1 .. m : f[k] = Step(k, f[k - 1])
  BY <1>2, <1>8
<1>10. ItemsUpTo(definitions, answers, r) = f
  BY <1>1 DEF f
<1> QED
  BY <1>9, <1>10 DEF Step, m, OneByOne

EachSkipped(g, definitions, answers, resources) ==
    /\ g[0] = <<>>
    /\ \A k \in 1 .. Len(resources) :
          g[k] = IF Unpriced(definitions, resources[k],
                             ExpectedItems(definitions, answers, resources[k]))
                 THEN Append(g[k - 1], Ref(resources[k])) ELSE g[k - 1]

LEMMA SkippedUpToFacts ==
    ASSUME NEW definitions, NEW answers, NEW resources, Len(resources) \in Nat
    PROVE  EachSkipped(SkippedUpTo(definitions, answers, resources),
                       definitions, answers, resources)
<1> DEFINE m == Len(resources)
           ref(k) == Ref(resources[k])
           S == Seq({ref(k) : k \in 1 .. m})
           Step(k, refs) == IF Unpriced(definitions, resources[k],
                                        ExpectedItems(definitions, answers, resources[k]))
                            THEN Append(refs, ref(k)) ELSE refs
           F == [k \in 1 .. m |-> [refs \in S |-> Step(k, refs)]]
           Body(g) == [k \in 0 .. m |-> IF k = 0 THEN <<>> ELSE Step(k, g[k - 1])]
<1>1. SkippedUpTo(definitions, answers, resources) = CHOOSE g : g = Body(g)
  BY DEF SkippedUpTo
<1>2. m \in Nat
  OBVIOUS
<1>3. <<>> \in S
  OBVIOUS
<1>4. \A k \in 1 .. m : \A refs \in S : Step(k, refs) \in S
  <2> HIDE DEF ref
  <2> QED
    OBVIOUS
<1> HIDE DEF Step, S, m
<1>5. F \in [1 .. m -> [S -> S]]
  BY <1>4
<1>6. PICK g : Recursion(g, m, S, <<>>, F)
  <2> HIDE DEF F
  <2> QED
    BY <1>2, <1>3, <1>5, RecursionExists, Zenon
<1>7. g = Body(g)
  <2>1. \A k \in 1 .. m : g[k] = Step(k, g[k - 1])
    <3>1. \A k \in 1 .. m : k - 1 \in 0 .. m
      BY <1>2
    <3> QED
      BY <1>6, <3>1 DEF Recursion
  <2>2. \A k \in 0 .. m : k # 0 => k \in 1 .. m
    BY <1>2
  <2> QED
    BY <1>6, <2>1, <2>2 DEF Recursion
<1> DEFINE f == CHOOSE h : h = Body(h)
<1> HIDE DEF F
<1>8. f = Body(f)
  <2> HIDE DEF Body
  <2> QED
    BY <1>7
<1> HIDE DEF f
<1>9. f[0] = <<>> /\ \A k \in 1 .. m : f[k] = Step(k, f[k - 1])
  BY <1>2, <1>8
<1>10. SkippedUpTo(definitions, answers, resources) = f
  BY <1>1 DEF f
<1> QED
  BY <1>9, <1>10 DEF Step, m, EachSkipped

-----------------------------------------------------------------------------
(* The cache of compiled expressions.                                      *)

\* With one more.
With(compiled, key, source) ==
    [k \in DOMAIN compiled \cup {key} |->
        IF k \in DOMAIN compiled THEN compiled[k] ELSE source]

Sources(d) == {<<"when", d.when>>, <<"qty", d.quantity>>, <<"rate", d.rate>>}

LEMMA DimensionAdded ==
    ASSUME NEW definitions, NEW compiled, Loaded(definitions),
           Faithful(definitions, compiled),
           NEW kind \in DOMAIN definitions,
           NEW i \in DOMAIN definitions[kind].dimensions,
           NEW tag, NEW source, <<tag, source>> \in Sources(definitions[kind].dimensions[i])
    PROVE  LET key == Key(tag, kind, definitions[kind].dimensions[i].id)
           IN  /\ Faithful(definitions, With(compiled, key, source))
               /\ key \in DOMAIN compiled => compiled[key] = source
<1> DEFINE d == definitions[kind].dimensions[i]
           key == Key(tag, kind, d.id)
           p == With(compiled, key, source)
<1>1. /\ DOMAIN p = DOMAIN compiled \cup {key}
      /\ \A k \in DOMAIN compiled : p[k] = compiled[k]
      /\ key \notin DOMAIN compiled => p[key] = source
  BY DEF With
<1> HIDE DEF p
<1>2. \/ tag = "when" /\ source = d.when
      \/ tag = "qty" /\ source = d.quantity
      \/ tag = "rate" /\ source = d.rate
  BY DEF Sources
<1>3. key \in DOMAIN compiled => compiled[key] = source
  BY <1>2 DEF Faithful
<1>4. p[key] = source
  BY <1>1, <1>3
<1>5. ASSUME NEW n \in DOMAIN definitions, NEW j \in DOMAIN definitions[n].dimensions,
             NEW t, NEW x, <<t, x>> \in Sources(definitions[n].dimensions[j]),
             Key(t, n, definitions[n].dimensions[j].id) \in DOMAIN p
      PROVE  p[Key(t, n, definitions[n].dimensions[j].id)] = x
  <2> DEFINE e == definitions[n].dimensions[j]
             other == Key(t, n, e.id)
  <2>1. \/ t = "when" /\ x = e.when
        \/ t = "qty" /\ x = e.quantity
        \/ t = "rate" /\ x = e.rate
    BY <1>5 DEF Sources
  <2>2. CASE other \in DOMAIN compiled
    <3>1. compiled[other] = x
      BY <2>1, <2>2 DEF Faithful
    <3> QED
      BY <1>1, <2>2, <3>1
  <2>3. CASE other = key
    <3>1. t = tag /\ n = kind /\ e.id = d.id
      BY <2>3 DEF Key
    <3>2. j = i
      BY <3>1 DEF Loaded
    <3>3. x = source
      BY <1>2, <2>1, <3>1, <3>2
    <3> QED
      BY <1>4, <2>3, <3>3
  <2> QED
    BY <1>1, <1>5, <2>2, <2>3
<1>6. ASSUME NEW n, NEW f, NEW x, <<"filter", n, f, x>> \in DOMAIN p
      PROVE  p[<<"filter", n, f, x>>] = x
  <2>1. <<"filter", n, f, x>> # key
    <3>1. tag # "filter"
      BY <1>2
    <3>2. <<"filter", n, f, x>>[1] = "filter" /\ key[1] = tag
      BY DEF Key
    <3> HIDE DEF key
    <3> QED
      BY <3>1, <3>2
  <2>2. <<"filter", n, f, x>> \in DOMAIN compiled
    BY <1>1, <1>6, <2>1
  <2> QED
    BY <1>1, <2>2 DEF Faithful
<1>7. Faithful(definitions, p)
  <2> HIDE DEF d, key
  <2>1. ASSUME NEW n \in DOMAIN definitions, NEW j \in DOMAIN definitions[n].dimensions
        PROVE  LET e == definitions[n].dimensions[j]
               IN  /\ Key("when", n, e.id) \in DOMAIN p => p[Key("when", n, e.id)] = e.when
                   /\ Key("qty", n, e.id) \in DOMAIN p => p[Key("qty", n, e.id)] = e.quantity
                   /\ Key("rate", n, e.id) \in DOMAIN p => p[Key("rate", n, e.id)] = e.rate
    <3> DEFINE e == definitions[n].dimensions[j]
    <3>1. /\ <<"when", e.when>> \in Sources(e) /\ <<"qty", e.quantity>> \in Sources(e)
          /\ <<"rate", e.rate>> \in Sources(e)
      BY DEF Sources
    <3> QED
      BY <1>5, <3>1
  <2> QED
    BY <1>6, <2>1 DEF Faithful
<1> QED
  BY <1>3, <1>7 DEF p

LEMMA FiltersAdded ==
    ASSUME NEW definitions, NEW compiled, Faithful(definitions, compiled),
           NEW keys,
           \A k \in keys : \E n, f, x : k = <<"filter", n, f, x>>
    PROVE  Faithful(definitions,
                    [k \in DOMAIN compiled \cup keys |->
                        IF k \in DOMAIN compiled THEN compiled[k] ELSE k[4]])
<1> DEFINE p == [k \in DOMAIN compiled \cup keys |->
                    IF k \in DOMAIN compiled THEN compiled[k] ELSE k[4]]
<1>1. /\ DOMAIN p = DOMAIN compiled \cup keys
      /\ \A k \in DOMAIN compiled : p[k] = compiled[k]
      /\ \A k \in keys \ DOMAIN compiled : p[k] = k[4]
  OBVIOUS
<1> HIDE DEF p
<1>2. ASSUME NEW tag \in {"when", "qty", "rate"}, NEW n, NEW id
      PROVE  Key(tag, n, id) \notin keys
  <2>1. Key(tag, n, id)[1] # "filter"
    BY DEF Key
  <2>2. \A k \in keys : k[1] = "filter"
    OBVIOUS
  <2> QED
    BY <2>1, <2>2
<1>3. ASSUME NEW n, NEW f, NEW x, <<"filter", n, f, x>> \in DOMAIN p
      PROVE  p[<<"filter", n, f, x>>] = x
  <2>1. CASE <<"filter", n, f, x>> \in DOMAIN compiled
    BY <1>1, <2>1 DEF Faithful
  <2>2. CASE <<"filter", n, f, x>> \notin DOMAIN compiled
    BY <1>1, <1>3, <2>2
  <2> QED
    BY <2>1, <2>2
<1>4. Faithful(definitions, p)
  BY <1>1, <1>2, <1>3 DEF Faithful
<1> QED
  BY <1>4 DEF p

-----------------------------------------------------------------------------
(* Types.                                                                  *)

LEMMA CostIsTyped ==
    ASSUME NEW r \in Resources, NEW its \in Seq(Items)
    PROVE  Cost(r, its) \in Costs
<1> DEFINE amounts == [i \in DOMAIN its |-> its[i].monthly]
<1>1. Len(its) \in Nat /\ DOMAIN its = 1 .. Len(its) /\ \A i \in 1 .. Len(its) : its[i] \in Items
  OBVIOUS
<1>2. amounts \in [1 .. Len(its) -> Int]
  BY <1>1 DEF Items
<1>3. amounts \in Seq(Int)
  <2> HIDE DEF amounts
  <2> QED
    BY <1>1, <1>2, SequenceOf
<1> HIDE DEF amounts
<1>4. Rounded(Total(amounts), CentGrain) \in Int
  BY <1>3, TotalIsInt, RoundedIsInt, CentAssumption
<1>5. Ref(r) \in References /\ r.action \in STRING
  BY DEF Ref, References, Resources
<1>6. Cost(r, its) = [ref |-> Ref(r), items |-> its, action |-> r.action,
                      subtotal |-> Rounded(Total(amounts), CentGrain)]
  BY DEF Cost, amounts
<1> QED
  BY <1>4, <1>5, <1>6 DEF Costs

LEMMA TypedIsEstimate ==
    ASSUME NEW e, e.costs \in Seq(Costs)
    PROVE  IsEstimate(e)
<1>1. Len(e.costs) \in Nat /\ DOMAIN e.costs = 1 .. Len(e.costs)
      /\ \A i \in 1 .. Len(e.costs) : e.costs[i] \in Costs
  OBVIOUS
<1>2. \A i \in 1 .. Len(e.costs) : e.costs[i].subtotal \in Int
  BY <1>1 DEF Costs
<1>3. e.costs \in [1 .. Len(e.costs) -> Range(e.costs)]
  BY <1>1 DEF Range
<1>4. e.costs \in Seq(Range(e.costs))
  BY <1>1, <1>3, SequenceOf
<1> QED
  BY <1>2, <1>4 DEF IsEstimate

LEMMA EstimateIsTyped ==
    ASSUME NEW cs \in Seq(Costs), NEW refs \in Seq(References)
    PROVE  /\ NewEstimate(cs, refs) \in EstimateRecord
           /\ Saved(NewEstimate(cs, refs)) \in EstimateRecord
<1> DEFINE n == Len(cs)
           amounts == [i \in DOMAIN cs |->
                          IF cs[i].action = "delete" THEN 0 ELSE cs[i].subtotal]
           e == NewEstimate(cs, refs)
           saved == [i \in DOMAIN cs |-> [cs[i] EXCEPT !.action = "none"]]
<1>1. n \in Nat /\ DOMAIN cs = 1 .. n /\ \A i \in 1 .. n : cs[i] \in Costs
  OBVIOUS
<1>2. amounts \in [1 .. n -> Int]
  BY <1>1 DEF Costs
<1>3. amounts \in Seq(Int)
  <2> HIDE DEF amounts, n
  <2> QED
    BY <1>1, <1>2, SequenceOf
<1>4. e.total = Rounded(Total(amounts), CentGrain)
  BY DEF NewEstimate
<1>5. e.total \in Int
  <2> HIDE DEF amounts, e
  <2> QED
    BY <1>3, <1>4, TotalIsInt, RoundedIsInt, CentAssumption
<1>6. /\ e = [costs |-> cs, skipped |-> refs, total |-> e.total]
      /\ e.costs = cs
  BY DEF NewEstimate
<1>7. saved \in [1 .. n -> Costs]
  <2>1. ASSUME NEW i \in 1 .. n PROVE [cs[i] EXCEPT !.action = "none"] \in Costs
    <3>1. "none" \in STRING /\ cs[i] \in Costs
      BY <1>1, LiteralAssumption
    <3> QED
      BY <3>1 DEF Costs
  <2> HIDE DEF n
  <2> QED
    BY <1>1, <2>1
<1>8. saved \in Seq(Costs)
  <2> HIDE DEF saved, n
  <2> QED
    BY <1>1, <1>7, SequenceOf
<1>9. Saved(e) = [costs |-> saved, skipped |-> <<>>, total |-> e.total]
  <2> HIDE DEF e
  <2> QED
    BY <1>6 DEF Saved
<1>10. NewEstimate(cs, refs) = e
  OBVIOUS
<1> HIDE DEF e, saved
<1>11. e \in EstimateRecord
  BY <1>5, <1>6 DEF EstimateRecord
<1>12. <<>> \in Seq(References)
  OBVIOUS
<1>13. Saved(e) \in EstimateRecord
  BY <1>5, <1>8, <1>9, <1>12 DEF EstimateRecord
<1> QED
  BY <1>10, <1>11, <1>13

-----------------------------------------------------------------------------
(* The engine.                                                             *)

\* At a dimension there is one, as the loader let it through.
LEMMA AtDimensionFacts ==
    ASSUME IInv, AtDimension
    PROVE  /\ Current \in Resources /\ Len(costs) + 1 \in DOMAIN job
           /\ Current.kind \in DOMAIN registry /\ dim \in DOMAIN Definition.dimensions
           /\ Dimension.id \in STRING
           /\ Dimension.quantity[Current.size] \in Int \cup {Failed}
           /\ Dimension.rate \in [mapping : STRING \cup {Static}, number : Int,
                                  spelled : BOOLEAN]
           /\ Static \notin DOMAIN Definition.mappings
           /\ PriceLookupsIn(Dimension.rate) \subseteq DOMAIN Definition.mappings
           /\ items \in Seq(Items) /\ dim \in Nat
           /\ items = ItemsUpTo(registry, chain, Current)[dim - 1]
           /\ ItemsUpTo(registry, chain, Current)[dim] =
                IF Dimension.when[Current.size] = FALSE THEN items
                ELSE Append(items, ExpectedItem(registry, chain, Current, Dimension))
<1>1. /\ Unfinished /\ Known /\ dim <= Len(Definition.dimensions)
      /\ Current.kind \in DOMAIN registry
  BY DEF AtDimension, Known
<1>2. Len(costs) + 1 \in DOMAIN job /\ Current \in Resources
  BY <1>1 DEF IInv, Typed, Unfinished, Current
<1>3. /\ Definition.dimensions \in Seq(DimensionsRead)
      /\ DOMAIN Definition.mappings \subseteq STRING
      /\ \A i \in DOMAIN Definition.dimensions :
            /\ Definition.dimensions[i].quantity # None /\ Definition.dimensions[i].rate # None
            /\ PriceLookupsIn(Definition.dimensions[i].rate) \subseteq DOMAIN Definition.mappings
  BY <1>1 DEF IInv, Typed, Loaded, Definition
<1>4. dim \in 1 .. Len(Definition.dimensions) /\ Len(Definition.dimensions) \in Nat
  BY <1>1, <1>3 DEF IInv, Typed, AsExpected
<1>5. dim \in DOMAIN Definition.dimensions /\ Dimension \in DimensionsRead
  BY <1>3, <1>4 DEF Dimension
<1>6. /\ Dimension.id \in STRING
      /\ Dimension.quantity \in Evaluations(Int)
      /\ Dimension.rate \in [mapping : STRING \cup {Static}, number : Int, spelled : BOOLEAN]
  <2>1. Dimension.quantity # None /\ Dimension.rate # None
    BY <1>3, <1>5 DEF Dimension
  <2> QED
    BY <1>5, <2>1 DEF DimensionsRead
<1>7. Dimension.quantity[Current.size] \in Int \cup {Failed}
  BY <1>2, <1>6 DEF Evaluations, Resources
<1>8. items = ItemsUpTo(registry, chain, Current)[dim - 1]
  BY <1>1 DEF IInv, AsExpected
<1>9. ItemsUpTo(registry, chain, Current)[dim] =
        IF Dimension.when[Current.size] = FALSE THEN items
        ELSE Append(items, ExpectedItem(registry, chain, Current, Dimension))
  <2> DEFINE ds == registry[Current.kind].dimensions
             g == ItemsUpTo(registry, chain, Current)
  <2>1. Len(ds) \in Nat /\ dim \in 1 .. Len(ds)
    BY <1>4 DEF Definition
  <2>2. g[dim] = IF ds[dim].when[Current.size] = FALSE THEN g[dim - 1]
                 ELSE Append(g[dim - 1], ExpectedItem(registry, chain, Current, ds[dim]))
    <3>1. \A k \in 1 .. Len(ds) :
             g[k] = IF ds[k].when[Current.size] = FALSE THEN g[k - 1]
                    ELSE Append(g[k - 1], ExpectedItem(registry, chain, Current, ds[k]))
      <4>1. OneByOne(g, registry, chain, Current)
        BY <2>1, ItemsUpToFacts, Zenon
      <4> QED
        BY <4>1 DEF OneByOne
    <3> HIDE DEF ds, g
    <3> QED
      BY <2>1, <3>1
  <2>3. ds[dim] = Dimension /\ g[dim - 1] = items
    BY <1>8 DEF Dimension, Definition
  <2> HIDE DEF ds, g
  <2>4. g[dim] = IF Dimension.when[Current.size] = FALSE THEN items
                 ELSE Append(items, ExpectedItem(registry, chain, Current, Dimension))
    BY <2>2, <2>3
  <2> QED
    BY <2>4 DEF g
<1>10. Static \notin DOMAIN Definition.mappings
  BY <1>3, StaticAssumption
<1>11. PriceLookupsIn(Dimension.rate) \subseteq DOMAIN Definition.mappings
  BY <1>3, <1>5 DEF Dimension
<1> QED
  BY <1>1, <1>2, <1>4, <1>5, <1>6, <1>7, <1>8, <1>9, <1>10, <1>11 DEF IInv, Typed

\* What the evaluation of an expression leaves alone, and what it owes.
LEMMA EvaluationKeeps ==
    ASSUME IInv, AtDimension,
           UNCHANGED <<process, report, job, costs, skipped, base, changes, proposals>>,
           Faithful(registry, programs'),
           pc' \in {"when", "quantity", "rate", "failed", "propose"},
           items' \in Seq(Items), dim' \in {dim, dim + 1},
           items' = ItemsUpTo(registry, chain, Current)[dim' - 1],
           dim' = dim + 1 => ~CannotPrice(registry, chain, Current, Dimension),
           pc' \in {"quantity", "rate"} =>
             dim' = dim /\ Dimension.when[Current.size] \notin {FALSE, Failed},
           pc' = "rate" =>
             quantity' = Dimension.quantity[Current.size] /\ quantity' # Failed,
           pc' = "failed" => Fails(registry, chain, Current),
           pc' = "propose" => changes # None
    PROVE  IInv'
<1>1. /\ command' = command /\ registry' = registry /\ project' = project
      /\ chain' = chain /\ baseline' = baseline /\ report' = report /\ job' = job
      /\ costs' = costs /\ skipped' = skipped /\ changes' = changes /\ base' = base
  BY DEF process
<1>2. /\ Current' = Current /\ Definition' = Definition /\ Unfinished' = Unfinished
      /\ Known' = Known
  BY <1>1 DEF Current, Definition, Unfinished, Known
<1>3. dim \in 1 .. Len(Definition.dimensions) /\ Unfinished /\ Known
      /\ Len(Definition.dimensions) \in Nat
  <2>1. Len(Definition.dimensions) \in Nat
    BY DEF IInv, Typed, Loaded, Definition, Known, AtDimension
  <2> QED
    BY <2>1 DEF AtDimension, IInv, AsExpected
<1>4. Typed'
  BY <1>1, <1>3 DEF IInv, Typed
<1>5. NotMixedUp'
  BY <1>1 DEF NotMixedUp
<1>6. AsExpected'
  <2>1. pc' \in {"quantity", "rate"} =>
          AtDimension' /\ Dimension'.when[Current'.size] \notin {FALSE, Failed}
    BY <1>2, <1>3 DEF AtDimension, Dimension
  <2>2. pc' = "rate" => /\ quantity' = Dimension'.quantity[Current'.size]
                        /\ quantity' # Failed
    BY <1>2, <1>3 DEF Dimension
  <2>3. pc' = "failed" => \E i \in DOMAIN job : Fails(registry, chain, job[i])
    BY AtDimensionFacts DEF Current
  <2>4. dim' \in 1 .. Len(Definition.dimensions) + 1
    BY <1>3
  <2>5. \A k \in 1 .. dim' - 1 :
          ~CannotPrice(registry, chain, Current, Definition.dimensions[k])
    <3>1. \A k \in 1 .. dim - 1 :
            ~CannotPrice(registry, chain, Current, Definition.dimensions[k])
      BY <1>3 DEF IInv, AsExpected
    <3>2. CASE dim' = dim
      BY <3>1, <3>2
    <3>3. CASE dim' = dim + 1
      <4>1. \A k \in 1 .. dim' - 1 : k \in 1 .. dim - 1 \/ k = dim
        BY <1>3, <3>3
      <4> QED
        BY <3>1, <3>3, <4>1 DEF Dimension
    <3> QED
      BY <3>2, <3>3
  <2> QED
    BY <1>1, <1>2, <1>3, <2>1, <2>2, <2>3, <2>4, <2>5 DEF IInv, AsExpected
<1>7. Commands'
  BY <1>1 DEF IInv, Commands, Compared
<1> QED
  BY <1>4, <1>5, <1>6, <1>7 DEF IInv

LEMMA CannotPriceFails ==
    ASSUME IInv, AtDimension, CannotPrice(registry, chain, Current, Dimension)
    PROVE  Fails(registry, chain, Current)
BY AtDimensionFacts DEF Fails, Dimension, Definition

LEMMA WhenKeeps ==
    ASSUME IInv, EvaluateWhen
    PROVE  IInv'
<1> DEFINE key == Key("when", Current.kind, Dimension.id)
           ok == Compiled(key, Dimension.when)[Current.size]
<1>1. AtDimension /\ pc = "when"
      /\ UNCHANGED <<process, report, job, quantity, items, costs, skipped, base, changes,
                     proposals>>
  BY DEF EvaluateWhen
<1>2. /\ Faithful(registry, programs') /\ ok = Dimension.when[Current.size]
  <2>1. <<"when", Dimension.when>> \in Sources(Dimension)
    BY DEF Sources
  <2>2. /\ Current.kind \in DOMAIN registry
        /\ dim \in DOMAIN registry[Current.kind].dimensions
        /\ Dimension = registry[Current.kind].dimensions[dim]
    BY <1>1, AtDimensionFacts DEF Dimension, Definition
  <2>3. /\ Faithful(registry, With(programs, key, Dimension.when))
        /\ key \in DOMAIN programs => programs[key] = Dimension.when
    BY <2>1, <2>2, DimensionAdded DEF IInv, Typed, NotMixedUp
  <2>4. programs' = With(programs, key, Dimension.when)
    BY DEF EvaluateWhen, Compile, With
  <2> QED
    BY <2>3, <2>4 DEF Compiled
<1>3. \/ ok = TRUE /\ pc' = "quantity" /\ dim' = dim
      \/ ok = FALSE /\ dim' = dim + 1 /\ pc' = pc
      \/ ok = Failed /\ Fail /\ dim' = dim
  BY DEF EvaluateWhen, Goto
<1> HIDE DEF ok, key
<1>4. /\ items \in Seq(Items) /\ items' = items /\ dim \in Nat
      /\ items = ItemsUpTo(registry, chain, Current)[dim - 1]
      /\ ok = FALSE => items = ItemsUpTo(registry, chain, Current)[dim]
  BY <1>1, <1>2, AtDimensionFacts
<1>5. CASE ok = TRUE /\ pc' = "quantity" /\ dim' = dim
  <2>1. Dimension.when[Current.size] \notin {FALSE, Failed}
    BY <1>2, <1>5, FailedAssumption
  <2>2. dim' # dim + 1
    BY <1>4, <1>5
  <2> QED
    BY <1>1, <1>2, <1>4, <1>5, <2>1, <2>2, EvaluationKeeps
<1>6. CASE ok = FALSE /\ dim' = dim + 1 /\ pc' = pc
  <2>1. ~CannotPrice(registry, chain, Current, Dimension)
    BY <1>2, <1>6, Zenon DEF CannotPrice
  <2>2. dim' - 1 = dim
    BY <1>4, <1>6
  <2> QED
    BY <1>1, <1>2, <1>4, <1>6, <2>1, <2>2, EvaluationKeeps
<1>7. CASE ok = Failed /\ Fail /\ dim' = dim
  <2>1. Fails(registry, chain, Current)
    <3>1. Failed # FALSE
      BY FailedAssumption
    <3> QED
      BY <1>1, <1>2, <1>7, <3>1, CannotPriceFails DEF CannotPrice
  <2>2. /\ pc' = "failed" \/ (pc' = "propose" /\ changes # None)
        /\ dim' # dim + 1
    BY <1>4, <1>7 DEF Fail, Goto
  <2> QED
    BY <1>1, <1>2, <1>4, <1>7, <2>1, <2>2, EvaluationKeeps
<1> QED
  BY <1>3, <1>5, <1>6, <1>7

\* An expression that is compiled for a dimension is that dimension's.
LEMMA CompiledIsSource ==
    ASSUME IInv, AtDimension, NEW tag, NEW source, <<tag, source>> \in Sources(Dimension)
    PROVE  LET key == Key(tag, Current.kind, Dimension.id)
           IN  /\ Faithful(registry, With(programs, key, source))
               /\ Compiled(key, source) = source
<1> DEFINE key == Key(tag, Current.kind, Dimension.id)
<1>1. /\ Current.kind \in DOMAIN registry
      /\ dim \in DOMAIN registry[Current.kind].dimensions
      /\ Dimension = registry[Current.kind].dimensions[dim]
  BY AtDimensionFacts DEF Dimension, Definition
<1>2. /\ Faithful(registry, With(programs, key, source))
      /\ key \in DOMAIN programs => programs[key] = source
  BY <1>1, DimensionAdded DEF IInv, Typed, NotMixedUp
<1> QED
  BY <1>2 DEF Compiled

LEMMA QuantityKeeps ==
    ASSUME IInv, EvaluateQuantity
    PROVE  IInv'
<1> DEFINE key == Key("qty", Current.kind, Dimension.id)
           n == Compiled(key, Dimension.quantity)[Current.size]
<1>1. /\ pc = "quantity" /\ AtDimension
      /\ Dimension.when[Current.size] \notin {FALSE, Failed}
      /\ UNCHANGED <<process, report, job, dim, items, costs, skipped, base, changes,
                     proposals>>
  BY DEF EvaluateQuantity, IInv, AsExpected
<1>2. /\ Faithful(registry, programs') /\ n = Dimension.quantity[Current.size]
  <2>1. <<"qty", Dimension.quantity>> \in Sources(Dimension)
    BY DEF Sources
  <2>2. programs' = With(programs, key, Dimension.quantity)
    BY DEF EvaluateQuantity, Compile, With
  <2> QED
    BY <1>1, <2>1, <2>2, CompiledIsSource
<1>3. \/ n # Failed /\ quantity' = n /\ pc' = "rate"
      \/ n = Failed /\ Fail
  BY DEF EvaluateQuantity, Goto
<1> HIDE DEF n, key
<1>4. /\ items \in Seq(Items) /\ items' = items /\ dim' = dim /\ dim' # dim + 1
      /\ items = ItemsUpTo(registry, chain, Current)[dim - 1]
  BY <1>1, AtDimensionFacts
<1>5. CASE n # Failed /\ quantity' = n /\ pc' = "rate"
  BY <1>1, <1>2, <1>4, <1>5, EvaluationKeeps
<1>6. CASE n = Failed /\ Fail
  <2>1. Fails(registry, chain, Current)
    BY <1>1, <1>2, <1>6, CannotPriceFails DEF CannotPrice
  <2>2. pc' = "failed" \/ (pc' = "propose" /\ changes # None)
    BY <1>6 DEF Fail, Goto
  <2> QED
    BY <1>1, <1>2, <1>4, <1>6, <2>1, <2>2, EvaluationKeeps
<1> QED
  BY <1>3, <1>5, <1>6

\* Where a rate is evaluated, the condition was not false and there is a quantity.
LEMMA RateFacts ==
    ASSUME IInv, pc = "rate"
    PROVE  /\ AtDimension /\ Rate = Dimension.rate
           /\ Dimension.when[Current.size] \notin {FALSE, Failed}
           /\ quantity = Dimension.quantity[Current.size]
           /\ quantity \in Int /\ quantity # Failed
           /\ Faithful(registry, With(programs, RateKey, Dimension.rate))
<1>1. /\ AtDimension /\ Dimension.when[Current.size] \notin {FALSE, Failed}
      /\ quantity = Dimension.quantity[Current.size] /\ quantity # Failed
  BY DEF IInv, AsExpected
<1>2. <<"rate", Dimension.rate>> \in Sources(Dimension)
  BY DEF Sources
<1>3. /\ Faithful(registry, With(programs, RateKey, Dimension.rate))
      /\ Rate = Dimension.rate
  BY <1>1, <1>2, CompiledIsSource DEF RateKey, Rate
<1>4. quantity \in Int
  BY <1>1, AtDimensionFacts
<1> QED
  BY <1>1, <1>3, <1>4

\* The item that is expected, where its price is a number.
LEMMA ItemKeeps ==
    ASSUME IInv, pc = "rate", pc' = "when", dim' = dim + 1,
           Faithful(registry, programs'),
           Price(registry, chain, Current, Dimension) \in Int,
           ~CannotPrice(registry, chain, Current, Dimension),
           items' = Append(items, Item(Dimension, quantity,
                                       Price(registry, chain, Current, Dimension))),
           UNCHANGED <<process, report, job, costs, skipped, base, changes, proposals>>
    PROVE  IInv'
<1> DEFINE price == Price(registry, chain, Current, Dimension)
           it == Item(Dimension, quantity, price)
<1>1. /\ AtDimension /\ Dimension.when[Current.size] # FALSE
      /\ quantity = Dimension.quantity[Current.size] /\ quantity \in Int
  BY RateFacts
<1>2. /\ items \in Seq(Items) /\ dim \in Nat /\ Dimension.id \in STRING
      /\ ItemsUpTo(registry, chain, Current)[dim] =
           Append(items, ExpectedItem(registry, chain, Current, Dimension))
  BY <1>1, AtDimensionFacts
<1>3. it = ExpectedItem(registry, chain, Current, Dimension)
  BY <1>1 DEF ExpectedItem
<1>4. it \in Items
  <2>1. price \in Int /\ quantity * price \in Int
    BY <1>1
  <2>2. Rounded(quantity * price, ItemGrain) \in Int
    BY <2>1, RoundedIsInt, GrainAssumption
  <2> HIDE DEF price
  <2> QED
    BY <1>1, <1>2, <2>1, <2>2 DEF Items, Item
<1>5. items' \in Seq(Items) /\ items' = ItemsUpTo(registry, chain, Current)[dim' - 1]
  <2>1. items' = Append(items, it) /\ dim' - 1 = dim
    BY <1>2
  <2> HIDE DEF it
  <2> QED
    BY <1>2, <1>3, <1>4, <2>1
<1> QED
  BY <1>1, <1>2, <1>5, EvaluationKeeps

LEMMA StaticKeeps ==
    ASSUME IInv, StaticRate
    PROVE  IInv'
<1>1. pc = "rate" /\ Rate.mapping = Static
  BY DEF StaticRate
<1>2. /\ Rate = Dimension.rate /\ AtDimension
      /\ Faithful(registry, With(programs, RateKey, Dimension.rate))
  BY <1>1, RateFacts
<1>3. Faithful(registry, programs')
  BY <1>2 DEF StaticRate, Compile, With
<1>4. Price(registry, chain, Current, Dimension) = Rate.number /\ Rate.number \in Int
  BY <1>1, <1>2, AtDimensionFacts DEF Price
<1>5. ~CannotPrice(registry, chain, Current, Dimension)
  BY <1>1, <1>2, RateFacts DEF CannotPrice
<1> QED
  BY <1>1, <1>3, <1>4, <1>5, ItemKeeps DEF StaticRate, Goto

LEMMA UndeclaredKeeps ==
    ASSUME IInv, UndeclaredMapping
    PROVE  IInv'
<1>1. /\ pc = "rate" /\ Rate.mapping \notin DOMAIN Definition.mappings \cup {Static}
      /\ Fail
      /\ UNCHANGED <<process, report, job, dim, quantity, items, costs, skipped, base,
                     changes, proposals>>
  BY DEF UndeclaredMapping
<1>2. /\ Rate = Dimension.rate /\ AtDimension /\ Dimension.when[Current.size] # FALSE
      /\ Faithful(registry, With(programs, RateKey, Dimension.rate))
  BY <1>1, RateFacts
<1>3. Faithful(registry, programs')
  BY <1>2 DEF UndeclaredMapping, Compile, With
<1>4. ~Dimension.rate.spelled
  BY <1>1, <1>2, AtDimensionFacts DEF PriceLookupsIn
<1>5. Fails(registry, chain, Current)
  BY <1>1, <1>2, <1>4, CannotPriceFails DEF CannotPrice, Definition
<1>6. pc' = "failed" \/ (pc' = "propose" /\ changes # None)
  BY <1>1 DEF Fail, Goto
<1>7. /\ items \in Seq(Items) /\ items' = items /\ dim' = dim /\ dim' # dim + 1
      /\ items = ItemsUpTo(registry, chain, Current)[dim - 1]
  BY <1>1, <1>2, AtDimensionFacts
<1> QED
  BY <1>1, <1>2, <1>3, <1>5, <1>6, <1>7, EvaluationKeeps

\* A filter's value is that of its own expression.
LEMMA FiltersAreExpected ==
    ASSUME NotMixedUp, NEW kind, NEW filters, NEW size
    PROVE  FilterValues(kind, filters, size) = Filtered(filters, size)
<1>1. ASSUME NEW i \in DOMAIN filters
      PROVE  FilterValue(kind, filters[i], size) =
               IF filters[i].expr = None THEN filters[i].const ELSE filters[i].expr[size]
  <2>1. FilterKey(kind, filters[i]) \in DOMAIN programs =>
          programs[FilterKey(kind, filters[i])] = filters[i].expr
    BY DEF NotMixedUp, Faithful, FilterKey
  <2> QED
    BY <2>1 DEF FilterValue, Compiled
<1> QED
  BY <1>1 DEF FilterValues, Filtered

LEMMA PricedKeeps ==
    ASSUME IInv, PricedRate
    PROVE  IInv'
<1> DEFINE filters == Definition.mappings[Rate.mapping]
           product == FilterValues(Current.kind, filters, Current.size)
           price == IF Failed \in Range(product) THEN Failed ELSE Quote(chain, product)
           compiled == CompileFilters(Current.kind, filters, Current.size)
<1>1. /\ pc = "rate" /\ Rate.mapping \in DOMAIN Definition.mappings
      /\ UNCHANGED <<process, report, job, quantity, costs, skipped, base, changes,
                     proposals>>
  BY DEF PricedRate
<1>2. /\ Rate = Dimension.rate /\ AtDimension
      /\ Dimension.when[Current.size] \notin {FALSE, Failed}
      /\ Dimension.quantity[Current.size] # Failed
  BY <1>1, RateFacts
<1>3. /\ Current.kind \in DOMAIN registry
      /\ Dimension.rate.number \in Int /\ Dimension.rate.mapping # Static
      /\ items \in Seq(Items) /\ dim \in Nat
      /\ items = ItemsUpTo(registry, chain, Current)[dim - 1]
  BY <1>1, <1>2, AtDimensionFacts
<1>4. product = Product(registry, Current, Dimension)
  <2>1. filters = Filters(registry, Current, Dimension)
    BY <1>2 DEF Filters, Definition
  <2>2. NotMixedUp
    BY DEF IInv
  <2> HIDE DEF filters
  <2> QED
    BY <2>1, <2>2, FiltersAreExpected DEF Product
<1>5. Faithful(registry, programs')
  <2>1. Faithful(registry, compiled)
    <3> DEFINE reached == {i \in DOMAIN filters : \A k \in 1 .. i - 1 :
                             FilterValue(Current.kind, filters[k], Current.size) # Failed}
               keys == {FilterKey(Current.kind, filters[i]) :
                          i \in {k \in reached : filters[k].expr # None}}
    <3>1. \A k \in keys : \E n, f, x : k = <<"filter", n, f, x>>
      BY DEF FilterKey
    <3>2. compiled = [k \in DOMAIN programs \cup keys |->
                        IF k \in DOMAIN programs THEN programs[k] ELSE k[4]]
      BY DEF CompileFilters
    <3>3. Faithful(registry, programs)
      BY DEF IInv, NotMixedUp
    <3> HIDE DEF keys, compiled
    <3> QED
      BY <3>1, <3>2, <3>3, FiltersAdded
  <2>2. programs' = With(compiled, RateKey, Dimension.rate)
    BY DEF PricedRate, With
  <2>3. <<"rate", Dimension.rate>> \in Sources(Dimension)
    BY DEF Sources
  <2>4. /\ dim \in DOMAIN registry[Current.kind].dimensions
        /\ Dimension = registry[Current.kind].dimensions[dim]
    BY <1>2, AtDimensionFacts DEF Dimension, Definition
  <2> HIDE DEF compiled
  <2> QED
    BY <1>3, <2>1, <2>2, <2>3, <2>4, DimensionAdded DEF IInv, Typed, RateKey
<1>6. \/ /\ price # Failed
         /\ items' = Append(items, Item(Dimension, quantity, Rate.number * price))
         /\ dim' = dim + 1 /\ pc' = "when"
      \/ price = Failed /\ Fail /\ items' = items /\ dim' = dim
  BY DEF PricedRate, Goto
<1>7. price # Failed => price = Quote(chain, product) /\ price \in Int
  <2>1. chain \in Chains
    BY DEF IInv, Typed
  <2>2. Quote(chain, product) \in Int \cup {Failed}
    <3> HIDE DEF product
    <3>1. Range(chain) \subseteq Int \cup {Failed}
      BY <2>1, ChainAssumption
    <3> QED
      BY <3>1 DEF Quote, Range
  <2> HIDE DEF product
  <2> QED
    BY <2>2
<1> HIDE DEF product, compiled
<1>8. CASE price # Failed
  <2>1. Price(registry, chain, Current, Dimension) = Rate.number * price
    BY <1>2, <1>3, <1>4, <1>7, <1>8 DEF Price
  <2>2. ~CannotPrice(registry, chain, Current, Dimension)
    <3>1. Failed \notin Range(product) /\ Quote(chain, product) # Failed
      BY <1>8
    <3> QED
      BY <1>1, <1>2, <1>4, <3>1 DEF CannotPrice, Definition
  <2> HIDE DEF price
  <2>3. Rate.number * price \in Int
    BY <1>2, <1>3, <1>7, <1>8
  <2> QED
    BY <1>1, <1>5, <1>6, <1>8, <2>1, <2>2, <2>3, ItemKeeps
<1>9. CASE price = Failed
  <2>1. Fails(registry, chain, Current)
    <3>1. Failed \in Range(product) \/ Quote(chain, product) = Failed
      BY <1>9
    <3> HIDE DEF price
    <3> QED
      BY <1>1, <1>2, <1>3, <1>4, <3>1, CannotPriceFails DEF CannotPrice, Definition
  <2>2. Fail /\ items' = items /\ dim' = dim /\ dim' # dim + 1
    BY <1>3, <1>6, <1>9
  <2>3. pc' = "failed" \/ (pc' = "propose" /\ changes # None)
    BY <2>2 DEF Fail, Goto
  <2> QED
    BY <1>1, <1>2, <1>3, <1>5, <2>1, <2>2, <2>3, EvaluationKeeps
<1> QED
  BY <1>8, <1>9

\* After the last dimension the items are those expected.
LEMMA EndKeeps ==
    ASSUME IInv, EndResource
    PROVE  IInv'
<1> DEFINE n == Len(costs)
           g == SkippedUpTo(registry, chain, job)
<1>1. /\ pc = "when" /\ Unfinished /\ ~AtDimension
      /\ UNCHANGED <<process, report, pc, job, programs, quantity, base, changes, proposals>>
      /\ costs' = Append(costs, Cost(Current, items))
      /\ skipped' = IF Unpriced(registry, Current, items) THEN Append(skipped, Ref(Current))
                    ELSE skipped
      /\ dim' = 1 /\ items' = <<>>
  BY DEF EndResource
<1>2. /\ command' = command /\ registry' = registry /\ project' = project
      /\ chain' = chain /\ baseline' = baseline /\ report' = report /\ job' = job
      /\ programs' = programs /\ pc' = pc /\ changes' = changes /\ base' = base
  BY <1>1 DEF process
<1>3. /\ costs \in Seq(Costs) /\ items \in Seq(Items) /\ skipped \in Seq(References)
      /\ job \in Seq(Resources) /\ dim \in Nat /\ n \in Nat /\ Len(job) \in Nat
  BY DEF IInv, Typed
<1>4. n + 1 \in 1 .. Len(job) /\ Current = job[n + 1] /\ Current \in Resources
  BY <1>1, <1>3 DEF Unfinished, Current
<1>5. /\ items = ExpectedItems(registry, chain, Current)
      /\ ~Fails(registry, chain, Current)
  <2>1. CASE Known
    <3>1. /\ Definition.dimensions \in Seq(DimensionsRead)
      BY <2>1 DEF IInv, Typed, Loaded, Definition, Known
    <3>2. /\ dim \in 1 .. Len(Definition.dimensions) + 1
          /\ ~(dim <= Len(Definition.dimensions))
          /\ items = ItemsUpTo(registry, chain, Current)[dim - 1]
          /\ \A k \in 1 .. dim - 1 :
                ~CannotPrice(registry, chain, Current, Definition.dimensions[k])
      BY <1>1, <2>1 DEF IInv, AsExpected, AtDimension
    <3>3. dim - 1 = Len(Definition.dimensions)
          /\ DOMAIN Definition.dimensions = 1 .. Len(Definition.dimensions)
      BY <3>1, <3>2
    <3>4. ~Fails(registry, chain, Current)
      BY <3>2, <3>3 DEF Fails, Definition
    <3> QED
      BY <2>1, <3>2, <3>3, <3>4 DEF ExpectedItems, Known, Definition
  <2>2. CASE ~Known
    BY <2>2 DEF IInv, AsExpected, ExpectedItems, Known, Fails
  <2> QED
    BY <2>1, <2>2
<1>6. Cost(Current, items) \in Costs /\ Ref(Current) \in References
  BY <1>3, <1>4, CostIsTyped DEF Ref, References, Resources
<1>7. costs' \in Seq(Costs) /\ skipped' \in Seq(References) /\ Len(costs') = n + 1
      /\ items' \in Seq(Items) /\ dim' \in Nat
  BY <1>1, <1>3, <1>6
<1>8. Typed'
  BY <1>2, <1>7 DEF IInv, Typed
<1>9. NotMixedUp'
  BY <1>2 DEF IInv, NotMixedUp
<1>10. AsExpected'
  <2>1. \A i \in 1 .. n + 1 : /\ costs'[i] = ExpectedCost(registry, chain, job[i])
                              /\ ~Fails(registry, chain, job[i])
    <3>1. \A i \in 1 .. n : costs'[i] = costs[i]
      BY <1>1, <1>3, <1>6
    <3>2. \A i \in 1 .. n : /\ costs[i] = ExpectedCost(registry, chain, job[i])
                            /\ ~Fails(registry, chain, job[i])
      BY DEF IInv, AsExpected
    <3>3. /\ costs'[n + 1] = ExpectedCost(registry, chain, job[n + 1])
          /\ ~Fails(registry, chain, job[n + 1])
      BY <1>1, <1>3, <1>4, <1>5, <1>6 DEF ExpectedCost
    <3>4. \A i \in 1 .. n + 1 : i \in 1 .. n \/ i = n + 1
      BY <1>3
    <3> QED
      BY <3>1, <3>2, <3>3, <3>4
  <2>2. skipped' = g[n + 1]
    <3>1. EachSkipped(g, registry, chain, job)
      BY <1>3, SkippedUpToFacts, Zenon
    <3>2. skipped = g[n]
      BY DEF IInv, AsExpected
    <3> DEFINE k == n + 1
    <3>3. k \in 1 .. Len(job) /\ k - 1 = n
      BY <1>3, <1>4
    <3> HIDE DEF g, n, k
    <3>4. g[k] = IF Unpriced(registry, job[k], ExpectedItems(registry, chain, job[k]))
                 THEN Append(g[k - 1], Ref(job[k])) ELSE g[k - 1]
      BY <3>1, <3>3, Zenon DEF EachSkipped
    <3> QED
      BY <1>1, <1>4, <1>5, <3>2, <3>3, <3>4 DEF k
  <2>3. IF Unfinished' /\ Known'
        THEN /\ dim' \in 1 .. Len(Definition'.dimensions) + 1
             /\ items' = ItemsUpTo(registry', chain', Current')[dim' - 1]
             /\ \A k \in 1 .. dim' - 1 : FALSE
        ELSE dim' = 1 /\ items' = <<>>
    <3>1. CASE Unfinished' /\ Known'
      <4>1. Len(registry'[Current'.kind].dimensions) \in Nat
        BY <1>2, <3>1 DEF IInv, Typed, Loaded, Known
      <4>2. OneByOne(ItemsUpTo(registry', chain', Current'), registry', chain', Current')
        BY <4>1, ItemsUpToFacts, Zenon
      <4>3. ItemsUpTo(registry', chain', Current')[0] = <<>>
        BY <4>2 DEF OneByOne
      <4>4. dim' - 1 = 0 /\ dim' \in 1 .. Len(Definition'.dimensions) + 1
        BY <1>1, <4>1 DEF Definition
      <4> QED
        BY <1>1, <3>1, <4>3, <4>4
    <3>2. CASE ~(Unfinished' /\ Known')
      BY <1>1, <3>2
    <3> QED
      BY <3>1, <3>2
  <2>4. pc' \notin {"quantity", "rate", "failed"}
    BY <1>1, <1>2
  <2>5. Len(costs') <= Len(job')
    BY <1>2, <1>4, <1>7
  <2> QED
    BY <1>2, <1>7, <2>1, <2>2, <2>3, <2>4, <2>5 DEF AsExpected
<1>11. Commands'
  BY <1>1, <1>2 DEF IInv, Commands, Compared
<1> QED
  BY <1>8, <1>9, <1>10, <1>11 DEF IInv

-----------------------------------------------------------------------------
(* The commands.                                                           *)

\* At the beginning of an estimate.
LEMMA BeginKeeps ==
    ASSUME job' \in Seq(Resources), Loaded(registry'), pc' = "when",
           dim' = 1, items' = <<>>, costs' = <<>>, skipped' = <<>>
    PROVE  /\ AsExpected' /\ dim' \in Nat
           /\ items' \in Seq(Items) /\ costs' \in Seq(Costs) /\ skipped' \in Seq(References)
<1>1. Len(costs') = 0 /\ Len(job') \in Nat
  OBVIOUS
<1>2. skipped' = SkippedUpTo(registry', chain', job')[Len(costs')]
  <2>1. EachSkipped(SkippedUpTo(registry', chain', job'), registry', chain', job')
    BY <1>1, SkippedUpToFacts, Zenon
  <2>2. SkippedUpTo(registry', chain', job')[0] = <<>>
    BY <2>1 DEF EachSkipped
  <2> QED
    BY <1>1, <2>2
<1>3. IF Unfinished' /\ Known'
      THEN /\ dim' \in 1 .. Len(Definition'.dimensions) + 1
           /\ items' = ItemsUpTo(registry', chain', Current')[dim' - 1]
           /\ \A k \in 1 .. dim' - 1 : FALSE
      ELSE dim' = 1 /\ items' = <<>>
  <2>1. CASE Unfinished' /\ Known'
    <3>1. Len(registry'[Current'.kind].dimensions) \in Nat
      BY <2>1 DEF Loaded, Known
    <3>2. OneByOne(ItemsUpTo(registry', chain', Current'), registry', chain', Current')
      BY <3>1, ItemsUpToFacts, Zenon
    <3>3. ItemsUpTo(registry', chain', Current')[0] = <<>>
      BY <3>2 DEF OneByOne
    <3>4. dim' - 1 = 0 /\ dim' \in 1 .. Len(Definition'.dimensions) + 1
      BY <3>1 DEF Definition
    <3> QED
      BY <2>1, <3>3, <3>4
  <2>2. CASE ~(Unfinished' /\ Known')
    BY <2>2
  <2> QED
    BY <2>1, <2>2
<1>4. Len(costs') <= Len(job') /\ \A i \in 1 .. Len(costs') : FALSE
  BY <1>1
<1>5. AsExpected'
  BY <1>2, <1>3, <1>4 DEF AsExpected
<1> QED
  BY <1>5

LEMMA StartKeeps ==
    ASSUME IInv, Start
    PROVE  IInv'
<1>1. /\ \/ command' \in {"estimate", "recommend"}
         \/ baseline # None /\ command' = "diff"
      /\ programs' = <<>> /\ base' = None /\ changes' = None /\ baseline' = baseline
  BY DEF Start
<1>2. NotMixedUp'
  <2>1. \A k : k \notin DOMAIN programs'
    BY <1>1
  <2> QED
    BY <2>1 DEF NotMixedUp, Faithful
<1>3. PICK catalog \in Catalogs :
        LET loaded == LoadAuto(catalog)
        IN  \/ /\ loaded # Failed
               /\ registry' = loaded
               /\ project' \in Projects
               /\ chain' \in Chains
               /\ BeginEstimate(project')
            \/ /\ loaded = Failed /\ Goto("refused")
               /\ UNCHANGED <<registry, project, chain, job, dim, quantity, items, costs,
                              skipped>>
  BY DEF Start
<1>4. CASE LoadAuto(catalog) # Failed
  <2>1. Loaded(registry') /\ chain' \in Chains /\ project' \in Seq(Resources)
    BY <1>3, <1>4, CatalogIsLoaded, ProjectAssumption
  <2>2. /\ job' = project' /\ pc' = "when"
        /\ dim' = 1 /\ items' = <<>> /\ costs' = <<>> /\ skipped' = <<>>
    BY <1>3, <1>4 DEF BeginEstimate, Goto
  <2>3. /\ AsExpected' /\ dim' \in Nat /\ items' \in Seq(Items) /\ costs' \in Seq(Costs)
        /\ skipped' \in Seq(References)
    BY <2>1, <2>2, BeginKeeps
  <2>4. Typed'
    BY <1>1, <2>1, <2>2, <2>3 DEF IInv, Typed
  <2>5. Commands'
    BY <1>1, <2>2 DEF Commands, Compared
  <2> QED
    BY <1>2, <2>3, <2>4, <2>5 DEF IInv
<1>5. CASE LoadAuto(catalog) = Failed
  <2>1. /\ pc' = "refused" /\ registry' = registry /\ project' = project /\ chain' = chain
        /\ job' = job /\ dim' = dim /\ quantity' = quantity /\ items' = items
        /\ costs' = costs /\ skipped' = skipped
    BY <1>3, <1>5 DEF Goto
  <2>2. Typed'
    BY <1>1, <2>1 DEF IInv, Typed
  <2>3. AsExpected'
    BY <2>1 DEF IInv, AsExpected, Unfinished, Known, Current, Definition
  <2>4. Commands'
    BY <1>1, <2>1 DEF Commands, Compared
  <2> QED
    BY <1>2, <2>2, <2>3, <2>4 DEF IInv
<1> QED
  BY <1>4, <1>5

\* A command that ends, or goes on to a proposal.
LEMMA CommandKeeps ==
    ASSUME IInv, pc' \in {"exit", "propose"},
           {baseline', base'} \subseteq EstimateRecord \cup {None},
           UNCHANGED <<command, registry, project, chain, job, programs, dim, quantity,
                       items, costs, skipped, changes>>,
           Commands'
    PROVE  IInv'
<1>1. Typed'
  BY DEF IInv, Typed
<1>2. NotMixedUp'
  BY DEF IInv, NotMixedUp
<1>3. AsExpected'
  BY DEF IInv, AsExpected, Unfinished, Known, Current, Definition
<1> QED
  BY <1>1, <1>2, <1>3 DEF IInv

LEMMA EstimateEndsKeeps ==
    ASSUME IInv, EstimateEnds
    PROVE  IInv'
<1>1. baseline' \in EstimateRecord /\ base' = base
  BY EstimateIsTyped DEF IInv, Typed, EstimateEnds, Estimate
<1>2. Commands'
  BY DEF IInv, Commands, Compared, EstimateEnds, Goto
<1> QED
  BY <1>1, <1>2, CommandKeeps DEF IInv, Typed, EstimateEnds, Goto

LEMMA DiffEndsKeeps ==
    ASSUME IInv, DiffEnds
    PROVE  IInv'
<1>1. /\ pc' = "exit" /\ baseline' = baseline /\ command' = command /\ changes' = changes
      /\ costs' = costs /\ skipped' = skipped /\ command = "diff"
      /\ report' = ComputeDiff(baseline, Estimate)
  BY DEF DiffEnds, process, Goto
<1>2. Estimate' = Estimate
  BY <1>1 DEF Estimate
<1>3. Commands'
  BY <1>1, <1>2 DEF IInv, Commands, Compared
<1> QED
  BY <1>1, <1>3, CommandKeeps DEF IInv, Typed, DiffEnds, process

LEMMA RecommendKeeps ==
    ASSUME IInv, RecommendBegins \/ Score \/ RecommendEnds
    PROVE  IInv'
<1>1. /\ UNCHANGED <<process, job, programs, dim, quantity, items, costs, skipped, changes>>
      /\ pc' \in {"exit", "propose"} /\ command = "recommend"
  BY DEF RecommendBegins, Score, RecommendEnds, Goto, IInv, Commands
<1>2. Commands'
  BY <1>1 DEF process, IInv, Commands, Compared
<1>3. base' \in EstimateRecord \cup {None}
  BY EstimateIsTyped DEF IInv, Typed, RecommendBegins, Score, RecommendEnds, Estimate
<1> QED
  BY <1>1, <1>2, <1>3, CommandKeeps DEF IInv, Typed, process

LEMMA ChangedIsTyped ==
    ASSUME NEW r \in Resources, NEW size \in Sizes
    PROVE  Changed(r, size) \in Resources
<1>1. "none" \in STRING
  BY LiteralAssumption
<1> QED
  BY <1>1 DEF Changed, Resources

\* There is a resource of a reference that one has.
LEMMA ResourceOfFacts ==
    ASSUME project \in Seq(Resources), NEW ref \in {Ref(project[i]) : i \in DOMAIN project}
    PROVE  LET place == SelectLastInSeq(project, LAMBDA r : Ref(r) = ref)
           IN  /\ place \in DOMAIN project /\ Ref(project[place]) = ref
               /\ ResourceOf(ref) = project[place] /\ project[place] \in Resources
<1> DEFINE I == {k \in 1 .. Len(project) : Ref(project[k]) = ref}
<1>1. SelectLastInSeq(project, LAMBDA r : Ref(r) = ref) = IF I # {} THEN Max(I) ELSE 0
  BY DEF SelectLastInSeq
<1>2. I # {} /\ I \in SUBSET (1 .. Len(project)) /\ Len(project) \in Nat
  OBVIOUS
<1> HIDE DEF I
<1>3. Max(I) \in I
  BY <1>2, MaxIn
<1>4. Max(I) \in 1 .. Len(project) /\ Ref(project[Max(I)]) = ref
  BY <1>3 DEF I
<1>5. project[Max(I)] \in Resources /\ Max(I) \in DOMAIN project
  BY <1>4
<1> QED
  BY <1>1, <1>2, <1>4, <1>5 DEF ResourceOf

LEMMA ProposalKeeps ==
    ASSUME IInv, pc = "propose", UNCHANGED <<process, report, programs, base>>,
           job' \in Seq(Resources), pc' = "when",
           dim' = 1, items' = <<>>, costs' = <<>>, skipped' = <<>>
    PROVE  IInv'
<1>1. /\ command' = command /\ registry' = registry /\ project' = project
      /\ chain' = chain /\ baseline' = baseline /\ programs' = programs
  BY DEF process
<1>2. /\ AsExpected' /\ dim' \in Nat /\ items' \in Seq(Items) /\ costs' \in Seq(Costs)
      /\ skipped' \in Seq(References)
  BY <1>1, BeginKeeps DEF IInv, Typed
<1>3. Typed'
  BY <1>1, <1>2 DEF IInv, Typed
<1>4. NotMixedUp'
  BY <1>1 DEF IInv, NotMixedUp
<1>5. Commands'
  BY <1>1 DEF IInv, Commands, Compared
<1> QED
  BY <1>2, <1>3, <1>4, <1>5 DEF IInv

LEMMA ProposeKeeps ==
    ASSUME IInv, Propose
    PROVE  IInv'
<1>1. PICK i \in DOMAIN project, size \in Sizes :
        BeginEstimate(<<Changed(project[i], size)>>)
  BY DEF Propose
<1>2. Changed(project[i], size) \in Resources
  BY ChangedIsTyped DEF IInv, Typed
<1>3. <<Changed(project[i], size)>> \in Seq(Resources)
  BY <1>2
<1>4. /\ job' = <<Changed(project[i], size)>> /\ pc' = "when"
      /\ dim' = 1 /\ items' = <<>> /\ costs' = <<>> /\ skipped' = <<>>
  BY <1>1 DEF BeginEstimate, Goto
<1> QED
  BY <1>3, <1>4, ProposalKeeps DEF Propose

LEMMA ReferencesAreFinite ==
    ASSUME IInv, NEW refs \in SUBSET {Ref(project[i]) : i \in DOMAIN project}
    PROVE  IsFiniteSet(refs) /\ Cardinality(refs) \in Nat
<1> DEFINE all == {Ref(project[i]) : i \in DOMAIN project}
           f == [i \in 1 .. Len(project) |-> Ref(project[i])]
<1>1. DOMAIN project = 1 .. Len(project) /\ Len(project) \in Nat
  BY DEF IInv, Typed
<1>2. f \in Surjection(1 .. Len(project), all)
  BY <1>1 DEF Surjection
<1>3. IsFiniteSet(all)
  <2> HIDE DEF all, f
  <2> QED
    BY <1>1, <1>2, FS_NatSurjection DEF ExistsSurjection
<1> HIDE DEF all
<1>4. IsFiniteSet(refs)
  BY <1>3, FS_Subset DEF all
<1> QED
  BY <1>4, FS_CardinalityType

LEMMA ProposeTreeKeeps ==
    ASSUME IInv, ProposeTree
    PROVE  IInv'
<1> DEFINE all == {Ref(project[i]) : i \in DOMAIN project}
<1>1. PICK refs \in SUBSET all \ {{}}, size \in Sizes :
        /\ changes' = [ref \in refs |-> size]
        /\ \E order \in [1 .. Cardinality(refs) -> refs] :
              /\ Range(order) = refs
              /\ BeginEstimate([i \in DOMAIN order |-> Changed(ResourceOf(order[i]), size)])
  BY DEF ProposeTree
<1>2. PICK order \in [1 .. Cardinality(refs) -> refs] :
        BeginEstimate([i \in DOMAIN order |-> Changed(ResourceOf(order[i]), size)])
  BY <1>1
<1> DEFINE n == Cardinality(refs)
           resources == [i \in DOMAIN order |-> Changed(ResourceOf(order[i]), size)]
<1>3. n \in Nat
  BY <1>1, ReferencesAreFinite
<1>4. ASSUME NEW i \in 1 .. n PROVE Changed(ResourceOf(order[i]), size) \in Resources
  <2>1. order[i] \in all
    BY <1>1, <1>2
  <2>2. ResourceOf(order[i]) \in Resources
    BY <2>1, ResourceOfFacts DEF IInv, Typed
  <2> QED
    BY <2>2, ChangedIsTyped
<1>5. resources \in [1 .. n -> Resources]
  BY <1>4
<1>6. resources \in Seq(Resources)
  <2> HIDE DEF resources, n
  <2> QED
    BY <1>3, <1>5, SequenceOf
<1>7. /\ job' = resources /\ pc' = "when"
      /\ dim' = 1 /\ items' = <<>> /\ costs' = <<>> /\ skipped' = <<>>
  BY <1>2 DEF BeginEstimate, Goto
<1> HIDE DEF resources
<1> QED
  BY <1>6, <1>7, ProposalKeeps DEF ProposeTree

\* After the last resource the estimate is the one expected.
LEMMA EstimateIsExpected ==
    ASSUME IInv, Estimated
    PROVE  /\ Estimate = Expected(registry, chain, job)
           /\ \A i \in DOMAIN job : ~Fails(registry, chain, job[i])
<1>1. DOMAIN job = 1 .. Len(job) /\ costs = [i \in 1 .. Len(costs) |-> costs[i]]
  BY DEF IInv, Typed
<1>2. Len(costs) = Len(job)
  <2>1. Len(costs) \in Nat /\ Len(job) \in Nat /\ ~Unfinished
    BY DEF IInv, Typed, Estimated
  <2> QED
    BY <2>1 DEF IInv, AsExpected, Unfinished
<1>3. costs = [i \in DOMAIN job |-> ExpectedCost(registry, chain, job[i])]
  BY <1>1, <1>2 DEF IInv, AsExpected
<1>4. skipped = SkippedUpTo(registry, chain, job)[Len(job)]
  BY <1>2 DEF IInv, AsExpected
<1>5. \A i \in DOMAIN job : ~Fails(registry, chain, job[i])
  BY <1>1, <1>2 DEF IInv, AsExpected
<1> QED
  BY <1>3, <1>4, <1>5 DEF Estimate, Expected

-----------------------------------------------------------------------------
(* Recommendations.                                                        *)

LEMMA CostIsRounded ==
    ASSUME NEW r, NEW its, Cost(r, its) \in Costs
    PROVE  Cost(r, its).subtotal \in Multiples(CentGrain)
<1> DEFINE amounts == [i \in DOMAIN its |-> its[i].monthly]
<1>1. its \in Seq(Items)
  BY DEF Cost, Costs
<1>2. Len(its) \in Nat /\ DOMAIN its = 1 .. Len(its)
      /\ \A i \in 1 .. Len(its) : its[i] \in Items
  BY <1>1
<1>3. amounts \in [1 .. Len(its) -> Int]
  BY <1>2 DEF Items
<1>4. amounts \in Seq(Int)
  <2> HIDE DEF amounts
  <2> QED
    BY <1>2, <1>3, SequenceOf
<1>5. Cost(r, its).subtotal = Rounded(Total(amounts), CentGrain)
  BY DEF Cost
<1> HIDE DEF amounts
<1> QED
  BY <1>4, <1>5, TotalIsInt, RoundedIsMultiple, CentAssumption

LEMMA ExpectedCostFacts ==
    ASSUME NEW definitions, NEW answers, NEW r
    PROVE  /\ ExpectedCost(definitions, answers, r).ref = Ref(r)
           /\ ExpectedCost(definitions, answers, r).action = r.action
           /\ ExpectedCost(definitions, answers, r) \in Costs =>
                ExpectedCost(definitions, answers, r).subtotal \in Multiples(CentGrain)
<1>1. ExpectedCost(definitions, answers, r) =
        Cost(r, ExpectedItems(definitions, answers, r))
  BY DEF ExpectedCost
<1>2. \A its : Cost(r, its).ref = Ref(r) /\ Cost(r, its).action = r.action
  BY DEF Cost
<1> QED
  BY <1>1, <1>2, CostIsRounded

\* Where nothing that is removed costs anything, the total is that of all costs.
LEMMA TotalOfCosts ==
    ASSUME NEW cs \in Seq(Costs), NEW refs,
           \A i \in DOMAIN cs : cs[i].subtotal \in Multiples(CentGrain),
           RemovesNothing(NewEstimate(cs, refs))
    PROVE  NewEstimate(cs, refs).total = Total(Subtotals(cs))
           /\ Subtotals(cs) \in Seq(Int) /\ Len(Subtotals(cs)) = Len(cs)
           /\ Total(Subtotals(cs)) \in Multiples(CentGrain)
<1> DEFINE n == Len(cs)
           s == Subtotals(cs)
           amounts == [i \in DOMAIN cs |->
                          IF cs[i].action = "delete" THEN 0 ELSE cs[i].subtotal]
<1>1. n \in Nat /\ DOMAIN cs = 1 .. n /\ \A i \in 1 .. n : cs[i] \in Costs
  OBVIOUS
<1>2. s = [i \in 1 .. n |-> cs[i].subtotal] /\ \A i \in 1 .. n : cs[i].subtotal \in Int
  BY <1>1 DEF Subtotals, Costs
<1>3. s \in Seq(Int) /\ Len(s) = n
  <2>1. s \in [1 .. n -> Int]
    BY <1>2
  <2> HIDE DEF s, n
  <2> QED
    BY <1>1, <2>1, SequenceOf
<1>4. amounts = s
  <2>1. NewEstimate(cs, refs).costs = cs
    BY DEF NewEstimate
  <2>2. \A i \in DOMAIN cs : cs[i].action = "delete" => cs[i].subtotal = 0
    BY <2>1 DEF RemovesNothing
  <2> QED
    BY <2>2 DEF Subtotals
<1>5. NewEstimate(cs, refs).total = Rounded(Total(amounts), CentGrain)
  BY DEF NewEstimate
<1>6. Total(s) \in Multiples(CentGrain)
  <2>1. \A i \in 1 .. Len(s) : s[i] \in Multiples(CentGrain)
    BY <1>1, <1>2, <1>3
  <2> HIDE DEF s
  <2> QED
    BY <1>3, <2>1, TotalOfMultiples, CentAssumption
<1> HIDE DEF s, amounts
<1> QED
  BY <1>3, <1>4, <1>5, <1>6, MultipleIsRounded, CentAssumption DEF s

LEMMA BaseCostIs ==
    ASSUME base.costs \in Seq(Costs), UniqueRefs(base), NEW k \in DOMAIN base.costs
    PROVE  BaseCost(base.costs[k].ref) = base.costs[k].subtotal
<1> DEFINE ref == base.costs[k].ref
           I == {i \in 1 .. Len(base.costs) : base.costs[i].ref = ref}
<1>1. SelectLastInSeq(base.costs, LAMBDA c : c.ref = ref) = IF I # {} THEN Max(I) ELSE 0
  BY DEF SelectLastInSeq
<1>2. I = {k} /\ I \in SUBSET (1 .. Len(base.costs)) /\ Len(base.costs) \in Nat
  BY DEF UniqueRefs
<1> HIDE DEF I
<1>3. Max(I) = k /\ I # {}
  BY <1>2, MaxIn
<1> QED
  BY <1>1, <1>3 DEF BaseCost, ref

\* What following a proposal costs: of what it changes what was just estimated,
\* and of the rest what the base says.
LEMMA FollowedCosts ==
    ASSUME IInv, Advised, base # None, UniqueRefs(base), RemovesNothing(base),
           Len(costs) = Len(job), NEW advice, advice.changes = changes,
           NEW choice \in Injection(DOMAIN job, DOMAIN project),
           DOMAIN changes = {Ref(project[choice[i]]) : i \in DOMAIN job},
           \A i \in DOMAIN job :
              job[i] = Changed(project[choice[i]], changes[Ref(project[choice[i]])])
    PROVE  LET followed == Followed(project, advice)
               cost(k) == ExpectedCost(registry, chain, followed[k])
           IN  /\ DOMAIN followed = DOMAIN project
               /\ \A k \in DOMAIN project :
                     /\ ~Fails(registry, chain, followed[k])
                     /\ cost(k) \in Costs
                     /\ cost(k).action = "delete" => cost(k).subtotal = 0
               /\ \A i \in DOMAIN job : cost(choice[i]) = costs[i]
               /\ \A k \in DOMAIN project :
                     (\A i \in DOMAIN job : choice[i] # k) => cost(k) = base.costs[k]
<1> DEFINE n == Len(project)
           m == Len(job)
           followed == Followed(project, advice)
           expected(k) == ExpectedCost(registry, chain, project[k])
<1>1. /\ n \in Nat /\ DOMAIN project = 1 .. n /\ \A k \in 1 .. n : project[k] \in Resources
      /\ m \in Nat /\ DOMAIN job = 1 .. m
      /\ Len(costs) = m /\ \A i \in 1 .. m : costs[i] \in Costs
  BY DEF IInv, Typed
<1>2. /\ base.costs \in Seq(Costs)
      /\ base.costs = [k \in DOMAIN project |-> expected(k)]
  <2>1. base \in EstimateRecord /\ base = Expected(registry, chain, project)
    BY DEF IInv, Typed, Advised
  <2> QED
    BY <2>1 DEF EstimateRecord, Expected, NewEstimate
<1>3. /\ DOMAIN base.costs = 1 .. n
      /\ \A k \in 1 .. n : base.costs[k] = expected(k) /\ base.costs[k] \in Costs
  BY <1>1, <1>2
<1>4. \A k, l \in 1 .. n : Ref(project[k]) = Ref(project[l]) => k = l
  <2>1. \A k \in 1 .. n : base.costs[k].ref = Ref(project[k])
    BY <1>3, ExpectedCostFacts
  <2> QED
    BY <1>3, <2>1 DEF UniqueRefs
<1>5. /\ \A i \in 1 .. m : choice[i] \in 1 .. n
      /\ \A k \in 1 .. n : Ref(project[k]) \in DOMAIN changes
                             <=> \E i \in 1 .. m : choice[i] = k
  <2>1. \A i \in 1 .. m : choice[i] \in 1 .. n
    BY <1>1 DEF Injection
  <2> QED
    BY <1>1, <1>4, <2>1
<1>6. /\ DOMAIN followed = DOMAIN project
      /\ \A i \in 1 .. m : followed[choice[i]] = job[i]
      /\ \A k \in 1 .. n : (\A i \in 1 .. m : choice[i] # k) => followed[k] = project[k]
  <2>1. followed = [k \in 1 .. n |->
                      IF Ref(project[k]) \in DOMAIN changes
                      THEN Changed(project[k], changes[Ref(project[k])])
                      ELSE project[k]]
    BY <1>1 DEF Followed
  <2> HIDE DEF followed
  <2> QED
    BY <1>1, <1>5, <2>1
<1> HIDE DEF followed
<1>7. ASSUME NEW i \in 1 .. m
      PROVE  LET c == ExpectedCost(registry, chain, followed[choice[i]])
             IN  /\ c = costs[i] /\ c \in Costs /\ c.action # "delete"
                 /\ ~Fails(registry, chain, followed[choice[i]])
  <2>1. costs[i] = ExpectedCost(registry, chain, job[i]) /\ ~Fails(registry, chain, job[i])
    BY <1>1 DEF IInv, AsExpected
  <2>2. job[i].action = "none"
    <3>1. project[choice[i]] \in Resources
      BY <1>1, <1>5
    <3> QED
      BY <1>1, <3>1 DEF Changed, Resources
  <2>3. ExpectedCost(registry, chain, job[i]).action = "none"
    BY <2>2, ExpectedCostFacts
  <2> QED
    BY <1>1, <1>6, <2>1, <2>3
<1>8. ASSUME NEW k \in 1 .. n, \A i \in 1 .. m : choice[i] # k
      PROVE  LET c == ExpectedCost(registry, chain, followed[k])
             IN  /\ c = base.costs[k] /\ c \in Costs
                 /\ c.action = "delete" => c.subtotal = 0
                 /\ ~Fails(registry, chain, followed[k])
  <2>1. followed[k] = project[k] /\ ~Fails(registry, chain, project[k])
    BY <1>1, <1>6, <1>8 DEF Advised
  <2> QED
    BY <1>3, <2>1 DEF RemovesNothing
<1> HIDE DEF n, m
<1>9. ASSUME NEW k \in 1 .. n
      PROVE  LET c == ExpectedCost(registry, chain, followed[k])
             IN  /\ c \in Costs
                 /\ c.action = "delete" => c.subtotal = 0
                 /\ ~Fails(registry, chain, followed[k])
  <2>1. CASE \E i \in 1 .. m : choice[i] = k
    BY <1>7, <2>1
  <2>2. CASE \A i \in 1 .. m : choice[i] # k
    BY <1>8, <2>2
  <2> QED
    BY <2>1, <2>2
<1> QED
  BY <1>1, <1>6, <1>7, <1>8, <1>9 DEF followed

\* The score of a proposal is what the total falls by.
LEMMA ScorePays ==
    ASSUME IInv, Advised, Estimated, base # None, NEW advice,
           advice.changes = changes, advice.savings = Rounded(Spent - After, CentGrain)
    PROVE  Pays(registry, chain, project, base, advice)
<1> SUFFICES ASSUME UniqueRefs(base), RemovesNothing(base)
             PROVE  LET f == Followed(project, advice)
                    IN  /\ \A j \in DOMAIN f : ~Fails(registry, chain, f[j])
                        /\ base.total - Expected(registry, chain, f).total = advice.savings
  BY DEF Pays
<1>1. /\ Len(costs) = Len(job) /\ IsProposal(job, project, changes)
      /\ base \in EstimateRecord /\ base = Expected(registry, chain, project)
  BY DEF IInv, Typed, AsExpected, Advised, Estimated, Unfinished, Evaluating
<1>2. PICK choice \in Injection(DOMAIN job, DOMAIN project) :
        /\ DOMAIN changes = {Ref(project[choice[i]]) : i \in DOMAIN job}
        /\ \A i \in DOMAIN job :
              job[i] = Changed(project[choice[i]], changes[Ref(project[choice[i]])])
  BY <1>1 DEF IsProposal
<1> DEFINE n == Len(project)
           m == Len(job)
           f == Followed(project, advice)
           cs == [k \in DOMAIN f |-> ExpectedCost(registry, chain, f[k])]
           x == Subtotals(base.costs)
           y == Subtotals(cs)
<1>3. /\ n \in Nat /\ DOMAIN project = 1 .. n /\ m \in Nat /\ DOMAIN job = 1 .. m
      /\ Len(costs) = m /\ costs \in Seq(Costs)
  BY <1>1 DEF IInv, Typed
<1>4. /\ DOMAIN f = 1 .. n
      /\ \A k \in 1 .. n :
            /\ ~Fails(registry, chain, f[k])
            /\ cs[k] \in Costs
            /\ cs[k].action = "delete" => cs[k].subtotal = 0
      /\ \A i \in 1 .. m : cs[choice[i]] = costs[i]
      /\ \A k \in 1 .. n : (\A i \in 1 .. m : choice[i] # k) => cs[k] = base.costs[k]
  <2>1. \A i \in 1 .. m : choice[i] \in 1 .. n
    BY <1>3 DEF Injection
  <2>2. LET cost(k) == ExpectedCost(registry, chain, f[k])
        IN  /\ DOMAIN f = DOMAIN project
            /\ \A k \in DOMAIN project :
                  /\ ~Fails(registry, chain, f[k])
                  /\ cost(k) \in Costs
                  /\ cost(k).action = "delete" => cost(k).subtotal = 0
            /\ \A i \in DOMAIN job : cost(choice[i]) = costs[i]
            /\ \A k \in DOMAIN project :
                  (\A i \in DOMAIN job : choice[i] # k) => cost(k) = base.costs[k]
    BY <1>1, <1>2, FollowedCosts
  <2> HIDE DEF f, n, m
  <2> QED
    BY <1>3, <2>1, <2>2
<1>5. /\ \A k \in DOMAIN cs : cs[k].subtotal \in Multiples(CentGrain)
      /\ cs \in Seq(Costs) /\ Len(cs) = n
  <2> HIDE DEF f, n
  <2>1. cs \in [1 .. n -> Costs]
    BY <1>4
  <2>2. \A k \in DOMAIN cs : cs[k].subtotal \in Multiples(CentGrain)
    BY <1>4, ExpectedCostFacts
  <2> HIDE DEF cs
  <2> QED
    BY <1>3, <2>1, <2>2, SequenceOf
<1>6. /\ Expected(registry, chain, f).total = Total(y)
      /\ y \in Seq(Int) /\ Len(y) = n /\ Total(y) \in Multiples(CentGrain)
  <2> DEFINE refs == SkippedUpTo(registry, chain, f)[Len(f)]
  <2>1. Expected(registry, chain, f) = NewEstimate(cs, refs)
    BY DEF Expected
  <2>2. RemovesNothing(NewEstimate(cs, refs))
    <3>1. NewEstimate(cs, refs).costs = cs
      BY DEF NewEstimate
    <3> HIDE DEF refs, f, n
    <3>2. \A k \in DOMAIN cs : cs[k].action = "delete" => cs[k].subtotal = 0
      BY <1>4
    <3> HIDE DEF cs
    <3> QED
      BY <3>1, <3>2 DEF RemovesNothing
  <2> HIDE DEF refs, cs, f, n
  <2> QED
    BY <1>5, <2>1, <2>2, TotalOfCosts
<1>7. /\ base.total = Total(x) /\ base.costs \in Seq(Costs) /\ Len(base.costs) = n
      /\ x \in Seq(Int) /\ Len(x) = n /\ Total(x) \in Multiples(CentGrain)
  <2> DEFINE bs == [k \in DOMAIN project |-> ExpectedCost(registry, chain, project[k])]
             refs == SkippedUpTo(registry, chain, project)[Len(project)]
  <2>1. base = NewEstimate(bs, refs) /\ base.costs = bs
    BY <1>1 DEF Expected, NewEstimate
  <2>2. base.costs \in Seq(Costs)
    BY <1>1 DEF EstimateRecord
  <2>3. \A k \in DOMAIN bs : bs[k].subtotal \in Multiples(CentGrain)
    <3>1. \A k \in DOMAIN bs : bs[k] \in Costs
      BY <2>1, <2>2
    <3> QED
      BY <3>1, ExpectedCostFacts
  <2>4. DOMAIN bs = 1 .. n
    BY <1>3
  <2> HIDE DEF bs, refs, n
  <2> QED
    BY <1>3, <2>1, <2>2, <2>3, <2>4, TotalOfCosts
<1> DEFINE d == [i \in 1 .. m |-> x[choice[i]] - y[choice[i]]]
           spent == [i \in DOMAIN job |-> BaseCost(Ref(job[i]))]
           after == Subtotals(costs)
<1>8. /\ choice \in [1 .. m -> 1 .. n]
      /\ \A i, j \in 1 .. m : choice[i] = choice[j] => i = j
  BY <1>3 DEF Injection, IsInjective
<1>9. /\ \A k \in 1 .. n : x[k] = base.costs[k].subtotal /\ y[k] = cs[k].subtotal
      /\ \A k \in 1 .. n : x[k] \in Int /\ y[k] \in Int
  <2>1. DOMAIN base.costs = 1 .. n /\ DOMAIN cs = 1 .. n
    BY <1>5, <1>7
  <2>2. \A k \in 1 .. n : x[k] = base.costs[k].subtotal /\ y[k] = cs[k].subtotal
    BY <2>1 DEF Subtotals
  <2> HIDE DEF x, y, cs, f, n
  <2>3. \A k \in 1 .. n : x[k] \in Int /\ y[k] \in Int
    BY <1>6, <1>7
  <2> QED
    BY <2>2, <2>3
<1>10. Total(x) = Total(y) + Total(d) /\ d \in Seq(Int) /\ Len(d) = m
  <2> HIDE DEF x, y, cs, f, n, m
  <2>1. d \in [1 .. m -> Int]
    BY <1>8, <1>9
  <2>2. d \in Seq(Int) /\ Len(d) = m /\ \A i \in 1 .. m : d[i] = x[choice[i]] - y[choice[i]]
    <3>1. \A i \in 1 .. m : d[i] = x[choice[i]] - y[choice[i]]
      OBVIOUS
    <3> HIDE DEF d
    <3> QED
      BY <1>3, <2>1, <3>1, SequenceOf
  <2>3. \A k \in 1 .. n : (\A i \in 1 .. m : choice[i] # k) => x[k] = y[k]
    BY <1>4, <1>9
  <2> HIDE DEF d
  <2>4. Len(x) = n /\ x \in Seq(Int) /\ y \in Seq(Int) /\ Len(y) = Len(x) /\ m \in Nat
    BY <1>3, <1>6, <1>7
  <2>5. /\ choice \in [1 .. m -> 1 .. Len(x)]
        /\ \A k \in 1 .. Len(x) : (\A i \in 1 .. m : choice[i] # k) => x[k] = y[k]
    BY <1>8, <2>3, <2>4
  <2>6. Total(x) = Total(y) + Total(d)
    <3>1. DifferAt(x, y, m, choice, d)
      BY <1>8, <2>2, <2>4, <2>5 DEF DifferAt
    <3> QED
      BY <3>1, TotalDiffers
  <2> QED
    BY <2>2, <2>6
<1>11. /\ \A i \in 1 .. m : spent[i] = x[choice[i]] /\ after[i] = y[choice[i]]
       /\ DOMAIN spent = 1 .. m /\ DOMAIN after = 1 .. m
  <2>1. ASSUME NEW i \in 1 .. m PROVE spent[i] = x[choice[i]]
    <3>1. Ref(job[i]) = Ref(project[choice[i]])
      <4>1. project[choice[i]] \in Resources
        BY <1>3, <1>8 DEF IInv, Typed
      <4> QED
        BY <1>2, <1>3, <4>1 DEF Changed, Ref, Resources
    <3>2. base.costs[choice[i]].ref = Ref(project[choice[i]])
      <4>1. base.costs[choice[i]] = ExpectedCost(registry, chain, project[choice[i]])
        BY <1>1, <1>3, <1>8 DEF Expected, NewEstimate
      <4> QED
        BY <4>1, ExpectedCostFacts
    <3>3. choice[i] \in DOMAIN base.costs /\ x[choice[i]] = base.costs[choice[i]].subtotal
      <4>1. choice[i] \in 1 .. n
        BY <1>8
      <4>2. DOMAIN base.costs = 1 .. n
        BY <1>7
      <4> HIDE DEF x, y, n
      <4> QED
        BY <1>9, <4>1, <4>2
    <3>4. BaseCost(Ref(job[i])) = base.costs[choice[i]].subtotal
      BY <1>7, <3>1, <3>2, <3>3, BaseCostIs
    <3> QED
      BY <1>3, <3>3, <3>4
  <2>2. ASSUME NEW i \in 1 .. m PROVE after[i] = y[choice[i]]
    <3>1. after[i] = costs[i].subtotal /\ choice[i] \in 1 .. n
      BY <1>3, <1>8 DEF Subtotals
    <3> HIDE DEF after, y, cs, f, n, m
    <3> QED
      BY <1>4, <1>9, <3>1
  <2>3. DOMAIN spent = 1 .. m /\ DOMAIN after = 1 .. m
    BY <1>3 DEF Subtotals
  <2> QED
    BY <2>1, <2>2, <2>3
<1>12. Spent = After + Total(d)
  <2>1. spent = [i \in 1 .. m |-> spent[i]] /\ after = [i \in 1 .. m |-> after[i]]
    BY <1>11 DEF Subtotals
  <2>2. Spent = Total(spent) /\ After = Total(after)
    BY DEF Spent, After
  <2>3. \A i \in 1 .. m : d[i] = spent[i] - after[i]
    BY <1>11
  <2> HIDE DEF spent, after, x, y, cs, f, n, m
  <2>4. \A i \in 1 .. m : spent[i] \in Int /\ after[i] \in Int
    BY <1>8, <1>9, <1>11
  <2>5. spent \in Seq(Int) /\ Len(spent) = m /\ after \in Seq(Int) /\ Len(after) = m
    <3>1. spent \in [1 .. m -> Int] /\ after \in [1 .. m -> Int]
      BY <2>1, <2>4
    <3> QED
      BY <1>3, <3>1, SequenceOf
  <2> HIDE DEF d
  <2>6. \A i \in 1 .. m : spent[i] = after[i] + d[i]
    <3>1. \A i \in 1 .. m : d[i] \in Int
      BY <1>10
    <3> QED
      BY <2>3, <2>4, <3>1
  <2>7. Total(spent) = Total(after) + Total(d)
    <3>1. Len(d) = Len(after) /\ Len(spent) = Len(after) /\ d \in Seq(Int)
      BY <1>10, <2>5
    <3>2. \A i \in 1 .. Len(after) : spent[i] = after[i] + d[i]
      BY <2>5, <2>6
    <3> QED
      BY <2>5, <3>1, <3>2, TotalAdds
  <2> QED
    BY <2>2, <2>7
<1>13. After \in Int /\ Total(d) \in Int
  <2>1. after = [i \in 1 .. m |-> after[i]]
    BY <1>11 DEF Subtotals
  <2>2. After = Total(after)
    BY DEF After
  <2> HIDE DEF spent, after, d, x, y, cs, f, n, m
  <2>3. \A i \in 1 .. m : after[i] \in Int
    BY <1>8, <1>9, <1>11
  <2>4. after \in Seq(Int)
    BY <1>3, <2>1, <2>3, SequenceOf
  <2> QED
    BY <1>10, <2>2, <2>4, TotalIsInt
<1> HIDE DEF x, y, d, cs, f, n, m, spent, after
<1>14. Spent - After = Total(x) - Total(y)
  <2>1. Total(x) \in Int /\ Total(y) \in Int
    BY <1>6, <1>7, TotalIsInt
  <2> QED
    BY <1>10, <1>12, <1>13, <2>1
<1>15. advice.savings = Total(x) - Total(y)
  <2>1. Total(x) - Total(y) \in Multiples(CentGrain)
    BY <1>6, <1>7, MultiplesAdd, CentAssumption
  <2> QED
    BY <1>14, <2>1, MultipleIsRounded, CentAssumption
<1> QED
  BY <1>4, <1>6, <1>7, <1>15 DEF f

\* The evaluations of a proposal change nothing of this.
LEMMA EvaluationAdvised ==
    ASSUME Advised, Evaluating, UNCHANGED <<process, report, job, base, changes>>,
           Evaluating' \/ pc' = "failed" \/ (pc' = "propose" /\ changes # None)
    PROVE  Advised'
<1>1. /\ command' = command /\ registry' = registry /\ project' = project
      /\ chain' = chain /\ report' = report /\ job' = job /\ base' = base
      /\ changes' = changes
  BY DEF process
<1> QED
  BY <1>1 DEF Advised, Evaluating

\* What ends a command, or scores, changes no more than the report.
LEMMA EndAdvised ==
    ASSUME Advised, pc' \in {"exit", "propose"},
           UNCHANGED <<command, registry, project, chain, base, changes>>,
           base # None => /\ report' \in Seq(Range(report'))
                          /\ \A i \in DOMAIN report' :
                                Pays(registry, chain, project, base, report'[i]),
           pc' = "propose" => base # None
    PROVE  Advised'
BY DEF Advised, Evaluating

LEMMA StartAdvised == ASSUME Start PROVE Advised'
<1>1. base' = None /\ changes' = None
  BY DEF Start
<1>2. pc' = "refused" \/ (pc' = "when" /\ job' = project')
  BY DEF Start, BeginEstimate, Goto
<1> QED
  BY <1>1, <1>2 DEF Advised, Evaluating

LEMMA EvaluateAdvised ==
    ASSUME Advised, Evaluate \/ EndResource
    PROVE  Advised'
<1>1. Evaluating /\ UNCHANGED <<process, report, job, base, changes>>
  BY DEF Evaluate, EvaluateWhen, EvaluateQuantity, StaticRate, PricedRate,
         UndeclaredMapping, EndResource, Evaluating
<1>2. Evaluating' \/ pc' = "failed" \/ (pc' = "propose" /\ changes # None)
  BY DEF Evaluate, EvaluateWhen, EvaluateQuantity, StaticRate, PricedRate,
         UndeclaredMapping, EndResource, Evaluating, Fail, Goto
<1> QED
  BY <1>1, <1>2, EvaluationAdvised

LEMMA ComparisonAdvised ==
    ASSUME Advised, EstimateEnds \/ DiffEnds
    PROVE  Advised'
<1>1. /\ command # "recommend" /\ pc' = "exit"
      /\ UNCHANGED <<command, registry, project, chain, base, changes>>
  BY DEF EstimateEnds, DiffEnds, process, Goto
<1>2. base = None
  BY <1>1 DEF Advised
<1> QED
  BY <1>1, <1>2, EndAdvised

LEMMA BeginAdvised ==
    ASSUME IInv, Advised, RecommendBegins
    PROVE  Advised'
<1>1. /\ command = "recommend" /\ Estimated /\ base = None /\ base' = Estimate
      /\ report' = <<>> /\ pc' = "propose"
      /\ command' = command /\ registry' = registry /\ project' = project
      /\ chain' = chain /\ changes' = changes
  BY DEF RecommendBegins, process, Goto
<1>2. job = project
  BY <1>1 DEF Advised, Estimated, Evaluating
<1>3. /\ base' = Expected(registry, chain, project)
      /\ \A i \in DOMAIN project : ~Fails(registry, chain, project[i])
  BY <1>1, <1>2, EstimateIsExpected
<1>4. base' # None
  BY <1>1, EstimateIsTyped, NoneAssumption DEF IInv, Typed, Estimate
<1>5. report' \in Seq(Range(report')) /\ \A i \in DOMAIN report' : FALSE
  BY <1>1
<1> QED
  BY <1>1, <1>3, <1>4, <1>5 DEF Advised, Evaluating

LEMMA ScoreAdvised ==
    ASSUME IInv, Advised, Score
    PROVE  Advised'
<1> DEFINE savings == Rounded(Spent - After, CentGrain)
           advice == [changes |-> changes, savings |-> savings]
<1>1. /\ base # None /\ Estimated /\ pc' = "propose"
      /\ report' = IF savings <= 0 THEN report ELSE Append(report, advice)
      /\ UNCHANGED <<command, registry, project, chain, base, changes>>
  BY DEF Score, process, Goto
<1>2. Pays(registry, chain, project, base, advice)
  BY <1>1, ScorePays
<1> HIDE DEF advice, savings
<1>3. /\ report \in Seq(Range(report))
      /\ \A i \in DOMAIN report : Pays(registry, chain, project, base, report[i])
  BY <1>1 DEF Advised
<1>4. CASE report' = report
  BY <1>1, <1>3, <1>4, EndAdvised
<1>5. CASE report' = Append(report, advice)
  <2> DEFINE n == Len(report)
             longer == Append(report, advice)
  <2>1. /\ n \in Nat /\ DOMAIN report = 1 .. n /\ report \in Seq(Range(report) \cup {advice})
        /\ DOMAIN longer = 1 .. n + 1
    BY <1>3
  <2>2. \A i \in 1 .. n + 1 : \/ i \in 1 .. n /\ longer[i] = report[i]
                              \/ longer[i] = advice
    BY <2>1
  <2>3. longer = [i \in 1 .. n + 1 |-> longer[i]] /\ n + 1 \in Nat
    <3>1. longer \in Seq(Range(report) \cup {advice})
      BY <2>1
    <3> HIDE DEF longer
    <3> QED
      BY <2>1, <3>1
  <2> HIDE DEF longer
  <2>4. longer \in Seq(Range(longer))
    <3>1. longer \in [1 .. n + 1 -> Range(longer)]
      BY <2>1, <2>3 DEF Range
    <3> QED
      BY <2>3, <3>1, SequenceOf
  <2>5. \A i \in DOMAIN longer : Pays(registry, chain, project, base, longer[i])
    BY <1>2, <1>3, <2>1, <2>2
  <2> QED
    BY <1>1, <1>5, <2>4, <2>5, EndAdvised DEF longer
<1> QED
  BY <1>1, <1>4, <1>5

LEMMA RecommendEndsAdvised ==
    ASSUME Advised, RecommendEnds
    PROVE  Advised'
<1>1. /\ pc = "propose" /\ pc' = "exit"
      /\ UNCHANGED <<command, registry, project, chain, base, changes>>
  BY DEF RecommendEnds, process, Goto
<1>2. PICK p \in Bijection(DOMAIN report, DOMAIN report) :
        report' = [i \in DOMAIN report |-> report[p[i]]]
  BY DEF RecommendEnds
<1>3. /\ base # None /\ report \in Seq(Range(report))
      /\ \A i \in DOMAIN report : Pays(registry, chain, project, base, report[i])
  BY <1>1 DEF Advised
<1>4. \A i \in DOMAIN report : p[i] \in DOMAIN report
  BY <1>2 DEF Bijection, Injection
<1>5. DOMAIN report' = DOMAIN report /\ \A i \in DOMAIN report : report'[i] = report[p[i]]
  BY <1>2
<1>6. report' \in Seq(Range(report'))
  <2>1. report' \in [1 .. Len(report) -> Range(report')] /\ Len(report) \in Nat
    BY <1>2, <1>3, <1>5 DEF Range
  <2> QED
    BY <2>1, SequenceOf
<1>7. \A i \in DOMAIN report' : Pays(registry, chain, project, base, report'[i])
  BY <1>3, <1>4, <1>5
<1> QED
  BY <1>1, <1>6, <1>7, EndAdvised

\* A proposal begins.
LEMMA ProposalAdvised ==
    ASSUME Advised, pc = "propose", pc' = "when", UNCHANGED <<process, report, base>>,
           IsProposal(job', project, changes')
    PROVE  Advised'
<1>1. /\ command' = command /\ registry' = registry /\ project' = project
      /\ chain' = chain /\ report' = report /\ base' = base
  BY DEF process
<1>2. base # None
  BY DEF Advised
<1> QED
  BY <1>1, <1>2 DEF Advised, Evaluating

LEMMA ProposeAdvised ==
    ASSUME Advised, Propose
    PROVE  Advised'
<1>1. PICK k \in DOMAIN project, size \in Sizes :
        /\ changes' = [ref \in {Ref(project[k])} |-> size]
        /\ job' = <<Changed(project[k], size)>>
  BY DEF Propose, BeginEstimate
<1> DEFINE choice == [i \in {1} |-> k]
<1>2. DOMAIN job' = {1} /\ job'[1] = Changed(project[k], size)
  BY <1>1
<1>3. choice \in Injection(DOMAIN job', DOMAIN project)
  BY <1>2 DEF Injection, IsInjective
<1>4. DOMAIN changes' = {Ref(project[k])} /\ changes'[Ref(project[k])] = size
  BY <1>1
<1>5. IsProposal(job', project, changes')
  <2>1. \A i \in DOMAIN job' : i = 1 /\ choice[i] = k
    BY <1>2
  <2> HIDE DEF choice
  <2>2. {Ref(project[choice[i]]) : i \in DOMAIN job'} = {Ref(project[k])}
    BY <1>2, <2>1
  <2> QED
    BY <1>2, <1>3, <1>4, <2>1, <2>2 DEF IsProposal
<1> QED
  BY <1>5, ProposalAdvised DEF Propose, BeginEstimate, Goto

LEMMA ProposeTreeAdvised ==
    ASSUME IInv, Advised, ProposeTree
    PROVE  Advised'
<1> DEFINE all == {Ref(project[i]) : i \in DOMAIN project}
<1>1. PICK refs \in SUBSET all \ {{}}, size \in Sizes :
        /\ changes' = [ref \in refs |-> size]
        /\ \E order \in [1 .. Cardinality(refs) -> refs] :
              /\ Range(order) = refs
              /\ BeginEstimate([i \in DOMAIN order |-> Changed(ResourceOf(order[i]), size)])
  BY DEF ProposeTree
<1>2. PICK order \in [1 .. Cardinality(refs) -> refs] :
        /\ Range(order) = refs
        /\ job' = [i \in DOMAIN order |-> Changed(ResourceOf(order[i]), size)]
  BY <1>1 DEF BeginEstimate
<1> DEFINE n == Cardinality(refs)
           place(i) == SelectLastInSeq(project, LAMBDA r : Ref(r) = order[i])
           choice == [i \in 1 .. n |-> place(i)]
<1>3. n \in Nat /\ IsFiniteSet(refs)
  BY <1>1, ReferencesAreFinite
<1>4. ASSUME NEW i \in 1 .. n
      PROVE  /\ place(i) \in DOMAIN project /\ Ref(project[place(i)]) = order[i]
             /\ ResourceOf(order[i]) = project[place(i)]
  <2>1. order[i] \in all
    BY <1>1, <1>2
  <2> QED
    BY <2>1, ResourceOfFacts DEF IInv, Typed
<1>5. \A i, k \in 1 .. n : order[i] = order[k] => i = k
  <2>1. order \in Surjection(1 .. n, refs)
    BY <1>2 DEF Surjection, Range
  <2>2. IsFiniteSet(1 .. n) /\ Cardinality(1 .. n) = n
    BY <1>3, FS_Interval
  <2>3. order \in Injection(1 .. n, refs)
    BY <2>1, <2>2, FS_SurjSameCardinalityImpliesInj
  <2> QED
    BY <2>3 DEF Injection, IsInjective
<1> HIDE DEF n, place
<1>6. DOMAIN job' = 1 .. n /\ \A i \in 1 .. n : job'[i] = Changed(project[choice[i]], size)
  BY <1>2, <1>4 DEF n
<1>7. choice \in Injection(DOMAIN job', DOMAIN project)
  BY <1>4, <1>5, <1>6 DEF Injection, IsInjective
<1>8. \A i \in 1 .. n : Ref(project[choice[i]]) = order[i]
  BY <1>4
<1> HIDE DEF choice
<1>9. refs = {Ref(project[choice[i]]) : i \in DOMAIN job'}
  BY <1>2, <1>6, <1>8 DEF Range, n
<1>10. IsProposal(job', project, changes')
  BY <1>1, <1>6, <1>7, <1>9 DEF IsProposal
<1> QED
  BY <1>10, ProposalAdvised DEF ProposeTree, BeginEstimate, Goto

-----------------------------------------------------------------------------
(* Theorems.                                                               *)

LEMMA InitInv == Init => IInv
<1> SUFFICES ASSUME Init PROVE IInv
  OBVIOUS
<1>1. /\ registry = <<>> /\ programs = <<>> /\ job = <<>> /\ costs = <<>> /\ items = <<>>
      /\ skipped = <<>> /\ project = <<>> /\ dim = 1 /\ pc = "exit" /\ command = "none"
      /\ baseline = None /\ base = None /\ changes = None /\ chain \in Chains
  BY DEF Init
<1>2. /\ DOMAIN registry = {} /\ DOMAIN programs = {} /\ Len(costs) = 0 /\ Len(job) = 0
      /\ Len(job) \in Nat
  BY <1>1
<1>3. Typed
  BY <1>1, <1>2 DEF Typed, Loaded
<1>4. NotMixedUp
  BY <1>2 DEF NotMixedUp, Faithful
<1>5. AsExpected
  <2>1. EachSkipped(SkippedUpTo(registry, chain, job), registry, chain, job)
    BY <1>2, SkippedUpToFacts, Zenon
  <2>2. SkippedUpTo(registry, chain, job)[Len(costs)] = <<>>
    BY <1>2, <2>1 DEF EachSkipped
  <2> QED
    BY <1>1, <1>2, <2>2 DEF AsExpected, Unfinished
<1>6. Commands
  BY <1>1 DEF Commands, Compared
<1> QED
  BY <1>3, <1>4, <1>5, <1>6 DEF IInv

LEMMA NextInv == IInv /\ [Next]_vars => IInv'
<1> SUFFICES ASSUME IInv, [Next]_vars PROVE IInv'
  OBVIOUS
<1>1. CASE Start
  BY <1>1, StartKeeps
<1>2. CASE Evaluate
  BY <1>2, WhenKeeps, QuantityKeeps, StaticKeeps, PricedKeeps, UndeclaredKeeps
     DEF Evaluate
<1>3. CASE EndResource
  BY <1>3, EndKeeps
<1>4. CASE EstimateEnds
  BY <1>4, EstimateEndsKeeps
<1>5. CASE DiffEnds
  BY <1>5, DiffEndsKeeps
<1>6. CASE RecommendBegins \/ Score \/ RecommendEnds
  BY <1>6, RecommendKeeps
<1>7. CASE Propose
  BY <1>7, ProposeKeeps
<1>8. CASE ProposeTree
  BY <1>8, ProposeTreeKeeps
<1>9. CASE UNCHANGED vars
  <2>1. /\ command' = command /\ registry' = registry /\ project' = project
        /\ chain' = chain /\ baseline' = baseline /\ report' = report /\ pc' = pc
        /\ job' = job /\ programs' = programs /\ dim' = dim /\ quantity' = quantity
        /\ items' = items /\ costs' = costs /\ skipped' = skipped /\ changes' = changes
        /\ base' = base
    BY <1>9 DEF vars, process, engine
  <2>2. /\ Current' = Current /\ Definition' = Definition /\ Unfinished' = Unfinished
        /\ Known' = Known /\ AtDimension' = AtDimension /\ Dimension' = Dimension
        /\ Estimate' = Estimate
    BY <2>1 DEF Current, Definition, Unfinished, Known, AtDimension, Dimension, Estimate
  <2> QED
    BY <2>1, <2>2 DEF IInv, Typed, NotMixedUp, AsExpected, Commands, Compared
<1> QED
  BY <1>1, <1>2, <1>3, <1>4, <1>5, <1>6, <1>7, <1>8, <1>9 DEF Next

\* Every estimate of a process is what the catalog's own expressions and the
\* prices of the process say, however often and for whatever the engine and its
\* cache of compiled expressions were used before, and one that fails does so
\* over an expression or a lookup that fails (engine.go:93, program_cache.go:26).
THEOREM EstimatesCorrect == Spec => []EstimatesMatchCatalog
<1>1. IInv => EstimatesMatchCatalog
  <2> SUFFICES ASSUME IInv PROVE EstimatesMatchCatalog
    OBVIOUS
  <2> QED
    BY EstimateIsExpected DEF EstimatesMatchCatalog, IInv, AsExpected
<1> QED
  BY InitInv, NextInv, <1>1, PTL DEF Spec

\* The rows of a diff add up to the change of the total, on which the budget gate
\* decides, of any estimates of which nothing is to be removed (diff.go:58).
THEOREM DiffCorrect == Spec => []DiffAddsUp
<1>1. IInv => DiffAddsUp
  <2> SUFFICES ASSUME IInv, Compared, UniqueRefs(Estimate), UniqueRefs(baseline),
                      CountsAll(Estimate), CountsAll(baseline)
               PROVE  Total(Deltas(report.rows)) = report.delta
    BY DEF DiffAddsUp
  <2>1. baseline \in EstimateRecord /\ report = ComputeDiff(baseline, Estimate)
    BY DEF IInv, Typed, Commands, Compared
  <2>2. Estimate \in EstimateRecord
    BY EstimateIsTyped DEF IInv, Typed, Estimate
  <2>3. IsEstimate(Estimate) /\ IsEstimate(baseline)
    BY <2>1, <2>2, TypedIsEstimate DEF EstimateRecord
  <2>4. Total(Deltas(ComputeDiff(baseline, Estimate).rows)) =
          Total(Subtotals(Estimate.costs)) - Total(Subtotals(baseline.costs))
    BY <2>3, DiffAdds
  <2>5. report.delta = Estimate.total - baseline.total
    BY <2>1 DEF ComputeDiff
  <2> QED
    BY <2>1, <2>4, <2>5 DEF CountsAll
<1> QED
  BY InitInv, NextInv, <1>1, PTL DEF Spec

LEMMA NextAdvised == IInv /\ Advised /\ [Next]_vars => Advised'
<1> SUFFICES ASSUME IInv, Advised, [Next]_vars PROVE Advised'
  OBVIOUS
<1>1. CASE Start
  BY <1>1, StartAdvised
<1>2. CASE Evaluate \/ EndResource
  BY <1>2, EvaluateAdvised
<1>3. CASE EstimateEnds \/ DiffEnds
  BY <1>3, ComparisonAdvised
<1>4. CASE RecommendBegins
  BY <1>4, BeginAdvised
<1>5. CASE Propose
  BY <1>5, ProposeAdvised
<1>6. CASE ProposeTree
  BY <1>6, ProposeTreeAdvised
<1>7. CASE Score
  BY <1>7, ScoreAdvised
<1>8. CASE RecommendEnds
  BY <1>8, RecommendEndsAdvised
<1>9. CASE UNCHANGED vars
  BY <1>9 DEF vars, process, engine, Advised, Evaluating
<1> QED
  BY <1>1, <1>2, <1>3, <1>4, <1>5, <1>6, <1>7, <1>8, <1>9 DEF Next

\* The savings of a recommendation are what the project's total falls by when it,
\* and no other, is followed: whatever was scored before, in whatever order a tree
\* rule's proposals are estimated, and however amounts are rounded
\* (recommend.go:145).
THEOREM SavingsCorrect == Spec => []SavingsAreReal
<1>1. Init => Advised
  BY DEF Init, Advised, Evaluating
<1>2. Advised => SavingsAreReal
  BY DEF Advised, Pays, SavingsAreReal
<1> QED
  BY InitInv, NextInv, NextAdvised, <1>1, <1>2, PTL DEF Spec
=============================================================================
