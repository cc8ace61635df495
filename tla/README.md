# c3x in TLA+

A TLA+ model of [c3x](../src), the cloud-cost estimator: the parts of it that
keep state, talk to services, or run next to other copies of themselves, with
TLC configurations that check them on small instances and TLAPS proofs of the
properties that matter most for every instance.

## The system

`c3x estimate` parses an infrastructure project into resources, asks the
catalog which priced dimensions each has, asks a pricing *chain* for the rate of
each dimension, and adds the results up.  `diff`, `recommend`, `comment` and
`policy` work on estimates; `pricing sync|stats|clear` maintains the price
cache.  Every command is one short-lived process; what outlives it is on disk or
on a server.

| part | state | operations | interacts with | hard because |
|---|---|---|---|---|
| pricing chains (`internal/pricing`) | memo map per process; SQLite table `prices`, shared by all processes | `Lookup` of memo, disk, HTTP, offline, stub sources; `PutBatch`, `Clear`, `Stats` | pricing API, other processes | miss and write-back are separate statements; a zero price is both "free" and "nobody knows"; expiry; crashes |
| retries (`retry.go`) | attempt, delay | `Lookup` | HTTP source, context | what is retried is decided from an error's text |
| currency conversion (`fx.go`) | last rate and its age | `Lookup`, `fetchRate` | FX API | failure of a refresh in the middle of an estimate |
| sync (`sync.go`, `enumerate.go`) | worker pool, first error, counters | `Sync`, `resolveUnit` | pricing API, cache | goroutines, cancellation, partial failure |
| remote catalog cache (`catalog/remote.go`) | bundle file and etag file, shared | `LoadAuto` | catalog server, other processes | two files updated one after the other |
| comment posters (`internal/comment`) | comments on the server | `Post` | code host, other CI jobs | find-then-write, pagination |
| catalog (`catalog/loader.go`, `registry.go`) | the registry, per process | `LoadFromFS`, `registryFromBundle` | files, bundles, calculator | what it lets through, the engine relies on |
| calculator (`internal/calculator`) | compiled-program cache | `Estimate` | catalog, chain, evaluator | one cache for all kinds and estimates; errors end everything |
| domain (`internal/domain`) | none | `NewEstimate`, `ComputeDiff` | everything | rounding at three levels, planned removals, duplicate references |
| recommend (`internal/recommend`) | none | 29 rules, `Recommend`, `score`, `scoreTree` | calculator | many estimates of one project's variants; proposals over several resources |
| usage, what-if (`internal/usage`, `internal/whatif`) | none | `Apply` | parsers, calculator | what is laid over what |
| Terraform parser (`internal/parser/terraform`) | scopes of variables and locals while it runs | `ParseDirectory`, `ParseFile` | file system, module fetcher | a fixpoint over locals in the order of a Go map; layers of values at every level of a module tree that may contain itself |
| module fetcher (`modulefetcher.go`) | a directory of downloads, shared | `Fetch` | registries, git, archives, other processes | find, download, rename, next to others doing the same; refs that move |
| Terragrunt, plan and CloudFormation parsers | none | `ParseDirectory`, `ParseBytes` | file system | includes, merges; replacements and deletions; intrinsics |
| commands (`cmd/c3x`), configuration, policy | user configuration, baseline file, the comment | `estimate`, `diff`, `recommend`, `comment`, `policy eval`, `configure` | everything | files written by one process and read by another; two copies of one pipeline; five layers of settings |
| renderers, observability, catalog tools, `doctor`, `demo` | none | output, validation | | formatting and plumbing |

What makes each of them correct, in the order in which it is modelled:

1. *pricing chains*: a number in the cache was really quoted for that query, at
   about the time the row says; a run never prints a live price older than the
   TTL plus a lookup; a `$0` has a reason, and does not take the place of a price
   that could be seen; one query has one price within a run.
2. *retries*: what is retried is transient or looks so, and what is listed as
   transient is retried; attempts and waiting are bounded.
3. *conversion*: a rate in use is recent, whatever failed.
4. *sync*: success means that every unit was written; the error reported is the
   cause; the pool drains; progress counts every unit once.
5. *remote catalog*: an etag on disk describes the bundle on disk.
6. *comments*: one pull request has at most one c3x comment, and it shows the
   last report.
7. *diff and estimate*: totals agree with their parts, whatever is compiled once
   and used again.
8. *module fetcher*: a directory that is returned is complete and is what the
   source asked for; it never changes under a reader; two processes that fetch
   one module at once both get it.
9. *parsers*: a reference means what it names, in any order of evaluation; who
   calls a module wins over its tfvars, these over its defaults; a block yields
   as many resources as it says.
10. *commands*: a baseline is an estimate that was printed, whole or refused; a
    project that did not change shows no change; a recommendation that is
    followed saves what it promised, and loses no traffic on the way.

## Modules

| module | what it is |
|---|---|
| `PriceHistory` | the environment of the pricing modules: a clock and what the API quotes over time |
| `PriceOracle` | abstract specification: what a run promises about prices, without any cache |
| `PriceCache` | the four chains around the shared SQLite cache, sync's batches and `clear`; implements `PriceOracle` |
| `MCPriceCache`, `MCPriceCachePairs` | its instances for TLC: one process after another, and pairs of chains at once |
| `PriceCacheProofs` | its theorems |
| `Retry`, `MCRetry` | the retrying source under a context that may be cancelled; the production policy and the errors the HTTP source makes |
| `SyncPool` | the worker pool of `pricing sync` |
| `PriceSelection`, `MCPriceSelection` | which price of which product is the rate, by the live path and by sync; two small catalogs' worth of mappings and products |
| `Conversion` | currency conversion under one estimate |
| `PricingProofs` | theorems of `Retry`, `Conversion`, `PriceSelection` and `SyncPool`: what is around the cache |
| `CatalogCache`, `CatalogCacheProofs` | `LoadAuto`: processes around the two cache files of the catalog bundle; its theorems |
| `Reports` | abstract specification: what is to be seen of the reports of jobs that run one after another |
| `CommentPoster`, `CommentPosterProofs` | the four code hosts' posters and the people they share a comment list with, which implement `Reports`; its theorems |
| `Estimates` | package `domain`'s estimates and diffs, and the rounding of money |
| `EstimatesProofs` | lemmas about them: sums, rounding, lookups by reference, diffs |
| `Catalog` | loading and validating definitions |
| `Expectation` | what the estimate of some resources consists of, and what it should be |
| `Calculator`, `MCCalculator` | the engine under `estimate`, `diff` and `recommend`; small catalogs, good and bad, projects and price lists |
| `CalculatorProofs` | its theorems |
| `ModuleFetcher`, `MCModuleFetcher` | remote modules through the shared download directory; twelve kinds of source |
| `ModuleFetcherProofs` | its theorems |
| `Values` | attribute values and `domain.Resource` |
| `Scopes` | expressions, and the variables, data and locals they refer to, for Terraform and Terragrunt |
| `Terraform` | the Terraform parser, and what a configuration means |
| `Parser` | `parser.Parse`, and the Terragrunt, plan and CloudFormation parsers |
| `Advice` | the recommendation rules and their engine |
| `Command`, `MCCommand` | the commands, one process after another; projects of every kind, a catalog and 35 invocations |
| `CommandProofs` | its theorems |

The modules meet in what one assumes of another.  `PriceCache` takes a request
that is retried as one step: `Retry` is that step.  It takes a sync as one
worker that writes whole units: `SyncPool` is the pool of such workers, and
`PriceSelection` is what a unit's entries are.  `Calculator` loads a catalog with
`Catalog`, of which `CatalogCache` says where a bundle comes from, and takes the answer to
a query as fixed for a process: that is `MemoStable` of `PriceCache`.
`Conversion` is the layer between the chain and the calculator.  `Command`
composes `Parser`, `Advice` and `Estimates`; it takes a resource's subtotal, a
constant, from `Calculator`, what the chain answers from `PriceCache`, the
directory of a remote module, another constant, from `ModuleFetcher`, and the
posting of a comment as one step from `CommentPoster`.

### PriceCache

One step is one SQL statement or one HTTP request, so another process can act
between the parts of a lookup.  `mode[r]` is the chain `BuildChain` made for the
process, `disk` the table `prices`, `result[r]` the map of `MemoCache` (for an
offline run, which has none, the last answers), and `pc[r]`, `query[r]`,
`pending[r]` the stack of the lookup in progress:

| code | actions |
|---|---|
| `BuildChain`, process exit or crash | `StartRun`, `EndRun` (at any step) |
| `MemoCache.Lookup` | the guard `MemoMiss`, the assignment to `result` in `Return` |
| `DiskCache.Lookup` | `LookupHit`, `LookupMiss`, `Store` (which may fail silently, as `write` ignores its error) |
| `HTTPSource.Lookup` under `retrying` | `RegionalReply`, `RegionalFail`, `ReferenceReply`, `ReferenceFail` |
| `OfflineSource.Lookup` over `DiskCache(Stub)` | `OfflineHit`, `OfflineMiss`, `OfflineStore`, `OfflineRefHit`, `OfflineRefMiss`, `OfflineRefStore` |
| `resolveUnit`, `PutBatch` | `SyncPage`, `SyncFail`, `SyncCommit` |
| `c3x pricing clear` | `ClearCache` |

A query is what `queryKey` identifies; `Ref` maps it to the same query in the
provider's reference region, or to itself when the code has no fallback.  A
request that may be retried is one step, at the reply that counts.  The workers
of one `Sync` share nothing but the cache, so each is a run in mode `sync`.
Two constants name
what may go wrong: `Unreliable`, a request that fails for good, after its
retries or by a cancellation, and `ReadsFail`, a row that cannot be read or
parsed and is taken for a miss.  The code forgets both; `lost`, a history
variable, does not: it has the requests for the reference region that failed and
the rows that were not read, and when.  That is how `ZerosExplained` and
`OnlyMissedPricesStubbed` can say what a `$0` comes from.
Left out: SQLite errors other than "a read failed" and "a write failed", a
clock that runs backwards, a cache file that cannot be opened (the chain is then
not built, or is the bare Stub), and the FX layer, which is outside the cache.

`PriceHistory` keeps every price list ever quoted.  That is what lets a property
say that a number found in the cache *was* quoted, for *that* query, *recently*.

### Retry

`Lookup` is a call from the caches above, `Succeed` and `Fail` the end of an
attempt, `Wake` and `Interrupted` the two cases of the `select` around the
timer, `Cancel` the caller's Ctrl-C.  An error is its class and the set of
status codes whose digits occur anywhere in its text, because that is what
`isTransient` looks at.  The run has all there are: the client's timeout, listed
and unlisted 5xx, and texts with a misleading number in them.  The jitter is any
delay of its range.  `RetryInit`,
`RetryNext`, `FXInit`, `SelectionInit` and the like carry their module's name
because `PricingProofs` extends these modules together.

### SyncPool

One step is one channel operation, one request, or one critical section of
`mu`; `writeMu` is a variable, `writer`, since the section under it calls
`opts.Progress`.  `Dispatch` and `Skip` are the two cases of the dispatcher's
`select`, and either may be taken when both are ready.  `RequestPage`,
`ReceivePage`, `LosePage` are `productEnumerator.each`; `WriteBatch`, `Notify`,
`Count` what a worker does with a resolved unit; `RecordFailure` the error path.

### PriceSelection

The state is a unit, the products enumerated so far and `byKey`; `ResolveProduct`
adds one product, as the callback of `resolveUnit` does.  The live path has no
state and is given as operators: `EngineQuery` (`buildQuery`), `Matches` and
`Returned` (the upstream's filter, external), `PickNonZeroPrice`.  `MirrorsLive`
compares the two after every product, for every query the engine could ask.

### Conversion

`LookupFresh`, `LookupStale` with `FetchReply` or `FetchFail`, and
`LookupUnpriced` are the paths of `FXConverter.Lookup`; `items` records what
each line item of the estimate came away with.

### CatalogCache

One step is one system call that another process can tell apart: `os.WriteFile`
is two, truncation and writing, for each of the two files, and so is looking for
a young bundle, `Stat` and `ReadFresh`.  A version stands for
a bundle, its hash and its etag.  `Exit` and `Crash` forget the process.
`orderly`, chosen at the start and never changed, says of a behaviour that
deployments only go forward and loads do not overlap; two properties are
promised only then (see below), the others and the type invariant always.

### CommentPoster

One step is one request.  The hosts differ in `PageLength` (Azure DevOps has one
page), `LastPage`, and `Insert`, which belongs to the host and not to c3x (GitLab
lists the newest comment first); `forge` is chosen at the start.  `Create` and
`Edit` may succeed on the server and fail for the job, which is then run again.

`orderly`, chosen at the start too, says that a job begins when those before it
have ended, and that other people only add comments, without the marker; c3x's
may be deleted even so.  Otherwise jobs run at once, and other people quote the
marker (`UserComments`), edit it into or out of what they wrote (`UserEdits`) and
delete what they like.  `quoted` is history: the comments into which somebody
wrote the marker.  `OneComment` and `ReportsSpec` speak of orderly behaviours,
`OnlyQuotesTouched` and `PostEnds` of all.

`Turn`, `Status` and `Shown` map the jobs
and the list to the state of `Reports`: who began last, how that went, and the
reports in comments of c3x's.  Not modelled: a write that reaches the
server after its client gave up, Azure's threads, and lists beyond the 50 pages
after which the search gives up.

### Catalog, Calculator

`Catalog` has the loader as operators: a file is a definition, a list of free
kinds, or `Broken`, in the directories of its path.  One bad file refuses a whole
catalog; a refused bundle gives way to the binary's own.  A process begins with
`LoadAuto`, and ends there if nothing loads.  That matters to the engine, which
does not look again: the keys of its program cache name a dimension by kind and
identifier, so two dimensions with one identifier would share a price; only
`Validate` keeps them apart, and `EstimatesMatchCatalog` fails without it.

One step of the engine is the evaluation of one expression of one dimension: `EvaluateWhen`,
`EvaluateQuantity`, then one of `StaticRate`, `PricedRate`, `UndeclaredMapping`;
`EndResource` closes a `Cost`.  An expression is the function it computes of a
resource's attributes, and `programs` maps the keys that `compile` is given to
what was compiled first under them, so a key that two expressions share shows as
a wrong estimate.  `Expectation` is the estimate without a cache and without
steps: a function of the resources, the definitions and the prices.  A query is the values of its filters, literal or computed, in
their order.  Money is an integer and `Rounded` is `decimal.Round`.
Commands are processes one after another: `EstimateEnds` prints and saves a
baseline, `DiffEnds` compares, and recommend loops through `Propose` or
`ProposeTree` and `Score`.  Here a proposal is any change of size, since the
question is what the engine makes of it; the rules are in `Advice`.  `Changed`
drops the plan's action as `applyProposal` does; the alternatives of a tree
proposal are estimated in any order, as the code ranges over a Go map.

### ModuleFetcher

One step is one request, or one test or rename of a directory.  `Resolve` is
`resolveModuleSource` and the head of `Fetch`; `ListVersions` is
`resolveRegistryVersion`; `Lookup` and `Download` are `fetchRegistry` before and
after its look into the cache; `Check`, then `Clone`, `Checkout` or `Get`,
`Unpack`, then `Rename` are `fetchGitInto` and `fetchArchiveInto`; `Found` is the
return with a directory that has files.  `RequestFails` and `Stop` come in
between.  Upstream moves on by itself: `Publish` adds a version, `Push` moves a
branch.  A directory is the record of what it was filled from, so a property can
say that it is what the source asks for.  Of a source, `//subdir`, `ref`, the
version or its constraint, and the text `.git` count; checksums and the shapes
of addresses do not.

### Terraform, Parser

Parsers keep nothing between calls, so they are operators, recursive where the
code is; `Scopes` has none of these.  An expression is what it refers to: a sequence of alternatives, as in
`try(a, b)`, of which one that refers to nothing fails.  `ParseDirectory` goes
through the layers of `parseSources`: `CollectVariableDefaults`, `AutoTfvars`,
`--var-file`, `--var`, `ApplyOptionalDefaults`; then `ResolveLocals`, the passes
over what is unresolved in the order of a Go map, given as `order`, a `Pass` being
one `Look` after another; `FindDefaultRegion`; `EmitResources` with `count`, `for_each` and nested blocks;
and `ExpandModules`, down to `MaxModuleDepth`.  A source that is a path
(`LocalSources`) is that directory, there or not; any other is looked up among
what was fetched.

Beside the code's way stands `Meaning`, which follows a reference to what it
names when it is needed and computes nothing in advance, over the tree of module
instances.  `ParsesAsMeant` compares the two for every parse of a session.

`Parser` has `ResolveUnit` for Terragrunt, with parents before the file's own
values, `ParsePlan` with planned values or, in older plans, the changes alone,
and `ParseTemplate` with parameters, mappings, intrinsics and properties within
properties (`FlattenNested`); and the choice
between them by `parser.Parse`.

### Advice

One operator per rule, over a resource or over all of them: the set of the
changes it proposes, each a function from references to attributes.
`Recommend` prices every proposal and keeps what saves money; in which order
they are shown does not matter here, and is in `Calculator`.  Names that mean
development, the prefix of a machine type, which string mentions which
resource, and which attributes name a disk (`DiskAttributes`) are constants.
Titles and confidence are left out.

### Command

`Start` is a user or a CI job, with one of `Invocations` or with a
recommendation of the last `recommend` passed on as `--what-if`.  The what-ifs of
an invocation are a sequence of changes: flags for different attributes, which
nothing orders, may be one element, and of two that set one attribute the later
counts.  A command then
goes through the steps its `RunE` has: `ResolveSettings` (flags, environment,
project file, user file, defaults), `ParseInput`, `ApplyUsageAndWhatIf`, `Price`,
`Advise`, `LoadBaseline`, `Render`, `TruncateBaseline` and `WriteBaseline` (the
two halves of `os.WriteFile`), `Gate`, `Post`; `FindTarget` comes first for
`comment`, `Configure` and `WriteConfig` are the wizard.  `Stop` ends the process
anywhere, `Reap` forgets it.  `userConfig`, `baseline` and `comment` outlive it.
`printed` and `advised` are history; `of` in a baseline says, for the properties,
what it is an estimate of.

## Runs

| run | shows |
|---|---|
| `PriceCache_concurrent` | two processes statement by statement over one cache, each an online run or a sync, or each an offline run or a sync, with requests and reads that fail: rows are real quotes; a live `$0` means no price, or a request for the reference region that failed; an offline run writes its zero over a price only if that price came during the lookup or could not be read |
| `PriceCache_sequential` | one process after another, in all four modes, over an unreliable upstream and a clock longer than TTL plus a lookup: answers are quotes and not too old; the chains implement the oracle; memo answers are stable; lookups end |
| `Retry_policy` | the production policy over every sequence of all errors, cancelled at any time: only a documented transient error, or one with a misleading number in its text, is followed by another attempt, and never a timeout of the client; network errors and listed statuses always are; at most one attempt follows a cancellation; lookups return |
| `SyncPool_interrupted` | three workers, three units, two pages, failures and Ctrl-C anywhere: success means everything was written unless the caller cut it short; the error is the cause; totals and progress are truthful; nothing happens after the return, which comes |
| `PriceSelection_mirror` | every sequence of two products, six mappings: the entries sync stores answer every query as the live path does |
| `Conversion_feed` | a converted item used a rate that the feed gave at most TTL plus one request before, whatever failed since |
| `CatalogCache_shared` | two processes stopped anywhere: only what was deployed is used, and every load ends; orderly loads find revalidated bundles current and fresh ones young |
| `CommentPoster_jobs` | three jobs on each host.  One after another, while other people write in between: one comment; the jobs implement `Reports`, in which only the job whose turn it is changes what is shown, and to its own report.  All at once, while other people quote, edit and delete: what a job rewrites is c3x's, or had the marker written into it by somebody.  Always: Post returns |
| `Calculator_commands` | a catalog that loads or does not, then estimate and diff, or recommend: the program cache never shows; the rows of a diff add up to the change of the total; a saving is what following that recommendation saves |
| `ModuleFetcher_shared` | two processes, twelve kinds of source, failing requests and stops, versions published and branches pushed in between: what is returned is complete and is what was asked for, constraints get the newest version, a fetch fails only when a request of its own did, and directories never change |
| `ModuleFetcher_subdir` | *violation*: the second fetch of a git source with a `//subdir` returns another directory than the first |
| `Command_session` | three commands of 35, over Terraform stacks with modules, Terragrunt units, plans and templates, offline and not, stopped at any step: parsing means what the files say, baselines are whole, an unchanged project is quiet, advice that is followed pays |

Bounds.

- `PriceCache`: two queries, one the reference of the other, give every branch
  of the fallback; the price lists are "nothing priced", "only the reference
  priced" and "both, differently", so the answers a lookup can get are told
  apart.  Two processes are enough for a lost update between a miss and its
  write.  `MaxTime` 2 lets a row expire while a process runs, 3 lets a run begin
  later than TTL plus a lookup after the first row.  `MCPriceCachePairs` bounds
  the concurrent run further, as it has everything else at once: the two
  processes are of one of `MCPairs`, at most one answer or row is lost in a
  behaviour (`MCLosses`), the reference region always has a price, and beside an
  offline process prices do not change and the clock ends at 1 (`MCHistory`).
  Online beside offline, and more losses, are left to the proofs, which have
  none of these bounds.  `PriceCache_sequential` speaks of nothing that was lost,
  so its view, `MCView`, leaves `lost` out.
- `Retry`: the production policy's three attempts; time in quarters of a second,
  in which its delays are whole numbers; of the statuses, some that the code lists,
  some that it does not, and both with and without a misleading number.
- `SyncPool`: three workers over three units, so one can fail, one write and one
  be handed a unit at once; two pages are the smallest number that is not one.
- `PriceSelection`: two products suffice to disagree about a key or a rate; the
  mappings differ in region, filter kinds, purchase option and unit.
- `Conversion`: TTL 2, latency 1, clock to 4, three items: a rate fetched, used
  and outlived.
- `CatalogCache`: two valid versions and one that this engine cannot load; clock
  to 4 for orderly behaviours, where a bundle must outlive its age twice, to 2
  where loads overlap.
- `CommentPoster`: pages of two, so the marker can be on a second or third page;
  three comments of others push it across a boundary.  Where jobs run at once, no
  more than three comments are ever made (`MaxRaceComments`): two jobs and a
  quote, or a quote on the second page.
- `Calculator`: six kinds with shared dimension identifiers and filter keys, one
  of them in `free.toml`; fourteen catalogs, most of them with one thing wrong;
  twelve projects, five price lists, two proposals; line items are rounded to 2 and
  totals to 4 units, so both roundings do something.
- `ModuleFetcher`: one project that changes, with two versions and one push,
  suffices to find a moved branch or a second version in a directory; one archive
  has no files.  Two processes meet in every pair of steps.
- `Command`: three commands are a recommendation, a trial of it and one more, or
  an estimate, one that is stopped while it saves, and a comparison.  The stack
  has two auto-loaded tfvars files, a local that depends on another, in two
  orders of the map, `optional()` defaults, `count`, `for_each`, repeated nested
  blocks, a module called twice, one that cannot be fetched, and one that calls
  itself until `MaxModuleDepth` 2 (the code stops at 10).  One user configuration
  exists at the start; `configure` writes others.  Two price lists in one
  currency let a price change between commands.
  `fleet` draws nine recommendations, of rules for AWS, Azure and GCP.

`Calculator`, `Command`, `CommentPoster`, `Conversion` and `PriceSelection` end in
states from which nothing follows, so deadlock is not checked there: the
commands, the jobs or the estimate are over, or the product list is complete.

Fairness.  `PriceCache`: `Resume(r)` is weakly fair, as every request has a
client timeout (`DefaultHTTPTimeout`) and every statement a busy timeout;
starting runs and making lookups is not fair.  `Retry`: an attempt ends by the
client's timeout and a sleep by its timer.  `SyncPool`: goroutines are scheduled
and requests end.  `CatalogCache`, `CommentPoster`: a request that does not fail
is answered; crashes, failures and other people are never fair.  `Conversion`,
`PriceSelection`, `Calculator`, `ModuleFetcher` and `Command` claim no liveness.

## Disagreements

One run shows one, `ModuleFetcher_subdir`: the first estimate of a project prices
the subdirectory of a repository it names, every later one its root, because
`modulefetcher.go:266` looks into the cache before lines 276-279 split `//subdir`
off.  PROJECT.json quotes the lines.  These were met on the way too.  Each can
be seen with the change in the last column.

| the code | where | and yet | to see it |
|---|---|---|---|
| a fallback request that fails after an empty regional answer leaves `$0` without an error, and it is cached | `http.go:103` | `http.go:92-93`: a silent `$0` is "the worst failure mode a cost tool can have"; `cache_disk.go:94-96`: zero rows "are the correct steady-state answer" | `PriceCache_sequential` or `PriceCache_concurrent` with `ZeroRowsMeanUnpriced` |
| an offline miss is cached, and an online run finds it there as "no price" | `cache_disk.go:106` | `cache_disk.go:94-96` | `PriceCache_sequential` with `Unreliable = FALSE` and `ZeroRowsMeanUnpriced` |
| an offline run overwrites the price a sync has just committed | `cache_disk.go:106` | `offline.go:9`: it "serves prices from a warmed on-disk cache"; `rune_paths_test.go:260`: it "doesn't write the cache" | `PriceCache_concurrent` with `PricesNotStubbed` |
| `isTransient` searches the whole error text for "500" and the like | `retry.go:151` | `retry.go:45`: 4xx propagate immediately | `Retry_policy` with `PermanentErrorsEnd` |
| the client's own timeout counts as the caller's deadline, and a 5xx outside the list as permanent: neither is retried | `retry.go:136`, `150` | `retry.go:124-125`, `142`: timeouts and 5xx are transient | `Retry_policy` with `TransientErrorsRetried` (`Errors <- TimeoutErrors` or `UnlistedErrors` for one at a time) |
| when the feed fails, a number in USD is labelled with the target currency, last rate or not | `fx.go:112` | `fx.go:19-22` | `Conversion_feed` with `LastRateUsed` |
| a sync cancelled while it hands out its last units returns no error | `sync.go:181` | `pricing.go:218` then prints "Offline ready" | `SyncPool_interrupted` with `OfflineReady` |
| a live query sees 50 products, sync sees all | `http.go:229` | `sync.go:91-95`: the rate that the live path would select | `PriceSelection_mirror` with `Limit = 1` |
| overlapping loads, or a deployment taken back, pair one version's etag with another's bundle, and a 304 renews it | `remote.go:236-242` | `remote.go:100`: revalidated means current | `CatalogCache_shared` with `RevalidatedAlways` |
| two jobs at once both create a comment | `gitlab.go:104` | `comment.go:2-4`, `cmd/c3x/comment.go:406`: "in place rather than stacking duplicates" | `CommentPoster_jobs` with `OneComment` without its `orderly =>` |
| a comment deleted between two page requests shifts the marker out of sight | `comment.go:167` | the same | the same |
| a comment that quotes c3x's is edited in its place | `azuredevops.go:169` | `comment.go:2-4`: the comment found is one c3x wrote | `CommentPoster_jobs` with `OthersUntouched` |
| a resource that a plan removes counts in the rows of a diff, not in its totals | `diff.go:65` | `domain/estimate.go:42`: removals are subtracted "in the DELTA line" | `Calculator_commands` with `RemovalsAddUp` |
| `diff` knows neither usage, nor what-ifs, nor `no_remote_modules`; `estimate` does | `diff.go:145-149` | `diff.go:131-132`: both sides "are computed identically"; `estimate.go:305-306`: the hook is "used by estimate / diff / recommend" | `Command_session` with `ComparedIdentically` and `Invocations <- MCUsageInvocations`, or `MCUnlikeInvocations`, which forbids remote modules |
| a local that `try()`s another is worth what comes first in the order of a Go map | `locals.go:23` | `locals.go:9-11`: the order does not matter | `Command_session` with `Invocations <- MCTryingInvocations` |

And some that no definition here is about, or that the models repeat as the code
has them.

- Advice: `rules_aws.go:443-445` says that the parser gives a reference to a load
  balancer as `<ref:aws_lb.api>`, but an unresolved reference is nil
  (`resources.go:212-221`), so a balancer with a listener that names it in the
  usual way is reported idle.
- Prices and catalog: `price('name')`, or a computed name, is not among those the
  loader checks (`loader.go:148-172`), and fails when it is evaluated; a failed
  refresh does not fall back on the last rate, which
  `fx.go:20-21` mentions; a stale catalog is not "at most one deploy behind"
  (`remote.go:128-131`) but as old as the cache file; a product list that changes
  while it is enumerated by offset (`enumerate.go:62`) can skip a product; beyond
  50 pages (`gitlab.go:150`) the search for the comment gives up and another is
  created.
- Estimates: `NewEstimate` speaks of "full precision" but sums subtotals already
  rounded; `ComputeDiff` does not look at the baseline's currency; `recommend`
  compares an alternative that cannot be priced at `$0`, and proposes changes to
  resources that the plan removes; a rule that proposes no change, as the audit
  of idle addresses in its help text does, saves nothing and is never shown.
- Modules: `latest`, branches and unpinned sources are cached for ever; an
  archive's address with `.git` in it is cloned; an archive without files blocks
  its directory (`modulefetcher.go:360`); `no_remote_modules` is honoured by
  `estimate` only (`estimate.go:178`); a module call's `count` and `for_each` are
  not evaluated (`modules.go:121-124`).
- Locals: their order is that of a Go map, and with `try()`, which takes the
  first alternative that resolves so far, it shows in the value
  (`locals.go:10-12` says that it does not).
- Terragrunt: a list or an object becomes Go syntax (`terragrunt.go:415-416`),
  null an empty string; parents' locals are not merged, which `13-15` promise;
  `--var-file` is ignored; includes that form a cycle are followed for ever.
- Plans and templates: an address loses its index (`plan.go:176-191`), although
  `plan.go:175-177` and `usage.go:93-95` say that keys are included, so instances
  share a reference; `AWS::Region` is always us-east-1; listeners have no type, so
  every load balancer of a template looks idle.
- Usage and what-if: `usage.go:24` documents `module.frontend.aws_instance.web`
  where `Label` makes `aws_instance.module.frontend.web`; defaults overwrite what
  the project sets (`usage.go:88-118`), though `45-47` say that they fill gaps;
  `diff`, `comment` and `policy` ignore both, although `estimate.go:305-307` calls
  the hook shared and `diff.go:131-133` promises an identical flow.
- Configuration: a `budget` in the configuration (`config.go:52`) is never
  enforced; `configure` does not ask about `no_cache` and drops it;
  `--offline=false` cannot undo what the environment says; a user configuration
  that was truncated is a valid, empty one.

## Proofs

`PriceCacheProofs` proves, for every set of queries, processes and chains, every
price history, TTL and latency bound, and whatever fails:

- `TypeCorrect`: the type invariant;
- `RowsCorrect`, `AnswersCorrect`: rows and answers are real and recent quotes;
- `MemoCorrect`: within a run a query keeps its first answer;
- `Refinement`: `PriceCache` implements `PriceOracle`.

`RowsAreQuotes` and `AnswersAreQuotes` are not inductive: they speak of rows and
answers, and the number is in flight before it becomes either.  `IInv` adds
`InFlight(r)`, which says of a lookup in progress that what it carries was quoted
since it began, and that it began at most `MaxLatency` ago; and `RowsLabelled`,
which says that only the absent row has no source label.  The step lemmas follow
one shape: flatten the action into what changes for `r`, use `OthersKept` for
the other runs, and widen quote windows with `QuotedByWidens`.  It also proves:

- `ZerosCorrect`: a live `$0`, in a row or in an answer, stems from a lookup that
  found no price, not even in the reference region, or whose request for the
  reference region failed;
- `StubCorrect`: an offline run puts its zero over a price only if that price was
  written while its lookup was under way, or its row could not be read.

These two have no hypotheses either: any mixture of chains, any failure.  The
first and third rows of the table above are the second halves of the two
statements.  For `ZerosCorrect`, `ZInv` adds to `IInv` why there is a zero in a
row, in an answer, or in a lookup about to store it (`RowZeros`, `AnswerZeros`,
`ZeroInFlight`).  For `StubCorrect`, `StubInv` says of an offline lookup on its way
that the row it is about to overwrite holds no price, or one `Unseen`.

`CommandProofs` proves `SavedCorrect`: for every parser, price list, set of rules
and of invocations, and however processes are stopped, `SavedIsPrinted` holds.
It speaks of the file and of commands that have ended; `IInv` adds `Labelled`,
which command can be at which label, and `Saving`: what is about to be written
is in `printed` already, and after the writing it is the file.

Three theorems are about numbers:

- `TrafficCorrect`: no recommendation loses traffic on the way;
- `QuietCorrect`: a project that did not change shows no change;
- `FollowedCorrect`: a recommendation that is followed pays what it promised.

They compare what two processes computed, so `Derived` carries along where
everything came from: resources are `GainedFrom` the command's arguments in some
order of the maps, with or without usage and what-ifs; an estimate is
`EstimatedFrom` resources; every file in `printed` `IsSaved` by some such
estimate, and what was advised `IsAdvised`.  From there the proofs are about the
operators.  `QuietComparison` says that estimates of the same resources in two
orders have no rows but unchanged ones.  For `FollowedCorrect`, laying a
recommendation over resources that already have what-ifs laid over them is
laying it over after the others, whichever of these it undoes; the project then
differs from the one advised on in the changed resources only, by the difference
of their subtotals.  For `TrafficCorrect`, every rule but one leaves the
attributes alone that carry traffic, and consolidation adds to one gateway what
it takes from the others.

Parsing, pricing, invocations and price lists are arbitrary operators and sets
in these four.  `InvocationAssumption` and `ParseAssumption`, which TLC evaluates,
are types: attributes that hold numbers hold integers, and a parser yields a
sequence of resources.  `SavedCorrect` and `TrafficCorrect` need no more.  The
others have two hypotheses:

- `CatalogFits`: a subtotal is a multiple of a cent, or an error, and does not
  depend on what a plan intends with the resource.  `Engine.costFor` rounds it
  (`engine.go:214`) and copies the action without reading it (`143`, `216`).
- `OrderIndependent`: two orders of a Go map give the same resources in, at most,
  two orders.  Without it one command could differ from itself.  Of the projects
  of `Command_session` it is what `ParsesAsMeant` says: whatever the order, an
  attribute has the value that its expression means.

What else they need is in the properties themselves: the same settings and prices,
no `no_remote_modules` without `offline`, which only `estimate` would honour, and
references that are unique.

Where the parsers use an order they hand it to `ResolveLocals`, in `ScopeOf` for a
Terraform directory and in `UnitScope` for a Terragrunt unit, and of that three
theorems prove the independence, for any locals, of any dependence on each other:

- `LocalsLeast`: under any order the passes end in the least solution, which holds
  the locals that can be resolved at all, each with the value its expression has
  over that solution;
- `LocalsOrderIndependent`: two orders of all names therefore give the same;
- `ScopeOrderIndependent`: and so do the scopes expressions are evaluated in.

They assume `Settled`: of the alternatives of an expression only the last refers
to a local.  That is every expression but `try()` over a local, the exception in
the code (see *Locals* above): `try(local.a, 0)` is 0 if it is looked at before
`a`, and then stays so.  `Partial` is what a pass keeps: what is resolved is part
of every solution.  That the passes suffice is `PassesEnd`: each but the last adds
a name, and there are not as many names as passes.
What remains a hypothesis is that recursion over modules and includes hands on
equal scopes as equal resources: those operators are recursive.

`ModuleFetcherProofs` proves, for any number of processes, projects, versions and
kinds of source, every property of `ModuleFetcher_shared`: `ResultCorrect`,
`NewestCorrect`, `FailuresCorrect` and, an action property, `SlotsCorrect`.
`SlotsInv` says of a directory what its name promises: a registry key holds that
version of that project, or for `latest` some published version, and a source key
the ref of its source.  `ProcInv(p)` follows a fetch through its labels: the
version is chosen before the target and the target before the name of the
directory, and what `tmp[p]` holds is on its way to that.  `OnlyRequestsFail`
needs more than that: which requests could still be answered has to be carried
along, with `since[p]`, what there was when the fetch began.  That a set of
versions has a newest member is by well-founded induction, `NewestExists`.

`CatalogCacheProofs` proves `TypeCorrect`, `UsedCorrect`, `RevalidatedCorrect` and
`FreshCorrect`, for any number of processes and versions.  The first two hold of
any overlap, any order of deployments, any crash: `DiskInv` and `LoadInv` say
that valid files hold something that was deployed.  The orderly properties rest
on `AgreeInv`: the etag is never newer than the bundle.  That is so
because the bundle is written first, and it is what makes a 304 safe after a
crash between the two files.  It is false when loads overlap; the table
shows what comes of that.

`CommentPosterProofs` proves `OthersCorrect` and `TypeCorrect` of all behaviours,
with jobs at the same time and people who quote, edit and delete: what carries
the marker is c3x's or somebody wrote the marker into it, and so is what a job
has found (`MarkInv`).

`OneCommentCorrect` and `LastShownCorrect` are about the orderly behaviours, as
their properties say, and assume `Capacity`: on GitLab and Bitbucket, whose walk
stops after `PageLimit` pages, there are no more comments than these hold.  The
table, and the 50 pages mentioned below it, show what happens otherwise.
`PostInv` is `MarkInv` and the like of all behaviours, `OrderInv` of orderly ones.
`Searched(j)` is the heart of the latter: no page
already walked has a comment of c3x's, although GitLab inserts at the front
while the walk goes on, which moves comments to later pages only.

From the same invariant come `ReportsCorrect`, that the jobs implement `Reports`,
and from that `NewestStays`: no report ever replaces that of a later job, although
a job that failed may have written and is run again.  A step of a job is a step of
`Reports` because `RunnerHasTurn`: whoever runs is the last that began, `OnlyRunner`
that nobody else does.  `LastShownCorrect` says of the end what `Reports` says of
every step.  Of jobs at once nothing is shown (`RaceUnseen`).

`PricingProofs` proves of `SyncPool`, for any number of workers, units and pages, every
invariant and the action property of `SyncPool_interrupted`:

- `TypeCorrect`, `CauseCorrect`, `ProgressCorrect`, `QuietCorrect`;
- `TotalsCorrect`, `CompleteCorrect`: what a sync that reports success has done.

The last two speak of the returned state only.  Their strengthening accounts for
every unit that was handed out: it is with a worker, or written and counted, or
else an error is recorded or about to be; and a unit was skipped only if
something was cancelled.  `ProgressSerial` needs the lock: whoever is between
`WriteBatch` and `Notify` is the writer, and `done` is the number of calls, plus
one while there is such a writer.

Of `PriceSelection` it proves `MirrorCorrect`: for any mappings, products and
prices, if `MaxProducts <= Limit`, so that the upstream truncates no answer.  The
invariant is `Sound`, every entry is what some product seen was offered at, and
`Complete`, no product seen was offered for more under that key; the two together
make an entry the maximum, whatever the order of products.  The rest of the proof
is not about steps: `KeyMatches` and `MatchIsKey` say that a product projects to
the key of a query exactly if the upstream would return it for that query.

Of `Conversion` it proves, without assumptions, `RecentCorrect`; the invariant adds
`RateInv`, the cached rate was in the market during the request that fetched it,
and `RequestInv`, a request is out only because the rate was too old.  Of `Retry`
it proves, for any policy and any errors, `CancelCorrect`; `PermanentCorrect`: an
error that is followed by another attempt is one that the code documents as
transient or one whose text holds a retried code that is not its status, and
never a decoding error, a cancellation or a timeout of the client; and
`TransientCorrect`: network errors and the listed statuses are retried while an
attempt is left.  The documented claims are stronger both ways, as the table
shows.  `WaitCorrect` bounds the sleep of a
lookup for any policy, and `DefaultWaitCorrect` shows that the "~8s" in the comment
of `DefaultRetryPolicy` (`retry.go:35-37`) hold of its numbers: it is 3.75.

`CalculatorProofs` proves all of `Calculator_commands`, for any catalogs, projects,
prices, sizes and number of proposals:

- `EstimatesCorrect`: an estimate is the expected one, whatever the engine
  compiled before, and fails only over an expression or a lookup that fails;
- `DiffCorrect`: the rows of a diff add up to the change of the total;
- `SavingsCorrect`: following one recommendation lowers the total, rounding and
  all, by exactly the savings that were printed for it.

For the first, `Faithful` says that every compiled program is the expression that
its key names, for every kind at once, and `NotMixedUp` why that can be: the
registry is the result of `Validate`, so a kind and an identifier name one
dimension.  `AsExpected` follows an estimate expression by expression: `items` and
`costs` are those expected of the dimensions and resources already done.
`Commands` says what `base`, `baseline` and `report` are between estimates.  For
the third, `Advised` carries along what a recommendation was computed from: the
resources being evaluated are the changed ones, each once, and what is in the
report `Pays`, that is, the sums of its resources before and after differ by its
savings, which are a multiple of a cent because both sums are.  `FollowedCosts`
then compares the whole project with the project followed: they differ in those
resources only.

What the proofs assume of the constants are types (a catalog is as decoded from
TOML, projects are sequences of resources, answers are integers or failures) and
that the grain of items divides that of totals, as a hundredth of a cent does a
cent; all are evaluated by TLC.

They rest on `EstimatesProofs`: a sum is the last of its running sums
(`TotalRuns`), so that facts about sums go by induction over the length; a sum
that differs in one place differs by that place; rounding a sum of multiples
changes nothing; the rows of a diff are the current resources and then what is
gone.  No induction theorem of the library can be used, as it would take an
operator for a parameter: `Upward` says of a set of numbers that has 0 and
successors that it has them all.

Every `IInv`, `ZInv`, `StubInv`, `FXInv`, `PostInv`, `RInv` and `Advised` was
model-checked under its run's cfg; `Derived`, whose quantifiers have no bounds,
could not be.  The type invariants of all modules that have one are theorems and
not in a run: `TypeCorrect` in four proof modules, `RetryTypeCorrect`,
`FXTypeCorrect` and `SelectionTypeCorrect` in `PricingProofs`.

Only model-checked:

- liveness (`LookupsEnd`, `LookupReturns`, `SyncReturns`, `LoadEnds`, `PostEnds`),
  which is out of the prover's reach;
- `ParsesAsMeant`, about recursive operators.

`SameSourceSameDirectory` is false of the code.

## Plan

What is left:

1. Two sessions at once over one user configuration and one baseline file.
2. `OrderIndependent` for whole projects, which needs `ExpandModules` and
   `ResolveUnit` as recursive functions in place of recursive operators.

## Not modelled

Rendering, logging, tracing and flag parsing have no state a model could get
wrong.  HCL, expr-lang, OPA and SQLite are libraries; they are assumed to do what
c3x uses them for: an HCL expression is what it refers to, a policy is an amount
it denies or does not compile.  The 445 TOML files of the catalog are data; the
catalog tools read them once.
