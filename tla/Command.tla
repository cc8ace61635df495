------------------------------ MODULE Command -------------------------------
(***************************************************************************)
(* The commands of cmd/c3x from their arguments to their exit code, one    *)
(* process after another, and what processes leave to each other: the user *)
(* configuration, a baseline file and the comment on a pull request.  A    *)
(* process may be stopped at any step.                                     *)
(*                                                                         *)
(* Parsing a path and pricing a resource are operators; what the pricing   *)
(* chain answers, from cache or network, is one list of prices.            *)
(***************************************************************************)
EXTENDS Advice

CONSTANTS
    Parse(_, _, _),     \* path, options, order of a Go map: resources or Failed
    Orders,             \* the orders of a Go map
    PriceLists,         \* currency -> set of price lists
    Stub,               \* the price list of an offline run without a cache
    ProjectConfig,      \* path -> settings of its .c3x.toml
    UserConfigs,        \* the user's settings at the start
    Invocations,        \* what users and CI jobs run
    Torn,               \* a file that was truncated and not yet written
    MaxCommands         \* bound

ASSUME CommandsAssumption == MaxCommands \in Nat

ASSUME InvocationAssumption ==
    \A i \in Invocations :
        /\ {"command", "path", "vars", "varFiles", "usage", "whatIf"} \subseteq DOMAIN i
        /\ i.whatIf \in Seq(Range(i.whatIf))
        /\ \A k \in DOMAIN i.whatIf : \A ref \in DOMAIN i.whatIf[k] :
              IsAttributes(i.whatIf[k][ref])
        /\ i.usage \notin {None, Broken} =>
              /\ \A ref \in DOMAIN i.usage.entries : IsAttributes(i.usage.entries[ref])
              /\ \A kind \in DOMAIN i.usage.defaults : IsAttributes(i.usage.defaults[kind])

\* Parsed without network, or with it, in an order of the maps.
Parsed(i, offline, order) ==
    Parse(i.path, [vars |-> i.vars, varFiles |-> i.varFiles, offline |-> offline], order)

IsProject(rs) == rs \in Seq(Range(rs)) /\ \A k \in DOMAIN rs : IsResource(rs[k])

ASSUME ParseAssumption ==
    \A i \in Invocations, offline \in BOOLEAN, order \in Orders :
        Parsed(i, offline, order) = Failed \/ IsProject(Parsed(i, offline, order))

VARIABLES
    userConfig, baseline, comment,                  \* kept between processes
    pc, cmd, resolved, resources, prices,
    base,                                           \* the baseline as loaded
    estimate, report, outcome,
    printed,            \* history: the estimates printed and to be saved
    advised,            \* history: the last recommendations
    commands            \* how many there were

files == <<userConfig, baseline, comment>>
process == <<cmd, resolved, resources, prices, base, estimate, report>>
history == <<printed, advised, commands>>
vars == <<files, process, pc, outcome, history>>

Init ==
    /\ userConfig \in UserConfigs /\ baseline = None /\ comment = None
    /\ pc = "idle" /\ outcome = None
    /\ cmd = None /\ resolved = None /\ resources = None /\ prices = None
    /\ base = None /\ estimate = None /\ report = None
    /\ printed = {} /\ advised = None /\ commands = 0

Goto(l) == pc' = l /\ UNCHANGED outcome
Exit(o) == pc' = "exit" /\ outcome' = o

Is(commandNames) == cmd.command \in commandNames

-----------------------------------------------------------------------------
(* Starting a command.                                                     *)

\* A recommendation as --what-if: the source is not touched.
Trial(advice) ==
    [advised.cmd EXCEPT !.command = "estimate",
                        !.whatIf = Append(@, advice.changes)]

Begin(invocation) ==
    /\ cmd' = invocation
    /\ pc' = CASE invocation.command = "configure" -> "configure"
               [] invocation.command = "comment" -> "target"
               [] invocation.command = "policy" /\ invocation.saved -> "load"
               [] OTHER -> "resolve"

\* A user or a CI job runs a command, or tries out what was recommended.
Start ==
    /\ pc = "idle" /\ commands < MaxCommands
    /\ \/ \E invocation \in Invocations : Begin(invocation)
       \/ /\ advised # None
          /\ \E advice \in advised.report : Begin(Trial(advice))
    /\ commands' = commands + 1
    /\ UNCHANGED <<files, resolved, resources, prices, base, estimate, report, outcome,
                   printed, advised>>

\* Nothing of the process is left but what it wrote.
Gone ==
    /\ pc' = "idle" /\ outcome' = None
    /\ cmd' = None /\ resolved' = None /\ resources' = None /\ prices' = None
    /\ base' = None /\ estimate' = None /\ report' = None
    /\ UNCHANGED <<files, history>>

\* The shell takes the exit code.
Reap == pc = "exit" /\ Gone

\* Ctrl-C, a kill, the end of a CI job.
Stop == pc \notin {"idle", "exit"} /\ Gone

\* The pull request is given or detected, or the command fails.
FindTarget ==
    /\ pc = "target"
    /\ Goto("resolve") \/ Exit("error")
    /\ UNCHANGED <<files, process, history>>

-----------------------------------------------------------------------------
(* The configuration.                                                      *)

Defaults ==
    [region |-> "", currency |-> "USD", offline |-> FALSE,
     no_remote_modules |-> FALSE, no_cache |-> FALSE]

\* Of a truncated file nothing is left, or something that does not parse.
Readable(config) == IF config = Torn THEN {<<>>, Broken} ELSE {config}

\* Five layers, each over the ones before it.
Resolve(user) ==
    cmd.flags @@ cmd.env @@ ProjectConfig[cmd.path] @@ user @@ Defaults

ResolveSettings ==
    /\ pc = "resolve"
    /\ \E user \in Readable(userConfig) :
          \/ user = Broken /\ Exit("error") /\ UNCHANGED resolved
          \/ /\ user # Broken
             /\ Resolve(user).currency \notin DOMAIN PriceLists
             /\ Exit("error") /\ UNCHANGED resolved
          \/ /\ user # Broken
             /\ Resolve(user).currency \in DOMAIN PriceLists
             /\ resolved' = Resolve(user)
             /\ Goto(IF Is({"diff"}) THEN "load" ELSE "parse")
    /\ UNCHANGED <<files, cmd, resources, prices, base, estimate, report, history>>

\* loadExistingConfig, over the wizard's own defaults.
Existing(user) == user @@ [region |-> "us-east-1", currency |-> "USD", no_cache |-> FALSE]

\* What the prompts return; they do not ask about no_cache, and --non-interactive
\* does not prompt.
Answered(user) ==
    IF cmd.answers = None THEN Existing(user)
    ELSE cmd.answers @@ [Existing(user) EXCEPT !.no_cache = FALSE]

Configure ==
    /\ pc = "configure"
    /\ \E user \in Readable(userConfig) \ {Broken} :
          IF Answered(user).currency \in DOMAIN PriceLists \/ cmd.answers = None
          THEN /\ resolved' = Answered(user)
               /\ userConfig' = Torn
               /\ Goto("write config")
          ELSE Exit("error") /\ UNCHANGED <<resolved, userConfig>>
    /\ UNCHANGED <<baseline, comment, cmd, resources, prices, base, estimate, report,
                   history>>

\* Only the keys of the wizard, and no_cache if it is set.
WriteConfig ==
    /\ pc = "write config"
    /\ \/ /\ userConfig' = [k \in {"region", "currency"}
                                 \cup (IF resolved.no_cache THEN {"no_cache"} ELSE {}) |->
                               resolved[k]]
          /\ Exit("ok")
       \/ Exit("error") /\ UNCHANGED userConfig
    /\ UNCHANGED <<baseline, comment, process, history>>

-----------------------------------------------------------------------------
(* From the path to an estimate.                                           *)

\* Only estimate asks for no_remote_modules.
Options(invocation, settings) ==
    [vars |-> invocation.vars, varFiles |-> invocation.varFiles,
     offline |-> \/ settings.offline
                 \/ invocation.command = "estimate" /\ settings.no_remote_modules]

ParseInput ==
    /\ pc = "parse"
    /\ \E order \in Orders :
          /\ resources' = Parse(cmd.path, Options(cmd, resolved), order)
          /\ IF resources' = Failed THEN Exit("error")
             ELSE Goto(IF Is({"estimate", "recommend"}) THEN "overlay" ELSE "price")
    /\ UNCHANGED <<files, cmd, resolved, prices, base, estimate, report, history>>

\* usage.Apply: the kind's defaults, then the entry of the resource.
ApplyUsage(rs, usage) ==
    LET of(f, x) == IF x \in DOMAIN f THEN f[x] ELSE <<>>
    IN  [i \in DOMAIN rs |->
            WithAttrs(rs[i], Layered(of(usage.entries, rs[i].ref),
                                     of(usage.defaults, rs[i].ref.kind)))]

\* Of the flags that set one attribute the last; flags that set different ones
\* may come together.
Setters(whatIf, ref, a) ==
    {k \in DOMAIN whatIf : ref \in DOMAIN whatIf[k] /\ a \in DOMAIN whatIf[k][ref]}
WhatIfOf(whatIf, ref) ==
    [a \in UNION {DOMAIN whatIf[k][ref] : k \in {l \in DOMAIN whatIf : ref \in DOMAIN whatIf[l]}} |->
        whatIf[Max(Setters(whatIf, ref, a))][ref][a]]

\* whatif.Apply, to every resource of that name.
ApplyWhatIf(rs, whatIf) ==
    [i \in DOMAIN rs |-> WithAttrs(rs[i], WhatIfOf(whatIf, rs[i].ref))]

UsageApplied(invocation, rs) ==
    IF invocation.usage = None THEN rs ELSE ApplyUsage(rs, invocation.usage)

\* Faulty Overlaid: the usage file has the last word.
OverlaidUsageLast(invocation, rs) ==
    UsageApplied(invocation, ApplyWhatIf(rs, invocation.whatIf))

Overlaid(invocation, rs) ==
    ApplyWhatIf(UsageApplied(invocation, rs), invocation.whatIf)

ApplyUsageAndWhatIf ==
    /\ pc = "overlay"
    /\ IF cmd.usage = Broken THEN Exit("error") /\ UNCHANGED resources
       ELSE resources' = Overlaid(cmd, resources) /\ Goto("price")
    /\ UNCHANGED <<files, cmd, resolved, prices, base, estimate, report, history>>

\* What BuildChain's chain may answer.
Prices ==
    IF ~resolved.offline THEN PriceLists[resolved.currency]
    ELSE {Stub} \cup (IF resolved.no_cache THEN {} ELSE PriceLists[resolved.currency])

Region(settings) == IF settings.region = "" THEN "us-east-1" ELSE settings.region

EstimateOf(rs, region, list) ==
    NewEstimate([i \in DOMAIN rs |->
        [ref |-> rs[i].ref, action |-> rs[i].action,
         subtotal |-> Subtotal(rs[i], region, list)]], <<>>)

\* engine.Estimate: one resource that cannot be priced fails it all.
Price ==
    /\ pc = "price"
    /\ \E list \in Prices :
          /\ prices' = list
          /\ IF \E i \in DOMAIN resources :
                   Subtotal(resources[i], Region(resolved), list) = Failed
             THEN Exit("error") /\ UNCHANGED estimate
             ELSE /\ estimate' = EstimateOf(resources, Region(resolved), list)
                  /\ Goto(CASE Is({"recommend"}) -> "advise"
                            [] Is({"comment", "policy"}) /\ cmd.baseline -> "load"
                            [] OTHER -> "render")
    /\ UNCHANGED <<files, cmd, resolved, resources, base, report, history>>

Advise ==
    /\ pc = "advise"
    /\ report' = Recommend(resources, Region(resolved), prices)
    /\ advised' = [cmd |-> cmd, resolved |-> resolved, prices |-> prices,
                   estimate |-> estimate, report |-> report']
    /\ Exit("ok")
    /\ UNCHANGED <<files, cmd, resolved, resources, prices, base, estimate, printed,
                   commands>>

-----------------------------------------------------------------------------
(* Baselines.                                                              *)

\* What the file holds and, for the properties, what it is an estimate of.
Of(command, settings, list) ==
    [path |-> command.path, vars |-> command.vars, varFiles |-> command.varFiles,
     usage |-> command.usage, whatIf |-> command.whatIf, resolved |-> settings,
     prices |-> list]

File == [estimate |-> Saved(estimate), of |-> Of(cmd, resolved, prices)]

\* Faulty LoadBaseline: a file that does not decode is an empty estimate.
LoadBaselineTolerant ==
    /\ pc = "load"
    /\ base' = IF baseline \in {None, Torn}
               THEN [estimate |-> NewEstimate(<<>>, <<>>), of |-> None] ELSE baseline
    /\ estimate' = IF Is({"policy"}) /\ cmd.saved THEN base'.estimate ELSE estimate
    /\ Goto(IF Is({"diff"}) THEN "parse" ELSE "render")
    /\ UNCHANGED <<files, cmd, resolved, resources, prices, report, history>>

\* loadBaseline, and loadEstimateForPolicy of a file.
LoadBaseline ==
    /\ pc = "load"
    /\ IF baseline \in {None, Torn} THEN Exit("error") /\ UNCHANGED <<base, estimate>>
       ELSE /\ base' = baseline
            /\ estimate' = IF Is({"policy"}) /\ cmd.saved THEN baseline.estimate ELSE estimate
            /\ Goto(IF Is({"diff"}) THEN "parse" ELSE "render")
    /\ UNCHANGED <<files, cmd, resolved, resources, prices, report, history>>

Compares == Is({"diff"}) \/ (Is({"comment", "policy"}) /\ cmd.baseline)

Render ==
    /\ pc = "render"
    /\ report' = IF Compares THEN ComputeDiff(base.estimate, estimate) ELSE estimate
    /\ printed' = IF Is({"estimate"}) /\ cmd.save THEN printed \cup {File} ELSE printed
    /\ Goto(CASE Is({"comment"}) -> "post"
              [] Is({"estimate"}) /\ cmd.save -> "save"
              [] OTHER -> "gate")
    /\ UNCHANGED <<files, cmd, resolved, resources, prices, base, estimate, advised,
                   commands>>

\* os.WriteFile truncates, then writes.
TruncateBaseline ==
    /\ pc = "save"
    /\ baseline' = Torn
    /\ Goto("write")
    /\ UNCHANGED <<userConfig, comment, process, history>>

WriteBaseline ==
    /\ pc = "write"
    /\ \/ baseline' = File /\ Goto("gate")
       \/ Exit("error") /\ UNCHANGED baseline
    /\ UNCHANGED <<userConfig, comment, process, history>>

-----------------------------------------------------------------------------
(* The ends.                                                               *)

\* --budget, --budget-delta, or a policy that denies more than some amount; the
\* budgets of the configuration are not looked at.
Exceeded == cmd.gate > 0 /\ (IF Compares THEN report.delta ELSE report.total) > cmd.gate

Gate ==
    /\ pc = "gate"
    /\ Exit(IF Is({"policy"}) /\ cmd.policy = Broken THEN "error"
            ELSE IF Exceeded THEN "exceeded" ELSE "ok")
    /\ UNCHANGED <<files, process, history>>

\* See CommentPoster: a request that fails may have been carried out.
Post ==
    /\ pc = "post"
    /\ \/ comment' = report /\ Exit("ok")
       \/ comment' \in {comment, report} /\ Exit("error")
    /\ UNCHANGED <<userConfig, baseline, process, history>>

Next ==
    \/ Start \/ Reap \/ FindTarget \/ ResolveSettings
    \/ Configure \/ WriteConfig
    \/ ParseInput \/ ApplyUsageAndWhatIf \/ Price \/ Advise
    \/ LoadBaseline \/ Render \/ TruncateBaseline \/ WriteBaseline
    \/ Gate \/ Post \/ Stop

Spec == Init /\ [][Next]_vars

-----------------------------------------------------------------------------
(* Properties.                                                             *)

Ended(outcomes) == pc = "exit" /\ outcome \in outcomes

\* diff, comment and policy do not ask for no_remote_modules.
ParsedAlike(settings) == settings.no_remote_modules => settings.offline

\* A baseline file is an estimate that was printed, never a part of one: a
\* process that was stopped leaves a file that no command accepts, and
\* everything compared is compared with a printed estimate.  An estimate that
\* exceeds its budget has been saved.
SavedIsPrinted ==
    /\ baseline \in {None, Torn} \cup printed
    /\ base \in {None} \cup printed
    /\ Ended({"ok", "exceeded"}) /\ Is({"estimate"}) /\ cmd.save => baseline = File

\* A project that did not change, compared with its own baseline at the same
\* settings and prices, has no changes, whichever command compares: "baseline
\* and current are computed identically".  Usage and what-ifs are for estimate.
QuietDiff ==
    Ended({"ok", "exceeded"}) /\ Compares =>
        \/ base.of # Of([cmd EXCEPT !.usage = None, !.whatIf = <<>>], resolved, prices)
        \/ ~ParsedAlike(resolved) \/ ~UniqueRefs(estimate)
        \/ /\ report.delta = 0
           /\ \A i \in DOMAIN report.rows : report.rows[i].kind = "unchanged"

\* That documented claim, whatever estimate was told besides: diff "mirrors the
\* estimate command's flow".
ComparedIdentically ==
    Ended({"ok", "exceeded"}) /\ Is({"diff"}) =>
        \/ base.of # Of([cmd EXCEPT !.usage = base.of.usage, !.whatIf = base.of.whatIf],
                        resolved, prices)
        \/ ~UniqueRefs(estimate)
        \/ report.delta = 0

\* None of what changes is about to be deleted.
Keeps(of, changes) ==
    \A i \in DOMAIN of.costs : of.costs[i].action = "delete" => of.costs[i].ref \notin DOMAIN changes

\* Who passes a recommendation to estimate as --what-if sees the total fall by
\* the savings it promised, at the same settings and prices and under the same
\* usage file.  What a plan is about to delete is not in the total.
FollowedPays ==
    Ended({"ok", "exceeded"}) /\ Is({"estimate"}) /\ advised # None =>
        \A advice \in advised.report :
            /\ cmd = Trial(advice)
            /\ resolved = advised.resolved /\ prices = advised.prices
            /\ ParsedAlike(resolved)
            /\ UniqueRefs(advised.estimate) /\ Keeps(advised.estimate, advice.changes)
            => estimate.total = advised.estimate.total - advice.savings

Traffic(rs) ==
    Total([i \in DOMAIN rs |->
             IF i \in Gateways(rs)
             THEN Processed(rs[i]) + AttrInt(rs[i], "monthly_inter_az_gb") ELSE 0])

\* A recommendation to consolidate NAT gateways loses no traffic: what went
\* through the gateways to be removed goes between zones, to be paid for.
TrafficConserved ==
    Ended({"ok"}) /\ Is({"recommend"}) /\ UniqueRefs(estimate) =>
        \A advice \in report :
            Traffic(ApplyWhatIf(resources, <<advice.changes>>)) = Traffic(resources)
=============================================================================
