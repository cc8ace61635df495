----------------------------- MODULE Terraform -----------------------------
(***************************************************************************)
(* internal/parser/terraform as operators: from the declarations of a      *)
(* directory to resources, through variables, locals and modules.          *)
(***************************************************************************)
EXTENDS Scopes

CONSTANTS
    Directories,    \* path -> Broken, or what the .tf files declare
    LocalSources,   \* the sources that are paths: they start with "./" or "../"
    Fetched,        \* remote source -> path: what ModuleFetcher returns
    MaxModuleDepth

ASSUME MaxModuleDepthAssumption == MaxModuleDepth \in Nat

-----------------------------------------------------------------------------
(* Variables.                                                              *)

CollectVariableDefaults(d) ==
    LET given == SelectSeq(d.variables, LAMBDA v : v.default # None)
        value(v) == Evaluate(v.default, EmptyScope)
    IN  IF \E i \in DOMAIN given : value(given[i]) = Failed THEN Failed
        ELSE FoldLeft(LAMBDA vars, v : (v.name :> value(v)) @@ vars, <<>>, given)

\* applyVarFile: what comes later wins.
ApplyVarFile(vars, assignments) ==
    IF vars = Failed \/ assignments = Broken THEN Failed ELSE assignments @@ vars

AutoTfvars == <<"terraform.tfvars", "terraform.tfvars.json",
                "a.auto.tfvars", "b.auto.tfvars", "a.auto.tfvars.json">>

ApplyAutoTfvars(d, vars) ==
    FoldLeft(LAMBDA acc, file : ApplyVarFile(acc, d.tfvars[file]), vars,
             SelectSeq(AutoTfvars, LAMBDA file : file \in DOMAIN d.tfvars))

\* mergeDefaults and applyChildDefaults, over a type: attribute -> [default,
\* children].
RECURSIVE WithDefaults(_, _)
WithDefaults(v, type) ==
    IF v[1] # "object" THEN v
    ELSE LET f == v[2]
             missing(k) == k \notin DOMAIN f \/ f[k] = Null
             filled == {k \in DOMAIN type : missing(k) /\ type[k].default # None}
         IN  Object([k \in DOMAIN f \cup filled |->
                IF k \in filled THEN WithDefaults(type[k].default, type[k].children)
                ELSE IF k \in DOMAIN type /\ ~missing(k)
                THEN WithDefaults(f[k], type[k].children)
                ELSE f[k]])

Typed(d, n, v) ==
    LET i == SelectInSeq(d.variables, LAMBDA x : x.name = n)
    IN  IF i = 0 \/ v = Failed THEN v ELSE WithDefaults(v, d.variables[i].type)

ApplyOptionalDefaults(d, vars) == [n \in DOMAIN vars |-> Typed(d, n, vars[n])]

-----------------------------------------------------------------------------
(* Regions.                                                                *)

\* The first provider of a known cloud with a region that resolves.
FindDefaultRegion(d, scope) ==
    LET region(p) == IF p.region = None THEN Failed ELSE Evaluate(p.region, scope)
        i == SelectInSeq(d.providers, LAMBDA p :
                /\ p.name \in {"aws", "azurerm", "google", "google-beta"}
                /\ region(p) # Failed /\ region(p)[1] = "string")
    IN  IF i = 0 THEN "" ELSE region(d.providers[i])[2]

-----------------------------------------------------------------------------
(* Resources.                                                              *)

\* What does not resolve is null, for the catalog's default(x, fallback).
Level(attrs, scope) ==
    [a \in DOMAIN attrs |->
        LET v == Evaluate(attrs[a], scope) IN IF v = Failed THEN Null ELSE v]

\* Nested blocks: one is an object, more of a type are a list.
AddBlock(attrs, type, block) ==
    LET old == IF type \in DOMAIN attrs THEN attrs[type] ELSE Null
    IN  (type :> IF old = Null THEN block
                 ELSE IF old[1] = "list" THEN List(Append(old[2], block))
                 ELSE List(<<old, block>>)) @@ attrs

ExtractAttributes(r, scope) ==
    FoldLeft(LAMBDA acc, b : AddBlock(acc, b.type, Object(Level(b.attrs, scope))),
             Level(r.attrs, scope), r.blocks)

MakeResource(r, prefix, key, attrs, region) ==
    [ref |-> Ref(r.kind, prefix, r.name, key), attrs |-> attrs, region |-> region, action |-> "none"]

\* A number, or a condition; null is none.
ReadCount(v) ==
    CASE v[1] = "number" -> IF v[2] < 0 THEN 0 ELSE v[2]
      [] v[1] = "bool" -> IF v[2] THEN 1 ELSE 0
      [] OTHER -> 0

\* Objects by key, in some order; a list's elements are their own keys.
ForeachPairs(v) ==
    CASE v[1] = "object" ->
           LET keys == SetToSeq(DOMAIN v[2])
           IN  [i \in DOMAIN keys |-> [key |-> keys[i], value |-> v[2][keys[i]]]]
      [] v[1] = "list" ->
           [i \in DOMAIN v[2] |->
              [key |-> IF v[2][i][1] = "string" THEN v[2][i][2] ELSE "a value's Go syntax",
               value |-> v[2][i]]]
      [] OTHER -> <<>>

\* count wins over for_each; one that does not resolve omits the resource.
EmitOne(r, prefix, scope, region) ==
    LET emit(key, extra) ==
            MakeResource(r, prefix, key, ExtractAttributes(r, extra @@ scope), region)
        count == Evaluate(r.count, scope)
        each == Evaluate(r.forEach, scope)
    IN  CASE r.count # None ->
               IF count = Failed THEN <<>>
               ELSE [i \in 1 .. ReadCount(count) |->
                       emit(ToString(i - 1), "count" :> ("index" :> Number(i - 1)))]
          [] r.count = None /\ r.forEach # None ->
               IF each = Failed THEN <<>>
               ELSE LET pairs == ForeachPairs(each)
                    IN  [i \in DOMAIN pairs |->
                           emit(pairs[i].key,
                                "each" :> [key |-> Text(pairs[i].key), value |-> pairs[i].value])]
          [] OTHER -> <<emit("", <<>>)>>

EmitResources(m, prefix) ==
    FlattenSeq([i \in DOMAIN m.d.resources |->
        EmitOne(m.d.resources[i], prefix, m.scope, m.region)])

-----------------------------------------------------------------------------
(* Modules.                                                                *)

\* Local sources are paths, of directories that need not exist, and "." is the
\* module itself; others are in terraform init's manifest, or on the network.
ResolveModuleSource(source, base, key, manifest, offline) ==
    CASE source = "." -> base
      [] source \in LocalSources -> source
      [] source \notin LocalSources \cup {"."} ->
           IF key \in DOMAIN manifest THEN manifest[key]
           ELSE IF ~offline /\ source \in DOMAIN Fetched THEN Fetched[source]
           ELSE None

Child(call, m, key, run) ==
    LET source == Evaluate(call.source, m.scope)
    IN  IF source = Failed \/ source[1] # "string" THEN None
        ELSE ResolveModuleSource(source[2], m.base, key, run.manifest, run.offline)

\* What is passed, of what resolves.
Inputs(call, scope) ==
    [n \in {x \in DOMAIN call.inputs : Evaluate(call.inputs[x], scope) # Failed} |->
        Evaluate(call.inputs[n], scope)]

\* Faulty ChildVars: the child's own tfvars win over what it is passed.
ChildVarsTfvarsLast(d, inputs) ==
    LET defaults == CollectVariableDefaults(d)
    IN  IF defaults = Failed THEN Failed ELSE ApplyAutoTfvars(d, inputs @@ defaults)

\* Defaults, the child's tfvars, then what it is passed.
ChildVars(d, inputs) ==
    LET vars == ApplyAutoTfvars(d, CollectVariableDefaults(d))
    IN  IF vars = Failed THEN Failed ELSE ApplyOptionalDefaults(d, inputs @@ vars)

\* A module with its scope, and its own region or the one of its parent.
InRegion(base, scope, own, parents) ==
    [base |-> base, d |-> Directories[base], scope |-> scope,
     region |-> IF own = "" THEN parents ELSE own]

InScope(base, scope, parents) ==
    InRegion(base, scope, FindDefaultRegion(Directories[base], scope), parents)

Loaded(base, vars, parents, order) ==
    IF vars = Failed THEN Failed
    ELSE InScope(base, ScopeOf(Directories[base], vars, order), parents)

Join(a, b) == IF a = Failed \/ b = Failed THEN Failed ELSE a \o b

RECURSIVE ExpandModules(_, _, _)

Expand(m, prefix, run) ==
    IF m = Failed THEN Failed
    ELSE Join(EmitResources(m, prefix), ExpandModules(m, prefix, run))

\* Calls that cannot be resolved are left out; a module that cannot be read
\* fails everything.
ExpandCall(base, inputs, parents, key, run) ==
    IF base \notin DOMAIN Directories THEN <<>>
    ELSE IF Directories[base] = Broken THEN Failed
    ELSE Expand(Loaded(base, ChildVars(Directories[base], inputs), parents, run.order),
                key, run)

ExpandModules(m, prefix, run) ==
    LET key(call) == Append(prefix, call.name)
    IN  IF Len(prefix) >= MaxModuleDepth THEN <<>>
        ELSE FoldLeft(LAMBDA acc, call :
                Join(acc, ExpandCall(Child(call, m, key(call), run), Inputs(call, m.scope),
                                     m.region, key(call), run)),
                <<>>, m.d.modules)

-----------------------------------------------------------------------------

\* parseSources: defaults, tfvars, --var-file, --var.
RootVars(d, opts) ==
    LET files == FoldLeft(ApplyVarFile, ApplyAutoTfvars(d, CollectVariableDefaults(d)),
                          opts.varFiles)
    IN  IF files = Failed THEN Failed ELSE ApplyOptionalDefaults(d, opts.vars @@ files)

ParseDirectory(path, opts, order) ==
    IF path \notin DOMAIN Directories THEN Failed
    ELSE IF Directories[path] = Broken THEN Failed
    ELSE Expand(Loaded(path, RootVars(Directories[path], opts), "", order), <<>>,
                [manifest |-> Directories[path].manifest, offline |-> opts.offline,
                 order |-> order])

-----------------------------------------------------------------------------
(* What a configuration means: every reference is followed to what it      *)
(* names, when it is needed, and nothing is computed in advance.           *)

\* An instance of a module: the calls that lead to it, from the root.
Root(path) == <<[call |-> None, dir |-> path]>>
Declared(node) == Directories[Last(node).dir]
Names(node) == [i \in 1 .. Len(node) - 1 |-> node[i + 1].call.name]

FirstOf(values) ==
    LET i == SelectInSeq(values, LAMBDA v : v # Failed)
    IN  IF i = 0 THEN Failed ELSE values[i]

RECURSIVE Meaning(_, _, _, _)

Passed(x, node, opts) ==
    IF Len(node) = 1 THEN IF x \in DOMAIN opts.vars THEN opts.vars[x] ELSE Failed
    ELSE IF x \in DOMAIN Last(node).call.inputs
    THEN Meaning(Last(node).call.inputs[x], Front(node), opts, {})
    ELSE Failed

LastAssigned(x, files) ==
    LET i == SelectLastInSeq(files, LAMBDA f : x \in DOMAIN f)
    IN  IF i = 0 THEN Failed ELSE files[i][x]

VariableFiles(d, node, opts) ==
    LET loaded == SelectSeq(AutoTfvars, LAMBDA file : file \in DOMAIN d.tfvars)
    IN  [i \in DOMAIN loaded |-> d.tfvars[loaded[i]]]
          \o (IF Len(node) = 1 THEN opts.varFiles ELSE <<>>)

Default(x, d) ==
    LET i == SelectInSeq(d.variables, LAMBDA v : v.name = x /\ v.default # None)
    IN  IF i = 0 THEN Failed ELSE Evaluate(d.variables[i].default, EmptyScope)

\* Who calls a module decides, then its files, then the declaration.
MeaningOfVariable(x, node, opts) ==
    Typed(Declared(node), x,
          FirstOf(<<Passed(x, node, opts),
                    LastAssigned(x, VariableFiles(Declared(node), node, opts)),
                    Default(x, Declared(node))>>))

MeaningOfData(p, data) == IF p \in DOMAIN data THEN data[p] ELSE Failed

Meaning(expr, node, opts, seen) ==
    LET locals == Declared(node).locals
    IN  FirstOf([i \in DOMAIN expr |->
          LET a == expr[i]
          IN  CASE a[1] = "value" -> a[2]
                [] a[1] = "var" -> MeaningOfVariable(a[2], node, opts)
                [] a[1] = "local" /\ a[2] \in DOMAIN locals \ seen ->
                     Meaning(locals[a[2]], node, opts, seen \cup {a[2]})
                [] a[1] = "data" -> MeaningOfData(a[2], CollectDataBlocks(Declared(node)))
                [] OTHER -> Failed])

SourceOf(source, node, name, opts) ==
    IF source = Failed \/ source[1] # "string" THEN None
    ELSE ResolveModuleSource(source[2], Last(node).dir, Append(Names(node), name),
                             Directories[node[1].dir].manifest, opts.offline)

Calls(node, opts) ==
    {n \in {Append(node, [call |-> c,
                          dir |-> SourceOf(Meaning(c.source, node, opts, {}), node, c.name,
                                           opts)]) :
               c \in Range(Declared(node).modules)} : Last(n).dir \in DOMAIN Directories}

RECURSIVE Nodes(_, _, _)
Nodes(nodes, opts, depth) ==
    IF depth = 0 THEN nodes
    ELSE nodes \cup Nodes(UNION {Calls(n, opts) : n \in nodes}, opts, depth - 1)

Emitted(resources, node, r) ==
    SelectSeq(resources, LAMBDA e :
        e.ref.kind = r.kind /\ e.ref.module = Names(node) /\ e.ref.name = r.name)

InstancesMeant(r, count) ==
    IF r.count = None THEN 1 ELSE IF count = Failed THEN 0 ELSE ReadCount(count)

MeantValue(v) == IF v = Failed THEN Null ELSE v

\* A resource block yields as many resources as it says, and every attribute
\* has its meaning in the instance the block is in.
BlockAsMeant(r, node, opts, emitted) ==
    LET own(a) == \E i \in DOMAIN r.attrs[a] : r.attrs[a][i][1] \in {"count", "each"}
        nested == {r.blocks[i].type : i \in DOMAIN r.blocks}
    IN  /\ r.forEach = None =>
             Len(emitted) = InstancesMeant(r, Meaning(r.count, node, opts, {}))
        /\ \A a \in DOMAIN r.attrs \ nested : own(a) \/
             \A k \in DOMAIN emitted :
                emitted[k].attrs[a] = MeantValue(Meaning(r.attrs[a], node, opts, {}))

ParsedAsMeant(path, opts, resources) ==
    LET nodes == Nodes({Root(path)}, opts, MaxModuleDepth)
    IN  /\ \A n \in nodes : \A i \in DOMAIN Declared(n).resources :
              BlockAsMeant(Declared(n).resources[i], n, opts,
                           Emitted(resources, n, Declared(n).resources[i]))
        /\ \A k \in DOMAIN resources : \E n \in nodes :
              \E i \in DOMAIN Declared(n).resources :
                  resources[k] \in Range(Emitted(resources, n, Declared(n).resources[i]))
=============================================================================
