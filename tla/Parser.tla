------------------------------- MODULE Parser -------------------------------
(***************************************************************************)
(* internal/parser: which parser reads a path, and the parsers beside the  *)
(* one of module Terraform: Terragrunt units, plans of terraform show      *)
(* -json, and CloudFormation templates.                                    *)
(***************************************************************************)
EXTENDS Terraform

CONSTANTS
    Units,      \* directory -> Broken, or what its terragrunt.hcl says
    SourcePath, \* <<directory, source>> -> the directory that source leads to
    Files       \* path -> [suffix, keys, content]: keys of its top level, in order

-----------------------------------------------------------------------------
(* Terragrunt.                                                             *)

IsTerragruntDirectory(path) == path \in DOMAIN Units

\* find_in_parent_folders(), or a path that was spelled out.
ResolveIncludePath(include, unit) ==
    IF include.find THEN unit.above ELSE include.path

Over(cfg, below) ==
    [source |-> IF cfg.source = "" THEN below.source ELSE cfg.source,
     inputs |-> cfg.inputs @@ below.inputs]

UnitScope(u, order) ==
    Scope(<<>>, ResolveLocals(u, <<>>, <<>>, order), <<>>)

\* An input that does not evaluate fails its file.
ParseUnitFile(u, scope) ==
    IF \E x \in DOMAIN u.inputs : Evaluate(u.inputs[x], scope) = Failed THEN Failed
    ELSE [source |-> u.source, inputs |-> Level(u.inputs, scope)]

\* resolveConfig: parents first, in order, without those that cannot be read;
\* then the file's own values.
RECURSIVE ResolveUnit(_, _)
ResolveUnit(path, order) ==
    LET u == Units[path]
        parent(include) == ResolveIncludePath(include, u)
        layer(acc, cfg) == IF cfg = Failed THEN acc ELSE Over(cfg, acc)
        own(cfg, below) == IF cfg = Failed THEN Failed ELSE Over(cfg, below)
    IN  IF u = Broken THEN Failed
        ELSE own(ParseUnitFile(u, UnitScope(u, order)),
                 FoldLeft(LAMBDA acc, i :
                     layer(acc, IF parent(i) \in DOMAIN Units THEN ResolveUnit(parent(i), order)
                                ELSE Failed),
                     [source |-> "", inputs |-> <<>>], u.includes))

\* stringifyCty, and parseCLIVar on the other side.
Stringified(v) ==
    CASE v = Null -> Text("")
      [] v[1] \in {"list", "object"} -> Text("a value's Go syntax")
      [] OTHER -> v

\* Inputs take the place of --var, below the real ones; --var-file is not
\* passed on.
ParseUnit(path, opts, order) ==
    LET cfg == ResolveUnit(path, order)
        module == SourcePath[<<path, cfg.source>>]
        inputs == [x \in DOMAIN cfg.inputs |-> Stringified(cfg.inputs[x])]
    IN  IF cfg = Failed THEN Failed
        ELSE IF <<path, cfg.source>> \notin DOMAIN SourcePath THEN Failed
        ELSE ParseDirectory(module, [vars |-> opts.vars @@ inputs, varFiles |-> <<>>,
                                     offline |-> opts.offline], order)

-----------------------------------------------------------------------------
(* Plans.                                                                  *)

\* The index of count and for_each goes.
NameFromAddress(address, kind) == Ref(kind, address.module, address.name, "")

IsDeleteOnly(actions) == actions # <<>> /\ Range(actions) = {"delete"}

ClassifyActions(actions) ==
    CASE Len(actions) = 1 /\ actions[1] \in {"create", "delete", "update"} -> actions[1]
      [] Len(actions) > 1 /\ Range(actions) \cap {"create", "update"} # {} -> "update"
      [] OTHER -> "no-op"

\* The last change of an address.
ActionOf(address, changes) ==
    LET i == SelectLastInSeq(changes, LAMBDA c : c.address = address)
    IN  IF i = 0 THEN "none" ELSE ClassifyActions(changes[i].actions)

FromPlan(address, kind, attrs, region, action) ==
    [ref |-> NameFromAddress(address, kind), attrs |-> attrs, region |-> region,
     action |-> action]

RECURSIVE CollectPlanned(_, _, _)
CollectPlanned(mod, region, changes) ==
    IF mod = None THEN <<>>
    ELSE LET managed == SelectSeq(mod.resources, LAMBDA r : r.mode = "managed")
             own == [i \in DOMAIN managed |->
                       FromPlan(managed[i].address, managed[i].kind, managed[i].values,
                                region, ActionOf(managed[i].address, changes))]
         IN  FoldLeft(LAMBDA acc, child : acc \o CollectPlanned(child, region, changes),
                      own, mod.children)

ProviderOrder == <<"aws", "azurerm", "google", "google-beta">>

DefaultRegion(regions) ==
    LET i == SelectInSeq(ProviderOrder, LAMBDA p :
                p \in DOMAIN regions /\ regions[p] \notin {None, ""})
    IN  IF i = 0 THEN "" ELSE regions[ProviderOrder[i]]

ParsePlan(doc) ==
    LET region == DefaultRegion(doc.regions)
        planned == CollectPlanned(doc.planned, region, doc.changes)
        kept == SelectSeq(doc.changes, LAMBDA c : ~IsDeleteOnly(c.actions))
        gone == SelectSeq(doc.changes, LAMBDA c : IsDeleteOnly(c.actions))
        fallback == [i \in DOMAIN kept |->
            FromPlan(kept[i].address, kept[i].kind, kept[i].after, region,
                     ClassifyActions(kept[i].actions))]
    IN  (IF planned = <<>> THEN fallback ELSE planned)
          \o [i \in DOMAIN gone |->
                FromPlan(gone[i].address, gone[i].kind, gone[i].before, region, "delete")]

-----------------------------------------------------------------------------
(* CloudFormation.                                                         *)

\* The types and properties the instances use, of 33 and 30.
TypeMap ==
    "AWS::EC2::Instance" :> "aws_instance" @@ "AWS::EC2::Volume" :> "aws_ebs_volume"
      @@ "AWS::EC2::NatGateway" :> "aws_nat_gateway"
      @@ "AWS::OpenSearchService::Domain" :> "aws_opensearch_domain"
      @@ "AWS::ElasticLoadBalancingV2::LoadBalancer" :> "aws_lb"

PropertyMap ==
    "aws_instance" :> ("InstanceType" :> "instance_type" @@ "ImageId" :> "ami")
      @@ "aws_ebs_volume" :> ("Size" :> "size" @@ "VolumeType" :> "type"
                              @@ "Iops" :> "iops" @@ "Throughput" :> "throughput")
      @@ "aws_lb" :> ("Type" :> "load_balancer_type")
      @@ "aws_opensearch_domain" :>
           ("ClusterConfig.InstanceType" :> "cluster_config_instance_type"
              @@ "ClusterConfig.InstanceCount" :> "cluster_config_instance_count")

\* An object's properties by their paths, as in ClusterConfig.InstanceType.
RECURSIVE FlattenNested(_, _)
FlattenNested(props, prefix) ==
    LET key(p) == IF prefix = "" THEN p ELSE prefix \o "." \o p
        leaves(p) == IF props[p][1] = "object" THEN FlattenNested(props[p][2], key(p))
                     ELSE key(p) :> props[p]
    IN  FoldLeft(LAMBDA acc, p : acc @@ leaves(p), <<>>, SetToSeq(DOMAIN props))

\* Of a kind without rewrites everything stays as it is.
TranslateProps(kind, props) ==
    LET rewrites == PropertyMap[kind]
        flat == FlattenNested(props, "")
        name(p) == IF p \in DOMAIN rewrites THEN rewrites[p] ELSE p
    IN  IF kind \notin DOMAIN PropertyMap THEN props
        ELSE [a \in {name(p) : p \in DOMAIN flat} |->
                flat[CHOOSE p \in DOMAIN flat : name(p) = a]]

EnsureOSAttr(kind, attrs) ==
    IF kind = "aws_instance" THEN attrs @@ ("operating_system" :> Text("Linux")) ELSE attrs

\* No caller sets the region of parser.Options.
Pseudo == "AWS::Region" :> Text("us-east-1") @@ "AWS::Partition" :> Text("aws")

\* An override is the text of --var.
Raw(v) == IF v[1] = "string" THEN v ELSE <<"raw", v>>

ResolveParameters(defs, overrides) ==
    LET set == {p \in DOMAIN defs : defs[p] # None}
    IN  [p \in DOMAIN overrides |-> Raw(overrides[p])] @@ [p \in set |-> defs[p]]

ResolveRef(name, params) ==
    CASE name \in DOMAIN params -> params[name]
      [] name \notin DOMAIN params /\ name \in DOMAIN Pseudo -> Pseudo[name]
      [] OTHER -> <<"ref", name>>

\* What stands there, when there is no such row.
ResolveFindInMap(keys, mappings, e) ==
    IF keys[1] \in DOMAIN mappings /\ keys[2] \in DOMAIN mappings[keys[1]]
    THEN IF keys[3] \in DOMAIN mappings[keys[1]][keys[2]]
         THEN mappings[keys[1]][keys[2]][keys[3]] ELSE Null
    ELSE <<"list of", e>>

\* Fn::Sub and Fn::Join: a text of literal and resolved parts.
ResolveText(parts) == <<"joined", parts>>

\* A literal; {"Ref": name}; {"Fn::FindInMap": [map, key, key]}; a text; or
\* Fn::GetAtt, which is never resolved.
RECURSIVE Intrinsic(_, _, _)
Intrinsic(e, params, mappings) ==
    CASE e[1] = "value" -> e[2]
      [] e[1] = "ref" -> ResolveRef(e[2], params)
      [] e[1] = "find" ->
           ResolveFindInMap([i \in 1 .. 3 |-> Intrinsic(e[i + 1], params, mappings)[2]],
                            mappings, e)
      [] e[1] = "join" ->
           ResolveText([i \in DOMAIN e[2] |-> Intrinsic(e[2][i], params, mappings)])
      [] e[1] = "att" -> <<"get-att", e[2]>>

\* Resources of types without an equivalent are left out; the order is that of
\* a Go map.
ParseTemplate(doc, opts, order) ==
    LET params == ResolveParameters(doc.parameters, opts.vars)
        known == SelectSeq(order, LAMBDA id :
                    id \in DOMAIN doc.resources /\ doc.resources[id].type \in DOMAIN TypeMap)
    IN  [i \in DOMAIN known |->
          LET r == doc.resources[known[i]]
              kind == TypeMap[r.type]
              props == [p \in DOMAIN r.properties |->
                          Intrinsic(r.properties[p], params, doc.mappings)]
          IN  [ref |-> Ref(kind, <<>>, known[i], ""),
               attrs |-> EnsureOSAttr(kind, TranslateProps(kind, props)),
               region |-> "", action |-> "none"]]

-----------------------------------------------------------------------------

\* The first of the telling keys decides.
IsCFNJSON(keys) ==
    LET cfn == {"AWSTemplateFormatVersion", "Resources"}
        i == SelectInSeq(keys, LAMBDA k : k \in cfn \cup {"resource_changes", "format_version"})
    IN  i # 0 /\ keys[i] \in cfn

IsTemplate(file) ==
    file.suffix \in {"yaml", "cfn"} \/ (file.suffix = "json" /\ IsCFNJSON(file.keys))

ParseFile(file, opts, order) ==
    IF file.content = Broken THEN Failed
    ELSE IF IsTemplate(file) THEN ParseTemplate(file.content, opts, order)
    ELSE IF file.suffix = "json" THEN ParsePlan(file.content)
    ELSE Failed

\* A single .tf file is a directory with that file.
ParsePath(path, opts, order) ==
    IF IsTerragruntDirectory(path) THEN ParseUnit(path, opts, order)
    ELSE IF path \in DOMAIN Files THEN ParseFile(Files[path], opts, order)
    ELSE ParseDirectory(path, opts, order)

-----------------------------------------------------------------------------
(* What the inputs mean.                                                   *)

\* The file nearest to the unit that sets an input, the later of two parents.
RECURSIVE MeantInput(_, _, _)
MeantInput(path, x, order) ==
    LET u == Units[path]
        sets(i) ==
            LET parent == ResolveIncludePath(i, u)
            IN  /\ parent \in DOMAIN Units
                /\ ResolveUnit(parent, order) # Failed
                /\ MeantInput(parent, x, order) # Failed
        from == SelectLastInSeq(u.includes, sets)
    IN  IF x \in DOMAIN u.inputs THEN Evaluate(u.inputs[x], UnitScope(u, order))
        ELSE IF from = 0 THEN Failed
        ELSE MeantInput(ResolveIncludePath(u.includes[from], u), x, order)

\* A unit is its module with its inputs.
UnitAsMeant(path, opts, order, resources) ==
    LET module == SourcePath[<<path, ResolveUnit(path, order).source>>]
        files == {p \in DOMAIN Units : Units[p] # Broken}
        inputs == {x \in UNION {DOMAIN Units[p].inputs : p \in files} :
                     MeantInput(path, x, order) # Failed}
    IN  ParsedAsMeant(module,
          [opts EXCEPT !.varFiles = <<>>,
                       !.vars = @ @@ [x \in inputs |->
                                        Stringified(MeantInput(path, x, order))]],
          resources)

RECURSIVE Planned(_)
Planned(mod) ==
    IF mod = None THEN {}
    ELSE {r \in Range(mod.resources) : r.mode = "managed"}
           \cup UNION {Planned(child) : child \in Range(mod.children)}

\* A plan's resources: those it has planned, wherever in the tree, and those it
\* deletes, each once and with what is to become of it.
PlanAsMeant(doc, resources) ==
    LET gone == {c \in Range(doc.changes) : IsDeleteOnly(c.actions)}
        named(address, kind) ==
            SelectSeq(resources, LAMBDA r : r.ref = NameFromAddress(address, kind))
    IN  /\ Planned(doc.planned) # {} =>
             Len(resources) = Cardinality(Planned(doc.planned)) + Cardinality(gone)
        /\ \A r \in Planned(doc.planned) : \E e \in Range(named(r.address, r.kind)) :
              e.attrs = r.values /\ e.action # "delete"
        /\ \A c \in gone : \E e \in Range(named(c.address, c.kind)) :
              e.attrs = c.before /\ e.action = "delete"

AsMeant(path, opts, order, resources) ==
    CASE path \in DOMAIN Units -> UnitAsMeant(path, opts, order, resources)
      [] path \in DOMAIN Files ->
           IsTemplate(Files[path]) \/ PlanAsMeant(Files[path].content, resources)
      [] OTHER -> ParsedAsMeant(path, opts, resources)
=============================================================================
