----------------------------- MODULE MCCommand ------------------------------
(* Projects of every kind the parsers read, a small catalog, and the        *)
(* commands of users and CI jobs for TLC.                                   *)
EXTENDS Command, Parser

V(v) == <<<<"value", v>>>>
Local(x) == <<<<"local", x>>>>
Var(x) == <<<<"var", x>>>>

Variable(name, default) == [name |-> name, default |-> default, type |-> <<>>]
Block(kind, name, attrs) ==
    [kind |-> kind, name |-> name, count |-> None, forEach |-> None, attrs |-> attrs,
     blocks |-> <<>>]
Counted(r, count) == [r EXCEPT !.count = count]
ForEach(r, each) == [r EXCEPT !.forEach = each]
Call(name, source, inputs) == [name |-> name, source |-> V(Text(source)), inputs |-> inputs]

Empty ==
    [variables |-> <<>>, tfvars |-> <<>>, locals |-> <<>>, data |-> <<>>,
     providers |-> <<>>, resources |-> <<>>, modules |-> <<>>, manifest |-> <<>>]

\* Locals that depend on each other, tfvars of two layers, optional() defaults,
\* count and for_each, nested blocks, data, and a module that is called twice.
Stack ==
    [Empty EXCEPT
      !.variables = <<Variable("size", V(Number(100))), Variable("replicas", None),
                      [Variable("disk", None) EXCEPT !.type =
                         "iops" :> [default |-> Number(3000), children |-> <<>>]
                           @@ "type" :> [default |-> None, children |-> <<>>]]>>,
      !.tfvars = "a.auto.tfvars" :> ("size" :> Number(600))
                   @@ "terraform.tfvars" :> ("size" :> Number(200) @@ "replicas" :> Number(2)
                        @@ "disk" :> Object("type" :> Text("gp2"))),
      !.locals = "inner" :> Local("whole") @@ "whole" :> Var("size"),
      !.data = "ami" :> ("owner" :> V(Text("self"))),
      !.providers = <<[name |-> "random", region |-> None],
                      [name |-> "aws", region |-> V(Text("eu-west-1"))]>>,
      !.resources =
        <<Block("aws_ebs_volume", "data",
                "size" :> Local("inner") @@ "type" :> V(Text("gp2"))),
          Counted(Block("aws_eip", "ip", "n" :> <<<<"count", "index">>>>), Var("replicas")),
          [Block("aws_instance", "app",
                 "instance_type" :> V(Text("m5.large")) @@ "ami" :> <<<<"data", <<"ami", "id">>>>>>
                   @@ "lost" :> <<<<"data", <<"ami", "arn">>>>, <<"local", "nowhere">>>>)
             EXCEPT !.blocks = <<[type |-> "disk", attrs |-> "size" :> Local("whole")],
                                 [type |-> "disk", attrs |-> "size" :> V(Number(1))]>>]>>,
      !.modules = <<Call("dev", "./web", "size" :> Local("inner")),
                    Call("other", "./web", <<>>),
                    Call("lost", "registry/none", <<>>),
                    Call("gone", "./gone", <<>>)>>,
      !.manifest = <<"gone">> :> "net"]

\* Its own tfvars, a region and a module of its own, and itself.
Web ==
    [Empty EXCEPT
      !.variables = <<Variable("size", V(Number(10)))>>,
      !.tfvars = "terraform.tfvars" :> ("size" :> Number(20)),
      !.providers = <<[name |-> "aws", region |-> V(Text("us-east-1"))]>>,
      !.resources =
        <<ForEach(Block("aws_ebs_volume", "each",
                        "size" :> Var("size") @@ "type" :> <<<<"each", "value">>>>),
                  V(Object("a" :> Text("gp2") @@ "b" :> Text("gp3")))),
          Counted(Block("aws_eip", "none", <<>>), V(Truth(FALSE))),
          Counted(Block("aws_eip", "unknown", <<>>), Local("nowhere"))>>,
      !.modules = <<Call("again", ".", <<>>), Call("net", "registry/net", <<>>)>>]

\* Two gateways, one with most of the traffic.
Net ==
    [Empty EXCEPT
      !.variables = <<Variable("gb", V(Number(40)))>>,
      !.resources =
        <<Block("aws_nat_gateway", "a", "monthly_data_processed_gb" :> Var("gb")),
          Block("aws_nat_gateway", "b", "monthly_data_processed_gb" :> V(Number(10)))>>]

\* A local with a fallback.
Trying ==
    [Empty EXCEPT
      !.locals = "whole" :> V(Number(600))
                   @@ "inner" :> <<<<"local", "whole">>, <<"value", Number(1)>>>>,
      !.resources = <<Block("aws_ebs_volume", "data",
                            "size" :> Local("inner") @@ "type" :> V(Text("gp2")))>>]

\* A module that cannot be read.
Unreadable == [Empty EXCEPT !.modules = <<Call("bad", "./bad", <<>>)>>]

\* What the rules look for: development machines and databases, a load balancer
\* with a listener and one without, a disk in use and one that is not.
Fleet ==
    [Empty EXCEPT
      !.resources =
        <<Block("aws_instance", "dev", "instance_type" :> V(Text("m5.large"))),
          Block("aws_db_instance", "dev",
                "multi_az" :> V(Truth(TRUE)) @@ "allocated_storage" :> V(Number(300))),
          Block("aws_lb", "api", <<>>), Block("aws_lb", "spare", <<>>),
          Block("aws_lb_listener", "api", "load_balancer_arn" :> V(Text("loadbalancer/api/1"))),
          Block("azurerm_linux_virtual_machine", "dev",
                "size" :> V(Text("Standard_D2s_v3"))
                  @@ "data_disk_0_managed_disk_id" :> V(Text("disks/data"))),
          Block("azurerm_managed_disk", "data", "disk_size_gb" :> V(Number(200))),
          Block("azurerm_managed_disk", "old", "disk_size_gb" :> V(Number(200))),
          Counted(Block("google_compute_instance", "batch",
                        "machine_type" :> V(Text("n1-standard-8"))), V(Number(3)))>>]

MCDirectories ==
    "stack" :> Stack @@ "./web" :> Web @@ "net" :> Net @@ "unreadable" :> Unreadable
      @@ "./bad" :> Broken @@ "fleet" :> Fleet @@ "trying" :> Trying

MCLocalSources == {"./web", "./bad", "./gone"}

MCFetched == "registry/net" :> "net"

Unit(source, inputs, includes) ==
    [source |-> source, inputs |-> inputs, locals |-> "gb" :> V(Number(70)),
     includes |-> includes, above |-> "root"]

MCUnits ==
    "root" :> [Unit("", "gb" :> V(Number(90)) @@ "zones" :> V(List(<<Text("a")>>)), <<>>)
                 EXCEPT !.above = None]
      @@ "live" :> Unit("../net", "gb" :> Local("gb"),
                   <<[find |-> TRUE, path |-> None], [find |-> FALSE, path |-> "nowhere"]>>)
      @@ "inherit" :> Unit("../net", <<>>, <<[find |-> TRUE, path |-> None]>>)
      @@ "sourceless" :> Unit("", <<>>, <<[find |-> FALSE, path |-> "torn"]>>)
      @@ "torn" :> Broken

MCSourcePath == <<"live", "../net">> :> "net" @@ <<"inherit", "../net">> :> "net"

At(module, name, key) == [module |-> module, name |-> name, key |-> key]
Planning(mode, kind, address, values) ==
    [mode |-> mode, kind |-> kind, address |-> address, values |-> values]
Change(kind, address, actions, before, after) ==
    [kind |-> kind, address |-> address, actions |-> actions, before |-> before,
     after |-> after]

Disk(type, size) == "type" :> Text(type) @@ "size" :> Number(size)

MCPlan ==
    [regions |-> "aws" :> None @@ "google" :> "us-east-1",
     planned |-> [resources |-> <<Planning("data", "aws_ami", At(<<>>, "ami", ""), <<>>),
                                  Planning("managed", "aws_ebs_volume", At(<<>>, "d", ""),
                                           Disk("gp2", 600))>>,
                  children |-> <<None,
                    [resources |-> <<Planning("managed", "aws_ebs_volume",
                                              At(<<"m">>, "d", "0"), Disk("gp3", 50))>>,
                     children |-> <<>>]>>],
     changes |-> <<Change("aws_ebs_volume", At(<<>>, "d", ""), <<"delete", "create">>,
                          Disk("gp2", 50), Disk("gp2", 600)),
                   Change("aws_ebs_volume", At(<<>>, "old", ""), <<"delete">>,
                          Disk("gp2", 900), <<>>),
                   Change("aws_ebs_volume", At(<<"m">>, "d", "0"), <<"no-op">>,
                          Disk("gp3", 50), Disk("gp3", 50))>>]

\* An older plan, without planned values, of two instances of one block.
MCOldPlan ==
    [regions |-> <<>>, planned |-> None,
     changes |-> <<Change("aws_ebs_volume", At(<<>>, "d", "0"), <<"create">>, <<>>,
                          Disk("gp2", 10)),
                   Change("aws_ebs_volume", At(<<>>, "d", "1"), <<"create">>, <<>>,
                          Disk("io1", 20)),
                   Change("aws_ebs_volume", At(<<>>, "old", ""), <<"delete">>,
                          Disk("gp2", 900), <<>>)>>]

MCTemplate ==
    [parameters |-> "Size" :> Number(700) @@ "Type" :> None,
     mappings |-> "Types" :> ("us-east-1" :> ("volume" :> Text("gp2"))),
     resources |->
       "disk" :> [type |-> "AWS::EC2::Volume",
                  properties |->
                    "Size" :> <<"ref", "Size">>
                      @@ "VolumeType" :> <<"find", <<"value", Text("Types")>>,
                                           <<"ref", "AWS::Region">>,
                                           <<"value", Text("volume")>>>>
                      @@ "Name" :> <<"join", <<<<"ref", "Type">>, <<"att", "vm.Arn">>>>>>]
         @@ "vm" :> [type |-> "AWS::EC2::Instance",
                     properties |-> "InstanceType" :> <<"value", Text("m5.large")>>]
         @@ "search" :> [type |-> "AWS::OpenSearchService::Domain",
                         properties |-> "ClusterConfig" :>
                           <<"value", Object("InstanceCount" :> Number(3))>>]
         @@ "role" :> [type |-> "AWS::IAM::Role", properties |-> <<>>]]

MCFiles ==
    "plan.json" :> [suffix |-> "json", keys |-> <<"format_version", "resource_changes">>,
                    content |-> MCPlan]
      @@ "old.json" :> [suffix |-> "json", keys |-> <<"resource_changes">>,
                        content |-> MCOldPlan]
      @@ "template.json" :> [suffix |-> "json", keys |-> <<"Description", "Resources">>,
                             content |-> MCTemplate]
      @@ "notes.txt" :> [suffix |-> "txt", keys |-> <<>>, content |-> <<>>]

MCOrders == {<<"inner", "whole", "gb", "vm", "disk", "search", "role">>,
             <<"role", "search", "disk", "vm", "gb", "whole", "inner">>}

-----------------------------------------------------------------------------

\* A catalog of a few kinds; everything else is free.  Prices are per unit, and
\* double in Europe.
MCSubtotal(r, region, list) ==
    LET times == IF ResolveRegion(r, region) = "eu-west-1" THEN 2 ELSE 1
        attr(a, default) == IF Has(r, a, "number") THEN AttrInt(r, a) ELSE default
    IN  CASE r.ref.kind = "aws_ebs_volume" ->
               IF AttrString(r, "type") \notin {"gp2", "gp3"} THEN Failed
               ELSE times * list[AttrString(r, "type")] * attr("size", 8)
          [] r.ref.kind = "aws_instance" ->
               IF HasPrefix(AttrString(r, "instance_type"), {"m5"}) THEN times * list.vm
               ELSE times * (list.vm \div 3)
          [] r.ref.kind = "aws_db_instance" ->
               (IF AttrBool(r, "multi_az") THEN 2 ELSE 1)
                 * (list.vm + attr("allocated_storage", 20))
          [] r.ref.kind = "aws_lb" -> 20 + attr("monthly_lcu_hours", 5)
          [] r.ref.kind = "azurerm_linux_virtual_machine" ->
               IF AttrString(r, "size") = "Standard_B2s_v2" THEN 30 ELSE 70
          [] r.ref.kind = "azurerm_managed_disk" -> attr("disk_size_gb", 0)
          [] r.ref.kind = "aws_opensearch_domain" ->
               list.vm * attr("cluster_config_instance_count", 1)
          [] r.ref.kind = "google_compute_instance" ->
               IF HasPrefix(AttrString(r, "machine_type"), {"n1"}) THEN 50 ELSE 40
          [] r.ref.kind = "aws_nat_gateway" ->
               list.nat * (attr("monthly_hours", 730) + attr("monthly_data_processed_gb", 0))
                 + attr("monthly_inter_az_gb", 0)
          [] OTHER -> 0

List4(gp2, gp3, vm, nat) == [gp2 |-> gp2, gp3 |-> gp3, vm |-> vm, nat |-> nat]
MCPriceLists ==
    "USD" :> {List4(5, 4, 900, 3), List4(5, 6, 900, 3)} @@ "EUR" :> {List4(4, 3, 800, 2)}
MCStub == List4(0, 0, 0, 0)

MCProjectConfig ==
    [path \in DOMAIN MCDirectories \cup DOMAIN MCUnits \cup DOMAIN MCFiles |->
        CASE path = "net" -> "currency" :> "EUR"
          [] path = "unreadable" -> "no_remote_modules" :> TRUE
          [] OTHER -> <<>>]

MCUserConfigs == {"region" :> "eu-west-1" @@ "no_cache" :> TRUE}

Usual(command, path) ==
    [command |-> command, path |-> path, flags |-> <<>>, env |-> <<>>, vars |-> <<>>,
     varFiles |-> <<>>, usage |-> None, whatIf |-> <<>>, save |-> FALSE,
     baseline |-> FALSE, saved |-> FALSE, gate |-> 0, policy |-> None, answers |-> None]

Gateway(name) == Ref("aws_nat_gateway", <<>>, name, "")
MCUsage ==
    [defaults |-> "aws_nat_gateway" :> ("monthly_data_processed_gb" :> Number(300)),
     entries |-> Gateway("b") :> ("monthly_data_processed_gb" :> Number(500))]

Projects == {"stack", "net", "live", "plan.json", "template.json"}

MCInvocations ==
    {[Usual("estimate", p) EXCEPT !.save = TRUE] : p \in Projects}
      \cup {[Usual("estimate", "stack") EXCEPT !.flags = "offline" :> TRUE,
                    !.env = "region" :> "us-east-1", !.gate = 500, !.save = TRUE],
            [Usual("estimate", "stack") EXCEPT !.env = "no_remote_modules" :> TRUE,
                    !.save = TRUE],
            [Usual("estimate", "stack") EXCEPT !.vars = "size" :> Number(50),
                    !.varFiles = <<"replicas" :> Number(0) @@ "size" :> Number(9)>>],
            [Usual("estimate", "stack") EXCEPT !.varFiles = <<Broken>>],
            [Usual("estimate", "net") EXCEPT !.usage = Broken],
            [Usual("estimate", "net") EXCEPT !.env = "currency" :> "XYZ"]}
      \cup {Usual("estimate", p) :
              p \in {"unreadable", "sourceless", "inherit", "torn", "old.json", "notes.txt"}}
      \cup {[Usual("diff", p) EXCEPT !.gate = 100] : p \in Projects}
      \cup {[Usual("diff", "stack") EXCEPT !.flags = "offline" :> TRUE]}
      \cup {Usual("recommend", "stack"), Usual("recommend", "fleet"),
            Usual("recommend", "plan.json"),
            [Usual("recommend", "net") EXCEPT !.usage = MCUsage, !.whatIf =
               <<Gateway("b") :> ("monthly_inter_az_gb" :> Number(7))>>]}
      \cup {[Usual("comment", "net") EXCEPT !.baseline = b] : b \in BOOLEAN}
      \cup {[Usual("policy", "net") EXCEPT !.baseline = TRUE, !.gate = 100],
            [Usual("policy", "net") EXCEPT !.saved = TRUE, !.gate = 4000],
            [Usual("policy", "net") EXCEPT !.policy = Broken]}
      \cup {Usual("configure", "net"),
            [Usual("configure", "net") EXCEPT !.answers = "currency" :> "EUR"],
            [Usual("configure", "net") EXCEPT !.answers = "currency" :> "pounds"]}

\* An estimate and a comparison with it: without remote modules, and with a
\* usage file.
MCUnlikeInvocations ==
    {[Usual(command, "stack") EXCEPT !.env = "no_remote_modules" :> TRUE,
                                     !.save = command = "estimate"] :
       command \in {"estimate", "diff"}}
MCUsageInvocations ==
    {[Usual("estimate", "net") EXCEPT !.usage = MCUsage, !.save = TRUE], Usual("diff", "net")}

MCTryingInvocations == {Usual("estimate", "trying")}

MCDiskAttributes == {"managed_disk_id", "data_disk_0_managed_disk_id"}
MCNonProdNames == {"dev"}
MCPrefix == "m5.large" :> "m5" @@ "n1-standard-8" :> "n1"
MCMentions ==
    {<<"loadbalancer/api/1", Ref("aws_lb", <<>>, "api", "")>>,
     <<"disks/data", Ref("azurerm_managed_disk", <<>>, "data", "")>>}

-----------------------------------------------------------------------------

\* What is parsed is what the configuration means: every reference resolves to
\* what it names, in any order of evaluation; what is passed to a module wins
\* over its tfvars, these over its defaults; a block yields as many resources
\* as it says; a unit's inputs are those of the nearest file; and a plan's
\* resources are all there, once, with their actions.
ParsesAsMeant ==
    pc \in {"overlay", "price"} /\ (pc = "overlay" \/ ~Is({"estimate", "recommend"})) =>
        \A order \in Orders : AsMeant(cmd.path, Options(cmd, resolved), order, resources)
=============================================================================
