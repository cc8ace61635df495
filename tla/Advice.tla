------------------------------- MODULE Advice -------------------------------
(***************************************************************************)
(* internal/recommend: the rules for AWS, Azure and GCP, and the engine    *)
(* that keeps what saves money.  A rule proposes changes to the attributes *)
(* of one resource, a tree rule to those of several; a proposal is a       *)
(* function from references to attributes.                                 *)
(***************************************************************************)
EXTENDS Estimates, Values

CONSTANTS
    DiskAttributes, \* the attribute names with "data_disk" or "managed_disk" in them
    NonProdNames,   \* the names with "dev", "test", ... in them
    Prefix,         \* string -> what is before its separator: family, tier
    Mentions,       \* {<<s, ref>> : the string s refers to that resource by name}
    Subtotal(_, _, _)   \* resource, default region, prices: its subtotal or Failed

LooksLikeNonProd(ref) == ({ref.name, ref.key} \cup Range(ref.module)) \cap NonProdNames # {}

HasPrefix(s, prefixes) == s \in DOMAIN Prefix /\ Prefix[s] \in prefixes

-----------------------------------------------------------------------------
(* The rules for one resource.  Each returns the set of the changes that it *)
(* proposes: none, or one.                                                 *)

\* A quantity that is suspicious from some number on.
Quantity(r, kind, attr, least, to) ==
    IF r.ref.kind = kind /\ AttrInt(r, attr) >= least THEN {Setting(attr, Number(to))} ELSE {}

\* Another model of the same thing.
Swap(r, kind, attr, applies, to) ==
    IF r.ref.kind = kind /\ applies THEN {Setting(attr, Text(to))} ELSE {}

Mapped(r, kinds, attr, map) ==
    IF r.ref.kind \in kinds /\ AttrString(r, attr) \in DOMAIN map
    THEN {Setting(attr, Text(map[AttrString(r, attr)]))} ELSE {}

\* What is enough for development.
IfNonProd(r, changes) == IF LooksLikeNonProd(r.ref) THEN changes ELSE {}

\* Something to look at, without a change.
Audit(condition) == IF condition THEN {<<>>} ELSE {}

Half(r, attr) == AttrInt(r, attr) \div 2
OneLess(r, attr) == AttrInt(r, attr) - 1

Gp2ToGp3(r) ==
    Swap(r, "aws_ebs_volume", "type", AttrString(r, "type") = "gp2", "gp3")
EBSRightSize(r) == Quantity(r, "aws_ebs_volume", "size", 500, Half(r, "size"))
EBSGp3OverprovisionedIOPS(r) ==
    IF AttrString(r, "type") # "gp3" THEN {}
    ELSE Quantity(r, "aws_ebs_volume", "iops", 3001, 3000)
IdleEIP(r) == Audit(r.ref.kind = "aws_eip")

\* By its identifier or its name.
SingleAZDB(r) ==
    IF /\ r.ref.kind = "aws_db_instance" /\ AttrBool(r, "multi_az")
       /\ AttrString(r, "identifier") \in NonProdNames \/ LooksLikeNonProd(r.ref)
    THEN {Setting("multi_az", Truth(FALSE))} ELSE {}

RDSStorageRightSize(r) ==
    Quantity(r, "aws_db_instance", "allocated_storage", 200, Half(r, "allocated_storage"))
LambdaMemoryRightSize(r) ==
    Quantity(r, "aws_lambda_function", "memory_size", 1025,
             IF AttrInt(r, "memory_size") >= 4096 THEN Half(r, "memory_size") ELSE 1024)
S3StorageClassTransition(r) ==
    Audit(r.ref.kind = "aws_s3_bucket" /\ AttrInt(r, "standard_storage_gb") >= 1000)
CloudWatchLogRetention(r) ==
    Quantity(r, "aws_cloudwatch_log_group", "monthly_data_stored_gb", 10,
             Half(r, "monthly_data_stored_gb"))

MapToBurstable ==
    "m5.large" :> "t3.medium" @@ "m6i.large" :> "t3.medium"
      @@ "m5.xlarge" :> "t3.large" @@ "m6i.xlarge" :> "t3.large"
      @@ "m5.2xlarge" :> "t3.xlarge" @@ "m6i.2xlarge" :> "t3.xlarge"
      @@ "m5.4xlarge" :> "t3.2xlarge" @@ "m6i.4xlarge" :> "t3.2xlarge"

InstanceFamilyDowngrade(r) ==
    IfNonProd(r, Mapped(r, {"aws_instance"}, "instance_type", MapToBurstable))
RedshiftRightSize(r) ==
    Quantity(r, "aws_redshift_cluster", "number_of_nodes", 4, OneLess(r, "number_of_nodes"))
NeptuneSingleNode(r) ==
    IfNonProd(r, IF r.ref.kind = "aws_neptune_cluster"
                 THEN {Setting("reader_count", Number(0))} ELSE {})
KinesisShardRightSize(r) ==
    Quantity(r, "aws_kinesis_stream", "shard_count", 4, OneLess(r, "shard_count"))

AWSRules(r) ==
    Gp2ToGp3(r) \cup EBSRightSize(r) \cup EBSGp3OverprovisionedIOPS(r) \cup IdleEIP(r)
      \cup SingleAZDB(r) \cup RDSStorageRightSize(r) \cup LambdaMemoryRightSize(r)
      \cup S3StorageClassTransition(r) \cup CloudWatchLogRetention(r)
      \cup InstanceFamilyDowngrade(r) \cup RedshiftRightSize(r) \cup NeptuneSingleNode(r)
      \cup KinesisShardRightSize(r)

AzureVMs == {"azurerm_linux_virtual_machine", "azurerm_windows_virtual_machine"}

MapAzureToBurstable ==
    [s \in {"Standard_D2s_v3", "Standard_D2s_v4", "Standard_D2s_v5"} |->
        "Standard_B2s_v2"]
      @@ [s \in {"Standard_D4s_v3", "Standard_D4s_v4", "Standard_D4s_v5"} |->
            "Standard_B4s_v2"]
      @@ [s \in {"Standard_D8s_v3", "Standard_D8s_v4", "Standard_D8s_v5"} |->
            "Standard_B8s_v2"]

AzureBurstableForDev(r) == IfNonProd(r, Mapped(r, AzureVMs, "size", MapAzureToBurstable))
AzureStorageCoolTier(r) ==
    Audit(r.ref.kind = "azurerm_storage_account" /\ AttrInt(r, "monthly_storage_gb") >= 500)
AzurePostgresB1Right(r) ==
    IfNonProd(r, Swap(r, "azurerm_postgresql_flexible_server", "sku_name",
                      HasPrefix(AttrString(r, "sku_name"), {"GP"}), "B_Standard_B1ms"))
AzureLogAnalyticsRetention(r) ==
    Quantity(r, "azurerm_log_analytics_workspace", "monthly_retained_gb", 100,
             Half(r, "monthly_retained_gb"))
AzureRedisBasicForDev(r) ==
    IfNonProd(r, Swap(r, "azurerm_redis_cache", "sku_name",
                      AttrString(r, "sku_name") # "Basic", "Basic"))
AzureUnattachedDisk(r) ==
    Audit(r.ref.kind = "azurerm_managed_disk" /\ AttrInt(r, "disk_size_gb") >= 100)

AzureRules(r) ==
    AzureBurstableForDev(r) \cup AzureStorageCoolTier(r) \cup AzurePostgresB1Right(r)
      \cup AzureLogAnalyticsRetention(r) \cup AzureRedisBasicForDev(r) \cup AzureUnattachedDisk(r)

GCPPDStandardToBalanced(r) ==
    Swap(r, "google_compute_disk", "type", AttrString(r, "type") = "pd-standard", "pd-balanced")
GCPCloudSQLNonProdTier(r) ==
    IfNonProd(r, Swap(r, "google_sql_database_instance", "tier",
                      ~HasPrefix(AttrString(r, "tier"), {"db-f1", "db-g1"}), "db-f1-micro"))
GCPStorageBucketColdline(r) ==
    Audit(r.ref.kind = "google_storage_bucket" /\ AttrInt(r, "monthly_storage_gb") >= 1000)
GCPUnusedStaticIP(r) == Audit(r.ref.kind = "google_compute_address" /\ ~AttrBool(r, "in_use"))
GCPE2InsteadOfN1(r) ==
    Swap(r, "google_compute_instance", "machine_type",
         HasPrefix(AttrString(r, "machine_type"), {"n1"}), "e2-standard-2")
GCPLoggingRetention(r) ==
    Quantity(r, "google_logging_project_bucket", "monthly_ingestion_gib", 50,
             Half(r, "monthly_ingestion_gib"))

GCPRules(r) ==
    GCPPDStandardToBalanced(r) \cup GCPCloudSQLNonProdTier(r) \cup GCPStorageBucketColdline(r)
      \cup GCPUnusedStaticIP(r) \cup GCPE2InsteadOfN1(r) \cup GCPLoggingRetention(r)

Propose(r) == AWSRules(r) \cup AzureRules(r) \cup GCPRules(r)

-----------------------------------------------------------------------------
(* Rules for several.                                                      *)

OfKind(resources, kinds) == {r \in Range(resources) : r.ref.kind \in kinds}

Gateways(resources) == {i \in DOMAIN resources : resources[i].ref.kind = "aws_nat_gateway"}
Processed(nat) == AttrInt(nat, "monthly_data_processed_gb")

\* Faulty Moved: the survivor's own is counted.
MovedAll(resources, survivor) ==
    Total([i \in DOMAIN resources |->
             IF i \in Gateways(resources) THEN Processed(resources[i]) ELSE 0])

\* What goes through the gateways to be removed.
Moved(resources, survivor) ==
    Total([i \in DOMAIN resources |->
             IF i \in Gateways(resources) \ {survivor} THEN Processed(resources[i]) ELSE 0])

\* The first stays, and carries the traffic of the others between zones.
Between(resources, survivor) ==
    AttrInt(resources[survivor], "monthly_inter_az_gb") + Moved(resources, survivor)

Idle == [a \in {"monthly_data_processed_gb", "monthly_hours"} |-> Number(0)]

NATGatewayConsolidation(resources) ==
    LET nats == Gateways(resources)
        survivor == Min(nats)
    IN  IF Cardinality(nats) < 2 THEN {}
        ELSE {[ref \in {resources[i].ref : i \in nats} |->
                 IF ref = resources[survivor].ref
                 THEN Setting("monthly_inter_az_gb", Number(Between(resources, survivor)))
                 ELSE Idle]}

\* No listener names it.
IdleALB(resources) ==
    LET arns == {AttrString(l, "load_balancer_arn") :
                   l \in OfKind(resources, {"aws_lb_listener"})}
        idle == {r \in OfKind(resources, {"aws_lb"}) :
                   \A arn \in arns : <<arn, r.ref>> \notin Mentions}
    IN  {Setting(r.ref, Setting("monthly_lcu_hours", Number(0))) : r \in idle}

\* No attribute of a machine names it: a data_disk block is not a string.
AzureOrphanedDisk(resources) ==
    LET ids == {AttrString(vm, a) : vm \in OfKind(resources, AzureVMs), a \in DiskAttributes}
        orphans == {r \in OfKind(resources, {"azurerm_managed_disk"}) :
                     /\ \A id \in ids : <<id, r.ref>> \notin Mentions
                     /\ AttrInt(r, "disk_size_gb") # 0}
    IN  {Setting(r.ref, Setting("disk_size_gb", Number(0))) : r \in orphans}

\* For a family with three members; the calculator does not read the attribute.
GCPCommittedUseEligible(resources) ==
    LET machine(i) == AttrString(resources[i], "machine_type")
        machines == {i \in DOMAIN resources :
                       resources[i].ref.kind = "google_compute_instance"
                         /\ machine(i) \in DOMAIN Prefix}
        fleets == {{i \in machines : Prefix[machine(i)] = family} :
                     family \in {Prefix[machine(i)] : i \in machines}}
    IN  {[ref \in {resources[i].ref : i \in fleet} |-> Setting("cud_purchased", Truth(TRUE))] :
           fleet \in {f \in fleets : Cardinality(f) >= 3}}

ProposeTree(resources) ==
    NATGatewayConsolidation(resources) \cup IdleALB(resources)
      \cup AzureOrphanedDisk(resources) \cup GCPCommittedUseEligible(resources)

-----------------------------------------------------------------------------
(* The engine: a proposal is kept if it saves something.  The order in      *)
(* which proposals are made and shown is Calculator's.                      *)

\* indexResources, indexCosts: the last of equal references.
ResourceOf(resources, ref) ==
    resources[SelectLastInSeq(resources, LAMBDA r : r.ref = ref)]

\* applyProposal: the alternative is not scheduled for anything.
Changed(r, attrs) == [WithAttrs(r, attrs) EXCEPT !.action = "none"]

\* An alternative that cannot be priced is no advice.
Score(resources, changes, source, region, prices) ==
    LET refs == SetToSeq(DOMAIN changes)
        after(ref) == Subtotal(Changed(source[ref], changes[ref]), region, prices)
        before(ref) == Subtotal(ResourceOf(resources, ref), region, prices)
    IN  IF \E ref \in DOMAIN changes : after(ref) = Failed THEN 0
        ELSE Rounded(Total([i \in DOMAIN refs |-> before(refs[i]) - after(refs[i])]),
                     CentGrain)

\* A proposal for several must be about resources that there are.
Recommend(resources, region, prices) ==
    LET scored(changes, source) ==
            [changes |-> changes,
             savings |-> Score(resources, changes, source, region, prices)]
        single == UNION {{scored(Setting(r.ref, c), Setting(r.ref, r)) : c \in Propose(r)} :
                           r \in Range(resources)}
        tree == {scored(changes, [ref \in DOMAIN changes |-> ResourceOf(resources, ref)]) :
                   changes \in {p \in ProposeTree(resources) :
                       DOMAIN p # {} /\ DOMAIN p \subseteq {r.ref : r \in Range(resources)}}}
    IN  {advice \in single \cup tree : advice.savings > 0}
=============================================================================
