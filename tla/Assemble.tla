------------------------------- MODULE Assemble -------------------------------
(***************************************************************************)
(* AssembleHCL (internal/catalog/assemble.go): an environment becomes the  *)
(* list of documents that Terraform plans as one module.  The network and  *)
(* the security group come first, then one document per component in the   *)
(* order given, then the Vault droplets, the input variables, the project  *)
(* binding and the provider pins.  Any error discards everything.          *)
(*                                                                         *)
(* An environment is a record                                              *)
(*   provider, name, opts   "mixed_case", "baseline", "not_offered", ...   *)
(*   expose                 the ports open to everyone                     *)
(*   ingress                further ingress rules, by label                *)
(*   components             the components, in order                       *)
(*   project                the DigitalOcean project, or no one            *)
(*   vault                  the Vault droplets asked for, or none          *)
(***************************************************************************)
EXTENDS Mitigation, PlatformComponents, SequencesExt

CONSTANT Environments   \* the environments to assemble

\* The components of an environment are a list in which a machine has a first
\* instance, as a count left out is one, and it has one Vault cluster and one
\* project at most.
ASSUME EnvironmentsAssumption ==
  \A e \in Environments :
    /\ Len(e.components) \in Nat /\ DOMAIN e.components = 1..Len(e.components)
    /\ \A i \in 1..Len(e.components) :
         LET c == e.components[i]
         IN /\ c = Component(c.type, c.name, c.opts, c.parts, c.target)
            /\ c.type = "virtual-machine" => "-1" \in Parts(c, "instances")
    /\ \A v, w \in e.vault : v = w
    /\ \A p, q \in e.project : p = q

\* tfName goes character by character, except for an empty name: what it makes
\* of a first instance's name ends as the name does.
ASSUME FoldedAssumption ==
  \A e \in Environments : \A i \in 1..Len(e.components) :
    LET n == e.components[i].target IN n # NoTarget => TfName(n \o "-1") = TfName(n) \o "-1"

VARIABLES
  env,          \* what is assembled
  components,   \* its components, as binding and the baseline change them
  group,        \* the security group's rules and tags, once translated
  phase,        \* the step of AssembleHCL that comes next
  index,        \* the component that comes next
  docs,         \* the documents so far, each a set of blocks
  pinned        \* the providers in the required_providers block, {} when there is none

vars == <<env, components, group, phase, index, docs, pinned>>

On(opt)  == opt \in env.opts
Exact    == ~On("mixed_case")
DO       == env.provider = "digitalocean"
NetName  == env.name \o "-net"
SGName   == env.name \o "-sg"
NoGroup  == [rules |-> <<>>, tags |-> {}]
Elements == ToSet(components)
All      == UNION ToSet(docs)

-----------------------------------------------------------------------------
(* What the environment needs, found by a scan of its components.          *)

\* Mutant: a cache is not thought of as networked.
NetworkedTypesWithoutCache ==
  {"managed-database", "load-balancer", "attach-to-existing-alb",
   "key-value-store", "kv-store", "keyvalue-store", "dynamodb"} \cup KubernetesTypes

NetworkedTypes ==
  {"managed-database", "cache", "load-balancer", "attach-to-existing-alb",
   "key-value-store", "kv-store", "keyvalue-store", "dynamodb"} \cup KubernetesTypes

MachineTypes == {"virtual-machine", "virtual-machine-scale-group"}

HasVM == \/ env.vault # {}
         \/ \E c \in Elements : SelfHosted(env.provider, c) \/ c.type \in MachineTypes

HasNetworked == HasVM \/ \E c \in Elements : c.type \in NetworkedTypes

\* DeriveSecurityBaseline restricts egress when there is compute, which a
\* service that its author places on a machine does not count as.
DeriveSecurityBaseline ==
  On("baseline") /\ \E c \in Elements : c.type \in MachineTypes \/ ~NativelySupported(c.type, env.provider)

managedInstanceProfiles ==
  {c.name : c \in {d \in Elements : d.type = "access-policy" \/ (d.type = "iam" /\ Has(d, "instance_profile"))}}

Context(network, sg) ==
  [provider |-> env.provider, offered |-> ~On("not_offered"), network |-> network, group |-> sg,
   profiles |-> managedInstanceProfiles, project |-> env.project]

NoContext        == Context("", "")
ComponentContext == Context(NetName, IF group = NoGroup THEN "" ELSE SGName)

-----------------------------------------------------------------------------
(* One component (the loop's switch): refused, or its blocks.              *)

Configured(c, S) == OrRefuse(~Has(c, "no_config"), S)

AssembleVM(ctx, c)         == Configured(c, OrRefuse(TranslateVM(ctx, c), RenderVMHCL(ctx, c)))
AssembleScaleGroup(ctx, c) == Configured(c, OrRefuse(TranslateScaleGroup(ctx, c), RenderScaleGroupHCL(ctx, c)))
AssembleAttach(ctx, c) ==
  Configured(c, OrRefuse(TranslateAttachToExistingALB(ctx, c), RenderAttachToExistingALBHCL(ctx, c)))

\* A policy that something assumes is a role.
AssembleAccessPolicy(ctx, c) ==
  IF Has(c, "assume_service") \/ Has(c, "instance_profile")
    THEN OrRefuse(TranslateIAM(ctx, c), RenderIAMHCL(ctx, c))
    ELSE OrRefuse(TranslateAccessPolicy(c), RenderAccessPolicyHCL(ctx, c))

AssembleIAM(ctx, c)        == OrRefuse(TranslateIAM(ctx, c), RenderIAMHCL(ctx, c))
AssembleMonitoring(ctx, c) == Configured(c, OrRefuse(TranslateMonitoring(ctx, c), RenderMonitoringHCL(ctx, c)))
AssembleDNS(c)             == Configured(c, OrRefuse(TranslateCloudflareDNS(c), RenderCloudflareDNSHCL(c)))
AssembleObjectStorage(ctx, c) == OrRefuse(TranslateObjectStorage(ctx, c), RenderObjectStorageHCL(ctx, c))
AssembleStaticSite(ctx, c) == OrRefuse(TranslateStaticSite(ctx, c), RenderStaticSiteHCL(ctx, c))
AssembleRegistry(ctx, c)   == RenderContainerRegistryHCL(ctx, c)
AssembleReservedIP(ctx, c) == RenderReservedIPHCL(ctx, c)
AssembleVPNAccess(ctx, c)  == OrRefuse(TranslateVPNAccess(ctx, c), RenderVPNAccessHCL(ctx, c))

\* On DigitalOcean secrets and keys are Vault on the cluster of the environment.
inferDOKSClusterName == {c \in Elements : c.type \in KubernetesTypes}
OnCluster(c) == Has(c, "cluster_name") \/ inferDOKSClusterName # {}

AssembleSecrets(ctx, c) ==
  IF DO THEN OrRefuse(OnCluster(c), assembleVaultHAAlias(ctx, c))
        ELSE OrRefuse(TranslateSecrets(ctx, c), RenderSecretsHCL(ctx, Canonical(c)))

AssembleKMS(ctx, c) ==
  IF DO THEN OrRefuse(OnCluster(c), assembleVaultHAAlias(ctx, c))
        ELSE OrRefuse(TranslateKMS(ctx, c), RenderKMSHCL(ctx, c))

AssembleDatabase(ctx, c) ==
  Configured(c, OrRefuse(TranslateManagedDatabase(ctx, c), RenderManagedDatabaseHCL(ctx, c)))
AssembleQueue(ctx, c)      == OrRefuse(TranslateQueue(ctx, c), RenderMessagingHCL(ctx, Canonical(c), FALSE))
AssembleStream(ctx, c)     == OrRefuse(TranslateStream(ctx, c), RenderMessagingHCL(ctx, Canonical(c), TRUE))
AssembleServerless(ctx, c) == OrRefuse(TranslateServerless(ctx, c), RenderServerlessHCL(ctx, Canonical(c)))
AssembleWebService(ctx, c) == OrRefuse(TranslateWebService(ctx, c), RenderWebServiceHCL(ctx, c))
AssembleCache(ctx, c)      == OrRefuse(TranslateCache(ctx, c), RenderCacheHCL(ctx, Canonical(c)))
AssembleCDN(ctx, c)        == Configured(c, OrRefuse(TranslateCDN(ctx, c), RenderCDNHCL(ctx, CanonicalEdge(c))))
AssembleWAF(ctx, c)        == OrRefuse(TranslateWAF(ctx, c), RenderWAFHCL(ctx, CanonicalEdge(c)))
AssembleKubernetes(ctx, c) == OrRefuse(TranslateKubernetes(ctx, c), RenderKubernetesHCL(ctx, Canonical(c)))

\* Without a kind of target a balancer fronts a machine, and without
\* listeners it listens on port 80.
AssembleLoadBalancer(ctx, c) ==
  LET to == [c EXCEPT !.opts = IF Has(c, "group_target") THEN c.opts ELSE c.opts \cup {"vm_target"}]
      lb == IF Parts(c, "listeners") = {} THEN Giving(to, "listeners", {"_80"}) ELSE to
  IN OrRefuse(TranslateLoadBalancer(ctx, lb), RenderLoadBalancerHCL(ctx, lb))

AssembleEmail(ctx, c)      == Configured(c, OrRefuse(TranslateEmail(ctx, c), RenderEmailHCL(ctx, c)))
AssembleVolume(ctx, c)     == Configured(c, OrRefuse(TranslateVMVolume(ctx, c), RenderVMVolumeHCL(ctx, c)))
AssemblePrefixList(ctx, c) == Configured(c, OrRefuse(TranslatePrefixList(ctx, c), RenderPrefixListHCL(c)))
AssembleSynthetics(ctx, c) == OrRefuse(TranslateSynthetics(ctx, c), RenderSyntheticsHCL(ctx, c))
AssembleTrigger(ctx, c)    == OrRefuse(TranslateScheduledTrigger(ctx, c), RenderScheduledTriggerHCL(ctx, c))
AssembleKeyValue(ctx, c)   == OrRefuse(TranslateKeyValueStore(ctx, c), RenderKeyValueStoreHCL(ctx, c))
AssembleCertificate(ctx, c) == OrRefuse(TranslateTLSCertificate(ctx, c), RenderTLSCertificateHCL(ctx, c))
AssembleTracing(ctx, c)    == OrRefuse(TranslateTracing(ctx, c), RenderTracingHCL(ctx, c))
AssembleIdentity(ctx, c)   == OrRefuse(TranslateWorkloadIdentity(ctx, c), RenderWorkloadIdentityHCL(ctx, c))
AssembleVaultHA(ctx, c)    == OrRefuse(TranslateVaultHA(ctx, c), RenderVaultHAHCL(ctx, c))
AssemblePipeline(ctx, c) ==
  OrRefuse(TranslatePipelineControlPlane(ctx, c), RenderPipelineControlPlaneHCL(ctx, c))

ReservedIPTypes == {"reserved-ip", "static-ip", "elastic-ip"}
VPNTypes        == {"vpn-access", "jit-access", "vpn-door"}
VolumeTypes     == {"vm-volume", "block-storage", "volume"}
StaticSiteTypes == {"static-site", "static-website", "static-hosting", "frontend-app", "spa"}
TracingTypes    == {"tracing", "distributed-tracing", "tempo", "trace-collector", "otel-tracing"}
CertificateTypes == {"tls-certificate", "certificate", "cert-manager", "managed-certificate"}
VaultTypes      == {"vault-ha", "vault", "vault-cluster"}
IdentityTypes   == {"workload-identity", "instance-identity", "workload-id"}
TriggerTypes    == {"scheduled-trigger", "cron-job", "scheduled-task"}

RenderComponent(ctx, c) ==
  CASE c.type = "virtual-machine" -> AssembleVM(ctx, c)
    [] c.type = "virtual-machine-scale-group" -> AssembleScaleGroup(ctx, c)
    [] c.type = "attach-to-existing-alb" -> AssembleAttach(ctx, c)
    [] c.type = "access-policy" -> AssembleAccessPolicy(ctx, c)
    [] c.type = "iam" -> AssembleIAM(ctx, c)
    [] c.type = "monitoring" -> AssembleMonitoring(ctx, c)
    [] c.type = "dns" -> AssembleDNS(c)
    [] c.type \in BucketTypes -> AssembleObjectStorage(ctx, c)
    [] c.type \in StaticSiteTypes -> AssembleStaticSite(ctx, c)
    [] c.type \in {"container-registry", "image-registry"} -> AssembleRegistry(ctx, c)
    [] c.type \in ReservedIPTypes -> AssembleReservedIP(ctx, c)
    [] c.type \in VPNTypes -> AssembleVPNAccess(ctx, c)
    [] c.type \in SecretTypes -> AssembleSecrets(ctx, c)
    [] c.type = "managed-database" -> AssembleDatabase(ctx, c)
    [] c.type \in QueueTypes -> AssembleQueue(ctx, c)
    [] c.type \in StreamTypes -> AssembleStream(ctx, c)
    [] c.type = "serverless-function" -> AssembleServerless(ctx, c)
    [] c.type \in {"web-service", "app-service", "app-platform-service"} -> AssembleWebService(ctx, c)
    [] c.type \in KeyTypes -> AssembleKMS(ctx, c)
    [] c.type = "cache" -> AssembleCache(ctx, c)
    [] c.type \in CDNTypes -> AssembleCDN(ctx, c)
    [] c.type \in WAFTypes -> AssembleWAF(ctx, c)
    [] c.type \in KubernetesTypes -> AssembleKubernetes(ctx, c)
    [] c.type = "load-balancer" -> AssembleLoadBalancer(ctx, c)
    [] c.type \in EmailTypes -> AssembleEmail(ctx, c)
    [] c.type \in VolumeTypes -> AssembleVolume(ctx, c)
    [] c.type = "prefix-list" -> AssemblePrefixList(ctx, c)
    [] c.type \in SyntheticsTypes -> AssembleSynthetics(ctx, c)
    [] c.type \in TriggerTypes -> AssembleTrigger(ctx, c)
    [] c.type \in {"key-value-store", "kv-store", "keyvalue-store", "dynamodb"} -> AssembleKeyValue(ctx, c)
    [] c.type \in CertificateTypes -> AssembleCertificate(ctx, c)
    [] c.type \in TracingTypes -> AssembleTracing(ctx, c)
    [] c.type \in IdentityTypes -> AssembleIdentity(ctx, c)
    [] c.type \in VaultTypes -> AssembleVaultHA(ctx, c)
    [] c.type \in {"pipeline-control-plane", "pyx-lambda-control-plane", "pipeline-runner"} -> AssemblePipeline(ctx, c)
    [] OTHER -> Refusal

-----------------------------------------------------------------------------
(* The steps.                                                              *)

Init ==
  /\ env \in Environments
  /\ components = env.components
  /\ group = NoGroup
  /\ phase = "start"
  /\ index = 1
  /\ docs = <<>>
  /\ pinned = {}

\* Mutant: an error returns what was rendered so far.
FailWithDocs == phase' = "failed" /\ UNCHANGED <<env, components, group, index, docs, pinned>>

\* An error returns no document at all.
Fail == phase' = "failed" /\ docs' = <<>> /\ pinned' = {} /\ UNCHANGED <<env, components, group, index>>

Append1(S) == IF S = {} THEN docs ELSE Append(docs, S)

\* A baseline gives every DigitalOcean machine a tag of its own.
BaselineTag(c) == {"pyx-" \o TfName(env.name) \o "-" \o TfName(c.name)}

TagMachine(c) ==
  IF c.type = "virtual-machine" /\ ~Has(c, "no_config") /\ Parts(c, "tag") = {}
    THEN Giving(c, "tag", BaselineTag(c)) ELSE c

Tagging == On("baseline") /\ DO /\ Exact

Startable ==
  /\ bindServiceHosts(env.components)
  /\ env.name # ""
  /\ Tagging => \A c \in Elements : c.type = "virtual-machine" => c.name # "" /\ "pyxcloud" \notin Parts(c, "tag")

\* The project's data source is looked up only for the exact spelling.
Start ==
  /\ phase = "start" /\ Startable
  /\ components' = IF Tagging THEN [i \in DOMAIN components |-> TagMachine(components[i])] ELSE components
  /\ docs' = Append1(When(DO /\ Exact, {Block(ProjectData(p), {}) : p \in env.project}))
  /\ phase' = "network"
  /\ UNCHANGED <<env, group, index, pinned>>

Network == [name |-> NetName, subnets |-> Subnets, opts |-> {}]

NetworkDocument ==
  IF ~HasNetworked THEN {}
  ELSE OrRefuse(TranslateNetwork(NoContext, Network), RenderHCL(NoContext, Network))

AddNetwork ==
  /\ phase = "network"
  /\ IF NetworkDocument = Refusal THEN Fail
     ELSE /\ docs' = Append1(NetworkDocument)
          /\ phase' = "group"
          /\ UNCHANGED <<env, components, group, index, pinned>>

Egress(proto, port) == [dir |-> "egress", proto |-> proto, port |-> port, scope |-> "cidr", from |-> NoTarget,
                        v4 |-> {"_0"}, v6 |-> {"_0"}]

EveryPort == "_all"

\* Everything may leave, unless a baseline narrows it to names, HTTPS and time.
EgressRules ==
  CASE DeriveSecurityBaseline -> [e1 |-> Egress("tcp", "_53"), e2 |-> Egress("tcp", "_443"),
                                  e3 |-> Egress("udp", "_53"), e4 |-> Egress("udp", "_123")]
    [] ~DeriveSecurityBaseline /\ env.provider \in {"digitalocean", "linode", "stackit"} ->
         [e1 |-> Egress("tcp", EveryPort), e2 |-> Egress("udp", EveryPort), e3 |-> Egress("icmp", EveryPort)]
    [] OTHER -> [e1 |-> Egress("all", EveryPort)]

\* Mutant: only the scale groups' tags select droplets.
ScaleGroupTags == {doScaleGroupTag(c.name) : c \in {d \in Elements : d.type = "virtual-machine-scale-group"}}

\* The tags the group selects droplets by: those of the scale groups and the
\* ones machines are given.
DropletTags ==
  UNION {IF c.type = "virtual-machine-scale-group" THEN {doScaleGroupTag(c.name)}
         ELSE IF c.type = "virtual-machine" /\ ~Has(c, "no_config") THEN Parts(c, "tag") ELSE {} : c \in Elements}

\* Exposed ports, egress and the author's ingress rules; no prefix list is ever
\* handed over with them.
GroupRules ==
  [i \in env.expose \cup DOMAIN EgressRules \cup DOMAIN env.ingress |->
     CASE i \in env.expose -> Exposed(i)
       [] i \in DOMAIN EgressRules \ env.expose -> EgressRules[i]
       [] OTHER -> env.ingress[i]]

SecurityGroup ==
  [name |-> SGName, network |-> NetName, lists |-> {}, opts |-> {}, rules |-> GroupRules,
   tags |-> IF DO THEN DropletTags ELSE {}]

NeedsGroup == HasVM /\ (env.expose # {} \/ env.ingress # <<>> \/ DeriveSecurityBaseline)

GroupDocument ==
  LET ctx == Context(NetName, "")
  IN OrRefuse(TranslateSecurityGroup(ctx, SecurityGroup), RenderSGHCL(ctx, SecurityGroup))

AddSecurityGroup ==
  /\ phase = "group"
  /\ CASE ~NeedsGroup ->
            phase' = "components" /\ UNCHANGED <<env, components, group, index, docs, pinned>>
       [] NeedsGroup /\ GroupDocument = Refusal -> Fail
       [] OTHER -> /\ group' = [rules |-> SecurityGroup.rules, tags |-> SecurityGroup.tags]
                   /\ docs' = Append1(GroupDocument)
                   /\ phase' = "components"
                   /\ UNCHANGED <<env, components, index, pinned>>

Placeable(c) == ~Has(c, "elsewhere") /\ (Has(c, "vm") => ExplicitVMPlacement(c.type))

\* A hosted service is already part of its machine's bootstrap.
ComponentDocument(c) ==
  CASE ~Placeable(c) -> Refusal
    [] Placeable(c) /\ Hosted(c) -> {}
    [] Placeable(c) /\ ~Hosted(c) /\ SelfHosted(env.provider, c) -> mitigateComponent(ComponentContext, c)
    [] OTHER -> RenderComponent(ComponentContext, c)

AddComponent ==
  /\ phase = "components" /\ index \in DOMAIN components
  /\ LET doc == ComponentDocument(components[index])
     IN IF doc = Refusal THEN Fail
        ELSE /\ docs' = Append1(doc)
             /\ index' = index + 1
             /\ UNCHANGED <<env, components, group, phase, pinned>>

\* The droplets refer to the network by the environment's name as written.
VaultDocument == UNION {OrRefuse(DO /\ ~On("not_offered"), RenderVaultDropletCluster(v, NetName)) : v \in env.vault}

AddVaultDroplets ==
  /\ phase = "components" /\ index \notin DOMAIN components
  /\ IF VaultDocument = Refusal THEN Fail
     ELSE /\ docs' = Append1(VaultDocument)
          /\ phase' = "inputs"
          /\ UNCHANGED <<env, components, group, index, pinned>>

\* Mutant: every Cloudflare document keeps its declaration.
keepCloudflareZoneIDVars(ds) == ds

\* dedupeCloudflareZoneIDVar: the copies of the zone's declaration, which
\* every Cloudflare document makes, become one.
dedupeCloudflareZoneIDVar(ds) ==
  LET Declares(d) == Block(ZoneVariable, {}) \in d
      stripped    == [i \in DOMAIN ds |-> ds[i] \ {Block(ZoneVariable, {})}]
  IN IF \E i \in DOMAIN ds : Declares(ds[i]) THEN <<{Block(ZoneVariable, {})}>> \o stripped ELSE ds

UserData(kind) == UNION {Parts(c, kind) : c \in {d \in Elements : d.type = "virtual-machine-scale-group"}}

\* The inputs the documents are known to need: the database password, the
\* keys of droplets, and what the scale groups' user data mentions.
Inputs ==
  When(\E c \in Elements : c.type = "managed-database", {Block(Password, {})})
  \cup When(DO /\ (env.vault # {} \/ \E c \in Elements : c.type = "virtual-machine-scale-group"),
            {Variable("do_ssh_keys")})

BootstrapInputs(ds) ==
  When(DO, {Variable(v) : v \in {w \in UserData("asks") \cap BootstrapVariables :
                                   <<"var", w>> \notin Declared(UNION ToSet(ds))}}
           \cup {VaultKVDataSource(p) : p \in UserData("secrets") \cap KnownVaultKVPaths})

DeclareInputs ==
  /\ phase = "inputs"
  /\ LET deduped  == dedupeCloudflareZoneIDVar(docs)
         declared == IF Inputs = {} THEN deduped ELSE <<Inputs>> \o deduped
         boot     == BootstrapInputs(declared)
     IN docs' = IF boot = {} THEN declared ELSE <<boot>> \o declared
  /\ phase' = "project"
  /\ UNCHANGED <<env, components, group, index, pinned>>

\* RenderDOProjectResources binds what a project can hold by its address.
doProjectAssignableTypes ==
  {"droplet", "kubernetes_cluster", "loadbalancer", "database_cluster", "reserved_ip", "spaces_bucket",
   "volume", "domain"}

RenderDOProjectResources(p) ==
  LET held == {a \in Declared(All) : a[1] = "digitalocean" /\ a[2] \in doProjectAssignableTypes}
  IN When(held # {}, One(<<"digitalocean", "project_resources", "pyx_" \o TfName(p)>>, {ProjectData(p)} \cup held))

BindProject ==
  /\ phase = "project"
  /\ docs' = Append1(When(DO /\ Exact, UNION {RenderDOProjectResources(p) : p \in env.project}))
  /\ phase' = "providers"
  /\ UNCHANGED <<env, components, group, index, pinned>>

-----------------------------------------------------------------------------
(* The providers.  Those of the hashicorp namespace install themselves, so *)
(* an environment that uses no other has no required_providers block.      *)

cloudProviderSource(p) ==
  CASE p = "gcp" -> "google"
    [] p = "azure" -> "azurerm"
    [] p = "oracle" -> "oci"
    [] p = "alibaba" -> "alicloud"
    [] p = "tencent" -> "tencentcloud"
    [] p = "hetzner" -> "hcloud"
    [] p = "rackspace" -> "openstack"
    [] p = "huawei" -> "huaweicloud"
    [] OTHER -> p

HashicorpCloud == {"aws", "gcp", "azure", "vsphere"}

\* Mutant: tracing raises no flag.
OperatorTypesWithoutTracing ==
  {"monitoring"} \cup QueueTypes \cup StreamTypes \cup CertificateTypes \cup VaultTypes
  \cup SecretTypes \cup KeyTypes

\* The flags that assembling the components raised.
OperatorTypes ==
  {"monitoring"} \cup QueueTypes \cup StreamTypes \cup CertificateTypes \cup TracingTypes \cup VaultTypes
  \cup SecretTypes \cup KeyTypes

Rendered == {c \in Elements : ~Hosted(c) /\ ~SelfHosted(env.provider, c)}

NeedsHelm       == DO /\ \E c \in Rendered : c.type \in OperatorTypes
NeedsKubernetes == DO /\ \E c \in Rendered : c.type \in OperatorTypes \cup IdentityTypes \cup TriggerTypes
NeedsVault      == DO /\ UserData("secrets") \cap KnownVaultKVPaths # {}
NeedsCloudflare ==
  \E c \in Rendered :
    \/ c.type = "dns"
    \/ c.type \in StaticSiteTypes /\ UsesCloudflareSite(ComponentContext, c)
    \/ c.type \in CDNTypes /\ UsesCloudflare(ComponentContext, c)
    \/ c.type \in WAFTypes /\ ViaCloudflare(ComponentContext)

requiredProvidersBlock ==
  When(NeedsCloudflare \/ NeedsVault \/ env.provider \notin HashicorpCloud,
       {cloudProviderSource(env.provider)}
       \cup When(NeedsCloudflare, {"cloudflare"}) \cup When(NeedsKubernetes, {"kubernetes"})
       \cup When(NeedsHelm, {"helm"}) \cup When(NeedsVault, {"vault"}))

PinProviders ==
  /\ phase = "providers"
  /\ pinned' = requiredProvidersBlock
  /\ phase' = "done"
  /\ UNCHANGED <<env, components, group, index, docs>>

Refuse == phase = "start" /\ ~Startable /\ Fail

Next ==
  \/ Start \/ Refuse \/ AddNetwork \/ AddSecurityGroup \/ AddComponent \/ AddVaultDroplets
  \/ DeclareInputs \/ BindProject \/ PinProviders

Spec == Init /\ [][Next]_vars
-----------------------------------------------------------------------------
(* Properties of an assembled environment.                                 *)

Done      == phase = "done"
Distinct  == \A i, j \in DOMAIN components : components[i].name = components[j].name => i = j

\* What a component points at is there, and of the kind its renderer takes it
\* for: a machine, a scale group, a bucket or a balancer.
BecomesMachine(d) == d.type = "virtual-machine" \/ (SelfHosted(env.provider, d) /\ ~Hosted(d))
IsScaleGroup(d)   == d.type = "virtual-machine-scale-group"

Fits(c, d) ==
  CASE c.type = "load-balancer" -> IF Has(c, "group_target") /\ ~ToVM(c) THEN IsScaleGroup(d) ELSE BecomesMachine(d)
    [] c.type = "attach-to-existing-alb" -> IsScaleGroup(d)
    [] c.type \in VolumeTypes -> BecomesMachine(d)
    [] c.type \in CDNTypes -> IF Has(c, "bucket_origin") THEN d.type \in BucketTypes ELSE d.type = "load-balancer"
    [] c.type \in WAFTypes -> d.type = "load-balancer"
    [] OTHER -> TRUE

Complete ==
  \A c \in Elements :
    /\ c.target # NoTarget => \E d \in Elements : d.name = c.target /\ Fits(c, d)
    /\ \A t \in Parts(c, "routes") : \E d \in Elements : d.name = t /\ IsScaleGroup(d)

\* The steps respect the order of the documents, and an error leaves none.
IInv ==
  /\ phase \in {"start", "network", "group", "components", "inputs", "project", "providers", "done", "failed"}
  /\ DOMAIN components = DOMAIN env.components
  /\ index \in 1..Len(env.components) + 1
  /\ phase \in {"inputs", "project", "providers", "done"} => index = Len(env.components) + 1
  /\ phase \in {"start", "network", "group"} => index = 1 /\ group = NoGroup
  /\ phase = "failed" => docs = <<>>
  /\ phase # "done" => pinned = {}

\* What a CDN or a firewall in front of a bucket or balancer is led to by the
\* canonical form of a name whose own form differs (edge.go:288, edge.go:438).
Misled ==
  LET names == {CanonicalName(c.target) : c \in {d \in Elements : /\ d.type \in CDNTypes \cup WAFTypes
                                                                 /\ CanonicalName(d.target) # d.target}}
  IN UNION {{<<"aws", "s3_bucket", TfName(n)>>, <<"aws", "lb", TfName(n) \o "_lb">>,
             <<"google", "storage_bucket", TfName(n)>>, <<"digitalocean", "spaces_bucket", TfName(n)>>,
             <<"alicloud", "oss_bucket", TfName(n)>>,
             <<"oci", "load_balancer_load_balancer", TfName(n) \o "_lb">>} : n \in names}

\* The references known to lead nowhere: subnets that AWS declares only as
\* data, for a cache (render_macro.go:57) and a cluster (render_macro.go:669);
\* the project of a provider in another spelling (assemble.go:679); the
\* release a workload identity waits for (render_workloadidentity.go:133); the
\* network of Vault's droplets in another spelling (assemble.go:1726); the
\* account's network for a VPN alone, and the one a VPN names
\* (render_vpnaccess.go:40); the profile of a policy that has none
\* (assemble.go:668); a bucket named without its "var." (synthetics.go:109);
\* the machine of a reserved address, whose instances have other names
\* (render.go:2232); the targets a canonical name misses; and the groups that
\* authors name in rules, which are theirs.
Gaps ==
  When(env.provider = "aws" /\ \E c \in Elements : c.type = "cache" \/ c.type \in KubernetesTypes,
       AWSSubnetResources(ComponentContext))
  \cup When(~Exact, {ProjectData(p) : p \in env.project})
  \cup When(\E c \in Elements : c.type \in IdentityTypes, {Helm("vault_operator")})
  \cup When(DO /\ env.vault # {}, {<<"digitalocean", "vpc", NetName>>})
  \cup When(\E c \in Elements : c.type \in VPNTypes, {VPC})
  \cup {<<"aws", "vpc", TfName(c.target)>> : c \in {d \in Elements : d.type \in VPNTypes}}
  \cup {<<"aws", "iam_instance_profile", TfName(c.name)>> :
          c \in {d \in Elements : d.type = "access-policy" /\ ~Has(d, "instance_profile")}}
  \cup {<<"type", TfName(c.name) \o "_artifact_bucket">> : c \in {d \in Elements : d.type \in SyntheticsTypes}}
  \cup (UNION {{<<"aws", "instance", TfName(c.target)>>, <<"digitalocean", "droplet", TfName(c.target)>>} :
                 c \in {d \in Elements : d.type \in ReservedIPTypes}})
  \cup Misled

Foreign(a) == \E r \in {env.ingress[i] : i \in DOMAIN env.ingress} : r.scope = "group" /\ a[Len(a)] = TfName(r.from)

\* When every component that is pointed at is there, each resource and data
\* source a document refers to is declared by some document: the network, the
\* group, the machines, databases and roles of other components included.
\* Input variables are left to the caller.
ReferencesResolve ==
  Done /\ Complete =>
    \A a \in Referred(All) \ Declared(All) : a[1] = "var" \/ a \in Gaps \/ Foreign(a)

\* Two documents share no address when the components have different names,
\* so that Terraform accepts the module: the zone's variable, which every
\* Cloudflare document brings along, is declared once, and so is the
\* namespace of Oracle's buckets except in an environment with two of them
\* (render_oracle.go:491), and the group of a target that two balancers route
\* to (render.go:1055).
DeclaredOnce ==
  LET Shared(a) == \/ a = <<"data", "oci", "objectstorage_namespace", "ns">>
                   \/ \E c \in Elements : \E t \in Parts(c, "routes") : a \in {TargetGroup(t), Attachment(t)}
  IN Done /\ Distinct =>
       \A i, j \in DOMAIN docs : i # j => \A a \in Declared(docs[i]) \cap Declared(docs[j]) : Shared(a)

\* Terraform installs the providers of an unpinned name from the hashicorp
\* namespace only: every other provider whose blocks an environment holds is
\* pinned, and where there is a block it names each provider in use.
ProvidersPinned ==
  Done => LET used == UNION {ProviderLocal(b.addr) : b \in All}
          IN /\ used \ {"aws", "google", "azurerm", "vsphere", "kubernetes", "helm", "vault"} \subseteq pinned
             /\ pinned # {} => used \subseteq pinned

\* Under the baseline every machine and scale group the author declares on
\* DigitalOcean carries a tag that a firewall selects; a service that is
\* self-hosted on a machine has no tag of its own, and no firewall.
Droplets  == {b \in All : b.addr[1] = "digitalocean" /\ b.addr[2] \in {"droplet", "droplet_autoscale"}}
Selected  == UNION {b.selects : b \in {x \in All : x.addr[2] = "firewall"}}
OfSelfHosted == {TfName(c.name \o "-1") : c \in {d \in Elements : SelfHosted(env.provider, d)}}

MachinesGuarded ==
  Done /\ Tagging => \A b \in Droplets : b.addr[3] \in OfSelfHosted \/ b.tags \cap Selected # {}

\* No block depends on itself, through whatever chain of documents: Terraform
\* refuses a cycle, and the documents are written by renderers that do not
\* know of each other.  Planning takes away, round after round, the blocks that
\* depend on no block that is left, and the longest chain of references is
\* shorter than sixteen.  (Two blocks of one address, which Terraform refuses
\* as well, are left out.)
Blocked(left) == {b \in left : b.refs \cap Declared(left) # {}}
Twice(left)   == Blocked(Blocked(left))
Rounds4(left) == Twice(Twice(left))

OneEach == \A a, b \in All : a.addr = b.addr => a = b
Acyclic == Done /\ OneEach => Rounds4(Rounds4(Rounds4(Rounds4(All)))) = {}

\* A component is never skipped in silence: each step over a component that no
\* machine hosts adds a resource to the documents, or everything is refused.
\* Two components have nothing to add: Google Cloud's monitoring without log
\* groups, as it has log buckets but no alarms (render.go:2102), and an access
\* policy with no policy in it (render.go:1968).
Created == {b \in UNION {docs'[i] : i \in DOMAIN docs' \ DOMAIN docs} : b.addr[1] \notin {"var", "data", "output"}}

Silent(c) ==
  \/ Hosted(c)
  \/ env.provider = "gcp" /\ c.type = "monitoring" /\ Parts(c, "log_groups") = {}
  \/ c.type = "access-policy" /\ Parts(c, "inline") \cup Parts(c, "managed") = {}

ComponentsRendered == [][index' # index => Silent(components[index]) \/ Created # {}]_vars

\* A balancer on DigitalOcean selects machines that exist: the tag it defaults
\* to is one that the scale group it fronts carries, as another renderer wrote
\* it.  A plain machine only carries that tag if its author asks for it
\* (render.go:1368), which assemble.go:371 does not say ("Empty -> the default
\* pyxcloud tag (fronts every instance)").
TargetsReached ==
  LET Carried(name) == UNION {b.tags : b \in {x \in Droplets : x.addr[3] = TfName(name)}}
      Fronted(c)    == {g \in Elements : g.type = "virtual-machine-scale-group" /\ g.name = c.target}
  IN Done /\ DO =>
       \A c \in Elements :
         /\ c.type = "load-balancer" /\ c.target # NoTarget /\ Fronted(c) # {}
         /\ ~Has(c, "stable_ip") /\ Parts(c, "target_tag") = {}
         => \E b \in All : /\ b.addr = <<"digitalocean", "loadbalancer", TfName(c.name)>>
                           /\ b.selects \cap Carried(c.target) # {}
=============================================================================
