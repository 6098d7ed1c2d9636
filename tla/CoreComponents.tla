--------------------------- MODULE CoreComponents ---------------------------
(***************************************************************************)
(* The components every environment is made of, on AWS, GCP and            *)
(* DigitalOcean: network, security group, machines, scale groups, load     *)
(* balancers, databases, buckets, sites, roles, registries and reserved    *)
(* addresses.  A Translate operator says which components are accepted, a  *)
(* render operator which blocks an accepted component becomes.             *)
(***************************************************************************)
EXTENDS Bootstraps

VPC       == <<"data", "aws", "vpc", "default">>
GCPNetRef(ctx) == NetRef(ctx, <<"google", "compute_network">>)
DOVPCRef(ctx)  == NetRef(ctx, <<"digitalocean", "vpc">>)

-----------------------------------------------------------------------------
(* Network (network.go).  net = [name, subnets]: on AWS the default VPC is *)
(* looked up and the declared subnets only choose how many are.            *)

TranslateNetwork(ctx, net) == ctx.offered /\ "invalid" \notin net.opts

renderAWS(net) ==
  LET all == <<"data", "aws", "subnets", "default">>
  IN {Block(VPC, {}), Block(all, {VPC})}
     \cup {Block(<<"data", "aws", "subnet", SubnetLabel(net.name, i)>>, {all}) : i \in net.subnets}

renderGCP(net) ==
  LET network == <<"google", "compute_network", TfName(net.name)>>
  IN One(network, {})
     \cup {Block(<<"google", "compute_subnetwork", SubnetLabel(net.name, i)>>, {network}) : i \in net.subnets}

\* A DigitalOcean VPC has one range: the first subnet's, the others are lost.
renderDO(net) == One(<<"digitalocean", "vpc", TfName(net.name)>>, {})

-----------------------------------------------------------------------------
(* Security group (securitygroup.go).  sg = [name, network, rules, tags]:  *)
(* rules maps the position of a rule to [dir, proto, port, scope, from,    *)
(* v4, v6]; scope says which of the four sources the rule names.           *)

Exposed(p) == [dir |-> "ingress", proto |-> "tcp", port |-> p, scope |-> "cidr", from |-> NoTarget,
               v4 |-> {"_0"}, v6 |-> {"_0"}]

\* A rule may name a prefix list only when the list was handed over with it.
DefinesPrefixList(sg, r) == r.scope = "prefix" => r.from \in sg.lists

enforceProviderCapabilities(provider, rules) ==
  /\ provider # "aws" => \A i \in DOMAIN rules : rules[i].scope # "external"
  /\ provider \in {"digitalocean", "linode", "stackit"} => \A i \in DOMAIN rules : rules[i].proto # "all"

TranslateSecurityGroup(ctx, sg) ==
  /\ sg.rules # <<>> /\ "invalid" \notin sg.opts
  /\ ctx.offered
  /\ \A i \in DOMAIN sg.rules : DefinesPrefixList(sg, sg.rules[i])
  /\ enforceProviderCapabilities(ctx.provider, sg.rules)

\* One AWS rule per address range and direction; a rule that names a group or
\* a prefix list refers to the resource of that component.
writeAWSSecurityGroupRule(sg, label, source) ==
  Block(<<"aws", "security_group_rule", label>>, {<<"aws", "security_group", TfName(sg.name)>>} \cup source)

renderSGAWS(sg) ==
  LET Label(i) == TfName(sg.name) \o "_" \o sg.rules[i].dir \o "_" \o i
      Ranges(i) ==
        LET r == sg.rules[i]
        IN {IF r.v6 = {} /\ v = "_0" THEN Label(i) ELSE Label(i) \o "_ipv4" \o v : v \in r.v4}
           \cup {Label(i) \o "_ipv6" \o v : v \in r.v6}
      Source(r) == CASE r.scope = "group"  -> {<<"aws", "security_group", TfName(r.from)>>}
                     [] r.scope = "prefix" -> {<<"aws", "ec2_managed_prefix_list", TfName(r.from)>>}
                     [] OTHER -> {}
  IN One(<<"aws", "security_group", TfName(sg.name)>>, {VPC})
     \cup UNION {IF sg.rules[i].scope = "cidr"
                   THEN {writeAWSSecurityGroupRule(sg, l, {}) : l \in Ranges(i)}
                   ELSE {writeAWSSecurityGroupRule(sg, Label(i), Source(sg.rules[i]))} : i \in DOMAIN sg.rules}

\* GCP has one firewall per direction, which merges the rules of it.
renderSGGCP(ctx, sg) ==
  {Block(<<"google", "compute_firewall", TfName(sg.name) \o "_" \o d>>, GCPNetRef(ctx)) :
     d \in {sg.rules[i].dir : i \in DOMAIN sg.rules}}

\* DigitalOcean has one firewall per droplet tag; a group without tags
\* becomes one firewall that selects no droplet.
renderSGDO(sg) ==
  IF sg.tags = {}
    THEN One(<<"digitalocean", "firewall", TfName(sg.name)>>, {})
    ELSE {Selecting(Block(<<"digitalocean", "firewall", TfName(sg.name) \o "_" \o TfName(ServiceOf(t))>>, {}), {t}) :
            t \in sg.tags}

-----------------------------------------------------------------------------
(* Virtual machines (virtualmachine.go).  A machine is asked for by size,  *)
(* image and count and becomes the instances <name>-1, <name>-2, ...       *)

TranslateVM(ctx, c) == Valid(c) /\ ctx.offered

\* The instance profile of a machine: a reference when the environment
\* itself declares it, otherwise its literal name.
ProfileRef(ctx, c) == {<<"aws", "iam_instance_profile", TfName(p)>> : p \in Parts(c, "profile") \cap ctx.profiles}

FirstSubnet(ctx, kind) == When(HasNetwork(ctx), {kind \o <<SubnetLabel(ctx.network, "_1")>>})

renderVMAWS(ctx, c) ==
  {Block(<<"aws", "instance", TfName(c.name \o i)>>,
         FirstSubnet(ctx, <<"data", "aws", "subnet">>) \cup AWSGroup(ctx) \cup ProfileRef(ctx, c)) :
     i \in Parts(c, "instances")}

renderVMGCP(ctx, c) ==
  {Block(<<"google", "compute_instance", TfName(c.name \o i)>>,
         GCPNetRef(ctx) \cup FirstSubnet(ctx, <<"google", "compute_subnetwork">>)) : i \in Parts(c, "instances")}

renderVMDO(ctx, c) ==
  {Tagged(Block(<<"digitalocean", "droplet", TfName(c.name \o i)>>, DOVPCRef(ctx)),
          {"pyxcloud"} \cup Parts(c, "tag")) : i \in Parts(c, "instances")}

-----------------------------------------------------------------------------
(* Scale groups (scalegroup.go).                                           *)

TranslateScaleGroup(ctx, c) == Valid(c) /\ ctx.offered /\ ctx.provider \notin {"linode", "stackit"}

ASG(name) == <<"aws", "autoscaling_group", TfName(name) \o "_asg">>

renderASGAWS(ctx, c) ==
  LET template == <<"aws", "launch_template", TfName(c.name) \o "_lt">>
  IN {Block(template, AWSGroup(ctx) \cup ProfileRef(ctx, c)),
      Block(ASG(c.name), {template} \cup When(HasNetwork(ctx), AWSSubnetData(ctx)))}

doScaleGroupTag(name) == "pyx-" \o TfName(name)

\* The script baked into the group's template, as resolveUserDataForProvider
\* picks it for DigitalOcean.
UserDataOf(c) == Script(Parts(c, "asks"), Parts(c, "secrets"))

ProjectData(p) == <<"data", "digitalocean", "project", "pyx_" \o TfName(p)>>

renderScaleGroupDO(ctx, c) ==
  {Tagged(Block(<<"digitalocean", "droplet_autoscale", TfName(c.name)>>,
                DOVPCRef(ctx) \cup {ProjectData(p) : p \in ctx.project} \cup vmHeredoc(UserDataOf(c))),
          {"pyxcloud", doScaleGroupTag(c.name)} \cup Parts(c, "tag"))}

renderASGGCP(ctx, c) ==
  LET n        == TfName(c.name)
      template == <<"google", "compute_instance_template", n \o "_tmpl">>
      check    == <<"google", "compute_health_check", n \o "_hc">>
      manager  == <<"google", "compute_region_instance_group_manager", n \o "_mig">>
  IN {Block(template, GCPNetRef(ctx) \cup FirstSubnet(ctx, <<"google", "compute_subnetwork">>)),
      Block(check, {}),
      Block(manager, {template} \cup When(Has(c, "elb_health"), {check})),
      Block(<<"google", "compute_region_autoscaler", n \o "_as">>, {manager})}

-----------------------------------------------------------------------------
(* Load balancers (loadbalancer.go).  "rules" are the routing rules that   *)
(* forward to the default target, "routes" the targets of the other rules. *)

ToVM(c) == Has(c, "vm_target")

TranslateLoadBalancer(ctx, c) ==
  /\ Valid(c) /\ Parts(c, "listeners") # {}
  /\ ctx.offered
  /\ Has(c, "stable_ip") => ctx.provider = "digitalocean" /\ ToVM(c) /\ c.target # NoTarget

\* A rule with a target of its own gets a target group and an attachment
\* named after the target, whatever load balancer the rule belongs to.
distinctRuleTargetNames(c) == Parts(c, "routes")

TargetGroup(n) == <<"aws", "lb_target_group", TfName(n) \o "_tg">>
Attachment(n)  == <<"aws", "autoscaling_attachment", TfName(n) \o "_attach">>

RuleTarget(ctx, t) ==
  {Block(TargetGroup(t), When(HasNetwork(ctx), {VPC})), Block(Attachment(t), {ASG(t), TargetGroup(t)})}

Listener(c, l) == <<"aws", "lb_listener", TfName(c.name) \o "_listener" \o l>>

\* A rule forwards to its own target if it names one, else to the default.
renderLBAWSListenerRules(c, l) ==
  LET Rule(r, group) == Block(<<"aws", "lb_listener_rule", TfName(c.name) \o "_listener" \o l \o "_rule_" \o r>>,
                              {Listener(c, l), TargetGroup(group)})
  IN {Rule(r, c.name) : r \in Parts(c, "rules")} \cup {Rule(t, t) : t \in Parts(c, "routes")}

renderLBAWS(ctx, c) ==
  LET n       == TfName(c.name)
      lb      == <<"aws", "lb", n \o "_lb">>
      gateway == <<"aws", "internet_gateway", n \o "_igw">>
      table   == <<"aws", "route_table", n \o "_rt">>
  IN When(HasNetwork(ctx),
          {Block(gateway, {VPC}), Block(table, {VPC, gateway})}
          \cup {Block(<<"aws", "route_table_association", n \o "_rta" \o i>>,
                      {table, <<"data", "aws", "subnet", SubnetLabel(ctx.network, i)>>}) : i \in Subnets})
     \cup One(lb, AWSGroup(ctx) \cup When(HasNetwork(ctx), {gateway} \cup AWSSubnetData(ctx)))
     \cup One(TargetGroup(c.name), When(HasNetwork(ctx), {VPC}))
     \cup (UNION {RuleTarget(ctx, t) : t \in distinctRuleTargetNames(c)})
     \cup {Block(Listener(c, l), {lb, TargetGroup(c.name)}) : l \in Parts(c, "listeners")}
     \cup (UNION {renderLBAWSListenerRules(c, l) : l \in Parts(c, "listeners")})
     \cup When(c.target # NoTarget,
               IF ToVM(c)
                 THEN One(<<"aws", "lb_target_group_attachment", n \o "_attach">>,
                          {TargetGroup(c.name), <<"aws", "instance", TfName(c.target \o "-1")>>})
                 ELSE One(Attachment(c.name), {ASG(c.target), TargetGroup(c.name)}))

\* Machines behind a GCP balancer are never made its backend.
renderLBGCP(c) ==
  LET n       == TfName(c.name)
      check   == <<"google", "compute_health_check", n \o "_hc">>
      backend == <<"google", "compute_region_backend_service", n \o "_be">>
  IN One(check, {})
     \cup One(backend, {check} \cup When(c.target # NoTarget /\ ~ToVM(c),
                {<<"google", "compute_region_instance_group_manager", TfName(c.target) \o "_mig">>}))
     \cup {Block(<<"google", "compute_forwarding_rule", n \o "_fr" \o l>>, {backend}) : l \in Parts(c, "listeners")}

renderLBDOReservedIP(c) ==
  One(<<"digitalocean", "reserved_ip", TfName(c.name)>>, {<<"digitalocean", "droplet", TfName(c.target) \o "-1">>})

\* Mutant: the balancer's own name instead of its target's.
renderLBDOByName(ctx, c) ==
  {Selecting(Block(<<"digitalocean", "loadbalancer", TfName(c.name)>>, DOVPCRef(ctx)), {doScaleGroupTag(c.name)})}

renderLBDO(ctx, c) ==
  LET lb == Block(<<"digitalocean", "loadbalancer", TfName(c.name)>>, DOVPCRef(ctx))
      own == Parts(c, "target_tag")
  IN IF c.target = NoTarget THEN {lb}
     ELSE {Selecting(lb, IF own # {} THEN own ELSE {doScaleGroupTag(c.target)})}

-----------------------------------------------------------------------------
(* Managed databases (manageddatabase.go).  The AWS password is the        *)
(* variable db_password, which assembly declares when a document uses it.  *)

Password == <<"var", "db_password">>

TranslateManagedDatabase(ctx, c) == Valid(c) /\ ctx.offered

renderMDBAWS(ctx, c) ==
  LET subnets == <<"aws", "db_subnet_group", TfName(c.name) \o "_subnet_group">>
  IN When(HasNetwork(ctx), One(subnets, AWSSubnetData(ctx)))
     \cup One(<<"aws", "db_instance", TfName(c.name)>>,
              {Password} \cup AWSGroup(ctx) \cup When(HasNetwork(ctx), {subnets}))

renderMDBGCP(ctx, c) == One(<<"google", "sql_database_instance", TfName(c.name)>>, GCPNetRef(ctx))
renderMDBDO(ctx, c)  == One(<<"digitalocean", "database_cluster", TfName(c.name)>>, DOVPCRef(ctx))

-----------------------------------------------------------------------------
(* Object storage (objectstorage.go): a bucket and, on AWS, one resource   *)
(* for each setting; elsewhere several settings are only comments.         *)

resolveSSE(ctx, c) == Has(c, "sse_kms") => ctx.provider = "aws"

TranslateObjectStorage(ctx, c) ==
  /\ Valid(c) /\ ctx.offered
  /\ ctx.provider = "stackit" => ~Has(c, "public")
  /\ resolveSSE(ctx, c)

renderObjectStorageAWS(c) ==
  LET n      == TfName(c.name)
      bucket == <<"aws", "s3_bucket", n>>
      extras == [server_side_encryption_configuration |-> "s3_bucket_server_side_encryption_configuration",
                 lifecycle_configuration |-> "s3_bucket_lifecycle_configuration",
                 policy |-> "s3_bucket_policy", logging |-> "s3_bucket_logging",
                 website_configuration |-> "s3_bucket_website_configuration"]
  IN One(bucket, {})
     \cup {Block(<<"aws", k, n>>, {bucket}) : k \in {"s3_bucket_versioning", "s3_bucket_public_access_block"}}
     \cup {Block(<<"aws", extras[k], n>>, {bucket}) : k \in DOMAIN extras \cap c.opts}

renderObjectStorageGCP(c) == One(<<"google", "storage_bucket", TfName(c.name)>>, {})

renderObjectStorageDO(c) ==
  LET bucket == <<"digitalocean", "spaces_bucket", TfName(c.name)>>
  IN One(bucket, {})
     \cup When(Has(c, "policy"), One(<<"digitalocean", "spaces_bucket_policy", TfName(c.name)>>, {bucket}))

-----------------------------------------------------------------------------
(* Roles and policies (iam.go).                                            *)

TranslateIAM(ctx, c) ==
  \/ ctx.provider = "aws"
  \/ ctx.provider = "gcp" /\ Parts(c, "inline") \cup Parts(c, "managed") = {}

renderIAMAWS(c) ==
  LET n    == TfName(c.name)
      role == <<"aws", "iam_role", n>>
  IN One(role, {})
     \cup {Block(<<"aws", "iam_role_policy", TfName(c.name \o "-" \o p)>>, {role}) : p \in Parts(c, "inline")}
     \cup {Block(<<"aws", "iam_role_policy_attachment", n \o "-managed" \o i>>, {role}) : i \in Parts(c, "managed")}
     \cup When(Has(c, "instance_profile"), One(<<"aws", "iam_instance_profile", n>>, {role}))

renderIAMGCP(c) == One(<<"google", "service_account", TfName(c.name)>>, {})

RenderIAMHCL(ctx, c) == IF ctx.provider = "aws" THEN renderIAMAWS(c) ELSE renderIAMGCP(c)

TranslateAccessPolicy(c) == c.name # ""

\* A policy with no role of its own is a policy on AWS and a record elsewhere.
renderAccessPolicyAWS(c) ==
  {Block(<<"aws", "iam_policy", TfName(c.name \o "-" \o p)>>, {}) : p \in Parts(c, "inline")}
  \cup {Block(<<"terraform", "data", TfName(c.name) \o "-managed" \o i>>, {}) : i \in Parts(c, "managed")}

renderAccessPolicyPortable(c) ==
  {Block(<<"terraform", "data", TfName(c.name \o "-" \o p)>>, {}) : p \in Parts(c, "inline")}
  \cup {Block(<<"terraform", "data", TfName(c.name) \o "-managed" \o i>>, {}) : i \in Parts(c, "managed")}

RenderAccessPolicyHCL(ctx, c) ==
  IF ctx.provider = "aws" THEN renderAccessPolicyAWS(c) ELSE renderAccessPolicyPortable(c)

-----------------------------------------------------------------------------
(* Registries, reserved addresses and an existing load balancer.           *)

RegistryType(provider) ==
  CASE provider = "aws" -> <<"aws", "ecr_repository">>
    [] provider = "gcp" -> <<"google", "artifact_registry_repository">>
    [] provider = "digitalocean" -> <<"digitalocean", "container_registry">>

\* Translation accepts every provider; rendering refuses the other ones.
RenderContainerRegistryHCL(ctx, c) ==
  IF Valid(c) /\ ctx.offered /\ ctx.provider \in {"aws", "gcp", "digitalocean"}
    THEN One(RegistryType(ctx.provider) \o <<TfName(c.name)>>, {}) ELSE Refusal

\* The address is attached to the machine of exactly the name given, which
\* no instance of a virtual-machine component has.
RenderReservedIPHCL(ctx, c) ==
  LET Attached(host) == When(c.target # NoTarget, {host \o <<TfName(c.target)>>})
  IN IF ~ctx.offered THEN Refusal
     ELSE CASE ctx.provider = "aws" -> One(<<"aws", "eip", TfName(c.name)>>, Attached(<<"aws", "instance">>))
            [] ctx.provider = "gcp" -> One(<<"google", "compute_address", TfName(c.name)>>, {})
            [] ctx.provider = "digitalocean" ->
                 One(<<"digitalocean", "reserved_ip", TfName(c.name)>>, Attached(<<"digitalocean", "droplet">>))
            [] OTHER -> Refusal

TranslateAttachToExistingALB(ctx, c) ==
  Valid(c) /\ c.target # NoTarget /\ ctx.provider = "aws" /\ ctx.offered

RenderAttachToExistingALBHCL(ctx, c) ==
  {Block(TargetGroup(c.name), When(HasNetwork(ctx), {VPC})),
   Block(<<"aws", "lb_listener_rule", TfName(c.name) \o "_rule">>, {TargetGroup(c.name)}),
   Block(Attachment(c.name), {ASG(c.target), TargetGroup(c.name)})}
=============================================================================
