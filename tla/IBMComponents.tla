--------------------------- MODULE IBMComponents ---------------------------
(***************************************************************************)
(* The IBM Cloud renderers (render_ibm.go).  Most resources live in the    *)
(* resource group var.ibm_resource_group_id, which no document declares.   *)
(***************************************************************************)
EXTENDS HCL

IBM(type, n)            == <<"ibm", type, n>>
IBMGroupID              == <<"var", "ibm_resource_group_id">>
InGroup(type, n, refs)  == Block(IBM(type, n), {IBMGroupID} \cup refs)

IBMVPC(ctx)         == When(HasNetwork(ctx), {IBM("is_vpc", TfName(ctx.network))})
IBMSubnets(ctx)     == When(HasNetwork(ctx), {IBM("is_subnet", SubnetLabel(ctx.network, i)) : i \in Subnets})
IBMFirstSubnet(ctx) == When(HasNetwork(ctx), {IBM("is_subnet", SubnetLabel(ctx.network, "_1"))})
IBMGroupOf(n)       == IBM("is_security_group", TfName(n))
IBMGroup(ctx)       == When(HasGroup(ctx), {IBMGroupOf(ctx.group)})
IBMKey              == <<"var", "ibm_ssh_key_id">>

renderNetworkIBM(net) ==
  LET vpc == IBM("is_vpc", TfName(net.name))
  IN One(vpc, {IBMGroupID}) \cup {InGroup("is_subnet", SubnetLabel(net.name, i), {vpc}) : i \in net.subnets}

\* One rule per remote; the code numbers them through, here their position
\* and range tell them apart.
renderSGIBM(ctx, sg) ==
  LET Rule(i, remote, refs) ==
        Block(IBM("is_security_group_rule", TfName(sg.name) \o "_" \o sg.rules[i].dir \o "_" \o i \o remote),
              {IBMGroupOf(sg.name)} \cup refs)
      Ranges(r) == r.v4 \cup {"_ipv6" \o v : v \in r.v6}
  IN {InGroup("is_security_group", TfName(sg.name), IBMVPC(ctx))}
     \cup UNION {LET r == sg.rules[i]
                 IN CASE r.scope = "group" -> {Rule(i, "", {IBMGroupOf(r.from)})}
                      [] r.scope # "group" /\ Ranges(r) = {} -> {Rule(i, "", {})}
                      [] OTHER -> {Rule(i, v, {}) : v \in Ranges(r)} : i \in DOMAIN sg.rules}

renderVMIBM(ctx, c) ==
  {InGroup("is_instance", TfName(c.name \o i), {IBMKey} \cup IBMVPC(ctx) \cup IBMFirstSubnet(ctx) \cup IBMGroup(ctx)) :
     i \in Parts(c, "instances")}

renderASGIBM(ctx, c) ==
  LET n        == TfName(c.name)
      template == IBM("is_instance_template", n \o "_tmpl")
      group    == IBM("is_instance_group", n \o "_ig")
  IN {Block(template, {IBMGroupID, IBMKey} \cup IBMVPC(ctx) \cup IBMFirstSubnet(ctx) \cup IBMGroup(ctx)),
      Block(group, {IBMGroupID, template} \cup IBMSubnets(ctx)),
      Block(IBM("is_instance_group_manager", n \o "_igm"), {group})}

\* Only a machine becomes a member of the pool; a scale group never does.
renderLBIBM(ctx, c) ==
  LET n    == TfName(c.name)
      lb   == IBM("is_lb", n \o "_lb")
      pool == IBM("is_lb_pool", n \o "_pool")
  IN {Block(lb, {IBMGroupID} \cup IBMSubnets(ctx) \cup IBMGroup(ctx)), Block(pool, {lb})}
     \cup {Block(IBM("is_lb_listener", n \o "_listener" \o l), {lb, pool}) : l \in Parts(c, "listeners")}
     \cup When(Has(c, "vm_target") /\ c.target # NoTarget,
               One(IBM("is_lb_pool_member", n \o "_member"), {lb, pool, IBM("is_instance", TfName(c.target \o "-1"))}))

renderMDBIBM(c)   == {InGroup("database", TfName(c.name), {<<"var", "db_password">>})}
renderCacheIBM(c) == {InGroup("database", TfName(c.name), {})}

renderObjectStorageIBM(c) ==
  LET instance == IBM("resource_instance", TfName(c.name) \o "_cos")
  IN One(instance, {IBMGroupID}) \cup One(IBM("cos_bucket", TfName(c.name)), {instance})

renderStreamIBM(c) == {InGroup("resource_instance", TfName(c.name), {})}

renderDNSIBM(c) ==
  IF Has(c, "private") THEN One(IBM("dns_zone", TfName(c.name)), {<<"var", "ibm_dns_instance_id">>})
                       ELSE One(IBM("cis_domain", TfName(c.name)), {<<"var", "ibm_cis_id">>})

renderWAFIBM(c) ==
  One(IBM("cis_waf_group", TfName(c.name)),
      {<<"var", v>> : v \in {"ibm_cis_id", "ibm_cis_domain_id", "ibm_cis_waf_package_id", "ibm_cis_waf_group_id"}})

renderK8sIBM(ctx, c) == {InGroup("container_vpc_cluster", TfName(c.name), IBMVPC(ctx) \cup IBMSubnets(ctx))}

renderSecretsIBM(c) ==
  One(IBM("sm_arbitrary_secret", TfName(c.name)), {<<"var", "ibm_sm_instance_id">>, <<"var", "secret_payload">>})

renderServerlessIBM(c) ==
  LET project == IBM("code_engine_project", TfName(c.name) \o "_project")
  IN One(project, {IBMGroupID}) \cup One(IBM("code_engine_app", TfName(c.name)), {project})
=============================================================================
