-------------------------- MODULE OracleComponents --------------------------
(***************************************************************************)
(* The Oracle Cloud renderers (render_oracle.go).  Every resource lives in *)
(* the compartment var.compartment_id, which no document declares.         *)
(***************************************************************************)
EXTENDS HCL

OCI(type, n)    == <<"oci", type, n>>
Compartment     == <<"var", "compartment_id">>
InCompartment(type, n, refs) == Block(OCI(type, n), {Compartment} \cup refs)
OrVariable(ref, n) == IF ref = {} THEN {<<"var", n>>} ELSE ref

\* ociADDataSource, ociADRef: the availability domains a component looks up
\* under its own name.
ADs(n)             == <<"data", "oci", "identity_availability_domains", n \o "_ads">>
ociADDataSource(n) == One(ADs(n), {Compartment})
ociADRef(n)        == {ADs(n)}

OCISubnets(ctx)     == When(HasNetwork(ctx), {OCI("core_subnet", SubnetLabel(ctx.network, i)) : i \in Subnets})
OCIFirstSubnet(ctx) == When(HasNetwork(ctx), {OCI("core_subnet", SubnetLabel(ctx.network, "_1"))})
VCN(ctx)            == When(HasNetwork(ctx), {OCI("core_vcn", TfName(ctx.network))})
NSG(n)              == OCI("core_network_security_group", TfName(n))
OCIGroup(ctx)       == When(HasGroup(ctx), {NSG(ctx.group)})

renderOCI(net) ==
  LET vcn == OCI("core_vcn", TfName(net.name))
  IN {Block(vcn, {Compartment})}
     \cup {InCompartment("core_subnet", SubnetLabel(net.name, i), {vcn}) : i \in net.subnets}

renderSGOCI(ctx, sg) ==
  One(NSG(sg.name), {Compartment} \cup OrVariable(VCN(ctx), "vcn_id"))
  \cup {Block(OCI("core_network_security_group_security_rule",
                  TfName(sg.name) \o "_" \o sg.rules[i].dir \o "_" \o i),
              {NSG(sg.name)} \cup When(sg.rules[i].scope = "group", {NSG(sg.rules[i].from)})) : i \in DOMAIN sg.rules}

renderVMOCI(ctx, c) ==
  ociADDataSource(TfName(c.name))
  \cup {InCompartment("core_instance", TfName(c.name \o i),
                      ociADRef(TfName(c.name)) \cup OCIFirstSubnet(ctx) \cup OCIGroup(ctx)) : i \in Parts(c, "instances")}

renderASGOCI(ctx, c) ==
  LET n    == TfName(c.name)
      cfg  == OCI("core_instance_configuration", n \o "_cfg")
      pool == OCI("core_instance_pool", n \o "_pool")
  IN ociADDataSource(n)
     \cup {Block(cfg, {Compartment} \cup OCIFirstSubnet(ctx) \cup OCIGroup(ctx)),
           Block(pool, {Compartment, cfg} \cup ociADRef(n) \cup OCISubnets(ctx)),
           InCompartment("autoscaling_auto_scaling_configuration", n \o "_as", {pool})}

\* The backend set has no backends.
renderLBOCI(ctx, c) ==
  LET n       == TfName(c.name)
      lb      == OCI("load_balancer_load_balancer", n \o "_lb")
      backend == OCI("load_balancer_backend_set", n \o "_bs")
  IN {Block(lb, {Compartment} \cup OCISubnets(ctx) \cup OCIGroup(ctx)), Block(backend, {lb})}
     \cup {Block(OCI("load_balancer_listener", n \o "_listener" \o l), {lb, backend}) : l \in Parts(c, "listeners")}

renderMDBOCIMySQL(ctx, c) ==
  ociADDataSource(TfName(c.name))
  \cup {InCompartment("mysql_mysql_db_system", TfName(c.name),
                      {<<"var", "db_password">>} \cup ociADRef(TfName(c.name)) \cup OCIFirstSubnet(ctx))}

renderMDBOCIPostgres(ctx, c) ==
  ociADDataSource(TfName(c.name))
  \cup {InCompartment("psql_db_system", TfName(c.name),
                      {<<"var", "db_password">>} \cup ociADRef(TfName(c.name)) \cup OCIFirstSubnet(ctx))}

renderMDBOCI(ctx, c) == IF Has(c, "mysql") THEN renderMDBOCIMySQL(ctx, c) ELSE renderMDBOCIPostgres(ctx, c)

\* Every bucket looks the namespace up under the same name.
renderObjectStorageOCI(c) ==
  LET space == <<"data", "oci", "objectstorage_namespace", "ns">>
  IN One(space, {Compartment}) \cup {InCompartment("objectstorage_bucket", TfName(c.name), {space})}

renderCacheOCI(ctx, c) ==
  {InCompartment("redis_redis_cluster", TfName(c.name), OrVariable(OCIFirstSubnet(ctx), "subnet_id"))}

renderQueueOCI(c)  == {InCompartment("queue_queue", TfName(c.name), {})}
renderStreamOCI(c) == {InCompartment("streaming_stream", TfName(c.name), {})}
renderDNSOCI(c)    == {InCompartment("dns_zone", TfName(c.name), When(Has(c, "private"), {<<"var", "dns_view_id">>}))}

renderWAFOCI(c) ==
  LET policy == OCI("waf_web_app_firewall_policy", TfName(c.name) \o "_policy")
  IN One(policy, {Compartment})
     \cup {InCompartment("waf_web_app_firewall", TfName(c.name),
             {policy, IF c.target = NoTarget THEN <<"var", "load_balancer_id">>
                      ELSE OCI("load_balancer_load_balancer", TfName(c.target) \o "_lb")})}

renderK8sOCI(ctx, c) ==
  LET n       == TfName(c.name)
      cluster == OCI("containerengine_cluster", n)
  IN ociADDataSource(n)
     \cup {Block(cluster, {Compartment} \cup OrVariable(VCN(ctx), "vcn_id") \cup OCIFirstSubnet(ctx)),
           InCompartment("containerengine_node_pool", n \o "_np",
                         {cluster, <<"var", "node_image_id">>} \cup ociADRef(n) \cup OCISubnets(ctx))}

renderSecretsOCI(c) ==
  LET vault == OCI("kms_vault", TfName(c.name) \o "_vault")
  IN One(vault, {Compartment})
     \cup {InCompartment("vault_secret", TfName(c.name),
             {vault, <<"var", "kms_key_id">>} \cup When(Has(c, "rotation"), {<<"var", "rotation_function_id">>}))}

renderServerlessOCI(c) ==
  LET app == OCI("functions_application", TfName(c.name) \o "_app")
  IN One(app, {Compartment, <<"var", "function_subnet_ids">>})
     \cup One(OCI("functions_function", TfName(c.name)), {app, <<"var", "function_image">>})
=============================================================================
