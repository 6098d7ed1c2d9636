-------------------------- MODULE AzureComponents --------------------------
(***************************************************************************)
(* The Azure renderers (render_azure.go).  A networked component lives in  *)
(* the network's resource group; the others ask for one in the variable    *)
(* resource_group_name, which no document declares.                        *)
(***************************************************************************)
EXTENDS HCL

Azure(type, n) == <<"azurerm", type, n>>
AskedGroup     == <<"var", "resource_group_name">>
SSHPublicKey   == <<"var", "ssh_public_key">>

\* azureRGRef: the resource group that comes with a network.
azureRGRef(ctx)   == When(HasNetwork(ctx), {Azure("resource_group", TfName(ctx.network) \o "_rg")})
AzureSubnet(ctx)  == When(HasNetwork(ctx), {Azure("subnet", SubnetLabel(ctx.network, "_1"))})

renderNetworkAzure(net) ==
  LET group == Azure("resource_group", TfName(net.name) \o "_rg")
      vnet  == Azure("virtual_network", TfName(net.name))
  IN {Block(group, {}), Block(vnet, {group})}
     \cup {Block(Azure("subnet", SubnetLabel(net.name, i)), {group, vnet}) : i \in net.subnets}

\* The group is associated with no subnet and no interface.
renderSGAzure(ctx, sg) ==
  LET group == Azure("network_security_group", TfName(sg.name))
  IN One(group, azureRGRef(ctx))
     \cup {Block(Azure("network_security_rule", TfName(sg.name) \o "_" \o sg.rules[i].dir \o "_" \o i),
                 {group} \cup azureRGRef(ctx)) : i \in DOMAIN sg.rules}

renderVMAzure(ctx, c) ==
  LET Nic(i) == Azure("network_interface", TfName(c.name \o i) \o "_nic")
  IN UNION {{Block(Nic(i), azureRGRef(ctx) \cup AzureSubnet(ctx)),
             Block(Azure("linux_virtual_machine", TfName(c.name \o i)),
                   {Nic(i), SSHPublicKey} \cup azureRGRef(ctx))} : i \in Parts(c, "instances")}

\* A group whose health is the balancer's asks for the probe in a variable.
renderScaleGroupAzure(ctx, c) ==
  LET vmss == Azure("linux_virtual_machine_scale_set", TfName(c.name) \o "_vmss")
  IN One(vmss, {SSHPublicKey} \cup azureRGRef(ctx) \cup AzureSubnet(ctx)
               \cup When(Has(c, "elb_health"), {<<"var", "lb_health_probe_id">>}))
     \cup One(Azure("monitor_autoscale_setting", TfName(c.name) \o "_as"), {vmss} \cup azureRGRef(ctx))

\* The backend pool has no members.
renderLBAzure(ctx, c) ==
  LET n     == TfName(c.name)
      pip   == Azure("public_ip", n \o "_pip")
      lb    == Azure("lb", n \o "_lb")
      pool  == Azure("lb_backend_address_pool", n \o "_pool")
      probe == Azure("lb_probe", n \o "_probe")
  IN {Block(pip, azureRGRef(ctx)), Block(lb, {pip} \cup azureRGRef(ctx)), Block(pool, {lb}), Block(probe, {lb})}
     \cup {Block(Azure("lb_rule", n \o "_rule" \o l), {lb, pool, probe}) : l \in Parts(c, "listeners")}

renderMDBAzure(ctx, c) ==
  One(Azure(IF Has(c, "mysql") THEN "mysql_flexible_server" ELSE "postgresql_flexible_server", TfName(c.name)),
      {<<"var", "db_password">>} \cup azureRGRef(ctx))

renderObjectStorageAzure(c) ==
  LET account == Azure("storage_account", TfName(c.name) \o "_sa")
  IN {Block(account, {AskedGroup}), Block(Azure("storage_container", TfName(c.name) \o "_container"), {account})}

renderCacheAzure(c) == One(Azure("redis_cache", TfName(c.name)), {AskedGroup})

renderQueueAzure(c) ==
  LET space == Azure("servicebus_namespace", TfName(c.name) \o "_sbns")
  IN {Block(space, {AskedGroup}), Block(Azure("servicebus_queue", TfName(c.name)), {space})}

renderStreamAzure(c) ==
  LET space == Azure("eventhub_namespace", TfName(c.name) \o "_ehns")
  IN {Block(space, {AskedGroup}), Block(Azure("eventhub", TfName(c.name)), {space, AskedGroup})}

renderDNSZoneAzure(ctx, c) ==
  LET zone == Azure("private_dns_zone", TfName(c.name))
  IN IF Has(c, "private")
       THEN One(zone, {AskedGroup})
            \cup When(HasNetwork(ctx),
                      One(Azure("private_dns_zone_virtual_network_link", TfName(c.name) \o "_link"),
                          {zone, AskedGroup, Azure("virtual_network", TfName(ctx.network))}))
       ELSE One(Azure("dns_zone", TfName(c.name)), {AskedGroup})

renderCDNAzure(c) ==
  LET profile == Azure("cdn_frontdoor_profile", TfName(c.name) \o "_fd")
  IN {Block(profile, {AskedGroup}), Block(Azure("cdn_frontdoor_endpoint", TfName(c.name) \o "_fde"), {profile})}

renderWAFAzure(c) == One(Azure("cdn_frontdoor_firewall_policy", TfName(c.name)), {AskedGroup})

renderKubernetesAzure(ctx, c) ==
  One(Azure("kubernetes_cluster", TfName(c.name)),
      IF HasNetwork(ctx) THEN azureRGRef(ctx) \cup AzureSubnet(ctx) ELSE {AskedGroup})

renderSecretsAzure(c) == One(Azure("key_vault", TfName(c.name)), {AskedGroup, <<"var", "azure_tenant_id">>})

renderServerlessAzure(c) ==
  LET plan == Azure("service_plan", TfName(c.name) \o "_plan")
  IN {Block(plan, {AskedGroup}),
      Block(Azure("linux_function_app", TfName(c.name)),
            {plan, AskedGroup, <<"var", "function_storage_account_name">>, <<"var", "function_storage_access_key">>})}
=============================================================================
