------------------------- MODULE AlibabaComponents -------------------------
(***************************************************************************)
(* The Alibaba Cloud renderers (render_alibaba.go).                        *)
(***************************************************************************)
EXTENDS HCL

Ali(type, n) == <<"alicloud", type, n>>

AliVPC(ctx)         == When(HasNetwork(ctx), {Ali("vpc", TfName(ctx.network))})
Switches(ctx)       == When(HasNetwork(ctx), {Ali("vswitch", SubnetLabel(ctx.network, i)) : i \in Subnets})
FirstSwitch(ctx)    == When(HasNetwork(ctx), {Ali("vswitch", SubnetLabel(ctx.network, "_1"))})
AliGroupOf(n)       == Ali("security_group", TfName(n))
AliGroup(ctx)       == When(HasGroup(ctx), {AliGroupOf(ctx.group)})

renderAlibaba(net) ==
  LET vpc == Ali("vpc", TfName(net.name))
  IN One(vpc, {}) \cup {Block(Ali("vswitch", SubnetLabel(net.name, i)), {vpc}) : i \in net.subnets}

\* One rule, of one range, however many ranges are declared.
renderSGAlibaba(ctx, sg) ==
  One(AliGroupOf(sg.name), AliVPC(ctx))
  \cup {Block(Ali("security_group_rule", TfName(sg.name) \o "_" \o sg.rules[i].dir \o "_" \o i),
              {AliGroupOf(sg.name)} \cup When(sg.rules[i].scope = "group", {AliGroupOf(sg.rules[i].from)})) :
          i \in DOMAIN sg.rules}

renderVMAlibaba(ctx, c) ==
  {Block(Ali("instance", TfName(c.name \o i)), FirstSwitch(ctx) \cup AliGroup(ctx)) : i \in Parts(c, "instances")}

renderASGAlibaba(ctx, c) ==
  LET group == Ali("ess_scaling_group", TfName(c.name) \o "_asg")
  IN {Block(group, Switches(ctx)),
      Block(Ali("ess_scaling_configuration", TfName(c.name) \o "_sc"), {group} \cup AliGroup(ctx))}

\* The server group has no servers.
renderLBAlibaba(ctx, c) ==
  LET n       == TfName(c.name)
      lb      == Ali("alb_load_balancer", n \o "_lb")
      servers == Ali("alb_server_group", n \o "_sg")
  IN {Block(lb, AliVPC(ctx) \cup Switches(ctx)), Block(servers, AliVPC(ctx))}
     \cup {Block(Ali("alb_listener", n \o "_listener" \o l), {lb, servers}) : l \in Parts(c, "listeners")}

renderMDBAlibaba(ctx, c) ==
  One(Ali("db_instance", TfName(c.name)),
      When(Has(c, "encrypted"), {<<"var", "db_encryption_key_id">>}) \cup FirstSwitch(ctx) \cup AliGroup(ctx))

renderObjectStorageAlibaba(c) ==
  LET bucket == Ali("oss_bucket", TfName(c.name))
  IN One(bucket, {}) \cup One(Ali("oss_bucket_acl", TfName(c.name)), {bucket})

renderCacheAlibaba(ctx, c) == One(Ali("kvstore_instance", TfName(c.name)), FirstSwitch(ctx) \cup AliGroup(ctx))
renderQueueAlibaba(c)      == One(Ali("message_service_queue", TfName(c.name)), {})
renderStreamAlibaba(c)     ==
  One(Ali("alikafka_instance", TfName(c.name)), {<<"var", "alikafka_vswitch_id">>, <<"var", "alikafka_kms_key_id">>})
renderDNSAlibaba(c)        == One(Ali("alidns_domain", TfName(c.name)), {})

renderCDNAlibaba(c) ==
  One(Ali("cdn_domain_new", TfName(c.name)),
      IF Has(c, "bucket_origin") /\ c.target # NoTarget THEN {Ali("oss_bucket", TfName(c.target))}
                                                        ELSE {<<"var", "cdn_origin_domain">>})

renderWAFAlibaba(c) ==
  One(Ali("waf_domain", TfName(c.name)),
      {<<"var", v>> : v \in {"waf_domain_name", "waf_instance_id", "waf_origin_ip"}})

renderK8sAlibaba(ctx, c) ==
  LET cluster == Ali("cs_managed_kubernetes", TfName(c.name))
  IN One(cluster, Switches(ctx))
     \cup One(Ali("cs_kubernetes_node_pool", TfName(c.name) \o "_np"), {cluster} \cup Switches(ctx))

renderSecretsAlibaba(c) == One(Ali("kms_secret", TfName(c.name)), {<<"var", "secret_data">>})

renderServerlessAlibaba(c) ==
  One(Ali("fcv3_function", TfName(c.name)),
      {<<"var", "fc_role_arn">>, <<"var", "fc_code_bucket">>}
      \cup When(~Has(c, "artifact"), {<<"var", "fc_code_object">>}))
=============================================================================
