------------------------- MODULE RegionalComponents -------------------------
(***************************************************************************)
(* The renderers of the smaller providers: Linode (render_linode.go),      *)
(* Ubicloud (render_ubicloud.go) and STACKIT (render_stackit.go).          *)
(***************************************************************************)
EXTENDS HCL

Linode(type, n)   == <<"linode", type, n>>
Ubicloud(type, n) == <<"ubicloud", type, n>>
STACKIT(type, n)  == <<"stackit", type, n>>

-----------------------------------------------------------------------------
renderLinodeNetwork(net) ==
  LET vpc == Linode("vpc", TfName(net.name))
  IN One(vpc, {}) \cup {Block(Linode("vpc_subnet", SubnetLabel(net.name, i)), {vpc}) : i \in net.subnets}

\* One firewall with its rules inside; it is attached to no machine.
renderSGLinode(sg) == One(Linode("firewall", TfName(sg.name)), {})

renderVMLinode(ctx, c) ==
  {Block(Linode("instance", TfName(c.name \o i)),
         {<<"var", "linode_root_pass">>}
         \cup When(HasNetwork(ctx), {Linode("vpc_subnet", SubnetLabel(ctx.network, "_1"))})) :
     i \in Parts(c, "instances")}

\* Every listener has a configuration and, in front of a machine, a node.
renderLBLinode(c) ==
  LET n         == TfName(c.name)
      balancer  == Linode("nodebalancer", n)
      Config(l) == Linode("nodebalancer_config", n \o "_config" \o l)
  IN One(balancer, {})
     \cup {Block(Config(l), {balancer}) : l \in Parts(c, "listeners")}
     \cup When(Has(c, "vm_target") /\ c.target # NoTarget,
               {Block(Linode("nodebalancer_node", n \o "_node" \o l),
                      {balancer, Config(l), Linode("instance", TfName(c.target \o "-1"))}) : l \in Parts(c, "listeners")})

\* MySQL is rendered as PostgreSQL, with a comment that says so.
renderMDBLinode(c) == One(Linode("database_postgresql_v2", TfName(c.name)), {<<"var", "db_allow_list">>})

renderObjectStorageLinode(c) == One(Linode("object_storage_bucket", TfName(c.name)), {})
renderDNSLinode(c)           == One(Linode("domain", TfName(c.name)), {<<"var", "dns_soa_email">>})
renderK8sLinode(c)           == One(Linode("lke_cluster", TfName(c.name)), {})

-----------------------------------------------------------------------------
(* Everything of Ubicloud belongs to var.ubicloud_project_id.              *)

Project == <<"var", "ubicloud_project_id">>

renderNetworkUbicloud(net) == One(Ubicloud("private_subnet", TfName(net.name)), {Project})

\* Only the ranges of ingress rules become rules.
renderSGUbicloud(sg) ==
  LET firewall == Ubicloud("firewall", TfName(sg.name))
      Ranges(r) == When(r.dir = "ingress" /\ r.scope # "group", r.v4 \cup {"_ipv6" \o v : v \in r.v6})
  IN One(firewall, {Project})
     \cup UNION {{Block(Ubicloud("firewall_rule", TfName(sg.name) \o "_rule_" \o i \o v), {Project, firewall}) :
                    v \in Ranges(sg.rules[i])} : i \in DOMAIN sg.rules}

renderVMUbicloud(ctx, c) ==
  {Block(Ubicloud("vm", TfName(c.name \o i)),
         {Project, <<"var", "ubicloud_ssh_public_key">>} \cup NetRef(ctx, <<"ubicloud", "private_subnet">>)) :
     i \in Parts(c, "instances")}

\* errUbicloudUnsupported: MySQL is refused at plan time.
renderMDBUbicloud(c) == OrRefuse(~Has(c, "mysql"), One(Ubicloud("postgres", TfName(c.name)), {Project}))

-----------------------------------------------------------------------------
(* Everything of STACKIT belongs to var.stackit_project_id.                *)

InProject(type, n, refs) == Block(STACKIT(type, n), {<<"var", "stackit_project_id">>} \cup refs)
StackItGroup(n)          == STACKIT("security_group", TfName(n))

renderStackItNetwork(net) == {InProject("network", TfName(net.name), {})}

\* One rule, of the first IPv4 range, however many ranges are declared.
renderStackItSG(sg) ==
  {InProject("security_group", TfName(sg.name), {})}
  \cup {InProject("security_group_rule", TfName(sg.name) \o "_rule_" \o i,
                  {StackItGroup(sg.name)} \cup When(sg.rules[i].scope = "group", {StackItGroup(sg.rules[i].from)})) :
          i \in DOMAIN sg.rules}

\* A server joins neither the network nor the group.
renderStackItVM(c) == {InProject("server", TfName(c.name \o i), {}) : i \in Parts(c, "instances")}

renderStackItMDB(c) ==
  {InProject(IF Has(c, "mysql") THEN "mariadb_instance" ELSE "postgresflex_instance", TfName(c.name), {})}

renderStackItObjectStorage(c) == {InProject("objectstorage_bucket", TfName(c.name), {})}
renderStackItKubernetes(c)    == {InProject("ske_cluster", TfName(c.name), {})}
renderStackItDNSZone(c)       == {InProject("dns_zone", TfName(c.name), {})}
renderStackItSecrets(c)       == {InProject("secretsmanager_instance", TfName(c.name), {})}

\* The balancer always refers to a network of the environment.
renderStackItLoadBalancer(ctx, c) ==
  {InProject("loadbalancer", TfName(c.name), {STACKIT("network", TfName(ctx.network))})}
=============================================================================
