------------------------- MODULE AdapterComponents -------------------------
(***************************************************************************)
(* The providers rendered from templates (adapter.go,                      *)
(* adapter_manifests.go) and OVHcloud, whose renderers are reached through *)
(* adapters of their plans (render_ovh.go, render_ovh_dispatch.go).        *)
(*                                                                         *)
(* A manifest gives the resource types its templates declare (<<>> for a   *)
(* template it lacks), whether a subnet refers to its network, and the     *)
(* variables its machines ask for.                                         *)
(***************************************************************************)
EXTENDS HCL

NoTemplate == <<>>

AdapterManifests ==
  [p \in {"tencent", "hetzner", "vultr", "scaleway", "rackspace"} |->
     CASE p = "tencent" ->
         [vm |-> <<"tencentcloud", "instance">>, asks |-> {}, net |-> <<"tencentcloud", "vpc">>,
          subnet |-> <<"tencentcloud", "subnet">>, joined |-> TRUE,
          sg |-> <<"tencentcloud", "security_group">>, rule |-> <<"tencentcloud", "security_group_rule">>,
          mdb |-> <<"tencentcloud", "postgresql_basic_instance">>]
       [] p = "hetzner" ->
         [vm |-> <<"hcloud", "server">>, asks |-> {}, net |-> <<"hcloud", "network">>,
          subnet |-> <<"hcloud", "network_subnet">>, joined |-> TRUE,
          sg |-> <<"hcloud", "firewall">>, rule |-> NoTemplate, mdb |-> NoTemplate]
       [] p = "vultr" ->
         [vm |-> <<"vultr", "instance">>, asks |-> {}, net |-> <<"vultr", "vpc2">>,
          subnet |-> NoTemplate, joined |-> FALSE,
          sg |-> <<"vultr", "firewall_group">>, rule |-> <<"vultr", "firewall_rule">>,
          mdb |-> <<"vultr", "database">>]
       [] p = "scaleway" ->
         [vm |-> <<"scaleway", "instance_server">>, asks |-> {}, net |-> <<"scaleway", "vpc">>,
          subnet |-> <<"scaleway", "vpc_private_network">>, joined |-> FALSE,
          sg |-> <<"scaleway", "security_group">>, rule |-> <<"scaleway", "security_group_rule">>,
          mdb |-> <<"scaleway", "rdb_instance">>]
       [] p = "rackspace" ->
         [vm |-> <<"openstack", "compute_instance_v2">>, asks |-> {},
          net |-> <<"openstack", "networking_network_v2">>,
          subnet |-> <<"openstack", "networking_subnet_v2">>, joined |-> TRUE,
          sg |-> <<"openstack", "networking_secgroup_v2">>,
          rule |-> <<"openstack", "networking_secgroup_rule_v2">>, mdb |-> NoTemplate]]

\* An edge service stands for a machine of Fastly, and a second machine for
\* the group of a vSphere environment.
tailAdapterManifests ==
  [p \in {"huawei", "akamai", "fastly", "vsphere"} |->
     CASE p = "huawei" ->
         [vm |-> <<"huaweicloud", "compute_instance">>, asks |-> {}, net |-> <<"huaweicloud", "vpc">>,
          subnet |-> <<"huaweicloud", "vpc_subnet">>, joined |-> TRUE,
          sg |-> <<"huaweicloud", "networking_secgroup">>,
          rule |-> <<"huaweicloud", "networking_secgroup_rule">>, mdb |-> <<"huaweicloud", "rds_instance">>]
       [] p = "akamai" ->
         [vm |-> <<"akamai", "linode_instance">>, asks |-> {}, net |-> <<"akamai", "linode_vpc">>,
          subnet |-> NoTemplate, joined |-> FALSE,
          sg |-> <<"akamai", "linode_firewall">>, rule |-> NoTemplate, mdb |-> NoTemplate]
       [] p = "fastly" ->
         [vm |-> <<"fastly", "service_v1">>, asks |-> {}, net |-> NoTemplate,
          subnet |-> NoTemplate, joined |-> FALSE,
          sg |-> <<"fastly", "service_v1">>, rule |-> NoTemplate, mdb |-> NoTemplate]
       [] p = "vsphere" ->
         [vm |-> <<"vsphere", "virtual_machine">>,
          asks |-> {"vsphere_resource_pool_id", "vsphere_datastore_id", "vsphere_network_id",
                   "vsphere_template_uuid"},
          net |-> NoTemplate, subnet |-> NoTemplate, joined |-> FALSE,
          sg |-> <<"vsphere", "virtual_machine">>, rule |-> NoTemplate, mdb |-> NoTemplate]]

AllManifests ==
  [p \in DOMAIN AdapterManifests \cup DOMAIN tailAdapterManifests |->
     IF p \in DOMAIN AdapterManifests THEN AdapterManifests[p] ELSE tailAdapterManifests[p]]

IsAdapter(p) == p \in DOMAIN AllManifests
ManifestOf(p) == AllManifests[p]

\* The name of a machine is replaced by the instance's; network and group
\* are at most quoted labels, never references.
RenderAdapterVM(m, c) ==
  {Block(m.vm \o <<TfName(c.name \o i)>>, {<<"var", v>> : v \in m.asks}) : i \in Parts(c, "instances")}

\* The Rackspace subnet is part of the network's template and bears its name.
RenderAdapterNetwork(m, net) ==
  LET network == m.net \o <<TfName(net.name)>>
      own     == m.net[1] = "openstack"
      Label(i) == IF own THEN TfName(net.name) ELSE SubnetLabel(net.name, i)
  IN IF m.net = NoTemplate THEN {}
     ELSE One(network, {})
          \cup When(m.subnet # NoTemplate,
                    {Block(m.subnet \o <<Label(i)>>, When(m.joined, {network})) : i \in net.subnets})

\* A rule is named by protocol and first port, and takes the first range: a
\* rule of a group has none, so its template fails.
RenderAdapterSG(m, sg) ==
  LET group   == m.sg \o <<TfName(sg.name)>>
      ingress == {r \in {sg.rules[i] : i \in DOMAIN sg.rules} : r.dir = "ingress"}
  IN OrRefuse(m.rule = NoTemplate \/ \A r \in ingress : r.scope = "cidr",
       One(group, IF m.sg[1] = "vsphere" THEN {<<"var", v>> : v \in m.asks \ {"vsphere_template_uuid"}} ELSE {})
       \cup When(m.rule # NoTemplate,
                 {Block(m.rule \o <<TfName(sg.name) \o "_" \o r.proto \o r.port>>, {group}) : r \in ingress}))

AdapterMDBSupported(m) == m.mdb # NoTemplate
RenderAdapterMDB(m, c) == OrRefuse(AdapterMDBSupported(m), One(m.mdb \o <<TfName(c.name)>>, {}))

-----------------------------------------------------------------------------
(* OVHcloud: everything belongs to var.ovh_service_name.                   *)

Service            == <<"var", "ovh_service_name">>
OVH(type, n, refs) == Block(<<"ovh", type, n>>, {Service} \cup refs)
OVHNet(n)          == <<"ovh", "cloud_project_network_private", TfName(n)>>

renderNetworkOVH(net) ==
  {OVH("cloud_project_network_private", TfName(net.name), {})}
  \cup {OVH("cloud_project_network_private_subnet", SubnetLabel(net.name, i), {OVHNet(net.name)}) : i \in net.subnets}

renderManagedDatabaseOVH(ctx, c) ==
  {OVH("cloud_project_database", TfName(c.name), When(HasNetwork(ctx), {OVHNet(ctx.network)}))}

renderKubernetesOVH(ctx, c) ==
  LET n == TfName(c.name)
  IN {OVH("cloud_project_kube", n, When(HasNetwork(ctx), {OVHNet(ctx.network)})),
      OVH("cloud_project_kube_nodepool", n \o "_np", {<<"ovh", "cloud_project_kube", n>>})}

renderObjectStorageOVH(c) == {OVH("cloud_project_storage", TfName(c.name), {})}

\* RenderOVHComponent: the kinds OVHcloud has a renderer for.
OVHSupported == {"network", "managed-database", "managed-kubernetes", "object-storage"}
=============================================================================
