------------------------------ MODULE MCAssemble ------------------------------
(***************************************************************************)
(* Small environments for every provider: one component of every kind with *)
(* each setting that changes what is rendered, alone or beside a machine,  *)
(* a scale group, a cluster or the Vault droplets.                         *)
(***************************************************************************)
EXTENDS DOBaseline, ProdEstate

None == <<>>
Plain(type, name)         == Component(type, name, {}, None, NoTarget)
With(type, name, opts)    == Component(type, name, opts, None, NoTarget)
Of(type, name, parts)     == Component(type, name, {}, parts, NoTarget)

\* Names that tfName and canonicalName change; the ones derived from them too.
MCFolded  == ("Prod.1" :> "prod_1") @@ ("Prod.1-net" :> "prod_1-net") @@ ("Prod.1-sg" :> "prod_1-sg") @@ ("Pool.1" :> "pool_1")
              @@ ("Pool.1-1" :> "pool_1-1")
MCDashed  == ("my_site" :> "my-site") @@ ("ctl_plane" :> "ctl-plane")
MCServices == ("pyx-pool" :> "pool") @@ ("pyx-pool_1" :> "pool_1") @@ ("pyx-vault" :> "vault") @@ ("pyx-prod-web" :> "prod-web")
              @@ ("pyx-prod-app" :> "prod-app") @@ ("pyx-edge" :> "edge")

Machine   == Of("virtual-machine", "web", [instances |-> {"-1"}])
Pair      == Of("virtual-machine", "app", [instances |-> {"-1", "-2"}])
Tagged1   == Of("virtual-machine", "web", [instances |-> {"-1"}, tag |-> {"pyx-edge"}])
Pool      == With("virtual-machine-scale-group", "pool", {"elb_health"})
Cluster   == Plain("managed-kubernetes", "k8s")

Machines1 ==
  {Machine, Pair, Tagged1, Pool, Plain("virtual-machine-scale-group", "vault"), Cluster,
   Component("virtual-machine", "web", {"no_config"}, [instances |-> {"-1"}], NoTarget),
   Of("virtual-machine", "web", [instances |-> {"-1"}, tag |-> {"pyxcloud"}]),
   Of("virtual-machine", "web", [instances |-> {"-1"}, profile |-> {"runner"}]),
   Of("virtual-machine-scale-group", "pool", [profile |-> {"runner"}, tag |-> {"pyx-edge"}]),
   Of("virtual-machine-scale-group", "pool", [asks |-> {"do_main_db_url"}]),
   Of("virtual-machine-scale-group", "pool", [secrets |-> {"do/api-token"}])}

Listeners == [listeners |-> {"_80", "_443"}]
Balancers ==
  {Component("load-balancer", "lb", {}, Listeners, "web"),
   Component("load-balancer", "lb", {}, None, NoTarget),
   Component("load-balancer", "lb", {"stable_ip"}, Listeners, "web"),
   Component("load-balancer", "lb", {}, Listeners @@ [target_tag |-> {"pyx-edge"}], "web"),
   Component("load-balancer", "lb", {"group_target"}, Listeners @@ [rules |-> {"a"}, routes |-> {"pool"}], "pool"),
   Component("attach-to-existing-alb", "alb", {}, None, "pool")}

Data ==
  {Plain("managed-database", "db"), With("managed-database", "db", {"mysql"}), With("managed-database", "db", {"vm"}),
   Component("managed-database", "db", {"vm", "bash_bootstrap"}, [host |-> {"web"}], NoTarget),
   With("managed-database", "db", {"elsewhere"}), With("managed-queue", "jobs", {"vm"}),
   Plain("cache", "redis"), With("cache", "redis", {"vm"}), Plain("kv-store", "kv"),
   Plain("object-storage", "files"), With("object-storage", "files", {"policy", "logging", "lifecycle_configuration"}),
   With("blob-storage", "files", {"sse_kms", "public"}),
   Plain("managed-queue", "jobs"), With("message-queue", "jobs", {"cluster_name", "max_receive_count"}),
   With("event-streaming", "events", {"cluster_name"}),
   Component("vm-volume", "disk", {}, None, "web"), Component("volume", "disk", {}, None, "web"),
   Component("reserved-ip", "ip", {}, None, "web"), Plain("container-registry", "images")}

Edge ==
  {Plain("static-site", "my_site"), With("spa", "my_site", {"cdn_disabled"}),
   Component("cdn", "front", {"bucket_origin"}, None, "files"), Component("cdn", "front", {}, None, "lb"),
   Plain("waf", "shield"), With("waf-service", "shield", {"cloudfront_scope"}),
   Of("dns", "zone", [records |-> {"_1", "_2"}]), Component("dns", "zone", {"zone_id"}, [records |-> {"_1"}], NoTarget),
   With("email", "mail", {"domain"}), Of("prefix-list", "offices", [entries |-> {"_1"}]),
   With("vpn-access", "door", {"keycloak_role"}), Component("vpn-door", "door", {"keycloak_role"}, None, "hub")}

Operations ==
  {Of("monitoring", "watch", [log_groups |-> {"logs"}, alarms |-> {"cpu"}]),
   Component("monitoring", "watch", {"cluster_name", "tempo"}, [alarms |-> {"cpu"}, scrapes |-> {"web"}], NoTarget),
   With("tracing", "traces", {"cluster_name"}),
   Component("certificate", "cert", {"cluster_name", "email", "dns_challenge"}, [domains |-> {"*"}], NoTarget),
   Plain("secrets-manager", "secrets"), With("secrets-manager", "secrets", {"rotation", "cluster_name"}),
   Plain("kms", "keys"), With("kms", "keys", {"cluster_name"}),
   With("vault", "vault", {"cluster_name"}), With("vault-ha", "safe", {"cluster_name"}),
   Component("workload-identity", "runner", {"cluster_name", "kubernetes"}, [policies |-> {"read"}], NoTarget),
   Component("workload-identity", "runner", {"cluster_name"}, [policies |-> {"read"}], NoTarget),
   Component("access-policy", "runner", {}, [inline |-> {"read"}], NoTarget), Plain("access-policy", "runner"),
   Component("access-policy", "runner", {"assume_service", "instance_profile"}, [inline |-> {"read"}], NoTarget),
   With("iam", "runner", {"instance_profile"}),
   With("cron-job", "nightly", {"cluster_name", "image"}),
   Plain("synthetics", "probe"), With("uptime-check", "probe", {"target_url", "artifact_bucket", "exec_role"}),
   Plain("serverless-function", "fn"), With("serverless-function", "fn", {"artifact"}),
   Plain("web-service", "site"), With("web-service", "site", {"image", "image_repository"}),
   Plain("pipeline-control-plane", "ctl-plane"),
   With("pipeline-runner", "ctl-plane", {"artifact", "definition", "github_oidc", "owner_repo"})}

Palette == Machines1 \cup Balancers \cup Data \cup Edge \cup Operations

Clouds == {"aws", "gcp", "digitalocean", "azure", "linode", "ubicloud", "oracle", "ibm", "alibaba", "ovh", "stackit",
           "tencent", "hetzner", "vultr", "scaleway", "rackspace", "huawei", "akamai", "fastly", "vsphere",
           "cloudflare"}

Office == [dir |-> "ingress", proto |-> "tcp", port |-> "_22", scope |-> "cidr", from |-> NoTarget,
           v4 |-> {"_0", "_1"}, v6 |-> {}]
Peer   == [Office EXCEPT !.scope = "group", !.from = "albs", !.v4 = {}]
Listed == [Office EXCEPT !.scope = "prefix", !.from = "offices", !.v4 = {}]

Environment(provider, name, opts, expose, ingress, cs, project, vault) ==
  [provider |-> provider, name |-> name, opts |-> opts, expose |-> expose, ingress |-> ingress,
   components |-> cs, project |-> project, vault |-> vault]

Vault1 == [name |-> "", nodes |-> 1, opts |-> {"reserved_ips"}]

Alone ==
  {Environment(p, "prod", o, e, None, <<c>>, {}, {}) :
     p \in Clouds, o \in {{}, {"baseline"}}, e \in {{}, {"_443"}}, c \in Palette}

Beside ==
  {Environment(p, "prod", o, {"_443"}, None, <<h, c>>, {}, {}) :
     p \in Clouds, o \in {{}, {"baseline"}}, h \in {Machine, Pool, Cluster}, c \in Palette}

OnDigitalOcean ==
  {Environment("digitalocean", "prod", o, {"_443"}, None, <<h, c>>, {"live"}, v) :
     o \in {{}, {"baseline"}, {"mixed_case"}}, h \in {Machine, Pool}, c \in Palette, v \in {{}, {Vault1}}}

Guarded ==
  {Environment(p, n, {}, {}, [i1 |-> r], <<Machine>>, {}, {}) :
     p \in Clouds, n \in {"prod", "Prod.1", ""}, r \in {Office, Peer, Listed}}
  \cup {Environment("digitalocean", "Prod.1", {}, {}, None, <<Machine>>, {}, {[Vault1 EXCEPT !.nodes = n, !.opts = o]}) :
          n \in {0, 2, 3}, o \in {{}, {"transit"}, {"transit", "transit_address"}}}
  \cup {Environment(p, "prod", {"not_offered"}, {}, None, <<c>>, {}, {}) : p \in Clouds, c \in {Machine, Cluster}}

\* Pairs that share something: a zone, a namespace, a target, a cluster.
Sharing ==
  {Of("dns", "zone", [records |-> {"_1"}]), Plain("static-site", "my_site"), Component("cdn", "front", {"bucket_origin"}, None, "files"),
   Plain("object-storage", "files"), Plain("blob-storage", "archive"), Cluster, Pool, Tagged1,
   With("vault", "vault", {"cluster_name"}), With("tracing", "traces", {"cluster_name"}),
   Component("workload-identity", "runner", {"cluster_name", "kubernetes"}, [policies |-> {"read"}], NoTarget),
   Component("load-balancer", "lb", {"group_target"}, Listeners @@ [routes |-> {"pool"}], "pool"),
   Component("load-balancer", "edge", {"group_target"}, Listeners @@ [routes |-> {"pool"}], "pool")}

Together ==
  {Environment(p, "prod", {}, {"_443"}, None, <<Pool, a, b>>, {}, {}) :
     p \in {"aws", "gcp", "digitalocean", "oracle"}, a \in Sharing, b \in Sharing \ {Pool}}

\* A machine or a scale group behind a balancer.
Fronting ==
  {Environment("digitalocean", "prod", o, {"_443"}, None, <<h, Component("load-balancer", "lb", {}, Listeners, h.name)>>, {}, {}) :
     o \in {{}, {"baseline"}}, h \in {Machine, Pair, Tagged1, Pool, [Pool EXCEPT !.name = "Pool.1"]}}

\* Pairs of which one points at the other: by its name, by a canonical form that
\* misses it, or by an instance profile that a policy may lack.
Pointers ==
  {<<Plain("object-storage", n), Component("cdn", "front", {"bucket_origin"}, None, n)>> : n \in {"files", "my_site"}}
  \cup {<<Component("load-balancer", n, {}, Listeners, NoTarget), Component(t, "front", {}, None, n)>> :
           n \in {"lb", "my_site"}, t \in {"cdn", "waf"}}
  \cup {<<With("cache", "redis", {"vm"}), Component("block-storage", "disk", {}, None, "redis")>>}
  \cup {<<Of("virtual-machine", "web", [instances |-> {"-1"}, profile |-> {"runner"}]),
          Component(t, "runner", o, [inline |-> {"read"}], NoTarget)>> :
           t \in {"access-policy", "iam"}, o \in {{}, {"instance_profile"}}}

Pointing == {Environment(p, "prod", {}, {}, None, cs, {}, {}) : p \in Clouds, cs \in Pointers}

\* The platform's environments: groups with bare machines, with the scripts of
\* DigitalOcean (unless one cannot be rendered), and with the other SSO.
SpecsOf(opts) == [s \in {PlatformServices[i] : i \in DOMAIN PlatformServices} |-> opts]
Specs == {SpecsOf({"environment", "oidc_secret", "smtp"}), SpecsOf({"environment"}),
          SpecsOf({"environment", "oidc_secret", "own_variables", "own_paths"})}

Groupings ==
  {PlatformScaleGroupComponents, WithSSODOUserData(PlatformScaleGroupComponents, RenderSSOBootstrapUserData({"environment"}))}
  \cup {PlatformScaleGroupComponentsWithDOBootstraps(s) : s \in {t \in Specs : Renders(t)}}

Platform ==
  {ProdEstateInput(p, g) : p \in {"aws", "gcp", "digitalocean"}, g \in Groupings}
  \cup {FullEstateInput(p) : p \in {"aws", "digitalocean"}}

MCBaselines ==
  {Environment("digitalocean", "passo-do-baseline", o, {}, None, <<>>, {"pyxcloud-staging"}, {}) :
     o \in SUBSET {"secrets", "full", "oidc_secret", "vault_ha", "token", "unknown_seal", "transit", "reserved_ips"}}

Estates == Alone \cup Beside \cup OnDigitalOcean \cup Guarded \cup Together \cup Fronting \cup Pointing \cup Platform \cup MCBaselines
=============================================================================
