------------------------------ MODULE ProdEstate ------------------------------
(***************************************************************************)
(* The platform's own environments (platform_asgs.go, full_estate.go,      *)
(* prod_estate.go): the services as scale groups of one, and around them   *)
(* the databases, buckets, frontends and shared components.                *)
(***************************************************************************)
EXTENDS Bootstraps, SequencesExt

Group(service, script) ==
  Component("virtual-machine-scale-group", service,
            When(service \in {"sso", "obs", "backend", "mcp"}, {"elb_health"}),
            [asks |-> script.asks, secrets |-> script.secrets], NoTarget)

PlatformScaleGroupComponents == [i \in DOMAIN PlatformServices |-> Group(PlatformServices[i], NoScript)]

\* One spec per service; one that does not render leaves no component at all.
Renders(specs) == \A s \in DOMAIN specs : Needs(s) \subseteq specs[s]

PlatformScaleGroupComponentsWithDOBootstraps(specs) ==
  IF ~Renders(specs) THEN <<>>
  ELSE [i \in DOMAIN PlatformServices |->
          LET s == PlatformServices[i] IN Group(s, DOBootstrap(s, specs[s]))]

\* WithSSODOUserData: only the sso group gets the script.
WithSSODOUserData(groups, script) ==
  [i \in DOMAIN groups |-> IF groups[i].name = "sso" THEN Group("sso", script) ELSE groups[i]]

-----------------------------------------------------------------------------
(* What surrounds the services.  The components that run in a cluster are  *)
(* told to look for one named "backend".                                   *)

Simple(type, name, opts) == Component(type, name, opts, <<>>, NoTarget)

prodManagedDatabaseComponents ==
  <<Simple("managed-database", "keycloak-db", {}), Simple("managed-database", "pyx-main-db", {})>>

prodBuckets ==
  <<"deploy-artifacts", "api-artifact", "provisioning", "provisioning-scripts", "lambda-artifacts", "app-assets",
    "pyx-frontend", "vibe-assets", "public-downloads", "terraform-state", "env-config", "backup", "sast-scan",
    "alb-access-logs", "cloudtrail-logs", "observability-dumps", "user-uploads", "reports">>

AccessLogged == {"app-assets", "pyx-frontend", "vibe-assets", "public-downloads", "user-uploads"}

prodObjectStorageComponents ==
  [i \in DOMAIN prodBuckets |->
     Simple("object-storage", prodBuckets[i],
            {"server_side_encryption_configuration", "lifecycle_configuration"}
            \cup When(prodBuckets[i] \in AccessLogged, {"logging"}))]

prodStaticSiteComponents ==
  <<Simple("static-site", "marketing", {}), Simple("static-site", "console", {}), Simple("static-site", "vibe", {})>>

\* Rules send some hosts to other services than the backend.
EdgeLB(services) ==
  Component("load-balancer", "edge-lb", {"group_target"},
            [listeners |-> {"_443"}, rules |-> {"_200"}, routes |-> services], "backend")

Monitoring ==
  Component("monitoring", "app-monitoring", {"cluster_name", "tempo"},
            [alarms |-> {"backend-cpu-high", "backend-5xx"}, scrapes |-> {"backend"}], NoTarget)

Certificate(domains) ==
  Component("tls-certificate", "app-tls", {"cluster_name", "email"}, [domains |-> domains], NoTarget)

PeerComponents(services, domains) ==
  <<EdgeLB(services), Simple("container-registry", "app-images", {}), Simple("key-value-store", "jit-allowlist", {}),
    Simple("tracing", "app-traces", {"cluster_name"}), Monitoring, Certificate(domains),
    Simple("scheduled-trigger", "nightly", {"cluster_name", "image"}), Simple("reserved-ip", "vpn-endpoint", {})>>

prodPlatformPeerComponents ==
  PeerComponents({"sso", "mcp"}, {"app", "admin", "mcp"})
  \o <<Simple("managed-queue", "app-queue", {"cluster_name", "max_receive_count"}),
       Simple("secrets-manager", "app-secrets", {"cluster_name"})>>

prodEmailComponent == Simple("email", "email-sender", {"domain"})

ProdEstateComponents(groups) ==
  groups \o prodManagedDatabaseComponents \o prodObjectStorageComponents \o prodPlatformPeerComponents
  \o prodStaticSiteComponents \o <<prodEmailComponent>>

\* The smaller estate has one bucket, whose log sink is declared elsewhere.
FullEstateComponents ==
  PlatformScaleGroupComponents \o PeerComponents({"sso"}, {"app", "admin"})
  \o <<Simple("object-storage", "assets",
              {"server_side_encryption_configuration", "lifecycle_configuration", "policy", "logging"}),
       Simple("secrets-manager", "app-secrets", {"cluster_name", "rotation"})>>

EstateInput(provider, name, cs) ==
  [provider |-> provider, name |-> name, opts |-> {}, expose |-> {"_443"}, ingress |-> <<>>,
   components |-> cs, project |-> {}, vault |-> {}]

ProdEstateInput(provider, groups) == EstateInput(provider, "passo-prod", ProdEstateComponents(groups))
FullEstateInput(provider)         == EstateInput(provider, "passo-estate", FullEstateComponents)
=============================================================================
