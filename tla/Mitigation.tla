------------------------------ MODULE Mitigation ------------------------------
(***************************************************************************)
(* Services a provider does not offer, or that the author wants on a       *)
(* machine, are self-hosted on one (mitigation.go); a service may also be  *)
(* placed on a machine of the environment (host_placement.go).             *)
(***************************************************************************)
EXTENDS Dispatch

SecretTypes     == {"secrets-manager"}
KeyTypes        == {"kms", "encryption-key"}
QueueTypes      == {"managed-queue", "message-queue"}
StreamTypes     == {"event-streaming", "event-bus"}
BucketTypes     == {"object-storage", "blob-storage"}
SyntheticsTypes == {"synthetics", "uptime-check"}
WAFTypes        == {"waf-service", "waf"}
CDNTypes        == {"cdn-service", "cdn"}
EmailTypes      == {"email-service", "email"}
KubernetesTypes == {"managed-kubernetes", "container-service"}

\* Another spelling of a volume, "volume", is assembled but never mitigated.
Mitigatable(type) ==
  type \in {"cache", "managed-database", "monitoring", "serverless-function", "load-balancer",
            "vm-volume", "block-storage"}
           \cup SecretTypes \cup KeyTypes \cup QueueTypes \cup StreamTypes \cup BucketTypes \cup SyntheticsTypes
           \cup WAFTypes \cup CDNTypes \cup EmailTypes \cup KubernetesTypes

Hyperscalers == {"aws", "gcp", "digitalocean"}
Managed      == {"aws", "gcp", "azure", "oracle", "ibm", "alibaba"}

\* The providers with a managed service of a kind.
nativeSupport(type) ==
  CASE type = "managed-database" -> Managed \cup {"digitalocean", "linode", "ubicloud", "ovh", "stackit",
                                                  "tencent", "vultr", "scaleway", "huawei"}
    [] type \in {"cache", "serverless-function"} \cup StreamTypes -> Managed \cup {"digitalocean"}
    [] type \in BucketTypes \cup KubernetesTypes -> Managed \cup {"digitalocean", "linode", "ovh", "stackit"}
    [] type \in SecretTypes -> Managed \cup {"stackit", "digitalocean"}
    [] type \in QueueTypes -> (Managed \ {"ibm"}) \cup {"digitalocean"}
    [] type \in {"monitoring", "vm-volume", "block-storage"} \cup KeyTypes \cup SyntheticsTypes -> Hyperscalers
    [] type \in WAFTypes -> Managed \cup {"digitalocean", "linode"}
    [] type = "load-balancer" -> Managed \cup {"digitalocean", "linode", "stackit"}
    [] type \in CDNTypes -> {"aws", "gcp", "digitalocean", "azure", "alibaba", "cloudflare"}
    [] type \in EmailTypes -> {"aws", "digitalocean"}

NativelySupported(type, provider) == Mitigatable(type) => provider \in nativeSupport(type)

ExplicitVMPlacement(type) == type \in {"managed-database", "cache"}

\* The author's placement is the option "vm"; any other placement is "elsewhere".
ForcesVMPlacement(c) == Has(c, "vm") /\ ExplicitVMPlacement(c.type)

SelfHosted(provider, c) == ~NativelySupported(c.type, provider) \/ ForcesVMPlacement(c)

\* Mutant: the stand-in keeps the count of a service, which is none.
mitigateWithNoMachine(ctx, c) == OrRefuse(ctx.offered, RenderVMHCL(ctx, c))

\* One machine of the component's name, in the network and the group, with no
\* tag of its own.
mitigateComponent(ctx, c) ==
  LET vm == [c EXCEPT !.parts = [instances |-> {"-1"}]]
  IN OrRefuse(ctx.offered, RenderVMHCL(ctx, vm))

-----------------------------------------------------------------------------
(* A service bound to a machine of the environment, named by its "host",   *)
(* adds its bootstrap to the machine's; other services must have none.     *)

Machines(components) == {i \in DOMAIN components : components[i].type = "virtual-machine"}
Hosted(c) == Parts(c, "host") # {}

bindServiceHosts(components) ==
  LET Vacant(i) == /\ ~Has(components[i], "no_config")
                   /\ Parts(components[i], "instances") = {"-1"}
                   /\ ~Has(components[i], "other_bootstrap")
  IN /\ \A i, j \in Machines(components) : components[i].name = components[j].name => i = j
     /\ \A c \in {components[i] : i \in DOMAIN components} :
          IF Hosted(c)
            THEN /\ \E i \in Machines(components) : components[i].name \in Parts(c, "host") /\ Vacant(i)
                 /\ Has(c, "vm") /\ ExplicitVMPlacement(c.type) /\ Has(c, "bash_bootstrap")
            ELSE ~Has(c, "bash_bootstrap")
=============================================================================
