------------------------------- MODULE Dispatch -------------------------------
(***************************************************************************)
(* One component of an environment becomes HCL: the per-provider choice of *)
(* a renderer for every kind of component (the Render...HCL functions of   *)
(* render.go and render_macro.go), the machine that stands in for a        *)
(* service the provider lacks (mitigation.go), and the control plane of    *)
(* the pipelines.  A kind that a provider has no renderer for is refused.  *)
(***************************************************************************)
EXTENDS CoreComponents, ServiceComponents, OperatorComponents, AzureComponents, OracleComponents,
        IBMComponents, AlibabaComponents, RegionalComponents, AdapterComponents

RenderHCL(ctx, net) ==
  CASE ctx.provider = "aws" -> renderAWS(net)
    [] ctx.provider = "gcp" -> renderGCP(net)
    [] ctx.provider = "digitalocean" -> renderDO(net)
    [] ctx.provider = "azure" -> renderNetworkAzure(net)
    [] ctx.provider = "linode" -> renderLinodeNetwork(net)
    [] ctx.provider = "ubicloud" -> renderNetworkUbicloud(net)
    [] ctx.provider = "oracle" -> renderOCI(net)
    [] ctx.provider = "ibm" -> renderNetworkIBM(net)
    [] ctx.provider = "alibaba" -> renderAlibaba(net)
    [] ctx.provider = "ovh" -> renderNetworkOVH(net)
    [] ctx.provider = "stackit" -> renderStackItNetwork(net)
    [] IsAdapter(ctx.provider) -> RenderAdapterNetwork(ManifestOf(ctx.provider), net)
    [] OTHER -> Refusal

RenderSGHCL(ctx, sg) ==
  CASE ctx.provider = "aws" -> renderSGAWS(sg)
    [] ctx.provider = "gcp" -> renderSGGCP(ctx, sg)
    [] ctx.provider = "digitalocean" -> renderSGDO(sg)
    [] ctx.provider = "azure" -> renderSGAzure(ctx, sg)
    [] ctx.provider = "linode" -> renderSGLinode(sg)
    [] ctx.provider = "ubicloud" -> renderSGUbicloud(sg)
    [] ctx.provider = "oracle" -> renderSGOCI(ctx, sg)
    [] ctx.provider = "ibm" -> renderSGIBM(ctx, sg)
    [] ctx.provider = "alibaba" -> renderSGAlibaba(ctx, sg)
    [] ctx.provider = "stackit" -> renderStackItSG(sg)
    [] IsAdapter(ctx.provider) -> RenderAdapterSG(ManifestOf(ctx.provider), sg)
    [] OTHER -> Refusal

RenderVMHCL(ctx, c) ==
  CASE ctx.provider = "aws" -> renderVMAWS(ctx, c)
    [] ctx.provider = "gcp" -> renderVMGCP(ctx, c)
    [] ctx.provider = "digitalocean" -> renderVMDO(ctx, c)
    [] ctx.provider = "azure" -> renderVMAzure(ctx, c)
    [] ctx.provider = "linode" -> renderVMLinode(ctx, c)
    [] ctx.provider = "ubicloud" -> renderVMUbicloud(ctx, c)
    [] ctx.provider = "oracle" -> renderVMOCI(ctx, c)
    [] ctx.provider = "ibm" -> renderVMIBM(ctx, c)
    [] ctx.provider = "alibaba" -> renderVMAlibaba(ctx, c)
    [] ctx.provider = "stackit" -> renderStackItVM(c)
    [] IsAdapter(ctx.provider) -> RenderAdapterVM(ManifestOf(ctx.provider), c)
    [] OTHER -> Refusal

RenderScaleGroupHCL(ctx, c) ==
  CASE ctx.provider = "aws" -> renderASGAWS(ctx, c)
    [] ctx.provider = "gcp" -> renderASGGCP(ctx, c)
    [] ctx.provider = "azure" -> renderScaleGroupAzure(ctx, c)
    [] ctx.provider = "oracle" -> renderASGOCI(ctx, c)
    [] ctx.provider = "ibm" -> renderASGIBM(ctx, c)
    [] ctx.provider = "alibaba" -> renderASGAlibaba(ctx, c)
    [] ctx.provider = "digitalocean" -> renderScaleGroupDO(ctx, c)
    [] OTHER -> Refusal

RenderLoadBalancerHCL(ctx, c) ==
  CASE ctx.provider = "aws" -> renderLBAWS(ctx, c)
    [] ctx.provider = "gcp" -> renderLBGCP(c)
    [] ctx.provider = "digitalocean" /\ Has(c, "stable_ip") -> renderLBDOReservedIP(c)
    [] ctx.provider = "digitalocean" /\ ~Has(c, "stable_ip") -> renderLBDO(ctx, c)
    [] ctx.provider = "azure" -> renderLBAzure(ctx, c)
    [] ctx.provider = "linode" -> renderLBLinode(c)
    [] ctx.provider = "oracle" -> renderLBOCI(ctx, c)
    [] ctx.provider = "ibm" -> renderLBIBM(ctx, c)
    [] ctx.provider = "alibaba" -> renderLBAlibaba(ctx, c)
    [] ctx.provider = "stackit" -> renderStackItLoadBalancer(ctx, c)
    [] OTHER -> Refusal

RenderManagedDatabaseHCL(ctx, c) ==
  CASE ctx.provider = "aws" -> renderMDBAWS(ctx, c)
    [] ctx.provider = "gcp" -> renderMDBGCP(ctx, c)
    [] ctx.provider = "digitalocean" -> renderMDBDO(ctx, c)
    [] ctx.provider = "azure" -> renderMDBAzure(ctx, c)
    [] ctx.provider = "linode" -> renderMDBLinode(c)
    [] ctx.provider = "ubicloud" -> renderMDBUbicloud(c)
    [] ctx.provider = "oracle" -> renderMDBOCI(ctx, c)
    [] ctx.provider = "ibm" -> renderMDBIBM(c)
    [] ctx.provider = "alibaba" -> renderMDBAlibaba(ctx, c)
    [] ctx.provider = "ovh" -> renderManagedDatabaseOVH(ctx, c)
    [] ctx.provider = "stackit" -> renderStackItMDB(c)
    [] IsAdapter(ctx.provider) -> RenderAdapterMDB(ManifestOf(ctx.provider), c)
    [] OTHER -> Refusal

RenderObjectStorageHCL(ctx, c) ==
  CASE ctx.provider = "aws" -> renderObjectStorageAWS(c)
    [] ctx.provider = "gcp" -> renderObjectStorageGCP(c)
    [] ctx.provider = "digitalocean" -> renderObjectStorageDO(c)
    [] ctx.provider = "azure" -> renderObjectStorageAzure(c)
    [] ctx.provider = "linode" -> renderObjectStorageLinode(c)
    [] ctx.provider = "oracle" -> renderObjectStorageOCI(c)
    [] ctx.provider = "ibm" -> renderObjectStorageIBM(c)
    [] ctx.provider = "alibaba" -> renderObjectStorageAlibaba(c)
    [] ctx.provider = "ovh" -> renderObjectStorageOVH(c)
    [] ctx.provider = "stackit" -> renderStackItObjectStorage(c)
    [] OTHER -> Refusal

RenderCacheHCL(ctx, c) ==
  CASE ctx.provider = "aws" -> renderCacheAWS(ctx, c)
    [] ctx.provider = "gcp" -> renderCacheGCP(ctx, c)
    [] ctx.provider = "digitalocean" -> renderCacheDO(ctx, c)
    [] ctx.provider = "azure" -> renderCacheAzure(c)
    [] ctx.provider = "oracle" -> renderCacheOCI(ctx, c)
    [] ctx.provider = "ibm" -> renderCacheIBM(c)
    [] ctx.provider = "alibaba" -> renderCacheAlibaba(ctx, c)
    [] OTHER -> Refusal

\* A queue and a stream share one function, which tells them apart.
RenderMessagingHCL(ctx, c, stream) ==
  CASE ctx.provider = "aws" -> IF stream THEN renderStreamAWS(c) ELSE renderQueueAWS(c)
    [] ctx.provider = "gcp" -> IF stream THEN renderStreamGCP(c) ELSE renderQueueGCP(c)
    [] ctx.provider = "digitalocean" -> IF stream THEN renderStreamDO(TfName(c.name)) ELSE renderQueueDO(TfName(c.name))
    [] ctx.provider = "azure" -> IF stream THEN renderStreamAzure(c) ELSE renderQueueAzure(c)
    [] ctx.provider = "oracle" -> IF stream THEN renderStreamOCI(c) ELSE renderQueueOCI(c)
    [] ctx.provider = "alibaba" -> IF stream THEN renderStreamAlibaba(c) ELSE renderQueueAlibaba(c)
    [] ctx.provider = "ibm" /\ stream -> renderStreamIBM(c)
    [] OTHER -> Refusal

RenderCDNHCL(ctx, c) ==
  CASE UsesCloudflare(ctx, c) -> RenderCloudfareCDNHCL(c)
    [] ctx.provider = "aws" -> renderCDNAWS(c)
    [] ctx.provider = "gcp" -> renderCDNGCP(c)
    [] ctx.provider = "digitalocean" /\ Has(c, "bucket_origin") -> renderCDNDO(c)
    [] ctx.provider = "azure" -> renderCDNAzure(c)
    [] ctx.provider = "alibaba" -> renderCDNAlibaba(c)
    [] OTHER -> Refusal

RenderWAFHCL(ctx, c) ==
  CASE ViaCloudflare(ctx) -> renderWAFCloudflare(c)
    [] ctx.provider = "aws" -> renderWAFAWS(c)
    [] ctx.provider = "gcp" -> renderWAFGCP(c)
    [] ctx.provider = "azure" -> renderWAFAzure(c)
    [] ctx.provider = "oracle" -> renderWAFOCI(c)
    [] ctx.provider = "ibm" -> renderWAFIBM(c)
    [] ctx.provider = "alibaba" -> renderWAFAlibaba(c)
    [] OTHER -> Refusal

RenderKubernetesHCL(ctx, c) ==
  CASE ctx.provider = "aws" -> renderK8sAWS(ctx, c)
    [] ctx.provider = "gcp" -> renderK8sGCP(ctx, c)
    [] ctx.provider = "digitalocean" -> renderK8sDO(ctx, c)
    [] ctx.provider = "azure" -> renderKubernetesAzure(ctx, c)
    [] ctx.provider = "linode" -> renderK8sLinode(c)
    [] ctx.provider = "oracle" -> renderK8sOCI(ctx, c)
    [] ctx.provider = "ibm" -> renderK8sIBM(ctx, c)
    [] ctx.provider = "alibaba" -> renderK8sAlibaba(ctx, c)
    [] ctx.provider = "ovh" -> renderKubernetesOVH(ctx, c)
    [] ctx.provider = "stackit" -> renderStackItKubernetes(c)
    [] OTHER -> Refusal

RenderSecretsHCL(ctx, c) ==
  CASE ctx.provider = "aws" -> renderSecretsAWS(c)
    [] ctx.provider = "gcp" -> renderSecretsGCP(c)
    [] ctx.provider = "azure" -> renderSecretsAzure(c)
    [] ctx.provider = "oracle" -> renderSecretsOCI(c)
    [] ctx.provider = "ibm" -> renderSecretsIBM(c)
    [] ctx.provider = "alibaba" -> renderSecretsAlibaba(c)
    [] ctx.provider = "stackit" -> renderStackItSecrets(c)
    [] OTHER -> Refusal

RenderServerlessHCL(ctx, c) ==
  CASE ctx.provider = "aws" -> renderServerlessAWS(c)
    [] ctx.provider = "gcp" -> renderServerlessGCP(c)
    [] ctx.provider = "digitalocean" -> renderServerlessDO(c)
    [] ctx.provider = "azure" -> renderServerlessAzure(c)
    [] ctx.provider = "oracle" -> renderServerlessOCI(c)
    [] ctx.provider = "ibm" -> renderServerlessIBM(c)
    [] ctx.provider = "alibaba" -> renderServerlessAlibaba(c)
    [] OTHER -> Refusal
-----------------------------------------------------------------------------
(* Static sites (staticsite.go): Amplify, or a public bucket and, unless   *)
(* it is disabled, a Cloudflare CDN in front of it.                        *)

TranslateStaticSite(ctx, c) == ctx.offered /\ ctx.provider \in {"aws", "digitalocean"}

UsesCloudflareSite(ctx, c) == ctx.provider = "digitalocean" /\ ~Has(c, "cdn_disabled")

renderStaticSiteAmplify(c) ==
  LET app == <<"aws", "amplify_app", TfName(c.name)>>
  IN One(app, {}) \cup One(<<"aws", "amplify_branch", TfName(c.name)>>, {app})

renderStaticSiteDO(c) == renderObjectStorageDO(c) \cup When(~Has(c, "cdn_disabled"), RenderCloudfareCDNHCL(c))

RenderStaticSiteHCL(ctx, c) ==
  IF ctx.provider = "aws" THEN renderStaticSiteAmplify(Canonical(c)) ELSE renderStaticSiteDO(Canonical(c))
=============================================================================

