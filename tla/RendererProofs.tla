--------------------------- MODULE RendererProofs ---------------------------
(***************************************************************************)
(* What the renderers write, for every provider, every context and every   *)
(* component.  Of each block: which provider it needs, and that it is no   *)
(* machine of DigitalOcean's (AWSWrites to ComponentWithin); that whoever  *)
(* accepts a component adds something (ComponentLives); and where each     *)
(* document's references lead: to inputs, to blocks of its own, or to      *)
(* a few named ones (MachineResolves to GroupResolves).                    *)
(***************************************************************************)
EXTENDS DOBaseline, SequenceTheorems, TLAPS

\* A block that is neither a droplet nor a scale group.
Bare(b) == ~(b.addr[1] = "digitalocean" /\ b.addr[2] \in {"droplet", "droplet_autoscale"})

\* A block of provider p that is no machine of DigitalOcean: a resource, a data
\* source, or a block that needs no provider; and a document of such blocks.
Machinery == {"droplet", "droplet_autoscale"}
Of(p, b) ==
  \/ \E t, n, r : (p = "digitalocean" => t \notin Machinery) /\ b = Block(<<p, t, n>>, r)
  \/ \E t, n, r, s : (p = "digitalocean" => t \notin Machinery) /\ b = Selecting(Block(<<p, t, n>>, r), s)
  \/ \E t, n, r : b = Block(<<"data", p, t, n>>, r)
  \/ \E k \in {"var", "local", "output"} : \E n, r : b = Block(<<k, n>>, r)
From(S, p) == \A b \in S : Of(p, b)

LEMMA AWSWrites ==
  ASSUME NEW ctx, NEW c
  PROVE  /\ From(renderAWS(c), "aws")
         /\ From(renderSGAWS(c), "aws")
         /\ From(renderVMAWS(ctx, c), "aws")
         /\ From(renderASGAWS(ctx, c), "aws")
         /\ From(renderMDBAWS(ctx, c), "aws")
         /\ From(renderObjectStorageAWS(c), "aws")
         /\ From(renderIAMAWS(c), "aws")
         /\ From(renderCacheAWS(ctx, c), "aws")
         /\ From(renderQueueAWS(c), "aws")
         /\ From(renderStreamAWS(c), "aws")
         /\ From(renderCDNAWS(c), "aws")
         /\ From(renderWAFAWS(c), "aws")
         /\ From(renderK8sAWS(ctx, c), "aws")
         /\ From(renderSecretsAWS(c), "aws")
         /\ From(renderKMSAWS(c), "aws")
         /\ From(renderServerlessAWS(c), "aws")
         /\ From(renderMonitoringAWS(c), "aws")
         /\ From(RenderPrefixListHCL(c), "aws")
         /\ From(renderStaticSiteAmplify(c), "aws")
         /\ From(renderTracingAWS(c), "aws")
         /\ From(renderTLSCertificateAWS(c), "aws")
         /\ From(renderVaultHAAWS(c), "aws")
         /\ From(renderWorkloadIdentityAWS(ctx, c), "aws")
         /\ From(renderScheduledTriggerAWS(ctx, c), "aws")
         /\ From(RenderVPNAccessHCL(ctx, c), "aws")
         /\ From(RenderAttachToExistingALBHCL(ctx, c), "aws")
<1> USE DEF From, Of, Machinery, One, When
<1>1. ASSUME NEW b \in renderAWS(c) PROVE Of("aws", b)
  BY <1>1 DEF renderAWS, VPC
<1>2. ASSUME NEW b \in renderSGAWS(c) PROVE Of("aws", b)
  BY <1>2 DEF renderSGAWS, writeAWSSecurityGroupRule
<1>3. ASSUME NEW b \in renderVMAWS(ctx, c) PROVE Of("aws", b)
  BY <1>3 DEF renderVMAWS
<1>4. ASSUME NEW b \in renderASGAWS(ctx, c) PROVE Of("aws", b)
  BY <1>4 DEF renderASGAWS, ASG
<1>5. ASSUME NEW b \in renderMDBAWS(ctx, c) PROVE Of("aws", b)
  BY <1>5 DEF renderMDBAWS
<1>6. ASSUME NEW b \in renderObjectStorageAWS(c) PROVE Of("aws", b)
  BY <1>6 DEF renderObjectStorageAWS
<1>7. ASSUME NEW b \in renderIAMAWS(c) PROVE Of("aws", b)
  BY <1>7 DEF renderIAMAWS
<1>8. ASSUME NEW b \in renderCacheAWS(ctx, c) PROVE Of("aws", b)
  BY <1>8 DEF renderCacheAWS
<1>9. ASSUME NEW b \in renderQueueAWS(c) PROVE Of("aws", b)
  BY <1>9 DEF renderQueueAWS
<1>10. ASSUME NEW b \in renderStreamAWS(c) PROVE Of("aws", b)
  BY <1>10 DEF renderStreamAWS
<1>11. ASSUME NEW b \in renderCDNAWS(c) PROVE Of("aws", b)
  BY <1>11 DEF renderCDNAWS
<1>12. ASSUME NEW b \in renderWAFAWS(c) PROVE Of("aws", b)
  BY <1>12 DEF renderWAFAWS
<1>13. ASSUME NEW b \in renderK8sAWS(ctx, c) PROVE Of("aws", b)
  BY <1>13 DEF renderK8sAWS
<1>14. ASSUME NEW b \in renderSecretsAWS(c) PROVE Of("aws", b)
  BY <1>14 DEF renderSecretsAWS
<1>15. ASSUME NEW b \in renderKMSAWS(c) PROVE Of("aws", b)
  BY <1>15 DEF renderKMSAWS
<1>16. ASSUME NEW b \in renderServerlessAWS(c) PROVE Of("aws", b)
  BY <1>16 DEF renderServerlessAWS
<1>17. ASSUME NEW b \in renderMonitoringAWS(c) PROVE Of("aws", b)
  BY <1>17 DEF renderMonitoringAWS
<1>18. ASSUME NEW b \in RenderPrefixListHCL(c) PROVE Of("aws", b)
  BY <1>18 DEF RenderPrefixListHCL
<1>19. ASSUME NEW b \in renderStaticSiteAmplify(c) PROVE Of("aws", b)
  BY <1>19 DEF renderStaticSiteAmplify
<1>20. ASSUME NEW b \in renderTracingAWS(c) PROVE Of("aws", b)
  BY <1>20 DEF renderTracingAWS
<1>21. ASSUME NEW b \in renderTLSCertificateAWS(c) PROVE Of("aws", b)
  BY <1>21 DEF renderTLSCertificateAWS
<1>22. ASSUME NEW b \in renderVaultHAAWS(c) PROVE Of("aws", b)
  BY <1>22 DEF renderVaultHAAWS
<1>23. ASSUME NEW b \in renderWorkloadIdentityAWS(ctx, c) PROVE Of("aws", b)
  BY <1>23 DEF renderWorkloadIdentityAWS, RoleBlocks, InstanceProfile
<1>24. ASSUME NEW b \in renderScheduledTriggerAWS(ctx, c) PROVE Of("aws", b)
  BY <1>24 DEF renderScheduledTriggerAWS
<1>25. ASSUME NEW b \in RenderVPNAccessHCL(ctx, c) PROVE Of("aws", b)
  BY <1>25 DEF RenderVPNAccessHCL
<1>26. ASSUME NEW b \in RenderAttachToExistingALBHCL(ctx, c) PROVE Of("aws", b)
  BY <1>26 DEF RenderAttachToExistingALBHCL, TargetGroup, Attachment
<1> QED BY <1>1, <1>2, <1>3, <1>4, <1>5, <1>6, <1>7, <1>8, <1>9, <1>10, <1>11, <1>12, <1>13, <1>14, <1>15, <1>16, <1>17, <1>18, <1>19, <1>20, <1>21, <1>22, <1>23, <1>24, <1>25, <1>26 DEF From

LEMMA GoogleWrites ==
  ASSUME NEW ctx, NEW c
  PROVE  /\ From(renderGCP(c), "google")
         /\ From(renderSGGCP(ctx, c), "google")
         /\ From(renderVMGCP(ctx, c), "google")
         /\ From(renderASGGCP(ctx, c), "google")
         /\ From(renderLBGCP(c), "google")
         /\ From(renderMDBGCP(ctx, c), "google")
         /\ From(renderObjectStorageGCP(c), "google")
         /\ From(renderIAMGCP(c), "google")
         /\ From(renderCacheGCP(ctx, c), "google")
         /\ From(renderQueueGCP(c), "google")
         /\ From(renderStreamGCP(c), "google")
         /\ From(renderCDNGCP(c), "google")
         /\ From(renderWAFGCP(c), "google")
         /\ From(renderK8sGCP(ctx, c), "google")
         /\ From(renderSecretsGCP(c), "google")
         /\ From(renderKMSGCP(c), "google")
         /\ From(renderServerlessGCP(c), "google")
         /\ From(renderMonitoringGCP(c), "google")
<1> USE DEF From, Of, Machinery, One, When
<1>1. ASSUME NEW b \in renderGCP(c) PROVE Of("google", b)
  BY <1>1 DEF renderGCP
<1>2. ASSUME NEW b \in renderSGGCP(ctx, c) PROVE Of("google", b)
  BY <1>2 DEF renderSGGCP
<1>3. ASSUME NEW b \in renderVMGCP(ctx, c) PROVE Of("google", b)
  BY <1>3 DEF renderVMGCP
<1>4. ASSUME NEW b \in renderASGGCP(ctx, c) PROVE Of("google", b)
  BY <1>4 DEF renderASGGCP
<1>5. ASSUME NEW b \in renderLBGCP(c) PROVE Of("google", b)
  BY <1>5 DEF renderLBGCP
<1>6. ASSUME NEW b \in renderMDBGCP(ctx, c) PROVE Of("google", b)
  BY <1>6 DEF renderMDBGCP
<1>7. ASSUME NEW b \in renderObjectStorageGCP(c) PROVE Of("google", b)
  BY <1>7 DEF renderObjectStorageGCP
<1>8. ASSUME NEW b \in renderIAMGCP(c) PROVE Of("google", b)
  BY <1>8 DEF renderIAMGCP
<1>9. ASSUME NEW b \in renderCacheGCP(ctx, c) PROVE Of("google", b)
  BY <1>9 DEF renderCacheGCP
<1>10. ASSUME NEW b \in renderQueueGCP(c) PROVE Of("google", b)
  BY <1>10 DEF renderQueueGCP
<1>11. ASSUME NEW b \in renderStreamGCP(c) PROVE Of("google", b)
  BY <1>11 DEF renderStreamGCP
<1>12. ASSUME NEW b \in renderCDNGCP(c) PROVE Of("google", b)
  BY <1>12 DEF renderCDNGCP
<1>13. ASSUME NEW b \in renderWAFGCP(c) PROVE Of("google", b)
  BY <1>13 DEF renderWAFGCP
<1>14. ASSUME NEW b \in renderK8sGCP(ctx, c) PROVE Of("google", b)
  BY <1>14 DEF renderK8sGCP
<1>15. ASSUME NEW b \in renderSecretsGCP(c) PROVE Of("google", b)
  BY <1>15 DEF renderSecretsGCP
<1>16. ASSUME NEW b \in renderKMSGCP(c) PROVE Of("google", b)
  BY <1>16 DEF renderKMSGCP
<1>17. ASSUME NEW b \in renderServerlessGCP(c) PROVE Of("google", b)
  BY <1>17 DEF renderServerlessGCP
<1>18. ASSUME NEW b \in renderMonitoringGCP(c) PROVE Of("google", b)
  BY <1>18 DEF renderMonitoringGCP
<1> QED BY <1>1, <1>2, <1>3, <1>4, <1>5, <1>6, <1>7, <1>8, <1>9, <1>10, <1>11, <1>12, <1>13, <1>14, <1>15, <1>16, <1>17, <1>18 DEF From

LEMMA DOWrites ==
  ASSUME NEW ctx, NEW c
  PROVE  /\ From(renderDO(c), "digitalocean")
         /\ From(renderSGDO(c), "digitalocean")
         /\ From(renderLBDOReservedIP(c), "digitalocean")
         /\ From(renderLBDO(ctx, c), "digitalocean")
         /\ From(renderMDBDO(ctx, c), "digitalocean")
         /\ From(renderObjectStorageDO(c), "digitalocean")
         /\ From(renderCacheDO(ctx, c), "digitalocean")
         /\ From(renderCDNDO(c), "digitalocean")
         /\ From(renderK8sDO(ctx, c), "digitalocean")
         /\ From(renderServerlessDO(c), "digitalocean")
         /\ From(renderWebServiceDO(c), "digitalocean")
<1> USE DEF From, Of, Machinery, One, When
<1>1. ASSUME NEW b \in renderDO(c) PROVE Of("digitalocean", b)
  BY <1>1 DEF renderDO
<1>2. ASSUME NEW b \in renderSGDO(c) PROVE Of("digitalocean", b)
  BY <1>2 DEF renderSGDO
<1>3. ASSUME NEW b \in renderLBDOReservedIP(c) PROVE Of("digitalocean", b)
  BY <1>3 DEF renderLBDOReservedIP
<1>4. ASSUME NEW b \in renderLBDO(ctx, c) PROVE Of("digitalocean", b)
  BY <1>4 DEF renderLBDO
<1>5. ASSUME NEW b \in renderMDBDO(ctx, c) PROVE Of("digitalocean", b)
  BY <1>5 DEF renderMDBDO
<1>6. ASSUME NEW b \in renderObjectStorageDO(c) PROVE Of("digitalocean", b)
  BY <1>6 DEF renderObjectStorageDO
<1>7. ASSUME NEW b \in renderCacheDO(ctx, c) PROVE Of("digitalocean", b)
  BY <1>7 DEF renderCacheDO
<1>8. ASSUME NEW b \in renderCDNDO(c) PROVE Of("digitalocean", b)
  BY <1>8 DEF renderCDNDO
<1>9. ASSUME NEW b \in renderK8sDO(ctx, c) PROVE Of("digitalocean", b)
  BY <1>9 DEF renderK8sDO
<1>10. ASSUME NEW b \in renderServerlessDO(c) PROVE Of("digitalocean", b)
  BY <1>10 DEF renderServerlessDO
<1>11. ASSUME NEW b \in renderWebServiceDO(c) PROVE Of("digitalocean", b)
  BY <1>11 DEF renderWebServiceDO
<1> QED BY <1>1, <1>2, <1>3, <1>4, <1>5, <1>6, <1>7, <1>8, <1>9, <1>10, <1>11 DEF From

LEMMA CloudflareWrites ==
  ASSUME NEW ctx, NEW c
  PROVE  /\ From(RenderCloudfareCDNHCL(c), "cloudflare")
         /\ From(RenderCloudflareDNSHCL(c), "cloudflare")
         /\ From(renderWAFCloudflare(c), "cloudflare")
<1> USE DEF From, Of, Machinery, One, When
<1>1. ASSUME NEW b \in RenderCloudfareCDNHCL(c) PROVE Of("cloudflare", b)
  BY <1>1 DEF RenderCloudfareCDNHCL, ZoneInput, ZoneVariable
<1>2. ASSUME NEW b \in RenderCloudflareDNSHCL(c) PROVE Of("cloudflare", b)
  BY <1>2 DEF RenderCloudflareDNSHCL, ZoneInput, ZoneVariable
<1>3. ASSUME NEW b \in renderWAFCloudflare(c) PROVE Of("cloudflare", b)
  BY <1>3 DEF renderWAFCloudflare, ZoneVariable
<1> QED BY <1>1, <1>2, <1>3 DEF From

LEMMA AzureWrites ==
  ASSUME NEW ctx, NEW c
  PROVE  /\ From(renderNetworkAzure(c), "azurerm")
         /\ From(renderSGAzure(ctx, c), "azurerm")
         /\ From(renderVMAzure(ctx, c), "azurerm")
         /\ From(renderScaleGroupAzure(ctx, c), "azurerm")
         /\ From(renderLBAzure(ctx, c), "azurerm")
         /\ From(renderMDBAzure(ctx, c), "azurerm")
         /\ From(renderObjectStorageAzure(c), "azurerm")
         /\ From(renderCacheAzure(c), "azurerm")
         /\ From(renderQueueAzure(c), "azurerm")
         /\ From(renderStreamAzure(c), "azurerm")
         /\ From(renderCDNAzure(c), "azurerm")
         /\ From(renderWAFAzure(c), "azurerm")
         /\ From(renderKubernetesAzure(ctx, c), "azurerm")
         /\ From(renderSecretsAzure(c), "azurerm")
         /\ From(renderServerlessAzure(c), "azurerm")
<1> USE DEF From, Of, Machinery, One, When, Azure
<1>1. ASSUME NEW b \in renderNetworkAzure(c) PROVE Of("azurerm", b)
  BY <1>1 DEF renderNetworkAzure
<1>2. ASSUME NEW b \in renderSGAzure(ctx, c) PROVE Of("azurerm", b)
  BY <1>2 DEF renderSGAzure
<1>3. ASSUME NEW b \in renderVMAzure(ctx, c) PROVE Of("azurerm", b)
  <2> DEFINE Nic(i)    == Azure("network_interface", TfName(c.name \o i) \o "_nic")
             Card(i)    == Block(Nic(i), azureRGRef(ctx) \cup AzureSubnet(ctx))
             Machine(i) == Block(Azure("linux_virtual_machine", TfName(c.name \o i)),
                                 {Nic(i), SSHPublicKey} \cup azureRGRef(ctx))
  <2>1. PICK i : b \in {Card(i), Machine(i)}
    BY <1>3 DEF renderVMAzure
  <2> QED BY <2>1
<1>4. ASSUME NEW b \in renderScaleGroupAzure(ctx, c) PROVE Of("azurerm", b)
  BY <1>4 DEF renderScaleGroupAzure
<1>5. ASSUME NEW b \in renderLBAzure(ctx, c) PROVE Of("azurerm", b)
  BY <1>5 DEF renderLBAzure
<1>6. ASSUME NEW b \in renderMDBAzure(ctx, c) PROVE Of("azurerm", b)
  BY <1>6 DEF renderMDBAzure
<1>7. ASSUME NEW b \in renderObjectStorageAzure(c) PROVE Of("azurerm", b)
  BY <1>7 DEF renderObjectStorageAzure
<1>8. ASSUME NEW b \in renderCacheAzure(c) PROVE Of("azurerm", b)
  BY <1>8 DEF renderCacheAzure
<1>9. ASSUME NEW b \in renderQueueAzure(c) PROVE Of("azurerm", b)
  BY <1>9 DEF renderQueueAzure
<1>10. ASSUME NEW b \in renderStreamAzure(c) PROVE Of("azurerm", b)
  BY <1>10 DEF renderStreamAzure
<1>11. ASSUME NEW b \in renderCDNAzure(c) PROVE Of("azurerm", b)
  BY <1>11 DEF renderCDNAzure
<1>12. ASSUME NEW b \in renderWAFAzure(c) PROVE Of("azurerm", b)
  BY <1>12 DEF renderWAFAzure
<1>13. ASSUME NEW b \in renderKubernetesAzure(ctx, c) PROVE Of("azurerm", b)
  BY <1>13 DEF renderKubernetesAzure
<1>14. ASSUME NEW b \in renderSecretsAzure(c) PROVE Of("azurerm", b)
  BY <1>14 DEF renderSecretsAzure
<1>15. ASSUME NEW b \in renderServerlessAzure(c) PROVE Of("azurerm", b)
  BY <1>15 DEF renderServerlessAzure
<1> QED BY <1>1, <1>2, <1>3, <1>4, <1>5, <1>6, <1>7, <1>8, <1>9, <1>10, <1>11, <1>12, <1>13, <1>14, <1>15 DEF From

LEMMA OCIWrites ==
  ASSUME NEW ctx, NEW c
  PROVE  /\ From(renderOCI(c), "oci")
         /\ From(renderSGOCI(ctx, c), "oci")
         /\ From(renderVMOCI(ctx, c), "oci")
         /\ From(renderASGOCI(ctx, c), "oci")
         /\ From(renderLBOCI(ctx, c), "oci")
         /\ From(renderMDBOCIMySQL(ctx, c), "oci")
         /\ From(renderMDBOCIPostgres(ctx, c), "oci")
         /\ From(renderObjectStorageOCI(c), "oci")
         /\ From(renderCacheOCI(ctx, c), "oci")
         /\ From(renderQueueOCI(c), "oci")
         /\ From(renderStreamOCI(c), "oci")
         /\ From(renderWAFOCI(c), "oci")
         /\ From(renderK8sOCI(ctx, c), "oci")
         /\ From(renderSecretsOCI(c), "oci")
         /\ From(renderServerlessOCI(c), "oci")
<1> USE DEF From, Of, Machinery, One, When, OCI
<1>1. ASSUME NEW b \in renderOCI(c) PROVE Of("oci", b)
  BY <1>1 DEF renderOCI, InCompartment
<1>2. ASSUME NEW b \in renderSGOCI(ctx, c) PROVE Of("oci", b)
  BY <1>2 DEF renderSGOCI, NSG
<1>3. ASSUME NEW b \in renderVMOCI(ctx, c) PROVE Of("oci", b)
  BY <1>3 DEF renderVMOCI, InCompartment, ociADDataSource, ADs
<1>4. ASSUME NEW b \in renderASGOCI(ctx, c) PROVE Of("oci", b)
  BY <1>4 DEF renderASGOCI, InCompartment, ociADDataSource, ADs
<1>5. ASSUME NEW b \in renderLBOCI(ctx, c) PROVE Of("oci", b)
  BY <1>5 DEF renderLBOCI
<1>6. ASSUME NEW b \in renderMDBOCIMySQL(ctx, c) PROVE Of("oci", b)
  BY <1>6 DEF renderMDBOCIMySQL, InCompartment, ociADDataSource, ADs
<1>7. ASSUME NEW b \in renderMDBOCIPostgres(ctx, c) PROVE Of("oci", b)
  BY <1>7 DEF renderMDBOCIPostgres, InCompartment, ociADDataSource, ADs
<1>8. ASSUME NEW b \in renderObjectStorageOCI(c) PROVE Of("oci", b)
  BY <1>8 DEF renderObjectStorageOCI, InCompartment
<1>9. ASSUME NEW b \in renderCacheOCI(ctx, c) PROVE Of("oci", b)
  BY <1>9 DEF renderCacheOCI, InCompartment
<1>10. ASSUME NEW b \in renderQueueOCI(c) PROVE Of("oci", b)
  BY <1>10 DEF renderQueueOCI, InCompartment
<1>11. ASSUME NEW b \in renderStreamOCI(c) PROVE Of("oci", b)
  BY <1>11 DEF renderStreamOCI, InCompartment
<1>12. ASSUME NEW b \in renderWAFOCI(c) PROVE Of("oci", b)
  BY <1>12 DEF renderWAFOCI, InCompartment
<1>13. ASSUME NEW b \in renderK8sOCI(ctx, c) PROVE Of("oci", b)
  BY <1>13 DEF renderK8sOCI, InCompartment, ociADDataSource, ADs
<1>14. ASSUME NEW b \in renderSecretsOCI(c) PROVE Of("oci", b)
  BY <1>14 DEF renderSecretsOCI, InCompartment
<1>15. ASSUME NEW b \in renderServerlessOCI(c) PROVE Of("oci", b)
  BY <1>15 DEF renderServerlessOCI
<1> QED BY <1>1, <1>2, <1>3, <1>4, <1>5, <1>6, <1>7, <1>8, <1>9, <1>10, <1>11, <1>12, <1>13, <1>14, <1>15 DEF From

LEMMA IBMWrites ==
  ASSUME NEW ctx, NEW c
  PROVE  /\ From(renderNetworkIBM(c), "ibm")
         /\ From(renderSGIBM(ctx, c), "ibm")
         /\ From(renderVMIBM(ctx, c), "ibm")
         /\ From(renderASGIBM(ctx, c), "ibm")
         /\ From(renderLBIBM(ctx, c), "ibm")
         /\ From(renderMDBIBM(c), "ibm")
         /\ From(renderCacheIBM(c), "ibm")
         /\ From(renderObjectStorageIBM(c), "ibm")
         /\ From(renderStreamIBM(c), "ibm")
         /\ From(renderWAFIBM(c), "ibm")
         /\ From(renderK8sIBM(ctx, c), "ibm")
         /\ From(renderSecretsIBM(c), "ibm")
         /\ From(renderServerlessIBM(c), "ibm")
<1> USE DEF From, Of, Machinery, One, When, IBM
<1>1. ASSUME NEW b \in renderNetworkIBM(c) PROVE Of("ibm", b)
  BY <1>1 DEF renderNetworkIBM, InGroup
<1>2. ASSUME NEW b \in renderSGIBM(ctx, c) PROVE Of("ibm", b)
  <2> DEFINE r(i) == c.rules[i]
             Rule(i, remote, refs) ==
               Block(IBM("is_security_group_rule", TfName(c.name) \o "_" \o c.rules[i].dir \o "_" \o i \o remote),
                     {IBMGroupOf(c.name)} \cup refs)
             Ranges(i) == r(i).v4 \cup {"_ipv6" \o v : v \in r(i).v6}
             none == ""
             Rules(i) == CASE r(i).scope = "group" -> {Rule(i, none, {IBMGroupOf(r(i).from)})}
                           [] r(i).scope # "group" /\ Ranges(i) = {} -> {Rule(i, none, {})}
                           [] OTHER -> {Rule(i, v, {}) : v \in Ranges(i)}
  <2>1. renderSGIBM(ctx, c) = {InGroup("is_security_group", TfName(c.name), IBMVPC(ctx))}
                              \cup UNION {Rules(i) : i \in DOMAIN c.rules}
    BY DEF renderSGIBM
  <2>2. \A i, v, refs : Of("ibm", Rule(i, v, refs))
    OBVIOUS
  <2> HIDE DEF Rule, r, Ranges, none, Of
  <2>3. \A i : \A x \in Rules(i) : Of("ibm", x)
    BY <2>2
  <2>4. Of("ibm", InGroup("is_security_group", TfName(c.name), IBMVPC(ctx)))
    BY DEF InGroup, Of
  <2> HIDE DEF Rules
  <2> QED BY <1>2, <2>1, <2>3, <2>4
<1>3. ASSUME NEW b \in renderVMIBM(ctx, c) PROVE Of("ibm", b)
  BY <1>3 DEF renderVMIBM, InGroup
<1>4. ASSUME NEW b \in renderASGIBM(ctx, c) PROVE Of("ibm", b)
  BY <1>4 DEF renderASGIBM
<1>5. ASSUME NEW b \in renderLBIBM(ctx, c) PROVE Of("ibm", b)
  BY <1>5 DEF renderLBIBM
<1>6. ASSUME NEW b \in renderMDBIBM(c) PROVE Of("ibm", b)
  BY <1>6 DEF renderMDBIBM, InGroup
<1>7. ASSUME NEW b \in renderCacheIBM(c) PROVE Of("ibm", b)
  BY <1>7 DEF renderCacheIBM, InGroup
<1>8. ASSUME NEW b \in renderObjectStorageIBM(c) PROVE Of("ibm", b)
  BY <1>8 DEF renderObjectStorageIBM
<1>9. ASSUME NEW b \in renderStreamIBM(c) PROVE Of("ibm", b)
  BY <1>9 DEF renderStreamIBM, InGroup
<1>10. ASSUME NEW b \in renderWAFIBM(c) PROVE Of("ibm", b)
  BY <1>10 DEF renderWAFIBM
<1>11. ASSUME NEW b \in renderK8sIBM(ctx, c) PROVE Of("ibm", b)
  BY <1>11 DEF renderK8sIBM, InGroup
<1>12. ASSUME NEW b \in renderSecretsIBM(c) PROVE Of("ibm", b)
  BY <1>12 DEF renderSecretsIBM
<1>13. ASSUME NEW b \in renderServerlessIBM(c) PROVE Of("ibm", b)
  BY <1>13 DEF renderServerlessIBM
<1> QED BY <1>1, <1>2, <1>3, <1>4, <1>5, <1>6, <1>7, <1>8, <1>9, <1>10, <1>11, <1>12, <1>13 DEF From

LEMMA AliWrites ==
  ASSUME NEW ctx, NEW c
  PROVE  /\ From(renderAlibaba(c), "alicloud")
         /\ From(renderSGAlibaba(ctx, c), "alicloud")
         /\ From(renderVMAlibaba(ctx, c), "alicloud")
         /\ From(renderASGAlibaba(ctx, c), "alicloud")
         /\ From(renderLBAlibaba(ctx, c), "alicloud")
         /\ From(renderMDBAlibaba(ctx, c), "alicloud")
         /\ From(renderObjectStorageAlibaba(c), "alicloud")
         /\ From(renderCacheAlibaba(ctx, c), "alicloud")
         /\ From(renderQueueAlibaba(c), "alicloud")
         /\ From(renderStreamAlibaba(c), "alicloud")
         /\ From(renderCDNAlibaba(c), "alicloud")
         /\ From(renderWAFAlibaba(c), "alicloud")
         /\ From(renderK8sAlibaba(ctx, c), "alicloud")
         /\ From(renderSecretsAlibaba(c), "alicloud")
         /\ From(renderServerlessAlibaba(c), "alicloud")
<1> USE DEF From, Of, Machinery, One, When, Ali
<1>1. ASSUME NEW b \in renderAlibaba(c) PROVE Of("alicloud", b)
  BY <1>1 DEF renderAlibaba
<1>2. ASSUME NEW b \in renderSGAlibaba(ctx, c) PROVE Of("alicloud", b)
  BY <1>2 DEF renderSGAlibaba, AliGroupOf
<1>3. ASSUME NEW b \in renderVMAlibaba(ctx, c) PROVE Of("alicloud", b)
  BY <1>3 DEF renderVMAlibaba
<1>4. ASSUME NEW b \in renderASGAlibaba(ctx, c) PROVE Of("alicloud", b)
  BY <1>4 DEF renderASGAlibaba
<1>5. ASSUME NEW b \in renderLBAlibaba(ctx, c) PROVE Of("alicloud", b)
  BY <1>5 DEF renderLBAlibaba
<1>6. ASSUME NEW b \in renderMDBAlibaba(ctx, c) PROVE Of("alicloud", b)
  BY <1>6 DEF renderMDBAlibaba
<1>7. ASSUME NEW b \in renderObjectStorageAlibaba(c) PROVE Of("alicloud", b)
  BY <1>7 DEF renderObjectStorageAlibaba
<1>8. ASSUME NEW b \in renderCacheAlibaba(ctx, c) PROVE Of("alicloud", b)
  BY <1>8 DEF renderCacheAlibaba
<1>9. ASSUME NEW b \in renderQueueAlibaba(c) PROVE Of("alicloud", b)
  BY <1>9 DEF renderQueueAlibaba
<1>10. ASSUME NEW b \in renderStreamAlibaba(c) PROVE Of("alicloud", b)
  BY <1>10 DEF renderStreamAlibaba
<1>11. ASSUME NEW b \in renderCDNAlibaba(c) PROVE Of("alicloud", b)
  BY <1>11 DEF renderCDNAlibaba
<1>12. ASSUME NEW b \in renderWAFAlibaba(c) PROVE Of("alicloud", b)
  BY <1>12 DEF renderWAFAlibaba
<1>13. ASSUME NEW b \in renderK8sAlibaba(ctx, c) PROVE Of("alicloud", b)
  BY <1>13 DEF renderK8sAlibaba
<1>14. ASSUME NEW b \in renderSecretsAlibaba(c) PROVE Of("alicloud", b)
  BY <1>14 DEF renderSecretsAlibaba
<1>15. ASSUME NEW b \in renderServerlessAlibaba(c) PROVE Of("alicloud", b)
  BY <1>15 DEF renderServerlessAlibaba
<1> QED BY <1>1, <1>2, <1>3, <1>4, <1>5, <1>6, <1>7, <1>8, <1>9, <1>10, <1>11, <1>12, <1>13, <1>14, <1>15 DEF From

LEMMA LinodeWrites ==
  ASSUME NEW ctx, NEW c
  PROVE  /\ From(renderLinodeNetwork(c), "linode")
         /\ From(renderSGLinode(c), "linode")
         /\ From(renderVMLinode(ctx, c), "linode")
         /\ From(renderLBLinode(c), "linode")
         /\ From(renderMDBLinode(c), "linode")
         /\ From(renderObjectStorageLinode(c), "linode")
         /\ From(renderK8sLinode(c), "linode")
<1> USE DEF From, Of, Machinery, One, When, Linode
<1>1. ASSUME NEW b \in renderLinodeNetwork(c) PROVE Of("linode", b)
  BY <1>1 DEF renderLinodeNetwork
<1>2. ASSUME NEW b \in renderSGLinode(c) PROVE Of("linode", b)
  BY <1>2 DEF renderSGLinode
<1>3. ASSUME NEW b \in renderVMLinode(ctx, c) PROVE Of("linode", b)
  BY <1>3 DEF renderVMLinode
<1>4. ASSUME NEW b \in renderLBLinode(c) PROVE Of("linode", b)
  BY <1>4 DEF renderLBLinode
<1>5. ASSUME NEW b \in renderMDBLinode(c) PROVE Of("linode", b)
  BY <1>5 DEF renderMDBLinode
<1>6. ASSUME NEW b \in renderObjectStorageLinode(c) PROVE Of("linode", b)
  BY <1>6 DEF renderObjectStorageLinode
<1>7. ASSUME NEW b \in renderK8sLinode(c) PROVE Of("linode", b)
  BY <1>7 DEF renderK8sLinode
<1> QED BY <1>1, <1>2, <1>3, <1>4, <1>5, <1>6, <1>7 DEF From

LEMMA UbicloudWrites ==
  ASSUME NEW ctx, NEW c
  PROVE  /\ From(renderNetworkUbicloud(c), "ubicloud")
         /\ From(renderSGUbicloud(c), "ubicloud")
         /\ From(renderVMUbicloud(ctx, c), "ubicloud")
         /\ From(One(Ubicloud("postgres", TfName(c.name)), {Project}), "ubicloud")
<1> USE DEF From, Of, Machinery, One, When, Ubicloud
<1>1. ASSUME NEW b \in renderNetworkUbicloud(c) PROVE Of("ubicloud", b)
  BY <1>1 DEF renderNetworkUbicloud
<1>2. ASSUME NEW b \in renderSGUbicloud(c) PROVE Of("ubicloud", b)
  <2> DEFINE firewall == Ubicloud("firewall", TfName(c.name))
             Ranges(i) == When(c.rules[i].dir = "ingress" /\ c.rules[i].scope # "group",
                               c.rules[i].v4 \cup {"_ipv6" \o v : v \in c.rules[i].v6})
             Rule(i, v) == Block(Ubicloud("firewall_rule", TfName(c.name) \o "_rule_" \o i \o v), {Project, firewall})
  <2>1. renderSGUbicloud(c) = One(firewall, {Project})
                              \cup UNION {{Rule(i, v) : v \in Ranges(i)} : i \in DOMAIN c.rules}
    BY DEF renderSGUbicloud
  <2>2. (\A i, v : Of("ubicloud", Rule(i, v))) /\ \A x \in One(firewall, {Project}) : Of("ubicloud", x)
    OBVIOUS
  <2> HIDE DEF Rule, Ranges, firewall, Of, One
  <2> QED BY <1>2, <2>1, <2>2
<1>3. ASSUME NEW b \in renderVMUbicloud(ctx, c) PROVE Of("ubicloud", b)
  BY <1>3 DEF renderVMUbicloud
<1>4. ASSUME NEW b \in One(Ubicloud("postgres", TfName(c.name)), {Project}) PROVE Of("ubicloud", b)
  BY <1>4 DEF Project
<1> QED BY <1>1, <1>2, <1>3, <1>4 DEF From

LEMMA STACKITWrites ==
  ASSUME NEW ctx, NEW c
  PROVE  /\ From(renderStackItNetwork(c), "stackit")
         /\ From(renderStackItSG(c), "stackit")
         /\ From(renderStackItVM(c), "stackit")
         /\ From(renderStackItMDB(c), "stackit")
         /\ From(renderStackItObjectStorage(c), "stackit")
         /\ From(renderStackItKubernetes(c), "stackit")
         /\ From(renderStackItSecrets(c), "stackit")
         /\ From(renderStackItLoadBalancer(ctx, c), "stackit")
<1> USE DEF From, Of, Machinery, One, When, STACKIT
<1>1. ASSUME NEW b \in renderStackItNetwork(c) PROVE Of("stackit", b)
  BY <1>1 DEF renderStackItNetwork, InProject
<1>2. ASSUME NEW b \in renderStackItSG(c) PROVE Of("stackit", b)
  BY <1>2 DEF renderStackItSG, InProject
<1>3. ASSUME NEW b \in renderStackItVM(c) PROVE Of("stackit", b)
  BY <1>3 DEF renderStackItVM, InProject
<1>4. ASSUME NEW b \in renderStackItMDB(c) PROVE Of("stackit", b)
  BY <1>4 DEF renderStackItMDB, InProject
<1>5. ASSUME NEW b \in renderStackItObjectStorage(c) PROVE Of("stackit", b)
  BY <1>5 DEF renderStackItObjectStorage, InProject
<1>6. ASSUME NEW b \in renderStackItKubernetes(c) PROVE Of("stackit", b)
  BY <1>6 DEF renderStackItKubernetes, InProject
<1>7. ASSUME NEW b \in renderStackItSecrets(c) PROVE Of("stackit", b)
  BY <1>7 DEF renderStackItSecrets, InProject
<1>8. ASSUME NEW b \in renderStackItLoadBalancer(ctx, c) PROVE Of("stackit", b)
  BY <1>8 DEF renderStackItLoadBalancer, InProject
<1> QED BY <1>1, <1>2, <1>3, <1>4, <1>5, <1>6, <1>7, <1>8 DEF From

LEMMA OVHWrites ==
  ASSUME NEW ctx, NEW c
  PROVE  /\ From(renderNetworkOVH(c), "ovh")
         /\ From(renderManagedDatabaseOVH(ctx, c), "ovh")
         /\ From(renderKubernetesOVH(ctx, c), "ovh")
         /\ From(renderObjectStorageOVH(c), "ovh")
<1> USE DEF From, Of, Machinery, One, When
<1>1. ASSUME NEW b \in renderNetworkOVH(c) PROVE Of("ovh", b)
  BY <1>1 DEF renderNetworkOVH, OVH
<1>2. ASSUME NEW b \in renderManagedDatabaseOVH(ctx, c) PROVE Of("ovh", b)
  BY <1>2 DEF renderManagedDatabaseOVH, OVH
<1>3. ASSUME NEW b \in renderKubernetesOVH(ctx, c) PROVE Of("ovh", b)
  BY <1>3 DEF renderKubernetesOVH, OVH
<1>4. ASSUME NEW b \in renderObjectStorageOVH(c) PROVE Of("ovh", b)
  BY <1>4 DEF renderObjectStorageOVH, OVH
<1> QED BY <1>1, <1>2, <1>3, <1>4 DEF From

-----------------------------------------------------------------------------
(* The renderers that write for more than one provider, or for the one     *)
(* their context names.                                                    *)

\* The blocks of an operator: the cluster's data source, releases, resources.
Operated(b) ==
  \/ \E n, r : b = Block(ClusterData(n), r)
  \/ \E t, n, r : b = Block(<<"kubernetes", t, n>>, r)
  \/ \E n, r : b = Block(<<"output", n>>, r)
Released(b) == Operated(b) \/ \E n, r : b = Block(Helm(n), r)

LEMMA OperatorBlocks ==
  /\ \A b : Operated(b) => Of("digitalocean", b) \/ Of("kubernetes", b)
  /\ \A b : Released(b) => Of("digitalocean", b) \/ Of("kubernetes", b) \/ Of("helm", b)
BY DEF Operated, Released, Of, Machinery, ClusterData, Helm

LEMMA OperatorWrites ==
  ASSUME NEW ctx, NEW n, NEW c
  PROVE  /\ \A b \in renderMonitoringDO(c) : Released(b)
         /\ \A b \in renderTracingDO(n) : Released(b)
         /\ \A b \in renderTLSCertificateDO(n) : Released(b)
         /\ \A b \in renderVaultHADO(n, c) : Released(b)
         /\ \A b \in renderQueueDO(n) : Released(b)
         /\ \A b \in renderStreamDO(n) : Released(b)
         /\ \A b \in renderWorkloadIdentityDO(n, c) : Operated(b)
         /\ \A b \in renderScheduledTriggerDO(n) : Operated(b)
<1> USE DEF Operated, Released, renderOperatorComponent, renderOperatorCR, renderHelmRelease, renderClusterDataSource, Manifest, When
<1>1. ASSUME NEW b \in renderMonitoringDO(c) PROVE Released(b)
  BY <1>1 DEF renderMonitoringDO
<1>2. ASSUME NEW b \in renderTracingDO(n) PROVE Released(b)
  BY <1>2 DEF renderTracingDO
<1>3. ASSUME NEW b \in renderTLSCertificateDO(n) PROVE Released(b)
  BY <1>3 DEF renderTLSCertificateDO
<1>4. ASSUME NEW b \in renderVaultHADO(n, c) PROVE Released(b)
  BY <1>4 DEF renderVaultHADO
<1>5. ASSUME NEW b \in renderQueueDO(n) PROVE Released(b)
  BY <1>5 DEF renderQueueDO
<1>6. ASSUME NEW b \in renderStreamDO(n) PROVE Released(b)
  BY <1>6 DEF renderStreamDO
<1>7. ASSUME NEW b \in renderWorkloadIdentityDO(n, c) PROVE Operated(b)
  BY <1>7 DEF renderWorkloadIdentityDO
<1>8. ASSUME NEW b \in renderScheduledTriggerDO(n) PROVE Operated(b)
  BY <1>8 DEF renderScheduledTriggerDO
<1> QED BY <1>1, <1>2, <1>3, <1>4, <1>5, <1>6, <1>7, <1>8

LEMMA AWSBalancer == ASSUME NEW ctx, NEW c PROVE From(renderLBAWS(ctx, c), "aws")
<1> DEFINE n       == TfName(c.name)
           lb      == <<"aws", "lb", n \o "_lb">>
           gateway == <<"aws", "internet_gateway", n \o "_igw">>
           table   == <<"aws", "route_table", n \o "_rt">>
           Way(i)  == Block(<<"aws", "route_table_association", n \o "_rta" \o i>>,
                            {table, <<"data", "aws", "subnet", SubnetLabel(ctx.network, i)>>})
           Ways    == {Block(gateway, {VPC}), Block(table, {VPC, gateway})} \cup {Way(i) : i \in Subnets}
           Own     == One(lb, AWSGroup(ctx) \cup When(HasNetwork(ctx), {gateway} \cup AWSSubnetData(ctx)))
                      \cup One(TargetGroup(c.name), When(HasNetwork(ctx), {VPC}))
           Hears(l) == Block(Listener(c, l), {lb, TargetGroup(c.name)})
           Balancer   == When(c.target # NoTarget,
                           IF ToVM(c)
                             THEN One(<<"aws", "lb_target_group_attachment", n \o "_attach">>,
                                      {TargetGroup(c.name), <<"aws", "instance", TfName(c.target \o "-1")>>})
                             ELSE One(Attachment(c.name), {ASG(c.target), TargetGroup(c.name)}))
<1> USE DEF Of, Machinery, One, When, TargetGroup, Attachment, Listener
<1>1. renderLBAWS(ctx, c)
        = When(HasNetwork(ctx), Ways) \cup Own
          \cup (UNION {RuleTarget(ctx, t) : t \in distinctRuleTargetNames(c)})
          \cup {Hears(l) : l \in Parts(c, "listeners")}
          \cup (UNION {renderLBAWSListenerRules(c, l) : l \in Parts(c, "listeners")})
          \cup Balancer
  BY DEF renderLBAWS
<1>2. ASSUME NEW b \in Ways PROVE Of("aws", b)
  BY <1>2
<1>3. ASSUME NEW b \in Own PROVE Of("aws", b)
  BY <1>3
<1>4. ASSUME NEW t, NEW b \in RuleTarget(ctx, t) PROVE Of("aws", b)
  BY <1>4 DEF RuleTarget
<1>5. ASSUME NEW l PROVE Of("aws", Hears(l))
  OBVIOUS
<1>6. ASSUME NEW l, NEW b \in renderLBAWSListenerRules(c, l) PROVE Of("aws", b)
  BY <1>6 DEF renderLBAWSListenerRules
<1>7. ASSUME NEW b \in Balancer PROVE Of("aws", b)
  BY <1>7
<1> HIDE DEF Ways, Own, Hears, Balancer, Of, TargetGroup, Attachment, Listener, n, lb, gateway, table
<1> SUFFICES ASSUME NEW b \in renderLBAWS(ctx, c) PROVE Of("aws", b)
  BY DEF From
<1>8. \/ b \in Ways \/ b \in Own \/ b \in Balancer
      \/ \E t : b \in RuleTarget(ctx, t)
      \/ \E l : b = Hears(l) \/ b \in renderLBAWSListenerRules(c, l)
  BY <1>1
<1> QED BY <1>2, <1>3, <1>4, <1>5, <1>6, <1>7, <1>8

LEMMA AWSPipeline == ASSUME NEW n, NEW c PROVE From(renderPipelineControlPlaneAWS(n, c), "aws")
<1>1. ASSUME NEW b \in renderPipelineControlPlaneAWS(n, c)
      PROVE  (\E t, m, r : b = Block(<<"aws", t, m>>, r)) \/ \E m : b = Block(<<"var", m>>, {})
  BY <1>1, ZenonT(60) DEF renderPipelineControlPlaneAWS, pclVar, Variable, When
<1>2. ASSUME NEW b, (\E t, m, r : b = Block(<<"aws", t, m>>, r)) \/ \E m : b = Block(<<"var", m>>, {})
      PROVE  Of("aws", b)
  BY <1>2 DEF Of
<1> QED BY <1>1, <1>2 DEF From
-----------------------------------------------------------------------------
(* The choice of a renderer.                                               *)

Supported == {"aws", "gcp", "digitalocean", "azure", "linode", "ubicloud", "oracle", "ibm", "alibaba", "ovh", "stackit"}
             \cup {"tencent", "hetzner", "vultr", "scaleway", "rackspace"}
             \cup {"huawei", "akamai", "fastly", "vsphere"}

\* A document that is refused, or all of the environment's own provider.
Kept(p, S) == S = Refusal \/ (p \in Supported /\ From(S, cloudProviderSource(p)))

LEMMA Joined == ASSUME NEW a, NEW b, NEW n PROVE <<a, b>> \o <<n>> = <<a, b, n>>
<1> DEFINE S == {a, b, n}
           s == <<a, b>>
           t == <<n>>
           u == <<a, b, n>>
           w == s \o t
<1>1. s \in Seq(S) /\ t \in Seq(S) /\ u \in Seq(S) /\ Len(s) = 2 /\ Len(t) = 1 /\ Len(u) = 3
  OBVIOUS
<1>2. s[1] = a /\ s[2] = b /\ t[1] = n /\ u[1] = a /\ u[2] = b /\ u[3] = n
  OBVIOUS
<1> HIDE DEF S, s, t, u
<1>3. /\ w \in Seq(S) /\ Len(w) = Len(s) + Len(t)
      /\ \A i \in 1..Len(s) + Len(t) : w[i] = IF i <= Len(s) THEN s[i] ELSE t[i - Len(s)]
  BY <1>1, ConcatProperties
<1> HIDE DEF w
<1>4. Len(w) = 3 /\ \A i \in 1..3 : w[i] = u[i]
  BY <1>1, <1>2, <1>3
<1>5. w = u
  BY <1>1, <1>3, <1>4, SeqEqual
<1> QED BY <1>5 DEF s, t, u, w

\* The templates of an adapter declare resources of one provider.
Template(t, p) == t = NoTemplate \/ \E k : t = <<p, k>>

LEMMA Manifests ==
  ASSUME NEW p, IsAdapter(p)
  PROVE  LET m == ManifestOf(p)
             q == cloudProviderSource(p)
         IN /\ p \in Supported /\ q # "digitalocean"
            /\ Template(m.vm, q) /\ Template(m.net, q) /\ Template(m.subnet, q)
            /\ Template(m.sg, q) /\ Template(m.rule, q) /\ Template(m.mdb, q)
            /\ m.vm # NoTemplate /\ m.sg # NoTemplate
<1>1. p \in {"tencent", "hetzner", "vultr", "scaleway", "rackspace"} \/ p \in {"huawei", "akamai", "fastly", "vsphere"}
  BY DEF IsAdapter, AllManifests, AdapterManifests, tailAdapterManifests
<1> USE DEF ManifestOf, AllManifests, AdapterManifests, tailAdapterManifests, cloudProviderSource, Template, NoTemplate, Supported
<1>2. CASE p = "tencent"
  BY <1>2
<1>3. CASE p = "hetzner"
  BY <1>3
<1>4. CASE p = "vultr"
  BY <1>4
<1>5. CASE p = "scaleway"
  BY <1>5
<1>6. CASE p = "rackspace"
  BY <1>6
<1>7. CASE p = "huawei"
  BY <1>7
<1>8. CASE p = "akamai"
  BY <1>8
<1>9. CASE p = "fastly"
  BY <1>9
<1>10. CASE p = "vsphere"
  BY <1>10
<1> QED BY <1>1, <1>2, <1>3, <1>4, <1>5, <1>6, <1>7, <1>8, <1>9, <1>10

\* A block of a template is of the template's provider.
LEMMA Rendered1 ==
  ASSUME NEW t, NEW p, p # "digitalocean", Template(t, p), t # NoTemplate, NEW n, NEW r
  PROVE  Of(p, Block(t \o <<n>>, r))
<1>1. PICK k : t = <<p, k>>
  BY DEF Template
<1>2. t \o <<n>> = <<p, k, n>>
  BY <1>1, Joined
<1> QED BY <1>2 DEF Of

LEMMA AdapterKept ==
  ASSUME NEW p, IsAdapter(p), NEW c
  PROVE  /\ Kept(p, RenderAdapterVM(ManifestOf(p), c))
         /\ Kept(p, RenderAdapterNetwork(ManifestOf(p), c))
         /\ Kept(p, RenderAdapterSG(ManifestOf(p), c))
         /\ Kept(p, RenderAdapterMDB(ManifestOf(p), c))
<1> DEFINE m == ManifestOf(p)
           q == cloudProviderSource(p)
<1>1. /\ p \in Supported /\ q # "digitalocean"
      /\ Template(m.vm, q) /\ Template(m.net, q) /\ Template(m.subnet, q)
      /\ Template(m.sg, q) /\ Template(m.rule, q) /\ Template(m.mdb, q)
      /\ m.vm # NoTemplate /\ m.sg # NoTemplate
  BY Manifests
<1> HIDE DEF m, q
<1>2. ASSUME NEW b \in RenderAdapterVM(m, c) PROVE Of(q, b)
  <2>1. PICK i : b = Block(m.vm \o <<TfName(c.name \o i)>>, {<<"var", v>> : v \in m.asks})
    BY <1>2 DEF RenderAdapterVM
  <2> QED BY <1>1, <2>1, Rendered1
<1>3. ASSUME NEW b \in RenderAdapterNetwork(m, c) PROVE Of(q, b)
  <2>1. /\ m.net # NoTemplate
        /\ \/ \E n, r : b = Block(m.net \o <<n>>, r)
           \/ m.subnet # NoTemplate /\ \E n, r : b = Block(m.subnet \o <<n>>, r)
    BY <1>3 DEF RenderAdapterNetwork, One, When
  <2> QED BY <1>1, <2>1, Rendered1
<1>4. ASSUME NEW b \in RenderAdapterSG(m, c), RenderAdapterSG(m, c) # Refusal PROVE Of(q, b)
  <2>1. \/ \E n, r : b = Block(m.sg \o <<n>>, r)
        \/ m.rule # NoTemplate /\ \E n, r : b = Block(m.rule \o <<n>>, r)
    BY <1>4 DEF RenderAdapterSG, OrRefuse, One, When
  <2> QED BY <1>1, <2>1, Rendered1
<1>5. ASSUME NEW b \in RenderAdapterMDB(m, c), RenderAdapterMDB(m, c) # Refusal PROVE Of(q, b)
  <2>1. m.mdb # NoTemplate /\ \E n, r : b = Block(m.mdb \o <<n>>, r)
    BY <1>5 DEF RenderAdapterMDB, AdapterMDBSupported, OrRefuse, One
  <2> QED BY <1>1, <2>1, Rendered1
<1> QED BY <1>1, <1>2, <1>3, <1>4, <1>5 DEF Kept, From, m, q

LEMMA DatabaseWrites ==
  ASSUME NEW ctx, NEW c
  PROVE  /\ From(renderMDBOCI(ctx, c), "oci")
         /\ renderMDBUbicloud(c) = Refusal \/ From(renderMDBUbicloud(c), "ubicloud")
BY OCIWrites, UbicloudWrites DEF renderMDBOCI, renderMDBUbicloud, OrRefuse

\* On every provider, each renderer writes blocks of that provider, or refuses.
LEMMA InfrastructureKept ==
  ASSUME NEW ctx, NEW c
  PROVE  /\ Kept(ctx.provider, RenderHCL(ctx, c))
         /\ Kept(ctx.provider, RenderSGHCL(ctx, c))
         /\ ctx.provider # "digitalocean" => Kept(ctx.provider, RenderVMHCL(ctx, c))
         /\ ctx.provider # "digitalocean" => Kept(ctx.provider, RenderScaleGroupHCL(ctx, c))
         /\ Kept(ctx.provider, RenderManagedDatabaseHCL(ctx, c))
<1> USE AWSWrites, GoogleWrites, DOWrites, AzureWrites, OCIWrites, IBMWrites, AliWrites, LinodeWrites,
        UbicloudWrites, STACKITWrites, OVHWrites
<1>1. CASE IsAdapter(ctx.provider)
  <2>1. ctx.provider \in {"tencent", "hetzner", "vultr", "scaleway", "rackspace"} \/ ctx.provider \in {"huawei", "akamai", "fastly", "vsphere"}
    BY <1>1 DEF IsAdapter, AllManifests, AdapterManifests, tailAdapterManifests
  <2> QED BY <1>1, <2>1, AdapterKept DEF RenderHCL, RenderSGHCL, RenderVMHCL, RenderScaleGroupHCL, RenderManagedDatabaseHCL, Kept
<1>2. CASE ~IsAdapter(ctx.provider)
  <2> USE <1>2 DEF Kept, Supported, cloudProviderSource
  <2>1. Kept(ctx.provider, RenderHCL(ctx, c))
    BY DEF RenderHCL
  <2>2. Kept(ctx.provider, RenderSGHCL(ctx, c))
    BY DEF RenderSGHCL
  <2>3. ctx.provider # "digitalocean" => Kept(ctx.provider, RenderVMHCL(ctx, c))
    BY DEF RenderVMHCL
  <2>4. ctx.provider # "digitalocean" => Kept(ctx.provider, RenderScaleGroupHCL(ctx, c))
    BY DEF RenderScaleGroupHCL
  <2>5. Kept(ctx.provider, RenderManagedDatabaseHCL(ctx, c))
    BY DatabaseWrites DEF RenderManagedDatabaseHCL
  <2> QED BY <2>1, <2>2, <2>3, <2>4, <2>5
<1> QED BY <1>1, <1>2

LEMMA ServicesKept ==
  ASSUME NEW ctx, NEW c
  PROVE  /\ Kept(ctx.provider, RenderLoadBalancerHCL(ctx, c))
         /\ Kept(ctx.provider, RenderObjectStorageHCL(ctx, c))
         /\ Kept(ctx.provider, RenderCacheHCL(ctx, c))
         /\ Kept(ctx.provider, RenderKubernetesHCL(ctx, c))
         /\ Kept(ctx.provider, RenderSecretsHCL(ctx, c))
         /\ Kept(ctx.provider, RenderKMSHCL(ctx, c))
         /\ Kept(ctx.provider, RenderServerlessHCL(ctx, c))
<1> USE AWSWrites, GoogleWrites, DOWrites, AzureWrites, OCIWrites, IBMWrites, AliWrites, LinodeWrites,
        STACKITWrites, OVHWrites DEF Kept, Supported, cloudProviderSource
<1>1. Kept(ctx.provider, RenderLoadBalancerHCL(ctx, c))
  BY AWSBalancer DEF RenderLoadBalancerHCL
<1>2. Kept(ctx.provider, RenderObjectStorageHCL(ctx, c))
  BY DEF RenderObjectStorageHCL
<1>3. Kept(ctx.provider, RenderCacheHCL(ctx, c))
  BY DEF RenderCacheHCL
<1>4. Kept(ctx.provider, RenderKubernetesHCL(ctx, c))
  BY DEF RenderKubernetesHCL
<1>5. Kept(ctx.provider, RenderSecretsHCL(ctx, c))
  BY DEF RenderSecretsHCL
<1>6. Kept(ctx.provider, RenderKMSHCL(ctx, c))
  BY DEF RenderKMSHCL
<1>7. Kept(ctx.provider, RenderServerlessHCL(ctx, c))
  BY DEF RenderServerlessHCL
<1> QED BY <1>1, <1>2, <1>3, <1>4, <1>5, <1>6, <1>7

\* The renderers that choose the provider themselves, on the providers that
\* their translation accepts.
LEMMA SmallWrites ==
  ASSUME NEW ctx, NEW c
  PROVE  /\ ctx.provider = "aws" => From(RenderSyntheticsHCL(ctx, c), "aws")
         /\ ctx.provider = "gcp" => From(RenderSyntheticsHCL(ctx, c), "google")
         /\ ctx.provider = "digitalocean" => From(RenderSyntheticsHCL(ctx, c), "digitalocean")
         /\ ctx.provider = "aws" => From(RenderVMVolumeHCL(ctx, c), "aws")
         /\ ctx.provider = "gcp" => From(RenderVMVolumeHCL(ctx, c), "google")
         /\ ctx.provider = "digitalocean" => From(RenderVMVolumeHCL(ctx, c), "digitalocean")
         /\ ctx.provider = "aws" => From(RenderKeyValueStoreHCL(ctx, c), "aws")
         /\ ctx.provider = "digitalocean" => From(RenderKeyValueStoreHCL(ctx, c), "digitalocean")
         /\ ctx.provider = "aws" => From(RenderEmailHCL(ctx, c), "aws")
         /\ \A p : ctx.provider # "aws" => From(RenderEmailHCL(ctx, c), p)
<1> USE DEF From, Of, Machinery, One, When
<1>1. ASSUME ctx.provider = "aws", NEW b \in RenderSyntheticsHCL(ctx, c) PROVE Of("aws", b)
  BY <1>1 DEF RenderSyntheticsHCL
<1>2. ASSUME ctx.provider = "gcp", NEW b \in RenderSyntheticsHCL(ctx, c) PROVE Of("google", b)
  BY <1>2 DEF RenderSyntheticsHCL
<1>3. ASSUME ctx.provider = "digitalocean", NEW b \in RenderSyntheticsHCL(ctx, c) PROVE Of("digitalocean", b)
  BY <1>3 DEF RenderSyntheticsHCL
<1>4. ASSUME ctx.provider = "aws", NEW b \in RenderVMVolumeHCL(ctx, c) PROVE Of("aws", b)
  BY <1>4 DEF RenderVMVolumeHCL
<1>5. ASSUME ctx.provider = "gcp", NEW b \in RenderVMVolumeHCL(ctx, c) PROVE Of("google", b)
  BY <1>5 DEF RenderVMVolumeHCL
<1>6. ASSUME ctx.provider = "digitalocean", NEW b \in RenderVMVolumeHCL(ctx, c) PROVE Of("digitalocean", b)
  BY <1>6 DEF RenderVMVolumeHCL
<1>7. ASSUME ctx.provider = "aws", NEW b \in RenderKeyValueStoreHCL(ctx, c) PROVE Of("aws", b)
  BY <1>7 DEF RenderKeyValueStoreHCL
<1>8. ASSUME ctx.provider = "digitalocean", NEW b \in RenderKeyValueStoreHCL(ctx, c) PROVE Of("digitalocean", b)
  BY <1>8 DEF RenderKeyValueStoreHCL
<1>9. ASSUME ctx.provider = "aws", NEW b \in RenderEmailHCL(ctx, c) PROVE Of("aws", b)
  BY <1>9 DEF RenderEmailHCL
<1>10. ASSUME ctx.provider # "aws", NEW p, NEW b \in RenderEmailHCL(ctx, c) PROVE Of(p, b)
  BY <1>10 DEF RenderEmailHCL, renderEmailRelayHCL
<1> HIDE DEF Of, Machinery, One, When
<1> QED BY <1>1, <1>2, <1>3, <1>4, <1>5, <1>6, <1>7, <1>8, <1>9, <1>10

LEMMA AddressesKept ==
  ASSUME NEW ctx, NEW c
  PROVE  /\ Kept(ctx.provider, RenderContainerRegistryHCL(ctx, c))
         /\ Kept(ctx.provider, RenderReservedIPHCL(ctx, c))
         /\ Kept(ctx.provider, RenderWebServiceHCL(ctx, c))
         /\ Kept(ctx.provider, RenderPipelineControlPlaneHCL(ctx, c))
<1> USE DEF Kept, Supported, cloudProviderSource
<1>1. ASSUME RenderContainerRegistryHCL(ctx, c) # Refusal
      PROVE  ctx.provider \in Supported /\ From(RenderContainerRegistryHCL(ctx, c), cloudProviderSource(ctx.provider))
  <2>1. /\ ctx.provider \in {"aws", "gcp", "digitalocean"}
        /\ RenderContainerRegistryHCL(ctx, c) = One(RegistryType(ctx.provider) \o <<TfName(c.name)>>, {})
    BY <1>1 DEF RenderContainerRegistryHCL
  <2>2. \/ ctx.provider = "aws" /\ RegistryType(ctx.provider) = <<"aws", "ecr_repository">>
        \/ ctx.provider = "gcp" /\ RegistryType(ctx.provider) = <<"google", "artifact_registry_repository">>
        \/ ctx.provider = "digitalocean" /\ RegistryType(ctx.provider) = <<"digitalocean", "container_registry">>
    BY <2>1 DEF RegistryType
  <2> DEFINE S == RenderContainerRegistryHCL(ctx, c)
             n == TfName(c.name)
  <2>3. \/ ctx.provider = "aws" /\ S = One(<<"aws", "ecr_repository", n>>, {})
        \/ ctx.provider = "gcp" /\ S = One(<<"google", "artifact_registry_repository", n>>, {})
        \/ ctx.provider = "digitalocean" /\ S = One(<<"digitalocean", "container_registry", n>>, {})
    <3> HIDE DEF n, S
    <3> QED BY <2>1, <2>2, Joined DEF n, S
  <2> HIDE DEF n, S
  <2>4. ctx.provider \in Supported /\ From(S, cloudProviderSource(ctx.provider))
    BY <2>3 DEF From, Of, Machinery, One
  <2> QED BY <2>4 DEF S
<1>2. ASSUME RenderReservedIPHCL(ctx, c) # Refusal
      PROVE  ctx.provider \in Supported /\ From(RenderReservedIPHCL(ctx, c), cloudProviderSource(ctx.provider))
  <2>1. \/ ctx.provider = "aws" /\ \E r : RenderReservedIPHCL(ctx, c) = One(<<"aws", "eip", TfName(c.name)>>, r)
        \/ ctx.provider = "gcp" /\ \E r : RenderReservedIPHCL(ctx, c) = One(<<"google", "compute_address", TfName(c.name)>>, r)
        \/ ctx.provider = "digitalocean"
           /\ \E r : RenderReservedIPHCL(ctx, c) = One(<<"digitalocean", "reserved_ip", TfName(c.name)>>, r)
    BY <1>2 DEF RenderReservedIPHCL
  <2> QED BY <2>1 DEF From, Of, Machinery, One
<1>3. Kept(ctx.provider, RenderWebServiceHCL(ctx, c))
  BY DOWrites DEF RenderWebServiceHCL, OrRefuse
<1>4. Kept(ctx.provider, RenderPipelineControlPlaneHCL(ctx, c))
  BY AWSPipeline DEF RenderPipelineControlPlaneHCL, OrRefuse
<1> QED BY <1>1, <1>2, <1>3, <1>4
-----------------------------------------------------------------------------
(* The providers that a document needs.                                    *)

\* A document that is refused, or has no machine of DigitalOcean and needs the
\* provider of its environment and some others at most.
Within(p, P, S) ==
  S = Refusal \/ \A b \in S : ProviderLocal(b.addr) \subseteq {cloudProviderSource(p)} \cup P /\ Bare(b)

LEMMA OfLocal ==
  ASSUME NEW q, q \notin {"data", "var", "local", "output", "terraform"}, NEW b, Of(q, b)
  PROVE  ProviderLocal(b.addr) \subseteq {q} /\ Bare(b)
<1> USE DEF Block, ProviderLocal, Bare
<1>1. CASE \E t, n, r : (q = "digitalocean" => t \notin Machinery) /\ b = Block(<<q, t, n>>, r)
  BY <1>1 DEF Machinery
<1>2. CASE \E t, n, r, s : (q = "digitalocean" => t \notin Machinery) /\ b = Selecting(Block(<<q, t, n>>, r), s)
  BY <1>2 DEF Machinery, Selecting
<1>3. CASE \E t, n, r : b = Block(<<"data", q, t, n>>, r)
  BY <1>3
<1>4. CASE \E k \in {"var", "local", "output"} : \E n, r : b = Block(<<k, n>>, r)
  BY <1>4
<1> QED BY <1>1, <1>2, <1>3, <1>4 DEF Of

LEMMA SourceIsLocal ==
  ASSUME NEW p \in Supported
  PROVE  cloudProviderSource(p) \notin {"data", "var", "local", "output", "terraform"}
BY DEF Supported, cloudProviderSource

LEMMA KeptWithin ==
  ASSUME NEW p, NEW S, Kept(p, S), NEW P
  PROVE  Within(p, P, S)
<1>1. ASSUME p \in Supported, From(S, cloudProviderSource(p)), NEW b \in S
      PROVE  ProviderLocal(b.addr) \subseteq {cloudProviderSource(p)} /\ Bare(b)
  BY <1>1, SourceIsLocal, OfLocal DEF From
<1> QED BY <1>1 DEF Kept, Within

LEMMA OperatedWithin ==
  ASSUME NEW S
  PROVE  /\ (\A b \in S : Released(b)) => Within("digitalocean", {"helm", "kubernetes"}, S)
         /\ (\A b \in S : Operated(b)) => Within("digitalocean", {"kubernetes"}, S)
<1>1. cloudProviderSource("digitalocean") = "digitalocean"
  BY DEF cloudProviderSource
<1>2. ASSUME NEW q \in {"digitalocean", "helm", "kubernetes"}, NEW b, Of(q, b) PROVE ProviderLocal(b.addr) \subseteq {q} /\ Bare(b)
  BY <1>2, OfLocal
<1>3. ASSUME NEW b, Released(b) PROVE ProviderLocal(b.addr) \subseteq {"digitalocean", "helm", "kubernetes"} /\ Bare(b)
  BY <1>2, <1>3, OperatorBlocks
<1>4. ASSUME NEW b, Operated(b) PROVE ProviderLocal(b.addr) \subseteq {"digitalocean", "kubernetes"} /\ Bare(b)
  BY <1>2, <1>4, OperatorBlocks
<1> QED BY <1>1, <1>3, <1>4 DEF Within

LEMMA CloudflareWithin ==
  ASSUME NEW p, NEW S, From(S, "cloudflare")
  PROVE  Within(p, {"cloudflare"}, S)
BY OfLocal DEF Within, From

\* What a component is assembled to is within its translation's bounds.
LEMMA Translated ==
  ASSUME NEW p, NEW P, NEW S, NEW ok, Within(p, P, S)
  PROVE  Within(p, P, OrRefuse(ok, S))
BY DEF Within, OrRefuse

LEMMA TranslatedOnly ==
  ASSUME NEW p, NEW P, NEW S, NEW ok, ok => Within(p, P, S)
  PROVE  Within(p, P, OrRefuse(ok, S))
BY DEF Within, OrRefuse

LEMMA Unconfigured ==
  ASSUME NEW p, NEW P, NEW S, NEW c, Within(p, P, S)
  PROVE  Within(p, P, Configured(c, S))
BY DEF Within, OrRefuse, Configured

\* The providers besides its own that a component of the environment may need.
Flags(ctx, c) ==
  When(ctx.provider = "digitalocean" /\ c.type \in OperatorTypes, {"helm", "kubernetes"})
  \cup When(ctx.provider = "digitalocean" /\ c.type \in IdentityTypes \cup TriggerTypes, {"kubernetes"})
  \cup When(\/ c.type = "dns"
            \/ c.type \in StaticSiteTypes /\ UsesCloudflareSite(ctx, c)
            \/ c.type \in CDNTypes /\ UsesCloudflare(ctx, c)
            \/ c.type \in WAFTypes /\ ViaCloudflare(ctx), {"cloudflare"})

LEMMA FlagsOf ==
  ASSUME NEW ctx, NEW c
  PROVE  /\ c.type = "dns" => "cloudflare" \in Flags(ctx, c)
         /\ c.type \in StaticSiteTypes /\ UsesCloudflareSite(ctx, c) => "cloudflare" \in Flags(ctx, c)
         /\ c.type \in CDNTypes /\ UsesCloudflare(ctx, c) => "cloudflare" \in Flags(ctx, c)
         /\ c.type \in WAFTypes /\ ViaCloudflare(ctx) => "cloudflare" \in Flags(ctx, c)
         /\ ctx.provider = "digitalocean" /\ c.type \in OperatorTypes => {"helm", "kubernetes"} \subseteq Flags(ctx, c)
         /\ ctx.provider = "digitalocean" /\ c.type \in IdentityTypes \cup TriggerTypes => {"kubernetes"} \subseteq Flags(ctx, c)
BY DEF Flags, When

LEMMA WithinMore ==
  ASSUME NEW p, NEW P, NEW Q, P \subseteq Q, NEW S, Within(p, P, S)
  PROVE  Within(p, Q, S)
BY DEF Within

LEMMA FromWithin ==
  ASSUME NEW p \in Supported, NEW S, From(S, cloudProviderSource(p)), NEW P
  PROVE  Within(p, P, S)
BY KeptWithin DEF Kept

LEMMA OnClouds ==
  ASSUME NEW S, NEW P
  PROVE  /\ From(S, "aws") => Within("aws", P, S)
         /\ From(S, "google") => Within("gcp", P, S)
         /\ From(S, "digitalocean") => Within("digitalocean", P, S)
<1>1. {"aws", "gcp", "digitalocean"} \subseteq Supported
  BY DEF Supported
<1>2. /\ cloudProviderSource("aws") = "aws" /\ cloudProviderSource("gcp") = "google"
      /\ cloudProviderSource("digitalocean") = "digitalocean"
  BY DEF cloudProviderSource
<1> QED BY <1>1, <1>2, FromWithin

\* An operator of DigitalOcean's cluster, or a document of AWS alone.
LEMMA OnCluster1 ==
  ASSUME NEW ctx, ctx.provider \in {"aws", "digitalocean"}, NEW c, c.type \in OperatorTypes, NEW S,
         ctx.provider = "aws" => From(S, "aws"),
         ctx.provider = "digitalocean" => \A b \in S : Released(b)
  PROVE  Within(ctx.provider, Flags(ctx, c), S)
BY OnClouds, OperatedWithin, WithinMore, FlagsOf

LEMMA OnCluster2 ==
  ASSUME NEW ctx, ctx.provider \in {"aws", "digitalocean"}, NEW c, c.type \in IdentityTypes \cup TriggerTypes, NEW S,
         ctx.provider = "aws" => From(S, "aws"),
         ctx.provider = "digitalocean" => \A b \in S : Operated(b)
  PROVE  Within(ctx.provider, Flags(ctx, c), S)
BY OnClouds, OperatedWithin, WithinMore, FlagsOf

LEMMA MessagingKept ==
  ASSUME NEW ctx, NEW c, NEW stream \in BOOLEAN
  PROVE  /\ ctx.provider # "digitalocean" => Kept(ctx.provider, RenderMessagingHCL(ctx, c, stream))
         /\ ctx.provider = "digitalocean" => \A b \in RenderMessagingHCL(ctx, c, stream) : Released(b)
<1>1. CASE ctx.provider # "digitalocean"
  BY <1>1, AWSWrites, GoogleWrites, AzureWrites, OCIWrites, IBMWrites, AliWrites
  DEF RenderMessagingHCL, Kept, Supported, cloudProviderSource
<1>2. CASE ctx.provider = "digitalocean"
  BY <1>2, OperatorWrites DEF RenderMessagingHCL
<1> QED BY <1>1, <1>2

LEMMA OperatorsWithin ==
  ASSUME NEW ctx, ctx.provider = env.provider, NEW c
  PROVE  LET W(S) == Within(ctx.provider, Flags(ctx, c), S)
         IN /\ c.type = "monitoring" => W(AssembleMonitoring(ctx, c))
            /\ c.type \in QueueTypes => W(AssembleQueue(ctx, c))
            /\ c.type \in StreamTypes => W(AssembleStream(ctx, c))
            /\ c.type \in TracingTypes => W(AssembleTracing(ctx, c))
            /\ c.type \in CertificateTypes => W(AssembleCertificate(ctx, c))
            /\ c.type \in VaultTypes => W(AssembleVaultHA(ctx, c))
            /\ c.type \in SecretTypes => W(AssembleSecrets(ctx, c))
            /\ c.type \in KeyTypes => W(AssembleKMS(ctx, c))
            /\ c.type \in IdentityTypes => W(AssembleIdentity(ctx, c))
            /\ c.type \in TriggerTypes => W(AssembleTrigger(ctx, c))
<1> DEFINE W(S) == Within(ctx.provider, Flags(ctx, c), S)
<1>1. ASSUME c.type \in QueueTypes \cup StreamTypes \cup CertificateTypes \cup TracingTypes \cup VaultTypes
                        \cup SecretTypes \cup KeyTypes \cup {"monitoring"}
      PROVE  c.type \in OperatorTypes
  BY <1>1 DEF OperatorTypes
<1>2. ASSUME c.type = "monitoring" PROVE W(AssembleMonitoring(ctx, c))
  <2>1. ctx.provider = "aws" => RenderMonitoringHCL(ctx, c) = renderMonitoringAWS(c)
    BY DEF RenderMonitoringHCL
  <2>2. ctx.provider = "gcp" => RenderMonitoringHCL(ctx, c) = renderMonitoringGCP(c)
    BY DEF RenderMonitoringHCL
  <2>3. ctx.provider = "digitalocean" => RenderMonitoringHCL(ctx, c) = renderMonitoringDO(c)
    BY DEF RenderMonitoringHCL
  <2>4. ctx.provider \notin {"aws", "gcp", "digitalocean"} => RenderMonitoringHCL(ctx, c) = Refusal
    BY DEF RenderMonitoringHCL
  <2>5. CASE ctx.provider \in {"aws", "digitalocean"}
    <3>1. W(RenderMonitoringHCL(ctx, c))
      BY <1>1, <1>2, <2>1, <2>3, <2>5, OnCluster1, AWSWrites, OperatorWrites
    <3> QED BY <3>1, Translated, Unconfigured DEF AssembleMonitoring
  <2>6. CASE ctx.provider \notin {"aws", "digitalocean"}
    <3>1. W(RenderMonitoringHCL(ctx, c))
      BY <2>2, <2>4, <2>6, OnClouds, GoogleWrites DEF Within
    <3> QED BY <3>1, Translated, Unconfigured DEF AssembleMonitoring
  <2> QED BY <2>5, <2>6
<1>3. ASSUME c.type \in QueueTypes \cup StreamTypes, NEW d, NEW stream \in BOOLEAN, NEW ok
      PROVE  W(OrRefuse(ok, RenderMessagingHCL(ctx, d, stream)))
  <2>1. W(RenderMessagingHCL(ctx, d, stream))
    <3>1. CASE ctx.provider = "digitalocean"
      BY <1>1, <1>3, <3>1, MessagingKept, OnCluster1
    <3>2. CASE ctx.provider # "digitalocean"
      BY <1>3, <3>2, MessagingKept, KeptWithin
    <3> QED BY <3>1, <3>2
  <2> QED BY <2>1, Translated
<1>4. c.type \in QueueTypes => W(AssembleQueue(ctx, c))
  BY <1>3 DEF AssembleQueue
<1>5. c.type \in StreamTypes => W(AssembleStream(ctx, c))
  BY <1>3 DEF AssembleStream
<1>6. ASSUME c.type \in TracingTypes, TranslateTracing(ctx, c) PROVE W(RenderTracingHCL(ctx, c))
  BY <1>1, <1>6, OnCluster1, AWSWrites, OperatorWrites DEF RenderTracingHCL, TranslateTracing
<1>7. ASSUME c.type \in CertificateTypes, TranslateTLSCertificate(ctx, c) PROVE W(RenderTLSCertificateHCL(ctx, c))
  BY <1>1, <1>7, OnCluster1, AWSWrites, OperatorWrites DEF RenderTLSCertificateHCL, TranslateTLSCertificate
<1>8. ASSUME c.type \in VaultTypes \cup SecretTypes \cup KeyTypes, NEW d, TranslateVaultHA(ctx, d)
      PROVE  W(RenderVaultHAHCL(ctx, d))
  BY <1>1, <1>8, OnCluster1, AWSWrites, OperatorWrites DEF RenderVaultHAHCL, TranslateVaultHA
<1>9. ASSUME c.type \in SecretTypes \cup KeyTypes PROVE W(assembleVaultHAAlias(ctx, c))
  BY <1>8, <1>9, TranslatedOnly DEF assembleVaultHAAlias
<1>10. ASSUME c.type \in SecretTypes PROVE W(AssembleSecrets(ctx, c))
  BY <1>9, <1>10, Translated, ServicesKept, KeptWithin DEF AssembleSecrets
<1>11. ASSUME c.type \in KeyTypes PROVE W(AssembleKMS(ctx, c))
  BY <1>9, <1>11, Translated, ServicesKept, KeptWithin DEF AssembleKMS
<1>12. ASSUME c.type \in IdentityTypes, TranslateWorkloadIdentity(ctx, c) PROVE W(RenderWorkloadIdentityHCL(ctx, c))
  BY <1>12, OnCluster2, AWSWrites, OperatorWrites DEF RenderWorkloadIdentityHCL, TranslateWorkloadIdentity
<1>13. ASSUME c.type \in TriggerTypes, TranslateScheduledTrigger(ctx, c) PROVE W(RenderScheduledTriggerHCL(ctx, c))
  BY <1>13, OnCluster2, AWSWrites, OperatorWrites DEF RenderScheduledTriggerHCL, TranslateScheduledTrigger
<1>14. /\ c.type \in TracingTypes => W(AssembleTracing(ctx, c))
       /\ c.type \in CertificateTypes => W(AssembleCertificate(ctx, c))
       /\ c.type \in VaultTypes => W(AssembleVaultHA(ctx, c))
       /\ c.type \in IdentityTypes => W(AssembleIdentity(ctx, c))
       /\ c.type \in TriggerTypes => W(AssembleTrigger(ctx, c))
  BY <1>6, <1>7, <1>8, <1>12, <1>13, TranslatedOnly
  DEF AssembleTracing, AssembleCertificate, AssembleVaultHA, AssembleIdentity, AssembleTrigger
<1> HIDE DEF W
<1>15. /\ c.type = "monitoring" => W(AssembleMonitoring(ctx, c))
       /\ c.type \in SecretTypes => W(AssembleSecrets(ctx, c))
       /\ c.type \in KeyTypes => W(AssembleKMS(ctx, c))
  BY <1>2, <1>10, <1>11
<1> QED BY <1>4, <1>5, <1>14, <1>15 DEF W

\* Cloudflare is in front of, or instead of, DigitalOcean's own services.
LEMMA EdgeWithin ==
  ASSUME NEW ctx, NEW c
  PROVE  LET W(S) == Within(ctx.provider, Flags(ctx, c), S)
         IN /\ c.type = "dns" => W(AssembleDNS(c))
            /\ c.type \in CDNTypes => W(AssembleCDN(ctx, c))
            /\ c.type \in WAFTypes => W(AssembleWAF(ctx, c))
            /\ c.type \in StaticSiteTypes => W(AssembleStaticSite(ctx, c))
<1> DEFINE W(S) == Within(ctx.provider, Flags(ctx, c), S)
<1>1. ASSUME "cloudflare" \in Flags(ctx, c), NEW S, From(S, "cloudflare") PROVE W(S)
  BY <1>1, CloudflareWithin, WithinMore
<1>2. ASSUME NEW S, Kept(ctx.provider, S) PROVE W(S)
  BY <1>2, KeptWithin
<1>3. c.type = "dns" => W(AssembleDNS(c))
  BY <1>1, FlagsOf, CloudflareWrites, Translated, Unconfigured DEF AssembleDNS
<1>4. ASSUME c.type \in CDNTypes PROVE W(AssembleCDN(ctx, c))
  <2> DEFINE e == CanonicalEdge(c)
  <2>0. UsesCloudflare(ctx, e) = UsesCloudflare(ctx, c)
    BY DEF UsesCloudflare, CanonicalEdge, Component, Has
  <2> HIDE DEF e
  <2>1. CASE UsesCloudflare(ctx, c)
    <3>1. ctx.provider \in {"cloudflare", "digitalocean"}
      BY <2>1 DEF UsesCloudflare
    <3>0. UsesCloudflare(ctx, e)
      BY <2>0, <2>1
    <3>2. RenderCDNHCL(ctx, e) = RenderCloudfareCDNHCL(e)
      BY <3>0 DEF RenderCDNHCL, UsesCloudflare
    <3>3. W(RenderCDNHCL(ctx, e))
      BY <1>1, <1>4, <2>1, <3>2, FlagsOf, CloudflareWrites
    <3> QED BY <3>3, Translated, Unconfigured DEF AssembleCDN, e
  <2>2. CASE ~UsesCloudflare(ctx, c)
    <3>1. Kept(ctx.provider, RenderCDNHCL(ctx, e))
      BY <2>0, <2>2, AWSWrites, GoogleWrites, DOWrites, AzureWrites, AliWrites
      DEF RenderCDNHCL, Kept, Supported, cloudProviderSource
    <3> QED BY <1>2, <3>1, Translated, Unconfigured DEF AssembleCDN, e
  <2> QED BY <2>1, <2>2
<1>5. ASSUME c.type \in WAFTypes PROVE W(AssembleWAF(ctx, c))
  <2> DEFINE e == CanonicalEdge(c)
  <2> HIDE DEF e
  <2>1. CASE ViaCloudflare(ctx)
    <3>1. RenderWAFHCL(ctx, e) = renderWAFCloudflare(e)
      BY <2>1 DEF RenderWAFHCL, ViaCloudflare
    <3>2. W(RenderWAFHCL(ctx, e))
      BY <1>1, <1>5, <2>1, <3>1, FlagsOf, CloudflareWrites
    <3> QED BY <3>2, Translated DEF AssembleWAF, e
  <2>2. CASE ~ViaCloudflare(ctx)
    <3>1. Kept(ctx.provider, RenderWAFHCL(ctx, e))
      BY <2>2, AWSWrites, GoogleWrites, AzureWrites, OCIWrites, IBMWrites, AliWrites
      DEF RenderWAFHCL, Kept, Supported, cloudProviderSource
    <3> QED BY <1>2, <3>1, Translated DEF AssembleWAF, e
  <2> QED BY <2>1, <2>2
<1>6. ASSUME c.type \in StaticSiteTypes, TranslateStaticSite(ctx, c) PROVE W(RenderStaticSiteHCL(ctx, c))
  <2> DEFINE s == Canonical(c)
  <2>1. ctx.provider \in {"aws", "digitalocean"}
    BY <1>6 DEF TranslateStaticSite
  <2>2. CASE ctx.provider = "aws"
    BY <2>2, OnClouds, AWSWrites DEF RenderStaticSiteHCL
  <2>3. CASE ctx.provider = "digitalocean"
    <3>1. RenderStaticSiteHCL(ctx, c) = renderObjectStorageDO(s) \cup When(~Has(s, "cdn_disabled"), RenderCloudfareCDNHCL(s))
      BY <2>3 DEF RenderStaticSiteHCL, renderStaticSiteDO
    <3>2. Has(s, "cdn_disabled") = Has(c, "cdn_disabled")
      BY DEF Canonical, Component, Has
    <3>3. \A b \in renderObjectStorageDO(s) : ProviderLocal(b.addr) \subseteq {"digitalocean"} /\ Bare(b)
      BY DOWrites, OfLocal DEF From
    <3>4. \A b \in RenderCloudfareCDNHCL(s) : ProviderLocal(b.addr) \subseteq {"cloudflare"} /\ Bare(b)
      BY CloudflareWrites, OfLocal DEF From
    <3>5. ~Has(c, "cdn_disabled") => "cloudflare" \in Flags(ctx, c)
      BY <1>6, <2>3, FlagsOf DEF UsesCloudflareSite
    <3> HIDE DEF s
    <3>6. \A b \in RenderStaticSiteHCL(ctx, c) : ProviderLocal(b.addr) \subseteq {"digitalocean"} \cup Flags(ctx, c) /\ Bare(b)
      BY <3>1, <3>2, <3>3, <3>4, <3>5 DEF When
    <3> QED BY <2>3, <3>6 DEF Within, cloudProviderSource
  <2> QED BY <2>1, <2>2, <2>3
<1>7. c.type \in StaticSiteTypes => W(AssembleStaticSite(ctx, c))
  BY <1>6, TranslatedOnly DEF AssembleStaticSite
<1> HIDE DEF W
<1>8. (c.type \in CDNTypes => W(AssembleCDN(ctx, c))) /\ (c.type \in WAFTypes => W(AssembleWAF(ctx, c)))
  BY <1>4, <1>5
<1> QED BY <1>3, <1>7, <1>8 DEF W

\* A policy that is no role is written for AWS, or kept by Terraform itself.
LEMMA PolicyWithin ==
  ASSUME NEW ctx, NEW c, NEW P
  PROVE  Within(ctx.provider, P, RenderAccessPolicyHCL(ctx, c))
<1>1. ASSUME NEW b \in RenderAccessPolicyHCL(ctx, c)
      PROVE  (\E n, r : b = Block(<<"terraform", "data", n>>, r))
             \/ (ctx.provider = "aws" /\ \E t, n, r : b = Block(<<"aws", t, n>>, r))
  BY <1>1 DEF RenderAccessPolicyHCL, renderAccessPolicyAWS, renderAccessPolicyPortable
<1>2. \A n, r : LET b == Block(<<"terraform", "data", n>>, r) IN ProviderLocal(b.addr) = {} /\ Bare(b)
  BY DEF Block, ProviderLocal, Bare
<1>3. \A t, n, r : LET b == Block(<<"aws", t, n>>, r) IN ProviderLocal(b.addr) = {"aws"} /\ Bare(b)
  BY DEF Block, ProviderLocal, Bare
<1>4. ctx.provider = "aws" => cloudProviderSource(ctx.provider) = "aws"
  BY DEF cloudProviderSource
<1>5. ASSUME NEW b \in RenderAccessPolicyHCL(ctx, c)
      PROVE  ProviderLocal(b.addr) \subseteq {cloudProviderSource(ctx.provider)} \cup P /\ Bare(b)
  <2>1. CASE \E n, r : b = Block(<<"terraform", "data", n>>, r)
    BY <1>2, <2>1
  <2>2. CASE ctx.provider = "aws" /\ \E t, n, r : b = Block(<<"aws", t, n>>, r)
    BY <1>3, <1>4, <2>2
  <2> QED BY <1>1, <1>5, <2>1, <2>2
<1> QED BY <1>5 DEF Within

\* A kind of component with a renderer of its own provider only.
LEMMA PlainWithin ==
  ASSUME NEW ctx, ctx.provider = env.provider, NEW c, NEW P
  PROVE  LET W(S) == Within(ctx.provider, P, S)
         IN /\ ctx.provider # "digitalocean" => W(AssembleVM(ctx, c)) /\ W(AssembleScaleGroup(ctx, c))
            /\ W(AssembleAttach(ctx, c)) /\ W(AssembleAccessPolicy(ctx, c)) /\ W(AssembleIAM(ctx, c))
            /\ W(AssembleObjectStorage(ctx, c)) /\ W(AssembleRegistry(ctx, c)) /\ W(AssembleReservedIP(ctx, c))
            /\ W(AssembleVPNAccess(ctx, c)) /\ W(AssembleDatabase(ctx, c)) /\ W(AssembleServerless(ctx, c))
            /\ W(AssembleWebService(ctx, c)) /\ W(AssembleCache(ctx, c)) /\ W(AssembleKubernetes(ctx, c))
            /\ W(AssembleLoadBalancer(ctx, c)) /\ W(AssembleEmail(ctx, c)) /\ W(AssembleVolume(ctx, c))
            /\ W(AssemblePrefixList(ctx, c)) /\ W(AssembleSynthetics(ctx, c)) /\ W(AssembleKeyValue(ctx, c))
            /\ W(AssemblePipeline(ctx, c))
<1> DEFINE W(S) == Within(ctx.provider, P, S)
<1>1. ASSUME NEW S, Kept(ctx.provider, S) PROVE W(S)
  BY <1>1, KeptWithin
<1>2. ASSUME NEW S, W(S), NEW ok PROVE W(OrRefuse(ok, S)) /\ W(Configured(c, S))
  BY <1>2, Translated, Unconfigured
<1>3. ASSUME NEW S, NEW ok, ok => W(S) PROVE W(OrRefuse(ok, S))
  BY <1>3, TranslatedOnly
<1>4. /\ ctx.provider = "aws" => \A S : From(S, "aws") => W(S)
      /\ ctx.provider = "gcp" => \A S : From(S, "google") => W(S)
      /\ ctx.provider = "digitalocean" => \A S : From(S, "digitalocean") => W(S)
  BY OnClouds
<1> HIDE DEF W
<1>5. ctx.provider # "digitalocean" => W(AssembleVM(ctx, c)) /\ W(AssembleScaleGroup(ctx, c))
  BY <1>1, <1>2, InfrastructureKept DEF AssembleVM, AssembleScaleGroup
<1>6. W(AssembleAttach(ctx, c))
  BY <1>2, <1>3, <1>4, AWSWrites DEF AssembleAttach, TranslateAttachToExistingALB
<1>7. W(AssembleIAM(ctx, c))
  BY <1>3, <1>4, AWSWrites, GoogleWrites DEF AssembleIAM, TranslateIAM, RenderIAMHCL
<1>8. W(AssembleAccessPolicy(ctx, c))
  <2>1. W(RenderAccessPolicyHCL(ctx, c))
    BY PolicyWithin DEF W
  <2> QED BY <1>2, <1>7, <2>1 DEF AssembleAccessPolicy, AssembleIAM
<1>9. /\ W(AssembleObjectStorage(ctx, c)) /\ W(AssembleDatabase(ctx, c)) /\ W(AssembleServerless(ctx, c))
      /\ W(AssembleCache(ctx, c)) /\ W(AssembleKubernetes(ctx, c)) /\ W(AssembleLoadBalancer(ctx, c))
  BY <1>1, <1>2, InfrastructureKept, ServicesKept
  DEF AssembleObjectStorage, AssembleDatabase, AssembleServerless, AssembleCache, AssembleKubernetes, AssembleLoadBalancer
<1>10. /\ W(AssembleRegistry(ctx, c)) /\ W(AssembleReservedIP(ctx, c)) /\ W(AssembleWebService(ctx, c))
       /\ W(AssemblePipeline(ctx, c))
  BY <1>1, <1>2, AddressesKept DEF AssembleRegistry, AssembleReservedIP, AssembleWebService, AssemblePipeline
<1>11. W(AssembleVPNAccess(ctx, c)) /\ W(AssemblePrefixList(ctx, c))
  BY <1>2, <1>3, <1>4, AWSWrites DEF AssembleVPNAccess, TranslateVPNAccess, AssemblePrefixList, TranslatePrefixList
<1>12. W(AssembleEmail(ctx, c))
  <2>1. CASE ctx.provider = "aws"
    BY <1>2, <1>4, <2>1, SmallWrites DEF AssembleEmail
  <2>2. CASE ctx.provider # "aws"
    <3>1. \A b \in RenderEmailHCL(ctx, c) : ProviderLocal(b.addr) \subseteq {"aws"} /\ Bare(b)
      BY <2>2, SmallWrites, OfLocal DEF From
    <3>2. \A b \in RenderEmailHCL(ctx, c) : ProviderLocal(b.addr) \subseteq {"ibm"} /\ Bare(b)
      BY <2>2, SmallWrites, OfLocal DEF From
    <3>3. W(RenderEmailHCL(ctx, c))
      BY <3>1, <3>2 DEF W, Within
    <3> QED BY <1>2, <3>3 DEF AssembleEmail
  <2> QED BY <2>1, <2>2
<1>13. W(AssembleVolume(ctx, c)) /\ W(AssembleSynthetics(ctx, c)) /\ W(AssembleKeyValue(ctx, c))
  <2>1. TranslateVMVolume(ctx, c) => W(RenderVMVolumeHCL(ctx, c))
    BY <1>4, SmallWrites DEF TranslateVMVolume
  <2>2. TranslateSynthetics(ctx, c) => W(RenderSyntheticsHCL(ctx, c))
    BY <1>4, SmallWrites DEF TranslateSynthetics
  <2>3. TranslateKeyValueStore(ctx, c) => W(RenderKeyValueStoreHCL(ctx, c))
    BY <1>4, SmallWrites DEF TranslateKeyValueStore
  <2> QED BY <1>2, <1>3, <2>1, <2>2, <2>3 DEF AssembleVolume, AssembleSynthetics, AssembleKeyValue
<1> QED BY <1>5, <1>6, <1>7, <1>8, <1>9, <1>10, <1>11, <1>12, <1>13 DEF W

\* Whatever the type, a component that is no machine of DigitalOcean.
LEMMA ComponentWithin ==
  ASSUME NEW ctx, ctx.provider = env.provider, NEW c, c.type \notin MachineTypes \/ ctx.provider # "digitalocean"
  PROVE  Within(ctx.provider, Flags(ctx, c), RenderComponent(ctx, c))
<1> DEFINE W(S) == Within(ctx.provider, Flags(ctx, c), S)
<1>1. W(Refusal)
  BY DEF Within
<1>2. c.type \in MachineTypes => W(AssembleVM(ctx, c)) /\ W(AssembleScaleGroup(ctx, c))
  BY PlainWithin
<1>3. /\ W(AssembleAttach(ctx, c)) /\ W(AssembleAccessPolicy(ctx, c)) /\ W(AssembleIAM(ctx, c))
      /\ W(AssembleObjectStorage(ctx, c)) /\ W(AssembleRegistry(ctx, c)) /\ W(AssembleReservedIP(ctx, c))
      /\ W(AssembleVPNAccess(ctx, c)) /\ W(AssembleDatabase(ctx, c)) /\ W(AssembleServerless(ctx, c))
      /\ W(AssembleWebService(ctx, c)) /\ W(AssembleCache(ctx, c)) /\ W(AssembleKubernetes(ctx, c))
      /\ W(AssembleLoadBalancer(ctx, c)) /\ W(AssembleEmail(ctx, c)) /\ W(AssembleVolume(ctx, c))
      /\ W(AssemblePrefixList(ctx, c)) /\ W(AssembleSynthetics(ctx, c)) /\ W(AssembleKeyValue(ctx, c))
      /\ W(AssemblePipeline(ctx, c))
  BY PlainWithin
<1>4. /\ c.type = "monitoring" => W(AssembleMonitoring(ctx, c))
      /\ c.type \in QueueTypes => W(AssembleQueue(ctx, c))
      /\ c.type \in StreamTypes => W(AssembleStream(ctx, c))
      /\ c.type \in TracingTypes => W(AssembleTracing(ctx, c))
      /\ c.type \in CertificateTypes => W(AssembleCertificate(ctx, c))
      /\ c.type \in VaultTypes => W(AssembleVaultHA(ctx, c))
      /\ c.type \in SecretTypes => W(AssembleSecrets(ctx, c))
      /\ c.type \in KeyTypes => W(AssembleKMS(ctx, c))
      /\ c.type \in IdentityTypes => W(AssembleIdentity(ctx, c))
      /\ c.type \in TriggerTypes => W(AssembleTrigger(ctx, c))
  BY OperatorsWithin
<1>5. /\ c.type = "dns" => W(AssembleDNS(c))
      /\ c.type \in CDNTypes => W(AssembleCDN(ctx, c))
      /\ c.type \in WAFTypes => W(AssembleWAF(ctx, c))
      /\ c.type \in StaticSiteTypes => W(AssembleStaticSite(ctx, c))
  BY EdgeWithin
<1>6. {"virtual-machine", "virtual-machine-scale-group"} = MachineTypes
  BY DEF MachineTypes
<1> HIDE DEF W
<1>7. W(RenderComponent(ctx, c))
  BY <1>1, <1>2, <1>3, <1>4, <1>5, <1>6 DEF RenderComponent
<1> QED BY <1>7 DEF W
-----------------------------------------------------------------------------
(* That a renderer adds a resource.                                        *)

\* A block that is more than an input, a look-up or an output; and a document
\* with one.  A refusal counts as one, so that it need not be told apart.
Alive(b)  == b.addr[1] \notin {"var", "data", "output"}
Lively(S) == \E b \in S : Alive(b)

LEMMA Alives ==
  /\ \A p, t, n, r : p \notin {"var", "data", "output"} => Alive(Block(<<p, t, n>>, r))
  /\ \A n, r : Alive(Block(<<"local", n>>, r))
  /\ \A p, t, n, r, s : p \notin {"var", "data", "output"} => Alive(Selecting(Block(<<p, t, n>>, r), s))
  /\ \A p, t, n, r, s : p \notin {"var", "data", "output"} => Alive(Tagged(Block(<<p, t, n>>, r), s))
BY DEF Alive, Block, Selecting, Tagged

LEMMA Refused == Lively(Refusal)
BY DEF Lively, Alive, Refusal, Block

LEMMA LivesIfAccepted ==
  ASSUME NEW ok, NEW S, ok => Lively(S)
  PROVE  Lively(OrRefuse(ok, S))
BY Refused DEF OrRefuse

\* A block of a template is a resource.
LEMMA TemplateLives ==
  ASSUME NEW p, IsAdapter(p), NEW t, Template(t, cloudProviderSource(p)), t # NoTemplate, NEW n, NEW r
  PROVE  Alive(Block(t \o <<n>>, r))
<1>1. cloudProviderSource(p) \notin {"var", "data", "output"}
  BY Manifests, SourceIsLocal DEF cloudProviderSource
<1>2. PICK k : t = <<cloudProviderSource(p), k>>
  BY DEF Template
<1>3. t \o <<n>> = <<cloudProviderSource(p), k, n>>
  BY <1>2, Joined
<1> QED BY <1>1, <1>3, Alives

LEMMA CacheLives == ASSUME NEW ctx, NEW c PROVE Lively(RenderCacheHCL(ctx, c))
BY Alives, Refused DEF Lively, RenderCacheHCL, renderCacheAWS, renderCacheGCP, renderCacheDO, renderCacheAzure,
      renderCacheOCI, renderCacheIBM, renderCacheAlibaba, Azure, InCompartment, InGroup, Ali, OCI, IBM, One,
      When, OrRefuse

LEMMA ScaleGroupLives == ASSUME NEW ctx, NEW c PROVE Lively(RenderScaleGroupHCL(ctx, c))
BY Alives, Refused DEF Lively, RenderScaleGroupHCL, renderASGAWS, renderASGGCP, renderScaleGroupAzure,
      renderASGOCI, renderASGIBM, renderASGAlibaba, renderScaleGroupDO, ASG, Azure, OCI, InCompartment, IBM,
      Ali, One, When, OrRefuse

LEMMA ObjectStorageLives == ASSUME NEW ctx, NEW c PROVE Lively(RenderObjectStorageHCL(ctx, c))
BY Alives, Refused DEF Lively, RenderObjectStorageHCL, renderObjectStorageAWS, renderObjectStorageGCP,
      renderObjectStorageDO, renderObjectStorageAzure, renderObjectStorageLinode, renderObjectStorageOCI,
      renderObjectStorageIBM, renderObjectStorageAlibaba, renderObjectStorageOVH, renderStackItObjectStorage,
      Azure, Linode, InCompartment, IBM, Ali, OVH, InProject, OCI, STACKIT, One, When, OrRefuse

LEMMA MessagingLives == ASSUME NEW ctx, NEW c, NEW stream PROVE Lively(RenderMessagingHCL(ctx, c, stream))
BY Alives, Refused DEF Lively, RenderMessagingHCL, renderStreamAWS, renderQueueAWS, renderStreamGCP,
      renderQueueGCP, renderStreamDO, renderQueueDO, renderStreamAzure, renderQueueAzure, renderStreamOCI,
      renderQueueOCI, renderStreamAlibaba, renderQueueAlibaba, renderStreamIBM, renderOperatorComponent,
      renderOperatorCR, Helm, Azure, InCompartment, Ali, InGroup, renderClusterDataSource, renderHelmRelease,
      Manifest, OCI, IBM, One, When, OrRefuse

LEMMA CDNLives == ASSUME NEW ctx, NEW c PROVE Lively(RenderCDNHCL(ctx, c))
BY Alives, Refused DEF Lively, RenderCDNHCL, UsesCloudflare, RenderCloudfareCDNHCL, renderCDNAWS, renderCDNGCP,
      renderCDNDO, renderCDNAzure, renderCDNAlibaba, Azure, Ali, One, When, OrRefuse

LEMMA WAFLives == ASSUME NEW ctx, NEW c PROVE Lively(RenderWAFHCL(ctx, c))
BY Alives, Refused DEF Lively, RenderWAFHCL, ViaCloudflare, renderWAFCloudflare, renderWAFAWS, renderWAFGCP,
      renderWAFAzure, renderWAFOCI, renderWAFIBM, renderWAFAlibaba, Azure, OCI, InCompartment, IBM, Ali, One,
      When, OrRefuse

LEMMA KubernetesLives == ASSUME NEW ctx, NEW c PROVE Lively(RenderKubernetesHCL(ctx, c))
BY Alives, Refused DEF Lively, RenderKubernetesHCL, renderK8sAWS, renderK8sGCP, renderK8sDO,
      renderKubernetesAzure, renderK8sLinode, renderK8sOCI, renderK8sIBM, renderK8sAlibaba, renderKubernetesOVH,
      renderStackItKubernetes, Azure, Linode, OCI, InCompartment, InGroup, Ali, OVH, InProject, IBM, STACKIT,
      One, When, OrRefuse

LEMMA SecretsLive == ASSUME NEW ctx, NEW c PROVE Lively(RenderSecretsHCL(ctx, c))
BY Alives, Refused DEF Lively, RenderSecretsHCL, renderSecretsAWS, renderSecretsGCP, renderSecretsAzure,
      renderSecretsOCI, renderSecretsIBM, renderSecretsAlibaba, renderStackItSecrets, Azure, OCI, InCompartment,
      IBM, Ali, InProject, STACKIT, One, When, OrRefuse

LEMMA ServerlessLives == ASSUME NEW ctx, NEW c PROVE Lively(RenderServerlessHCL(ctx, c))
BY Alives, Refused DEF Lively, RenderServerlessHCL, renderServerlessAWS, renderServerlessGCP,
      renderServerlessDO, renderServerlessAzure, renderServerlessOCI, renderServerlessIBM,
      renderServerlessAlibaba, Azure, OCI, IBM, Ali, One, When, OrRefuse

LEMMA StaticSiteLives == ASSUME NEW ctx, NEW c PROVE Lively(RenderStaticSiteHCL(ctx, c))
BY Alives, Refused DEF Lively, RenderStaticSiteHCL, renderStaticSiteAmplify, renderStaticSiteDO,
      renderObjectStorageDO, RenderCloudfareCDNHCL, One, When, OrRefuse

LEMMA KMSLives == ASSUME NEW ctx, NEW c PROVE Lively(RenderKMSHCL(ctx, c))
BY Alives, Refused DEF Lively, RenderKMSHCL, renderKMSAWS, renderKMSGCP, One, When, OrRefuse

LEMMA WebServiceLives == ASSUME NEW ctx, NEW c PROVE Lively(RenderWebServiceHCL(ctx, c))
BY Alives, Refused DEF Lively, RenderWebServiceHCL, renderWebServiceDO, One, When, OrRefuse

LEMMA EmailLives == ASSUME NEW ctx, NEW c PROVE Lively(RenderEmailHCL(ctx, c))
BY Alives, Refused DEF Lively, RenderEmailHCL, renderEmailRelayHCL, One, When, OrRefuse

LEMMA TracingLives == ASSUME NEW ctx, NEW c PROVE Lively(RenderTracingHCL(ctx, c))
BY Alives, Refused DEF Lively, RenderTracingHCL, renderTracingAWS, renderTracingDO, renderOperatorComponent,
      renderOperatorCR, Helm, Manifest, renderClusterDataSource, renderHelmRelease, One, When, OrRefuse

LEMMA CertificateLives == ASSUME NEW ctx, NEW c PROVE Lively(RenderTLSCertificateHCL(ctx, c))
BY Alives, Refused DEF Lively, RenderTLSCertificateHCL, renderTLSCertificateAWS, renderTLSCertificateDO,
      renderOperatorComponent, renderOperatorCR, Helm, Manifest, renderClusterDataSource, renderHelmRelease,
      One, When, OrRefuse

LEMMA VaultLives == ASSUME NEW ctx, NEW c PROVE Lively(RenderVaultHAHCL(ctx, c))
BY Alives, Refused DEF Lively, RenderVaultHAHCL, renderVaultHAAWS, renderVaultHADO, renderOperatorComponent,
      renderOperatorCR, Helm, renderClusterDataSource, renderHelmRelease, Manifest, One, When, OrRefuse

LEMMA IdentityLives == ASSUME NEW ctx, NEW c PROVE Lively(RenderWorkloadIdentityHCL(ctx, c))
BY Alives, Refused DEF Lively, RenderWorkloadIdentityHCL, renderWorkloadIdentityAWS, renderWorkloadIdentityDO,
      RoleBlocks, InstanceProfile, renderOperatorComponent, renderOperatorCR, renderClusterDataSource,
      renderHelmRelease, Manifest, Helm, One, When, OrRefuse

LEMMA TriggerLives == ASSUME NEW ctx, NEW c PROVE Lively(RenderScheduledTriggerHCL(ctx, c))
BY Alives, Refused DEF Lively, RenderScheduledTriggerHCL, renderScheduledTriggerAWS, renderScheduledTriggerDO,
      One, When, OrRefuse

LEMMA KeyValueLives == ASSUME NEW ctx, NEW c PROVE Lively(RenderKeyValueStoreHCL(ctx, c))
BY Alives, Refused DEF Lively, RenderKeyValueStoreHCL, One, When, OrRefuse

LEMMA IAMLives == ASSUME NEW ctx, NEW c PROVE Lively(RenderIAMHCL(ctx, c))
BY Alives, Refused DEF Lively, RenderIAMHCL, renderIAMAWS, renderIAMGCP, One, When, OrRefuse

LEMMA SyntheticsLive == ASSUME NEW ctx, NEW c PROVE Lively(RenderSyntheticsHCL(ctx, c))
BY Alives, Refused DEF Lively, RenderSyntheticsHCL, One, When, OrRefuse

LEMMA VPNAccessLives == ASSUME NEW ctx, NEW c PROVE Lively(RenderVPNAccessHCL(ctx, c))
BY Alives, Refused DEF Lively, RenderVPNAccessHCL, One, When, OrRefuse

LEMMA PrefixListLives == ASSUME NEW c PROVE Lively(RenderPrefixListHCL(c))
BY Alives, Refused DEF Lively, RenderPrefixListHCL, One, When, OrRefuse

LEMMA AttachLives == ASSUME NEW ctx, NEW c PROVE Lively(RenderAttachToExistingALBHCL(ctx, c))
BY Alives, Refused DEF Lively, RenderAttachToExistingALBHCL, TargetGroup, Attachment, ASG, One, When, OrRefuse

LEMMA VolumeLives == ASSUME NEW ctx, NEW c PROVE Lively(RenderVMVolumeHCL(ctx, c))
BY Alives, Refused DEF Lively, RenderVMVolumeHCL, One, When, OrRefuse

LEMMA ReservedIPLives == ASSUME NEW ctx, NEW c PROVE Lively(RenderReservedIPHCL(ctx, c))
BY Alives, Refused DEF Lively, RenderReservedIPHCL, One, When, OrRefuse

LEMMA LoadBalancerLives == ASSUME NEW ctx, NEW c PROVE Lively(RenderLoadBalancerHCL(ctx, c))
<1>1. Lively(renderLBAWS(ctx, c))
  BY Alives, Refused DEF Lively, renderLBAWS, TargetGroup, Listener, renderLBAWSListenerRules, Attachment, ASG,
      One, When, OrRefuse
<1>2. Lively(renderLBGCP(c))
  BY Alives, Refused DEF Lively, renderLBGCP, One, When, OrRefuse
<1>3. Lively(renderLBDOReservedIP(c))
  BY Alives, Refused DEF Lively, renderLBDOReservedIP, One, When, OrRefuse
<1>4. Lively(renderLBDO(ctx, c))
  BY Alives, Refused DEF Lively, renderLBDO, One, When, OrRefuse
<1>5. Lively(renderLBAzure(ctx, c))
  BY Alives, Refused DEF Lively, renderLBAzure, Azure, One, When, OrRefuse
<1>6. Lively(renderLBLinode(c))
  BY Alives, Refused DEF Lively, renderLBLinode, Linode, One, When, OrRefuse
<1>7. Lively(renderLBOCI(ctx, c))
  BY Alives, Refused DEF Lively, renderLBOCI, OCI, One, When, OrRefuse
<1>8. Lively(renderLBIBM(ctx, c))
  BY Alives, Refused DEF Lively, renderLBIBM, IBM, One, When, OrRefuse
<1>9. Lively(renderLBAlibaba(ctx, c))
  BY Alives, Refused DEF Lively, renderLBAlibaba, Ali, One, When, OrRefuse
<1>10. Lively(renderStackItLoadBalancer(ctx, c))
  BY Alives, Refused DEF Lively, renderStackItLoadBalancer, InProject, STACKIT, One, When, OrRefuse
<1> QED BY <1>1, <1>2, <1>3, <1>4, <1>5, <1>6, <1>7, <1>8, <1>9, <1>10, Refused DEF RenderLoadBalancerHCL

LEMMA DatabaseLives == ASSUME NEW ctx, NEW c PROVE Lively(RenderManagedDatabaseHCL(ctx, c))
<1>1. Lively(renderMDBAWS(ctx, c))
  BY Alives, Refused DEF Lively, renderMDBAWS, One, When, OrRefuse
<1>2. Lively(renderMDBGCP(ctx, c))
  BY Alives, Refused DEF Lively, renderMDBGCP, One, When, OrRefuse
<1>3. Lively(renderMDBDO(ctx, c))
  BY Alives, Refused DEF Lively, renderMDBDO, One, When, OrRefuse
<1>4. Lively(renderMDBAzure(ctx, c))
  BY Alives, Refused DEF Lively, renderMDBAzure, Azure, One, When, OrRefuse
<1>5. Lively(renderMDBLinode(c))
  BY Alives, Refused DEF Lively, renderMDBLinode, Linode, One, When, OrRefuse
<1>6. Lively(renderMDBUbicloud(c))
  BY Alives, Refused DEF Lively, renderMDBUbicloud, Ubicloud, One, When, OrRefuse
<1>7. Lively(renderMDBOCI(ctx, c))
  BY Alives, Refused DEF Lively, renderMDBOCI, renderMDBOCIMySQL, renderMDBOCIPostgres, InCompartment, OCI, One,
      When, OrRefuse
<1>8. Lively(renderMDBIBM(c))
  BY Alives, Refused DEF Lively, renderMDBIBM, InGroup, IBM, One, When, OrRefuse
<1>9. Lively(renderMDBAlibaba(ctx, c))
  BY Alives, Refused DEF Lively, renderMDBAlibaba, Ali, One, When, OrRefuse
<1>10. Lively(renderManagedDatabaseOVH(ctx, c))
  BY Alives, Refused DEF Lively, renderManagedDatabaseOVH, OVH, One, When, OrRefuse
<1>11. Lively(renderStackItMDB(c))
  BY Alives, Refused DEF Lively, renderStackItMDB, InProject, STACKIT, One, When, OrRefuse
<1>12. IsAdapter(ctx.provider) => Lively(RenderAdapterMDB(ManifestOf(ctx.provider), c))
  <2> SUFFICES ASSUME IsAdapter(ctx.provider) PROVE Lively(RenderAdapterMDB(ManifestOf(ctx.provider), c))
    OBVIOUS
  <2>1. Template(ManifestOf(ctx.provider).mdb, cloudProviderSource(ctx.provider))
    BY Manifests
  <2>2. ManifestOf(ctx.provider).mdb # NoTemplate => Alive(Block(ManifestOf(ctx.provider).mdb \o <<TfName(c.name)>>, {}))
    BY <2>1, TemplateLives
  <2> QED BY <2>2, Refused DEF RenderAdapterMDB, AdapterMDBSupported, OrRefuse, One, Lively
<1> QED BY <1>1, <1>2, <1>3, <1>4, <1>5, <1>6, <1>7, <1>8, <1>9, <1>10, <1>11, <1>12, Refused DEF RenderManagedDatabaseHCL

\* A machine has as many blocks as instances.
LEMMA MachineLives ==
  ASSUME NEW ctx, NEW c, "-1" \in Parts(c, "instances")
  PROVE  Lively(RenderVMHCL(ctx, c))
<1> USE Alives, Refused DEF Lively, One, When, OrRefuse
<1>1. Lively(renderVMAWS(ctx, c))
  BY DEF renderVMAWS
<1>2. Lively(renderVMGCP(ctx, c))
  BY DEF renderVMGCP
<1>3. Lively(renderVMDO(ctx, c))
  BY DEF renderVMDO
<1>4. Lively(renderVMAzure(ctx, c))
  <2> DEFINE Nic(i)  == Azure("network_interface", TfName(c.name \o i) \o "_nic")
             Card(i) == Block(Nic(i), azureRGRef(ctx) \cup AzureSubnet(ctx))
             Two(i)  == {Card(i), Block(Azure("linux_virtual_machine", TfName(c.name \o i)),
                                        {Nic(i), SSHPublicKey} \cup azureRGRef(ctx))}
  <2>1. renderVMAzure(ctx, c) = UNION {Two(i) : i \in Parts(c, "instances")}
    BY DEF renderVMAzure
  <2>2. Card("-1") \in Two("-1")
    OBVIOUS
  <2>3. Alive(Card("-1"))
    BY DEF Azure
  <2> HIDE DEF Two, Card
  <2> QED BY <2>1, <2>2, <2>3
<1>5. Lively(renderVMLinode(ctx, c))
  BY DEF renderVMLinode, Linode
<1>6. Lively(renderVMUbicloud(ctx, c))
  BY DEF renderVMUbicloud, Ubicloud
<1>7. Lively(renderVMOCI(ctx, c))
  BY DEF renderVMOCI, InCompartment, OCI
<1>8. Lively(renderVMIBM(ctx, c))
  BY DEF renderVMIBM, InGroup, IBM
<1>9. Lively(renderVMAlibaba(ctx, c))
  BY DEF renderVMAlibaba, Ali
<1>10. Lively(renderStackItVM(c))
  BY DEF renderStackItVM, InProject, STACKIT
<1>11. ASSUME IsAdapter(ctx.provider) PROVE Lively(RenderAdapterVM(ManifestOf(ctx.provider), c))
  <2>1. ManifestOf(ctx.provider).vm # NoTemplate /\ Template(ManifestOf(ctx.provider).vm, cloudProviderSource(ctx.provider))
    BY <1>11, Manifests
  <2>2. \A n, r : Alive(Block(ManifestOf(ctx.provider).vm \o <<n>>, r))
    BY <1>11, <2>1, TemplateLives
  <2> QED BY <2>2 DEF RenderAdapterVM
<1> HIDE DEF Lively
<1> QED BY <1>1, <1>2, <1>3, <1>4, <1>5, <1>6, <1>7, <1>8, <1>9, <1>10, <1>11, Refused DEF RenderVMHCL

LEMMA RegistryLives == ASSUME NEW ctx, NEW c PROVE Lively(RenderContainerRegistryHCL(ctx, c))
<1>1. ASSUME ctx.provider \in {"aws", "gcp", "digitalocean"}
      PROVE  Alive(Block(RegistryType(ctx.provider) \o <<TfName(c.name)>>, {}))
  <2>1. \E p \in {"aws", "google", "digitalocean"} : \E t : RegistryType(ctx.provider) = <<p, t>>
    BY <1>1 DEF RegistryType
  <2>2. PICK p \in {"aws", "google", "digitalocean"} : \E t : RegistryType(ctx.provider) \o <<TfName(c.name)>> = <<p, t, TfName(c.name)>>
    BY <2>1, Joined
  <2> QED BY <2>2, Alives
<1> QED BY <1>1, Refused DEF RenderContainerRegistryHCL, Lively, One

LEMMA PipelineLives == ASSUME NEW ctx, NEW c PROVE Lively(RenderPipelineControlPlaneHCL(ctx, c))
<1>1. ASSUME NEW n PROVE Lively(renderPipelineControlPlaneAWS(n, c))
  <2>1. Block(<<"aws", "iam_role", n \o "_sfn">>, {}) \in renderPipelineControlPlaneAWS(n, c)
    BY DEF renderPipelineControlPlaneAWS
  <2> QED BY <2>1, Alives DEF Lively
<1> QED BY <1>1, Refused DEF RenderPipelineControlPlaneHCL, OrRefuse

\* Google Cloud's monitoring has buckets for log groups and nothing for alarms.
LEMMA MonitoringLives ==
  ASSUME NEW ctx, NEW c, Parts(c, "log_groups") \cup Parts(c, "alarms") # {},
         ctx.provider = "gcp" => Parts(c, "log_groups") # {}
  PROVE  Lively(RenderMonitoringHCL(ctx, c))
<1>1. Lively(renderMonitoringAWS(c))
  <2>1. PICK a : a \in Parts(c, "log_groups") \/ a \in Parts(c, "alarms")
    OBVIOUS
  <2>2. \/ Block(<<"aws", "cloudwatch_log_group", TfName(a)>>, {}) \in renderMonitoringAWS(c)
        \/ Block(<<"aws", "cloudwatch_metric_alarm", TfName(a)>>, {}) \in renderMonitoringAWS(c)
    BY <2>1 DEF renderMonitoringAWS
  <2> QED BY <2>2, Alives DEF Lively
<1>2. ctx.provider = "gcp" => Lively(renderMonitoringGCP(c))
  BY Alives DEF Lively, renderMonitoringGCP
<1>3. Lively(renderMonitoringDO(c))
  <2>1. renderHelmRelease(TfName(c.name), "_loki") \in renderMonitoringDO(c)
    BY DEF renderMonitoringDO, renderOperatorComponent
  <2> QED BY <2>1, Alives DEF Lively, renderHelmRelease, Helm
<1> QED BY <1>1, <1>2, <1>3, Refused DEF RenderMonitoringHCL

\* A policy without a role has a block for each policy in it.
LEMMA PolicyLives ==
  ASSUME NEW ctx, NEW c, Parts(c, "inline") \cup Parts(c, "managed") # {}
  PROVE  Lively(RenderAccessPolicyHCL(ctx, c))
<1>1. PICK p : p \in Parts(c, "inline") \/ p \in Parts(c, "managed")
  OBVIOUS
<1>2. \/ Block(<<"aws", "iam_policy", TfName(c.name \o "-" \o p)>>, {}) \in renderAccessPolicyAWS(c)
      \/ Block(<<"terraform", "data", TfName(c.name) \o "-managed" \o p>>, {}) \in renderAccessPolicyAWS(c)
  BY <1>1 DEF renderAccessPolicyAWS
<1>3. \/ Block(<<"terraform", "data", TfName(c.name \o "-" \o p)>>, {}) \in renderAccessPolicyPortable(c)
      \/ Block(<<"terraform", "data", TfName(c.name) \o "-managed" \o p>>, {}) \in renderAccessPolicyPortable(c)
  BY <1>1 DEF renderAccessPolicyPortable
<1> QED BY <1>2, <1>3, Alives DEF Lively, RenderAccessPolicyHCL

LEMMA DNSLives == ASSUME NEW c, Parts(c, "records") # {} PROVE Lively(RenderCloudflareDNSHCL(c))
BY Alives DEF Lively, RenderCloudflareDNSHCL

\* Whatever the type, a component that is accepted adds a resource, except for
\* a machine without instances and the two that have nothing to add.
LEMMA ComponentLives ==
  ASSUME NEW ctx, NEW c,
         c.type = "virtual-machine" => "-1" \in Parts(c, "instances"),
         ~(ctx.provider = "gcp" /\ c.type = "monitoring" /\ Parts(c, "log_groups") = {}),
         ~(c.type = "access-policy" /\ Parts(c, "inline") \cup Parts(c, "managed") = {})
  PROVE  Lively(RenderComponent(ctx, c))
<1>1. c.type = "virtual-machine" => Lively(AssembleVM(ctx, c))
  BY MachineLives, LivesIfAccepted DEF AssembleVM, Configured
<1>2. c.type = "access-policy" => Lively(AssembleAccessPolicy(ctx, c))
  BY PolicyLives, IAMLives, LivesIfAccepted DEF AssembleAccessPolicy
<1>3. c.type = "monitoring" => Lively(AssembleMonitoring(ctx, c))
  BY MonitoringLives, LivesIfAccepted DEF AssembleMonitoring, Configured, TranslateMonitoring
<1>4. Lively(AssembleDNS(c))
  BY DNSLives, LivesIfAccepted DEF AssembleDNS, Configured, TranslateCloudflareDNS
<1>5. Lively(AssembleScaleGroup(ctx, c)) /\ Lively(AssembleAttach(ctx, c)) /\ Lively(AssembleIAM(ctx, c))
  BY ScaleGroupLives, AttachLives, IAMLives, LivesIfAccepted DEF AssembleScaleGroup, AssembleAttach, AssembleIAM, Configured
<1>6. /\ Lively(AssembleObjectStorage(ctx, c)) /\ Lively(AssembleStaticSite(ctx, c)) /\ Lively(AssembleRegistry(ctx, c))
      /\ Lively(AssembleReservedIP(ctx, c)) /\ Lively(AssembleVPNAccess(ctx, c)) /\ Lively(AssembleDatabase(ctx, c))
  BY ObjectStorageLives, StaticSiteLives, RegistryLives, ReservedIPLives, VPNAccessLives, DatabaseLives, LivesIfAccepted
  DEF AssembleObjectStorage, AssembleStaticSite, AssembleRegistry, AssembleReservedIP, AssembleVPNAccess,
      AssembleDatabase, Configured
<1>7. /\ Lively(AssembleQueue(ctx, c)) /\ Lively(AssembleStream(ctx, c)) /\ Lively(AssembleServerless(ctx, c))
      /\ Lively(AssembleWebService(ctx, c)) /\ Lively(AssembleCache(ctx, c)) /\ Lively(AssembleKubernetes(ctx, c))
  BY MessagingLives, ServerlessLives, WebServiceLives, CacheLives, KubernetesLives, LivesIfAccepted
  DEF AssembleQueue, AssembleStream, AssembleServerless, AssembleWebService, AssembleCache, AssembleKubernetes
<1>8. Lively(AssembleCDN(ctx, c)) /\ Lively(AssembleWAF(ctx, c)) /\ Lively(AssembleLoadBalancer(ctx, c))
  BY CDNLives, WAFLives, LoadBalancerLives, LivesIfAccepted DEF AssembleCDN, AssembleWAF, AssembleLoadBalancer, Configured
<1>9. /\ Lively(AssembleEmail(ctx, c)) /\ Lively(AssembleVolume(ctx, c)) /\ Lively(AssemblePrefixList(ctx, c))
       /\ Lively(AssembleSynthetics(ctx, c)) /\ Lively(AssembleTrigger(ctx, c)) /\ Lively(AssembleKeyValue(ctx, c))
  BY EmailLives, VolumeLives, PrefixListLives, SyntheticsLive, TriggerLives, KeyValueLives, LivesIfAccepted
  DEF AssembleEmail, AssembleVolume, AssemblePrefixList, AssembleSynthetics, AssembleTrigger, AssembleKeyValue, Configured
<1>10. /\ Lively(AssembleCertificate(ctx, c)) /\ Lively(AssembleTracing(ctx, c)) /\ Lively(AssembleIdentity(ctx, c))
       /\ Lively(AssembleVaultHA(ctx, c)) /\ Lively(AssemblePipeline(ctx, c))
  BY CertificateLives, TracingLives, IdentityLives, VaultLives, PipelineLives, LivesIfAccepted
  DEF AssembleCertificate, AssembleTracing, AssembleIdentity, AssembleVaultHA, AssemblePipeline
<1>11. Lively(AssembleSecrets(ctx, c)) /\ Lively(AssembleKMS(ctx, c))
  <2>1. Lively(assembleVaultHAAlias(ctx, c))
    BY VaultLives, LivesIfAccepted DEF assembleVaultHAAlias
  <2> QED BY <2>1, SecretsLive, KMSLives, LivesIfAccepted DEF AssembleSecrets, AssembleKMS
<1> QED BY <1>1, <1>2, <1>3, <1>4, <1>5, <1>6, <1>7, <1>8, <1>9, <1>10, <1>11, Refused DEF RenderComponent

---------------------------------------------------------------------------
(* Where the references of a document lead: to an input variable, to a     *)
(* block of the same document, or to what X names.                         *)

Input(a)       == \E v : a = <<"var", v>>
Owns(S, a)     == \E r : Block(a, r) \in S
Resolves(S, X) == \A b \in S : \A a \in b.refs : Input(a) \/ Owns(S, a) \/ a \in X

\* What a block refers to, selects and is tagged with are told apart.
LEMMA Refs ==
  /\ \A v : Input(<<"var", v>>)
  /\ \A a, r : Block(a, r).refs = r
  /\ \A a, r, s : Selecting(Block(a, r), s).refs = r
  /\ \A a, r, s : Tagged(Block(a, r), s).refs = r
BY DEF Input, Block, Selecting, Tagged

\* A document whose blocks lead to its own blocks D, to inputs or to X.
LEMMA Closing ==
  ASSUME NEW S, NEW D, NEW X, \A a \in D : Owns(S, a),
         \A b \in S : \A a \in b.refs : Input(a) \/ a \in D \/ a \in X
  PROVE  Resolves(S, X)
BY DEF Resolves

\* More may be named; refusing names nothing.
LEMMA Wider == ASSUME NEW S, NEW X, NEW Y, Resolves(S, X), X \subseteq Y PROVE Resolves(S, Y)
BY DEF Resolves

LEMMA RefusedResolves == \A X : Resolves(Refusal, X) /\ Resolves({}, X)
BY Refs DEF Resolves, Refusal

LEMMA AcceptedResolves == ASSUME NEW S, NEW X, Resolves(S, X) PROVE \A ok : Resolves(OrRefuse(ok, S), X)
BY RefusedResolves DEF OrRefuse

\* The address of a data source is its kind, provider and type with a name.
LEMMA Quadrupled == ASSUME NEW a, NEW b, NEW d, NEW n PROVE <<a, b, d>> \o <<n>> = <<a, b, d, n>>
<1> DEFINE S == {a, b, d, n}
           s == <<a, b, d>>
           t == <<n>>
           u == <<a, b, d, n>>
           w == s \o t
<1>1. s \in Seq(S) /\ t \in Seq(S) /\ u \in Seq(S) /\ Len(s) = 3 /\ Len(t) = 1 /\ Len(u) = 4
  OBVIOUS
<1>2. s[1] = a /\ s[2] = b /\ s[3] = d /\ t[1] = n /\ u[1] = a /\ u[2] = b /\ u[3] = d /\ u[4] = n
  OBVIOUS
<1> HIDE DEF S, s, t, u
<1>3. /\ w \in Seq(S) /\ Len(w) = Len(s) + Len(t)
      /\ \A i \in 1..Len(s) + Len(t) : w[i] = IF i <= Len(s) THEN s[i] ELSE t[i - Len(s)]
  BY <1>1, ConcatProperties
<1> HIDE DEF w
<1>4. Len(w) = Len(u) /\ \A i \in 1..Len(w) : w[i] = u[i]
  BY <1>1, <1>2, <1>3
<1>5. w = u
  BY <1>1, <1>3, <1>4, SeqEqual
<1> QED BY <1>5 DEF w, s, t, u


\* What the document of a network of this name holds, and the group that
\* machines refer to: all that a component finds in its environment.
OwnNetwork(ctx) == [name |-> ctx.network, subnets |-> Subnets, opts |-> {}]
Ground(ctx)     == Declared(RenderHCL(ctx, OwnNetwork(ctx)))
GroupOf(ctx) ==
  CASE ctx.provider = "aws" -> AWSGroup(ctx)
    [] ctx.provider = "oracle" -> OCIGroup(ctx)
    [] ctx.provider = "ibm" -> IBMGroup(ctx)
    [] ctx.provider = "alibaba" -> AliGroup(ctx)
    [] OTHER -> {}
Supplied(ctx) == Ground(ctx) \cup GroupOf(ctx)

\* The clouds without renderers of their own.
LEMMA Adapters ==
  \A p : IsAdapter(p) <=> p \in {"tencent", "hetzner", "vultr", "scaleway", "rackspace", "huawei", "akamai", "fastly", "vsphere"}
BY DEF IsAdapter, AllManifests, AdapterManifests, tailAdapterManifests

\* The network of a context, and its document, for its components.
LEMMA OwnNetworkIs == \A ctx : OwnNetwork(ctx).name = ctx.network /\ OwnNetwork(ctx).subnets = {"_1", "_2"}
BY DEF OwnNetwork, Subnets

LEMMA Grounded ==
  ASSUME NEW ctx, NEW S, RenderHCL(ctx, OwnNetwork(ctx)) = S, NEW a, Owns(S, a)
  PROVE  a \in Supplied(ctx)
BY DEF Owns, Block, Declared, Ground, Supplied

\* What the components of each cloud refer to is in that cloud's network.
LEMMA AWSSupplies ==
  ASSUME NEW ctx, ctx.provider = "aws"
  PROVE  /\ VPC \in Supplied(ctx)
         /\ AWSSubnetData(ctx) \subseteq Supplied(ctx)
         /\ FirstSubnet(ctx, <<"data", "aws", "subnet">>) \subseteq Supplied(ctx)
         /\ AWSGroup(ctx) \subseteq Supplied(ctx)
<1>1. RenderHCL(ctx, OwnNetwork(ctx)) = renderAWS(OwnNetwork(ctx))
  BY Adapters DEF RenderHCL
<1>2. /\ Owns(renderAWS(OwnNetwork(ctx)), <<"data", "aws", "vpc", "default">>)
      /\ Owns(renderAWS(OwnNetwork(ctx)), <<"data", "aws", "subnet", SubnetLabel(ctx.network, "_1")>>)
      /\ Owns(renderAWS(OwnNetwork(ctx)), <<"data", "aws", "subnet", SubnetLabel(ctx.network, "_2")>>)
  BY OwnNetworkIs DEF Owns, renderAWS, One, VPC
<1>3. /\ <<"data", "aws", "vpc", "default">> \in Supplied(ctx)
      /\ <<"data", "aws", "subnet", SubnetLabel(ctx.network, "_1")>> \in Supplied(ctx)
      /\ <<"data", "aws", "subnet", SubnetLabel(ctx.network, "_2")>> \in Supplied(ctx)
  BY <1>1, <1>2, Grounded
<1> QED BY <1>3, Joined, Quadrupled DEF Supplied, GroupOf, When, VPC, AWSSubnetData, FirstSubnet, Subnets

LEMMA GCPSupplies ==
  ASSUME NEW ctx, ctx.provider = "gcp"
  PROVE  /\ GCPNetRef(ctx) \subseteq Supplied(ctx)
         /\ FirstSubnet(ctx, <<"google", "compute_subnetwork">>) \subseteq Supplied(ctx)
<1>1. RenderHCL(ctx, OwnNetwork(ctx)) = renderGCP(OwnNetwork(ctx))
  BY Adapters DEF RenderHCL
<1>2. /\ Owns(renderGCP(OwnNetwork(ctx)), <<"google", "compute_network", TfName(ctx.network)>>)
      /\ Owns(renderGCP(OwnNetwork(ctx)), <<"google", "compute_subnetwork", SubnetLabel(ctx.network, "_1")>>)
  BY OwnNetworkIs DEF Owns, renderGCP, One
<1>3. /\ <<"google", "compute_network", TfName(ctx.network)>> \in Supplied(ctx)
      /\ <<"google", "compute_subnetwork", SubnetLabel(ctx.network, "_1")>> \in Supplied(ctx)
  BY <1>1, <1>2, Grounded
<1> QED BY <1>3, Joined, Quadrupled DEF Supplied, GroupOf, When, GCPNetRef, NetRef, FirstSubnet

LEMMA DOSupplies ==
  ASSUME NEW ctx, ctx.provider = "digitalocean"
  PROVE  DOVPCRef(ctx) \subseteq Supplied(ctx)
<1>1. RenderHCL(ctx, OwnNetwork(ctx)) = renderDO(OwnNetwork(ctx))
  BY Adapters DEF RenderHCL
<1>2. Owns(renderDO(OwnNetwork(ctx)), <<"digitalocean", "vpc", TfName(ctx.network)>>)
  BY OwnNetworkIs DEF Owns, renderDO, One
<1>3. <<"digitalocean", "vpc", TfName(ctx.network)>> \in Supplied(ctx)
  BY <1>1, <1>2, Grounded
<1> QED BY <1>3, Joined, Quadrupled DEF Supplied, GroupOf, When, DOVPCRef, NetRef

LEMMA AzureSupplies ==
  ASSUME NEW ctx, ctx.provider = "azure"
  PROVE  /\ azureRGRef(ctx) \subseteq Supplied(ctx)
         /\ AzureSubnet(ctx) \subseteq Supplied(ctx)
<1>1. RenderHCL(ctx, OwnNetwork(ctx)) = renderNetworkAzure(OwnNetwork(ctx))
  BY Adapters DEF RenderHCL
<1>2. /\ Owns(renderNetworkAzure(OwnNetwork(ctx)), Azure("resource_group", TfName(ctx.network) \o "_rg"))
      /\ Owns(renderNetworkAzure(OwnNetwork(ctx)), Azure("subnet", SubnetLabel(ctx.network, "_1")))
  BY OwnNetworkIs DEF Owns, renderNetworkAzure, One
<1>3. /\ Azure("resource_group", TfName(ctx.network) \o "_rg") \in Supplied(ctx)
      /\ Azure("subnet", SubnetLabel(ctx.network, "_1")) \in Supplied(ctx)
  BY <1>1, <1>2, Grounded
<1> QED BY <1>3, Joined, Quadrupled DEF Supplied, GroupOf, When, azureRGRef, AzureSubnet

LEMMA LinodeSupplies ==
  ASSUME NEW ctx, ctx.provider = "linode"
  PROVE  Linode("vpc_subnet", SubnetLabel(ctx.network, "_1")) \in Supplied(ctx)
<1>1. RenderHCL(ctx, OwnNetwork(ctx)) = renderLinodeNetwork(OwnNetwork(ctx))
  BY Adapters DEF RenderHCL
<1>2. Owns(renderLinodeNetwork(OwnNetwork(ctx)), Linode("vpc_subnet", SubnetLabel(ctx.network, "_1")))
  BY OwnNetworkIs DEF Owns, renderLinodeNetwork, One
<1>3. Linode("vpc_subnet", SubnetLabel(ctx.network, "_1")) \in Supplied(ctx)
  BY <1>1, <1>2, Grounded
<1> QED BY <1>3

LEMMA UbicloudSupplies ==
  ASSUME NEW ctx, ctx.provider = "ubicloud"
  PROVE  NetRef(ctx, <<"ubicloud", "private_subnet">>) \subseteq Supplied(ctx)
<1>1. RenderHCL(ctx, OwnNetwork(ctx)) = renderNetworkUbicloud(OwnNetwork(ctx))
  BY Adapters DEF RenderHCL
<1>2. Owns(renderNetworkUbicloud(OwnNetwork(ctx)), <<"ubicloud", "private_subnet", TfName(ctx.network)>>)
  BY OwnNetworkIs DEF Owns, renderNetworkUbicloud, One, Ubicloud
<1>3. <<"ubicloud", "private_subnet", TfName(ctx.network)>> \in Supplied(ctx)
  BY <1>1, <1>2, Grounded
<1> QED BY <1>3, Joined, Quadrupled DEF Supplied, GroupOf, When, NetRef

LEMMA OCISupplies ==
  ASSUME NEW ctx, ctx.provider = "oracle"
  PROVE  /\ VCN(ctx) \cup OCISubnets(ctx) \cup OCIFirstSubnet(ctx) \subseteq Supplied(ctx)
         /\ OCIGroup(ctx) \subseteq Supplied(ctx)
<1>1. RenderHCL(ctx, OwnNetwork(ctx)) = renderOCI(OwnNetwork(ctx))
  BY Adapters DEF RenderHCL
<1>2. /\ Owns(renderOCI(OwnNetwork(ctx)), OCI("core_vcn", TfName(ctx.network)))
      /\ Owns(renderOCI(OwnNetwork(ctx)), OCI("core_subnet", SubnetLabel(ctx.network, "_1")))
      /\ Owns(renderOCI(OwnNetwork(ctx)), OCI("core_subnet", SubnetLabel(ctx.network, "_2")))
  BY OwnNetworkIs DEF Owns, renderOCI, One, InCompartment
<1>3. /\ OCI("core_vcn", TfName(ctx.network)) \in Supplied(ctx)
      /\ OCI("core_subnet", SubnetLabel(ctx.network, "_1")) \in Supplied(ctx)
      /\ OCI("core_subnet", SubnetLabel(ctx.network, "_2")) \in Supplied(ctx)
  BY <1>1, <1>2, Grounded
<1> QED BY <1>3, Joined, Quadrupled DEF Supplied, GroupOf, When, VCN, OCISubnets, OCIFirstSubnet, Subnets

LEMMA IBMSupplies ==
  ASSUME NEW ctx, ctx.provider = "ibm"
  PROVE  /\ IBMVPC(ctx) \cup IBMSubnets(ctx) \cup IBMFirstSubnet(ctx) \subseteq Supplied(ctx)
         /\ IBMGroup(ctx) \subseteq Supplied(ctx)
<1>1. RenderHCL(ctx, OwnNetwork(ctx)) = renderNetworkIBM(OwnNetwork(ctx))
  BY Adapters DEF RenderHCL
<1>2. /\ Owns(renderNetworkIBM(OwnNetwork(ctx)), IBM("is_vpc", TfName(ctx.network)))
      /\ Owns(renderNetworkIBM(OwnNetwork(ctx)), IBM("is_subnet", SubnetLabel(ctx.network, "_1")))
      /\ Owns(renderNetworkIBM(OwnNetwork(ctx)), IBM("is_subnet", SubnetLabel(ctx.network, "_2")))
  BY OwnNetworkIs DEF Owns, renderNetworkIBM, One, InGroup
<1>3. /\ IBM("is_vpc", TfName(ctx.network)) \in Supplied(ctx)
      /\ IBM("is_subnet", SubnetLabel(ctx.network, "_1")) \in Supplied(ctx)
      /\ IBM("is_subnet", SubnetLabel(ctx.network, "_2")) \in Supplied(ctx)
  BY <1>1, <1>2, Grounded
<1> QED BY <1>3, Joined, Quadrupled DEF Supplied, GroupOf, When, IBMVPC, IBMSubnets, IBMFirstSubnet, Subnets

LEMMA AlibabaSupplies ==
  ASSUME NEW ctx, ctx.provider = "alibaba"
  PROVE  /\ AliVPC(ctx) \cup Switches(ctx) \cup FirstSwitch(ctx) \subseteq Supplied(ctx)
         /\ AliGroup(ctx) \subseteq Supplied(ctx)
<1>1. RenderHCL(ctx, OwnNetwork(ctx)) = renderAlibaba(OwnNetwork(ctx))
  BY Adapters DEF RenderHCL
<1>2. /\ Owns(renderAlibaba(OwnNetwork(ctx)), Ali("vpc", TfName(ctx.network)))
      /\ Owns(renderAlibaba(OwnNetwork(ctx)), Ali("vswitch", SubnetLabel(ctx.network, "_1")))
      /\ Owns(renderAlibaba(OwnNetwork(ctx)), Ali("vswitch", SubnetLabel(ctx.network, "_2")))
  BY OwnNetworkIs DEF Owns, renderAlibaba, One
<1>3. /\ Ali("vpc", TfName(ctx.network)) \in Supplied(ctx)
      /\ Ali("vswitch", SubnetLabel(ctx.network, "_1")) \in Supplied(ctx)
      /\ Ali("vswitch", SubnetLabel(ctx.network, "_2")) \in Supplied(ctx)
  BY <1>1, <1>2, Grounded
<1> QED BY <1>3, Joined, Quadrupled DEF Supplied, GroupOf, When, AliVPC, Switches, FirstSwitch, Subnets

LEMMA OVHSupplies ==
  ASSUME NEW ctx, ctx.provider = "ovh"
  PROVE  OVHNet(ctx.network) \in Supplied(ctx)
<1>1. RenderHCL(ctx, OwnNetwork(ctx)) = renderNetworkOVH(OwnNetwork(ctx))
  BY Adapters DEF RenderHCL
<1>2. Owns(renderNetworkOVH(OwnNetwork(ctx)), OVHNet(ctx.network))
  BY OwnNetworkIs DEF Owns, renderNetworkOVH, One, OVH, OVHNet
<1>3. OVHNet(ctx.network) \in Supplied(ctx)
  BY <1>1, <1>2, Grounded
<1> QED BY <1>3

LEMMA STACKITSupplies ==
  ASSUME NEW ctx, ctx.provider = "stackit"
  PROVE  STACKIT("network", TfName(ctx.network)) \in Supplied(ctx)
<1>1. RenderHCL(ctx, OwnNetwork(ctx)) = renderStackItNetwork(OwnNetwork(ctx))
  BY Adapters DEF RenderHCL
<1>2. Owns(renderStackItNetwork(OwnNetwork(ctx)), STACKIT("network", TfName(ctx.network)))
  BY OwnNetworkIs DEF Owns, renderStackItNetwork, One, InProject
<1>3. STACKIT("network", TfName(ctx.network)) \in Supplied(ctx)
  BY <1>1, <1>2, Grounded
<1> QED BY <1>3


\* What the other components of an environment are addressed by: the machine,
\* the scale group, the bucket and the balancer of a name.
MachineOf(p, n) ==
  CASE p = "aws" -> {<<"aws", "instance", n>>}
    [] p = "gcp" -> {<<"google", "compute_instance", n>>}
    [] p = "digitalocean" -> {<<"digitalocean", "droplet", n>>}
    [] p = "linode" -> {Linode("instance", n)}
    [] p = "ibm" -> {IBM("is_instance", n)}
    [] OTHER -> {}

ScaleGroupOf(p, t) ==
  CASE p = "aws" -> {ASG(t)}
    [] p = "gcp" -> {<<"google", "compute_region_instance_group_manager", TfName(t) \o "_mig">>}
    [] OTHER -> {}

BucketOf(p, n) ==
  CASE p = "aws" -> {<<"aws", "s3_bucket", n>>}
    [] p = "gcp" -> {<<"google", "storage_bucket", n>>}
    [] p = "digitalocean" -> {<<"digitalocean", "spaces_bucket", n>>}
    [] p = "alibaba" -> {Ali("oss_bucket", n)}
    [] OTHER -> {}

BalancerOf(p, n) ==
  CASE p = "aws" -> {<<"aws", "lb", n \o "_lb">>}
    [] p = "oracle" -> {OCI("load_balancer_load_balancer", n \o "_lb")}
    [] OTHER -> {}

\* What a balancer fronts, and what a CDN or a firewall stands before.
Fronted(ctx, c) ==
  (UNION {ScaleGroupOf(ctx.provider, t) : t \in Parts(c, "routes")})
  \cup When(c.target # NoTarget,
            IF ToVM(c) THEN MachineOf(ctx.provider, TfName(c.target \o "-1"))
                            \cup MachineOf(ctx.provider, TfName(c.target) \o "-1")
            ELSE ScaleGroupOf(ctx.provider, c.target))

Origin(ctx, c) ==
  When(c.target # NoTarget,
       IF Has(c, "bucket_origin") THEN BucketOf(ctx.provider, TfName(c.target))
       ELSE BalancerOf(ctx.provider, TfName(c.target)))

\* A machine leads to its network and group, and on AWS to its profile.
LEMMA MachineResolves ==
  ASSUME NEW ctx, NEW c
  PROVE  Resolves(RenderVMHCL(ctx, c), Supplied(ctx) \cup When(ctx.provider = "aws", ProfileRef(ctx, c)))
<1> DEFINE X == Supplied(ctx) \cup When(ctx.provider = "aws", ProfileRef(ctx, c))
<1>1. CASE ctx.provider = "aws"
  <2>1. Resolves(renderVMAWS(ctx, c), FirstSubnet(ctx, <<"data", "aws", "subnet">>) \cup AWSGroup(ctx) \cup ProfileRef(ctx, c))
    BY Refs DEF Resolves, Owns, Block, renderVMAWS, One, When, Refusal, OrRefuse
  <2>2. FirstSubnet(ctx, <<"data", "aws", "subnet">>) \cup AWSGroup(ctx) \cup ProfileRef(ctx, c) \subseteq X
    BY <1>1, AWSSupplies DEF When
  <2> QED BY <1>1, <2>1, <2>2, Wider, Adapters DEF RenderVMHCL
<1>2. CASE ctx.provider = "gcp"
  <2>1. Resolves(renderVMGCP(ctx, c), GCPNetRef(ctx) \cup FirstSubnet(ctx, <<"google", "compute_subnetwork">>))
    BY Refs DEF Resolves, Owns, Block, renderVMGCP, One, When, Refusal, OrRefuse
  <2>2. GCPNetRef(ctx) \cup FirstSubnet(ctx, <<"google", "compute_subnetwork">>) \subseteq X
    BY <1>2, GCPSupplies DEF When
  <2> QED BY <1>2, <2>1, <2>2, Wider, Adapters DEF RenderVMHCL
<1>3. CASE ctx.provider = "digitalocean"
  <2>1. Resolves(renderVMDO(ctx, c), DOVPCRef(ctx))
    BY Refs DEF Resolves, Owns, renderVMDO, One, When, Refusal, OrRefuse
  <2>2. DOVPCRef(ctx) \subseteq X
    BY <1>3, DOSupplies DEF When
  <2> QED BY <1>3, <2>1, <2>2, Wider, Adapters DEF RenderVMHCL
<1>4. CASE ctx.provider = "azure"
  <2>1. Resolves(renderVMAzure(ctx, c), azureRGRef(ctx) \cup AzureSubnet(ctx))
    <3> DEFINE S == renderVMAzure(ctx, c)
               D == {Azure("network_interface", TfName(c.name \o i) \o "_nic") : i \in Parts(c, "instances")}
    <3>1. ASSUME NEW a \in D PROVE Owns(S, a)
      BY DEF Owns, renderVMAzure, SSHPublicKey, One, When, Refusal, OrRefuse
    <3>2. ASSUME NEW b \in S, NEW a \in b.refs PROVE Input(a) \/ a \in D \/ a \in (azureRGRef(ctx) \cup AzureSubnet(ctx))
      BY Refs DEF Block, renderVMAzure, SSHPublicKey, One, When, Refusal, OrRefuse
    <3> HIDE DEF S, D
    <3> QED BY <3>1, <3>2, Closing DEF S
  <2>2. azureRGRef(ctx) \cup AzureSubnet(ctx) \subseteq X
    BY <1>4, AzureSupplies DEF When
  <2> QED BY <1>4, <2>1, <2>2, Wider, Adapters DEF RenderVMHCL
<1>5. CASE ctx.provider = "linode"
  <2>1. Resolves(renderVMLinode(ctx, c), {Linode("vpc_subnet", SubnetLabel(ctx.network, "_1"))})
    BY Refs DEF Resolves, Owns, renderVMLinode, One, When, Refusal, OrRefuse
  <2>2. {Linode("vpc_subnet", SubnetLabel(ctx.network, "_1"))} \subseteq X
    BY <1>5, LinodeSupplies DEF When
  <2> QED BY <1>5, <2>1, <2>2, Wider, Adapters DEF RenderVMHCL
<1>6. CASE ctx.provider = "ubicloud"
  <2>1. Resolves(renderVMUbicloud(ctx, c), NetRef(ctx, <<"ubicloud", "private_subnet">>))
    BY Refs DEF Resolves, Owns, renderVMUbicloud, Project, One, When, Refusal, OrRefuse
  <2>2. NetRef(ctx, <<"ubicloud", "private_subnet">>) \subseteq X
    BY <1>6, UbicloudSupplies DEF When
  <2> QED BY <1>6, <2>1, <2>2, Wider, Adapters DEF RenderVMHCL
<1>7. CASE ctx.provider = "oracle"
  <2>1. Resolves(renderVMOCI(ctx, c), OCIFirstSubnet(ctx) \cup OCIGroup(ctx))
    BY Refs DEF Resolves, Owns, renderVMOCI, ociADDataSource, InCompartment, ociADRef, Compartment, One, When,
        Refusal, OrRefuse
  <2>2. OCIFirstSubnet(ctx) \cup OCIGroup(ctx) \subseteq X
    BY <1>7, OCISupplies DEF When
  <2> QED BY <1>7, <2>1, <2>2, Wider, Adapters DEF RenderVMHCL
<1>8. CASE ctx.provider = "ibm"
  <2>1. Resolves(renderVMIBM(ctx, c), IBMVPC(ctx) \cup IBMFirstSubnet(ctx) \cup IBMGroup(ctx))
    BY Refs DEF Resolves, Owns, renderVMIBM, InGroup, IBMKey, IBMGroupID, One, When, Refusal, OrRefuse
  <2>2. IBMVPC(ctx) \cup IBMFirstSubnet(ctx) \cup IBMGroup(ctx) \subseteq X
    BY <1>8, IBMSupplies DEF When
  <2> QED BY <1>8, <2>1, <2>2, Wider, Adapters DEF RenderVMHCL
<1>9. CASE ctx.provider = "alibaba"
  <2>1. Resolves(renderVMAlibaba(ctx, c), FirstSwitch(ctx) \cup AliGroup(ctx))
    BY Refs DEF Resolves, Owns, renderVMAlibaba, One, When, Refusal, OrRefuse
  <2>2. FirstSwitch(ctx) \cup AliGroup(ctx) \subseteq X
    BY <1>9, AlibabaSupplies DEF When
  <2> QED BY <1>9, <2>1, <2>2, Wider, Adapters DEF RenderVMHCL
<1>10. CASE ctx.provider = "stackit"
  <2>1. Resolves(renderStackItVM(c), {})
    BY Refs DEF Resolves, Owns, renderStackItVM, InProject, One, When, Refusal, OrRefuse
  <2> QED BY <1>10, <2>1, Wider, Adapters DEF RenderVMHCL
<1>11. CASE IsAdapter(ctx.provider)
  <2>1. Resolves(RenderAdapterVM(ManifestOf(ctx.provider), c), {})
    BY Refs DEF Resolves, Owns, RenderAdapterVM, One, When, Refusal, OrRefuse
  <2> QED BY <1>11, <2>1, Wider, Adapters DEF RenderVMHCL
<1>12. CASE ~(ctx.provider = "aws" \/ ctx.provider = "gcp" \/ ctx.provider = "digitalocean" \/ ctx.provider =
            "azure" \/ ctx.provider = "linode" \/ ctx.provider = "ubicloud" \/ ctx.provider = "oracle" \/
            ctx.provider = "ibm" \/ ctx.provider = "alibaba" \/ ctx.provider = "stackit" \/
            IsAdapter(ctx.provider))
  BY <1>12, RefusedResolves DEF RenderVMHCL
<1> QED BY <1>1, <1>2, <1>3, <1>4, <1>5, <1>6, <1>7, <1>8, <1>9, <1>10, <1>11, <1>12

\* So does a scale group, and on DigitalOcean to the project.
LEMMA ScaleGroupResolves ==
  ASSUME NEW ctx, NEW c
  PROVE  Resolves(RenderScaleGroupHCL(ctx, c), Supplied(ctx) \cup When(ctx.provider = "aws", ProfileRef(ctx, c)) \cup When(ctx.provider = "digitalocean", {ProjectData(p) : p \in ctx.project}))
<1> DEFINE X == Supplied(ctx) \cup When(ctx.provider = "aws", ProfileRef(ctx, c)) \cup When(ctx.provider = "digitalocean", {ProjectData(p) : p \in ctx.project})
<1>1. CASE ctx.provider = "aws"
  <2>1. Resolves(renderASGAWS(ctx, c), AWSGroup(ctx) \cup ProfileRef(ctx, c) \cup AWSSubnetData(ctx))
    <3> DEFINE S == renderASGAWS(ctx, c)
               D == {<<"aws", "launch_template", TfName(c.name) \o "_lt">>}
    <3>1. ASSUME NEW a \in D PROVE Owns(S, a)
      BY DEF Owns, renderASGAWS, One, When, Refusal, OrRefuse
    <3>2. ASSUME NEW b \in S, NEW a \in b.refs PROVE Input(a) \/ a \in D \/ a \in (AWSGroup(ctx) \cup ProfileRef(ctx, c) \cup AWSSubnetData(ctx))
      BY Refs DEF Block, renderASGAWS, One, When, Refusal, OrRefuse
    <3> HIDE DEF S, D
    <3> QED BY <3>1, <3>2, Closing DEF S
  <2>2. AWSGroup(ctx) \cup ProfileRef(ctx, c) \cup AWSSubnetData(ctx) \subseteq X
    BY <1>1, AWSSupplies DEF When
  <2> QED BY <1>1, <2>1, <2>2, Wider DEF RenderScaleGroupHCL
<1>2. CASE ctx.provider = "gcp"
  <2>1. Resolves(renderASGGCP(ctx, c), GCPNetRef(ctx) \cup FirstSubnet(ctx, <<"google", "compute_subnetwork">>))
    <3> DEFINE S == renderASGGCP(ctx, c)
               D == {<<"google", "compute_instance_template", TfName(c.name) \o "_tmpl">>, <<"google", "compute_health_check", TfName(c.name) \o "_hc">>, <<"google", "compute_region_instance_group_manager", TfName(c.name) \o "_mig">>}
    <3>1. ASSUME NEW a \in D PROVE Owns(S, a)
      BY DEF Owns, renderASGGCP, One, When, Refusal, OrRefuse
    <3>2. ASSUME NEW b \in S, NEW a \in b.refs PROVE Input(a) \/ a \in D \/ a \in (GCPNetRef(ctx) \cup FirstSubnet(ctx, <<"google", "compute_subnetwork">>))
      BY Refs DEF Block, renderASGGCP, One, When, Refusal, OrRefuse
    <3> HIDE DEF S, D
    <3> QED BY <3>1, <3>2, Closing DEF S
  <2>2. GCPNetRef(ctx) \cup FirstSubnet(ctx, <<"google", "compute_subnetwork">>) \subseteq X
    BY <1>2, GCPSupplies DEF When
  <2> QED BY <1>2, <2>1, <2>2, Wider DEF RenderScaleGroupHCL
<1>3. CASE ctx.provider = "azure"
  <2>1. Resolves(renderScaleGroupAzure(ctx, c), azureRGRef(ctx) \cup AzureSubnet(ctx))
    BY Refs DEF Resolves, Owns, renderScaleGroupAzure, SSHPublicKey, One, When, Refusal, OrRefuse
  <2>2. azureRGRef(ctx) \cup AzureSubnet(ctx) \subseteq X
    BY <1>3, AzureSupplies DEF When
  <2> QED BY <1>3, <2>1, <2>2, Wider DEF RenderScaleGroupHCL
<1>4. CASE ctx.provider = "oracle"
  <2>1. Resolves(renderASGOCI(ctx, c), OCIFirstSubnet(ctx) \cup OCIGroup(ctx) \cup OCISubnets(ctx))
    BY Refs DEF Resolves, Owns, renderASGOCI, ociADDataSource, Compartment, ociADRef, InCompartment, One, When,
        Refusal, OrRefuse
  <2>2. OCIFirstSubnet(ctx) \cup OCIGroup(ctx) \cup OCISubnets(ctx) \subseteq X
    BY <1>4, OCISupplies DEF When
  <2> QED BY <1>4, <2>1, <2>2, Wider DEF RenderScaleGroupHCL
<1>5. CASE ctx.provider = "ibm"
  <2>1. Resolves(renderASGIBM(ctx, c), IBMVPC(ctx) \cup IBMFirstSubnet(ctx) \cup IBMGroup(ctx) \cup IBMSubnets(ctx))
    BY Refs DEF Resolves, Owns, renderASGIBM, IBMGroupID, IBMKey, One, When, Refusal, OrRefuse
  <2>2. IBMVPC(ctx) \cup IBMFirstSubnet(ctx) \cup IBMGroup(ctx) \cup IBMSubnets(ctx) \subseteq X
    BY <1>5, IBMSupplies DEF When
  <2> QED BY <1>5, <2>1, <2>2, Wider DEF RenderScaleGroupHCL
<1>6. CASE ctx.provider = "alibaba"
  <2>1. Resolves(renderASGAlibaba(ctx, c), Switches(ctx) \cup AliGroup(ctx))
    BY Refs DEF Resolves, Owns, renderASGAlibaba, One, When, Refusal, OrRefuse
  <2>2. Switches(ctx) \cup AliGroup(ctx) \subseteq X
    BY <1>6, AlibabaSupplies DEF When
  <2> QED BY <1>6, <2>1, <2>2, Wider DEF RenderScaleGroupHCL
<1>7. CASE ctx.provider = "digitalocean"
  <2>1. Resolves(renderScaleGroupDO(ctx, c), DOVPCRef(ctx) \cup {ProjectData(p) : p \in ctx.project})
    BY Refs DEF Resolves, Owns, renderScaleGroupDO, One, When, Refusal, OrRefuse, vmHeredoc
  <2>2. DOVPCRef(ctx) \cup {ProjectData(p) : p \in ctx.project} \subseteq X
    BY <1>7, DOSupplies DEF When
  <2> QED BY <1>7, <2>1, <2>2, Wider DEF RenderScaleGroupHCL
<1>8. CASE ~(ctx.provider = "aws" \/ ctx.provider = "gcp" \/ ctx.provider = "azure" \/ ctx.provider = "oracle"
            \/ ctx.provider = "ibm" \/ ctx.provider = "alibaba" \/ ctx.provider = "digitalocean")
  BY <1>8, RefusedResolves DEF RenderScaleGroupHCL
<1> QED BY <1>1, <1>2, <1>3, <1>4, <1>5, <1>6, <1>7, <1>8

\* The parts of a balancer on AWS refer to the network, the group, one another
\* and what the balancer fronts.
AWSFronts(c) ==
  {ASG(t) : t \in Parts(c, "routes")}
  \cup When(c.target # NoTarget, IF ToVM(c) THEN {<<"aws", "instance", TfName(c.target \o "-1")>>} ELSE {ASG(c.target)})

\* A balancer on AWS, its target groups and listeners.
LEMMA AWSBalancerResolves ==
  ASSUME NEW ctx, NEW c
  PROVE  Resolves(renderLBAWS(ctx, c), {VPC} \cup AWSGroup(ctx) \cup AWSSubnetData(ctx) \cup AWSFronts(c))
<1> DEFINE S       == renderLBAWS(ctx, c)
           lb      == <<"aws", "lb", TfName(c.name) \o "_lb">>
           gateway == <<"aws", "internet_gateway", TfName(c.name) \o "_igw">>
           table   == <<"aws", "route_table", TfName(c.name) \o "_rt">>
           Assoc(i) == <<"aws", "route_table_association", TfName(c.name) \o "_rta" \o i>>
           Subnet(i) == <<"data", "aws", "subnet", SubnetLabel(ctx.network, i)>>
           Rule(l, r, g) == Block(<<"aws", "lb_listener_rule", TfName(c.name) \o "_listener" \o l \o "_rule_" \o r>>,
                                  {Listener(c, l), TargetGroup(g)})
           Gate    == {Block(gateway, {VPC}), Block(table, {VPC, gateway})}
                      \cup {Block(Assoc(i), {table, Subnet(i)}) : i \in Subnets}
           Door    == One(lb, AWSGroup(ctx) \cup When(HasNetwork(ctx), {gateway} \cup AWSSubnetData(ctx)))
           Own     == One(TargetGroup(c.name), When(HasNetwork(ctx), {VPC}))
           Routed  == UNION {RuleTarget(ctx, t) : t \in Parts(c, "routes")}
           Ears    == {Block(Listener(c, l), {lb, TargetGroup(c.name)}) : l \in Parts(c, "listeners")}
           Rules   == UNION {renderLBAWSListenerRules(c, l) : l \in Parts(c, "listeners")}
           Tie     == When(c.target # NoTarget,
                           IF ToVM(c)
                             THEN One(<<"aws", "lb_target_group_attachment", TfName(c.name) \o "_attach">>,
                                      {TargetGroup(c.name), <<"aws", "instance", TfName(c.target \o "-1")>>})
                             ELSE One(Attachment(c.name), {ASG(c.target), TargetGroup(c.name)}))
           X       == {VPC} \cup AWSGroup(ctx) \cup AWSSubnetData(ctx) \cup AWSFronts(c)
           Good(a) == Input(a) \/ Owns(S, a) \/ a \in X
<1>1. S = When(HasNetwork(ctx), Gate) \cup Door \cup Own \cup Routed \cup Ears \cup Rules \cup Tie
  BY DEF renderLBAWS, distinctRuleTargetNames
<1>2. VPC \in X /\ AWSGroup(ctx) \subseteq X /\ AWSSubnetData(ctx) \subseteq X /\ \A i \in Subnets : Subnet(i) \in X
  BY DEF AWSSubnetData
<1>3. /\ \A t \in Parts(c, "routes") : ASG(t) \in X
      /\ c.target # NoTarget /\ ToVM(c) => <<"aws", "instance", TfName(c.target \o "-1")>> \in X
      /\ c.target # NoTarget /\ ~ToVM(c) => ASG(c.target) \in X
  BY DEF AWSFronts, When
<1>4. \E r : Block(lb, r) \in Door
  BY DEF One
<1>5. \E r : Block(TargetGroup(c.name), r) \in Own
  BY DEF One
<1>6. \A l \in Parts(c, "listeners") : \E r : Block(Listener(c, l), r) \in Ears
  OBVIOUS
<1>7. ASSUME NEW t \in Parts(c, "routes") PROVE \E r : Block(TargetGroup(t), r) \in Routed
  <2>1. Block(TargetGroup(t), When(HasNetwork(ctx), {VPC})) \in RuleTarget(ctx, t)
    BY DEF RuleTarget
  <2> QED BY <2>1
<1>8. HasNetwork(ctx) => (\E r : Block(gateway, r) \in Gate) /\ (\E r : Block(table, r) \in Gate)
  OBVIOUS
<1>9. /\ \A b \in Gate : b = Block(gateway, {VPC}) \/ b = Block(table, {VPC, gateway})
                         \/ \E i \in Subnets : b = Block(Assoc(i), {table, Subnet(i)})
      /\ Door = {Block(lb, AWSGroup(ctx) \cup When(HasNetwork(ctx), {gateway} \cup AWSSubnetData(ctx)))}
      /\ Own = {Block(TargetGroup(c.name), When(HasNetwork(ctx), {VPC}))}
      /\ \A b \in Routed : \E t \in Parts(c, "routes") : b \in RuleTarget(ctx, t)
      /\ \A b \in Ears : \E l \in Parts(c, "listeners") : b = Block(Listener(c, l), {lb, TargetGroup(c.name)})
      /\ \A b \in Rules : \E l \in Parts(c, "listeners") : b \in renderLBAWSListenerRules(c, l)
  BY DEF One
<1> HIDE DEF X, S, Gate, Door, Own, Routed, Ears, Rules
<1>10. /\ Owns(S, lb) /\ Owns(S, TargetGroup(c.name))
       /\ \A l \in Parts(c, "listeners") : Owns(S, Listener(c, l))
       /\ \A t \in Parts(c, "routes") : Owns(S, TargetGroup(t))
       /\ HasNetwork(ctx) => Owns(S, gateway) /\ Owns(S, table)
  BY <1>1, <1>4, <1>5, <1>6, <1>7, <1>8 DEF Owns, When
<1> HIDE DEF lb, gateway, table, Subnet, Assoc
<1>11. ASSUME HasNetwork(ctx), NEW b \in Gate, NEW a \in b.refs PROVE Good(a)
  <2>1. /\ Block(gateway, {VPC}).refs = {VPC} /\ Block(table, {VPC, gateway}).refs = {VPC, gateway}
        /\ \A i : Block(Assoc(i), {table, Subnet(i)}).refs = {table, Subnet(i)}
    BY Refs
  <2>2. b.refs = {VPC} \/ b.refs = {VPC, gateway} \/ \E i \in Subnets : b.refs = {table, Subnet(i)}
    <3>1. \/ b = Block(gateway, {VPC}) \/ b = Block(table, {VPC, gateway})
          \/ \E i \in Subnets : b = Block(Assoc(i), {table, Subnet(i)})
      BY <1>9, <1>11
    <3>2. CASE \E i \in Subnets : b = Block(Assoc(i), {table, Subnet(i)})
      <4>1. PICK i \in Subnets : b = Block(Assoc(i), {table, Subnet(i)})
        BY <3>2
      <4>2. b.refs = {table, Subnet(i)}
        BY <4>1, <2>1
      <4> QED BY <4>2
    <3> QED BY <3>1, <3>2, <2>1
  <2> QED BY <1>2, <1>10, <1>11, <2>2
<1>12. ASSUME NEW b \in Door, NEW a \in b.refs PROVE Good(a)
  <2>1. b.refs = AWSGroup(ctx) \cup When(HasNetwork(ctx), {gateway} \cup AWSSubnetData(ctx))
    BY <1>9, <1>12, Refs
  <2> QED BY <1>2, <1>10, <1>12, <2>1 DEF When
<1>13. ASSUME NEW b \in Own, NEW a \in b.refs PROVE Good(a)
  <2>1. b.refs = When(HasNetwork(ctx), {VPC})
    BY <1>9, <1>13, Refs
  <2> QED BY <1>2, <1>13, <2>1 DEF When
<1>14. ASSUME NEW b \in Routed, NEW a \in b.refs PROVE Good(a)
  <2>1. PICK t \in Parts(c, "routes") : b \in RuleTarget(ctx, t)
    BY <1>9, <1>14
  <2>2. b.refs = When(HasNetwork(ctx), {VPC}) \/ b.refs = {ASG(t), TargetGroup(t)}
    BY <2>1, Refs DEF RuleTarget
  <2> QED BY <1>2, <1>3, <1>10, <1>14, <2>2 DEF When
<1>15. ASSUME NEW b \in Ears, NEW a \in b.refs PROVE Good(a)
  <2>1. b.refs = {lb, TargetGroup(c.name)}
    BY <1>9, <1>15, Refs
  <2> QED BY <1>10, <1>15, <2>1
<1>16. ASSUME NEW b \in Rules, NEW a \in b.refs PROVE Good(a)
  <2>1. PICK l \in Parts(c, "listeners") : b \in renderLBAWSListenerRules(c, l)
    BY <1>9, <1>16
  <2>2. \/ \E r : b = Rule(l, r, c.name)
        \/ \E t \in Parts(c, "routes") : b = Rule(l, t, t)
    BY <2>1 DEF renderLBAWSListenerRules
  <2>a. \A r, g : Rule(l, r, g).refs = {Listener(c, l), TargetGroup(g)}
    BY Refs
  <2> HIDE DEF Rule
  <2>3. b.refs = {Listener(c, l), TargetGroup(c.name)}
        \/ \E t \in Parts(c, "routes") : b.refs = {Listener(c, l), TargetGroup(t)}
    BY <2>2, <2>a
  <2> QED BY <1>10, <1>16, <2>1, <2>3
<1>17. ASSUME NEW b \in Tie, NEW a \in b.refs PROVE Good(a)
  <2>1. \/ c.target # NoTarget /\ ToVM(c) /\ b.refs = {TargetGroup(c.name), <<"aws", "instance", TfName(c.target \o "-1")>>}
        \/ c.target # NoTarget /\ ~ToVM(c) /\ b.refs = {ASG(c.target), TargetGroup(c.name)}
    BY <1>17, Refs DEF One, When
  <2> QED BY <1>3, <1>10, <1>17, <2>1
<1> HIDE DEF Tie
<1>18. \A b \in S : \/ (HasNetwork(ctx) /\ b \in Gate)
                     \/ b \in Door \cup Own \cup Routed \cup Ears \cup Rules \cup Tie
  BY <1>1 DEF When
<1>19. \A b \in S : \A a \in b.refs : Good(a)
  BY <1>11, <1>12, <1>13, <1>14, <1>15, <1>16, <1>17, <1>18
<1>20. Resolves(S, X)
  BY <1>19 DEF Resolves
<1> QED BY <1>20 DEF S, X

\* A balancer leads to its network and group and to what it fronts.
LEMMA BalancerResolves ==
  ASSUME NEW ctx, NEW c, Has(c, "stable_ip") => ToVM(c) /\ c.target # NoTarget
  PROVE  Resolves(RenderLoadBalancerHCL(ctx, c), Supplied(ctx) \cup Fronted(ctx, c))
<1> DEFINE X == Supplied(ctx) \cup Fronted(ctx, c)
<1>1. CASE ctx.provider = "aws"
  <2>1. {VPC} \cup AWSGroup(ctx) \cup AWSSubnetData(ctx) \cup AWSFronts(c) \subseteq X
    BY <1>1, AWSSupplies DEF When, Fronted, MachineOf, ScaleGroupOf, AWSFronts
  <2>2. Resolves(renderLBAWS(ctx, c), {VPC} \cup AWSGroup(ctx) \cup AWSSubnetData(ctx) \cup AWSFronts(c))
    BY AWSBalancerResolves
  <2> QED BY <1>1, <2>1, <2>2, Wider DEF RenderLoadBalancerHCL
<1>2. CASE ctx.provider = "gcp"
  <2>1. Resolves(renderLBGCP(c), When(c.target # NoTarget /\ ~ToVM(c), {<<"google", "compute_region_instance_group_manager", TfName(c.target) \o "_mig">>}))
    <3> DEFINE S == renderLBGCP(c)
               D == {<<"google", "compute_health_check", TfName(c.name) \o "_hc">>, <<"google", "compute_region_backend_service", TfName(c.name) \o "_be">>}
    <3>1. ASSUME NEW a \in D PROVE Owns(S, a)
      BY DEF Owns, renderLBGCP, One, When, Refusal, OrRefuse
    <3>2. ASSUME NEW b \in S, NEW a \in b.refs PROVE Input(a) \/ a \in D \/ a \in (When(c.target # NoTarget /\ ~ToVM(c), {<<"google", "compute_region_instance_group_manager", TfName(c.target) \o "_mig">>}))
      BY Refs DEF Block, renderLBGCP, One, When, Refusal, OrRefuse
    <3> HIDE DEF S, D
    <3> QED BY <3>1, <3>2, Closing DEF S
  <2>2. When(c.target # NoTarget /\ ~ToVM(c), {<<"google", "compute_region_instance_group_manager", TfName(c.target) \o "_mig">>}) \subseteq X
    BY <1>2, GCPSupplies DEF When, Fronted, MachineOf, ScaleGroupOf
  <2> QED BY <1>2, <2>1, <2>2, Wider DEF RenderLoadBalancerHCL
<1>3. CASE ctx.provider = "digitalocean" /\ Has(c, "stable_ip")
  <2>1. Resolves(renderLBDOReservedIP(c), {<<"digitalocean", "droplet", TfName(c.target) \o "-1">>})
    BY Refs DEF Resolves, Owns, renderLBDOReservedIP, One, When, Refusal, OrRefuse
  <2>2. {<<"digitalocean", "droplet", TfName(c.target) \o "-1">>} \subseteq X
    BY <1>3, DOSupplies DEF When, Fronted, MachineOf, ScaleGroupOf
  <2> QED BY <1>3, <2>1, <2>2, Wider DEF RenderLoadBalancerHCL
<1>4. CASE ctx.provider = "digitalocean" /\ ~Has(c, "stable_ip")
  <2>1. Resolves(renderLBDO(ctx, c), DOVPCRef(ctx))
    BY Refs DEF Resolves, Owns, renderLBDO, One, When, Refusal, OrRefuse
  <2>2. DOVPCRef(ctx) \subseteq X
    BY <1>4, DOSupplies DEF When, Fronted, MachineOf, ScaleGroupOf
  <2> QED BY <1>4, <2>1, <2>2, Wider DEF RenderLoadBalancerHCL
<1>5. CASE ctx.provider = "azure"
  <2>1. Resolves(renderLBAzure(ctx, c), azureRGRef(ctx))
    BY Refs DEF Resolves, Owns, renderLBAzure, One, When, Refusal, OrRefuse
  <2>2. azureRGRef(ctx) \subseteq X
    BY <1>5, AzureSupplies DEF When, Fronted, MachineOf, ScaleGroupOf
  <2> QED BY <1>5, <2>1, <2>2, Wider DEF RenderLoadBalancerHCL
<1>6. CASE ctx.provider = "linode"
  <2>1. Resolves(renderLBLinode(c), When(ToVM(c) /\ c.target # NoTarget, {Linode("instance", TfName(c.target \o "-1"))}))
    <3> DEFINE S == renderLBLinode(c)
               D == {Linode("nodebalancer", TfName(c.name))} \cup {Linode("nodebalancer_config", TfName(c.name) \o "_config" \o l) : l \in Parts(c, "listeners")}
    <3>1. ASSUME NEW a \in D PROVE Owns(S, a)
      BY DEF Owns, renderLBLinode, One, When, Refusal, OrRefuse, ToVM
    <3>2. ASSUME NEW b \in S, NEW a \in b.refs PROVE Input(a) \/ a \in D \/ a \in (When(ToVM(c) /\ c.target # NoTarget, {Linode("instance", TfName(c.target \o "-1"))}))
      BY Refs DEF Block, renderLBLinode, One, When, Refusal, OrRefuse, ToVM
    <3> HIDE DEF S, D
    <3> QED BY <3>1, <3>2, Closing DEF S
  <2>2. When(ToVM(c) /\ c.target # NoTarget, {Linode("instance", TfName(c.target \o "-1"))}) \subseteq X
    BY <1>6, LinodeSupplies DEF When, Fronted, MachineOf, ScaleGroupOf
  <2> QED BY <1>6, <2>1, <2>2, Wider DEF RenderLoadBalancerHCL
<1>7. CASE ctx.provider = "oracle"
  <2>1. Resolves(renderLBOCI(ctx, c), OCISubnets(ctx) \cup OCIGroup(ctx))
    BY Refs DEF Resolves, Owns, renderLBOCI, Compartment, One, When, Refusal, OrRefuse
  <2>2. OCISubnets(ctx) \cup OCIGroup(ctx) \subseteq X
    BY <1>7, OCISupplies DEF When, Fronted, MachineOf, ScaleGroupOf
  <2> QED BY <1>7, <2>1, <2>2, Wider DEF RenderLoadBalancerHCL
<1>8. CASE ctx.provider = "ibm"
  <2>1. Resolves(renderLBIBM(ctx, c), IBMSubnets(ctx) \cup IBMGroup(ctx) \cup When(ToVM(c) /\ c.target # NoTarget, {IBM("is_instance", TfName(c.target \o "-1"))}))
    BY Refs DEF Resolves, Owns, renderLBIBM, IBMGroupID, One, When, Refusal, OrRefuse, ToVM
  <2>2. IBMSubnets(ctx) \cup IBMGroup(ctx) \cup When(ToVM(c) /\ c.target # NoTarget, {IBM("is_instance", TfName(c.target \o "-1"))}) \subseteq X
    BY <1>8, IBMSupplies DEF When, Fronted, MachineOf, ScaleGroupOf
  <2> QED BY <1>8, <2>1, <2>2, Wider DEF RenderLoadBalancerHCL
<1>9. CASE ctx.provider = "alibaba"
  <2>1. Resolves(renderLBAlibaba(ctx, c), AliVPC(ctx) \cup Switches(ctx))
    BY Refs DEF Resolves, Owns, renderLBAlibaba, One, When, Refusal, OrRefuse
  <2>2. AliVPC(ctx) \cup Switches(ctx) \subseteq X
    BY <1>9, AlibabaSupplies DEF When, Fronted, MachineOf, ScaleGroupOf
  <2> QED BY <1>9, <2>1, <2>2, Wider DEF RenderLoadBalancerHCL
<1>10. CASE ctx.provider = "stackit"
  <2>1. Resolves(renderStackItLoadBalancer(ctx, c), {STACKIT("network", TfName(ctx.network))})
    BY Refs DEF Resolves, Owns, renderStackItLoadBalancer, InProject, One, When, Refusal, OrRefuse
  <2>2. {STACKIT("network", TfName(ctx.network))} \subseteq X
    BY <1>10, STACKITSupplies DEF When, Fronted, MachineOf, ScaleGroupOf
  <2> QED BY <1>10, <2>1, <2>2, Wider DEF RenderLoadBalancerHCL
<1>11. CASE ~(ctx.provider = "aws" \/ ctx.provider = "gcp" \/ (ctx.provider = "digitalocean" /\ Has(c,
            "stable_ip")) \/ (ctx.provider = "digitalocean" /\ ~Has(c, "stable_ip")) \/ ctx.provider = "azure"
            \/ ctx.provider = "linode" \/ ctx.provider = "oracle" \/ ctx.provider = "ibm" \/ ctx.provider =
            "alibaba" \/ ctx.provider = "stackit")
  BY <1>11, RefusedResolves DEF RenderLoadBalancerHCL
<1> QED BY <1>1, <1>2, <1>3, <1>4, <1>5, <1>6, <1>7, <1>8, <1>9, <1>10, <1>11

\* A database, a cache and a cluster lead to the network; on AWS the last
\* two name the network's subnets as resources, which it need not declare.
LEMMA DatabaseResolves ==
  ASSUME NEW ctx, NEW c
  PROVE  Resolves(RenderManagedDatabaseHCL(ctx, c), Supplied(ctx))
<1> DEFINE X == Supplied(ctx)
<1>1. CASE ctx.provider = "aws"
  <2>1. Resolves(renderMDBAWS(ctx, c), AWSSubnetData(ctx) \cup AWSGroup(ctx))
    <3> DEFINE S == renderMDBAWS(ctx, c)
               D == When(HasNetwork(ctx), {<<"aws", "db_subnet_group", TfName(c.name) \o "_subnet_group">>})
    <3>1. ASSUME NEW a \in D PROVE Owns(S, a)
      BY DEF Owns, renderMDBAWS, Password, One, When, Refusal, OrRefuse
    <3>2. ASSUME NEW b \in S, NEW a \in b.refs PROVE Input(a) \/ a \in D \/ a \in (AWSSubnetData(ctx) \cup AWSGroup(ctx))
      BY Refs DEF Block, renderMDBAWS, Password, One, When, Refusal, OrRefuse
    <3> HIDE DEF S, D
    <3> QED BY <3>1, <3>2, Closing DEF S
  <2>2. AWSSubnetData(ctx) \cup AWSGroup(ctx) \subseteq X
    BY <1>1, AWSSupplies DEF When
  <2> QED BY <1>1, <2>1, <2>2, Wider, Adapters DEF RenderManagedDatabaseHCL
<1>2. CASE ctx.provider = "gcp"
  <2>1. Resolves(renderMDBGCP(ctx, c), GCPNetRef(ctx))
    BY Refs DEF Resolves, Owns, renderMDBGCP, One, When, Refusal, OrRefuse
  <2>2. GCPNetRef(ctx) \subseteq X
    BY <1>2, GCPSupplies DEF When
  <2> QED BY <1>2, <2>1, <2>2, Wider, Adapters DEF RenderManagedDatabaseHCL
<1>3. CASE ctx.provider = "digitalocean"
  <2>1. Resolves(renderMDBDO(ctx, c), DOVPCRef(ctx))
    BY Refs DEF Resolves, Owns, renderMDBDO, One, When, Refusal, OrRefuse
  <2>2. DOVPCRef(ctx) \subseteq X
    BY <1>3, DOSupplies DEF When
  <2> QED BY <1>3, <2>1, <2>2, Wider, Adapters DEF RenderManagedDatabaseHCL
<1>4. CASE ctx.provider = "azure"
  <2>1. Resolves(renderMDBAzure(ctx, c), azureRGRef(ctx))
    BY Refs DEF Resolves, Owns, renderMDBAzure, One, When, Refusal, OrRefuse
  <2>2. azureRGRef(ctx) \subseteq X
    BY <1>4, AzureSupplies DEF When
  <2> QED BY <1>4, <2>1, <2>2, Wider, Adapters DEF RenderManagedDatabaseHCL
<1>5. CASE ctx.provider = "linode"
  <2>1. Resolves(renderMDBLinode(c), {})
    BY Refs DEF Resolves, Owns, renderMDBLinode, One, When, Refusal, OrRefuse
  <2> QED BY <1>5, <2>1, Wider, Adapters DEF RenderManagedDatabaseHCL
<1>6. CASE ctx.provider = "ubicloud"
  <2>1. Resolves(renderMDBUbicloud(c), {})
    BY Refs DEF Resolves, Owns, renderMDBUbicloud, Project, One, When, Refusal, OrRefuse
  <2> QED BY <1>6, <2>1, Wider, Adapters DEF RenderManagedDatabaseHCL
<1>7. CASE ctx.provider = "oracle"
  <2>1. Resolves(renderMDBOCI(ctx, c), OCIFirstSubnet(ctx))
    BY Refs DEF Resolves, Owns, renderMDBOCI, renderMDBOCIMySQL, renderMDBOCIPostgres, ociADDataSource,
        InCompartment, ociADRef, Compartment, One, When, Refusal, OrRefuse
  <2>2. OCIFirstSubnet(ctx) \subseteq X
    BY <1>7, OCISupplies DEF When
  <2> QED BY <1>7, <2>1, <2>2, Wider, Adapters DEF RenderManagedDatabaseHCL
<1>8. CASE ctx.provider = "ibm"
  <2>1. Resolves(renderMDBIBM(c), {})
    BY Refs DEF Resolves, Owns, renderMDBIBM, InGroup, IBMGroupID, One, When, Refusal, OrRefuse
  <2> QED BY <1>8, <2>1, Wider, Adapters DEF RenderManagedDatabaseHCL
<1>9. CASE ctx.provider = "alibaba"
  <2>1. Resolves(renderMDBAlibaba(ctx, c), FirstSwitch(ctx) \cup AliGroup(ctx))
    BY Refs DEF Resolves, Owns, renderMDBAlibaba, One, When, Refusal, OrRefuse
  <2>2. FirstSwitch(ctx) \cup AliGroup(ctx) \subseteq X
    BY <1>9, AlibabaSupplies DEF When
  <2> QED BY <1>9, <2>1, <2>2, Wider, Adapters DEF RenderManagedDatabaseHCL
<1>10. CASE ctx.provider = "ovh"
  <2>1. Resolves(renderManagedDatabaseOVH(ctx, c), When(HasNetwork(ctx), {OVHNet(ctx.network)}))
    BY Refs DEF Resolves, Owns, renderManagedDatabaseOVH, OVH, Service, One, When, Refusal, OrRefuse
  <2>2. When(HasNetwork(ctx), {OVHNet(ctx.network)}) \subseteq X
    BY <1>10, OVHSupplies DEF When
  <2> QED BY <1>10, <2>1, <2>2, Wider, Adapters DEF RenderManagedDatabaseHCL
<1>11. CASE ctx.provider = "stackit"
  <2>1. Resolves(renderStackItMDB(c), {})
    BY Refs DEF Resolves, Owns, renderStackItMDB, InProject, One, When, Refusal, OrRefuse
  <2> QED BY <1>11, <2>1, Wider, Adapters DEF RenderManagedDatabaseHCL
<1>12. CASE IsAdapter(ctx.provider)
  <2>1. Resolves(RenderAdapterMDB(ManifestOf(ctx.provider), c), {})
    BY Refs DEF Resolves, Owns, RenderAdapterMDB, One, When, Refusal, OrRefuse
  <2> QED BY <1>12, <2>1, Wider, Adapters DEF RenderManagedDatabaseHCL
<1>13. CASE ~(ctx.provider = "aws" \/ ctx.provider = "gcp" \/ ctx.provider = "digitalocean" \/ ctx.provider =
            "azure" \/ ctx.provider = "linode" \/ ctx.provider = "ubicloud" \/ ctx.provider = "oracle" \/
            ctx.provider = "ibm" \/ ctx.provider = "alibaba" \/ ctx.provider = "ovh" \/ ctx.provider = "stackit"
            \/ IsAdapter(ctx.provider))
  BY <1>13, RefusedResolves DEF RenderManagedDatabaseHCL
<1> QED BY <1>1, <1>2, <1>3, <1>4, <1>5, <1>6, <1>7, <1>8, <1>9, <1>10, <1>11, <1>12, <1>13

LEMMA CacheResolves ==
  ASSUME NEW ctx, NEW c
  PROVE  Resolves(RenderCacheHCL(ctx, c), Supplied(ctx) \cup When(ctx.provider = "aws", AWSSubnetResources(ctx)))
<1> DEFINE X == Supplied(ctx) \cup When(ctx.provider = "aws", AWSSubnetResources(ctx))
<1>1. CASE ctx.provider = "aws"
  <2>1. Resolves(renderCacheAWS(ctx, c), AWSSubnetResources(ctx) \cup AWSGroup(ctx))
    BY Refs DEF Resolves, Owns, renderCacheAWS, One, When, Refusal, OrRefuse
  <2>2. AWSSubnetResources(ctx) \cup AWSGroup(ctx) \subseteq X
    BY <1>1, AWSSupplies DEF When
  <2> QED BY <1>1, <2>1, <2>2, Wider DEF RenderCacheHCL
<1>2. CASE ctx.provider = "gcp"
  <2>1. Resolves(renderCacheGCP(ctx, c), GCPNetRef(ctx))
    BY Refs DEF Resolves, Owns, renderCacheGCP, One, When, Refusal, OrRefuse, GCPNetRef
  <2>2. GCPNetRef(ctx) \subseteq X
    BY <1>2, GCPSupplies DEF When
  <2> QED BY <1>2, <2>1, <2>2, Wider DEF RenderCacheHCL
<1>3. CASE ctx.provider = "digitalocean"
  <2>1. Resolves(renderCacheDO(ctx, c), DOVPCRef(ctx))
    BY Refs DEF Resolves, Owns, renderCacheDO, One, When, Refusal, OrRefuse, DOVPCRef
  <2>2. DOVPCRef(ctx) \subseteq X
    BY <1>3, DOSupplies DEF When
  <2> QED BY <1>3, <2>1, <2>2, Wider DEF RenderCacheHCL
<1>4. CASE ctx.provider = "azure"
  <2>1. Resolves(renderCacheAzure(c), {})
    BY Refs DEF Resolves, Owns, renderCacheAzure, AskedGroup, One, When, Refusal, OrRefuse
  <2> QED BY <1>4, <2>1, Wider DEF RenderCacheHCL
<1>5. CASE ctx.provider = "oracle"
  <2>1. Resolves(renderCacheOCI(ctx, c), OCIFirstSubnet(ctx))
    BY Refs DEF Resolves, Owns, renderCacheOCI, InCompartment, OrVariable, Compartment, One, When, Refusal,
        OrRefuse
  <2>2. OCIFirstSubnet(ctx) \subseteq X
    BY <1>5, OCISupplies DEF When
  <2> QED BY <1>5, <2>1, <2>2, Wider DEF RenderCacheHCL
<1>6. CASE ctx.provider = "ibm"
  <2>1. Resolves(renderCacheIBM(c), {})
    BY Refs DEF Resolves, Owns, renderCacheIBM, InGroup, IBMGroupID, One, When, Refusal, OrRefuse
  <2> QED BY <1>6, <2>1, Wider DEF RenderCacheHCL
<1>7. CASE ctx.provider = "alibaba"
  <2>1. Resolves(renderCacheAlibaba(ctx, c), FirstSwitch(ctx) \cup AliGroup(ctx))
    BY Refs DEF Resolves, Owns, renderCacheAlibaba, One, When, Refusal, OrRefuse
  <2>2. FirstSwitch(ctx) \cup AliGroup(ctx) \subseteq X
    BY <1>7, AlibabaSupplies DEF When
  <2> QED BY <1>7, <2>1, <2>2, Wider DEF RenderCacheHCL
<1>8. CASE ~(ctx.provider = "aws" \/ ctx.provider = "gcp" \/ ctx.provider = "digitalocean" \/ ctx.provider =
            "azure" \/ ctx.provider = "oracle" \/ ctx.provider = "ibm" \/ ctx.provider = "alibaba")
  BY <1>8, RefusedResolves DEF RenderCacheHCL
<1> QED BY <1>1, <1>2, <1>3, <1>4, <1>5, <1>6, <1>7, <1>8

LEMMA KubernetesResolves ==
  ASSUME NEW ctx, NEW c
  PROVE  Resolves(RenderKubernetesHCL(ctx, c), Supplied(ctx) \cup When(ctx.provider = "aws", AWSSubnetResources(ctx)))
<1> DEFINE X == Supplied(ctx) \cup When(ctx.provider = "aws", AWSSubnetResources(ctx))
<1>1. CASE ctx.provider = "aws"
  <2>1. Resolves(renderK8sAWS(ctx, c), AWSSubnetResources(ctx))
    <3> DEFINE S == renderK8sAWS(ctx, c)
               D == {<<"aws", "eks_cluster", TfName(c.name)>>}
    <3>1. ASSUME NEW a \in D PROVE Owns(S, a)
      BY DEF Owns, renderK8sAWS, One, When, Refusal, OrRefuse
    <3>2. ASSUME NEW b \in S, NEW a \in b.refs PROVE Input(a) \/ a \in D \/ a \in (AWSSubnetResources(ctx))
      BY Refs DEF Block, renderK8sAWS, One, When, Refusal, OrRefuse
    <3> HIDE DEF S, D
    <3> QED BY <3>1, <3>2, Closing DEF S
  <2>2. AWSSubnetResources(ctx) \subseteq X
    BY <1>1, AWSSupplies DEF When
  <2> QED BY <1>1, <2>1, <2>2, Wider DEF RenderKubernetesHCL
<1>2. CASE ctx.provider = "gcp"
  <2>1. Resolves(renderK8sGCP(ctx, c), GCPNetRef(ctx))
    <3> DEFINE S == renderK8sGCP(ctx, c)
               D == {<<"google", "container_cluster", TfName(c.name)>>}
    <3>1. ASSUME NEW a \in D PROVE Owns(S, a)
      BY DEF Owns, renderK8sGCP, One, When, Refusal, OrRefuse, GCPNetRef
    <3>2. ASSUME NEW b \in S, NEW a \in b.refs PROVE Input(a) \/ a \in D \/ a \in (GCPNetRef(ctx))
      BY Refs DEF Block, renderK8sGCP, One, When, Refusal, OrRefuse, GCPNetRef
    <3> HIDE DEF S, D
    <3> QED BY <3>1, <3>2, Closing DEF S
  <2>2. GCPNetRef(ctx) \subseteq X
    BY <1>2, GCPSupplies DEF When
  <2> QED BY <1>2, <2>1, <2>2, Wider DEF RenderKubernetesHCL
<1>3. CASE ctx.provider = "digitalocean"
  <2>1. Resolves(renderK8sDO(ctx, c), DOVPCRef(ctx))
    BY Refs DEF Resolves, Owns, renderK8sDO, One, When, Refusal, OrRefuse, DOVPCRef
  <2>2. DOVPCRef(ctx) \subseteq X
    BY <1>3, DOSupplies DEF When
  <2> QED BY <1>3, <2>1, <2>2, Wider DEF RenderKubernetesHCL
<1>4. CASE ctx.provider = "azure"
  <2>1. Resolves(renderKubernetesAzure(ctx, c), azureRGRef(ctx) \cup AzureSubnet(ctx))
    BY Refs DEF Resolves, Owns, renderKubernetesAzure, AskedGroup, One, When, Refusal, OrRefuse
  <2>2. azureRGRef(ctx) \cup AzureSubnet(ctx) \subseteq X
    BY <1>4, AzureSupplies DEF When
  <2> QED BY <1>4, <2>1, <2>2, Wider DEF RenderKubernetesHCL
<1>5. CASE ctx.provider = "linode"
  <2>1. Resolves(renderK8sLinode(c), {})
    BY Refs DEF Resolves, Owns, renderK8sLinode, One, When, Refusal, OrRefuse
  <2> QED BY <1>5, <2>1, Wider DEF RenderKubernetesHCL
<1>6. CASE ctx.provider = "oracle"
  <2>1. Resolves(renderK8sOCI(ctx, c), VCN(ctx) \cup OCIFirstSubnet(ctx) \cup OCISubnets(ctx))
    <3> DEFINE S == renderK8sOCI(ctx, c)
               D == {OCI("containerengine_cluster", TfName(c.name)), ADs(TfName(c.name))}
    <3>1. ASSUME NEW a \in D PROVE Owns(S, a)
      BY DEF Owns, renderK8sOCI, ociADDataSource, Compartment, OrVariable, InCompartment, ociADRef, One, When,
          Refusal, OrRefuse
    <3>2. ASSUME NEW b \in S, NEW a \in b.refs PROVE Input(a) \/ a \in D \/ a \in (VCN(ctx) \cup OCIFirstSubnet(ctx) \cup OCISubnets(ctx))
      BY Refs DEF Block, renderK8sOCI, ociADDataSource, Compartment, OrVariable, InCompartment, ociADRef, One,
          When, Refusal, OrRefuse
    <3> HIDE DEF S, D
    <3> QED BY <3>1, <3>2, Closing DEF S
  <2>2. VCN(ctx) \cup OCIFirstSubnet(ctx) \cup OCISubnets(ctx) \subseteq X
    BY <1>6, OCISupplies DEF When
  <2> QED BY <1>6, <2>1, <2>2, Wider DEF RenderKubernetesHCL
<1>7. CASE ctx.provider = "ibm"
  <2>1. Resolves(renderK8sIBM(ctx, c), IBMVPC(ctx) \cup IBMSubnets(ctx))
    BY Refs DEF Resolves, Owns, renderK8sIBM, InGroup, IBMGroupID, One, When, Refusal, OrRefuse
  <2>2. IBMVPC(ctx) \cup IBMSubnets(ctx) \subseteq X
    BY <1>7, IBMSupplies DEF When
  <2> QED BY <1>7, <2>1, <2>2, Wider DEF RenderKubernetesHCL
<1>8. CASE ctx.provider = "alibaba"
  <2>1. Resolves(renderK8sAlibaba(ctx, c), Switches(ctx))
    BY Refs DEF Resolves, Owns, renderK8sAlibaba, One, When, Refusal, OrRefuse
  <2>2. Switches(ctx) \subseteq X
    BY <1>8, AlibabaSupplies DEF When
  <2> QED BY <1>8, <2>1, <2>2, Wider DEF RenderKubernetesHCL
<1>9. CASE ctx.provider = "ovh"
  <2>1. Resolves(renderKubernetesOVH(ctx, c), When(HasNetwork(ctx), {OVHNet(ctx.network)}))
    BY Refs DEF Resolves, Owns, renderKubernetesOVH, OVH, Service, One, When, Refusal, OrRefuse
  <2>2. When(HasNetwork(ctx), {OVHNet(ctx.network)}) \subseteq X
    BY <1>9, OVHSupplies DEF When
  <2> QED BY <1>9, <2>1, <2>2, Wider DEF RenderKubernetesHCL
<1>10. CASE ctx.provider = "stackit"
  <2>1. Resolves(renderStackItKubernetes(c), {})
    BY Refs DEF Resolves, Owns, renderStackItKubernetes, InProject, One, When, Refusal, OrRefuse
  <2> QED BY <1>10, <2>1, Wider DEF RenderKubernetesHCL
<1>11. CASE ~(ctx.provider = "aws" \/ ctx.provider = "gcp" \/ ctx.provider = "digitalocean" \/ ctx.provider =
            "azure" \/ ctx.provider = "linode" \/ ctx.provider = "oracle" \/ ctx.provider = "ibm" \/
            ctx.provider = "alibaba" \/ ctx.provider = "ovh" \/ ctx.provider = "stackit")
  BY <1>11, RefusedResolves DEF RenderKubernetesHCL
<1> QED BY <1>1, <1>2, <1>3, <1>4, <1>5, <1>6, <1>7, <1>8, <1>9, <1>10, <1>11

\* A CDN leads to its origin and a web firewall to its balancer.
LEMMA CDNResolves ==
  ASSUME NEW ctx, NEW c
  PROVE  Resolves(RenderCDNHCL(ctx, c), Origin(ctx, c))
<1> DEFINE X == Origin(ctx, c)
<1>1. CASE UsesCloudflare(ctx, c)
  <2>1. Resolves(RenderCloudfareCDNHCL(c), {})
    BY Refs DEF Resolves, Owns, RenderCloudfareCDNHCL, ZoneInput, ZoneID, ZoneVariable, One, When, Refusal,
        OrRefuse
  <2> QED BY <1>1, <2>1, Wider DEF RenderCDNHCL, UsesCloudflare
<1>2. CASE ctx.provider = "aws"
  <2>1. Resolves(renderCDNAWS(c), When(c.target # NoTarget, IF Has(c, "bucket_origin") THEN {<<"aws", "s3_bucket", TfName(c.target)>>} ELSE {<<"aws", "lb", TfName(c.target) \o "_lb">>}))
    BY Refs DEF Resolves, Owns, renderCDNAWS, One, When, Refusal, OrRefuse
  <2>2. When(c.target # NoTarget, IF Has(c, "bucket_origin") THEN {<<"aws", "s3_bucket", TfName(c.target)>>} ELSE {<<"aws", "lb", TfName(c.target) \o "_lb">>}) \subseteq X
    BY <1>2 DEF When, Origin, BucketOf, BalancerOf
  <2> QED BY <1>2, <2>1, <2>2, Wider DEF RenderCDNHCL, UsesCloudflare
<1>3. CASE ctx.provider = "gcp"
  <2>1. Resolves(renderCDNGCP(c), When(Has(c, "bucket_origin") /\ c.target # NoTarget, {<<"google", "storage_bucket", TfName(c.target)>>}))
    BY Refs DEF Resolves, Owns, renderCDNGCP, One, When, Refusal, OrRefuse
  <2>2. When(Has(c, "bucket_origin") /\ c.target # NoTarget, {<<"google", "storage_bucket", TfName(c.target)>>}) \subseteq X
    BY <1>3 DEF When, Origin, BucketOf, BalancerOf
  <2> QED BY <1>3, <2>1, <2>2, Wider DEF RenderCDNHCL, UsesCloudflare
<1>4. CASE ctx.provider = "digitalocean" /\ Has(c, "bucket_origin")
  <2>1. Resolves(renderCDNDO(c), When(c.target # NoTarget, {<<"digitalocean", "spaces_bucket", TfName(c.target)>>}))
    BY Refs DEF Resolves, Owns, renderCDNDO, One, When, Refusal, OrRefuse
  <2>2. When(c.target # NoTarget, {<<"digitalocean", "spaces_bucket", TfName(c.target)>>}) \subseteq X
    BY <1>4 DEF When, Origin, BucketOf, BalancerOf
  <2> QED BY <1>4, <2>1, <2>2, Wider DEF RenderCDNHCL, UsesCloudflare
<1>5. CASE ctx.provider = "azure"
  <2>1. Resolves(renderCDNAzure(c), {})
    BY Refs DEF Resolves, Owns, renderCDNAzure, AskedGroup, One, When, Refusal, OrRefuse
  <2> QED BY <1>5, <2>1, Wider DEF RenderCDNHCL, UsesCloudflare
<1>6. CASE ctx.provider = "alibaba"
  <2>1. Resolves(renderCDNAlibaba(c), When(Has(c, "bucket_origin") /\ c.target # NoTarget, {Ali("oss_bucket", TfName(c.target))}))
    BY Refs DEF Resolves, Owns, renderCDNAlibaba, One, When, Refusal, OrRefuse
  <2>2. When(Has(c, "bucket_origin") /\ c.target # NoTarget, {Ali("oss_bucket", TfName(c.target))}) \subseteq X
    BY <1>6 DEF When, Origin, BucketOf, BalancerOf
  <2> QED BY <1>6, <2>1, <2>2, Wider DEF RenderCDNHCL, UsesCloudflare
<1>7. CASE ~(UsesCloudflare(ctx, c) \/ ctx.provider = "aws" \/ ctx.provider = "gcp" \/ (ctx.provider =
            "digitalocean" /\ Has(c, "bucket_origin")) \/ ctx.provider = "azure" \/ ctx.provider = "alibaba")
  BY <1>7, RefusedResolves DEF RenderCDNHCL
<1> QED BY <1>1, <1>2, <1>3, <1>4, <1>5, <1>6, <1>7

LEMMA WAFResolves ==
  ASSUME NEW ctx, NEW c
  PROVE  Resolves(RenderWAFHCL(ctx, c), When(c.target # NoTarget, BalancerOf(ctx.provider, TfName(c.target))))
<1> DEFINE X == When(c.target # NoTarget, BalancerOf(ctx.provider, TfName(c.target)))
<1>1. CASE ViaCloudflare(ctx)
  <2>1. Resolves(renderWAFCloudflare(c), {})
    BY Refs DEF Resolves, Owns, renderWAFCloudflare, ZoneVariable, One, When, Refusal, OrRefuse
  <2> QED BY <1>1, <2>1, Wider DEF RenderWAFHCL, ViaCloudflare
<1>2. CASE ctx.provider = "aws"
  <2>1. Resolves(renderWAFAWS(c), {})
    BY Refs DEF Resolves, Owns, renderWAFAWS, One, When, Refusal, OrRefuse
  <2> QED BY <1>2, <2>1, Wider DEF RenderWAFHCL, ViaCloudflare
<1>3. CASE ctx.provider = "gcp"
  <2>1. Resolves(renderWAFGCP(c), {})
    BY Refs DEF Resolves, Owns, renderWAFGCP, One, When, Refusal, OrRefuse
  <2> QED BY <1>3, <2>1, Wider DEF RenderWAFHCL, ViaCloudflare
<1>4. CASE ctx.provider = "azure"
  <2>1. Resolves(renderWAFAzure(c), {})
    BY Refs DEF Resolves, Owns, renderWAFAzure, AskedGroup, One, When, Refusal, OrRefuse
  <2> QED BY <1>4, <2>1, Wider DEF RenderWAFHCL, ViaCloudflare
<1>5. CASE ctx.provider = "oracle"
  <2>1. Resolves(renderWAFOCI(c), When(c.target # NoTarget, {OCI("load_balancer_load_balancer", TfName(c.target) \o "_lb")}))
    BY Refs DEF Resolves, Owns, renderWAFOCI, Compartment, InCompartment, One, When, Refusal, OrRefuse
  <2>2. When(c.target # NoTarget, {OCI("load_balancer_load_balancer", TfName(c.target) \o "_lb")}) \subseteq X
    BY <1>5 DEF When, BalancerOf
  <2> QED BY <1>5, <2>1, <2>2, Wider DEF RenderWAFHCL, ViaCloudflare
<1>6. CASE ctx.provider = "ibm"
  <2>1. Resolves(renderWAFIBM(c), {})
    BY Refs DEF Resolves, Owns, renderWAFIBM, One, When, Refusal, OrRefuse
  <2> QED BY <1>6, <2>1, Wider DEF RenderWAFHCL, ViaCloudflare
<1>7. CASE ctx.provider = "alibaba"
  <2>1. Resolves(renderWAFAlibaba(c), {})
    BY Refs DEF Resolves, Owns, renderWAFAlibaba, One, When, Refusal, OrRefuse
  <2> QED BY <1>7, <2>1, Wider DEF RenderWAFHCL, ViaCloudflare
<1>8. CASE ~(ViaCloudflare(ctx) \/ ctx.provider = "aws" \/ ctx.provider = "gcp" \/ ctx.provider = "azure" \/
            ctx.provider = "oracle" \/ ctx.provider = "ibm" \/ ctx.provider = "alibaba")
  BY <1>8, RefusedResolves DEF RenderWAFHCL
<1> QED BY <1>1, <1>2, <1>3, <1>4, <1>5, <1>6, <1>7, <1>8

\* Whatever these have is their own: queues and streams, secrets, functions,
\* keys, web services, tracing, certificates, Vault, prefix lists, monitoring,
\* registries, buckets and DNS records.
LEMMA MessagingResolves ==
  ASSUME NEW ctx, NEW c, NEW stream
  PROVE  Resolves(RenderMessagingHCL(ctx, c, stream), {})
<1>1. CASE ctx.provider = "aws"
  <2>1. Resolves(renderStreamAWS(c), {})
    BY Refs DEF Resolves, Owns, renderStreamAWS, One, When
  <2>2. Resolves(renderQueueAWS(c), {})
    BY Refs DEF Resolves, Owns, renderQueueAWS, One, When
  <2> QED BY <1>1, <2>1, <2>2 DEF RenderMessagingHCL
<1>2. CASE ctx.provider = "gcp"
  <2>1. Resolves(renderStreamGCP(c), {})
    BY Refs DEF Resolves, Owns, renderStreamGCP, One, When
  <2>2. Resolves(renderQueueGCP(c), {})
    BY Refs DEF Resolves, Owns, renderQueueGCP, One, When
  <2> QED BY <1>2, <2>1, <2>2 DEF RenderMessagingHCL
<1>3. CASE ctx.provider = "digitalocean"
  <2>1. Resolves(renderStreamDO(TfName(c.name)), {})
    BY Refs DEF Resolves, Owns, renderStreamDO, renderOperatorComponent, renderOperatorCR,
          renderClusterDataSource, renderHelmRelease, One, When
  <2>2. Resolves(renderQueueDO(TfName(c.name)), {})
    BY Refs DEF Resolves, Owns, renderQueueDO, renderOperatorComponent, renderOperatorCR,
          renderClusterDataSource, renderHelmRelease, One, When
  <2> QED BY <1>3, <2>1, <2>2 DEF RenderMessagingHCL
<1>4. CASE ctx.provider = "azure"
  <2>1. Resolves(renderStreamAzure(c), {})
    BY Refs DEF Resolves, Owns, renderStreamAzure, AskedGroup, InGroup, One, When
  <2>2. Resolves(renderQueueAzure(c), {})
    BY Refs DEF Resolves, Owns, renderQueueAzure, AskedGroup, InGroup, One, When
  <2> QED BY <1>4, <2>1, <2>2 DEF RenderMessagingHCL
<1>5. CASE ctx.provider = "oracle"
  <2>1. Resolves(renderStreamOCI(c), {})
    BY Refs DEF Resolves, Owns, renderStreamOCI, InCompartment, Compartment, One, When
  <2>2. Resolves(renderQueueOCI(c), {})
    BY Refs DEF Resolves, Owns, renderQueueOCI, InCompartment, Compartment, One, When
  <2> QED BY <1>5, <2>1, <2>2 DEF RenderMessagingHCL
<1>6. CASE ctx.provider = "alibaba"
  <2>1. Resolves(renderStreamAlibaba(c), {})
    BY Refs DEF Resolves, Owns, renderStreamAlibaba, One, When
  <2>2. Resolves(renderQueueAlibaba(c), {})
    BY Refs DEF Resolves, Owns, renderQueueAlibaba, One, When
  <2> QED BY <1>6, <2>1, <2>2 DEF RenderMessagingHCL
<1>7. CASE ctx.provider = "ibm" /\ stream
  <2>1. Resolves(renderStreamIBM(c), {})
    BY Refs DEF Resolves, Owns, renderStreamIBM, IBMGroupID, One, When
  <2> QED BY <1>7, <2>1 DEF RenderMessagingHCL
<1>8. CASE ~(ctx.provider \in {"aws", "gcp", "digitalocean", "azure", "oracle", "alibaba"} \/ (ctx.provider = "ibm" /\ stream))
  BY <1>8, RefusedResolves DEF RenderMessagingHCL
<1> QED BY <1>1, <1>2, <1>3, <1>4, <1>5, <1>6, <1>7, <1>8

LEMMA SecretsResolves ==
  ASSUME NEW ctx, NEW c
  PROVE  Resolves(RenderSecretsHCL(ctx, c), {})
BY Refs DEF Resolves, Owns, RenderSecretsHCL, renderSecretsAWS, renderSecretsGCP, renderSecretsAzure,
      renderSecretsOCI, renderSecretsIBM, renderSecretsAlibaba, renderStackItSecrets, AskedGroup, Compartment,
      InCompartment, InProject, One, When, Refusal, OrRefuse

LEMMA ServerlessResolves ==
  ASSUME NEW ctx, NEW c
  PROVE  Resolves(RenderServerlessHCL(ctx, c), {})
BY Refs DEF Resolves, Owns, RenderServerlessHCL, renderServerlessAWS, renderServerlessGCP, renderServerlessDO,
      renderServerlessAzure, renderServerlessOCI, renderServerlessIBM, renderServerlessAlibaba, Repository,
      AskedGroup, Compartment, IBMGroupID, One, When, Refusal, OrRefuse

LEMMA KMSResolves ==
  ASSUME NEW ctx, NEW c
  PROVE  Resolves(RenderKMSHCL(ctx, c), {})
BY Refs DEF Resolves, Owns, RenderKMSHCL, renderKMSAWS, renderKMSGCP, One, When, Refusal, OrRefuse

LEMMA WebServiceResolves ==
  ASSUME NEW ctx, NEW c
  PROVE  Resolves(RenderWebServiceHCL(ctx, c), {})
BY Refs DEF Resolves, Owns, RenderWebServiceHCL, renderWebServiceDO, Repository, One, When, Refusal, OrRefuse

LEMMA TracingResolves ==
  ASSUME NEW ctx, NEW c
  PROVE  Resolves(RenderTracingHCL(ctx, c), {})
BY Refs DEF Resolves, Owns, RenderTracingHCL, renderTracingAWS, renderTracingDO, renderOperatorComponent,
      renderOperatorCR, renderClusterDataSource, renderHelmRelease, One, When, Refusal, OrRefuse

LEMMA CertificateResolves ==
  ASSUME NEW ctx, NEW c
  PROVE  Resolves(RenderTLSCertificateHCL(ctx, c), {})
BY Refs DEF Resolves, Owns, RenderTLSCertificateHCL, renderTLSCertificateAWS, renderTLSCertificateDO,
      renderOperatorComponent, renderOperatorCR, renderClusterDataSource, renderHelmRelease, One, When, Refusal,
      OrRefuse

LEMMA VaultResolves ==
  ASSUME NEW ctx, NEW c
  PROVE  Resolves(RenderVaultHAHCL(ctx, c), {})
BY Refs DEF Resolves, Owns, RenderVaultHAHCL, renderVaultHAAWS, renderVaultHADO, renderOperatorComponent,
      renderOperatorCR, renderClusterDataSource, renderHelmRelease, One, When, Refusal, OrRefuse

LEMMA PrefixListResolves ==
  ASSUME NEW c
  PROVE  Resolves(RenderPrefixListHCL(c), {})
BY Refs DEF Resolves, Owns, RenderPrefixListHCL, One, When, Refusal, OrRefuse

LEMMA MonitoringResolves ==
  ASSUME NEW ctx, NEW c
  PROVE  Resolves(RenderMonitoringHCL(ctx, c), {})
BY Refs DEF Resolves, Owns, RenderMonitoringHCL, renderMonitoringAWS, renderMonitoringGCP, renderMonitoringDO,
      renderOperatorComponent, renderOperatorCR, renderClusterDataSource, renderHelmRelease, One, When, Refusal,
      OrRefuse

LEMMA RegistryResolves ==
  ASSUME NEW ctx, NEW c
  PROVE  Resolves(RenderContainerRegistryHCL(ctx, c), {})
BY Refs DEF Resolves, Owns, RenderContainerRegistryHCL, One, When, Refusal, OrRefuse

LEMMA ObjectStorageResolves ==
  ASSUME NEW ctx, NEW c
  PROVE  Resolves(RenderObjectStorageHCL(ctx, c), {})
BY Refs DEF Resolves, Owns, RenderObjectStorageHCL, renderObjectStorageAWS, renderObjectStorageGCP,
      renderObjectStorageDO, renderObjectStorageAzure, renderObjectStorageLinode, renderObjectStorageOCI,
      renderObjectStorageIBM, renderObjectStorageAlibaba, renderObjectStorageOVH, renderStackItObjectStorage,
      AskedGroup, Compartment, InCompartment, IBMGroupID, OVH, InProject, Service, One, When, Refusal, OrRefuse

LEMMA DNSResolves ==
  ASSUME NEW c
  PROVE  Resolves(RenderCloudflareDNSHCL(c), {})
BY Refs DEF Resolves, Owns, RenderCloudflareDNSHCL, ZoneInput, ZoneID, ZoneVariable, One, When, Refusal,
      OrRefuse

\* A synthetic test names a bucket and a reserved address a machine by a
\* name that is put together.
LEMMA SyntheticsResolves ==
  ASSUME NEW ctx, NEW c
  PROVE  Resolves(RenderSyntheticsHCL(ctx, c), {<<"type", TfName(c.name) \o "_artifact_bucket">>})
BY Refs DEF Resolves, Owns, RenderSyntheticsHCL, One, When, Refusal, OrRefuse

LEMMA ReservedIPResolves ==
  ASSUME NEW ctx, NEW c
  PROVE  Resolves(RenderReservedIPHCL(ctx, c), {<<"aws", "instance", TfName(c.target)>>, <<"digitalocean", "droplet", TfName(c.target)>>})
BY Refs DEF Resolves, Owns, RenderReservedIPHCL, One, When, Refusal, OrRefuse

\* Mail, scheduled triggers, roles, policies and sites are closed again.
LEMMA EmailResolves ==
  ASSUME NEW ctx, NEW c
  PROVE  Resolves(RenderEmailHCL(ctx, c), {})
<1>1. CASE ctx.provider = "aws"
  <2> DEFINE id   == <<"aws", "ses_domain_identity", TfName(c.name)>>
             dkim == <<"aws", "ses_domain_dkim", TfName(c.name)>>
  <2>1. RenderEmailHCL(ctx, c) = {Block(id, {}), Block(dkim, {id}), Block(<<"output", c.name \o "_dkim_tokens">>, {dkim})}
    BY <1>1 DEF RenderEmailHCL
  <2> HIDE DEF id, dkim
  <2> DEFINE S == {Block(id, {}), Block(dkim, {id}), Block(<<"output", c.name \o "_dkim_tokens">>, {dkim})}
             D == {id, dkim}
  <2>2. \A a \in D : Owns(S, a)
    BY DEF Owns
  <2>3. \A b \in S : \A a \in b.refs : Input(a) \/ a \in D \/ a \in {}
    BY Refs
  <2> HIDE DEF S, D
  <2>4. Resolves(S, {})
    BY <2>2, <2>3, Closing
  <2> QED BY <2>1, <2>4 DEF S
<1>2. CASE ctx.provider # "aws"
  <2> DEFINE settings == <<"local", TfName(c.name) \o "_smtp">>
  <2>1. RenderEmailHCL(ctx, c) = {Block(settings, {}), Block(<<"output", c.name \o "_smtp_relay">>, {settings})}
    BY <1>2 DEF RenderEmailHCL, renderEmailRelayHCL
  <2> HIDE DEF settings
  <2> QED BY <2>1, Refs DEF Resolves, Owns
<1> QED BY <1>1, <1>2

LEMMA TriggerResolves ==
  ASSUME NEW ctx, NEW c
  PROVE  Resolves(RenderScheduledTriggerHCL(ctx, c), {})
<1> DEFINE n == TfName(CanonicalName(c.name))
<1> HIDE DEF n
<1>1. Resolves(renderScheduledTriggerAWS(n, c), {})
  <2> DEFINE S == renderScheduledTriggerAWS(n, c)
             D == {<<"aws", "cloudwatch_event_rule", n>>}
  <2>1. \A a \in D : Owns(S, a)
    BY DEF Owns, renderScheduledTriggerAWS
  <2>2. \A b \in S : \A a \in b.refs : Input(a) \/ a \in D \/ a \in {}
    BY Refs DEF renderScheduledTriggerAWS, When
  <2> HIDE DEF S, D
  <2>3. Resolves(S, {})
    BY <2>1, <2>2, Closing
  <2> QED BY <2>3 DEF S
<1>2. Resolves(renderScheduledTriggerDO(n), {})
  BY Refs DEF Resolves, Owns, renderScheduledTriggerDO
<1> QED BY <1>1, <1>2 DEF RenderScheduledTriggerHCL, n

LEMMA IAMResolves ==
  ASSUME NEW ctx, NEW c
  PROVE  Resolves(RenderIAMHCL(ctx, c), {})
<1>1. Resolves(renderIAMAWS(c), {})
  <2> DEFINE S == renderIAMAWS(c)
             D == {<<"aws", "iam_role", TfName(c.name)>>}
  <2>1. \A a \in D : Owns(S, a)
    BY DEF Owns, renderIAMAWS, One
  <2>2. ASSUME NEW b \in S, NEW a \in b.refs PROVE Input(a) \/ a \in D \/ a \in {}
    BY Refs DEF Block, renderIAMAWS, One, When
  <2> HIDE DEF S, D
  <2>3. Resolves(S, {})
    BY <2>1, <2>2, Closing
  <2> QED BY <2>3 DEF S
<1>2. Resolves(renderIAMGCP(c), {})
  BY Refs DEF Resolves, Owns, renderIAMGCP, One
<1> QED BY <1>1, <1>2 DEF RenderIAMHCL

LEMMA PolicyResolves ==
  ASSUME NEW ctx, NEW c
  PROVE  Resolves(RenderAccessPolicyHCL(ctx, c), {})
<1>1. Resolves(renderAccessPolicyAWS(c), {})
  BY Refs DEF Block, Resolves, renderAccessPolicyAWS
<1>2. Resolves(renderAccessPolicyPortable(c), {})
  BY Refs DEF Block, Resolves, renderAccessPolicyPortable
<1> QED BY <1>1, <1>2 DEF RenderAccessPolicyHCL

LEMMA CloudflareCDNResolves ==
  ASSUME NEW c
  PROVE  Resolves(RenderCloudfareCDNHCL(c), {})
BY Refs DEF Resolves, Owns, RenderCloudfareCDNHCL, ZoneInput, ZoneID, ZoneVariable, One, When

LEMMA StaticSiteResolves ==
  ASSUME NEW ctx, NEW c
  PROVE  Resolves(RenderStaticSiteHCL(ctx, c), {})
<1> DEFINE d == Canonical(c)
<1>1. Resolves(renderStaticSiteAmplify(d), {})
  BY Refs DEF Resolves, Owns, renderStaticSiteAmplify, One
<1>2. Resolves(renderObjectStorageDO(d), {})
  BY Refs DEF Resolves, Owns, renderObjectStorageDO, One, When
<1>3. Resolves(RenderCloudfareCDNHCL(d), {})
  BY CloudflareCDNResolves
<1> HIDE DEF d
<1>4. Resolves(renderStaticSiteDO(d), {})
  BY <1>2, <1>3 DEF Resolves, Owns, renderStaticSiteDO, When
<1> QED BY <1>1, <1>4 DEF RenderStaticSiteHCL, d

\* Workload identity needs the operator's release; client access a network.
LEMMA IdentityResolves ==
  ASSUME NEW ctx, NEW c
  PROVE  Resolves(RenderWorkloadIdentityHCL(ctx, c), {Helm("vault_operator")})
<1> DEFINE n == TfName(CanonicalName(c.name))
           X == {Helm("vault_operator")}
<1> HIDE DEF n
<1>1. Resolves(renderWorkloadIdentityAWS(n, c), X)
  <2> DEFINE S == renderWorkloadIdentityAWS(n, c)
             D == {<<"aws", "iam_role", n>>}
  <2>1. \A a \in D : Owns(S, a)
    BY DEF Owns, renderWorkloadIdentityAWS, RoleBlocks
  <2>2. ASSUME NEW b \in S, NEW a \in b.refs PROVE Input(a) \/ a \in D \/ a \in X
    BY Refs DEF Block, renderWorkloadIdentityAWS, RoleBlocks, InstanceProfile
  <2> HIDE DEF S, D, X
  <2>3. Resolves(S, X)
    BY <2>1, <2>2, Closing
  <2> QED BY <2>3 DEF S
<1>2. Resolves(renderWorkloadIdentityDO(n, c), X)
  BY Refs DEF Resolves, Owns, renderWorkloadIdentityDO, renderOperatorComponent, renderOperatorCR, vaultOperatorDependsOn,
      renderClusterDataSource, renderHelmRelease, When
<1> HIDE DEF X
<1> QED BY <1>1, <1>2 DEF RenderWorkloadIdentityHCL, X, n

LEMMA VPNAccessResolves ==
  ASSUME NEW ctx, NEW c
  PROVE  Resolves(RenderVPNAccessHCL(ctx, c), {VPC, <<"aws", "vpc", TfName(c.target)>>})
<1> DEFINE n     == TfName(c.name)
           vpc   == IF c.target = NoTarget THEN <<"data", "aws", "vpc", "default">> ELSE <<"aws", "vpc", TfName(c.target)>>
           door  == <<"aws", "security_group", n \o "_jit">>
           table == <<"aws", "dynamodb_table", n \o "_jit_allowlist">>
           policy == <<"aws", "iam_policy", n \o "_jit_policy">>
           tie   == <<"aws", "iam_role_policy_attachment", n \o "_jit_policy">>
           id    == <<"output", n \o "_jit_sg_id">>
           X     == {VPC, <<"aws", "vpc", TfName(c.target)>>}
<1>1. RenderVPNAccessHCL(ctx, c)
        = {Block(door, {vpc}), Block(table, {}), Block(policy, {table}), Block(tie, {policy}), Block(id, {door})}
  BY DEF RenderVPNAccessHCL
<1>2. vpc \in X
  BY DEF VPC
<1> HIDE DEF n, vpc, door, table, policy, tie, id, X
<1>3. Resolves(RenderVPNAccessHCL(ctx, c), X)
  BY <1>1, <1>2, Refs DEF Resolves, Owns
<1> QED BY <1>3 DEF X

\* A key-value store lies in the network.
LEMMA KeyValueResolves ==
  ASSUME NEW ctx, NEW c, ctx.provider \in {"aws", "digitalocean"}
  PROVE  Resolves(RenderKeyValueStoreHCL(ctx, c), Supplied(ctx))
<1> DEFINE n == TfName(CanonicalName(c.name))
<1>1. CASE ctx.provider = "aws"
  BY <1>1, Refs DEF Resolves, RenderKeyValueStoreHCL
<1>2. CASE ctx.provider = "digitalocean"
  <2>1. HasNetwork(ctx) => <<"digitalocean", "vpc", TfName(ctx.network)>> \in Supplied(ctx)
    BY <1>2, DOSupplies, Joined DEF DOVPCRef, NetRef, When
  <2>2. RenderKeyValueStoreHCL(ctx, c)
          = {Block(<<"digitalocean", "database_cluster", n>>,
                   When(HasNetwork(ctx), {<<"digitalocean", "vpc", TfName(ctx.network)>>}))}
    BY <1>2 DEF RenderKeyValueStoreHCL
  <2> QED BY <2>1, <2>2, Refs DEF Resolves, When
<1> QED BY <1>1, <1>2

\* A volume leads to the first instance of its machine, an attachment to the
\* scale group it attaches.
LEMMA VolumeResolves ==
  ASSUME NEW ctx, NEW c
  PROVE  Resolves(RenderVMVolumeHCL(ctx, c), MachineOf(ctx.provider, TfName(c.target \o "-1")))
<1> DEFINE n  == TfName(c.name)
           vm == TfName(c.target \o "-1")
<1>1. CASE ctx.provider = "aws"
  BY <1>1, Refs DEF Resolves, Owns, RenderVMVolumeHCL, MachineOf
<1>2. CASE ctx.provider = "gcp"
  BY <1>2, Refs DEF Resolves, Owns, RenderVMVolumeHCL, MachineOf
<1>3. CASE ctx.provider = "digitalocean"
  BY <1>3, Refs DEF Resolves, Owns, RenderVMVolumeHCL, MachineOf
<1>4. CASE ctx.provider \notin {"aws", "gcp", "digitalocean"}
  BY <1>4, RefusedResolves DEF RenderVMVolumeHCL
<1> QED BY <1>1, <1>2, <1>3, <1>4

LEMMA AttachResolves ==
  ASSUME NEW ctx, NEW c, ctx.provider = "aws"
  PROVE  Resolves(RenderAttachToExistingALBHCL(ctx, c), Supplied(ctx) \cup ScaleGroupOf(ctx.provider, c.target))
<1> DEFINE X == Supplied(ctx) \cup ScaleGroupOf(ctx.provider, c.target)
<1>1. VPC \in X /\ ASG(c.target) \in X
  BY AWSSupplies DEF ScaleGroupOf
<1> HIDE DEF X
<1>2. Resolves(RenderAttachToExistingALBHCL(ctx, c), X)
  BY <1>1, Refs DEF Resolves, Owns, RenderAttachToExistingALBHCL, When
<1> QED BY <1>2 DEF X

\* A secret store that is a Vault cluster, and a pipeline's control plane.
LEMMA VaultAliasResolves ==
  ASSUME NEW ctx, NEW c
  PROVE  Resolves(assembleVaultHAAlias(ctx, c), {})
<1> DEFINE d == [c EXCEPT !.opts = c.opts \cup {"cluster_name"}]
<1>1. Resolves(RenderVaultHAHCL(ctx, d), {})
  BY VaultResolves
<1> HIDE DEF d
<1> QED BY <1>1, AcceptedResolves DEF assembleVaultHAAlias, d

LEMMA PipelineCloses ==
  ASSUME NEW n, NEW c
  PROVE  Resolves(renderPipelineControlPlaneAWS(n, c), {})
<1> DEFINE bare == ""
           A(type, suffix) == <<"aws", type, n \o suffix>>
           Wanted(given, v)  == When(~given, {<<"var", n \o v>>})
           Packaged == pclVar(Has(c, "artifact"), n \o "_runner_package")
           Imaged   == pclVar(FALSE, n \o "_fargate_image")
           Defined  == pclVar(Has(c, "definition"), n \o "_asl")
           image    == <<"var", n \o "_fargate_image">>
           Roles    == {Block(A("iam_role", r), {}) : r \in {"_runner", "_task", "_codebuild", "_sfn"}}
           R1 == {A("iam_role", "_sfn"), A("lambda_function", "_runner"), A("codebuild_project", bare)}
           R2 == {A("iam_role", "_runner")} \cup Wanted(Has(c, "artifact"), "_runner_package")
           R3 == {A("iam_role", "_task"), image}
           R4 == {A("iam_role", "_sfn")} \cup Wanted(Has(c, "definition"), "_asl")
                 \cup When(Has(c, "definition"), {A("lambda_function", "_runner")})
           R5 == {}
           One1(type, suffix) == {A(type, suffix)}
           Always   == {Block(A("iam_role_policy_attachment", "_runner_basic"), One1("iam_role", "_runner")),
                        Block(A("iam_role_policy_attachment", "_task_exec"), One1("iam_role", "_task")),
                        Block(A("iam_role_policy", "_codebuild_logs"), One1("iam_role", "_codebuild")),
                        Block(A("iam_role_policy", "_sfn_invoke"), R1), Block(A("lambda_function", "_runner"), R2),
                        Block(A("ecs_cluster", bare), R5),
                        Block(A("ecs_cluster_capacity_providers", bare), One1("ecs_cluster", bare)),
                        Block(A("ecs_task_definition", bare), R3),
                        Block(A("codebuild_project", bare), One1("iam_role", "_codebuild")),
                        Block(A("sfn_state_machine", bare), R4)}
           Github   == {Block(A("iam_openid_connect_provider", "_github"), {}),
                        Block(A("iam_role", "_github_ci"), {A("iam_openid_connect_provider", "_github")}),
                        Block(A("iam_role_policy", "_github_ci_start"),
                              {A("iam_role", "_github_ci"), A("sfn_state_machine", bare)})}
           S == renderPipelineControlPlaneAWS(n, c)
           D == {A("iam_role", "_runner"), A("iam_role", "_task"), A("iam_role", "_codebuild"), A("iam_role", "_sfn"),
                 A("lambda_function", "_runner"), A("codebuild_project", bare), A("ecs_cluster", bare), A("sfn_state_machine", bare)}
           G == {A("iam_role", "_github_ci"), A("iam_openid_connect_provider", "_github")}
<1>1. S = Roles \cup Always \cup Packaged \cup Imaged \cup Defined \cup When(Has(c, "github_oidc"), Github)
  BY DEF renderPipelineControlPlaneAWS
<1>2. \A b \in Packaged \cup Imaged \cup Defined : b.refs = {}
  BY Refs DEF pclVar, Variable, When
<1>3. \A given, v : \A a \in Wanted(given, v) : Input(a)
  BY Refs DEF When
<1>4. Input(image)
  BY Refs
<1> HIDE DEF bare, A, Wanted, Packaged, Imaged, Defined, image, S
<1>5. \A a \in D : Owns(S, a)
  <2>1. \A r \in {"_runner", "_task", "_codebuild", "_sfn"} : Owns(Roles, A("iam_role", r))
    BY DEF Owns
  <2>2. \A a \in {A("lambda_function", "_runner"), A("codebuild_project", bare), A("ecs_cluster", bare), A("sfn_state_machine", bare)} :
           Owns(Always, a)
    BY DEF Owns
  <2> HIDE DEF Roles, Always
  <2> QED BY <1>1, <2>1, <2>2 DEF Owns
<1>6. Has(c, "github_oidc") => \A a \in G : Owns(S, a)
  BY <1>1 DEF Owns, When
<1>7. \A b \in Roles : b.refs = {}
  BY Refs
<1>8. \A b \in Always : \A a \in b.refs : Input(a) \/ a \in D
  <2>1. \A a, r : Block(a, r).refs = r
    BY Refs
  <2>2. /\ \A a \in R1 : a \in D
        /\ \A a \in R3 : Input(a) \/ a \in D
    BY <1>4
  <2>3. \A a \in R2 : Input(a) \/ a \in D
    BY <1>3
  <2>4. \A a \in R4 : Input(a) \/ a \in D
    BY <1>3 DEF When
  <2>5. /\ One1("iam_role", "_runner") \subseteq D /\ One1("iam_role", "_task") \subseteq D
        /\ One1("iam_role", "_codebuild") \subseteq D /\ One1("ecs_cluster", bare) \subseteq D
    OBVIOUS
  <2> HIDE DEF R1, R2, R3, R4, R5, One1, D
  <2>6. ASSUME NEW b \in Always, NEW a \in b.refs
        PROVE  \/ a \in R1 \/ a \in R2 \/ a \in R3 \/ a \in R4 \/ a \in R5
               \/ a \in One1("iam_role", "_runner") \/ a \in One1("iam_role", "_task")
               \/ a \in One1("iam_role", "_codebuild") \/ a \in One1("ecs_cluster", bare)
    BY <2>1
  <2> HIDE DEF Always
  <2> QED BY <2>2, <2>3, <2>4, <2>5, <2>6 DEF R5
<1>9. \A b \in Github : \A a \in b.refs : a \in D \/ a \in G
  <2>1. \A b \in Github : b.refs \subseteq {A("iam_openid_connect_provider", "_github"), A("iam_role", "_github_ci"), A("sfn_state_machine", bare)}
    BY Refs
  <2>2. A("sfn_state_machine", bare) \in D
    OBVIOUS
  <2>3. A("iam_openid_connect_provider", "_github") \in G /\ A("iam_role", "_github_ci") \in G
    OBVIOUS
  <2> HIDE DEF Github, D, G
  <2> QED BY <2>1, <2>2, <2>3
<1> HIDE DEF Roles, Always, Github, D, G, R1, R2, R3, R4, R5, One1
<1>10. Resolves(S, {})
  BY <1>1, <1>2, <1>5, <1>6, <1>7, <1>8, <1>9 DEF Resolves, When
<1> QED BY <1>10 DEF S

LEMMA PipelineResolves ==
  ASSUME NEW ctx, NEW c
  PROVE  Resolves(RenderPipelineControlPlaneHCL(ctx, c), {})
BY PipelineCloses, AcceptedResolves DEF RenderPipelineControlPlaneHCL

\* A network refers to nothing but itself, on every cloud.
LEMMA NetworkResolves ==
  ASSUME NEW ctx, NEW net
  PROVE  Resolves(RenderHCL(ctx, net), {})
<1>1. CASE ctx.provider = "aws"
  <2> DEFINE all == <<"data", "aws", "subnets", "default">>
             S   == renderAWS(net)
  <2>1. S = {Block(VPC, {}), Block(all, {VPC})}
            \cup {Block(<<"data", "aws", "subnet", SubnetLabel(net.name, i)>>, {all}) : i \in net.subnets}
    BY DEF renderAWS
  <2> HIDE DEF all, S
  <2>2. Resolves(S, {})
    BY <2>1, Refs DEF Resolves, Owns
  <2> QED BY <1>1, <2>2, Adapters DEF RenderHCL, S
<1>2. CASE ctx.provider = "gcp"
  <2>1. Resolves(renderGCP(net), {})
    BY Refs DEF Resolves, Owns, renderGCP, One
  <2> QED BY <1>2, <2>1, Adapters DEF RenderHCL
<1>3. CASE ctx.provider = "digitalocean"
  <2>1. Resolves(renderDO(net), {})
    BY Refs DEF Resolves, renderDO, One
  <2> QED BY <1>3, <2>1, Adapters DEF RenderHCL
<1>4. CASE ctx.provider = "azure"
  <2> DEFINE own == Azure("resource_group", TfName(net.name) \o "_rg")
             vnet  == Azure("virtual_network", TfName(net.name))
             S     == renderNetworkAzure(net)
  <2>1. S = {Block(own, {}), Block(vnet, {own})}
            \cup {Block(Azure("subnet", SubnetLabel(net.name, i)), {own, vnet}) : i \in net.subnets}
    BY DEF renderNetworkAzure
  <2> HIDE DEF own, vnet, S
  <2>2. Resolves(S, {})
    BY <2>1, Refs DEF Resolves, Owns
  <2> QED BY <1>4, <2>2, Adapters DEF RenderHCL, S
<1>5. CASE ctx.provider = "linode"
  <2>1. Resolves(renderLinodeNetwork(net), {})
    BY Refs DEF Resolves, Owns, renderLinodeNetwork, One
  <2> QED BY <1>5, <2>1, Adapters DEF RenderHCL
<1>6. CASE ctx.provider = "ubicloud"
  <2>1. Resolves(renderNetworkUbicloud(net), {})
    BY Refs DEF Resolves, Owns, renderNetworkUbicloud, One, Project
  <2> QED BY <1>6, <2>1, Adapters DEF RenderHCL
<1>7. CASE ctx.provider = "oracle"
  <2>1. Resolves(renderOCI(net), {})
    BY Refs DEF Resolves, Owns, renderOCI, InCompartment, Compartment
  <2> QED BY <1>7, <2>1, Adapters DEF RenderHCL
<1>8. CASE ctx.provider = "ibm"
  <2>1. Resolves(renderNetworkIBM(net), {})
    BY Refs DEF Resolves, Owns, renderNetworkIBM, InGroup, IBMGroupID, One
  <2> QED BY <1>8, <2>1, Adapters DEF RenderHCL
<1>9. CASE ctx.provider = "alibaba"
  <2>1. Resolves(renderAlibaba(net), {})
    BY Refs DEF Resolves, Owns, renderAlibaba, One
  <2> QED BY <1>9, <2>1, Adapters DEF RenderHCL
<1>10. CASE ctx.provider = "ovh"
  <2>1. Resolves(renderNetworkOVH(net), {})
    BY Refs DEF Resolves, Owns, renderNetworkOVH, OVH, OVHNet, Service
  <2> QED BY <1>10, <2>1, Adapters DEF RenderHCL
<1>11. CASE ctx.provider = "stackit"
  <2>1. Resolves(renderStackItNetwork(net), {})
    BY Refs DEF Resolves, Owns, renderStackItNetwork, InProject
  <2> QED BY <1>11, <2>1, Adapters DEF RenderHCL
<1>12. CASE IsAdapter(ctx.provider)
  <2> DEFINE m       == ManifestOf(ctx.provider)
             network == m.net \o <<TfName(net.name)>>
             own     == m.net[1] = "openstack"
             Label(i)  == IF own THEN TfName(net.name) ELSE SubnetLabel(net.name, i)
             Subnet(i) == Block(m.subnet \o <<Label(i)>>, When(m.joined, {network}))
             S == RenderAdapterNetwork(m, net)
  <2> HIDE DEF m
  <2>1. S = IF m.net = NoTemplate THEN {}
            ELSE One(network, {}) \cup When(m.subnet # NoTemplate, {Subnet(i) : i \in net.subnets})
    BY DEF RenderAdapterNetwork
  <2>2. \A i : Subnet(i).refs = When(m.joined, {network})
    BY Refs
  <2> HIDE DEF S, Subnet, network
  <2>3. Resolves(S, {})
    BY <2>1, <2>2, Refs DEF Resolves, Owns, One, When
  <2> QED BY <1>12, <2>3, Adapters DEF RenderHCL, S, m
<1>13. CASE ~(IsAdapter(ctx.provider) \/ ctx.provider \in {"aws", "gcp", "digitalocean", "azure", "linode", "ubicloud",
                                                          "oracle", "ibm", "alibaba", "ovh", "stackit"})
  BY <1>13, RefusedResolves, Adapters DEF RenderHCL
<1> QED BY <1>1, <1>2, <1>3, <1>4, <1>5, <1>6, <1>7, <1>8, <1>9, <1>10, <1>11, <1>12, <1>13

\* The groups that the rules of a group name.
Named(sg) ==
  UNION {{<<"aws", "security_group", TfName(sg.rules[i].from)>>, NSG(sg.rules[i].from), IBMGroupOf(sg.rules[i].from),
          AliGroupOf(sg.rules[i].from), StackItGroup(sg.rules[i].from)} :
           i \in {j \in DOMAIN sg.rules : sg.rules[j].scope = "group"}}

\* A group leads to its network and to the groups its rules name.
LEMMA GroupResolves ==
  ASSUME NEW ctx, NEW sg, \A i \in DOMAIN sg.rules : sg.rules[i].scope # "prefix"
  PROVE  Resolves(RenderSGHCL(ctx, sg), Supplied(ctx) \cup Named(sg))
<1> DEFINE X == Supplied(ctx) \cup Named(sg)
<1>0. \A i \in DOMAIN sg.rules : sg.rules[i].scope = "group" =>
        /\ <<"aws", "security_group", TfName(sg.rules[i].from)>> \in X /\ NSG(sg.rules[i].from) \in X
        /\ IBMGroupOf(sg.rules[i].from) \in X /\ AliGroupOf(sg.rules[i].from) \in X /\ StackItGroup(sg.rules[i].from) \in X
  BY DEF Named
<1> HIDE DEF X
<1>1. CASE ctx.provider = "aws"
  <2> DEFINE S     == renderSGAWS(sg)
             own == <<"aws", "security_group", TfName(sg.name)>>
             Good(b) == b.refs \subseteq {VPC, own} \/ \E i \in DOMAIN sg.rules :
                          sg.rules[i].scope = "group" /\ b.refs = {own, <<"aws", "security_group", TfName(sg.rules[i].from)>>}
  <2>1. VPC \in X
    BY <1>1, AWSSupplies DEF X
  <2>2. Owns(S, own)
    BY DEF Owns, renderSGAWS, One
  <2>3. ASSUME NEW b \in S PROVE Good(b)
    <3>1. \A l, s : writeAWSSecurityGroupRule(sg, l, s).refs = {own} \cup s
      BY Refs DEF writeAWSSecurityGroupRule
    <3>2. CASE b \in One(own, {VPC})
      BY <3>2, Refs DEF One
    <3>3. CASE b \notin One(own, {VPC})
      <4> DEFINE Label(i) == TfName(sg.name) \o "_" \o sg.rules[i].dir \o "_" \o i
                 Ranges(i) ==
                   LET r == sg.rules[i]
                   IN {IF r.v6 = {} /\ v = "_0" THEN Label(i) ELSE Label(i) \o "_ipv4" \o v : v \in r.v4}
                      \cup {Label(i) \o "_ipv6" \o v : v \in r.v6}
                 Source(r) == CASE r.scope = "group"  -> {<<"aws", "security_group", TfName(r.from)>>}
                                [] r.scope = "prefix" -> {<<"aws", "ec2_managed_prefix_list", TfName(r.from)>>}
                                [] OTHER -> {}
                 Rules(i) == IF sg.rules[i].scope = "cidr"
                               THEN {writeAWSSecurityGroupRule(sg, l, {}) : l \in Ranges(i)}
                               ELSE {writeAWSSecurityGroupRule(sg, Label(i), Source(sg.rules[i]))}
      <4>1. S = One(own, {VPC}) \cup UNION {Rules(i) : i \in DOMAIN sg.rules}
        BY DEF renderSGAWS
      <4>2. PICK i \in DOMAIN sg.rules : b \in Rules(i)
        <5> HIDE DEF S, Rules
        <5> QED BY <3>3, <4>1
      <4> HIDE DEF Ranges, Label
      <4>3. \/ \E l : b = writeAWSSecurityGroupRule(sg, l, {})
            \/ b = writeAWSSecurityGroupRule(sg, Label(i), Source(sg.rules[i]))
        <5> HIDE DEF S, Source
        <5> QED BY <4>2
      <4>4. \/ Source(sg.rules[i]) = {}
            \/ sg.rules[i].scope = "group" /\ Source(sg.rules[i]) = {<<"aws", "security_group", TfName(sg.rules[i].from)>>}
        OBVIOUS
      <4> HIDE DEF S, Source
      <4>5. b.refs = {own} \/ b.refs = {own} \cup Source(sg.rules[i])
        BY <3>1, <4>3
      <4> QED BY <4>4, <4>5
    <3> QED BY <3>2, <3>3
  <2> HIDE DEF S, own
  <2>4. Resolves(S, X)
    BY <1>0, <2>1, <2>2, <2>3 DEF Resolves
  <2> QED BY <1>1, <2>4, Adapters DEF RenderSGHCL, S, X
<1>2. CASE ctx.provider = "gcp"
  <2>1. Resolves(renderSGGCP(ctx, sg), GCPNetRef(ctx))
    <3> DEFINE Wall(d) == Block(<<"google", "compute_firewall", TfName(sg.name) \o "_" \o d>>, GCPNetRef(ctx))
               dirs == {sg.rules[i].dir : i \in DOMAIN sg.rules}
               S    == renderSGGCP(ctx, sg)
    <3>1. S = {Wall(d) : d \in dirs}
      BY DEF renderSGGCP
    <3>2. \A d : Wall(d).refs = GCPNetRef(ctx)
      BY Refs
    <3> HIDE DEF Wall, dirs, S
    <3>3. Resolves(S, GCPNetRef(ctx))
      BY <3>1, <3>2 DEF Resolves
    <3> QED BY <3>3 DEF S
  <2>2. GCPNetRef(ctx) \subseteq X
    BY <1>2, GCPSupplies DEF X
  <2> QED BY <1>2, <2>1, <2>2, Wider, Adapters DEF RenderSGHCL, X
<1>3. CASE ctx.provider = "digitalocean"
  <2> DEFINE Wall(t) ==
               Selecting(Block(<<"digitalocean", "firewall", TfName(sg.name) \o "_" \o TfName(ServiceOf(t))>>, {}), {t})
             S == renderSGDO(sg)
  <2>1. S = IF sg.tags = {} THEN One(<<"digitalocean", "firewall", TfName(sg.name)>>, {}) ELSE {Wall(t) : t \in sg.tags}
    BY DEF renderSGDO
  <2>2. \A t : Wall(t).refs = {}
    BY Refs
  <2> HIDE DEF Wall, S
  <2>3. Resolves(S, X)
    BY <2>1, <2>2, Refs DEF Resolves, One
  <2> QED BY <1>3, <2>3, Adapters DEF RenderSGHCL, S, X
<1>4. CASE ctx.provider = "azure"
  <2>1. Resolves(renderSGAzure(ctx, sg), azureRGRef(ctx))
    <3> DEFINE own == Azure("network_security_group", TfName(sg.name))
               Rule(i) == Block(Azure("network_security_rule", TfName(sg.name) \o "_" \o sg.rules[i].dir \o "_" \o i),
                                {own} \cup azureRGRef(ctx))
               S == renderSGAzure(ctx, sg)
    <3>1. S = One(own, azureRGRef(ctx)) \cup {Rule(i) : i \in DOMAIN sg.rules}
      BY DEF renderSGAzure
    <3>2. \A i : Rule(i).refs = {own} \cup azureRGRef(ctx)
      BY Refs
    <3> HIDE DEF own, Rule, S
    <3>3. Owns(S, own)
      BY <3>1 DEF Owns, One
    <3>4. Resolves(S, azureRGRef(ctx))
      BY <3>1, <3>2, <3>3, Refs DEF Resolves, One
    <3> QED BY <3>4 DEF S
  <2>2. azureRGRef(ctx) \subseteq X
    BY <1>4, AzureSupplies DEF X
  <2> QED BY <1>4, <2>1, <2>2, Wider, Adapters DEF RenderSGHCL, X
<1>5. CASE ctx.provider = "linode"
  <2>1. Resolves(renderSGLinode(sg), X)
    BY Refs DEF Resolves, renderSGLinode, One
  <2> QED BY <1>5, <2>1, Adapters DEF RenderSGHCL, X
<1>6. CASE ctx.provider = "ubicloud"
  <2> DEFINE S == renderSGUbicloud(sg)
             firewall == Ubicloud("firewall", TfName(sg.name))
             D == {firewall}
  <2>1. \A a \in D : Owns(S, a)
    BY DEF Owns, renderSGUbicloud, One
  <2>2. ASSUME NEW b \in S, NEW a \in b.refs PROVE Input(a) \/ a \in D \/ a \in X
    <3> DEFINE Ranges(r) == When(r.dir = "ingress" /\ r.scope # "group", r.v4 \cup {"_ipv6" \o v : v \in r.v6})
               Rule(i, v) == Block(Ubicloud("firewall_rule", TfName(sg.name) \o "_rule_" \o i \o v), {Project, firewall})
               Rules(i) == {Rule(i, v) : v \in Ranges(sg.rules[i])}
    <3>1. S = One(firewall, {Project}) \cup UNION {Rules(i) : i \in DOMAIN sg.rules}
      BY DEF renderSGUbicloud
    <3>2. \A i, v : Rule(i, v).refs = {Project, firewall}
      BY Refs
    <3> HIDE DEF Rule, Ranges
    <3>3. \A i : \A b1 \in Rules(i) : b1.refs = {Project, firewall}
      BY <3>2
    <3> HIDE DEF Rules, S, firewall
    <3>4. b.refs \subseteq {Project, firewall}
      BY <3>1, <3>3, Refs DEF One
    <3> QED BY <3>4, Refs DEF Project
  <2> HIDE DEF S, D
  <2>3. Resolves(S, X)
    BY <2>1, <2>2, Closing
  <2> QED BY <1>6, <2>3, Adapters DEF RenderSGHCL, S, X
<1>7. CASE ctx.provider = "oracle"
  <2> DEFINE S == renderSGOCI(ctx, sg)
             D == {NSG(sg.name)}
  <2>1. \A a \in D : Owns(S, a)
    BY DEF Owns, renderSGOCI, One
  <2>2. VCN(ctx) \subseteq X
    BY <1>7, OCISupplies DEF X
  <2>3. ASSUME NEW b \in S, NEW a \in b.refs PROVE Input(a) \/ a \in D \/ a \in X
    <3> DEFINE Rule(i) == Block(OCI("core_network_security_group_security_rule", TfName(sg.name) \o "_" \o sg.rules[i].dir \o "_" \o i),
                                {NSG(sg.name)} \cup When(sg.rules[i].scope = "group", {NSG(sg.rules[i].from)}))
               head == One(NSG(sg.name), {Compartment} \cup OrVariable(VCN(ctx), "vcn_id"))
    <3>0. S = head \cup {Rule(i) : i \in DOMAIN sg.rules}
      BY DEF renderSGOCI
    <3>1. /\ \A i : Rule(i).refs = {NSG(sg.name)} \cup When(sg.rules[i].scope = "group", {NSG(sg.rules[i].from)})
          /\ \A b1 \in head : b1.refs = {Compartment} \cup OrVariable(VCN(ctx), "vcn_id")
      BY Refs DEF One
    <3> HIDE DEF S, Rule, head, D
    <3>2. \/ b.refs = {Compartment} \cup OrVariable(VCN(ctx), "vcn_id")
          \/ b.refs = {NSG(sg.name)}
          \/ \E i \in DOMAIN sg.rules : sg.rules[i].scope = "group" /\ b.refs = {NSG(sg.name), NSG(sg.rules[i].from)}
      BY <3>0, <3>1 DEF When
    <3>3. Input(Compartment) /\ \A x \in OrVariable(VCN(ctx), "vcn_id") : Input(x) \/ x \in VCN(ctx)
      BY Refs DEF OrVariable, Compartment
    <3> HIDE DEF D
    <3> QED BY <1>0, <2>2, <3>2, <3>3 DEF D
  <2> HIDE DEF S, D
  <2>4. Resolves(S, X)
    BY <2>1, <2>3, Closing
  <2> QED BY <1>7, <2>4, Adapters DEF RenderSGHCL, S, X
<1>8. CASE ctx.provider = "ibm"
  <2> DEFINE S == renderSGIBM(ctx, sg)
             D == {IBMGroupOf(sg.name)}
             Rule(i, remote, refs) ==
               Block(IBM("is_security_group_rule", TfName(sg.name) \o "_" \o sg.rules[i].dir \o "_" \o i \o remote),
                     {IBMGroupOf(sg.name)} \cup refs)
  <2>1. \A a \in D : Owns(S, a)
    BY DEF Owns, renderSGIBM, InGroup, IBMGroupOf
  <2>2. IBMVPC(ctx) \subseteq X
    BY <1>8, IBMSupplies DEF X
  <2>3. ASSUME NEW b \in S, NEW a \in b.refs PROVE Input(a) \/ a \in D \/ a \in X
    <3> DEFINE Ranges(r) == r.v4 \cup {"_ipv6" \o v : v \in r.v6}
               Rules(i) == LET r == sg.rules[i]
                           IN CASE r.scope = "group" -> {Rule(i, "", {IBMGroupOf(r.from)})}
                                [] r.scope # "group" /\ Ranges(r) = {} -> {Rule(i, "", {})}
                                [] OTHER -> {Rule(i, v, {}) : v \in Ranges(r)}
    <3>0. S = {InGroup("is_security_group", TfName(sg.name), IBMVPC(ctx))} \cup UNION {Rules(i) : i \in DOMAIN sg.rules}
      BY DEF renderSGIBM
    <3>01. b = InGroup("is_security_group", TfName(sg.name), IBMVPC(ctx)) \/ \E i \in DOMAIN sg.rules : b \in Rules(i)
      <4> HIDE DEF S, Rules
      <4> QED BY <3>0
    <3>1. \/ b = InGroup("is_security_group", TfName(sg.name), IBMVPC(ctx))
          \/ \E i \in DOMAIN sg.rules : \/ \E v : b = Rule(i, v, {})
                                        \/ sg.rules[i].scope = "group" /\ \E v : b = Rule(i, v, {IBMGroupOf(sg.rules[i].from)})
      <4>1. CASE b = InGroup("is_security_group", TfName(sg.name), IBMVPC(ctx))
        BY <4>1
      <4>2. CASE \E i \in DOMAIN sg.rules : b \in Rules(i)
        <5>1. PICK i \in DOMAIN sg.rules : b \in Rules(i)
          BY <4>2
        <5> HIDE DEF S, Rule, Ranges
        <5>2. \/ \E v : b = Rule(i, v, {})
              \/ sg.rules[i].scope = "group" /\ \E v : b = Rule(i, v, {IBMGroupOf(sg.rules[i].from)})
          BY <5>1
        <5> QED BY <5>2
      <4> QED BY <3>01, <4>1, <4>2
    <3>2. \A i, v, r : Rule(i, v, r).refs = {IBMGroupOf(sg.name)} \cup r
      BY Refs
    <3>3. InGroup("is_security_group", TfName(sg.name), IBMVPC(ctx)).refs = {IBMGroupID} \cup IBMVPC(ctx)
      BY Refs DEF InGroup
    <3>4. Input(IBMGroupID)
      BY Refs DEF IBMGroupID
    <3> HIDE DEF S, Rule
    <3>5. \/ b.refs = {IBMGroupID} \cup IBMVPC(ctx)
          \/ b.refs = {IBMGroupOf(sg.name)}
          \/ \E i \in DOMAIN sg.rules : sg.rules[i].scope = "group" /\ b.refs = {IBMGroupOf(sg.name), IBMGroupOf(sg.rules[i].from)}
      <4>1. CASE b = InGroup("is_security_group", TfName(sg.name), IBMVPC(ctx))
        BY <3>3, <4>1
      <4>2. CASE b # InGroup("is_security_group", TfName(sg.name), IBMVPC(ctx))
        <5>1. PICK i \in DOMAIN sg.rules : \/ \E v : b = Rule(i, v, {})
                                           \/ sg.rules[i].scope = "group" /\ \E v : b = Rule(i, v, {IBMGroupOf(sg.rules[i].from)})
          BY <3>1, <4>2
        <5> QED BY <3>2, <5>1
      <4> QED BY <4>1, <4>2
    <3> QED BY <1>0, <2>2, <3>4, <3>5
  <2> HIDE DEF S, D
  <2>4. Resolves(S, X)
    BY <2>1, <2>3, Closing
  <2> QED BY <1>8, <2>4, Adapters DEF RenderSGHCL, S, X
<1>9. CASE ctx.provider = "alibaba"
  <2> DEFINE S == renderSGAlibaba(ctx, sg)
             D == {AliGroupOf(sg.name)}
  <2>1. \A a \in D : Owns(S, a)
    BY DEF Owns, renderSGAlibaba, One
  <2>2. AliVPC(ctx) \subseteq X
    BY <1>9, AlibabaSupplies DEF X
  <2>3. ASSUME NEW b \in S, NEW a \in b.refs PROVE Input(a) \/ a \in D \/ a \in X
    <3> DEFINE Rule(i) == Block(Ali("security_group_rule", TfName(sg.name) \o "_" \o sg.rules[i].dir \o "_" \o i),
                                {AliGroupOf(sg.name)} \cup When(sg.rules[i].scope = "group", {AliGroupOf(sg.rules[i].from)}))
               head == One(AliGroupOf(sg.name), AliVPC(ctx))
    <3>0. S = head \cup {Rule(i) : i \in DOMAIN sg.rules}
      BY DEF renderSGAlibaba
    <3>1. /\ \A i : Rule(i).refs = {AliGroupOf(sg.name)} \cup When(sg.rules[i].scope = "group", {AliGroupOf(sg.rules[i].from)})
          /\ \A b1 \in head : b1.refs = AliVPC(ctx)
      BY Refs DEF One
    <3> HIDE DEF S, Rule, head
    <3>2. \/ b.refs = AliVPC(ctx)
          \/ b.refs = {AliGroupOf(sg.name)}
          \/ \E i \in DOMAIN sg.rules : sg.rules[i].scope = "group" /\ b.refs = {AliGroupOf(sg.name), AliGroupOf(sg.rules[i].from)}
      BY <3>0, <3>1 DEF When
    <3> QED BY <1>0, <2>2, <3>2
  <2> HIDE DEF S, D
  <2>4. Resolves(S, X)
    BY <2>1, <2>3, Closing
  <2> QED BY <1>9, <2>4, Adapters DEF RenderSGHCL, S, X
<1>10. CASE ctx.provider = "stackit"
  <2> DEFINE S == renderStackItSG(sg)
             D == {StackItGroup(sg.name)}
  <2>1. \A a \in D : Owns(S, a)
    BY DEF Owns, renderStackItSG, InProject, StackItGroup
  <2>2. ASSUME NEW b \in S, NEW a \in b.refs PROVE Input(a) \/ a \in D \/ a \in X
    <3> DEFINE project == <<"var", "stackit_project_id">>
               Rule(i) == InProject("security_group_rule", TfName(sg.name) \o "_rule_" \o i,
                                    {StackItGroup(sg.name)} \cup When(sg.rules[i].scope = "group", {StackItGroup(sg.rules[i].from)}))
               head == InProject("security_group", TfName(sg.name), {})
    <3>0. S = {head} \cup {Rule(i) : i \in DOMAIN sg.rules}
      BY DEF renderStackItSG
    <3>1. /\ \A i : Rule(i).refs = {project, StackItGroup(sg.name)} \cup When(sg.rules[i].scope = "group", {StackItGroup(sg.rules[i].from)})
          /\ head.refs = {project}
      BY Refs DEF InProject
    <3>2. Input(project)
      BY Refs
    <3> HIDE DEF S, Rule, head, project
    <3>3. \/ b.refs = {project} \/ b.refs = {project, StackItGroup(sg.name)}
          \/ \E i \in DOMAIN sg.rules : /\ sg.rules[i].scope = "group"
                                        /\ b.refs = {project, StackItGroup(sg.name), StackItGroup(sg.rules[i].from)}
      BY <3>0, <3>1 DEF When
    <3> QED BY <1>0, <3>2, <3>3
  <2> HIDE DEF S, D
  <2>3. Resolves(S, X)
    BY <2>1, <2>2, Closing
  <2> QED BY <1>10, <2>3, Adapters DEF RenderSGHCL, S, X
<1>11. CASE IsAdapter(ctx.provider)
  <2> DEFINE m == ManifestOf(ctx.provider)
             S == RenderAdapterSG(m, sg)
             T == One(m.sg \o <<TfName(sg.name)>>, IF m.sg[1] = "vsphere" THEN {<<"var", v>> : v \in m.asks \ {"vsphere_template_uuid"}} ELSE {})
                  \cup When(m.rule # NoTemplate,
                            {Block(m.rule \o <<TfName(sg.name) \o "_" \o r.proto \o r.port>>, {m.sg \o <<TfName(sg.name)>>}) :
                               r \in {q \in {sg.rules[i] : i \in DOMAIN sg.rules} : q.dir = "ingress"}})
  <2> HIDE DEF m
  <2>1. Resolves(T, X)
    <3> DEFINE own == m.sg \o <<TfName(sg.name)>>
               asked == IF m.sg[1] = "vsphere" THEN {<<"var", v>> : v \in m.asks \ {"vsphere_template_uuid"}} ELSE {}
    <3>0. \A a \in asked : Input(a)
      BY Refs
    <3> HIDE DEF own, asked
    <3>1. \A b \in T : b = Block(own, asked) \/ \E a : b = Block(a, {own})
      BY DEF One, When, own, asked
    <3>2. Owns(T, own)
      BY DEF Owns, One, own
    <3> HIDE DEF T
    <3> QED BY <3>0, <3>1, <3>2, Refs DEF Resolves
  <2>2. \E ok : S = OrRefuse(ok, T)
    BY DEF RenderAdapterSG
  <2> HIDE DEF S, T
  <2>3. Resolves(S, X)
    BY <2>1, <2>2, AcceptedResolves
  <2> QED BY <1>11, <2>3, Adapters DEF RenderSGHCL, S, m, X
<1>12. CASE ~(IsAdapter(ctx.provider) \/ ctx.provider \in {"aws", "gcp", "digitalocean", "azure", "linode", "ubicloud",
                                                          "oracle", "ibm", "alibaba", "stackit"})
  BY <1>12, RefusedResolves, Adapters DEF RenderSGHCL, X
<1> QED BY <1>1, <1>2, <1>3, <1>4, <1>5, <1>6, <1>7, <1>8, <1>9, <1>10, <1>11, <1>12
===========================================================================
