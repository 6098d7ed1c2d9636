------------------------- MODULE OperatorComponents -------------------------
(***************************************************************************)
(* The components that DigitalOcean has no managed service for and that    *)
(* run as Kubernetes operators on a DOKS cluster there: a Helm release for *)
(* the operator (core) and the custom resources it reconciles (extra),     *)
(* together with the managed services they stand for on AWS and GCP.       *)
(***************************************************************************)
EXTENDS HCL

Helm(n)        == <<"helm", "release", n>>
Manifest(n)    == <<"kubernetes", "manifest", n>>
ClusterData(n) == <<"data", "digitalocean", "kubernetes_cluster", n \o "_cluster">>

-----------------------------------------------------------------------------
(* operator.go                                                             *)

\* Mutant: the look-up of the cluster waits for a release that waits for it.
clusterAfterRelease(n) == {Block(ClusterData(n), {Helm(n \o "_loki")})}

renderClusterDataSource(n) == {Block(ClusterData(n), {})}
renderHelmRelease(n, r)    == Block(Helm(n \o r), {ClusterData(n)})
renderOperatorCR(n, r, after) == Block(Manifest(n \o r), after)

\* The cluster's data source, one release per core suffix, the extra blocks.
renderOperatorComponent(n, core, extra) ==
  renderClusterDataSource(n) \cup {renderHelmRelease(n, r) : r \in core} \cup extra

NeedsCluster(ctx, c) == ctx.provider = "digitalocean" => Has(c, "cluster_name")

-----------------------------------------------------------------------------
(* Monitoring: CloudWatch, Cloud Logging, or the LGTM stack.               *)

TranslateMonitoring(ctx, c) ==
  /\ ctx.offered
  /\ Parts(c, "log_groups") \cup Parts(c, "alarms") # {}
  /\ NeedsCluster(ctx, c)

renderMonitoringDO(c) ==
  LET n    == TfName(c.name)
      prom == Helm(n \o "_kube_prometheus_stack")
      loki == Helm(n \o "_loki")
  IN renderOperatorComponent(n, {"_kube_prometheus_stack", "_loki"},
       {renderOperatorCR(n, "_scrape_" \o TfName(s), {prom}) : s \in Parts(c, "scrapes")}
       \cup When(Parts(c, "alarms") # {}, {renderOperatorCR(n, "_alerts", {prom})})
       \cup {renderOperatorCR(n, "_ds_loki", {prom, loki})}
       \cup When(Has(c, "tempo"), {renderOperatorCR(n, "_ds_tempo", {prom})}))

\* Log groups and alarms are labelled by their own names, not the component's.
renderMonitoringAWS(c) ==
  {Block(<<"aws", "cloudwatch_log_group", TfName(g)>>, {}) : g \in Parts(c, "log_groups")}
  \cup {Block(<<"aws", "cloudwatch_metric_alarm", TfName(a)>>, {}) : a \in Parts(c, "alarms")}

renderMonitoringGCP(c) ==
  {Block(<<"google", "logging_project_bucket_config", TfName(g)>>, {}) : g \in Parts(c, "log_groups")}

RenderMonitoringHCL(ctx, c) ==
  CASE ctx.provider = "aws" -> renderMonitoringAWS(c)
    [] ctx.provider = "gcp" -> renderMonitoringGCP(c)
    [] ctx.provider = "digitalocean" -> renderMonitoringDO(c)
    [] OTHER -> Refusal

-----------------------------------------------------------------------------
(* Tracing: X-Ray, or Tempo behind an OpenTelemetry collector.             *)

TranslateTracing(ctx, c) ==
  /\ ctx.offered
  /\ ctx.provider \in {"aws", "digitalocean"}
  /\ NeedsCluster(ctx, c)

renderTracingAWS(n) ==
  {Block(<<"aws", "xray_group", n>>, {}), Block(<<"aws", "xray_sampling_rule", n \o "_sampling">>, {})}

renderTracingDO(n) ==
  renderOperatorComponent(n, {"_otel_operator", "_tempo_operator"},
    {renderOperatorCR(n, "_tempostack", {Helm(n \o "_tempo_operator")}),
     renderOperatorCR(n, "_collector", {Helm(n \o "_otel_operator"), Manifest(n \o "_tempostack")})})

RenderTracingHCL(ctx, c) ==
  LET n == TfName(CanonicalName(c.name))
  IN IF ctx.provider = "aws" THEN renderTracingAWS(n) ELSE renderTracingDO(n)

-----------------------------------------------------------------------------
(* TLS certificates: ACM, or cert-manager with Let's Encrypt.  A wildcard  *)
(* domain needs the DNS challenge on the cluster.                          *)

TranslateTLSCertificate(ctx, c) ==
  /\ Parts(c, "domains") # {}
  /\ ctx.offered
  /\ ctx.provider \in {"aws", "digitalocean"}
  /\ NeedsCluster(ctx, c)
  /\ ctx.provider = "digitalocean" =>
       /\ Has(c, "email")
       /\ "*" \in Parts(c, "domains") => Has(c, "dns_challenge")

renderTLSCertificateAWS(n) == {Block(<<"aws", "acm_certificate", n>>, {})}

renderTLSCertificateDO(n) ==
  renderOperatorComponent(n, {"_certmanager_operator"},
    {renderOperatorCR(n, "_issuer", {Helm(n \o "_certmanager_operator")}),
     renderOperatorCR(n, "_certificate", {Helm(n \o "_certmanager_operator"), Manifest(n \o "_issuer")})})

RenderTLSCertificateHCL(ctx, c) ==
  LET n == TfName(CanonicalName(c.name))
  IN IF ctx.provider = "aws" THEN renderTLSCertificateAWS(n) ELSE renderTLSCertificateDO(n)

-----------------------------------------------------------------------------
(* Vault HA: Secrets Manager and a KMS key, or the Vault chart on Raft,    *)
(* whose replica count must be an odd quorum of at least three.            *)

normalizeAuthMethods(c) ==
  IF Parts(c, "auth_methods") = {} THEN {"kubernetes", "approle"} ELSE Parts(c, "auth_methods")

TranslateVaultHA(ctx, c) ==
  /\ ctx.offered
  /\ ctx.provider \in {"aws", "digitalocean"}
  /\ NeedsCluster(ctx, c)
  /\ ctx.provider = "digitalocean" =>
       /\ Parts(c, "replicas") \cap {"1", "2", "4"} = {}
       /\ normalizeAuthMethods(c) \subseteq {"approle", "kubernetes"}

renderVaultHAAWS(n) ==
  {Block(<<"aws", "kms_key", n>>, {}),
   Block(<<"aws", "kms_alias", n>>, {<<"aws", "kms_key", n>>}),
   Block(<<"aws", "secretsmanager_secret", n>>, {<<"aws", "kms_key", n>>})}

renderVaultHADO(n, c) ==
  renderOperatorComponent(n, {"_operator"},
    {renderOperatorCR(n, "_connection", {Helm(n \o "_operator")})}
    \cup {renderOperatorCR(n, "_authglobal_" \o m, {Helm(n \o "_operator")}) : m \in normalizeAuthMethods(c)})

RenderVaultHAHCL(ctx, c) ==
  LET n == TfName(CanonicalName(c.name))
  IN IF ctx.provider = "aws" THEN renderVaultHAAWS(n) ELSE renderVaultHADO(n, c)

\* A secrets-manager or kms component of DigitalOcean is rendered as Vault,
\* on the cluster its own settings name or else the environment's.
assembleVaultHAAlias(ctx, c) ==
  LET hosted == [c EXCEPT !.opts = c.opts \cup {"cluster_name"}]
  IN OrRefuse(TranslateVaultHA(ctx, hosted), RenderVaultHAHCL(ctx, hosted))

-----------------------------------------------------------------------------
(* Workload identity: a role with an instance profile, or Vault policies   *)
(* and a role reconciled by the operator of the Vault component.           *)

TranslateWorkloadIdentity(ctx, c) ==
  /\ ctx.offered
  /\ ctx.provider \in {"aws", "digitalocean"}
  /\ NeedsCluster(ctx, c)
  /\ ctx.provider = "digitalocean" => Parts(c, "managed_policies") = {}

\* The release the custom resources wait for: always the one of a Vault
\* component named "vault", whatever the environment's is called.
vaultOperatorDependsOn == Helm("vault_operator")

RoleBlocks(n, c) ==
  {Block(<<"aws", "iam_role", n>>, {})}
  \cup {Block(<<"aws", "iam_role_policy", n \o "-" \o p>>, {<<"aws", "iam_role", n>>}) : p \in Parts(c, "policies")}
  \cup {Block(<<"aws", "iam_role_policy_attachment", n \o "-managed-" \o p>>, {<<"aws", "iam_role", n>>})
          : p \in Parts(c, "managed_policies")}

InstanceProfile(n) == <<"aws", "iam_instance_profile", n>>

renderWorkloadIdentityAWS(n, c) ==
  RoleBlocks(n, c) \cup {Block(InstanceProfile(n), {<<"aws", "iam_role", n>>})}

renderWorkloadIdentityDO(n, c) ==
  renderOperatorComponent(n, {},
    {renderOperatorCR(n, "_policy_" \o p, {vaultOperatorDependsOn}) : p \in Parts(c, "policies")}
    \cup When(Has(c, "kubernetes"), {renderOperatorCR(n, "_serviceaccount", {})})
    \cup {renderOperatorCR(n, "_auth_role", {vaultOperatorDependsOn})}
    \cup When(~Has(c, "kubernetes"), {Block(<<"output", n \o "_user_data">>, {})}))

RenderWorkloadIdentityHCL(ctx, c) ==
  LET n == TfName(CanonicalName(c.name))
  IN IF ctx.provider = "aws" THEN renderWorkloadIdentityAWS(n, c) ELSE renderWorkloadIdentityDO(n, c)

-----------------------------------------------------------------------------
(* Queues and streams as operators: RabbitMQ and Strimzi.                  *)

renderQueueDO(n) ==
  renderOperatorComponent(n, {"_rmq_operator"},
    {renderOperatorCR(n, "_rmq_cluster", {Helm(n \o "_rmq_operator")})})

renderStreamDO(n) ==
  renderOperatorComponent(n, {"_strimzi_operator"},
    {renderOperatorCR(n, "_kafka", {Helm(n \o "_strimzi_operator")})})

-----------------------------------------------------------------------------
(* Scheduled trigger: an EventBridge rule, or a cron job on the cluster.   *)

TranslateScheduledTrigger(ctx, c) ==
  /\ ctx.offered
  /\ ctx.provider \in {"aws", "digitalocean"}
  /\ NeedsCluster(ctx, c)
  /\ ctx.provider = "digitalocean" => Has(c, "image")

renderScheduledTriggerAWS(n, c) ==
  LET arn == <<"var", n \o "_target_arn">>
  IN {Block(<<"aws", "cloudwatch_event_rule", n>>, {}),
      Block(<<"aws", "cloudwatch_event_target", n>>,
            {<<"aws", "cloudwatch_event_rule", n>>} \cup When(~Has(c, "invoke_target"), {arn}))}
     \cup When(~Has(c, "invoke_target"), {Block(arn, {})})

renderScheduledTriggerDO(n) ==
  {Block(ClusterData(n), {}), Block(<<"kubernetes", "cron_job_v1", n>>, {})}

RenderScheduledTriggerHCL(ctx, c) ==
  LET n == TfName(CanonicalName(c.name))
  IN IF ctx.provider = "aws" THEN renderScheduledTriggerAWS(n, c) ELSE renderScheduledTriggerDO(n)

-----------------------------------------------------------------------------
(* Key-value store: a DynamoDB table, or a managed Redis in the network.   *)

TranslateKeyValueStore(ctx, c) == ctx.offered /\ ctx.provider \in {"aws", "digitalocean"}

RenderKeyValueStoreHCL(ctx, c) ==
  LET n == TfName(CanonicalName(c.name))
  IN IF ctx.provider = "aws"
       THEN {Block(<<"aws", "dynamodb_table", n>>, {})}
       ELSE {Block(<<"digitalocean", "database_cluster", n>>,
                   When(HasNetwork(ctx), {<<"digitalocean", "vpc", TfName(ctx.network)>>}))}

-----------------------------------------------------------------------------
(* The JIT VPN door, on AWS only.  It refers to the default VPC's data     *)
(* source, which only the network document declares.                       *)

TranslateVPNAccess(ctx, c) ==
  /\ Has(c, "keycloak_role")
  /\ ctx.offered
  /\ ctx.provider = "aws"

RenderVPNAccessHCL(ctx, c) ==
  LET n   == TfName(c.name)
      vpc == IF c.target = NoTarget THEN <<"data", "aws", "vpc", "default">> ELSE <<"aws", "vpc", TfName(c.target)>>
  IN {Block(<<"aws", "security_group", n \o "_jit">>, {vpc}),
      Block(<<"aws", "dynamodb_table", n \o "_jit_allowlist">>, {}),
      Block(<<"aws", "iam_policy", n \o "_jit_policy">>, {<<"aws", "dynamodb_table", n \o "_jit_allowlist">>}),
      Block(<<"aws", "iam_role_policy_attachment", n \o "_jit_policy">>, {<<"aws", "iam_policy", n \o "_jit_policy">>}),
      Block(<<"output", n \o "_jit_sg_id">>, {<<"aws", "security_group", n \o "_jit">>})}
=============================================================================
