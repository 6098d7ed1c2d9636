------------------------- MODULE ServiceComponents -------------------------
(***************************************************************************)
(* The managed services of the catalog on AWS, GCP, DigitalOcean and       *)
(* Cloudflare: what translating one refuses and which blocks it becomes.   *)
(* The other providers' renderers have modules of their own.               *)
(***************************************************************************)
EXTENDS HCL

-----------------------------------------------------------------------------
(* Cache (cache.go, render_macro.go).                                      *)

TranslateCache(ctx, c) == Valid(c) /\ ctx.offered /\ ctx.provider \notin {"stackit", "linode"}

renderCacheAWS(ctx, c) ==
  LET n      == TfName(c.name)
      subnet == <<"aws", "elasticache_subnet_group", n>>
  IN When(HasNetwork(ctx), {Block(subnet, AWSSubnetResources(ctx))})
     \cup One(<<"aws", "elasticache_replication_group", n>>,
              When(HasNetwork(ctx), {subnet}) \cup AWSGroup(ctx))

renderCacheGCP(ctx, c) ==
  One(<<"google", "redis_instance", TfName(c.name)>>, NetRef(ctx, <<"google", "compute_network">>))

renderCacheDO(ctx, c) ==
  One(<<"digitalocean", "database_cluster", TfName(c.name)>>, NetRef(ctx, <<"digitalocean", "vpc">>))

-----------------------------------------------------------------------------
(* Queues and streams (messaging.go, render_macro.go).                     *)

TranslateQueue(ctx, c) ==
  /\ Valid(c) /\ ctx.offered
  /\ ctx.provider \notin {"linode", "ibm", "stackit"}
  /\ ctx.provider = "digitalocean" => Has(c, "cluster_name")

TranslateStream(ctx, c) ==
  /\ Valid(c) /\ ctx.offered
  /\ ctx.provider \notin {"linode", "stackit"}
  /\ ctx.provider = "digitalocean" => Has(c, "cluster_name")

renderQueueAWS(c) ==
  LET queue == <<"aws", "sqs_queue", TfName(c.name)>>
      dlq   == <<"aws", "sqs_queue", TfName(c.name) \o "_dlq">>
  IN IF Has(c, "max_receive_count") THEN {Block(dlq, {}), Block(queue, {dlq})} ELSE {Block(queue, {})}

renderQueueGCP(c) ==
  LET topic == <<"google", "pubsub_topic", TfName(c.name)>>
  IN {Block(topic, {}), Block(<<"google", "pubsub_subscription", TfName(c.name)>>, {topic})}

renderStreamAWS(c) == One(<<"aws", "kinesis_stream", TfName(c.name)>>, {})
renderStreamGCP(c) == One(<<"google", "pubsub_topic", TfName(c.name)>>, {})

-----------------------------------------------------------------------------
(* CDN and WAF (edge.go, cloudflare.go, render_macro.go).  A Cloudflare    *)
(* edge needs no resource of the environment's own cloud.                  *)

TranslateCDN(ctx, c) ==
  /\ Valid(c) /\ ctx.offered
  /\ ctx.provider \notin {"linode", "oracle", "ibm", "stackit"}

UsesCloudflare(ctx, c) ==
  \/ ctx.provider = "cloudflare"
  \/ ctx.provider = "digitalocean" /\ ~Has(c, "bucket_origin")

renderCDNAWS(c) ==
  One(<<"aws", "cloudfront_distribution", TfName(c.name)>>,
      When(c.target # NoTarget,
           IF Has(c, "bucket_origin") THEN {<<"aws", "s3_bucket", TfName(c.target)>>}
                                      ELSE {<<"aws", "lb", TfName(c.target) \o "_lb">>}))

renderCDNGCP(c) ==
  IF Has(c, "bucket_origin")
    THEN One(<<"google", "compute_backend_bucket", TfName(c.name)>>,
             When(c.target # NoTarget, {<<"google", "storage_bucket", TfName(c.target)>>}))
    ELSE One(<<"google", "compute_backend_service", TfName(c.name)>>, {})

renderCDNDO(c) ==
  One(<<"digitalocean", "cdn", TfName(c.name)>>,
      When(c.target # NoTarget, {<<"digitalocean", "spaces_bucket", TfName(c.target)>>}))

ZoneVariable == <<"var", "cloudflare_zone_id">>

\* A zone id left out becomes an input variable that every document using it
\* declares; assembly removes the copies.
ZoneID(c)     == When(~Has(c, "zone_id"), {ZoneVariable})
ZoneInput(c)  == When(~Has(c, "zone_id"), {Block(ZoneVariable, {})})

RenderCloudfareCDNHCL(c) ==
  LET n == TfName(c.name \o "-cdn")
  IN ZoneInput(c)
     \cup One(<<"cloudflare", "dns_record", n>>, ZoneID(c))
     \cup {Block(<<"cloudflare", "zone_setting", n \o s>>, ZoneID(c)) :
             s \in {"-browser_cache_ttl", "-always_online", "-ssl"}}

\* One record block per record, numbered in the order given.
RenderCloudflareDNSHCL(c) ==
  ZoneInput(c) \cup {Block(<<"cloudflare", "dns_record", TfName(c.name) \o r>>, ZoneID(c)) : r \in Parts(c, "records")}

TranslateCloudflareDNS(c) == Valid(c) /\ Parts(c, "records") # {}

TranslateWAF(ctx, c) ==
  /\ Valid(c) /\ ctx.offered
  /\ ctx.provider # "stackit"
  /\ Has(c, "cloudfront_scope") => ctx.provider \notin {"gcp", "oracle", "ibm", "alibaba"}

ViaCloudflare(ctx) == ctx.provider \in {"digitalocean", "linode"}

renderWAFCloudflare(c) ==
  {Block(ZoneVariable, {}), Block(<<"cloudflare", "ruleset", TfName(c.name)>>, {ZoneVariable})}

renderWAFAWS(c) == One(<<"aws", "wafv2_web_acl", TfName(c.name)>>, {})
renderWAFGCP(c) == One(<<"google", "compute_security_policy", TfName(c.name)>>, {})

-----------------------------------------------------------------------------
(* Managed Kubernetes (kubernetes.go, render_macro.go).                    *)

TranslateKubernetes(ctx, c) == Valid(c) /\ ctx.offered /\ ~Has(c, "no_size")

\* The two roles are input variables no document declares.
renderK8sAWS(ctx, c) ==
  LET cluster == <<"aws", "eks_cluster", TfName(c.name)>>
  IN {Block(cluster, {<<"var", "eks_cluster_role_arn">>} \cup AWSSubnetResources(ctx)),
      Block(<<"aws", "eks_node_group", TfName(c.name) \o "_ng">>,
            {cluster, <<"var", "eks_node_role_arn">>} \cup AWSSubnetResources(ctx))}

renderK8sGCP(ctx, c) ==
  LET cluster == <<"google", "container_cluster", TfName(c.name)>>
  IN {Block(cluster, NetRef(ctx, <<"google", "compute_network">>)),
      Block(<<"google", "container_node_pool", TfName(c.name) \o "_np">>, {cluster})}

renderK8sDO(ctx, c) ==
  One(<<"digitalocean", "kubernetes_cluster", TfName(c.name)>>, NetRef(ctx, <<"digitalocean", "vpc">>))

-----------------------------------------------------------------------------
(* Secrets and keys (secrets.go, kms.go).                                  *)

TranslateSecrets(ctx, c) == Valid(c) /\ ctx.offered /\ ctx.provider \notin {"digitalocean", "linode"}

renderSecretsAWS(c) ==
  LET secret == <<"aws", "secretsmanager_secret", TfName(c.name)>>
  IN {Block(secret, {})}
     \cup When(Has(c, "rotation"),
               {Block(<<"aws", "secretsmanager_secret_rotation", TfName(c.name) \o "_rot">>,
                      {secret, <<"var", "rotation_lambda_arn">>})})

renderSecretsGCP(c) ==
  One(<<"google", "secret_manager_secret", TfName(c.name)>>,
      When(Has(c, "rotation"), {<<"var", "next_rotation_time">>, <<"var", "rotation_topic">>}))

TranslateKMS(ctx, c) == Valid(c) /\ ctx.offered /\ ctx.provider # "digitalocean"

renderKMSAWS(c) ==
  LET key == <<"aws", "kms_key", TfName(c.name)>>
  IN {Block(key, {}), Block(<<"aws", "kms_alias", TfName(c.name)>>, {key})}

renderKMSGCP(c) ==
  LET ring == <<"google", "kms_key_ring", TfName(c.name)>>
  IN {Block(ring, {}), Block(<<"google", "kms_crypto_key", TfName(c.name)>>, {ring})}

RenderKMSHCL(ctx, c) ==
  CASE ctx.provider = "aws" -> renderKMSAWS(c)
    [] ctx.provider = "gcp" -> renderKMSGCP(c)
    [] OTHER -> Refusal

-----------------------------------------------------------------------------
(* Serverless functions and web services (serverless.go, webservice.go).   *)

TranslateServerless(ctx, c) == Valid(c) /\ ctx.offered /\ ctx.provider \notin {"stackit", "linode"}

renderServerlessAWS(c) ==
  One(<<"aws", "lambda_function", TfName(c.name)>>, {<<"var", "lambda_role_arn">>})

renderServerlessGCP(c) ==
  One(<<"google", "cloudfunctions2_function", TfName(c.name)>>,
      {<<"var", "source_bucket">>} \cup When(~Has(c, "artifact"), {<<"var", "source_object">>}))

\* The repository an App Platform app is built from is two input variables
\* named after it, which the caller is expected to declare.
Repository(n) == {<<"var", n \o "_repo_url">>, <<"var", n \o "_branch">>}

renderServerlessDO(c) == One(<<"digitalocean", "app", TfName(c.name)>>, Repository(TfName(c.name)))

TranslateWebService(ctx, c) ==
  /\ Valid(c) /\ ctx.offered
  /\ Has(c, "image") => Has(c, "image_repository")
  /\ ctx.provider = "digitalocean"

renderWebServiceDO(c) ==
  One(<<"digitalocean", "app", TfName(c.name)>>, When(~Has(c, "image"), Repository(TfName(c.name))))

RenderWebServiceHCL(ctx, c) == OrRefuse(ctx.provider = "digitalocean", renderWebServiceDO(c))

-----------------------------------------------------------------------------
(* E-mail (ses.go): an SES domain, or a relay through SMTP elsewhere.      *)

TranslateEmail(ctx, c) == Has(c, "domain") /\ ctx.offered

renderEmailRelayHCL(c) ==
  LET settings == <<"local", TfName(c.name) \o "_smtp">>
  IN {Block(settings, {}), Block(<<"output", c.name \o "_smtp_relay">>, {settings})}

RenderEmailHCL(ctx, c) ==
  LET id   == <<"aws", "ses_domain_identity", TfName(c.name)>>
      dkim == <<"aws", "ses_domain_dkim", TfName(c.name)>>
  IN IF ctx.provider = "aws"
       THEN {Block(id, {}), Block(dkim, {id}), Block(<<"output", c.name \o "_dkim_tokens">>, {dkim})}
       ELSE renderEmailRelayHCL(c)

-----------------------------------------------------------------------------
(* Volumes, prefix lists and synthetic checks.                             *)

TranslateVMVolume(ctx, c) ==
  /\ Valid(c) /\ c.target # NoTarget
  /\ ctx.offered
  /\ ctx.provider \in {"aws", "gcp", "digitalocean"}

\* The volume is attached to the first instance of its target component.
RenderVMVolumeHCL(ctx, c) ==
  LET n  == TfName(c.name)
      vm == TfName(c.target \o "-1")
      Attached(prov, disk, link, host) ==
        {Block(<<prov, disk, n>>, IF prov = "digitalocean" THEN {} ELSE {<<prov, host, vm>>}),
         Block(<<prov, link, n>>, {<<prov, disk, n>>, <<prov, host, vm>>})}
  IN CASE ctx.provider = "aws" -> Attached("aws", "ebs_volume", "volume_attachment", "instance")
       [] ctx.provider = "gcp" -> Attached("google", "compute_disk", "compute_attached_disk", "compute_instance")
       [] ctx.provider = "digitalocean" -> Attached("digitalocean", "volume", "volume_attachment", "droplet")
       [] OTHER -> Refusal

TranslatePrefixList(ctx, c) == Valid(c) /\ Parts(c, "entries") # {} /\ ctx.provider = "aws" /\ ctx.offered

RenderPrefixListHCL(c) == One(<<"aws", "ec2_managed_prefix_list", TfName(c.name)>>, {})

TranslateSynthetics(ctx, c) ==
  /\ ctx.offered
  /\ ctx.provider \in {"aws", "gcp", "digitalocean"}
  /\ ctx.provider # "aws" => Has(c, "target_url")

\* The canary's artifact path names its bucket variable without "var.": the
\* reference that Terraform reads is to a resource type with that name.
RenderSyntheticsHCL(ctx, c) ==
  LET n      == TfName(c.name)
      bucket == n \o "_artifact_bucket"
      role   == <<"var", n \o "_exec_role_arn">>
      zip    == <<"var", n \o "_zip">>
  IN CASE ctx.provider = "aws" ->
            {Block(<<"aws", "synthetics_canary", n>>,
                   {zip} \cup When(~Has(c, "artifact_bucket"), {<<"type", bucket>>}) \cup When(~Has(c, "exec_role"), {role})),
             Block(zip, {})}
            \cup When(~Has(c, "artifact_bucket"), {Block(<<"var", bucket>>, {})})
            \cup When(~Has(c, "exec_role"), {Block(role, {})})
       [] ctx.provider = "gcp" -> One(<<"google", "monitoring_uptime_check_config", n>>, {})
       [] ctx.provider = "digitalocean" -> One(<<"digitalocean", "uptime_check", n>>, {})
       [] OTHER -> Refusal
=============================================================================
