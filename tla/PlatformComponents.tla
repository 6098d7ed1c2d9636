-------------------------- MODULE PlatformComponents --------------------------
(***************************************************************************)
(* Two composites of the platform itself: the control plane that runs      *)
(* pipelines on AWS (pipelinecontrolplane.go), and the cluster of Vault    *)
(* droplets on DigitalOcean (vaultha_droplet_do.go).                       *)
(***************************************************************************)
EXTENDS HCL

TranslatePipelineControlPlane(ctx, c) ==
  /\ Valid(c) /\ ctx.offered
  /\ Has(c, "github_oidc") => Has(c, "owner_repo")
  /\ ctx.provider = "aws"

\* pclVar: a setting left out becomes an input variable.
pclVar(given, n) == When(~given, {Variable(n)})

\* Four roles, the runner function, the task cluster, the build project and
\* the state machine that calls them; optionally a role for GitHub's runners.
renderPipelineControlPlaneAWS(n, c) ==
  LET A(type, suffix)  == <<"aws", type, n \o suffix>>
      Role(r)          == A("iam_role", r)
      Asks(given, v)   == When(~given, {<<"var", n \o v>>})
      defined          == Has(c, "definition")
  IN {Block(Role(r), {}) : r \in {"_runner", "_task", "_codebuild", "_sfn"}}
     \cup {Block(A("iam_role_policy_attachment", "_runner_basic"), {Role("_runner")}),
           Block(A("iam_role_policy_attachment", "_task_exec"), {Role("_task")}),
           Block(A("iam_role_policy", "_codebuild_logs"), {Role("_codebuild")}),
           Block(A("iam_role_policy", "_sfn_invoke"),
                 {Role("_sfn"), A("lambda_function", "_runner"), A("codebuild_project", "")}),
           Block(A("lambda_function", "_runner"), {Role("_runner")} \cup Asks(Has(c, "artifact"), "_runner_package")),
           Block(A("ecs_cluster", ""), {}),
           Block(A("ecs_cluster_capacity_providers", ""), {A("ecs_cluster", "")}),
           Block(A("ecs_task_definition", ""), {Role("_task"), <<"var", n \o "_fargate_image">>}),
           Block(A("codebuild_project", ""), {Role("_codebuild")}),
           Block(A("sfn_state_machine", ""),
                 {Role("_sfn")} \cup Asks(defined, "_asl") \cup When(defined, {A("lambda_function", "_runner")}))}
     \cup pclVar(Has(c, "artifact"), n \o "_runner_package")
     \cup pclVar(FALSE, n \o "_fargate_image")
     \cup pclVar(defined, n \o "_asl")
     \cup When(Has(c, "github_oidc"),
               {Block(A("iam_openid_connect_provider", "_github"), {}),
                Block(Role("_github_ci"), {A("iam_openid_connect_provider", "_github")}),
                Block(A("iam_role_policy", "_github_ci_start"), {Role("_github_ci"), A("sfn_state_machine", "")})})

\* Its identifiers use underscores for dashes.
Underscored(n) == IF \E m \in DOMAIN Dashed : Dashed[m] = n THEN CHOOSE m \in DOMAIN Dashed : Dashed[m] = n ELSE n

RenderPipelineControlPlaneHCL(ctx, c) ==
  OrRefuse(ctx.provider = "aws", renderPipelineControlPlaneAWS(Underscored(TfName(c.name)), c))

-----------------------------------------------------------------------------
(* The Vault droplets.  v = [name, nodes, opts]; the labels are the names  *)
(* as given, and so is the network's in the reference to it.               *)

vaultDropletTag == "pyx-vault"

VaultName(v)  == IF v.name = "" THEN vaultDropletTag ELSE v.name
VaultNodes(v) == IF v.nodes = 1 THEN {"-1"} ELSE {"-1", "-2", "-3"}

normalized(v) ==
  /\ v.nodes \in {0, 1, 3}
  /\ "unknown_seal" \notin v.opts
  /\ "transit" \in v.opts => "transit_address" \in v.opts

VaultFirewall(v) == <<"digitalocean", "firewall", VaultName(v) \o "-sg">>

RenderVaultDropletCluster(v, network) ==
  LET Volume(i) == <<"digitalocean", "volume", VaultName(v) \o i \o "-data">>
      Node(i)   == <<"digitalocean", "droplet", VaultName(v) \o i>>
  IN OrRefuse(normalized(v),
       {Selecting(Block(VaultFirewall(v), {}), {vaultDropletTag})}
       \cup {Block(Volume(i), {}) : i \in VaultNodes(v)}
       \cup {Tagged(Block(Node(i), {<<"digitalocean", "vpc", network>>, <<"var", "do_ssh_keys">>, Volume(i)}),
                    {vaultDropletTag}) : i \in VaultNodes(v)}
       \cup When("reserved_ips" \in v.opts,
                 {Block(<<"digitalocean", "reserved_ip", VaultName(v) \o i \o "-ip">>, {Node(i)}) : i \in VaultNodes(v)}))
=============================================================================
