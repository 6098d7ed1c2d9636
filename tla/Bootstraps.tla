------------------------------ MODULE Bootstraps ------------------------------
(***************************************************************************)
(* The boot scripts of the platform's services (platform_bootstrap_*.go),  *)
(* reduced to what Terraform has to fill in: the input variables a script  *)
(* asks for as ${var.x}, and the Vault leaves it reads as                  *)
(* ${data.vault_kv_secret_v2.l...}.  A service's spec is the set of its    *)
(* settings that are on; without "own_variables" and "own_paths" its       *)
(* variables and leaves have their default names.                          *)
(***************************************************************************)
EXTENDS HCL

Script(asks, secrets) == [asks |-> asks, secrets |-> secrets]
NoScript              == Script({}, {})

Renamed(spec, setting, S) == IF setting \in spec THEN {"own_" \o n : n \in S} ELSE S
Asks(spec, S)    == Renamed(spec, "own_variables", S)
Secrets(spec, S) == Renamed(spec, "own_paths", S)

-----------------------------------------------------------------------------
(* vault_datasource.go: the leaves the assembler can declare.              *)

KnownVaultKVPaths ==
  {"do/spaces-keys", "do/api-token", "mcp", "sso/keycloak-db-url", "sso/keycloak-admin", "sso/keycloak-db",
   "sso/idp-oauth", "sso/smtp", "sso/runner-ssh-key"}

VaultKVDataSource(path) == Block(<<"data", "vault", "kv_secret_v2", path>>, {})

\* The addresses a script leaves for Terraform to resolve.
References(script) ==
  {<<"var", v>> : v \in script.asks} \cup {VaultKVDataSource(p).addr : p \in script.secrets}

\* escapeBashExpansionsForHeredoc: the shell's own expansions are escaped, the
\* references to variables and data sources are not.
escapeBashExpansionsForHeredoc(script) == References(script)

\* vmHeredoc escapes every ${ of a script, these references included.
vmHeredoc(script) == {}

-----------------------------------------------------------------------------
(* The services: the names and leaves of each, and whether it renders.     *)

BackendBootstrapVariableNames(spec) ==
  Asks(spec, {"aws_region", "mcp_sa_client_id", "azure_subscription_id", "azure_tenant_id", "azure_client_id",
              "gcp_project_id", "gcp_account", "ubicloud_id", "automigrate_public_key", "automigrate_enabled",
              "automigrate_execute", "stripe_license_price_id", "runner_public_key",
              "do_main_db_url", "do_spaces_key", "do_spaces_secret", "oidc_client_secret", "mcp_sa_client_secret",
              "gh_pat", "stripe_token", "git_private_key", "gcp_sa_key_json", "aws_access_key_id",
              "aws_secret_access_key", "azure_client_secret", "digitalocean_token", "linode_token",
              "ubicloud_token", "ubicloud_llm_api_key"})
RenderBackendDOUserData(spec) == Script(BackendBootstrapVariableNames(spec), {})

\* The database's URL has the backend's name, so one variable serves both.
McpDOBootstrapVariableNames(spec) == Asks(spec, {"do_main_db_url"})
McpDOVaultDataSources(spec)       == Secrets(spec, {"do/spaces-keys", "mcp"})
RenderMcpDOUserData(spec)         == Script(McpDOBootstrapVariableNames(spec), McpDOVaultDataSources(spec))

\* Its own secrets are fetched from Vault at boot, by an AppRole.
OBSDOBootstrapVariableNames(spec) ==
  Asks(spec, {"vault_addr", "do_spaces_access_key", "do_spaces_secret_key", "obs_vault_role_id", "obs_vault_secret_id"})
RenderOBSDOBootstrapUserData(spec) == Script(OBSDOBootstrapVariableNames(spec), {})

SastDOVaultDataSources(spec)        == Secrets(spec, {"do/spaces-keys", "do/api-token"})
RenderSastDOBootstrapUserData(spec) == Script({}, SastDOVaultDataSources(spec))

\* The mail leaf is read only when the spec names it.
SSODOVaultDataSources(spec) ==
  Secrets(spec, {"sso/keycloak-db-url", "sso/keycloak-db", "sso/keycloak-admin", "do/spaces-keys"}
                \cup When("smtp" \in spec, {"sso/smtp"}))
RenderSSODOBootstrapUserData(spec) == Script({}, SSODOVaultDataSources(spec))

\* The SSO service of the other clouds, which names a version it never uses.
SSOBootstrapVariableNames(spec) ==
  Asks(spec, {"kc_db_endpoint", "kc_db_username", "sso_artifact_url", "sso_artifact_version", "runner_public_key",
              "jit_vpn_sg_id", "aws_region", "kc_smtp_user", "passobuild_sender_email", "kc_db_password",
              "kc_admin_password", "kc_vault_oidc_secret", "kc_smtp_password"})
RenderSSOBootstrapUserData(spec) ==
  Script(SSOBootstrapVariableNames(spec) \ Asks(spec, {"sso_artifact_version"}), {})

VPNBootstrapVariableNames(spec) ==
  Asks(spec, {"do_wg_jit_firewall_id", "wg_server_private_key", "wg_peers_blob", "do_api_token"})
RenderVPNBootstrapUserData(spec) == Script(VPNBootstrapVariableNames(spec), {})

\* The converge step fetches everything else with a wrapped token.
StagingFEDOBootstrapVariableNames(spec) ==
  Asks(spec, {"staging_fe_artifact_key", "staging_fe_artifact_sha256", "vault_addr", "staging_fe_vault_role_id"})
RenderStagingFEDOBootstrapUserData(spec) == Script(StagingFEDOBootstrapVariableNames(spec), {})

PlatformServices == <<"sso", "vpn", "obs", "sast", "backend", "mcp">>

\* The DigitalOcean script of a service.
DOBootstrap(service, spec) ==
  CASE service = "sso" -> RenderSSODOBootstrapUserData(spec)
    [] service = "vpn" -> RenderVPNBootstrapUserData(spec)
    [] service = "obs" -> RenderOBSDOBootstrapUserData(spec)
    [] service = "sast" -> RenderSastDOBootstrapUserData(spec)
    [] service = "backend" -> RenderBackendDOUserData(spec)
    [] service = "mcp" -> RenderMcpDOUserData(spec)

\* What a service cannot do without: the others have a default for it.
Needs(service) ==
  CASE service = "sso" -> {"environment", "oidc_secret"}
    [] service \in {"sast", "backend"} -> {"environment"}
    [] OTHER -> {}

\* The union of the default names that AssembleHCL declares when used; the
\* names a spec chose for itself, and those of the other SSO, are not in it.
BootstrapVariables ==
  McpDOBootstrapVariableNames({}) \cup OBSDOBootstrapVariableNames({})
  \cup BackendBootstrapVariableNames({}) \cup VPNBootstrapVariableNames({})
=============================================================================
