------------------------------ MODULE DOBaseline ------------------------------
(***************************************************************************)
(* The cutover baseline on DigitalOcean (do_baseline.go), a second way to  *)
(* make an environment's documents, and the program that renders it        *)
(* (cutover/render.go).  It writes its documents directly, adds the input  *)
(* variables and the providers itself, and hands over a closed module:     *)
(* nobody adds anything afterwards.                                        *)
(*                                                                         *)
(* A baseline is an environment without components and without a network   *)
(* of AssembleHCL's; its opts are the program's environment variables that *)
(* are set:                                                                *)
(*   secrets        the Spaces keys, the database's URL and the mcp token  *)
(*   full           the complete boot scripts                              *)
(*   oidc_secret    the one secret of theirs that Vault does not hold      *)
(*   vault_ha, token   the Vault droplet, and the token it joins with      *)
(***************************************************************************)
EXTENDS Assemble

CONSTANT Baselines      \* the settings the program is run with

\* A baseline has no components.
ASSUME BaselinesAssumption == \A e \in Baselines : e.components = <<>>

IsBaseline == env \in Baselines

doBaselineName == "passo-do-baseline"
BaselineNet    == doBaselineName \o "-net"
VPCRef         == {<<"digitalocean", "vpc", BaselineNet>>}

DOBaselineServices == {"sso", "staging-fe"}
ServiceTag(s)      == "pyx-" \o s

\* The spec of the sso script, shared by the script and its data sources.
doBaselineSSOSpec == {"environment", "oidc_secret", "smtp"}

renderFullServiceBootstrap(s) ==
  CASE s = "sso" -> RenderSSODOBootstrapUserData(doBaselineSSOSpec)
    [] s = "staging-fe" -> RenderStagingFEDOBootstrapUserData({})

DOBaselineVariableNames == StagingFEDOBootstrapVariableNames({})

\* Mutant: the data sources are those of the default spec, without the mail's.
DefaultVaultDataSources == {VaultKVDataSource(p) : p \in SSODOVaultDataSources({})}

DOBaselineVaultDataSources == {VaultKVDataSource(p) : p \in SSODOVaultDataSources(doBaselineSSOSpec)}

\* The full scripts keep their references; without them there is at most a TLS
\* terminator, which has none.
ServiceGroup(s) ==
  Tagged(Block(<<"digitalocean", "droplet_autoscale", s>>,
               VPCRef \cup {<<"var", "do_ssh_keys">>}
               \cup When(On("full"), escapeBashExpansionsForHeredoc(renderFullServiceBootstrap(s)))),
         {ServiceTag(s)})

\* Each service has its own firewall; the private edge reaches both.
Firewall(suffix, tag) == Selecting(Block(<<"digitalocean", "firewall", doBaselineName \o suffix>>, {}), {tag})

VaultOfBaseline == [name |-> "", nodes |-> 1, opts |-> env.opts]

AssembleDOBaseline ==
  <<One(<<"digitalocean", "vpc", BaselineNet>>, {}),
    {Firewall("-sg", ServiceTag("sso"))},
    {Firewall("-staging-fe-sg", ServiceTag("staging-fe"))}>>
  \o <<One(<<"digitalocean", "database_cluster", "pyx-main-db">>, VPCRef),
       One(<<"digitalocean", "database_cluster", "keycloak-db">>, VPCRef),
       {ServiceGroup("sso")}, {ServiceGroup("staging-fe")},
       One(<<"digitalocean", "spaces_bucket", "artifacts">>, {})>>
  \o (IF On("vault_ha") THEN <<RenderVaultDropletCluster(VaultOfBaseline, BaselineNet)>> ELSE <<>>)
  \o (IF On("full") THEN <<DOBaselineVaultDataSources>> ELSE <<>>)

-----------------------------------------------------------------------------
(* The program: it checks its environment, assembles, and writes the       *)
(* providers, the variables and the documents.                             *)

\* The seal may be refused; nothing else in a baseline can be.
Runnable ==
  /\ On("secrets") /\ DO
  /\ On("full") => On("oidc_secret")
  /\ On("vault_ha") => On("token") /\ normalized(VaultOfBaseline)

RenderBaseline ==
  /\ phase = "start" /\ IsBaseline /\ Runnable
  /\ docs' = AssembleDOBaseline
  /\ phase' = "providers"
  /\ UNCHANGED <<env, components, group, index, pinned>>

RefuseBaseline == phase = "start" /\ IsBaseline /\ ~Runnable /\ Fail

\* One block pins both providers, since a module may hold only one.
WriteModule ==
  /\ phase = "providers" /\ IsBaseline
  /\ docs' = Append(docs, {Variable("do_ssh_keys")} \cup When(On("full"), {Variable(v) : v \in DOBaselineVariableNames}))
  /\ pinned' = {"digitalocean"} \cup When(On("full"), {"vault"})
  /\ phase' = "done"
  /\ UNCHANGED <<env, components, group, index>>

RenderProgram == RenderBaseline \/ RefuseBaseline \/ WriteModule

EitherInit == Init
EitherNext == (~IsBaseline /\ Next) \/ RenderProgram
EitherSpec == EitherInit /\ [][EitherNext]_vars
-----------------------------------------------------------------------------
\* Everything the program's documents refer to, input variables included, is
\* declared in them, and every droplet is behind a firewall: the module stands
\* alone.  The mail's leaf was once read by the script and not declared, because
\* script and data sources had different specs (do_baseline.go:771).
BaselineStandsAlone ==
  Done /\ IsBaseline =>
    /\ Referred(All) \subseteq Declared(All)
    /\ \A b \in Droplets : b.tags \cap Selected # {}

-----------------------------------------------------------------------------
(* A statement of a comment that the code does not keep.                   *)

\* A scale group's script is written with its references to variables and Vault
\* leaves left for Terraform to resolve (platform_bootstrap_vpn.go:419), and the
\* assembler declares those inputs: each reaches the machines that ask for it.
InputsReachMachines ==
  LET Machine(c) == <<"digitalocean", "droplet_autoscale", TfName(c.name)>>
      Groups     == {c \in Elements : c.type = "virtual-machine-scale-group"}
  IN Done /\ DO =>
       \A c \in Groups : \A b \in All : b.addr = Machine(c) => References(UserDataOf(c)) \subseteq b.refs
=============================================================================
