# A verification development for terraform-provider-pyxcloud

The provider turns an abstract description of a system - a *topology* - into
concrete cloud resources, and moves systems between clouds. This directory holds
TLA+ models of the parts of it that keep state over time, TLC configurations that
check them on small instances, and TLAPS proofs of the properties that matter most
for every value of the parameters. Paths are relative to the repository.

`tlc -config X.cfg M` checks a model, `tlapm M.tla` a module of proofs;
`PROJECT.json` lists the runs, the lines each definition stands for, the hazards and
the theorems.

## 1. Inventory

| Component | State | Operations | Talks to | What is hard, and what makes it correct |
|---|---|---|---|---|
| **Confidential migration** `internal/migration`, `runtime/*`, `provider/resource_migration.go` | the resource in Terraform's state; per run: ephemeral key, substrate, plan, status channel, folded result | Create/Update (run), Delete; `Engine.Run`; `SealedWASM.Run` and its goroutine | backend (plan request), host devices, Terraform's context | two goroutines, a bounded channel, a deadline and cancellation. The recorded verdict must be true and not get lost, the key must be wiped, no goroutine may stay behind |
| **Database cutover** `scripts/cutover`, `docs/cutover/RUNBOOK.md` | two databases, publication, subscription, slot, sequences, the freeze, where the services point | replication setup, dump/restore, drain, sequence copy, verification gate, promote; freeze, un-freeze, repoint | PostgreSQL on both sides, the operator, the services that write | scripts that stop half-way, are run again, and work while others write. A promoted target must have every row, and its inserts must not collide |
| **Environment resource** `provider/resource_environment.go`, `tfrunner.go` | outer state; per work dir documents, backend, nested state | Create/Update/Read/Delete in Mode A (nested terraform: write, init, import, apply, output, destroy) and Mode B (backend) | nested terraform, the aws CLI, the backend, other environments | parallel resources, partial applies, lost work dirs, objects found by their bare names. No object may be forgotten, none of another environment touched |
| **Security-group adoption and pruning** `tfrunner.go` | live groups and rules, nested state | adopt, apply, prune | AWS, operators, the Keycloak SPI | rules change between describe and revoke, each call may fail. Declared and admitted rules must stay, old doors must be shut |
| **Topology resource and data guard** `provider/resource_topology.go`, `catalog/manageddatabase.go` | record at the backend, configuration and resolved plans in Terraform's state | Create/Read/Update/Delete, ModifyPlan, guard | backend, catalog, other clients | the guard compares two plans that Terraform alone keeps, of which a refresh derives one again: lost answers, new catalogs, edits by others. An accepted change must not replace the database, and no component may vanish unseen |
| **HTTP client and token source** `internal/client` | cached token and its expiry under a mutex | `do`, `token`, one call per endpoint | the backend, the OAuth server | concurrent callers, expiry while in use, 401 without retry |
| **Import topology, discovery, compare** `provider/resource_import_topology.go` | id of the import at the backend | Create (fee gate), Read, Delete | backend | a fee must not be paid twice or without consent |
| **Deploy gates** `driftdeploygate`, `driftsignalrule`, `costsignalrule`, `tfplanparser`, `billingscan`, `iacsecscan`, `archmismatch` | none | decisions over a parsed plan, a cost signal, a security scan | CI | what counts as a change, thresholds, several signals at once |
| **Catalog: resolution, translation** `internal/catalog/*.go`, `mitigation.go` | embedded data | abstract component to concrete one, or an error; a machine in place of a service a provider lacks | backend catalog, assembly | 21 providers times some 50 kinds of component, each combination offered, refused or self-hosted |
| **Catalog: renderers** `render*.go`, `operator.go`, `adapter*.go` | none | a component to HCL blocks | assembly | renderers refer to blocks that other renderers write, by labels both compute for themselves |
| **Catalog: assembly** `assemble.go` | the documents so far, flags raised on the way | network, group, one document per component, droplets, inputs, project, provider pins | renderers, the environment resource | references, duplicates, cycles and pins across documents; an error must leave nothing |
| **Platform bootstraps and estates** `platform_bootstrap_*.go`, `platform_asgs.go`, `prod_estate.go`, `full_estate.go` | none | boot scripts with references left for Terraform; the platform's own environments | assembly | what a script asks for has to be declared by somebody else |
| **Cutover baseline program** `do_baseline.go`, `cutover/render.go` | its process environment | check, assemble, write three files | catalog | a second way to make a module, that nobody completes afterwards |
| **Command line tools, pipeline engine, provider configuration** | none | flag parsing, calls, one choice of client | - | not over time |

How they meet: `provider.go` builds one client from the credentials and hands it to
the resources. The topology and environment resources translate through the catalog;
the environment resource renders documents and runs nested terraform on them, with the
adoption and the pruning around the apply. The migration resource drives the engine,
which asks the backend for a sealed plan and runs it in a substrate. The cutover
scripts are run by an operator next to all this. State is shared in four places: the
status channel and the context of a migration; the work dirs and remote states of the
environments; the AWS account behind the prune; the backend's records. A fifth is a state
in the making: the list of documents, to which the steps of the assembly and some eighty
renderers add, each relying on what the others wrote. These five are what the models
are about.

The hazards, with their lines and the properties that catch them, are in
`PROJECT.json`.

## 2. Plan

| Step | Modules | Status |
|---|---|---|
| 1 | `MigrationRun`, refining `MigrationContract`; `MigrationRunProofs` | modelled, checked, proved |
| 2 | `DBCutover`, refining `Handover`; `DBCutoverProofs` | modelled, checked, proved |
| 3 | `EnvironmentResource`, `SGPrune`; `EnvironmentResourceProofs`, `SGPruneProofs` | modelled, checked, proved |
| 4 | `TopologyResource`; `TopologyResourceProofs` | modelled, checked, proved |
| 5 | `HCL` and the component modules, `Dispatch`, `Mitigation`, `Bootstraps`: translation and rendering | modelled, checked in the assembly |
| 6 | `Assemble`, `DOBaseline`, `ProdEstate`; `RendererProofs`, `AssembleProofs` | modelled, checked; order, closure of the baseline, the zone variable, completeness, pins, guards, targets, references and that no component is skipped proved |
| 7 | `LeastNumber`; the sums of weights in `MigrationRun` and the replay of the log in `DBCutover` | proved |

How the modules build on each other:

| Module | Extends |
|---|---|
| `Bootstraps`, `PlatformComponents` and every component module but `CoreComponents` | `HCL` |
| `CoreComponents`, `ProdEstate` | `Bootstraps` |
| `Dispatch` | all component modules but `PlatformComponents` |
| `Mitigation` | `Dispatch` |
| `Assemble` | `Mitigation`, `PlatformComponents` |
| `DOBaseline` | `Assemble` |
| `RendererProofs` | `DOBaseline` |
| `AssembleProofs` | `RendererProofs` |
| `MCAssemble` | `DOBaseline`, `ProdEstate` |

Abstract specifications exist where a component promises something simpler than what it does:
a run and its verdict (`MigrationContract`), a database that changes hands (`Handover`). The
assembly has none: what it promises are relations between its documents, stated as invariants.

## 3. The models

### MigrationRun - a confidential migration

Three actors. *Terraform* starts `Apply` (Create and Update), `ApplyDisabled`
(`migration.enabled = false`) and `Delete`, one at a time. *Engine.Run* goes through
`SelectRuntime`, `Attest`, `RequestPlan`, `Unseal`, then takes a status at a time
(`FoldStatus`) until the channel is closed and empty (`StreamEnd`); every early return is
`ReturnError`, which wipes the key, the deferred call, and leaves Terraform's state alone.
*The runtime goroutine* (`RtReady`, `RtStep`, `RtRollback`, `RtSucceed`) walks the program.
Each of its sends is `emit`: a `select` of the send and `ctx.Done()`, so that `Send` and
`Drop` are both possible once the context ended, and only `Send` before. `ContextEnds` is
the deadline, when `max_duration` parsed, or a cancellation. Programs are sequences of
steps with a phase, a weight, whether they cut over and whether they converge: the data the
code's control depends on. Encryption, attestation documents and redaction are reduced to
success or failure.

`MigrationContract` says what a run promises in terms of *running*, *progress*,
*interrupted* and *recorded* alone: a verdict is recorded at the end of a run, is true of
the progress, and is only missing when the run was interrupted.

- `VerdictIsTrue`, `VerdictReported`: the verdict is true, and reported unless the context
  ended. `NothingOutlivesRun`: goroutine, channel and key are finished when `Run` returns.
  `FailedRunTouchedNothing`: a run reported as failed took no step. `HundredMeansAllWalked`,
  `PercentNeverFalls`: the arithmetic of weights and its interleaving with the fold, for weights
  whose sum, in hundredths, is an int (`WeightsAssumption`). Nothing in the code checks that: with
  larger weights `Percent` wraps as the code does, down to its `total <= 0` branch, and both fail.
  `NoCutoverAfterFailure`: no step behind one that failed is applied, which is what is left of
  "source preserved" when a step after the cutover fails (section 6). `RunEnds`: liveness. `ImplementsContract`: refinement.

### DBCutover - the write cutover of a database

The database is one table with a serial key: a set of ids and the last value of the
sequence. That is enough to tell lost rows, surplus rows and colliding keys apart. The
services insert and delete where they point to.

`pg-logical-replication-setup.sh` goes statement by statement, and any of them can end it
(`SetupFails`): every run drops and creates the publication again (`DropPublication`,
`CreatePublication`) before it finds an existing subscription and leaves it alone, or resets
it (`FindSubscription`, `ResetDetach`, `ResetDrop`, `ResetDropSlot`), or creates one
(`CreateSubscription`, for both values of `COPY_DATA`). `DumpRestore` is the other
preparation script. PostgreSQL is `InitialCopy`, `Replicate`, `LoseSlot` and
`OtherTraffic`. A change that was logged while there was no publication stops the sender for
good (`AllPublished`): so it is in PostgreSQL 17, on which the runbook says it was validated
(`RUNBOOK.md:33`); releases that skip what they cannot find are not modelled. `Freeze`, `Unfreeze`, `Repoint` are the operator of the
runbook. `Start` to `DropSlot` are the statements of `cutover-db.sh`, one action each because
each can fail (`Abort`) under `set -e`. `GateGreen` is `verify-migration.sh`: lag, counts,
checksums, sequences. Its lag is the worst of *all slots whose name contains the database's*,
up to the position of the *whole server*, with tolerance 0: `busy` says that something else
keeps it above zero.

Three constants name what the scripts do not defend against: `ListingMayFail`
(a query inside `< <(...)` whose exit status nobody sees), `Rerun` (the script run again
after it promoted) and `OutsideFreeze` (the script prints a banner that asks for the freeze,
`cutover-db.sh:45`, and does not look).

`Handover`: the rows the services see change only by inserts and deletes, also at the switch.

- `PromotedHasEverything`: from the confirmation to the repointing the target has exactly
  the source's rows, whatever the baseline. `NoInsertCollides`: afterwards no row of the
  target has a key that its sequence is still to hand out. `ReplicaConsistent`: a target that the subscription *copied*, plus
  the retained changes, is the source; with `COPY_DATA=false` nothing relates the rows to the
  slot, changes between the baseline and the slot are missed, and only the gate's comparison
  helps. `ImplementsHandover`: refinement.
- Liveness: `BacklogDrains`, a published backlog of a healthy subscription empties in the freeze;
  `CutoverRunEnds`, a run of `cutover-db.sh` ends or waits for its operator. That the measured lag
  reaches zero cannot be promised: other traffic or a stalled sender can keep it up, and then it is
  the deadline that ends the loop.

### EnvironmentResource - environments and nested terraform

Per work dir: the documents in it and the backend it was initialised with; per store (work
dir, remote object, or in Mode B the backend's state of an environment): the objects its state
tracks and those its outputs describe; `taken`: the objects that exist under a name that can be
looked up (`Adoptable`), tracked or not; `stray`: the other objects that exist and that no state
tracks. An object with such a name is *one object of the account*, whoever made it: it cannot be
created twice, and `Adopt` imports it for any environment whose documents name it, also when another
environment's state tracks it. Mode B works in the account of its binding.

An operation is a sequence of steps, so that the steps of several environments interleave as
Terraform's parallelism makes them: `Begin, WriteConfig, TfInit, Adopt, TfApply, Outputs` or
`Deploy`; `BeginDelete` and `Destroy` or `DestroyManaged`; `Read`. Every step may fail;
`WriteConfig` may stop with some of the documents, `TfApply` and `Destroy` half-way
(`Reaches`). A refresh takes the outputs of whatever the nested state has: none where a destroy
failed late or the work dir was never initialised. `NewRunner` is a CI runner that does not
find the `Ephemeral` work dirs.

- `DeletedLeavesNothing`, `ApplyTracksTopology`: what Terraform was told is true of the
  cloud. `OutputsMatch`: after a success the recorded outputs are those of the recorded topology,
  however often it is refreshed while other environments are applied or fail. `NoCrossTalk`:
  environments do not touch one another.
- `DeletedLeavesNothing` and `OutputsMatch` are about environments whose work dir is `Kept`; for the
  others they are false, which is the finding of `environment_fresh`. `DeletedLeavesNothing`, `ApplyTracksTopology` and
  `NoCrossTalk` also need that no two environments use one name (`OwnNames`). Nothing in the code checks that, and where
  names are shared the second environment adopts, changes and deletes what the first one made: the run's
  configurations therefore use each adoptable name in one environment of the account only.

### SGPrune - adoption and pruning of security-group rules

One runner, live groups and rules, nested state, documents. `Adopt`, `TfApply` or
`TfApplyFails`, `Prune`, then per group `Describe` and per orphan `Revoke`, with `OpenDoor`
(an operator) and `Spi` (Keycloak) at any moment. Each apply is `faulty` or not: in a faulty
one every import, describe and revocation may fail by itself and is skipped, as in the
code. `LookupsMayFail` lets the look-up of a group id fail too.

- `DeclaredStays`: the prune never revokes a declared rule. `JitRulesStay`: the runner never
  takes away what the SPI admitted. `DoorsShut`: an apply without faults leaves no earlier
  door open, also not one that a faulty apply left. `AdoptionIsComplete`: it meets no duplicate.

### TopologyResource - topologies and the guard

Records at the backend, one resource, and a cycle of `ReadFound`/`ReadNotFound`,
`ModifyPlan`, `Create`/`Update`/`Delete`, in which each request is answered, refused, or
accepted with its answer lost. `EditElsewhere` is another client, at any moment: it adds and removes
components, known to the provider or not, renames the topology, moves it, or deletes it. `Upgrade` is
a release of the provider with another catalog. `Translate` resolves the database block (default
name, class family), `ForceReplaces` is the guard, `Canon` the aliases of component types;
`appendTopologyComponentModel` has no case for any other type (`Others`), which a refresh drops.

The `managed_database` block is in no request (`modelToTopology`, `topologyWire`): the block and the
plan it resolves to are in Terraform's state alone, so there is no live database to compare with. What
the guard ought to compare with is the plan of the last apply; the history variable `applied` keeps it,
`touched` what has changed since without an answered apply (name, place, catalog), `late` the components
that came after the refresh, `lost` whether an answer was ever lost.

- `DatabaseKept`: what an apply with a database before and after it may change of the applied plan.
  Encryption and engine never; the identifier only where it is the topology's name and somebody
  else changed that; the family only where somebody else moved the topology or a release the class.
- `RecordsTracked`: no record is forgotten or made twice.
- `NothingRemovedUnseen`: a `PUT` replaces the whole list of components. What it removes besides
  what the refreshed state showed is of a type the provider does not know, or came after the refresh.
- `ReplacementBlocked` is the documents' promise without these exceptions, refuted by `topology_drift`.

Not promised, because the code does not look: the place (provider and region are not among what the
guard compares); a database that one apply removes and a later one adds with other attributes; the
`pyx_database` *component*, which is what a request does carry and which the guard never inspects.

### HCL, the component modules, Dispatch, Mitigation, Bootstraps - from a component to blocks

A document is a set of blocks. A block is the address it declares, the addresses it refers
to, the tags its machine carries and the tags it selects machines by: what decides whether
Terraform can plan the module, and whether a machine is behind a firewall or a balancer.
Attribute values, quoting and layout are left out. A component is its type, name, the set of
its optional settings that are on, the names of its nested elements, and the component
it points at. Names that `tfName` and `canonicalName` change are the constants `Folded` and
`Dashed`; the tag to service table is `Services`.

Each component module has a `Translate...` operator (which components a provider accepts) and a
`render...` operator (the blocks an accepted one becomes) per kind. `Refusal` is an error of
either; "invalid" stands for the range and enumeration checks of a component's own fields,
"not_offered" for a region, size or image that is not in the catalog.

| Module | Code |
|---|---|
| `CoreComponents` | networks, groups, machines, scale groups, balancers, databases, buckets, roles, registries, reserved addresses on AWS, GCP, DigitalOcean (`render.go`) |
| `ServiceComponents` | cache, queues and streams, CDN, WAF and DNS, Kubernetes, secrets and keys, functions, web services, e-mail, volumes, prefix lists, synthetics |
| `OperatorComponents` | monitoring, tracing, certificates, Vault, workload identity, triggers: Helm releases and custom resources on a DOKS cluster, with the managed services they stand for elsewhere; key-value stores and the VPN door |
| `AzureComponents`, `OracleComponents`, `IBMComponents`, `AlibabaComponents`, `RegionalComponents` (Linode, Ubicloud, STACKIT) | `render_azure.go`, `render_oracle.go`, `render_ibm.go`, `render_alibaba.go`, `render_linode.go`, ... |
| `AdapterComponents` | the nine providers rendered from template manifests, and OVH's plan adapters |
| `PlatformComponents` | the pipeline control plane, the cluster of Vault droplets |
| `Dispatch` | the `Render...HCL` functions: which renderer, for which provider |
| `Mitigation` | `mitigation.go`, `host_placement.go`: a service without a managed form, or placed by its author, becomes a machine; a hosted one becomes part of a machine |
| `Bootstraps` | `platform_bootstrap_*.go`: the variables and Vault leaves a boot script leaves for Terraform (`References`), and the two ways they are written, `vmHeredoc` and `escapeBashExpansionsForHeredoc` |

### Assemble - an environment becomes documents

A state machine with the steps of `AssembleHCL` in their order: `Start` (bind hosts, tag
machines under the baseline, look up the project), `AddNetwork`, `AddSecurityGroup`,
`AddComponent` once per component, `AddVaultDroplets`, `DeclareInputs` (with the
deduplication of the zone variable), `BindProject`, `PinProviders`. `Refuse` and `Fail` are
the error returns. The steps communicate through the components (which the baseline
changes), the group and the documents; the flags that the switch raises are derived
from the components that were rendered (`Needs...`), as each case of the switch raises them.

- `ReferencesResolve`: if every component that is pointed at is there, every resource and
  data source that is referred to is declared, except for the `Gaps`, which are listed with their
  lines. `DeclaredOnce`: no address is declared by two documents (two exceptions, with their lines).
  `Acyclic`: the blocks can be planned in some order. `ProvidersPinned`: what Terraform cannot
  install by itself is pinned, and a `required_providers` block names all providers in use.
- `MachinesGuarded`: under the baseline every DigitalOcean machine an author declares is
  selected by a firewall. `TargetsReached`: the balancer of a scale group is declared and selects it.
- `ComponentsRendered`: no component is skipped in silence; an environment is complete or refused
  (two components, `Silent`, have nothing to add).
- `IInv`: order of the steps, and no document after an error.

### DOBaseline - the second way

`RenderBaseline`, `RefuseBaseline` and `WriteModule` are `cutover/render.go` around
`AssembleDOBaseline`. `EitherSpec` is the assembly of an environment or this program, so that
both are judged by the same properties. `BaselineStandsAlone` is stronger than
`ReferencesResolve`: variables have to be declared too, and every droplet is behind a
firewall. `ProdEstate` has the platform's environments as inputs of the assembly.

## 4. Runs

Every passing run explores its instance completely.

| Run | Instance | Shows |
|---|---|---|
| `migration` | 4 programs (plain, failing before and after the cutover, one step; weights that need the clamp), 4 configurations, 3 hosts, channel of capacity 2, 2 runs, ints to 511; 24,483 states | all properties of `MigrationRun`, refinement, liveness |
| `cutover` | 2 ids; 292,168 states | all properties of `DBCutover`, refinement, liveness |
| `cutover_listing` | 2 ids, `ListingMayFail` | *refuted*: the gate finds any mismatch |
| `cutover_rerun` | 3 ids, `Rerun` | *refuted*: a second run aborts before it does harm |
| `environment` | 2 environments in Mode A (one with local state in an ephemeral work dir; one with a kept work dir, whose topology and remote state change together, to a topology that creates nothing) and one in Mode B that uses a name of the first in its own account; 2 adoptable names; 899,304 states | all properties of `EnvironmentResource` |
| `environment_fresh` | remote state, ephemeral work dir | *refuted*: "never initialized, nothing provisioned" |
| `sgprune` | 3 groups, 2 literal sources, a prefix list, 3 configurations, 1 door; 170,510 states | all properties of `SGPrune` |
| `sgprune_lookup` | the same, look-ups may fail | *refuted*: the prune revokes only what the documents do not declare |
| `topology` | 5 configurations over 2 names, places, sizes; 3 catalogs (one lacks a class, one moves it); an alias and an unknown type; edits at any time, a rename, a move, lost answers; 1,877,669 states | `DatabaseKept`, `RecordsTracked`, `NothingRemovedUnseen` and the invariant |
| `topology_drift` | one database in 2 sizes, a catalog that moves the larger to another family | *refuted* (`ReplacementBlocked`): the guard blocks each change that would replace the database |
| `assemble` | every kind of component in every setting that changes its blocks, for 21 providers: alone, beside a machine, a scale group or a cluster; with Vault droplets, projects, ingress rules; pairs that share a zone, namespace or target; the platform's estates; all settings of the baseline; 129,200 states | all properties of `Assemble` and `DOBaseline` |
| `assemble_inputs` | the same | *refuted*: a boot script's references reach the machine resolved |

Why the bounds are enough. *Migration*: the longest stream (5 statuses) is longer than the
channel, so that sends block and race the context; a second run meets what a first one left.
A third would meet the same. *Cutover*: two keys are enough for a lost insert and a lost
delete whose row counts agree, for a gap below the highest key and a deleted maximum, for a copy
onto rows that are there, and for changes before and after a publication that was gone; a run
after the promotion needs a third. *Environment*: two
environments of one mode are the least that interfere; the second's change takes
away all it had, or gives it back, and its two backends make every
initialised work dir one that the other configuration refuses; an adoptable name and one that is not
in one topology separate what is found again from what is lost.
*SGPrune*: a rule that moves from a public source to a group source, with an operator's
door on it, needs two groups beside the JIT group. *Topology*: encryption, identifier and family change
between two configurations, and each is treated by the guard as the engine is; one component under two names and one of an unknown type are all that `Canon` tells apart; two records are the least in which one could be made twice.
*Assemble*: a reference, a clash and a tag relate two documents, and what a component becomes
depends on the network and the group, which a machine beside it brings; the pairs of
`Sharing`, beside a scale group, are the kinds that declare something in common; cycles of more
components would go through the cluster, which is one of the hosts. The estates have
up to 50 components.
Bounds on counters: `MaxRuns`, `MaxId`, `MaxRecords`.

Deadlock is checked except in the runs of `DBCutover`, where services whose sequence is at
the bound and a finished operator really stop, and in those of `Assemble`, where an
assembled or refused environment is the end.

Fairness. `MigrationRun` assumes weak fairness of each of the two goroutines: the Go
scheduler runs a goroutine that can go on, and every call `Engine.Run` makes returns (the plan
request has a 30 s client timeout). Nothing is assumed of Terraform or of the context.
`DBCutover` assumes weak fairness of `Replicate`, the worker PostgreSQL keeps running, and of the
statements of `cutover-db.sh` except its question to the operator: every `psql` call returns, and the
drain loop has a deadline. No other run assumes any.

## 5. Proofs

In all modules but one the argument is the same: an inductive invariant `IInv`, checked by TLC
as an invariant first, `Init => IInv`, one case per action for `IInv /\ [Next]_vars => IInv'`,
and the properties as consequences. The one is `LeastNumber`, the induction that the
library's theorems, with their operator parameters, do not give these provers: a set of
numbers with a member has a least one (`LeastMember`). Where something is to hold for
sequences of any length, the least length at which it fails is a contradiction.

- `MigrationRunProofs`. `VerdictIsTrue` is not inductive: it needs that no status in the
  channel says what is not so (`StreamInv`), that a folded verdict is the end of the stream
  (`ResultInv`), what holds before the walk and during it (`PhaseInv`), that in a live context
  a finished walk's verdict is in the channel or in the result (`DeliveryInv`), and that what
  was saved is the last result (`SavedInv`). From it follow `VerdictTruth`, `VerdictDelivery`,
  `NoLeak`, `FailureIsClean` and `Refinement`: every step maps to a step of
  `MigrationContract` or a stutter. `RollbackTruth` needs one more invariant: only the last step
  of a walk can have failed (`WalkInv`). For all programs, configurations, hosts and capacities.
  The percentages (`PercentInv`: every status in the channel shows the share of a number of steps,
  in the order sent) rest on two facts about `DoneOf`, each by the least counterexample: weights
  are positive and their sums grow, so that only the last step reaches the total; `WrapFits` takes
  the overflow away, from `WeightsAssumption`. `HundredIsComplete`
  and `ProgressIsMonotone` follow.
- `DBCutoverProofs`. `GateInv` says that no setup runs beside `cutover-db.sh` and, if that runs inside
  the freeze, that nothing is written, copied or applied once the gate was green, to the repointing
  (`FreezeInv`). `SequenceInv` says that nothing replicates into a promoted target, and that its keys
  do not exceed its sequence. `ZeroDataLoss` and `Refinement` follow if listings do not fail and the
  source is frozen before the run (`~ListingMayFail`, `~OutsideFreeze`), `NoCollision` if there is no
  run after the promotion (`~Rerun`), for every number of ids, every baseline and every sequence of setups.
  `ReplicaIsSourceBehind` assumes none of them, and is about a baseline that the subscription copied:
  replaying a log of any length is defined (`StatesExist`), one more change at its end is applied
  last (`ReplayedMore`), and its first change can be applied ahead of the others
  (`ReplayedFirst`), which are a write and a replication.
- `EnvironmentResourceProofs`. The invariant has three layers, each of which needs the one before.
  What an operation carries along always holds: its configuration is one of its environment's,
  its dir stays initialised (`Underway`, `Initialised`). If no two environments share a work dir or
  remote state (`OwnPlaces`), what is in a dir is what its environment wrote, for the backend it
  is initialised with, what is in a store is the environment's, and what a success recorded is what
  the next refresh finds (`OwnInv`): hence `OutputsAreRecorded`; with names of their own
  (`OwnNames`) also `EnvironmentsAreIsolated`. If an environment also keeps its mode and work dir,
  and its remote state where the work dir can be lost (`StablePlaces`), all it ever made exists, is
  tracked, and is where its next operation looks (`HomeInv`): hence `DeletesAreComplete` and
  `AppliesAreExact`. The two conditions on places are what the schema asks for
  (`resource_environment.go:442`, "unique per work_dir", and `:592`, "must be stable for the resource
  lifecycle"); the one on names is asked for nowhere. Nothing in the code enforces any of them; the
  configurations of the run `environment` satisfy all three, although its places change with the
  topology.
- `TopologyResourceProofs`. Between a refresh and the end of the apply Terraform knows every component
  of the record but those that came since (`RefreshedInv`), and a plan can still be resolved
  (`PlannedInv`). The applied plan, and the one the guard compares with, are what block, record and
  catalog still make of it, except for what was touched since (`GuardInv`). Hence
  `NoSilentReplacement` (`DatabaseKept`); `EveryRecordTracked` and `UnseenComponentsStay` need less. None
  of them assumes anything of the catalogs, of renames or of lost answers.
- `SGPruneProofs`. The documents, and so the nested state, never speak of a JIT rule, and a
  live rule joins groups that exist (`DocsInv`); an adoption without faults leaves nothing
  declared and live untracked but prefix lists and fresh doors (`AdoptInv`); the prune knows
  every declared group unless look-ups fail (`LookupInv`); its orphans are not declared, and
  in a group it has looked at everything else is (`PruneInv`). `DeclaredRulesSurvive` assumes
  that look-ups succeed, which `sgprune_lookup` shows to be needed; `AdmittedStay`,
  `EarlierDoorsShut` and `AdoptionFindsAll` assume nothing.
- `AssembleProofs`. For any set of environments of any number of components. `AssemblyInOrder`
  is `IInv`, with the environment among those given. `BaselineIsClosed`: the documents are
  the baseline's from the first step to the last (`BaselineDocs`), and of those each
  reference and each tag is looked up, document by document: the scripts' Vault leaves and
  the data sources come from one spec (`VaultRefs`), the droplets' tags from the
  firewalls' (`VaultGuarded`, `BaselineGuarded`). `ZoneDeclaredOnce`: after the deduplication
  at most one document has the zone's variable (`DedupeOne`), and no later step adds a
  document with it (`OthersDoNot`).
- `RendererProofs`. What the documents say depends on what each of some hundred renderers
  writes. The proofs go through them, provider by provider (`AWSWrites` to `OperatorBlocks`), and
  say of each block which Terraform provider it needs and that it is no machine; where it is one (a
  droplet, a scale group, Vault's droplets) its tags are stated. The choice of a renderer by type
  and provider carries that over to components (`ComponentWithin`), those that become machines
  included. The same walk shows that an accepted component adds a resource (`ComponentLives`).
  A second walk asks of each document where its references lead (`Resolves(S, X)`: to an input, to
  a block of `S` itself, or into `X`). Most documents close by themselves (`X` is empty); a machine,
  balancer or database may lead to what the network and the group supply (`Supplied`), a volume,
  attachment, CDN or firewall to the component it names; the rest of the `X` are the gaps.
- `AssembleProofs`, the documents. One invariant of the steps, `Contents`: the documents are the
  network's, the group's if one is needed, those of the components before `index` and the Vault
  droplets', whole and none of them refused, and what else there is, is inputs and the project
  (`DocumentsComplete`). A step can only keep it if no later step drops or refuses what an earlier
  one wrote; together with what was pinned for (`PinsInv`) it reduces a property of the documents to
  one of the renderers. `ProvidersArePinned` follows from the flags that the components raise;
  `EveryMachineGuarded` from the tag that `Start` puts on machines and the group on its firewall;
  `BalancersReachTargets` from the tag that two renderers compute from one name;
  `EveryComponentRendered` from `ComponentLives` and from each element having its turn once
  (`ElementAsked`).
- `AssembleProofs`, the references. `EveryReferenceResolves` needs the most. `Contents` says
  also that inputs and the project refer only to what is declared, and `GroupInv` that a group is
  only there for components if one was asked for. Then, in a finished environment, whatever some
  renderer names as `Supplied` or as a target must be among what another renderer declared under that very name:
  the network's ids (`SuppliedDeclared`), the group's (`GroupDeclared`), a machine's, a scale
  group's, a bucket's and a balancer's address (`MachineDeclared` to `BalancerDeclared`), each for
  every provider. `ComponentLeads` follows the type of a component through the mitigation and the
  canonical names; what none of these can show to be declared is exactly the `Gaps`, so the list is
  complete for every environment, and not only for those of the run.

These assume `EnvironmentsAssumption` (the components are a list of components in which a machine
has a first instance, as a count left out is one; an environment has one Vault cluster and one project at most: `AssembleInput` has a slice, a
pointer and a name), `BaselinesAssumption` (a baseline has no components) and, for the references,
`FoldedAssumption` (`tfName` goes character by character: folding a name and then adding the number of
the first instance is folding both, which strings without characters cannot show).

Assumptions on the constants are the named `ASSUME`s of the modules; TLC evaluates them
in every run.

Only model-checked: liveness (`RunEnds`, `BacklogDrains`, `CutoverRunEnds`), which is beyond the prover with
its fairness and `ENABLED`; `DeclaredOnce`, which holds because the names that renderers build by
joining strings differ, and to the prover strings have no characters;
and `Acyclic`, whose rounds go through every block of the documents of any environment and need
a rank for each type of resource of each provider.

## 6. Where code and documents disagree

The six refuted statements are listed as findings in `PROJECT.json`. Reading and
modelling met others, which the models describe and for which there is no run.

Migration and databases:

- A step that fails after an applied cutover ends the walk with "source preserved"
  (`runtime/interpreter.go:118`), as `MIGRATION.md:31` promises, and nothing is undone.
  `NoCutoverAfterFailure` is what remains true; the stated promise itself (no applied cutover in a
  rolled-back run) fails on `MCPrograms`' third program: sync, cutover, failing verify.
- `MIGRATION.md:51` says that `max_duration` rolls back; an expired run is saved with the
  phase it reached and no verdict. `VerdictReported` therefore speaks of a live context.
- `runtime/cc.go:162` says that auto falls back when attestation has no device; `Engine.Run`
  returns the error.
- `hardware_backed` is derived from the substrate's name, also for one that is not there.
- `Update` of a migration stores a new id although the schema plans to keep it.
- `cutover-db.sh:29` says that every failure aborts before the promote; each statement of
  step D can fail after the subscription was disabled. Step D also sets a sequence below the source's
  last value when the newest rows were deleted, which `verify-migration.sh:158` calls dangerous.
- The setup script calls itself idempotent and leaves an existing subscription alone
  (`pg-logical-replication-setup.sh:44`); by then it has dropped the publication that the subscription reads from,
  and a change logged before it is made again stops the sender. `BacklogDrains` excepts it.
- What `verify-migration.sh:103` calls the measure of un-applied WAL is measured against the position of
  the server and over every slot with a similar name, so that it may never reach the zero `cutover-db.sh` asks for.
- The topology guard compares neither provider nor region, and lets a database be removed and added
  again. Where the block has no name and another client renamed the topology, it refuses to go *back* to
  the name the database was made with, since the refresh has derived the prior plan from the new one.
- A refresh drops components of a type the provider does not know (`resource_topology.go:2200`), and
  the next update removes them from the record.
- `tfrunner.go:218` adopts by bare names from the whole account, while the schema asks for names that
  are unique per work dir only (`resource_environment.go:442`): components, not environments, collide.

Catalog:

- References that lead nowhere, the `Gaps` of `Assemble`: AWS subnets that are data sources and are
  referred to as resources by a cache (`render_macro.go:57`) and a cluster (`render_macro.go:669`); the
  project and Vault's network of a provider written in mixed case (`assemble.go:679`,
  `assemble.go:1726`); the release a workload identity waits for (`render_workloadidentity.go:133`);
  the account's network for a VPN door alone, and a network that the door names
  (`render_vpnaccess.go:40`); the profile of an access policy that has none (`assemble.go:668`); the
  bucket or balancer a CDN or firewall points at by the canonical form of a name whose own form
  differs (`edge.go:288`, `edge.go:438`); a bucket named without its `var.` (`synthetics.go:109`); a reserved address of a machine whose instances have numbers
  (`render.go:2232`).
- `assemble.go:371` says that a balancer without a target tag fronts every instance; a machine
  carries the default tag only when its author asks for it (`render.go:1368`).
- `cutover/render.go:134` says that `DO_VAULT_SEAL` can select the transit seal; nothing sets
  `TransitAddr`, so that `normalized` always refuses it (`vaultha_droplet_do.go:171`).
- `prod_estate.go:30` says that scale groups on DigitalOcean become clusters and that components in
  a cluster look for one named "backend"; scale groups render as `droplet_autoscale`
  (`render.go:730`), and that cluster is declared by nobody.
- The generic SSO script declares `sso_artifact_version` and never uses it.
- Two buckets on Oracle both declare the namespace (`render_oracle.go:491`), and two balancers that
  route to one target both declare its group (`render.go:1055`): exceptions of `DeclaredOnce`.

## 7. Not modelled

*Of the components.* The token source keeps one token under a mutex that no other component
sees, and a request that is refused is not repeated. The import resource and the data sources make one call
each, and the backend decides. The deploy gates and signal rules are tables of conditions
over a plan, a cost or a scan, which their tests enumerate. The provider's configuration
chooses a client once. The command line tools and the pipeline engine parse flags,
call the packages above and print.

*Of the catalog.* Attribute values, quoting, layout and the embedded data; the numeric and
enumeration checks of a component's fields, which are one setting; what a boot script does on
its machine. The baseline's program writes three files one after the other, which is one
step here: a write that fails ends it, and the next run writes all of them again.

*In what else is modelled.* The MODE=full, SKIP_CHECKSUM and TABLES overrides of the scripts; a
restore over a live subscription, and two scripts run at once;
switching an environment between the modes; a work dir shared by two environments, and, beyond what
`Adopt` can do, environments that share names: the model lets them, the properties do not hold there, and
no run has them; deploys that complete after the client gave up; groups of one name in several VPCs;
what the backend makes of a `pyx_database` component; cryptography, attestation formats, diagnostics and
logging. Those that are hazards have an entry with a note in `PROJECT.json`.
