--------------------------- MODULE AssembleProofs ---------------------------
(***************************************************************************)
(* Theorems about Assemble and DOBaseline for every set of environments,   *)
(* names and settings: the steps' order and the rule that an error leaves  *)
(* no document; that the copies of the zone's variable become one; that    *)
(* the baseline's documents declare whatever they refer to and leave no    *)
(* machine without a firewall; and what AssembleHCL's documents hold.      *)
(*                                                                         *)
(* The last is one invariant of the steps, Contents: the documents are     *)
(* exactly those of the network, the group, the components so far and the  *)
(* Vault droplets, none of them refused, and inputs.  With it a property   *)
(* of the documents is one of the renderers (RendererProofs): providers,   *)
(* guards, targets and, last, that no reference dangles.                   *)
(***************************************************************************)
EXTENDS RendererProofs

Ind == IInv /\ env \in Environments

\* An error leaves no document and no pin.
LEMMA FailKept == Ind /\ Fail => Ind'
BY DEF Ind, IInv, Fail

LEMMA IndInit == EitherInit => Ind
BY EnvironmentsAssumption DEF EitherInit, Init, Ind, IInv

LEMMA IndNext == Ind /\ [EitherNext]_vars => Ind'
<1> SUFFICES ASSUME Ind, [EitherNext]_vars PROVE Ind'
  OBVIOUS
<1> USE DEF Ind
<1>0. /\ Len(env.components) \in Nat
      /\ DOMAIN components = 1..Len(env.components)
  BY EnvironmentsAssumption DEF IInv
<1>1. CASE Start
  BY <1>0, <1>1 DEF Start, IInv
<1>2. CASE Refuse \/ RefuseBaseline
  BY <1>2, FailKept DEF Refuse, RefuseBaseline
<1>3. CASE AddNetwork
  <2>1. Fail \/ (phase = "network" /\ phase' = "group" /\ UNCHANGED <<env, components, group, index, pinned>>)
    BY <1>3 DEF AddNetwork
  <2> QED BY <2>1, FailKept DEF IInv
<1>4. CASE AddSecurityGroup
  <2>1. Fail \/ (phase = "group" /\ phase' = "components" /\ UNCHANGED <<env, components, index, pinned>>)
    BY <1>4 DEF AddSecurityGroup
  <2> QED BY <2>1, FailKept DEF IInv
<1>5. CASE AddComponent
  <2>1. \/ Fail
        \/ /\ phase = "components" /\ index \in DOMAIN components /\ index' = index + 1
           /\ UNCHANGED <<env, components, group, phase, pinned>>
    BY <1>5 DEF AddComponent
  <2> QED BY <1>0, <2>1, FailKept DEF IInv
<1>6. CASE AddVaultDroplets
  <2>1. \/ Fail
        \/ /\ phase = "components" /\ index \notin DOMAIN components /\ phase' = "inputs"
           /\ UNCHANGED <<env, components, group, index, pinned>>
    BY <1>6 DEF AddVaultDroplets
  <2> QED BY <1>0, <2>1, FailKept DEF IInv
<1>7. CASE DeclareInputs
  BY <1>7 DEF DeclareInputs, IInv
<1>8. CASE BindProject
  BY <1>8 DEF BindProject, IInv
<1>9. CASE PinProviders
  BY <1>9 DEF PinProviders, IInv
<1>10. CASE RenderBaseline
  <2>1. Len(env.components) = 0
    BY <1>0, <1>10, BaselinesAssumption DEF RenderBaseline, IsBaseline
  <2> QED BY <1>10, <2>1 DEF RenderBaseline, IInv
<1>11. CASE WriteModule
  BY <1>11 DEF WriteModule, IInv
<1>12. CASE UNCHANGED vars
  BY <1>12 DEF vars, IInv
<1> QED BY <1>1, <1>2, <1>3, <1>4, <1>5, <1>6, <1>7, <1>8, <1>9, <1>10, <1>11, <1>12
   DEF EitherNext, RenderProgram, Next

\* Whatever the environment, the documents are made in their order, each
\* component once, and an error anywhere leaves no document at all.
THEOREM AssemblyInOrder == EitherSpec => []IInv
<1>1. EitherSpec => []Ind
  BY IndInit, IndNext, PTL DEF EitherSpec
<1>2. Ind => IInv
  BY DEF Ind
<1> QED BY <1>1, <1>2, PTL
-----------------------------------------------------------------------------
(* The baseline's documents.                                               *)

IsList(ds) == \E S : ds \in Seq(S)

LEMMA ToSetAppend ==
  ASSUME NEW S, NEW s \in Seq(S), NEW d \in S
  PROVE  ToSet(Append(s, d)) = ToSet(s) \cup {d}
<1>1. /\ Len(s) \in Nat /\ DOMAIN s = 1..Len(s)
      /\ DOMAIN Append(s, d) = 1..Len(s) + 1
      /\ Append(s, d)[Len(s) + 1] = d
      /\ \A i \in 1..Len(s) : Append(s, d)[i] = s[i]
  BY AppendProperties, LenProperties
<1>2. \A i \in 1..Len(s) + 1 : i \in 1..Len(s) \/ i = Len(s) + 1
  BY <1>1
<1>3. \A i \in 1..Len(s) : i \in 1..Len(s) + 1
  BY <1>1
<1>4. Len(s) + 1 \in 1..Len(s) + 1
  BY <1>1
<1> QED BY <1>1, <1>2, <1>3, <1>4 DEF ToSet

LEMMA ToSetConcat ==
  ASSUME NEW S, NEW s \in Seq(S), NEW t \in Seq(S)
  PROVE  ToSet(s \o t) = ToSet(s) \cup ToSet(t)
<1>1. /\ Len(s) \in Nat /\ Len(t) \in Nat
      /\ DOMAIN s = 1..Len(s) /\ DOMAIN t = 1..Len(t) /\ DOMAIN (s \o t) = 1..Len(s) + Len(t)
  BY ConcatProperties, LenProperties
<1>2. \A i \in 1..Len(s) + Len(t) : (s \o t)[i] = IF i <= Len(s) THEN s[i] ELSE t[i - Len(s)]
  BY ConcatProperties
<1>3. ASSUME NEW i \in 1..Len(s) + Len(t) PROVE (s \o t)[i] \in ToSet(s) \cup ToSet(t)
  BY <1>1, <1>2 DEF ToSet
<1>4. ASSUME NEW i \in DOMAIN s PROVE s[i] \in ToSet(s \o t)
  <2>1. i \in 1..Len(s) + Len(t) /\ (s \o t)[i] = s[i]
    BY <1>1, <1>2
  <2> QED BY <1>1, <2>1 DEF ToSet
<1>5. ASSUME NEW i \in DOMAIN t PROVE t[i] \in ToSet(s \o t)
  <2>1. i + Len(s) \in 1..Len(s) + Len(t) /\ (s \o t)[i + Len(s)] = t[i]
    BY <1>1, <1>2
  <2> QED BY <1>1, <2>1 DEF ToSet
<1>6. ToSet(s \o t) \subseteq ToSet(s) \cup ToSet(t)
  BY <1>1, <1>3 DEF ToSet
<1>7. ToSet(s) \subseteq ToSet(s \o t) /\ ToSet(t) \subseteq ToSet(s \o t)
  BY <1>4, <1>5 DEF ToSet
<1> QED BY <1>6, <1>7

VPCDoc    == One(<<"digitalocean", "vpc", BaselineNet>>, {})
SSODoor   == {Firewall("-sg", ServiceTag("sso"))}
FEDoor    == {Firewall("-staging-fe-sg", ServiceTag("staging-fe"))}
MainDB    == One(<<"digitalocean", "database_cluster", "pyx-main-db">>, VPCRef)
KeyDB     == One(<<"digitalocean", "database_cluster", "keycloak-db">>, VPCRef)
Bucket    == One(<<"digitalocean", "spaces_bucket", "artifacts">>, {})
SSODoc    == {ServiceGroup("sso")}
FEDoc     == {ServiceGroup("staging-fe")}
VaultDoc  == RenderVaultDropletCluster(VaultOfBaseline, BaselineNet)
ModuleDoc == {Variable("do_ssh_keys")} \cup When(On("full"), {Variable(v) : v \in DOBaselineVariableNames})

\* Which documents a module has.
BaselineParts ==
  {VPCDoc, SSODoor, FEDoor, MainDB, KeyDB, SSODoc, FEDoc, Bucket, ModuleDoc}
  \cup When(On("vault_ha"), {VaultDoc}) \cup When(On("full"), {DOBaselineVaultDataSources})

LEMMA PartsOfModule ==
  /\ IsList(AssembleDOBaseline)
  /\ ToSet(Append(AssembleDOBaseline, ModuleDoc)) = BaselineParts
<1> DEFINE S == BaselineParts \cup {VaultDoc, DOBaselineVaultDataSources}
           A == <<VPCDoc, SSODoor, FEDoor>>
           B == <<MainDB, KeyDB, SSODoc, FEDoc, Bucket>>
           V == IF On("vault_ha") THEN <<VaultDoc>> ELSE <<>>
           D == IF On("full") THEN <<DOBaselineVaultDataSources>> ELSE <<>>
<1>1. A \in Seq(S) /\ B \in Seq(S) /\ V \in Seq(S) /\ D \in Seq(S) /\ ModuleDoc \in S
  <2>1. A \in Seq(S)
    BY DEF BaselineParts
  <2>2. B \in Seq(S)
    BY DEF BaselineParts
  <2>3. <<VaultDoc>> \in Seq(S) /\ <<DOBaselineVaultDataSources>> \in Seq(S)
    OBVIOUS
  <2>4. << >> \in Seq(S)
    <3> HIDE DEF S
    <3> QED BY EmptySeq
  <2> QED BY <2>1, <2>2, <2>3, <2>4 DEF BaselineParts
<1>2. /\ ToSet(A) = {VPCDoc, SSODoor, FEDoor}
      /\ ToSet(B) = {MainDB, KeyDB, SSODoc, FEDoc, Bucket}
      /\ ToSet(V) = When(On("vault_ha"), {VaultDoc})
      /\ ToSet(D) = When(On("full"), {DOBaselineVaultDataSources})
  BY DEF ToSet, When
<1>3. AssembleDOBaseline = ((A \o B) \o V) \o D
  BY DEF AssembleDOBaseline, VPCDoc, SSODoor, FEDoor, MainDB, KeyDB, SSODoc, FEDoc, Bucket, VaultDoc
<1> DEFINE AB == A \o B
           ABV == AB \o V
           ABVD == ABV \o D
<1> HIDE DEF S, A, B, V, D
<1>4. AB \in Seq(S) /\ ToSet(AB) = ToSet(A) \cup ToSet(B)
  BY <1>1, ConcatProperties, ToSetConcat
<1> HIDE DEF AB
<1>5. ABV \in Seq(S) /\ ToSet(ABV) = ToSet(AB) \cup ToSet(V)
  BY <1>1, <1>4, ConcatProperties, ToSetConcat
<1> HIDE DEF ABV
<1>6. ABVD \in Seq(S) /\ ToSet(ABVD) = ToSet(ABV) \cup ToSet(D)
  BY <1>1, <1>5, ConcatProperties, ToSetConcat
<1>7. AssembleDOBaseline = ABVD
  BY <1>3 DEF AB, ABV
<1> HIDE DEF ABVD
<1>8. ToSet(Append(AssembleDOBaseline, ModuleDoc)) = ToSet(ABVD) \cup {ModuleDoc}
  BY <1>1, <1>6, <1>7, ToSetAppend
<1> QED BY <1>2, <1>4, <1>5, <1>6, <1>7, <1>8 DEF BaselineParts, IsList

\* What a document declares, the module declares.
LEMMA InModule ==
  ASSUME All = UNION BaselineParts, NEW d \in BaselineParts, NEW b \in d
  PROVE  b \in All /\ b.addr \in Declared(All)
BY DEF Declared

\* The references of a service's scale group: the network, the keys, and what
\* its script asks for.
LEMMA GroupsClosed ==
  ASSUME All = UNION BaselineParts, NEW s \in DOBaselineServices
  PROVE  ServiceGroup(s).refs \subseteq Declared(All)
<1>1. VPCRef \subseteq Declared(All)
  <2>1. VPCDoc \in BaselineParts /\ VPCDoc = {Block(<<"digitalocean", "vpc", BaselineNet>>, {})}
    BY DEF BaselineParts, VPCDoc, One
  <2> QED BY <2>1, InModule DEF VPCRef, Block
<1>2. <<"var", "do_ssh_keys">> \in Declared(All)
  <2>1. ModuleDoc \in BaselineParts /\ Variable("do_ssh_keys") \in ModuleDoc
    BY DEF BaselineParts, ModuleDoc
  <2> QED BY <2>1, InModule DEF Variable, Block
<1>3. ASSUME On("full")
      PROVE  escapeBashExpansionsForHeredoc(renderFullServiceBootstrap(s)) \subseteq Declared(All)
  <2>1. CASE s = "sso"
    <3>1. escapeBashExpansionsForHeredoc(renderFullServiceBootstrap(s))
            = {VaultKVDataSource(p).addr : p \in SSODOVaultDataSources(doBaselineSSOSpec)}
      BY <2>1 DEF escapeBashExpansionsForHeredoc, renderFullServiceBootstrap, References,
                  RenderSSODOBootstrapUserData, Script
    <3>2. DOBaselineVaultDataSources \in BaselineParts
      BY <1>3 DEF BaselineParts, When
    <3>3. \A p \in SSODOVaultDataSources(doBaselineSSOSpec) : VaultKVDataSource(p) \in DOBaselineVaultDataSources
      BY DEF DOBaselineVaultDataSources
    <3> QED BY <3>1, <3>2, <3>3, InModule
  <2>2. CASE s = "staging-fe"
    <3>1. escapeBashExpansionsForHeredoc(renderFullServiceBootstrap(s))
            = {<<"var", v>> : v \in DOBaselineVariableNames}
      BY <2>2 DEF escapeBashExpansionsForHeredoc, renderFullServiceBootstrap, References,
                  RenderStagingFEDOBootstrapUserData, Script, DOBaselineVariableNames
    <3>2. ModuleDoc \in BaselineParts
      BY DEF BaselineParts
    <3>3. \A v \in DOBaselineVariableNames : Variable(v) \in ModuleDoc
      BY <1>3 DEF ModuleDoc, When
    <3>4. \A v \in DOBaselineVariableNames : Variable(v).addr = <<"var", v>>
      BY DEF Variable, Block
    <3> QED BY <3>1, <3>2, <3>3, <3>4, InModule
  <2> QED BY <2>1, <2>2 DEF DOBaselineServices
<1>4. ServiceGroup(s).refs
        = VPCRef \cup {<<"var", "do_ssh_keys">>}
          \cup When(On("full"), escapeBashExpansionsForHeredoc(renderFullServiceBootstrap(s)))
  BY DEF ServiceGroup, Tagged, Block
<1> QED BY <1>1, <1>2, <1>3, <1>4 DEF When

\* The references of a cluster of Vault droplets: the network, the keys, and
\* its own volumes and droplets.
LEMMA VaultRefs ==
  ASSUME NEW v, NEW network, normalized(v), NEW b \in RenderVaultDropletCluster(v, network)
  PROVE  b.refs \subseteq {<<"digitalocean", "vpc", network>>, <<"var", "do_ssh_keys">>}
                          \cup Declared(RenderVaultDropletCluster(v, network))
<1> DEFINE Volume(i) == <<"digitalocean", "volume", VaultName(v) \o i \o "-data">>
           Node(i)   == <<"digitalocean", "droplet", VaultName(v) \o i>>
           Address(i) == <<"digitalocean", "reserved_ip", VaultName(v) \o i \o "-ip">>
           Door      == Selecting(Block(VaultFirewall(v), {}), {vaultDropletTag})
           Disk(i)   == Block(Volume(i), {})
           Droplet(i) == Tagged(Block(Node(i), {<<"digitalocean", "vpc", network>>, <<"var", "do_ssh_keys">>, Volume(i)}),
                                {vaultDropletTag})
           Fixed(i)  == Block(Address(i), {Node(i)})
           Cluster   == RenderVaultDropletCluster(v, network)
<1>1. Cluster = {Door} \cup {Disk(i) : i \in VaultNodes(v)} \cup {Droplet(i) : i \in VaultNodes(v)}
                \cup When("reserved_ips" \in v.opts, {Fixed(i) : i \in VaultNodes(v)})
  BY DEF RenderVaultDropletCluster, OrRefuse
<1> HIDE DEF Cluster
<1>2. Door.refs = {}
  BY DEF Selecting, Block
<1>3. ASSUME NEW i \in VaultNodes(v)
      PROVE  /\ Volume(i) \in Declared(Cluster) /\ Node(i) \in Declared(Cluster)
             /\ Disk(i).refs = {} /\ Fixed(i).refs = {Node(i)}
             /\ Droplet(i).refs = {<<"digitalocean", "vpc", network>>, <<"var", "do_ssh_keys">>, Volume(i)}
  <2>1. Disk(i) \in Cluster /\ Droplet(i) \in Cluster
    BY <1>1
  <2>2. Disk(i).addr = Volume(i) /\ Droplet(i).addr = Node(i)
    BY DEF Tagged, Block
  <2>3. /\ Disk(i).refs = {} /\ Fixed(i).refs = {Node(i)}
        /\ Droplet(i).refs = {<<"digitalocean", "vpc", network>>, <<"var", "do_ssh_keys">>, Volume(i)}
    BY DEF Tagged, Block
  <2> QED BY <2>1, <2>2, <2>3 DEF Declared
<1>4. \/ b = Door
      \/ \E i \in VaultNodes(v) : b \in {Disk(i), Droplet(i), Fixed(i)}
  BY <1>1 DEF When, Cluster
<1> HIDE DEF Volume, Node, Address, Door, Disk, Droplet, Fixed
<1>5. b.refs \subseteq {<<"digitalocean", "vpc", network>>, <<"var", "do_ssh_keys">>} \cup Declared(Cluster)
  BY <1>2, <1>3, <1>4
<1> QED BY <1>5 DEF Cluster

\* Every droplet of the cluster has the tag that its own firewall selects.
LEMMA VaultGuarded ==
  ASSUME NEW v, NEW network, normalized(v)
  PROVE  /\ \A b \in RenderVaultDropletCluster(v, network) : Bare(b) \/ b.tags = {vaultDropletTag}
         /\ \E b \in RenderVaultDropletCluster(v, network) :
              b.addr[2] = "firewall" /\ b.selects = {vaultDropletTag}
<1> DEFINE Volume(i) == <<"digitalocean", "volume", VaultName(v) \o i \o "-data">>
           Node(i)   == <<"digitalocean", "droplet", VaultName(v) \o i>>
           Address(i) == <<"digitalocean", "reserved_ip", VaultName(v) \o i \o "-ip">>
           Door      == Selecting(Block(VaultFirewall(v), {}), {vaultDropletTag})
           Disk(i)   == Block(Volume(i), {})
           Droplet(i) == Tagged(Block(Node(i), {<<"digitalocean", "vpc", network>>, <<"var", "do_ssh_keys">>, Volume(i)}),
                                {vaultDropletTag})
           Fixed(i)  == Block(Address(i), {Node(i)})
           Cluster   == RenderVaultDropletCluster(v, network)
<1>1. Cluster = {Door} \cup {Disk(i) : i \in VaultNodes(v)} \cup {Droplet(i) : i \in VaultNodes(v)}
                \cup When("reserved_ips" \in v.opts, {Fixed(i) : i \in VaultNodes(v)})
  BY DEF RenderVaultDropletCluster, OrRefuse
<1> HIDE DEF Cluster
<1>2. Door.addr[2] = "firewall" /\ Door.selects = {vaultDropletTag} /\ Bare(Door)
  BY DEF Selecting, Block, VaultFirewall, Bare
<1>3. \A i \in VaultNodes(v) : Bare(Disk(i)) /\ Bare(Fixed(i)) /\ Droplet(i).tags = {vaultDropletTag}
  BY DEF Tagged, Block, Bare
<1>4. \A b \in Cluster : b = Door \/ \E i \in VaultNodes(v) : b \in {Disk(i), Droplet(i), Fixed(i)}
  BY <1>1 DEF When
<1>5. Door \in Cluster
  BY <1>1
<1> HIDE DEF Door, Disk, Droplet, Fixed
<1>6. /\ \A b \in Cluster : Bare(b) \/ b.tags = {vaultDropletTag}
      /\ \E b \in Cluster : b.addr[2] = "firewall" /\ b.selects = {vaultDropletTag}
  BY <1>2, <1>3, <1>4, <1>5
<1> QED BY <1>6 DEF Cluster

LEMMA BaselineClosed ==
  ASSUME All = UNION BaselineParts, Runnable
  PROVE  Referred(All) \subseteq Declared(All)
<1> SUFFICES ASSUME NEW d \in BaselineParts, NEW b \in d PROVE b.refs \subseteq Declared(All)
  BY DEF Referred
<1>1. VPCRef \subseteq Declared(All) /\ <<"var", "do_ssh_keys">> \in Declared(All)
  <2>1. ServiceGroup("sso").refs \subseteq Declared(All)
    BY GroupsClosed DEF DOBaselineServices
  <2> QED BY <2>1 DEF ServiceGroup, Tagged, Block
<1>2. CASE d \in {VPCDoc, SSODoor, FEDoor, Bucket, ModuleDoc}
  <2>1. \A a : Block(a, {}).refs = {}
    BY DEF Block
  <2>2. CASE d \in {VPCDoc, Bucket}
    BY <2>1, <2>2 DEF VPCDoc, Bucket, One
  <2>3. CASE d \in {SSODoor, FEDoor}
    <3>1. PICK n, t : b = Firewall(n, t)
      BY <2>3 DEF SSODoor, FEDoor
    <3>2. b.refs = {}
      BY <3>1 DEF Firewall, Selecting, Block
    <3> QED BY <3>2
  <2>4. CASE d = ModuleDoc
    <3>1. PICK v : b = Variable(v)
      BY <2>4 DEF ModuleDoc, When
    <3>2. b.refs = {}
      BY <2>1, <3>1 DEF Variable
    <3> QED BY <3>2
  <2> QED BY <1>2, <2>2, <2>3, <2>4
<1>3. CASE d \in {MainDB, KeyDB}
  <2>1. MainDB = {Block(<<"digitalocean", "database_cluster", "pyx-main-db">>, VPCRef)}
        /\ KeyDB = {Block(<<"digitalocean", "database_cluster", "keycloak-db">>, VPCRef)}
    BY DEF MainDB, KeyDB, One
  <2>2. b.refs = VPCRef
    BY <1>3, <2>1 DEF Block
  <2> QED BY <1>1, <2>2
<1>4. CASE d \in {SSODoc, FEDoc}
  BY <1>4, GroupsClosed DEF SSODoc, FEDoc, DOBaselineServices
<1>5. CASE On("vault_ha") /\ d = VaultDoc
  <2>1. normalized(VaultOfBaseline)
    BY <1>5 DEF Runnable
  <2>2. b.refs \subseteq {<<"digitalocean", "vpc", BaselineNet>>, <<"var", "do_ssh_keys">>} \cup Declared(VaultDoc)
    BY <1>5, <2>1, VaultRefs DEF VaultDoc
  <2>3. Declared(VaultDoc) \subseteq Declared(All)
    BY <1>5, InModule DEF Declared
  <2> QED BY <1>1, <2>2, <2>3 DEF VPCRef
<1>6. CASE d = DOBaselineVaultDataSources
  BY <1>6 DEF DOBaselineVaultDataSources, VaultKVDataSource, Block
<1> QED BY <1>2, <1>3, <1>4, <1>5, <1>6 DEF BaselineParts, When

LEMMA BaselineGuarded ==
  ASSUME All = UNION BaselineParts, Runnable, NEW b \in Droplets
  PROVE  b.tags \cap Selected # {}
<1>1. \A x \in All : x.addr[2] = "firewall" => x.selects \subseteq Selected
  BY DEF Selected
<1>2. ~Bare(b)
  BY DEF Droplets, Bare
<1>3. PICK d \in BaselineParts : b \in d
  BY DEF Droplets
<1>4. CASE d = SSODoc
  <2>1. Firewall("-sg", ServiceTag("sso")) \in All
    BY InModule DEF BaselineParts, SSODoor
  <2>2. b.tags = {ServiceTag("sso")} /\ Firewall("-sg", ServiceTag("sso")).selects = {ServiceTag("sso")}
        /\ Firewall("-sg", ServiceTag("sso")).addr[2] = "firewall"
    BY <1>3, <1>4 DEF SSODoc, ServiceGroup, Firewall, Tagged, Selecting, Block
  <2> QED BY <1>1, <2>1, <2>2
<1>5. CASE d = FEDoc
  <2>1. Firewall("-staging-fe-sg", ServiceTag("staging-fe")) \in All
    BY InModule DEF BaselineParts, FEDoor
  <2>2. b.tags = {ServiceTag("staging-fe")}
        /\ Firewall("-staging-fe-sg", ServiceTag("staging-fe")).selects = {ServiceTag("staging-fe")}
        /\ Firewall("-staging-fe-sg", ServiceTag("staging-fe")).addr[2] = "firewall"
    BY <1>3, <1>5 DEF FEDoc, ServiceGroup, Firewall, Tagged, Selecting, Block
  <2> QED BY <1>1, <2>1, <2>2
<1>6. CASE On("vault_ha") /\ d = VaultDoc
  <2>1. normalized(VaultOfBaseline)
    BY <1>6 DEF Runnable
  <2>2. b.tags = {vaultDropletTag}
    BY <1>2, <1>3, <1>6, <2>1, VaultGuarded DEF VaultDoc
  <2>3. \E x \in All : x.addr[2] = "firewall" /\ x.selects = {vaultDropletTag}
    BY <1>6, <2>1, VaultGuarded, InModule DEF VaultDoc
  <2> QED BY <1>1, <2>2, <2>3
<1>7. CASE d \in {VPCDoc, SSODoor, FEDoor, Bucket, MainDB, KeyDB}
  <2>1. \A n : Bare(Block(<<"digitalocean", "vpc", n>>, {})) /\ Bare(Block(<<"digitalocean", "spaces_bucket", n>>, {}))
               /\ Bare(Block(<<"digitalocean", "database_cluster", n>>, VPCRef))
    BY DEF Block, Bare
  <2>2. \A n, t : Bare(Firewall(n, t))
    BY DEF Firewall, Selecting, Block, Bare
  <2>3. /\ \A x \in VPCDoc : Bare(x)
        /\ \A x \in Bucket : Bare(x)
        /\ \A x \in MainDB : Bare(x)
        /\ \A x \in KeyDB : Bare(x)
    BY <2>1 DEF VPCDoc, Bucket, MainDB, KeyDB, One
  <2>4. (\A x \in SSODoor : Bare(x)) /\ (\A x \in FEDoor : Bare(x))
    BY <2>2 DEF SSODoor, FEDoor
  <2> QED BY <1>2, <1>3, <1>7, <2>3, <2>4
<1>8. CASE d \in {ModuleDoc, DOBaselineVaultDataSources}
  BY <1>2, <1>3, <1>8
  DEF ModuleDoc, DOBaselineVaultDataSources, VaultKVDataSource, Variable, Block, Bare, When
<1> QED BY <1>3, <1>4, <1>5, <1>6, <1>7, <1>8 DEF BaselineParts, When

-----------------------------------------------------------------------------
(* The program's steps.                                                    *)

\* From the first step to the last, the documents are the baseline's.
BaselineDocs ==
  IsBaseline =>
    /\ phase \in {"start", "providers", "done", "failed"}
    /\ phase \in {"providers", "done"} => Runnable
    /\ phase = "providers" => docs = AssembleDOBaseline
    /\ phase = "done" => docs = Append(AssembleDOBaseline, ModuleDoc)

\* None of the names used in it depends on anything but the environment.
LEMMA SameEnvironment ==
  ASSUME env' = env
  PROVE  /\ IsBaseline' = IsBaseline /\ Runnable' = Runnable
         /\ AssembleDOBaseline' = AssembleDOBaseline /\ ModuleDoc' = ModuleDoc
<1>1. IsBaseline' = IsBaseline
  BY DEF IsBaseline
<1>2. Runnable' = Runnable
  BY DEF Runnable, On, DO, VaultOfBaseline
<1>3. AssembleDOBaseline' = AssembleDOBaseline
  BY DEF AssembleDOBaseline, ServiceGroup, VaultOfBaseline, On
<1>4. ModuleDoc' = ModuleDoc
  BY DEF ModuleDoc, On
<1> QED BY <1>1, <1>2, <1>3, <1>4

LEMMA DocsInit == EitherInit => BaselineDocs
BY DEF EitherInit, Init, BaselineDocs

LEMMA DocsNext == BaselineDocs /\ [EitherNext]_vars => BaselineDocs'
<1> SUFFICES ASSUME BaselineDocs, [EitherNext]_vars PROVE BaselineDocs'
  OBVIOUS
<1>1. CASE ~IsBaseline /\ Next
  <2>1. env' = env
    BY <1>1 DEF Next, Start, Refuse, AddNetwork, AddSecurityGroup, AddComponent, AddVaultDroplets,
                DeclareInputs, BindProject, PinProviders, Fail
  <2> QED BY <1>1, <2>1, SameEnvironment DEF BaselineDocs
<1>2. CASE RenderBaseline
  BY <1>2, SameEnvironment DEF RenderBaseline, BaselineDocs
<1>3. CASE RefuseBaseline
  BY <1>3, SameEnvironment DEF RefuseBaseline, Fail, BaselineDocs
<1>4. CASE WriteModule
  BY <1>4, SameEnvironment DEF WriteModule, BaselineDocs, ModuleDoc
<1>5. CASE UNCHANGED vars
  BY <1>5, SameEnvironment DEF vars, BaselineDocs
<1> QED BY <1>1, <1>2, <1>3, <1>4, <1>5 DEF EitherNext, RenderProgram

\* Whatever the settings the program is run with, the module it writes
\* declares everything it refers to, input variables included, and leaves no
\* droplet without a firewall.
THEOREM BaselineIsClosed == EitherSpec => []BaselineStandsAlone
<1>1. BaselineDocs => BaselineStandsAlone
  <2> SUFFICES ASSUME BaselineDocs, Done, IsBaseline
               PROVE  /\ Referred(All) \subseteq Declared(All)
                      /\ \A b \in Droplets : b.tags \cap Selected # {}
    BY DEF BaselineStandsAlone
  <2>1. Runnable /\ All = UNION BaselineParts
    BY PartsOfModule DEF BaselineDocs, Done, All
  <2> QED BY <2>1, BaselineClosed, BaselineGuarded
<1>2. EitherSpec => []BaselineDocs
  BY DocsInit, DocsNext, PTL DEF EitherSpec
<1> QED BY <1>1, <1>2, PTL
-----------------------------------------------------------------------------
(* The zone's variable.                                                    *)

Zone      == Block(ZoneVariable, {})
OneIn(ds) == \A i, j \in DOMAIN ds : Zone \in ds[i] /\ Zone \in ds[j] => i = j

\* A document put in front moves the others by one.
LEMMA PutFront ==
  ASSUME NEW ds, IsList(ds), NEW d
  PROVE  /\ IsList(<<d>> \o ds) /\ Len(ds) \in Nat /\ DOMAIN ds = 1..Len(ds)
         /\ DOMAIN (<<d>> \o ds) = 1..1 + Len(ds)
         /\ \A i \in 1..1 + Len(ds) : (<<d>> \o ds)[i] = IF i <= 1 THEN d ELSE ds[i - 1]
<1>1. PICK S : ds \in Seq(S)
  BY DEF IsList
<1> DEFINE T == S \cup {d}
<1>2. ds \in Seq(T) /\ <<d>> \in Seq(T) /\ Len(<<d>>) = 1
  <2>1. S \subseteq T /\ d \in T
    OBVIOUS
  <2> HIDE DEF T
  <2> QED BY <1>1, <2>1, SeqMonotonic
<1> HIDE DEF T
<1>3. /\ <<d>> \o ds \in Seq(T) /\ Len(ds) \in Nat
      /\ DOMAIN ds = 1..Len(ds) /\ DOMAIN (<<d>> \o ds) = 1..1 + Len(ds)
      /\ \A i \in 1..1 + Len(ds) : (<<d>> \o ds)[i] = IF i <= 1 THEN d ELSE ds[i - 1]
  BY <1>2, ConcatProperties, LenProperties
<1> QED BY <1>3 DEF IsList

\* A document without the variable can be put at either end.
LEMMA PutFirst ==
  ASSUME NEW ds, IsList(ds), OneIn(ds), NEW d, Zone \notin d
  PROVE  IsList(<<d>> \o ds) /\ OneIn(<<d>> \o ds)
<1> DEFINE r == <<d>> \o ds
<1>1. /\ IsList(r) /\ Len(ds) \in Nat /\ DOMAIN ds = 1..Len(ds) /\ DOMAIN r = 1..1 + Len(ds)
      /\ \A i \in 1..1 + Len(ds) : r[i] = IF i <= 1 THEN d ELSE ds[i - 1]
  BY PutFront
<1> HIDE DEF r
<1>2. ASSUME NEW i \in DOMAIN r, Zone \in r[i] PROVE i - 1 \in DOMAIN ds /\ Zone \in ds[i - 1]
  BY <1>1, <1>2
<1>3. ASSUME NEW i \in DOMAIN r, NEW j \in DOMAIN r, Zone \in r[i], Zone \in r[j] PROVE i = j
  <2>1. i - 1 = j - 1
    BY <1>2, <1>3 DEF OneIn
  <2> QED BY <1>1, <2>1
<1>4. OneIn(r)
  BY <1>3 DEF OneIn
<1> QED BY <1>1, <1>4 DEF r

LEMMA AppendList ==
  ASSUME NEW ds, IsList(ds), NEW d
  PROVE  /\ IsList(Append(ds, d)) /\ DOMAIN Append(ds, d) = DOMAIN ds \cup {Len(ds) + 1}
         /\ Append(ds, d)[Len(ds) + 1] = d
         /\ \A i \in DOMAIN ds : Append(ds, d)[i] = ds[i]
<1>1. PICK S : ds \in Seq(S)
  BY DEF IsList
<1> DEFINE T == S \cup {d}
<1>2. S \subseteq T /\ d \in T
  OBVIOUS
<1> HIDE DEF T
<1>3. ds \in Seq(T)
  BY <1>1, <1>2, SeqMonotonic
<1>4. /\ Append(ds, d) \in Seq(T) /\ Len(ds) \in Nat
      /\ DOMAIN ds = 1..Len(ds) /\ DOMAIN Append(ds, d) = 1..Len(ds) + 1
      /\ Append(ds, d)[Len(ds) + 1] = d
      /\ \A i \in 1..Len(ds) : Append(ds, d)[i] = ds[i]
  BY <1>2, <1>3, AppendProperties, LenProperties
<1>5. 1..Len(ds) + 1 = 1..Len(ds) \cup {Len(ds) + 1}
  BY <1>4
<1> QED BY <1>4, <1>5 DEF IsList

LEMMA PutLast ==
  ASSUME NEW ds, IsList(ds), OneIn(ds), NEW d, Zone \notin d
  PROVE  OneIn(Append(ds, d))
BY AppendList DEF OneIn

\* A document that is not empty goes to the end.
LEMMA Append1List ==
  ASSUME IsList(docs), NEW d
  PROVE  IsList(Append1(d)) /\ (Zone \notin d /\ OneIn(docs) => OneIn(Append1(d)))
BY AppendList, PutLast DEF Append1

\* Whatever the documents, at most one declares the variable afterwards.
LEMMA DedupeOne ==
  ASSUME NEW ds, IsList(ds)
  PROVE  IsList(dedupeCloudflareZoneIDVar(ds)) /\ OneIn(dedupeCloudflareZoneIDVar(ds))
<1> DEFINE stripped == [i \in DOMAIN ds |-> ds[i] \ {Zone}]
<1>1. PICK S : ds \in Seq(S)
  BY DEF IsList
<1>2. Len(ds) \in Nat /\ DOMAIN ds = 1..Len(ds)
  BY <1>1, LenProperties
<1>3. DOMAIN stripped = 1..Len(ds) /\ \A i \in 1..Len(ds) : Zone \notin stripped[i]
  BY <1>2
<1>4. stripped \in Seq({ds[i] \ {Zone} : i \in DOMAIN ds})
  BY <1>2
<1> HIDE DEF stripped
<1>5. IsList(stripped) /\ OneIn(stripped)
  BY <1>3, <1>4 DEF IsList, OneIn
<1>6. CASE \E i \in DOMAIN ds : Zone \in ds[i]
  <2> DEFINE r == <<{Zone}>> \o stripped
  <2>1. /\ IsList(r) /\ Len(stripped) \in Nat /\ DOMAIN stripped = 1..Len(stripped)
        /\ DOMAIN r = 1..1 + Len(stripped)
        /\ \A i \in 1..1 + Len(stripped) : r[i] = IF i <= 1 THEN {Zone} ELSE stripped[i - 1]
    BY <1>5, PutFront
  <2> HIDE DEF r
  <2>2. ASSUME NEW i \in DOMAIN r, Zone \in r[i] PROVE i = 1
    <3>1. CASE ~(i <= 1)
      <4>1. i - 1 \in DOMAIN stripped /\ r[i] = stripped[i - 1]
        BY <2>1, <3>1
      <4> QED BY <1>3, <2>1, <2>2, <4>1
    <3> QED BY <2>1, <3>1
  <2>3. IsList(r) /\ OneIn(r)
    BY <2>1, <2>2 DEF OneIn
  <2>4. dedupeCloudflareZoneIDVar(ds) = <<{Zone}>> \o stripped
    BY <1>6 DEF dedupeCloudflareZoneIDVar, Zone, stripped
  <2> QED BY <2>3, <2>4 DEF r
<1>7. CASE ~\E i \in DOMAIN ds : Zone \in ds[i]
  <2>1. dedupeCloudflareZoneIDVar(ds) = ds
    BY <1>7 DEF dedupeCloudflareZoneIDVar, Zone
  <2> QED BY <1>7, <2>1 DEF OneIn
<1> QED BY <1>6, <1>7

\* None of the assembler's own documents declares it.
LEMMA OthersDoNot ==
  /\ Zone \notin Inputs
  /\ \A ds : Zone \notin BootstrapInputs(ds)
  /\ \A p : Zone \notin RenderDOProjectResources(p)
<1>1. Zone.addr = <<"var", "cloudflare_zone_id">>
  BY DEF Zone, Block, ZoneVariable
<1>2. Variable("do_ssh_keys").addr = <<"var", "do_ssh_keys">> /\ Block(Password, {}).addr = Password
  BY DEF Variable, Block
<1>3. Zone \notin Inputs
  BY <1>1, <1>2 DEF Inputs, When, Password
<1>4. "cloudflare_zone_id" \notin BootstrapVariables
  BY DEF BootstrapVariables, McpDOBootstrapVariableNames, OBSDOBootstrapVariableNames,
         BackendBootstrapVariableNames, VPNBootstrapVariableNames, Asks, Renamed
<1>5. \A v \in BootstrapVariables : Variable(v) # Zone
  <2>1. \A v : Variable(v).addr = <<"var", v>>
    BY DEF Variable, Block
  <2> QED BY <1>1, <1>4, <2>1
<1>6. \A p : VaultKVDataSource(p) # Zone
  <2>1. \A p : VaultKVDataSource(p).addr = <<"data", "vault", "kv_secret_v2", p>>
    BY DEF VaultKVDataSource, Block
  <2> QED BY <1>1, <2>1
<1>7. ASSUME NEW ds PROVE Zone \notin BootstrapInputs(ds)
  BY <1>5, <1>6 DEF BootstrapInputs, When
<1>8. ASSUME NEW p PROVE Zone \notin RenderDOProjectResources(p)
  <2>1. \A n, r : Block(<<"digitalocean", "project_resources", n>>, r).addr[1] = "digitalocean"
    BY DEF Block
  <2>2. Zone.addr[1] = "var"
    BY <1>1
  <2>3. \A n, r : Block(<<"digitalocean", "project_resources", n>>, r) # Zone
    BY <2>1, <2>2
  <2> QED BY <2>3 DEF RenderDOProjectResources, When, One
<1> QED BY <1>3, <1>7, <1>8

\* After the inputs are declared the variable is in one document at most.
ZoneInv ==
  /\ IsList(docs)
  /\ phase \in {"project", "providers", "done"} /\ ~IsBaseline => OneIn(docs)

\* What a Terraform module may declare only once.
OneZoneVariable ==
  Done /\ ~IsBaseline => \A i, j \in DOMAIN docs : Zone \in docs[i] /\ Zone \in docs[j] => i = j

LEMMA EmptyList == IsList(<< >>)
<1>1. << >> \in Seq({})
  OBVIOUS
<1> QED BY <1>1 DEF IsList

LEMMA ZoneNext == ZoneInv /\ [EitherNext]_vars => ZoneInv'
<1> SUFFICES ASSUME ZoneInv, [EitherNext]_vars PROVE ZoneInv'
  OBVIOUS
<1> USE DEF ZoneInv
<1>1. CASE Fail
  BY <1>1, EmptyList DEF Fail
<1>2. ASSUME NEW d, docs' = Append1(d), phase' \notin {"project", "providers", "done"} PROVE ZoneInv'
  BY <1>2, Append1List
<1>3. CASE Start
  BY <1>2, <1>3 DEF Start
<1>4. CASE Refuse \/ RefuseBaseline
  BY <1>1, <1>4 DEF Refuse, RefuseBaseline
<1>5. CASE AddNetwork
  <2>1. Fail \/ \E d : docs' = Append1(d) /\ phase' = "group"
    BY <1>5 DEF AddNetwork
  <2> QED BY <1>1, <1>2, <2>1
<1>6. CASE AddSecurityGroup
  <2>1. Fail \/ (phase' = "components" /\ (docs' = docs \/ \E d : docs' = Append1(d)))
    BY <1>6 DEF AddSecurityGroup
  <2> QED BY <1>1, <1>2, <2>1
<1>7. CASE AddComponent
  <2>1. Fail \/ \E d : docs' = Append1(d) /\ phase' = "components"
    BY <1>7 DEF AddComponent
  <2> QED BY <1>1, <1>2, <2>1
<1>8. CASE AddVaultDroplets
  <2>1. Fail \/ \E d : docs' = Append1(d) /\ phase' = "inputs"
    BY <1>8 DEF AddVaultDroplets
  <2> QED BY <1>1, <1>2, <2>1
<1>9. CASE DeclareInputs
  <2> DEFINE deduped == dedupeCloudflareZoneIDVar(docs)
             declared == IF Inputs = {} THEN deduped ELSE <<Inputs>> \o deduped
             boot == BootstrapInputs(declared)
  <2>1. IsList(deduped) /\ OneIn(deduped)
    BY DedupeOne
  <2>2. docs' = IF boot = {} THEN declared ELSE <<boot>> \o declared
    BY <1>9 DEF DeclareInputs
  <2> HIDE DEF deduped
  <2>3. IsList(declared) /\ OneIn(declared)
    BY <2>1, PutFirst, OthersDoNot
  <2>4. Zone \notin boot
    BY OthersDoNot
  <2> HIDE DEF declared, boot
  <2> QED BY <2>2, <2>3, <2>4, PutFirst
<1>10. CASE ~IsBaseline /\ BindProject
  <2> DEFINE d == When(DO /\ Exact, UNION {RenderDOProjectResources(p) : p \in env.project})
  <2>1. Zone \notin d
    BY OthersDoNot DEF When
  <2>2. docs' = Append1(d) /\ phase = "project"
    BY <1>10 DEF BindProject
  <2> HIDE DEF d
  <2> QED BY <1>10, <2>1, <2>2, Append1List
<1>11. CASE PinProviders /\ ~IsBaseline
  BY <1>11 DEF PinProviders, IsBaseline
<1>12. CASE RenderBaseline
  <2>1. IsBaseline' /\ docs' = AssembleDOBaseline
    BY <1>12 DEF RenderBaseline, IsBaseline
  <2> QED BY <2>1, PartsOfModule
<1>13. CASE WriteModule
  <2>1. IsBaseline' /\ docs' = Append(docs, ModuleDoc)
    BY <1>13 DEF WriteModule, IsBaseline, ModuleDoc
  <2> QED BY <2>1, AppendList
<1>14. CASE UNCHANGED vars
  BY <1>14 DEF vars, IsBaseline
<1> QED BY <1>3, <1>4, <1>5, <1>6, <1>7, <1>8, <1>9, <1>10, <1>11, <1>12, <1>13, <1>14
   DEF EitherNext, RenderProgram, Next

\* Every Cloudflare document declares the zone's variable for itself
\* (cloudflare.go), and Terraform accepts one declaration: whatever the
\* components and their order, no two documents keep it.
THEOREM ZoneDeclaredOnce == EitherSpec => []OneZoneVariable
<1>1. EitherInit => ZoneInv
  BY EmptyList DEF EitherInit, Init, ZoneInv
<1>2. ZoneInv => OneZoneVariable
  BY DEF ZoneInv, OneZoneVariable, OneIn, Done
<1> QED BY <1>1, <1>2, ZoneNext, PTL DEF EitherSpec
-----------------------------------------------------------------------------
(* What the documents consist of.                                          *)

Blocks(ds) == UNION ToSet(ds)

LEMMA PutAnywhere ==
  ASSUME NEW ds, IsList(ds), NEW d
  PROVE  Blocks(Append(ds, d)) = Blocks(ds) \cup d /\ Blocks(<<d>> \o ds) = d \cup Blocks(ds)
<1>1. PICK S : ds \in Seq(S)
  BY DEF IsList
<1> DEFINE T == S \cup {d}
<1>2. S \subseteq T /\ d \in T /\ <<d>> \in Seq(T) /\ ToSet(<<d>>) = {d}
  <2>1. d \in T /\ S \subseteq T
    OBVIOUS
  <2> HIDE DEF T
  <2>2. <<d>> \in Seq(T) /\ DOMAIN <<d>> = {1} /\ <<d>>[1] = d
    BY <2>1
  <2> QED BY <2>1, <2>2 DEF ToSet
<1> HIDE DEF T
<1>3. ds \in Seq(T)
  BY <1>1, <1>2, SeqMonotonic
<1>4. ToSet(Append(ds, d)) = ToSet(ds) \cup {d}
  BY <1>2, <1>3, ToSetAppend
<1>5. \A s, t : s \in Seq(T) /\ t \in Seq(T) => ToSet(s \o t) = ToSet(s) \cup ToSet(t)
  BY ToSetConcat
<1>6. ToSet(<<d>> \o ds) = ToSet(<<d>>) \cup ToSet(ds)
  BY <1>2, <1>3, <1>5
<1> QED BY <1>2, <1>4, <1>6 DEF Blocks

LEMMA Grown ==
  ASSUME IsList(docs), NEW d
  PROVE  Blocks(Append1(d)) = All \cup d
BY PutAnywhere DEF Append1, All, Blocks

LEMMA PutIfAny ==
  ASSUME NEW ds, IsList(ds), NEW d
  PROVE  LET r == IF d = {} THEN ds ELSE <<d>> \o ds IN IsList(r) /\ Blocks(r) = Blocks(ds) \cup d
<1>1. IsList(<<d>> \o ds)
  BY PutFront
<1>2. Blocks(<<d>> \o ds) = d \cup Blocks(ds)
  BY PutAnywhere
<1> QED BY <1>1, <1>2

\* The one declaration of the zone's variable moves, and no block is lost.
LEMMA DedupeKeeps ==
  ASSUME NEW ds, IsList(ds)
  PROVE  Blocks(dedupeCloudflareZoneIDVar(ds)) = Blocks(ds)
<1> DEFINE stripped == [i \in DOMAIN ds |-> ds[i] \ {Zone}]
<1>1. CASE \E i \in DOMAIN ds : Zone \in ds[i]
  <2>1. PICK S : ds \in Seq(S)
    BY DEF IsList
  <2>2. stripped \in Seq({ds[i] \ {Zone} : i \in DOMAIN ds})
    BY <2>1
  <2>3. DOMAIN stripped = DOMAIN ds /\ \A i \in DOMAIN ds : stripped[i] = ds[i] \ {Zone}
    OBVIOUS
  <2>4. dedupeCloudflareZoneIDVar(ds) = <<{Zone}>> \o stripped
    BY <1>1 DEF dedupeCloudflareZoneIDVar, Zone
  <2> HIDE DEF stripped
  <2>5. Blocks(<<{Zone}>> \o stripped) = {Zone} \cup Blocks(stripped)
    BY <2>2, PutAnywhere DEF IsList
  <2>6. Blocks(ds) = {Zone} \cup Blocks(stripped)
    BY <1>1, <2>3 DEF Blocks, ToSet
  <2> QED BY <2>4, <2>5, <2>6
<1>2. CASE ~\E i \in DOMAIN ds : Zone \in ds[i]
  BY <1>2 DEF dedupeCloudflareZoneIDVar, Zone
<1> QED BY <1>1, <1>2

\* The documents that depend on the environment alone, and those that the
\* steps so far have made.
ProjectDocument == When(DO /\ Exact, {Block(ProjectData(p), {}) : p \in env.project})

PastComponents == phase \in {"inputs", "project", "providers", "done"}
PastGroup      == PastComponents \/ phase = "components"
PastNetwork    == PastGroup \/ phase = "group"

Made ==
  {ProjectDocument}
  \cup When(PastNetwork, {NetworkDocument})
  \cup When(PastGroup /\ NeedsGroup, {GroupDocument})
  \cup {ComponentDocument(components[i]) : i \in 1..index - 1}
  \cup When(PastComponents, {VaultDocument})

\* What the last steps may add: inputs, Vault's data sources, the binding.
Extra(b) ==
  \/ \E v : b = Variable(v)
  \/ DO /\ \E p \in UserData("secrets") \cap KnownVaultKVPaths : b = VaultKVDataSource(p)
  \/ DO /\ \E n, r : b = Block(<<"digitalocean", "project_resources", n>>, r)

\* The components as the baseline changes them.
Given == IF Tagging THEN [i \in DOMAIN env.components |-> TagMachine(env.components[i])] ELSE env.components

\* The documents are exactly what was made, none of it refused, and those
\* inputs, which refer to nothing that is not declared.
Contents ==
  /\ IsList(docs)
  /\ phase = "start" => components = env.components /\ docs = <<>>
  /\ ~IsBaseline /\ phase \notin {"start", "failed"} =>
       /\ bindServiceHosts(env.components)
       /\ components = Given
       /\ Refusal \notin Made
       /\ UNION Made \subseteq All
       /\ \A b \in All \ UNION Made : Extra(b) /\ b.refs \subseteq Declared(All)

\* What a document depends on besides the environment.
LEMMA Unmoved ==
  ASSUME env' = env, components' = components
  PROVE  /\ ProjectDocument' = ProjectDocument
         /\ NetworkDocument' = NetworkDocument
         /\ GroupDocument' = GroupDocument
         /\ NeedsGroup' = NeedsGroup
         /\ VaultDocument' = VaultDocument
         /\ IsBaseline' = IsBaseline
         /\ Given' = Given
         /\ \A b : Extra(b)' = Extra(b)
<1>1. /\ Elements' = Elements /\ NetName' = NetName /\ SGName' = SGName /\ DO' = DO /\ Exact' = Exact
      /\ Tagging' = Tagging
  BY DEF Elements, NetName, SGName, DO, Exact, On, Tagging
<1>2. HasVM' = HasVM /\ managedInstanceProfiles' = managedInstanceProfiles
  BY <1>1 DEF HasVM, managedInstanceProfiles
<1>3. HasNetworked' = HasNetworked /\ DeriveSecurityBaseline' = DeriveSecurityBaseline
  BY <1>1, <1>2 DEF HasNetworked, DeriveSecurityBaseline, On
<1>4. NoContext' = NoContext /\ Network' = Network
  BY <1>1, <1>2 DEF NoContext, Context, Network, On
<1>5. NetworkDocument' = NetworkDocument
  BY <1>3, <1>4 DEF NetworkDocument
<1>6. EgressRules' = EgressRules /\ DropletTags' = DropletTags
  BY <1>1, <1>3 DEF EgressRules, DropletTags
<1>7. SecurityGroup' = SecurityGroup
  BY <1>1, <1>6 DEF SecurityGroup, GroupRules
<1>8. GroupDocument' = GroupDocument
  BY <1>1, <1>2, <1>7 DEF GroupDocument, Context, On
<1>9. NeedsGroup' = NeedsGroup
  BY <1>2, <1>3 DEF NeedsGroup
<1>10. VaultDocument' = VaultDocument
  BY <1>1 DEF VaultDocument, On
<1>11. \A b : Extra(b)' = Extra(b)
  BY <1>1 DEF Extra, UserData
<1>12. ProjectDocument' = ProjectDocument
  BY <1>1 DEF ProjectDocument
<1>13. IsBaseline' = IsBaseline /\ Given' = Given
  BY <1>1 DEF IsBaseline, Given, TagMachine, BaselineTag
<1> QED BY <1>1, <1>5, <1>8, <1>9, <1>10, <1>11, <1>12, <1>13

LEMMA ComponentUnmoved ==
  ASSUME env' = env, components' = components, group' = group, NEW i
  PROVE  ComponentDocument(components[i])' = ComponentDocument(components[i])
<1>1. Elements' = Elements /\ NetName' = NetName /\ SGName' = SGName /\ DO' = DO
  BY DEF Elements, NetName, SGName, DO, On
<1>2. managedInstanceProfiles' = managedInstanceProfiles
  BY <1>1 DEF managedInstanceProfiles
<1>3. ComponentContext' = ComponentContext
  BY <1>1, <1>2 DEF ComponentContext, Context, On
<1>4. inferDOKSClusterName' = inferDOKSClusterName
  BY <1>1 DEF inferDOKSClusterName
<1>5. RenderComponent(ComponentContext, components[i])' = RenderComponent(ComponentContext, components[i])
  BY <1>1, <1>3, <1>4 DEF RenderComponent, AssembleSecrets, AssembleKMS, OnCluster
<1> QED BY <1>3, <1>5 DEF ComponentDocument

\* A step that makes one more document, and one that adds inputs.
LEMMA OneMore ==
  ASSUME Contents, ~IsBaseline, phase \notin {"start", "failed"}, phase' \notin {"start", "failed"},
         env' = env, components' = components,
         NEW d, d # Refusal, Made' = Made \cup {d}, docs' = Append1(d)
  PROVE  Contents'
<1>1. All' = All \cup d /\ IsList(docs)'
  BY Grown, Append1List DEF Contents, All, Blocks
<1>2. \A b : Extra(b)' = Extra(b)
  BY Unmoved
<1>3. Declared(All) \subseteq Declared(All')
  BY <1>1 DEF Declared
<1>4. /\ Refusal \notin Made' /\ UNION Made' \subseteq All'
      /\ \A b \in All' \ UNION Made' : Extra(b) /\ b.refs \subseteq Declared(All')
  BY <1>1, <1>3 DEF Contents
<1>5. IsBaseline' = IsBaseline /\ Given' = Given
  BY Unmoved
<1> QED BY <1>1, <1>2, <1>4, <1>5 DEF Contents

LEMMA SameDocuments ==
  ASSUME Contents, ~IsBaseline, phase \notin {"start", "failed"}, phase' \notin {"start", "failed"},
         env' = env, components' = components,
         IsList(docs)', Made' = Made, All \subseteq All',
         \A b \in All' \ All : Extra(b) /\ b.refs \subseteq Declared(All')
  PROVE  Contents'
<1>1. \A b : Extra(b)' = Extra(b)
  BY Unmoved
<1>2. Declared(All) \subseteq Declared(All')
  BY DEF Declared
<1>3. /\ Refusal \notin Made' /\ UNION Made' \subseteq All'
      /\ \A b \in All' \ UNION Made' : Extra(b) /\ b.refs \subseteq Declared(All')
  BY <1>2 DEF Contents
<1>4. IsBaseline' = IsBaseline /\ Given' = Given
  BY Unmoved
<1> QED BY <1>1, <1>3, <1>4 DEF Contents

\* The documents of the components so far.
ComponentsMade == {ComponentDocument(components[i]) : i \in 1..index - 1}

LEMMA NoneYet == Ind /\ phase \in {"start", "network", "group"} => ComponentsMade = {}
BY DEF Ind, IInv, ComponentsMade

LEMMA OneComponentMore ==
  ASSUME Ind, env' = env, components' = components, group' = group
  PROVE  /\ index' = index => ComponentsMade' = ComponentsMade
         /\ index' = index + 1 => ComponentsMade' = ComponentsMade \cup {ComponentDocument(components[index])}
<1>1. \A i : ComponentDocument(components[i])' = ComponentDocument(components[i])
  BY ComponentUnmoved
<1>2. index \in Nat
  BY EnvironmentsAssumption DEF Ind, IInv
<1>3. index' = index => ComponentsMade' = ComponentsMade
  BY <1>1 DEF ComponentsMade
<1>4. ASSUME index' = index + 1 PROVE ComponentsMade' = ComponentsMade \cup {ComponentDocument(components[index])}
  <2>1. ComponentsMade' = {ComponentDocument(components[i]) : i \in 1..index'-1}
    BY <1>1 DEF ComponentsMade
  <2>2. 1..index' - 1 = (1..index - 1) \cup {index}
    BY <1>2, <1>4, index >= 1 DEF Ind, IInv
  <2> QED BY <2>1, <2>2 DEF ComponentsMade
<1> QED BY <1>3, <1>4

LEMMA MadeIs ==
  /\ Made = {ProjectDocument} \cup When(PastNetwork, {NetworkDocument})
            \cup When(PastGroup /\ NeedsGroup, {GroupDocument})
            \cup ComponentsMade \cup When(PastComponents, {VaultDocument})
  /\ Made' = {ProjectDocument'} \cup When(PastNetwork', {NetworkDocument'})
             \cup When(PastGroup' /\ NeedsGroup', {GroupDocument'})
             \cup ComponentsMade' \cup When(PastComponents', {VaultDocument'})
BY DEF Made, ComponentsMade

LEMMA ContentsNext == Ind /\ Contents /\ ~IsBaseline /\ Next => Contents'
<1> SUFFICES ASSUME Ind, Contents, ~IsBaseline, Next PROVE Contents'
  OBVIOUS
<1>1. CASE Fail
  BY <1>1, EmptyList DEF Fail, Contents
<1> DEFINE Same == env' = env /\ components' = components
           Steady == phase \notin {"start", "failed"} /\ phase' \notin {"start", "failed"}
<1>2. CASE Start
  <2>1. /\ phase' = "network" /\ env' = env /\ index' = 1 /\ bindServiceHosts(env.components)
        /\ docs = <<>> /\ components = env.components
    BY <1>2 DEF Start, Startable, Contents, Ind, IInv
  <2>2. components' = Given /\ Given' = Given
    BY <1>2, <2>1 DEF Start, Given, TagMachine, BaselineTag, Tagging, On, DO, Exact
  <2>3. Made' = {ProjectDocument'}
    BY <2>1 DEF Made, PastNetwork, PastGroup, PastComponents, When
  <2>4. ProjectDocument' = ProjectDocument
    BY <2>1 DEF ProjectDocument, DO, Exact, On
  <2>5. docs' = Append1(ProjectDocument)
    BY <1>2 DEF Start, ProjectDocument
  <2>6. IsList(docs)' /\ All' = All \cup ProjectDocument
    BY <2>5, Grown, Append1List DEF Contents, All, Blocks
  <2>7. All = {}
    BY <2>1 DEF All, ToSet
  <2>8. ProjectDocument # Refusal
    <3>1. Block(<<"refused">>, {}).addr[1] = "refused"
      BY DEF Block
    <3>2. \A b \in ProjectDocument : b.addr[1] = "data"
      BY DEF ProjectDocument, When, Block, ProjectData
    <3> QED BY <3>1, <3>2 DEF Refusal
  <2> QED BY <2>1, <2>2, <2>3, <2>4, <2>6, <2>7, <2>8 DEF Contents
<1>3. CASE AddNetwork /\ ~Fail
  <2>1. /\ Same /\ phase = "network" /\ phase' = "group" /\ group' = group /\ index' = index
        /\ docs' = Append1(NetworkDocument) /\ NetworkDocument # Refusal
    BY <1>3 DEF AddNetwork
  <2>2. ComponentsMade = {} /\ ComponentsMade' = ComponentsMade
    BY <2>1, NoneYet, OneComponentMore
  <2>3. Made = {ProjectDocument}
    BY <2>1, <2>2, MadeIs DEF PastNetwork, PastGroup, PastComponents, When
  <2>4. Made' = {ProjectDocument', NetworkDocument'} \cup ComponentsMade'
    BY <2>1, MadeIs DEF PastNetwork, PastGroup, PastComponents, When
  <2> QED BY <2>1, <2>2, <2>3, <2>4, Unmoved, OneMore
<1>4. CASE AddSecurityGroup /\ ~Fail
  <2>1. Same /\ phase = "group" /\ phase' = "components" /\ index' = index
    BY <1>4 DEF AddSecurityGroup
  <2>2. ComponentsMade = {} /\ ComponentsMade' = {}
    BY <2>1, NoneYet DEF Ind, IInv, ComponentsMade
  <2>3. Made = {ProjectDocument, NetworkDocument}
    BY <2>1, <2>2, MadeIs DEF PastNetwork, PastGroup, PastComponents, When
  <2>4. Made' = {ProjectDocument', NetworkDocument'} \cup When(NeedsGroup', {GroupDocument'})
    BY <2>1, <2>2, MadeIs DEF PastNetwork, PastGroup, PastComponents, When
  <2>5. CASE ~NeedsGroup
    <3>1. Made' = Made /\ docs' = docs
      BY <1>4, <2>1, <2>3, <2>4, <2>5, Unmoved DEF AddSecurityGroup, When
    <3>2. All' = All /\ IsList(docs)'
      BY <3>1 DEF All, Contents
    <3> QED BY <2>1, <3>1, <3>2, SameDocuments
  <2>6. CASE NeedsGroup
    <3>1. Made' = Made \cup {GroupDocument} /\ docs' = Append1(GroupDocument) /\ GroupDocument # Refusal
      BY <1>4, <2>1, <2>3, <2>4, <2>6, Unmoved DEF AddSecurityGroup, When
    <3> QED BY <2>1, <3>1, OneMore
  <2> QED BY <2>5, <2>6
<1>5. CASE AddComponent /\ ~Fail
  <2> DEFINE d == ComponentDocument(components[index])
  <2>1. /\ Same /\ phase = "components" /\ phase' = phase /\ group' = group /\ index' = index + 1
        /\ docs' = Append1(d) /\ d # Refusal
    BY <1>5 DEF AddComponent
  <2>2. ComponentsMade' = ComponentsMade \cup {d}
    BY <2>1, OneComponentMore
  <2> HIDE DEF d
  <2>3. Made = {ProjectDocument, NetworkDocument} \cup When(NeedsGroup, {GroupDocument}) \cup ComponentsMade
    BY <2>1, MadeIs DEF PastNetwork, PastGroup, PastComponents, When
  <2>4. Made' = {ProjectDocument', NetworkDocument'} \cup When(NeedsGroup', {GroupDocument'}) \cup ComponentsMade'
    BY <2>1, MadeIs DEF PastNetwork, PastGroup, PastComponents, When
  <2>5. Made' = Made \cup {d}
    BY <2>1, <2>2, <2>3, <2>4, Unmoved DEF When
  <2> QED BY <2>1, <2>5, OneMore
<1>6. CASE AddVaultDroplets /\ ~Fail
  <2>1. /\ Same /\ phase = "components" /\ phase' = "inputs" /\ group' = group /\ index' = index
        /\ docs' = Append1(VaultDocument) /\ VaultDocument # Refusal
    BY <1>6 DEF AddVaultDroplets
  <2>2. ComponentsMade' = ComponentsMade
    BY <2>1, OneComponentMore
  <2>3. Made = {ProjectDocument, NetworkDocument} \cup When(NeedsGroup, {GroupDocument}) \cup ComponentsMade
    BY <2>1, MadeIs DEF PastNetwork, PastGroup, PastComponents, When
  <2>4. Made' = {ProjectDocument', NetworkDocument'} \cup When(NeedsGroup', {GroupDocument'}) \cup ComponentsMade'
                \cup {VaultDocument'}
    BY <2>1, MadeIs DEF PastNetwork, PastGroup, PastComponents, When
  <2>5. Made' = Made \cup {VaultDocument}
    BY <2>1, <2>2, <2>3, <2>4, Unmoved DEF When
  <2> QED BY <2>1, <2>5, OneMore
\* The last steps make no document of their own.
<1>7. ASSUME Same, group' = group, index' = index,
             phase \in {"inputs", "project", "providers", "done"}, phase' \in {"inputs", "project", "providers", "done"}
      PROVE  Made' = Made
  <2>1. ComponentsMade' = ComponentsMade
    BY <1>7, OneComponentMore
  <2>2. Made = {ProjectDocument, NetworkDocument} \cup When(NeedsGroup, {GroupDocument}) \cup ComponentsMade \cup {VaultDocument}
    BY <1>7, MadeIs DEF PastNetwork, PastGroup, PastComponents, When
  <2>3. Made' = {ProjectDocument', NetworkDocument'} \cup When(NeedsGroup', {GroupDocument'}) \cup ComponentsMade'
                \cup {VaultDocument'}
    BY <1>7, MadeIs DEF PastNetwork, PastGroup, PastComponents, When
  <2> QED BY <1>7, <2>1, <2>2, <2>3, Unmoved DEF When
<1>8. CASE DeclareInputs
  <2> DEFINE deduped  == dedupeCloudflareZoneIDVar(docs)
             declared == IF Inputs = {} THEN deduped ELSE <<Inputs>> \o deduped
             boot     == BootstrapInputs(declared)
  <2>1. /\ Same /\ phase = "inputs" /\ phase' = "project" /\ group' = group /\ index' = index
        /\ docs' = IF boot = {} THEN declared ELSE <<boot>> \o declared
    BY <1>8 DEF DeclareInputs
  <2>2. \A b \in Inputs : Extra(b) /\ b.refs = {}
    BY DEF Inputs, Extra, When, Variable, Password, Block
  <2>3. \A b \in boot : Extra(b) /\ b.refs = {}
    <3>1. (\A v : Variable(v).refs = {}) /\ (\A p : VaultKVDataSource(p).refs = {})
      BY DEF Variable, VaultKVDataSource, Block
    <3> QED BY <3>1 DEF BootstrapInputs, Extra, When
  <2>4. IsList(deduped) /\ Blocks(deduped) = All
    BY DedupeOne, DedupeKeeps DEF Contents, Blocks, All
  <2> HIDE DEF deduped
  <2>5. IsList(declared) /\ Blocks(declared) = All \cup Inputs
    BY <2>4, PutIfAny
  <2> HIDE DEF declared, boot
  <2>6. IsList(docs') /\ Blocks(docs') = All \cup Inputs \cup boot
    BY <2>1, <2>5, PutIfAny
  <2>7. All' = All \cup (Inputs \cup boot)
    BY <2>6 DEF All, Blocks
  <2>8. Made' = Made
    BY <1>7, <2>1
  <2> QED BY <2>1, <2>2, <2>3, <2>6, <2>7, <2>8, SameDocuments
<1>9. CASE BindProject
  <2> DEFINE d == When(DO /\ Exact, UNION {RenderDOProjectResources(p) : p \in env.project})
  <2>1. /\ Same /\ phase = "project" /\ phase' = "providers" /\ group' = group /\ index' = index /\ docs' = Append1(d)
    BY <1>9 DEF BindProject
  <2>2. \A b \in d : Extra(b) /\ b.refs \subseteq Declared(All)
    <3> DEFINE held == {a \in Declared(All) : a[1] = "digitalocean" /\ a[2] \in doProjectAssignableTypes}
               Bound(p) == Block(<<"digitalocean", "project_resources", "pyx_" \o TfName(p)>>, {ProjectData(p)} \cup held)
    <3> SUFFICES ASSUME NEW b \in d PROVE Extra(b) /\ b.refs \subseteq Declared(All)
      OBVIOUS
    <3>1. DO /\ Exact
      BY DEF When
    <3>2. PICK p \in env.project : b = Bound(p)
      BY <3>1 DEF RenderDOProjectResources, When, One
    <3>3. Block(ProjectData(p), {}) \in All
      <4>1. ProjectDocument \in Made
        BY DEF Made
      <4>2. ProjectDocument \subseteq All
        BY <2>1, <4>1 DEF Contents
      <4> QED BY <3>1, <4>2 DEF ProjectDocument, When
    <3>4. ProjectData(p) \in Declared(All)
      BY <3>3 DEF Declared, Block
    <3>5. Bound(p).refs = {ProjectData(p)} \cup held
      BY DEF Block
    <3>6. Extra(Bound(p))
      BY <3>1 DEF Extra
    <3> HIDE DEF Bound, d
    <3> QED BY <3>2, <3>4, <3>5, <3>6
  <2> HIDE DEF d
  <2>3. All' = All \cup d /\ IsList(docs)'
    BY <2>1, Grown, Append1List DEF Contents, All, Blocks
  <2>4. Made' = Made
    BY <1>7, <2>1
  <2>5. All \subseteq All' /\ \A b \in All' \ All : Extra(b) /\ b.refs \subseteq Declared(All')
    BY <2>2, <2>3 DEF Declared
  <2> QED BY <2>1, <2>3, <2>4, <2>5, SameDocuments
<1>10. CASE PinProviders
  <2>1. Same /\ phase = "providers" /\ phase' = "done" /\ group' = group /\ index' = index /\ docs' = docs
    BY <1>10 DEF PinProviders
  <2>2. Made' = Made /\ All' = All /\ IsList(docs)'
    BY <1>7, <2>1 DEF All, Contents
  <2> QED BY <2>1, <2>2, SameDocuments
<1> QED BY <1>1, <1>2, <1>3, <1>4, <1>5, <1>6, <1>8, <1>9, <1>10 DEF Next, Refuse

LEMMA ContentsStep == Ind /\ Contents /\ [EitherNext]_vars => Contents'
<1> SUFFICES ASSUME Ind, Contents, [EitherNext]_vars PROVE Contents'
  OBVIOUS
<1>1. CASE ~IsBaseline /\ Next
  BY <1>1, ContentsNext
<1>2. CASE RenderBaseline
  <2>1. IsBaseline' /\ docs' = AssembleDOBaseline /\ phase' = "providers"
    BY <1>2 DEF RenderBaseline, IsBaseline
  <2> QED BY <2>1, PartsOfModule DEF Contents
<1>3. CASE RefuseBaseline
  BY <1>3, EmptyList DEF RefuseBaseline, Fail, Contents
<1>4. CASE WriteModule
  <2>1. IsBaseline' /\ docs' = Append(docs, ModuleDoc) /\ phase' = "done"
    BY <1>4 DEF WriteModule, IsBaseline, ModuleDoc
  <2> QED BY <2>1, AppendList DEF Contents
<1>5. CASE UNCHANGED vars
  <2>1. env' = env /\ components' = components /\ group' = group /\ index' = index /\ phase' = phase /\ docs' = docs
    BY <1>5 DEF vars
  <2>2. ComponentsMade' = ComponentsMade
    BY <2>1, OneComponentMore
  <2>3. Made' = Made
    BY <2>1, <2>2, MadeIs, Unmoved DEF PastNetwork, PastGroup, PastComponents
  <2>4. IsBaseline' = IsBaseline /\ All' = All
    BY <2>1 DEF IsBaseline, All
  <2>5. CASE ~IsBaseline /\ phase \notin {"start", "failed"}
    BY <2>1, <2>3, <2>4, <2>5, SameDocuments DEF Contents
  <2>6. CASE IsBaseline \/ phase \in {"start", "failed"}
    BY <2>1, <2>4, <2>6 DEF Contents
  <2> QED BY <2>5, <2>6
<1> QED BY <1>1, <1>2, <1>3, <1>4, <1>5 DEF EitherNext, RenderProgram

\* Nothing that was asked for is lost and nothing else is written: whatever
\* the environment, its documents are those of its network, its group, each of
\* its components and its Vault droplets, none of them refused, and besides
\* them only inputs and the project's binding.
THEOREM DocumentsComplete == EitherSpec => []Contents
<1>1. EitherInit => Ind /\ Contents
  BY IndInit, EmptyList DEF EitherInit, Init, Contents
<1>2. Ind /\ Contents /\ [EitherNext]_vars => (Ind /\ Contents)'
  BY IndNext, ContentsStep
<1> QED BY <1>1, <1>2, PTL DEF EitherSpec
-----------------------------------------------------------------------------
(* The providers.                                                          *)

\* What the last step pins, or what installs itself when it pins nothing.
Usable == {cloudProviderSource(env.provider)}
          \cup When(NeedsCloudflare, {"cloudflare"}) \cup When(NeedsKubernetes, {"kubernetes"})
          \cup When(NeedsHelm, {"helm"}) \cup When(NeedsVault, {"vault"})

\* Of the components that are rendered, what each may need.
LEMMA FlagsRaised ==
  ASSUME NEW c \in Rendered
  PROVE  Flags(ComponentContext, c) \subseteq Usable
<1>1. ComponentContext.provider = env.provider
  BY DEF ComponentContext, Context
<1>2. DO /\ c.type \in OperatorTypes => NeedsHelm /\ NeedsKubernetes
  BY DEF NeedsHelm, NeedsKubernetes
<1>3. DO /\ c.type \in IdentityTypes \cup TriggerTypes => NeedsKubernetes
  BY DEF NeedsKubernetes
<1>4. (\/ c.type = "dns"
       \/ c.type \in StaticSiteTypes /\ UsesCloudflareSite(ComponentContext, c)
       \/ c.type \in CDNTypes /\ UsesCloudflare(ComponentContext, c)
       \/ c.type \in WAFTypes /\ ViaCloudflare(ComponentContext)) => NeedsCloudflare
  BY DEF NeedsCloudflare
<1> HIDE DEF NeedsHelm, NeedsKubernetes, NeedsCloudflare
<1> QED BY <1>1, <1>2, <1>3, <1>4 DEF Flags, Usable, When, DO

\* What DigitalOcean's documents are.
LEMMA OnDO ==
  ASSUME NEW ctx, ctx.provider = "digitalocean", NEW c
  PROVE  /\ RenderSGHCL(ctx, c) = renderSGDO(c)
         /\ RenderVMHCL(ctx, c) = renderVMDO(ctx, c)
         /\ RenderScaleGroupHCL(ctx, c) = renderScaleGroupDO(ctx, c)
         /\ ~Has(c, "stable_ip") => RenderLoadBalancerHCL(ctx, c) = renderLBDO(ctx, c)
<1>1. ~IsAdapter("digitalocean")
  BY DEF IsAdapter, AllManifests, AdapterManifests, tailAdapterManifests
<1> QED BY <1>1 DEF RenderSGHCL, RenderVMHCL, RenderScaleGroupHCL, RenderLoadBalancerHCL

\* The machines of DigitalOcean.
LEMMA MachinesOfDO ==
  ASSUME NEW ctx, NEW c
  PROVE  /\ \A b \in renderVMDO(ctx, c) : ProviderLocal(b.addr) = {"digitalocean"}
         /\ \A b \in renderScaleGroupDO(ctx, c) : ProviderLocal(b.addr) = {"digitalocean"}
<1>1. \A t, n, r, s : ProviderLocal(Tagged(Block(<<"digitalocean", t, n>>, r), s).addr) = {"digitalocean"}
  BY DEF Tagged, Block, ProviderLocal
<1>2. ASSUME NEW b \in renderVMDO(ctx, c) PROVE ProviderLocal(b.addr) = {"digitalocean"}
  <2>1. \E n, r, s : b = Tagged(Block(<<"digitalocean", "droplet", n>>, r), s)
    BY <1>2 DEF renderVMDO
  <2> QED BY <1>1, <2>1
<1>3. ASSUME NEW b \in renderScaleGroupDO(ctx, c) PROVE ProviderLocal(b.addr) = {"digitalocean"}
  BY <1>1, <1>3 DEF renderScaleGroupDO
<1> QED BY <1>2, <1>3

\* A document that is refused or needs nothing but P.
Needing(S, P) == S = Refusal \/ \A b \in S : ProviderLocal(b.addr) \subseteq P

LEMMA WithinNeeding ==
  ASSUME NEW p, NEW P, NEW Q, NEW S, Within(p, P, S), {cloudProviderSource(p)} \cup P \subseteq Q
  PROVE  Needing(S, Q)
BY DEF Within, Needing

LEMMA RefusedNeeding == ASSUME NEW Q, NEW S, Needing(S, Q) PROVE \A ok : Needing(OrRefuse(ok, S), Q)
BY DEF Needing, OrRefuse

LEMMA MachinesNeeding ==
  ASSUME NEW ctx, ctx.provider = env.provider, NEW c, NEW Q, cloudProviderSource(env.provider) \in Q
  PROVE  Needing(RenderVMHCL(ctx, c), Q) /\ Needing(RenderScaleGroupHCL(ctx, c), Q)
<1>1. CASE ctx.provider # "digitalocean"
  BY <1>1, InfrastructureKept, KeptWithin, WithinNeeding
<1>2. CASE ctx.provider = "digitalocean"
  <2>2. RenderVMHCL(ctx, c) = renderVMDO(ctx, c) /\ RenderScaleGroupHCL(ctx, c) = renderScaleGroupDO(ctx, c)
    BY <1>2, OnDO
  <2>3. "digitalocean" \in Q
    BY <1>2 DEF cloudProviderSource
  <2> QED BY <2>2, <2>3, MachinesOfDO DEF Needing
<1> QED BY <1>1, <1>2

LEMMA MachineRendered ==
  ASSUME NEW ctx, NEW c
  PROVE  /\ c.type = "virtual-machine" => RenderComponent(ctx, c) = AssembleVM(ctx, c)
         /\ c.type = "virtual-machine-scale-group" => RenderComponent(ctx, c) = AssembleScaleGroup(ctx, c)
         /\ c.type = "load-balancer" => RenderComponent(ctx, c) = AssembleLoadBalancer(ctx, c)
<1> USE DEF RenderComponent, BucketTypes, StaticSiteTypes, SecretTypes, QueueTypes, StreamTypes, KeyTypes, CDNTypes,
            WAFTypes, KubernetesTypes, EmailTypes, SyntheticsTypes, TriggerTypes, CertificateTypes, TracingTypes,
            IdentityTypes, VaultTypes, ReservedIPTypes, VPNTypes, VolumeTypes
<1>1. CASE c.type = "virtual-machine"
  BY <1>1
<1>2. CASE c.type = "virtual-machine-scale-group"
  BY <1>2
<1>3. CASE c.type = "load-balancer"
  BY <1>3
<1> QED BY <1>1, <1>2, <1>3

LEMMA ComponentNeeding ==
  ASSUME NEW c \in Elements
  PROVE  Needing(ComponentDocument(c), Usable)
<1> DEFINE ctx == ComponentContext
<1>1. ctx.provider = env.provider /\ cloudProviderSource(env.provider) \in Usable
  BY DEF ComponentContext, Context, Usable
<1>2. \A d : Needing(RenderVMHCL(ctx, d), Usable) /\ Needing(RenderScaleGroupHCL(ctx, d), Usable)
  BY <1>1, MachinesNeeding
<1>3. \A S : Needing(S, Usable) => \A ok : Needing(OrRefuse(ok, S), Usable)
  BY RefusedNeeding
<1>4. Needing(Refusal, Usable) /\ Needing({}, Usable)
  BY DEF Needing
<1>5. Needing(mitigateComponent(ctx, c), Usable)
  BY <1>2, <1>3 DEF mitigateComponent
<1>6. Needing(AssembleVM(ctx, c), Usable) /\ Needing(AssembleScaleGroup(ctx, c), Usable)
  BY <1>2, <1>3 DEF AssembleVM, AssembleScaleGroup, Configured
<1>7. ASSUME c \in Rendered PROVE Needing(RenderComponent(ctx, c), Usable)
  <2>1. CASE c.type \in MachineTypes
    <3>1. RenderComponent(ctx, c) = AssembleVM(ctx, c) \/ RenderComponent(ctx, c) = AssembleScaleGroup(ctx, c)
      BY <2>1, MachineRendered DEF MachineTypes
    <3> QED BY <1>6, <3>1
  <2>2. CASE c.type \notin MachineTypes
    <3>1. Within(ctx.provider, Flags(ctx, c), RenderComponent(ctx, c))
      BY <1>1, <2>2, ComponentWithin
    <3>2. {cloudProviderSource(ctx.provider)} \cup Flags(ctx, c) \subseteq Usable
      BY <1>1, <1>7, FlagsRaised
    <3> QED BY <3>1, <3>2, WithinNeeding
  <2> QED BY <2>1, <2>2
<1> HIDE DEF ctx
<1>8. ComponentDocument(c) \in {Refusal, {}, mitigateComponent(ctx, c)}
      \/ (c \in Rendered /\ ComponentDocument(c) = RenderComponent(ctx, c))
  BY DEF ComponentDocument, Rendered, ctx
<1> QED BY <1>4, <1>5, <1>7, <1>8

\* The droplets of Vault and the project are DigitalOcean's.
LEMMA VaultLocal ==
  ASSUME NEW v, NEW network, normalized(v), NEW b \in RenderVaultDropletCluster(v, network)
  PROVE  ProviderLocal(b.addr) = {"digitalocean"}
<1>1. /\ \A t, n, r : ProviderLocal(Block(<<"digitalocean", t, n>>, r).addr) = {"digitalocean"}
      /\ \A t, n, r, s : ProviderLocal(Tagged(Block(<<"digitalocean", t, n>>, r), s).addr) = {"digitalocean"}
      /\ \A t, n, r, s : ProviderLocal(Selecting(Block(<<"digitalocean", t, n>>, r), s).addr) = {"digitalocean"}
  BY DEF Tagged, Selecting, Block, ProviderLocal
<1>2. \/ \E t, n, r : b = Block(<<"digitalocean", t, n>>, r)
      \/ \E t, n, r, s : b = Tagged(Block(<<"digitalocean", t, n>>, r), s)
      \/ \E t, n, r, s : b = Selecting(Block(<<"digitalocean", t, n>>, r), s)
  BY DEF RenderVaultDropletCluster, VaultFirewall, OrRefuse, When
<1> QED BY <1>1, <1>2

LEMMA VaultOne ==
  ASSUME env \in Environments
  PROVE  VaultDocument = {} \/ VaultDocument = Refusal
         \/ \E v \in env.vault : DO /\ normalized(v) /\ VaultDocument = RenderVaultDropletCluster(v, NetName)
<1>1. CASE env.vault = {}
  BY <1>1 DEF VaultDocument
<1>2. CASE env.vault # {}
  <2>1. PICK v \in env.vault : env.vault = {v}
    BY <1>2, EnvironmentsAssumption
  <2>2. VaultDocument = OrRefuse(DO /\ ~On("not_offered"), RenderVaultDropletCluster(v, NetName))
    BY <2>1 DEF VaultDocument
  <2>3. RenderVaultDropletCluster(v, NetName) = Refusal \/ normalized(v)
    BY DEF RenderVaultDropletCluster, OrRefuse
  <2> QED BY <2>2, <2>3 DEF OrRefuse
<1> QED BY <1>1, <1>2

\* Every document that the environment is made of, and every input.
LEMMA DocumentsNeeding ==
  ASSUME env \in Environments, Ind, Contents
  PROVE  /\ Needing(ProjectDocument, Usable) /\ Needing(NetworkDocument, Usable)
         /\ Needing(GroupDocument, Usable) /\ Needing(VaultDocument, Usable)
         /\ \A b : Extra(b) => ProviderLocal(b.addr) \subseteq Usable
<1>1. cloudProviderSource(env.provider) \in Usable /\ (DO => "digitalocean" \in Usable) /\ (NeedsVault => "vault" \in Usable)
  BY DEF Usable, When, DO, cloudProviderSource
<1>2. \A S : Needing(S, Usable) => \A ok : Needing(OrRefuse(ok, S), Usable)
  BY RefusedNeeding
<1>3. \A ctx, x : ctx.provider = env.provider => Needing(RenderHCL(ctx, x), Usable) /\ Needing(RenderSGHCL(ctx, x), Usable)
  BY <1>1, InfrastructureKept, KeptWithin, WithinNeeding
<1>4. NoContext.provider = env.provider /\ Context(NetName, "").provider = env.provider
  BY DEF NoContext, Context
<1>5. Needing({}, Usable)
  BY DEF Needing
<1>6. Needing(NetworkDocument, Usable)
  BY <1>2, <1>3, <1>4, <1>5 DEF NetworkDocument
<1>7. Needing(GroupDocument, Usable)
  BY <1>2, <1>3, <1>4 DEF GroupDocument
<1>8. Needing(VaultDocument, Usable)
  <2>1. CASE VaultDocument = {} \/ VaultDocument = Refusal
    BY <1>5, <2>1 DEF Needing
  <2>2. CASE \E v \in env.vault : DO /\ normalized(v) /\ VaultDocument = RenderVaultDropletCluster(v, NetName)
    BY <1>1, <2>2, VaultLocal DEF Needing
  <2> QED BY <2>1, <2>2, VaultOne
<1>9. \A p : ProviderLocal(Block(ProjectData(p), {}).addr) = {"digitalocean"}
  BY DEF ProjectData, Block, ProviderLocal
<1>10. Needing(ProjectDocument, Usable)
  BY <1>1, <1>9 DEF ProjectDocument, Needing, When
<1>11. /\ \A v : ProviderLocal(Variable(v).addr) = {}
       /\ \A p : ProviderLocal(VaultKVDataSource(p).addr) = {"vault"}
       /\ \A n, r : ProviderLocal(Block(<<"digitalocean", "project_resources", n>>, r).addr) = {"digitalocean"}
  BY DEF Variable, VaultKVDataSource, Block, ProviderLocal
<1>12. ASSUME NEW b, Extra(b) PROVE ProviderLocal(b.addr) \subseteq Usable
  BY <1>1, <1>11, <1>12 DEF Extra, NeedsVault
<1> QED BY <1>6, <1>7, <1>8, <1>10, <1>12

LEMMA UsedIsUsable ==
  ASSUME Ind, Contents, ~IsBaseline, Done
  PROVE  \A b \in All : ProviderLocal(b.addr) \subseteq Usable
<1>1. Made = {ProjectDocument, NetworkDocument} \cup When(NeedsGroup, {GroupDocument}) \cup ComponentsMade \cup {VaultDocument}
  BY MadeIs DEF Done, PastNetwork, PastGroup, PastComponents, When
<1>2. \A d \in ComponentsMade : Needing(d, Usable)
  <2>1. \A i \in 1..index - 1 : components[i] \in Elements
    BY EnvironmentsAssumption DEF Ind, IInv, Elements, ToSet
  <2> QED BY <2>1, ComponentNeeding DEF ComponentsMade
<1>3. \A d \in Made : Needing(d, Usable)
  BY <1>1, <1>2, DocumentsNeeding DEF When, Ind
<1>4. Refusal \notin Made /\ \A b \in All \ UNION Made : Extra(b)
  BY DEF Contents, Done
<1>5. ASSUME NEW d \in Made, NEW b \in d PROVE ProviderLocal(b.addr) \subseteq Usable
  BY <1>3, <1>4, <1>5 DEF Needing
<1> QED BY <1>4, <1>5, DocumentsNeeding DEF Ind

\* The last step pins what is needed.
PinsInv ==
  Done => pinned = IF IsBaseline THEN {"digitalocean"} \cup When(On("full"), {"vault"}) ELSE requiredProvidersBlock

LEMMA PinsUnmoved ==
  ASSUME env' = env, components' = components, group' = group
  PROVE  requiredProvidersBlock' = requiredProvidersBlock
<1>1. Elements' = Elements /\ NetName' = NetName /\ SGName' = SGName /\ DO' = DO
  BY DEF Elements, NetName, SGName, DO
<1>2. Rendered' = Rendered /\ managedInstanceProfiles' = managedInstanceProfiles
  BY <1>1 DEF Rendered, managedInstanceProfiles
<1>3. ComponentContext' = ComponentContext
  BY <1>1, <1>2 DEF ComponentContext, Context, On
<1>4. NeedsCloudflare' = NeedsCloudflare
  BY <1>1, <1>2, <1>3 DEF NeedsCloudflare
<1>5. NeedsHelm' = NeedsHelm /\ NeedsKubernetes' = NeedsKubernetes /\ NeedsVault' = NeedsVault
  BY <1>1, <1>2 DEF NeedsHelm, NeedsKubernetes, NeedsVault, UserData
<1> QED BY <1>4, <1>5 DEF requiredProvidersBlock

LEMMA PinsNext == PinsInv /\ [EitherNext]_vars => PinsInv'
<1> SUFFICES ASSUME PinsInv, [EitherNext]_vars PROVE PinsInv'
  OBVIOUS
<1>1. CASE PinProviders /\ ~IsBaseline
  <2>1. env' = env /\ components' = components /\ group' = group /\ pinned' = requiredProvidersBlock
    BY <1>1 DEF PinProviders
  <2> QED BY <1>1, <2>1, PinsUnmoved DEF PinsInv, IsBaseline
<1>2. CASE WriteModule
  BY <1>2 DEF WriteModule, PinsInv, IsBaseline, On
<1>3. CASE UNCHANGED vars
  <2>1. env' = env /\ components' = components /\ group' = group /\ pinned' = pinned /\ phase' = phase
    BY <1>3 DEF vars
  <2> QED BY <2>1, PinsUnmoved DEF PinsInv, IsBaseline, On, Done
<1>4. CASE phase' # "done"
  BY <1>4 DEF PinsInv, Done
<1>5. \/ PinProviders /\ ~IsBaseline
      \/ WriteModule
      \/ UNCHANGED vars
      \/ phase' # "done"
  <2>1. Fail => phase' # "done"
    BY DEF Fail
  <2>2. Start \/ Refuse \/ RefuseBaseline \/ AddNetwork \/ AddSecurityGroup \/ AddComponent \/ AddVaultDroplets
        \/ DeclareInputs \/ BindProject \/ RenderBaseline => phase' # "done"
    BY <2>1 DEF Start, Refuse, RefuseBaseline, AddNetwork, AddSecurityGroup, AddComponent, AddVaultDroplets,
                DeclareInputs, BindProject, RenderBaseline
  <2> QED BY <2>2 DEF EitherNext, RenderProgram, Next
<1> QED BY <1>1, <1>2, <1>3, <1>4, <1>5

\* The baseline's documents need DigitalOcean, and Vault for the full scripts.
LEMMA BaselineNeeding ==
  ASSUME All = UNION BaselineParts, Runnable, NEW b \in All
  PROVE  ProviderLocal(b.addr) \subseteq {"digitalocean"} \cup When(On("full"), {"vault"})
<1>1. /\ \A v : ProviderLocal(Variable(v).addr) = {}
      /\ \A p : ProviderLocal(VaultKVDataSource(p).addr) = {"vault"}
  BY DEF Block, ProviderLocal, Variable, VaultKVDataSource
<1>2. PICK d \in BaselineParts : b \in d
  OBVIOUS
<1>3. ASSUME b.addr[1] = "digitalocean" PROVE ProviderLocal(b.addr) = {"digitalocean"}
  BY <1>3 DEF ProviderLocal
<1>4. CASE d \in {VPCDoc, MainDB, KeyDB, Bucket}
  BY <1>2, <1>3, <1>4 DEF VPCDoc, MainDB, KeyDB, Bucket, One, Block
<1>5. CASE d \in {SSODoor, FEDoor, SSODoc, FEDoc}
  <2>1. /\ \A n, s : Firewall(n, s).addr[1] = "digitalocean"
        /\ \A s : ServiceGroup(s).addr[1] = "digitalocean"
    BY DEF Firewall, ServiceGroup, Selecting, Tagged, Block
  <2>2. b.addr[1] = "digitalocean"
    BY <1>2, <1>5, <2>1 DEF SSODoor, FEDoor, SSODoc, FEDoc
  <2> QED BY <1>3, <2>2
<1>6. CASE On("vault_ha") /\ d = VaultDoc
  BY <1>2, <1>6, VaultLocal DEF VaultDoc, Runnable
<1>7. CASE On("full") /\ d = DOBaselineVaultDataSources
  BY <1>1, <1>2, <1>7 DEF DOBaselineVaultDataSources, When
<1>8. CASE d = ModuleDoc
  BY <1>1, <1>2, <1>8 DEF ModuleDoc, When
<1> QED BY <1>2, <1>3, <1>4, <1>5, <1>6, <1>7, <1>8 DEF BaselineParts, When

\* Terraform installs what an environment uses, and no more than it names:
\* for every environment, and for the baseline, a provider that some document
\* needs is in the block of pins, or there is no such block and the provider
\* is one that Terraform finds by its name alone.
THEOREM ProvidersArePinned == EitherSpec => []ProvidersPinned
<1>1. ASSUME Ind, BaselineDocs, Contents, PinsInv, Done PROVE ProvidersPinned
  <2> DEFINE used == UNION {ProviderLocal(b.addr) : b \in All}
             free == {"aws", "google", "azurerm", "vsphere", "kubernetes", "helm", "vault"}
  <2> SUFFICES used \ free \subseteq pinned /\ (pinned # {} => used \subseteq pinned)
    BY DEF ProvidersPinned
  <2>1. CASE IsBaseline
    <3>1. Runnable /\ All = UNION BaselineParts
      BY <1>1, <2>1, PartsOfModule DEF BaselineDocs, Done, All
    <3>2. \A b \in All : ProviderLocal(b.addr) \subseteq pinned
      BY <1>1, <2>1, <3>1, BaselineNeeding DEF PinsInv
    <3> QED BY <3>2
  <2>2. CASE ~IsBaseline
    <3>1. used \subseteq Usable
      BY <1>1, <2>2, UsedIsUsable
    <3>2. pinned = requiredProvidersBlock
      BY <1>1, <2>2 DEF PinsInv
    <3> HIDE DEF used
    <3>3. CASE NeedsCloudflare \/ NeedsVault \/ env.provider \notin HashicorpCloud
      <4>1. pinned = Usable
        BY <3>2, <3>3 DEF requiredProvidersBlock, Usable, When
      <4> QED BY <3>1, <4>1
    <3>4. CASE ~(NeedsCloudflare \/ NeedsVault \/ env.provider \notin HashicorpCloud)
      <4>1. pinned = {}
        BY <3>2, <3>4 DEF requiredProvidersBlock, When
      <4>2. cloudProviderSource(env.provider) \in free
        BY <3>4 DEF HashicorpCloud, cloudProviderSource
      <4>3. Usable \subseteq free
        BY <3>4, <4>2 DEF Usable, When
      <4> QED BY <3>1, <4>1, <4>3
    <3> QED BY <3>3, <3>4
  <2> QED BY <2>1, <2>2
<1>2. ~Done => ProvidersPinned
  BY DEF ProvidersPinned
<1>3. EitherInit => Ind /\ BaselineDocs /\ Contents /\ PinsInv
  BY IndInit, DocsInit, EmptyList DEF EitherInit, Init, Contents, PinsInv, Done
<1>4. Ind /\ BaselineDocs /\ Contents /\ PinsInv /\ [EitherNext]_vars => (Ind /\ BaselineDocs /\ Contents /\ PinsInv)'
  BY IndNext, DocsNext, ContentsStep, PinsNext
<1>5. Ind /\ BaselineDocs /\ Contents /\ PinsInv => ProvidersPinned
  BY <1>1, <1>2
<1> QED BY <1>3, <1>4, <1>5, PTL DEF EitherSpec
-----------------------------------------------------------------------------
(* The machines of a baseline.                                             *)

\* Another kind of nested elements changes nothing else of a component.
LEMMA GivingOne ==
  ASSUME NEW c, c = Component(c.type, c.name, c.opts, c.parts, c.target), NEW kind, NEW S
  PROVE  LET d == Giving(c, kind, S)
         IN /\ d = Component(d.type, d.name, d.opts, d.parts, d.target)
            /\ d.type = c.type /\ d.name = c.name /\ d.opts = c.opts /\ d.target = c.target
            /\ Parts(d, kind) = S
            /\ \A k : k # kind => Parts(d, k) = Parts(c, k)
<1> DEFINE q == [k \in DOMAIN c.parts \cup {kind} |-> IF k = kind THEN S ELSE c.parts[k]]
           d == Giving(c, kind, S)
<1>1. c = [type |-> c.type, name |-> c.name, opts |-> c.opts, parts |-> c.parts, target |-> c.target]
  BY DEF Component
<1>2. d = [c EXCEPT !.parts = q]
  BY DEF Giving
<1>3. DOMAIN q = DOMAIN c.parts \cup {kind} /\ q[kind] = S /\ \A k \in DOMAIN c.parts : k # kind => q[k] = c.parts[k]
  OBVIOUS
<1> HIDE DEF q, d
<1>4. d.type = c.type /\ d.name = c.name /\ d.opts = c.opts /\ d.target = c.target /\ d.parts = q
  BY <1>1, <1>2
<1>7. d = Component(d.type, d.name, d.opts, d.parts, d.target)
  BY <1>1, <1>2 DEF Component
<1>5. Parts(d, kind) = S
  BY <1>3, <1>4 DEF Parts
<1>6. ASSUME NEW k, k # kind PROVE Parts(d, k) = Parts(c, k)
  BY <1>3, <1>4, <1>6 DEF Parts
<1> QED BY <1>4, <1>5, <1>6, <1>7 DEF d

LEMMA TaggedMachine ==
  ASSUME NEW c, c = Component(c.type, c.name, c.opts, c.parts, c.target)
  PROVE  LET d == TagMachine(c)
         IN /\ d = Component(d.type, d.name, d.opts, d.parts, d.target)
            /\ d.type = c.type /\ d.name = c.name /\ d.opts = c.opts /\ d.target = c.target
            /\ \A k : k # "tag" => Parts(d, k) = Parts(c, k)
            /\ c.type = "virtual-machine" /\ ~Has(c, "no_config") => Parts(d, "tag") # {}
<1>1. BaselineTag(c) # {}
  BY DEF BaselineTag
<1>2. CASE TagMachine(c) = c
  BY <1>1, <1>2, GivingOne DEF TagMachine
<1>3. CASE TagMachine(c) # c
  <2>1. TagMachine(c) = Giving(c, "tag", BaselineTag(c))
    BY <1>3 DEF TagMachine
  <2>2. LET d == Giving(c, "tag", BaselineTag(c))
        IN /\ d = Component(d.type, d.name, d.opts, d.parts, d.target)
           /\ d.type = c.type /\ d.name = c.name /\ d.opts = c.opts /\ d.target = c.target
           /\ Parts(d, "tag") = BaselineTag(c)
           /\ \A k : k # "tag" => Parts(d, k) = Parts(c, k)
    BY GivingOne
  <2> QED BY <1>1, <2>1, <2>2
<1> QED BY <1>2, <1>3

\* What the steps know of a component: it is one that was asked for, with a
\* tag of its own under the baseline.
LEMMA ElementAsked ==
  ASSUME Ind, Contents, ~IsBaseline, phase \notin {"start", "failed"}, NEW c \in Elements
  PROVE  /\ c = Component(c.type, c.name, c.opts, c.parts, c.target)
         /\ \E e \in {env.components[i] : i \in DOMAIN env.components} :
              /\ c.type = e.type /\ c.name = e.name /\ c.opts = e.opts /\ c.target = e.target
              /\ \A k : k # "tag" => Parts(c, k) = Parts(e, k)
              /\ Tagging /\ c.type = "virtual-machine" /\ ~Has(c, "no_config") => Parts(c, "tag") # {}
<1>1. components = Given
  BY DEF Contents
<1>2. PICK i \in DOMAIN components : c = components[i]
  BY DEF Elements, ToSet
<1>3. i \in DOMAIN env.components
  BY <1>2 DEF Ind, IInv
<1> DEFINE e == env.components[i]
<1>4. e = Component(e.type, e.name, e.opts, e.parts, e.target)
  BY <1>3, EnvironmentsAssumption DEF Ind
<1>5. CASE Tagging
  <2>1. c = TagMachine(e)
    BY <1>1, <1>2, <1>3, <1>5 DEF Given
  <2> HIDE DEF e
  <2>2. /\ c = Component(c.type, c.name, c.opts, c.parts, c.target)
        /\ c.type = e.type /\ c.name = e.name /\ c.opts = e.opts /\ c.target = e.target
        /\ \A k : k # "tag" => Parts(c, k) = Parts(e, k)
        /\ e.type = "virtual-machine" /\ ~Has(e, "no_config") => Parts(c, "tag") # {}
    BY <1>4, <2>1, TaggedMachine
  <2>3. Has(c, "no_config") = Has(e, "no_config")
    BY <2>2 DEF Has
  <2> QED BY <1>3, <2>2, <2>3 DEF e
<1>6. CASE ~Tagging
  <2>1. c = e
    BY <1>1, <1>2, <1>3, <1>6 DEF Given
  <2> QED BY <1>3, <1>4, <1>6, <2>1
<1> QED BY <1>5, <1>6

LEMMA ElementGiven ==
  ASSUME Ind, Contents, ~IsBaseline, Done, NEW c \in Elements
  PROVE  /\ c = Component(c.type, c.name, c.opts, c.parts, c.target)
         /\ \E e \in {env.components[i] : i \in DOMAIN env.components} :
              /\ c.type = e.type /\ c.name = e.name /\ c.opts = e.opts /\ c.target = e.target
              /\ \A k : k # "tag" => Parts(c, k) = Parts(e, k)
              /\ Tagging /\ c.type = "virtual-machine" /\ ~Has(c, "no_config") => Parts(c, "tag") # {}
BY ElementAsked DEF Done

\* A security group with tags is a firewall for each of them.
LEMMA GroupSelects ==
  ASSUME Ind, Contents, ~IsBaseline, Done, DO, NeedsGroup
  PROVE  DropletTags \subseteq Selected
<1>1. GroupDocument \in Made
  BY MadeIs DEF Done, PastGroup, PastComponents, When
<1>2. GroupDocument # Refusal /\ GroupDocument \subseteq All
  BY <1>1 DEF Contents, Done
<1>3. GroupDocument = RenderSGHCL(Context(NetName, ""), SecurityGroup)
  BY <1>2 DEF GroupDocument, OrRefuse
<1>4. Context(NetName, "").provider = "digitalocean" /\ SecurityGroup.tags = DropletTags
  BY DEF Context, SecurityGroup, DO
<1>5. GroupDocument = renderSGDO(SecurityGroup)
  BY <1>3, <1>4, OnDO
<1>6. ASSUME NEW t \in DropletTags PROVE t \in Selected
  <2> DEFINE b == Selecting(Block(<<"digitalocean", "firewall", TfName(SecurityGroup.name) \o "_" \o TfName(ServiceOf(t))>>, {}), {t})
  <2>1. b \in GroupDocument
    BY <1>4, <1>5 DEF renderSGDO
  <2>2. b.addr[2] = "firewall" /\ b.selects = {t}
    BY DEF Selecting, Block
  <2> HIDE DEF b
  <2> QED BY <1>2, <2>1, <2>2 DEF Selected
<1> QED BY <1>6

\* Bare blocks of documents that are not machines'.
LEMMA BareWithin ==
  ASSUME NEW p, NEW P, NEW S, Within(p, P, S), S # Refusal, NEW b \in S
  PROVE  Bare(b)
BY DEF Within

LEMMA ScaffoldBare ==
  /\ \A b \in ProjectDocument : Bare(b)
  /\ NetworkDocument # Refusal => \A b \in NetworkDocument : Bare(b)
  /\ GroupDocument # Refusal => \A b \in GroupDocument : Bare(b)
  /\ \A b : Extra(b) => Bare(b)
<1>1. \A b \in ProjectDocument : Bare(b)
  BY DEF ProjectDocument, When, Block, ProjectData, Bare
<1>2. \A ctx, x : Within(ctx.provider, {}, RenderHCL(ctx, x)) /\ Within(ctx.provider, {}, RenderSGHCL(ctx, x))
  BY InfrastructureKept, KeptWithin
<1>3. \A ctx, x, ok : /\ Within(ctx.provider, {}, OrRefuse(ok, RenderHCL(ctx, x)))
                      /\ Within(ctx.provider, {}, OrRefuse(ok, RenderSGHCL(ctx, x)))
  BY <1>2, Translated
<1>4. NetworkDocument # Refusal => \A b \in NetworkDocument : Bare(b)
  BY <1>3, BareWithin DEF NetworkDocument
<1>5. GroupDocument # Refusal => \A b \in GroupDocument : Bare(b)
  BY <1>3, BareWithin DEF GroupDocument
<1>6. \A v : Bare(Variable(v))
  BY DEF Variable, Block, Bare
<1>7. \A p : Bare(VaultKVDataSource(p))
  BY DEF VaultKVDataSource, Block, Bare
<1>8. \A n, r : Bare(Block(<<"digitalocean", "project_resources", n>>, r))
  BY DEF Block, Bare
<1> QED BY <1>1, <1>4, <1>5, <1>6, <1>7, <1>8 DEF Extra

\* Every machine of a component is tagged by a tag of the group's, or stands
\* in for a service.
LEMMA ComponentGuarded ==
  ASSUME Ind, Contents, ~IsBaseline, Done, Tagging, NEW c \in Elements,
         ComponentDocument(c) # Refusal, NEW b \in ComponentDocument(c), ~Bare(b)
  PROVE  b.addr[3] \in OfSelfHosted \/ (c.type \in MachineTypes /\ b.tags \cap DropletTags # {})
<1> DEFINE ctx == ComponentContext
<1>1. ctx.provider = "digitalocean" /\ ctx.provider = env.provider
  BY DEF ComponentContext, Context, Tagging, DO
<1> HIDE DEF ctx
<1>2. CASE SelfHosted(env.provider, c) /\ ComponentDocument(c) = mitigateComponent(ctx, c)
  <2> DEFINE vm == [c EXCEPT !.parts = [instances |-> {"-1"}]]
  <2>1. c = Component(c.type, c.name, c.opts, c.parts, c.target)
    BY ElementGiven
  <2>2. b \in renderVMDO(ctx, vm)
    BY <1>1, <1>2, OnDO DEF mitigateComponent, OrRefuse
  <2>3. PICK i \in Parts(vm, "instances") :
          b = Tagged(Block(<<"digitalocean", "droplet", TfName(vm.name \o i)>>, DOVPCRef(ctx)), {"pyxcloud"} \cup Parts(vm, "tag"))
    BY <2>2 DEF renderVMDO
  <2>4. b.addr[3] = TfName(vm.name \o i)
    BY <2>3 DEF Tagged, Block
  <2>5. vm.name = c.name /\ Parts(vm, "instances") = {"-1"}
    BY <2>1 DEF Parts, Component
  <2> HIDE DEF vm
  <2>6. b.addr[3] = TfName(c.name \o "-1")
    BY <2>3, <2>4, <2>5
  <2> QED BY <1>2, <2>6 DEF OfSelfHosted
<1>3. CASE c.type = "virtual-machine" /\ ComponentDocument(c) = RenderComponent(ctx, c)
  <2>1. ComponentDocument(c) = AssembleVM(ctx, c)
    BY <1>3, MachineRendered
  <2>2. ~Has(c, "no_config") /\ ComponentDocument(c) = RenderVMHCL(ctx, c)
    BY <2>1 DEF AssembleVM, Configured, OrRefuse
  <2>3. PICK i \in Parts(c, "instances") :
          b = Tagged(Block(<<"digitalocean", "droplet", TfName(c.name \o i)>>, DOVPCRef(ctx)), {"pyxcloud"} \cup Parts(c, "tag"))
    BY <1>1, <2>2, OnDO DEF renderVMDO
  <2>4. b.tags = {"pyxcloud"} \cup Parts(c, "tag")
    BY <2>3 DEF Tagged, Block
  <2>5. Parts(c, "tag") # {} /\ Parts(c, "tag") \subseteq DropletTags
    BY <1>3, <2>2, ElementGiven DEF DropletTags
  <2> QED BY <1>3, <2>4, <2>5 DEF MachineTypes
<1>4. CASE c.type = "virtual-machine-scale-group" /\ ComponentDocument(c) = RenderComponent(ctx, c)
  <2>1. ComponentDocument(c) = AssembleScaleGroup(ctx, c)
    BY <1>4, MachineRendered
  <2>2. ComponentDocument(c) = renderScaleGroupDO(ctx, c)
    BY <1>1, <2>1, OnDO DEF AssembleScaleGroup, Configured, OrRefuse
  <2>3. doScaleGroupTag(c.name) \in b.tags
    BY <2>2 DEF renderScaleGroupDO, Tagged, Block
  <2>4. doScaleGroupTag(c.name) \in DropletTags
    BY <1>4 DEF DropletTags
  <2> QED BY <1>4, <2>3, <2>4 DEF MachineTypes
<1>5. CASE c.type \notin MachineTypes /\ ComponentDocument(c) = RenderComponent(ctx, c)
  BY <1>1, <1>5, ComponentWithin, BareWithin
<1>6. \/ SelfHosted(env.provider, c) /\ ComponentDocument(c) = mitigateComponent(ctx, c)
      \/ ComponentDocument(c) = RenderComponent(ctx, c)
  BY DEF ComponentDocument, ctx
<1> QED BY <1>2, <1>3, <1>4, <1>5, <1>6 DEF MachineTypes

\* A machine of an author needs a group, which the baseline always has.
LEMMA BaselineGroup ==
  ASSUME Tagging, NEW c \in Elements, c.type \in MachineTypes
  PROVE  NeedsGroup
BY DEF Tagging, NeedsGroup, HasVM, DeriveSecurityBaseline

\* No machine of a baseline is left open: whatever the environment, a droplet
\* or scale group that its author declares on DigitalOcean under the baseline
\* carries a tag that a firewall of the same documents selects, and so does
\* every droplet of Vault.
THEOREM EveryMachineGuarded == EitherSpec => []MachinesGuarded
<1>1. ASSUME Ind, BaselineDocs, Contents, Done, Tagging, NEW b \in Droplets
      PROVE  b.addr[3] \in OfSelfHosted \/ b.tags \cap Selected # {}
  <2>1. b \in All /\ ~Bare(b)
    BY DEF Droplets, Bare
  <2>2. CASE IsBaseline
    <3>1. Runnable /\ All = UNION BaselineParts
      BY <1>1, <2>2, PartsOfModule DEF BaselineDocs, Done, All
    <3> QED BY <3>1, BaselineGuarded
  <2>3. CASE ~IsBaseline
    <3>1. /\ Refusal \notin Made /\ UNION Made \subseteq All /\ \A x \in All \ UNION Made : Extra(x)
      BY <1>1, <2>3 DEF Contents, Done
    <3>2. Made = {ProjectDocument, NetworkDocument} \cup When(NeedsGroup, {GroupDocument}) \cup ComponentsMade \cup {VaultDocument}
      BY <1>1, MadeIs DEF Done, PastNetwork, PastGroup, PastComponents, When
    <3>3. PICK d \in Made : b \in d
      BY <2>1, <3>1, ScaffoldBare
    <3>4. d \in ComponentsMade \/ d = VaultDocument
      BY <2>1, <3>1, <3>2, <3>3, ScaffoldBare DEF When
    <3>5. CASE d \in ComponentsMade
      <4>1. PICK i \in 1..index - 1 : d = ComponentDocument(components[i])
        BY <3>5 DEF ComponentsMade
      <4>2. components[i] \in Elements
        BY <1>1, EnvironmentsAssumption DEF Ind, IInv, Elements, ToSet
      <4>3. \/ b.addr[3] \in OfSelfHosted
            \/ components[i].type \in MachineTypes /\ b.tags \cap DropletTags # {}
        BY <1>1, <2>1, <2>3, <3>1, <3>3, <4>1, <4>2, ComponentGuarded
      <4>4. components[i].type \in MachineTypes => DropletTags \subseteq Selected
        BY <1>1, <2>3, <4>2, BaselineGroup, GroupSelects DEF Tagging
      <4> QED BY <4>3, <4>4
    <3>6. CASE d = VaultDocument
      <4>1. PICK v \in env.vault : normalized(v) /\ VaultDocument = RenderVaultDropletCluster(v, NetName)
        BY <1>1, <3>1, <3>3, <3>6, VaultOne DEF Ind
      <4>2. b.tags = {vaultDropletTag}
        BY <2>1, <3>3, <3>6, <4>1, VaultGuarded
      <4>3. \E x \in All : x.addr[2] = "firewall" /\ x.selects = {vaultDropletTag}
        BY <3>1, <3>3, <3>6, <4>1, VaultGuarded
      <4> QED BY <4>2, <4>3 DEF Selected
    <3> QED BY <3>4, <3>5, <3>6
  <2> QED BY <2>2, <2>3
<1>2. Ind /\ BaselineDocs /\ Contents => MachinesGuarded
  BY <1>1 DEF MachinesGuarded
<1>3. EitherInit => Ind /\ BaselineDocs /\ Contents
  BY IndInit, DocsInit, EmptyList DEF EitherInit, Init, Contents
<1>4. Ind /\ BaselineDocs /\ Contents /\ [EitherNext]_vars => (Ind /\ BaselineDocs /\ Contents)'
  BY IndNext, DocsNext, ContentsStep
<1> QED BY <1>2, <1>3, <1>4, PTL DEF EitherSpec
-----------------------------------------------------------------------------
(* The balancers and the machines they select.                             *)

\* A component that is neither placed nor mitigated is rendered.
LEMMA OwnDocument ==
  ASSUME Ind, Contents, ~IsBaseline, Done, DO, NEW c \in Elements,
         c.type \in {"load-balancer", "virtual-machine-scale-group"}
  PROVE  /\ ComponentDocument(c) = RenderComponent(ComponentContext, c)
         /\ ComponentDocument(c) # Refusal /\ ComponentDocument(c) \subseteq All
<1>1. /\ Refusal \notin Made /\ UNION Made \subseteq All /\ bindServiceHosts(env.components)
  BY DEF Contents, Done
<1>2. ComponentDocument(c) \in Made
  <2>1. PICK i \in DOMAIN components : c = components[i]
    BY DEF Elements, ToSet
  <2>2. i \in 1..index - 1
    BY <2>1, EnvironmentsAssumption DEF Ind, IInv, Done
  <2> QED BY <2>1, <2>2 DEF Made
<1>3. ComponentDocument(c) # Refusal /\ ComponentDocument(c) \subseteq All
  BY <1>1, <1>2
<1>4. ~ExplicitVMPlacement(c.type)
  BY DEF ExplicitVMPlacement
<1>5. ~Hosted(c)
  <2>1. PICK e \in {env.components[i] : i \in DOMAIN env.components} :
          c.type = e.type /\ \A k : k # "tag" => Parts(c, k) = Parts(e, k)
    BY ElementGiven
  <2>2. Hosted(c) <=> Hosted(e)
    BY <2>1 DEF Hosted
  <2>3. Hosted(e) => ExplicitVMPlacement(e.type)
    BY <1>1, <2>1 DEF bindServiceHosts
  <2> QED BY <1>4, <2>1, <2>2, <2>3
<1>6. ~SelfHosted(env.provider, c)
  <2>1. c.type = "load-balancer" => "digitalocean" \in nativeSupport(c.type)
    BY DEF nativeSupport, StreamTypes, BucketTypes, KubernetesTypes, SecretTypes, QueueTypes, KeyTypes, SyntheticsTypes,
           WAFTypes, Managed
  <2>2. c.type = "virtual-machine-scale-group" => ~Mitigatable(c.type)
    BY DEF Mitigatable, StreamTypes, BucketTypes, KubernetesTypes, SecretTypes, QueueTypes, KeyTypes, SyntheticsTypes,
           WAFTypes, CDNTypes, EmailTypes
  <2> QED BY <1>4, <2>1, <2>2 DEF SelfHosted, NativelySupported, ForcesVMPlacement, DO
<1>7. Placeable(c)
  BY <1>3 DEF ComponentDocument
<1>8. ComponentDocument(c) = RenderComponent(ComponentContext, c)
  BY <1>5, <1>6, <1>7 DEF ComponentDocument
<1> QED BY <1>3, <1>8

\* A balancer without a tag of its own selects its target's scale group.
LEMMA BalancerSelects ==
  ASSUME Ind, Contents, ~IsBaseline, Done, DO, NEW c \in Elements,
         c.type = "load-balancer", c.target # NoTarget, ~Has(c, "stable_ip"), Parts(c, "target_tag") = {}
  PROVE  \E b \in All : /\ b.addr = <<"digitalocean", "loadbalancer", TfName(c.name)>>
                        /\ b.selects = {doScaleGroupTag(c.target)}
<1> DEFINE ctx == ComponentContext
           to  == [c EXCEPT !.opts = IF Has(c, "group_target") THEN c.opts ELSE c.opts \cup {"vm_target"}]
           lb  == IF Parts(c, "listeners") = {} THEN Giving(to, "listeners", {"_80"}) ELSE to
           b   == Selecting(Block(<<"digitalocean", "loadbalancer", TfName(lb.name)>>, DOVPCRef(ctx)), {doScaleGroupTag(lb.target)})
<1>1. ctx.provider = "digitalocean"
  BY DEF ComponentContext, Context, DO
<1>2. ComponentDocument(c) = AssembleLoadBalancer(ctx, c) /\ ComponentDocument(c) # Refusal /\ ComponentDocument(c) \subseteq All
  BY OwnDocument, MachineRendered
<1>3. ComponentDocument(c) = RenderLoadBalancerHCL(ctx, lb)
  BY <1>2 DEF AssembleLoadBalancer, OrRefuse
<1>4. /\ to = Component(to.type, to.name, to.opts, to.parts, to.target)
      /\ to.name = c.name /\ to.target = c.target /\ to.parts = c.parts /\ to.opts \subseteq c.opts \cup {"vm_target"}
  <2>1. c = Component(c.type, c.name, c.opts, c.parts, c.target)
    BY ElementGiven
  <2> QED BY <2>1 DEF Component
<1> HIDE DEF to
<1>5. /\ lb.name = c.name /\ lb.target = c.target /\ lb.opts \subseteq c.opts \cup {"vm_target"}
      /\ Parts(lb, "target_tag") = {}
  <2>1. Parts(to, "target_tag") = {}
    BY <1>4 DEF Parts
  <2>2. LET d == Giving(to, "listeners", {"_80"})
        IN /\ d.name = to.name /\ d.target = to.target /\ d.opts = to.opts
           /\ \A k : k # "listeners" => Parts(d, k) = Parts(to, k)
    BY <1>4, GivingOne
  <2> QED BY <1>4, <2>1, <2>2
<1> HIDE DEF lb
<1>6. ~Has(lb, "stable_ip")
  BY <1>5 DEF Has
<1>7. RenderLoadBalancerHCL(ctx, lb) = renderLBDO(ctx, lb)
  BY <1>1, <1>6, OnDO
<1>8. renderLBDO(ctx, lb) = {b}
  BY <1>5 DEF renderLBDO
<1>9. b.addr = <<"digitalocean", "loadbalancer", TfName(c.name)>> /\ b.selects = {doScaleGroupTag(c.target)}
  BY <1>5 DEF Selecting, Block
<1> HIDE DEF b
<1> QED BY <1>2, <1>3, <1>7, <1>8, <1>9

\* A scale group carries the tag of its name.
LEMMA GroupCarries ==
  ASSUME Ind, Contents, ~IsBaseline, Done, DO, NEW g \in Elements, g.type = "virtual-machine-scale-group"
  PROVE  \E x \in Droplets : x.addr[3] = TfName(g.name) /\ doScaleGroupTag(g.name) \in x.tags
<1> DEFINE ctx == ComponentContext
           refs == DOVPCRef(ctx) \cup {ProjectData(p) : p \in ctx.project} \cup vmHeredoc(UserDataOf(g))
           x == Tagged(Block(<<"digitalocean", "droplet_autoscale", TfName(g.name)>>, refs),
                       {"pyxcloud", doScaleGroupTag(g.name)} \cup Parts(g, "tag"))
<1>1. ctx.provider = "digitalocean"
  BY DEF ComponentContext, Context, DO
<1>2. ComponentDocument(g) = AssembleScaleGroup(ctx, g) /\ ComponentDocument(g) # Refusal /\ ComponentDocument(g) \subseteq All
  BY OwnDocument, MachineRendered
<1>3. ComponentDocument(g) = renderScaleGroupDO(ctx, g)
  BY <1>1, <1>2, OnDO DEF AssembleScaleGroup, Configured, OrRefuse
<1>4. renderScaleGroupDO(ctx, g) = {x}
  BY DEF renderScaleGroupDO
<1>5. x.addr = <<"digitalocean", "droplet_autoscale", TfName(g.name)>> /\ doScaleGroupTag(g.name) \in x.tags
  BY DEF Tagged, Block
<1> HIDE DEF x
<1>6. x \in Droplets
  BY <1>2, <1>3, <1>4, <1>5 DEF Droplets
<1> QED BY <1>5, <1>6

\* A balancer in front of a scale group reaches it: two renderers that do not
\* know of each other agree on the tag, whatever the names and however the
\* components are ordered.
THEOREM BalancersReachTargets == EitherSpec => []TargetsReached
<1> DEFINE Carried(name) == UNION {b.tags : b \in {x \in Droplets : x.addr[3] = TfName(name)}}
           Behind(c)    == {g \in Elements : g.type = "virtual-machine-scale-group" /\ g.name = c.target}
<1>1. ASSUME Ind, Contents, Done, DO, NEW c \in Elements,
             c.type = "load-balancer", c.target # NoTarget, Behind(c) # {},
             ~Has(c, "stable_ip"), Parts(c, "target_tag") = {}
      PROVE  \E b \in All : /\ b.addr = <<"digitalocean", "loadbalancer", TfName(c.name)>>
                            /\ b.selects \cap Carried(c.target) # {}
  <2>1. ~IsBaseline
    <3>1. SUFFICES ASSUME IsBaseline PROVE FALSE
      OBVIOUS
    <3>2. env.components = <<>>
      BY <3>1, BaselinesAssumption DEF IsBaseline
    <3>3. DOMAIN components = {}
      BY <1>1, <3>2 DEF Ind, IInv
    <3> QED BY <3>3 DEF Elements, ToSet
  <2>2. PICK g \in Elements : g.type = "virtual-machine-scale-group" /\ g.name = c.target
    BY <1>1
  <2>3. doScaleGroupTag(c.target) \in Carried(c.target)
    BY <1>1, <2>1, <2>2, GroupCarries
  <2> HIDE DEF Carried
  <2> QED BY <1>1, <2>1, <2>3, BalancerSelects
<1>2. Ind /\ Contents => TargetsReached
  BY <1>1 DEF TargetsReached
<1>3. EitherInit => Ind /\ Contents
  BY IndInit, EmptyList DEF EitherInit, Init, Contents
<1>4. Ind /\ Contents /\ [EitherNext]_vars => (Ind /\ Contents)'
  BY IndNext, ContentsStep
<1> QED BY <1>2, <1>3, <1>4, PTL DEF EitherSpec
-----------------------------------------------------------------------------
(* No component is skipped in silence.                                     *)

\* A machine that was asked for has a first instance.
LEMMA ElementHasInstance ==
  ASSUME Ind, Contents, ~IsBaseline, phase \notin {"start", "failed"}, NEW c \in Elements,
         c.type = "virtual-machine"
  PROVE  "-1" \in Parts(c, "instances")
<1>1. PICK e \in {env.components[i] : i \in DOMAIN env.components} :
         c.type = e.type /\ \A k : k # "tag" => Parts(c, k) = Parts(e, k)
  BY ElementAsked
<1>2. PICK i \in DOMAIN env.components : e = env.components[i]
  OBVIOUS
<1>3. "-1" \in Parts(e, "instances")
  BY <1>1, <1>2, EnvironmentsAssumption DEF Ind
<1> QED BY <1>1, <1>3

\* The document of a component that is not silent has a resource, or is refused.
LEMMA DocumentLives ==
  ASSUME Ind, Contents, ~IsBaseline, phase \notin {"start", "failed"}, NEW c \in Elements, ~Silent(c)
  PROVE  Lively(ComponentDocument(c))
<1>1. Lively(mitigateComponent(ComponentContext, c))
  <2> DEFINE vm == [c EXCEPT !.parts = [instances |-> {"-1"}]]
  <2>1. Parts(vm, "instances") = {"-1"}
    <3>1. c = Component(c.type, c.name, c.opts, c.parts, c.target)
      BY ElementAsked
    <3>2. vm.parts = [instances |-> {"-1"}]
      BY <3>1 DEF Component
    <3> HIDE DEF vm
    <3> QED BY <3>2 DEF Parts
  <2> HIDE DEF vm
  <2>2. Lively(RenderVMHCL(ComponentContext, vm))
    BY <2>1, MachineLives
  <2> QED BY <2>2, LivesIfAccepted DEF mitigateComponent, vm
<1>2. Lively(RenderComponent(ComponentContext, c))
  <2>1. ComponentContext.provider = env.provider
    BY DEF ComponentContext, Context
  <2> QED BY <2>1, ElementHasInstance, ComponentLives DEF Silent
<1>3. ~Hosted(c)
  BY DEF Silent
<1> QED BY <1>1, <1>2, <1>3, Refused DEF ComponentDocument

\* So the step over a component adds one.
LEMMA StepCreates ==
  ASSUME Ind, Contents, [EitherNext]_vars, index' # index, ~Silent(components[index])
  PROVE  Created # {}
<1>1. ~IsBaseline /\ AddComponent
  BY DEF EitherNext, RenderProgram, RenderBaseline, RefuseBaseline, WriteModule, Next, Start, Refuse, Fail, AddNetwork,
         AddSecurityGroup, AddVaultDroplets, DeclareInputs, BindProject, PinProviders, vars
<1> DEFINE c == components[index]
           doc == ComponentDocument(c)
<1>2. /\ phase = "components" /\ c \in Elements
  BY <1>1 DEF AddComponent, Elements, ToSet
<1>3. doc # Refusal /\ docs' = Append1(doc)
  BY <1>1 DEF AddComponent, Fail
<1>4. Lively(doc)
  BY <1>1, <1>2, DocumentLives
<1> HIDE DEF doc
<1>5. PICK b \in doc : b.addr[1] \notin {"var", "data", "output"}
  BY <1>4 DEF Lively, Alive
<1>6. docs' = Append(docs, doc)
  BY <1>3, <1>5 DEF Append1
<1>7. IsList(docs)
  BY DEF Contents
<1>8. Len(docs) + 1 \in DOMAIN docs' \ DOMAIN docs /\ docs'[Len(docs) + 1] = doc
  <2>1. PICK S : docs \in Seq(S)
    BY <1>7 DEF IsList
  <2>2. DOMAIN docs = 1..Len(docs) /\ Len(docs) \in Nat
    BY <2>1, LenProperties
  <2>3. Len(docs) + 1 \notin DOMAIN docs
    BY <2>2
  <2> QED BY <1>6, <1>7, <2>3, AppendList
<1>9. b \in UNION {docs'[i] : i \in DOMAIN docs' \ DOMAIN docs}
  BY <1>8
<1> QED BY <1>5, <1>9 DEF Created

\* No component is passed over in silence: whatever the provider and its type,
\* the step over it adds a resource or refuses the whole environment, but for
\* the two with nothing to add and the services a machine hosts.
THEOREM EveryComponentRendered == EitherSpec => ComponentsRendered
<1>1. EitherInit => Ind /\ Contents
  BY IndInit, EmptyList DEF EitherInit, Init, Contents
<1>2. Ind /\ Contents /\ [EitherNext]_vars => (Ind /\ Contents)'
  BY IndNext, ContentsStep
<1>3. Ind /\ Contents /\ [EitherNext]_vars => [index' # index => Silent(components[index]) \/ Created # {}]_vars
  BY StepCreates
<1> QED BY <1>1, <1>2, <1>3, PTL DEF EitherSpec, ComponentsRendered

---------------------------------------------------------------------------
(* Where the references of the documents lead.                             *)

\* The group a component refers to was asked for.
GroupInv == ~IsBaseline /\ group # NoGroup => NeedsGroup

\* No step adds a group that was not asked for.
LEMMA GroupNext == Ind /\ GroupInv /\ [EitherNext]_vars => GroupInv'
<1> SUFFICES ASSUME Ind, GroupInv, [EitherNext]_vars PROVE GroupInv'
  OBVIOUS
<1>0. NoGroup' = NoGroup
  BY DEF NoGroup
<1>1. ASSUME env' = env, components' = components, group' = group \/ NeedsGroup PROVE GroupInv'
  <2>1. IsBaseline' = IsBaseline /\ NeedsGroup' = NeedsGroup
    BY <1>1, Unmoved
  <2> QED BY <1>0, <1>1, <2>1 DEF GroupInv
<1>2. CASE IsBaseline'
  BY <1>2 DEF GroupInv
<1>3. CASE Start
  <2>1. group' = group /\ group = NoGroup
    BY <1>3 DEF Start, Ind, IInv
  <2> QED BY <1>0, <2>1 DEF GroupInv
<1>4. CASE Fail
  BY <1>1, <1>4 DEF Fail
<1>5. CASE AddSecurityGroup
  <2>1. env' = env /\ components' = components /\ (group' = group \/ NeedsGroup)
    BY <1>5 DEF AddSecurityGroup, Fail
  <2> QED BY <1>1, <2>1
<1>6. CASE AddNetwork \/ AddComponent \/ AddVaultDroplets \/ DeclareInputs \/ BindProject \/ PinProviders
  <2>1. env' = env /\ components' = components /\ group' = group
    BY <1>6 DEF AddNetwork, AddComponent, AddVaultDroplets, DeclareInputs, BindProject, PinProviders, Fail
  <2> QED BY <1>1, <2>1
<1>7. CASE RenderBaseline \/ RefuseBaseline \/ WriteModule
  <2>1. env' = env /\ IsBaseline
    BY <1>7 DEF RenderBaseline, RefuseBaseline, WriteModule, Fail
  <2> QED BY <1>2, <2>1 DEF IsBaseline
<1>8. CASE UNCHANGED vars
  BY <1>1, <1>8 DEF vars
<1> QED BY <1>3, <1>4, <1>5, <1>6, <1>7, <1>8 DEF EitherNext, RenderProgram, Next, Refuse

\* An environment whose documents are all there.
Settled == Ind /\ Contents /\ GroupInv /\ ~IsBaseline /\ Done

\* Where a reference may lead, and a document whose references do, when all of
\* it is among the documents.
Fine(a)  == Input(a) \/ a \in Declared(All) \/ a \in Gaps \/ Foreign(a)
Leads(S) == \A b \in S : \A a \in b.refs : Owns(S, a) \/ Fine(a)

\* What resolves within X leads somewhere if X does, accepted or refused.
LEMMA ResolvesLeads ==
  ASSUME NEW S, NEW X, Resolves(S, X), \A a \in X : Fine(a)
  PROVE  Leads(S)
<1>1. \A a : Input(a) => Fine(a)
  BY DEF Fine
<1> QED BY <1>1 DEF Leads, Resolves

LEMMA AcceptedLeads == ASSUME NEW S, Leads(S) PROVE \A ok : Leads(OrRefuse(ok, S))
<1>1. Leads(Refusal)
  BY Refs DEF Leads, Refusal
<1> QED BY <1>1 DEF OrRefuse

\* In a document that leads somewhere every reference is fine.
LEMMA LeadsFine ==
  ASSUME NEW S, Leads(S), S \subseteq All, NEW b \in S, NEW a \in b.refs
  PROVE  Fine(a)
<1>1. CASE Owns(S, a)
  <2>1. PICK r : Block(a, r) \in S
    BY <1>1 DEF Owns
  <2>2. Block(a, r) \in All /\ Block(a, r).addr = a
    BY <2>1 DEF Block
  <2> QED BY <2>2 DEF Fine, Declared
<1> QED BY <1>1 DEF Leads

\* Contents, once the assembly is done.
LEMMA DocumentsAre ==
  ASSUME Settled
  PROVE  /\ Made = {ProjectDocument, NetworkDocument} \cup When(NeedsGroup, {GroupDocument}) \cup ComponentsMade \cup {VaultDocument}
         /\ Refusal \notin Made /\ UNION Made \subseteq All
         /\ \A b \in All \ UNION Made : b.refs \subseteq Declared(All)
         /\ bindServiceHosts(env.components)
<1>1. Made = {ProjectDocument, NetworkDocument} \cup When(NeedsGroup, {GroupDocument}) \cup ComponentsMade \cup {VaultDocument}
  BY MadeIs DEF Settled, Done, PastNetwork, PastGroup, PastComponents, When
<1> QED BY <1>1 DEF Settled, Contents, Done

\* The document of a component is the one its type and placement call for.
LEMMA OwnDocumentOf ==
  ASSUME Settled, NEW c \in Elements
  PROVE  /\ ComponentDocument(c) \in ComponentsMade
         /\ ComponentDocument(c) # Refusal /\ ComponentDocument(c) \subseteq All
         /\ Placeable(c)
         /\ Hosted(c) => ExplicitVMPlacement(c.type) /\ ComponentDocument(c) = {}
         /\ ~Hosted(c) /\ SelfHosted(env.provider, c) => ComponentDocument(c) = mitigateComponent(ComponentContext, c)
         /\ ~Hosted(c) /\ ~SelfHosted(env.provider, c) => ComponentDocument(c) = RenderComponent(ComponentContext, c)
<1>1. /\ Refusal \notin Made /\ UNION Made \subseteq All /\ bindServiceHosts(env.components)
  BY DocumentsAre
<1>2. ComponentDocument(c) \in ComponentsMade
  <2>1. PICK i \in DOMAIN components : c = components[i]
    BY DEF Elements, ToSet
  <2>2. i \in 1..index - 1
    BY <2>1, EnvironmentsAssumption DEF Settled, Ind, IInv, Done
  <2> QED BY <2>1, <2>2 DEF ComponentsMade
<1>3. ComponentsMade \subseteq Made
  BY DEF Made, ComponentsMade
<1>4. ComponentDocument(c) # Refusal /\ ComponentDocument(c) \subseteq All
  BY <1>1, <1>2, <1>3
<1>5. Hosted(c) => ExplicitVMPlacement(c.type)
  <2>1. PICK e \in {env.components[i] : i \in DOMAIN env.components} :
          c.type = e.type /\ \A k : k # "tag" => Parts(c, k) = Parts(e, k)
    BY ElementGiven DEF Settled
  <2>2. Hosted(c) <=> Hosted(e)
    BY <2>1 DEF Hosted
  <2>3. Hosted(e) => ExplicitVMPlacement(e.type)
    BY <1>1, <2>1 DEF bindServiceHosts
  <2> QED BY <2>1, <2>2, <2>3
<1>6. Placeable(c)
  BY <1>4 DEF ComponentDocument
<1> QED BY <1>2, <1>4, <1>5, <1>6 DEF ComponentDocument

\* A component that is never placed on a machine has the document of its type.
LEMMA RenderedAsIs ==
  ASSUME Settled, NEW c \in Elements, ~ExplicitVMPlacement(c.type), NativelySupported(c.type, env.provider)
  PROVE  /\ ComponentDocument(c) = RenderComponent(ComponentContext, c)
         /\ ComponentDocument(c) # Refusal /\ ComponentDocument(c) \subseteq All
<1>1. ~Hosted(c) /\ ~SelfHosted(env.provider, c)
  BY OwnDocumentOf DEF SelfHosted, ForcesVMPlacement
<1> QED BY <1>1, OwnDocumentOf

\* An address of a block of the documents is declared.
LEMMA OwnedDeclared ==
  ASSUME NEW S, S \subseteq All, NEW a, Owns(S, a)
  PROVE  a \in Declared(All)
<1>1. PICK r : Block(a, r) \in All
  BY DEF Owns
<1> QED BY <1>1 DEF Declared, Block

\* What the network and the group declare, for the components that need them.
LEMMA GroundDeclared ==
  ASSUME Settled, HasNetworked, NEW ctx, ctx.provider = env.provider, ctx.network = NetName
  PROVE  Ground(ctx) \subseteq Declared(All)
<1>1. NetworkDocument \in Made /\ NetworkDocument # Refusal /\ NetworkDocument \subseteq All
  <2>1. NetworkDocument \in Made
    BY DocumentsAre
  <2> QED BY <2>1, DocumentsAre
<1>2. NetworkDocument = RenderHCL(NoContext, Network)
  BY <1>1 DEF NetworkDocument, OrRefuse
<1>3. OwnNetwork(ctx) = Network
  BY DEF OwnNetwork, Network
<1>4. NoContext.provider = ctx.provider
  BY DEF NoContext, Context
<1>5. RenderHCL(ctx, Network) = RenderHCL(NoContext, Network)
  BY <1>4 DEF RenderHCL
<1> QED BY <1>1, <1>2, <1>3, <1>5 DEF Ground, Declared

\* The document of the group, where one was asked for.
LEMMA GroupDocumentIs ==
  ASSUME Settled, NeedsGroup
  PROVE  /\ TranslateSecurityGroup(Context(NetName, ""), SecurityGroup)
         /\ GroupDocument = RenderSGHCL(Context(NetName, ""), SecurityGroup)
         /\ GroupDocument # Refusal /\ GroupDocument \subseteq All
<1>1. GroupDocument \in Made
  BY DocumentsAre DEF When
<1>2. GroupDocument # Refusal /\ GroupDocument \subseteq All
  BY <1>1, DocumentsAre
<1>3. TranslateSecurityGroup(Context(NetName, ""), SecurityGroup)
  BY <1>2 DEF GroupDocument, OrRefuse
<1> QED BY <1>2, <1>3 DEF GroupDocument, OrRefuse

\* The provider's own group is the first block of its document.
LEMMA GroupOwned ==
  ASSUME NEW ctx, NEW sg, NEW other, other.provider = ctx.provider, other.group = sg.name, NEW a \in GroupOf(other)
  PROVE  Owns(RenderSGHCL(ctx, sg), a)
<1>1. CASE ctx.provider = "aws"
  <2>1. a = <<"aws", "security_group", TfName(sg.name)>>
    BY <1>1 DEF GroupOf, AWSGroup, When
  <2>2. RenderSGHCL(ctx, sg) = renderSGAWS(sg)
    BY <1>1, Adapters DEF RenderSGHCL
  <2>3. Block(<<"aws", "security_group", TfName(sg.name)>>, {VPC}) \in renderSGAWS(sg)
    BY DEF renderSGAWS, One
  <2> QED BY <2>1, <2>2, <2>3 DEF Owns
<1>2. CASE ctx.provider = "oracle"
  <2>1. a = NSG(sg.name)
    BY <1>2 DEF GroupOf, OCIGroup, When
  <2>2. RenderSGHCL(ctx, sg) = renderSGOCI(ctx, sg)
    BY <1>2, Adapters DEF RenderSGHCL
  <2>3. Block(NSG(sg.name), {Compartment} \cup OrVariable(VCN(ctx), "vcn_id")) \in renderSGOCI(ctx, sg)
    BY DEF renderSGOCI, One
  <2> QED BY <2>1, <2>2, <2>3 DEF Owns
<1>3. CASE ctx.provider = "ibm"
  <2>1. a = IBMGroupOf(sg.name)
    BY <1>3 DEF GroupOf, IBMGroup, When
  <2>2. RenderSGHCL(ctx, sg) = renderSGIBM(ctx, sg)
    BY <1>3, Adapters DEF RenderSGHCL
  <2>3. InGroup("is_security_group", TfName(sg.name), IBMVPC(ctx)) \in renderSGIBM(ctx, sg)
    <3> DEFINE bare == ""
               Rest == UNION {LET r == sg.rules[i]
                     Rule(j, remote, refs) ==
                       Block(IBM("is_security_group_rule", TfName(sg.name) \o "_" \o sg.rules[j].dir \o "_" \o j \o remote),
                             {IBMGroupOf(sg.name)} \cup refs)
                     Ranges(q) == q.v4 \cup {"_ipv6" \o v : v \in q.v6}
                 IN CASE r.scope = "group" -> {Rule(i, bare, {IBMGroupOf(r.from)})}
                      [] r.scope # "group" /\ Ranges(r) = {} -> {Rule(i, bare, {})}
                      [] OTHER -> {Rule(i, v, {}) : v \in Ranges(r)} : i \in DOMAIN sg.rules}
    <3>1. renderSGIBM(ctx, sg) = {InGroup("is_security_group", TfName(sg.name), IBMVPC(ctx))} \cup Rest
      BY Zenon DEF renderSGIBM
    <3> HIDE DEF Rest
    <3> QED BY <3>1
  <2> QED BY <2>1, <2>2, <2>3 DEF Owns, InGroup, IBMGroupOf
<1>4. CASE ctx.provider = "alibaba"
  <2>1. a = AliGroupOf(sg.name)
    BY <1>4 DEF GroupOf, AliGroup, When
  <2>2. RenderSGHCL(ctx, sg) = renderSGAlibaba(ctx, sg)
    BY <1>4, Adapters DEF RenderSGHCL
  <2>3. Block(AliGroupOf(sg.name), AliVPC(ctx)) \in renderSGAlibaba(ctx, sg)
    BY DEF renderSGAlibaba, One
  <2> QED BY <2>1, <2>2, <2>3 DEF Owns
<1>5. ctx.provider \in {"aws", "oracle", "ibm", "alibaba"}
  BY DEF GroupOf
<1> QED BY <1>1, <1>2, <1>3, <1>4, <1>5

\* A context without a group supplies none.
LEMMA NoGroupOf ==
  ASSUME NEW ctx, ~HasGroup(ctx)
  PROVE  GroupOf(ctx) = {}
BY DEF GroupOf, AWSGroup, OCIGroup, IBMGroup, AliGroup, When

\* The context of the components is that of the environment.
LEMMA Contexts ==
  /\ ComponentContext.provider = env.provider /\ ComponentContext.network = NetName
  /\ ComponentContext.profiles = managedInstanceProfiles /\ ComponentContext.project = env.project
  /\ HasGroup(ComponentContext) => group # NoGroup /\ ComponentContext.group = SGName
  /\ Context(NetName, "").provider = env.provider /\ Context(NetName, "").network = NetName
  /\ ~HasGroup(Context(NetName, ""))
<1> DEFINE bare == ""
           g == IF group = NoGroup THEN bare ELSE SGName
           k == Context(NetName, g)
           n == Context(NetName, bare)
<1>1. ComponentContext = k
  BY DEF ComponentContext
<1>2. Context(NetName, "") = n
  OBVIOUS
<1>3. \A x : HasGroup(x) <=> x.group # bare
  BY DEF HasGroup
<1> HIDE DEF bare
<1>4. /\ k.provider = env.provider /\ k.network = NetName /\ k.profiles = managedInstanceProfiles
      /\ k.project = env.project /\ k.group = g
      /\ n.provider = env.provider /\ n.network = NetName /\ n.group = bare
  BY DEF Context
<1> HIDE DEF k, n
<1> QED BY <1>1, <1>2, <1>3, <1>4

\* The group and the network that components refer to are declared.
LEMMA GroupDeclared ==
  ASSUME Settled
  PROVE  GroupOf(ComponentContext) \subseteq Declared(All)
<1>1. CASE ~HasGroup(ComponentContext)
  BY <1>1, NoGroupOf
<1>2. CASE HasGroup(ComponentContext)
  <2> DEFINE ctx == Context(NetName, "")
  <2>1. NeedsGroup /\ ComponentContext.group = SGName
    BY <1>2, Contexts DEF Settled, GroupInv
  <2>2. GroupDocument = RenderSGHCL(ctx, SecurityGroup) /\ GroupDocument \subseteq All
    BY <2>1, GroupDocumentIs
  <2>3. SecurityGroup.name = SGName
    BY DEF SecurityGroup
  <2>4. ComponentContext.provider = ctx.provider
    BY Contexts
  <2> HIDE DEF ctx
  <2>5. \A a \in GroupOf(ComponentContext) : Owns(GroupDocument, a)
    BY <2>1, <2>2, <2>3, <2>4, GroupOwned
  <2> QED BY <2>2, <2>5, OwnedDeclared
<1> QED BY <1>1, <1>2

LEMMA SuppliedDeclared ==
  ASSUME Settled, HasNetworked
  PROVE  Supplied(ComponentContext) \subseteq Declared(All)
BY GroundDeclared, GroupDeclared, Contexts DEF Supplied

\* Who needs the network.
LEMMA Networked ==
  ASSUME NEW c \in Elements, c.type \in NetworkedTypes \/ c.type \in MachineTypes \/ SelfHosted(env.provider, c)
  PROVE  HasNetworked
BY DEF HasNetworked, HasVM

\* The security group refers to the network, and to the groups its author names.
LEMMA GroupLeads ==
  ASSUME Settled, NeedsGroup
  PROVE  Leads(GroupDocument)
<1> DEFINE ctx == Context(NetName, "")
           sg  == SecurityGroup
<1>1. TranslateSecurityGroup(ctx, sg) /\ GroupDocument = RenderSGHCL(ctx, sg)
  BY GroupDocumentIs
<1>2. ctx.provider = env.provider /\ ctx.network = NetName /\ ~HasGroup(ctx)
  BY Contexts
<1> HIDE DEF ctx
<1>3. sg.rules = GroupRules /\ sg.lists = {}
  BY DEF SecurityGroup
<1>4. \A i \in DOMAIN sg.rules : sg.rules[i].scope # "prefix"
  BY <1>1, <1>3 DEF TranslateSecurityGroup, DefinesPrefixList
<1>5. Resolves(GroupDocument, Supplied(ctx) \cup Named(sg))
  BY <1>1, <1>4, GroupResolves
<1>6. ASSUME NEW a \in Supplied(ctx) PROVE Fine(a)
  <2>1. HasNetworked
    BY DEF NeedsGroup, HasNetworked
  <2>2. Supplied(ctx) \subseteq Declared(All)
    BY <1>2, <2>1, GroundDeclared, NoGroupOf DEF Supplied
  <2> QED BY <2>2 DEF Fine
<1>7. ASSUME NEW a \in Named(sg) PROVE Fine(a)
  <2>1. PICK i \in DOMAIN GroupRules :
          /\ GroupRules[i].scope = "group"
          /\ a \in {<<"aws", "security_group", TfName(GroupRules[i].from)>>, NSG(GroupRules[i].from), IBMGroupOf(GroupRules[i].from),
                    AliGroupOf(GroupRules[i].from), StackItGroup(GroupRules[i].from)}
    BY <1>3, <1>7 DEF Named
  <2>2. a[Len(a)] = TfName(GroupRules[i].from)
    BY <2>1 DEF NSG, OCI, IBMGroupOf, IBM, AliGroupOf, Ali, StackItGroup, STACKIT
  <2>3. i \in DOMAIN env.ingress /\ GroupRules[i] = env.ingress[i]
    <3>1. (\A p : Exposed(p).scope = "cidr") /\ (\A p, q : Egress(p, q).scope = "cidr")
      BY DEF Exposed, Egress
    <3>2. \A j \in DOMAIN EgressRules : EgressRules[j].scope = "cidr"
      BY <3>1 DEF EgressRules
    <3>3. /\ DOMAIN GroupRules = env.expose \cup DOMAIN EgressRules \cup DOMAIN env.ingress
          /\ i \in env.expose => GroupRules[i] = Exposed(i)
          /\ i \in DOMAIN EgressRules \ env.expose => GroupRules[i] = EgressRules[i]
          /\ i \notin env.expose \cup DOMAIN EgressRules => GroupRules[i] = env.ingress[i]
      BY <2>1 DEF GroupRules
    <3> QED BY <2>1, <3>1, <3>2, <3>3
  <2>4. Foreign(a)
    BY <2>1, <2>2, <2>3 DEF Foreign
  <2> QED BY <2>4 DEF Fine
<1> HIDE DEF sg
<1> QED BY <1>5, <1>6, <1>7, ResolvesLeads

\* A machine of one instance, or of more.
LEMMA MachineOwned ==
  ASSUME NEW ctx, NEW c, "-1" \in Parts(c, "instances"), NEW a \in MachineOf(ctx.provider, TfName(c.name \o "-1"))
  PROVE  \E b \in RenderVMHCL(ctx, c) : b.addr = a
<1> DEFINE one == "-1"
           n == TfName(c.name \o one)
<1>0. one \in Parts(c, "instances") /\ n = TfName(c.name \o "-1")
  OBVIOUS
<1> HIDE DEF one
<1>1. CASE ctx.provider = "aws"
  <2> DEFINE b == Block(<<"aws", "instance", n>>,
                        FirstSubnet(ctx, <<"data", "aws", "subnet">>) \cup AWSGroup(ctx) \cup ProfileRef(ctx, c))
  <2>1. b \in RenderVMHCL(ctx, c)
    BY <1>0, <1>1, Adapters DEF RenderVMHCL, renderVMAWS
  <2>2. b.addr = a
    BY <1>0, <1>1 DEF MachineOf, Block
  <2> QED BY <2>1, <2>2
<1>2. CASE ctx.provider = "gcp"
  <2> DEFINE b == Block(<<"google", "compute_instance", n>>,
                        GCPNetRef(ctx) \cup FirstSubnet(ctx, <<"google", "compute_subnetwork">>))
  <2>1. b \in RenderVMHCL(ctx, c)
    BY <1>0, <1>2, Adapters DEF RenderVMHCL, renderVMGCP
  <2>2. b.addr = a
    BY <1>0, <1>2 DEF MachineOf, Block
  <2> QED BY <2>1, <2>2
<1>3. CASE ctx.provider = "digitalocean"
  <2> DEFINE b == Tagged(Block(<<"digitalocean", "droplet", n>>, DOVPCRef(ctx)), {"pyxcloud"} \cup Parts(c, "tag"))
  <2>1. b \in RenderVMHCL(ctx, c)
    BY <1>0, <1>3, Adapters DEF RenderVMHCL, renderVMDO
  <2>2. b.addr = a
    BY <1>0, <1>3 DEF MachineOf, Block, Tagged
  <2> QED BY <2>1, <2>2
<1>4. CASE ctx.provider = "linode"
  <2> DEFINE b == Block(Linode("instance", n), {<<"var", "linode_root_pass">>}
                        \cup When(HasNetwork(ctx), {Linode("vpc_subnet", SubnetLabel(ctx.network, "_1"))}))
  <2>1. b \in RenderVMHCL(ctx, c)
    BY <1>0, <1>4, Adapters DEF RenderVMHCL, renderVMLinode
  <2>2. b.addr = a
    BY <1>0, <1>4 DEF MachineOf, Block
  <2> QED BY <2>1, <2>2
<1>5. CASE ctx.provider = "ibm"
  <2> DEFINE b == InGroup("is_instance", n, {IBMKey} \cup IBMVPC(ctx) \cup IBMFirstSubnet(ctx) \cup IBMGroup(ctx))
  <2>1. b \in RenderVMHCL(ctx, c)
    BY <1>0, <1>5, Adapters DEF RenderVMHCL, renderVMIBM
  <2>2. b.addr = a
    BY <1>0, <1>5 DEF MachineOf, Block, InGroup
  <2> QED BY <2>1, <2>2
<1>6. ctx.provider \in {"aws", "gcp", "digitalocean", "linode", "ibm"}
  BY DEF MachineOf
<1> QED BY <1>1, <1>2, <1>3, <1>4, <1>5, <1>6

\* The machine that stands in for a service.
LEMMA StandIn ==
  ASSUME NEW c, c = Component(c.type, c.name, c.opts, c.parts, c.target)
  PROVE  LET vm == [c EXCEPT !.parts = [instances |-> {"-1"}]]
         IN /\ vm.name = c.name /\ "-1" \in Parts(vm, "instances") /\ Parts(vm, "profile") = {}
<1> DEFINE vm == [c EXCEPT !.parts = [instances |-> {"-1"}]]
<1>1. vm.parts = [instances |-> {"-1"}] /\ vm.name = c.name
  BY DEF Component
<1> HIDE DEF vm
<1>2. "-1" \in Parts(vm, "instances") /\ Parts(vm, "profile") = {}
  BY <1>1 DEF Parts
<1> QED BY <1>1, <1>2 DEF vm

\* Machines, scale groups, policies and roles are rendered on every cloud.
LEMMA NotMitigated ==
  \A p : /\ NativelySupported("virtual-machine", p)
         /\ NativelySupported("virtual-machine-scale-group", p)
         /\ NativelySupported("access-policy", p)
         /\ NativelySupported("iam", p)
BY DEF NativelySupported, Mitigatable, StreamTypes, BucketTypes, KubernetesTypes, SecretTypes, QueueTypes, KeyTypes,
       SyntheticsTypes, WAFTypes, CDNTypes, EmailTypes

\* A machine and a scale group are declared under the names used for them.
LEMMA MachineDeclared ==
  ASSUME Settled, NEW d \in Elements, BecomesMachine(d)
  PROVE  MachineOf(env.provider, TfName(d.name \o "-1")) \subseteq Declared(All)
<1> DEFINE ctx == ComponentContext
<1>0. ctx.provider = env.provider
  BY Contexts
<1> HIDE DEF ctx
<1>1. CASE d.type = "virtual-machine"
  <2>1. ComponentDocument(d) = RenderComponent(ctx, d) /\ ComponentDocument(d) # Refusal /\ ComponentDocument(d) \subseteq All
    BY <1>1, RenderedAsIs, NotMitigated DEF ExplicitVMPlacement, ctx
  <2>2. RenderComponent(ctx, d) = AssembleVM(ctx, d)
    BY <1>1, MachineRendered
  <2>3. ComponentDocument(d) = RenderVMHCL(ctx, d)
    BY <2>1, <2>2 DEF AssembleVM, Configured, OrRefuse
  <2>4. "-1" \in Parts(d, "instances")
    BY <1>1, ElementHasInstance DEF Settled, Done
  <2>5. \A a \in MachineOf(ctx.provider, TfName(d.name \o "-1")) : \E b \in RenderVMHCL(ctx, d) : b.addr = a
    BY <2>4, MachineOwned
  <2> QED BY <1>0, <2>1, <2>3, <2>5 DEF Declared
<1>2. CASE SelfHosted(env.provider, d) /\ ~Hosted(d)
  <2> DEFINE vm == [d EXCEPT !.parts = [instances |-> {"-1"}]]
  <2>1. ComponentDocument(d) = mitigateComponent(ctx, d) /\ ComponentDocument(d) # Refusal /\ ComponentDocument(d) \subseteq All
    BY <1>2, OwnDocumentOf DEF ctx
  <2>2. ComponentDocument(d) = RenderVMHCL(ctx, vm)
    BY <2>1 DEF mitigateComponent, OrRefuse
  <2>3. d = Component(d.type, d.name, d.opts, d.parts, d.target)
    BY ElementGiven DEF Settled
  <2>4. vm.name = d.name /\ "-1" \in Parts(vm, "instances")
    BY <2>3, StandIn
  <2> HIDE DEF vm
  <2>5. \A a \in MachineOf(ctx.provider, TfName(vm.name \o "-1")) : \E b \in RenderVMHCL(ctx, vm) : b.addr = a
    BY <2>4, MachineOwned
  <2> QED BY <1>0, <2>1, <2>2, <2>4, <2>5 DEF Declared
<1> QED BY <1>1, <1>2 DEF BecomesMachine

LEMMA ScaleGroupDeclared ==
  ASSUME Settled, NEW g \in Elements, IsScaleGroup(g)
  PROVE  ScaleGroupOf(env.provider, g.name) \subseteq Declared(All)
<1> DEFINE ctx == ComponentContext
<1>0. ctx.provider = env.provider
  BY Contexts
<1> HIDE DEF ctx
<1>1. ComponentDocument(g) = RenderComponent(ctx, g) /\ ComponentDocument(g) # Refusal /\ ComponentDocument(g) \subseteq All
  BY RenderedAsIs, NotMitigated DEF ExplicitVMPlacement, IsScaleGroup, ctx
<1>2. RenderComponent(ctx, g) = AssembleScaleGroup(ctx, g)
  BY MachineRendered DEF IsScaleGroup
<1>3. ComponentDocument(g) = RenderScaleGroupHCL(ctx, g)
  BY <1>1, <1>2 DEF AssembleScaleGroup, Configured, OrRefuse
<1>4. \A a \in ScaleGroupOf(ctx.provider, g.name) : Owns(RenderScaleGroupHCL(ctx, g), a)
  <2>1. CASE ctx.provider = "aws"
    <3>1. RenderScaleGroupHCL(ctx, g) = renderASGAWS(ctx, g)
      BY <2>1 DEF RenderScaleGroupHCL
    <3>2. Owns(renderASGAWS(ctx, g), ASG(g.name))
      BY DEF Owns, renderASGAWS
    <3> QED BY <2>1, <3>1, <3>2 DEF ScaleGroupOf
  <2>2. CASE ctx.provider = "gcp"
    <3>1. RenderScaleGroupHCL(ctx, g) = renderASGGCP(ctx, g)
      BY <2>2 DEF RenderScaleGroupHCL
    <3>2. Owns(renderASGGCP(ctx, g), <<"google", "compute_region_instance_group_manager", TfName(g.name) \o "_mig">>)
      BY DEF Owns, renderASGGCP
    <3> QED BY <2>2, <3>1, <3>2 DEF ScaleGroupOf
  <2>3. CASE ctx.provider \notin {"aws", "gcp"}
    BY <2>3 DEF ScaleGroupOf
  <2> QED BY <2>1, <2>2, <2>3
<1> QED BY <1>0, <1>1, <1>3, <1>4, OwnedDeclared

\* Which renderer a bucket, a role and a policy are handed to.
LEMMA OtherRendered ==
  ASSUME NEW ctx, NEW c
  PROVE  /\ c.type \in BucketTypes => RenderComponent(ctx, c) = AssembleObjectStorage(ctx, c)
         /\ c.type = "access-policy" => RenderComponent(ctx, c) = AssembleAccessPolicy(ctx, c)
         /\ c.type = "iam" => RenderComponent(ctx, c) = AssembleIAM(ctx, c)
<1> USE DEF RenderComponent, BucketTypes, StaticSiteTypes, SecretTypes, QueueTypes, StreamTypes, KeyTypes, CDNTypes,
            WAFTypes, KubernetesTypes, EmailTypes, SyntheticsTypes, TriggerTypes, CertificateTypes, TracingTypes,
            IdentityTypes, VaultTypes, ReservedIPTypes, VPNTypes, VolumeTypes
<1>1. CASE c.type \in BucketTypes
  BY <1>1
<1>2. CASE c.type = "access-policy"
  BY <1>2
<1>3. CASE c.type = "iam"
  BY <1>3
<1> QED BY <1>1, <1>2, <1>3

\* So is a bucket.
LEMMA BucketDeclared ==
  ASSUME Settled, NEW d \in Elements, d.type \in BucketTypes
  PROVE  BucketOf(env.provider, TfName(d.name)) \subseteq Declared(All)
<1> DEFINE ctx == ComponentContext
<1>0. ctx.provider = env.provider
  BY Contexts
<1>1. CASE env.provider \notin {"aws", "gcp", "digitalocean", "alibaba"}
  BY <1>1 DEF BucketOf
<1>2. CASE env.provider \in {"aws", "gcp", "digitalocean", "alibaba"}
  <2>1. NativelySupported(d.type, env.provider)
    BY <1>2 DEF NativelySupported, nativeSupport, StreamTypes, BucketTypes, KubernetesTypes, SecretTypes, QueueTypes, KeyTypes,
                SyntheticsTypes, WAFTypes, CDNTypes, EmailTypes, Managed
  <2>2. ComponentDocument(d) = RenderComponent(ctx, d) /\ ComponentDocument(d) # Refusal /\ ComponentDocument(d) \subseteq All
    BY <2>1, RenderedAsIs DEF ExplicitVMPlacement, BucketTypes
  <2> HIDE DEF ctx
  <2>3. ComponentDocument(d) = RenderObjectStorageHCL(ctx, d)
    BY <2>2, OtherRendered DEF AssembleObjectStorage, OrRefuse
  <2>4. \A a \in BucketOf(ctx.provider, TfName(d.name)) : Owns(RenderObjectStorageHCL(ctx, d), a)
    <3>1. CASE ctx.provider = "aws"
      <4>1. Owns(renderObjectStorageAWS(d), <<"aws", "s3_bucket", TfName(d.name)>>)
        BY DEF Owns, renderObjectStorageAWS, One
      <4> QED BY <3>1, <4>1 DEF BucketOf, RenderObjectStorageHCL
    <3>2. CASE ctx.provider = "gcp"
      <4>1. Owns(renderObjectStorageGCP(d), <<"google", "storage_bucket", TfName(d.name)>>)
        BY DEF Owns, renderObjectStorageGCP, One
      <4> QED BY <3>2, <4>1 DEF BucketOf, RenderObjectStorageHCL
    <3>3. CASE ctx.provider = "digitalocean"
      <4>1. Owns(renderObjectStorageDO(d), <<"digitalocean", "spaces_bucket", TfName(d.name)>>)
        BY DEF Owns, renderObjectStorageDO, One
      <4> QED BY <3>3, <4>1 DEF BucketOf, RenderObjectStorageHCL
    <3>4. CASE ctx.provider = "alibaba"
      <4>1. Owns(renderObjectStorageAlibaba(d), Ali("oss_bucket", TfName(d.name)))
        BY DEF Owns, renderObjectStorageAlibaba, One
      <4> QED BY <3>4, <4>1 DEF BucketOf, RenderObjectStorageHCL
    <3> QED BY <1>0, <1>2, <3>1, <3>2, <3>3, <3>4
  <2> QED BY <1>0, <2>2, <2>3, <2>4, OwnedDeclared
<1> QED BY <1>1, <1>2

\* What a balancer is rendered with: without a kind of target it fronts a machine.
Balancing(c) ==
  LET to == [c EXCEPT !.opts = IF Has(c, "group_target") THEN c.opts ELSE c.opts \cup {"vm_target"}]
  IN IF Parts(c, "listeners") = {} THEN Giving(to, "listeners", {"_80"}) ELSE to

\* How the default target changes a balancer.
LEMMA BalancingIs ==
  ASSUME NEW c, c = Component(c.type, c.name, c.opts, c.parts, c.target)
  PROVE  /\ Balancing(c).name = c.name /\ Balancing(c).target = c.target
         /\ Balancing(c).opts = IF Has(c, "group_target") THEN c.opts ELSE c.opts \cup {"vm_target"}
         /\ Parts(Balancing(c), "routes") = Parts(c, "routes")
<1> DEFINE to == [c EXCEPT !.opts = IF Has(c, "group_target") THEN c.opts ELSE c.opts \cup {"vm_target"}]
<1>1. /\ to = Component(to.type, to.name, to.opts, to.parts, to.target)
      /\ to.name = c.name /\ to.target = c.target /\ to.parts = c.parts
      /\ to.opts = IF Has(c, "group_target") THEN c.opts ELSE c.opts \cup {"vm_target"}
  BY DEF Component
<1>2. Balancing(c) = IF Parts(c, "listeners") = {} THEN Giving(to, "listeners", {"_80"}) ELSE to
  BY DEF Balancing
<1> HIDE DEF to
<1>3. LET d == Giving(to, "listeners", {"_80"})
      IN /\ d.name = to.name /\ d.target = to.target /\ d.opts = to.opts
         /\ \A k : k # "listeners" => Parts(d, k) = Parts(to, k)
  BY <1>1, GivingOne
<1>4. Parts(to, "routes") = Parts(c, "routes")
  BY <1>1 DEF Parts
<1> QED BY <1>1, <1>2, <1>3, <1>4

\* A balancer is declared under the name its CDN and firewall use.
LEMMA BalancerDeclared ==
  ASSUME Settled, NEW d \in Elements, d.type = "load-balancer"
  PROVE  BalancerOf(env.provider, TfName(d.name)) \subseteq Declared(All)
<1> DEFINE ctx == ComponentContext
           lb  == Balancing(d)
<1>0. ctx.provider = env.provider
  BY Contexts
<1>1. CASE env.provider \notin {"aws", "oracle"}
  BY <1>1 DEF BalancerOf
<1>2. CASE env.provider \in {"aws", "oracle"}
  <2>1. NativelySupported(d.type, env.provider)
    BY <1>2 DEF NativelySupported, nativeSupport, StreamTypes, BucketTypes, KubernetesTypes, SecretTypes, QueueTypes, KeyTypes,
                SyntheticsTypes, WAFTypes, CDNTypes, EmailTypes, Managed
  <2>2. ComponentDocument(d) = RenderComponent(ctx, d) /\ ComponentDocument(d) # Refusal /\ ComponentDocument(d) \subseteq All
    BY <2>1, RenderedAsIs DEF ExplicitVMPlacement
  <2> HIDE DEF ctx
  <2>3. ComponentDocument(d) = AssembleLoadBalancer(ctx, d)
    BY <2>2, MachineRendered
  <2>4. AssembleLoadBalancer(ctx, d) = OrRefuse(TranslateLoadBalancer(ctx, lb), RenderLoadBalancerHCL(ctx, lb))
    BY DEF AssembleLoadBalancer, Balancing
  <2>5. ComponentDocument(d) = RenderLoadBalancerHCL(ctx, lb)
    BY <2>2, <2>3, <2>4 DEF OrRefuse
  <2>6. lb.name = d.name
    BY ElementGiven, BalancingIs DEF Settled
  <2> HIDE DEF lb
  <2>7. \A a \in BalancerOf(ctx.provider, TfName(lb.name)) : Owns(RenderLoadBalancerHCL(ctx, lb), a)
    <3>1. CASE ctx.provider = "aws"
      <4>1. Owns(renderLBAWS(ctx, lb), <<"aws", "lb", TfName(lb.name) \o "_lb">>)
        BY DEF Owns, renderLBAWS, One
      <4> QED BY <3>1, <4>1 DEF BalancerOf, RenderLoadBalancerHCL
    <3>2. CASE ctx.provider = "oracle"
      <4>1. Owns(renderLBOCI(ctx, lb), OCI("load_balancer_load_balancer", TfName(lb.name) \o "_lb"))
        BY DEF Owns, renderLBOCI, One
      <4> QED BY <3>2, <4>1 DEF BalancerOf, RenderLoadBalancerHCL
    <3> QED BY <1>0, <1>2, <3>1, <3>2
  <2> QED BY <1>0, <2>2, <2>5, <2>6, <2>7, OwnedDeclared
<1> QED BY <1>1, <1>2

\* The profile of a machine is one the environment declares, or of a policy without.
LEMMA ProfileFine ==
  ASSUME Settled, env.provider = "aws", NEW c, NEW a \in ProfileRef(ComponentContext, c)
  PROVE  Fine(a)
<1> DEFINE ctx == ComponentContext
<1>0. ctx.provider = "aws" /\ ctx.profiles = managedInstanceProfiles
  BY Contexts
<1> HIDE DEF ctx
<1>1. PICK p \in managedInstanceProfiles : a = <<"aws", "iam_instance_profile", TfName(p)>>
  BY <1>0 DEF ProfileRef, ctx
<1>2. PICK d \in Elements : p = d.name /\ (d.type = "access-policy" \/ (d.type = "iam" /\ Has(d, "instance_profile")))
  BY DEF managedInstanceProfiles
<1>3. CASE ~Has(d, "instance_profile")
  BY <1>1, <1>2, <1>3 DEF Gaps, Fine
<1>4. CASE Has(d, "instance_profile")
  <2>1. ComponentDocument(d) = RenderComponent(ctx, d) /\ ComponentDocument(d) # Refusal /\ ComponentDocument(d) \subseteq All
    BY <1>2, RenderedAsIs, NotMitigated DEF ExplicitVMPlacement, ctx
  <2>2. RenderComponent(ctx, d) = OrRefuse(TranslateIAM(ctx, d), RenderIAMHCL(ctx, d))
    BY <1>2, <1>4, OtherRendered DEF AssembleAccessPolicy, AssembleIAM
  <2>3. ComponentDocument(d) = renderIAMAWS(d)
    BY <1>0, <2>1, <2>2 DEF OrRefuse, RenderIAMHCL
  <2>4. Owns(renderIAMAWS(d), <<"aws", "iam_instance_profile", TfName(d.name)>>)
    BY <1>4 DEF Owns, renderIAMAWS, One, When
  <2> QED BY <1>1, <1>2, <2>1, <2>3, <2>4, OwnedDeclared DEF Fine
<1> QED BY <1>3, <1>4

\* What a component points at, in an environment where it is there.
LEMMA TargetThere ==
  ASSUME Settled, Complete, NEW c \in Elements
  PROVE  /\ c.target # NoTarget => \E d \in Elements : d.name = c.target /\ Fits(c, d)
         /\ \A t \in Parts(c, "routes") : \E d \in Elements : d.name = t /\ IsScaleGroup(d)
BY DEF Complete

\* The routes of a balancer lead to scale groups.
LEMMA RoutesFine ==
  ASSUME Settled, Complete, NEW c \in Elements, NEW t \in Parts(c, "routes"), NEW a \in ScaleGroupOf(env.provider, t)
  PROVE  Fine(a)
<1>1. PICK d \in Elements : d.name = t /\ IsScaleGroup(d)
  BY TargetThere
<1> QED BY <1>1, ScaleGroupDeclared DEF Fine

\* The name of a first instance, folded before or after its number is added.
LEMMA FoldedOnce ==
  ASSUME Settled, NEW c \in Elements, c.target # NoTarget
  PROVE  TfName(c.target) \o "-1" = TfName(c.target \o "-1")
<1>1. PICK e \in {env.components[i] : i \in DOMAIN env.components} : c.target = e.target
  BY ElementGiven DEF Settled
<1>2. PICK i \in DOMAIN env.components : e = env.components[i]
  OBVIOUS
<1>3. i \in 1..Len(env.components) /\ env \in Environments
  BY EnvironmentsAssumption DEF Settled, Ind
<1> QED BY <1>1, <1>2, <1>3, FoldedAssumption

\* A balancer fronts what is there, whatever it takes its target for.
LEMMA FrontedFine ==
  ASSUME Settled, Complete, NEW c \in Elements, c.type = "load-balancer",
         NEW a \in Fronted(ComponentContext, Balancing(c))
  PROVE  Fine(a)
<1> DEFINE lb == Balancing(c)
           p  == env.provider
<1>1. /\ lb.target = c.target /\ Parts(lb, "routes") = Parts(c, "routes")
      /\ lb.opts = IF Has(c, "group_target") THEN c.opts ELSE c.opts \cup {"vm_target"}
  BY ElementGiven, BalancingIs DEF Settled
<1> HIDE DEF lb
<1>2. ToVM(lb) <=> ~(Has(c, "group_target") /\ ~ToVM(c))
  BY <1>1 DEF ToVM, Has
<1>3. ComponentContext.provider = p
  BY Contexts
<1>4. CASE \E t \in Parts(c, "routes") : a \in ScaleGroupOf(p, t)
  BY <1>4, RoutesFine
<1>5. CASE ~\E t \in Parts(c, "routes") : a \in ScaleGroupOf(p, t)
  <2>1. /\ c.target # NoTarget
        /\ ToVM(lb) => a \in MachineOf(p, TfName(c.target \o "-1")) \cup MachineOf(p, TfName(c.target) \o "-1")
        /\ ~ToVM(lb) => a \in ScaleGroupOf(p, c.target)
    BY <1>1, <1>3, <1>5 DEF Fronted, When, lb
  <2>2. PICK d \in Elements : d.name = c.target /\ Fits(c, d)
    BY <2>1, TargetThere
  <2>3. CASE ToVM(lb)
    <3>1. BecomesMachine(d)
      BY <1>2, <2>2, <2>3 DEF Fits, VolumeTypes, CDNTypes, WAFTypes
    <3>2. a \in MachineOf(p, TfName(d.name \o "-1"))
      BY <2>1, <2>2, <2>3, FoldedOnce
    <3> QED BY <3>1, <3>2, MachineDeclared DEF Fine
  <2>4. CASE ~ToVM(lb)
    <3>1. IsScaleGroup(d)
      BY <1>2, <2>2, <2>4 DEF Fits, VolumeTypes, CDNTypes, WAFTypes
    <3> QED BY <2>1, <2>2, <2>4, <3>1, ScaleGroupDeclared DEF Fine
  <2> QED BY <2>3, <2>4
<1> QED BY <1>4, <1>5

\* A volume's machine and an attached scale group are there.
LEMMA VolumeFine ==
  ASSUME Settled, Complete, NEW c \in Elements, c.type \in VolumeTypes, c.target # NoTarget,
         NEW a \in MachineOf(env.provider, TfName(c.target \o "-1"))
  PROVE  Fine(a)
<1>1. PICK d \in Elements : d.name = c.target /\ Fits(c, d)
  BY TargetThere
<1>2. BecomesMachine(d)
  BY <1>1 DEF Fits, VolumeTypes, CDNTypes, WAFTypes
<1> QED BY <1>1, <1>2, MachineDeclared DEF Fine

LEMMA AttachedFine ==
  ASSUME Settled, Complete, NEW c \in Elements, c.type = "attach-to-existing-alb", c.target # NoTarget,
         NEW a \in ScaleGroupOf(env.provider, c.target)
  PROVE  Fine(a)
<1>1. PICK d \in Elements : d.name = c.target /\ Fits(c, d)
  BY TargetThere
<1>2. IsScaleGroup(d)
  BY <1>1 DEF Fits, VolumeTypes, CDNTypes, WAFTypes
<1> QED BY <1>1, <1>2, ScaleGroupDeclared DEF Fine

\* The bucket or balancer that the canonical form of a name leads to.
LEMMA EdgeFine ==
  ASSUME Settled, Complete, NEW c \in Elements, c.type \in CDNTypes \cup WAFTypes, c.target # NoTarget,
         NEW a \in IF c.type \in CDNTypes /\ Has(c, "bucket_origin") THEN BucketOf(env.provider, TfName(CanonicalName(c.target)))
                   ELSE BalancerOf(env.provider, TfName(CanonicalName(c.target)))
  PROVE  Fine(a)
<1> DEFINE n == CanonicalName(c.target)
<1>0. CDNTypes \cap WAFTypes = {}
  BY DEF CDNTypes, WAFTypes
<1>1. CASE n # c.target
  <2>1. a \in {<<"aws", "s3_bucket", TfName(n)>>, <<"aws", "lb", TfName(n) \o "_lb">>,
               <<"google", "storage_bucket", TfName(n)>>, <<"digitalocean", "spaces_bucket", TfName(n)>>,
               <<"alicloud", "oss_bucket", TfName(n)>>,
               <<"oci", "load_balancer_load_balancer", TfName(n) \o "_lb">>}
    BY DEF BucketOf, BalancerOf, Ali, OCI
  <2> HIDE DEF n
  <2>2. a \in Misled
    BY <1>1, <2>1 DEF Misled, n
  <2> QED BY <2>2 DEF Fine, Gaps
<1>2. CASE n = c.target
  <2>1. PICK d \in Elements : d.name = c.target /\ Fits(c, d)
    BY TargetThere
  <2>2. CASE c.type \in CDNTypes /\ Has(c, "bucket_origin")
    <3>1. d.type \in BucketTypes
      BY <1>0, <2>1, <2>2 DEF Fits, VolumeTypes, CDNTypes, WAFTypes
    <3> QED BY <1>2, <2>1, <2>2, <3>1, BucketDeclared DEF Fine
  <2>3. CASE ~(c.type \in CDNTypes /\ Has(c, "bucket_origin"))
    <3>1. d.type = "load-balancer"
      BY <1>0, <2>1, <2>3 DEF Fits, VolumeTypes, CDNTypes, WAFTypes
    <3> QED BY <1>2, <2>1, <2>3, <3>1, BalancerDeclared DEF Fine
  <2> QED BY <2>2, <2>3
<1> QED BY <1>1, <1>2

\* What the canonical form of a CDN or a firewall keeps.
LEMMA CanonicalEdgeIs ==
  ASSUME NEW c
  PROVE  /\ c.target = NoTarget => CanonicalEdge(c).target = NoTarget
         /\ c.target # NoTarget => CanonicalEdge(c).target = CanonicalName(c.target)
         /\ Has(CanonicalEdge(c), "bucket_origin") <=> Has(c, "bucket_origin")
BY DEF CanonicalEdge, Component, Has

\* The components whose references lead somewhere whatever the environment.
LEMMA ClosedLeads ==
  ASSUME NEW ctx, NEW c
  PROVE  /\ Leads(AssembleAccessPolicy(ctx, c)) /\ Leads(AssembleIAM(ctx, c)) /\ Leads(AssembleMonitoring(ctx, c))
         /\ Leads(AssembleDNS(c)) /\ Leads(AssembleObjectStorage(ctx, c)) /\ Leads(AssembleStaticSite(ctx, c))
         /\ Leads(AssembleRegistry(ctx, c)) /\ Leads(AssembleSecrets(ctx, c)) /\ Leads(AssembleKMS(ctx, c))
         /\ Leads(AssembleQueue(ctx, c)) /\ Leads(AssembleStream(ctx, c)) /\ Leads(AssembleServerless(ctx, c))
         /\ Leads(AssembleWebService(ctx, c)) /\ Leads(AssembleEmail(ctx, c)) /\ Leads(AssemblePrefixList(ctx, c))
         /\ Leads(AssembleTrigger(ctx, c)) /\ Leads(AssembleCertificate(ctx, c)) /\ Leads(AssembleTracing(ctx, c))
         /\ Leads(AssembleVaultHA(ctx, c)) /\ Leads(AssemblePipeline(ctx, c))
<1>1. \A S : Resolves(S, {}) => \A ok : Leads(S) /\ Leads(OrRefuse(ok, S))
  <2>1. \A S : Resolves(S, {}) => Leads(S)
    BY DEF Leads, Resolves, Fine
  <2> QED BY <2>1, AcceptedLeads
<1>2. \A S : Leads(S) => \A ok : Leads(OrRefuse(ok, S))
  BY AcceptedLeads
<1>3. Leads(AssembleAccessPolicy(ctx, c)) /\ Leads(AssembleIAM(ctx, c))
  BY <1>1, PolicyResolves, IAMResolves DEF AssembleAccessPolicy, AssembleIAM
<1>4. Leads(AssembleMonitoring(ctx, c)) /\ Leads(AssembleDNS(c)) /\ Leads(AssembleEmail(ctx, c)) /\ Leads(AssemblePrefixList(ctx, c))
  BY <1>1, <1>2, MonitoringResolves, DNSResolves, EmailResolves, PrefixListResolves
  DEF AssembleMonitoring, AssembleDNS, AssembleEmail, AssemblePrefixList, Configured
<1>5. Leads(AssembleObjectStorage(ctx, c)) /\ Leads(AssembleStaticSite(ctx, c)) /\ Leads(AssembleRegistry(ctx, c))
  BY <1>1, ObjectStorageResolves, StaticSiteResolves, RegistryResolves
  DEF AssembleObjectStorage, AssembleStaticSite, AssembleRegistry
<1>6. Leads(AssembleSecrets(ctx, c)) /\ Leads(AssembleKMS(ctx, c))
  BY <1>1, SecretsResolves, KMSResolves, VaultAliasResolves DEF AssembleSecrets, AssembleKMS
<1>7. Leads(AssembleQueue(ctx, c)) /\ Leads(AssembleStream(ctx, c)) /\ Leads(AssembleServerless(ctx, c)) /\ Leads(AssembleWebService(ctx, c))
  BY <1>1, MessagingResolves, ServerlessResolves, WebServiceResolves
  DEF AssembleQueue, AssembleStream, AssembleServerless, AssembleWebService
<1>8. Leads(AssembleTrigger(ctx, c)) /\ Leads(AssembleCertificate(ctx, c)) /\ Leads(AssembleTracing(ctx, c))
  BY <1>1, TriggerResolves, CertificateResolves, TracingResolves DEF AssembleTrigger, AssembleCertificate, AssembleTracing
<1>9. Leads(AssembleVaultHA(ctx, c)) /\ Leads(AssemblePipeline(ctx, c))
  BY <1>1, VaultResolves, PipelineResolves DEF AssembleVaultHA, AssemblePipeline
<1> QED BY <1>3, <1>4, <1>5, <1>6, <1>7, <1>8, <1>9

\* Machines and scale groups.
LEMMA MachineLeads ==
  ASSUME Settled, HasNetworked, NEW c
  PROVE  /\ Leads(RenderVMHCL(ComponentContext, c))
         /\ c \in Elements => Leads(RenderScaleGroupHCL(ComponentContext, c))
<1> DEFINE ctx == ComponentContext
           Profile == When(ctx.provider = "aws", ProfileRef(ctx, c))
           Owner == When(ctx.provider = "digitalocean", {ProjectData(p) : p \in ctx.project})
<1>1. ctx.provider = env.provider /\ ctx.project = env.project
  BY Contexts
<1>2. \A a \in Supplied(ctx) : Fine(a)
  BY SuppliedDeclared DEF Fine
<1>3. \A a \in Profile : Fine(a)
  BY <1>1, ProfileFine DEF When
<1>4. ASSUME NEW a \in Owner PROVE Fine(a)
  <2>1. PICK p \in env.project : DO /\ a = ProjectData(p)
    BY <1>1, <1>4 DEF When, DO
  <2>2. CASE Exact
    <3>1. ProjectDocument \in Made
      BY DEF Made
    <3>2. ProjectDocument \subseteq All
      BY <3>1, DocumentsAre
    <3>3. Block(ProjectData(p), {}) \in All
      BY <2>1, <2>2, <3>2 DEF ProjectDocument, When
    <3> QED BY <2>1, <3>3 DEF Fine, Declared, Block
  <2>3. CASE ~Exact
    BY <2>1, <2>3 DEF Fine, Gaps, When
  <2> QED BY <2>2, <2>3
<1> HIDE DEF ctx, Profile, Owner
<1>5. Resolves(RenderVMHCL(ctx, c), Supplied(ctx) \cup Profile)
  BY MachineResolves DEF Profile
<1>6. Resolves(RenderScaleGroupHCL(ctx, c), Supplied(ctx) \cup Profile \cup Owner)
  BY ScaleGroupResolves DEF Profile, Owner
<1> QED BY <1>2, <1>3, <1>4, <1>5, <1>6, ResolvesLeads DEF ctx

\* The services in the network, and the gap of AWS's subnets.
LEMMA ServiceLeads ==
  ASSUME Settled, NEW c \in Elements
  PROVE  LET ctx == ComponentContext
         IN /\ c.type = "managed-database" => Leads(AssembleDatabase(ctx, c))
            /\ c.type = "cache" => Leads(AssembleCache(ctx, c))
            /\ c.type \in KubernetesTypes => Leads(AssembleKubernetes(ctx, c))
            /\ c.type \in {"key-value-store", "kv-store", "keyvalue-store", "dynamodb"} => Leads(AssembleKeyValue(ctx, c))
            /\ c.type = "attach-to-existing-alb" /\ Complete => Leads(AssembleAttach(ctx, c))
            /\ c.type = "load-balancer" /\ Complete => Leads(AssembleLoadBalancer(ctx, c))
<1> DEFINE ctx == ComponentContext
           Missing == When(ctx.provider = "aws", AWSSubnetResources(ctx))
<1>1. ctx.provider = env.provider
  BY Contexts
<1>2. \A S : Leads(S) => \A ok : Leads(OrRefuse(ok, S))
  BY AcceptedLeads
<1>3. c.type \in NetworkedTypes => \A a \in Supplied(ctx) : Fine(a)
  BY Networked, SuppliedDeclared DEF Fine
<1>4. ASSUME c.type = "cache" \/ c.type \in KubernetesTypes, NEW a \in Missing PROVE Fine(a)
  BY <1>1, <1>4 DEF Fine, Gaps, When
<1> HIDE DEF ctx, Missing
<1>5. CASE c.type = "managed-database"
  <2>1. Leads(RenderManagedDatabaseHCL(ctx, c))
    BY <1>3, <1>5, DatabaseResolves, ResolvesLeads DEF NetworkedTypes
  <2> QED BY <1>2, <1>5, <2>1 DEF AssembleDatabase, Configured, ctx, KubernetesTypes
<1>6. CASE c.type = "cache"
  <2>1. Resolves(RenderCacheHCL(ctx, Canonical(c)), Supplied(ctx) \cup Missing)
    BY CacheResolves DEF Missing
  <2>2. Leads(RenderCacheHCL(ctx, Canonical(c)))
    BY <1>3, <1>4, <1>6, <2>1, ResolvesLeads DEF NetworkedTypes
  <2> QED BY <1>2, <1>6, <2>2 DEF AssembleCache, ctx, KubernetesTypes
<1>7. CASE c.type \in KubernetesTypes
  <2>1. Resolves(RenderKubernetesHCL(ctx, Canonical(c)), Supplied(ctx) \cup Missing)
    BY KubernetesResolves DEF Missing
  <2>2. Leads(RenderKubernetesHCL(ctx, Canonical(c)))
    BY <1>3, <1>4, <1>7, <2>1, ResolvesLeads DEF NetworkedTypes
  <2> QED BY <1>2, <1>7, <2>2 DEF AssembleKubernetes, ctx, KubernetesTypes
<1>8. CASE c.type \in {"key-value-store", "kv-store", "keyvalue-store", "dynamodb"}
  <2>1. CASE TranslateKeyValueStore(ctx, c)
    <3>1. Leads(RenderKeyValueStoreHCL(ctx, c))
      BY <1>3, <1>8, <2>1, KeyValueResolves, ResolvesLeads DEF NetworkedTypes, TranslateKeyValueStore
    <3> QED BY <1>2, <1>8, <3>1 DEF AssembleKeyValue, ctx, KubernetesTypes
  <2>2. CASE ~TranslateKeyValueStore(ctx, c)
    BY <1>2, <1>8, <2>2, RefusedResolves, ResolvesLeads DEF AssembleKeyValue, OrRefuse, ctx, KubernetesTypes
  <2> QED BY <2>1, <2>2
<1>9. CASE c.type = "attach-to-existing-alb"
  <2>1. CASE TranslateAttachToExistingALB(ctx, c) /\ Complete
    <3>1. Resolves(RenderAttachToExistingALBHCL(ctx, c), Supplied(ctx) \cup ScaleGroupOf(ctx.provider, c.target))
      BY <2>1, AttachResolves DEF TranslateAttachToExistingALB
    <3>2. \A a \in ScaleGroupOf(ctx.provider, c.target) : Fine(a)
      BY <1>1, <1>9, <2>1, AttachedFine DEF TranslateAttachToExistingALB
    <3>3. Leads(RenderAttachToExistingALBHCL(ctx, c))
      BY <1>3, <1>9, <3>1, <3>2, ResolvesLeads DEF NetworkedTypes
    <3> QED BY <1>2, <1>9, <3>3 DEF AssembleAttach, Configured, ctx, KubernetesTypes
  <2>2. CASE ~TranslateAttachToExistingALB(ctx, c)
    BY <1>2, <1>9, <2>2, RefusedResolves, ResolvesLeads DEF AssembleAttach, Configured, OrRefuse, ctx, KubernetesTypes
  <2> QED BY <1>9, <2>1, <2>2 DEF ctx, KubernetesTypes
<1>10. CASE c.type = "load-balancer"
  <2> DEFINE lb == Balancing(c)
  <2>1. AssembleLoadBalancer(ctx, c) = OrRefuse(TranslateLoadBalancer(ctx, lb), RenderLoadBalancerHCL(ctx, lb))
    BY DEF AssembleLoadBalancer, Balancing
  <2>2. Complete => \A a \in Fronted(ctx, lb) : Fine(a)
    BY <1>10, FrontedFine DEF ctx
  <2> HIDE DEF lb
  <2>3. CASE TranslateLoadBalancer(ctx, lb) /\ Complete
    <3>1. Resolves(RenderLoadBalancerHCL(ctx, lb), Supplied(ctx) \cup Fronted(ctx, lb))
      BY <2>3, BalancerResolves DEF TranslateLoadBalancer
    <3>2. Leads(RenderLoadBalancerHCL(ctx, lb))
      BY <1>3, <1>10, <2>2, <2>3, <3>1, ResolvesLeads DEF NetworkedTypes
    <3> QED BY <1>2, <1>10, <2>1, <3>2 DEF ctx, KubernetesTypes
  <2>4. CASE ~TranslateLoadBalancer(ctx, lb)
    BY <1>2, <1>10, <2>1, <2>4, RefusedResolves, ResolvesLeads DEF OrRefuse, ctx, KubernetesTypes
  <2> QED BY <1>10, <2>3, <2>4 DEF ctx, KubernetesTypes
<1> QED BY <1>5, <1>6, <1>7, <1>8, <1>9, <1>10 DEF ctx

\* The components whose references point at others, or into a gap.
LEMMA PointedLeads ==
  ASSUME Settled, Complete, NEW c \in Elements
  PROVE  LET ctx == ComponentContext
         IN /\ c.type \in CDNTypes => Leads(AssembleCDN(ctx, c))
            /\ c.type \in WAFTypes => Leads(AssembleWAF(ctx, c))
            /\ c.type \in VolumeTypes => Leads(AssembleVolume(ctx, c))
            /\ c.type \in ReservedIPTypes => Leads(AssembleReservedIP(ctx, c))
            /\ c.type \in VPNTypes => Leads(AssembleVPNAccess(ctx, c))
            /\ c.type \in SyntheticsTypes => Leads(AssembleSynthetics(ctx, c))
            /\ c.type \in IdentityTypes => Leads(AssembleIdentity(ctx, c))
<1> DEFINE ctx == ComponentContext
           e   == CanonicalEdge(c)
<1>1. ctx.provider = env.provider
  BY Contexts
<1>2. \A S : Leads(S) => \A ok : Leads(OrRefuse(ok, S))
  BY AcceptedLeads
<1>3. /\ c.target = NoTarget => e.target = NoTarget
      /\ c.target # NoTarget => e.target = CanonicalName(c.target)
      /\ Has(e, "bucket_origin") <=> Has(c, "bucket_origin")
  BY CanonicalEdgeIs
<1> HIDE DEF ctx, e
<1>4. ASSUME c.type \in CDNTypes PROVE Leads(AssembleCDN(ctx, c))
  <2>1. \A a \in Origin(ctx, e) : Fine(a)
    BY <1>1, <1>3, <1>4, EdgeFine DEF Origin, When
  <2>2. Leads(RenderCDNHCL(ctx, e))
    BY <2>1, CDNResolves, ResolvesLeads
  <2> QED BY <1>2, <2>2 DEF AssembleCDN, Configured, e
<1>5. ASSUME c.type \in WAFTypes PROVE Leads(AssembleWAF(ctx, c))
  <2> DEFINE X == When(e.target # NoTarget, BalancerOf(ctx.provider, TfName(e.target)))
  <2>0. c.type \notin CDNTypes
    BY <1>5 DEF CDNTypes, WAFTypes
  <2>1. \A a \in X : Fine(a)
    BY <1>1, <1>3, <1>5, <2>0, EdgeFine DEF When
  <2>2. Resolves(RenderWAFHCL(ctx, e), X)
    BY WAFResolves
  <2> HIDE DEF X
  <2>3. Leads(RenderWAFHCL(ctx, e))
    BY <2>1, <2>2, ResolvesLeads
  <2> QED BY <1>2, <2>3 DEF AssembleWAF, e
<1>6. ASSUME c.type \in VolumeTypes PROVE Leads(AssembleVolume(ctx, c))
  <2>1. CASE c.target # NoTarget
    <3>1. Leads(RenderVMVolumeHCL(ctx, c))
      BY <1>1, <1>6, <2>1, VolumeFine, VolumeResolves, ResolvesLeads
    <3> QED BY <1>2, <3>1 DEF AssembleVolume, Configured
  <2>2. CASE c.target = NoTarget
    <3>1. ~TranslateVMVolume(ctx, c)
      BY <2>2 DEF TranslateVMVolume
    <3> QED BY <1>2, <3>1, RefusedResolves, ResolvesLeads DEF AssembleVolume, Configured, OrRefuse
  <2> QED BY <2>1, <2>2
<1>7. ASSUME c.type \in ReservedIPTypes PROVE Leads(AssembleReservedIP(ctx, c))
  <2>1. \A a \in {<<"aws", "instance", TfName(c.target)>>, <<"digitalocean", "droplet", TfName(c.target)>>} : a \in Gaps
    BY <1>7 DEF Gaps
  <2> QED BY <2>1, ReservedIPResolves, ResolvesLeads DEF Fine, AssembleReservedIP
<1>8. ASSUME c.type \in VPNTypes PROVE Leads(AssembleVPNAccess(ctx, c))
  <2>1. VPC \in Gaps /\ <<"aws", "vpc", TfName(c.target)>> \in Gaps
    BY <1>8 DEF Gaps, When
  <2>2. Leads(RenderVPNAccessHCL(ctx, c))
    BY <2>1, VPNAccessResolves, ResolvesLeads DEF Fine
  <2> QED BY <1>2, <2>2 DEF AssembleVPNAccess
<1>9. ASSUME c.type \in SyntheticsTypes PROVE Leads(AssembleSynthetics(ctx, c))
  <2>1. <<"type", TfName(c.name) \o "_artifact_bucket">> \in Gaps
    BY <1>9 DEF Gaps
  <2>2. Leads(RenderSyntheticsHCL(ctx, c))
    BY <2>1, SyntheticsResolves, ResolvesLeads DEF Fine
  <2> QED BY <1>2, <2>2 DEF AssembleSynthetics
<1>10. ASSUME c.type \in IdentityTypes PROVE Leads(AssembleIdentity(ctx, c))
  <2>1. Helm("vault_operator") \in Gaps
    BY <1>10 DEF Gaps, When
  <2>2. Leads(RenderWorkloadIdentityHCL(ctx, c))
    BY <2>1, IdentityResolves, ResolvesLeads DEF Fine
  <2> QED BY <1>2, <2>2 DEF AssembleIdentity
<1> QED BY <1>4, <1>5, <1>6, <1>7, <1>8, <1>9, <1>10 DEF ctx

\* The document of any component leads somewhere.
LEMMA RenderedLeads ==
  ASSUME Settled, Complete, NEW c \in Elements
  PROVE  Leads(RenderComponent(ComponentContext, c))
<1> DEFINE ctx == ComponentContext
<1>1. c.type = "virtual-machine" => Leads(AssembleVM(ctx, c))
  BY Networked, MachineLeads, AcceptedLeads DEF AssembleVM, Configured, MachineTypes
<1>2. c.type = "virtual-machine-scale-group" => Leads(AssembleScaleGroup(ctx, c))
  BY Networked, MachineLeads, AcceptedLeads DEF AssembleScaleGroup, Configured, MachineTypes
<1>3. Leads(Refusal)
  BY RefusedResolves, ResolvesLeads
<1> HIDE DEF ctx
<1>4. /\ c.type = "managed-database" => Leads(AssembleDatabase(ctx, c))
      /\ c.type = "cache" => Leads(AssembleCache(ctx, c))
      /\ c.type \in KubernetesTypes => Leads(AssembleKubernetes(ctx, c))
      /\ c.type \in {"key-value-store", "kv-store", "keyvalue-store", "dynamodb"} => Leads(AssembleKeyValue(ctx, c))
      /\ c.type = "attach-to-existing-alb" => Leads(AssembleAttach(ctx, c))
      /\ c.type = "load-balancer" => Leads(AssembleLoadBalancer(ctx, c))
  BY ServiceLeads DEF ctx
<1>5. /\ c.type \in CDNTypes => Leads(AssembleCDN(ctx, c))
      /\ c.type \in WAFTypes => Leads(AssembleWAF(ctx, c))
      /\ c.type \in VolumeTypes => Leads(AssembleVolume(ctx, c))
      /\ c.type \in ReservedIPTypes => Leads(AssembleReservedIP(ctx, c))
      /\ c.type \in VPNTypes => Leads(AssembleVPNAccess(ctx, c))
      /\ c.type \in SyntheticsTypes => Leads(AssembleSynthetics(ctx, c))
      /\ c.type \in IdentityTypes => Leads(AssembleIdentity(ctx, c))
  BY PointedLeads DEF ctx
<1> QED BY <1>1, <1>2, <1>3, <1>4, <1>5, ClosedLeads DEF RenderComponent, ctx

\* Whatever a component becomes, its references lead somewhere.
LEMMA ComponentLeads ==
  ASSUME Settled, Complete, NEW c \in Elements
  PROVE  Leads(ComponentDocument(c))
<1>1. CASE Hosted(c)
  <2>1. ComponentDocument(c) = {}
    BY <1>1, OwnDocumentOf
  <2> QED BY <2>1 DEF Leads
<1>2. CASE ~Hosted(c) /\ SelfHosted(env.provider, c)
  <2> DEFINE vm == [c EXCEPT !.parts = [instances |-> {"-1"}]]
  <2>1. ComponentDocument(c) = OrRefuse(ComponentContext.offered, RenderVMHCL(ComponentContext, vm))
    BY <1>2, OwnDocumentOf DEF mitigateComponent
  <2> HIDE DEF vm
  <2>2. Leads(RenderVMHCL(ComponentContext, vm))
    BY <1>2, Networked, MachineLeads
  <2> QED BY <2>1, <2>2, AcceptedLeads
<1>3. CASE ~Hosted(c) /\ ~SelfHosted(env.provider, c)
  BY <1>3, OwnDocumentOf, RenderedLeads
<1> QED BY <1>1, <1>2, <1>3

\* So do those of the project, the network, the group and the Vault droplets.
LEMMA EveryDocumentLeads ==
  ASSUME Settled, Complete, NEW d \in Made
  PROVE  Leads(d)
<1>1. Leads(ProjectDocument)
  BY Refs DEF ProjectDocument, When, Leads
<1>2. Leads(NetworkDocument)
  <2>1. Leads({})
    BY DEF Leads
  <2>2. Leads(RenderHCL(NoContext, Network))
    BY NetworkResolves, ResolvesLeads
  <2> QED BY <2>1, <2>2, AcceptedLeads DEF NetworkDocument
<1>3. NeedsGroup => Leads(GroupDocument)
  BY GroupLeads
<1>4. \A x \in ComponentsMade : Leads(x)
  <2>1. \A i \in 1..index - 1 : components[i] \in Elements
    BY EnvironmentsAssumption DEF Settled, Ind, IInv, Elements, ToSet
  <2> QED BY <2>1, ComponentLeads DEF ComponentsMade
<1>5. Leads(VaultDocument)
  <2>1. CASE VaultDocument = {} \/ VaultDocument = Refusal
    BY <2>1, RefusedResolves, ResolvesLeads
  <2>2. CASE \E v \in env.vault : DO /\ normalized(v) /\ VaultDocument = RenderVaultDropletCluster(v, NetName)
    <3>1. PICK v \in env.vault : DO /\ normalized(v) /\ VaultDocument = RenderVaultDropletCluster(v, NetName)
      BY <2>2
    <3>2. VaultDocument \subseteq All
      <4>1. VaultDocument \in Made
        BY DocumentsAre
      <4> QED BY <4>1, DocumentsAre
    <3>3. Fine(<<"digitalocean", "vpc", NetName>>) /\ Fine(<<"var", "do_ssh_keys">>)
      <4>1. <<"digitalocean", "vpc", NetName>> \in Gaps
        BY <3>1 DEF Gaps, When
      <4>2. Input(<<"var", "do_ssh_keys">>)
        BY Refs
      <4> QED BY <4>1, <4>2 DEF Fine
    <3>4. \A a \in Declared(VaultDocument) : Fine(a)
      BY <3>2 DEF Fine, Declared
    <3>5. \A b \in VaultDocument : b.refs \subseteq {<<"digitalocean", "vpc", NetName>>, <<"var", "do_ssh_keys">>}
                                                  \cup Declared(VaultDocument)
      BY <3>1, VaultRefs
    <3> QED BY <3>3, <3>4, <3>5 DEF Leads
  <2> QED BY <2>1, <2>2, VaultOne DEF Settled, Ind
<1> QED BY <1>1, <1>2, <1>3, <1>4, <1>5, DocumentsAre DEF When

\* Nothing dangles: when whatever a component points at is there, a reference
\* of any document, whoever rendered it, names an input or a block that some
\* document declares, but for the gaps listed and the groups of an author.
THEOREM EveryReferenceResolves == EitherSpec => []ReferencesResolve
<1> DEFINE Inv == Ind /\ BaselineDocs /\ Contents /\ GroupInv
<1>1. ASSUME Inv, Done, Complete, NEW a \in Referred(All) \ Declared(All)
      PROVE  a[1] = "var" \/ a \in Gaps \/ Foreign(a)
  <2>1. PICK b \in All : a \in b.refs
    BY DEF Referred
  <2>2. CASE IsBaseline
    <3>1. Runnable /\ All = UNION BaselineParts
      BY <1>1, <2>2, PartsOfModule DEF BaselineDocs, Done, All
    <3> QED BY <3>1, BaselineClosed
  <2>3. CASE ~IsBaseline
    <3>1. Settled
      BY <1>1, <2>3 DEF Settled
    <3>2. PICK d \in Made : b \in d
      BY <2>1, <3>1, DocumentsAre
    <3>3. Leads(d) /\ d \subseteq All
      BY <1>1, <3>1, EveryDocumentLeads, DocumentsAre
    <3>4. Fine(a)
      BY <2>1, <3>2, <3>3, LeadsFine
    <3> QED BY <3>4 DEF Fine, Input
  <2> QED BY <2>2, <2>3
<1>2. Inv => ReferencesResolve
  BY <1>1 DEF ReferencesResolve
<1>3. EitherInit => Inv
  BY IndInit, DocsInit, EmptyList DEF EitherInit, Init, Contents, GroupInv
<1>4. Inv /\ [EitherNext]_vars => Inv'
  BY IndNext, DocsNext, ContentsStep, GroupNext
<1> QED BY <1>2, <1>3, <1>4, PTL DEF EitherSpec
===========================================================================
