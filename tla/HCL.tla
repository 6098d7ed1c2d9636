-------------------------------- MODULE HCL --------------------------------
(***************************************************************************)
(* The Terraform documents that internal/catalog renders, reduced to what  *)
(* decides whether Terraform can plan them: the address of every block,    *)
(* the addresses it refers to, the tags its machines carry and the tags    *)
(* it selects machines by.  Attribute values and layout are left out.      *)
(*                                                                         *)
(* An address is the tuple of its parts: <<"aws", "instance", "web-1">>    *)
(* for aws_instance.web-1 (the part before the first underscore names the  *)
(* Terraform provider), <<"data", "aws", "vpc", "default">> for a data     *)
(* source and <<"var", "db_password">> for an input variable.              *)
(*                                                                         *)
(* A component of an environment is a record [type, name, opts, parts,     *)
(* target]: opts is the set of its optional settings that are on, parts    *)
(* maps a kind of nested element (policies, rules, ...) to the set of      *)
(* their names, and target names the component it points at.               *)
(***************************************************************************)
EXTENDS Naturals, Sequences, FiniteSets

CONSTANTS
  Folded,     \* the names that change when lower-cased, and what they become
  Dashed,     \* the lower-case names with an underscore, and their dashed form
  Services    \* the service a "pyx-" tag names, for the tags that are not the service itself

Lookup(f, n) == IF n \in DOMAIN f THEN f[n] ELSE n

\* tfName: the identifier a name becomes in a Terraform address.
TfName(n) == Lookup(Folded, n)

\* canonicalName: the identifier of a macro component, which also loses its
\* underscores; an empty result, which falls back to a default, is left out.
CanonicalName(n) == Lookup(Dashed, TfName(n))

\* The service of a droplet tag: the tag without its "pyx-".
ServiceOf(tag) == Lookup(Services, tag)

Block(addr, refs) == [addr |-> addr, refs |-> refs, tags |-> {}, selects |-> {}]
Tagged(b, tags)   == [b EXCEPT !.tags = tags]
Selecting(b, ts)  == [b EXCEPT !.selects = ts]
Variable(n)       == Block(<<"var", n>>, {})

When(cond, S) == IF cond THEN S ELSE {}

\* A component whose translation or rendering returns an error.
Refusal        == {Block(<<"refused">>, {})}
OrRefuse(ok, S) == IF ok THEN S ELSE Refusal

Component(type, name, opts, parts, target) ==
  [type |-> type, name |-> name, opts |-> opts, parts |-> parts, target |-> target]

Has(c, opt)    == opt \in c.opts

\* The checks a translation makes of numbers and enumerations of its own
\* component are one option: "invalid" is on when one of them fails.
Valid(c)       == "invalid" \notin c.opts
Parts(c, kind) == IF kind \in DOMAIN c.parts THEN c.parts[kind] ELSE {}
NoTarget       == "none"

\* The canonical form of a component: its own name, and the one it points at.
Canonical(c) == Component(c.type, CanonicalName(c.name), c.opts, c.parts, c.target)
CanonicalEdge(c) ==
  Component(c.type, CanonicalName(c.name), c.opts, c.parts,
            IF c.target = NoTarget THEN NoTarget ELSE CanonicalName(c.target))

\* The component with other nested elements of one kind.
Giving(c, kind, S) ==
  [c EXCEPT !.parts = [k \in DOMAIN c.parts \cup {kind} |-> IF k = kind THEN S ELSE c.parts[k]]]

\* The name of the Terraform provider an address needs; variables and
\* outputs need none.
ProviderLocal(addr) ==
  CASE addr[1] = "data" -> {addr[2]}
    [] addr[1] \in {"var", "local", "output", "terraform"} -> {}
    [] OTHER -> {addr[1]}

Declared(blocks) == {b.addr : b \in blocks}
Referred(blocks) == UNION {b.refs : b \in blocks}

-----------------------------------------------------------------------------
(* What every renderer is handed about the environment: its provider, the  *)
(* network and security group already declared ("" when there is none) and *)
(* the instance profiles the environment itself manages.                   *)

NetworkName(ctx) == ctx.network
HasNetwork(ctx)  == ctx.network # ""
HasGroup(ctx)    == ctx.group # ""
Subnets          == {"_1", "_2"}    \* two subnets, as AssembleHCL defaults them

\* subnetResourceLabel: <net>-subnet-<i> is rendered as the label <net>_<i>.
SubnetLabel(net, i) == TfName(net) \o i

\* The references of a component to the environment's network and group.
NetRef(ctx, kind) == When(HasNetwork(ctx), {kind \o <<TfName(ctx.network)>>})
AWSGroup(ctx)     == When(HasGroup(ctx), {<<"aws", "security_group", TfName(ctx.group)>>})

\* The network document declares subnets on AWS as data sources only, while
\* the cache and EKS renderers refer to resources of the same label.
AWSSubnetData(ctx)      == {<<"data", "aws", "subnet", SubnetLabel(ctx.network, i)>> : i \in Subnets}
AWSSubnetResources(ctx) == When(HasNetwork(ctx), {<<"aws", "subnet", SubnetLabel(ctx.network, i)>> : i \in Subnets})

One(addr, refs) == {Block(addr, refs)}
=============================================================================
