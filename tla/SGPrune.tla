------------------------------ MODULE SGPrune -------------------------------
(***************************************************************************)
(* Security-group rules under a nested apply of pyxcloud_environment       *)
(* (internal/provider/tfrunner.go).  The nested state may be empty on a    *)
(* new runner, so an apply adopts the groups and rules that exist already, *)
(* applies, and then revokes the rules the documents do not declare.  All  *)
(* along an operator may open doors by hand and the Keycloak SPI adds and  *)
(* removes the rules of the JIT group.                                     *)
(*                                                                         *)
(* A rule is <<group, source>>: direction, protocol and ports are part of  *)
(* the key the code compares and distinguish rules exactly as sources do.  *)
(***************************************************************************)
EXTENDS FiniteSets

CONSTANTS Groups,       \* security groups, by name
          Jit,          \* the group whose rules the SPI manages
          Cidrs,        \* sources that are literals: CIDRs and external groups
          Prefix,       \* a source that is a managed prefix list
          Configs,      \* what the documents may declare
          Doors,        \* the rules an operator may open by hand
          LookupsMayFail \* may the look-up of a group's id fail?

Sources == Groups \cup Cidrs \cup {Prefix}
Rules == Groups \X Sources
Decl == [groups : SUBSET Groups, rules : SUBSET Rules]

\* The rules of a document are about groups of the document, and none is about
\* the JIT group (render_vpnaccess.go renders its rules inside the group).
ASSUME ConfigsAssumption ==
  /\ Configs \subseteq Decl
  /\ \A c \in Configs : \A r \in c.rules :
        r[1] \in c.groups \ {Jit} /\ r[2] \in c.groups \cup Cidrs \cup {Prefix}
ASSUME SourcesAssumption == Groups \cap Cidrs = {} /\ Prefix \notin Groups \cup Cidrs
ASSUME DoorsAssumption == Doors \subseteq (Groups \ {Jit}) \X Cidrs
ASSUME LookupsAssumption == LookupsMayFail \in BOOLEAN

VARIABLES
  exists,   \* the groups that exist
  live,     \* the rules that exist
  state,    \* the nested terraform state: groups and rules
  docs,     \* the documents of this apply
  pc,       \* the step of the runner
  ids,      \* prune: the groups whose id was found
  todo,     \* prune: the groups not yet looked at
  orphans,  \* prune: the rules about to be revoked
  opened,   \* the rules opened by hand since this apply began
  faulty    \* may the imports and AWS calls of this apply fail?

vars == <<exists, live, state, docs, pc, ids, todo, orphans, opened, faulty>>

Nothing == [groups |-> {}, rules |-> {}]

Init ==
  /\ exists = {} /\ live = {} /\ state = Nothing /\ docs = Nothing
  /\ pc = "idle" /\ ids = {} /\ todo = {} /\ orphans = {} /\ opened = {}
  /\ faulty = FALSE
-----------------------------------------------------------------------------
\* What a series of imports gets done of `all`, and which ids of the groups in
\* `all` a series of look-ups finds: each may fail by itself and is skipped.
Imports(all) == IF faulty THEN SUBSET all ELSE {all}
LookUps(all) == IF faulty /\ LookupsMayFail THEN SUBSET all ELSE {all}

\* mutant: only literal sources are parsed
ParsedLiterals(found) == {r \in docs.rules : r[1] \in found /\ r[2] \in Cidrs}

\* parseSGRules with the ids at hand: a source group without an id is dropped, a
\* prefix list is never a source.
Parsed(found) == {r \in docs.rules : r[1] \in found /\ r[2] \in Cidrs \cup found}

DesiredSGRuleKeys(g) == {r[2] : r \in {p \in Parsed(ids) : p[1] = g}}

\* describeSGRules and rulesToRevoke; a failed describe finds nothing.
RulesToRevoke(g) ==
  {r \in live : r[1] = g /\ r[2] # Prefix /\ r[2] \notin DesiredSGRuleKeys(g)}
-----------------------------------------------------------------------------
Start ==
  /\ pc = "idle"
  /\ \E c \in Configs : docs' = c
  /\ pc' = "adopt"
  /\ opened' = {}
  /\ faulty' \in BOOLEAN
  /\ UNCHANGED <<exists, live, state, ids, todo, orphans>>

\* The next apply is on another machine and the nested state was local.
NewRunner ==
  /\ pc = "idle" /\ state # Nothing
  /\ state' = Nothing
  /\ UNCHANGED <<exists, live, docs, pc, ids, todo, orphans, opened, faulty>>

\* adoptExistingAWSResources: each lookup and each import may fail by itself.
Adopt ==
  /\ pc = "adopt"
  /\ \E found \in LookUps(docs.groups \cap exists) :
       \E g \in Imports(found), r \in Imports(Parsed(found) \cap live) :
         state' = [groups |-> state.groups \cup g, rules |-> state.rules \cup r]
  /\ pc' = "apply"
  /\ UNCHANGED <<exists, live, docs, ids, todo, orphans, opened, faulty>>

\* What terraform would create although it exists; AWS refuses a duplicate.
Colliding == ((docs.groups \cap exists) \ state.groups) \cup ((docs.rules \cap live) \ state.rules)

Dropped == state.groups \ docs.groups
InUse == \E r \in live : r[2] \in Dropped /\ r[1] \notin Dropped /\ r \notin state.rules

\* terraform apply, all of it; a group that is still referred to cannot go.
TfApply ==
  /\ pc = "apply"
  /\ Colliding = {} /\ ~InUse
  /\ exists' = (exists \ Dropped) \cup docs.groups
  /\ live' = {r \in live \ state.rules : r[1] \notin Dropped} \cup docs.rules
  /\ state' = docs
  /\ pc' = "prune"
  /\ UNCHANGED <<docs, ids, todo, orphans, opened, faulty>>

\* terraform apply stops half-way: the runner returns at once and does not prune.
TfApplyFails ==
  /\ pc = "apply"
  /\ \E g \in SUBSET (docs.groups \ exists), gone \in SUBSET (state.rules \ docs.rules),
        made \in SUBSET (docs.rules \ live) :
       /\ \A r \in made : {r[1], r[2]} \cap docs.groups \subseteq exists \cup g
       /\ exists' = exists \cup g
       /\ live' = (live \ gone) \cup made
       /\ state' = [groups |-> state.groups \cup g, rules |-> (state.rules \ gone) \cup made]
  /\ pc' = "idle"
  /\ UNCHANGED <<docs, ids, todo, orphans, opened, faulty>>

\* pruneOrphanedSGRules: the group ids are looked up again.
Prune ==
  /\ pc = "prune"
  /\ \E found \in LookUps(docs.groups \cap exists) : ids' = found /\ todo' = found
  /\ pc' = "revoke"
  /\ UNCHANGED <<exists, live, state, docs, orphans, opened, faulty>>

DescribeBlind(g) ==   \* mutant: no guard against an empty desired set
  /\ pc = "revoke" /\ orphans = {} /\ g \in todo
  /\ orphans' = RulesToRevoke(g)
  /\ todo' = todo \ {g}
  /\ UNCHANGED <<exists, live, state, docs, pc, ids, opened, faulty>>

Describe(g) ==
  /\ pc = "revoke" /\ orphans = {} /\ g \in todo
  /\ IF DesiredSGRuleKeys(g) = {} THEN orphans' = {}
     ELSE orphans' = RulesToRevoke(g) \/ (faulty /\ orphans' = {})
  /\ todo' = todo \ {g}
  /\ UNCHANGED <<exists, live, state, docs, pc, ids, opened, faulty>>

RevokeFirst(r) ==     \* mutant: the loop ends after one revocation
  /\ r \in orphans
  /\ live' = live \ {r}
  /\ orphans' = {}
  /\ UNCHANGED <<exists, state, docs, pc, ids, todo, opened, faulty>>

\* awsRevokeSGRule; an error is logged and skipped.
Revoke(r) ==
  /\ r \in orphans
  /\ live' = live \ {r} \/ (faulty /\ UNCHANGED live)
  /\ orphans' = orphans \ {r}
  /\ UNCHANGED <<exists, state, docs, pc, ids, todo, opened, faulty>>

DoneEarly ==          \* mutant: returns at a group, where it should continue
  /\ pc = "revoke" /\ orphans = {}
  /\ pc' = "idle" /\ ids' = {}
  /\ UNCHANGED <<exists, live, state, docs, todo, orphans, opened, faulty>>

Done ==
  /\ pc = "revoke" /\ todo = {} /\ orphans = {}
  /\ pc' = "idle" /\ ids' = {}
  /\ UNCHANGED <<exists, live, state, docs, todo, orphans, opened, faulty>>
-----------------------------------------------------------------------------
OpenDoor(r) ==
  /\ r \notin live /\ r[1] \in exists
  /\ live' = live \cup {r}
  /\ opened' = opened \cup {r}
  /\ UNCHANGED <<exists, state, docs, pc, ids, todo, orphans, faulty>>

\* The SPI admits an address, or its session ends.
Spi(c) ==
  /\ Jit \in exists
  /\ live' = IF <<Jit, c>> \in live THEN live \ {<<Jit, c>>} ELSE live \cup {<<Jit, c>>}
  /\ UNCHANGED <<exists, state, docs, pc, ids, todo, orphans, opened, faulty>>

Runner ==
  \/ Start \/ NewRunner \/ Adopt \/ TfApply \/ TfApplyFails \/ Prune \/ Done
  \/ \E g \in Groups : Describe(g)
  \/ \E r \in Rules : Revoke(r)

Next == Runner \/ (\E r \in Doors : OpenDoor(r)) \/ (\E c \in Cidrs : Spi(c))

Spec == Init /\ [][Next]_vars
-----------------------------------------------------------------------------
TypeOK ==
  /\ exists \subseteq Groups /\ live \subseteq Rules
  /\ state \in Decl /\ docs \in Decl
  /\ pc \in {"idle", "adopt", "apply", "prune", "revoke"}
  /\ ids \subseteq Groups /\ todo \subseteq ids
  /\ orphans \subseteq Rules /\ opened \subseteq Doors
  /\ faulty \in BOOLEAN

\* While it prunes, the runner never revokes a rule the documents declare - also
\* when other calls fail, doors are opened and earlier applies stopped half-way.
DeclaredStays ==
  [][pc = "revoke" => docs.rules \cap live \subseteq live']_vars

\* No apply takes an address away that the SPI admitted: only the SPI does.
JitRulesStay ==
  [][Runner /\ Jit \in exists' => \A c \in Cidrs : <<Jit, c>> \in live => <<Jit, c>> \in live']_vars

\* When an apply without faults ends, a group with a declared rule has its declared
\* rules, those of prefix lists and those opened by hand meanwhile: every earlier
\* door is shut, those included that an earlier apply failed to shut.
DoorsShut ==
  [][Done /\ ~faulty => \A g \in docs.groups :
       DesiredSGRuleKeys(g) # {} =>
         \A r \in live : r[1] = g => r \in docs.rules \cup opened \/ r[2] = Prefix]_vars

\* Adoption without faults finds all that exists and is declared, prefix lists
\* apart, so that a new runner's apply meets no duplicate, whatever earlier applies
\* left behind.
AdoptionIsComplete ==
  pc = "apply" /\ ~faulty =>
    \A x \in Colliding : x \in Rules => x[2] = Prefix \/ x \in opened
-----------------------------------------------------------------------------
(* Why they hold.                                                            *)

\* The documents never speak of the JIT group's rules, so neither does the nested
\* state, and a live rule is one between groups that exist.
DocsInv ==
  /\ docs \in Configs \cup {Nothing}
  /\ \A r \in state.rules : r[1] # Jit
  /\ \A r \in live : r[1] \in exists /\ (r[2] \in Groups => r[2] \in exists)

\* What an adoption without faults left to create does not exist yet.
AdoptInv ==
  pc = "apply" /\ ~faulty =>
    /\ docs.groups \cap exists \subseteq state.groups
    /\ \A r \in docs.rules \cap live : r \in state.rules \cup opened \/ r[2] = Prefix

\* The prune knows all declared groups unless look-ups fail.
LookupInv ==
  /\ pc \in {"prune", "revoke"} => docs.groups \subseteq exists
  /\ pc = "revoke" /\ ~(faulty /\ LookupsMayFail) => ids = docs.groups

\* What is about to be revoked, and what has been looked at already.
PruneInv ==
  /\ orphans # {} => pc = "revoke"
  /\ \A r \in orphans : r[1] # Jit
  /\ ~(faulty /\ LookupsMayFail) => orphans \cap docs.rules = {}
  /\ pc = "revoke" /\ ~faulty => \A g \in docs.groups \ todo :
       DesiredSGRuleKeys(g) # {} => \A r \in live : r[1] = g =>
         r \in docs.rules \cup opened \cup orphans \/ r[2] = Prefix

IInv == TypeOK /\ DocsInv /\ AdoptInv /\ LookupInv /\ PruneInv
=============================================================================
