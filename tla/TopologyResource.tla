-------------------------- MODULE TopologyResource --------------------------
(***************************************************************************)
(* One pyxcloud_topology resource, its record at the backend and the guard *)
(* of its managed database (internal/provider/resource_topology.go,        *)
(* internal/catalog/manageddatabase.go, internal/client/http_client.go).   *)
(*                                                                         *)
(* Terraform refreshes (Read), plans (ModifyPlan) and applies (Create or   *)
(* Update).  Other clients edit the record at any time, also between the   *)
(* refresh and the request; the answer to a request can be lost; a new     *)
(* release of the provider has another catalog.                            *)
(*                                                                         *)
(* A request carries the name, the place and the components of a topology  *)
(* and nothing of its managed_database block: the block and the plan it is *)
(* translated to are in Terraform's state alone.  The guard compares two   *)
(* such plans.  What it is to compare with is the plan of the last apply,  *)
(* which the history variable "applied" keeps.                             *)
(***************************************************************************)
EXTENDS Naturals, FiniteSets

CONSTANTS Names,
          Places,       \* pairs of a provider and a macro-region
          Engines, Sizes, Families,
          Types,        \* canonical component types
          Alias,        \* other type names the backend uses, with the canonical type
          Others,       \* component types of the backend the provider does not know
          Configs,      \* what the user may configure
          Catalogs,     \* the catalogs of successive releases
          Renames,      \* names another client may give the topology
          Moves,        \* places another client may give it
          LostAnswers,  \* may the answer to a request be lost?
          MaxRecords,   \* bound: topologies ever created at the backend
          None

\* A managed_database block; without a name the topology's is used.
Block == [enc : BOOLEAN, engine : Engines, size : Sizes, name : Names \cup {None}]
Config == [name : Names, place : Places, comps : SUBSET Types, db : Block \cup {None}]
\* managed_database_plan, the attributes the guard compares.
DbPlan == [enc : BOOLEAN, engine : Engines, name : Names, family : Families]
\* The class family per place and size; None: no such class.
Catalog == [Places \X Sizes -> Families \cup {None}]

Known == Types \cup DOMAIN Alias
TypeNames == Known \cup Others
Ids == 1 .. MaxRecords
Record == [name : Names, place : Places, comps : SUBSET TypeNames]
State == [id : Ids, conf : Config, plan : DbPlan \cup {None}]

ASSUME ConfigsAssumption == Configs \subseteq Config
ASSUME CatalogsAssumption == Catalogs \subseteq Catalog /\ Catalogs # {}
ASSUME AliasAssumption ==
  /\ \A a \in DOMAIN Alias : a \notin Types /\ Alias[a] \in Types
  /\ Others \cap Known = {}
ASSUME NoneAssumption ==
  None \notin Names \cup Families \cup Block \cup Config \cup DbPlan \cup Record \cup State
ASSUME BoundAssumption ==
  MaxRecords \in Nat /\ Renames \subseteq Names /\ Moves \subseteq Places /\ LostAnswers \in BOOLEAN

VARIABLES
  server,   \* the backend's records, by id
  created,  \* how many there ever were
  tf,       \* the resource in Terraform's state, or None
  cat,      \* the catalog of the provider in use
  pc,       \* what Terraform does
  want,     \* the configuration planned for
  lost,     \* history: was the answer to an accepted request ever lost?
  applied,  \* history: the database plan the last answered apply recorded
  touched,  \* history: what changed since, but not by an answered apply
  late      \* history: components others added since the refresh

history == <<lost, applied, touched, late>>
vars == <<server, created, tf, cat, pc, want, history>>

Init ==
  /\ server = [i \in Ids |-> None] /\ created = 0
  /\ tf = None /\ cat \in Catalogs /\ pc = "idle" /\ want = None
  /\ lost = FALSE /\ applied = None /\ touched = {} /\ late = {}
-----------------------------------------------------------------------------
\* translateManagedDatabase.  Resolvable: it returns no error.
Resolvable(c) == c.db # None => cat[<<c.place, c.db.size>>] # None

Translate(c) ==
  IF c.db = None THEN None
  ELSE [enc    |-> c.db.enc, engine |-> c.db.engine,
        name   |-> IF c.db.name = None THEN c.name ELSE c.db.name,
        family |-> cat[<<c.place, c.db.size>>]]

ForceReplacesLoose(prior, next) ==      \* mutant: the class family is not compared
  /\ prior # None /\ next # None
  /\ \/ prior.enc # next.enc
     \/ prior.engine # next.engine
     \/ prior.name # next.name

\* CheckManagedDatabaseDataSafety finds a violation.  The place is not compared,
\* and neither is a database that goes or comes.
ForceReplaces(prior, next) ==
  /\ prior # None /\ next # None
  /\ \/ prior.enc # next.enc
     \/ prior.engine # next.engine
     \/ prior.name # next.name
     \/ prior.family # next.family

CanonStrict(names) == names \cap Types       \* mutant: no aliases

\* appendTopologyComponentModel: aliases fall under their canonical type, and
\* what the provider does not know is dropped.
Canon(names) == (names \cap Types) \cup {Alias[a] : a \in names \cap DOMAIN Alias}

\* modelToTopology and topologyWire: what is sent.  The backend keeps each type
\* under its canonical name or an alias.
Sent(c, names) == [name |-> c.name, place |-> c.place, comps |-> names]
Stores(c, names) == names \subseteq Known /\ Canon(names) = c.comps
-----------------------------------------------------------------------------
\* Read fails: nothing changes and Terraform does not go on.
ReadDrops ==       \* mutant: an error counts as "not found"
  /\ pc = "idle" /\ tf # None
  /\ tf' = None /\ applied' = None /\ touched' = {}
  /\ UNCHANGED <<server, created, cat, pc, want, lost, late>>

\* The record is gone: so is the resource.
ReadNotFound ==
  /\ pc = "idle" /\ tf # None
  /\ server[tf.id] = None
  /\ tf' = None /\ applied' = None /\ touched' = {}
  /\ UNCHANGED <<server, created, cat, pc, want, lost, late>>

\* The abstract blocks are kept from the state, all else is the backend's, and
\* the plan is derived again.
ReadFound ==
  /\ pc = "idle" /\ tf # None
  /\ server[tf.id] # None
  /\ LET got  == server[tf.id]
         conf == [name |-> got.name, place |-> got.place,
                  comps |-> Canon(got.comps), db |-> tf.conf.db]
     IN  /\ Resolvable(conf)
         /\ tf' = [id |-> tf.id, conf |-> conf, plan |-> Translate(conf)]
  /\ pc' = "refreshed"
  /\ UNCHANGED <<server, created, cat, want, history>>

\* ModifyPlan lets a plan through; the user approves it or drops it.
ModifyPlan ==
  /\ IF tf = None THEN pc = "idle" ELSE pc = "refreshed"
  /\ \E c \in Configs :
       /\ tf # None => tf.conf # c
       /\ Resolvable(c)
       /\ tf # None => ~ForceReplaces(tf.plan, Translate(c))
       /\ want' = c
  /\ pc' = "planned"
  /\ UNCHANGED <<server, created, tf, cat, history>>

GiveUp ==
  /\ pc \in {"refreshed", "planned"}
  /\ pc' = "idle" /\ want' = None /\ late' = {}
  /\ UNCHANGED <<server, created, tf, cat, lost, applied, touched>>

EndWith(state) == tf' = state /\ pc' = "idle" /\ want' = None /\ late' = {} /\ UNCHANGED cat

\* What a record that replaces another changes of what a database is made from.
Changes(old, new) == {f \in {"name", "place"} : old[f] # new[f]}

\* The answer to an accepted request arrives: the state, and with it the plan the
\* next change is compared with, is what was applied.
Answered(state, plan) ==
  EndWith(state) /\ applied' = plan /\ touched' = {} /\ UNCHANGED lost

\* The answer is lost, or the request is refused: Terraform's state stays as it was.
Unanswered(changed) ==
  /\ LostAnswers
  /\ EndWith(tf) /\ lost' = TRUE /\ touched' = touched \cup changed
  /\ UNCHANGED applied
Refused == EndWith(tf) /\ UNCHANGED <<server, created, lost, applied, touched>>

Create ==
  /\ pc = "planned" /\ tf = None
  /\ \/ /\ created < MaxRecords
        /\ created' = created + 1
        /\ \E names \in SUBSET Known :
             /\ Stores(want, names)
             /\ server' = [server EXCEPT ![created + 1] = Sent(want, names)]
        /\ \/ Answered([id |-> created + 1, conf |-> want, plan |-> Translate(want)], Translate(want))
           \/ Unanswered({})
     \/ Refused

UpdateKeepsPlan ==         \* mutant: the old plan stays in the state
  /\ pc = "planned" /\ tf # None
  /\ \/ /\ ~ForceReplaces(tf.plan, Translate(want))
        /\ server[tf.id] # None
        /\ server' = [server EXCEPT ![tf.id] = Sent(want, want.comps)]
        /\ UNCHANGED created
        /\ Answered([id |-> tf.id, conf |-> want, plan |-> tf.plan], Translate(want))
     \/ Refused

\* Update: the guard once more, then PUT, which is refused when the record is gone.
Update ==
  /\ pc = "planned" /\ tf # None
  /\ \/ /\ ~ForceReplaces(tf.plan, Translate(want))
        /\ server[tf.id] # None
        /\ \E names \in SUBSET Known :
             /\ Stores(want, names)
             /\ server' = [server EXCEPT ![tf.id] = Sent(want, names)]
        /\ UNCHANGED created
        /\ \/ Answered([id |-> tf.id, conf |-> want, plan |-> Translate(want)], Translate(want))
           \/ Unanswered(Changes(server[tf.id], want))
     \/ Refused

\* Delete succeeds when the record is gone already.
Delete ==
  /\ pc = "refreshed"
  /\ \/ /\ server' = [server EXCEPT ![tf.id] = None]
        /\ Answered(None, None) \/ Unanswered({})
        /\ UNCHANGED created
     \/ Refused
-----------------------------------------------------------------------------
\* Another client edits or deletes the record, whatever Terraform is doing.  (What
\* becomes of records Terraform does not know is read by nobody.)
EditElsewhere ==
  /\ tf # None /\ server[tf.id] # None
  /\ \/ \E t \in TypeNames \ server[tf.id].comps :
          /\ server' = [server EXCEPT ![tf.id].comps = @ \cup {t}]
          /\ late' = IF pc = "idle" THEN late ELSE late \cup {t}
          /\ UNCHANGED touched
     \/ \E t \in server[tf.id].comps :
          /\ server' = [server EXCEPT ![tf.id].comps = @ \ {t}]
          /\ UNCHANGED <<late, touched>>
     \/ \E n \in Renames, p \in Moves :
          /\ \/ server' = [server EXCEPT ![tf.id].name = n]
             \/ server' = [server EXCEPT ![tf.id].place = p]
          /\ touched' = touched \cup Changes(server[tf.id], server'[tf.id])
          /\ UNCHANGED late
     \/ server' = [server EXCEPT ![tf.id] = None] /\ UNCHANGED <<late, touched>>
  /\ UNCHANGED <<created, tf, cat, pc, want, lost, applied>>

\* A new release of the provider, whose catalog may move a class to another family
\* or lack it.
Upgrade ==
  /\ pc = "idle"
  /\ cat' \in Catalogs \ {cat}
  /\ touched' = IF tf # None /\ \E x \in Places \X Sizes : cat[x] # None /\ cat'[x] # cat[x]
                THEN touched \cup {"catalog"} ELSE touched
  /\ UNCHANGED <<server, created, tf, pc, want, lost, applied, late>>

Next ==
  \/ ReadNotFound \/ ReadFound \/ ModifyPlan \/ GiveUp \/ Create \/ Update \/ Delete
  \/ EditElsewhere \/ Upgrade

Spec == Init /\ [][Next]_vars
-----------------------------------------------------------------------------
TypeOK ==
  /\ server \in [Ids -> Record \cup {None}]
  /\ created \in 0 .. MaxRecords
  /\ tf \in State \cup {None}
  /\ cat \in Catalogs
  /\ pc \in {"idle", "refreshed", "planned"}
  /\ want \in Config \cup {None}
  /\ lost \in BOOLEAN
  /\ applied \in DbPlan \cup {None}
  /\ touched \in SUBSET {"name", "place", "catalog"}
  /\ late \in SUBSET TypeNames

\* What the guard lets an apply that has a database before and after change of
\* it, measured against the plan that was applied and not against what refreshes
\* have made of it since.  Encryption and engine stay, always.  The identifier
\* stays unless it is the topology's name and somebody else changed that; the
\* class family stays unless somebody else moved the topology, or a release the
\* class: a refresh derives the prior plan again, and the change passes unseen.
\* Not promised by the code: that the topology stays at its place, and anything of
\* a database that an apply removes and another adds again.
DatabaseKept ==
  [][applied # None /\ applied' # None =>
       /\ applied'.enc = applied.enc /\ applied'.engine = applied.engine
       /\ tf.conf.db.name # None \/ "name" \notin touched => applied'.name = applied.name
       /\ touched \cap {"place", "catalog"} = {} => applied'.family = applied.family]_vars

\* Every topology at the backend is the one Terraform knows: nothing is created
\* twice and nothing is forgotten, as long as every answer arrived.
RecordsTracked == ~lost => \A i \in Ids : server[i] # None => tf # None /\ tf.id = i

Means(t) == IF t \in Types THEN t ELSE Alias[t]

\* All that an update removes from a record besides what the refreshed state
\* showed, under whatever name the backend keeps it and lost answers or not: the
\* components of types the provider does not know, and those that others added
\* after the refresh.  The request replaces the whole list (http_client.go:164).
NothingRemovedUnseen ==
  [][pc = "planned" /\ tf # None /\ pc' = "idle" =>
       \A i \in Ids : server[i] # None /\ server'[i] # None =>
         \A t \in server[i].comps \ (Others \cup late) :
            Means(t) \in tf.conf.comps \/ \E u \in server'[i].comps : Means(u) = Means(t)]_vars

\* The documents' promise: the guard blocks every change of an attribute that
\* would replace the live database, and "NEVER silently proceeds".
ReplacementBlocked ==
  [][applied # None /\ applied' # None => ~ForceReplaces(applied, applied')]_vars
-----------------------------------------------------------------------------
(* Why the guard holds.                                                      *)

\* Between a refresh and the end of the apply Terraform knows every component of
\* the record but those that came since.
RefreshedInv ==
  /\ pc = "refreshed" => tf # None
  /\ pc # "idle" /\ tf # None /\ server[tf.id] # None =>
       Canon(server[tf.id].comps \ late) \subseteq tf.conf.comps

\* What is planned can still be translated when it is applied.
PlannedInv == pc = "planned" => want \in Configs /\ Resolvable(want)

\* The applied plan is what the block, the record and the catalog still make of
\* it, but for what was touched, and so is the plan the guard compares with.
GuardInv ==
  IF tf = None \/ tf.conf.db = None THEN applied = None /\ (tf # None => tf.plan = None)
  ELSE LET block == tf.conf.db
       IN  /\ applied # None /\ tf.plan # None
           /\ applied.enc = block.enc /\ tf.plan.enc = block.enc
           /\ applied.engine = block.engine /\ tf.plan.engine = block.engine
           /\ block.name # None => applied.name = block.name /\ tf.plan.name = block.name
           /\ block.name = None /\ "name" \notin touched =>
                /\ tf.plan.name = applied.name
                /\ server[tf.id] # None => server[tf.id].name = applied.name
           /\ touched \cap {"place", "catalog"} = {} =>
                /\ tf.plan.family = applied.family
                /\ server[tf.id] # None =>
                     cat[<<server[tf.id].place, block.size>>] = applied.family

IInv == TypeOK /\ RefreshedInv /\ PlannedInv /\ GuardInv
=============================================================================
