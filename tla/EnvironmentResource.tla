------------------------- MODULE EnvironmentResource -------------------------
(***************************************************************************)
(* The pyxcloud_environment resources of one Terraform configuration and   *)
(* the nested terraform each of them runs (internal/provider,              *)
(* resource_environment.go and tfrunner.go).                               *)
(*                                                                         *)
(* Mode A: the resource writes the translated documents to its work dir,   *)
(* and runs init, import, apply, output or destroy there.  Terraform runs  *)
(* several resources in parallel, so the steps of different resources      *)
(* interleave; what a step works on is what lies in the work dir then.     *)
(* Mode B: one call to the backend, which deploys with the binding.        *)
(*                                                                         *)
(* A cloud object is <<e, r>>, the concrete resource r of environment e,   *)
(* unless r is of a type that is looked up by its name: then it is the one *)
(* object <<Account, r>> of that name, whichever environment made it.      *)
(***************************************************************************)
EXTENDS FiniteSets

CONSTANTS Envs,        \* the resource instances
          Res,         \* names of concrete resources
          Versions,    \* contents of a topology: sets of concrete resources
          Dirs,        \* work dirs
          DefaultDir,  \* resolveWorkDir's default, from the name
          Keys,        \* remote state objects
          Confs,       \* what the configuration may say of each environment
          Adoptable,   \* the resources that can be found by name and imported
          Ephemeral,   \* the work dirs a new CI runner does not find
          Account,     \* the cloud account that Mode A works in
          Local, Uninit, None

\* A configuration: the topology, work_dir (Local: the default), remote_state
\* (Local: none) and whether account_binding is set (Mode B).
Conf == [ver : Versions, dir : Dirs \cup {Local}, key : Keys \cup {Local}, modeB : BOOLEAN]

\* Where a nested state can be: in a work dir, in a remote object, or, for an
\* environment in Mode B, at the backend.
Stores == Dirs \cup Keys \cup Envs

\* The objects that are found by name, and all objects.
Named == {Account} \X Adoptable
Objects == Named \cup (Envs \X Res)

ASSUME VersionsAssumption == Versions \subseteq SUBSET Res
ASSUME AdoptableAssumption == Adoptable \subseteq Res
ASSUME DefaultDirAssumption == DefaultDir \in [Envs -> Dirs]
ASSUME EphemeralAssumption == Ephemeral \subseteq Dirs
ASSUME ConfsAssumption == Confs \in [Envs -> SUBSET Conf]

\* Work dirs, remote objects, the backend's state and the marks are different things.
ASSUME NamesAssumption ==
  /\ Dirs \cap Keys = {} /\ Envs \cap (Dirs \cup Keys) = {} /\ Account \notin Envs
  /\ Local \notin Dirs \cup Keys /\ Uninit \notin Keys \cup {Local}
  /\ None \notin Conf /\ None \notin [conf : Conf, outputs : SUBSET Objects]

VARIABLES
  dirs,    \* per work dir: the documents in it and how it was initialised
  nested,  \* per store: the objects its nested state tracks
  outs,    \* per store: the objects the outputs in its nested state describe
  taken,   \* the named objects that exist, tracked or not
  stray,   \* the copies of other objects that exist and no nested state tracks
  tf,      \* per environment: its record in the outer state, or None
  op,      \* per environment: the operation under way, or None
  pc,      \* per environment: the next step of that operation
  last     \* per environment: how its last operation ended; at first there is none of it

cloud == <<nested, outs, taken, stray>>
vars == <<dirs, cloud, tf, op, pc, last>>

NoDocs == [want |-> {}, key |-> Local]

Init ==
  /\ dirs = [d \in Dirs |-> [docs |-> NoDocs, backend |-> Uninit]]
  /\ nested = [s \in Stores |-> {}]
  /\ outs = [s \in Stores |-> {}]
  /\ taken = {}
  /\ stray = {}
  /\ tf = [e \in Envs |-> None]
  /\ op = [e \in Envs |-> None]
  /\ pc = [e \in Envs |-> "idle"]
  /\ last = [e \in Envs |-> "deleted"]
-----------------------------------------------------------------------------
SharedDir(e, c) == CHOOSE d \in Dirs : TRUE     \* mutant: the name is not in the path

\* resolveWorkDir.
WorkDir(e, c) == IF c.dir = Local THEN DefaultDir[e] ELSE c.dir

\* The objects a configuration asks for.  Mode B deploys into the account of its
\* binding, where the names are the environment's own.
ObjectOf(e, r) == IF r \in Adoptable THEN <<Account, r>> ELSE <<e, r>>
Want(e, c) == IF c.modeB THEN {e} \X c.ver ELSE {ObjectOf(e, r) : r \in c.ver}

\* translateAndApply's documents: the objects wanted and the backend block.
DocsOf(e, c) == [want |-> Want(e, c), key |-> c.key]

\* The store of an initialised dir: the dir itself with the local backend.
StoreOf(d) == IF dirs[d].backend = Local THEN d ELSE dirs[d].backend

\* The operation is over; its outcome is what Terraform is told.
Finish(e, outcome) ==
  /\ op' = [op EXCEPT ![e] = None]
  /\ pc' = [pc EXCEPT ![e] = "idle"]
  /\ last' = [last EXCEPT ![e] = outcome]

\* Every error is a diagnostic; the outer state is left as it was.
Fail(e) == Finish(e, "error") /\ UNCHANGED tf

GoTo(e, step) == pc' = [pc EXCEPT ![e] = step] /\ UNCHANGED <<op, last, tf>>

\* What terraform finds of its nested state when it refreshes it.
Found(s) == {o \in nested[s] : o \in Named => o \in taken}

\* A nested apply or destroy that is to leave `want` and may stop half-way.  A name
\* that is taken by an object this state does not track cannot be created again.
Reaches(s, want, got) ==
  /\ Found(s) \cap want \subseteq got
  /\ got \subseteq Found(s) \cup want
  /\ (got \ Found(s)) \cap taken = {}

Provision(s, got) ==
  /\ nested' = [nested EXCEPT ![s] = got]
  /\ taken' = (taken \ (Found(s) \ got)) \cup (got \cap Named)

\* The outputs of a nested state after an operation.
Output(s, o) == outs' = [outs EXCEPT ![s] = o]
-----------------------------------------------------------------------------
\* Terraform starts Create, or Update when the configuration changed; a failed
\* one is started again.
Begin(e) ==
  /\ pc[e] = "idle"
  /\ \E c \in Confs[e] :
       /\ tf[e] # None => tf[e].conf # c
       /\ op' = [op EXCEPT ![e] = c]
       /\ pc' = [pc EXCEPT ![e] = IF c.modeB THEN "deploy" ELSE "write"]
  /\ UNCHANGED <<dirs, cloud, tf, last>>

AppendConfig(e) ==            \* mutant: the earlier documents stay
  /\ pc[e] = "write"
  /\ LET d == WorkDir(e, op[e]) IN
       dirs' = [dirs EXCEPT ![d].docs.want = @ \cup DocsOf(e, op[e]).want,
                            ![d].docs.key = op[e].key]
  /\ GoTo(e, "init")
  /\ UNCHANGED cloud

\* writeConfig clears the generated documents and writes the new ones, the backend
\* block first; a write that fails leaves those before it.
PartOf(docs) == {NoDocs} \cup [want : SUBSET docs.want, key : {docs.key}]

WriteConfig(e) ==
  /\ pc[e] = "write"
  /\ LET d == WorkDir(e, op[e]) IN
       \/ dirs' = [dirs EXCEPT ![d].docs = DocsOf(e, op[e])] /\ GoTo(e, "init")
       \/ \E part \in PartOf(DocsOf(e, op[e])) :
            dirs' = [dirs EXCEPT ![d].docs = part] /\ Fail(e)
       \/ UNCHANGED dirs /\ Fail(e)
  /\ UNCHANGED cloud

Reconfigures(d) == TRUE       \* mutant: init -reconfigure

\* terraform init: refuses a backend other than the one the dir was initialised
\* with, and may fail by itself.
CanInit(d) == dirs[d].backend \in {Uninit, dirs[d].docs.key}

TfInit(e) ==
  /\ pc[e] = "init"
  /\ LET d == WorkDir(e, op[e]) IN
       \/ /\ CanInit(d)
          /\ dirs' = [dirs EXCEPT ![d].backend = dirs[d].docs.key]
          /\ GoTo(e, "adopt")
       \/ Fail(e) /\ UNCHANGED dirs
  /\ UNCHANGED cloud

\* adoptExistingAWSResources: imports what the documents want and a lookup by
\* name finds in the account, whoever made it and whatever state tracks it.  Every
\* lookup and import may fail, and is skipped then.
Adopt(e) ==
  /\ pc[e] = "adopt"
  /\ LET d == WorkDir(e, op[e])
         s == StoreOf(d)
     IN  \E found \in SUBSET (taken \cap dirs[d].docs.want) :
           nested' = [nested EXCEPT ![s] = @ \cup found]
  /\ GoTo(e, "apply")
  /\ UNCHANGED <<dirs, outs, taken, stray>>

\* A failed apply leaves the old outputs, the new ones, or something else, which
\* no outputs stand for.
TfApply(e) ==
  /\ pc[e] = "apply"
  /\ LET d    == WorkDir(e, op[e])
         s    == StoreOf(d)
         want == dirs[d].docs.want
     IN  \/ /\ Reaches(s, want, want) /\ Provision(s, want) /\ Output(s, want)
            /\ GoTo(e, "outputs")
         \/ \E got \in SUBSET (nested[s] \cup want), o \in {outs[s], want, {}} :
              Reaches(s, want, got) /\ Provision(s, got) /\ Output(s, o) /\ Fail(e)
         \/ UNCHANGED <<nested, outs, taken>> /\ Fail(e)
  /\ UNCHANGED <<dirs, stray>>

Record(e, c, outputs) ==
  tf' = [tf EXCEPT ![e] = [conf |-> c, outputs |-> outputs]]

\* terraform output; then the resource is saved.
Outputs(e) ==
  /\ pc[e] = "outputs"
  /\ \/ Record(e, op[e], outs[StoreOf(WorkDir(e, op[e]))]) /\ Finish(e, "applied")
     \/ Fail(e)
  /\ UNCHANGED <<dirs, cloud>>

\* Mode B: POST deploy.  The backend may refuse, or deploy and the answer is lost.
Deploy(e) ==
  /\ pc[e] = "deploy"
  /\ \/ /\ nested' = [nested EXCEPT ![e] = Want(e, op[e])]
        /\ Output(e, Want(e, op[e]))
        /\ \/ Record(e, op[e], Want(e, op[e])) /\ Finish(e, "applied")
           \/ Fail(e)
     \/ Fail(e) /\ UNCHANGED <<nested, outs>>
  /\ UNCHANGED <<dirs, taken, stray>>
-----------------------------------------------------------------------------
\* Read replaces the outputs by those of the nested state, none of them after a
\* destroy that failed late, and by none when the dir was never initialised.  A
\* backend that waits for its init, or any other trouble, leaves the state as it was.
Read(e) ==
  /\ pc[e] = "idle" /\ tf[e] # None
  /\ LET c == tf[e].conf
         d == WorkDir(e, c)
     IN  /\ c.modeB \/ CanInit(d)
         /\ Record(e, c, IF c.modeB THEN outs[e]
                         ELSE IF dirs[d].backend = Uninit THEN {} ELSE outs[StoreOf(d)])
  /\ UNCHANGED <<dirs, cloud, op, pc, last>>

\* Delete: without .terraform in the work dir nothing was provisioned.
Forget(e) == tf' = [tf EXCEPT ![e] = None] /\ Finish(e, "deleted")

BeginDelete(e) ==
  /\ pc[e] = "idle" /\ tf[e] # None
  /\ op' = [op EXCEPT ![e] = tf[e].conf]
  /\ pc' = [pc EXCEPT ![e] = IF tf[e].conf.modeB THEN "destroyB" ELSE "destroy"]
  /\ UNCHANGED <<dirs, cloud, tf, last>>

ForgetOnError(e) ==           \* mutant: a failed destroy drops the resource
  /\ pc[e] = "destroy"
  /\ Forget(e)
  /\ UNCHANGED <<dirs, cloud>>

Destroy(e) ==
  /\ pc[e] = "destroy"
  /\ LET d == WorkDir(e, op[e])
         s == StoreOf(d)
     IN  \/ dirs[d].backend = Uninit /\ Forget(e) /\ UNCHANGED <<nested, outs, taken>>
         \/ /\ dirs[d].backend # Uninit /\ CanInit(d)
            /\ \/ Provision(s, {}) /\ Output(s, {}) /\ Forget(e)
               \/ \E got \in SUBSET Found(s), o \in {outs[s], {}} :
                    Provision(s, got) /\ Output(s, o) /\ Fail(e)
         \/ Fail(e) /\ UNCHANGED <<nested, outs, taken>>
  /\ UNCHANGED <<dirs, stray>>

DestroyManaged(e) ==
  /\ pc[e] = "destroyB"
  /\ \/ /\ nested' = [nested EXCEPT ![e] = {}]
        /\ Output(e, {})
        /\ Forget(e) \/ Fail(e)
     \/ Fail(e) /\ UNCHANGED <<nested, outs>>
  /\ UNCHANGED <<dirs, taken, stray>>

\* A new runner finds no ephemeral work dir and no state in one; remote states
\* survive.
NewRunner ==
  /\ Ephemeral # {}
  /\ \A e \in Envs : pc[e] = "idle"
  /\ dirs' = [d \in Dirs |-> IF d \in Ephemeral THEN [docs |-> NoDocs, backend |-> Uninit]
                                                ELSE dirs[d]]
  /\ nested' = [s \in Stores |-> IF s \in Ephemeral THEN {} ELSE nested[s]]
  /\ outs' = [s \in Stores |-> IF s \in Ephemeral THEN {} ELSE outs[s]]
  /\ stray' = stray \cup ((UNION {nested[d] : d \in Ephemeral}) \ Named)
  /\ UNCHANGED taken
  /\ UNCHANGED <<tf, op, pc, last>>
-----------------------------------------------------------------------------
Apply(e) == Begin(e) \/ WriteConfig(e) \/ TfInit(e) \/ Adopt(e) \/ TfApply(e) \/ Outputs(e) \/ Deploy(e)
Delete(e) == BeginDelete(e) \/ Destroy(e) \/ DestroyManaged(e)

Next == NewRunner \/ \E e \in Envs : Apply(e) \/ Read(e) \/ Delete(e)

Spec == Init /\ [][Next]_vars
-----------------------------------------------------------------------------
TypeOK ==
  /\ dirs \in [Dirs -> [docs : [want : SUBSET Objects, key : Keys \cup {Local}],
                        backend : Keys \cup {Local, Uninit}]]
  /\ nested \in [Stores -> SUBSET Objects]
  /\ outs \in [Stores -> SUBSET Objects]
  /\ taken \subseteq Named
  /\ stray \subseteq Envs \X Res
  /\ tf \in [Envs -> [conf : Conf, outputs : SUBSET Objects] \cup {None}]
  /\ op \in [Envs -> Conf \cup {None}]
  /\ pc \in [Envs -> {"idle", "write", "init", "adopt", "apply", "outputs", "deploy", "destroy", "destroyB"}]
  /\ last \in [Envs -> {"applied", "deleted", "error"}]

\* What an environment may ever ask for; what is tracked of it, and what of it
\* exists and costs money.
Mine == [e \in Envs |-> UNION {Want(e, c) : c \in Confs[e]}]
Tracked(e) == Mine[e] \cap UNION {nested[s] : s \in Stores}
Live(e) == Mine[e] \cap (taken \cup stray \cup ((UNION {nested[s] : s \in Stores}) \ Named))

\* The environments whose work dir is still there when the next operation starts.
Kept == {e \in Envs : \A c \in Confs[e] : c.modeB \/ WorkDir(e, c) \notin Ephemeral}

\* A delete Terraform believes in left nothing behind: not after partial applies,
\* lost answers or interleaved operations, as long as the work dir is kept and no
\* other environment uses its names.
DeletedLeavesNothing ==
  \A e \in Kept : pc[e] = "idle" /\ last[e] = "deleted" => Live(e) = {}

\* An apply Terraform believes in left the nested state with exactly the objects of
\* the recorded topology, and they exist, whatever failed before it and whichever
\* work dirs were lost: what was adopted and what was created make it up.
ApplyTracksTopology ==
  [][\A e \in Envs : pc[e] # "idle" /\ pc'[e] = "idle" /\ last'[e] = "applied"
                       => Tracked(e)' = Want(e, tf'[e].conf) /\ Tracked(e)' \subseteq Live(e)']_vars

\* Operations of one environment never touch the objects of another, as long as
\* they share no name in the account.
NoCrossTalk ==
  [][\A e \in Envs : pc[e] = "idle" /\ pc'[e] = "idle" => Live(e)' = Live(e)]_vars

\* As long as an environment's last operation succeeded, the outputs other resources
\* read from it are those of the topology that is recorded, however often it is
\* refreshed while other environments are applied, fail or are destroyed.
OutputsMatch ==
  \A e \in Kept : pc[e] = "idle" /\ last[e] = "applied" => tf[e].outputs = Want(e, tf[e].conf)
-----------------------------------------------------------------------------
(* Why they hold.                                                            *)

\* Where the nested state of a configuration is.
PlaceOf(e, c) ==
  IF c.modeB THEN e ELSE IF c.key = Local THEN WorkDir(e, c) ELSE c.key

\* What the schema asks of work_dir and remote_state: no two environments share
\* one, and an environment keeps its mode, its work dir and, where that dir can be
\* lost, its remote state.
OwnPlaces ==
  \A e, f \in Envs : e # f =>
    \A c \in Confs[e], b \in Confs[f] : ~c.modeB /\ ~b.modeB =>
      WorkDir(e, c) # WorkDir(f, b) /\ PlaceOf(e, c) # PlaceOf(f, b)
StablePlaces ==
  \A e \in Envs : \A c, b \in Confs[e] :
    /\ c.modeB = b.modeB
    /\ ~c.modeB => /\ WorkDir(e, c) = WorkDir(e, b)
                   /\ WorkDir(e, c) \in Ephemeral => c.key = b.key

\* What nothing asks for or checks: no two environments use one name.
OwnNames ==
  \A e, f \in Envs : e # f =>
    \A c \in Confs[e], b \in Confs[f] : Want(e, c) \cap Want(f, b) = {}

\* What is under way or recorded is a configuration of that environment, in its mode.
Underway ==
  \A e \in Envs :
    /\ tf[e] # None => tf[e].conf \in Confs[e]
    /\ pc[e] # "idle" => op[e] \in Confs[e]
                         /\ (op[e].modeB <=> pc[e] \in {"deploy", "destroyB"})
    /\ pc[e] = "idle" /\ last[e] = "applied" => tf[e] # None

\* A dir stays initialised during an operation.
Initialised ==
  \A e \in Envs : pc[e] \in {"adopt", "apply", "outputs"}
                     => dirs[WorkDir(e, op[e])].backend # Uninit

\* An operation works on the documents it wrote, in the backend they name.
Written ==
  \A e \in Envs :
    LET d == dirs[WorkDir(e, op[e])] IN
    /\ pc[e] \in {"init", "adopt", "apply", "outputs"} => d.docs = DocsOf(e, op[e])
    /\ pc[e] \in {"adopt", "apply", "outputs"} => d.backend = op[e].key
    /\ pc[e] = "outputs" => /\ nested[PlaceOf(e, op[e])] = Want(e, op[e])
                            /\ outs[PlaceOf(e, op[e])] = Want(e, op[e])

\* After a success the outputs are in the state and in the place the record names.
Refreshed ==
  \A e \in Kept : pc[e] = "idle" /\ last[e] = "applied" =>
    LET c == tf[e].conf IN
    /\ ~c.modeB => dirs[WorkDir(e, c)].backend = c.key
    /\ outs[PlaceOf(e, c)] = Want(e, c)

\* Dirs are initialised, and objects tracked, only where their environment's
\* configurations say.
OwnDirs ==
  \A d \in Dirs : dirs[d].backend # Uninit =>
    \E e \in Envs : \E c \in Confs[e] :
      ~c.modeB /\ WorkDir(e, c) = d /\ dirs[d].backend = c.key
OwnStores ==
  \A s \in Stores : \A o \in nested[s] :
    \E e \in Envs : o \in Mine[e] /\ \E c \in Confs[e] : s = PlaceOf(e, c)

OwnInv == Written /\ Refreshed /\ OutputsMatch /\ OwnDirs /\ OwnStores

\* Where names are not shared, what is tracked exists.
Exists == \A s \in Stores : nested[s] \cap Named \subseteq taken

\* The dir of a configuration was initialised for it, or was lost since.
Finds(e, c) ==
  \/ c.modeB
  \/ dirs[WorkDir(e, c)].backend = c.key
  \/ dirs[WorkDir(e, c)].backend = Uninit /\ WorkDir(e, c) \in Ephemeral

\* What is tracked is where the environment's next operation looks.
AtHome ==
  \A s \in Stores : \A o \in nested[s] : \A e \in Envs :
    o \in Mine[e] => \E c \in Confs[e] : s = PlaceOf(e, c) /\ Finds(e, c)

\* What exists of an environment whose work dir is kept is tracked, once.
NothingLost == \A e \in Kept : Mine[e] \cap stray = {} /\ Mine[e] \cap taken \subseteq Tracked(e)

HomeInv == Exists /\ AtHome /\ NothingLost /\ DeletedLeavesNothing

IInv == /\ TypeOK /\ Underway /\ Initialised
        /\ OwnPlaces => OwnInv
        /\ OwnPlaces /\ StablePlaces /\ OwnNames => HomeInv
-----------------------------------------------------------------------------
(* Statements of the code's comments that the code does not keep.            *)

\* tfrunner.go, when .terraform is missing: "Never initialized -> nothing
\* provisioned".
UninitialisedMeansNothingLive ==
  \A e \in Envs : pc[e] = "destroy" /\ dirs[WorkDir(e, op[e])].backend = Uninit => Live(e) = {}
=============================================================================
