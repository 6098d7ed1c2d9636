--------------------- MODULE EnvironmentResourceProofs ---------------------
(***************************************************************************)
(* Theorems about EnvironmentResource for every set of environments, work  *)
(* dirs, remote states and configurations.  The invariant comes in three   *)
(* layers: what an operation carries through its own steps; where no two   *)
(* environments share a place, that what an operation works on, and what a *)
(* refresh reads, is what it wrote; and where they share no name in the    *)
(* account either and keep their places, that an environment's next        *)
(* operation finds all it ever made.                                       *)
(***************************************************************************)
EXTENDS EnvironmentResource, TLAPS

Step(e) == Apply(e) \/ Read(e) \/ Delete(e)

\* The helpers on configurations have the types their names say.
LEMMA ConfTyped ==
  ASSUME NEW e \in Envs, NEW c \in Confs[e]
  PROVE  c \in Conf /\ c # None
BY ConfsAssumption, NamesAssumption

LEMMA WorkDirTyped ==
  ASSUME NEW e \in Envs, NEW c \in Conf
  PROVE  WorkDir(e, c) \in Dirs
BY DefaultDirAssumption DEF WorkDir, Conf

LEMMA WantTyped ==
  ASSUME NEW e \in Envs, NEW c \in Conf
  PROVE  Want(e, c) \in SUBSET Objects
<1>1. c.ver \in SUBSET Res
  BY VersionsAssumption DEF Conf
<1>2. {e} \X c.ver \in SUBSET Objects
  BY <1>1 DEF Objects
<1>3. \A r \in c.ver : ObjectOf(e, r) \in Objects
  BY <1>1 DEF ObjectOf, Objects, Named
<1> QED BY <1>2, <1>3 DEF Want

LEMMA DocsTyped ==
  ASSUME NEW e \in Envs, NEW c \in Conf
  PROVE  /\ DocsOf(e, c) \in [want : SUBSET Objects, key : Keys \cup {Local}]
         /\ DocsOf(e, c).want = Want(e, c) /\ DocsOf(e, c).key = c.key
BY WantTyped DEF DocsOf, Conf

LEMMA PlaceTyped ==
  ASSUME NEW e \in Envs, NEW c \in Conf
  PROVE  /\ PlaceOf(e, c) \in Stores
         /\ c.modeB => PlaceOf(e, c) = e
         /\ ~c.modeB => PlaceOf(e, c) \in Dirs \cup Keys
<1>1. WorkDir(e, c) \in Dirs
  BY WorkDirTyped
<1>2. c.key \in Keys \cup {Local}
  BY DEF Conf
<1> QED BY <1>1, <1>2 DEF PlaceOf, Stores

\* A record is not the mark for none.
LEMMA RecordMade ==
  ASSUME NEW c \in Conf, NEW o \in SUBSET Objects
  PROVE  [conf |-> c, outputs |-> o] # None
BY NamesAssumption

\* What an environment may ask for does not depend on the state.
LEMMA MineFixed == Mine' = Mine /\ Kept' = Kept
BY DEF Mine, Kept, Want, ObjectOf, WorkDir

LEMMA MineHas ==
  ASSUME NEW e \in Envs, NEW c \in Confs[e]
  PROVE  \A o \in Want(e, c) : o \in Mine[e]
BY DEF Mine

\* What a work dir holds, and where its nested state is once it is initialised.
LEMMA DirTyped ==
  ASSUME TypeOK, NEW d \in Dirs
  PROVE  /\ dirs[d].docs \in [want : SUBSET Objects, key : Keys \cup {Local}]
         /\ dirs[d].docs.want \in SUBSET Objects /\ dirs[d].docs.key \in Keys \cup {Local}
         /\ dirs[d].backend \in Keys \cup {Local, Uninit}
         /\ dirs[d] = [docs |-> dirs[d].docs, backend |-> dirs[d].backend]
BY DEF TypeOK

LEMMA StoreTyped ==
  ASSUME TypeOK, NEW d \in Dirs, dirs[d].backend # Uninit
  PROVE  StoreOf(d) \in Stores
BY DirTyped DEF StoreOf, Stores

\* The work dir of the operation under way.
LEMMA UnderwayTyped ==
  ASSUME TypeOK, Underway, NEW e \in Envs, pc[e] # "idle"
  PROVE  op[e] \in Conf /\ op[e] \in Confs[e] /\ WorkDir(e, op[e]) \in Dirs
BY ConfTyped, WorkDirTyped DEF Underway

LEMMA RecordTyped ==
  ASSUME TypeOK, Underway, NEW e \in Envs, tf[e] # None
  PROVE  tf[e].conf \in Conf /\ tf[e].conf \in Confs[e] /\ WorkDir(e, tf[e].conf) \in Dirs
BY ConfTyped, WorkDirTyped DEF Underway
-----------------------------------------------------------------------------
(* What each operation may change.                                           *)

\* A step changes the bookkeeping of its own environment only.
LEMMA Bookkeeping ==
  ASSUME TypeOK, NEW f \in Envs, Step(f), NEW e \in Envs, e # f
  PROVE  pc'[e] = pc[e] /\ op'[e] = op[e] /\ tf'[e] = tf[e] /\ last'[e] = last[e]
<1> USE DEF TypeOK, Finish, Fail, GoTo, Record, Forget
<1>1. CASE Begin(f)          BY <1>1 DEF Begin
<1>2. CASE WriteConfig(f)    BY <1>2 DEF WriteConfig
<1>3. CASE TfInit(f)         BY <1>3 DEF TfInit
<1>4. CASE Adopt(f)          BY <1>4 DEF Adopt
<1>5. CASE TfApply(f)        BY <1>5 DEF TfApply
<1>6. CASE Outputs(f)        BY <1>6 DEF Outputs
<1>7. CASE Deploy(f)         BY <1>7 DEF Deploy
<1>8. CASE Read(f)           BY <1>8 DEF Read
<1>9. CASE BeginDelete(f)    BY <1>9 DEF BeginDelete
<1>10. CASE Destroy(f)       BY <1>10 DEF Destroy
<1>11. CASE DestroyManaged(f) BY <1>11 DEF DestroyManaged
<1> QED BY <1>1, <1>2, <1>3, <1>4, <1>5, <1>6, <1>7, <1>8, <1>9, <1>10, <1>11
        DEF Step, Apply, Delete

\* A step changes its own work dir only, and never un-initialises it.
LEMMA DirsChange ==
  ASSUME TypeOK, Underway, NEW f \in Envs, Step(f)
  PROVE  /\ \A d \in Dirs : dirs'[d] # dirs[d] =>
              pc[f] \in {"write", "init"} /\ d = WorkDir(f, op[f])
         /\ \A d \in Dirs : dirs[d].backend # Uninit => dirs'[d].backend # Uninit
<1> SUFFICES ASSUME NEW d \in Dirs
             PROVE  /\ dirs'[d] # dirs[d] => pc[f] \in {"write", "init"} /\ d = WorkDir(f, op[f])
                    /\ dirs[d].backend # Uninit => dirs'[d].backend # Uninit
  OBVIOUS
<1>1. CASE dirs' = dirs
  BY <1>1
<1>2. CASE WriteConfig(f)
  BY <1>2, UnderwayTyped, DirTyped DEF WriteConfig, TypeOK
<1>3. CASE TfInit(f) /\ dirs' # dirs
  <2>1. pc[f] = "init" /\ WorkDir(f, op[f]) \in Dirs
    BY <1>3, UnderwayTyped DEF TfInit
  <2>2. dirs' = [dirs EXCEPT ![WorkDir(f, op[f])].backend = dirs[WorkDir(f, op[f])].docs.key]
    BY <1>3 DEF TfInit
  <2>3. dirs[WorkDir(f, op[f])].docs.key # Uninit
    BY <2>1, DirTyped, NamesAssumption
  <2> QED BY <2>1, <2>2, <2>3, DirTyped DEF TypeOK
<1> QED BY <1>1, <1>2, <1>3
        DEF Step, Apply, Delete, Begin, Adopt, TfApply, Outputs, Deploy, Read, BeginDelete,
            Destroy, DestroyManaged
-----------------------------------------------------------------------------
(* What an operation carries through its own steps, on any configuration.    *)

\* What a refresh reads.
OutputsRead(e) ==
  LET c == tf[e].conf
      d == WorkDir(e, c)
  IN  IF c.modeB THEN outs[e]
      ELSE IF dirs[d].backend = Uninit THEN {} ELSE outs[StoreOf(d)]

LEMMA ReadTyped ==
  ASSUME TypeOK, Underway, NEW e \in Envs, Read(e)
  PROVE  /\ tf[e].conf \in Conf /\ OutputsRead(e) \in SUBSET Objects
         /\ Record(e, tf[e].conf, OutputsRead(e)) /\ tf[e] # None
<1> DEFINE c == tf[e].conf
           d == WorkDir(e, c)
<1>1. c \in Conf /\ c.modeB \in BOOLEAN /\ d \in Dirs
  BY RecordTyped DEF Read, Conf
<1>2. outs[e] \in SUBSET Objects
  BY DEF Stores, TypeOK
<1>3. dirs[d].backend # Uninit => outs[StoreOf(d)] \in SUBSET Objects
  BY <1>1, StoreTyped DEF TypeOK
<1>4. OutputsRead(e) \in SUBSET Objects
  BY <1>1, <1>2, <1>3 DEF OutputsRead
<1>5. Record(e, c, OutputsRead(e)) /\ tf[e] # None
  BY DEF Read, OutputsRead
<1> QED BY <1>1, <1>4, <1>5

\* Every action keeps the types.
LEMMA TypeStep ==
  TypeOK /\ Underway /\ Initialised /\ [Next]_vars => TypeOK'
<1> SUFFICES ASSUME TypeOK, Underway, Initialised, [Next]_vars PROVE TypeOK'
  OBVIOUS
<1> DEFINE DirType == [docs : [want : SUBSET Objects, key : Keys \cup {Local}],
                       backend : Keys \cup {Local, Uninit}]
           Rec == [conf : Conf, outputs : SUBSET Objects]
           Steps == {"idle", "write", "init", "adopt", "apply", "outputs", "deploy", "destroy", "destroyB"}
           Ends == {"applied", "deleted", "error"}
           Books == /\ tf' \in [Envs -> Rec \cup {None}] /\ op' \in [Envs -> Conf \cup {None}]
                    /\ pc' \in [Envs -> Steps] /\ last' \in [Envs -> Ends]
           Dirs2 == dirs' \in [Dirs -> DirType]
           Cloud == /\ nested' \in [Stores -> SUBSET Objects] /\ outs' \in [Stores -> SUBSET Objects]
                    /\ taken' \subseteq Named /\ stray' \subseteq Envs \X Res
<1>a. /\ tf \in [Envs -> Rec \cup {None}] /\ op \in [Envs -> Conf \cup {None}]
      /\ pc \in [Envs -> Steps] /\ last \in [Envs -> Ends]
  BY DEF TypeOK
<1>b. /\ dirs \in [Dirs -> DirType]
      /\ nested \in [Stores -> SUBSET Objects] /\ outs \in [Stores -> SUBSET Objects]
      /\ taken \subseteq Named /\ stray \subseteq Envs \X Res
  BY DEF TypeOK
<1>c. SUFFICES Books /\ Dirs2 /\ Cloud
  BY DEF TypeOK
<1>d. [docs |-> NoDocs, backend |-> Uninit] \in DirType
      /\ NoDocs \in [want : SUBSET Objects, key : Keys \cup {Local}]
  BY DEF NoDocs
<1> HIDE DEF DirType, Rec, Steps, Ends
<1>e. ASSUME NEW s \in Stores, NEW got \in SUBSET Objects, NEW o \in SUBSET Objects,
             Provision(s, got), Output(s, o), stray' = stray
      PROVE  Cloud
  <2>1. taken' \subseteq Named
    BY <1>b, <1>e DEF Provision
  <2> QED BY <1>b, <1>e, <2>1 DEF Provision, Output
<1>f. ASSUME NEW e \in Envs, Fail(e) \/ Forget(e)
      PROVE  Books
  BY <1>a, <1>f DEF Fail, Forget, Finish, Steps, Ends
<1>g. ASSUME NEW e \in Envs, NEW step \in Steps, GoTo(e, step)
      PROVE  Books
  BY <1>a, <1>g DEF GoTo
<1>h. ASSUME NEW e \in Envs, NEW c \in Conf, NEW o \in SUBSET Objects, Record(e, c, o)
      PROVE  tf' \in [Envs -> Rec \cup {None}]
  <2>1. [conf |-> c, outputs |-> o] \in Rec
    BY DEF Rec
  <2> QED BY <1>a, <1>h, <2>1 DEF Record
<1>i. ASSUME NEW e \in Envs, NEW c \in Conf, NEW o \in SUBSET Objects, Record(e, c, o),
             Finish(e, "applied")
      PROVE  Books
  BY <1>a, <1>h, <1>i DEF Finish, Steps, Ends
<1>j. cloud' = cloud => Cloud
  BY <1>b DEF cloud
<1>1. CASE UNCHANGED vars
  BY <1>a, <1>b, <1>1 DEF vars, cloud
<1>2. CASE NewRunner
  <2>1. Books
    BY <1>a, <1>2 DEF NewRunner
  <2>2. Dirs2
    BY <1>b, <1>d, <1>2 DEF NewRunner
  <2>3. nested' \in [Stores -> SUBSET Objects] /\ outs' \in [Stores -> SUBSET Objects]
    BY <1>b, <1>2 DEF NewRunner
  <2>4. \A d \in Ephemeral : nested[d] \subseteq Objects
    BY <1>b, EphemeralAssumption DEF Stores
  <2>5. (UNION {nested[d] : d \in Ephemeral}) \ Named \subseteq Envs \X Res
    BY <2>4 DEF Objects
  <2>6. stray' \subseteq Envs \X Res /\ taken' = taken
    BY <1>b, <1>2, <2>5 DEF NewRunner
  <2> QED BY <1>b, <2>1, <2>2, <2>3, <2>6
<1>3. ASSUME NEW e \in Envs, Begin(e)
      PROVE  Books /\ Dirs2 /\ Cloud
  <2>1. PICK c \in Confs[e] :
          /\ op' = [op EXCEPT ![e] = c]
          /\ pc' = [pc EXCEPT ![e] = IF c.modeB THEN "deploy" ELSE "write"]
    BY <1>3 DEF Begin
  <2>2. c \in Conf
    BY ConfTyped
  <2>3. Books
    BY <1>a, <1>3, <2>1, <2>2 DEF Begin, Steps
  <2> QED BY <1>b, <1>j, <1>3, <2>3 DEF Begin
<1>4. ASSUME NEW e \in Envs, WriteConfig(e)
      PROVE  Books /\ Dirs2 /\ Cloud
  <2> DEFINE d == WorkDir(e, op[e])
             docs == DocsOf(e, op[e])
  <2>1. op[e] \in Conf /\ d \in Dirs
    BY <1>4, UnderwayTyped DEF WriteConfig
  <2>2. docs \in [want : SUBSET Objects, key : Keys \cup {Local}]
    BY <2>1, DocsTyped
  <2>3. \A part \in PartOf(docs) : part \in [want : SUBSET Objects, key : Keys \cup {Local}]
    BY <1>d, <2>2 DEF PartOf
  <2>4. \/ dirs' = dirs
        \/ \E x \in {docs} \cup PartOf(docs) : dirs' = [dirs EXCEPT ![d].docs = x]
    BY <1>4 DEF WriteConfig
  <2> HIDE DEF d, docs
  <2>5. Dirs2
    BY <1>b, <2>1, <2>2, <2>3, <2>4 DEF DirType
  <2>6. Books
    BY <1>4, <1>f, <1>g DEF WriteConfig, Steps
  <2> QED BY <1>4, <1>j, <2>5, <2>6 DEF WriteConfig
<1>5. ASSUME NEW e \in Envs, TfInit(e)
      PROVE  Books /\ Dirs2 /\ Cloud
  <2> DEFINE d == WorkDir(e, op[e])
  <2>1. d \in Dirs
    BY <1>5, UnderwayTyped DEF TfInit
  <2>2. dirs[d].docs.key \in Keys \cup {Local}
    BY <2>1, DirTyped
  <2>3. Dirs2
    BY <1>5, <1>b, <2>1, <2>2 DEF TfInit, DirType
  <2>4. Books
    BY <1>5, <1>f, <1>g DEF TfInit, Steps
  <2> QED BY <1>5, <1>j, <2>3, <2>4 DEF TfInit
<1>6. ASSUME NEW e \in Envs, Adopt(e)
      PROVE  Books /\ Dirs2 /\ Cloud
  <2> DEFINE s == StoreOf(WorkDir(e, op[e]))
  <2>1. WorkDir(e, op[e]) \in Dirs /\ dirs[WorkDir(e, op[e])].backend # Uninit
    BY <1>6, UnderwayTyped DEF Adopt, Initialised
  <2>2. s \in Stores
    BY <2>1, StoreTyped
  <2>3. PICK found \in SUBSET taken : nested' = [nested EXCEPT ![s] = @ \cup found]
    BY <1>6 DEF Adopt
  <2>4. found \in SUBSET Objects
    BY <1>b, <2>3 DEF Objects
  <2>5. nested' \in [Stores -> SUBSET Objects]
    BY <1>b, <2>2, <2>3, <2>4
  <2>6. Books
    BY <1>6, <1>g DEF Adopt, Steps
  <2> QED BY <1>6, <1>b, <2>5, <2>6 DEF Adopt
<1>7. ASSUME NEW e \in Envs, TfApply(e)
      PROVE  Books /\ Dirs2 /\ Cloud
  <2> DEFINE d == WorkDir(e, op[e])
             s == StoreOf(d)
             want == dirs[d].docs.want
  <2>1. d \in Dirs /\ dirs[d].backend # Uninit
    BY <1>7, UnderwayTyped DEF TfApply, Initialised
  <2>2. s \in Stores /\ want \in SUBSET Objects
    BY <2>1, StoreTyped, DirTyped
  <2>3. nested[s] \cup want \in SUBSET Objects /\ outs[s] \in SUBSET Objects
    BY <1>b, <2>2
  <2>4. /\ \/ UNCHANGED <<nested, outs, taken>>
           \/ \E got \in SUBSET (nested[s] \cup want), o \in {outs[s], want, {}} :
                Provision(s, got) /\ Output(s, o)
        /\ GoTo(e, "outputs") \/ Fail(e)
        /\ UNCHANGED <<dirs, stray>>
    BY <1>7 DEF TfApply
  <2> HIDE DEF s, want
  <2>5. Cloud
    BY <1>b, <1>e, <2>2, <2>3, <2>4
  <2> QED BY <1>b, <1>f, <1>g, <2>4, <2>5 DEF Steps
<1>8. ASSUME NEW e \in Envs, Outputs(e)
      PROVE  Books /\ Dirs2 /\ Cloud
  <2> DEFINE d == WorkDir(e, op[e])
  <2>1. op[e] \in Conf /\ d \in Dirs /\ dirs[d].backend # Uninit
    BY <1>8, UnderwayTyped DEF Outputs, Initialised
  <2>2. outs[StoreOf(d)] \in SUBSET Objects
    BY <1>b, <2>1, StoreTyped
  <2>3. Books
    BY <1>8, <1>f, <1>i, <2>1, <2>2 DEF Outputs
  <2> QED BY <1>8, <1>b, <1>j, <2>3 DEF Outputs
<1>9. ASSUME NEW e \in Envs, Deploy(e)
      PROVE  Books /\ Dirs2 /\ Cloud
  <2>1. op[e] \in Conf
    BY <1>9, UnderwayTyped DEF Deploy
  <2>2. Want(e, op[e]) \in SUBSET Objects /\ e \in Stores
    BY <2>1, WantTyped DEF Stores
  <2>3. Cloud
    BY <1>9, <1>b, <2>2 DEF Deploy, Output
  <2>4. Books
    BY <1>9, <1>f, <1>i, <2>1, <2>2 DEF Deploy
  <2> QED BY <1>9, <1>b, <2>3, <2>4 DEF Deploy
<1>10. ASSUME NEW e \in Envs, Read(e)
       PROVE  Books /\ Dirs2 /\ Cloud
  <2>1. tf' \in [Envs -> Rec \cup {None}]
    BY <1>10, <1>h, ReadTyped
  <2> QED BY <1>10, <1>a, <1>b, <1>j, <2>1 DEF Read
<1>11. ASSUME NEW e \in Envs, BeginDelete(e)
       PROVE  Books /\ Dirs2 /\ Cloud
  <2>1. tf[e].conf \in Conf
    BY <1>11, RecordTyped DEF BeginDelete
  <2>2. Books
    BY <1>11, <1>a, <2>1 DEF BeginDelete, Steps
  <2> QED BY <1>11, <1>b, <1>j, <2>2 DEF BeginDelete
<1>12. ASSUME NEW e \in Envs, Destroy(e)
       PROVE  Books /\ Dirs2 /\ Cloud
  <2> DEFINE d == WorkDir(e, op[e])
             s == StoreOf(d)
  <2>1. d \in Dirs
    BY <1>12, UnderwayTyped DEF Destroy
  <2>2. /\ \/ UNCHANGED <<nested, outs, taken>>
           \/ dirs[d].backend # Uninit /\ \E got \in SUBSET Found(s), o \in {outs[s], {}} :
                Provision(s, got) /\ Output(s, o)
        /\ Fail(e) \/ Forget(e)
        /\ UNCHANGED <<dirs, stray>>
    BY <1>12 DEF Destroy
  <2>3. CASE UNCHANGED <<nested, outs, taken>>
    BY <1>b, <1>f, <2>2, <2>3
  <2>4. CASE dirs[d].backend # Uninit
    <3>1. s \in Stores
      BY <2>1, <2>4, StoreTyped
    <3>2. Found(s) \in SUBSET Objects /\ outs[s] \in SUBSET Objects
      BY <1>b, <3>1 DEF Found
    <3> HIDE DEF s
    <3>3. Cloud
      BY <1>b, <1>e, <2>2, <3>1, <3>2
    <3> QED BY <1>b, <1>f, <2>2, <3>3
  <2> QED BY <2>2, <2>3, <2>4
<1>13. ASSUME NEW e \in Envs, DestroyManaged(e)
       PROVE  Books /\ Dirs2 /\ Cloud
  <2>1. Cloud
    BY <1>13, <1>b DEF DestroyManaged, Output
  <2> QED BY <1>13, <1>b, <1>f, <2>1 DEF DestroyManaged
<1> QED BY <1>1, <1>2, <1>3, <1>4, <1>5, <1>6, <1>7, <1>8, <1>9, <1>10, <1>11, <1>12, <1>13
        DEF Next, Apply, Delete

\* What is under way stays a configuration of its environment, and an apply that
\* succeeds leaves a record.
LEMMA UnderwayStep ==
  TypeOK /\ Underway /\ Initialised /\ [Next]_vars => Underway'
<1> SUFFICES ASSUME TypeOK, Underway, Initialised, [Next]_vars, NEW e \in Envs
             PROVE  /\ tf'[e] # None => tf'[e].conf \in Confs[e]
                    /\ pc'[e] # "idle" => op'[e] \in Confs[e]
                                          /\ (op'[e].modeB <=> pc'[e] \in {"deploy", "destroyB"})
                    /\ pc'[e] = "idle" /\ last'[e] = "applied" => tf'[e] # None
  BY DEF Underway
<1>a. /\ tf[e] # None => tf[e].conf \in Confs[e]
      /\ pc[e] # "idle" => op[e] \in Confs[e]
                           /\ (op[e].modeB <=> pc[e] \in {"deploy", "destroyB"})
      /\ pc[e] = "idle" /\ last[e] = "applied" => tf[e] # None
  BY DEF Underway
<1>1. CASE UNCHANGED vars
  BY <1>a, <1>1 DEF vars
<1>2. CASE NewRunner
  BY <1>a, <1>2 DEF NewRunner
<1>3. ASSUME NEW f \in Envs, Step(f), f # e
      PROVE  tf'[e] = tf[e] /\ pc'[e] = pc[e] /\ op'[e] = op[e] /\ last'[e] = last[e]
  BY <1>3, Bookkeeping
<1> USE DEF TypeOK, Finish, Fail, GoTo, Forget
<1>4. CASE Begin(e)
  BY <1>4, <1>a, ConfTyped DEF Begin, Conf
<1>5. CASE WriteConfig(e)    BY <1>5, <1>a DEF WriteConfig
<1>6. CASE TfInit(e)         BY <1>6, <1>a DEF TfInit
<1>7. CASE Adopt(e)          BY <1>7, <1>a DEF Adopt
<1>8. CASE TfApply(e)        BY <1>8, <1>a DEF TfApply
<1>9. CASE Outputs(e)
  <2> DEFINE d == WorkDir(e, op[e])
  <2>1. op[e] \in Confs[e] /\ op[e] \in Conf /\ StoreOf(d) \in Stores
    BY <1>9, UnderwayTyped, StoreTyped DEF Outputs, Initialised
  <2>2. [conf |-> op[e], outputs |-> outs[StoreOf(d)]] # None
    BY <2>1, RecordMade
  <2> QED BY <1>9, <1>a, <2>1, <2>2 DEF Outputs, Record
<1>10. CASE Deploy(e)
  <2>1. op[e] \in Confs[e] /\ op[e] \in Conf
    BY <1>10, UnderwayTyped DEF Deploy
  <2>2. [conf |-> op[e], outputs |-> Want(e, op[e])] # None
    BY <2>1, WantTyped, RecordMade
  <2> QED BY <1>10, <1>a, <2>1, <2>2 DEF Deploy, Record
<1>11. CASE Read(e)
  <2>1. tf'[e] = [conf |-> tf[e].conf, outputs |-> OutputsRead(e)] /\ tf[e] # None
    BY <1>11, ReadTyped DEF Record
  <2>2. tf'[e] # None
    BY <1>11, <2>1, ReadTyped, RecordMade
  <2> QED BY <1>11, <1>a, <2>1, <2>2 DEF Read
<1>12. CASE BeginDelete(e)
  BY <1>12, <1>a, ConfTyped DEF BeginDelete, Conf
<1>13. CASE Destroy(e)       BY <1>13, <1>a DEF Destroy
<1>14. CASE DestroyManaged(e) BY <1>14, <1>a DEF DestroyManaged
<1> QED BY <1>a, <1>1, <1>2, <1>3, <1>4, <1>5, <1>6, <1>7, <1>8, <1>9, <1>10, <1>11, <1>12, <1>13,
           <1>14 DEF Next, Step, Apply, Delete

\* Nothing un-initialises a work dir under an operation.
LEMMA InitialisedStep ==
  TypeOK /\ Underway /\ Initialised /\ [Next]_vars => Initialised'
<1> SUFFICES ASSUME TypeOK, Underway, Initialised, [Next]_vars, NEW e \in Envs,
                    pc'[e] \in {"adopt", "apply", "outputs"}
             PROVE  dirs'[WorkDir(e, op'[e])].backend # Uninit
  BY DEF Initialised, WorkDir
<1>a. pc[e] \in {"adopt", "apply", "outputs"} => dirs[WorkDir(e, op[e])].backend # Uninit
  BY DEF Initialised
<1>b. pc[e] # "idle" => WorkDir(e, op[e]) \in Dirs
  BY UnderwayTyped
<1>1. CASE UNCHANGED vars
  BY <1>a, <1>1 DEF vars
<1>2. CASE NewRunner
  BY <1>2 DEF NewRunner
<1>3. ASSUME NEW f \in Envs, Step(f)
      PROVE  \A d \in Dirs : dirs[d].backend # Uninit => dirs'[d].backend # Uninit
  BY <1>3, DirsChange
<1>4. ASSUME NEW f \in Envs, Step(f), f # e
      PROVE  dirs'[WorkDir(e, op'[e])].backend # Uninit
  <2>1. pc'[e] = pc[e] /\ op'[e] = op[e]
    BY <1>4, Bookkeeping
  <2> QED BY <1>a, <1>b, <1>3, <1>4, <2>1
<1> USE DEF TypeOK, Finish, Fail, GoTo, Forget
<1>5. CASE TfInit(e)
  <2> DEFINE d == WorkDir(e, op[e])
  <2>1. d \in Dirs
    BY <1>5, <1>b DEF TfInit
  <2>2. dirs[d].docs.key # Uninit
    BY <2>1, DirTyped, NamesAssumption
  <2>3. dirs' = [dirs EXCEPT ![d].backend = dirs[d].docs.key] /\ op' = op
    BY <1>5 DEF TfInit
  <2> QED BY <2>1, <2>2, <2>3
<1>6. CASE Adopt(e)
  BY <1>a, <1>6 DEF Adopt
<1>7. CASE TfApply(e)
  BY <1>a, <1>7 DEF TfApply
<1>8. CASE Begin(e)           BY <1>8 DEF Begin
<1>9. CASE WriteConfig(e)     BY <1>9 DEF WriteConfig
<1>10. CASE Outputs(e)        BY <1>10 DEF Outputs
<1>11. CASE Deploy(e)         BY <1>11 DEF Deploy
<1>12. CASE Read(e)           BY <1>a, <1>12 DEF Read
<1>13. CASE BeginDelete(e)    BY <1>13 DEF BeginDelete
<1>14. CASE Destroy(e)        BY <1>14 DEF Destroy
<1>15. CASE DestroyManaged(e) BY <1>15 DEF DestroyManaged
<1> QED BY <1>1, <1>2, <1>4, <1>5, <1>6, <1>7, <1>8, <1>9, <1>10, <1>11, <1>12, <1>13, <1>14, <1>15
        DEF Next, Step, Apply, Delete
-----------------------------------------------------------------------------
(* Where no two environments share a place.                                  *)

\* The places of two environments are different ones.
LEMMA PlacesApart ==
  ASSUME OwnPlaces, NEW e \in Envs, NEW f \in Envs, e # f, NEW c \in Confs[e], NEW b \in Confs[f]
  PROVE  /\ PlaceOf(e, c) # PlaceOf(f, b)
         /\ ~c.modeB /\ ~b.modeB => WorkDir(e, c) # WorkDir(f, b)
<1>1. c \in Conf /\ b \in Conf
  BY ConfTyped
<1>2. CASE ~c.modeB /\ ~b.modeB
  BY <1>2 DEF OwnPlaces
<1>3. CASE c.modeB \/ b.modeB
  BY <1>1, <1>3, PlaceTyped, NamesAssumption
<1> QED BY <1>2, <1>3

\* An operation that may touch the cloud works on its own documents, in its own place.
LEMMA WorksAtHome ==
  ASSUME TypeOK, Underway, Written, NEW f \in Envs, pc[f] \in {"adopt", "apply", "outputs"}
  PROVE  /\ op[f] \in Confs[f] /\ op[f] \in Conf /\ ~op[f].modeB /\ WorkDir(f, op[f]) \in Dirs
         /\ dirs[WorkDir(f, op[f])].backend = op[f].key
         /\ StoreOf(WorkDir(f, op[f])) = PlaceOf(f, op[f])
         /\ dirs[WorkDir(f, op[f])].docs.want = Want(f, op[f])
         /\ PlaceOf(f, op[f]) \in Stores
<1>1. op[f] \in Confs[f] /\ op[f] \in Conf /\ ~op[f].modeB /\ WorkDir(f, op[f]) \in Dirs
  BY UnderwayTyped DEF Underway
<1>2. /\ dirs[WorkDir(f, op[f])].docs = DocsOf(f, op[f])
      /\ dirs[WorkDir(f, op[f])].backend = op[f].key
  BY DEF Written
<1>3. PlaceOf(f, op[f]) \in Stores /\ DocsOf(f, op[f]).want = Want(f, op[f])
  BY <1>1, PlaceTyped, DocsTyped
<1> QED BY <1>1, <1>2, <1>3 DEF StoreOf, PlaceOf

\* A destroy works where one of its environment's configurations put the objects.
LEMMA DestroysAtHome ==
  ASSUME TypeOK, Underway, OwnPlaces, OwnDirs, NEW f \in Envs, pc[f] = "destroy",
         dirs[WorkDir(f, op[f])].backend # Uninit
  PROVE  \E c \in Confs[f] :
           /\ c \in Conf /\ ~c.modeB /\ WorkDir(f, c) = WorkDir(f, op[f])
           /\ dirs[WorkDir(f, c)].backend = c.key
           /\ StoreOf(WorkDir(f, op[f])) = PlaceOf(f, c)
<1>1. op[f] \in Confs[f] /\ ~op[f].modeB /\ WorkDir(f, op[f]) \in Dirs
  BY UnderwayTyped DEF Underway
<1>2. PICK e \in Envs : \E c \in Confs[e] :
        /\ ~c.modeB /\ WorkDir(e, c) = WorkDir(f, op[f])
        /\ dirs[WorkDir(f, op[f])].backend = c.key
  BY <1>1 DEF OwnDirs
<1>3. e = f
  BY <1>1, <1>2, PlacesApart
<1>4. PICK c \in Confs[f] :
        /\ ~c.modeB /\ WorkDir(f, c) = WorkDir(f, op[f])
        /\ dirs[WorkDir(f, op[f])].backend = c.key
  BY <1>2, <1>3
<1> QED BY <1>4, ConfTyped DEF StoreOf, PlaceOf

\* What is tracked where a configuration of f looks is of f.
LEMMA OwnedByPlace ==
  ASSUME OwnPlaces, OwnStores, NEW f \in Envs, NEW c \in Confs[f]
  PROVE  \A o \in nested[PlaceOf(f, c)] : o \in Mine[f]
<1> SUFFICES ASSUME NEW o \in nested[PlaceOf(f, c)] PROVE o \in Mine[f]
  OBVIOUS
<1>1. PlaceOf(f, c) \in Stores
  BY ConfTyped, PlaceTyped
<1>2. PICK e \in Envs : o \in Mine[e] /\ \E b \in Confs[e] : PlaceOf(f, c) = PlaceOf(e, b)
  BY <1>1 DEF OwnStores
<1> QED BY <1>2, PlacesApart

\* f leaves `got` where its configuration c looks, and nothing else changes but the
\* names of what came there or went.
Touches(f, c, got) ==
  LET p == PlaceOf(f, c) IN
  /\ c.modeB \/ dirs[WorkDir(f, c)].backend = c.key
  /\ nested' = [nested EXCEPT ![p] = got]
  /\ \E o : outs' = [outs EXCEPT ![p] = o]
  /\ \A o \in got : o \in nested[p] \/ (c = op[f] /\ pc[f] \in {"adopt", "apply", "deploy"} /\ o \in Want(f, c))
  /\ stray' = stray
  /\ \A o \in taken' : o \in got \/ (o \in taken /\ (c.modeB \/ o \notin nested[p]))
  /\ \A o \in taken : o \in taken' \/ (o \in nested[p] /\ o \notin got)
  /\ ~c.modeB => \A o \in got : o \in Named => o \in taken' \/ (o \in nested[p] /\ o \notin taken)

Rests == UNCHANGED <<nested, outs, taken, stray>>

\* Every step leaves the cloud alone or touches one place of its own environment.
LEMMA CloudStep ==
  ASSUME TypeOK, Underway, OwnPlaces, Written, OwnDirs, NEW f \in Envs, Step(f)
  PROVE  Rests \/ \E c \in Confs[f], got \in SUBSET Objects : Touches(f, c, got)
<1>a. /\ nested \in [Stores -> SUBSET Objects] /\ outs \in [Stores -> SUBSET Objects]
      /\ taken \subseteq Named
  BY DEF TypeOK
<1>b. ASSUME NEW c \in Confs[f], c \in Conf, ~c.modeB, dirs[WorkDir(f, c)].backend = c.key,
             NEW s, s = PlaceOf(f, c), NEW got \in SUBSET Objects, NEW o,
             Provision(s, got), Output(s, o), stray' = stray,
             \A x \in got : x \in nested[s] \/ (c = op[f] /\ pc[f] = "apply" /\ x \in Want(f, c))
      PROVE  \E b \in Confs[f], g \in SUBSET Objects : Touches(f, b, g)
  <2>1. nested' = [nested EXCEPT ![s] = got] /\ outs' = [outs EXCEPT ![s] = o]
        /\ taken' = (taken \ (Found(s) \ got)) \cup (got \cap Named)
    BY <1>b DEF Provision, Output
  <2>2. \A x : x \in Found(s) <=> x \in nested[s] /\ (x \in Named => x \in taken)
    BY DEF Found
  <2>3. \A x \in taken' : x \in got \/ (x \in taken /\ x \notin nested[s])
    BY <1>a, <2>1, <2>2
  <2>4. \A x \in taken : x \in taken' \/ (x \in nested[s] /\ x \notin got)
    BY <2>1, <2>2
  <2>5. \A x \in got : x \in Named => x \in taken'
    BY <2>1
  <2>6. Touches(f, c, got)
    BY <1>b, <2>1, <2>3, <2>4, <2>5 DEF Touches
  <2> QED BY <2>6
<1>1. CASE Rests
  BY <1>1
<1>2. CASE Adopt(f)
  <2> DEFINE p == PlaceOf(f, op[f])
  <2>1. /\ StoreOf(WorkDir(f, op[f])) = p /\ p \in Stores
        /\ dirs[WorkDir(f, op[f])].docs.want = Want(f, op[f])
        /\ op[f] \in Confs[f] /\ ~op[f].modeB
        /\ dirs[WorkDir(f, op[f])].backend = op[f].key
    BY <1>2, WorksAtHome DEF Adopt
  <2>2. PICK found \in SUBSET (taken \cap Want(f, op[f])) :
          nested' = [nested EXCEPT ![p] = nested[p] \cup found]
    BY <1>2, <2>1 DEF Adopt
  <2>3. pc[f] = "adopt" /\ UNCHANGED <<outs, taken, stray>>
    BY <1>2 DEF Adopt
  <2>4. outs' = [outs EXCEPT ![p] = outs[p]]
    BY <1>a, <2>3
  <2>5. nested[p] \cup found \in SUBSET Objects
    BY <1>a, <2>1 DEF Objects
  <2>6. Touches(f, op[f], nested[p] \cup found)
    <3> HIDE DEF p
    <3> QED BY <2>1, <2>2, <2>3, <2>4 DEF Touches, p
  <2> QED BY <2>1, <2>5, <2>6
<1>3. CASE TfApply(f) /\ ~Rests
  <2> DEFINE p == PlaceOf(f, op[f])
             want == Want(f, op[f])
  <2>1. /\ StoreOf(WorkDir(f, op[f])) = p /\ p \in Stores
        /\ dirs[WorkDir(f, op[f])].docs.want = want
        /\ op[f] \in Confs[f] /\ op[f] \in Conf /\ ~op[f].modeB
        /\ dirs[WorkDir(f, op[f])].backend = op[f].key
    BY <1>3, WorksAtHome DEF TfApply
  <2>2. pc[f] = "apply" /\ stray' = stray /\
        \E got \in SUBSET (nested[p] \cup want), o \in {outs[p], want, {}} :
           Provision(p, got) /\ Output(p, o)
    BY <1>3, <2>1 DEF TfApply, Rests
  <2>3. PICK got \in SUBSET (nested[p] \cup want), o \in {outs[p], want, {}} :
           Provision(p, got) /\ Output(p, o)
    BY <2>2
  <2>4. got \in SUBSET Objects
    BY <1>a, <2>1, WantTyped
  <2> HIDE DEF want
  <2>5. \A x \in got : x \in nested[p] \/ x \in want
    BY <2>3
  <2> QED BY <1>b, <2>1, <2>2, <2>3, <2>4, <2>5 DEF want
<1>4. CASE Deploy(f) /\ ~Rests
  <2>1. pc[f] = "deploy" /\ op[f] \in Confs[f] /\ op[f] \in Conf /\ op[f].modeB
    BY <1>4, UnderwayTyped DEF Deploy, Underway
  <2>2. PlaceOf(f, op[f]) = f /\ Want(f, op[f]) \in SUBSET Objects
    BY <2>1, PlaceTyped, WantTyped
  <2>3. /\ nested' = [nested EXCEPT ![f] = Want(f, op[f])]
        /\ outs' = [outs EXCEPT ![f] = Want(f, op[f])]
        /\ UNCHANGED <<taken, stray>>
    BY <1>4 DEF Deploy, Output, Rests
  <2>4. Touches(f, op[f], Want(f, op[f]))
    BY <2>1, <2>2, <2>3 DEF Touches
  <2> QED BY <2>1, <2>2, <2>4
<1>5. CASE Destroy(f) /\ ~Rests
  <2>0. pc[f] = "destroy" /\ dirs[WorkDir(f, op[f])].backend # Uninit /\ stray' = stray
    BY <1>5 DEF Destroy, Rests
  <2>1. PICK c \in Confs[f] :
          /\ c \in Conf /\ ~c.modeB /\ dirs[WorkDir(f, c)].backend = c.key
          /\ StoreOf(WorkDir(f, op[f])) = PlaceOf(f, c)
    BY <2>0, DestroysAtHome
  <2> DEFINE p == PlaceOf(f, c)
  <2>2. p \in Stores
    BY <2>1, PlaceTyped
  <2>3. \E got \in SUBSET Found(p), o \in {outs[p], {}} : Provision(p, got) /\ Output(p, o)
    BY <1>5, <2>1 DEF Destroy, Rests
  <2>4. PICK got \in SUBSET Found(p), o \in {outs[p], {}} : Provision(p, got) /\ Output(p, o)
    BY <2>3
  <2>5. got \in SUBSET Objects /\ \A x \in got : x \in nested[p]
    BY <1>a, <2>2, <2>4 DEF Found
  <2> QED BY <1>b, <2>0, <2>1, <2>4, <2>5
<1>6. CASE DestroyManaged(f) /\ ~Rests
  <2>1. pc[f] = "destroyB" /\ op[f] \in Confs[f] /\ op[f] \in Conf /\ op[f].modeB
    BY <1>6, UnderwayTyped DEF DestroyManaged, Underway
  <2>2. PlaceOf(f, op[f]) = f
    BY <2>1, PlaceTyped
  <2>3. /\ nested' = [nested EXCEPT ![f] = {}]
        /\ outs' = [outs EXCEPT ![f] = {}]
        /\ UNCHANGED <<taken, stray>>
    BY <1>6 DEF DestroyManaged, Output, Rests
  <2>4. Touches(f, op[f], {})
    BY <2>1, <2>2, <2>3 DEF Touches
  <2> QED BY <2>1, <2>4
<1> QED BY <1>1, <1>2, <1>3, <1>4, <1>5, <1>6
        DEF Step, Apply, Delete, Begin, WriteConfig, TfInit, Outputs, Read, BeginDelete, Rests, cloud

\* What comes to and goes from a place that f touches is f's.
LEMMA TouchesOwn ==
  ASSUME TypeOK, OwnPlaces, OwnStores, NEW f \in Envs, NEW c \in Confs[f],
         NEW got \in SUBSET Objects, Touches(f, c, got)
  PROVE  /\ PlaceOf(f, c) \in Stores
         /\ \A o \in got : o \in Mine[f]
         /\ \A o \in nested[PlaceOf(f, c)] : o \in Mine[f]
         /\ nested'[PlaceOf(f, c)] = got
         /\ \A s \in Stores : s # PlaceOf(f, c) => nested'[s] = nested[s] /\ outs'[s] = outs[s]
<1>1. PlaceOf(f, c) \in Stores
  BY ConfTyped, PlaceTyped
<1>2. \A o \in nested[PlaceOf(f, c)] : o \in Mine[f]
  BY OwnedByPlace
<1>3. \A o \in got : o \in Mine[f]
  BY <1>2, MineHas DEF Touches
<1> QED BY <1>1, <1>2, <1>3 DEF Touches, TypeOK

\* No step of another environment touches a place or a work dir of e.
LEMMA PlaceFrame ==
  ASSUME TypeOK, Underway, OwnPlaces, OwnInv, NEW f \in Envs, Step(f),
         NEW e \in Envs, e # f, NEW b \in Confs[e]
  PROVE  /\ nested'[PlaceOf(e, b)] = nested[PlaceOf(e, b)]
         /\ outs'[PlaceOf(e, b)] = outs[PlaceOf(e, b)]
         /\ ~b.modeB => dirs'[WorkDir(e, b)] = dirs[WorkDir(e, b)]
<1>1. b \in Conf /\ PlaceOf(e, b) \in Stores /\ WorkDir(e, b) \in Dirs
  BY ConfTyped, PlaceTyped, WorkDirTyped
<1>2. nested'[PlaceOf(e, b)] = nested[PlaceOf(e, b)] /\ outs'[PlaceOf(e, b)] = outs[PlaceOf(e, b)]
  <2>1. CASE Rests
    BY <2>1 DEF Rests
  <2>2. ASSUME NEW c \in Confs[f], NEW got \in SUBSET Objects, Touches(f, c, got)
        PROVE  nested'[PlaceOf(e, b)] = nested[PlaceOf(e, b)] /\ outs'[PlaceOf(e, b)] = outs[PlaceOf(e, b)]
    BY <1>1, <2>2, PlacesApart, TouchesOwn DEF OwnInv
  <2> QED BY <2>1, <2>2, CloudStep DEF OwnInv
<1>3. ASSUME ~b.modeB
      PROVE  dirs'[WorkDir(e, b)] = dirs[WorkDir(e, b)]
  <2>1. ASSUME pc[f] \in {"write", "init"}
        PROVE  WorkDir(f, op[f]) # WorkDir(e, b)
    <3>1. op[f] \in Confs[f] /\ ~op[f].modeB
      BY <2>1, UnderwayTyped DEF Underway
    <3> QED BY <1>3, <3>1, PlacesApart
  <2> QED BY <1>1, <2>1, DirsChange
<1> QED BY <1>2, <1>3

\* The documents and the state an operation works on stay its own.
LEMMA WrittenStep ==
  ASSUME TypeOK, Underway, OwnPlaces, OwnInv, [Next]_vars
  PROVE  Written'
<1> DEFINE Docs(e) == pc[e] \in {"init", "adopt", "apply", "outputs"}
                        => dirs[WorkDir(e, op[e])].docs = DocsOf(e, op[e])
           Backend(e) == pc[e] \in {"adopt", "apply", "outputs"}
                           => dirs[WorkDir(e, op[e])].backend = op[e].key
           Objs(e) == pc[e] = "outputs" => /\ nested[PlaceOf(e, op[e])] = Want(e, op[e])
                                           /\ outs[PlaceOf(e, op[e])] = Want(e, op[e])
<1> SUFFICES ASSUME NEW e \in Envs
             PROVE  Docs(e)' /\ Backend(e)' /\ Objs(e)'
  BY DEF Written, WorkDir, DocsOf, PlaceOf, Want, ObjectOf
<1>a. Docs(e) /\ Backend(e) /\ Objs(e)
  BY DEF OwnInv, Written
<1> USE DEF WorkDir, DocsOf, PlaceOf, Want, ObjectOf
<1>1. CASE UNCHANGED vars
  BY <1>a, <1>1 DEF vars, cloud
<1> USE DEF TypeOK, Finish, Fail, GoTo
<1>8. ASSUME pc'[e] \notin {"init", "adopt", "apply", "outputs"}
      PROVE  Docs(e)' /\ Backend(e)' /\ Objs(e)'
  BY <1>8
<1>2. CASE NewRunner
  BY <1>2 DEF NewRunner
<1>9. CASE Begin(e)           BY <1>8, <1>9 DEF Begin
<1>10. CASE Outputs(e)        BY <1>8, <1>10 DEF Outputs
<1>11. CASE Deploy(e)         BY <1>8, <1>11 DEF Deploy
<1>12. CASE Read(e)           BY <1>8, <1>12 DEF Read
<1>13. CASE BeginDelete(e)    BY <1>8, <1>13 DEF BeginDelete
<1>14. CASE Destroy(e)        BY <1>8, <1>14 DEF Destroy, Forget
<1>15. CASE DestroyManaged(e) BY <1>8, <1>15 DEF DestroyManaged, Forget
<1>3. ASSUME NEW f \in Envs, Step(f), f # e
      PROVE  Docs(e)' /\ Backend(e)' /\ Objs(e)'
  <2>1. pc'[e] = pc[e] /\ op'[e] = op[e]
    BY <1>3, Bookkeeping
  <2>2. CASE pc[e] \in {"init", "adopt", "apply", "outputs"}
    <3>1. op[e] \in Confs[e] /\ ~op[e].modeB
      BY <2>2, UnderwayTyped DEF Underway
    <3>2. /\ nested'[PlaceOf(e, op[e])] = nested[PlaceOf(e, op[e])]
          /\ outs'[PlaceOf(e, op[e])] = outs[PlaceOf(e, op[e])]
          /\ dirs'[WorkDir(e, op[e])] = dirs[WorkDir(e, op[e])]
      BY <1>3, <3>1, PlaceFrame
    <3> QED BY <1>a, <2>1, <3>2
  <2> QED BY <2>1, <2>2
<1>4. CASE WriteConfig(e)
  <2>1. WorkDir(e, op[e]) \in Dirs
    BY <1>4, UnderwayTyped DEF WriteConfig
  <2>2. CASE pc'[e] = "idle"
    BY <1>8, <2>2
  <2>3. CASE pc'[e] # "idle"
    <3>1. dirs' = [dirs EXCEPT ![WorkDir(e, op[e])].docs = DocsOf(e, op[e])] /\ op' = op /\ pc'[e] = "init"
      BY <1>4, <2>3 DEF WriteConfig
    <3>2. dirs'[WorkDir(e, op[e])].docs = DocsOf(e, op[e])
      BY <2>1, <3>1
    <3> QED BY <3>1, <3>2
  <2> QED BY <2>2, <2>3
<1>5. CASE TfInit(e)
  <2>1. WorkDir(e, op[e]) \in Dirs /\ op[e] \in Conf
    BY <1>5, UnderwayTyped DEF TfInit
  <2>2. CASE pc'[e] = "idle"
    BY <1>8, <2>2
  <2>3. CASE pc'[e] # "idle"
    <3>1. /\ dirs' = [dirs EXCEPT ![WorkDir(e, op[e])].backend = dirs[WorkDir(e, op[e])].docs.key]
          /\ op' = op /\ pc'[e] = "adopt" /\ pc[e] = "init"
      BY <1>5, <2>3 DEF TfInit
    <3>2. dirs[WorkDir(e, op[e])].docs = DocsOf(e, op[e]) /\ DocsOf(e, op[e]).key = op[e].key
      BY <1>a, <2>1, <3>1, DocsTyped
    <3>3. /\ dirs'[WorkDir(e, op[e])].docs = dirs[WorkDir(e, op[e])].docs
          /\ dirs'[WorkDir(e, op[e])].backend = dirs[WorkDir(e, op[e])].docs.key
      BY <2>1, <3>1, DirTyped
    <3> QED BY <3>1, <3>2, <3>3
  <2> QED BY <2>2, <2>3
<1>6. CASE Adopt(e)
  BY <1>6, <1>a DEF Adopt
<1>7. CASE TfApply(e)
  <2>1. CASE pc'[e] = "idle"
    BY <1>8, <2>1
  <2>2. CASE pc'[e] # "idle"
    <3>1. /\ StoreOf(WorkDir(e, op[e])) = PlaceOf(e, op[e]) /\ PlaceOf(e, op[e]) \in Stores
          /\ dirs[WorkDir(e, op[e])].docs.want = Want(e, op[e])
      BY <1>7, WorksAtHome DEF TfApply, OwnInv
    <3>2. /\ Provision(StoreOf(WorkDir(e, op[e])), dirs[WorkDir(e, op[e])].docs.want)
          /\ Output(StoreOf(WorkDir(e, op[e])), dirs[WorkDir(e, op[e])].docs.want)
          /\ op' = op /\ pc'[e] = "outputs" /\ dirs' = dirs /\ pc[e] = "apply"
      BY <1>7, <2>2 DEF TfApply
    <3>3. nested'[PlaceOf(e, op[e])] = Want(e, op[e]) /\ outs'[PlaceOf(e, op[e])] = Want(e, op[e])
      BY <3>1, <3>2 DEF Provision, Output
    <3> QED BY <1>a, <3>2, <3>3
  <2> QED BY <2>1, <2>2
<1> QED BY <1>1, <1>2, <1>3, <1>4, <1>5, <1>6, <1>7, <1>9, <1>10, <1>11, <1>12, <1>13, <1>14, <1>15
        DEF Next, Step, Apply, Delete

\* An operation that ends in a success ends by one of these steps, which leave the
\* cloud and the dirs as they are, or by a deploy.
LEMMA Successes ==
  ASSUME TypeOK, Underway, NEW e \in Envs, Step(e), pc'[e] = "idle", last'[e] = "applied"
  PROVE  \/ /\ pc[e] = "outputs" /\ UNCHANGED <<dirs, cloud>>
            /\ tf'[e] = [conf |-> op[e], outputs |-> outs[StoreOf(WorkDir(e, op[e]))]]
         \/ /\ pc[e] = "deploy"
            /\ nested' = [nested EXCEPT ![e] = Want(e, op[e])]
            /\ outs' = [outs EXCEPT ![e] = Want(e, op[e])]
            /\ UNCHANGED <<dirs, taken, stray>>
            /\ tf'[e] = [conf |-> op[e], outputs |-> Want(e, op[e])]
         \/ /\ pc[e] = "idle" /\ last[e] = "applied" /\ UNCHANGED <<dirs, cloud>>
            /\ tf'[e] = [conf |-> tf[e].conf, outputs |-> OutputsRead(e)]
<1> USE DEF TypeOK, Finish, Fail, GoTo, Forget
<1>1. CASE Begin(e)           BY <1>1, UnderwayTyped DEF Begin
<1>2. CASE WriteConfig(e)     BY <1>2 DEF WriteConfig
<1>3. CASE TfInit(e)          BY <1>3 DEF TfInit
<1>4. CASE Adopt(e)           BY <1>4 DEF Adopt
<1>5. CASE TfApply(e)         BY <1>5 DEF TfApply
<1>6. CASE Outputs(e)         BY <1>6 DEF Outputs, Record
<1>7. CASE Deploy(e)
  <2>1. ~Fail(e)
    BY <1>7 DEF Deploy
  <2> QED BY <1>7, <2>1 DEF Deploy, Record, Output
<1>8. CASE Read(e)
  <2>1. Record(e, tf[e].conf, OutputsRead(e))
    BY <1>8, ReadTyped
  <2>2. tf'[e] = [conf |-> tf[e].conf, outputs |-> OutputsRead(e)]
    BY <2>1 DEF Record
  <2> QED BY <1>8, <2>2 DEF Read
<1>9. CASE BeginDelete(e)     BY <1>9 DEF BeginDelete
<1>10. CASE Destroy(e)        BY <1>10 DEF Destroy
<1>11. CASE DestroyManaged(e) BY <1>11 DEF DestroyManaged
<1> QED BY <1>1, <1>2, <1>3, <1>4, <1>5, <1>6, <1>7, <1>8, <1>9, <1>10, <1>11
        DEF Step, Apply, Delete

\* The outputs of an environment that was applied stay where it reads them.
LEMMA RefreshedStep ==
  ASSUME TypeOK, Underway, OwnPlaces, OwnInv, [Next]_vars
  PROVE  Refreshed' /\ OutputsMatch'
<1> DEFINE Here(e) == LET c == tf[e].conf IN
                        /\ ~c.modeB => dirs[WorkDir(e, c)].backend = c.key
                        /\ outs[PlaceOf(e, c)] = Want(e, c)
                        /\ tf[e].outputs = Want(e, c)
<1> SUFFICES ASSUME NEW e \in Envs, e \in Kept, pc'[e] = "idle", last'[e] = "applied"
             PROVE  Here(e)'
  BY MineFixed DEF Refreshed, OutputsMatch, Kept, WorkDir, PlaceOf, Want, ObjectOf
<1>a. pc[e] = "idle" /\ last[e] = "applied" => Here(e) /\ tf[e].conf \in Confs[e] /\ tf[e].conf \in Conf
  BY RecordTyped DEF OwnInv, Refreshed, OutputsMatch, Underway
<1> USE DEF WorkDir, PlaceOf, Want, ObjectOf
<1>1. CASE UNCHANGED vars
  BY <1>a, <1>1 DEF vars, cloud
<1>2. CASE NewRunner
  <2> DEFINE c == tf[e].conf
  <2>1. Here(e) /\ c \in Confs[e] /\ c \in Conf /\ tf' = tf
    BY <1>a, <1>2 DEF NewRunner
  <2>2. ~c.modeB => WorkDir(e, c) \in Dirs /\ WorkDir(e, c) \notin Ephemeral
    BY <2>1, WorkDirTyped DEF Kept
  <2>3. PlaceOf(e, c) \in Stores /\ PlaceOf(e, c) \notin Ephemeral
    <3>1. c.key \in Keys \cup {Local}
      BY <2>1 DEF Conf
    <3> HIDE DEF WorkDir
    <3> QED BY <2>1, <2>2, <3>1, PlaceTyped, EphemeralAssumption, NamesAssumption
  <2>4. ~c.modeB => dirs'[WorkDir(e, c)] = dirs[WorkDir(e, c)]
    BY <1>2, <2>2 DEF NewRunner
  <2>5. outs'[PlaceOf(e, c)] = outs[PlaceOf(e, c)]
    BY <1>2, <2>3 DEF NewRunner
  <2> QED BY <2>1, <2>4, <2>5
<1>3. ASSUME NEW f \in Envs, Step(f), f # e
      PROVE  Here(e)'
  <2>1. pc'[e] = pc[e] /\ last'[e] = last[e] /\ tf'[e] = tf[e]
    BY <1>3, Bookkeeping
  <2>2. tf[e].conf \in Confs[e] /\ Here(e)
    BY <1>a, <2>1
  <2>3. /\ outs'[PlaceOf(e, tf[e].conf)] = outs[PlaceOf(e, tf[e].conf)]
        /\ ~tf[e].conf.modeB => dirs'[WorkDir(e, tf[e].conf)] = dirs[WorkDir(e, tf[e].conf)]
    BY <1>3, <2>2, PlaceFrame
  <2> QED BY <2>1, <2>2, <2>3
<1>4. CASE Step(e)
  <2>1. CASE /\ pc[e] = "outputs" /\ UNCHANGED <<dirs, cloud>>
             /\ tf'[e] = [conf |-> op[e], outputs |-> outs[StoreOf(WorkDir(e, op[e]))]]
    <3>1. /\ dirs[WorkDir(e, op[e])].backend = op[e].key
          /\ StoreOf(WorkDir(e, op[e])) = PlaceOf(e, op[e])
          /\ outs[PlaceOf(e, op[e])] = Want(e, op[e])
      BY <2>1, WorksAtHome DEF OwnInv, Written
    <3> QED BY <2>1, <3>1 DEF cloud
  <2>2. CASE /\ pc[e] = "deploy"
             /\ outs' = [outs EXCEPT ![e] = Want(e, op[e])]
             /\ tf'[e] = [conf |-> op[e], outputs |-> Want(e, op[e])]
    <3>1. op[e] \in Conf /\ op[e].modeB
      BY <2>2, UnderwayTyped DEF Underway
    <3>2. outs'[e] = Want(e, op[e])
      BY <2>2 DEF TypeOK, Stores
    <3>3. tf'[e].conf = op[e] /\ tf'[e].outputs = Want(e, op[e])
      BY <2>2
    <3> QED BY <3>1, <3>2, <3>3
  <2>3. CASE /\ pc[e] = "idle" /\ last[e] = "applied" /\ UNCHANGED <<dirs, cloud>>
             /\ tf'[e] = [conf |-> tf[e].conf, outputs |-> OutputsRead(e)]
    <3> DEFINE c == tf[e].conf
    <3>1. Here(e) /\ c \in Conf
      BY <1>a, <2>3
    <3>2. c.key # Uninit /\ c.modeB \in BOOLEAN
      BY <3>1, NamesAssumption DEF Conf
    <3>3. OutputsRead(e) = outs[PlaceOf(e, c)]
      <4>1. CASE c.modeB
        BY <4>1 DEF OutputsRead
      <4>2. CASE ~c.modeB
        <5>1. dirs[WorkDir(e, c)].backend = c.key
          BY <3>1, <4>2
        <5>2. StoreOf(WorkDir(e, c)) = PlaceOf(e, c)
          BY <4>2, <5>1 DEF StoreOf
        <5> HIDE DEF WorkDir, PlaceOf
        <5> QED BY <3>2, <4>2, <5>1, <5>2 DEF OutputsRead
      <4> QED BY <3>2, <4>1, <4>2
    <3> QED BY <2>3, <3>1, <3>3 DEF cloud
  <2> HIDE DEF WorkDir, PlaceOf, Want, ObjectOf
  <2> QED BY <1>4, <2>1, <2>2, <2>3, Successes
<1> QED BY <1>1, <1>2, <1>3, <1>4 DEF Next, Step

\* A dir is initialised only by an operation of its environment.
LEMMA OwnDirsStep ==
  ASSUME TypeOK, Underway, Written, OwnDirs, [Next]_vars
  PROVE  OwnDirs'
<1> SUFFICES ASSUME NEW d \in Dirs, dirs'[d].backend # Uninit
             PROVE  \E e \in Envs : \E c \in Confs[e] :
                      ~c.modeB /\ WorkDir(e, c) = d /\ dirs'[d].backend = c.key
  BY DEF OwnDirs, WorkDir
<1>1. CASE dirs'[d].backend = dirs[d].backend
  BY <1>1 DEF OwnDirs
<1>2. CASE NewRunner
  BY <1>1, <1>2 DEF NewRunner
<1>3. ASSUME NEW f \in Envs, TfInit(f), dirs' # dirs
      PROVE  \E e \in Envs : \E c \in Confs[e] :
               ~c.modeB /\ WorkDir(e, c) = d /\ dirs'[d].backend = c.key
  <2>1. op[f] \in Confs[f] /\ op[f] \in Conf /\ ~op[f].modeB /\ WorkDir(f, op[f]) \in Dirs
    BY <1>3, UnderwayTyped DEF TfInit, Underway
  <2>2. dirs[WorkDir(f, op[f])].docs.key = op[f].key
    BY <1>3, <2>1, DocsTyped DEF Written, TfInit
  <2>3. dirs' = [dirs EXCEPT ![WorkDir(f, op[f])].backend = dirs[WorkDir(f, op[f])].docs.key]
    BY <1>3 DEF TfInit
  <2>4. CASE d = WorkDir(f, op[f])
    <3>1. dirs'[d].backend = op[f].key
      BY <2>1, <2>2, <2>3, <2>4, DirTyped DEF TypeOK
    <3> QED BY <2>1, <2>4, <3>1
  <2>5. CASE d # WorkDir(f, op[f])
    BY <1>1, <2>3, <2>5 DEF TypeOK
  <2> QED BY <2>4, <2>5
<1>4. ASSUME NEW f \in Envs, WriteConfig(f)
      PROVE  dirs'[d].backend = dirs[d].backend
  <2>1. WorkDir(f, op[f]) \in Dirs
    BY <1>4, UnderwayTyped DEF WriteConfig
  <2>2. dirs' = dirs \/ \E x : dirs' = [dirs EXCEPT ![WorkDir(f, op[f])].docs = x]
    BY <1>4 DEF WriteConfig
  <2> QED BY <2>1, <2>2, DirTyped DEF TypeOK
<1> QED BY <1>1, <1>2, <1>3, <1>4
        DEF Next, vars, Apply, Delete, Begin, TfInit, Adopt, TfApply, Outputs, Deploy, Read, BeginDelete,
            Destroy, DestroyManaged

\* Objects are tracked only where their environment's configurations say.
LEMMA OwnStoresStep ==
  ASSUME TypeOK, Underway, OwnPlaces, OwnInv, [Next]_vars
  PROVE  OwnStores'
<1> SUFFICES ASSUME NEW s \in Stores, NEW o \in nested'[s]
             PROVE  \E e \in Envs : o \in Mine[e] /\ \E c \in Confs[e] : s = PlaceOf(e, c)
  BY MineFixed DEF OwnStores, PlaceOf, WorkDir
<1>1. CASE o \in nested[s]
  BY <1>1 DEF OwnInv, OwnStores
<1>2. CASE NewRunner \/ UNCHANGED vars
  BY <1>1, <1>2 DEF NewRunner, vars, cloud
<1>3. ASSUME NEW f \in Envs, Step(f)
      PROVE  \E e \in Envs : o \in Mine[e] /\ \E c \in Confs[e] : s = PlaceOf(e, c)
  <2>1. CASE Rests
    BY <1>1, <2>1 DEF Rests
  <2>2. ASSUME NEW c \in Confs[f], NEW got \in SUBSET Objects, Touches(f, c, got)
        PROVE  \E e \in Envs : o \in Mine[e] /\ \E b \in Confs[e] : s = PlaceOf(e, b)
    BY <1>1, <2>2, TouchesOwn DEF OwnInv
  <2> QED BY <1>3, <2>1, <2>2, CloudStep DEF OwnInv
<1> QED BY <1>2, <1>3 DEF Next, Step

-----------------------------------------------------------------------------
(* Where no two environments use one name either.                            *)

LEMMA NamesApart ==
  ASSUME OwnNames, NEW e \in Envs, NEW f \in Envs, e # f
  PROVE  \A o : ~(o \in Mine[e] /\ o \in Mine[f])
<1> SUFFICES ASSUME NEW o, o \in Mine[e], o \in Mine[f] PROVE FALSE
  OBVIOUS
<1>1. PICK c \in Confs[e] : o \in Want(e, c)
  BY DEF Mine
<1>2. PICK b \in Confs[f] : o \in Want(f, b)
  BY DEF Mine
<1> QED BY <1>1, <1>2 DEF OwnNames

\* A step leaves the objects of the other environments alone.
LEMMA OthersFrame ==
  ASSUME TypeOK, Underway, OwnPlaces, OwnNames, OwnInv, NEW f \in Envs, Step(f),
         NEW e \in Envs, e # f
  PROVE  /\ \A o \in Mine[e] : /\ \A s \in Stores : o \in nested'[s] <=> o \in nested[s]
                               /\ o \in taken' <=> o \in taken
         /\ stray' = stray
<1>1. CASE Rests
  BY <1>1 DEF Rests
<1>2. ASSUME NEW c \in Confs[f], NEW got \in SUBSET Objects, Touches(f, c, got)
      PROVE  /\ \A o \in Mine[e] : /\ \A s \in Stores : o \in nested'[s] <=> o \in nested[s]
                                   /\ o \in taken' <=> o \in taken
             /\ stray' = stray
  <2>1. ASSUME NEW o \in Mine[e]
        PROVE  o \notin got /\ o \notin nested[PlaceOf(f, c)]
    BY <1>2, <2>1, TouchesOwn, NamesApart DEF OwnInv
  <2>2. \A s \in Stores : s = PlaceOf(f, c) \/ nested'[s] = nested[s]
    BY <1>2, TouchesOwn DEF OwnInv
  <2>3. nested'[PlaceOf(f, c)] = got
    BY <1>2, TouchesOwn DEF OwnInv
  <2> QED BY <1>2, <2>1, <2>2, <2>3 DEF Touches
<1> QED BY <1>1, <1>2, CloudStep DEF OwnInv

\* What exists of an environment, object by object.
LEMMA LiveHas ==
  ASSUME NEW e \in Envs
  PROVE  /\ \A o : o \in Live(e) <=> o \in Mine[e] /\
                (o \in taken \/ o \in stray \/ (o \notin Named /\ \E s \in Stores : o \in nested[s]))
         /\ \A o : o \in Live(e)' <=> o \in Mine[e] /\
                (o \in taken' \/ o \in stray' \/ (o \notin Named /\ \E s \in Stores : o \in nested'[s]))
         /\ \A o : o \in Tracked(e) <=> o \in Mine[e] /\ \E s \in Stores : o \in nested[s]
         /\ \A o : o \in Tracked(e)' <=> o \in Mine[e] /\ \E s \in Stores : o \in nested'[s]
<1>1. /\ Live(e) = Mine[e] \cap (taken \cup stray \cup ((UNION {nested[s] : s \in Stores}) \ Named))
      /\ Tracked(e) = Mine[e] \cap UNION {nested[s] : s \in Stores}
  BY Zenon DEF Live, Tracked
<1>2. /\ Live(e)' = Mine[e] \cap (taken' \cup stray' \cup ((UNION {nested'[s] : s \in Stores}) \ Named))
      /\ Tracked(e)' = Mine[e] \cap UNION {nested'[s] : s \in Stores}
  BY MineFixed, Zenon DEF Live, Tracked
<1>3. \A o : o \in UNION {nested[s] : s \in Stores} <=> \E s \in Stores : o \in nested[s]
  OBVIOUS
<1>4. \A o : o \in UNION {nested'[s] : s \in Stores} <=> \E s \in Stores : o \in nested'[s]
  OBVIOUS
<1> QED BY <1>1, <1>2, <1>3, <1>4

\* Nothing an environment has changes while it does nothing.
LEMMA LiveFrame ==
  ASSUME TypeOK, Underway, OwnPlaces, OwnNames, OwnInv, [Next]_vars,
         NEW e \in Envs, pc[e] = "idle", pc'[e] = "idle"
  PROVE  Live(e)' = Live(e) /\ last'[e] = last[e]
<1> DEFINE Lives(o) == o \in taken \/ o \in stray \/ (o \notin Named /\ \E s \in Stores : o \in nested[s])
           Lives2(o) == o \in taken' \/ o \in stray' \/ (o \notin Named /\ \E s \in Stores : o \in nested'[s])
<1>a. ASSUME \A o \in Mine[e] : Lives2(o) <=> Lives(o)
      PROVE  Live(e)' = Live(e)
  <2>1. \A o : o \in Live(e)' <=> o \in Live(e)
    BY <1>a, LiveHas
  <2> HIDE DEF Lives, Lives2
  <2> QED BY <2>1
<1>1. CASE UNCHANGED cloud /\ last' = last
  BY <1>a, <1>1 DEF cloud
<1>2. CASE NewRunner
  <2>1. \A s \in Stores : nested'[s] = IF s \in Ephemeral THEN {} ELSE nested[s]
    BY <1>2 DEF NewRunner
  <2>2. \A o : o \in stray' <=> o \in stray \/ (o \notin Named /\ \E d \in Ephemeral : o \in nested[d])
    BY <1>2 DEF NewRunner
  <2>3. Ephemeral \subseteq Stores
    BY EphemeralAssumption DEF Stores
  <2>4. taken' = taken /\ last' = last
    BY <1>2 DEF NewRunner
  <2>5. \A o \in Mine[e] : Lives2(o) <=> Lives(o)
    BY <2>1, <2>2, <2>3, <2>4
  <2> QED BY <1>a, <2>4, <2>5
<1>3. ASSUME NEW f \in Envs, Step(f), f # e
      PROVE  Live(e)' = Live(e) /\ last'[e] = last[e]
  <2>1. \A o \in Mine[e] : Lives2(o) <=> Lives(o)
    BY <1>3, OthersFrame
  <2> QED BY <1>3, <2>1, <1>a, Bookkeeping
<1>4. ASSUME Step(e)
      PROVE  UNCHANGED cloud /\ last' = last
  <2>1. CASE Begin(e) \/ BeginDelete(e) \/ Read(e)
    BY <2>1 DEF Begin, BeginDelete, Read
  <2> QED BY <1>4, <2>1 DEF Step, Apply, Delete, WriteConfig, TfInit, Adopt, TfApply, Outputs, Deploy,
                            Destroy, DestroyManaged
<1> QED BY <1>1, <1>2, <1>3, <1>4 DEF Next, vars, Step
-----------------------------------------------------------------------------
(* Where every environment keeps its place too.                              *)

\* All an environment has tracked is where a configuration that is in force looks.
LEMMA OnePlace ==
  ASSUME TypeOK, StablePlaces, AtHome, NEW e \in Envs, NEW c \in Confs[e],
         c.modeB \/ dirs[WorkDir(e, c)].backend = c.key
  PROVE  \A s \in Stores : \A o \in nested[s] : o \in Mine[e] => s = PlaceOf(e, c)
<1> SUFFICES ASSUME NEW s \in Stores, NEW o \in nested[s], o \in Mine[e]
             PROVE  s = PlaceOf(e, c)
  OBVIOUS
<1>1. PICK b \in Confs[e] : s = PlaceOf(e, b) /\ Finds(e, b)
  BY DEF AtHome
<1>2. c \in Conf /\ b \in Conf /\ c.modeB = b.modeB
  BY ConfTyped DEF StablePlaces
<1>3. CASE c.modeB
  BY <1>1, <1>2, <1>3 DEF PlaceOf
<1>4. CASE ~c.modeB
  <2>1. WorkDir(e, c) = WorkDir(e, b) /\ dirs[WorkDir(e, b)].backend = c.key
    BY <1>4 DEF StablePlaces
  <2>2. c.key # Uninit
    BY <1>2, NamesAssumption DEF Conf
  <2>3. b.key = c.key
    BY <1>1, <1>2, <1>4, <2>1, <2>2 DEF Finds
  <2> QED BY <1>1, <1>2, <1>4, <2>1, <2>3 DEF PlaceOf
<1> QED BY <1>3, <1>4

\* What an environment in Mode B asks for has no name in the account.
LEMMA ManagedUnnamed ==
  ASSUME StablePlaces, NEW f \in Envs, NEW c \in Confs[f], c.modeB
  PROVE  \A o \in Mine[f] : o \notin Named
<1> SUFFICES ASSUME NEW o \in Mine[f] PROVE o \notin Named
  OBVIOUS
<1>1. PICK b \in Confs[f] : o \in Want(f, b)
  BY DEF Mine
<1>2. b.modeB /\ b \in Conf
  BY ConfTyped DEF StablePlaces
<1>3. o \in {f} \X b.ver
  BY <1>1, <1>2 DEF Want
<1> QED BY <1>3, NamesAssumption DEF Named

\* A name that is tracked exists, also where an import found it.
LEMMA ExistsStep ==
  ASSUME TypeOK, Underway, OwnPlaces, StablePlaces, OwnInv, AtHome, Exists, [Next]_vars
  PROVE  Exists'
<1> SUFFICES ASSUME NEW s \in Stores, NEW o \in nested'[s], o \in Named
             PROVE  o \in taken'
  BY DEF Exists, Named
<1>a. o \in nested[s] => o \in taken
  BY DEF Exists
<1>1. CASE UNCHANGED vars
  BY <1>a, <1>1 DEF vars, cloud
<1>2. CASE NewRunner
  BY <1>a, <1>2 DEF NewRunner
<1>3. ASSUME NEW f \in Envs, NEW c \in Confs[f], NEW got \in SUBSET Objects, Touches(f, c, got)
      PROVE  o \in taken'
  <2> DEFINE p == PlaceOf(f, c)
  <2>1. p \in Stores /\ nested'[p] = got /\ (s # p => nested'[s] = nested[s])
    BY <1>3, TouchesOwn DEF OwnInv
  <2>2. o \in Mine[f] \/ (s # p /\ o \notin got /\ o \notin nested[p])
    BY <1>3, <2>1, TouchesOwn DEF OwnInv
  <2>3. CASE s = p /\ ~c.modeB
    BY <1>3, <2>1, <2>3 DEF Touches, Exists
  <2>4. CASE s = p /\ c.modeB
    BY <2>1, <2>2, <2>4, ManagedUnnamed
  <2>5. CASE s # p
    <3>1. o \in nested[s] /\ o \in taken
      BY <1>a, <2>1, <2>5
    <3>2. o \notin nested[p]
      <4>1. o \in nested[p] => s = p
        BY <1>3, <2>2, <2>5, <3>1, OnePlace DEF Touches
      <4> QED BY <2>5, <4>1
    <3> QED BY <1>3, <3>1, <3>2 DEF Touches
  <2> QED BY <2>3, <2>4, <2>5
<1>4. CASE Rests
  BY <1>a, <1>4 DEF Rests
<1> QED BY <1>1, <1>2, <1>3, <1>4, CloudStep DEF Next, Step, OwnInv

\* Every operation leaves what is tracked where the next one looks.
LEMMA AtHomeStep ==
  ASSUME TypeOK, Underway, OwnPlaces, StablePlaces, OwnNames, OwnInv, AtHome, [Next]_vars
  PROVE  AtHome'
<1> DEFINE Finds2(e, c) ==
             \/ c.modeB
             \/ dirs'[WorkDir(e, c)].backend = c.key
             \/ dirs'[WorkDir(e, c)].backend = Uninit /\ WorkDir(e, c) \in Ephemeral
<1> SUFFICES ASSUME NEW s \in Stores, NEW o \in nested'[s], NEW e \in Envs, o \in Mine[e]
             PROVE  \E c \in Confs[e] : s = PlaceOf(e, c) /\ Finds2(e, c)
  BY MineFixed DEF AtHome, Finds, PlaceOf, WorkDir
<1>a. o \in nested[s] => \E c \in Confs[e] : s = PlaceOf(e, c) /\ Finds(e, c)
  BY DEF AtHome
<1>1. CASE o \in nested[s] /\ dirs' = dirs
  BY <1>a, <1>1 DEF Finds
<1>2. CASE UNCHANGED vars
  BY <1>1, <1>2 DEF vars, cloud
<1>3. CASE NewRunner
  <2>1. o \in nested[s]
    BY <1>3 DEF NewRunner
  <2>2. PICK c \in Confs[e] : s = PlaceOf(e, c) /\ Finds(e, c)
    BY <1>a, <2>1
  <2>3. CASE c.modeB
    BY <2>2, <2>3
  <2>4. CASE ~c.modeB
    <3>1. WorkDir(e, c) \in Dirs
      BY ConfTyped, WorkDirTyped
    <3>2. dirs'[WorkDir(e, c)] = IF WorkDir(e, c) \in Ephemeral
                                 THEN [docs |-> NoDocs, backend |-> Uninit]
                                 ELSE dirs[WorkDir(e, c)]
      BY <1>3, <3>1 DEF NewRunner
    <3> QED BY <2>2, <2>4, <3>2 DEF Finds
  <2> QED BY <2>3, <2>4
<1>4. ASSUME NEW f \in Envs, Step(f), o \in nested[s], dirs' # dirs
      PROVE  \E c \in Confs[e] : s = PlaceOf(e, c) /\ Finds2(e, c)
  <2>1. PICK c \in Confs[e] : s = PlaceOf(e, c) /\ Finds(e, c)
    BY <1>a, <1>4
  <2>2. c \in Conf /\ WorkDir(e, c) \in Dirs
    BY ConfTyped, WorkDirTyped
  <2>3. CASE c.modeB \/ dirs'[WorkDir(e, c)].backend = dirs[WorkDir(e, c)].backend
    BY <2>1, <2>3 DEF Finds
  <2>4. CASE ~c.modeB /\ dirs'[WorkDir(e, c)].backend # dirs[WorkDir(e, c)].backend
    <3>1. pc[f] \in {"write", "init"} /\ WorkDir(f, op[f]) = WorkDir(e, c)
      BY <1>4, <2>2, <2>4, DirsChange
    <3>2. op[f] \in Confs[f] /\ op[f] \in Conf /\ ~op[f].modeB
      BY <3>1, UnderwayTyped DEF Underway
    <3>3. e = f
      BY <2>4, <3>1, <3>2, PlacesApart
    <3>4. TfInit(f)
      <4>1. ASSUME WriteConfig(f)
            PROVE  FALSE
        <5>1. dirs' = dirs \/ \E x : dirs' = [dirs EXCEPT ![WorkDir(f, op[f])].docs = x]
          BY <4>1 DEF WriteConfig
        <5> QED BY <2>2, <2>4, <3>1, <5>1, DirTyped DEF TypeOK
      <4> QED BY <1>4, <4>1 DEF Step, Apply, Delete, Begin, Adopt, TfApply, Outputs, Deploy, Read,
                                BeginDelete, Destroy, DestroyManaged
    <3>5. /\ CanInit(WorkDir(e, c))
          /\ dirs' = [dirs EXCEPT ![WorkDir(e, c)].backend = dirs[WorkDir(e, c)].docs.key]
      BY <1>4, <3>1, <3>4 DEF TfInit
    <3>6. dirs'[WorkDir(e, c)].backend = dirs[WorkDir(e, c)].docs.key
      BY <2>2, <3>5, DirTyped DEF TypeOK
    <3>7. dirs[WorkDir(e, c)].docs.key = op[f].key
      BY <3>1, <3>2, <3>4, DocsTyped DEF OwnInv, Written, TfInit
    <3>8. dirs[WorkDir(e, c)].backend = Uninit
      BY <2>4, <3>5, <3>6 DEF CanInit
    <3>9. WorkDir(e, c) \in Ephemeral
      BY <2>1, <2>2, <2>4, <3>8, NamesAssumption DEF Finds, Conf
    <3>10. c.key = op[f].key
      BY <2>2, <2>4, <3>2, <3>3, <3>9 DEF StablePlaces
    <3> QED BY <2>1, <3>6, <3>7, <3>10
  <2> QED BY <2>3, <2>4
<1>5. ASSUME NEW f \in Envs, Step(f), o \notin nested[s]
      PROVE  \E c \in Confs[e] : s = PlaceOf(e, c) /\ Finds2(e, c)
  <2>1. PICK c \in Confs[f], got \in SUBSET Objects : Touches(f, c, got)
    BY <1>5, CloudStep DEF Rests, OwnInv
  <2>2. s = PlaceOf(f, c) /\ o \in got /\ o \in Mine[f]
    BY <1>5, <2>1, TouchesOwn DEF OwnInv
  <2>3. e = f
    BY <2>2, NamesApart
  <2>4. c = op[f] /\ pc[f] \in {"adopt", "apply", "deploy"}
    BY <1>5, <2>1, <2>2 DEF Touches
  <2>5. c.modeB \/ dirs[WorkDir(f, c)].backend = c.key
    BY <2>1 DEF Touches
  <2>6. dirs'[WorkDir(f, c)] = dirs[WorkDir(f, c)]
    BY <1>5, <2>4, DirsChange, ConfTyped, WorkDirTyped
  <2> QED BY <2>2, <2>3, <2>5, <2>6
<1> QED BY <1>1, <1>2, <1>3, <1>4, <1>5 DEF Next, Step

\* Only the objects of environments that may lose their work dir are lost sight of.
LEMMA NothingLostStep ==
  ASSUME TypeOK, Underway, OwnPlaces, StablePlaces, OwnInv, AtHome, NothingLost, [Next]_vars
  PROVE  NothingLost'
<1> SUFFICES ASSUME NEW e \in Kept, NEW o \in Mine[e]
             PROVE  o \notin stray' /\ (o \in taken' => \E s \in Stores : o \in nested'[s])
  <2>1. \A e \in Kept : \A o : o \in Tracked(e)' <=> o \in Mine[e] /\ \E s \in Stores : o \in nested'[s]
    BY LiveHas DEF Kept
  <2> QED BY <2>1, MineFixed DEF NothingLost
<1>a. e \in Envs
  BY DEF Kept
<1>b. o \notin stray /\ (o \in taken => \E s \in Stores : o \in nested[s])
  BY <1>a, LiveHas DEF NothingLost
<1>1. CASE UNCHANGED vars
  BY <1>b, <1>1 DEF vars, cloud
<1>2. CASE NewRunner
  <2>1. ASSUME NEW s \in Stores, o \in nested[s]
        PROVE  s \notin Ephemeral
    <3>1. PICK c \in Confs[e] : s = PlaceOf(e, c)
      BY <1>a, <2>1 DEF AtHome
    <3>2. c \in Conf /\ c.key \in Keys \cup {Local}
      BY <1>a, ConfTyped DEF Conf
    <3>3. c.modeB \/ WorkDir(e, c) \notin Ephemeral
      BY DEF Kept
    <3> QED BY <1>a, <3>1, <3>2, <3>3, EphemeralAssumption, NamesAssumption DEF PlaceOf
  <2>2. Ephemeral \subseteq Stores
    BY EphemeralAssumption DEF Stores
  <2>3. \A x \in stray' : x \in stray \/ \E d \in Ephemeral : x \in nested[d]
    BY <1>2 DEF NewRunner
  <2>4. taken' = taken /\ \A s \in Stores : s \notin Ephemeral => nested'[s] = nested[s]
    BY <1>2 DEF NewRunner
  <2> QED BY <1>b, <2>1, <2>2, <2>3, <2>4
<1>3. ASSUME NEW f \in Envs, NEW c \in Confs[f], NEW got \in SUBSET Objects, Touches(f, c, got)
      PROVE  o \notin stray' /\ (o \in taken' => \E s \in Stores : o \in nested'[s])
  <2> DEFINE p == PlaceOf(f, c)
  <2>1. p \in Stores /\ nested'[p] = got /\ \A s \in Stores : s # p => nested'[s] = nested[s]
    BY <1>3, TouchesOwn DEF OwnInv
  <2>2. o \notin stray'
    BY <1>b, <1>3 DEF Touches
  <2>3. ASSUME o \in taken', o \notin got
        PROVE  \E s \in Stores : o \in nested'[s]
    <3>1. o \in taken /\ (c.modeB \/ o \notin nested[p])
      BY <1>3, <2>3 DEF Touches
    <3>2. PICK s \in Stores : o \in nested[s]
      BY <1>b, <3>1
    <3>3. s # p
      <4>1. CASE ~c.modeB
        BY <3>1, <3>2, <4>1
      <4>2. CASE c.modeB /\ s = p
        <5>1. o \in Mine[f]
          BY <1>3, <3>2, <4>2, TouchesOwn DEF OwnInv
        <5> QED BY <3>1, <4>2, <5>1, ManagedUnnamed DEF TypeOK
      <4> QED BY <4>1, <4>2
    <3> QED BY <2>1, <3>2, <3>3
  <2> QED BY <2>1, <2>2, <2>3
<1>4. CASE Rests
  BY <1>b, <1>4 DEF Rests
<1> QED BY <1>1, <1>2, <1>3, <1>4, CloudStep DEF Next, Step, OwnInv

\* A delete that ends well has nothing left to find.
LEMMA DeletedStep ==
  ASSUME TypeOK, Underway, OwnPlaces, StablePlaces, OwnNames, OwnInv, HomeInv, NothingLost', [Next]_vars
  PROVE  DeletedLeavesNothing'
<1> SUFFICES ASSUME NEW e \in Kept, pc'[e] = "idle", last'[e] = "deleted"
             PROVE  Live(e)' = {}
  BY MineFixed DEF DeletedLeavesNothing
<1>a. e \in Envs
  BY DEF Kept
<1>b. ASSUME \A s \in Stores : \A o \in nested'[s] : o \notin Mine[e]
      PROVE  Live(e)' = {}
  <2>1. \A o \in Mine[e] : o \notin stray' /\ (o \in taken' => o \in Tracked(e)')
    BY MineFixed DEF NothingLost
  <2>2. \A o : o \notin Tracked(e)'
    BY <1>a, <1>b, LiveHas
  <2>3. \A o : o \notin Live(e)'
    BY <1>a, <1>b, <2>1, <2>2, LiveHas
  <2> QED BY <2>3
<1>1. CASE pc[e] = "idle"
  <2>1. Live(e)' = Live(e) /\ last'[e] = last[e]
    BY <1>a, <1>1, LiveFrame
  <2> QED BY <1>1, <2>1 DEF HomeInv, DeletedLeavesNothing
<1>2. CASE Destroy(e)
  <2> DEFINE d == WorkDir(e, op[e])
  <2>1. pc[e] = "destroy" /\ op[e] \in Confs[e] /\ ~op[e].modeB /\ d \in Dirs
    BY <1>2, <1>a, UnderwayTyped DEF Destroy, Underway
  <2>2. ~Fail(e)
    BY <1>a DEF Fail, Finish, TypeOK
  <2>3. CASE dirs[d].backend = Uninit
    <3>1. nested' = nested
      BY <1>2, <2>2, <2>3 DEF Destroy
    <3>2. ASSUME NEW s \in Stores, NEW o \in nested[s], o \in Mine[e]
          PROVE  FALSE
      <4>1. PICK c \in Confs[e] : s = PlaceOf(e, c) /\ Finds(e, c)
        BY <1>a, <3>2 DEF HomeInv, AtHome
      <4>2. c \in Conf /\ ~c.modeB /\ WorkDir(e, c) = d
        BY <1>a, <2>1, ConfTyped DEF StablePlaces
      <4>3. d \notin Ephemeral
        BY <2>1 DEF Kept
      <4> QED BY <2>3, <4>1, <4>2, <4>3, NamesAssumption DEF Finds, Conf
    <3> QED BY <1>b, <3>1, <3>2
  <2>4. CASE dirs[d].backend # Uninit
    <3>1. PICK c \in Confs[e] :
            /\ c \in Conf /\ ~c.modeB /\ dirs[WorkDir(e, c)].backend = c.key
            /\ StoreOf(d) = PlaceOf(e, c)
      BY <1>a, <2>1, <2>4, DestroysAtHome DEF OwnInv
    <3>2. nested' = [nested EXCEPT ![PlaceOf(e, c)] = {}]
      BY <1>2, <2>2, <2>4, <3>1 DEF Destroy, Provision
    <3>3. \A s \in Stores : \A o \in nested[s] : o \in Mine[e] => s = PlaceOf(e, c)
      BY <1>a, <3>1, OnePlace DEF HomeInv
    <3>4. \A s \in Stores : \A o \in nested'[s] : o \notin Mine[e]
      BY <3>2, <3>3 DEF TypeOK
    <3> QED BY <1>b, <3>4
  <2> QED BY <2>3, <2>4
<1>3. CASE DestroyManaged(e)
  <2>1. op[e] \in Confs[e] /\ op[e] \in Conf /\ op[e].modeB
    BY <1>3, <1>a, UnderwayTyped DEF DestroyManaged, Underway
  <2>2. ~Fail(e)
    BY <1>a DEF Fail, Finish, TypeOK
  <2>3. nested' = [nested EXCEPT ![e] = {}]
    BY <1>3, <2>2 DEF DestroyManaged
  <2>4. \A s \in Stores : \A o \in nested[s] : o \in Mine[e] => s = e
    BY <1>a, <2>1, OnePlace DEF HomeInv, PlaceOf
  <2>5. \A s \in Stores : \A o \in nested'[s] : o \notin Mine[e]
    BY <2>3, <2>4 DEF TypeOK
  <2> QED BY <1>b, <2>5
<1>4. CASE pc[e] # "idle" /\ ~Destroy(e) /\ ~DestroyManaged(e)
  <2>1. pc'[e] = pc[e] \/ Step(e)
    BY <1>4, <1>a, Bookkeeping DEF Next, Step, NewRunner, vars
  <2>2. Step(e)
    BY <1>4, <2>1
  <2> USE DEF TypeOK, Fail, Finish, GoTo
  <2>3. CASE WriteConfig(e)   BY <1>a, <2>3 DEF WriteConfig
  <2>4. CASE TfInit(e)        BY <1>a, <2>4 DEF TfInit
  <2>5. CASE Adopt(e)         BY <1>a, <2>5 DEF Adopt
  <2>6. CASE TfApply(e)       BY <1>a, <2>6 DEF TfApply
  <2>7. CASE Outputs(e)       BY <1>a, <2>7 DEF Outputs
  <2>8. CASE Deploy(e)        BY <1>a, <2>8 DEF Deploy
  <2>9. CASE Begin(e) \/ Read(e) \/ BeginDelete(e)
    BY <1>4, <2>9 DEF Begin, Read, BeginDelete
  <2> QED BY <1>4, <2>2, <2>3, <2>4, <2>5, <2>6, <2>7, <2>8, <2>9 DEF Step, Apply, Delete
<1> QED BY <1>1, <1>2, <1>3, <1>4
-----------------------------------------------------------------------------
LEMMA InitInv == Init => IInv
<1> SUFFICES ASSUME Init PROVE IInv
  OBVIOUS
<1>1. TypeOK
  <2>1. [docs |-> NoDocs, backend |-> Uninit] \in
          [docs : [want : SUBSET Objects, key : Keys \cup {Local}], backend : Keys \cup {Local, Uninit}]
    BY DEF NoDocs
  <2> QED BY <2>1 DEF Init, TypeOK
<1>2. Underway /\ Initialised
  BY DEF Init, Underway, Initialised
<1>3. OwnInv
  BY DEF Init, OwnInv, Written, Refreshed, OutputsMatch, OwnDirs, OwnStores, Kept
<1>4. HomeInv
  <2>1. Exists /\ AtHome /\ NothingLost
    BY DEF Init, Exists, AtHome, NothingLost
  <2>2. ASSUME NEW e \in Envs
        PROVE  Live(e) = {}
    <3>1. \A o : o \notin Live(e)
      BY LiveHas DEF Init
    <3> QED BY <3>1
  <2> QED BY <2>1, <2>2 DEF HomeInv, DeletedLeavesNothing, Kept
<1> QED BY <1>1, <1>2, <1>3, <1>4 DEF IInv

LEMMA StepInv == IInv /\ [Next]_vars => IInv'
<1> SUFFICES ASSUME IInv, [Next]_vars PROVE IInv'
  OBVIOUS
<1>1. TypeOK' /\ Underway' /\ Initialised'
  BY TypeStep, UnderwayStep, InitialisedStep DEF IInv
<1>2. OwnPlaces' <=> OwnPlaces
  BY DEF OwnPlaces, PlaceOf, WorkDir
<1>3. StablePlaces' <=> StablePlaces
  BY DEF StablePlaces, WorkDir
<1>4. OwnNames' <=> OwnNames
  BY DEF OwnNames, Want, ObjectOf
<1>5. ASSUME OwnPlaces
      PROVE  OwnInv'
  <2>1. OwnInv /\ Written /\ OwnDirs
    BY <1>5 DEF IInv, OwnInv
  <2>2. Written' /\ OwnDirs' /\ OwnStores' /\ Refreshed' /\ OutputsMatch'
    BY <1>5, <2>1, WrittenStep, OwnDirsStep, OwnStoresStep, RefreshedStep DEF IInv
  <2> QED BY <2>2 DEF OwnInv
<1>6. ASSUME OwnPlaces, StablePlaces, OwnNames
      PROVE  HomeInv'
  <2>1. OwnInv /\ HomeInv /\ Exists /\ AtHome /\ NothingLost
    BY <1>6 DEF IInv, HomeInv
  <2>2. Exists' /\ AtHome' /\ NothingLost'
    BY <1>6, <2>1, ExistsStep, AtHomeStep, NothingLostStep DEF IInv
  <2>3. DeletedLeavesNothing'
    BY <1>6, <2>1, <2>2, DeletedStep DEF IInv
  <2> QED BY <2>2, <2>3 DEF HomeInv
<1> QED BY <1>1, <1>2, <1>3, <1>4, <1>5, <1>6 DEF IInv

\* IInv is an invariant for every value of the constants; the second layer holds
\* where the places are the environments' own, the third where they are kept and no
\* name is shared.
THEOREM Invariance == Spec => []IInv
BY InitInv, StepInv, PTL DEF Spec

\* Where environments have places of their own, the outputs of one whose last
\* operation succeeded are those of its recorded topology: no refresh, and no failed
\* apply, adoption or destroy of another environment, replaces them.
THEOREM OutputsAreRecorded == ASSUME OwnPlaces PROVE Spec => []OutputsMatch
<1>1. IInv => OutputsMatch
  BY DEF IInv, OwnInv
<1> QED BY <1>1, Invariance, PTL

\* Where environments have places and names of their own and keep the places, a delete
\* that Terraform believes in left nothing of a kept environment behind.
THEOREM DeletesAreComplete ==
  ASSUME OwnPlaces, StablePlaces, OwnNames PROVE Spec => []DeletedLeavesNothing
<1>1. IInv => DeletedLeavesNothing
  BY DEF IInv, HomeInv
<1> QED BY <1>1, Invariance, PTL

\* Where environments share neither a place nor a name in the account, no operation
\* touches the objects of another: not adoption, which looks in the whole account, not
\* a failed apply or destroy, not the backend's deploy.
THEOREM EnvironmentsAreIsolated ==
  ASSUME OwnPlaces, OwnNames PROVE Spec => NoCrossTalk
<1>1. IInv /\ [Next]_vars
        => \A e \in Envs : pc[e] = "idle" /\ pc'[e] = "idle" => Live(e)' = Live(e)
  BY LiveFrame DEF IInv
<1> QED BY <1>1, Invariance, PTL DEF NoCrossTalk, Spec

\* Where environments also keep their places, an apply that Terraform believes in left
\* exactly the recorded topology tracked and in existence, whatever failed or was lost
\* before.
THEOREM AppliesAreExact ==
  ASSUME OwnPlaces, StablePlaces, OwnNames PROVE Spec => ApplyTracksTopology
<1> DEFINE Exact(e) == pc[e] # "idle" /\ pc'[e] = "idle" /\ last'[e] = "applied"
                         => Tracked(e)' = Want(e, tf'[e].conf) /\ Tracked(e)' \subseteq Live(e)'
<1>1. ASSUME IInv, IInv', [Next]_vars, NEW e \in Envs,
             pc[e] # "idle", pc'[e] = "idle", last'[e] = "applied"
      PROVE  Tracked(e)' = Want(e, tf'[e].conf) /\ Tracked(e)' \subseteq Live(e)'
  <2>a. TypeOK /\ Underway /\ OwnInv /\ AtHome
    BY <1>1 DEF IInv, HomeInv
  <2>b. op[e] \in Confs[e] /\ op[e] \in Conf
    BY <1>1, <2>a, UnderwayTyped
  <2> DEFINE p == PlaceOf(e, op[e])
             want == Want(e, op[e])
  <2>c. p \in Stores /\ \A o \in want : o \in Mine[e]
    BY <2>b, PlaceTyped, MineHas
  <2>d. Tracked(e)' \subseteq Live(e)'
    <3>1. OwnPlaces' /\ StablePlaces' /\ OwnNames'
      BY DEF OwnPlaces, StablePlaces, OwnNames, PlaceOf, WorkDir, Want, ObjectOf
    <3>2. Exists'
      BY <1>1, <3>1 DEF IInv, HomeInv
    <3>3. \A s \in Stores : \A o \in nested'[s] : o \in Named => o \in taken'
      BY <3>2 DEF Exists
    <3> QED BY <3>3, LiveHas
  <2>e. ASSUME tf'[e].conf = op[e],
               \A s \in Stores : s # p => nested'[s] = nested[s],
               nested'[p] = want,
               op[e].modeB \/ dirs[WorkDir(e, op[e])].backend = op[e].key
        PROVE  Tracked(e)' = Want(e, tf'[e].conf)
    <3>1. \A s \in Stores : \A o \in nested[s] : o \in Mine[e] => s = p
      BY <2>a, <2>b, <2>e, OnePlace
    <3> HIDE DEF p, want
    <3>2. \A o : o \in Tracked(e)' <=> o \in want
      BY <2>c, <2>e, <3>1, LiveHas
    <3>3. Tracked(e)' = want
      BY <3>2
    <3> QED BY <2>e, <3>3 DEF want
  <2>1. Step(e)
    BY <1>1, <2>a, Bookkeeping DEF Next, Step, NewRunner, vars
  <2>2. CASE /\ pc[e] = "outputs" /\ UNCHANGED <<dirs, cloud>>
             /\ tf'[e] = [conf |-> op[e], outputs |-> outs[StoreOf(WorkDir(e, op[e]))]]
    <3>1. nested[p] = want /\ dirs[WorkDir(e, op[e])].backend = op[e].key
      BY <2>2, <2>a DEF OwnInv, Written
    <3>2. nested' = nested /\ tf'[e].conf = op[e]
      BY <2>2 DEF cloud
    <3> QED BY <2>d, <2>e, <3>1, <3>2
  <2>3. CASE /\ pc[e] = "deploy" /\ nested' = [nested EXCEPT ![e] = Want(e, op[e])]
             /\ tf'[e] = [conf |-> op[e], outputs |-> Want(e, op[e])]
    <3>1. op[e].modeB /\ p = e
      BY <2>3, <2>a DEF Underway, PlaceOf
    <3>2. nested'[p] = want /\ \A s \in Stores : s # p => nested'[s] = nested[s]
      BY <2>3, <2>a, <2>c, <3>1 DEF TypeOK
    <3>3. tf'[e].conf = op[e]
      BY <2>3
    <3> QED BY <2>d, <2>e, <3>1, <3>2, <3>3
  <2> QED BY <1>1, <2>1, <2>2, <2>3, <2>a, Successes
<1>2. IInv /\ IInv' /\ [Next]_vars => \A e \in Envs : Exact(e)
  BY <1>1
<1> QED BY <1>2, Invariance, PTL DEF ApplyTracksTopology, Spec
=============================================================================
