----------------------- MODULE TopologyResourceProofs -----------------------
(***************************************************************************)
(* Theorems about TopologyResource for every set of names, places,         *)
(* configurations, catalogs and component types, whatever other clients    *)
(* edit, whatever answers are lost and whatever a release does to the      *)
(* catalog.  The invariant has the types, what a refresh showed of the     *)
(* components, that a plan can be translated when it is applied, and how   *)
(* the plan the guard compares with relates to the one that was applied.   *)
(***************************************************************************)
EXTENDS TopologyResource, TLAPS

\* Translating a configuration that resolves gives a plan, or None without a block.
LEMMA TranslateTyped ==
  ASSUME NEW c \in Config, Resolvable(c), cat \in Catalogs
  PROVE  /\ Translate(c) \in DbPlan \cup {None}
         /\ Translate(c) = None <=> c.db = None
<1>1. CASE c.db = None
  BY <1>1 DEF Translate
<1>2. CASE c.db # None
  <2>1. c.db \in Block /\ c.name \in Names /\ c.place \in Places
    BY <1>2 DEF Config
  <2>2. c.db.size \in Sizes /\ c.db.enc \in BOOLEAN /\ c.db.engine \in Engines
        /\ c.db.name \in Names \cup {None}
    BY <2>1 DEF Block
  <2>3. cat \in Catalog
    BY CatalogsAssumption
  <2>4. cat[<<c.place, c.db.size>>] \in Families \cup {None}
    BY <2>1, <2>2, <2>3 DEF Catalog
  <2>5. cat[<<c.place, c.db.size>>] # None
    BY <1>2 DEF Resolvable
  <2>6. Translate(c) \in DbPlan
    BY <1>2, <2>1, <2>2, <2>4, <2>5 DEF Translate, DbPlan
  <2> QED BY <1>2, <2>6, NoneAssumption
<1> QED BY <1>1, <1>2

\* The backend's component names are shown under canonical types.
LEMMA CanonTyped ==
  ASSUME NEW names \in SUBSET TypeNames
  PROVE  Canon(names) \in SUBSET Types
BY AliasAssumption DEF Canon, TypeNames, Known

\* A name the provider knows is shown under its type.
LEMMA CanonMeaning ==
  ASSUME NEW names \in SUBSET TypeNames, NEW t \in names, t \notin Others
  PROVE  Means(t) \in Canon(names)
BY AliasAssumption DEF Canon, Means, TypeNames, Known

\* What is sent for a configuration is a record.
LEMMA SentTyped ==
  ASSUME NEW c \in Config, NEW names \in SUBSET Known
  PROVE  /\ Sent(c, names) \in Record
         /\ Sent(c, names).name = c.name /\ Sent(c, names).place = c.place
<1>1. c.name \in Names /\ c.place \in Places
  BY DEF Config
<1>2. names \in SUBSET TypeNames
  BY DEF TypeNames
<1> QED BY <1>1, <1>2 DEF Sent, Record

\* The configuration a refresh puts together.
Refreshed == [name |-> server[tf.id].name, place |-> server[tf.id].place,
              comps |-> Canon(server[tf.id].comps), db |-> tf.conf.db]

LEMMA RefreshedTyped ==
  ASSUME TypeOK, tf # None, server[tf.id] # None
  PROVE  Refreshed \in Config /\ tf.id \in Ids /\ server[tf.id] \in Record
<1>1. tf \in State
  BY DEF TypeOK
<1>2. tf.id \in Ids /\ tf.conf \in Config
  BY <1>1 DEF State
<1>3. server[tf.id] \in Record
  BY <1>2 DEF TypeOK
<1>4. server[tf.id].name \in Names /\ server[tf.id].place \in Places
      /\ server[tf.id].comps \in SUBSET TypeNames
  BY <1>3 DEF Record
<1>5. Canon(server[tf.id].comps) \in SUBSET Types
  BY <1>4, CanonTyped
<1>6. tf.conf.db \in Block \cup {None}
  BY <1>2 DEF Config
<1> QED BY <1>2, <1>3, <1>4, <1>5, <1>6 DEF Refreshed, Config

\* A request that arrived and was answered leaves a resource behind.
LEMMA AnswerTyped ==
  ASSUME NEW c \in Config, Resolvable(c), cat \in Catalogs, NEW n \in Ids
  PROVE  LET st == [id |-> n, conf |-> c, plan |-> Translate(c)]
         IN  st \in State /\ st # None
<1>1. [id |-> n, conf |-> c, plan |-> Translate(c)] \in State
  BY TranslateTyped DEF State
<1> QED BY <1>1, NoneAssumption

\* What an edit leaves is a record with the fields it does not change.
LEMMA EditTyped ==
  ASSUME TypeOK, EditElsewhere
  PROVE  /\ server' \in [Ids -> Record \cup {None}] /\ tf \in State /\ tf.id \in Ids
         /\ \A i \in Ids : i # tf.id => server'[i] = server[i]
         /\ late' \in SUBSET TypeNames /\ touched' \in SUBSET {"name", "place", "catalog"}
         /\ touched \subseteq touched'
         /\ server'[tf.id] # None =>
              /\ "name" \notin touched' => server'[tf.id].name = server[tf.id].name
              /\ "place" \notin touched' => server'[tf.id].place = server[tf.id].place
              /\ server'[tf.id].comps \subseteq server[tf.id].comps \cup late' \/ pc = "idle"
              /\ late \subseteq late'
<1>1. tf \in State /\ tf.id \in Ids /\ server[tf.id] \in Record
  BY DEF EditElsewhere, TypeOK, State
<1> DEFINE rec == server[tf.id]
<1>2. rec.comps \in SUBSET TypeNames /\ rec.name \in Names /\ rec.place \in Places
  BY <1>1 DEF Record
<1>3. late \in SUBSET TypeNames /\ touched \in SUBSET {"name", "place", "catalog"}
  BY DEF TypeOK
<1>4. CASE \E t \in TypeNames \ server[tf.id].comps :
             /\ server' = [server EXCEPT ![tf.id].comps = @ \cup {t}]
             /\ late' = IF pc = "idle" THEN late ELSE late \cup {t}
             /\ UNCHANGED touched
  <2>1. PICK t \in TypeNames :
             /\ server' = [server EXCEPT ![tf.id].comps = @ \cup {t}]
             /\ late' = IF pc = "idle" THEN late ELSE late \cup {t}
             /\ touched' = touched
    BY <1>4
  <2>2. [rec EXCEPT !.comps = @ \cup {t}] \in Record
    BY <1>1, <1>2 DEF Record
  <2>3. server' = [server EXCEPT ![tf.id] = [rec EXCEPT !.comps = @ \cup {t}]]
    BY <2>1
  <2>4. server'[tf.id] = [rec EXCEPT !.comps = @ \cup {t}]
    BY <1>1, <2>3 DEF TypeOK
  <2>5. /\ server'[tf.id].name = rec.name /\ server'[tf.id].place = rec.place
        /\ server'[tf.id].comps = rec.comps \cup {t}
    BY <1>1, <2>4 DEF Record
  <2>6. server' \in [Ids -> Record \cup {None}] /\ \A i \in Ids : i # tf.id => server'[i] = server[i]
    BY <1>1, <2>2, <2>3 DEF TypeOK
  <2> QED BY <1>1, <1>3, <2>1, <2>5, <2>6
<1>5. CASE \E t \in server[tf.id].comps :
             /\ server' = [server EXCEPT ![tf.id].comps = @ \ {t}]
             /\ UNCHANGED <<late, touched>>
  <2>1. PICK t \in rec.comps :
             /\ server' = [server EXCEPT ![tf.id].comps = @ \ {t}]
             /\ late' = late /\ touched' = touched
    BY <1>5
  <2>2. [rec EXCEPT !.comps = @ \ {t}] \in Record
    BY <1>1, <1>2 DEF Record
  <2>3. server' = [server EXCEPT ![tf.id] = [rec EXCEPT !.comps = @ \ {t}]]
    BY <2>1
  <2>4. server'[tf.id] = [rec EXCEPT !.comps = @ \ {t}]
    BY <1>1, <2>3 DEF TypeOK
  <2>5. /\ server'[tf.id].name = rec.name /\ server'[tf.id].place = rec.place
        /\ server'[tf.id].comps = rec.comps \ {t}
    BY <1>1, <2>4 DEF Record
  <2>6. server' \in [Ids -> Record \cup {None}] /\ \A i \in Ids : i # tf.id => server'[i] = server[i]
    BY <1>1, <2>2, <2>3 DEF TypeOK
  <2> QED BY <1>1, <1>3, <2>1, <2>5, <2>6
<1>6. CASE \E n \in Renames, p \in Moves :
             /\ \/ server' = [server EXCEPT ![tf.id].name = n]
                \/ server' = [server EXCEPT ![tf.id].place = p]
             /\ touched' = touched \cup Changes(server[tf.id], server'[tf.id])
             /\ UNCHANGED late
  <2>1. PICK n \in Renames, p \in Moves :
             /\ \/ server' = [server EXCEPT ![tf.id] = [rec EXCEPT !.name = n]]
                \/ server' = [server EXCEPT ![tf.id] = [rec EXCEPT !.place = p]]
             /\ touched' = touched \cup Changes(rec, server'[tf.id])
             /\ late' = late
    BY <1>6
  <2>2. [rec EXCEPT !.name = n] \in Record /\ [rec EXCEPT !.place = p] \in Record
    BY <1>1, <1>2, BoundAssumption DEF Record
  <2>3. server' \in [Ids -> Record \cup {None}] /\ \A i \in Ids : i # tf.id => server'[i] = server[i]
    BY <1>1, <2>1, <2>2 DEF TypeOK
  <2>4. server'[tf.id].comps = rec.comps
    BY <1>1, <2>1 DEF TypeOK, Record
  <2>5. /\ "name" \notin touched' => server'[tf.id].name = rec.name
        /\ "place" \notin touched' => server'[tf.id].place = rec.place
        /\ touched' \in SUBSET {"name", "place", "catalog"} /\ touched \subseteq touched'
    BY <1>3, <2>1 DEF Changes
  <2> QED BY <1>1, <1>3, <2>1, <2>3, <2>4, <2>5
<1>7. CASE server' = [server EXCEPT ![tf.id] = None] /\ UNCHANGED <<late, touched>>
  BY <1>1, <1>3, <1>7 DEF TypeOK
<1> QED BY <1>4, <1>5, <1>6, <1>7 DEF EditElsewhere

LEMMA InitInv == Init => IInv
<1> SUFFICES ASSUME Init PROVE IInv
  OBVIOUS
<1>1. TypeOK
  <2>1. server \in [Ids -> Record \cup {None}]
    BY DEF Init
  <2>2. created \in 0 .. MaxRecords
    BY BoundAssumption DEF Init
  <2> QED BY <2>1, <2>2 DEF Init, TypeOK
<1>2. RefreshedInv /\ PlannedInv
  BY DEF Init, RefreshedInv, PlannedInv
<1>3. GuardInv
  BY DEF Init, GuardInv
<1> QED BY <1>1, <1>2, <1>3 DEF IInv

\* What is planned can be translated: what both requests rely on.
LEMMA WantTyped ==
  ASSUME TypeOK, PlannedInv, pc = "planned"
  PROVE  /\ want \in Config /\ want \in Configs /\ Resolvable(want) /\ cat \in Catalogs
         /\ Translate(want) \in DbPlan \cup {None}
         /\ Translate(want) = None <=> want.db = None
<1>1. want \in Config /\ want \in Configs /\ Resolvable(want) /\ cat \in Catalogs
  BY ConfigsAssumption DEF PlannedInv, TypeOK
<1> QED BY <1>1, TranslateTyped

\* The outcomes of a request.
LEMMA UpdateCases ==
  ASSUME TypeOK, PlannedInv, Update, ~Refused
  PROVE  /\ tf \in State /\ tf.id \in Ids /\ tf # None
         /\ ~ForceReplaces(tf.plan, Translate(want)) /\ server[tf.id] \in Record
         /\ \E names \in SUBSET Known :
              Stores(want, names) /\ server' = [server EXCEPT ![tf.id] = Sent(want, names)]
         /\ server' \in [Ids -> Record \cup {None}]
         /\ server'[tf.id] # None
         /\ server'[tf.id].name = want.name /\ server'[tf.id].place = want.place
         /\ \A i \in Ids : i # tf.id => server'[i] = server[i]
         /\ pc' = "idle" /\ want' = None /\ late' = {} /\ cat' = cat /\ created' = created
         /\ \/ /\ tf' = [id |-> tf.id, conf |-> want, plan |-> Translate(want)]
               /\ tf' \in State /\ tf' # None
               /\ applied' = Translate(want) /\ touched' = {} /\ lost' = lost
            \/ /\ tf' = tf /\ applied' = applied /\ lost' = TRUE
               /\ touched' = touched \cup Changes(server[tf.id], want)
<1>1. want \in Config /\ Resolvable(want) /\ cat \in Catalogs
  BY WantTyped DEF Update
<1>2. tf \in State /\ tf.id \in Ids /\ tf # None /\ server[tf.id] \in Record
  BY DEF Update, TypeOK, State
<1>3. PICK names \in SUBSET Known :
        Stores(want, names) /\ server' = [server EXCEPT ![tf.id] = Sent(want, names)]
  BY DEF Update
<1>4. Sent(want, names) \in Record /\ Sent(want, names).name = want.name
      /\ Sent(want, names).place = want.place
  BY <1>1, SentTyped
<1>5. server'[tf.id] = Sent(want, names)
  BY <1>2, <1>3 DEF TypeOK
<1>6. Sent(want, names) # None
  BY <1>4, NoneAssumption
<1>7. /\ server' \in [Ids -> Record \cup {None}]
      /\ \A i \in Ids : i # tf.id => server'[i] = server[i]
  BY <1>2, <1>3, <1>4 DEF TypeOK
<1>8. LET st == [id |-> tf.id, conf |-> want, plan |-> Translate(want)] IN st \in State /\ st # None
  BY <1>1, <1>2, AnswerTyped
<1>9. /\ ~ForceReplaces(tf.plan, Translate(want)) /\ created' = created
      /\ \/ Answered([id |-> tf.id, conf |-> want, plan |-> Translate(want)], Translate(want))
         \/ Unanswered(Changes(server[tf.id], want))
  BY DEF Update
<1>10. pc' = "idle" /\ want' = None /\ late' = {} /\ cat' = cat
  BY <1>9 DEF Answered, Unanswered, EndWith
<1>11. \/ /\ tf' = [id |-> tf.id, conf |-> want, plan |-> Translate(want)]
          /\ applied' = Translate(want) /\ touched' = {} /\ lost' = lost
       \/ /\ tf' = tf /\ applied' = applied /\ lost' = TRUE
          /\ touched' = touched \cup Changes(server[tf.id], want)
  BY <1>9 DEF Answered, Unanswered, EndWith
<1> QED BY <1>2, <1>3, <1>4, <1>5, <1>6, <1>7, <1>8, <1>9, <1>10, <1>11

LEMMA CreateCases ==
  ASSUME TypeOK, PlannedInv, Create, ~Refused
  PROVE  /\ tf = None /\ created + 1 \in Ids /\ created' \in 0 .. MaxRecords
         /\ server' \in [Ids -> Record \cup {None}]
         /\ server'[created + 1] # None
         /\ server'[created + 1].name = want.name /\ server'[created + 1].place = want.place
         /\ \A i \in Ids : i # created + 1 => server'[i] = server[i]
         /\ pc' = "idle" /\ want' = None /\ late' = {} /\ cat' = cat
         /\ \/ /\ tf' = [id |-> created + 1, conf |-> want, plan |-> Translate(want)]
               /\ tf' \in State /\ tf' # None
               /\ applied' = Translate(want) /\ touched' = {} /\ lost' = lost
            \/ tf' = None /\ applied' = applied /\ lost' = TRUE /\ touched' = touched
<1>1. want \in Config /\ Resolvable(want) /\ cat \in Catalogs
  BY WantTyped DEF Create
<1>2. tf = None /\ created + 1 \in Ids /\ created' \in 0 .. MaxRecords
  BY BoundAssumption DEF Create, TypeOK, Ids
<1>3. PICK names \in SUBSET Known : server' = [server EXCEPT ![created + 1] = Sent(want, names)]
  BY DEF Create
<1>4. Sent(want, names) \in Record /\ Sent(want, names).name = want.name
      /\ Sent(want, names).place = want.place
  BY <1>1, SentTyped
<1>5. server'[created + 1] = Sent(want, names)
  BY <1>2, <1>3 DEF TypeOK
<1>6. Sent(want, names) # None
  BY <1>4, NoneAssumption
<1>7. /\ server' \in [Ids -> Record \cup {None}]
      /\ \A i \in Ids : i # created + 1 => server'[i] = server[i]
  BY <1>2, <1>3, <1>4 DEF TypeOK
<1>8. LET st == [id |-> created + 1, conf |-> want, plan |-> Translate(want)]
      IN st \in State /\ st # None
  BY <1>1, <1>2, AnswerTyped
<1>9. \/ Answered([id |-> created + 1, conf |-> want, plan |-> Translate(want)], Translate(want))
      \/ Unanswered({})
  BY DEF Create
<1>10. pc' = "idle" /\ want' = None /\ late' = {} /\ cat' = cat
  BY <1>9 DEF Answered, Unanswered, EndWith
<1>11. \/ /\ tf' = [id |-> created + 1, conf |-> want, plan |-> Translate(want)]
          /\ applied' = Translate(want) /\ touched' = {} /\ lost' = lost
       \/ tf' = None /\ applied' = applied /\ lost' = TRUE /\ touched' = touched
  BY <1>2, <1>9 DEF Answered, Unanswered, EndWith
<1> QED BY <1>2, <1>4, <1>5, <1>6, <1>7, <1>8, <1>10, <1>11

\* What a refresh that found the record leaves.
LEMMA ReadCases ==
  ASSUME TypeOK, ReadFound
  PROVE  /\ tf \in State /\ tf.id \in Ids /\ tf # None /\ server[tf.id] \in Record
         /\ Refreshed \in Config /\ Resolvable(Refreshed) /\ cat \in Catalogs
         /\ tf' = [id |-> tf.id, conf |-> Refreshed, plan |-> Translate(Refreshed)]
         /\ tf' \in State /\ tf' # None
<1>1. Refreshed \in Config /\ tf.id \in Ids /\ server[tf.id] \in Record
  BY RefreshedTyped DEF ReadFound
<1>2. Resolvable(Refreshed) /\ cat \in Catalogs /\ tf # None /\ tf \in State
  BY DEF ReadFound, Refreshed, TypeOK
<1>3. tf' = [id |-> tf.id, conf |-> Refreshed, plan |-> Translate(Refreshed)]
  BY DEF ReadFound, Refreshed
<1> QED BY <1>1, <1>2, <1>3, AnswerTyped

\* Every action keeps the types.
LEMMA TypeStep == TypeOK /\ PlannedInv /\ [Next]_vars => TypeOK'
<1> SUFFICES ASSUME TypeOK, PlannedInv, [Next]_vars PROVE TypeOK'
  OBVIOUS
<1>1. CASE UNCHANGED vars
  BY <1>1 DEF TypeOK, vars, history
<1>2. CASE ReadNotFound
  BY <1>2 DEF TypeOK, ReadNotFound
<1>3. CASE ReadFound
  BY <1>3, ReadCases DEF ReadFound, TypeOK, history
<1>4. CASE ModifyPlan
  BY <1>4, ConfigsAssumption DEF ModifyPlan, TypeOK, history
<1>5. CASE GiveUp
  BY <1>5 DEF GiveUp, TypeOK
<1>6. CASE Refused /\ (Create \/ Update \/ Delete)
  BY <1>6 DEF Refused, EndWith, TypeOK
<1>7. CASE Create /\ ~Refused
  BY <1>7, CreateCases, WantTyped DEF TypeOK, Create
<1>8. CASE Update /\ ~Refused
  <2>1. touched' \in SUBSET {"name", "place", "catalog"}
    BY <1>8, UpdateCases DEF TypeOK, Changes
  <2> QED BY <1>8, <2>1, UpdateCases, WantTyped DEF TypeOK, Update
<1>9. CASE Delete /\ ~Refused
  BY <1>9 DEF Delete, Answered, Unanswered, EndWith, TypeOK
<1>10. CASE EditElsewhere
  BY <1>10, EditTyped DEF EditElsewhere, TypeOK
<1>11. CASE Upgrade
  BY <1>11 DEF Upgrade, TypeOK
<1> QED BY <1>1, <1>2, <1>3, <1>4, <1>5, <1>6, <1>7, <1>8, <1>9, <1>10, <1>11 DEF Next

\* What the refresh showed and what came since is all there is.
LEMMA RefreshedStep == TypeOK /\ PlannedInv /\ RefreshedInv /\ [Next]_vars => RefreshedInv'
<1> SUFFICES ASSUME TypeOK, PlannedInv, RefreshedInv, [Next]_vars PROVE RefreshedInv'
  OBVIOUS
<1> USE DEF RefreshedInv
<1>1. CASE UNCHANGED vars
  BY <1>1 DEF vars, history, Canon
<1>2. CASE ReadNotFound
  BY <1>2 DEF ReadNotFound
<1>3. CASE ReadFound
  <2>1. tf' # None /\ tf'.id = tf.id /\ tf'.conf.comps = Canon(server[tf.id].comps)
    BY <1>3, ReadCases DEF Refreshed
  <2>2. server' = server /\ late' = late
    BY <1>3 DEF ReadFound, history
  <2>3. Canon(server[tf.id].comps \ late) \subseteq Canon(server[tf.id].comps)
    BY DEF Canon
  <2> QED BY <2>1, <2>2, <2>3 DEF Canon
<1>4. CASE ModifyPlan
  BY <1>4 DEF ModifyPlan, history, Canon
<1>5. CASE GiveUp
  BY <1>5 DEF GiveUp
<1>6. CASE Create \/ Update \/ Delete
  BY <1>6 DEF Create, Update, Delete, Refused, Answered, Unanswered, EndWith
<1>7. CASE EditElsewhere
  <2>1. tf' = tf /\ pc' = pc /\ tf # None /\ server[tf.id] # None
    BY <1>7 DEF EditElsewhere
  <2>2. ASSUME pc # "idle", server'[tf.id] # None
        PROVE  Canon(server'[tf.id].comps \ late') \subseteq tf.conf.comps
    <3>1. server'[tf.id].comps \ late' \subseteq server[tf.id].comps \ late
      BY <1>7, <2>2, EditTyped
    <3>2. Canon(server'[tf.id].comps \ late') \subseteq Canon(server[tf.id].comps \ late)
      BY <3>1 DEF Canon
    <3> QED BY <2>1, <2>2, <3>2
  <2> QED BY <2>1, <2>2 DEF Canon
<1>8. CASE Upgrade
  BY <1>8 DEF Upgrade
<1> QED BY <1>1, <1>2, <1>3, <1>4, <1>5, <1>6, <1>7, <1>8 DEF Next

\* The catalog does not change under a plan.
LEMMA PlannedStep == PlannedInv /\ [Next]_vars => PlannedInv'
<1> SUFFICES ASSUME PlannedInv, [Next]_vars PROVE PlannedInv'
  OBVIOUS
<1> USE DEF PlannedInv
<1>1. CASE UNCHANGED vars
  BY <1>1 DEF vars, Resolvable
<1>2. CASE ReadNotFound
  BY <1>2 DEF ReadNotFound, Resolvable
<1>3. CASE ReadFound
  BY <1>3 DEF ReadFound
<1>4. CASE ModifyPlan
  BY <1>4 DEF ModifyPlan, Resolvable
<1>5. CASE GiveUp
  BY <1>5 DEF GiveUp
<1>6. CASE Create \/ Update \/ Delete
  BY <1>6 DEF Create, Update, Delete, Refused, Answered, Unanswered, EndWith
<1>7. CASE EditElsewhere
  BY <1>7 DEF EditElsewhere, Resolvable
<1>8. CASE Upgrade
  BY <1>8 DEF Upgrade
<1> QED BY <1>1, <1>2, <1>3, <1>4, <1>5, <1>6, <1>7, <1>8 DEF Next

\* GuardInv of given records, catalog, state, applied plan and touched attributes.
Agrees(srv, k, st, ap, to) ==
  IF st = None \/ st.conf.db = None THEN ap = None /\ (st # None => st.plan = None)
  ELSE LET block == st.conf.db
       IN  /\ ap # None /\ st.plan # None
           /\ ap.enc = block.enc /\ st.plan.enc = block.enc
           /\ ap.engine = block.engine /\ st.plan.engine = block.engine
           /\ block.name # None => ap.name = block.name /\ st.plan.name = block.name
           /\ block.name = None /\ "name" \notin to =>
                /\ st.plan.name = ap.name
                /\ srv[st.id] # None => srv[st.id].name = ap.name
           /\ to \cap {"place", "catalog"} = {} =>
                /\ st.plan.family = ap.family
                /\ srv[st.id] # None => k[<<srv[st.id].place, block.size>>] = ap.family

LEMMA GuardAgrees ==
  /\ GuardInv <=> Agrees(server, cat, tf, applied, touched)
  /\ GuardInv' <=> Agrees(server', cat', tf', applied', touched')
BY DEF GuardInv, Agrees

\* After an answered request everything is what was applied.
LEMMA AnsweredAgrees ==
  ASSUME NEW c \in Config, Resolvable(c), cat \in Catalogs, NEW st, NEW srv,
         st # None, st.conf = c, st.plan = Translate(c),
         srv[st.id].name = c.name, srv[st.id].place = c.place
  PROVE  Agrees(srv, cat, st, Translate(c), {})
<1>1. CASE c.db = None
  BY <1>1 DEF Agrees, Translate
<1>2. CASE c.db # None
  <2>1. Translate(c) # None
    BY <1>2, TranslateTyped
  <2>2. Translate(c) = [enc |-> c.db.enc, engine |-> c.db.engine,
                        name |-> IF c.db.name = None THEN c.name ELSE c.db.name,
                        family |-> cat[<<c.place, c.db.size>>]]
    BY <1>2 DEF Translate
  <2> QED BY <1>2, <2>1, <2>2 DEF Agrees
<1> QED BY <1>1, <1>2

\* A record that is gone, or whose changes are marked, still agrees.
LEMMA TouchedAgrees ==
  ASSUME NEW srv, NEW srv2, NEW st, NEW ap, NEW to, NEW to2, Agrees(srv, cat, st, ap, to),
         st # None, srv[st.id] # None, to \subseteq to2,
         srv2[st.id] # None =>
           /\ "name" \notin to2 => srv2[st.id].name = srv[st.id].name
           /\ "place" \notin to2 => srv2[st.id].place = srv[st.id].place
  PROVE  Agrees(srv2, cat, st, ap, to2)
<1>1. CASE st.conf.db = None
  BY <1>1 DEF Agrees
<1>2. CASE st.conf.db # None
  <2> DEFINE block == st.conf.db
  <2>1. /\ ap # None /\ st.plan # None
        /\ ap.enc = block.enc /\ st.plan.enc = block.enc
        /\ ap.engine = block.engine /\ st.plan.engine = block.engine
        /\ block.name # None => ap.name = block.name /\ st.plan.name = block.name
    BY <1>2 DEF Agrees
  <2>2. block.name = None /\ "name" \notin to =>
          st.plan.name = ap.name /\ srv[st.id].name = ap.name
    BY <1>2 DEF Agrees
  <2>3. to \cap {"place", "catalog"} = {} =>
          st.plan.family = ap.family /\ cat[<<srv[st.id].place, block.size>>] = ap.family
    BY <1>2 DEF Agrees
  <2>4. block.name = None /\ "name" \notin to2 =>
          st.plan.name = ap.name /\ (srv2[st.id] # None => srv2[st.id].name = ap.name)
    BY <2>2
  <2>5. to2 \cap {"place", "catalog"} = {} =>
          /\ st.plan.family = ap.family
          /\ srv2[st.id] # None => cat[<<srv2[st.id].place, block.size>>] = ap.family
    BY <2>3
  <2> QED BY <1>2, <2>1, <2>4, <2>5 DEF Agrees
<1> QED BY <1>1, <1>2

\* A refresh of a record that agrees gives a plan that agrees.
LEMMA ReadAgrees ==
  ASSUME TypeOK, ReadFound, Agrees(server, cat, tf, applied, touched)
  PROVE  Agrees(server, cat, tf', applied, touched)
<1>1. /\ tf # None /\ tf' # None /\ Resolvable(Refreshed) /\ Refreshed \in Config /\ cat \in Catalogs
      /\ tf' = [id |-> tf.id, conf |-> Refreshed, plan |-> Translate(Refreshed)]
  BY ReadCases
<1>2. tf'.id = tf.id /\ tf'.conf = Refreshed /\ tf'.plan = Translate(Refreshed)
  BY <1>1
<1>3. Refreshed.db = tf.conf.db /\ Refreshed.name = server[tf.id].name
      /\ Refreshed.place = server[tf.id].place
  BY DEF Refreshed
<1>4. CASE tf.conf.db = None
  BY <1>1, <1>2, <1>3, <1>4 DEF Agrees, Translate
<1>5. CASE tf.conf.db # None
  <2> DEFINE block == tf.conf.db
             rec == server[tf.id]
  <2>1. Translate(Refreshed) = [enc |-> block.enc, engine |-> block.engine,
                                name |-> IF block.name = None THEN rec.name ELSE block.name,
                                family |-> cat[<<rec.place, block.size>>]]
    BY <1>3, <1>5 DEF Translate
  <2>2. Translate(Refreshed) # None
    BY <1>1, <1>3, <1>5, TranslateTyped
  <2>3. server[tf.id] # None
    BY DEF ReadFound
  <2> QED BY <1>1, <1>2, <1>3, <1>5, <2>1, <2>2, <2>3 DEF Agrees
<1> QED BY <1>4, <1>5

\* Every action keeps what the guard relies on.
LEMMA GuardStep == TypeOK /\ PlannedInv /\ GuardInv /\ [Next]_vars => GuardInv'
<1> SUFFICES ASSUME TypeOK, PlannedInv, Agrees(server, cat, tf, applied, touched), [Next]_vars
             PROVE  Agrees(server', cat', tf', applied', touched')
  BY GuardAgrees
<1>1. ASSUME server' = server, cat' = cat, tf' = tf, applied' = applied, touched' = touched
      PROVE  Agrees(server', cat', tf', applied', touched')
  BY <1>1
<1>2. CASE UNCHANGED vars
  BY <1>1, <1>2 DEF vars, history
<1>3. CASE ReadNotFound
  BY <1>3 DEF ReadNotFound, Agrees
<1>4. CASE ReadFound
  BY <1>4, ReadAgrees DEF ReadFound, history
<1>5. CASE ModifyPlan \/ GiveUp
  BY <1>1, <1>5 DEF ModifyPlan, GiveUp, history
<1>6. CASE Refused
  BY <1>1, <1>6 DEF Refused, EndWith
<1>7. CASE Create /\ ~Refused
  <2>1. want \in Config /\ Resolvable(want) /\ cat \in Catalogs
    BY <1>7, WantTyped DEF Create
  <2>2. CASE tf' = None
    BY <1>7, <2>2, CreateCases DEF Agrees
  <2>3. CASE tf' # None
    <3>0. /\ tf' = [id |-> created + 1, conf |-> want, plan |-> Translate(want)]
          /\ applied' = Translate(want) /\ touched' = {} /\ cat' = cat
      BY <1>7, <2>3, CreateCases, Zenon
    <3>1. /\ tf'.id = created + 1 /\ tf'.conf = want /\ tf'.plan = Translate(want)
          /\ applied' = Translate(want) /\ touched' = {} /\ cat' = cat
      BY <3>0
    <3>2. server'[tf'.id].name = want.name /\ server'[tf'.id].place = want.place
      BY <1>7, <3>1, CreateCases
    <3> QED BY <2>1, <2>3, <3>1, <3>2, AnsweredAgrees
  <2> QED BY <2>2, <2>3
<1>8. CASE Update /\ ~Refused
  <2>1. want \in Config /\ Resolvable(want) /\ cat \in Catalogs
    BY <1>8, WantTyped DEF Update
  <2>2. CASE tf' = [id |-> tf.id, conf |-> want, plan |-> Translate(want)] /\ tf' # None
             /\ applied' = Translate(want) /\ touched' = {}
    <3>1. tf'.id = tf.id /\ tf'.conf = want /\ tf'.plan = Translate(want) /\ cat' = cat
      BY <1>8, <2>2, UpdateCases
    <3>2. server'[tf'.id].name = want.name /\ server'[tf'.id].place = want.place
      BY <1>8, <3>1, UpdateCases
    <3> QED BY <2>1, <2>2, <3>1, <3>2, AnsweredAgrees
  <2>3. CASE tf' = tf /\ applied' = applied
             /\ touched' = touched \cup Changes(server[tf.id], want)
    <3>1. /\ tf # None /\ server[tf.id] # None /\ cat' = cat
          /\ server'[tf.id].name = want.name /\ server'[tf.id].place = want.place
      BY <1>8, UpdateCases, NoneAssumption
    <3>2. /\ "name" \notin touched' => server'[tf.id].name = server[tf.id].name
          /\ "place" \notin touched' => server'[tf.id].place = server[tf.id].place
          /\ touched \subseteq touched'
      BY <2>3, <3>1 DEF Changes
    <3> QED BY <2>3, <3>1, <3>2, TouchedAgrees
  <2> QED BY <1>8, <2>2, <2>3, UpdateCases
<1>9. CASE Delete /\ ~Refused
  <2>1. server' = [server EXCEPT ![tf.id] = None] /\ cat' = cat
    BY <1>9 DEF Delete, Answered, Unanswered, EndWith
  <2>2. CASE Answered(None, None)
    BY <2>2 DEF Answered, EndWith, Agrees
  <2>3. CASE Unanswered({})
    <3>1. tf' = tf /\ applied' = applied /\ touched' = touched
      BY <2>3 DEF Unanswered, EndWith
    <3>2. CASE tf # None
      <4>1. tf.id \in Ids
        BY <3>2 DEF TypeOK, State
      <4>2. server'[tf.id] = None
        BY <2>1, <4>1 DEF TypeOK
      <4> QED BY <2>1, <3>1, <3>2, <4>2 DEF Agrees
    <3>3. CASE tf = None
      BY <3>1, <3>3 DEF Agrees
    <3> QED BY <3>2, <3>3
  <2> QED BY <1>9, <2>2, <2>3 DEF Delete
<1>10. CASE EditElsewhere
  <2>1. tf' = tf /\ applied' = applied /\ cat' = cat /\ tf # None /\ server[tf.id] # None
    BY <1>10 DEF EditElsewhere
  <2>2. /\ touched \subseteq touched'
        /\ server'[tf.id] # None =>
             /\ "name" \notin touched' => server'[tf.id].name = server[tf.id].name
             /\ "place" \notin touched' => server'[tf.id].place = server[tf.id].place
    BY <1>10, EditTyped
  <2> QED BY <2>1, <2>2, TouchedAgrees
<1>11. CASE Upgrade
  <2>1. server' = server /\ tf' = tf /\ applied' = applied
    BY <1>11 DEF Upgrade
  <2>2. CASE tf = None
    BY <2>1, <2>2 DEF Agrees
  <2>3. CASE tf # None
    <3>1. touched \subseteq touched'
          /\ ("catalog" \notin touched' =>
                \A x \in Places \X Sizes : cat[x] # None => cat'[x] = cat[x])
      BY <1>11, <2>3 DEF Upgrade
    <3>2. ASSUME tf.conf.db # None, touched' \cap {"place", "catalog"} = {}, server[tf.id] # None
          PROVE  cat'[<<server[tf.id].place, tf.conf.db.size>>] = applied.family
      <4>1. tf \in State
        BY <2>3 DEF TypeOK
      <4>2. tf.id \in Ids /\ tf.conf \in Config
        BY <4>1 DEF State
      <4>3. tf.conf.db \in Block /\ server[tf.id] \in Record
        BY <3>2, <4>2 DEF Config, TypeOK
      <4>4. <<server[tf.id].place, tf.conf.db.size>> \in Places \X Sizes
        BY <4>3 DEF Block, Record
      <4>5. cat[<<server[tf.id].place, tf.conf.db.size>>] = applied.family /\ applied # None
        BY <2>3, <3>1, <3>2 DEF Agrees
      <4>6. applied.family # None
        <5>1. applied \in DbPlan
          BY <4>5 DEF TypeOK
        <5>2. applied.family \in Families
          BY <5>1 DEF DbPlan
        <5> QED BY <5>2, NoneAssumption
      <4> QED BY <3>1, <3>2, <4>4, <4>5, <4>6
    <3>3. CASE tf.conf.db = None
      BY <2>1, <2>3, <3>3 DEF Agrees
    <3>4. CASE tf.conf.db # None
      BY <2>1, <2>3, <3>1, <3>2, <3>4 DEF Agrees
    <3> QED BY <3>3, <3>4
  <2> QED BY <2>2, <2>3
<1> QED BY <1>2, <1>3, <1>4, <1>5, <1>6, <1>7, <1>8, <1>9, <1>10, <1>11 DEF Next

\* IInv is an invariant for every value of the constants.
THEOREM Invariance == Spec => []IInv
<1>1. IInv /\ [Next]_vars => IInv'
  BY TypeStep, RefreshedStep, PlannedStep, GuardStep DEF IInv
<1> QED BY <1>1, InitInv, PTL DEF Spec

\* Every action keeps track of what the backend has.
LEMMA RecordsStep ==
  TypeOK /\ PlannedInv /\ RecordsTracked /\ [Next]_vars => RecordsTracked'
<1> SUFFICES ASSUME TypeOK, PlannedInv, RecordsTracked, [Next]_vars, ~lost',
                    NEW i \in Ids, server'[i] # None
             PROVE  tf' # None /\ tf'.id = i
  BY DEF RecordsTracked
<1>0. ~lost => \A j \in Ids : server[j] # None => tf # None /\ tf.id = j
  BY DEF RecordsTracked
<1>1. ASSUME server' = server, tf' = tf, lost' = lost
      PROVE  tf' # None /\ tf'.id = i
  BY <1>0, <1>1
<1>2. CASE ReadNotFound
  BY <1>0, <1>2 DEF ReadNotFound
<1>3. CASE ReadFound
  <2>1. server' = server /\ lost' = lost
    BY <1>3 DEF ReadFound, history
  <2>2. tf' # None /\ tf'.id = tf.id
    BY <1>3, ReadCases
  <2> QED BY <1>0, <2>1, <2>2
<1>4. CASE Refused
  BY <1>1, <1>4 DEF Refused, EndWith
<1>5. CASE Create /\ ~Refused
  <2>0. /\ tf = None /\ lost' = lost /\ tf' # None
        /\ tf' = [id |-> created + 1, conf |-> want, plan |-> Translate(want)]
        /\ \A j \in Ids : j # created + 1 => server'[j] = server[j]
    BY <1>5, CreateCases, Zenon
  <2>1. /\ tf = None /\ lost' = lost /\ tf' # None /\ tf'.id = created + 1
        /\ \A j \in Ids : j # created + 1 => server'[j] = server[j]
    BY <2>0
  <2> QED BY <1>0, <2>1
<1>6. CASE Update /\ ~Refused
  <2>0. /\ lost' = lost /\ tf' # None
        /\ tf' = [id |-> tf.id, conf |-> want, plan |-> Translate(want)]
        /\ \A j \in Ids : j # tf.id => server'[j] = server[j]
    BY <1>6, UpdateCases, Zenon
  <2>1. /\ lost' = lost /\ tf' # None /\ tf'.id = tf.id
        /\ \A j \in Ids : j # tf.id => server'[j] = server[j]
    BY <2>0
  <2> QED BY <1>0, <2>1
<1>7. CASE Delete /\ ~Refused
  <2>1. server' = [server EXCEPT ![tf.id] = None] /\ lost' = lost
    BY <1>7 DEF Delete, Answered, Unanswered, EndWith
  <2>2. server[i] # None
    BY <2>1 DEF TypeOK
  <2>3. tf.id = i
    BY <1>0, <2>1, <2>2
  <2> QED BY <2>1, <2>3 DEF TypeOK
<1>8. CASE EditElsewhere
  <2>1. /\ tf' = tf /\ lost' = lost /\ tf # None
        /\ \A j \in Ids : j # tf.id => server'[j] = server[j]
    BY <1>8, EditTyped DEF EditElsewhere
  <2> QED BY <1>0, <2>1
<1> QED BY <1>1, <1>2, <1>3, <1>4, <1>5, <1>6, <1>7, <1>8
        DEF Next, vars, history, ModifyPlan, GiveUp, Upgrade

\* For every value of the constants, on any catalog and after any edit: until an
\* answer is lost Terraform knows every topology there is at the backend.
THEOREM EveryRecordTracked == Spec => []RecordsTracked
<1>1. Init => RecordsTracked
  BY DEF Init, RecordsTracked
<1>2. IInv /\ RecordsTracked /\ [Next]_vars => RecordsTracked'
  BY RecordsStep DEF IInv
<1> QED BY <1>1, <1>2, Invariance, PTL DEF Spec

\* For every value of the constants: what the guard lets an apply change of a
\* database that it does not remove, measured against what was applied last,
\* although refreshes derived the plan it compares with again and again, answers
\* were lost and others edited the record (resource_topology.go:1968, :2047).
THEOREM NoSilentReplacement == Spec => DatabaseKept
<1> DEFINE Kept == applied # None /\ applied' # None =>
       /\ applied'.enc = applied.enc /\ applied'.engine = applied.engine
       /\ tf.conf.db.name # None \/ "name" \notin touched => applied'.name = applied.name
       /\ touched \cap {"place", "catalog"} = {} => applied'.family = applied.family
<1>1. IInv /\ [Next]_vars => Kept
  <2> SUFFICES ASSUME IInv, [Next]_vars, applied # None, applied' # None
               PROVE  /\ applied'.enc = applied.enc /\ applied'.engine = applied.engine
                      /\ tf.conf.db.name # None \/ "name" \notin touched => applied'.name = applied.name
                      /\ touched \cap {"place", "catalog"} = {} => applied'.family = applied.family
    OBVIOUS
  <2>0. TypeOK /\ PlannedInv /\ GuardInv
    BY DEF IInv
  <2>1. CASE applied' = applied
    BY <2>1
  <2>2. tf # None /\ tf.conf.db # None
    BY <2>0 DEF GuardInv
  <2>3. CASE Update /\ ~Refused /\ applied' = Translate(want)
    <3>1. ~ForceReplaces(tf.plan, Translate(want))
      BY <2>0, <2>3, UpdateCases
    <3>2. tf.plan # None
      BY <2>0, <2>2 DEF GuardInv
    <3>3. /\ tf.plan.enc = applied'.enc /\ tf.plan.engine = applied'.engine
          /\ tf.plan.name = applied'.name /\ tf.plan.family = applied'.family
      BY <2>3, <3>1, <3>2 DEF ForceReplaces
    <3> QED BY <2>0, <2>2, <3>3 DEF GuardInv
  <2>4. CASE Update
    <3>1. CASE Refused
      BY <2>1, <3>1 DEF Refused
    <3> QED BY <2>0, <2>1, <2>3, <2>4, <3>1, UpdateCases
  <2>5. CASE Delete
    BY <2>1, <2>5 DEF Delete, Refused, Answered, Unanswered
  <2>6. ~Create /\ ~ReadNotFound
    BY <2>2 DEF Create, ReadNotFound
  <2> QED BY <2>1, <2>4, <2>5, <2>6
          DEF Next, vars, history, ReadFound, ModifyPlan, GiveUp, EditElsewhere, Upgrade
<1> QED BY <1>1, Invariance, PTL DEF DatabaseKept, Spec

\* For every value of the constants, lost answers and edits at any moment
\* included: what an update removes although the refresh did not show it is of a
\* type the provider does not know, or came after the refresh.
THEOREM UnseenComponentsStay == Spec => NothingRemovedUnseen
<1> DEFINE Seen == pc = "planned" /\ tf # None /\ pc' = "idle" =>
             \A i \in Ids : server[i] # None /\ server'[i] # None =>
               \A t \in server[i].comps \ (Others \cup late) :
                  Means(t) \in tf.conf.comps \/ \E u \in server'[i].comps : Means(u) = Means(t)
<1>1. IInv /\ [Next]_vars => Seen
  <2> SUFFICES ASSUME IInv, [Next]_vars, pc = "planned", tf # None, pc' = "idle",
                      NEW i \in Ids, server[i] # None, server'[i] # None,
                      NEW t \in server[i].comps \ (Others \cup late)
               PROVE  Means(t) \in tf.conf.comps \/ \E u \in server'[i].comps : Means(u) = Means(t)
    OBVIOUS
  <2>0. TypeOK /\ PlannedInv /\ RefreshedInv
    BY DEF IInv
  <2>1. server[i].comps \ late \in SUBSET TypeNames
    BY <2>0 DEF TypeOK, Record
  <2>2. Means(t) \in Canon(server[i].comps \ late)
    BY <2>1, CanonMeaning
  <2>3. CASE server'[i] = server[i]
    BY <2>3
  <2>4. CASE i = tf.id
    BY <2>0, <2>2, <2>4 DEF RefreshedInv
  <2>5. CASE Update /\ ~Refused
    BY <2>0, <2>3, <2>4, <2>5, UpdateCases
  <2>6. CASE Refused
    BY <2>3, <2>6 DEF Refused
  <2> QED BY <2>3, <2>5, <2>6 DEF Next, vars, ReadNotFound, ReadFound, ModifyPlan, GiveUp, Create,
                            Delete, EditElsewhere, Upgrade
<1> QED BY <1>1, Invariance, PTL DEF NothingRemovedUnseen, Spec
=============================================================================
