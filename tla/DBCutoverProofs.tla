-------------------------- MODULE DBCutoverProofs --------------------------
(***************************************************************************)
(* Theorems about DBCutover for every number of keys.  The invariant has   *)
(* three parts: types, what the gate established and nothing undoes, and   *)
(* the sequences.  That a replica is its source but for the backlog is an  *)
(* invariant relative to it; replaying a log is a recursive function, and  *)
(* what it computes is proved at the least index where it would not.       *)
(***************************************************************************)
EXTENDS DBCutover, LeastNumber, TLAPS, SequenceTheorems

\* A change applied to a set of keys gives a set of keys.
LEMMA AppliedTyped ==
  ASSUME NEW rows \in SUBSET Ids, NEW c \in Change
  PROVE  Applied(rows, c) \in SUBSET Ids
BY DEF Applied, Change

\* No change at all is a backlog.
LEMMA EmptyTyped == <<>> \in Seq(Change)
OBVIOUS

\* Logging keeps the backlog well-typed.
LEMMA LogTyped ==
  ASSUME NEW kind \in {"insert", "delete"}, NEW id \in Ids,
         wal \in Seq(Change), slot \in BOOLEAN, pub \in BOOLEAN, Log(kind, id)
  PROVE  wal' \in Seq(Change)
<1>1. [kind |-> kind, id |-> id, published |-> pub] \in Change
  BY DEF Change
<1> QED BY <1>1 DEF Log

LEMMA InitInv == Init => IInv
<1> SUFFICES ASSUME Init PROVE IInv
  OBVIOUS
<1>1. [rows |-> {}, seq |-> 0] \in Database
  BY MaxIdAssumption DEF Database
<1>2. TypeOK
  BY <1>1, EmptyTyped DEF Init, TypeOK
<1>3. GateInv
  BY DEF Init, GateInv, FreezeInv, Committed, PromotedHasEverything, Promotion
<1>4. SequenceInv
  BY DEF Init, SequenceInv, Promoted
<1> QED BY <1>2, <1>3, <1>4 DEF IInv

\* The services keep the types.
LEMMA ServicesTyped == TypeOK /\ Services => TypeOK'
<1> SUFFICES ASSUME TypeOK, Services PROVE TypeOK'
  OBVIOUS
<1>1. CASE SourceInsert
  <2>1. src.seq + 1 \in Ids /\ src.seq + 1 \in 0..MaxId
    BY <1>1, MaxIdAssumption DEF SourceInsert, TypeOK, Database, Ids
  <2>3. wal' \in Seq(Change)
    BY <1>1, <2>1, LogTyped DEF SourceInsert, TypeOK
  <2>4. src' \in Database
    BY <1>1, <2>1 DEF SourceInsert, TypeOK, Database
  <2> QED BY <1>1, <2>3, <2>4 DEF SourceInsert, TypeOK, operation, script
<1>2. CASE SourceDelete
  <2>1. PICK id \in src.rows : /\ src' = [src EXCEPT !.rows = @ \ {id}]
                               /\ Log("delete", id)
    BY <1>2 DEF SourceDelete
  <2>2. id \in Ids
    BY <2>1 DEF TypeOK, Database
  <2>3. wal' \in Seq(Change)
    BY <2>1, <2>2, LogTyped DEF TypeOK
  <2>4. src' \in Database
    BY <2>1 DEF TypeOK, Database
  <2> QED BY <1>2, <2>3, <2>4 DEF SourceDelete, TypeOK, operation, script
<1>3. CASE TargetInsert
  <2>1. tgt.seq + 1 \in Ids /\ tgt.seq + 1 \in 0..MaxId
    BY <1>3, MaxIdAssumption DEF TargetInsert, TypeOK, Database, Ids
  <2> QED BY <1>3, <2>1 DEF TargetInsert, TypeOK, Database, replication, operation, script
<1>4. CASE TargetDelete
  BY <1>4 DEF TargetDelete, TypeOK, Database, replication, operation, script
<1> QED BY <1>1, <1>2, <1>3, <1>4 DEF Services

\* So does every statement of the setup script.
LEMMA SetupTyped == TypeOK /\ SetupStep => TypeOK'
<1> SUFFICES ASSUME TypeOK, SetupStep PROVE TypeOK'
  OBVIOUS
<1> USE DEF TypeOK, SetupSteps, Proceed, operation
<1>1. CASE DropPublication \/ CreatePublication
  BY <1>1 DEF DropPublication, CreatePublication
<1>2. CASE FindSubscription
  BY <1>2 DEF FindSubscription
<1>3. CASE ResetDetach \/ ResetDrop
  BY <1>3 DEF ResetDetach, ResetDrop
<1>4. CASE ResetDropSlot
  <2>1. slot' \in BOOLEAN /\ wal' \in Seq(Change)
    BY <1>4, EmptyTyped DEF ResetDropSlot
  <2> QED BY <1>4, <2>1 DEF ResetDropSlot
<1>5. ASSUME NEW copy \in BOOLEAN, CreateSubscription(copy) PROVE TypeOK'
  BY <1>5, EmptyTyped DEF CreateSubscription
<1>6. CASE SetupFails
  BY <1>6 DEF SetupFails, replication
<1> QED BY <1>1, <1>2, <1>3, <1>4, <1>5, <1>6 DEF SetupStep

\* So do PostgreSQL and the operator.
LEMMA SurroundingsTyped == TypeOK /\ (Postgres \/ Operator) => TypeOK'
<1> SUFFICES ASSUME TypeOK, Postgres \/ Operator PROVE TypeOK'
  OBVIOUS
<1>1. CASE InitialCopy
  BY <1>1, EmptyTyped DEF InitialCopy, TypeOK, Database, operation, script
<1>2. CASE Replicate
  <2>1. Head(wal) \in Change /\ Tail(wal) \in Seq(Change)
    BY <1>2 DEF Replicate, TypeOK
  <2>2. Applied(tgt.rows, Head(wal)) \in SUBSET Ids
    BY <2>1, AppliedTyped DEF TypeOK, Database
  <2>3. tgt' \in Database
    BY <1>2, <2>2 DEF Replicate, TypeOK, Database
  <2> QED BY <1>2, <2>1, <2>3 DEF Replicate, TypeOK, operation, script
<1>3. CASE LoseSlot
  BY <1>3, EmptyTyped DEF LoseSlot, TypeOK, operation, script
<1>4. CASE OtherTraffic
  BY <1>4 DEF OtherTraffic, TypeOK, replication, script
<1>6. CASE DumpRestore
  <2>1. tgt' \in Database
    BY <1>6, MaxIdAssumption DEF DumpRestore, TypeOK, Database
  <2> QED BY <1>6, <2>1 DEF DumpRestore, TypeOK, replication, operation, script
<1>7. CASE Freeze
  BY <1>7 DEF Freeze, TypeOK, replication, script
<1>8. CASE Unfreeze
  BY <1>8 DEF Unfreeze, TypeOK, replication, script
<1>9. CASE Repoint
  BY <1>9 DEF Repoint, TypeOK, replication, script
<1> QED BY <1>1, <1>2, <1>3, <1>4, <1>6, <1>7, <1>8, <1>9, SetupTyped DEF Postgres, Operator

\* So does every step of cutover-db.sh.
LEMMA ScriptTyped == TypeOK /\ CutoverDb => TypeOK'
<1> SUFFICES ASSUME TypeOK, CutoverDb PROVE TypeOK'
  OBVIOUS
<1>1. CASE SyncSequences
  <2>1. LastValue(src) \in 0..MaxId
    BY MaxIdAssumption DEF LastValue, TypeOK, Database
  <2>2. tgt' \in Database
    BY <1>1, <2>1 DEF SyncSequences, TypeOK, Database
  <2> QED BY <1>1, <2>2 DEF SyncSequences, Continue, TypeOK, replication, operation, Steps
<1>2. CASE BumpSequences
  <2>1. tgt' \in Database
    BY <1>2 DEF BumpSequences, IsMax, TypeOK, Database, Ids
  <2> QED BY <1>2, <2>1 DEF BumpSequences, Continue, TypeOK, replication, operation, Steps, Promotion
<1>3. CASE Start \/ Abort \/ Drain \/ Gate \/ Confirm
  BY <1>3 DEF Start, Abort, Drain, Gate, Confirm, Continue, TypeOK, replication, operation, Steps, Promotion
<1>4. CASE Disable
  BY <1>4 DEF Disable, Continue, TypeOK, operation, Steps, Promotion
<1>5. CASE Detach
  BY <1>5 DEF Detach, Continue, TypeOK, operation, Steps, Promotion
<1>6. CASE DropSubscription
  BY <1>6 DEF DropSubscription, Continue, TypeOK, operation, Steps, Promotion
<1>7. CASE DropSlot
  BY <1>7, EmptyTyped DEF DropSlot, TypeOK, operation, Steps
<1> QED BY <1>1, <1>2, <1>3, <1>4, <1>5, <1>6, <1>7 DEF CutoverDb, CutoverStep

LEMMA TypeOKStep == TypeOK /\ [Next]_vars => TypeOK'
<1>1. ASSUME TypeOK, UNCHANGED vars PROVE TypeOK'
  BY <1>1 DEF TypeOK, vars, replication, operation, script
<1> QED BY <1>1, ServicesTyped, SurroundingsTyped, ScriptTyped DEF Next
-----------------------------------------------------------------------------
\* Outside the script nothing disturbs what the gate established: the source is
\* frozen and nothing is left to apply or to copy.
LEMMA GateKept == IInv /\ (Services \/ Postgres \/ Operator) => GateInv'
<1> SUFFICES ASSUME IInv, Services \/ Postgres \/ Operator PROVE GateInv'
  OBVIOUS
<1> USE DEF IInv, GateInv, FreezeInv, Committed, PromotedHasEverything, Drained, Promotion
<1>1. CASE SourceInsert \/ SourceDelete
  BY <1>1 DEF SourceInsert, SourceDelete, operation, script
<1>2. CASE TargetInsert \/ TargetDelete
  BY <1>2 DEF TargetInsert, TargetDelete, SequenceInv, replication, operation, script
<1>3. CASE InitialCopy \/ Replicate \/ LoseSlot \/ OtherTraffic
  <2>1. CASE InitialCopy
    BY <2>1 DEF InitialCopy, operation, script
  <2>2. CASE Replicate
    BY <2>2 DEF Replicate, operation, script
  <2>3. CASE LoseSlot \/ OtherTraffic
    BY <2>3 DEF LoseSlot, OtherTraffic, replication, operation, script
  <2> QED BY <1>3, <2>1, <2>2, <2>3
<1>4. CASE SetupStep
  <2> USE DEF Proceed, operation
  <2>1. CASE DropPublication
    BY <2>1 DEF DropPublication, Preparing, Steps
  <2>2. CASE CreatePublication \/ SetupFails
    BY <2>2 DEF CreatePublication, SetupFails, SetupSteps, replication
  <2>3. CASE FindSubscription
    BY <2>3 DEF FindSubscription
  <2>4. CASE ResetDetach
    BY <2>4 DEF ResetDetach
  <2>5. CASE ResetDrop \/ ResetDropSlot
    BY <2>5 DEF ResetDrop, ResetDropSlot
  <2>6. ASSUME NEW copy \in BOOLEAN, CreateSubscription(copy) PROVE GateInv'
    BY <2>6 DEF CreateSubscription
  <2> QED BY <1>4, <2>1, <2>2, <2>3, <2>4, <2>5, <2>6 DEF SetupStep
<1>5. CASE DumpRestore
  BY <1>5 DEF DumpRestore, Preparing, replication, operation, script
<1>6. CASE Freeze \/ Unfreeze \/ Repoint
  BY <1>6 DEF Freeze, Unfreeze, Repoint, replication, script
<1> QED BY <1>1, <1>2, <1>3, <1>4, <1>5, <1>6 DEF Services, Postgres, Operator

\* The gate establishes it, and the promotion only severs the replication.
LEMMA GateScript == IInv /\ CutoverDb => GateInv'
<1> SUFFICES ASSUME IInv, CutoverDb PROVE GateInv'
  OBVIOUS
<1> USE DEF IInv, GateInv, FreezeInv, Committed, PromotedHasEverything, Drained, Promotion, Continue
<1>1. CASE Start \/ Abort \/ Drain \/ Confirm
  BY <1>1 DEF Start, Abort, Drain, Confirm, Steps, replication, operation
<1>2. CASE SyncSequences
  <2>1. tgt'.rows = tgt.rows
    BY <1>2 DEF SyncSequences, TypeOK, Database
  <2> QED BY <1>2, <2>1 DEF SyncSequences, replication, operation
<1>3. CASE Gate
  BY <1>3 DEF Gate, GateGreen, LagZero, TablesMatch, replication, operation
<1>4. CASE Disable \/ Detach \/ DropSubscription
  <2>1. CASE Disable
    BY <2>1 DEF Disable, operation
  <2>2. CASE Detach
    BY <2>2 DEF Detach, operation
  <2>3. CASE DropSubscription
    BY <2>3 DEF DropSubscription, operation
  <2> QED BY <1>4, <2>1, <2>2, <2>3
<1>5. CASE BumpSequences
  <2>1. tgt'.rows = tgt.rows
    BY <1>5 DEF BumpSequences, TypeOK, Database
  <2> QED BY <1>5, <2>1 DEF BumpSequences, replication, operation
<1>6. CASE DropSlot
  BY <1>6 DEF DropSlot, operation, SequenceInv
<1> QED BY <1>1, <1>2, <1>3, <1>4, <1>5, <1>6 DEF CutoverDb, CutoverStep

\* The services keep the keys below the sequence they come from.
LEMMA SequenceServices == IInv /\ Services => SequenceInv'
<1> SUFFICES ASSUME IInv, Services PROVE SequenceInv'
  OBVIOUS
<1> USE DEF IInv, SequenceInv, Promoted
<1>1. CASE SourceInsert
  <2>1. \A id \in src'.rows : id <= src'.seq
    BY <1>1 DEF SourceInsert, TypeOK, Database, Ids
  <2>2. services = "source" /\ tgt' = tgt /\ sub' = sub
    BY <1>1 DEF SourceInsert
  <2> QED BY <1>1, <2>1, <2>2 DEF SourceInsert, operation, script
<1>2. CASE SourceDelete
  BY <1>2 DEF SourceDelete, operation, script, TypeOK, Database
<1>3. CASE TargetInsert
  <2>1. Promoted => \A id \in tgt'.rows : id <= tgt'.seq
    BY <1>3 DEF TargetInsert, TypeOK, Database, Ids
  <2> QED BY <1>3, <2>1 DEF TargetInsert, replication, operation, script
<1>4. CASE TargetDelete
  <2>1. tgt'.rows \subseteq tgt.rows /\ tgt'.seq = tgt.seq
    BY <1>4 DEF TargetDelete, TypeOK, Database
  <2> QED BY <1>4, <2>1 DEF TargetDelete, replication, operation, script
<1> QED BY <1>1, <1>2, <1>3, <1>4 DEF Services

\* PostgreSQL does not write to a promoted target, the operator prepares none.
LEMMA SequenceSurroundings == IInv /\ (Postgres \/ Operator) => SequenceInv'
<1> SUFFICES ASSUME IInv, Postgres \/ Operator PROVE SequenceInv'
  OBVIOUS
<1> USE DEF IInv, SequenceInv, Promoted
<1>1. CASE InitialCopy \/ Replicate \/ LoseSlot \/ OtherTraffic
  BY <1>1 DEF InitialCopy, Replicate, LoseSlot, OtherTraffic, replication, operation, script
<1>2. CASE SetupStep
  <2> USE DEF Proceed, operation, GateInv
  <2>1. CASE DropPublication \/ CreatePublication \/ SetupFails
    BY <2>1 DEF DropPublication, CreatePublication, SetupFails, Preparing, replication
  <2>2. CASE FindSubscription
    BY <2>2 DEF FindSubscription
  <2>3. CASE ResetDetach
    BY <2>3 DEF ResetDetach
  <2>4. CASE ResetDrop \/ ResetDropSlot
    BY <2>4 DEF ResetDrop, ResetDropSlot
  <2>5. ASSUME NEW copy \in BOOLEAN, CreateSubscription(copy) PROVE SequenceInv'
    BY <2>5 DEF CreateSubscription
  <2> QED BY <1>2, <2>1, <2>2, <2>3, <2>4, <2>5 DEF SetupStep
<1>3. CASE DumpRestore
  BY <1>3 DEF DumpRestore, Preparing, replication, operation, script
<1>4. CASE Freeze \/ Unfreeze \/ Repoint
  BY <1>4 DEF Freeze, Unfreeze, Repoint, replication, script
<1> QED BY <1>1, <1>2, <1>3, <1>4 DEF Postgres, Operator

\* The script promotes only after the bump.
LEMMA SequenceScript == IInv /\ CutoverDb => SequenceInv'
<1> SUFFICES ASSUME IInv, CutoverDb PROVE SequenceInv'
  OBVIOUS
<1> USE DEF IInv, SequenceInv, Promoted, Continue
<1>1. CASE Start \/ Abort \/ Drain \/ Gate \/ Confirm
  BY <1>1 DEF Start, Abort, Drain, Gate, Confirm, Steps, Promotion, replication, operation
<1>2. CASE SyncSequences
  BY <1>2 DEF SyncSequences, replication, operation
<1>3. CASE Disable \/ Detach \/ DropSubscription
  <2>1. CASE Disable
    BY <2>1 DEF Disable, operation
  <2>2. CASE Detach
    BY <2>2 DEF Detach, operation, GateInv
  <2>3. CASE DropSubscription
    BY <2>3 DEF DropSubscription, operation
  <2> QED BY <1>3, <2>1, <2>2, <2>3
<1>4. CASE BumpSequences
  <2>1. \A id \in tgt'.rows : id <= tgt'.seq
    BY <1>4 DEF BumpSequences, IsMax, TypeOK, Database
  <2> QED BY <1>4, <2>1 DEF BumpSequences, replication, operation
<1>5. CASE DropSlot
  BY <1>5 DEF DropSlot, operation
<1> QED BY <1>1, <1>2, <1>3, <1>4, <1>5 DEF CutoverDb, CutoverStep

\* The invariant is inductive.
THEOREM Invariance == Spec => []IInv
<1>1. ASSUME IInv, UNCHANGED vars PROVE IInv'
  BY <1>1 DEF IInv, TypeOK, GateInv, FreezeInv, SequenceInv, Committed, PromotedHasEverything,
     Drained, Promoted, vars, replication, operation, script
<1>2. IInv /\ [Next]_vars => IInv'
  BY <1>1, TypeOKStep, GateKept, GateScript, SequenceServices, SequenceSurroundings,
     SequenceScript DEF IInv, Next
<1> QED BY InitInv, <1>2, PTL DEF Spec

\* The database is well-typed whatever the scripts, the operator and the
\* replication do.
THEOREM TypeCorrectness == Spec => []TypeOK
<1>1. IInv => TypeOK
  BY DEF IInv
<1> QED BY Invariance, <1>1, PTL

\* If the operator froze the source first and the gate could list what it compares,
\* no row is lost or invented between the operator's confirmation and the moment
\* the services move: whatever the baseline, however often the publication, the
\* subscription and the slot were dropped, made again or lost.
THEOREM ZeroDataLoss ==
  ASSUME ~ListingMayFail, ~OutsideFreeze
  PROVE  Spec => []PromotedHasEverything
<1>1. IInv => PromotedHasEverything
  BY DEF IInv, GateInv, FreezeInv
<1> QED BY Invariance, <1>1, PTL

\* If nobody runs cutover-db.sh on a promoted database, no insert on it ever
\* collides, even when the sequence sync and the gate saw empty lists.
THEOREM NoCollision ==
  ASSUME ~Rerun
  PROVE  Spec => []NoInsertCollides
<1>1. IInv => NoInsertCollides
  BY DEF IInv, SequenceInv, NoInsertCollides
<1> QED BY Invariance, <1>1, PTL
-----------------------------------------------------------------------------
(* Replaying the backlog. *)

\* f is what the recursion in States asks for.
Replays(f, rows, log) == f = [i \in 0..Len(log) |-> IF i = 0 THEN rows ELSE Applied(f[i - 1], log[i])]

\* The recursion has a solution: the least length without one is contradictory.
LEMMA StatesExist ==
  ASSUME NEW rows, NEW log \in Seq(Change)
  PROVE  \E f : Replays(f, rows, log)
<1> DEFINE Runs(f, m) == f = [i \in 0..m |-> IF i = 0 THEN rows ELSE Applied(f[i - 1], log[i])]
           T == {m \in 0..Len(log) : ~\E f : Runs(f, m)}
<1>0. Len(log) \in Nat
  OBVIOUS
<1>1. T = {}
  <2> SUFFICES ASSUME T # {} PROVE FALSE
    OBVIOUS
  <2>1. PICK m \in T : \A k \in T : m <= k
    <3>1. T \subseteq Nat
      BY <1>0
    <3> HIDE DEF T
    <3> QED BY <3>1, LeastMember
  <2>2. m \in 0..Len(log) /\ ~\E f : Runs(f, m)
    OBVIOUS
  <2>3. CASE m = 0
    <3> DEFINE g == [i \in 0..0 |-> rows]
    <3>1. Runs(g, 0)
      OBVIOUS
    <3> QED BY <2>2, <2>3, <3>1
  <2>4. CASE m # 0
    <3>0. m \in Nat /\ m - 1 \in 0..Len(log)
      BY <1>0, <2>2, <2>4
    <3>1. m - 1 \in 0..Len(log) /\ m - 1 \notin T
      <4> HIDE DEF T
      <4> QED BY <2>1, <3>0, BelowLeast
    <3>2. PICK f : Runs(f, m - 1)
      BY <3>1
    <3> DEFINE g == [i \in 0..m |-> IF i = m THEN Applied(f[m - 1], log[m]) ELSE f[i]]
    <3>3. \A i \in 0..m : g[i] = IF i = 0 THEN rows ELSE Applied(g[i - 1], log[i])
      <4> SUFFICES ASSUME NEW i \in 0..m PROVE g[i] = IF i = 0 THEN rows ELSE Applied(g[i - 1], log[i])
        OBVIOUS
      <4>1. CASE i = m
        BY <1>0, <2>2, <2>4, <4>1
      <4>2. CASE i # m
        <5>1. i \in 0..(m - 1) /\ g[i] = f[i] /\ (i # 0 => i - 1 \in 0..m /\ i - 1 # m /\ g[i - 1] = f[i - 1])
          BY <1>0, <2>2, <4>2
        <5>2. f[i] = IF i = 0 THEN rows ELSE Applied(f[i - 1], log[i])
          BY <3>2, <5>1
        <5> QED BY <5>1, <5>2
      <4> QED BY <4>1, <4>2
    <3>4. Runs(g, m)
      BY <3>3
    <3> QED BY <2>2, <3>4
  <2> QED BY <2>3, <2>4
<1>2. \E f : Runs(f, Len(log))
  BY <1>0, <1>1
<1> QED BY <1>2 DEF Replays

\* What the recursion computes.
LEMMA StatesAre ==
  ASSUME NEW rows, NEW log \in Seq(Change)
  PROVE  \A i \in 0..Len(log) :
           States(rows, log)[i] = IF i = 0 THEN rows ELSE Applied(States(rows, log)[i - 1], log[i])
<1>1. States(rows, log) = [i \in 0..Len(log) |->
                             IF i = 0 THEN rows ELSE Applied(States(rows, log)[i - 1], log[i])]
  <2>1. \E f : Replays(f, rows, log)
    BY StatesExist
  <2> QED BY <2>1, Zenon DEF States, Replays
<1> DEFINE S == States(rows, log)
<1>2. S = [i \in 0..Len(log) |-> IF i = 0 THEN rows ELSE Applied(S[i - 1], log[i])]
  BY <1>1
<1> HIDE DEF S
<1>3. \A i \in 0..Len(log) : S[i] = IF i = 0 THEN rows ELSE Applied(S[i - 1], log[i])
  BY <1>2
<1> QED BY <1>3 DEF S

\* Nothing to replay.
LEMMA ReplayedNothing == \A rows : Replayed(rows, <<>>) = rows
<1> TAKE rows
<1>1. <<>> \in Seq(Change) /\ Len(<<>>) = 0 /\ 0 \in 0..Len(<<>>)
  OBVIOUS
<1> QED BY <1>1, StatesAre DEF Replayed

\* One more change at the end of the log is applied last.
LEMMA ReplayedMore ==
  ASSUME NEW rows, NEW log \in Seq(Change), NEW c \in Change
  PROVE  Replayed(rows, Append(log, c)) = Applied(Replayed(rows, log), c)
<1> DEFINE more == Append(log, c)
           S == States(rows, log)
           M == States(rows, more)
           n == Len(log)
<1>0. more \in Seq(Change) /\ n \in Nat /\ Len(more) = n + 1 /\ more[n + 1] = c
      /\ \A i \in 1..n : more[i] = log[i]
  OBVIOUS
<1>1. /\ \A i \in 0..n : S[i] = IF i = 0 THEN rows ELSE Applied(S[i - 1], log[i])
      /\ \A i \in 0..(n + 1) : M[i] = IF i = 0 THEN rows ELSE Applied(M[i - 1], more[i])
  <2> HIDE DEF more
  <2>1. \A i \in 0..Len(log) : S[i] = IF i = 0 THEN rows ELSE Applied(S[i - 1], log[i])
    BY StatesAre
  <2>2. \A i \in 0..Len(more) : M[i] = IF i = 0 THEN rows ELSE Applied(M[i - 1], more[i])
    BY <1>0, StatesAre
  <2> QED BY <1>0, <2>1, <2>2
<1> DEFINE T == {i \in 0..n : M[i] # S[i]}
<1> HIDE DEF more, S, M, n
<1>2. T = {}
  <2> SUFFICES ASSUME T # {} PROVE FALSE
    OBVIOUS
  <2>1. PICK m \in T : \A k \in T : m <= k
    <3>1. T \subseteq Nat
      BY <1>0
    <3> HIDE DEF T
    <3> QED BY <3>1, LeastMember
  <2>2. m \in 0..n /\ M[m] # S[m] /\ m \in 0..(n + 1)
    BY <1>0
  <2>3. m # 0
    BY <1>1, <2>2
  <2>4. m - 1 \in 0..n /\ m - 1 \notin T /\ m \in 1..n
    <3>1. m \in Nat /\ m - 1 \in 0..n /\ m \in 1..n
      BY <1>0, <2>2, <2>3
    <3> HIDE DEF T
    <3> QED BY <2>1, <3>1, BelowLeast
  <2>5. M[m - 1] = S[m - 1] /\ more[m] = log[m]
    BY <1>0, <2>4
  <2> QED BY <1>1, <2>2, <2>3, <2>5
<1>3. n \in 0..n /\ n + 1 \in 0..(n + 1) /\ n + 1 # 0 /\ (n + 1) - 1 = n
  BY <1>0
<1>4. M[n] = S[n]
  BY <1>2, <1>3
<1>5. M[n + 1] = Applied(M[n], c)
  BY <1>0, <1>1, <1>3
<1>6. M[n + 1] = Applied(S[n], c)
  BY <1>4, <1>5
<1> QED BY <1>0, <1>6 DEF Replayed, more, S, M, n

\* The first change of the log is applied first.
LEMMA ReplayedFirst ==
  ASSUME NEW rows, NEW log \in Seq(Change), log # <<>>
  PROVE  Replayed(Applied(rows, Head(log)), Tail(log)) = Replayed(rows, log)
<1> DEFINE rest == Tail(log)
           S == States(rows, log)
           R == States(Applied(rows, Head(log)), rest)
           n == Len(rest)
<1>0. rest \in Seq(Change) /\ n \in Nat /\ Len(log) = n + 1 /\ Head(log) = log[1]
      /\ \A i \in 1..n : rest[i] = log[i + 1]
  BY HeadTailProperties
<1>1. /\ \A i \in 0..(n + 1) : S[i] = IF i = 0 THEN rows ELSE Applied(S[i - 1], log[i])
      /\ \A i \in 0..n : R[i] = IF i = 0 THEN Applied(rows, log[1]) ELSE Applied(R[i - 1], rest[i])
  <2> HIDE DEF rest
  <2>1. \A i \in 0..Len(log) : S[i] = IF i = 0 THEN rows ELSE Applied(S[i - 1], log[i])
    BY StatesAre
  <2>2. \A i \in 0..Len(rest) : R[i] = IF i = 0 THEN Applied(rows, Head(log)) ELSE Applied(R[i - 1], rest[i])
    BY <1>0, StatesAre
  <2> QED BY <1>0, <2>1, <2>2
<1> DEFINE T == {i \in 0..n : R[i] # S[i + 1]}
<1> HIDE DEF rest, S, R, n
<1>2. T = {}
  <2> SUFFICES ASSUME T # {} PROVE FALSE
    OBVIOUS
  <2>1. PICK m \in T : \A k \in T : m <= k
    <3>1. T \subseteq Nat
      BY <1>0
    <3> HIDE DEF T
    <3> QED BY <3>1, LeastMember
  <2>2. m \in 0..n /\ R[m] # S[m + 1]
    OBVIOUS
  <2>3. 0 \in 0..(n + 1) /\ m + 1 \in 0..(n + 1) /\ m + 1 # 0 /\ (m + 1) - 1 = m
    BY <1>0, <2>2
  <2>4. S[m + 1] = Applied(S[m], log[m + 1])
    BY <1>1, <2>3
  <2>5. CASE m = 0
    <3>1. S[0] = rows /\ R[0] = Applied(rows, log[1]) /\ m + 1 = 1
      BY <1>0, <1>1, <2>2, <2>3, <2>5
    <3> QED BY <2>2, <2>4, <2>5, <3>1
  <2>6. CASE m # 0
    <3>1. m - 1 \in 0..n /\ m - 1 \notin T /\ m \in 1..n /\ (m - 1) + 1 = m
      <4>1. m \in Nat /\ m - 1 \in 0..n /\ m \in 1..n /\ (m - 1) + 1 = m
        BY <1>0, <2>2, <2>6
      <4> HIDE DEF T
      <4> QED BY <2>1, <4>1, BelowLeast
    <3>2. R[m - 1] = S[m] /\ rest[m] = log[m + 1]
      BY <1>0, <3>1
    <3>3. R[m] = Applied(R[m - 1], rest[m])
      BY <1>1, <2>2, <2>6
    <3> QED BY <2>2, <2>4, <3>2, <3>3
  <2> QED BY <2>5, <2>6
<1>3. n \in 0..n
  BY <1>0
<1>4. R[n] = S[n + 1]
  BY <1>2, <1>3
<1> QED BY <1>0, <1>4 DEF Replayed, rest, S, R, n

\* A change on the source is a change of the log.
LEMMA LoggedConsistent ==
  ASSUME IInv, ReplicaConsistent, NEW kind \in {"insert", "delete"}, NEW id \in Ids, Log(kind, id),
         src'.rows = IF kind = "insert" THEN src.rows \cup {id} ELSE src.rows \ {id},
         UNCHANGED <<tgt, slot, ready, baseline>>
  PROVE  ReplicaConsistent'
<1> DEFINE c == [kind |-> kind, id |-> id, published |-> pub]
<1> SUFFICES ASSUME baseline = "copy", ready, slot
             PROVE  Replayed(tgt.rows, wal') = src'.rows
  BY DEF ReplicaConsistent
<1>1. c \in Change
  BY DEF Change, IInv, TypeOK
<1>2. wal' = Append(wal, c) /\ wal \in Seq(Change)
  BY DEF Log, IInv, TypeOK
<1>3. src'.rows = Applied(src.rows, c)
  BY DEF Applied
<1>4. Replayed(tgt.rows, wal) = src.rows
  BY DEF ReplicaConsistent
<1> HIDE DEF c
<1> QED BY <1>1, <1>2, <1>3, <1>4, ReplayedMore

\* The apply worker takes from the log what it puts into the target.
LEMMA AppliedConsistent == IInv /\ ReplicaConsistent /\ Replicate => ReplicaConsistent'
<1> SUFFICES ASSUME IInv, ReplicaConsistent, Replicate
             PROVE  baseline = "copy" => Replayed(tgt'.rows, wal') = src'.rows
  BY DEF ReplicaConsistent, Replicate
<1>1. /\ tgt'.rows = Applied(tgt.rows, Head(wal)) /\ wal' = Tail(wal) /\ src' = src
      /\ wal \in Seq(Change) /\ wal # <<>>
  BY DEF Replicate, IInv, TypeOK, Database
<1>2. baseline = "copy" => Replayed(tgt.rows, wal) = src.rows
  BY DEF ReplicaConsistent, Replicate
<1> QED BY <1>1, <1>2, ReplayedFirst

\* Every step keeps a replica consistent.
LEMMA ReplicaStep == IInv /\ ReplicaConsistent /\ [Next]_vars => ReplicaConsistent'
<1> SUFFICES ASSUME IInv, ReplicaConsistent, [Next]_vars PROVE ReplicaConsistent'
  OBVIOUS
<1>1. ASSUME UNCHANGED <<src, wal>>, baseline = "copy" => tgt'.rows = tgt.rows,
             baseline' = "copy" => baseline = "copy", ready' => ready, slot' => slot
      PROVE  ReplicaConsistent'
  BY <1>1 DEF ReplicaConsistent
<1>2. ASSUME baseline' # "copy" \/ ~ready' \/ ~slot'
      PROVE  ReplicaConsistent'
  BY <1>2 DEF ReplicaConsistent
<1>3. CASE SourceInsert
  <2>1. src.seq + 1 \in Ids
    BY <1>3, MaxIdAssumption DEF SourceInsert, IInv, TypeOK, Database, Ids
  <2>2. src'.rows = src.rows \cup {src.seq + 1}
    BY <1>3 DEF SourceInsert
  <2> QED BY <1>3, <2>1, <2>2, LoggedConsistent DEF SourceInsert
<1>4. CASE SourceDelete
  <2>1. PICK id \in src.rows : /\ src' = [src EXCEPT !.rows = @ \ {id}]
                               /\ Log("delete", id)
    BY <1>4 DEF SourceDelete
  <2>2. id \in Ids /\ src'.rows = src.rows \ {id}
    BY <2>1 DEF IInv, TypeOK, Database
  <2> QED BY <1>4, <2>1, <2>2, LoggedConsistent DEF SourceDelete
<1>5. CASE TargetInsert \/ TargetDelete
  <2>1. baseline = "none" /\ baseline' = baseline
    BY <1>5 DEF TargetInsert, TargetDelete, replication, IInv, SequenceInv, GateInv
  <2> QED BY <1>2, <2>1
<1>6. CASE InitialCopy
  <2>1. /\ tgt'.rows = tgt.rows \cup src.rows /\ wal' = <<>> /\ src' = src
        /\ baseline' = baseline /\ ~ready
    BY <1>6 DEF InitialCopy, IInv, TypeOK, Database
  <2>2. baseline = "copy" => tgt'.rows = src.rows
    BY <2>1 DEF IInv, GateInv
  <2> QED BY <2>1, <2>2, ReplayedNothing DEF ReplicaConsistent
<1>7. CASE Replicate
  BY <1>7, AppliedConsistent
<1>8. CASE LoseSlot \/ OtherTraffic
  <2>1. CASE LoseSlot
    BY <1>2, <2>1 DEF LoseSlot
  <2>2. CASE OtherTraffic
    BY <1>1, <2>2 DEF OtherTraffic, replication
  <2> QED BY <1>8, <2>1, <2>2
<1>9. CASE SetupStep
  <2>1. CASE DropPublication \/ CreatePublication \/ FindSubscription \/ ResetDetach \/ SetupFails
    BY <1>1, <2>1 DEF DropPublication, CreatePublication, FindSubscription, ResetDetach, SetupFails,
       replication
  <2>2. CASE ResetDrop
    BY <1>2, <2>2 DEF ResetDrop
  <2>3. CASE ResetDropSlot
    BY <1>1, <1>2, <2>3 DEF ResetDropSlot
  <2>4. ASSUME NEW copy \in BOOLEAN, CreateSubscription(copy) PROVE ReplicaConsistent'
    BY <1>2, <2>4 DEF CreateSubscription
  <2> QED BY <1>9, <2>1, <2>2, <2>3, <2>4 DEF SetupStep
<1>10. CASE DumpRestore
  <2>1. baseline' = "none"
    BY <1>10 DEF DumpRestore, replication, IInv, GateInv
  <2> QED BY <1>2, <2>1
<1>11. CASE Freeze \/ Unfreeze \/ Repoint
  BY <1>1, <1>11 DEF Freeze, Unfreeze, Repoint, replication
<1>12. CASE Start \/ Abort \/ Drain \/ Gate \/ Confirm
  BY <1>1, <1>12 DEF Start, Abort, Drain, Gate, Confirm, replication
<1>13. CASE SyncSequences \/ BumpSequences
  <2>1. tgt'.rows = tgt.rows
    BY <1>13 DEF SyncSequences, BumpSequences, IInv, TypeOK, Database
  <2> QED BY <1>1, <1>13, <2>1 DEF SyncSequences, BumpSequences, replication
<1>14. CASE Disable \/ Detach
  BY <1>1, <1>14 DEF Disable, Detach
<1>15. CASE DropSubscription
  BY <1>2, <1>15 DEF DropSubscription
<1>16. CASE DropSlot
  <2>1. baseline' = "none"
    BY <1>16 DEF DropSlot, IInv, SequenceInv, GateInv
  <2> QED BY <1>2, <2>1
<1>17. CASE UNCHANGED vars
  BY <1>1, <1>17 DEF vars, replication
<1> QED BY <1>3, <1>4, <1>5, <1>6, <1>7, <1>8, <1>9, <1>10, <1>11, <1>12, <1>13, <1>14, <1>15, <1>16, <1>17
        DEF Next, Services, Postgres, Operator, CutoverDb, CutoverStep

\* A subscription that copied the tables itself misses exactly the changes its
\* slot retains, whenever they were made, however often the setup script was run,
\* failed or dropped the publication meanwhile, and even while the sender is stuck.
\* Of a baseline that was restored by hand it says nothing.
THEOREM ReplicaIsSourceBehind == Spec => []ReplicaConsistent
<1>1. Init => ReplicaConsistent
  BY DEF Init, ReplicaConsistent
<1> QED BY Invariance, <1>1, ReplicaStep, PTL DEF Spec
-----------------------------------------------------------------------------
(* The scripts implement the handover.  Only SourceInsert, SourceDelete,     *)
(* TargetInsert, TargetDelete and Repoint are steps of it.                   *)

\* Before the services move they see the source, which nobody else writes.
LEMMA BeforeMove ==
  ASSUME IInv, services = "source", services' = "source", src' = src
  PROVE  UNCHANGED Hand!vars
BY DEF Hand!vars

\* After it they see the target, whose rows nobody else changes.
LEMMA AfterMove ==
  ASSUME IInv, services = "target", services' = "target", tgt'.rows = tgt.rows
  PROVE  UNCHANGED Hand!vars
BY DEF Hand!vars

\* A write of the services is a write of the contract, or consumes a value.
LEMMA ServicesStep == IInv /\ Services => [Hand!Next]_(Hand!vars)
<1> SUFFICES ASSUME IInv, Services PROVE [Hand!Next]_(Hand!vars)
  OBVIOUS
<1>1. CASE SourceInsert
  <2>1. src.seq + 1 \in Ids \ src.rows
    BY <1>1, MaxIdAssumption DEF SourceInsert, IInv, TypeOK, Database, Ids, SequenceInv
  <2>2. Hand!Insert
    BY <1>1, <2>1 DEF SourceInsert, Hand!Insert, operation
  <2> QED BY <2>2 DEF Hand!Next
<1>2. CASE SourceDelete
  <2>1. Hand!Delete
    BY <1>2 DEF SourceDelete, Hand!Delete, operation, IInv, TypeOK, Database
  <2> QED BY <2>1 DEF Hand!Next
<1>3. CASE TargetInsert
  <2>1. tgt.seq + 1 \in Ids
    BY <1>3, MaxIdAssumption DEF TargetInsert, IInv, TypeOK, Database, Ids
  <2>2. CASE tgt.seq + 1 \in tgt.rows
    <3>1. tgt'.rows = tgt.rows
      BY <1>3, <2>2 DEF TargetInsert
    <3> QED BY <1>3, <3>1, AfterMove DEF TargetInsert, operation
  <2>3. CASE tgt.seq + 1 \notin tgt.rows
    <3>1. Hand!Insert
      BY <1>3, <2>1, <2>3 DEF TargetInsert, Hand!Insert, operation
    <3> QED BY <3>1 DEF Hand!Next
  <2> QED BY <2>2, <2>3
<1>4. CASE TargetDelete
  <2>1. Hand!Delete
    BY <1>4 DEF TargetDelete, Hand!Delete, operation, IInv, TypeOK, Database
  <2> QED BY <2>1 DEF Hand!Next
<1> QED BY <1>1, <1>2, <1>3, <1>4 DEF Services

\* Replication and operator stay invisible, but for the move of the services.
LEMMA SurroundingsStep ==
  ASSUME ~ListingMayFail, ~OutsideFreeze, IInv, Postgres \/ Operator
  PROVE  [Hand!Next]_(Hand!vars)
<1>1. services \in {"source", "target"}
  BY DEF IInv, TypeOK
<1>2. CASE InitialCopy \/ Replicate \/ LoseSlot \/ OtherTraffic
  <2>1. services' = services /\ src' = src /\ (sub = "none" => tgt' = tgt)
    BY <1>2 DEF InitialCopy, Replicate, LoseSlot, OtherTraffic, operation
  <2>2. services = "target" => sub = "none"
    BY DEF IInv, SequenceInv
  <2> QED BY <1>1, <2>1, <2>2, BeforeMove, AfterMove
<1>3. CASE DumpRestore \/ Freeze \/ Unfreeze
  <2>1. services' = services /\ services = "source" /\ src' = src
    BY <1>3 DEF DumpRestore, Freeze, Unfreeze, Preparing, operation
  <2> QED BY <2>1, BeforeMove
<1>5. CASE SetupStep
  <2>1. services' = services /\ UNCHANGED <<src, tgt>>
    BY <1>5 DEF SetupStep, DropPublication, CreatePublication, FindSubscription, ResetDetach, ResetDrop,
       ResetDropSlot, CreateSubscription, SetupFails, operation
  <2> QED BY <1>1, <2>1, BeforeMove, AfterMove
<1>4. CASE Repoint
  <2>1. tgt.rows = src.rows
    BY <1>4 DEF Repoint, IInv, GateInv, FreezeInv, PromotedHasEverything, Committed
  <2>2. Hand!Switch
    BY <1>4, <2>1 DEF Repoint, Hand!Switch
  <2> QED BY <2>2 DEF Hand!Next
<1> QED BY <1>2, <1>3, <1>4, <1>5 DEF Postgres, Operator

\* cutover-db.sh changes no row anywhere.
LEMMA ScriptStep == IInv /\ CutoverDb => [Hand!Next]_(Hand!vars)
<1> SUFFICES ASSUME IInv, CutoverDb PROVE [Hand!Next]_(Hand!vars)
  OBVIOUS
<1>1. services \in {"source", "target"}
  BY DEF IInv, TypeOK
<1>2. services' = services /\ src' = src /\ tgt'.rows = tgt.rows
  <2>1. CASE SyncSequences \/ BumpSequences
    BY <2>1 DEF SyncSequences, BumpSequences, operation, IInv, TypeOK, Database
  <2>2. CASE Start \/ Abort \/ Drain \/ Gate \/ Confirm
    BY <2>2 DEF Start, Abort, Drain, Gate, Confirm, operation
  <2>3. CASE Disable \/ Detach \/ DropSubscription \/ DropSlot
    BY <2>3 DEF Disable, Detach, DropSubscription, DropSlot, operation
  <2> QED BY <2>1, <2>2, <2>3 DEF CutoverDb, CutoverStep
<1> QED BY <1>1, <1>2, BeforeMove, AfterMove

\* With a frozen source and a gate that sees what it compares, the scripts, the
\* operator and PostgreSQL together implement the handover: the rows move unchanged.
THEOREM Refinement ==
  ASSUME ~ListingMayFail, ~OutsideFreeze
  PROVE  Spec => ImplementsHandover
<1>1. Init => Hand!Init
  BY DEF Init, Hand!Init
<1>2. IInv /\ [Next]_vars => [Hand!Next]_(Hand!vars)
  <2>1. ASSUME UNCHANGED vars PROVE UNCHANGED Hand!vars
    BY <2>1 DEF vars, operation, Hand!vars
  <2> QED BY <2>1, ServicesStep, SurroundingsStep, ScriptStep DEF Next
<1> QED BY Invariance, <1>1, <1>2, PTL DEF Spec, ImplementsHandover, Hand!Spec
=============================================================================
