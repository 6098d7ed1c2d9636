------------------------------ MODULE DBCutover ------------------------------
(***************************************************************************)
(* The write cutover of one database from SOURCE (AWS) to TARGET (DO), as  *)
(* scripts/cutover runs it:                                                *)
(*   - pg-logical-replication-setup.sh publishes, and creates or resets    *)
(*     the subscription, statement by statement;                           *)
(*   - pg-dump-restore.sh is the point-in-time alternative;                *)
(*   - cutover-db.sh drains the lag, copies the sequence, passes the gate  *)
(*     of verify-migration.sh, asks the operator, and promotes.            *)
(* Around them are the operator (freeze, un-freeze, repoint), the services *)
(* that write to the database they point at, and PostgreSQL's logical      *)
(* replication.  The database is one table with a serial key: a set of     *)
(* ids, and the last value its sequence handed out.                        *)
(***************************************************************************)
EXTENDS Integers, Sequences, FiniteSets

CONSTANTS MaxId,           \* bound: the sequences stop after this value
          ListingMayFail,  \* may a query inside "< <(...)" fail? nobody looks
          Rerun,           \* may the operator run cutover-db.sh again once it promoted?
          OutsideFreeze    \* may the operator start it with the source not frozen?

ASSUME MaxIdAssumption == MaxId \in Nat \ {0}
ASSUME FaultsAssumption ==
  ListingMayFail \in BOOLEAN /\ Rerun \in BOOLEAN /\ OutsideFreeze \in BOOLEAN

Ids == 1..MaxId
Database == [rows : SUBSET Ids, seq : 0..MaxId]
Change == [kind : {"insert", "delete"}, id : Ids, published : BOOLEAN]

VARIABLES
  src, tgt,   \* the two databases
  pub,        \* does the source hold the publication?
  slot,       \* does the source hold the subscription's replication slot?
  wal,        \* the changes the slot retains: not yet applied on the target
  sub,        \* the subscription on the target
  ready,      \* are all its tables in state 'r'?
  baseline,   \* what it streams onto: PostgreSQL's own copy, or other rows
  busy,       \* does other WAL of the source, or another slot, hold the lag above 0?
  frozen,     \* are writes on the source frozen?
  services,   \* where the services point
  setup,      \* the next step of pg-logical-replication-setup.sh, or "idle"
  pc,         \* the next step of cutover-db.sh, "idle" when it does not run
  result      \* how its last run ended

replication == <<pub, slot, wal, sub, ready, baseline>>
operation   == <<busy, frozen, services>>
script      == <<setup, pc, result>>
vars == <<src, tgt, replication, operation, script>>

SetupSteps == {"publish", "subscribe", "detach", "drop", "dropSlot", "create"}
Promotion == {"disable", "detach", "dropSub", "bump", "dropSlot"}
Steps == {"drain", "seqs", "gate", "confirm"} \cup Promotion

Init ==
  /\ src = [rows |-> {}, seq |-> 0]
  /\ tgt = [rows |-> {}, seq |-> 0]
  /\ pub = FALSE
  /\ slot = FALSE
  /\ wal = <<>>
  /\ sub = "none"
  /\ ready = FALSE
  /\ baseline = "none"
  /\ busy = FALSE
  /\ frozen = FALSE
  /\ services = "source"
  /\ setup = "idle"
  /\ pc = "idle"
  /\ result = "none"
-----------------------------------------------------------------------------
(* The services.  An insert takes the next value of the sequence as its key. *)
Applied(rows, c) == IF c.kind = "insert" THEN rows \cup {c.id} ELSE rows \ {c.id}

\* The slot retains every change: tables without a key were given REPLICA
\* IDENTITY FULL, so deletes can be logged.  A change can be decoded only if the
\* publication existed when it was logged.
Log(kind, id) ==
  wal' = IF slot THEN Append(wal, [kind |-> kind, id |-> id, published |-> pub]) ELSE wal

SourceInsert ==
  /\ services = "source" /\ ~frozen
  /\ src.seq < MaxId
  /\ src' = [rows |-> src.rows \cup {src.seq + 1}, seq |-> src.seq + 1]
  /\ Log("insert", src.seq + 1)
  /\ UNCHANGED <<tgt, pub, slot, sub, ready, baseline, operation, script>>

SourceDelete ==
  /\ services = "source" /\ ~frozen
  /\ \E id \in src.rows :
       /\ src' = [src EXCEPT !.rows = @ \ {id}]
       /\ Log("delete", id)
  /\ UNCHANGED <<tgt, pub, slot, sub, ready, baseline, operation, script>>

\* An insert whose key exists fails, and consumes the value.
TargetInsert ==
  /\ services = "target"
  /\ tgt.seq < MaxId
  /\ tgt' = [rows |-> tgt.rows \cup {tgt.seq + 1}, seq |-> tgt.seq + 1]
  /\ UNCHANGED <<src, replication, operation, script>>

TargetDelete ==
  /\ services = "target"
  /\ \E id \in tgt.rows : tgt' = [tgt EXCEPT !.rows = @ \ {id}]
  /\ UNCHANGED <<src, replication, operation, script>>
-----------------------------------------------------------------------------
(* pg-logical-replication-setup.sh.  It is run any number of times before the *)
(* promotion; "set -e" ends it at the first statement that fails.            *)

\* The operator prepares the target while the source is in production, one
\* script at a time.
Preparing == setup = "idle" /\ pc = "idle" /\ services = "source" /\ result # "promoted"

Proceed(to) == setup' = to /\ UNCHANGED <<pc, result>>

\* DROP PUBLICATION IF EXISTS: every run begins with it, whatever it finds later.
DropPublication ==
  /\ Preparing
  /\ pub' = FALSE
  /\ Proceed("publish")
  /\ UNCHANGED <<src, tgt, slot, wal, sub, ready, baseline, operation>>

CreatePublication ==
  /\ setup = "publish"
  /\ pub' = TRUE
  /\ Proceed("subscribe")
  /\ UNCHANGED <<src, tgt, slot, wal, sub, ready, baseline, operation>>

\* An existing subscription is left alone, unless RESET_SUB = 1 disables it.
FindSubscription ==
  /\ setup = "subscribe"
  /\ \/ sub = "none" /\ Proceed("create") /\ UNCHANGED sub
     \/ sub # "none" /\ Proceed("idle") /\ UNCHANGED sub
     \/ /\ sub # "none"
        /\ sub' = IF sub = "active" THEN "disabled" ELSE sub
        /\ Proceed("detach")
  /\ UNCHANGED <<src, tgt, pub, slot, wal, ready, baseline, operation>>

ResetDetach ==
  /\ setup = "detach"
  /\ sub' = "detached"
  /\ Proceed("drop")
  /\ UNCHANGED <<src, tgt, pub, slot, wal, ready, baseline, operation>>

ResetDrop ==
  /\ setup = "drop"
  /\ sub' = "none" /\ ready' = FALSE /\ baseline' = "none"
  /\ Proceed("dropSlot")
  /\ UNCHANGED <<src, tgt, pub, slot, wal, operation>>

\* Best effort.
ResetDropSlot ==
  /\ setup = "dropSlot"
  /\ \/ slot' = FALSE /\ wal' = <<>>
     \/ UNCHANGED <<slot, wal>>
  /\ Proceed("create")
  /\ UNCHANGED <<src, tgt, pub, sub, ready, baseline, operation>>

\* CREATE SUBSCRIPTION ... create_slot = true, refused if the slot exists.  With
\* copy_data = false the tables count as ready at once and the stream starts at
\* the new slot, whenever the rows that are there were taken.
CreateWithOptionsSwapped(copy) ==   \* mutant: COPY_DATA true and false exchanged
  /\ setup = "create" /\ ~slot
  /\ sub' = "active" /\ slot' = TRUE /\ wal' = <<>>
  /\ ready' = copy
  /\ baseline' = IF copy /\ tgt.rows = {} THEN "copy" ELSE "other"
  /\ Proceed("idle")
  /\ UNCHANGED <<src, tgt, pub, operation>>

CreateSubscription(copy) ==
  /\ setup = "create" /\ ~slot
  /\ sub' = "active" /\ slot' = TRUE /\ wal' = <<>>
  /\ ready' = ~copy
  /\ baseline' = IF copy /\ tgt.rows = {} THEN "copy" ELSE "other"
  /\ Proceed("idle")
  /\ UNCHANGED <<src, tgt, pub, operation>>

SetupFails ==
  /\ setup # "idle"
  /\ Proceed("idle")
  /\ UNCHANGED <<src, tgt, replication, operation>>

SetupStep ==
  \/ DropPublication \/ CreatePublication \/ FindSubscription
  \/ ResetDetach \/ ResetDrop \/ ResetDropSlot
  \/ \E copy \in BOOLEAN : CreateSubscription(copy)
  \/ SetupFails
-----------------------------------------------------------------------------
(* PostgreSQL.                                                               *)

\* A change logged while there was no publication stops the sender for good.
AllPublished == \A i \in DOMAIN wal : wal[i].published

\* The initial COPY takes a snapshot the stream continues from.  A row that is
\* there already fails it; the table is ready once the stream has caught up.
InitialCopyBeforeStream ==    \* mutant: the stream repeats what was copied
  /\ sub = "active" /\ slot /\ ~ready /\ pub /\ AllPublished
  /\ tgt.rows \cap src.rows = {}
  /\ tgt' = [tgt EXCEPT !.rows = @ \cup src.rows]
  /\ ready' = TRUE
  /\ UNCHANGED <<src, pub, slot, wal, sub, baseline, operation, script>>

InitialCopy ==
  /\ sub = "active" /\ slot /\ ~ready /\ pub /\ AllPublished
  /\ tgt.rows \cap src.rows = {}
  /\ tgt' = [tgt EXCEPT !.rows = @ \cup src.rows]
  /\ ready' = TRUE
  /\ wal' = <<>>
  /\ UNCHANGED <<src, pub, slot, sub, baseline, operation, script>>

\* The apply worker applies changes in order; a duplicate key stops it, and so
\* does a change that was not published.
Replicate ==
  /\ sub = "active" /\ slot /\ ready
  /\ wal # <<>>
  /\ Head(wal).published
  /\ Head(wal).kind = "insert" => Head(wal).id \notin tgt.rows
  /\ tgt' = [tgt EXCEPT !.rows = Applied(@, Head(wal))]
  /\ wal' = Tail(wal)
  /\ UNCHANGED <<src, pub, slot, sub, ready, baseline, operation, script>>

\* The source invalidates a slot that retains too much WAL.
LoseSlot ==
  /\ slot
  /\ slot' = FALSE
  /\ wal' = <<>>
  /\ UNCHANGED <<src, tgt, pub, sub, ready, baseline, operation, script>>

\* The rest of the server writes WAL, or its slots fall behind and catch up.
OtherTraffic ==
  /\ busy' = ~busy
  /\ UNCHANGED <<src, tgt, replication, frozen, services, script>>
-----------------------------------------------------------------------------
\* pg-dump-restore.sh: a restore that stops on an error leaves what it restored.
DumpRestore ==
  /\ Preparing
  /\ sub = "none"
  /\ \/ tgt' = src
     \/ \E part \in SUBSET src.rows : tgt' = [rows |-> part, seq |-> 0]
  /\ UNCHANGED <<src, replication, operation, script>>
-----------------------------------------------------------------------------
(* The operator.                                                             *)
Freeze ==
  /\ pc = "idle" /\ services = "source" /\ ~frozen
  /\ frozen' = TRUE
  /\ UNCHANGED <<src, tgt, replication, busy, services, script>>

\* A run that did not promote ends with "un-freeze AWS".
Unfreeze ==
  /\ pc = "idle" /\ services = "source" /\ result # "promoted"
  /\ frozen
  /\ frozen' = FALSE
  /\ UNCHANGED <<src, tgt, replication, busy, services, script>>

Repoint ==
  /\ pc = "idle" /\ result = "promoted" /\ services = "source"
  /\ services' = "target"
  /\ UNCHANGED <<src, tgt, replication, busy, frozen, script>>
-----------------------------------------------------------------------------
(* verify-migration.sh.                                                      *)

\* Nothing is left to copy or to apply: a missing slot counts as no lag, and
\* whether the subscription is enabled is only logged.
Drained == sub = "none" \/ (ready /\ (slot => wal = <<>>))

\* check_lag measures nothing without a subscription.  Otherwise it takes the
\* worst of every slot whose name contains the database's, up to the server's
\* current position, with tolerance 0: other traffic alone makes it fail.
LagOfSlots ==                 \* mutant: tables that are not ready are not counted
  sub # "none" => (slot => wal = <<>>) /\ ~busy

LagZero == Drained /\ (sub # "none" => ~busy)

CountsMatch == Cardinality(src.rows) = Cardinality(tgt.rows)   \* mutant: SKIP_CHECKSUM

\* Row counts and checksums.
TablesMatch == Cardinality(src.rows) = Cardinality(tgt.rows) /\ src.rows = tgt.rows

\* last_value of a sequence that was never used is its start value.
LastValue(db) == IF db.seq = 0 THEN 1 ELSE db.seq

SequencesMatch == LastValue(tgt) >= LastValue(src)

\* The tables and the sequences are listed by queries whose failure goes
\* unnoticed; a list that is empty has no mismatch.
GateGreen == LagZero /\ (ListingMayFail \/ (TablesMatch /\ SequencesMatch))
-----------------------------------------------------------------------------
(* cutover-db.sh.                                                            *)
Continue(to) == pc' = to /\ UNCHANGED <<setup, result>>

\* The operator runs it, inside the freeze as its banner asks (the script does
\* not look), again after a failure, and perhaps again after it promoted.
Start ==
  /\ pc = "idle" /\ setup = "idle"
  /\ frozen \/ OutsideFreeze
  /\ result = "promoted" => Rerun
  /\ Continue("drain")
  /\ UNCHANGED <<src, tgt, replication, operation>>

\* Every statement may fail ("set -e"), the drain may time out, the gate may be
\* red, the operator may decline.  Only the slot drop is best effort.
AbortWithoutDeadline ==       \* mutant: the drain loop never gives up
  /\ pc \in Steps \ {"drain", "dropSlot"}
  /\ pc' = "idle"
  /\ result' = "failed"
  /\ UNCHANGED <<src, tgt, replication, operation, setup>>

Abort ==
  /\ pc \in Steps \ {"dropSlot"}
  /\ pc' = "idle"
  /\ result' = "failed"
  /\ UNCHANGED <<src, tgt, replication, operation, setup>>

Drain ==
  /\ pc = "drain"
  /\ LagZero
  /\ Continue("seqs")
  /\ UNCHANGED <<src, tgt, replication, operation>>

SyncSequences ==
  /\ pc = "seqs"
  /\ \/ tgt' = [tgt EXCEPT !.seq = LastValue(src)]
     \/ ListingMayFail /\ UNCHANGED tgt
  /\ Continue("gate")
  /\ UNCHANGED <<src, replication, operation>>

Gate ==
  /\ pc = "gate"
  /\ GateGreen
  /\ Continue("confirm")
  /\ UNCHANGED <<src, tgt, replication, operation>>

Confirm ==
  /\ pc = "confirm"
  /\ Continue(IF sub = "none" THEN "bump" ELSE "disable")
  /\ UNCHANGED <<src, tgt, replication, operation>>

Disable ==
  /\ pc = "disable"
  /\ sub' = IF sub = "active" THEN "disabled" ELSE sub
  /\ Continue("detach")
  /\ UNCHANGED <<src, tgt, pub, slot, wal, ready, baseline, operation>>

Detach ==
  /\ pc = "detach"
  /\ sub' = "detached"
  /\ Continue("dropSub")
  /\ UNCHANGED <<src, tgt, pub, slot, wal, ready, baseline, operation>>

DropSubscription ==
  /\ pc = "dropSub"
  /\ sub' = "none" /\ ready' = FALSE /\ baseline' = "none"
  /\ Continue("bump")
  /\ UNCHANGED <<src, tgt, pub, slot, wal, operation>>

IsMax(m, S) == m \in S /\ \A i \in S : i <= m

\* setval(seq, max(key)), unless the table is empty.
BumpToCount ==               \* mutant: setval(seq, count(*))
  /\ pc = "bump"
  /\ IF tgt.rows = {} THEN UNCHANGED tgt
                      ELSE tgt' = [tgt EXCEPT !.seq = Cardinality(tgt.rows)]
  /\ Continue("dropSlot")
  /\ UNCHANGED <<src, replication, operation>>

BumpSequences ==
  /\ pc = "bump"
  /\ \/ tgt.rows = {} /\ UNCHANGED tgt
     \/ \E m \in tgt.rows : IsMax(m, tgt.rows) /\ tgt' = [tgt EXCEPT !.seq = m]
  /\ Continue("dropSlot")
  /\ UNCHANGED <<src, replication, operation>>

DropSlot ==
  /\ pc = "dropSlot"
  /\ \/ slot' = FALSE /\ wal' = <<>>
     \/ UNCHANGED <<slot, wal>>
  /\ pc' = "idle"
  /\ result' = "promoted"
  /\ UNCHANGED <<src, tgt, pub, sub, ready, baseline, operation, setup>>
-----------------------------------------------------------------------------
Services == SourceInsert \/ SourceDelete \/ TargetInsert \/ TargetDelete
Postgres == InitialCopy \/ Replicate \/ LoseSlot \/ OtherTraffic
Operator == SetupStep \/ DumpRestore \/ Freeze \/ Unfreeze \/ Repoint
CutoverStep == \/ Abort \/ Drain \/ SyncSequences \/ Gate \/ Confirm \/ Disable
               \/ Detach \/ DropSubscription \/ BumpSequences \/ DropSlot
CutoverDb == Start \/ CutoverStep

Next == Services \/ Postgres \/ Operator \/ CutoverDb

Spec == Init /\ [][Next]_vars

\* PostgreSQL keeps applying, and every statement of cutover-db.sh returns; nobody
\* has to answer its question.
FairSpec == Spec /\ WF_vars(Replicate) /\ WF_vars(pc # "confirm" /\ CutoverStep)
-----------------------------------------------------------------------------
TypeOK ==
  /\ src \in Database
  /\ tgt \in Database
  /\ pub \in BOOLEAN
  /\ slot \in BOOLEAN
  /\ wal \in Seq(Change)
  /\ sub \in {"none", "active", "disabled", "detached"}
  /\ ready \in BOOLEAN
  /\ baseline \in {"none", "copy", "other"}
  /\ busy \in BOOLEAN
  /\ frozen \in BOOLEAN
  /\ services \in {"source", "target"}
  /\ setup \in SetupSteps \cup {"idle"}
  /\ pc \in Steps \cup {"idle"}
  /\ result \in {"none", "failed", "promoted"}

\* Zero data loss: from the operator's confirmation until the services move, the
\* target has exactly the source's rows - whatever became of the replication,
\* of the slot, of earlier attempts and of the time the operator took.
Committed ==
  /\ services = "source"
  /\ pc \in {"confirm"} \cup Promotion \/ (pc = "idle" /\ result = "promoted")

PromotedHasEverything == Committed => tgt.rows = src.rows

\* No insert on the promoted target collides with a row it has.
NoInsertCollides == services = "target" => \A id \in tgt.rows : id <= tgt.seq

\* The rows after each number of changes of log, and after all of them.
States(rows, log) ==
  LET after[i \in 0..Len(log)] == IF i = 0 THEN rows ELSE Applied(after[i - 1], log[i])
  IN  after

Replayed(rows, log) == States(rows, log)[Len(log)]

\* While its slot lives, a subscription that copied the tables itself misses
\* exactly what the slot retains, applied or stuck.  (With COPY_DATA=false nothing
\* relates the rows to the slot: there only the gate's comparison helps.)
ReplicaConsistent ==
  baseline = "copy" /\ ready /\ slot => Replayed(tgt.rows, wal) = src.rows

\* Inside the freeze the backlog of a working subscription drains, unless some
\* of it was logged while the setup script had dropped the publication.
Healthy ==
  /\ frozen /\ services = "source"
  /\ sub = "active" /\ slot /\ ready /\ baseline = "copy"
  /\ AllPublished

BacklogDrains == Healthy ~> (wal = <<>> \/ ~Healthy)

\* A run of cutover-db.sh ends or waits for the operator, even when other traffic
\* or a stuck sender keeps the lag from ever reaching zero.
CutoverRunEnds == pc \in Steps \ {"confirm"} ~> pc \in {"idle", "confirm"}

\* The gate's findings stay true: inside the freeze nothing is written, set up or
\* applied after it.
FreezeInv ==
  /\ pc # "idle" \/ services = "target" => frozen
  /\ Committed => frozen /\ Drained
  /\ ~ListingMayFail => PromotedHasEverything

GateInv ==
  /\ pc # "idle" \/ result = "promoted" \/ services = "target" => setup = "idle"
  /\ pc \in {"disable", "detach", "dropSub"} => sub # "none"
  /\ setup \in {"detach", "drop"} => sub # "none"
  /\ sub = "none" => baseline = "none"
  /\ baseline = "copy" /\ ~ready => tgt.rows = {}
  /\ ~OutsideFreeze => FreezeInv

\* Nothing replicates into a promoted target, and where inserts happen the
\* highest key is never above the sequence.
Promoted == pc = "dropSlot" \/ (pc = "idle" /\ result = "promoted")

SequenceInv ==
  /\ pc \in {"bump", "dropSlot"} \/ result = "promoted" \/ services = "target" => sub = "none"
  /\ \A id \in src.rows : id <= src.seq
  /\ Promoted => \A id \in tgt.rows : id <= tgt.seq
  /\ services = "target" /\ ~Rerun => Promoted

IInv == TypeOK /\ GateInv /\ SequenceInv

Hand == INSTANCE Handover WITH
          primary <- services,
          data <- IF services = "source" THEN src.rows ELSE tgt.rows

\* The scripts, the operator and PostgreSQL together hand the database over.
ImplementsHandover == Hand!Spec
=============================================================================
