---------------------------- MODULE MigrationRun ----------------------------
(***************************************************************************)
(* One pyxcloud_migration resource and the runs that applying it starts.   *)
(*                                                                         *)
(* Three actors share the state:                                           *)
(*   - Terraform, which creates, updates and deletes the resource and may  *)
(*     cancel the context of the operation it is waiting for;              *)
(*   - the goroutine of Engine.Run: ephemeral key, substrate selection,    *)
(*     attestation, sealed plan, unsealing, then folding the status stream *)
(*     into the result (internal/migration/engine.go);                     *)
(*   - the goroutine SealedWASM.Run starts, which walks the opaque program *)
(*     and sends coarse statuses down a channel of capacity ChanCap, every *)
(*     send racing ctx.Done() (internal/migration/runtime).                *)
(* The context ends when max_duration expires or Terraform cancels.        *)
(***************************************************************************)
EXTENDS Integers, Sequences

CONSTANTS Programs,   \* the opaque programs the backend may seal into a bundle
          Configs,    \* the migration{} blocks an apply may carry
          Hosts,      \* which confidential-computing devices the host may have
          ChanCap,    \* capacity of the status channel (8 in sealedwasm.go)
          MaxRuns,    \* bound: an apply starts while fewer plans were computed
          MaxInt,     \* the largest Go int (2^63 - 1)
          None        \* no resource in the Terraform state

StepPhases == {"attesting", "syncing", "verifying", "cutover"}
Phases == StepPhases \cup {"pending", "succeeded", "rolled-back"}
Verdicts == {"none", "success", "rolled-back"}
Substrates == {"confidential-container", "hardware-tee", "sealed-wasm"}

\* opaqueStep: converge is FALSE when the payload carries the control marker.
Step == [phase : StepPhases, weight : Int, cutover : BOOLEAN, converge : BOOLEAN]

\* The migration{} block; maxDuration is "invalid" when ParseDuration rejects it
\* or it is not positive.
Config == [enabled : BOOLEAN, dryRun : BOOLEAN,
           maxDuration : {"unset", "valid", "invalid"},
           runtime : {"auto", "local-tee", "other"} \cup Substrates]

\* /dev/nitro_enclaves, /dev/nsm, and a SEV-SNP, TDX or SGX device.
Host == [nitro : BOOLEAN, nsm : BOOLEAN, tee : BOOLEAN]

ASSUME ProgramsAssumption == Programs \subseteq Seq(Step) \ {<<>>}
ASSUME ConfigsAssumption  == Configs \subseteq Config
ASSUME HostsAssumption    == Hosts \subseteq Host
ASSUME CapAssumption      == ChanCap \in Nat \ {0}
ASSUME RunsAssumption     == MaxRuns \in Nat
ASSUME IntAssumption      == MaxInt \in Nat
-----------------------------------------------------------------------------
VARIABLES
  host,       \* the devices of this host
  pc,         \* where the Engine.Run goroutine is
  cfg,        \* the configuration being applied
  ctx,        \* "live", or why the run context ended
  key,        \* the ephemeral private key: "none", "live", "zeroized"
  substrate,  \* the substrate selected for the run
  runId,      \* the run id of the last plan response
  planned,    \* plans the backend has computed
  res,        \* the Result fields folded from the stream
  prog,       \* the program inside the seal
  rt,         \* where the runtime goroutine is
  walked,     \* steps of prog the runtime has gone through
  chan,       \* the status channel
  tf,         \* the resource in the Terraform state, None when absent
  outcome     \* how the last operation on the resource ended

engVars == <<pc, cfg, key, substrate, runId, res>>
rtVars  == <<prog, rt, walked>>
vars == <<host, ctx, planned, chan, tf, outcome, engVars, rtVars>>

-----------------------------------------------------------------------------
\* Mutant of Weight: weights are taken as they come.
RawWeight(s) == s.weight

\* Weights: a step weighs at least 1.
Weight(s) == IF s.weight <= 0 THEN 1 ELSE s.weight

\* The weight done after each number of steps of p.
DoneOf(p) ==
  LET done[i \in 0..Len(p)] == IF i = 0 THEN 0 ELSE done[i - 1] + Weight(p[i])
  IN  done

WeightOf(p, n) == DoneOf(p)[n]

\* An int holds the integers from -(MaxInt + 1) to MaxInt and wraps around.
Wrap(x) == ((x + MaxInt + 1) % (2 * (MaxInt + 1))) - (MaxInt + 1)

\* The division of Go rounds towards 0.
Quotient(a, b) == IF a < 0 THEN -((-a) \div b) ELSE a \div b

\* pct(done, total) after n steps of p, capped at 100.
Percent(p, n) ==
  LET total == Wrap(WeightOf(p, Len(p)))
      share == Quotient(Wrap(Wrap(WeightOf(p, n)) * 100), total)
  IN  IF total <= 0 \/ share > 100 THEN 100 ELSE share

\* Nobody checks the weights a bundle carries: what is said of percentages is
\* said of programs whose weights, in hundredths, add up to an int.
ASSUME WeightsAssumption == \A p \in Programs : WeightOf(p, Len(p)) * 100 <= MaxInt

Percents == {0, 100} \cup UNION {{Percent(p, n) : n \in 1..Len(p)} : p \in Programs}

Status == [phase : Phases, percent : Percents, verdict : Verdicts, rolledBack : BOOLEAN]

\* The part of Result that the stream decides; its zero value.
Result == [phase : Phases \cup {"none"}, percent : Percents, verdict : Verdicts, rolledBack : BOOLEAN]
EmptyResult == [phase |-> "none", percent |-> 0, verdict |-> "none", rolledBack |-> FALSE]

\* Walking step i changed the target: a dry run verifies a cutover step instead
\* of applying it.
AppliesCutover(i) == prog[i].cutover /\ prog[i].converge /\ ~cfg.dryRun

AllConverged == \A i \in 1..walked : prog[i].converge
-----------------------------------------------------------------------------
(* Select and autoDetect: the strongest substrate detected for "auto", the   *)
(* named one otherwise, whether or not it was detected.                      *)
TeeOrFloor(h) == IF h.tee THEN "hardware-tee" ELSE "sealed-wasm"

Select(pref, h) ==
  CASE pref = "auto"      -> IF h.nitro THEN "confidential-container" ELSE TeeOrFloor(h)
    [] pref = "local-tee" -> TeeOrFloor(h)
    [] OTHER              -> pref

\* Capability.HardwareBacked.
HardwareBacked(s) == s # "sealed-wasm"

\* Only the Nitro path of ConfidentialContainer.Attest asks a device for evidence.
CanAttest(s, h) == s = "confidential-container" => h.nsm
-----------------------------------------------------------------------------
Init ==
  /\ host \in Hosts
  /\ pc = "idle"
  /\ cfg \in Configs
  /\ ctx = "live"
  /\ key = "none"
  /\ substrate = "none"
  /\ runId = 0
  /\ planned = 0
  /\ res = EmptyResult
  /\ prog = <<>>
  /\ rt = "off"
  /\ walked = 0
  /\ chan = <<>>
  /\ tf = None
  /\ outcome = "none"

\* What the resource stores when a run ends without an error.
Saved(r) == [id |-> runId, phase |-> r.phase, percent |-> r.percent,
             verdict |-> r.verdict, rolledBack |-> r.rolledBack,
             hardwareBacked |-> HardwareBacked(substrate)]

SavedDisabled == [id |-> 0, phase |-> "pending", percent |-> 0, verdict |-> "none",
                  rolledBack |-> FALSE, hardwareBacked |-> FALSE]

\* Create and Update with migration.enabled = false record a pending state.
ApplyDisabled ==
  /\ pc = "idle"
  /\ \E c \in Configs : ~c.enabled /\ cfg' = c
  /\ tf' = SavedDisabled
  /\ outcome' = "disabled"
  /\ UNCHANGED <<host, pc, ctx, key, substrate, runId, planned, res, rtVars, chan>>

\* Create and Update: runMigration starts Engine.Run, which makes a fresh key.
Apply ==
  /\ pc = "idle"
  /\ planned < MaxRuns
  /\ \E c \in Configs : c.enabled /\ cfg' = c
  /\ pc' = "select"
  /\ ctx' = "live"
  /\ key' = "live"
  /\ substrate' = "none"
  /\ runId' = 0
  /\ res' = EmptyResult
  /\ prog' = <<>>
  /\ rt' = "off"
  /\ walked' = 0
  /\ chan' = <<>>
  /\ outcome' = "none"
  /\ UNCHANGED <<host, planned, tf>>

\* Delete forgets the resource; nothing is undone.
Delete ==
  /\ pc = "idle"
  /\ tf # None
  /\ tf' = None
  /\ outcome' = "deleted"
  /\ UNCHANGED <<host, ctx, planned, chan, engVars, rtVars>>
-----------------------------------------------------------------------------
(* Engine.Run. Every error return zeroizes the key (the deferred call) and   *)
(* becomes a diagnostic: the Terraform state is left as it was.              *)
ReturnErrorKeepingKey ==      \* mutant: the key is only wiped after a success
  /\ pc' = "idle"
  /\ outcome' = "error"
  /\ UNCHANGED <<host, ctx, cfg, key, substrate, runId, res, rtVars, chan, tf>>

ReturnError ==
  /\ pc' = "idle"
  /\ key' = "zeroized"
  /\ outcome' = "error"
  /\ UNCHANGED <<host, ctx, cfg, substrate, runId, res, rtVars, chan, tf>>

SelectRuntime ==
  /\ pc = "select"
  /\ \/ /\ cfg.runtime # "other"
        /\ substrate' = Select(cfg.runtime, host)
        /\ pc' = "attest"
        /\ UNCHANGED <<host, ctx, cfg, key, runId, res, rtVars, chan, tf, outcome, planned>>
     \/ cfg.runtime = "other" /\ ReturnError /\ UNCHANGED planned

Attest ==
  /\ pc = "attest"
  /\ \/ /\ CanAttest(substrate, host)
        /\ pc' = "plan"
        /\ UNCHANGED <<host, ctx, cfg, key, substrate, runId, res, rtVars, chan, tf, outcome, planned>>
     \/ /\ substrate = "confidential-container"
        /\ ReturnError
        /\ UNCHANGED planned

\* POST /api/migration/plan: the backend computes a plan and answers with the
\* sealed program, or computes it and the answer is lost, or refuses. A context
\* that has ended fails the call, whatever the backend did.
RequestPlan ==
  /\ pc = "plan"
  /\ \/ /\ ctx = "live"
        /\ planned' = planned + 1
        /\ runId' = planned'
        /\ prog' \in Programs
        /\ pc' = "open"
        /\ UNCHANGED <<host, ctx, cfg, key, substrate, res, rt, walked, chan, tf, outcome>>
     \/ ReturnError /\ planned' \in {planned, planned + 1}

\* SealedInputsFrom and the synchronous part of SealedWASM.Run: unsealing and
\* decoding may fail; otherwise the runtime goroutine starts.
Unseal ==
  /\ pc = "open"
  /\ \/ /\ pc' = "stream"
        /\ rt' = "ready"
        /\ UNCHANGED <<host, ctx, cfg, key, substrate, runId, planned, res, prog, walked, chan, tf, outcome>>
     \/ ReturnError /\ UNCHANGED planned

\* One iteration of "for st := range stream".
FoldStatus ==
  /\ pc = "stream"
  /\ chan # <<>>
  /\ LET st == Head(chan)
     IN  res' = [phase |-> st.phase, percent |-> st.percent,
                 verdict |-> IF st.verdict # "none" THEN st.verdict ELSE res.verdict,
                 rolledBack |-> st.rolledBack \/ res.rolledBack]
  /\ chan' = Tail(chan)
  /\ UNCHANGED <<host, ctx, planned, tf, outcome, pc, cfg, key, substrate, runId, rtVars>>

\* The range loop ends when the channel is closed and drained.
DrainedOrInterrupted ==       \* mutant: the loop also watches ctx.Done()
  ctx # "live" \/ (chan = <<>> /\ rt = "closed")

Drained == chan = <<>> /\ rt = "closed"

\* Run returns its result without an error whatever became of the context, and
\* the resource is saved.
ReturnCtxErr ==               \* mutant: an ended context makes the run an error
  pc = "stream" /\ Drained /\ ctx # "live" /\ ReturnError /\ UNCHANGED planned

StreamEnd ==
  /\ pc = "stream"
  /\ Drained
  /\ pc' = "idle"
  /\ key' = "zeroized"
  /\ tf' = Saved(res)
  /\ outcome' = "ok"
  /\ UNCHANGED <<host, ctx, cfg, substrate, runId, planned, res, rtVars, chan>>
-----------------------------------------------------------------------------
(* runProgram: emit selects between ctx.Done() and the send.                 *)
StatusWithoutFlag(phase, percent, verdict) ==   \* mutant: RolledBack is never set
  [phase |-> phase, percent |-> percent, verdict |-> verdict, rolledBack |-> FALSE]

StatusOf(phase, percent, verdict) ==
  [phase |-> phase, percent |-> percent, verdict |-> verdict,
   rolledBack |-> verdict = "rolled-back"]

SendUnbounded(st) == chan' = Append(chan, st)   \* mutant: the buffer has no capacity
DropLive          == UNCHANGED chan             \* mutant: emit has a default case

Send(st) == Len(chan) < ChanCap /\ chan' = Append(chan, st)
Drop     == ctx # "live" /\ UNCHANGED chan

RtOnly == UNCHANGED <<host, ctx, planned, tf, outcome, engVars, prog>>

\* The first status; its loss is ignored.
RtReady ==
  /\ rt = "ready"
  /\ Send(StatusOf("pending", 0, "none")) \/ Drop
  /\ rt' = "walking"
  /\ UNCHANGED walked
  /\ RtOnly

StepPhase(s) == IF s.cutover /\ cfg.dryRun THEN "verifying" ELSE s.phase

\* A step that converges: if its status cannot be delivered the walk stops.
RtStep ==
  /\ rt = "walking"
  /\ walked < Len(prog)
  /\ prog[walked + 1].converge
  /\ walked' = walked + 1
  /\ \/ /\ Send(StatusOf(StepPhase(prog[walked + 1]), Percent(prog, walked + 1), "none"))
        /\ UNCHANGED rt
     \/ Drop /\ rt' = "closed"
  /\ RtOnly

\* Mutant of RtRollback: the walk goes on after a step that did not converge.
RtReportFailure ==
  /\ rt = "walking"
  /\ walked < Len(prog)
  /\ ~prog[walked + 1].converge
  /\ walked' = walked + 1
  /\ Send(StatusOf("rolled-back", Percent(prog, walked + 1), "rolled-back")) \/ Drop
  /\ UNCHANGED rt
  /\ RtOnly

\* A step that does not converge ends the walk with a rolled-back verdict.
RtRollback ==
  /\ rt = "walking"
  /\ walked < Len(prog)
  /\ ~prog[walked + 1].converge
  /\ walked' = walked + 1
  /\ \/ Send(StatusOf("rolled-back", Percent(prog, walked + 1), "rolled-back"))
     \/ Drop
  /\ rt' = "closed"
  /\ RtOnly

RtSucceed ==
  /\ rt = "walking"
  /\ walked = Len(prog)
  /\ Send(StatusOf("succeeded", 100, "success")) \/ Drop
  /\ rt' = "closed"
  /\ UNCHANGED walked
  /\ RtOnly
-----------------------------------------------------------------------------
\* max_duration expires (only when it parsed), or Terraform cancels the operation.
ContextEnds ==
  /\ pc # "idle"
  /\ ctx = "live"
  /\ \/ ctx' = "deadline" /\ cfg.maxDuration = "valid"
     \/ ctx' = "cancelled"
  /\ UNCHANGED <<host, planned, chan, tf, outcome, engVars, rtVars>>

Terraform == ApplyDisabled \/ Apply \/ Delete
EngineRun == SelectRuntime \/ Attest \/ RequestPlan \/ Unseal \/ FoldStatus \/ StreamEnd
RunProgram == RtReady \/ RtStep \/ RtRollback \/ RtSucceed

Next == Terraform \/ EngineRun \/ RunProgram \/ ContextEnds

Spec == Init /\ [][Next]_vars

\* Both goroutines are scheduled; every call Engine.Run makes returns (the plan
\* request has a 30 s timeout).
FairSpec == Spec /\ WF_vars(EngineRun) /\ WF_vars(RunProgram)
-----------------------------------------------------------------------------
SavedState == [id : 0..MaxRuns, phase : Phases \cup {"none"}, percent : Percents,
               verdict : Verdicts, rolledBack : BOOLEAN, hardwareBacked : BOOLEAN]

ASSUME NoneAssumption == None \notin SavedState

TypeOK ==
  /\ host \in Hosts
  /\ pc \in {"idle", "select", "attest", "plan", "open", "stream"}
  /\ cfg \in Configs
  /\ ctx \in {"live", "deadline", "cancelled"}
  /\ key \in {"none", "live", "zeroized"}
  /\ substrate \in Substrates \cup {"none"}
  /\ runId \in 0..MaxRuns
  /\ planned \in 0..MaxRuns
  /\ res \in Result
  /\ prog \in Programs \cup {<<>>}
  /\ rt \in {"off", "ready", "walking", "closed"}
  /\ walked \in 0..Len(prog)
  /\ chan \in Seq(Status)
  /\ Len(chan) <= ChanCap
  /\ tf \in SavedState \cup {None}
  /\ outcome \in {"none", "ok", "error", "disabled", "deleted"}

\* What the provider wrote down about the run that just ended.
JustSaved == pc = "idle" /\ outcome = "ok"

\* The verdict in the Terraform state is the truth about the program: "success"
\* only if every step was walked and converged, "rolled-back" exactly when the
\* walk stopped at a step that did not converge and that fact was delivered.
VerdictIsTrue ==
  JustSaved =>
    /\ tf.verdict = "success" => walked = Len(prog) /\ AllConverged
    /\ tf.verdict = "rolled-back" => ~AllConverged
    /\ tf.rolledBack <=> tf.verdict = "rolled-back"

\* A run whose context never ended always leaves a verdict: a status can only be
\* lost to ctx.Done() (emit ignores the result of the first and last sends).
VerdictReported ==
  JustSaved /\ ctx = "live" => tf.verdict \in {"success", "rolled-back"}

\* When Engine.Run returns, the goroutine that walks the program is gone and
\* nothing is left unread in the channel: no leak, no step after the return.
NothingOutlivesRun ==
  pc = "idle" => rt \in {"off", "closed"} /\ chan = <<>> /\ key # "live"

\* A run reported as failed has walked no step, so the state an update keeps on
\* error (the previous run's) is still true of the place.
FailedRunTouchedNothing ==
  pc = "idle" /\ outcome = "error" => walked = 0

\* The percentage Terraform sees never falls while one run is streamed.
PercentNeverFalls ==
  [][pc = "stream" /\ pc' = "stream" => res'.percent >= res.percent]_vars

\* Full marks are not given to a partial walk: percent 100 means the program's
\* last step was reached.
HundredMeansAllWalked ==
  JustSaved /\ tf.percent = 100 => walked = Len(prog)

\* Why the verdict can be trusted: what one status, or the folded result, may
\* claim, and where in the stream a verdict can be.
VerdictTrue(v) == /\ v = "success" => walked = Len(prog) /\ AllConverged
                  /\ v = "rolled-back" => ~AllConverged

ClaimTrue(r) == VerdictTrue(r.verdict) /\ (r.rolledBack <=> r.verdict = "rolled-back")

\* No status carries a verdict before the walk is over, and only the last one does.
StreamInv ==
  \A i \in 1..Len(chan) :
    /\ ClaimTrue(chan[i])
    /\ chan[i].verdict # "none" => i = Len(chan) /\ rt = "closed"

\* A folded verdict is the end of the stream.
ResultInv == ClaimTrue(res) /\ (res.verdict # "none" => rt = "closed" /\ chan = <<>>)

\* An apply starts below the bound and plans at most once.
BoundInv == pc \in {"select", "attest", "plan"} => planned < MaxRuns

\* Before the runtime starts nothing has happened; while it walks every step it
\* passed converged.
PhaseInv ==
  /\ pc \in {"select", "attest", "plan", "open"} => rt = "off"
  /\ pc = "open" => prog \in Programs
  /\ pc = "stream" => rt # "off"
  /\ pc = "idle" => rt \in {"off", "closed"} /\ chan = <<>> /\ key # "live"
  /\ rt = "off" => walked = 0 /\ chan = <<>> /\ res = EmptyResult
  /\ rt # "off" => prog \in Programs
  /\ rt = "ready" => walked = 0
  /\ rt # "closed" => AllConverged

\* In a live context a finished walk's verdict is in the channel or in the result.
DeliveryInv ==
  rt = "closed" /\ ctx = "live" =>
    \/ res.verdict # "none"
    \/ chan # <<>> /\ chan[Len(chan)].verdict # "none"

\* What was recorded is the last run's result.
SavedInv ==
  /\ pc = "idle" /\ outcome = "ok" => rt = "closed" /\ tf = Saved(res)
  /\ pc = "idle" /\ outcome = "error" => rt = "off"

\* The percentages in the stream rise from the folded one to the walk's, and 100
\* comes after the last step only.
PercentInv ==
  /\ \A i, j \in 1..Len(chan) : i <= j => chan[i].percent <= chan[j].percent
  /\ \A i \in 1..Len(chan) : res.percent <= chan[i].percent
  /\ rt \in {"ready", "walking"} =>
       /\ res.percent <= Percent(prog, walked)
       /\ \A i \in 1..Len(chan) : chan[i].percent <= Percent(prog, walked)
  /\ res.percent = 100 => walked = Len(prog)
  /\ \A i \in 1..Len(chan) : chan[i].percent = 100 => walked = Len(prog)

IInv == TypeOK /\ BoundInv /\ StreamInv /\ ResultInv /\ PhaseInv /\ DeliveryInv /\ SavedInv
        /\ PercentInv

\* Every run ends: Engine.Run returns with the key wiped and the runtime stopped.
RunEnds == pc # "idle" ~> pc = "idle" /\ key = "zeroized"
-----------------------------------------------------------------------------
\* What the walk did so far, in the words of the contract.
Progress == IF walked = 0 THEN "none"
            ELSE IF ~AllConverged THEN "failed"
            ELSE IF walked = Len(prog) THEN "complete" ELSE "partial"

Recorded == IF tf = None THEN "absent" ELSE tf.verdict

Contract == INSTANCE MigrationContract WITH
              running <- pc # "idle", progress <- Progress,
              interrupted <- ctx # "live", recorded <- Recorded

\* The two goroutines, the channel and the Terraform operations together
\* implement the contract.
ImplementsContract == Contract!Spec
-----------------------------------------------------------------------------
(* What is left of a promise of the documentation.                           *)

\* No cutover is applied after a step that did not converge, whatever follows it
\* in the program and whoever still reads the statuses.  It is all that is left
\* of "source preserved" (interpreter.go:118, MIGRATION.md:31): a cutover applied
\* before the step that fails is not undone.
NoCutoverAfterFailure ==
  \A i, j \in 1..walked :
    i < j /\ ~prog[i].converge => ~AppliesCutover(j)
=============================================================================
