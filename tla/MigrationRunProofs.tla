------------------------- MODULE MigrationRunProofs -------------------------
(***************************************************************************)
(* Theorems about MigrationRun for every set of programs, configurations   *)
(* and hosts, every channel capacity and every number of runs: type        *)
(* correctness, the truth and the delivery of verdicts, no goroutine or    *)
(* unread status after a run, and the refinement of MigrationContract.     *)
(***************************************************************************)
EXTENDS MigrationRun, LeastNumber, TLAPS, SequenceTheorems

-----------------------------------------------------------------------------
(* Facts about the data. *)

\* decodeBundle rejects an empty program.
LEMMA ProgramIsSeq ==
  ASSUME NEW p \in Programs
  PROVE  p \in Seq(Step) /\ Len(p) \in Nat /\ Len(p) > 0
BY ProgramsAssumption

\* A step's weight is clamped from below.
LEMMA WeightTyped ==
  ASSUME NEW p \in Programs, NEW i \in 1..Len(p)
  PROVE  Weight(p[i]) \in Nat /\ Weight(p[i]) > 0
<1>1. p[i] \in Step
  BY ProgramIsSeq
<1> QED BY <1>1 DEF Weight, Step

\* The recursion in DoneOf has a solution: the least length without one is
\* contradictory.
LEMMA DoneExists ==
  ASSUME NEW p \in Programs
  PROVE  \E f : f = [i \in 0..Len(p) |-> IF i = 0 THEN 0 ELSE f[i - 1] + Weight(p[i])]
<1> DEFINE Adds(f, m) == f = [i \in 0..m |-> IF i = 0 THEN 0 ELSE f[i - 1] + Weight(p[i])]
           T == {m \in 0..Len(p) : ~\E f : Adds(f, m)}
<1>0. Len(p) \in Nat
  BY ProgramIsSeq
<1>1. T = {}
  <2> SUFFICES ASSUME T # {} PROVE FALSE
    OBVIOUS
  <2>1. PICK m \in T : \A k \in T : m <= k
    <3>1. T \subseteq Nat
      BY <1>0
    <3> HIDE DEF T
    <3> QED BY <3>1, LeastMember
  <2>2. m \in 0..Len(p) /\ ~\E f : Adds(f, m)
    OBVIOUS
  <2>3. CASE m = 0
    <3> DEFINE g == [i \in 0..0 |-> 0]
    <3>1. Adds(g, 0)
      OBVIOUS
    <3> QED BY <2>2, <2>3, <3>1
  <2>4. CASE m # 0
    <3>0. m \in Nat /\ m - 1 \in 0..Len(p)
      BY <1>0, <2>2, <2>4
    <3>1. m - 1 \in 0..Len(p) /\ m - 1 \notin T
      <4> HIDE DEF T
      <4> QED BY <2>1, <3>0, BelowLeast
    <3>2. PICK f : Adds(f, m - 1)
      BY <3>1
    <3> DEFINE g == [i \in 0..m |-> IF i = m THEN f[m - 1] + Weight(p[m]) ELSE f[i]]
    <3>3. \A i \in 0..m : g[i] = IF i = 0 THEN 0 ELSE g[i - 1] + Weight(p[i])
      <4> SUFFICES ASSUME NEW i \in 0..m PROVE g[i] = IF i = 0 THEN 0 ELSE g[i - 1] + Weight(p[i])
        OBVIOUS
      <4>1. CASE i = m
        BY <1>0, <2>2, <2>4, <4>1
      <4>2. CASE i # m
        <5>1. i \in 0..(m - 1) /\ g[i] = f[i] /\ (i # 0 => i - 1 \in 0..m /\ i - 1 # m /\ g[i - 1] = f[i - 1])
          BY <1>0, <2>2, <4>2
        <5>2. f[i] = IF i = 0 THEN 0 ELSE f[i - 1] + Weight(p[i])
          BY <3>2, <5>1
        <5> QED BY <5>1, <5>2
      <4> QED BY <4>1, <4>2
    <3>4. Adds(g, m)
      BY <3>3
    <3> QED BY <2>2, <3>4
  <2> QED BY <2>3, <2>4
<1>2. \E f : Adds(f, Len(p))
  BY <1>0, <1>1
<1> QED BY <1>2

\* What the accumulation computes.
LEMMA DoneAdds ==
  ASSUME NEW p \in Programs
  PROVE  \A i \in 0..Len(p) : WeightOf(p, i) = IF i = 0 THEN 0 ELSE WeightOf(p, i - 1) + Weight(p[i])
<1>1. DoneOf(p) = [i \in 0..Len(p) |-> IF i = 0 THEN 0 ELSE DoneOf(p)[i - 1] + Weight(p[i])]
  BY DoneExists, Zenon DEF DoneOf
<1> QED BY <1>1 DEF WeightOf

\* It is a natural number, and every step adds to it.
LEMMA WeightOfTyped ==
  ASSUME NEW p \in Programs
  PROVE  \A i \in 0..Len(p) : WeightOf(p, i) \in Nat
<1> DEFINE T == {i \in 0..Len(p) : WeightOf(p, i) \notin Nat}
<1> SUFFICES ASSUME T # {} PROVE FALSE
  OBVIOUS
<1>0. Len(p) \in Nat
  BY ProgramIsSeq
<1>1. PICK m \in T : \A k \in T : m <= k
  <2>1. T \subseteq Nat
    BY <1>0
  <2> HIDE DEF T
  <2> QED BY <2>1, LeastMember
<1>2. m \in 0..Len(p) /\ WeightOf(p, m) \notin Nat
  OBVIOUS
<1>3. m # 0
  BY <1>2, DoneAdds
<1>4. m - 1 \in 0..Len(p) /\ m - 1 \notin T
  <2>1. m \in Nat /\ m - 1 \in 0..Len(p)
    BY <1>0, <1>2, <1>3
  <2> HIDE DEF T
  <2> QED BY <1>1, <2>1, BelowLeast
<1>5. WeightOf(p, m - 1) \in Nat
  BY <1>4
<1>6. Weight(p[m]) \in Nat
  BY <1>0, <1>2, <1>3, WeightTyped
<1> QED BY <1>2, <1>3, <1>5, <1>6, DoneAdds

\* Every further step adds weight.
LEMMA WeightOfRises ==
  ASSUME NEW p \in Programs, NEW i \in 0..Len(p), NEW j \in 0..Len(p), i < j
  PROVE  WeightOf(p, i) < WeightOf(p, j)
<1> DEFINE T == {k \in 0..Len(p) : i < k /\ ~(WeightOf(p, i) < WeightOf(p, k))}
<1> SUFFICES ASSUME T # {} PROVE FALSE
  OBVIOUS
<1>0. Len(p) \in Nat
  BY ProgramIsSeq
<1>1. PICK m \in T : \A k \in T : m <= k
  <2>1. T \subseteq Nat
    BY <1>0
  <2> HIDE DEF T
  <2> QED BY <2>1, LeastMember
<1>2. m \in 0..Len(p) /\ i < m /\ ~(WeightOf(p, i) < WeightOf(p, m))
  OBVIOUS
<1>3. m - 1 \in 0..Len(p) /\ m \in 1..Len(p) /\ m - 1 \notin T
  <2>1. m \in Nat /\ m - 1 \in 0..Len(p) /\ m \in 1..Len(p)
    BY <1>0, <1>2
  <2> HIDE DEF T
  <2> QED BY <1>1, <2>1, BelowLeast
<1>4. m - 1 = i \/ WeightOf(p, i) < WeightOf(p, m - 1)
  BY <1>0, <1>2, <1>3
<1>5. WeightOf(p, m) = WeightOf(p, m - 1) + Weight(p[m]) /\ Weight(p[m]) > 0 /\ Weight(p[m]) \in Nat
  BY <1>0, <1>3, WeightTyped, DoneAdds
<1>6. WeightOf(p, i) \in Nat /\ WeightOf(p, m - 1) \in Nat
  BY <1>3, WeightOfTyped
<1> QED BY <1>2, <1>4, <1>5, <1>6

\* Integer division keeps the order.
LEMMA DivideRises ==
  ASSUME NEW a \in Nat, NEW b \in Nat, NEW t \in Nat, t > 0, a <= b
  PROVE  a \div t \in Nat /\ a \div t <= b \div t
OBVIOUS

\* A share of t in hundredths is under, at or over 100 as the part is to t.
LEMMA DivideBound ==
  ASSUME NEW a \in Nat, NEW t \in Nat, t > 0
  PROVE  /\ a <= t * 100 => a \div t <= 100
         /\ a < t * 100 => a \div t < 100
         /\ a >= t * 100 => a \div t >= 100
OBVIOUS

\* An integer that fits is what it is.
LEMMA WrapFits ==
  ASSUME NEW x \in Nat, x <= MaxInt
  PROVE  Wrap(x) = x
<1> DEFINE a == x + MaxInt + 1
           m == 2 * (MaxInt + 1)
<1>1. a \in Nat /\ m \in Nat /\ a < m /\ a - (MaxInt + 1) = x
  BY IntAssumption
<1>2. Wrap(x) = (a % m) - (MaxInt + 1)
  BY DEF Wrap
<1> HIDE DEF a, m
<1>3. a % m = a
  BY <1>1
<1> QED BY <1>1, <1>2, <1>3

\* The percentage starts at 0 and is 100 at the last step only.
LEMMA PercentBounds ==
  ASSUME NEW p \in Programs, NEW n \in 0..Len(p)
  PROVE  /\ Percent(p, n) \in 0..100
         /\ n = 0 => Percent(p, n) = 0
         /\ Percent(p, n) = 100 => n = Len(p)
         /\ Percent(p, n) = (WeightOf(p, n) * 100) \div WeightOf(p, Len(p))
<1> DEFINE all == WeightOf(p, Len(p))
           done == WeightOf(p, n)
<1>0. Len(p) \in Nat /\ Len(p) > 0
  BY ProgramIsSeq
<1>1. all \in Nat /\ done \in Nat /\ WeightOf(p, 0) = 0
  BY <1>0, WeightOfTyped, DoneAdds
<1>2. all > 0 /\ (n # Len(p) => done < all)
  BY <1>0, <1>1, WeightOfRises
<1>3. Percent(p, n) = LET total == Wrap(all)
                           share == Quotient(Wrap(Wrap(done) * 100), total)
                       IN  IF total <= 0 \/ share > 100 THEN 100 ELSE share
  BY DEF Percent
<1>10. n # Len(p) \/ done = all
  BY DEF all, done
<1>11. all * 100 <= MaxInt
  BY WeightsAssumption
<1> HIDE DEF all, done
<1>12. Wrap(all) = all /\ Wrap(done) = done /\ Wrap(done * 100) = done * 100
  <2>1. done * 100 \in Nat /\ all * 100 \in Nat /\ done * 100 <= MaxInt /\ done <= MaxInt /\ all <= MaxInt
    BY <1>1, <1>2, <1>10, <1>11, IntAssumption
  <2> QED BY <1>1, <2>1, WrapFits
<1>13. Quotient(done * 100, all) = (done * 100) \div all
  BY <1>1 DEF Quotient
<1>4. done * 100 \in Nat /\ done * 100 <= all * 100 /\ (n # Len(p) => done * 100 < all * 100)
  <2>1. n = Len(p) => done = all
    BY DEF all, done
  <2> QED BY <1>1, <1>2, <2>1
<1>5. (done * 100) \div all \in 0..100 /\ (n # Len(p) => (done * 100) \div all < 100)
  BY <1>1, <1>2, <1>4, DivideRises, DivideBound
<1>6. n = 0 => (done * 100) \div all = 0
  BY <1>1, <1>2 DEF done
<1> DEFINE share == (done * 100) \div all
<1>7. share \in 0..100 /\ (n # Len(p) => share < 100) /\ (n = 0 => share = 0)
  BY <1>5, <1>6
<1>8. Percent(p, n) = IF share > 100 THEN 100 ELSE share
  BY <1>1, <1>2, <1>3, <1>12, <1>13
<1> HIDE DEF share
<1>9. Percent(p, n) = share
  BY <1>7, <1>8
<1> QED BY <1>7, <1>9 DEF share, all, done

\* Walking on never lowers the percentage.
LEMMA PercentRises ==
  ASSUME NEW p \in Programs, NEW i \in 0..Len(p), NEW j \in 0..Len(p), i <= j
  PROVE  Percent(p, i) <= Percent(p, j)
<1> DEFINE all == WeightOf(p, Len(p))
<1>0. Len(p) \in Nat /\ Len(p) > 0
  BY ProgramIsSeq
<1>1. all \in Nat /\ WeightOf(p, i) \in Nat /\ WeightOf(p, j) \in Nat
  BY <1>0, WeightOfTyped
<1>2. all > 0 /\ WeightOf(p, i) <= WeightOf(p, j)
  BY <1>0, <1>1, WeightOfRises, WeightOfTyped
<1>3. (WeightOf(p, i) * 100) \div all <= (WeightOf(p, j) * 100) \div all
  <2>1. WeightOf(p, i) * 100 \in Nat /\ WeightOf(p, j) * 100 \in Nat
        /\ WeightOf(p, i) * 100 <= WeightOf(p, j) * 100
    BY <1>1, <1>2
  <2> QED BY <1>1, <1>2, <2>1, DivideRises
<1> QED BY <1>3, PercentBounds

\* The zero Result is a Result.
LEMMA EmptyTyped == EmptyResult \in Result
BY DEF EmptyResult, Result, Percents, Verdicts

\* Every percentage of a program is one of the percentages.
LEMMA PercentTyped ==
  ASSUME NEW p \in Programs, NEW n \in 1..Len(p)
  PROVE  Percent(p, n) \in Percents
<1> DEFINE Own(q) == {Percent(q, k) : k \in 1..Len(q)}
<1>1. Percent(p, n) \in Own(p)
  BY Zenon
<1>2. Own(p) \in {Own(q) : q \in Programs}
  BY Zenon
<1>3. Percents = {0, 100} \cup UNION {Own(q) : q \in Programs}
  BY Zenon DEF Percents
<1> QED BY <1>1, <1>2, <1>3, Zenon

\* emit is given well-formed statuses.
LEMMA StatusTyped ==
  ASSUME NEW ph \in Phases, NEW pe \in Percents, NEW v \in Verdicts
  PROVE  StatusOf(ph, pe, v) \in Status
BY DEF StatusOf, Status

\* The phase reported for a step is a phase.
LEMMA StepPhaseTyped ==
  ASSUME NEW p \in Programs, NEW n \in 1..Len(p)
  PROVE  StepPhase(p[n]) \in Phases
<1>1. p[n] \in Step
  BY ProgramIsSeq
<1>2. p[n].phase \in StepPhases
  BY <1>1 DEF Step
<1> QED BY <1>2 DEF StepPhase, Phases, StepPhases

\* Receiving leaves the newest status of a longer queue in place.
LEMMA TailKeepsLast ==
  ASSUME NEW S, NEW s \in Seq(S), NEW n \in Nat, n = Len(s), n > 1
  PROVE  Tail(s) # <<>> /\ Tail(s)[Len(Tail(s))] = s[Len(s)]
<1>1. s # <<>>
  OBVIOUS
<1>2. Len(Tail(s)) = n - 1 /\ \A i \in 1..(n - 1) : Tail(s)[i] = s[i + 1]
  BY <1>1, HeadTailProperties
<1>3. n - 1 \in 1..(n - 1) /\ (n - 1) + 1 = n /\ n - 1 # 0
  OBVIOUS
<1>4. Tail(s)[n - 1] = s[n]
  BY <1>2, <1>3
<1>5. Len(<<>>) = 0
  OBVIOUS
<1> QED BY <1>2, <1>3, <1>4, <1>5, Zenon

-----------------------------------------------------------------------------
(* Type correctness. *)

\* A send that does not block keeps the channel typed and within its capacity.
LEMMA SendTyped ==
  ASSUME NEW st \in Status, chan \in Seq(Status), Len(chan) <= ChanCap, Send(st) \/ Drop
  PROVE  chan' \in Seq(Status) /\ Len(chan') <= ChanCap
BY CapAssumption DEF Send, Drop

\* A runtime step that sends one status keeps the state typed.
LEMMA RuntimeTyped ==
  ASSUME TypeOK, RtOnly, NEW st \in Status, Send(st) \/ Drop,
         rt' \in {"walking", "closed"}, walked' \in 0..Len(prog)
  PROVE  TypeOK'
<1>1. chan' \in Seq(Status) /\ Len(chan') <= ChanCap
  BY SendTyped DEF TypeOK
<1> QED BY <1>1 DEF TypeOK, RtOnly, engVars

\* The initial state is well-typed.
LEMMA InitTyped == Init => TypeOK
BY EmptyTyped, CapAssumption, RunsAssumption DEF Init, TypeOK

\* Every step keeps the state well-typed.
LEMMA TypeOKStep == IInv /\ [Next]_vars => TypeOK'
<1> SUFFICES ASSUME IInv, [Next]_vars PROVE TypeOK'
  OBVIOUS
<1>1. CASE ApplyDisabled
  BY <1>1, ConfigsAssumption, RunsAssumption
     DEF IInv, TypeOK, engVars, rtVars, ApplyDisabled, SavedDisabled, SavedState, Phases, Verdicts, Percents
<1>2. CASE Apply
  <2>1. res' \in Result
    BY <1>2, EmptyTyped DEF Apply
  <2>2. walked' \in 0..Len(prog') /\ prog' = <<>>
    BY <1>2 DEF Apply
  <2>3. chan' \in Seq(Status) /\ Len(chan') <= ChanCap
    BY <1>2, CapAssumption DEF Apply
  <2> QED BY <1>2, <2>1, <2>2, <2>3, ConfigsAssumption, RunsAssumption DEF IInv, TypeOK, Apply
<1>3. CASE Delete
  BY <1>3 DEF IInv, TypeOK, engVars, rtVars, Delete
<1>4. CASE SelectRuntime
  BY <1>4, ConfigsAssumption
     DEF IInv, TypeOK, engVars, rtVars, SelectRuntime, ReturnError, Select, TeeOrFloor, Substrates, Config
<1>5. CASE Attest
  BY <1>5 DEF IInv, TypeOK, engVars, rtVars, Attest, ReturnError
<1>6. CASE RequestPlan
  <2>1. planned' \in 0..MaxRuns /\ planned + 1 \in 0..MaxRuns
    BY <1>6, RunsAssumption DEF IInv, TypeOK, BoundInv, RequestPlan
  <2>2. walked = 0
    BY <1>6 DEF IInv, PhaseInv, RequestPlan
  <2>3. CASE pc' = "open"
    <3>1. prog' \in Programs /\ walked' = 0 /\ runId' \in 0..MaxRuns
      BY <1>6, <2>1, <2>2, <2>3 DEF RequestPlan, ReturnError
    <3>2. walked' \in 0..Len(prog')
      BY <3>1, ProgramIsSeq
    <3> QED BY <1>6, <2>1, <2>3, <3>1, <3>2 DEF IInv, TypeOK, RequestPlan, ReturnError, engVars, rtVars
  <2>4. CASE pc' # "open"
    BY <1>6, <2>1, <2>4 DEF IInv, TypeOK, RequestPlan, ReturnError, engVars, rtVars
  <2> QED BY <2>3, <2>4
<1>7. CASE Unseal
  BY <1>7 DEF IInv, TypeOK, engVars, rtVars, Unseal, ReturnError
<1>8. CASE FoldStatus
  <2>1. Head(chan) \in Status /\ Tail(chan) \in Seq(Status) /\ Len(Tail(chan)) <= ChanCap
    BY <1>8, CapAssumption DEF IInv, TypeOK, FoldStatus
  <2>2. res' \in Result
    BY <1>8, <2>1 DEF IInv, TypeOK, FoldStatus, Status, Result
  <2> QED BY <1>8, <2>1, <2>2 DEF IInv, TypeOK, FoldStatus, rtVars
<1>9. CASE StreamEnd
  BY <1>9 DEF IInv, TypeOK, engVars, rtVars, StreamEnd, Drained, Saved, SavedState, Result, HardwareBacked
<1>10. CASE RtReady
  <2>1. StatusOf("pending", 0, "none") \in Status
    BY StatusTyped DEF Phases, Percents, Verdicts
  <2> QED BY <1>10, <2>1, RuntimeTyped DEF IInv, TypeOK, RtReady
<1>11. CASE RtStep
  <2>1. prog \in Programs /\ walked + 1 \in 1..Len(prog)
    BY <1>11, ProgramIsSeq DEF IInv, TypeOK, PhaseInv, RtStep
  <2>2. StatusOf(StepPhase(prog[walked + 1]), Percent(prog, walked + 1), "none") \in Status
    BY <2>1, StatusTyped, PercentTyped, StepPhaseTyped DEF Verdicts, Phases
  <2>3. walked' \in 0..Len(prog) /\ rt' \in {"walking", "closed"}
    BY <1>11, <2>1 DEF RtStep
  <2>4. Send(StatusOf(StepPhase(prog[walked + 1]), Percent(prog, walked + 1), "none")) \/ Drop
    BY <1>11 DEF RtStep
  <2>5. TypeOK /\ RtOnly
    BY <1>11 DEF IInv, RtStep
  <2> QED BY <2>2, <2>3, <2>4, <2>5, RuntimeTyped
<1>12. CASE RtRollback
  <2>1. prog \in Programs /\ walked + 1 \in 1..Len(prog)
    BY <1>12, ProgramIsSeq DEF IInv, TypeOK, PhaseInv, RtRollback
  <2>2. StatusOf("rolled-back", Percent(prog, walked + 1), "rolled-back") \in Status
    BY <2>1, StatusTyped, PercentTyped, StepPhaseTyped DEF Verdicts, Phases
  <2>3. walked' \in 0..Len(prog) /\ rt' \in {"walking", "closed"}
    BY <1>12, <2>1 DEF RtRollback
  <2>4. Send(StatusOf("rolled-back", Percent(prog, walked + 1), "rolled-back")) \/ Drop
    BY <1>12 DEF RtRollback
  <2>5. TypeOK /\ RtOnly
    BY <1>12 DEF IInv, RtRollback
  <2> QED BY <2>2, <2>3, <2>4, <2>5, RuntimeTyped
<1>13. CASE RtSucceed
  <2>1. StatusOf("succeeded", 100, "success") \in Status
    BY StatusTyped DEF Phases, Percents, Verdicts
  <2> QED BY <1>13, <2>1, RuntimeTyped DEF IInv, TypeOK, RtSucceed
<1>14. CASE ContextEnds
  BY <1>14 DEF IInv, TypeOK, engVars, rtVars, ContextEnds
<1>15. CASE UNCHANGED vars
  BY <1>15 DEF IInv, TypeOK, vars, engVars, rtVars
<1> QED BY <1>1, <1>2, <1>3, <1>4, <1>5, <1>6, <1>7, <1>8, <1>9, <1>10, <1>11, <1>12, <1>13, <1>14, <1>15 DEF Next, Terraform, EngineRun, RunProgram

-----------------------------------------------------------------------------
(* Where verdicts are in the stream, and that they are true. *)

\* Until the walk is over no status carries a verdict.
LEMMA NoVerdictYet ==
  ASSUME IInv, rt # "closed", NEW i \in 1..Len(chan)
  PROVE  chan[i].verdict = "none" /\ chan[i].rolledBack = FALSE
<1>1. chan[i] \in Status
  BY DEF IInv, TypeOK
<1> QED BY <1>1 DEF IInv, StreamInv, ClaimTrue, Status

\* A send keeps the stream's invariant if the status tells the truth and carries
\* a verdict only as the last one.
LEMMA EmitStream ==
  ASSUME IInv, rt # "closed", NEW st \in Status, Send(st) \/ Drop,
         ClaimTrue(st)', st.verdict # "none" => rt' = "closed"
  PROVE  StreamInv'
<1> SUFFICES ASSUME NEW i \in 1..Len(chan'), NEW c, c = chan'[i]
             PROVE  ClaimTrue(c)' /\ (c.verdict # "none" => i = Len(chan') /\ rt' = "closed")
  BY DEF StreamInv, ClaimTrue, VerdictTrue
<1>0. chan \in Seq(Status) /\ Len(chan) \in Nat
  BY DEF IInv, TypeOK
<1>1. CASE i \in 1..Len(chan) /\ c = chan[i]
  BY <1>1, NoVerdictYet DEF ClaimTrue, VerdictTrue
<1>2. CASE i = Len(chan') /\ c = st
  BY <1>2
<1>3. \/ i \in 1..Len(chan) /\ c = chan[i]
      \/ i = Len(chan') /\ c = st
  <2>1. CASE UNCHANGED chan
    BY <2>1
  <2>2. CASE chan' = Append(chan, st)
    BY <1>0, <2>2
  <2> QED BY <2>1, <2>2 DEF Send, Drop
<1> QED BY <1>1, <1>2, <1>3

\* What is in the channel stays true, and verdicts stay last.
LEMMA StreamInvStep == IInv /\ [Next]_vars => StreamInv'
<1> SUFFICES ASSUME IInv, [Next]_vars PROVE StreamInv'
  OBVIOUS
<1>1. CASE ApplyDisabled
  BY <1>1, ProgramIsSeq, CapAssumption DEF IInv, TypeOK, engVars, rtVars, ApplyDisabled, StreamInv, ClaimTrue, VerdictTrue, AllConverged, PhaseInv
<1>2. CASE Apply
  BY <1>2, ProgramIsSeq, CapAssumption DEF IInv, TypeOK, engVars, rtVars, Apply, EmptyResult, StreamInv, ClaimTrue, VerdictTrue, AllConverged, PhaseInv
<1>3. CASE Delete
  BY <1>3, ProgramIsSeq, CapAssumption DEF IInv, TypeOK, engVars, rtVars, Delete, StreamInv, ClaimTrue, VerdictTrue, AllConverged, PhaseInv
<1>4. CASE SelectRuntime
  BY <1>4, ProgramIsSeq, CapAssumption DEF IInv, TypeOK, engVars, rtVars, SelectRuntime, ReturnError, StreamInv, ClaimTrue, VerdictTrue, AllConverged, PhaseInv
<1>5. CASE Attest
  BY <1>5, ProgramIsSeq, CapAssumption DEF IInv, TypeOK, engVars, rtVars, Attest, ReturnError, StreamInv, ClaimTrue, VerdictTrue, AllConverged, PhaseInv
<1>6. CASE RequestPlan
  BY <1>6, ProgramIsSeq, CapAssumption DEF IInv, TypeOK, engVars, rtVars, RequestPlan, ReturnError, StreamInv, ClaimTrue, VerdictTrue, AllConverged, PhaseInv
<1>7. CASE Unseal
  BY <1>7, ProgramIsSeq, CapAssumption DEF IInv, TypeOK, engVars, rtVars, Unseal, ReturnError, StreamInv, ClaimTrue, VerdictTrue, AllConverged, PhaseInv
<1>8. CASE FoldStatus
  BY <1>8, ProgramIsSeq, CapAssumption DEF IInv, TypeOK, engVars, rtVars, FoldStatus, StreamInv, ClaimTrue, VerdictTrue, AllConverged, PhaseInv
<1>9. CASE StreamEnd
  BY <1>9, ProgramIsSeq, CapAssumption DEF IInv, TypeOK, engVars, rtVars, StreamEnd, Drained, Saved, StreamInv, ClaimTrue, VerdictTrue, AllConverged, PhaseInv
<1>10. CASE RtReady
  <2>1. PICK st \in Status : (Send(st) \/ Drop) /\ st.verdict = "none" /\ st.rolledBack = FALSE
    <3>1. StatusOf("pending", 0, "none") \in Status
      BY StatusTyped DEF Phases, Percents, Verdicts
    <3> QED BY <1>10, <3>1 DEF RtReady, StatusOf
  <2>2. rt # "closed" /\ ClaimTrue(st)'
    BY <1>10, <2>1 DEF RtReady, ClaimTrue, VerdictTrue
  <2> QED BY <2>1, <2>2, EmitStream
<1>11. CASE RtStep
  <2>1. prog \in Programs /\ walked + 1 \in 1..Len(prog)
    BY <1>11, ProgramIsSeq DEF IInv, TypeOK, PhaseInv, RtStep
  <2>2. PICK st \in Status : (Send(st) \/ Drop) /\ st.verdict = "none" /\ st.rolledBack = FALSE
    <3>1. StatusOf(StepPhase(prog[walked + 1]), Percent(prog, walked + 1), "none") \in Status
      BY <2>1, StatusTyped, PercentTyped, StepPhaseTyped DEF Verdicts
    <3>2. \/ Send(StatusOf(StepPhase(prog[walked + 1]), Percent(prog, walked + 1), "none"))
          \/ Drop
      BY <1>11 DEF RtStep
    <3> QED BY <3>1, <3>2 DEF StatusOf
  <2>3. rt # "closed" /\ ClaimTrue(st)'
    BY <1>11, <2>2 DEF RtStep, ClaimTrue, VerdictTrue
  <2> QED BY <2>2, <2>3, EmitStream
<1>12. CASE RtRollback
  <2>1. prog \in Programs /\ walked + 1 \in 1..Len(prog) /\ rt # "closed" /\ rt' = "closed"
    BY <1>12, ProgramIsSeq DEF IInv, TypeOK, PhaseInv, RtRollback
  <2>2. ~AllConverged'
    BY <1>12, <2>1 DEF AllConverged, RtRollback, RtOnly
  <2>3. PICK st \in Status : (Send(st) \/ Drop) /\ st.verdict = "rolled-back" /\ st.rolledBack = TRUE
    <3>1. StatusOf("rolled-back", Percent(prog, walked + 1), "rolled-back") \in Status
      BY <2>1, StatusTyped, PercentTyped DEF Phases, Verdicts
    <3>2. Send(StatusOf("rolled-back", Percent(prog, walked + 1), "rolled-back")) \/ Drop
      BY <1>12 DEF RtRollback
    <3> QED BY <3>1, <3>2 DEF StatusOf
  <2>4. ClaimTrue(st)'
    BY <2>2, <2>3 DEF ClaimTrue, VerdictTrue
  <2> QED BY <2>1, <2>3, <2>4, EmitStream
<1>13. CASE RtSucceed
  <2>1. rt # "closed" /\ rt' = "closed" /\ AllConverged' /\ walked' = Len(prog')
    BY <1>13 DEF IInv, PhaseInv, AllConverged, RtSucceed, RtOnly
  <2>2. PICK st \in Status : (Send(st) \/ Drop) /\ st.verdict = "success" /\ st.rolledBack = FALSE
    <3>1. StatusOf("succeeded", 100, "success") \in Status
      BY StatusTyped DEF Phases, Percents, Verdicts
    <3> QED BY <1>13, <3>1 DEF RtSucceed, StatusOf
  <2>3. ClaimTrue(st)'
    BY <2>1, <2>2 DEF ClaimTrue, VerdictTrue
  <2> QED BY <2>1, <2>2, <2>3, EmitStream
<1>14. CASE ContextEnds
  BY <1>14, ProgramIsSeq, CapAssumption DEF IInv, TypeOK, engVars, rtVars, ContextEnds, StreamInv, ClaimTrue, VerdictTrue, AllConverged, PhaseInv
<1>15. CASE UNCHANGED vars
  BY <1>15 DEF IInv, vars, engVars, rtVars, StreamInv, ClaimTrue, VerdictTrue, AllConverged, PhaseInv
<1> QED BY <1>1, <1>2, <1>3, <1>4, <1>5, <1>6, <1>7, <1>8, <1>9, <1>10, <1>11, <1>12, <1>13, <1>14, <1>15 DEF Next, Terraform, EngineRun, RunProgram

\* Folding a verdict means the stream is over, and it is the first one folded.
LEMMA FoldResult == IInv /\ FoldStatus => ResultInv'
<1> SUFFICES ASSUME IInv, FoldStatus PROVE ResultInv'
  OBVIOUS
<1>0. chan \in Seq(Status) /\ chan # <<>>
  BY DEF IInv, TypeOK, FoldStatus
<1>1. PICK st \in Status : st = Head(chan) /\ st = chan[1]
  BY <1>0
<1>2. Len(chan) \in Nat /\ 1 \in 1..Len(chan)
  BY <1>0
<1>3. ClaimTrue(st) /\ (st.verdict # "none" => Len(chan) = 1 /\ rt = "closed")
  BY <1>1, <1>2 DEF IInv, StreamInv
<1>4. res.verdict = "none" /\ res.rolledBack = FALSE
  BY <1>0 DEF IInv, TypeOK, ResultInv, ClaimTrue, Result
<1>5. res'.verdict = st.verdict /\ res'.rolledBack = st.rolledBack
  <2>1. res'.verdict = st.verdict
    BY <1>1, <1>4 DEF FoldStatus
  <2>2. res'.rolledBack = (st.rolledBack \/ res.rolledBack)
    BY <1>1 DEF FoldStatus
  <2>3. st.rolledBack \in BOOLEAN
    BY <1>1 DEF Status
  <2> QED BY <1>4, <2>1, <2>2, <2>3
<1>6. ClaimTrue(res)'
  BY <1>3, <1>5 DEF FoldStatus, rtVars, ClaimTrue, VerdictTrue, AllConverged
<1>7. res'.verdict # "none" => rt' = "closed" /\ chan' = <<>>
  BY <1>0, <1>3, <1>5 DEF FoldStatus, rtVars
<1> QED BY <1>6, <1>7 DEF ResultInv

\* The folded result stays true.
LEMMA ResultInvStep == IInv /\ [Next]_vars => ResultInv'
<1> SUFFICES ASSUME IInv, [Next]_vars PROVE ResultInv'
  OBVIOUS
<1>1. CASE ApplyDisabled
  BY <1>1, ProgramIsSeq, CapAssumption DEF IInv, TypeOK, engVars, rtVars, ApplyDisabled, ResultInv, ClaimTrue, VerdictTrue, AllConverged, PhaseInv, StreamInv
<1>2. CASE Apply
  BY <1>2, ProgramIsSeq, CapAssumption DEF IInv, TypeOK, engVars, rtVars, Apply, EmptyResult, ResultInv, ClaimTrue, VerdictTrue, AllConverged, PhaseInv, StreamInv
<1>3. CASE Delete
  BY <1>3, ProgramIsSeq, CapAssumption DEF IInv, TypeOK, engVars, rtVars, Delete, ResultInv, ClaimTrue, VerdictTrue, AllConverged, PhaseInv, StreamInv
<1>4. CASE SelectRuntime
  BY <1>4, ProgramIsSeq, CapAssumption DEF IInv, TypeOK, engVars, rtVars, SelectRuntime, ReturnError, ResultInv, ClaimTrue, VerdictTrue, AllConverged, PhaseInv, StreamInv
<1>5. CASE Attest
  BY <1>5, ProgramIsSeq, CapAssumption DEF IInv, TypeOK, engVars, rtVars, Attest, ReturnError, ResultInv, ClaimTrue, VerdictTrue, AllConverged, PhaseInv, StreamInv
<1>6. CASE RequestPlan
  BY <1>6, ProgramIsSeq, CapAssumption DEF IInv, TypeOK, engVars, rtVars, RequestPlan, ReturnError, ResultInv, ClaimTrue, VerdictTrue, AllConverged, PhaseInv, StreamInv
<1>7. CASE Unseal
  BY <1>7, ProgramIsSeq, CapAssumption DEF IInv, TypeOK, engVars, rtVars, Unseal, ReturnError, ResultInv, ClaimTrue, VerdictTrue, AllConverged, PhaseInv, StreamInv
<1>8. CASE FoldStatus
  BY <1>8, FoldResult
<1>9. CASE StreamEnd
  BY <1>9, ProgramIsSeq, CapAssumption DEF IInv, TypeOK, engVars, rtVars, StreamEnd, Drained, Saved, ResultInv, ClaimTrue, VerdictTrue, AllConverged, PhaseInv, StreamInv
<1>10. CASE RtReady
  BY <1>10, ProgramIsSeq, CapAssumption DEF IInv, TypeOK, engVars, rtVars, RtReady, RtOnly, Send, Drop, StatusOf, ResultInv, ClaimTrue, VerdictTrue, AllConverged, PhaseInv, StreamInv
<1>11. CASE RtStep
  BY <1>11, ProgramIsSeq, CapAssumption DEF IInv, TypeOK, engVars, rtVars, RtStep, RtOnly, Send, Drop, StatusOf, ResultInv, ClaimTrue, VerdictTrue, AllConverged, PhaseInv, StreamInv
<1>12. CASE RtRollback
  BY <1>12, ProgramIsSeq, CapAssumption DEF IInv, TypeOK, engVars, rtVars, RtRollback, RtOnly, Send, Drop, StatusOf, ResultInv, ClaimTrue, VerdictTrue, AllConverged, PhaseInv, StreamInv
<1>13. CASE RtSucceed
  BY <1>13, ProgramIsSeq, CapAssumption DEF IInv, TypeOK, engVars, rtVars, RtSucceed, RtOnly, Send, Drop, StatusOf, ResultInv, ClaimTrue, VerdictTrue, AllConverged, PhaseInv, StreamInv
<1>14. CASE ContextEnds
  BY <1>14, ProgramIsSeq, CapAssumption DEF IInv, TypeOK, engVars, rtVars, ContextEnds, ResultInv, ClaimTrue, VerdictTrue, AllConverged, PhaseInv, StreamInv
<1>15. CASE UNCHANGED vars
  BY <1>15 DEF IInv, vars, engVars, rtVars, ResultInv, ClaimTrue, VerdictTrue, AllConverged, PhaseInv, StreamInv
<1> QED BY <1>1, <1>2, <1>3, <1>4, <1>5, <1>6, <1>7, <1>8, <1>9, <1>10, <1>11, <1>12, <1>13, <1>14, <1>15 DEF Next, Terraform, EngineRun, RunProgram

\* Folding never loses the verdict that was in the channel.
LEMMA FoldDelivery == IInv /\ FoldStatus => DeliveryInv'
<1> SUFFICES ASSUME IInv, FoldStatus, rt = "closed", ctx = "live"
             PROVE  res'.verdict # "none" \/ (chan' # <<>> /\ chan'[Len(chan')].verdict # "none")
  BY DEF DeliveryInv, FoldStatus, rtVars
<1>0. chan \in Seq(Status) /\ chan # <<>>
  BY DEF IInv, TypeOK, FoldStatus
<1>a. PICK n \in Nat : n = Len(chan) /\ n >= 1
  BY <1>0
<1>1. chan[Len(chan)].verdict # "none"
  BY <1>0 DEF IInv, DeliveryInv, ResultInv
<1>2. CASE n = 1
  BY <1>0, <1>a, <1>1, <1>2 DEF FoldStatus
<1>3. CASE n > 1
  <2>1. chan' = Tail(chan)
    BY DEF FoldStatus
  <2>2. Tail(chan) # <<>> /\ Tail(chan)[Len(Tail(chan))] = chan[Len(chan)]
    BY <1>0, <1>a, <1>3, TailKeepsLast
  <2> QED BY <1>1, <2>1, <2>2, Zenon
<1> QED BY <1>a, <1>2, <1>3

\* In a live context the verdict of a finished walk is never lost.
LEMMA DeliveryInvStep == IInv /\ [Next]_vars => DeliveryInv'
<1> SUFFICES ASSUME IInv, [Next]_vars PROVE DeliveryInv'
  OBVIOUS
<1>1. CASE ApplyDisabled
  BY <1>1, ProgramIsSeq, CapAssumption DEF IInv, TypeOK, engVars, rtVars, ApplyDisabled, DeliveryInv, StreamInv, PhaseInv
<1>2. CASE Apply
  BY <1>2, ProgramIsSeq, CapAssumption DEF IInv, TypeOK, engVars, rtVars, Apply, EmptyResult, DeliveryInv, StreamInv, PhaseInv
<1>3. CASE Delete
  BY <1>3, ProgramIsSeq, CapAssumption DEF IInv, TypeOK, engVars, rtVars, Delete, DeliveryInv, StreamInv, PhaseInv
<1>4. CASE SelectRuntime
  BY <1>4, ProgramIsSeq, CapAssumption DEF IInv, TypeOK, engVars, rtVars, SelectRuntime, ReturnError, DeliveryInv, StreamInv, PhaseInv
<1>5. CASE Attest
  BY <1>5, ProgramIsSeq, CapAssumption DEF IInv, TypeOK, engVars, rtVars, Attest, ReturnError, DeliveryInv, StreamInv, PhaseInv
<1>6. CASE RequestPlan
  BY <1>6, ProgramIsSeq, CapAssumption DEF IInv, TypeOK, engVars, rtVars, RequestPlan, ReturnError, DeliveryInv, StreamInv, PhaseInv
<1>7. CASE Unseal
  BY <1>7, ProgramIsSeq, CapAssumption DEF IInv, TypeOK, engVars, rtVars, Unseal, ReturnError, DeliveryInv, StreamInv, PhaseInv
<1>8. CASE FoldStatus
  BY <1>8, FoldDelivery
<1>9. CASE StreamEnd
  BY <1>9, ProgramIsSeq, CapAssumption DEF IInv, TypeOK, engVars, rtVars, StreamEnd, Drained, Saved, DeliveryInv, StreamInv, PhaseInv
<1>10. CASE RtReady
  BY <1>10, ProgramIsSeq, CapAssumption DEF IInv, TypeOK, engVars, rtVars, RtReady, RtOnly, Send, Drop, StatusOf, DeliveryInv, StreamInv, PhaseInv
<1>11. CASE RtStep
  BY <1>11, ProgramIsSeq, CapAssumption DEF IInv, TypeOK, engVars, rtVars, RtStep, RtOnly, Send, Drop, StatusOf, DeliveryInv, StreamInv, PhaseInv
<1>12. CASE RtRollback
  BY <1>12, ProgramIsSeq, CapAssumption DEF IInv, TypeOK, engVars, rtVars, RtRollback, RtOnly, Send, Drop, StatusOf, DeliveryInv, StreamInv, PhaseInv
<1>13. CASE RtSucceed
  BY <1>13, ProgramIsSeq, CapAssumption DEF IInv, TypeOK, engVars, rtVars, RtSucceed, RtOnly, Send, Drop, StatusOf, DeliveryInv, StreamInv, PhaseInv
<1>14. CASE ContextEnds
  BY <1>14, ProgramIsSeq, CapAssumption DEF IInv, TypeOK, engVars, rtVars, ContextEnds, DeliveryInv, StreamInv, PhaseInv
<1>15. CASE UNCHANGED vars
  BY <1>15 DEF IInv, vars, engVars, rtVars, DeliveryInv, StreamInv, PhaseInv
<1> QED BY <1>1, <1>2, <1>3, <1>4, <1>5, <1>6, <1>7, <1>8, <1>9, <1>10, <1>11, <1>12, <1>13, <1>14, <1>15 DEF Next, Terraform, EngineRun, RunProgram

\* No run starts at the bound.
LEMMA BoundInvStep == IInv /\ [Next]_vars => BoundInv'
<1> SUFFICES ASSUME IInv, [Next]_vars PROVE BoundInv'
  OBVIOUS
<1>1. CASE ApplyDisabled
  BY <1>1, ProgramIsSeq, CapAssumption DEF IInv, TypeOK, engVars, rtVars, ApplyDisabled, BoundInv
<1>2. CASE Apply
  BY <1>2, ProgramIsSeq, CapAssumption DEF IInv, TypeOK, engVars, rtVars, Apply, EmptyResult, BoundInv
<1>3. CASE Delete
  BY <1>3, ProgramIsSeq, CapAssumption DEF IInv, TypeOK, engVars, rtVars, Delete, BoundInv
<1>4. CASE SelectRuntime
  BY <1>4, ProgramIsSeq, CapAssumption DEF IInv, TypeOK, engVars, rtVars, SelectRuntime, ReturnError, BoundInv
<1>5. CASE Attest
  BY <1>5, ProgramIsSeq, CapAssumption DEF IInv, TypeOK, engVars, rtVars, Attest, ReturnError, BoundInv
<1>6. CASE RequestPlan
  BY <1>6, ProgramIsSeq, CapAssumption DEF IInv, TypeOK, engVars, rtVars, RequestPlan, ReturnError, BoundInv
<1>7. CASE Unseal
  BY <1>7, ProgramIsSeq, CapAssumption DEF IInv, TypeOK, engVars, rtVars, Unseal, ReturnError, BoundInv
<1>8. CASE FoldStatus
  BY <1>8, ProgramIsSeq, CapAssumption DEF IInv, TypeOK, engVars, rtVars, FoldStatus, BoundInv
<1>9. CASE StreamEnd
  BY <1>9, ProgramIsSeq, CapAssumption DEF IInv, TypeOK, engVars, rtVars, StreamEnd, Drained, Saved, BoundInv
<1>10. CASE RtReady
  BY <1>10, ProgramIsSeq, CapAssumption DEF IInv, TypeOK, engVars, rtVars, RtReady, RtOnly, Send, Drop, StatusOf, BoundInv
<1>11. CASE RtStep
  BY <1>11, ProgramIsSeq, CapAssumption DEF IInv, TypeOK, engVars, rtVars, RtStep, RtOnly, Send, Drop, StatusOf, BoundInv
<1>12. CASE RtRollback
  BY <1>12, ProgramIsSeq, CapAssumption DEF IInv, TypeOK, engVars, rtVars, RtRollback, RtOnly, Send, Drop, StatusOf, BoundInv
<1>13. CASE RtSucceed
  BY <1>13, ProgramIsSeq, CapAssumption DEF IInv, TypeOK, engVars, rtVars, RtSucceed, RtOnly, Send, Drop, StatusOf, BoundInv
<1>14. CASE ContextEnds
  BY <1>14, ProgramIsSeq, CapAssumption DEF IInv, TypeOK, engVars, rtVars, ContextEnds, BoundInv
<1>15. CASE UNCHANGED vars
  BY <1>15 DEF IInv, vars, engVars, rtVars, BoundInv
<1> QED BY <1>1, <1>2, <1>3, <1>4, <1>5, <1>6, <1>7, <1>8, <1>9, <1>10, <1>11, <1>12, <1>13, <1>14, <1>15 DEF Next, Terraform, EngineRun, RunProgram

\* The two goroutines stay in step.
LEMMA PhaseInvStep == IInv /\ [Next]_vars => PhaseInv'
<1> SUFFICES ASSUME IInv, [Next]_vars PROVE PhaseInv'
  OBVIOUS
<1>1. CASE ApplyDisabled
  BY <1>1, ProgramIsSeq, CapAssumption DEF IInv, TypeOK, engVars, rtVars, ApplyDisabled, PhaseInv, AllConverged, ResultInv
<1>2. CASE Apply
  BY <1>2, ProgramIsSeq, CapAssumption DEF IInv, TypeOK, engVars, rtVars, Apply, EmptyResult, PhaseInv, AllConverged, ResultInv
<1>3. CASE Delete
  BY <1>3, ProgramIsSeq, CapAssumption DEF IInv, TypeOK, engVars, rtVars, Delete, PhaseInv, AllConverged, ResultInv
<1>4. CASE SelectRuntime
  BY <1>4, ProgramIsSeq, CapAssumption DEF IInv, TypeOK, engVars, rtVars, SelectRuntime, ReturnError, PhaseInv, AllConverged, ResultInv
<1>5. CASE Attest
  BY <1>5, ProgramIsSeq, CapAssumption DEF IInv, TypeOK, engVars, rtVars, Attest, ReturnError, PhaseInv, AllConverged, ResultInv
<1>6. CASE RequestPlan
  BY <1>6, ProgramIsSeq, CapAssumption DEF IInv, TypeOK, engVars, rtVars, RequestPlan, ReturnError, PhaseInv, AllConverged, ResultInv
<1>7. CASE Unseal
  BY <1>7, ProgramIsSeq, CapAssumption DEF IInv, TypeOK, engVars, rtVars, Unseal, ReturnError, PhaseInv, AllConverged, ResultInv
<1>8. CASE FoldStatus
  BY <1>8, ProgramIsSeq, CapAssumption DEF IInv, TypeOK, engVars, rtVars, FoldStatus, PhaseInv, AllConverged, ResultInv
<1>9. CASE StreamEnd
  BY <1>9, ProgramIsSeq, CapAssumption DEF IInv, TypeOK, engVars, rtVars, StreamEnd, Drained, Saved, PhaseInv, AllConverged, ResultInv
<1>10. CASE RtReady
  BY <1>10, ProgramIsSeq, CapAssumption DEF IInv, TypeOK, engVars, rtVars, RtReady, RtOnly, Send, Drop, StatusOf, PhaseInv, AllConverged, ResultInv
<1>11. CASE RtStep
  BY <1>11, ProgramIsSeq, CapAssumption DEF IInv, TypeOK, engVars, rtVars, RtStep, RtOnly, Send, Drop, StatusOf, PhaseInv, AllConverged, ResultInv
<1>12. CASE RtRollback
  BY <1>12, ProgramIsSeq, CapAssumption DEF IInv, TypeOK, engVars, rtVars, RtRollback, RtOnly, Send, Drop, StatusOf, PhaseInv, AllConverged, ResultInv
<1>13. CASE RtSucceed
  BY <1>13, ProgramIsSeq, CapAssumption DEF IInv, TypeOK, engVars, rtVars, RtSucceed, RtOnly, Send, Drop, StatusOf, PhaseInv, AllConverged, ResultInv
<1>14. CASE ContextEnds
  BY <1>14, ProgramIsSeq, CapAssumption DEF IInv, TypeOK, engVars, rtVars, ContextEnds, PhaseInv, AllConverged, ResultInv
<1>15. CASE UNCHANGED vars
  BY <1>15 DEF IInv, vars, engVars, rtVars, PhaseInv, AllConverged, ResultInv
<1> QED BY <1>1, <1>2, <1>3, <1>4, <1>5, <1>6, <1>7, <1>8, <1>9, <1>10, <1>11, <1>12, <1>13, <1>14, <1>15 DEF Next, Terraform, EngineRun, RunProgram

\* What is recorded is the last run's result.
LEMMA SavedInvStep == IInv /\ [Next]_vars => SavedInv'
<1> SUFFICES ASSUME IInv, [Next]_vars PROVE SavedInv'
  OBVIOUS
<1>1. CASE ApplyDisabled
  BY <1>1, ProgramIsSeq, CapAssumption DEF IInv, TypeOK, engVars, rtVars, ApplyDisabled, SavedInv, PhaseInv, Saved
<1>2. CASE Apply
  BY <1>2, ProgramIsSeq, CapAssumption DEF IInv, TypeOK, engVars, rtVars, Apply, EmptyResult, SavedInv, PhaseInv, Saved
<1>3. CASE Delete
  BY <1>3, ProgramIsSeq, CapAssumption DEF IInv, TypeOK, engVars, rtVars, Delete, SavedInv, PhaseInv, Saved
<1>4. CASE SelectRuntime
  BY <1>4, ProgramIsSeq, CapAssumption DEF IInv, TypeOK, engVars, rtVars, SelectRuntime, ReturnError, SavedInv, PhaseInv, Saved
<1>5. CASE Attest
  BY <1>5, ProgramIsSeq, CapAssumption DEF IInv, TypeOK, engVars, rtVars, Attest, ReturnError, SavedInv, PhaseInv, Saved
<1>6. CASE RequestPlan
  BY <1>6, ProgramIsSeq, CapAssumption DEF IInv, TypeOK, engVars, rtVars, RequestPlan, ReturnError, SavedInv, PhaseInv, Saved
<1>7. CASE Unseal
  BY <1>7, ProgramIsSeq, CapAssumption DEF IInv, TypeOK, engVars, rtVars, Unseal, ReturnError, SavedInv, PhaseInv, Saved
<1>8. CASE FoldStatus
  BY <1>8, ProgramIsSeq, CapAssumption DEF IInv, TypeOK, engVars, rtVars, FoldStatus, SavedInv, PhaseInv, Saved
<1>9. CASE StreamEnd
  BY <1>9, ProgramIsSeq, CapAssumption DEF IInv, TypeOK, engVars, rtVars, StreamEnd, Drained, Saved, SavedInv, PhaseInv, Saved
<1>10. CASE RtReady
  BY <1>10, ProgramIsSeq, CapAssumption DEF IInv, TypeOK, engVars, rtVars, RtReady, RtOnly, Send, Drop, StatusOf, SavedInv, PhaseInv, Saved
<1>11. CASE RtStep
  BY <1>11, ProgramIsSeq, CapAssumption DEF IInv, TypeOK, engVars, rtVars, RtStep, RtOnly, Send, Drop, StatusOf, SavedInv, PhaseInv, Saved
<1>12. CASE RtRollback
  BY <1>12, ProgramIsSeq, CapAssumption DEF IInv, TypeOK, engVars, rtVars, RtRollback, RtOnly, Send, Drop, StatusOf, SavedInv, PhaseInv, Saved
<1>13. CASE RtSucceed
  BY <1>13, ProgramIsSeq, CapAssumption DEF IInv, TypeOK, engVars, rtVars, RtSucceed, RtOnly, Send, Drop, StatusOf, SavedInv, PhaseInv, Saved
<1>14. CASE ContextEnds
  BY <1>14, ProgramIsSeq, CapAssumption DEF IInv, TypeOK, engVars, rtVars, ContextEnds, SavedInv, PhaseInv, Saved
<1>15. CASE UNCHANGED vars
  BY <1>15 DEF IInv, vars, engVars, rtVars, SavedInv, PhaseInv, Saved
<1> QED BY <1>1, <1>2, <1>3, <1>4, <1>5, <1>6, <1>7, <1>8, <1>9, <1>10, <1>11, <1>12, <1>13, <1>14, <1>15 DEF Next, Terraform, EngineRun, RunProgram

-----------------------------------------------------------------------------
(* The percentages.                                                        *)

\* The statuses that wait, with one more at the end or without the first.
LEMMA AppendedIs ==
  ASSUME NEW s \in Seq(Status), NEW st \in Status, NEW i \in 1..Len(Append(s, st))
  PROVE  /\ Len(s) \in Nat /\ Len(Append(s, st)) = Len(s) + 1
         /\ \/ i \in 1..Len(s) /\ Append(s, st)[i] = s[i]
            \/ i = Len(s) + 1 /\ Append(s, st)[i] = st
OBVIOUS

\* Taking the first status out moves every other one place down.
LEMMA TailIs ==
  ASSUME NEW s \in Seq(Status), s # <<>>
  PROVE  /\ Len(s) \in Nat /\ Len(s) > 0 /\ Head(s) = s[1]
         /\ Len(Tail(s)) = Len(s) - 1
         /\ \A i \in 1..Len(Tail(s)) : i + 1 \in 1..Len(s) /\ Tail(s)[i] = s[i + 1]
BY HeadTailProperties

\* Every percentage of the model is a number.
LEMMA PercentsAreNumbers == Percents \subseteq 0..100
<1> SUFFICES ASSUME NEW n \in Percents PROVE n \in 0..100
  OBVIOUS
<1>1. CASE n \in {0, 100}
  BY <1>1
<1>2. CASE n \notin {0, 100}
  <2>1. PICK p \in Programs : \E k \in 1..Len(p) : n = Percent(p, k)
    BY <1>2, Zenon DEF Percents
  <2>2. PICK k \in 1..Len(p) : n = Percent(p, k)
    BY <2>1
  <2>3. k \in 0..Len(p)
    BY <2>2, ProgramIsSeq
  <2> QED BY <2>2, <2>3, PercentBounds
<1> QED BY <1>1, <1>2

\* The first n values of f rise; they are percentages from r to lo; and the first m
\* of g are those of f, or those and a.
Sorted(f, n)        == \A i, j \in 1..n : i <= j => f[i] <= f[j]
Within(f, n, r, lo) == \A i \in 1..n : f[i] \in 0..100 /\ r <= f[i] /\ f[i] <= lo
Extended(g, m, f, n, a) ==
  \A i \in 1..m : \/ i \in 1..n /\ g[i] = f[i]
                  \/ i = n + 1 /\ g[i] = a
Rising(n, m, f, g, r, lo, hi, a) ==
  /\ n \in Nat /\ m \in Nat
  /\ r \in 0..100 /\ lo \in 0..100 /\ hi \in 0..100 /\ a \in 0..100
  /\ r <= lo /\ lo <= a /\ lo <= hi
  /\ Within(f, n, r, lo) /\ Sorted(f, n) /\ Extended(g, m, f, n, a)

\* A rising sequence of percentages stays one when a number that is not below the
\* last is put behind it.
LEMMA ExtendedRises ==
  \A n, m, f, g, r, lo, hi, a :
    Rising(n, m, f, g, r, lo, hi, a) =>
      /\ Within(g, m, r, 100) /\ Sorted(g, m)
      /\ a <= hi => Within(g, m, r, hi)
      /\ \A i \in 1..m : g[i] = 100 => lo = 100 \/ a = 100
<1> SUFFICES ASSUME NEW n, NEW m, NEW f, NEW g, NEW r, NEW lo, NEW hi, NEW a,
                    Rising(n, m, f, g, r, lo, hi, a)
             PROVE  /\ Within(g, m, r, 100) /\ Sorted(g, m)
                    /\ a <= hi => Within(g, m, r, hi)
                    /\ \A i \in 1..m : g[i] = 100 => lo = 100 \/ a = 100
  OBVIOUS
<1> USE DEF Rising, Sorted, Within, Extended
<1>1. ASSUME NEW i \in 1..m
      PROVE  /\ g[i] \in 0..100 /\ r <= g[i]
             /\ g[i] <= hi \/ hi < a
             /\ g[i] = 100 => lo = 100 \/ a = 100
  <2>1. CASE i \in 1..n /\ g[i] = f[i]
    BY <2>1
  <2>2. CASE g[i] = a
    BY <2>2
  <2> QED BY <2>1, <2>2
<1>2. ASSUME NEW i \in 1..m, NEW j \in 1..m, i <= j
      PROVE  g[i] <= g[j]
  <2>1. CASE j \in 1..n /\ g[j] = f[j]
    <3>1. i \in 1..n /\ g[i] = f[i]
      BY <1>2, <2>1
    <3> QED BY <1>2, <2>1, <3>1
  <2>2. CASE g[j] = a
    <3>1. CASE i \in 1..n /\ g[i] = f[i]
      BY <2>2, <3>1
    <3>2. CASE g[i] = a
      BY <2>2, <3>2
    <3> QED BY <3>1, <3>2
  <2> QED BY <2>1, <2>2
<1> QED BY <1>1, <1>2

\* What a status that is sent must be: at least what the walk had reached, at most
\* what it reaches now, and 100 only at the end.
Reported(st) ==
  /\ walked' \in 0..Len(prog) /\ walked <= walked'
  /\ st \in Status
  /\ st.percent >= Percent(prog, walked)
  /\ rt' # "closed" => st.percent <= Percent(prog, walked')
  /\ st.percent = 100 => walked' = Len(prog)

\* Such a send, or its loss, keeps the percentages in order.
LEMMA EmitPercent ==
  ASSUME IInv, RtOnly, rt \in {"ready", "walking"}, NEW st, Reported(st), Send(st) \/ Drop
  PROVE  PercentInv'
<1> DEFINE n == Len(chan)
           m == Len(chan')
           f == [i \in 1..n |-> chan[i].percent]
           g == [i \in 1..m |-> chan'[i].percent]
           r == res.percent
           a == st.percent
           lo == Percent(prog, walked)
           hi == Percent(prog, walked')
<1>0. /\ PercentInv /\ chan \in Seq(Status) /\ prog \in Programs /\ Len(prog) \in Nat
      /\ walked \in 0..Len(prog) /\ prog' = prog /\ res' = res
  BY ProgramIsSeq DEF IInv, TypeOK, PhaseInv, RtOnly, engVars
<1>1. r \in 0..100 /\ a \in 0..100
  BY PercentsAreNumbers DEF IInv, TypeOK, Result, Status, Reported
<1>2. walked' \in 0..Len(prog) /\ walked <= walked' /\ (walked = Len(prog) => walked' = Len(prog))
  BY <1>0 DEF Reported
<1>3. lo \in 0..100 /\ hi \in 0..100 /\ lo <= hi /\ (lo = 100 => walked' = Len(prog))
  BY <1>0, <1>2, PercentBounds, PercentRises
<1>4. lo <= a /\ (rt' # "closed" => a <= hi) /\ (a = 100 => walked' = Len(prog))
  BY <1>1, <1>3, Zenon DEF Reported
<1>5. n \in Nat /\ m \in Nat
  <2>1. chan' = chan \/ chan' = Append(chan, st)
    BY DEF Send, Drop
  <2> QED BY <1>0, <2>1
<1>6. r <= lo
  BY <1>0 DEF PercentInv
<1>7. ASSUME NEW i \in 1..n
      PROVE  f[i] \in 0..100 /\ r <= f[i] /\ f[i] <= lo
  <2>1. chan[i] \in Status
    BY <1>0, <1>7
  <2>2. chan[i].percent \in 0..100
    BY <2>1, PercentsAreNumbers DEF Status
  <2> QED BY <1>0, <2>2 DEF PercentInv
<1>8. Sorted(f, n)
  BY <1>0 DEF PercentInv, Sorted
<1>9. Extended(g, m, f, n, a)
  <2>1. CASE chan' = chan
    BY <2>1 DEF Extended
  <2>2. CASE chan' = Append(chan, st)
    <3>1. st \in Status
      BY DEF Reported
    <3>2. ASSUME NEW i \in 1..m
          PROVE  \/ i \in 1..n /\ chan'[i] = chan[i]
                 \/ i = n + 1 /\ chan'[i] = st
      BY <1>0, <2>2, <3>1, <3>2, AppendedIs
    <3> QED BY <3>2 DEF Extended
  <2> QED BY <2>1, <2>2 DEF Send, Drop
<1>10. /\ Within(g, m, r, 100) /\ Sorted(g, m)
       /\ a <= hi => Within(g, m, r, hi)
       /\ \A i \in 1..m : g[i] = 100 => lo = 100 \/ a = 100
  <2> HIDE DEF n, m, f, g, r, a, lo, hi
  <2>1. r \in 0..100 /\ a \in 0..100 /\ lo \in 0..100 /\ hi \in 0..100 /\ n \in Nat /\ m \in Nat
    BY <1>1, <1>3, <1>5
  <2>2. r <= lo /\ lo <= a /\ lo <= hi
    BY <1>3, <1>4, <1>6, Zenon
  <2>3. Within(f, n, r, lo)
    BY <1>7 DEF Within
  <2>4. Rising(n, m, f, g, r, lo, hi, a)
    BY <1>8, <1>9, <2>1, <2>2, <2>3 DEF Rising
  <2> QED BY <2>4, ExtendedRises
<1>11. r = 100 => lo = 100
  <2> HIDE DEF r, lo
  <2> QED BY <1>1, <1>3, <1>6
<1>12. r <= hi
  <2> HIDE DEF r, lo, hi
  <2> QED BY <1>1, <1>3, <1>6
<1>13. /\ \A i, j \in 1..Len(chan') : i <= j => chan'[i].percent <= chan'[j].percent
       /\ \A i \in 1..Len(chan') : res'.percent <= chan'[i].percent
  BY <1>0, <1>10 DEF Sorted, Within
<1>14. rt' \in {"ready", "walking"} =>
          /\ res'.percent <= Percent(prog', walked')
          /\ \A i \in 1..Len(chan') : chan'[i].percent <= Percent(prog', walked')
  <2>1. \A i \in 1..m : g[i] = chan'[i].percent
    OBVIOUS
  <2>2. Percent(prog', walked') = hi /\ res'.percent = r
    BY <1>0
  <2> HIDE DEF a, hi, r, g
  <2> QED BY <1>4, <1>10, <1>12, <2>1, <2>2 DEF Within
<1>15. /\ res'.percent = 100 => walked' = Len(prog')
       /\ \A i \in 1..Len(chan') : chan'[i].percent = 100 => walked' = Len(prog')
  <2>1. \A i \in 1..m : g[i] = chan'[i].percent
    OBVIOUS
  <2>2. prog' = prog /\ res'.percent = r
    BY <1>0
  <2> HIDE DEF a, lo, r, g
  <2> QED BY <1>3, <1>4, <1>10, <1>11, <2>1, <2>2
<1> HIDE DEF n, m, f, g, r, a, lo, hi
<1> QED BY <1>13, <1>14, <1>15 DEF PercentInv

\* Folding moves the first status of the channel into the result.
LEMMA FoldPercent == IInv /\ FoldStatus => PercentInv'
<1> SUFFICES ASSUME IInv, FoldStatus PROVE PercentInv'
  OBVIOUS
<1>0. PercentInv /\ chan \in Seq(Status) /\ chan # <<>>
  BY DEF IInv, TypeOK, FoldStatus
<1>1. chan' = Tail(chan) /\ prog' = prog /\ rt' = rt /\ walked' = walked /\ res'.percent = Head(chan).percent
  BY DEF FoldStatus, rtVars
<1>2. /\ Len(chan) \in Nat /\ 1 \in 1..Len(chan) /\ res'.percent = chan[1].percent
      /\ \A i \in 1..Len(chan') : i \in Nat /\ i + 1 \in 1..Len(chan) /\ chan'[i] = chan[i + 1]
  BY <1>0, <1>1, TailIs
<1>3. ASSUME NEW i \in 1..Len(chan'), NEW j \in 1..Len(chan'), i <= j
      PROVE  chan'[i].percent <= chan'[j].percent
  <2>1. i + 1 \in 1..Len(chan) /\ j + 1 \in 1..Len(chan) /\ i + 1 <= j + 1
        /\ chan'[i] = chan[i + 1] /\ chan'[j] = chan[j + 1]
    BY <1>2, <1>3
  <2>2. chan[i + 1].percent <= chan[j + 1].percent
    BY <1>0, <2>1 DEF PercentInv
  <2> QED BY <2>1, <2>2, Zenon
<1>4. ASSUME NEW i \in 1..Len(chan')
      PROVE  /\ res'.percent <= chan'[i].percent
             /\ rt \in {"ready", "walking"} => chan'[i].percent <= Percent(prog, walked)
             /\ chan'[i].percent = 100 => walked = Len(prog)
  <2>1. i + 1 \in 1..Len(chan) /\ 1 \in 1..Len(chan) /\ 1 <= i + 1 /\ chan'[i] = chan[i + 1]
    BY <1>2, <1>4
  <2>2. chan[1].percent <= chan[i + 1].percent
    BY <1>0, <2>1 DEF PercentInv
  <2>3. /\ rt \in {"ready", "walking"} => chan[i + 1].percent <= Percent(prog, walked)
        /\ chan[i + 1].percent = 100 => walked = Len(prog)
    BY <1>0, <2>1 DEF PercentInv
  <2> QED BY <1>2, <2>1, <2>2, <2>3, Zenon
<1>5. /\ rt \in {"ready", "walking"} => res'.percent <= Percent(prog, walked)
      /\ res'.percent = 100 => walked = Len(prog)
  BY <1>0, <1>2 DEF PercentInv
<1>6. Percent(prog', walked') = Percent(prog, walked) /\ Len(prog') = Len(prog)
  BY <1>1
<1> QED BY <1>1, <1>3, <1>4, <1>5, <1>6, Zenon DEF PercentInv

\* The percentages stay in order.
LEMMA PercentInvStep == IInv /\ [Next]_vars => PercentInv'
<1> SUFFICES ASSUME IInv, [Next]_vars PROVE PercentInv'
  OBVIOUS
<1>0. PercentInv /\ TypeOK /\ PhaseInv
  BY DEF IInv
<1>1. ASSUME UNCHANGED <<res, chan, prog, rt, walked>>
      PROVE  PercentInv'
  <2>1. Percent(prog', walked') = Percent(prog, walked)
    BY <1>1
  <2> QED BY <1>0, <1>1, <2>1 DEF PercentInv
<1>2. ASSUME rt' \notin {"ready", "walking"}, res' = EmptyResult, chan' = <<>>
      PROVE  PercentInv'
  BY <1>2 DEF PercentInv, EmptyResult
<1>3. CASE Apply
  BY <1>2, <1>3 DEF Apply
<1>4. CASE RequestPlan
  <2>1. rt = "off" /\ res = EmptyResult /\ chan = <<>>
    BY <1>0, <1>4 DEF RequestPlan, PhaseInv
  <2> QED BY <1>2, <1>4, <2>1 DEF RequestPlan, ReturnError, rtVars
<1>5. CASE Unseal
  <2>1. rt = "off" /\ res = EmptyResult /\ chan = <<>> /\ walked = 0 /\ prog \in Programs
    BY <1>0, <1>5 DEF Unseal, PhaseInv
  <2>2. CASE rt' = "ready"
    <3>1. prog' = prog /\ walked' = 0 /\ res' = EmptyResult /\ chan' = <<>>
      BY <1>5, <2>1 DEF Unseal, ReturnError, rtVars
    <3>2. 0 \in 0..Len(prog)
      BY <2>1, ProgramIsSeq
    <3>3. Percent(prog, 0) = 0
      BY <2>1, <3>2, PercentBounds
    <3> QED BY <3>1, <3>3 DEF PercentInv, EmptyResult
  <2>3. CASE rt' # "ready"
    BY <1>1, <1>5, <2>3 DEF Unseal, ReturnError, rtVars
  <2> QED BY <2>2, <2>3
<1>6. CASE FoldStatus
  BY <1>6, FoldPercent
<1>7. CASE RtReady
  <2>1. /\ prog \in Programs /\ walked = 0 /\ Len(prog) \in Nat /\ rt = "ready" /\ RtOnly
        /\ StatusOf("pending", 0, "none") \in Status /\ StatusOf("pending", 0, "none").percent = 0
    BY <1>0, <1>7, ProgramIsSeq, StatusTyped DEF RtReady, PhaseInv, Phases, Percents, Verdicts, StatusOf
  <2>2. Percent(prog, 0) = 0
    BY <2>1, PercentBounds
  <2>3. walked' = walked /\ (Send(StatusOf("pending", 0, "none")) \/ Drop)
    BY <1>7 DEF RtReady
  <2>4. Reported(StatusOf("pending", 0, "none"))
    BY <2>1, <2>2, <2>3 DEF Reported
  <2> QED BY <2>1, <2>3, <2>4, EmitPercent
<1>8. CASE RtStep \/ RtRollback
  <2>1. /\ prog \in Programs /\ walked \in 0..Len(prog) /\ walked + 1 \in 1..Len(prog)
        /\ walked' = walked + 1 /\ rt = "walking" /\ RtOnly /\ Len(prog) \in Nat
    BY <1>0, <1>8, ProgramIsSeq DEF RtStep, RtRollback, TypeOK, PhaseInv
  <2> DEFINE pe == Percent(prog, walked + 1)
  <2>2. walked \in 0..Len(prog) /\ walked + 1 \in 0..Len(prog) /\ walked <= walked + 1
        /\ walked + 1 \in walked..Len(prog)
    BY <2>1
  <2>3. pe \in 0..100 /\ Percent(prog, walked) <= pe /\ (pe = 100 => walked + 1 = Len(prog))
    BY <2>1, <2>2, PercentBounds, PercentRises
  <2>4. Percent(prog, walked) \in 0..100
    BY <2>1, <2>2, PercentBounds
  <2>5. PICK ph \in Phases, v \in Verdicts : Send(StatusOf(ph, pe, v)) \/ Drop
    <3>1. "none" \in Verdicts /\ "rolled-back" \in Verdicts /\ "rolled-back" \in Phases
      BY DEF Verdicts, Phases
    <3>2. StepPhase(prog[walked + 1]) \in Phases
      BY <2>1, StepPhaseTyped
    <3> QED BY <1>8, <3>1, <3>2 DEF RtStep, RtRollback
  <2>6. StatusOf(ph, pe, v) \in Status /\ StatusOf(ph, pe, v).percent = pe
    BY <2>1, PercentTyped, StatusTyped DEF StatusOf
  <2>7. Percent(prog, walked') = pe
    BY <2>1
  <2> HIDE DEF pe
  <2>8. Reported(StatusOf(ph, pe, v))
    BY <2>1, <2>2, <2>3, <2>4, <2>6, <2>7 DEF Reported
  <2> QED BY <2>1, <2>5, <2>8, EmitPercent
<1>9. CASE RtSucceed
  <2> DEFINE st == StatusOf("succeeded", 100, "success")
             pe == Percent(prog, walked)
  <2>1. /\ prog \in Programs /\ walked = Len(prog) /\ Len(prog) \in Nat
        /\ walked \in 0..Len(prog) /\ rt = "walking" /\ RtOnly
    BY <1>0, <1>9, ProgramIsSeq DEF RtSucceed, PhaseInv, TypeOK
  <2>2. st \in Status
    <3>1. "succeeded" \in Phases /\ "success" \in Verdicts /\ 100 \in Percents
      BY Zenon DEF Phases, Verdicts, Percents
    <3> QED BY <3>1, StatusTyped
  <2>3. st.percent = 100
    BY DEF StatusOf
  <2>4. pe \in 0..100
    BY <2>1, PercentBounds
  <2>5. walked' = walked /\ rt' = "closed" /\ (Send(st) \/ Drop)
    BY <1>9 DEF RtSucceed
  <2>6. 100 >= pe
    <3> HIDE DEF pe
    <3> QED BY <2>4
  <2>7. st.percent >= pe
    <3> HIDE DEF pe, st
    <3> QED BY <2>3, <2>6, Zenon
  <2>8. Reported(st)
    <3> HIDE DEF st
    <3> QED BY <2>1, <2>2, <2>5, <2>7 DEF Reported
  <2> HIDE DEF st
  <2> QED BY <2>1, <2>5, <2>8, EmitPercent
<1> QED BY <1>1, <1>3, <1>4, <1>5, <1>6, <1>7, <1>8, <1>9
        DEF Next, Terraform, EngineRun, RunProgram, ApplyDisabled, Delete, SelectRuntime, Attest,
            StreamEnd, ContextEnds, ReturnError, vars, engVars, rtVars

-----------------------------------------------------------------------------
(* The inductive invariant and its consequences. *)

\* The initial state satisfies the inductive invariant.
LEMMA InitInv == Init => IInv
<1> SUFFICES ASSUME Init PROVE IInv
  OBVIOUS
<1>1. TypeOK
  BY InitTyped
<1>2. BoundInv /\ StreamInv /\ ResultInv /\ PhaseInv /\ DeliveryInv /\ SavedInv /\ PercentInv
  BY DEF Init, EmptyResult, BoundInv, StreamInv, ResultInv, ClaimTrue, VerdictTrue, PhaseInv,
         AllConverged, DeliveryInv, SavedInv, PercentInv
<1> QED BY <1>1, <1>2 DEF IInv

\* The strengthened invariant holds in every reachable state.
THEOREM Invariance == Spec => []IInv
<1>1. IInv /\ [Next]_vars => IInv'
  BY TypeOKStep, BoundInvStep, StreamInvStep, ResultInvStep, PhaseInvStep, DeliveryInvStep,
     SavedInvStep, PercentInvStep DEF IInv
<1> QED BY InitInv, <1>1, PTL DEF Spec

\* Type correctness of the resource, both goroutines and the channel.
THEOREM TypeCorrectness == Spec => []TypeOK
<1>1. IInv => TypeOK
  BY DEF IInv
<1> QED BY Invariance, <1>1, PTL

\* The verdict in the Terraform state never claims more than the program did:
\* "success" only when every sealed step converged, "rolled-back" only when one
\* did not, and rolled_back agrees with the verdict.
THEOREM VerdictTruth == Spec => []VerdictIsTrue
<1>1. IInv => VerdictIsTrue
  BY DEF IInv, ResultInv, ClaimTrue, VerdictTrue, SavedInv, Saved, VerdictIsTrue, JustSaved
<1> QED BY Invariance, <1>1, PTL

\* A run whose context never ended leaves a verdict, however small the channel.
THEOREM VerdictDelivery == Spec => []VerdictReported
<1>1. IInv => VerdictReported
  BY DEF IInv, TypeOK, Result, Verdicts, DeliveryInv, PhaseInv, SavedInv, Saved, VerdictReported, JustSaved
<1> QED BY Invariance, <1>1, PTL

\* Full marks are given after the last step only, however the weights round.
THEOREM HundredIsComplete == Spec => []HundredMeansAllWalked
<1>1. IInv => HundredMeansAllWalked
  BY DEF IInv, SavedInv, Saved, PercentInv, HundredMeansAllWalked, JustSaved
<1> QED BY Invariance, <1>1, PTL

\* The percentage never falls while a run is streamed, whatever the weights.
THEOREM ProgressIsMonotone == Spec => PercentNeverFalls
<1>1. IInv /\ [Next]_vars => (pc = "stream" /\ pc' = "stream" => res'.percent >= res.percent)
  <2> SUFFICES ASSUME IInv, [Next]_vars, pc = "stream", pc' = "stream"
               PROVE  res'.percent >= res.percent
    OBVIOUS
  <2>0. res.percent \in 0..100 /\ PercentInv /\ chan \in Seq(Status)
    <3>1. res.percent \in Percents
      BY DEF IInv, TypeOK, Result
    <3> QED BY <3>1, PercentsAreNumbers DEF IInv, TypeOK
  <2>1. CASE res' = res
    <3>1. \A x \in 0..100 : x >= x
      OBVIOUS
    <3> QED BY <2>0, <2>1, <3>1, Zenon
  <2>2. CASE FoldStatus
    <3>1. chan # <<>> /\ res'.percent = Head(chan).percent
      BY <2>2 DEF FoldStatus
    <3>2. 1 \in 1..Len(chan) /\ Head(chan) = chan[1] /\ chan[1] \in Status
      BY <2>0, <3>1, TailIs
    <3>3. chan[1].percent \in 0..100
      BY <3>2, PercentsAreNumbers DEF Status
    <3> QED BY <2>0, <3>1, <3>2, <3>3 DEF PercentInv
  <2> QED BY <2>1, <2>2
          DEF Next, Terraform, EngineRun, RunProgram, ApplyDisabled, Apply, Delete, SelectRuntime, Attest,
              RequestPlan, Unseal, StreamEnd, RtReady, RtStep, RtRollback, RtSucceed, RtOnly, ContextEnds,
              ReturnError, vars, engVars
<1> QED BY Invariance, <1>1, PTL DEF PercentNeverFalls, Spec

\* No runtime goroutine, unread status or live key outlives Engine.Run.
THEOREM NoLeak == Spec => []NothingOutlivesRun
<1>1. IInv => NothingOutlivesRun
  BY DEF IInv, PhaseInv, NothingOutlivesRun
<1> QED BY Invariance, <1>1, PTL

\* A run that ends in an error has walked no step of the program.
THEOREM FailureIsClean == Spec => []FailedRunTouchedNothing
<1>1. IInv => FailedRunTouchedNothing
  BY DEF IInv, PhaseInv, SavedInv, FailedRunTouchedNothing
<1> QED BY Invariance, <1>1, PTL

-----------------------------------------------------------------------------
(* The refinement of MigrationContract. *)

\* The initial state of the resource is an initial state of the contract.
LEMMA ContractInit == Init => Contract!Init
<1> SUFFICES ASSUME Init PROVE Contract!Init
  OBVIOUS
<1>1. pc = "idle" /\ ctx = "live" /\ walked = 0 /\ tf = None
  BY DEF Init
<1> QED BY <1>1 DEF Contract!Init, Progress, Recorded

\* What a run's progress looks like in the contract.
LEMMA ProgressFacts ==
  ASSUME IInv
  PROVE  /\ walked \in Nat
         /\ walked = 0 => Progress = "none"
         /\ ~AllConverged => Progress = "failed"
         /\ AllConverged /\ walked = Len(prog) /\ walked # 0 => Progress = "complete"
<1>1. walked \in Nat
  BY DEF IInv, TypeOK
<1>2. walked = 0 => AllConverged
  BY DEF AllConverged
<1> QED BY <1>1, <1>2 DEF Progress

\* A step that changes nothing the contract sees is a stuttering step of it.
LEMMA QuietStep ==
  ASSUME UNCHANGED <<walked, prog, tf>>, pc' # "idle" <=> pc # "idle", ctx' # "live" <=> ctx # "live"
  PROVE  UNCHANGED Contract!vars
BY DEF Contract!vars, Progress, AllConverged, Recorded

\* An error return before anything was walked is the contract's GiveUp.
LEMMA GiveUpStep ==
  ASSUME IInv, ReturnError, pc # "idle", rt = "off"
  PROVE  Contract!GiveUp
<1>1. walked = 0 /\ walked' = 0 /\ pc' = "idle" /\ tf' = tf /\ ctx' = ctx
  BY DEF IInv, PhaseInv, ReturnError, rtVars
<1> QED BY <1>1 DEF Contract!GiveUp, Progress, Recorded

\* Every step of the runtime is work, or invisible.
LEMMA RuntimeStep ==
  ASSUME IInv, RtOnly, rt \in {"ready", "walking"}, walked' \in {walked, walked + 1},
         AllConverged, walked' # walked => walked # Len(prog)
  PROVE  Contract!Work \/ UNCHANGED Contract!vars
<1>1. pc # "idle" /\ pc' = pc /\ ctx' = ctx /\ tf' = tf /\ prog' = prog
  BY DEF IInv, TypeOK, PhaseInv, RtOnly, engVars
<1>2. CASE walked' = walked
  BY <1>1, <1>2, QuietStep
<1>3. CASE walked' = walked + 1 /\ walked' # walked
  <2>1. walked \in Nat /\ walked' # 0
    BY <1>3 DEF IInv, TypeOK
  <2>2. Progress \in {"none", "partial"}
    BY <1>3 DEF Progress
  <2>3. Progress' \in {"partial", "complete", "failed"}
    BY <2>1 DEF Progress
  <2>4. Recorded' = Recorded
    BY <1>1 DEF Recorded
  <2>5. CASE Progress' = Progress
    BY <1>1, <2>4, <2>5 DEF Contract!vars
  <2>6. CASE Progress' # Progress
    BY <1>1, <2>2, <2>3, <2>4, <2>6 DEF Contract!Work
  <2> QED BY <2>5, <2>6
<1> QED BY <1>2, <1>3

\* The end of the stream is the contract's Conclude: the recorded verdict is
\* what the program did, and is missing only when the context ended.
LEMMA ConcludeStep == IInv /\ StreamEnd => Contract!Conclude
<1> SUFFICES ASSUME IInv, StreamEnd PROVE Contract!Conclude
  OBVIOUS
<1>1. /\ pc # "idle" /\ pc' = "idle" /\ ctx' = ctx /\ walked' = walked /\ prog' = prog
      /\ tf' = Saved(res) /\ rt = "closed" /\ chan = <<>>
  BY DEF StreamEnd, Drained, rtVars
<1>2. Recorded' = res.verdict
  <2>1. Saved(res) \in SavedState
    BY DEF IInv, TypeOK, Result, Saved, SavedState, HardwareBacked
  <2>2. Saved(res) # None /\ Saved(res).verdict = res.verdict
    BY <2>1, NoneAssumption DEF Saved
  <2> QED BY <1>1, <2>2 DEF Recorded
<1>3. Progress' = Progress
  BY <1>1 DEF Progress, AllConverged
<1>4. prog \in Programs /\ Len(prog) > 0 /\ Len(prog) # 0
  BY <1>1, ProgramIsSeq DEF IInv, PhaseInv
<1>5. CASE res.verdict = "success"
  <2>1. walked = Len(prog) /\ AllConverged
    BY <1>5 DEF IInv, ResultInv, ClaimTrue, VerdictTrue
  <2>2. Progress = "complete"
    BY <1>4, <2>1, ProgressFacts
  <2> QED BY <1>1, <1>2, <1>3, <1>5, <2>2 DEF Contract!Conclude
<1>6. CASE res.verdict = "rolled-back"
  <2>1. Progress = "failed"
    BY <1>6, ProgressFacts DEF IInv, ResultInv, ClaimTrue, VerdictTrue
  <2> QED BY <1>1, <1>2, <1>3, <1>6, <2>1 DEF Contract!Conclude
<1>7. CASE res.verdict = "none"
  <2>1. ctx # "live"
    BY <1>1, <1>7 DEF IInv, DeliveryInv
  <2> QED BY <1>1, <1>2, <1>3, <1>7, <2>1 DEF Contract!Conclude
<1>8. res.verdict \in {"success", "rolled-back", "none"}
  BY DEF IInv, TypeOK, Result, Verdicts
<1> QED BY <1>5, <1>6, <1>7, <1>8

\* Every step of the resource, of either goroutine and of the context is a step
\* of the contract or invisible to it.
LEMMA ContractStep == IInv /\ [Next]_vars => [Contract!Next]_(Contract!vars)
<1> SUFFICES ASSUME IInv, [Next]_vars
             PROVE  Contract!Next \/ UNCHANGED Contract!vars
  OBVIOUS
<1> USE DEF Contract!Next
<1>1. CASE ApplyDisabled
  <2>1. /\ pc = "idle" /\ pc' = "idle" /\ ctx' = ctx /\ walked' = walked /\ prog' = prog
        /\ tf' = SavedDisabled
    BY <1>1 DEF ApplyDisabled, rtVars
  <2>2. Recorded' \in {"none", "absent"} /\ Progress' = Progress
    BY <2>1 DEF Recorded, SavedDisabled, Progress, AllConverged
  <2> QED BY <2>1, <2>2 DEF Contract!Forget
<1>2. CASE Apply
  <2>1. pc = "idle" /\ pc' = "select" /\ ctx' = "live" /\ walked' = 0 /\ tf' = tf
    BY <1>2 DEF Apply
  <2> QED BY <2>1 DEF Contract!Begin, Progress, Recorded
<1>3. CASE Delete
  <2>1. /\ pc = "idle" /\ pc' = pc /\ ctx' = ctx /\ walked' = walked /\ prog' = prog
        /\ tf' = None
    BY <1>3 DEF Delete, engVars, rtVars
  <2> QED BY <2>1 DEF Contract!Forget, Recorded, Progress, AllConverged
<1>4. CASE SelectRuntime
  <2>1. pc # "idle" /\ rt = "off"
    BY <1>4 DEF SelectRuntime, IInv, PhaseInv
  <2> QED BY <1>4, <2>1, GiveUpStep, QuietStep DEF SelectRuntime, rtVars
<1>5. CASE Attest
  <2>1. pc # "idle" /\ rt = "off"
    BY <1>5 DEF Attest, IInv, PhaseInv
  <2> QED BY <1>5, <2>1, GiveUpStep, QuietStep DEF Attest, rtVars
<1>6. CASE RequestPlan
  <2>1. pc # "idle" /\ rt = "off" /\ walked = 0
    BY <1>6 DEF RequestPlan, IInv, PhaseInv
  <2>2. CASE ReturnError
    BY <2>1, <2>2, GiveUpStep
  <2>3. CASE pc' = "open" /\ walked' = walked /\ tf' = tf /\ ctx' = ctx
    BY <2>1, <2>3 DEF Contract!vars, Progress, Recorded
  <2> QED BY <1>6, <2>2, <2>3 DEF RequestPlan
<1>7. CASE Unseal
  <2>1. pc # "idle" /\ rt = "off"
    BY <1>7 DEF Unseal, IInv, PhaseInv
  <2> QED BY <1>7, <2>1, GiveUpStep, QuietStep DEF Unseal
<1>8. CASE FoldStatus
  BY <1>8, QuietStep DEF FoldStatus, rtVars
<1>9. CASE StreamEnd
  BY <1>9, ConcludeStep
<1>10. CASE RtReady
  BY <1>10, RuntimeStep DEF RtReady, IInv, PhaseInv
<1>11. CASE RtStep
  <2>1. walked # Len(prog)
    BY <1>11 DEF RtStep, IInv, TypeOK
  <2> QED BY <1>11, <2>1, RuntimeStep DEF RtStep, IInv, PhaseInv
<1>12. CASE RtRollback
  <2>1. walked # Len(prog)
    BY <1>12 DEF RtRollback, IInv, TypeOK
  <2> QED BY <1>12, <2>1, RuntimeStep DEF RtRollback, IInv, PhaseInv
<1>13. CASE RtSucceed
  BY <1>13, RuntimeStep DEF RtSucceed, IInv, PhaseInv
<1>14. CASE ContextEnds
  <2>1. /\ pc # "idle" /\ pc' = pc /\ ctx' # "live" /\ walked' = walked /\ prog' = prog
        /\ tf' = tf
    BY <1>14 DEF ContextEnds, engVars, rtVars
  <2> QED BY <2>1 DEF Contract!Interrupt, Recorded, Progress, AllConverged
<1>15. CASE UNCHANGED vars
  BY <1>15, QuietStep DEF vars, engVars, rtVars
<1> QED BY <1>1, <1>2, <1>3, <1>4, <1>5, <1>6, <1>7, <1>8, <1>9, <1>10, <1>11, <1>12,
           <1>13, <1>14, <1>15 DEF Next, Terraform, EngineRun, RunProgram

\* The Terraform operations, the engine, the runtime and the channel together
\* implement the contract, for every program and every channel capacity.
THEOREM Refinement == Spec => ImplementsContract
<1> QED BY ContractInit, ContractStep, Invariance, PTL DEF Spec, ImplementsContract, Contract!Spec
-----------------------------------------------------------------------------
(* What a rolled-back walk left behind.                                    *)

\* Only the last step a walk took can have failed.
WalkInv == \A i \in 1..walked : ~prog[i].converge => i = walked

\* A walk goes on only after a step that converged.
LEMMA WalkInvStep == IInv /\ WalkInv /\ [Next]_vars => WalkInv'
<1> SUFFICES ASSUME IInv, WalkInv, [Next]_vars PROVE WalkInv'
  OBVIOUS
<1>1. CASE UNCHANGED rtVars
  BY <1>1 DEF WalkInv, rtVars
<1>2. CASE Apply
  BY <1>2 DEF Apply, WalkInv
<1>3. CASE RequestPlan
  <2>1. walked = 0
    BY <1>3 DEF IInv, PhaseInv, RequestPlan
  <2>2. walked' = 0
    BY <1>3, <2>1 DEF RequestPlan, ReturnError, rtVars
  <2> QED BY <2>2 DEF WalkInv
<1>4. CASE prog' = prog /\ walked' = walked
  BY <1>4 DEF WalkInv
<1>5. CASE RtStep \/ RtRollback
  <2>1. prog' = prog /\ walked' = walked + 1 /\ rt = "walking"
    BY <1>5 DEF RtStep, RtRollback, RtOnly
  <2>2. walked \in Nat /\ AllConverged
    BY <2>1 DEF IInv, TypeOK, PhaseInv
  <2>3. \A i \in 1..(walked + 1) : i \in 1..walked \/ i = walked + 1
    BY <2>2
  <2> QED BY <2>1, <2>2, <2>3 DEF WalkInv, AllConverged
<1>6. \/ UNCHANGED rtVars \/ Apply \/ RequestPlan \/ RtStep \/ RtRollback
      \/ prog' = prog /\ walked' = walked
  BY DEF Next, Terraform, EngineRun, RunProgram, ApplyDisabled, Delete, SelectRuntime, Attest, Unseal,
         FoldStatus, StreamEnd, RtReady, RtSucceed, RtOnly, ContextEnds, ReturnError, vars, rtVars
<1> QED BY <1>1, <1>2, <1>3, <1>4, <1>5, <1>6

\* No run applies a cutover behind a step that failed (interpreter.go:111-121),
\* for every program: a cutover applied before the failing step is all that a
\* rolled-back run can leave behind.
THEOREM RollbackTruth == Spec => []NoCutoverAfterFailure
<1>1. Init => WalkInv
  BY DEF Init, WalkInv
<1>2. IInv /\ WalkInv => NoCutoverAfterFailure
  <2> SUFFICES ASSUME IInv, WalkInv, NEW i \in 1..walked, NEW j \in 1..walked,
                      i < j, ~prog[i].converge
               PROVE  FALSE
    BY DEF NoCutoverAfterFailure
  <2>1. i = walked
    BY DEF WalkInv
  <2>2. walked \in Nat
    BY DEF IInv, TypeOK
  <2> QED BY <2>1, <2>2
<1> QED BY <1>1, <1>2, WalkInvStep, Invariance, PTL DEF Spec
=============================================================================
