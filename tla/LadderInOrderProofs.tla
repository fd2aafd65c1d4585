------------------------- MODULE LadderInOrderProofs -------------------------
(***************************************************************************)
(* The ladder as it runs is the ladder with its attempts one after another,*)
(* for any rungs, lattices, boards and budgets, however many rungs run side*)
(* by side and in whatever order they end: each step of WavesNext is a step*)
(* of Ladder's, whose attempts may do any work up to their limits, or one  *)
(* that leaves it where it is.                                             *)
(***************************************************************************)
EXTENDS LadderProofs

---------------------------------------------------------------------------
(* The two ladders' definitions: those of InOrder are Ladder's but for the *)
(* works an attempt may do                                                 *)

LEMMA SameCardinality == ASSUME NEW S PROVE Cardinality(S) = InOrder!Cardinality(S)
  BY DEF Cardinality, InOrder!Cardinality

LEMMA SameSteps ==
    ASSUME NEW o
    PROVE  /\ Init <=> InOrder!Init
           /\ Late <=> InOrder!Late
           /\ Decide <=> InOrder!Decide
           /\ BeginProbe <=> InOrder!BeginProbe
           /\ BeginRung <=> InOrder!BeginRung
           /\ BeginAlone <=> InOrder!BeginAlone
           /\ ProbeEnds(o) <=> InOrder!ProbeEnds(o)
           /\ RungEnds(o) <=> InOrder!RungEnds(o)
           /\ ContinuationEnds(o) <=> InOrder!ContinuationEnds(o)
           /\ RetryEnds(o) <=> InOrder!RetryEnds(o)
           /\ RoundEnds(o) <=> InOrder!RoundEnds(o)
           /\ StepEnds(o) <=> InOrder!StepEnds(o)
           /\ Error(o) <=> InOrder!Error(o)
<1> USE DEF
        None, Larger, Smaller, Positive, RungShare, BoundAllowsAttempt,
        FitsBeforeReserve, ProjectedExceeds, NarrowStepMinimum, NarrowStepReserve,
        ReserveWithCheck, RouteStepReserve, RouteStepHasTime, StepCostFits,
        FirstIterationFits, LeaderGateAdmits, RankOf, Before, Checked, Unchecked,
        CouldWin, CouldBeatKept, Wants, PoursBetter, flow, learned, judgedVars,
        NoBest, NoAttempt, NoPlan, NoLead, Modes, Finer, First, WithoutFirst,
        BoundLeft, RungLeft, WorkLeft, CheckCharge, BoundAllows, NoTimeForAnother,
        OpenBest, Complete, ShortOfWork, PitchSkipped, NotNeeded, Begin, Judged,
        Opens, Charge, NoteRank, NoteCheck, Beats, Reserved, Idle, GoTo, Dropped,
        ProbeLimit, ProbeFits, ProbedMode, Others, StartPitch, Skip, Flows,
        OutOfWork, Share, RungLimit, Settle, Result, RetryWanted, RetryLimit,
        RoundSeeds, RoundFits, RoundLimit, AfterRound, Keeps, Varied, StepHasTime,
        StepLimit, StepsKeep, StepRuns,
        InOrder!None, InOrder!Larger, InOrder!Smaller, InOrder!Positive,
        InOrder!RungShare, InOrder!BoundAllowsAttempt, InOrder!FitsBeforeReserve,
        InOrder!ProjectedExceeds, InOrder!NarrowStepMinimum,
        InOrder!NarrowStepReserve, InOrder!ReserveWithCheck,
        InOrder!RouteStepReserve, InOrder!RouteStepHasTime, InOrder!StepCostFits,
        InOrder!FirstIterationFits, InOrder!LeaderGateAdmits, InOrder!RankOf,
        InOrder!Before, InOrder!Checked, InOrder!Unchecked, InOrder!CouldWin,
        InOrder!CouldBeatKept, InOrder!Wants, InOrder!PoursBetter, InOrder!flow,
        InOrder!learned, InOrder!judgedVars, InOrder!NoBest, InOrder!NoAttempt,
        InOrder!NoPlan, InOrder!NoLead, InOrder!Modes, InOrder!Finer, InOrder!First,
        InOrder!WithoutFirst, InOrder!BoundLeft, InOrder!RungLeft, InOrder!WorkLeft,
        InOrder!CheckCharge, InOrder!BoundAllows, InOrder!NoTimeForAnother,
        InOrder!OpenBest, InOrder!Complete, InOrder!ShortOfWork,
        InOrder!PitchSkipped, InOrder!NotNeeded, InOrder!Begin, InOrder!Judged,
        InOrder!Opens, InOrder!Charge, InOrder!NoteRank, InOrder!NoteCheck,
        InOrder!Beats, InOrder!Reserved, InOrder!Idle, InOrder!GoTo,
        InOrder!Dropped, InOrder!ProbeLimit, InOrder!ProbeFits, InOrder!ProbedMode,
        InOrder!Others, InOrder!StartPitch, InOrder!Skip, InOrder!Flows,
        InOrder!OutOfWork, InOrder!Share, InOrder!RungLimit, InOrder!Settle,
        InOrder!Result, InOrder!RetryWanted, InOrder!RetryLimit, InOrder!RoundSeeds,
        InOrder!RoundFits, InOrder!RoundLimit, InOrder!AfterRound, InOrder!Keeps,
        InOrder!Varied, InOrder!StepHasTime, InOrder!StepLimit, InOrder!StepsKeep,
        InOrder!StepRuns
<1>1. Init <=> InOrder!Init
  BY DEF Init, InOrder!Init
<1>2. Late <=> InOrder!Late
  BY DEF Late, InOrder!Late
<1>3. StartProbes <=> InOrder!StartProbes
  BY DEF StartProbes, InOrder!StartProbes
<1>4. EndProbes <=> InOrder!EndProbes
  BY DEF EndProbes, InOrder!EndProbes
<1>5. StartRungs <=> InOrder!StartRungs
  BY DEF StartRungs, InOrder!StartRungs
<1>6. NextPitch <=> InOrder!NextPitch
  BY DEF NextPitch, InOrder!NextPitch
<1>7. PickLeader <=> InOrder!PickLeader
  BY SameCardinality DEF PickLeader, InOrder!PickLeader
<1>8. LeaderOnFiner <=> InOrder!LeaderOnFiner
  BY DEF LeaderOnFiner, InOrder!LeaderOnFiner
<1>9. AdmittedOnRegular <=> InOrder!AdmittedOnRegular
  BY DEF AdmittedOnRegular, InOrder!AdmittedOnRegular
<1>10. AdmittedOnFiner <=> InOrder!AdmittedOnFiner
  BY DEF AdmittedOnFiner, InOrder!AdmittedOnFiner
<1>11. EndPitch <=> InOrder!EndPitch
  BY DEF EndPitch, InOrder!EndPitch
<1>12. PassRung <=> InOrder!PassRung
  BY DEF PassRung, InOrder!PassRung
<1>13. NoRound <=> InOrder!NoRound
  BY DEF NoRound, InOrder!NoRound
<1>14. NoStep <=> InOrder!NoStep
  BY DEF NoStep, InOrder!NoStep
<1>15. BeginProbe <=> InOrder!BeginProbe
  BY DEF BeginProbe, InOrder!BeginProbe
<1>16. BeginRung <=> InOrder!BeginRung
  BY SameCardinality DEF BeginRung, InOrder!BeginRung
<1>17. BeginContinuation <=> InOrder!BeginContinuation
  BY DEF BeginContinuation, InOrder!BeginContinuation
<1>18. BeginRound <=> InOrder!BeginRound
  BY DEF BeginRound, InOrder!BeginRound
<1>19. BeginStep <=> InOrder!BeginStep
  BY DEF BeginStep, InOrder!BeginStep
<1>20. ProbeEnds(o) <=> InOrder!ProbeEnds(o)
  BY DEF ProbeEnds, InOrder!ProbeEnds
<1>21. ContinuationEnds(o) <=> InOrder!ContinuationEnds(o)
  BY SameCardinality DEF ContinuationEnds, InOrder!ContinuationEnds
<1>22. RoundEnds(o) <=> InOrder!RoundEnds(o)
  BY SameCardinality DEF RoundEnds, InOrder!RoundEnds
<1>23. StepEnds(o) <=> InOrder!StepEnds(o)
  BY SameCardinality DEF StepEnds, InOrder!StepEnds
<1>24. Error(o) <=> InOrder!Error(o)
  BY DEF Error, InOrder!Error
<1>25. Decide <=> InOrder!Decide
  BY <1>3, <1>4, <1>5, <1>6, <1>7, <1>8, <1>9, <1>10, <1>11, <1>12, <1>13, <1>14
     DEF Decide, InOrder!Decide
<1>26. BeginAlone <=> InOrder!BeginAlone
  BY <1>17, <1>18, <1>19
     DEF BeginAlone, InOrder!BeginAlone
<1>27. \A b : Judged(b) <=> InOrder!Judged(b)
  BY SameCardinality
<1>28. \A w : RetryLimit(w) = InOrder!RetryLimit(w)
  OBVIOUS
<1>29. \A r : RetryWanted(r) <=> InOrder!RetryWanted(r)
  OBVIOUS
<1>30. \A r : Settle(r) <=> InOrder!Settle(r)
  BY SameCardinality
<1> HIDE DEF Judged, Settle, RetryWanted, RetryLimit,
          InOrder!Judged, InOrder!Settle, InOrder!RetryWanted, InOrder!RetryLimit
<1>31. RungEnds(o) <=> InOrder!RungEnds(o)
  BY <1>27, <1>30, <1>29, <1>28 DEF RungEnds, InOrder!RungEnds
<1>32. RetryEnds(o) <=> InOrder!RetryEnds(o)
  BY <1>27, <1>30, <1>29, <1>28 DEF RetryEnds, InOrder!RetryEnds
<1>33. QED
  BY <1>1, <1>2, <1>25, <1>15, <1>16, <1>26, <1>20, <1>31, <1>21, <1>32, <1>22, <1>23,
     <1>24

---------------------------------------------------------------------------
(* What was given to the attempts under way and to those that have run *)

\* What a layout's rung has: what was left as its pitch started.
LayoutLimit == Positive(plan.left - CheckCharge - keep.reserve)

\* A rung routes with the limit that the plan says; the first, without a board,
\* runs alone.
Given ==
    /\ attempt.kind = "probe" => attempt.limit = ProbeLimit
    /\ attempt.kind = "rung" =>
          /\ run.layout => attempt.limit = LayoutLimit
          /\ ~run.layout /\ best # NoBest => plan.share # None /\ attempt.limit = plan.share
    /\ attempt.kind = "rung" /\ best = NoBest => wave \subseteq {attempt.mode}

\* What has run and waits to be judged had the limit it would have alone, or less.
Alike(m) ==
    IF best = NoBest
    THEN attempt.kind = "rung" /\ m = attempt.mode /\ ran[m].limit = attempt.limit
    ELSE IF run.layout THEN ran[m].limit <= LayoutLimit
    ELSE plan.share # None /\ ran[m].limit = plan.share

RunAsGiven(m) ==
    LET limit == ran[m].limit
    IN  /\ stage = "probing" => limit = ProbeLimit /\ ran[m].end \in ProbeOutcomes(limit)
        /\ stage = "rung" => ran[m].end \in Outcomes(limit) /\ Alike(m)

RanAsGiven == \A m \in Modes : HasRun(m) => RunAsGiven(m)

AsGiven == Given /\ RanAsGiven

\* What has run keeps what it was given while the plan and what is kept stay.
LEMMA StillAsGiven ==
    ASSUME AsGiven, run' = run, best' = best, keep' = keep, plan' = plan, stage' = stage,
           attempt' = attempt, ran' = ran, wave' \subseteq wave
    PROVE  AsGiven'
<1>1. /\ Modes' = Modes /\ ProbeLimit' = ProbeLimit /\ LayoutLimit' = LayoutLimit
      /\ Given /\ RanAsGiven
  BY DEF Modes, ProbeLimit, LayoutLimit, CheckCharge, AsGiven
<1>2. Given'
  BY <1>1 DEF Given
<1>3. ASSUME NEW m \in Modes, HasRun(m)'
      PROVE  RunAsGiven(m)'
  <2>1. RunAsGiven(m)
    BY <1>1, <1>3 DEF RanAsGiven, HasRun
  <2>2. Alike(m)' <=> Alike(m)
    BY <1>1 DEF Alike
  <2>3. QED
    BY <1>1, <2>1, <2>2 DEF RunAsGiven, Outcomes, ProbeOutcomes, Routed, Works
<1>4. RanAsGiven'
  BY <1>1, <1>3 DEF RanAsGiven
<1>5. QED
  BY <1>2, <1>4 DEF AsGiven

\* Where no probe or rung routes, what has run and waits keeps what it was given.
LEMMA RanStays ==
    ASSUME Inv, Inv', AsGiven, run' = run, ~InWaves',
           \A m \in Modes : ran'[m] # NotRun =>
              /\ ran'[m] = ran[m] /\ stage' = stage
              /\ stage = "rung" => /\ best # NoBest /\ best' # NoBest
                                   /\ plan'.left = plan.left /\ plan'.share = plan.share
                                   /\ run.layout => keep'.reserve <= keep.reserve
    PROVE  AsGiven'
<1>1. Given'
  BY DEF Given, InWaves
<1>2. /\ Modes' = Modes /\ ProbeLimit' = ProbeLimit /\ CheckCharge' = CheckCharge
      /\ RanAsGiven /\ Control /\ Control'
  BY DEF Modes, ProbeLimit, CheckCharge, AsGiven, Inv, LadderInv
<1>3. ASSUME NEW m \in Modes, HasRun(m)'
      PROVE  RunAsGiven(m)'
  <2>1. ran'[m] # NotRun /\ ran'[m] = ran[m] /\ stage' = stage /\ HasRun(m)
    BY <1>3 DEF HasRun
  <2>2. CASE stage = "probing"
    <3>1. RunAsGiven(m)
      BY <1>2, <2>1 DEF RanAsGiven
    <3>2. QED
      BY <1>2, <2>1, <2>2, <3>1 DEF RunAsGiven, ProbeOutcomes, Works
  <2>3. CASE stage = "rung"
    <3>1. ran[m].end \in Outcomes(ran[m].limit) /\ Alike(m)
      BY <1>2, <2>1, <2>3 DEF RanAsGiven, RunAsGiven
    <3>2. /\ best # NoBest /\ best' # NoBest
          /\ plan'.left = plan.left /\ plan'.share = plan.share
          /\ run.layout => keep'.reserve <= keep.reserve
      BY <2>1, <2>3
    <3>3. Alike(m)'
      <4>1. CASE run.layout
        <5>1. ran[m].limit <= LayoutLimit /\ ran[m].limit \in Nat
          BY <2>1, <3>1, <3>2, <4>1 DEF Alike, Inv, WavesInOrder, WavesEnded
        <5>2. /\ plan.left \in Nat /\ CheckCharge \in Nat /\ keep.reserve \in Nat
              /\ keep'.reserve \in Nat
          BY <1>2, Lefts DEF Control, Typed, Data, Place, Plans, Kept
        <5>3. LayoutLimit <= LayoutLimit' /\ LayoutLimit \in Nat /\ LayoutLimit' \in Nat
          BY <1>2, <3>2, <4>1, <5>2 DEF LayoutLimit, Positive, Larger
        <5>4. ran'[m].limit <= LayoutLimit'
          BY <2>1, <5>1, <5>3
        <5>5. QED
          BY <3>2, <4>1, <5>4 DEF Alike
      <4>2. CASE ~run.layout
        BY <2>1, <3>1, <3>2, <4>2 DEF Alike
      <4>3. QED
        BY <4>1, <4>2
    <3>4. QED
      BY <2>1, <2>3, <3>1, <3>3 DEF RunAsGiven, Outcomes, Routed, Works
  <2>4. CASE stage \notin {"probing", "rung"}
    BY <2>1, <2>4 DEF RunAsGiven
  <2>5. QED
    BY <2>2, <2>3, <2>4
<1>4. RanAsGiven'
  BY <1>2, <1>3 DEF RanAsGiven
<1>5. QED
  BY <1>1, <1>4 DEF AsGiven

LEMMA StartWaveAsGiven == ASSUME Inv, AsGiven, StartWave PROVE AsGiven'
<1>1. /\ run' = run /\ best' = best /\ keep' = keep /\ plan' = plan /\ stage' = stage
      /\ attempt' = attempt /\ ran' = ran /\ wave = {}
  BY DEF StartWave, vars, judgedVars, learned, flow
<1>2. RanAsGiven'
  <2>1. RanAsGiven
    BY DEF AsGiven
  <2>2. ASSUME NEW m \in Modes, HasRun(m)'
        PROVE  RunAsGiven(m)'
    <3>1. RunAsGiven(m)
      BY <1>1, <2>1, <2>2 DEF RanAsGiven, HasRun
    <3>2. Alike(m)' <=> Alike(m)
      BY <1>1 DEF Alike, LayoutLimit, CheckCharge
    <3>3. ProbeLimit' = ProbeLimit
      BY <1>1 DEF ProbeLimit
    <3>4. QED
      BY <1>1, <3>1, <3>2, <3>3 DEF RunAsGiven, Outcomes, ProbeOutcomes, Routed, Works
  <2>3. QED
    BY <1>1, <2>2 DEF RanAsGiven, Modes
<1>3. ASSUME attempt.kind = "rung", best = NoBest
      PROVE  wave' \subseteq {attempt.mode}
  <2>1. wave' = Firsts(1)
    BY <1>3 DEF StartWave, Widths
  <2>2. /\ Control /\ plan.cands # {} /\ attempt.mode = First(plan.cands)
        /\ plan.cands \subseteq Nat /\ IsFiniteSet(plan.cands)
    BY <1>3, ControlTypes, FS_Subset DEF Inv, LadderInv, Control, Routes
  <2>3. attempt.mode \in plan.cands /\ \A n \in plan.cands : attempt.mode <= n
    BY <2>2, FirstIs
  <2>4. SUFFICES ASSUME NEW m \in Firsts(1) PROVE m = attempt.mode
    BY <2>1
  <2> DEFINE before == {n \in plan.cands : n < m}
  <2>5. m \in plan.cands /\ Cardinality(before) < 1
    BY DEF Firsts
  <2>6. before = {}
    <3>1. IsFiniteSet(before) /\ Cardinality(before) \in Nat
      BY <2>2, FS_Subset, FS_CardinalityType
    <3> HIDE DEF before
    <3>2. Cardinality(before) = 0
      BY <2>5, <3>1
    <3>3. QED
      BY <3>1, <3>2, FS_EmptySet
  <2>7. QED
    BY <2>2, <2>3, <2>5, <2>6
<1>4. Given'
  BY <1>1, <1>3 DEF AsGiven, Given, ProbeLimit, LayoutLimit, CheckCharge
<1>5. QED
  BY <1>2, <1>4 DEF AsGiven

LEMMA RouteEndsAsGiven ==
    ASSUME Inv, AsGiven, NEW m \in Modes, RouteEnds(m)
    PROVE  AsGiven'
<1>1. /\ run' = run /\ best' = best /\ keep' = keep /\ plan' = plan /\ stage' = stage
      /\ attempt' = attempt /\ m \in wave /\ wave' = wave \ {m}
  BY DEF RouteEnds, vars, judgedVars, learned, flow
<1>2. /\ InWaves /\ DOMAIN ran = Modes
      /\ attempt.kind = "probe" => stage = "probing"
      /\ attempt.kind # "probe" => attempt.kind = "rung" /\ stage = "rung"
  BY <1>1 DEF Inv, LadderInv, Control, Routes, WavesInOrder, WavesRun, InWaves
<1>3. PICK o :
        /\ ran' = [ran EXCEPT ![m] = [limit |-> attempt.limit, end |-> o]]
        /\ stage = "probing" => o \in ProbeOutcomes(attempt.limit)
        /\ stage = "rung" => o \in Outcomes(attempt.limit)
  BY <1>2 DEF RouteEnds, WaveLimit
<1>4. Given /\ RanAsGiven /\ attempt.limit \in Nat
  BY <1>2 DEF AsGiven, Inv, LadderInv, Control, Typed, Attempts, InWaves, NoAttempt
<1>5. Given'
  BY <1>1, <1>4 DEF Given, ProbeLimit, LayoutLimit, CheckCharge
<1>6. ASSUME NEW n \in Modes, HasRun(n)'
      PROVE  RunAsGiven(n)'
  <2>1. CASE n # m
    <3>1. ran'[n] = ran[n]
      BY <1>2, <1>3, <2>1
    <3>2. RunAsGiven(n)
      BY <1>4, <1>6, <3>1 DEF RanAsGiven, HasRun
    <3>3. (Alike(n)' <=> Alike(n)) /\ ProbeLimit' = ProbeLimit
      BY <1>1, <3>1 DEF Alike, LayoutLimit, CheckCharge, ProbeLimit
    <3>4. QED
      BY <1>1, <3>1, <3>2, <3>3 DEF RunAsGiven, Outcomes, ProbeOutcomes, Routed, Works
  <2>2. CASE n = m
    <3>1. ran'[n].limit = attempt.limit /\ ran'[n].end = o
      BY <1>2, <1>3, <2>2
    <3>2. stage = "probing" => attempt.limit = ProbeLimit
      BY <1>2, <1>4 DEF Given
    <3>3. stage = "rung" => Alike(n)'
      <4>1. SUFFICES ASSUME stage = "rung" PROVE Alike(n)'
        OBVIOUS
      <4>2. attempt.kind = "rung"
        BY <1>2, <4>1
      <4>3. best = NoBest => n = attempt.mode
        BY <1>1, <1>4, <2>2, <4>2 DEF Given
      <4>4. run.layout => attempt.limit = LayoutLimit
        BY <1>4, <4>2 DEF Given
      <4>5. ~run.layout /\ best # NoBest => plan.share # None /\ attempt.limit = plan.share
        BY <1>4, <4>2 DEF Given
      <4>6. LayoutLimit' = LayoutLimit
        BY <1>1 DEF LayoutLimit, CheckCharge
      <4>7. QED
        BY <1>1, <1>4, <3>1, <4>2, <4>3, <4>4, <4>5, <4>6 DEF Alike
    <3>4. ProbeLimit' = ProbeLimit
      BY <1>1 DEF ProbeLimit
    <3>5. QED
      BY <1>1, <1>3, <3>1, <3>2, <3>3, <3>4
         DEF RunAsGiven, Outcomes, ProbeOutcomes, Routed, Works
  <2>3. QED
    BY <2>1, <2>2
<1>7. RanAsGiven'
  BY <1>1, <1>6 DEF RanAsGiven, Modes
<1>8. QED
  BY <1>5, <1>7 DEF AsGiven

\* A rung settled keeps no more than was kept: what is kept is set by the first
\* board, and given up when the board is complete.
LEMMA SettleGives ==
    ASSUME Inv, attempt.kind \in {"rung", "retry"}, run' = run, work' \in Nat,
           overrun' \in Nat, NEW r \in Results, Settle(r), best # NoBest
    PROVE  /\ best' # NoBest /\ keep'.reserve <= keep.reserve
           /\ stage' = "rung" => plan'.left = plan.left /\ plan'.share = plan.share
<1>1. Control /\ ReserveSetOnce /\ plan \in Plans /\ keep.reserve \in Nat
  BY ControlTypes, Lefts DEF Inv, LadderInv, Bounded
<1>2. best' # NoBest
  BY <1>1, Settled
<1>3. keep'.reserve <= keep.reserve
  BY <1>1, SettleKept
<1>4. Flows(TRUE) \/ plan' = [plan EXCEPT !.cands = WithoutFirst(@)]
  BY SettleIs
<1>5. Flows(TRUE) => stage' = "seeds"
  BY DEF Flows
<1>6. QED
  BY <1>1, <1>2, <1>3, <1>4, <1>5 DEF Plans

LEMMA JudgeProbeAsGiven == ASSUME Inv, Inv', AsGiven, JudgeProbe PROVE AsGiven'
<1>1. /\ run' = run /\ attempt' = NoAttempt /\ stage = "probing"
      /\ ran' = IF stage' = "probing" /\ plan'.cands # {}
                THEN [ran EXCEPT ![attempt.mode] = NotRun] ELSE Forgotten
  BY DEF JudgeProbe, ProbeEnds, Forget, Inv, LadderInv, Control, Routes
<1>2. ~InWaves'
  BY <1>1 DEF InWaves, NoAttempt
<1>3. ASSUME NEW m \in Modes, ran'[m] # NotRun
      PROVE  ran'[m] = ran[m] /\ stage' = stage
  <2>1. DOMAIN ran = Modes
    BY DEF Inv, WavesInOrder, WavesRun
  <2>2. stage' = "probing" /\ ran' = [ran EXCEPT ![attempt.mode] = NotRun]
    BY <1>1, <1>3 DEF Forgotten
  <2>3. QED
    BY <1>1, <1>3, <2>1, <2>2
<1>4. QED
  BY <1>1, <1>2, <1>3, RanStays

LEMMA JudgeRungAsGiven == ASSUME Inv, Inv', AsGiven, JudgeRung PROVE AsGiven'
<1> DEFINE o == ran[attempt.mode].end
<1>1. /\ attempt.kind = "rung" /\ stage = "rung" /\ attempt.mode \in Modes
      /\ ran[attempt.mode] # NotRun
      /\ ran' = IF stage' = "rung" /\ plan'.cands # {}
                THEN [ran EXCEPT ![attempt.mode] = NotRun] ELSE Forgotten
      /\ RungEnds(o) \/ Error(o)
  BY DEF JudgeRung, Joined, Forget, Inv, LadderInv, Control, Typed, Routes, NoAttempt
<1>2. Control /\ WavesInOrder /\ RanAsGiven /\ DOMAIN ran = Modes
  BY DEF Inv, LadderInv, WavesInOrder, WavesRun, AsGiven
<1>3. Outcome(o)
  BY <1>1, <1>2 DEF WavesInOrder, WavesEnded, HasRun
<1>4. run' = run /\ ~InWaves'
  <2>1. CASE Error(o)
    BY <2>1 DEF Error, InWaves, NoAttempt
  <2>2. CASE RungEnds(o)
    <3>1. run' = run
      BY <2>2 DEF RungEnds
    <3>2. \/ attempt' = NoAttempt
          \/ \E r : Begin("retry", attempt.mode, RetryLimit(work'), RetrySeeds, r)
      <4>1. CASE o.fate \in {"panic", "checkPanic"}
        BY <1>2, <2>2, <4>1, RungPanics
      <4>2. CASE o.fate \notin {"panic", "checkPanic"}
        BY <1>2, <1>3, <2>2, <4>2, RungRouted, SettleIs
      <4>3. QED
        BY <4>1, <4>2
    <3>3. QED
      BY <3>1, <3>2 DEF Begin, InWaves, NoAttempt
  <2>3. QED
    BY <1>1, <2>1, <2>2
<1>5. ASSUME NEW m \in Modes, ran'[m] # NotRun
      PROVE  /\ ran'[m] = ran[m] /\ stage' = stage
             /\ best # NoBest /\ best' # NoBest
             /\ plan'.left = plan.left /\ plan'.share = plan.share
             /\ run.layout => keep'.reserve <= keep.reserve
  <2>1. stage' = "rung" /\ ran' = [ran EXCEPT ![attempt.mode] = NotRun]
    BY <1>1, <1>5 DEF Forgotten
  <2>2. m # attempt.mode /\ ran'[m] = ran[m]
    BY <1>2, <1>5, <2>1
  <2>3. best # NoBest
    BY <1>1, <1>2, <1>5, <2>2 DEF RanAsGiven, RunAsGiven, HasRun, Alike
  <2>4. keep.reserve \in Nat /\ plan \in Plans
    BY <1>2, Lefts, ControlTypes
  <2>5. CASE o.fate \in {"panic", "checkPanic"} /\ RungEnds(o)
    <3>1. Dropped /\ plan' = [plan EXCEPT !.cands = WithoutFirst(@)]
      BY <1>2, <2>5, RungPanics
    <3>2. QED
      BY <1>1, <2>1, <2>2, <2>3, <2>4, <3>1 DEF Dropped, judgedVars, learned, Plans
  <2>6. CASE o.fate \notin {"panic", "checkPanic"} /\ RungEnds(o)
    <3> DEFINE checked == Judged(o.board)
               r       == Result(o, checked, FALSE)
    <3>1. /\ r \in Results /\ checked \in BOOLEAN /\ Charge(o.work, checked)
          /\ UNCHANGED <<best, output, learned, flow>> \/ Settle(r)
      BY <1>2, <1>3, <2>6, RungRouted
    <3> HIDE DEF checked, r
    <3>2. CASE UNCHANGED <<best, output, learned, flow>>
      BY <1>1, <2>2, <2>3, <2>4, <3>2 DEF learned, flow
    <3>3. CASE Settle(r)
      <4>1. work' \in Nat /\ overrun' \in Nat
        BY <1>1, <1>2, <1>3, <3>1, Charged DEF Outcome, NoAttempt
      <4>2. QED
        BY <1>1, <1>4, <2>1, <2>2, <2>3, <3>1, <3>3, <4>1, SettleGives
    <3>4. QED
      BY <3>1, <3>2, <3>3
  <2>7. ~Error(o)
    BY <2>1 DEF Error
  <2>8. QED
    BY <1>1, <2>5, <2>6, <2>7
<1>6. QED
  BY <1>1, <1>4, <1>5, RanStays

\* A rung begins with what the plan gives it, and so do those that wait.
LEMMA BeginRungAsGiven ==
    ASSUME Inv, Inv', AsGiven, BeginRung, ran' = ran, wave' = wave
    PROVE  AsGiven'
<1>1. /\ attempt = NoAttempt /\ stage = "rung" /\ stage' = stage /\ plan.cands # {}
      /\ run' = run /\ best' = best /\ keep' = keep
      /\ plan' = [plan EXCEPT !.share = Share]
      /\ attempt' = [kind |-> "rung", mode |-> First(plan.cands), limit |-> RungLimit,
                     times |-> 1, result |-> <<>>]
  BY DEF BeginRung, Begin, Idle, judgedVars, learned
<1>2. Control /\ Given /\ RanAsGiven /\ plan \in Plans /\ wave = {}
  BY <1>1, ControlTypes
     DEF Inv, LadderInv, AsGiven, WavesInOrder, WavesRun, InWaves, NoAttempt
<1>3. /\ plan'.share = Share /\ plan'.left = plan.left
      /\ Modes' = Modes /\ LayoutLimit' = LayoutLimit
  BY <1>1, <1>2 DEF Plans, Modes, LayoutLimit, CheckCharge
<1>4. ~run.layout /\ best # NoBest => Share # None /\ RungLimit = Share
  <2>1. RungShare(RungLeft(work), Cardinality(plan.cands) + plan.after) # None
    BY <1>1, <1>2, ShareFits, NoPlanIs
  <2>2. QED
    BY <2>1 DEF Share, RungLimit
<1>5. run.layout => RungLimit = LayoutLimit
  BY DEF RungLimit, LayoutLimit
<1>6. Given'
  <2>1. attempt'.kind = "rung" /\ attempt'.limit = RungLimit /\ wave' = {}
    BY <1>1, <1>2
  <2>2. QED
    BY <1>1, <1>3, <1>4, <1>5, <2>1 DEF Given
<1>7. ASSUME NEW m \in Modes, HasRun(m)'
      PROVE  RunAsGiven(m)'
  <2>1. RunAsGiven(m) /\ best # NoBest
    <3>1. RunAsGiven(m)
      BY <1>2, <1>7 DEF RanAsGiven, HasRun
    <3>2. best = NoBest => attempt.kind = "rung"
      BY <1>1, <3>1 DEF RunAsGiven, Alike
    <3>3. QED
      BY <1>1, <3>1, <3>2 DEF NoAttempt
  <2>2. Alike(m)
    BY <1>1, <2>1 DEF RunAsGiven
  <2>3. Alike(m)'
    <3>1. CASE run.layout
      BY <1>1, <1>3, <2>1, <2>2, <3>1 DEF Alike
    <3>2. CASE ~run.layout
      <4>1. plan.share # None /\ ran[m].limit = plan.share
        BY <2>1, <2>2, <3>2 DEF Alike
      <4>2. Share = plan.share
        BY <4>1 DEF Share
      <4>3. QED
        BY <1>1, <1>3, <2>1, <3>2, <4>1, <4>2 DEF Alike
    <3>3. QED
      BY <3>1, <3>2
  <2>4. QED
    BY <1>1, <2>1, <2>3 DEF RunAsGiven, Outcomes, Routed, Works
<1>8. RanAsGiven'
  BY <1>3, <1>7 DEF RanAsGiven
<1>9. QED
  BY <1>6, <1>8 DEF AsGiven

LEMMA BeginProbeAsGiven ==
    ASSUME Inv, Inv', AsGiven, BeginProbe, ran' = ran, wave' = wave
    PROVE  AsGiven'
<1>1. /\ stage = "probing" /\ stage' = stage /\ run' = run
      /\ attempt' = [kind |-> "probe", mode |-> First(plan.cands), limit |-> ProbeLimit,
                     times |-> 1, result |-> <<>>]
  BY DEF BeginProbe, Begin, Idle, flow
<1>2. ProbeLimit' = ProbeLimit /\ Modes' = Modes /\ RanAsGiven
  BY <1>1 DEF ProbeLimit, Modes, AsGiven
<1>3. Given'
  BY <1>1, <1>2 DEF Given
<1>4. ASSUME NEW m \in Modes, HasRun(m)'
      PROVE  RunAsGiven(m)'
  <2>1. RunAsGiven(m)
    BY <1>2, <1>4 DEF RanAsGiven, HasRun
  <2>2. QED
    BY <1>1, <1>2, <2>1 DEF RunAsGiven, ProbeOutcomes, Works
<1>5. RanAsGiven'
  BY <1>2, <1>4 DEF RanAsGiven
<1>6. QED
  BY <1>3, <1>5 DEF AsGiven

\* The ladder's own steps: between two rungs, or after a rung's seeds, what waits
\* keeps what it was given.
LEMMA AloneAsGiven == ASSUME Inv, Inv', AsGiven, Alone PROVE AsGiven'
<1>1. Control /\ WavesInOrder /\ RanAsGiven
  BY DEF Inv, LadderInv, AsGiven
<1>2. wave' = wave /\ ran' = IF stage' = stage THEN ran ELSE Forgotten
  BY DEF Alone
\* None waits but in the probing and in a pitch, whose rungs had a best board.
<1>3. ASSUME NEW m \in Modes, ran'[m] # NotRun
      PROVE  /\ ran' = ran /\ stage' = stage /\ stage \in {"probing", "rung"}
             /\ stage = "rung" /\ attempt.kind # "rung" => best # NoBest
  <2>1. ran' = ran /\ stage' = stage
    BY <1>2, <1>3 DEF Forgotten
  <2>2. HasRun(m)
    BY <1>3, <2>1 DEF HasRun
  <2>3. stage \in {"probing", "rung"}
    BY <1>1, <2>2 DEF WavesInOrder, WavesEnded
  <2>4. stage = "rung" => Alike(m)
    BY <1>1, <2>2 DEF RanAsGiven, RunAsGiven
  <2>5. QED
    BY <2>1, <2>3, <2>4 DEF Alike
<1>4. CASE BeginProbe
  <2>1. stage' = stage
    BY <1>4 DEF BeginProbe, flow
  <2>2. QED
    BY <1>2, <1>4, <2>1, BeginProbeAsGiven
<1>5. CASE BeginRung
  <2>1. stage' = stage
    BY <1>5 DEF BeginRung
  <2>2. QED
    BY <1>2, <1>5, <2>1, BeginRungAsGiven
<1>6. CASE BeginAlone
  <2>1. /\ run' = run /\ stage' = stage
        /\ stage \in {"continue", "A", "seeds", "steps", "clearance"}
        /\ attempt'.kind \in {"continuation", "round", "narrow", "clearance"}
    BY <1>6 DEF BeginAlone, BeginContinuation, BeginRound, BeginStep, Begin, Idle, flow
  <2>2. ~InWaves'
    BY <2>1 DEF InWaves
  <2>3. \A m \in Modes : ran'[m] = NotRun
    BY <1>3, <2>1
  <2>4. QED
    BY <2>1, <2>2, <2>3, RanStays
<1>7. CASE Decide
  <2>1. attempt = NoAttempt /\ attempt' = NoAttempt /\ run' = run
    BY <1>7 DEF Decide, StartProbes, EndProbes, StartRungs, NextPitch, PickLeader,
       LeaderOnFiner, AdmittedOnRegular, AdmittedOnFiner, EndPitch, PassRung, NoRound,
       NoStep, StartPitch, Skip, GoTo, Idle
  <2>2. ~InWaves'
    BY <2>1 DEF InWaves, NoAttempt
  <2>3. stage = "rung" /\ stage' = "rung" => PassRung
    BY <1>1, <1>7 DEF Decide, StartProbes, EndProbes, StartRungs, NextPitch, PickLeader,
       LeaderOnFiner, AdmittedOnRegular, AdmittedOnFiner, EndPitch, NoRound, NoStep, Idle,
       Flows, Control, OnALattice
  <2>4. PassRung => /\ best' = best /\ keep' = keep
                    /\ plan' = [plan EXCEPT !.cands = WithoutFirst(@)]
    BY DEF PassRung, GoTo, judgedVars, learned
  <2>5. plan \in Plans /\ keep.reserve \in Nat
    BY <1>1, ControlTypes, Lefts
  <2>6. ASSUME NEW m \in Modes, ran'[m] # NotRun
        PROVE  /\ ran'[m] = ran[m] /\ stage' = stage
               /\ stage = "rung" => /\ best # NoBest /\ best' # NoBest
                                    /\ plan'.left = plan.left /\ plan'.share = plan.share
                                    /\ run.layout => keep'.reserve <= keep.reserve
    <3>1. attempt.kind # "rung"
      BY <2>1 DEF NoAttempt
    <3>2. QED
      BY <1>3, <2>3, <2>4, <2>5, <2>6, <3>1 DEF Plans
  <2>7. QED
    BY <2>1, <2>2, <2>6, RanStays
<1>8. CASE EndAlone
  <2>1. PICK o \in Outcomes(attempt.limit) : EndsAlone(o) \/ Error(o)
    BY <1>8 DEF EndAlone, EndsAlone
  <2>2. attempt # NoAttempt /\ attempt.kind # "rung"
    BY <1>8 DEF EndAlone, NoAttempt
  <2>3. Outcome(o)
    BY <1>1, <2>1, <2>2, OutcomesAre DEF Control, Typed, Data, Attempts
  <2>4. CASE RetryEnds(o)
    <3>1. PICK r \in Results : Settle(r)
      BY <1>1, <2>3, <2>4, RetryIs
    <3>2. /\ attempt.kind = "retry" /\ run' = run /\ stage = "rung"
          /\ attempt' = NoAttempt
      BY <1>1, <2>4, <3>1, SettleIs DEF RetryEnds, Control, Routes
    <3>3. work' \in Nat /\ overrun' \in Nat
      <4>1. Control'
        BY DEF Inv, LadderInv
      <4>2. QED
        BY <4>1 DEF Control, Typed, Data
    <3>4. ~InWaves'
      BY <3>2 DEF InWaves, NoAttempt
    <3>5. ASSUME NEW m \in Modes, ran'[m] # NotRun
          PROVE  /\ ran'[m] = ran[m] /\ stage' = stage
                 /\ best # NoBest /\ best' # NoBest
                 /\ plan'.left = plan.left /\ plan'.share = plan.share
                 /\ keep'.reserve <= keep.reserve
      <4>1. ran' = ran /\ stage' = stage /\ best # NoBest
        BY <1>3, <2>2, <3>2, <3>5
      <4>2. QED
        BY <3>1, <3>2, <3>3, <4>1, SettleGives
    <3>6. QED
      BY <3>2, <3>4, <3>5, RanStays
  <2>5. CASE ~RetryEnds(o)
    <3>1. run' = run /\ attempt' = NoAttempt
      BY <2>1, <2>5 DEF EndsAlone, ContinuationEnds, RoundEnds, StepEnds, Error
    <3>2. stage' = stage => stage \in {"A", "seeds", "steps", "clearance"}
      <4>1. CASE ContinuationEnds(o)
        BY <1>1, <4>1 DEF ContinuationEnds, Control, Routes
      <4>2. CASE RoundEnds(o) \/ StepEnds(o)
        BY <1>1, <4>2 DEF RoundEnds, StepEnds, Control, Routes
      <4>3. CASE Error(o)
        <5>1. stage # "failed"
          BY <1>1, <1>8 DEF EndAlone, Control, Routes
        <5>2. QED
          BY <4>3, <5>1 DEF Error
      <4>4. QED
        BY <2>1, <2>5, <4>1, <4>2, <4>3 DEF EndsAlone
    <3>3. \A m \in Modes : ran'[m] = NotRun
      BY <1>3, <3>2
    <3>4. ~InWaves'
      BY <3>1 DEF InWaves, NoAttempt
    <3>5. QED
      BY <3>1, <3>3, <3>4, RanStays
  <2>6. QED
    BY <2>4, <2>5
<1>9. QED
  BY <1>4, <1>5, <1>6, <1>7, <1>8 DEF Alone

LEMMA InitAsGiven == ASSUME WavesInit PROVE AsGiven
<1>1. attempt.kind = "none" /\ \A m \in Modes : ~HasRun(m)
  BY DEF WavesInit, Init, NoAttempt, HasRun
<1>2. QED
  BY <1>1 DEF AsGiven, Given, RanAsGiven

LEMMA StepAsGiven == ASSUME Inv, Inv', AsGiven, [WavesNext]_allVars PROVE AsGiven'
<1>1. CASE (Late /\ UNCHANGED waveVars) \/ WavesDone \/ UNCHANGED allVars
  <2>1. /\ run' = run /\ best' = best /\ keep' = keep /\ plan' = plan /\ stage' = stage
        /\ attempt' = attempt /\ ran' = ran /\ wave' = wave
    BY <1>1 DEF Late, WavesDone, Done, allVars, vars, waveVars, judgedVars, learned, flow
  <2>2. QED
    BY <2>1, StillAsGiven
<1>2. QED
  BY <1>1, StartWaveAsGiven, RouteEndsAsGiven, JudgeProbeAsGiven, JudgeRungAsGiven,
     AloneAsGiven DEF WavesNext

---------------------------------------------------------------------------
(* One attempt after another *)

\* An attempt may do any work up to its limit; one with no more than another's
\* limit does nothing that the other could not.
LEMMA AnyWork ==
    ASSUME NEW limit \in Nat, NEW most \in Nat, limit <= most
    PROVE  Works(limit) \subseteq InOrder!Works(most)
<1>1. SUFFICES ASSUME NEW w \in Works(limit) PROVE w \in InOrder!Works(most)
  OBVIOUS
<1>2. limit + Over \in Nat /\ most + Over \in Nat
  BY Numbers
<1>3. w \in 1..(limit + Over)
  BY DEF Works
<1>4. w \in 1..(most + Over)
  BY <1>2, <1>3, Numbers
<1>5. w % 1 = 0
  BY <1>3, <1>2
<1>6. QED
  BY <1>4, <1>5 DEF InOrder!Works

LEMMA ProbesInOrder ==
    ASSUME NEW limit \in Nat
    PROVE  ProbeOutcomes(limit) \subseteq InOrder!ProbeOutcomes(limit)
  BY AnyWork DEF ProbeOutcomes, InOrder!ProbeOutcomes

LEMMA AttemptsInOrder ==
    ASSUME NEW limit \in Nat, NEW most \in Nat, limit <= most, NEW o \in Outcomes(limit)
    PROVE  \/ o \in InOrder!Outcomes(most)
           \/ /\ o.fate \in run.fates /\ [fate |-> o.fate, work |-> most] \in InOrder!Outcomes(most)
<1>1. CASE o \in Routed(limit)
  BY <1>1, AnyWork DEF Routed, InOrder!Outcomes, InOrder!Routed
<1>2. CASE o \in {[fate |-> f, work |-> limit] : f \in run.fates}
  BY <1>2 DEF InOrder!Outcomes
<1>3. QED
  BY <1>1, <1>2 DEF Outcomes

\* A probe judged is a probe that ends now.
LEMMA ProbeInTurn == ASSUME Inv, AsGiven, JudgeProbe PROVE InOrder!EndProbe
<1> DEFINE o == ran[attempt.mode].end
<1>1. /\ attempt.kind = "probe" /\ ProbeEnds(o) /\ stage = "probing"
      /\ attempt.mode \in Modes /\ HasRun(attempt.mode)
  BY DEF JudgeProbe, Joined, HasRun, Inv, LadderInv, Control, Typed, Routes, NoAttempt
<1>2. attempt.limit = ProbeLimit /\ o \in ProbeOutcomes(ProbeLimit) /\ attempt.limit \in Nat
  BY <1>1 DEF AsGiven, Given, RanAsGiven, RunAsGiven, Inv, LadderInv, Control, Typed,
     Attempts, NoAttempt
<1>3. o \in InOrder!ProbeOutcomes(attempt.limit) /\ InOrder!ProbeEnds(o)
  BY <1>1, <1>2, ProbesInOrder, SameSteps
<1>4. QED
  BY <1>1, <1>3 DEF InOrder!EndProbe

\* A rung judged is one that ends now, with the work that its limit would have
\* let it do: the wave's share is no more.
LEMMA RungInTurn == ASSUME Inv, AsGiven, JudgeRung PROVE InOrder!EndRung
<1> DEFINE o     == ran[attempt.mode].end
           limit == ran[attempt.mode].limit
<1>1. /\ attempt.kind = "rung" /\ stage = "rung"
      /\ RungEnds(o) \/ Error(o)
      /\ attempt.mode \in Modes /\ HasRun(attempt.mode) /\ attempt # NoAttempt
  BY DEF JudgeRung, Joined, HasRun, Inv, LadderInv, Control, Typed, Routes, NoAttempt
<1>2. /\ run \in Runs /\ limit \in Nat /\ attempt.limit \in Nat
      /\ Given /\ o \in Outcomes(limit) /\ Alike(attempt.mode)
  BY <1>1 DEF AsGiven, RanAsGiven, RunAsGiven, Inv, LadderInv, Control, Typed, Data,
     Attempts, WavesInOrder, WavesEnded
<1>3. limit <= attempt.limit
  BY <1>1, <1>2 DEF Given, Alike
<1> HIDE DEF o, limit
<1>4. CASE o \in InOrder!Outcomes(attempt.limit)
  BY <1>1, <1>4, SameSteps DEF InOrder!EndRung
<1>5. CASE o.fate \in run.fates
           /\ [fate |-> o.fate, work |-> attempt.limit] \in InOrder!Outcomes(attempt.limit)
  <2> DEFINE p == [fate |-> o.fate, work |-> attempt.limit]
  <2>1. p.fate = o.fate /\ o.fate # "routed"
    BY <1>2, <1>5, LadderConstants
  <2> HIDE DEF p
  <2>2. RungEnds(o) => RungEnds(p)
    BY <2>1 DEF RungEnds
  <2>3. Error(o) => Error(p)
    BY <2>1 DEF Error
  <2>4. p \in InOrder!Outcomes(attempt.limit)
    BY <1>5 DEF p
  <2>5. QED
    BY <1>1, <2>2, <2>3, <2>4, SameSteps DEF InOrder!EndRung
<1>6. QED
  BY <1>2, <1>3, <1>4, <1>5, AttemptsInOrder

LEMMA AloneInTurn == ASSUME Inv, EndAlone PROVE InOrder!EndAlone
<1>1. PICK o \in Outcomes(attempt.limit) : EndsAlone(o) \/ Error(o)
  BY DEF EndAlone, EndsAlone
<1>2. /\ attempt.kind \in {"continuation", "retry", "round", "narrow", "clearance"}
      /\ attempt # NoAttempt
  BY DEF EndAlone, NoAttempt
<1>3. attempt.limit \in Nat /\ run \in Runs
  BY <1>2 DEF Inv, LadderInv, Control, Typed, Data, Attempts
<1>4. o \in InOrder!Outcomes(attempt.limit)
  <2>1. attempt.limit <= attempt.limit
    BY <1>3
  <2>2. CASE o \in Routed(attempt.limit)
    BY <1>3, <2>1, <2>2, AnyWork DEF Routed, InOrder!Outcomes, InOrder!Routed
  <2>3. CASE o \in {[fate |-> f, work |-> attempt.limit] : f \in run.fates}
    BY <2>3 DEF InOrder!Outcomes
  <2>4. QED
    BY <2>2, <2>3 DEF Outcomes
<1>5. \/ InOrder!ContinuationEnds(o) \/ InOrder!RetryEnds(o) \/ InOrder!RoundEnds(o)
      \/ InOrder!StepEnds(o) \/ InOrder!Error(o)
  BY <1>1, SameSteps DEF EndsAlone
<1>6. QED
  BY <1>2, <1>4, <1>5 DEF InOrder!EndAlone

\* Starting and ending a thread leaves the ladder where it is; every other step is
\* one of the ladder with its attempts one after another.
LEMMA StepInTurn ==
    ASSUME Inv, AsGiven, [WavesNext]_allVars
    PROVE  [InOrder!Next]_InOrder!vars
<1>1. UNCHANGED vars => UNCHANGED InOrder!vars
  BY DEF vars, judgedVars, learned, flow, InOrder!vars, InOrder!judgedVars,
     InOrder!learned, InOrder!flow
<1>2. CASE StartWave \/ (\E m \in Modes : RouteEnds(m)) \/ WavesDone \/ UNCHANGED allVars
  <2>1. UNCHANGED vars
    BY <1>2 DEF StartWave, RouteEnds, WavesDone, Done, allVars
  <2>2. QED
    BY <1>1, <2>1
<1>3. CASE JudgeProbe
  BY <1>3, ProbeInTurn DEF InOrder!Next
<1>4. CASE JudgeRung
  BY <1>4, RungInTurn DEF InOrder!Next
<1>5. CASE Late
  BY <1>5, SameSteps DEF InOrder!Next
<1>6. CASE Alone
  <2>1. Decide \/ BeginProbe \/ BeginRung \/ BeginAlone \/ EndAlone
    BY <1>6 DEF Alone
  <2>2. QED
    BY <2>1, AloneInTurn, SameSteps DEF InOrder!Next
<1>7. QED
  BY <1>2, <1>3, <1>4, <1>5, <1>6 DEF WavesNext

---------------------------------------------------------------------------
(* The theorems *)

\* What has run and waits to be judged had the limit that the plan gave it, and no
\* more than it would have had alone (ladder.rs, rung_wave and pitch).
THEOREM GivenHolds == WavesSpec => [](Inv /\ AsGiven)
<1>1. WavesInit => Inv /\ AsGiven
  BY InitHolds, InitAsGiven
<1>2. Inv /\ [WavesNext]_allVars => Inv'
  BY StepHolds
<1>3. Inv /\ Inv' /\ AsGiven /\ [WavesNext]_allVars => AsGiven'
  BY StepAsGiven
<1>4. QED
  BY <1>1, <1>2, <1>3, PTL DEF WavesSpec

\* The ladder as it runs implements the ladder with its attempts one after another:
\* "they are judged in rung order as one after another, a rung the order would not
\* have reached counting for nothing" (ladder.rs, pitch).
THEOREM OneAfterAnother == WavesSpec => AsOneAfterAnother
<1>1. WavesInit => InOrder!Init
  BY SameSteps DEF WavesInit
<1>2. (Inv /\ AsGiven) /\ [WavesNext]_allVars => [InOrder!Next]_InOrder!vars
  BY StepInTurn
<1>3. QED
  BY <1>1, <1>2, GivenHolds, PTL DEF WavesSpec, AsOneAfterAnother, InOrder!Spec
=============================================================================
