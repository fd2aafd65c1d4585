---------------------------- MODULE LadderProofs ----------------------------
(***************************************************************************)
(* Theorems of the ladder as it runs, for any rungs, lattices, boards and  *)
(* budgets, and any number of rungs side by side: its types, what the      *)
(* output directory holds, that no board it could have kept ranks before   *)
(* the one it kept, that a complete board ends it, and that its work stays *)
(* within its bound and leaves the steps what was kept for them.           *)
(***************************************************************************)
EXTENDS LadderWaves, FiniteSetTheorems, WellFoundedInduction, TLAPS

---------------------------------------------------------------------------
(* Shares, and the first of the rungs *)

\* Shares are no more than what is shared.
LEMMA Shares ==
    ASSUME NEW a \in Nat, NEW b \in Nat, b > 0
    PROVE  a \div b \in Nat /\ b * (a \div b) <= a /\ a \div b <= a
  BY SMT

LEMMA RungShares ==
    ASSUME NEW most \in Int, NEW rungs \in Int
    PROVE  /\ RungShare(most, rungs) \in Nat
           /\ rungs > 0 => rungs * RungShare(most, rungs) <= Positive(most)
           /\ RungShare(most, rungs) <= Positive(most)
<1>1. Positive(most) \in Nat /\ Larger(rungs, 1) \in Nat /\ Larger(rungs, 1) > 0
  BY DEF Positive, Larger
<1>2. rungs > 0 => Larger(rungs, 1) = rungs
  BY DEF Larger
<1> HIDE DEF Positive, Larger
<1>3. QED
  BY <1>1, <1>2, Shares DEF RungShare

\* The routers' work past their limits is all that goes beyond their limits.
LEMMA PastTheLimit ==
    ASSUME NEW t \in Nat, NEW w \in Nat, NEW l \in Nat
    PROVE  /\ t * w - t * Positive(w - l) <= t * l
           /\ t * w \in Nat /\ t * l \in Nat /\ t * Positive(w - l) \in Nat
<1>1. CASE w <= l
  <2>1. t * w <= t * l
    BY <1>1
  <2>2. QED
    BY <1>1, <2>1 DEF Positive, Larger
<1>2. CASE w > l
  BY <1>2 DEF Positive, Larger
<1>3. QED
  BY <1>1, <1>2

LEMMA FirstIs ==
    ASSUME NEW S, S \subseteq Nat, S # {}
    PROVE  First(S) \in S /\ \A n \in S : First(S) <= n
<1>1. PICK x \in S : \A y \in S : ~(<<y, x>> \in OpToRel(<, Nat))
  BY NatLessThanWellFounded, WFMin
<1>2. ASSUME NEW y \in S PROVE x <= y
  <2>1. SUFFICES ASSUME y < x PROVE FALSE
    OBVIOUS
  <2>2. <<y, x>> \in Nat \X Nat /\ <<y, x>>[1] < <<y, x>>[2]
    BY <2>1
  <2>3. <<y, x>> \in OpToRel(<, Nat)
    BY <2>2 DEF OpToRel
  <2>4. QED
    BY <1>1, <2>3
<1>3. QED
  BY <1>2 DEF First

---------------------------------------------------------------------------
(* The types, and where an attempt routes *)

Kinds == {"probe", "continuation", "rung", "retry", "round", "narrow", "clearance"}
Bests ==
    [mode : Nat, board : Boards, opens : Nat \X Nat, own : Nat, size : Nat, seeded : BOOLEAN,
     limit : Nat]
Results ==
    [board : Boards, checked : BOOLEAN, own : Nat, work : Nat, limit : Nat, seeded : BOOLEAN]
Attempts == [kind : Kinds, mode : Nat, limit : Nat, times : Nat, result : {<<>>} \cup Results]
Kept == [reserve : Nat, set : BOOLEAN, first : Nat, over : Nat, steps : Nat]
Costs == [work : Nat, size : Nat]
Probed == [counts : [Modes -> Int], mode : Nat, work : Nat, continued : BOOLEAN]
Plans ==
    [pitch : Nat, cands : SUBSET Nat, after : Nat, share : Nat \cup {None}, left : Nat,
     retry : BOOLEAN, back : Stages]
Leads == [mode : Nat, admitted : SUBSET Nat, slots : Int, finer : Nat]

Data ==
    /\ run \in Runs /\ late \in BOOLEAN /\ extra \in BOOLEAN /\ failed \in BOOLEAN
    /\ work \in Nat /\ overrun \in Nat /\ rounds \in Nat /\ beyond \in Nat
    /\ best \in Bests \cup {NoBest}
    /\ best # NoBest => best.mode \in Modes
    /\ output = <<>> \/ \E b \in Boards : output = <<b>>
    /\ keep \in Kept /\ last \in Costs /\ slowest \in Costs
    /\ probes \in Probed /\ probes.mode \in Modes \cup {0}

Place ==
    /\ plan \in Plans /\ plan.cands \subseteq Modes
    /\ lead \in Leads /\ lead.admitted \subseteq Modes
    /\ stage \in Stages

Typed ==
    /\ Data /\ Place
    /\ attempt \in Attempts \cup {NoAttempt}
    /\ attempt # NoAttempt => attempt.mode \in Modes

\* The stages in which each kind of attempt routes, and what holds in each.
Routes ==
    /\ attempt.kind = "probe" => stage = "probing"
    /\ attempt.kind = "continuation" => stage = "continue"
    /\ attempt.kind \in {"rung", "retry"} => stage = "rung"
    /\ attempt.kind = "round" => stage \in {"A", "seeds"}
    /\ attempt.kind = "narrow" => stage = "steps"
    /\ attempt.kind = "clearance" => stage = "clearance"
    /\ attempt.kind \in {"probe", "rung", "retry"}
       => plan.cands # {} /\ attempt.mode = First(plan.cands)
    /\ attempt.kind = "retry" => attempt.result \in Results
    /\ attempt.kind \in {"round", "narrow", "clearance"} => best # NoBest

Placed ==
    /\ stage \in {"probes", "probing", "continue"} => best = NoBest
    /\ stage = "continue" => probes.mode # 0
    /\ probes.continued => probes.mode # 0
    /\ stage \in {"A", "B", "C", "D"} => best # NoBest
    /\ stage \in {"A", "B"} => lead.mode \in Modes

\* The lattices the rungs run on are among the sizes.
OnALattice ==
    /\ plan.pitch > 0 /\ 1 + lead.finer <= Len(Sizes)
    /\ stage = "A" => lead.finer = 0
    /\ stage = "B" => plan.pitch = lead.finer + 2
    /\ stage = "rung" => /\ plan.pitch <= Len(Sizes)
                         /\ plan.back \in {"pitches", "leader", "B", "D"}
                         /\ plan.back = "B" => lead.mode \in Modes /\ plan.pitch = lead.finer + 1
                         /\ plan.back \in {"B", "D"} => best # NoBest

\* The output directory holds the best board, and of the ranks noted none is
\* before that of the best board, or of the rung's whose seeds route.
Ranks == Nat \X Nat \X Nat \X Nat
BestRank == RankOf(best.opens, best.board)
ResultRank == RankOf(Checked(attempt.result.board), attempt.result.board)
BestKept ==
    /\ best # NoBest => output = <<best.board>>
    /\ least = <<>> \/ least \in Ranks
    /\ (least # <<>> /\ stage # "failed") =>
          \/ best # NoBest /\ ~Before(least, BestRank)
          \/ attempt.kind = "retry" /\ attempt.result.checked /\ ~Before(least, ResultRank)

\* On a complete board only the rung after a clean skeleton begins, and its
\* seeds.
After == {"seeds", "steps", "clearance", "done", "failed"}
CompleteIsLast ==
    ~failed =>
        /\ ~extra => beyond = 0
        /\ (Complete /\ stage \in {"rung", "pitches"}) => extra
        /\ beyond <= 2
        /\ stage \notin After => beyond <= (IF attempt.kind = "rung" THEN 1
                                           ELSE IF attempt.kind = "retry" THEN 2 ELSE 0)

\* Route mode: what is spent within the limits, `spent`, the attempt's limits
\* and the shares promised fit the bound; and beside what is kept, if anything is,
\* what was spent since.
Spent == work - overrun
Promised ==
    IF stage = "probing" THEN Cardinality(plan.cands) * ProbeLimit
    ELSE IF stage = "rung" /\ attempt.kind # "retry" /\ plan.share # None
    THEN Cardinality(plan.cands) * plan.share
    ELSE IF attempt # NoAttempt THEN attempt.times * attempt.limit
    ELSE 0

\* The work the attempts were promised fits, beside what is kept for the steps.
Fits ==
    ~run.layout =>
        /\ Spent + Promised <= Bound
        /\ keep.reserve > 0 => /\ keep.over <= overrun
                               /\ Spent + Promised + keep.reserve + keep.over <= Bound

\* What the limits and shares of the attempts are.
Limited ==
    ~run.layout =>
        /\ stage = "probes" => Spent = 0
        /\ stage = "probing" => Len(run.rungs) >= 3
        /\ attempt.kind = "probe" => attempt.limit = ProbeLimit /\ attempt.times = 1
        /\ attempt.kind = "rung"
           => attempt.times = 1 /\ (plan.share # None => attempt.limit = plan.share)
        /\ (stage = "rung" /\ plan.share # None) => best # NoBest

\* What is kept is set by the first board that is open, and not again.
ReserveSetOnce ==
    /\ best = NoBest => ~keep.set
    /\ ~keep.set => keep.reserve = 0
    /\ best = NoBest \/ Complete \/ keep.set \/ run.steps = {}

\* The waves: the rungs of a wave are the first of those to come; they and those
\* that have run are told apart, and none runs between two stages.
ProbeOutcome(o) ==
    /\ o.fate \in {"routed", "panic"} /\ o.work \in Nat
    /\ o.fate = "routed" => o.unfinished \in Nat
Outcome(o) ==
    /\ o.fate \in {"routed", "panic", "checkPanic", "error"} /\ o.work \in Nat
    /\ o.fate = "routed" => o.board \in Boards

EndsAlone(o) == ContinuationEnds(o) \/ RetryEnds(o) \/ RoundEnds(o) \/ StepEnds(o)

\* A step of the ladder, whatever works its grain lets an attempt have.
LadderStep ==
    \/ Late \/ Decide \/ BeginProbe \/ BeginRung \/ BeginAlone
    \/ \E o : ProbeOutcome(o) /\ ProbeEnds(o)
    \/ \E o : Outcome(o) /\ (EndsAlone(o) \/ RungEnds(o) \/ Error(o))

HasRun(m) == ran[m] # NotRun
WavesRun ==
    /\ wave \subseteq Modes /\ left \subseteq Modes /\ DOMAIN ran = Modes
    /\ wave # {} => InWaves /\ wave \subseteq plan.cands
    /\ \A m \in wave : ran[m] = NotRun
WavesEnded ==
    \A m \in Modes : HasRun(m) =>
        /\ ran[m].limit \in Nat
        /\ stage = "probing" => ProbeOutcome(ran[m].end)
        /\ stage # "probing" => stage = "rung" /\ Outcome(ran[m].end)
FirstsRun ==
    \A m, n \in plan.cands :
        n < m /\ (m \in wave \/ HasRun(m)) => n \in wave \/ HasRun(n)
NoneLeft == stage \in {"seeds", "steps", "clearance", "done"} => left = {}
WavesInOrder == WavesRun /\ WavesEnded /\ FirstsRun /\ NoneLeft

\* The seeds of a rung are tried after the last rung only.
RetryIsLast ==
    attempt.kind = "retry" => plan.cands = {attempt.mode}

Control == Typed /\ Routes /\ Placed /\ OnALattice

---------------------------------------------------------------------------
(* Control: what is decided between attempts *)

LEMMA Numbers ==
    /\ Budget \in Nat /\ Bound \in Nat /\ RefineBudget \in Nat /\ DeadlineWork \in Nat
    /\ CheckWork \in Nat /\ Over \in Nat /\ FirstIteration \in Nat
    /\ RetrySeeds \in Nat /\ RetrySeeds > 0 /\ ProbeWork \in Nat /\ SeedRounds \in Nat
    /\ Budget <= Bound
    /\ Len(Sizes) \in Nat /\ Len(Sizes) > 0 /\ \A i \in 1..Len(Sizes) : Sizes[i] \in Nat
  BY LadderConstants

LEMMA TheRun ==
    ASSUME run \in Runs
    PROVE  /\ run.layout \in BOOLEAN /\ Len(run.rungs) \in Nat /\ Modes = 1..Len(run.rungs)
           /\ 0 \notin Modes /\ Modes \subseteq Nat /\ IsFiniteSet(Modes)
           /\ Modes = DOMAIN run.rungs
<1>1. run.layout \in BOOLEAN /\ run.rungs \in Seq(STRING)
  BY LadderConstants
<1>2. Len(run.rungs) \in Nat /\ Modes = 1..Len(run.rungs)
  BY <1>1 DEF Modes
<1>3. QED
  BY <1>1, <1>2, FS_Interval DEF Modes

\* When no attempt routes, the control is where the ladder is.
LEMMA Rests == ASSUME attempt' = NoAttempt, Data', Place', Placed', OnALattice' PROVE Control'
<1>1. Routes'
  BY DEF Routes, NoAttempt
<1>2. Typed'
  BY DEF Typed
<1>3. QED
  BY <1>1, <1>2 DEF Control

\* A decision changes nothing but the place, the plan and the leader.
Undecided ==
    /\ attempt = NoAttempt
    /\ UNCHANGED <<run, late, work, overrun, judgedVars, learned, probes, rounds, beyond,
                   failed, attempt>>

LEMMA DecidingKeeps ==
    ASSUME Control, Undecided, Place', Placed', OnALattice'
    PROVE  Control'
<1>1. Data
  BY DEF Control, Typed
<1>2. /\ run' = run /\ late' = late /\ work' = work /\ overrun' = overrun /\ best' = best
      /\ output' = output /\ keep' = keep /\ last' = last /\ slowest' = slowest /\ extra' = extra
      /\ probes' = probes /\ rounds' = rounds /\ beyond' = beyond /\ failed' = failed
      /\ Modes' = Modes /\ attempt' = NoAttempt
  BY DEF Undecided, judgedVars, learned, Modes
<1>3. Data'
  BY <1>1, <1>2 DEF Data, Probed
<1>4. QED
  BY <1>2, <1>3, Rests

LEMMA NoPlanIs ==
    /\ NoPlan \in Plans /\ NoPlan.cands = {} /\ NoPlan.pitch = 1 /\ NoPlan.share = None
    /\ NoLead \in Leads /\ NoLead.admitted = {} /\ NoLead.finer = 0
    /\ NoPlan.back = "rungs" /\ NoPlan.retry = FALSE
    /\ None = -1
  BY DEF NoPlan, NoLead, Plans, Leads, None, Stages

LEMMA ControlTypes ==
    ASSUME Control
    PROVE  /\ run.layout \in BOOLEAN /\ Modes \subseteq Nat /\ IsFiniteSet(Modes) /\ 0 \notin Modes
           /\ Len(run.rungs) \in Nat /\ Modes = 1..Len(run.rungs)
           /\ work \in Nat /\ overrun \in Nat /\ WorkLeft(work) \in Int
           /\ plan \in Plans /\ plan.cands \subseteq Modes /\ plan.pitch \in Nat /\ plan.pitch > 0
           /\ lead \in Leads /\ lead.admitted \subseteq Modes /\ lead.finer \in Nat
           /\ 1 + lead.finer <= Len(Sizes) /\ stage \in Stages
<1>1. run \in Runs /\ work \in Nat /\ overrun \in Nat
  BY DEF Control, Typed, Data
<1>2. /\ plan \in Plans /\ plan.cands \subseteq Modes
      /\ lead \in Leads /\ lead.admitted \subseteq Modes
      /\ stage \in Stages
  BY DEF Control, Typed, Place
<1>3. plan.pitch > 0 /\ 1 + lead.finer <= Len(Sizes)
  BY DEF Control, OnALattice
<1>4. plan.pitch \in Nat /\ lead.finer \in Nat
  BY <1>2 DEF Plans, Leads
<1>5. WorkLeft(work) \in Int
  BY <1>1, Numbers DEF WorkLeft
<1>6. QED
  BY <1>1, <1>2, <1>3, <1>4, <1>5, TheRun

\* What the decisions leave alone.
LEMMA NothingElse ==
    ASSUME Undecided
    PROVE  /\ run' = run /\ Modes' = Modes /\ attempt' = NoAttempt /\ best' = best
           /\ probes' = probes
  BY DEF Undecided, judgedVars, Modes

\* A pitch that starts.
LEMMA PitchStarts ==
    ASSUME Control, attempt = NoAttempt, NEW pitch \in 1..Len(Sizes),
           NEW cands, cands \subseteq Modes, NEW after \in Nat, NEW retry \in BOOLEAN,
           NEW back \in {"pitches", "leader", "B", "D"},
           StartPitch(pitch, cands, after, retry, back)
    PROVE  /\ plan' \in Plans /\ plan'.cands = cands /\ plan'.pitch = pitch /\ plan'.back = back
           /\ plan'.share = None /\ plan'.retry = retry
           /\ stage' = "rung" /\ Undecided
<1>1. Positive(WorkLeft(work)) \in Nat
  BY ControlTypes DEF Positive, Larger
<1>2. cands \in SUBSET Nat
  BY ControlTypes
<1>3. plan' = [pitch |-> pitch, cands |-> cands, after |-> after, share |-> None,
               left |-> Positive(WorkLeft(work)), retry |-> retry, back |-> back]
  BY DEF StartPitch
<1>4. plan' \in Plans
  BY <1>1, <1>2, <1>3 DEF Plans, None, Stages
<1>5. QED
  BY <1>3, <1>4 DEF StartPitch, GoTo, Undecided

\* It keeps the control, where the leader is on it.
LEMMA PitchKeeps ==
    ASSUME Control, attempt = NoAttempt, NEW pitch \in 1..Len(Sizes),
           NEW cands, cands \subseteq Modes, NEW after \in Nat, NEW retry \in BOOLEAN,
           NEW back \in {"pitches", "leader", "B", "D"},
           StartPitch(pitch, cands, after, retry, back),
           lead' \in Leads, lead'.admitted \subseteq Modes, 1 + lead'.finer <= Len(Sizes),
           back = "B" => lead'.mode \in Modes /\ pitch = lead'.finer + 1,
           back \in {"B", "D"} => best # NoBest
    PROVE  Control'
<1>1. /\ plan' \in Plans /\ plan'.cands = cands /\ plan'.pitch = pitch /\ plan'.back = back
      /\ stage' = "rung" /\ Undecided
  BY PitchStarts
<1>2. Place'
  BY <1>1, NothingElse DEF Place, Stages
<1>3. OnALattice'
  BY <1>1, NothingElse DEF OnALattice
<1>4. Placed'
  BY <1>1, NothingElse DEF Placed, Control
<1>5. QED
  BY <1>1, <1>2, <1>3, <1>4, DecidingKeeps

\* What is left out: the stage is left with neither plan nor leader.
LEMMA SkipKeeps ==
    ASSUME Control, Skip("seeds") \/ Skip("pitches") \/ Skip("leader"), attempt = NoAttempt
    PROVE  Control'
<1>1. Undecided
  BY DEF Skip, GoTo, Undecided
<1>2. plan' = NoPlan /\ lead' = NoLead /\ stage' \in {"seeds", "pitches", "leader"}
  BY DEF Skip, GoTo
<1>3. Place' /\ OnALattice'
  BY <1>2, NoPlanIs, Numbers DEF Place, OnALattice, Stages
<1>4. Placed'
  BY <1>1, <1>2, NothingElse DEF Placed, Control
<1>5. QED
  BY <1>1, <1>3, <1>4, DecidingKeeps

LEMMA ProbesKeep == ASSUME Control, StartProbes \/ EndProbes PROVE Control'
<1>1. Undecided /\ lead' = lead
  BY DEF StartProbes, EndProbes, GoTo, Undecided, Idle
<1>2. plan' \in Plans /\ plan'.cands \subseteq Modes /\ plan'.pitch > 0
  <2>1. plan' = plan \/ plan' = [plan EXCEPT !.cands = Modes] \/ plan' = NoPlan
    BY DEF StartProbes, EndProbes
  <2>2. ASSUME plan' = [plan EXCEPT !.cands = Modes]
        PROVE  plan' \in Plans /\ plan'.cands = Modes /\ plan'.pitch = plan.pitch
    <3>1. Modes \in SUBSET Nat /\ plan \in Plans
      BY ControlTypes
    <3>2. QED
      BY <2>2, <3>1 DEF Plans
  <2>3. QED
    BY <2>1, <2>2, ControlTypes, NoPlanIs
<1>3. /\ stage' \in {"probing", "rungs", "continue"} /\ best = NoBest
      /\ stage' = "continue" => probes.mode # 0
  BY DEF StartProbes, EndProbes, GoTo, Idle, Control, Placed
<1>4. Place' /\ OnALattice'
  BY <1>1, <1>2, <1>3, ControlTypes, NothingElse DEF Place, OnALattice, Stages
<1>5. Placed'
  BY <1>1, <1>3, NothingElse DEF Placed, Control
<1>6. QED
  BY <1>1, <1>4, <1>5, DecidingKeeps

LEMMA StartRungsKeeps == ASSUME Control, StartRungs PROVE Control'
<1>1. attempt = NoAttempt
  BY DEF StartRungs, Idle
<1>2. CASE Skip("seeds") \/ Skip("pitches") \/ Skip("leader")
  BY <1>1, <1>2, SkipKeeps
<1>3. CASE StartPitch(1, Modes, 0, FALSE, "leader") /\ UNCHANGED lead
  <2>1. 1 \in 1..Len(Sizes) /\ lead' = lead
    BY <1>3, Numbers
  <2>2. QED
    BY <1>1, <1>3, <2>1, ControlTypes, PitchKeeps
<1>4. QED
  BY <1>2, <1>3 DEF StartRungs

LEMMA NextPitchKeeps == ASSUME Control, NextPitch PROVE Control'
<1>1. attempt = NoAttempt
  BY DEF NextPitch, Idle
<1>2. CASE ~(plan.pitch > Len(Sizes) \/ PitchSkipped(plan.pitch))
  <2> DEFINE cands == IF plan.pitch = 1 THEN Others(ProbedMode) ELSE Modes
  <2>1. cands \subseteq Modes
    BY DEF Others
  <2>2. StartPitch(plan.pitch, cands, 0, TRUE, "pitches") /\ lead' = lead
    BY <1>2 DEF NextPitch
  <2> HIDE DEF cands
  <2>3. plan.pitch \in 1..Len(Sizes)
    BY <1>2, ControlTypes, Numbers
  <2>4. QED
    BY <1>1, <2>1, <2>2, <2>3, ControlTypes, PitchKeeps
<1>3. QED
  BY <1>1, <1>2, SkipKeeps DEF NextPitch

LEMMA PickLeaderKeeps == ASSUME Control, PickLeader PROVE Control'
<1>1. attempt = NoAttempt
  BY DEF PickLeader, Idle
<1>2. CASE ~OpenBest
  BY <1>1, <1>2, SkipKeeps DEF PickLeader
<1>3. CASE OpenBest
  <2> DEFINE leader   == IF probes.continued THEN probes.mode ELSE best.mode
             measures == IF probes.continued THEN probes.counts ELSE regular
             admitted == {m \in Others(leader) :
                             LeaderGateAdmits(measures[m], measures[leader])}
             skipped  == {p \in Finer : PitchSkipped(p)}
             planned  == {p \in Finer : \A q \in 2..p : q \notin skipped}
             slots    == 1 + Cardinality(planned)
                           + (IF probes.continued THEN Cardinality(admitted) ELSE 0)
  <2>1. /\ lead' = [mode |-> leader, admitted |-> admitted, finer |-> 0, slots |-> slots]
        /\ plan' = NoPlan /\ stage' = "A" /\ Undecided
    BY <1>1, <1>3 DEF PickLeader, GoTo, Undecided
  <2>2. best # NoBest
    BY <1>3 DEF OpenBest
  <2>3. leader \in Modes
    BY <2>2 DEF Control, Typed, Data, Placed
  <2>4. admitted \subseteq Modes
    BY DEF Others
  <2>5. planned \in SUBSET Finer /\ IsFiniteSet(Finer)
    BY FS_Interval, Numbers DEF Finer
  <2>6. Cardinality(planned) \in Nat /\ Cardinality(admitted) \in Nat
    BY <2>4, <2>5, ControlTypes, FS_Subset, FS_CardinalityType
  <2>7. slots \in Int
    BY <2>6
  <2> HIDE DEF leader, admitted, slots
  <2>8. lead' \in Leads /\ lead'.admitted \subseteq Modes /\ lead'.mode \in Modes /\ lead'.finer = 0
    BY <2>1, <2>3, <2>4, <2>7, ControlTypes DEF Leads
  <2>9. Place' /\ OnALattice'
    BY <2>1, <2>8, NoPlanIs, Numbers, NothingElse DEF Place, OnALattice, Stages
  <2>10. Placed'
    BY <2>1, <2>2, <2>8, NothingElse DEF Placed, Control
  <2>11. QED
    BY <2>1, <2>9, <2>10, DecidingKeeps
<1>4. QED
  BY <1>2, <1>3

LEMMA LeaderOnFinerKeeps == ASSUME Control, LeaderOnFiner PROVE Control'
<1>1. attempt = NoAttempt /\ best # NoBest /\ lead.mode \in Modes /\ plan.pitch = lead.finer + 2
  BY DEF LeaderOnFiner, Idle, Control, Placed, OnALattice
<1>2. CASE plan' = NoPlan /\ UNCHANGED lead /\ GoTo("C")
  <2>1. Undecided /\ stage' = "C" /\ lead' = lead /\ plan' = NoPlan
    BY <1>1, <1>2 DEF GoTo, Undecided
  <2>2. Place' /\ OnALattice'
    BY <2>1, NoPlanIs, ControlTypes, NothingElse DEF Place, OnALattice, Stages
  <2>3. Placed'
    BY <1>1, <2>1, NothingElse DEF Placed, Control
  <2>4. QED
    BY <2>1, <2>2, <2>3, DecidingKeeps
<1>3. CASE /\ plan.pitch <= Len(Sizes)
           /\ lead' = [lead EXCEPT !.slots = Positive(@ - 1), !.finer = @ + 1]
           /\ StartPitch(plan.pitch, {lead.mode}, lead'.slots, FALSE, "B")
  <2>1. lead.slots \in Int /\ Positive(lead.slots - 1) \in Nat
    BY ControlTypes DEF Leads, Positive, Larger
  <2>2. lead' = [mode |-> lead.mode, admitted |-> lead.admitted,
                 slots |-> Positive(lead.slots - 1), finer |-> lead.finer + 1]
    BY <1>3, ControlTypes DEF Leads
  <2>3. /\ lead' \in Leads /\ lead'.mode = lead.mode /\ lead'.finer = lead.finer + 1
        /\ lead'.admitted \subseteq Modes /\ lead'.slots \in Nat
    BY <2>1, <2>2, ControlTypes DEF Leads
  <2>4. plan.pitch \in 1..Len(Sizes) /\ {lead.mode} \subseteq Modes
    BY <1>1, <1>3, ControlTypes, Numbers
  <2>5. 1 + lead'.finer <= Len(Sizes) /\ plan.pitch = lead'.finer + 1
    <3>1. plan.pitch <= Len(Sizes)
      BY <1>3
    <3>2. QED
      BY <1>1, <2>3, <3>1, ControlTypes, Numbers
  <2>6. QED
    BY <1>1, <1>3, <2>3, <2>4, <2>5, PitchKeeps
<1>4. CASE Skip("seeds")
  BY <1>1, <1>4, SkipKeeps
<1>5. plan.pitch > Len(Sizes) \/ plan.pitch <= Len(Sizes)
  BY ControlTypes, Numbers
<1>6. CASE plan.pitch > Len(Sizes) \/ (OpenBest /\ PitchSkipped(plan.pitch))
  BY <1>2, <1>6 DEF LeaderOnFiner
<1>7. CASE ~(plan.pitch > Len(Sizes) \/ (OpenBest /\ PitchSkipped(plan.pitch)))
  BY <1>3, <1>4, <1>5, <1>7, Zenon DEF LeaderOnFiner
<1>8. QED
  BY <1>6, <1>7

LEMMA AdmittedKeep == ASSUME Control, AdmittedOnRegular \/ AdmittedOnFiner PROVE Control'
<1>1. attempt = NoAttempt /\ best # NoBest
  BY DEF AdmittedOnRegular, AdmittedOnFiner, Idle, Control, Placed
<1>2. CASE Skip("seeds")
  BY <1>1, <1>2, SkipKeeps
<1>3. ASSUME NEW pitch \in 1..Len(Sizes), StartPitch(pitch, lead.admitted, 0, FALSE, "D"),
             UNCHANGED lead
      PROVE  Control'
  BY <1>1, <1>3, ControlTypes, PitchKeeps
<1>4. CASE UNCHANGED lead /\ plan' = [NoPlan EXCEPT !.pitch = 2] /\ GoTo("D")
  <2>1. Undecided /\ stage' = "D" /\ lead' = lead
    BY <1>1, <1>4 DEF GoTo, Undecided
  <2>2. plan' \in Plans /\ plan'.cands = {} /\ plan'.pitch = 2
    BY <1>4, NoPlanIs DEF Plans
  <2>3. Place' /\ OnALattice'
    BY <2>1, <2>2, ControlTypes, NothingElse DEF Place, OnALattice, Stages
  <2>4. Placed'
    BY <1>1, <2>1, NothingElse DEF Placed, Control
  <2>5. QED
    BY <2>1, <2>3, <2>4, DecidingKeeps
<1>5. CASE AdmittedOnRegular
  <2>1. 1 \in 1..Len(Sizes)
    BY Numbers
  <2>2. QED
    BY <1>2, <1>3, <1>4, <1>5, <2>1 DEF AdmittedOnRegular
<1>6. CASE AdmittedOnFiner
  <2>1. CASE ~(plan.pitch > 1 + lead.finer)
    <3>1. plan.pitch \in 1..Len(Sizes)
      BY <2>1, ControlTypes, Numbers
    <3>2. QED
      BY <1>2, <1>3, <1>6, <3>1 DEF AdmittedOnFiner
  <2>2. QED
    BY <1>2, <1>6, <2>1 DEF AdmittedOnFiner
<1>7. QED
  BY <1>5, <1>6

\* A pitch that is over.
LEMMA FlowsPlace ==
    ASSUME Control, stage = "rung", run' = run, NEW stop \in BOOLEAN, Flows(stop)
    PROVE  /\ Place' /\ OnALattice' /\ plan'.cands = {} /\ plan'.share = None
           /\ stop => stage' = "seeds"
           /\ ~stop => stage' = plan.back /\ lead' = lead
           /\ stage' \in {"seeds", "pitches", "leader", "B", "D"}
<1>1. Modes' = Modes
  BY DEF Modes
<1>2. CASE stop
  <2>1. stage' = "seeds" /\ plan' = NoPlan /\ lead' = NoLead
    BY <1>2 DEF Flows
  <2>2. QED
    BY <1>1, <1>2, <2>1, NoPlanIs, Numbers DEF Place, OnALattice, Stages
<1>3. CASE ~stop
  <2>1. stage' = plan.back /\ plan' = [NoPlan EXCEPT !.pitch = plan.pitch + 1] /\ lead' = lead
    BY <1>3 DEF Flows
  <2>2. plan.pitch + 1 \in Nat /\ plan.pitch + 1 > 0
    BY ControlTypes
  <2>3. plan' \in Plans /\ plan'.cands = {} /\ plan'.share = None /\ plan'.pitch = plan.pitch + 1
    BY <2>1, <2>2, NoPlanIs DEF Plans
  <2>4. /\ plan.back \in {"pitches", "leader", "B", "D"}
        /\ plan.back = "B" => plan.pitch = lead.finer + 1
    BY DEF Control, OnALattice
  <2>5. plan'.pitch > 0 /\ (plan.back = "B" => plan'.pitch = lead.finer + 2)
    BY <2>2, <2>3, <2>4, ControlTypes
  <2>6. Place'
    BY <1>1, <2>1, <2>3, <2>4, ControlTypes DEF Place, Stages
  <2>7. OnALattice'
    BY <2>1, <2>4, <2>5, ControlTypes DEF OnALattice
  <2>8. QED
    BY <1>3, <2>1, <2>3, <2>4, <2>6, <2>7
<1>4. QED
  BY <1>2, <1>3

\* A rung or a probe that is over, or passed over.
LEMMA NextOfThePlan ==
    ASSUME Control, run' = run, stage' = stage, lead' = lead, best # NoBest => best' # NoBest,
           plan' = [plan EXCEPT !.cands = WithoutFirst(@)]
    PROVE  /\ Place' /\ OnALattice'
           /\ plan'.cands = WithoutFirst(plan.cands) /\ plan'.share = plan.share
           /\ plan'.back = plan.back /\ plan'.pitch = plan.pitch
<1>1. Modes' = Modes
  BY DEF Modes
<1>2. WithoutFirst(plan.cands) \in SUBSET Nat /\ WithoutFirst(plan.cands) \subseteq Modes
  BY ControlTypes DEF WithoutFirst
<1>3. /\ plan' \in Plans /\ plan'.cands = WithoutFirst(plan.cands) /\ plan'.share = plan.share
      /\ plan'.back = plan.back /\ plan'.pitch = plan.pitch
  BY <1>2, ControlTypes DEF Plans
<1>4. Place'
  BY <1>1, <1>2, <1>3, ControlTypes DEF Place
<1>5. OnALattice'
  BY <1>1, <1>3 DEF OnALattice, Control
<1>6. QED
  BY <1>3, <1>4, <1>5

LEMMA EndPitchKeeps == ASSUME Control, EndPitch PROVE Control'
<1>1. Undecided /\ stage = "rung"
  BY DEF EndPitch, Idle, Undecided
<1>2. PICK stop \in BOOLEAN : Flows(stop)
  BY DEF EndPitch
<1>3. /\ Place' /\ OnALattice' /\ stage' \in {"seeds", "pitches", "leader", "B", "D"}
      /\ stage' # "seeds" => stage' = plan.back /\ lead' = lead
  BY <1>1, <1>2, FlowsPlace, NothingElse
<1>4. plan.back \in {"B", "D"} => best # NoBest
  BY <1>1 DEF Control, OnALattice
<1>5. plan.back = "B" => lead.mode \in Modes
  BY <1>1 DEF Control, OnALattice
<1>6. Placed'
  BY <1>1, <1>3, <1>4, <1>5, NothingElse DEF Placed, Control
<1>7. QED
  BY <1>1, <1>3, <1>6, DecidingKeeps

LEMMA PassRungKeeps == ASSUME Control, PassRung PROVE Control'
<1>1. /\ Undecided /\ stage = "rung" /\ stage' = stage /\ lead' = lead
      /\ plan' = [plan EXCEPT !.cands = WithoutFirst(@)]
  BY DEF PassRung, Idle, GoTo, Undecided
<1>2. Place' /\ OnALattice'
  BY <1>1, NextOfThePlan, NothingElse
<1>3. Placed'
  BY <1>1, NothingElse DEF Placed, Control
<1>4. QED
  BY <1>1, <1>2, <1>3, DecidingKeeps

\* What a seed round leads to, run or not.
LEMMA AfterRoundPlace ==
    ASSUME Control, run' = run, stage \in {"A", "seeds"}, AfterRound,
           best # NoBest => best' # NoBest
    PROVE  /\ Place' /\ OnALattice' /\ lead'.mode = lead.mode
           /\ stage = "A" => stage' = "B"
           /\ stage = "seeds" => stage' = "seeds" /\ plan' = plan
           /\ plan'.cands = {} \/ plan' = plan
<1>1. Modes' = Modes
  BY DEF Modes
<1>2. CASE stage = "A"
  <2>1. /\ stage' = "B" /\ plan' = [NoPlan EXCEPT !.pitch = 2]
        /\ lead' = [lead EXCEPT !.slots = @ - 1]
    BY <1>2 DEF AfterRound
  <2>2. plan' \in Plans /\ plan'.cands = {} /\ plan'.pitch = 2
    BY <2>1, NoPlanIs DEF Plans
  <2>3. lead.slots - 1 \in Int
    BY ControlTypes DEF Leads
  <2>4. /\ lead' \in Leads /\ lead'.admitted = lead.admitted /\ lead'.finer = lead.finer
        /\ lead'.mode = lead.mode
    BY <2>1, <2>3, ControlTypes DEF Leads
  <2>5. lead.finer = 0
    BY <1>2 DEF Control, OnALattice
  <2>6. Place' /\ OnALattice'
    BY <1>1, <2>1, <2>2, <2>4, <2>5, ControlTypes DEF Place, OnALattice, Stages
  <2>7. QED
    BY <1>2, <2>1, <2>2, <2>4, <2>6
<1>3. CASE stage = "seeds"
  <2>1. stage' = stage /\ plan' = plan /\ lead' = lead
    BY <1>3 DEF AfterRound, flow
  <2>2. Place' /\ OnALattice'
    BY <1>1, <1>3, <2>1, ControlTypes DEF Place, OnALattice
  <2>3. QED
    BY <1>3, <2>1, <2>2
<1>4. QED
  BY <1>2, <1>3

LEMMA NoRoundKeeps == ASSUME Control, NoRound PROVE Control'
<1>1. Undecided
  BY DEF NoRound, Undecided, Idle
<1>2. CASE stage = "A" /\ AfterRound
  <2>1. Place' /\ OnALattice' /\ lead'.mode = lead.mode /\ stage' = "B"
    BY <1>1, <1>2, AfterRoundPlace, NothingElse
  <2>2. Placed'
    BY <1>1, <1>2, <2>1, NothingElse DEF Placed, Control
  <2>3. QED
    BY <1>1, <2>1, <2>2, DecidingKeeps
<1>3. CASE stage' = "steps" /\ UNCHANGED <<plan, lead>>
  <2>1. Place' /\ OnALattice'
    BY <1>1, <1>3, ControlTypes, NothingElse DEF Place, OnALattice, Stages
  <2>2. Placed'
    BY <1>1, <1>3, NothingElse DEF Placed, Control
  <2>3. QED
    BY <1>1, <2>1, <2>2, DecidingKeeps
<1>4. QED
  BY <1>2, <1>3 DEF NoRound, Idle

LEMMA DecideKeeps == ASSUME Control, Decide, ~NoStep PROVE Control'
  BY ProbesKeep, StartRungsKeeps, NextPitchKeeps, PickLeaderKeeps, LeaderOnFinerKeeps,
     AdmittedKeep, EndPitchKeeps, PassRungKeeps, NoRoundKeeps
     DEF Decide

LEMMA NoStepKeeps == ASSUME Control, NoStep PROVE Control'
<1>1. /\ attempt' = NoAttempt /\ run' = run /\ Modes' = Modes /\ best' = best /\ probes' = probes
      /\ plan' = plan /\ lead' = lead
      /\ late' = late /\ work' = work /\ overrun' = overrun
      /\ output' = output /\ last' = last /\ slowest' = slowest /\ extra' = extra
      /\ rounds' = rounds /\ beyond' = beyond /\ failed' = failed
      /\ stage' \in {"clearance", "done"}
  BY DEF NoStep, Idle, judgedVars, Modes
<1>2. keep \in Kept /\ StepsKeep \in Nat
  BY DEF StepsKeep, Control, Typed, Data, Kept
<1>3. keep' \in Kept
  <2>1. keep' = keep \/ keep' = [keep EXCEPT !.reserve = 0, !.steps = StepsKeep]
    BY DEF NoStep
  <2>2. ASSUME keep' = [keep EXCEPT !.reserve = 0, !.steps = StepsKeep] PROVE keep' \in Kept
    BY <1>2, <2>2 DEF Kept
  <2>3. QED
    BY <1>2, <2>1, <2>2
<1>4. Data'
  BY <1>1, <1>3 DEF Data, Probed, Control, Typed
<1>5. Place' /\ OnALattice' /\ Placed'
  BY <1>1, ControlTypes DEF Place, OnALattice, Placed, Stages, Control
<1>6. QED
  BY <1>1, <1>4, <1>5, Rests

LEMMA LateKeeps == ASSUME Control, Late PROVE Control'
<1>1. /\ late' = TRUE /\ run' = run /\ Modes' = Modes /\ attempt' = attempt
      /\ best' = best /\ probes' = probes /\ plan' = plan /\ lead' = lead /\ stage' = stage
      /\ work' = work /\ overrun' = overrun /\ keep' = keep
      /\ output' = output /\ last' = last /\ slowest' = slowest /\ extra' = extra
      /\ rounds' = rounds /\ beyond' = beyond /\ failed' = failed
  BY DEF Late, judgedVars, learned, flow, Modes
<1>2. Data'
  BY <1>1 DEF Data, Probed, Control, Typed
<1>3. Place' /\ OnALattice' /\ Placed' /\ Routes'
  BY <1>1 DEF Place, OnALattice, Placed, Routes, Control, Typed
<1>4. Typed'
  BY <1>1, <1>2, <1>3 DEF Typed, Control
<1>5. QED
  BY <1>3, <1>4 DEF Control

---------------------------------------------------------------------------
(* Control: an attempt begins *)

\* What an attempt that begins leaves alone.
Beginning ==
    /\ UNCHANGED <<run, late, work, overrun, judgedVars, last, slowest, regular, extra, probes,
                   failed, stage, lead>>
    /\ rounds' \in Nat /\ keep' \in Kept

LEMMA Begun ==
    ASSUME Control, Beginning, NEW kind \in Kinds, NEW mode \in Modes, NEW limit \in Nat,
           NEW times \in Nat, NEW result \in {<<>>} \cup Results,
           Begin(kind, mode, limit, times, result),
           Place', OnALattice',
           kind = "probe" => stage = "probing",
           kind = "continuation" => stage = "continue",
           kind \in {"rung", "retry"} => stage = "rung",
           kind = "round" => stage \in {"A", "seeds"},
           kind = "narrow" => stage = "steps",
           kind = "clearance" => stage = "clearance",
           kind \in {"probe", "rung", "retry"} => plan'.cands # {} /\ mode = First(plan'.cands),
           kind = "retry" => result \in Results,
           kind \in {"round", "narrow", "clearance"} => best # NoBest
    PROVE  Control'
<1>1. /\ run' = run /\ Modes' = Modes /\ late' = late /\ work' = work /\ overrun' = overrun
      /\ best' = best /\ output' = output /\ last' = last /\ slowest' = slowest /\ extra' = extra
      /\ probes' = probes /\ failed' = failed /\ stage' = stage /\ lead' = lead
      /\ rounds' \in Nat /\ keep' \in Kept
  BY DEF Beginning, judgedVars, Modes
<1>2. /\ attempt' = [kind |-> kind, mode |-> mode, limit |-> limit, times |-> times,
                     result |-> result]
      /\ beyond' \in Nat
  BY DEF Begin, Control, Typed, Data
<1>3. mode \in Nat
  BY ControlTypes
<1>4. attempt' \in Attempts /\ attempt'.mode \in Modes' /\ attempt'.kind = kind
      /\ attempt'.mode = mode /\ attempt'.result = result
  BY <1>1, <1>2, <1>3 DEF Attempts
<1>5. Data'
  BY <1>1, <1>2 DEF Data, Probed, Control, Typed
<1>6. Typed'
  BY <1>4, <1>5 DEF Typed
<1>7. Routes'
  BY <1>1, <1>4 DEF Routes
<1>8. Placed'
  BY <1>1 DEF Placed, Control
<1>9. QED
  BY <1>6, <1>7, <1>8 DEF Control

LEMMA Lefts ==
    ASSUME Control
    PROVE  /\ CheckCharge \in Nat /\ (~run.layout => CheckCharge = 0)
           /\ \A w \in Nat : BoundLeft(w) \in Nat /\ RungLeft(w) \in Nat /\ WorkLeft(w) \in Int
           /\ \A w \in Nat : BoundLeft(w) + w <= Bound \/ BoundLeft(w) = 0
           /\ \A w \in Nat : RungLeft(w) + keep.reserve + w <= Bound \/ RungLeft(w) = 0
           /\ \A i \in Int : Positive(i) \in Nat
           /\ keep.reserve \in Nat
<1>1. keep.reserve \in Nat
  BY DEF Control, Typed, Data, Kept
<1>2. QED
  BY <1>1, Numbers DEF CheckCharge, BoundLeft, RungLeft, WorkLeft, Positive, Larger

LEMMA LeftNow ==
    ASSUME Control
    PROVE  /\ CheckCharge \in Nat /\ keep.reserve \in Nat
           /\ BoundLeft(work) \in Nat /\ RungLeft(work) \in Nat
           /\ WorkLeft(work) - CheckCharge \in Int
           /\ WorkLeft(work) - CheckCharge - keep.reserve \in Int
           /\ Positive(WorkLeft(work) - CheckCharge) \in Nat
           /\ Positive(WorkLeft(work) - CheckCharge - keep.reserve) \in Nat
<1>1. work \in Nat /\ keep.reserve \in Nat
  BY DEF Control, Typed, Data, Kept
<1>2. QED
  BY <1>1, Numbers DEF CheckCharge, BoundLeft, RungLeft, WorkLeft, Positive, Larger

LEMMA ProbeLimits == ASSUME Control, Modes # {} PROVE ProbeLimit \in Nat
<1>1. Len(run.rungs) > 0
  BY ControlTypes
<1>2. Budget \div (2 * Len(run.rungs)) \in Nat
  <2>1. 2 * Len(run.rungs) \in Nat /\ 2 * Len(run.rungs) > 0
    BY <1>1, ControlTypes
  <2>2. QED
    BY <2>1, Numbers, Shares
<1>3. QED
  BY <1>2, Numbers DEF ProbeLimit, Smaller

LEMMA BeginProbeKeeps == ASSUME Control, BeginProbe PROVE Control'
<1>1. /\ stage = "probing" /\ plan.cands # {} /\ plan' = plan /\ lead' = lead /\ stage' = stage
      /\ Begin("probe", First(plan.cands), ProbeLimit, 1, <<>>)
      /\ run' = run /\ Modes' = Modes
  BY DEF BeginProbe, Idle, flow, Modes
<1>2. Beginning
  BY DEF BeginProbe, Beginning, flow, learned, Control, Typed, Data
<1>3. First(plan.cands) \in Modes
  BY <1>1, ControlTypes, FirstIs
<1>4. ProbeLimit \in Nat
  BY <1>3, ProbeLimits
<1>5. Place' /\ OnALattice'
  BY <1>1 DEF Place, OnALattice, Control, Typed
<1>6. QED
  BY <1>1, <1>2, <1>3, <1>4, <1>5, Begun DEF Kinds

LEMMA BeginContinuationKeeps == ASSUME Control, BeginContinuation PROVE Control'
<1> DEFINE limit == IF run.layout THEN Positive(WorkLeft(work) - CheckCharge) ELSE BoundLeft(work)
<1>1. /\ stage = "continue" /\ plan' = NoPlan /\ lead' = lead /\ stage' = stage
      /\ Begin("continuation", probes.mode, limit, 1, <<>>)
      /\ run' = run /\ Modes' = Modes
  BY DEF BeginContinuation, Idle, Modes
<1>2. Beginning
  BY DEF BeginContinuation, Beginning, learned, Control, Typed, Data
<1>3. probes.mode \in Modes
  BY <1>1 DEF Control, Typed, Data, Placed
<1>4. limit \in Nat
  BY LeftNow
<1> HIDE DEF limit
<1>5. Place' /\ OnALattice'
  BY <1>1, NoPlanIs, ControlTypes DEF Place, OnALattice
<1>6. QED
  BY <1>1, <1>2, <1>3, <1>4, <1>5, Begun DEF Kinds

LEMMA CandsCount ==
    ASSUME Control
    PROVE  /\ IsFiniteSet(plan.cands) /\ Cardinality(plan.cands) \in Nat
           /\ plan.cands # {} => /\ Cardinality(plan.cands) > 0
                                 /\ First(plan.cands) \in plan.cands
                                 /\ \A n \in plan.cands : First(plan.cands) <= n
           /\ plan.cands # {} =>
                Cardinality(WithoutFirst(plan.cands)) = Cardinality(plan.cands) - 1
<1>1. IsFiniteSet(plan.cands) /\ Cardinality(plan.cands) \in Nat
  BY ControlTypes, FS_Subset, FS_CardinalityType
<1>2. plan.cands # {} => /\ First(plan.cands) \in plan.cands
                         /\ \A n \in plan.cands : First(plan.cands) <= n
  BY ControlTypes, FirstIs
<1>3. plan.cands # {} =>
        Cardinality(WithoutFirst(plan.cands)) = Cardinality(plan.cands) - 1
  BY <1>1, <1>2, FS_RemoveElement DEF WithoutFirst
<1>4. plan.cands # {} => Cardinality(plan.cands) > 0
  BY <1>1, FS_EmptySet
<1>5. QED
  BY <1>1, <1>2, <1>3, <1>4

LEMMA RungLimits ==
    ASSUME Control, plan.cands # {}
    PROVE  Share \in Nat \cup {None} /\ RungLimit \in Nat
<1>1. plan.share \in Nat \cup {None} /\ plan.left \in Nat /\ plan.after \in Nat
  BY ControlTypes DEF Plans
<1>2. /\ RungLeft(work) \in Nat /\ BoundLeft(work) \in Nat
      /\ CheckCharge \in Nat /\ keep.reserve \in Nat
  BY ControlTypes, Lefts
<1>3. RungShare(RungLeft(work), Cardinality(plan.cands) + plan.after) \in Nat
  <2>1. Cardinality(plan.cands) + plan.after \in Int
    BY <1>1, CandsCount
  <2>2. QED
    BY <1>2, <2>1, RungShares
<1>4. Share \in Nat \cup {None} /\ (~run.layout /\ best # NoBest => Share \in Nat)
  BY <1>1, <1>3 DEF Share
<1>5. Positive(plan.left - CheckCharge - keep.reserve) \in Nat
  BY <1>1, <1>2 DEF Positive, Larger
<1>6. QED
  BY <1>2, <1>4, <1>5 DEF RungLimit

LEMMA BeginRungKeeps == ASSUME Control, BeginRung PROVE Control'
<1>1. /\ stage = "rung" /\ plan.cands # {} /\ plan' = [plan EXCEPT !.share = Share]
      /\ lead' = lead /\ stage' = stage
      /\ Begin("rung", First(plan.cands), RungLimit, 1, <<>>)
      /\ run' = run /\ Modes' = Modes /\ best' = best
  BY DEF BeginRung, Idle, Modes, judgedVars
<1>2. Beginning
  BY DEF BeginRung, Beginning, learned, Control, Typed, Data
<1>3. First(plan.cands) \in Modes
  BY <1>1, ControlTypes, CandsCount
<1>4. Share \in Nat \cup {None} /\ RungLimit \in Nat
  BY <1>1, RungLimits
<1>5. /\ plan' \in Plans /\ plan'.cands = plan.cands /\ plan'.pitch = plan.pitch
      /\ plan'.back = plan.back
  BY <1>1, <1>4, ControlTypes DEF Plans
<1>6. Place' /\ OnALattice'
  BY <1>1, <1>5, ControlTypes DEF Place, OnALattice, Control
<1>7. QED
  BY <1>1, <1>2, <1>3, <1>4, <1>5, <1>6, Begun DEF Kinds

LEMMA RoundSeedsAre ==
    ASSUME Control, best # NoBest, NEW slots \in Int
    PROVE  RoundSeeds(slots) \in Nat
<1> DEFINE cost    == Larger(best.own, 1)
           budget  == Positive(Budget - work - cost - CheckCharge) \div cost
           reserve == IF run.layout /\ keep.reserve > 0
                      THEN Positive(WorkLeft(work) - CheckCharge - keep.reserve) \div cost
                      ELSE RetrySeeds
           share   == IF run.layout THEN RetrySeeds
                      ELSE RungShare(RungLeft(work), slots) \div cost
<1>1. best.own \in Nat
  BY DEF Control, Typed, Data, Bests
<1>2. cost \in Nat /\ cost > 0
  BY <1>1 DEF Larger
<1> HIDE DEF cost
<1>3. Positive(Budget - work - cost - CheckCharge) \in Nat
  BY <1>2, ControlTypes, LeftNow, Numbers DEF Positive, Larger
<1>4. /\ Positive(WorkLeft(work) - CheckCharge - keep.reserve) \in Nat
      /\ RungShare(RungLeft(work), slots) \in Nat
  <2>1. RungLeft(work) \in Int
    BY LeftNow
  <2>2. QED
    BY <2>1, LeftNow, RungShares
<1>5. budget \in Nat /\ reserve \in Nat /\ share \in Nat
  BY <1>2, <1>3, <1>4, Shares, Numbers
<1>6. RoundSeeds(slots) = Smaller(Smaller(RetrySeeds, budget), Smaller(reserve, share))
  BY DEF RoundSeeds, cost
<1> HIDE DEF budget, reserve, share
<1>7. QED
  BY <1>5, <1>6, Numbers DEF Smaller

LEMMA RoundLimits ==
    ASSUME Control, best # NoBest, NEW slots \in Int, RoundSeeds(slots) > 0
    PROVE  /\ RoundLimit(slots) \in Nat
           /\ ~run.layout => RoundSeeds(slots) * RoundLimit(slots) <= RungLeft(work)
<1> DEFINE seeds == RoundSeeds(slots)
<1>1. seeds \in Nat /\ seeds > 0
  BY RoundSeedsAre
<1>2. RoundLimit(slots) = IF run.layout
                          THEN Positive(WorkLeft(work) - CheckCharge - keep.reserve) \div seeds
                          ELSE RungShare(RungShare(RungLeft(work), slots), seeds)
  BY DEF RoundLimit
<1> HIDE DEF seeds
<1>4. /\ Positive(WorkLeft(work) - CheckCharge - keep.reserve) \in Nat
      /\ RungLeft(work) \in Nat
  BY LeftNow
<1>5. RungShare(RungLeft(work), slots) \in Nat
  BY <1>4, RungShares
<1>6. RungShare(RungShare(RungLeft(work), slots), seeds) \in Nat
  <2>1. seeds \in Int /\ RungShare(RungLeft(work), slots) \in Int
    BY <1>1, <1>5
  <2>2. QED
    BY <2>1, RungShares
<1>7. RoundLimit(slots) \in Nat
  BY <1>1, <1>2, <1>4, <1>6, Shares
<1>8. ASSUME ~run.layout PROVE seeds * RoundLimit(slots) <= RungLeft(work)
  <2> DEFINE part == RungShare(RungLeft(work), slots)
             sum  == seeds * RoundLimit(slots)
  <2>1. /\ sum <= Positive(part) /\ part <= Positive(RungLeft(work))
    BY <1>1, <1>2, <1>4, <1>5, <1>8, RungShares
  <2>2. Positive(part) = part /\ Positive(RungLeft(work)) = RungLeft(work)
    BY <1>4, <1>5 DEF Positive, Larger
  <2>3. sum \in Int /\ part \in Int
    BY <1>1, <1>5, <1>7
  <2> HIDE DEF part, sum
  <2>4. sum <= RungLeft(work)
    BY <1>4, <2>1, <2>2, <2>3
  <2>5. QED
    BY <2>4 DEF sum
<1>9. QED
  BY <1>7, <1>8 DEF seeds

LEMMA BeginRoundKeeps == ASSUME Control, BeginRound PROVE Control'
<1> DEFINE slots == IF stage = "A" THEN lead.slots ELSE 1
<1>1. /\ stage \in {"A", "seeds"} /\ plan' = plan /\ lead' = lead /\ stage' = stage
      /\ Begin("round", best.mode, RoundLimit(slots), RoundSeeds(slots), <<>>)
      /\ RoundFits(slots) /\ rounds' = rounds + 1
      /\ run' = run /\ Modes' = Modes /\ best' = best
  BY DEF BeginRound, Idle, flow, judgedVars, Modes
<1>2. Beginning
  BY <1>1 DEF BeginRound, Beginning, learned, flow, Control, Typed, Data
<1>3. slots \in Int
  BY ControlTypes DEF Leads
<1> HIDE DEF slots
<1>4. best # NoBest /\ RoundSeeds(slots) > 0
  BY <1>1 DEF RoundFits, OpenBest
<1>5. RoundSeeds(slots) \in Nat /\ RoundLimit(slots) \in Nat /\ best.mode \in Modes
  BY <1>3, <1>4, RoundSeedsAre, RoundLimits DEF Control, Typed, Data
<1>6. Place' /\ OnALattice'
  BY <1>1 DEF Place, OnALattice, Control, Typed
<1>7. QED
  BY <1>1, <1>2, <1>4, <1>5, <1>6, Begun DEF Kinds

LEMMA StepLimits ==
    ASSUME Control, best # NoBest, NEW kept \in Nat
    PROVE  StepLimit(kept) \in Nat /\ (~run.layout => StepLimit(kept) = BoundLeft(work))
<1>1. best.limit \in Nat
  BY DEF Control, Typed, Data, Bests
<1>2. QED
  BY <1>1, LeftNow DEF StepLimit

LEMMA BeginStepKeeps == ASSUME Control, BeginStep PROVE Control'
<1>1. PICK kind \in {"narrow", "clearance"} :
        /\ Idle(IF kind = "narrow" THEN "steps" ELSE "clearance")
        /\ keep' = [keep EXCEPT !.reserve = 0, !.steps = StepsKeep]
        /\ StepRuns(kind)
        /\ Begin(kind, best.mode, StepLimit(StepsKeep), 1, <<>>)
        /\ UNCHANGED <<run, late, work, overrun, judgedVars, last, slowest, regular, extra,
                       probes, rounds, failed, flow>>
  BY Zenon DEF BeginStep
<1>2. /\ plan' = plan /\ lead' = lead /\ stage' = stage
      /\ run' = run /\ Modes' = Modes /\ best' = best /\ rounds' = rounds
  BY <1>1 DEF flow, judgedVars, Modes
<1>3. StepsKeep \in Nat /\ keep \in Kept
  BY DEF StepsKeep, Control, Typed, Data, Kept
<1>4. keep' \in Kept
  BY <1>1, <1>3 DEF Kept
<1>5. Beginning
  BY <1>1, <1>2, <1>4 DEF Beginning, flow, Control, Typed, Data
<1>6. best # NoBest
  BY <1>1 DEF StepRuns, OpenBest
<1>7. StepLimit(StepsKeep) \in Nat /\ best.mode \in Modes
  BY <1>3, <1>6, StepLimits DEF Control, Typed, Data
<1>8. Place' /\ OnALattice'
  BY <1>2 DEF Place, OnALattice, Control, Typed
<1>9. /\ kind = "narrow" => stage = "steps"
      /\ kind = "clearance" => stage = "clearance"
  BY <1>1 DEF Idle
<1>10. kind \in Kinds /\ Begin(kind, best.mode, StepLimit(StepsKeep), 1, <<>>)
  BY <1>1 DEF Kinds
<1>11. QED
  BY <1>2, <1>5, <1>6, <1>7, <1>8, <1>9, <1>10, Begun

LEMMA BeginningKeeps == ASSUME Control, BeginProbe \/ BeginRung \/ BeginAlone PROVE Control'
  BY BeginProbeKeeps, BeginRungKeeps, BeginContinuationKeeps, BeginRoundKeeps, BeginStepKeeps
     DEF BeginAlone

---------------------------------------------------------------------------
(* Control: an attempt ends *)

LEMMA Charged ==
    ASSUME Control, attempt # NoAttempt, NEW w \in Nat, NEW checked \in BOOLEAN,
           Charge(w, checked)
    PROVE  /\ work' \in Nat /\ overrun' \in Nat
           /\ ~run.layout => /\ overrun' >= overrun
                             /\ work' - overrun' <= work - overrun + attempt.times * attempt.limit
<1>1. attempt.times \in Nat /\ attempt.limit \in Nat
  BY DEF Control, Typed, Attempts
<1> DEFINE done == attempt.times * w
           past == attempt.times * Positive(w - attempt.limit)
           most == attempt.times * attempt.limit
           check == IF checked THEN CheckCharge ELSE 0
<1>2. done \in Nat /\ past \in Nat /\ most \in Nat /\ done - past <= most
  BY <1>1, PastTheLimit
<1>3. check \in Nat /\ (~run.layout => check = 0)
  BY Lefts
<1>4. /\ work' = work + done + check
      /\ overrun' = IF run.layout THEN 0 ELSE overrun + past
  BY DEF Charge
<1> HIDE DEF done, past, most, check
<1>5. /\ work' \in Nat /\ overrun' \in Nat
      /\ ~run.layout => overrun' >= overrun /\ work' - overrun' <= work - overrun + most
  BY <1>2, <1>3, <1>4, ControlTypes
<1>6. QED
  BY <1>5 DEF most

LEMMA OpensAre ==
    ASSUME NEW board \in Boards, NEW checked \in BOOLEAN
    PROVE  /\ Opens(board, checked) \in Nat \X Nat /\ Opens(board, checked)[1] \in Nat
           /\ Checked(board) \in Nat \X Nat /\ Judged(board) \in BOOLEAN
<1>1. {board.count, board.kicad, board.starved} \subseteq Nat
  BY LadderConstants
<1>2. Judged(board) \in BOOLEAN
  BY DEF Judged
<1>3. QED
  BY <1>1, <1>2 DEF Opens, Checked, Unchecked

LEMMA Reserves ==
    ASSUME Control, overrun' \in Nat, NEW opens, NEW first \in Nat, NEW w \in Nat
    PROVE  Reserved(opens, first, w) \in Kept
<1>1. keep \in Kept /\ overrun' \in Nat
  BY DEF Control, Typed, Data
<1> DEFINE cap == Smaller((2 * DeadlineWork) \div 5, 10)
           layout == ReserveWithCheck(NarrowStepReserve(first, cap), CheckCharge)
           route == RouteStepReserve(first, BoundLeft(w))
<1>2. cap \in Nat
  <2>1. (2 * DeadlineWork) \div 5 \in Nat
    BY Numbers
  <2>2. QED
    BY <2>1 DEF Smaller
<1>3. layout \in Nat
  <2>1. NarrowStepReserve(first, cap) \in Nat
    <3>1. Smaller(Larger((3 * first) \div 4, 4), cap) \in Nat
      BY <1>2 DEF Smaller, Larger
    <3> HIDE DEF cap
    <3>2. QED
      BY <3>1 DEF NarrowStepReserve
  <2> HIDE DEF cap
  <2>2. QED
    BY <2>1, LeftNow DEF ReserveWithCheck
<1>4. route \in Nat
  <2>1. BoundLeft(w) \in Nat
    BY Lefts
  <2>2. QED
    BY <2>1 DEF RouteStepReserve, Smaller, Positive, Larger
<1> DEFINE reserve == IF run.layout THEN layout ELSE route
           start == IF run.layout THEN 0 ELSE first
<1>5. reserve \in Nat /\ start \in Nat
  BY <1>3, <1>4
<1>6. CASE keep.set \/ opens[1] = 0 \/ run.steps = {}
  BY <1>1, <1>6 DEF Reserved
<1>7. CASE ~(keep.set \/ opens[1] = 0 \/ run.steps = {})
  <2>1. Reserved(opens, first, w) =
          [keep EXCEPT !.set = TRUE, !.reserve = reserve, !.first = start, !.over = overrun']
    BY <1>7 DEF Reserved
  <2> HIDE DEF reserve, start
  <2>2. QED
    BY <1>1, <1>5, <2>1 DEF Kept
<1>8. QED
  BY <1>6, <1>7

\* What Settle does, part by part.
RungOpens(r) == Opens(r.board, r.checked)
Again(r) ==
    /\ RungOpens(r)[1] = 0 /\ run.rungs[attempt.mode] = "skeleton" /\ ~extra
    /\ attempt.mode < Len(run.rungs) /\ 2 * r.work <= RefineBudget
Stops(r) == ~Again(r) /\ (RungOpens(r)[1] = 0 \/ extra \/ work' > Budget)
CompleteNow(r) == IF Beats(r.board, r.checked) THEN RungOpens(r)[1] = 0 ELSE Complete

LEMMA SettleIs ==
    ASSUME NEW r, Settle(r)
    PROVE  /\ last' = [work |-> r.work, size |-> Sizes[plan.pitch]]
           /\ slowest' = last' \/ slowest' = slowest
           /\ IF Beats(r.board, r.checked)
              THEN /\ best' = [mode |-> attempt.mode, board |-> r.board, opens |-> RungOpens(r),
                               own |-> r.own, size |-> Sizes[plan.pitch], seeded |-> r.seeded,
                               limit |-> r.limit]
                   /\ output' = <<r.board>>
              ELSE best' = best /\ output' = output
           /\ keep' = IF CompleteNow(r)
                      THEN [Reserved(RungOpens(r), r.work, work') EXCEPT !.reserve = 0]
                      ELSE Reserved(RungOpens(r), r.work, work')
           /\ extra' = (extra \/ Again(r)) /\ attempt' = NoAttempt
           /\ IF Stops(r) THEN Flows(TRUE)
              ELSE /\ plan' = [plan EXCEPT !.cands = WithoutFirst(@)]
                   /\ stage' = stage /\ lead' = lead
  BY DEF Settle, RungOpens, Again, Stops, CompleteNow

LEMMA Settled ==
    ASSUME Control, attempt.kind \in {"rung", "retry"}, run' = run, work' \in Nat,
           overrun' \in Nat, NEW r \in Results, Settle(r)
    PROVE  /\ attempt' = NoAttempt
           /\ best' \in Bests /\ best'.mode \in Modes /\ best' # NoBest
           /\ output' = output \/ output' = <<r.board>>
           /\ keep' \in Kept /\ last' \in Costs /\ slowest' \in Costs /\ extra' \in BOOLEAN
           /\ Place' /\ OnALattice'
           /\ stage' \in {"rung", "seeds"}
<1>1. stage = "rung" /\ attempt.mode \in Modes /\ attempt # NoAttempt
  BY DEF Control, Routes, Typed, NoAttempt
<1>2. /\ r.board \in Boards /\ r.checked \in BOOLEAN /\ r.own \in Nat /\ r.work \in Nat
      /\ r.limit \in Nat /\ r.seeded \in BOOLEAN
  BY DEF Results
<1>3. RungOpens(r) \in Nat \X Nat
  BY <1>2, OpensAre DEF RungOpens
<1>4. plan.pitch \in 1..Len(Sizes) /\ Sizes[plan.pitch] \in Nat
  BY <1>1, ControlTypes, Numbers DEF Control, OnALattice
<1>5. last' \in Costs /\ slowest' \in Costs
  <2>1. last' = [work |-> r.work, size |-> Sizes[plan.pitch]] /\ slowest' \in {last', slowest}
    BY SettleIs
  <2>2. slowest \in Costs
    BY DEF Control, Typed, Data
  <2>3. last' \in Costs
    BY <1>2, <1>4, <2>1 DEF Costs
  <2>4. QED
    BY <2>1, <2>2, <2>3
<1>6. /\ best' \in Bests /\ best'.mode \in Modes
      /\ output' = output \/ output' = <<r.board>>
  <2>1. CASE Beats(r.board, r.checked)
    <3>1. attempt.mode \in Nat
      BY <1>1, ControlTypes
    <3>2. /\ best' = [mode |-> attempt.mode, board |-> r.board, opens |-> RungOpens(r),
                      own |-> r.own, size |-> Sizes[plan.pitch], seeded |-> r.seeded,
                      limit |-> r.limit]
          /\ output' = <<r.board>>
      BY <2>1, SettleIs
    <3>3. QED
      BY <1>1, <1>2, <1>3, <1>4, <3>1, <3>2 DEF Bests
  <2>2. CASE ~Beats(r.board, r.checked)
    <3>1. best # NoBest
      BY <2>2 DEF Beats
    <3>2. best' = best /\ output' = output
      BY <2>2, SettleIs
    <3>3. QED
      BY <3>1, <3>2 DEF Control, Typed, Data
  <2>3. QED
    BY <2>1, <2>2
<1>7. best' # NoBest
  BY <1>6, ControlTypes DEF NoBest
<1>8. keep' \in Kept
  <2>1. Reserved(RungOpens(r), r.work, work') \in Kept
    BY <1>2, Reserves
  <2>2. \/ keep' = Reserved(RungOpens(r), r.work, work')
        \/ keep' = [Reserved(RungOpens(r), r.work, work') EXCEPT !.reserve = 0]
    BY SettleIs
  <2>3. QED
    BY <2>1, <2>2 DEF Kept
<1>9. extra' \in BOOLEAN
  BY SettleIs DEF Control, Typed, Data, Again
<1>10. Place' /\ OnALattice' /\ stage' \in {"rung", "seeds"}
  <2>1. CASE Stops(r)
    <3>1. Flows(TRUE)
      BY <2>1, SettleIs
    <3>2. QED
      BY <1>1, <3>1, FlowsPlace
  <2>2. CASE ~Stops(r)
    <3>1. plan' = [plan EXCEPT !.cands = WithoutFirst(@)] /\ stage' = stage /\ lead' = lead
      BY <2>2, SettleIs
    <3>2. QED
      BY <1>1, <1>7, <3>1, NextOfThePlan
  <2>3. QED
    BY <2>1, <2>2
<1>11. QED
  BY <1>5, <1>6, <1>7, <1>8, <1>9, <1>10, SettleIs

\* Whether the board is complete once it is settled.
LEMMA CompleteIs ==
    ASSUME Control, attempt.kind \in {"rung", "retry"}, run' = run, work' \in Nat,
           overrun' \in Nat, NEW r \in Results, Settle(r)
    PROVE  Complete' <=> CompleteNow(r)
<1>1. best' # NoBest
  BY Settled
<1>2. CASE Beats(r.board, r.checked)
  <2>1. best' = [mode |-> attempt.mode, board |-> r.board, opens |-> RungOpens(r),
                 own |-> r.own, size |-> Sizes[plan.pitch], seeded |-> r.seeded,
                 limit |-> r.limit]
    BY <1>2, SettleIs
  <2>2. best'.opens = RungOpens(r)
    BY <2>1
  <2>3. QED
    BY <1>1, <1>2, <2>2 DEF Complete, CompleteNow
<1>3. CASE ~Beats(r.board, r.checked)
  <2>1. best' = best
    BY <1>3, SettleIs
  <2>2. QED
    BY <1>3, <2>1 DEF Complete, CompleteNow
<1>4. QED
  BY <1>2, <1>3

LEMMA SettlingKeeps ==
    ASSUME Control, attempt.kind \in {"rung", "retry"}, NEW r \in Results, Settle(r),
           work' \in Nat, overrun' \in Nat, failed' \in BOOLEAN,
           UNCHANGED <<run, late, probes, rounds, beyond>>
    PROVE  Control'
<1>1. /\ run' = run /\ late' = late /\ probes' = probes /\ rounds' = rounds /\ beyond' = beyond
      /\ Modes' = Modes
  BY DEF Modes
<1>2. /\ attempt' = NoAttempt
      /\ best' \in Bests /\ best'.mode \in Modes /\ best' # NoBest
      /\ output' = output \/ output' = <<r.board>>
      /\ keep' \in Kept /\ last' \in Costs /\ slowest' \in Costs /\ extra' \in BOOLEAN
      /\ Place' /\ OnALattice'
      /\ stage' \in {"rung", "seeds"}
  BY <1>1, Settled
<1>3. r.board \in Boards
  BY DEF Results
<1>4. Data'
  BY <1>1, <1>2, <1>3 DEF Data, Probed, Control, Typed
<1>5. Placed'
  BY <1>1, <1>2 DEF Placed, Control
<1>6. QED
  BY <1>2, <1>4, <1>5, Rests

LEMMA Panicked ==
    ASSUME Control, Dropped
    PROVE  /\ work' \in Nat /\ overrun' \in Nat /\ work' = work /\ overrun' = overrun
           /\ failed' = TRUE /\ best' = best /\ output' = output /\ least' = least
           /\ keep' = keep /\ last' = last /\ slowest' = slowest /\ extra' = extra
  BY ControlTypes DEF Dropped, judgedVars, learned

LEMMA ProbeEndsKeeps ==
    ASSUME Control, NEW o, ProbeOutcome(o), ProbeEnds(o)
    PROVE  Control'
<1>1. /\ stage = "probing" /\ plan.cands # {} /\ attempt.mode = First(plan.cands)
      /\ best = NoBest /\ attempt # NoAttempt
  BY DEF ProbeEnds, Control, Routes, Placed, NoAttempt
<1>2. /\ run' = run /\ Modes' = Modes /\ late' = late /\ rounds' = rounds /\ beyond' = beyond
      /\ lead' = lead /\ attempt' = NoAttempt
      /\ plan' = [plan EXCEPT !.cands = WithoutFirst(@)]
  BY DEF ProbeEnds, Modes
<1>3. /\ work' \in Nat /\ overrun' \in Nat /\ failed' \in BOOLEAN
      /\ best' = best /\ output' = output /\ keep' = keep
      /\ last' = last /\ slowest' = slowest /\ extra' = extra
  <2>1. CASE Dropped
    BY <2>1, Panicked
  <2>2. CASE Charge(o.work, FALSE) /\ UNCHANGED <<judgedVars, learned, failed>>
    BY <1>1, <2>2, Charged DEF ProbeOutcome, judgedVars, learned, Control, Typed, Data
  <2>3. QED
    BY <2>1, <2>2 DEF ProbeEnds
<1>4. \/ probes' = probes /\ stage' = stage
      \/ /\ probes' \in Probed /\ probes'.mode \in Modes
         /\ probes'.continued = probes.continued
         /\ stage' \in {"probing", "continue"}
  <2>1. CASE UNCHANGED <<probes, stage>>
    BY <2>1
  <2>2. CASE o.fate = "routed" /\ ~UNCHANGED <<probes, stage>>
    <3> DEFINE leads == probes.mode = 0 \/ o.unfinished < probes.counts[probes.mode]
               mode  == IF leads THEN attempt.mode ELSE probes.mode
               spent == IF leads THEN o.work ELSE probes.work
    <3>1. /\ probes' = [probes EXCEPT !.counts[attempt.mode] = o.unfinished,
                                      !.mode = IF leads THEN attempt.mode ELSE @,
                                      !.work = IF leads THEN o.work ELSE @]
          /\ stage' = IF o.unfinished = 0 THEN "continue" ELSE stage
      BY <2>2, Zenon DEF ProbeEnds
    <3>2. probes \in Probed /\ probes.mode \in Modes \cup {0} /\ attempt.mode \in Modes
      BY <1>1 DEF Control, Typed, Data
    <3>3. mode \in Modes /\ spent \in Nat
      BY <3>2 DEF Probed, ProbeOutcome
    <3>4. [probes.counts EXCEPT ![attempt.mode] = o.unfinished] \in [Modes -> Int]
      BY <2>2, <3>2 DEF Probed, ProbeOutcome
    <3>5. probes' = [counts |-> [probes.counts EXCEPT ![attempt.mode] = o.unfinished],
                     mode |-> mode, work |-> spent, continued |-> probes.continued]
      BY <3>1, <3>2 DEF Probed
    <3> HIDE DEF mode, spent
    <3>6. probes' \in Probed /\ probes'.mode \in Modes /\ probes'.continued = probes.continued
      BY <3>2, <3>3, <3>4, <3>5, ControlTypes DEF Probed
    <3>7. stage' \in {"probing", "continue"}
      BY <1>1, <3>1
    <3>8. QED
      BY <3>6, <3>7
  <2>3. QED
    BY <2>1, <2>2 DEF ProbeEnds
<1>5. Place' /\ OnALattice'
  <2> DEFINE here == plan' \in Plans /\ plan'.cands \subseteq Modes /\ plan'.pitch > 0
  <2>1. WithoutFirst(plan.cands) \in SUBSET Nat /\ WithoutFirst(plan.cands) \subseteq Modes
    BY ControlTypes DEF WithoutFirst
  <2>2. here
    BY <1>2, <2>1, ControlTypes DEF Plans
  <2>3. stage' \in {"probing", "continue"}
    BY <1>1, <1>4
  <2>4. QED
    BY <1>2, <2>2, <2>3, ControlTypes DEF Place, OnALattice, Stages
<1>6. Data'
  BY <1>2, <1>3, <1>4 DEF Data, Probed, Control, Typed
<1>7. Placed'
  BY <1>1, <1>2, <1>3, <1>4, ControlTypes DEF Placed, Control
<1>8. QED
  BY <1>2, <1>5, <1>6, <1>7, Rests

LEMMA ContinuationEndsKeeps ==
    ASSUME Control, NEW o, Outcome(o), ContinuationEnds(o)
    PROVE  Control'
<1>1. stage = "continue" /\ probes.mode \in Modes /\ best = NoBest /\ attempt # NoAttempt
      /\ attempt.mode \in Modes
  BY DEF ContinuationEnds, Control, Routes, Placed, NoAttempt, Typed, Data
<1>2. /\ run' = run /\ Modes' = Modes /\ late' = late /\ rounds' = rounds /\ beyond' = beyond
      /\ lead' = lead /\ plan' = plan /\ attempt' = NoAttempt /\ stage' = "rungs"
  BY DEF ContinuationEnds, Modes
<1>3. Place' /\ OnALattice'
  BY <1>2, ControlTypes DEF Place, OnALattice, Stages
<1>4. probes \in Probed /\ keep \in Kept /\ last \in Costs /\ slowest \in Costs /\ extra \in BOOLEAN
      /\ failed \in BOOLEAN
  BY DEF Control, Typed, Data
<1>5. CASE o.fate = "panic" /\ Dropped /\ UNCHANGED probes
  <2>1. Data'
    BY <1>2, <1>5, Panicked DEF Data, Probed, Control, Typed
  <2>2. Placed'
    BY <1>1, <1>2, <1>5, Panicked, ControlTypes DEF Placed
  <2>3. QED
    BY <1>2, <1>3, <2>1, <2>2, Rests
<1>6. CASE /\ Charge(o.work, FALSE)
           /\ output' \in {<<b>> : b \in Boards}
           /\ failed' = TRUE
           /\ UNCHANGED <<best, least, counts, learned, probes>>
  <2>1. work' \in Nat /\ overrun' \in Nat
    BY <1>1, <1>6, Charged DEF Outcome
  <2>2. Data'
    BY <1>2, <1>6, <2>1 DEF Data, Probed, Control, Typed, learned
  <2>3. Placed'
    BY <1>1, <1>2, <1>6, ControlTypes DEF Placed
  <2>4. QED
    BY <1>2, <1>3, <2>2, <2>3, Rests
<1>7. CASE o.fate = "routed"
  <2> DEFINE checked == Judged(o.board)
             opens   == Opens(o.board, checked)
             whole   == probes.work + o.work
  <2>1. o.board \in Boards /\ whole \in Nat /\ Sizes[1] \in Nat /\ attempt.mode \in Nat
    <3>1. o.board \in Boards /\ o.work \in Nat
      BY <1>1, <1>7 DEF Outcome
    <3>2. probes.work \in Nat
      BY <1>4 DEF Probed
    <3>3. Sizes[1] \in Nat
      BY Numbers
    <3>4. QED
      BY <1>1, <1>4, <3>1, <3>2, <3>3, ControlTypes
  <2>2. checked \in BOOLEAN /\ opens \in Nat \X Nat
    BY <2>1, OpensAre
  <2>3. /\ Charge(o.work, checked)
        /\ output' = <<o.board>>
        /\ best' = [mode |-> attempt.mode, board |-> o.board, opens |-> opens,
                    own |-> whole, size |-> Sizes[1], seeded |-> FALSE,
                    limit |-> DeadlineWork]
        /\ last' = [work |-> whole, size |-> Sizes[1]]
        /\ slowest' = last'
        /\ keep' = Reserved(opens, whole, work')
        /\ probes' = [probes EXCEPT !.continued = TRUE]
        /\ extra' = extra /\ failed' = failed
    BY <1>7, Zenon DEF ContinuationEnds
  <2> HIDE DEF checked, opens, whole
  <2>4. work' \in Nat /\ overrun' \in Nat
    BY <1>1, <2>2, <2>3, Charged DEF Outcome
  <2>5. best' \in Bests /\ best'.mode \in Modes
    BY <1>1, <2>1, <2>2, <2>3, Numbers DEF Bests
  <2>6. last' \in Costs /\ slowest' \in Costs
    BY <2>1, <2>3 DEF Costs
  <2>7. keep' \in Kept
    BY <2>1, <2>3, <2>4, Reserves
  <2>8. probes' \in Probed /\ probes'.mode = probes.mode
    BY <1>4, <2>3 DEF Probed
  <2>9. Data'
    BY <1>1, <1>2, <1>4, <2>1, <2>3, <2>4, <2>5, <2>6, <2>7, <2>8 DEF Data, Probed, Control, Typed
  <2>10. Placed'
    BY <1>1, <1>2, <2>8, ControlTypes DEF Placed
  <2>11. QED
    BY <1>2, <1>3, <2>9, <2>10, Rests
<1>8. QED
  BY <1>5, <1>6, <1>7 DEF ContinuationEnds

LEMMA ErrorKeeps == ASSUME Control, NEW o, Error(o) PROVE Control'
<1>1. /\ stage' = "failed" /\ attempt' = NoAttempt
      /\ run' = run /\ Modes' = Modes /\ late' = late /\ work' = work /\ overrun' = overrun
      /\ best' = best /\ output' = output /\ keep' = keep /\ last' = last /\ slowest' = slowest
      /\ extra' = extra /\ probes' = probes /\ rounds' = rounds /\ beyond' = beyond
      /\ failed' = failed /\ plan' = plan /\ lead' = lead
  BY DEF Error, judgedVars, learned, Modes
<1>2. Data'
  BY <1>1 DEF Data, Probed, Control, Typed
<1>3. Place' /\ OnALattice' /\ Placed'
  BY <1>1, ControlTypes DEF Place, OnALattice, Placed, Stages, Control
<1>4. QED
  BY <1>1, <1>2, <1>3, Rests

\* What a rung's board, and the seeds', are taken as.
LEMMA ResultIs ==
    ASSUME Control, attempt # NoAttempt, NEW o, o.board \in Boards, o.work \in Nat,
           NEW seeded \in BOOLEAN
    PROVE  /\ Result(o, Judged(o.board), seeded) \in Results
           /\ Result(o, Judged(o.board), seeded).board = o.board
           /\ Result(o, Judged(o.board), seeded).checked = Judged(o.board)
           /\ Result(o, Judged(o.board), seeded).work = o.work
<1>1. Judged(o.board) \in BOOLEAN /\ attempt.limit \in Nat
  BY OpensAre DEF Control, Typed, Attempts
<1> DEFINE checked == Judged(o.board)
<1>2. checked \in BOOLEAN
  BY <1>1
<1> HIDE DEF checked
<1>3. /\ Result(o, checked, seeded) \in Results /\ Result(o, checked, seeded).board = o.board
      /\ Result(o, checked, seeded).checked = checked /\ Result(o, checked, seeded).work = o.work
  BY <1>1, <1>2 DEF Result, Results
<1>4. QED
  BY <1>3 DEF checked

LEMMA RetryLimits ==
    ASSUME Control, NEW w \in Nat
    PROVE  /\ RetryLimit(w) \in Nat
           /\ ~run.layout => RetrySeeds * RetryLimit(w) <= RungLeft(w)
<1>1. WorkLeft(w) \in Int /\ CheckCharge \in Nat /\ keep.reserve \in Nat /\ RungLeft(w) \in Nat
  BY Lefts
<1>2. /\ Positive(WorkLeft(w) - CheckCharge - keep.reserve) \in Nat
      /\ Positive(RungLeft(w)) = RungLeft(w)
  BY <1>1 DEF Positive, Larger
<1>3. CASE run.layout
  BY <1>2, <1>3, Shares, Numbers DEF RetryLimit
<1>4. CASE ~run.layout
  <2>1. RetryLimit(w) = RungShare(RungLeft(w), RetrySeeds)
    BY <1>4 DEF RetryLimit
  <2>2. RungLeft(w) \in Int /\ RetrySeeds \in Int
    BY <1>1, Numbers
  <2>3. QED
    BY <1>2, <2>1, <2>2, RungShares, Numbers
<1>5. QED
  BY <1>3, <1>4

LEMMA RungPanics ==
    ASSUME Control, NEW o, RungEnds(o), o.fate \in {"panic", "checkPanic"}
    PROVE  /\ Dropped /\ attempt' = NoAttempt /\ plan' = [plan EXCEPT !.cands = WithoutFirst(@)]
           /\ beyond' = beyond /\ stage' = stage /\ lead' = lead
           /\ run' = run /\ late' = late /\ probes' = probes /\ rounds' = rounds
  BY DEF RungEnds

LEMMA RungRouted ==
    ASSUME Control, NEW o, Outcome(o), RungEnds(o), o.fate \notin {"panic", "checkPanic"}
    PROVE  LET checked == Judged(o.board)
               r       == Result(o, checked, FALSE)
           IN  /\ o.fate = "routed" /\ checked \in BOOLEAN /\ r \in Results
               /\ Charge(o.work, checked)
               /\ NoteRank(o.board, checked) /\ NoteCheck(o.board, checked)
               /\ \/ /\ RetryWanted(r)
                     /\ Begin("retry", attempt.mode, RetryLimit(work'), RetrySeeds, r)
                     /\ UNCHANGED <<best, output, learned, flow>>
                  \/ ~RetryWanted(r) /\ Settle(r) /\ beyond' = beyond
               /\ failed' = failed
               /\ run' = run /\ late' = late /\ probes' = probes /\ rounds' = rounds
<1> DEFINE checked == Judged(o.board)
           r       == Result(o, checked, FALSE)
<1>1. o.fate = "routed" /\ o.board \in Boards /\ o.work \in Nat
  BY DEF Outcome, RungEnds
<1>2. attempt # NoAttempt
  BY DEF RungEnds, NoAttempt
<1>3. checked \in BOOLEAN /\ r \in Results
  BY <1>1, <1>2, ResultIs, OpensAre
<1>4. /\ Charge(o.work, checked)
      /\ NoteRank(o.board, checked) /\ NoteCheck(o.board, checked)
      /\ IF RetryWanted(r)
         THEN /\ Begin("retry", attempt.mode, RetryLimit(work'), RetrySeeds, r)
              /\ UNCHANGED <<best, output, learned, flow>>
         ELSE Settle(r) /\ UNCHANGED beyond
      /\ failed' = failed
  BY <1>1, Zenon DEF RungEnds
<1>5. run' = run /\ late' = late /\ probes' = probes /\ rounds' = rounds
  BY DEF RungEnds
<1> HIDE DEF checked, r
<1>6. \/ /\ RetryWanted(r)
         /\ Begin("retry", attempt.mode, RetryLimit(work'), RetrySeeds, r)
         /\ UNCHANGED <<best, output, learned, flow>>
      \/ ~RetryWanted(r) /\ Settle(r) /\ beyond' = beyond
  BY <1>4
<1>7. QED
  BY <1>1, <1>3, <1>4, <1>5, <1>6, Zenon DEF checked, r

LEMMA RungEndsKeeps ==
    ASSUME Control, NEW o, Outcome(o), RungEnds(o)
    PROVE  Control'
<1>1. /\ stage = "rung" /\ plan.cands # {} /\ attempt.mode = First(plan.cands)
      /\ attempt # NoAttempt /\ attempt.mode \in Modes /\ failed \in BOOLEAN
  BY DEF RungEnds, Control, Routes, NoAttempt, Typed, Data
<1>2. CASE o.fate \in {"panic", "checkPanic"}
  <2>1. /\ run' = run /\ Modes' = Modes /\ late' = late /\ probes' = probes /\ rounds' = rounds
        /\ beyond' = beyond /\ stage' = stage /\ lead' = lead /\ attempt' = NoAttempt
        /\ plan' = [plan EXCEPT !.cands = WithoutFirst(@)]
        /\ work' \in Nat /\ overrun' \in Nat /\ failed' = TRUE /\ best' = best /\ output' = output
        /\ keep' = keep /\ last' = last /\ slowest' = slowest /\ extra' = extra
    BY <1>2, RungPanics, Panicked DEF Modes
  <2>2. Data'
    BY <2>1 DEF Data, Probed, Control, Typed
  <2>3. Place' /\ OnALattice'
    BY <2>1, NextOfThePlan
  <2>4. Placed'
    BY <1>1, <2>1 DEF Placed, Control
  <2>5. QED
    BY <2>1, <2>2, <2>3, <2>4, Rests
<1>3. CASE o.fate \notin {"panic", "checkPanic"}
  <2> DEFINE checked == Judged(o.board)
             r       == Result(o, checked, FALSE)
  <2>1. /\ checked \in BOOLEAN /\ r \in Results /\ Charge(o.work, checked) /\ failed' = failed
        /\ run' = run /\ late' = late /\ probes' = probes /\ rounds' = rounds
        /\ \/ /\ Begin("retry", attempt.mode, RetryLimit(work'), RetrySeeds, r)
              /\ UNCHANGED <<best, output, learned, flow>>
           \/ Settle(r) /\ beyond' = beyond
    BY <1>3, RungRouted
  <2> HIDE DEF checked, r
  <2>2. work' \in Nat /\ overrun' \in Nat
    BY <1>1, <2>1, Charged DEF Outcome
  <2>3. CASE Settle(r) /\ beyond' = beyond
    <3>1. attempt.kind \in {"rung", "retry"}
      BY DEF RungEnds
    <3>2. QED
      BY <1>1, <2>1, <2>2, <2>3, <3>1, SettlingKeeps
  <2>4. CASE /\ Begin("retry", attempt.mode, RetryLimit(work'), RetrySeeds, r)
             /\ UNCHANGED <<best, output, learned, flow>>
    <3>1. /\ best' = best /\ output' = output /\ keep' = keep /\ last' = last /\ slowest' = slowest
          /\ extra' = extra /\ stage' = stage /\ plan' = plan /\ lead' = lead /\ Modes' = Modes
      BY <2>1, <2>4 DEF learned, flow, Modes
    <3>2. /\ attempt' = [kind |-> "retry", mode |-> attempt.mode, limit |-> RetryLimit(work'),
                         times |-> RetrySeeds, result |-> r]
          /\ beyond' \in Nat
      BY <2>4 DEF Begin, Control, Typed, Data
    <3>3. RetryLimit(work') \in Nat /\ RetrySeeds \in Nat /\ attempt.mode \in Nat
      BY <1>1, <2>2, RetryLimits, Numbers, ControlTypes
    <3>4. /\ attempt' \in Attempts /\ attempt'.mode = attempt.mode /\ attempt'.kind = "retry"
          /\ attempt'.result = r
      BY <2>1, <3>2, <3>3 DEF Attempts, Kinds
    <3>5. Data'
      BY <2>1, <2>2, <3>1, <3>2 DEF Data, Probed, Control, Typed
    <3>6. Place' /\ OnALattice' /\ Placed'
      BY <2>1, <3>1 DEF Place, OnALattice, Placed, Control, Typed
    <3>7. Typed'
      BY <1>1, <3>1, <3>4, <3>5, <3>6 DEF Typed
    <3>8. Routes'
      BY <1>1, <2>1, <3>1, <3>4 DEF Routes
    <3>9. QED
      BY <3>6, <3>7, <3>8 DEF Control
  <2>5. QED
    BY <2>1, <2>3, <2>4
<1>4. QED
  BY <1>2, <1>3

\* The rung's own board, and its seeds' where they are better.
Own == [attempt.result EXCEPT !.seeded = TRUE]
Seeds(o) ==
    [Own EXCEPT !.board = o.board, !.checked = Judged(o.board), !.own = o.work]
SeedsWin(o) ==
    /\ Judged(o.board)
    /\ \/ ~Own.checked
       \/ Before(RankOf(Checked(o.board), o.board), RankOf(Checked(Own.board), Own.board))

LEMMA RetryIs ==
    ASSUME Control, NEW o, Outcome(o), RetryEnds(o)
    PROVE  /\ Own \in Results /\ attempt.result \in Results
           /\ Own.board = attempt.result.board /\ Own.checked = attempt.result.checked
           /\ Own.work = attempt.result.work
           /\ \/ /\ failed' = TRUE /\ work' = work /\ overrun' = overrun /\ least' = least
                 /\ Settle(Own)
              \/ /\ failed' = TRUE /\ Charge(o.work, FALSE) /\ least' = least
                 /\ Settle(Own)
              \/ /\ failed' = failed /\ Charge(o.work, Judged(o.board))
                 /\ o.fate = "routed" /\ o.board \in Boards /\ Judged(o.board) \in BOOLEAN
                 /\ NoteRank(o.board, Judged(o.board))
                 /\ \/ SeedsWin(o) /\ Settle(Seeds(o))
                    \/ ~SeedsWin(o) /\ Settle(Own)
                 /\ Seeds(o) \in Results /\ Seeds(o).board = o.board
                 /\ Seeds(o).checked = Judged(o.board) /\ Seeds(o).work = Own.work
           /\ run' = run /\ late' = late /\ probes' = probes /\ rounds' = rounds
           /\ beyond' = beyond
<1>1. attempt.result \in Results /\ attempt # NoAttempt
  BY DEF RetryEnds, Control, Routes, NoAttempt
<1>2. /\ Own \in Results /\ Own.board = attempt.result.board /\ Own.checked = attempt.result.checked
      /\ Own.work = attempt.result.work
  BY <1>1 DEF Own, Results
<1>3. /\ run' = run /\ late' = late /\ probes' = probes /\ rounds' = rounds
      /\ beyond' = beyond
  BY DEF RetryEnds
<1>4. CASE o.fate \in {"panic", "checkPanic", "error"}
  <2>1. \/ /\ failed' = TRUE /\ work' = work /\ overrun' = overrun /\ least' = least
           /\ Settle(Own)
        \/ /\ failed' = TRUE /\ Charge(o.work, FALSE) /\ least' = least
           /\ Settle(Own)
    BY <1>4 DEF RetryEnds, Own
  <2>2. QED
    BY <1>1, <1>2, <1>3, <2>1
<1>5. CASE o.fate = "routed"
  <2>1. o.board \in Boards /\ o.work \in Nat /\ Judged(o.board) \in BOOLEAN
    BY <1>5, OpensAre DEF Outcome
  <2>2. /\ failed' = failed /\ Charge(o.work, Judged(o.board))
        /\ NoteRank(o.board, Judged(o.board))
        /\ Settle(IF SeedsWin(o) THEN Seeds(o) ELSE Own)
    BY <1>5, Zenon DEF RetryEnds, Own, Seeds, SeedsWin
  <2> DEFINE checked == Judged(o.board)
  <2>3. checked \in BOOLEAN
    BY <2>1
  <2>4. Seeds(o) = [Own EXCEPT !.board = o.board, !.checked = checked, !.own = o.work]
    BY Zenon DEF Seeds
  <2> HIDE DEF checked
  <2>5. /\ Seeds(o) \in Results /\ Seeds(o).board = o.board /\ Seeds(o).checked = checked
        /\ Seeds(o).work = Own.work
    BY <1>2, <2>1, <2>3, <2>4 DEF Results
  <2>6. \/ SeedsWin(o) /\ Settle(Seeds(o))
        \/ ~SeedsWin(o) /\ Settle(Own)
    BY <2>2
  <2>7. QED
    BY <1>1, <1>2, <1>3, <1>5, <2>1, <2>2, <2>5, <2>6, Zenon DEF checked
<1>6. QED
  BY <1>4, <1>5 DEF Outcome

LEMMA RetryEndsKeeps ==
    ASSUME Control, NEW o, Outcome(o), RetryEnds(o)
    PROVE  Control'
<1>1. /\ attempt # NoAttempt /\ attempt.kind \in {"rung", "retry"} /\ failed \in BOOLEAN
      /\ o.work \in Nat
  BY DEF RetryEnds, Control, NoAttempt, Typed, Data, Outcome
<1>2. /\ work' \in Nat /\ overrun' \in Nat /\ failed' \in BOOLEAN
      /\ \E r \in Results : Settle(r)
  <2>1. CASE work' = work /\ overrun' = overrun /\ failed' = TRUE /\ Settle(Own)
    BY <2>1, RetryIs, ControlTypes
  <2>2. CASE failed' = TRUE /\ Charge(o.work, FALSE) /\ Settle(Own)
    BY <1>1, <2>2, RetryIs, Charged
  <2>3. CASE /\ failed' = failed /\ Charge(o.work, Judged(o.board)) /\ Judged(o.board) \in BOOLEAN
             /\ (Settle(Seeds(o)) /\ Seeds(o) \in Results) \/ Settle(Own)
    BY <1>1, <2>3, RetryIs, Charged
  <2>4. QED
    BY <2>1, <2>2, <2>3, RetryIs
<1>3. UNCHANGED <<run, late, probes, rounds, beyond>>
  BY RetryIs
<1>4. QED
  BY <1>1, <1>2, <1>3, SettlingKeeps

LEMMA VariedIs ==
    ASSUME Control, attempt # NoAttempt, best # NoBest, run' = run,
           NEW o, Outcome(o), Varied(o)
    PROVE  /\ work' \in Nat /\ overrun' \in Nat /\ failed' \in BOOLEAN
           /\ best' \in Bests /\ best'.mode = best.mode
           /\ output' = output \/ \E b \in Boards : output' = <<b>>
           /\ keep' = keep /\ last' = last /\ slowest' = slowest /\ extra' = extra
<1>1. best \in Bests /\ failed \in BOOLEAN /\ o.work \in Nat
  BY DEF Control, Typed, Data, Outcome
<1>2. CASE Dropped
  BY <1>1, <1>2, Panicked
<1>3. CASE Charge(o.work, FALSE) /\ failed' = TRUE /\ UNCHANGED <<judgedVars, learned>>
  BY <1>1, <1>3, Charged DEF judgedVars, learned
<1>4. CASE o.fate = "routed"
  <2> DEFINE checked == Judged(o.board)
             opens   == Opens(o.board, checked)
  <2>1. /\ Charge(o.work, checked) /\ Keeps(o, best.size, checked)
        /\ UNCHANGED <<learned, failed>>
    BY <1>4, Zenon DEF Varied
  <2>2. o.board \in Boards /\ checked \in BOOLEAN /\ opens \in Nat \X Nat
    BY <1>4, OpensAre DEF Outcome
  <2>3. \/ /\ best' = [best EXCEPT !.board = o.board, !.opens = opens, !.own = o.work]
           /\ output' = <<o.board>>
        \/ best' = best /\ output' = output
    BY <2>1, Zenon DEF Keeps
  <2> HIDE DEF checked, opens
  <2>4. best' \in Bests /\ best'.mode = best.mode
    BY <1>1, <2>2, <2>3 DEF Bests
  <2>5. work' \in Nat /\ overrun' \in Nat
    BY <1>1, <2>1, <2>2, Charged
  <2>6. QED
    BY <1>1, <2>1, <2>2, <2>3, <2>4, <2>5 DEF learned
<1>5. QED
  BY <1>2, <1>3, <1>4 DEF Varied

LEMMA RoundEndsKeeps ==
    ASSUME Control, NEW o, Outcome(o), RoundEnds(o)
    PROVE  Control'
<1>1. stage \in {"A", "seeds"} /\ best # NoBest /\ attempt # NoAttempt
  BY DEF RoundEnds, Control, Routes, NoAttempt
<1>2. /\ run' = run /\ Modes' = Modes /\ late' = late /\ rounds' = rounds /\ beyond' = beyond
      /\ probes' = probes /\ attempt' = NoAttempt /\ Varied(o) /\ AfterRound
  BY DEF RoundEnds, Modes
<1>3. /\ work' \in Nat /\ overrun' \in Nat /\ failed' \in BOOLEAN
      /\ best' \in Bests /\ best'.mode = best.mode
      /\ output' = output \/ \E b \in Boards : output' = <<b>>
      /\ keep' = keep /\ last' = last /\ slowest' = slowest /\ extra' = extra
  BY <1>1, <1>2, VariedIs
<1>4. best'.mode \in Modes /\ best' # NoBest
  BY <1>1, <1>3, ControlTypes DEF Control, Typed, Data, NoBest
<1>5. Data'
  BY <1>2, <1>3, <1>4 DEF Data, Probed, Control, Typed
<1>6. /\ Place' /\ OnALattice' /\ lead'.mode = lead.mode
      /\ stage = "A" => stage' = "B"
      /\ stage = "seeds" => stage' = "seeds"
  BY <1>1, <1>2, <1>4, AfterRoundPlace
<1>7. Placed'
  BY <1>1, <1>2, <1>4, <1>6 DEF Placed, Control
<1>8. QED
  BY <1>2, <1>5, <1>6, <1>7, Rests

LEMMA StepEndsKeeps ==
    ASSUME Control, NEW o, Outcome(o), StepEnds(o)
    PROVE  Control'
<1>1. stage \in {"steps", "clearance"} /\ best # NoBest /\ attempt # NoAttempt
  BY DEF StepEnds, Control, Routes, NoAttempt
<1>2. /\ run' = run /\ Modes' = Modes /\ late' = late /\ rounds' = rounds /\ beyond' = beyond
      /\ probes' = probes /\ attempt' = NoAttempt /\ Varied(o) /\ plan' = plan /\ lead' = lead
      /\ stage' \in {"clearance", "done"}
  BY DEF StepEnds, Modes
<1>3. /\ work' \in Nat /\ overrun' \in Nat /\ failed' \in BOOLEAN
      /\ best' \in Bests /\ best'.mode = best.mode
      /\ output' = output \/ \E b \in Boards : output' = <<b>>
      /\ keep' = keep /\ last' = last /\ slowest' = slowest /\ extra' = extra
  BY <1>1, <1>2, VariedIs
<1>4. best'.mode \in Modes /\ best' # NoBest
  BY <1>1, <1>3, ControlTypes DEF Control, Typed, Data, NoBest
<1>5. Data'
  BY <1>2, <1>3, <1>4 DEF Data, Probed, Control, Typed
<1>6. Place' /\ OnALattice' /\ Placed'
  BY <1>2, ControlTypes DEF Place, OnALattice, Placed, Stages, Control
<1>7. QED
  BY <1>2, <1>5, <1>6, Rests

\* Every step of the ladder keeps the control.
LEMMA LadderKeepsControl == ASSUME Control, LadderStep PROVE Control'
<1>1. ASSUME NEW o, Outcome(o), EndsAlone(o) \/ RungEnds(o) \/ Error(o) PROVE Control'
  BY <1>1, ContinuationEndsKeeps, RetryEndsKeeps, RoundEndsKeeps, StepEndsKeeps, RungEndsKeeps,
     ErrorKeeps DEF EndsAlone
<1>2. QED
  BY <1>1, LateKeeps, DecideKeeps, NoStepKeeps, BeginningKeeps, ProbeEndsKeeps DEF LadderStep

---------------------------------------------------------------------------
(* The best board: how boards rank, and what the gate leaves out *)

LEMMA BeforeIs ==
    ASSUME NEW a \in Ranks, NEW b \in Ranks
    PROVE  Before(a, b) <=>
              \/ a[1] < b[1]
              \/ a[1] = b[1] /\ a[2] < b[2]
              \/ a[1] = b[1] /\ a[2] = b[2] /\ a[3] < b[3]
              \/ a[1] = b[1] /\ a[2] = b[2] /\ a[3] = b[3] /\ a[4] < b[4]
<1> DEFINE At(i) == a[i] < b[i] /\ \A j \in 1..(i - 1) : a[j] = b[j]
<1>1. Before(a, b) <=> At(1) \/ At(2) \/ At(3) \/ At(4)
  <2>1. 1..4 = {1, 2, 3, 4}
    OBVIOUS
  <2>2. Before(a, b) <=> \E i \in {1, 2, 3, 4} : At(i)
    BY <2>1, Zenon DEF Before
  <2> HIDE DEF At
  <2>3. QED
    BY <2>2
<1>2. /\ At(1) <=> a[1] < b[1]
      /\ At(2) <=> a[2] < b[2] /\ a[1] = b[1]
      /\ At(3) <=> a[3] < b[3] /\ a[1] = b[1] /\ a[2] = b[2]
      /\ At(4) <=> a[4] < b[4] /\ a[1] = b[1] /\ a[2] = b[2] /\ a[3] = b[3]
  <2>1. 1..(1-1) = {} /\ 1..(2-1) = {1} /\ 1..(3-1) = {1, 2} /\ 1..(4-1) = {1, 2, 3}
    OBVIOUS
  <2>2. QED
    BY <2>1, Zenon
<1> HIDE DEF At
<1>3. QED
  BY <1>1, <1>2

\* Boards are ranked in one order.
LEMMA BeforeOrders ==
    ASSUME NEW a \in Ranks, NEW b \in Ranks
    PROVE  ~Before(a, a) /\ (Before(a, b) => ~Before(b, a))
  BY BeforeIs DEF Ranks

LEMMA NotBeforeOnward ==
    ASSUME NEW a \in Ranks, NEW b \in Ranks, NEW c \in Ranks, ~Before(a, b), ~Before(b, c)
    PROVE  ~Before(a, c)
<1>1. /\ a[1] \in Nat /\ a[2] \in Nat /\ a[3] \in Nat /\ a[4] \in Nat
      /\ b[1] \in Nat /\ b[2] \in Nat /\ b[3] \in Nat /\ b[4] \in Nat
      /\ c[1] \in Nat /\ c[2] \in Nat /\ c[3] \in Nat /\ c[4] \in Nat
  BY DEF Ranks
<1>2. QED
  BY <1>1, BeforeIs

LEMMA RanksAre ==
    ASSUME NEW opens \in Nat \X Nat, NEW board \in Boards
    PROVE  /\ RankOf(opens, board) \in Ranks
           /\ RankOf(opens, board)[1] = opens[1] /\ RankOf(opens, board)[2] = opens[2]
           /\ RankOf(opens, board)[3] = board.pours /\ RankOf(opens, board)[4] = board.copper
<1>1. {board.pours, board.copper} \subseteq Nat
  BY LadderConstants
<1>2. QED
  BY <1>1 DEF RankOf, Ranks

\* A board the gate keeps from KiCad would not have ranked before the best.
LEMMA GateKeeps ==
    ASSUME Control, NEW board \in Boards, ~Judged(board), run.kept = <<>>, run.top = 0
    PROVE  best # NoBest /\ ~Before(RankOf(Checked(board), board), BestRank)
<1>1. best # NoBest
  <2>1. SUFFICES ASSUME best = NoBest PROVE Judged(board)
    OBVIOUS
  <2>2. Wants(board, <<>>, best.board, late, run.kept, counts, run.top)
    BY DEF Wants
  <2>3. QED
    BY <2>1, <2>2 DEF Judged
<1>2. best.opens \in Nat \X Nat /\ best.board \in Boards
  BY <1>1 DEF Control, Typed, Data, Bests
<1>3. /\ ~PoursBetter(board, best.opens, best.board)
      /\ ~Wants(board, best.opens, best.board, late, run.kept, counts, run.top)
  BY <1>1 DEF Judged
<1>4. ~CouldWin(board, best.opens, best.board)
  BY <1>3 DEF Wants
<1>5. best.opens # <<>>
  <2>1. PICK a \in Nat, b \in Nat : best.opens = <<a, b>>
    BY <1>2
  <2>2. Len(<<a, b>>) = 2 /\ Len(<<>>) = 0
    OBVIOUS
  <2>3. QED
    BY <2>1, <2>2
<1>6. ~(board.count = best.opens[1] /\ board.pours < best.board.pours)
  BY <1>3, <1>5 DEF PoursBetter
<1>7. /\ {board.count, board.kicad, board.starved, board.pours, board.copper} \subseteq Nat
      /\ {best.board.pours, best.board.copper} \subseteq Nat
      /\ best.opens[1] \in Nat /\ best.opens[2] \in Nat
  BY <1>2, LadderConstants
<1>8. Checked(board) \in Nat \X Nat /\ Checked(board)[1] = board.count + board.kicad
      /\ Checked(board)[2] = board.starved
  BY <1>7 DEF Checked
<1> DEFINE a == RankOf(Checked(board), board)
           b == BestRank
<1>9. /\ a \in Ranks /\ a[1] = board.count + board.kicad /\ a[2] = board.starved
      /\ a[3] = board.pours /\ a[4] = board.copper
  BY <1>8, RanksAre
<1>10. /\ b \in Ranks /\ b[1] = best.opens[1] /\ b[2] = best.opens[2]
       /\ b[3] = best.board.pours /\ b[4] = best.board.copper
  BY <1>2, RanksAre DEF BestRank
<1>11. /\ ~(board.count < best.opens[1])
       /\ board.count = best.opens[1] => best.opens[2] = 0 /\ ~(board.copper < best.board.copper)
  BY <1>4, <1>7 DEF CouldWin
<1> HIDE DEF a, b
<1>12. ~Before(a, b)
  BY <1>6, <1>7, <1>9, <1>10, <1>11, BeforeIs
<1>13. QED
  BY <1>1, <1>12 DEF a, b

\* What the history notes.
LEMMA Noted ==
    ASSUME NEW board, NEW checked, NoteRank(board, checked)
    PROVE  \/ least' = least
           \/ /\ least' = RankOf(Checked(board), board)
              /\ checked \/ (run.top = 0 /\ run.kept = <<>>)
  BY DEF NoteRank

LEMMA BestRankIs == ASSUME Control, best # NoBest PROVE BestRank \in Ranks
<1>1. best.opens \in Nat \X Nat /\ best.board \in Boards
  BY DEF Control, Typed, Data, Bests
<1>2. QED
  BY <1>1, RanksAre DEF BestRank

\* A rung that is settled leaves the better of it and the best board so far.
LEMMA SettleBest ==
    ASSUME Control, Control', attempt.kind \in {"rung", "retry"},
           best # NoBest => output = <<best.board>>,
           NEW r \in Results, Settle(r), best' # NoBest
    PROVE  /\ output' = <<best'.board>>
           /\ BestRank' \in Ranks
           /\ best # NoBest => ~Before(BestRank, BestRank')
           /\ r.checked => ~Before(RankOf(Checked(r.board), r.board), BestRank')
<1>1. BestRank' \in Ranks
  <2>1. best'.opens \in Nat \X Nat /\ best'.board \in Boards
    BY DEF Control, Typed, Data, Bests
  <2>2. QED
    BY <2>1, RanksAre DEF BestRank
<1>2. r.board \in Boards /\ r.checked \in BOOLEAN
  BY DEF Results
<1> DEFINE rank == RankOf(Checked(r.board), r.board)
<1>3. rank \in Ranks
  BY <1>2, OpensAre, RanksAre
<1>4. r.checked => RungOpens(r) = Checked(r.board)
  BY DEF RungOpens, Opens
<1>5. CASE Beats(r.board, r.checked)
  <2>1. /\ best'.board = r.board /\ best'.opens = RungOpens(r)
        /\ output' = <<r.board>>
    <3>1. /\ best' = [mode |-> attempt.mode, board |-> r.board, opens |-> RungOpens(r),
                      own |-> r.own, size |-> Sizes[plan.pitch], seeded |-> r.seeded,
                      limit |-> r.limit]
          /\ output' = <<r.board>>
      BY <1>5, SettleIs
    <3>2. QED
      BY <3>1
  <2>2. r.checked => BestRank' = rank
    BY <1>4, <2>1 DEF BestRank
  <2>3. best # NoBest => r.checked /\ Before(rank, BestRank)
    BY <1>5 DEF Beats, BestRank
  <2> HIDE DEF rank
  <2>4. r.checked => ~Before(rank, BestRank')
    BY <1>3, <2>2, BeforeOrders
  <2>5. best # NoBest => ~Before(BestRank, BestRank')
    BY <1>3, <2>2, <2>3, BestRankIs, BeforeOrders
  <2>6. QED
    BY <1>1, <2>1, <2>4, <2>5 DEF rank
<1>6. CASE ~Beats(r.board, r.checked)
  <2>1. best' = best /\ output' = output
    BY <1>6, SettleIs
  <2>2. BestRank' = BestRank
    BY <2>1 DEF BestRank
  <2>3. best # NoBest /\ (r.checked => ~Before(rank, BestRank))
    BY <1>6 DEF Beats, BestRank
  <2> HIDE DEF rank
  <2>4. ~Before(BestRank, BestRank')
    BY <1>1, <2>2, BeforeOrders
  <2>5. QED
    BY <1>1, <2>1, <2>2, <2>3, <2>4 DEF rank
<1>7. QED
  BY <1>5, <1>6

\* A step that leaves the board, and the ranks noted, leaves both related.
LEMMA NothingNoted ==
    ASSUME BestKept, best' = best, output' = output, least' = least,
           attempt.kind # "retry" \/ stage' = "failed" \/ attempt' = attempt,
           stage = "failed" => stage' = "failed"
    PROVE  BestKept'
<1>1. BestRank' = BestRank
  BY DEF BestRank
<1>2. attempt' = attempt => ResultRank' = ResultRank
  BY DEF ResultRank
<1>3. QED
  BY <1>1, <1>2, Zenon DEF BestKept, Ranks

LEMMA ContinuationBest ==
    ASSUME Control, BestKept, Control', NEW o, Outcome(o), ContinuationEnds(o)
    PROVE  BestKept'
<1>1. /\ best = NoBest /\ attempt.kind = "continuation" /\ stage = "continue"
      /\ attempt' = NoAttempt /\ stage' = "rungs"
  BY DEF ContinuationEnds, Control, Routes, Placed
<1>2. least = <<>>
  BY <1>1 DEF BestKept
<1>3. CASE best' = best /\ least' = least
  BY <1>1, <1>2, <1>3 DEF BestKept
<1>4. CASE o.fate = "routed"
  <2> DEFINE checked == Judged(o.board)
  <2>1. /\ NoteRank(o.board, checked) /\ output' = <<o.board>>
        /\ best'.board = o.board /\ best'.opens = Opens(o.board, checked)
    BY <1>4 DEF ContinuationEnds
  <2>2. o.board \in Boards /\ checked \in BOOLEAN
    BY <1>4, OpensAre DEF Outcome
  <2> DEFINE rank == RankOf(Checked(o.board), o.board)
  <2>3. rank \in Ranks
    BY <2>2, OpensAre, RanksAre
  <2>4. checked \/ ~(run.top = 0 /\ run.kept = <<>>)
    BY <1>1, <2>2, GateKeeps
  <2> HIDE DEF checked
  <2>5. checked => BestRank' = rank
    BY <2>1 DEF BestRank, Opens
  <2>6. least' = least \/ (least' = rank /\ checked)
    BY <2>1, <2>4, Noted
  <2> HIDE DEF rank
  <2>7. CASE least' = least
    BY <1>1, <1>2, <2>1, <2>7 DEF BestKept
  <2>8. CASE least' = rank /\ checked
    <3>1. ~Before(least', BestRank')
      BY <2>3, <2>5, <2>8, BeforeOrders
    <3>2. best' # NoBest
      <4>1. best' = [mode |-> attempt.mode, board |-> o.board, opens |-> Opens(o.board, checked),
                     own |-> probes.work + o.work, size |-> Sizes[1], seeded |-> FALSE,
                     limit |-> DeadlineWork]
        BY <1>4, Zenon DEF ContinuationEnds, checked
      <4>2. best'.mode \in Modes
        BY <4>1 DEF ContinuationEnds, Control, Typed, NoAttempt
      <4>3. QED
        BY <4>2, ControlTypes DEF NoBest
    <3>3. QED
      BY <2>1, <2>3, <2>8, <3>1, <3>2 DEF BestKept
  <2>9. QED
    BY <2>6, <2>7, <2>8
<1>5. QED
  BY <1>3, <1>4 DEF ContinuationEnds, Dropped, judgedVars

\* Once no attempt routes, what was noted is about the best board.
LEMMA Concludes ==
    ASSUME BestKept, attempt.kind # "retry", stage # "failed"
    PROVE  least # <<>> => best # NoBest /\ ~Before(least, BestRank)
  BY DEF BestKept

LEMMA RungBest ==
    ASSUME Control, BestKept, Control', NEW o, Outcome(o), RungEnds(o)
    PROVE  BestKept'
<1>1. /\ attempt.kind = "rung" /\ stage = "rung" /\ attempt # NoAttempt
  BY DEF RungEnds, Control, Routes, NoAttempt
<1>2. /\ least # <<>> => best # NoBest /\ ~Before(least, BestRank)
      /\ least = <<>> \/ least \in Ranks
      /\ best # NoBest => output = <<best.board>>
  BY <1>1, Concludes DEF BestKept
<1>3. CASE o.fate \in {"panic", "checkPanic"}
  BY <1>1, <1>3, RungPanics, Panicked, NothingNoted
<1>4. CASE o.fate \notin {"panic", "checkPanic"}
  <2> DEFINE checked == Judged(o.board)
             r       == Result(o, checked, FALSE)
             rank    == RankOf(Checked(o.board), o.board)
  <2>1. /\ o.fate = "routed" /\ checked \in BOOLEAN /\ r \in Results /\ Charge(o.work, checked)
        /\ NoteRank(o.board, checked) /\ run' = run
        /\ \/ /\ Begin("retry", attempt.mode, RetryLimit(work'), RetrySeeds, r)
              /\ UNCHANGED <<best, output, learned, flow>>
           \/ Settle(r) /\ beyond' = beyond
    BY <1>4, RungRouted
  <2>2. o.board \in Boards
    BY <2>1 DEF Outcome
  <2>3. r.board = o.board /\ r.checked = checked
    BY DEF Result
  <2>4. rank \in Ranks
    BY <2>2, OpensAre, RanksAre
  <2>5. ~checked /\ run.top = 0 /\ run.kept = <<>> => best # NoBest /\ ~Before(rank, BestRank)
    BY <2>2, GateKeeps
  <2>6. \/ least' = least
        \/ least' = rank /\ (checked \/ (run.top = 0 /\ run.kept = <<>>))
    BY <2>1, Noted
  <2> HIDE DEF checked, r
  <2>7. CASE Settle(r)
    <3>1. best' # NoBest /\ stage' # "failed"
      BY <1>1, <2>1, <2>7, Settled, Charged DEF Outcome
    <3>2. /\ output' = <<best'.board>> /\ BestRank' \in Ranks
          /\ best # NoBest => ~Before(BestRank, BestRank')
          /\ checked => ~Before(rank, BestRank')
      BY <1>1, <1>2, <2>1, <2>3, <2>7, <3>1, SettleBest
    <3> HIDE DEF rank
    <3>3. CASE least' = least
      <4>1. least # <<>> => ~Before(least, BestRank')
        BY <1>2, <3>2, BestRankIs, NotBeforeOnward
      <4>2. QED
        BY <1>2, <3>1, <3>2, <3>3, <4>1 DEF BestKept
    <3>4. CASE least' = rank /\ (checked \/ (run.top = 0 /\ run.kept = <<>>))
      <4>1. ~Before(rank, BestRank')
        BY <2>1, <2>4, <2>5, <3>2, <3>4, BestRankIs, NotBeforeOnward
      <4>2. QED
        BY <2>4, <3>1, <3>2, <3>4, <4>1 DEF BestKept
    <3>5. QED
      BY <2>6, <3>3, <3>4
  <2>8. CASE /\ Begin("retry", attempt.mode, RetryLimit(work'), RetrySeeds, r)
             /\ UNCHANGED <<best, output, learned, flow>>
    <3>1. best' = best /\ output' = output /\ BestRank' = BestRank /\ stage' = stage
      BY <2>8 DEF BestRank, flow
    <3>2. attempt'.kind = "retry" /\ attempt'.result = r
      BY <2>8 DEF Begin
    <3>3. ResultRank' = rank /\ attempt'.result.checked = checked
      BY <2>3, <3>2 DEF ResultRank
    <3> HIDE DEF rank
    <3>4. CASE least' = least
      BY <1>2, <3>1, <3>4 DEF BestKept
    <3>5. CASE least' = rank /\ (checked \/ (run.top = 0 /\ run.kept = <<>>))
      <4>1. ~Before(rank, rank)
        BY <2>4, BeforeOrders
      <4>2. QED
        BY <1>2, <2>1, <2>4, <2>5, <3>1, <3>2, <3>3, <3>5, <4>1 DEF BestKept
    <3>6. QED
      BY <2>6, <3>4, <3>5
  <2>9. QED
    BY <2>1, <2>7, <2>8
<1>5. QED
  BY <1>3, <1>4

LEMMA RetryBest ==
    ASSUME Control, BestKept, Control', NEW o, Outcome(o), RetryEnds(o)
    PROVE  BestKept'
<1>1. attempt.kind = "retry" /\ stage = "rung" /\ attempt # NoAttempt
  BY DEF RetryEnds, Control, Routes, NoAttempt
<1>2. /\ Own \in Results /\ Own.board = attempt.result.board /\ Own.checked = attempt.result.checked
      /\ attempt.result \in Results /\ run' = run
  BY RetryIs
<1> DEFINE own  == RankOf(Checked(Own.board), Own.board)
           rank == RankOf(Checked(o.board), o.board)
<1>3. own = ResultRank /\ own \in Ranks
  <2>1. Own.board \in Boards
    BY <1>2 DEF Results
  <2>2. own \in Ranks
    BY <2>1, OpensAre, RanksAre
  <2>3. QED
    BY <1>2, <2>2 DEF ResultRank
<1>4. /\ least # <<>> =>
           \/ best # NoBest /\ ~Before(least, BestRank)
           \/ Own.checked /\ ~Before(least, own)
      /\ least = <<>> \/ least \in Ranks
      /\ best # NoBest => output = <<best.board>>
  <2> HIDE DEF own
  <2>1. QED
    BY <1>1, <1>2, <1>3 DEF BestKept
\* Whichever of the two is settled, the best board ranks no later than before.
<1>5. ASSUME NEW r \in Results, Settle(r)
      PROVE  /\ best' # NoBest /\ output' = <<best'.board>> /\ BestRank' \in Ranks
             /\ best # NoBest => ~Before(BestRank, BestRank')
             /\ r.checked => ~Before(RankOf(Checked(r.board), r.board), BestRank')
             /\ least \in Ranks /\ best # NoBest /\ ~Before(least, BestRank)
                => ~Before(least, BestRank')
             /\ stage' # "failed"
  <2>1. /\ best' # NoBest /\ stage' # "failed"
    <3>1. work' \in Nat /\ overrun' \in Nat
      BY DEF Control, Typed, Data
    <3>2. QED
      BY <1>1, <1>2, <1>5, <3>1, Settled
  <2>2. /\ output' = <<best'.board>> /\ BestRank' \in Ranks
        /\ best # NoBest => ~Before(BestRank, BestRank')
        /\ r.checked => ~Before(RankOf(Checked(r.board), r.board), BestRank')
    BY <1>1, <1>4, <1>5, <2>1, SettleBest
  <2>3. QED
    BY <2>1, <2>2, BestRankIs, NotBeforeOnward
<1>6. CASE least' = least /\ Settle(Own)
  <2>1. least # <<>> => ~Before(least, BestRank')
    <3>1. CASE least # <<>> /\ best # NoBest /\ ~Before(least, BestRank)
      BY <1>2, <1>4, <1>5, <1>6, <3>1
    <3>2. CASE least # <<>> /\ Own.checked /\ ~Before(least, own)
      <4>1. ~Before(own, BestRank') /\ BestRank' \in Ranks
        BY <1>2, <1>5, <1>6, <3>2
      <4> HIDE DEF own
      <4>2. QED
        BY <1>3, <1>4, <3>2, <4>1, NotBeforeOnward
    <3>3. QED
      BY <1>4, <3>1, <3>2
  <2>2. QED
    BY <1>2, <1>4, <1>5, <1>6, <2>1 DEF BestKept
<1>7. CASE /\ o.fate = "routed" /\ o.board \in Boards /\ Judged(o.board) \in BOOLEAN
           /\ NoteRank(o.board, Judged(o.board))
           /\ \/ SeedsWin(o) /\ Settle(Seeds(o))
              \/ ~SeedsWin(o) /\ Settle(Own)
           /\ Seeds(o) \in Results /\ Seeds(o).board = o.board
           /\ Seeds(o).checked = Judged(o.board)
  <2> DEFINE checked == Judged(o.board)
  <2>1. rank \in Ranks
    BY <1>7, OpensAre, RanksAre
  <2>2. ~checked /\ run.top = 0 /\ run.kept = <<>> => best # NoBest /\ ~Before(rank, BestRank)
    BY <1>7, GateKeeps
  <2>3. \/ least' = least
        \/ least' = rank /\ (checked \/ (run.top = 0 /\ run.kept = <<>>))
    BY <1>7, Noted
  <2>4. SeedsWin(o) <=> checked /\ (~Own.checked \/ Before(rank, own))
    BY DEF SeedsWin
  <2>5. PICK r \in Results :
          /\ Settle(r)
          /\ \/ r = Seeds(o) /\ checked /\ (~Own.checked \/ Before(rank, own))
             \/ r = Own /\ ~(checked /\ (~Own.checked \/ Before(rank, own)))
    BY <1>2, <1>7, <2>4
  <2>6. /\ best' # NoBest /\ output' = <<best'.board>> /\ BestRank' \in Ranks
        /\ best # NoBest => ~Before(BestRank, BestRank')
        /\ r.checked => ~Before(RankOf(Checked(r.board), r.board), BestRank')
        /\ least \in Ranks /\ best # NoBest /\ ~Before(least, BestRank)
           => ~Before(least, BestRank')
        /\ stage' # "failed"
    BY <1>5, <2>5
  <2>7. /\ checked => ~Before(rank, BestRank')
        /\ Own.checked => ~Before(own, BestRank')
    <3>1. CASE r = Seeds(o) /\ checked /\ (~Own.checked \/ Before(rank, own))
      <4>1. ~Before(rank, BestRank')
        BY <1>7, <2>6, <3>1
      <4> HIDE DEF rank, own, checked
      <4>2. Own.checked => ~Before(own, rank)
        BY <1>3, <2>1, <3>1, BeforeOrders
      <4>3. QED
        BY <1>3, <2>1, <2>6, <4>1, <4>2, NotBeforeOnward
    <3>2. CASE r = Own /\ ~(checked /\ (~Own.checked \/ Before(rank, own)))
      <4>1. Own.checked => ~Before(own, BestRank')
        BY <2>6, <3>2
      <4> HIDE DEF rank, own, checked
      <4>2. QED
        BY <1>3, <2>1, <2>6, <3>2, <4>1, NotBeforeOnward
    <3>3. QED
      BY <2>5, <3>1, <3>2
  <2> HIDE DEF rank, own, checked
  <2>8. CASE least' = least
    <3>1. least # <<>> => ~Before(least, BestRank')
      BY <1>3, <1>4, <2>6, <2>7, NotBeforeOnward
    <3>2. QED
      BY <1>4, <2>6, <2>8, <3>1 DEF BestKept
  <2>9. CASE least' = rank /\ (checked \/ (run.top = 0 /\ run.kept = <<>>))
    <3>1. ~Before(rank, BestRank')
      <4>1. CASE checked
        BY <2>7, <4>1
      <4>2. CASE ~checked
        BY <2>1, <2>2, <2>6, <2>9, <4>2, BestRankIs, NotBeforeOnward
      <4>3. QED
        BY <4>1, <4>2
    <3>2. QED
      BY <2>1, <2>6, <2>9, <3>1 DEF BestKept
  <2>10. QED
    BY <2>3, <2>8, <2>9
<1>8. QED
  <2>1. \/ least' = least /\ Settle(Own)
        \/ /\ o.fate = "routed" /\ o.board \in Boards /\ Judged(o.board) \in BOOLEAN
           /\ NoteRank(o.board, Judged(o.board))
           /\ \/ SeedsWin(o) /\ Settle(Seeds(o))
              \/ ~SeedsWin(o) /\ Settle(Own)
           /\ Seeds(o) \in Results /\ Seeds(o).board = o.board
           /\ Seeds(o).checked = Judged(o.board)
    BY RetryIs
  <2>2. QED
    BY <1>6, <1>7, <2>1

LEMMA VariedBest ==
    ASSUME Control, BestKept, Control', NEW o, Outcome(o), Varied(o), attempt' = NoAttempt,
           attempt.kind \in {"round", "narrow", "clearance"}, stage' # "failed"
    PROVE  BestKept'
<1>1. best # NoBest /\ stage # "failed" /\ attempt # NoAttempt
  BY DEF Control, Routes, NoAttempt
<1>2. /\ least # <<>> => ~Before(least, BestRank)
      /\ least = <<>> \/ least \in Ranks
      /\ output = <<best.board>>
  BY <1>1, Concludes DEF BestKept
<1>3. CASE best' = best /\ output' = output /\ least' = least
  BY <1>1, <1>3, NothingNoted
<1>4. CASE o.fate = "routed"
  <2> DEFINE checked == Judged(o.board)
             rank    == RankOf(Checked(o.board), o.board)
  <2>1. o.board \in Boards /\ checked \in BOOLEAN
    BY <1>4, OpensAre DEF Outcome
  <2>2. rank \in Ranks
    BY <2>1, OpensAre, RanksAre
  <2>3. /\ NoteRank(o.board, checked) /\ Keeps(o, best.size, checked)
    BY <1>4, Zenon DEF Varied
  <2>4. \/ least' = least
        \/ least' = rank /\ (checked \/ (run.top = 0 /\ run.kept = <<>>))
    BY <2>3, Noted
  <2>5. ~checked /\ run.top = 0 /\ run.kept = <<>> => best # NoBest /\ ~Before(rank, BestRank)
    BY <2>1, GateKeeps
  <2>6. checked => Opens(o.board, checked) = Checked(o.board)
    BY DEF Opens
  <2>7. /\ output' = <<best'.board>> /\ best' # NoBest
        /\ ~Before(BestRank, BestRank') /\ (checked => ~Before(rank, BestRank'))
        /\ BestRank' \in Ranks
    <3>1. CASE Beats(o.board, checked)
      <4> DEFINE opens == Opens(o.board, checked)
      <4>1. /\ best' = [best EXCEPT !.board = o.board, !.opens = opens, !.own = o.work]
            /\ output' = <<o.board>>
        BY <2>3, <3>1, Zenon DEF Keeps
      <4>2. best \in Bests /\ best.mode \in Modes
        BY <1>1 DEF Control, Typed, Data
      <4> HIDE DEF opens
      <4>3. best'.board = o.board /\ best'.opens = opens /\ best'.mode = best.mode
        BY <4>1, <4>2 DEF Bests
      <4>4. best' # NoBest
        BY <4>2, <4>3, ControlTypes DEF NoBest
      <4>5. checked /\ Before(rank, BestRank)
        BY <1>1, <3>1 DEF Beats, BestRank
      <4>6. BestRank' = rank
        BY <2>6, <4>3, <4>5 DEF BestRank, opens
      <4> HIDE DEF rank
      <4>7. QED
        BY <1>1, <2>2, <4>1, <4>3, <4>4, <4>5, <4>6, BestRankIs, BeforeOrders
    <3>2. CASE ~Beats(o.board, checked)
      <4>1. best' = best /\ output' = output
        BY <2>3, <3>2 DEF Keeps
      <4>2. checked => ~Before(rank, BestRank)
        BY <1>1, <3>2 DEF Beats, BestRank
      <4>3. BestRank' = BestRank
        BY <4>1 DEF BestRank
      <4> HIDE DEF rank
      <4>4. QED
        BY <1>1, <1>2, <4>1, <4>2, <4>3, BestRankIs, BeforeOrders
    <3>3. QED
      BY <3>1, <3>2
  <2> HIDE DEF checked, rank
  <2>8. least' # <<>> => ~Before(least', BestRank')
    BY <1>1, <1>2, <2>1, <2>2, <2>4, <2>5, <2>7, BestRankIs, NotBeforeOnward
  <2>9. QED
    BY <1>2, <2>2, <2>4, <2>7, <2>8 DEF BestKept
<1>5. QED
  BY <1>3, <1>4 DEF Varied, Dropped, judgedVars

\* No step of the ladder loses the best board.
LEMMA LadderKeepsBest == ASSUME Control, BestKept, Control', LadderStep PROVE BestKept'
<1>1. CASE Decide \/ BeginProbe \/ BeginRung \/ BeginAlone
  <2>1. /\ best' = best /\ output' = output /\ least' = least
        /\ attempt = NoAttempt /\ stage # "failed"
    BY <1>1 DEF Decide, BeginProbe, BeginRung, BeginAlone, BeginContinuation, BeginRound,
       BeginStep, StartProbes, EndProbes, StartRungs, NextPitch, PickLeader, LeaderOnFiner,
       AdmittedOnRegular, AdmittedOnFiner, EndPitch, PassRung, NoRound, NoStep, StartPitch, Skip,
       GoTo, Idle, judgedVars
  <2>2. QED
    BY <2>1, NothingNoted DEF NoAttempt
<1>2. CASE Late
  BY <1>2, NothingNoted DEF Late, judgedVars, flow
<1>3. ASSUME NEW o, ProbeOutcome(o), ProbeEnds(o) PROVE BestKept'
  <2>1. best' = best /\ output' = output /\ least' = least /\ attempt.kind = "probe"
        /\ stage # "failed"
    BY <1>3 DEF ProbeEnds, Dropped, judgedVars, Control, Routes
  <2>2. QED
    BY <2>1, NothingNoted
<1>4. ASSUME NEW o, Outcome(o), EndsAlone(o) \/ RungEnds(o) \/ Error(o) PROVE BestKept'
  <2>1. CASE Error(o)
    BY <2>1, NothingNoted DEF Error, judgedVars
  <2>2. CASE RoundEnds(o)
    <3>1. stage' # "failed"
      BY <2>2 DEF RoundEnds, AfterRound, flow, Control, Routes
    <3>2. QED
      BY <1>4, <2>2, <3>1, VariedBest DEF RoundEnds
  <2>3. CASE StepEnds(o)
    BY <1>4, <2>3, VariedBest DEF StepEnds
  <2>4. QED
    BY <1>4, <2>1, <2>2, <2>3, ContinuationBest, RetryBest, RungBest DEF EndsAlone
<1>5. QED
  BY <1>1, <1>2, <1>3, <1>4 DEF LadderStep

---------------------------------------------------------------------------
(* A complete board ends the ladder *)

LEMMA DecidingLast ==
    ASSUME Control, CompleteIsLast,
           best' = best, extra' = extra, failed' = failed, beyond' = beyond,
           attempt = NoAttempt, attempt' = NoAttempt,
           Complete /\ stage' \in {"rung", "pitches"} => stage \in {"rung", "pitches"},
           stage \in After => stage' \in After
    PROVE  CompleteIsLast'
<1>1. Complete' = Complete
  BY DEF Complete
<1>2. attempt.kind \notin {"rung", "retry"}
  BY DEF NoAttempt
<1>3. QED
  BY <1>1, <1>2, Zenon DEF CompleteIsLast, After

LEMMA DecideLast == ASSUME Control, CompleteIsLast, Decide PROVE CompleteIsLast'
<1>1. CASE NoStep
  BY <1>1, DecidingLast DEF NoStep, Idle, judgedVars, After
<1>2. CASE ~NoStep
  <2>1. Undecided
    BY <1>2 DEF Decide, StartProbes, EndProbes, StartRungs, NextPitch, PickLeader, LeaderOnFiner,
       AdmittedOnRegular, AdmittedOnFiner, EndPitch, PassRung, NoRound, StartPitch, Skip,
       GoTo, Idle, Undecided
  <2>2. /\ best' = best /\ extra' = extra /\ failed' = failed /\ beyond' = beyond
        /\ attempt = NoAttempt /\ attempt' = NoAttempt
    BY <2>1 DEF Undecided, judgedVars, learned
  <2>3. stage \in After => stage' \in After
    BY <1>2 DEF Decide, StartProbes, EndProbes, StartRungs, NextPitch, PickLeader, LeaderOnFiner,
       AdmittedOnRegular, AdmittedOnFiner, EndPitch, PassRung, NoRound, StartPitch, Skip,
       GoTo, Idle, After, AfterRound, flow
  <2>4. Complete => ~OpenBest
    <3>1. best # NoBest => best.opens[1] \in Nat
      BY DEF Control, Typed, Data, Bests
    <3>2. QED
      BY <3>1 DEF Complete, OpenBest
  <2>5. ASSUME Complete, stage' \in {"rung", "pitches"} PROVE stage \in {"rung", "pitches"}
    <3>1. ~(StartProbes \/ EndProbes)
      BY <2>5 DEF StartProbes, EndProbes, GoTo
    <3>2. ~(StartRungs \/ PickLeader \/ LeaderOnFiner)
      BY <2>4, <2>5 DEF StartRungs, PickLeader, LeaderOnFiner, GoTo, Skip
    <3>3. ~(AdmittedOnRegular \/ AdmittedOnFiner)
      BY <2>4, <2>5 DEF AdmittedOnRegular, AdmittedOnFiner, GoTo, Skip
    <3>4. NoRound => stage \in {"rung", "pitches"}
      BY <2>5 DEF NoRound, AfterRound, Idle
    <3>5. QED
      BY <1>2, <3>1, <3>2, <3>3, <3>4 DEF Decide, NextPitch, EndPitch, PassRung, Idle
  <2>6. QED
    BY <2>2, <2>3, <2>5, DecidingLast
<1>3. QED
  BY <1>1, <1>2

LEMMA BeginningLast ==
    ASSUME Control, CompleteIsLast, BeginProbe \/ BeginRung \/ BeginAlone
    PROVE  CompleteIsLast'
<1>1. /\ best' = best /\ extra' = extra /\ failed' = failed /\ stage' = stage /\ attempt = NoAttempt
  BY DEF BeginProbe, BeginRung, BeginAlone, BeginContinuation, BeginRound, BeginStep, Idle,
     judgedVars, learned, flow
<1>2. Complete' = Complete
  BY <1>1 DEF Complete
<1>3. beyond \in Nat /\ attempt.kind \notin {"rung", "retry"}
  BY <1>1 DEF Control, Typed, Data, NoAttempt
<1>4. CASE BeginRung
  <2>1. attempt'.kind = "rung" /\ beyond' = beyond + (IF Complete THEN 1 ELSE 0) /\ stage = "rung"
    BY <1>4 DEF BeginRung, Begin, Idle
  <2>2. QED
    BY <1>1, <1>2, <1>3, <2>1 DEF CompleteIsLast, After
<1>5. CASE BeginProbe \/ BeginAlone
  <2>1. ~Complete
    <3>1. CASE BeginProbe \/ BeginContinuation
      BY <3>1 DEF BeginProbe, BeginContinuation, Idle, Control, Placed, Complete
    <3>2. CASE BeginRound \/ BeginStep
      <4>1. OpenBest
        BY <3>2 DEF BeginRound, BeginStep, RoundFits, StepRuns
      <4>2. best # NoBest => best.opens[1] \in Nat
        BY DEF Control, Typed, Data, Bests
      <4>3. QED
        BY <4>1, <4>2 DEF OpenBest, Complete
    <3>3. QED
      BY <1>5, <3>1, <3>2 DEF BeginAlone
  <2>2. attempt'.kind \notin {"rung", "retry"} /\ beyond' = beyond
    BY <1>3, <1>5, <2>1 DEF BeginProbe, BeginAlone, BeginContinuation, BeginRound, BeginStep, Begin
  <2>3. QED
    BY <1>1, <1>2, <1>3, <2>1, <2>2 DEF CompleteIsLast
<1>6. QED
  BY <1>4, <1>5

LEMMA SettleLast ==
    ASSUME Control, CompleteIsLast, attempt.kind \in {"rung", "retry"}, run' = run,
           failed' = failed, beyond' = beyond, work' \in Nat, overrun' \in Nat,
           NEW r \in Results, Settle(r)
    PROVE  CompleteIsLast'
<1>1. /\ stage = "rung" /\ beyond \in Nat /\ extra \in BOOLEAN
      /\ best # NoBest => best.opens[1] \in Nat
  BY DEF Control, Routes, Typed, Data, Bests
<1>2. /\ attempt' = NoAttempt /\ extra' = (extra \/ Again(r))
      /\ attempt'.kind \notin {"rung", "retry"}
  <2>1. attempt' = NoAttempt /\ extra' = (extra \/ Again(r))
    BY SettleIs, Zenon
  <2>2. QED
    BY <2>1 DEF NoAttempt
<1>3. best' # NoBest
  BY Settled
<1>4. Complete' <=> CompleteNow(r)
  BY CompleteIs
<1>5. CASE Stops(r)
  <2>1. stage' = "seeds"
    BY <1>5, SettleIs DEF Flows
  <2>2. QED
    BY <1>1, <1>2, <2>1 DEF CompleteIsLast, After
<1>6. CASE ~Stops(r)
  <2>1. stage' = "rung"
    BY <1>1, <1>6, SettleIs
  <2>2. ~extra /\ (RungOpens(r)[1] = 0 => Again(r))
    BY <1>6 DEF Stops, Again
  <2>3. ~failed => beyond = 0 /\ ~Complete
    BY <1>1, <2>2 DEF CompleteIsLast
  <2>4. (~failed /\ Complete') => extra'
    BY <1>2, <1>4, <2>2, <2>3 DEF CompleteNow
  <2>5. QED
    BY <1>2, <2>1, <2>3, <2>4 DEF CompleteIsLast
<1>7. QED
  BY <1>5, <1>6

LEMMA RungLast ==
    ASSUME Control, CompleteIsLast, NEW o, Outcome(o), RungEnds(o)
    PROVE  CompleteIsLast'
<1>1. attempt.kind = "rung" /\ stage = "rung" /\ beyond \in Nat /\ attempt # NoAttempt
  BY DEF RungEnds, Control, Routes, Typed, Data, NoAttempt
<1>2. CASE o.fate \in {"panic", "checkPanic"}
  BY <1>2, RungPanics DEF Dropped, CompleteIsLast
<1>3. CASE o.fate \notin {"panic", "checkPanic"}
  <2> DEFINE r == Result(o, Judged(o.board), FALSE)
  <2>1. /\ r \in Results /\ failed' = failed /\ run' = run /\ Charge(o.work, Judged(o.board))
        /\ Judged(o.board) \in BOOLEAN
        /\ \/ /\ Begin("retry", attempt.mode, RetryLimit(work'), RetrySeeds, r)
              /\ UNCHANGED <<best, output, learned, flow>>
           \/ Settle(r) /\ beyond' = beyond
    BY <1>3, RungRouted
  <2> HIDE DEF r
  <2>2. CASE Settle(r) /\ beyond' = beyond
    <3>1. work' \in Nat /\ overrun' \in Nat
      BY <1>1, <2>1, Charged DEF Outcome
    <3>2. QED
      BY <1>1, <2>1, <2>2, <3>1, SettleLast
  <2>3. CASE /\ Begin("retry", attempt.mode, RetryLimit(work'), RetrySeeds, r)
             /\ UNCHANGED <<best, output, learned, flow>>
    <3>1. /\ best' = best /\ extra' = extra /\ stage' = stage /\ Complete' = Complete
          /\ attempt'.kind = "retry" /\ beyond' = beyond + (IF Complete THEN 1 ELSE 0)
      BY <2>3 DEF Begin, learned, flow, Complete
    <3>2. QED
      BY <1>1, <2>1, <3>1 DEF CompleteIsLast, After
  <2>4. QED
    BY <2>1, <2>2, <2>3
<1>4. QED
  BY <1>2, <1>3

LEMMA RetryLast ==
    ASSUME Control, CompleteIsLast, NEW o, Outcome(o), RetryEnds(o)
    PROVE  CompleteIsLast'
<1>1. CASE failed' = TRUE
  BY <1>1 DEF CompleteIsLast
<1>2. CASE failed' # TRUE
  <2>1. /\ failed' = failed /\ Charge(o.work, Judged(o.board)) /\ Judged(o.board) \in BOOLEAN
        /\ \E r \in Results : Settle(r)
        /\ run' = run /\ beyond' = beyond
    BY <1>2, RetryIs
  <2>2. attempt.kind \in {"rung", "retry"} /\ attempt # NoAttempt
    BY DEF RetryEnds, NoAttempt
  <2>3. work' \in Nat /\ overrun' \in Nat
    BY <2>1, <2>2, Charged DEF Outcome
  <2>4. QED
    BY <2>1, <2>2, <2>3, SettleLast
<1>3. QED
  BY <1>1, <1>2

\* The ends that leave the rungs behind.
LEMMA OthersLast ==
    ASSUME Control, CompleteIsLast, beyond' = beyond, extra' = extra, attempt' = NoAttempt,
           failed' = failed \/ failed' = TRUE,
           attempt.kind \notin {"rung", "retry"} \/ stage' \in After,
           stage' \notin {"rung", "pitches"}, stage \in After => stage' \in After
    PROVE  CompleteIsLast'
<1>1. attempt'.kind \notin {"rung", "retry"}
  BY DEF NoAttempt
<1>2. QED
  BY <1>1, Zenon DEF CompleteIsLast

LEMMA LadderCompletes == ASSUME Control, CompleteIsLast, LadderStep PROVE CompleteIsLast'
<1>1. CASE Late
  BY <1>1, Zenon DEF Late, CompleteIsLast, Complete, judgedVars, learned, flow
<1>2. ASSUME NEW o, ProbeOutcome(o), ProbeEnds(o) PROVE CompleteIsLast'
  <2>1. /\ beyond' = beyond /\ extra' = extra /\ attempt' = NoAttempt
        /\ failed' = failed \/ failed' = TRUE
        /\ attempt.kind = "probe" /\ stage = "probing" /\ stage' \in {"probing", "continue"}
    BY <1>2 DEF ProbeEnds, Dropped, learned, Control, Routes
  <2>2. QED
    BY <2>1, OthersLast DEF After
<1>3. ASSUME NEW o, Outcome(o), ContinuationEnds(o) PROVE CompleteIsLast'
  <2>1. /\ beyond' = beyond /\ extra' = extra /\ attempt' = NoAttempt
        /\ failed' = failed \/ failed' = TRUE
        /\ attempt.kind = "continuation" /\ stage = "continue" /\ stage' = "rungs"
    BY <1>3 DEF ContinuationEnds, Dropped, learned, Control, Routes
  <2>2. QED
    BY <2>1, OthersLast DEF After
<1>4. ASSUME NEW o, Outcome(o), RoundEnds(o) PROVE CompleteIsLast'
  <2>1. /\ beyond' = beyond /\ extra' = extra /\ attempt' = NoAttempt
        /\ failed' = failed \/ failed' = TRUE
        /\ attempt.kind = "round"
    BY <1>4 DEF RoundEnds, Varied, Dropped, learned
  <2>2. (stage = "A" /\ stage' = "B") \/ (stage = "seeds" /\ stage' = "seeds")
    BY <1>4 DEF RoundEnds, AfterRound, flow, Control, Routes
  <2>3. QED
    BY <2>1, <2>2, OthersLast DEF After
<1>5. ASSUME NEW o, Outcome(o), StepEnds(o) PROVE CompleteIsLast'
  <2>1. /\ beyond' = beyond /\ extra' = extra /\ attempt' = NoAttempt
        /\ failed' = failed \/ failed' = TRUE
        /\ stage' \in {"clearance", "done"}
    BY <1>5 DEF StepEnds, Varied, Dropped, learned
  <2>2. QED
    BY <2>1, OthersLast DEF After
<1>6. ASSUME NEW o, Outcome(o), Error(o) PROVE CompleteIsLast'
  <2>1. /\ beyond' = beyond /\ extra' = extra /\ attempt' = NoAttempt
        /\ failed' = failed /\ stage' = "failed"
    BY <1>6 DEF Error, learned
  <2>2. QED
    BY <2>1, OthersLast DEF After
<1>7. QED
  BY <1>1, <1>2, <1>3, <1>4, <1>5, <1>6, DecideLast, BeginningLast, RungLast, RetryLast
     DEF LadderStep, EndsAlone

---------------------------------------------------------------------------
(* What is kept for the steps *)

\* What beats a complete board is complete.
LEMMA CompleteStays ==
    ASSUME Control, Complete, NEW board \in Boards, NEW checked \in BOOLEAN, Beats(board, checked)
    PROVE  Opens(board, checked)[1] = 0
<1>1. best # NoBest /\ best.opens[1] = 0
  BY DEF Complete
<1>2. best.opens \in Nat \X Nat /\ best.board \in Boards
  BY <1>1 DEF Control, Typed, Data, Bests
<1>3. checked /\ Before(RankOf(Checked(board), board), BestRank)
  BY <1>1 DEF Beats, BestRank
<1> DEFINE a == RankOf(Checked(board), board)
<1>4. a \in Ranks /\ a[1] = Checked(board)[1] /\ BestRank \in Ranks /\ BestRank[1] = 0
  BY <1>1, <1>2, OpensAre, RanksAre DEF BestRank
<1> HIDE DEF a
<1>5. a[1] \in Nat /\ ~(a[1] > 0)
  BY <1>3, <1>4, BeforeIs DEF a, Ranks
<1>6. QED
  BY <1>3, <1>4, <1>5 DEF Opens, a

\* What Reserved keeps, the first time.
LEMMA ReservedIs ==
    ASSUME Control, overrun' \in Nat, NEW opens, NEW first \in Nat, NEW w \in Nat
    PROVE  \/ /\ keep.set \/ opens[1] = 0 \/ run.steps = {}
              /\ Reserved(opens, first, w) = keep
           \/ /\ ~(keep.set \/ opens[1] = 0 \/ run.steps = {})
              /\ Reserved(opens, first, w).set = TRUE
              /\ Reserved(opens, first, w).over = overrun'
              /\ ~run.layout => \/ Reserved(opens, first, w).reserve = 0
                                \/ w + Reserved(opens, first, w).reserve <= Bound
<1>1. keep \in Kept /\ overrun' \in Nat
  BY DEF Control, Typed, Data
<1>2. CASE keep.set \/ opens[1] = 0 \/ run.steps = {}
  BY <1>2 DEF Reserved
<1>3. CASE ~(keep.set \/ opens[1] = 0 \/ run.steps = {})
  <2> DEFINE reserve == IF run.layout
                        THEN ReserveWithCheck(
                               NarrowStepReserve(first, Smaller((2 * DeadlineWork) \div 5, 10)),
                               CheckCharge)
                        ELSE RouteStepReserve(first, BoundLeft(w))
             start == IF run.layout THEN 0 ELSE first
  <2>1. Reserved(opens, first, w) =
          [keep EXCEPT !.set = TRUE, !.reserve = reserve, !.first = start, !.over = overrun']
    BY <1>3 DEF Reserved
  <2>2. ~run.layout => reserve = 0 \/ w + reserve <= Bound
    <3>1. SUFFICES ASSUME ~run.layout
                   PROVE  \/ RouteStepReserve(first, BoundLeft(w)) = 0
                          \/ w + RouteStepReserve(first, BoundLeft(w)) <= Bound
      OBVIOUS
    <3>2. QED
      BY Numbers DEF RouteStepReserve, BoundLeft, Smaller, Positive, Larger
  <2> HIDE DEF reserve, start
  <2>3. /\ Reserved(opens, first, w).set = TRUE /\ Reserved(opens, first, w).over = overrun'
        /\ Reserved(opens, first, w).reserve = reserve
    BY <1>1, <2>1 DEF Kept
  <2>4. QED
    BY <1>3, <2>2, <2>3
<1>4. QED
  BY <1>2, <1>3

\* What a settled rung leaves kept: what was, nothing, or what is kept for the
\* first time, of the ladder's first board.
LEMMA SettleKept ==
    ASSUME Control, ReserveSetOnce, attempt.kind \in {"rung", "retry"}, run' = run,
           work' \in Nat, overrun' \in Nat, NEW r \in Results, Settle(r)
    PROVE  /\ \/ keep'.reserve = 0
              \/ keep' = keep
              \/ /\ best = NoBest /\ keep'.over = overrun'
                 /\ ~run.layout => work' + keep'.reserve <= Bound
           /\ ReserveSetOnce'
<1>1. /\ r.board \in Boards /\ r.checked \in BOOLEAN /\ r.work \in Nat
      /\ keep \in Kept
  BY DEF Results, Control, Typed, Data
<1> DEFINE kept == Reserved(RungOpens(r), r.work, work')
<1>2. /\ best' # NoBest /\ keep' \in Kept
  BY Settled
<1>3. kept \in Kept
  BY <1>1, Reserves
<1>4. Complete' <=> CompleteNow(r)
  BY CompleteIs
<1>5. /\ Complete => CompleteNow(r)
      /\ best = NoBest => (CompleteNow(r) <=> RungOpens(r)[1] = 0)
  BY <1>1, CompleteStays DEF CompleteNow, RungOpens, Beats
<1>6. \/ /\ keep.set \/ RungOpens(r)[1] = 0 \/ run.steps = {}
         /\ kept = keep
      \/ /\ ~(keep.set \/ RungOpens(r)[1] = 0 \/ run.steps = {})
         /\ kept.set = TRUE /\ kept.over = overrun'
         /\ ~run.layout => kept.reserve = 0 \/ work' + kept.reserve <= Bound
  BY <1>1, ReservedIs
<1>7. \/ CompleteNow(r) /\ keep' = [kept EXCEPT !.reserve = 0]
      \/ ~CompleteNow(r) /\ keep' = kept
  BY SettleIs
<1> HIDE DEF kept
<1>8. /\ keep'.set = kept.set /\ keep'.over = kept.over
      /\ CompleteNow(r) => keep'.reserve = 0
      /\ ~CompleteNow(r) => keep' = kept
  BY <1>3, <1>7 DEF Kept
<1>9. /\ best = NoBest => ~keep.set
      /\ ~keep.set => keep.reserve = 0
      /\ best = NoBest \/ Complete \/ keep.set \/ run.steps = {}
  BY DEF ReserveSetOnce
<1>10. \/ keep'.reserve = 0
       \/ keep' = keep
       \/ /\ best = NoBest /\ keep'.over = overrun'
          /\ ~run.layout => work' + keep'.reserve <= Bound
  BY <1>5, <1>6, <1>8, <1>9
<1>11. ReserveSetOnce'
  <2>1. ~keep'.set => keep'.reserve = 0
    BY <1>6, <1>8, <1>9
  <2>2. Complete' \/ keep'.set \/ run.steps = {}
    BY <1>4, <1>5, <1>6, <1>8, <1>9
  <2>3. QED
    BY <1>2, <2>1, <2>2 DEF ReserveSetOnce
<1>12. QED
  BY <1>10, <1>11

LEMMA OnceAgain ==
    ASSUME ReserveSetOnce, run' = run, best' = best, keep' \in Kept, keep'.set = keep.set,
           keep'.reserve = 0 \/ keep'.reserve = keep.reserve
    PROVE  ReserveSetOnce'
<1>1. Complete' = Complete
  BY DEF Complete
<1>2. QED
  BY <1>1 DEF ReserveSetOnce

LEMMA StepsKept ==
    ASSUME Control, keep' = [keep EXCEPT !.reserve = 0, !.steps = StepsKeep]
    PROVE  keep' \in Kept /\ keep'.set = keep.set /\ keep'.reserve = 0
<1>1. keep \in Kept /\ StepsKeep \in Nat
  BY DEF StepsKeep, Control, Typed, Data, Kept
<1>2. QED
  BY <1>1 DEF Kept

LEMMA ContinuationKept ==
    ASSUME Control, ReserveSetOnce, NEW o, Outcome(o), ContinuationEnds(o)
    PROVE  /\ \/ keep'.reserve = 0
              \/ keep' = keep
              \/ /\ best = NoBest /\ keep'.over = overrun'
                 /\ ~run.layout => work' + keep'.reserve <= Bound
           /\ ReserveSetOnce'
<1>1. /\ stage = "continue" /\ best = NoBest /\ attempt # NoAttempt /\ keep \in Kept
      /\ attempt.mode \in Modes /\ run' = run
  BY DEF ContinuationEnds, Control, Routes, Placed, NoAttempt, Typed, Data
<1>2. ~keep.set /\ keep.reserve = 0
  BY <1>1 DEF ReserveSetOnce
<1>3. CASE best' = best /\ keep' = keep
  BY <1>1, <1>3, OnceAgain
<1>4. CASE o.fate = "routed"
  <2> DEFINE checked == Judged(o.board)
             opens   == Opens(o.board, checked)
             whole   == probes.work + o.work
  <2>1. o.board \in Boards /\ whole \in Nat /\ checked \in BOOLEAN
    BY <1>4, OpensAre DEF Outcome, Probed, Control, Typed, Data
  <2>2. /\ Charge(o.work, checked)
        /\ best' = [mode |-> attempt.mode, board |-> o.board, opens |-> opens,
                    own |-> whole, size |-> Sizes[1], seeded |-> FALSE,
                    limit |-> DeadlineWork]
        /\ keep' = Reserved(opens, whole, work')
    BY <1>4, Zenon DEF ContinuationEnds
  <2>3. work' \in Nat /\ overrun' \in Nat
    BY <1>1, <2>1, <2>2, Charged DEF Outcome
  <2> HIDE DEF checked, opens, whole
  <2>4. best'.opens = opens /\ best'.mode = attempt.mode
    BY <2>2
  <2>5. best' # NoBest
    BY <1>1, <2>4, ControlTypes DEF NoBest
  <2>6. Complete' <=> opens[1] = 0
    BY <2>4, <2>5 DEF Complete
  <2>7. \/ /\ keep.set \/ opens[1] = 0 \/ run.steps = {}
           /\ keep' = keep
        \/ /\ keep'.set = TRUE /\ keep'.over = overrun'
           /\ ~run.layout => \/ keep'.reserve = 0
                             \/ work' + keep'.reserve <= Bound
    BY <2>1, <2>2, <2>3, ReservedIs
  <2>8. ReserveSetOnce'
    BY <1>1, <1>2, <2>5, <2>6, <2>7 DEF ReserveSetOnce
  <2>9. QED
    BY <1>1, <2>7, <2>8
<1>5. QED
  BY <1>3, <1>4 DEF ContinuationEnds, Dropped, judgedVars, learned

LEMMA VariedKept ==
    ASSUME Control, ReserveSetOnce, attempt # NoAttempt, best # NoBest, run' = run,
           NEW o, Outcome(o), Varied(o)
    PROVE  keep' = keep /\ ReserveSetOnce'
<1>1. keep' = keep /\ best' \in Bests /\ best'.mode = best.mode
  BY VariedIs
<1>2. best' # NoBest /\ best \in Bests
  BY <1>1, ControlTypes DEF Control, Typed, Data, NoBest
<1>3. Complete => Complete'
  <2>1. CASE best' = best
    BY <2>1 DEF Complete
  <2>2. CASE best' # best
    <3> DEFINE checked == Judged(o.board)
               opens   == Opens(o.board, checked)
    <3>1. o.fate = "routed"
      BY <2>2 DEF Varied, Dropped, judgedVars
    <3>2. o.board \in Boards /\ checked \in BOOLEAN
      BY <3>1, OpensAre DEF Outcome
    <3>3. Keeps(o, best.size, checked)
      BY <3>1, Zenon DEF Varied
    <3>4. /\ Beats(o.board, checked)
          /\ best' = [best EXCEPT !.board = o.board, !.opens = opens, !.own = o.work]
      BY <2>2, <3>3, Zenon DEF Keeps
    <3>5. Complete => opens[1] = 0
      BY <3>2, <3>4, CompleteStays
    <3> HIDE DEF checked, opens
    <3>6. best'.opens = opens
      BY <1>2, <3>4 DEF Bests
    <3>7. QED
      BY <1>2, <3>5, <3>6 DEF Complete
  <2>3. QED
    BY <2>1, <2>2
<1>4. QED
  BY <1>1, <1>2, <1>3 DEF ReserveSetOnce

---------------------------------------------------------------------------
(* The work within its bound *)

LEMMA Times ==
    ASSUME NEW a \in Nat, NEW b \in Nat
    PROVE  a * b \in Nat /\ (a > 0 => b <= a * b /\ (a - 1) * b = a * b - b)
  BY SMT

\* What the attempts of the probing may do, all together.
LEMMA ProbesFit ==
    ASSUME Control, ~run.layout, Len(run.rungs) >= 3
    PROVE  ProbeLimit \in Nat /\ Len(run.rungs) * ProbeLimit <= Bound
<1> DEFINE n == Len(run.rungs)
           most == Budget \div (2 * n)
<1>1. n \in Nat /\ n > 0 /\ 2 * n \in Nat /\ 2 * n > 0
  BY ControlTypes
<1>2. most \in Nat /\ (2 * n) * most <= Budget
  BY <1>1, Numbers, Shares
<1>3. ProbeLimit \in Nat /\ ProbeLimit <= most
  <2>1. ProbeLimit = Smaller(ProbeWork, most)
    BY DEF ProbeLimit
  <2> HIDE DEF most
  <2>2. QED
    BY <1>2, <2>1, Numbers DEF Smaller
<1> HIDE DEF n, most
<1>4. n * ProbeLimit <= (2 * n) * most
  BY <1>1, <1>2, <1>3, SMT
<1>5. n * ProbeLimit \in Nat /\ (2 * n) * most \in Nat
  BY <1>1, <1>2, <1>3, Times
<1>6. QED
  BY <1>2, <1>3, <1>4, <1>5, Numbers DEF n

\* What is promised covers the attempt that routes.
LEMMA PromisedIs ==
    ASSUME Control, Limited, ~run.layout
    PROVE  /\ Promised \in Nat
           /\ attempt # NoAttempt => attempt.times * attempt.limit <= Promised
<1>1. Cardinality(plan.cands) \in Nat /\ (plan.cands # {} => Cardinality(plan.cands) > 0)
  BY CandsCount
<1>2. /\ plan.share \in Nat \cup {None}
      /\ attempt # NoAttempt => attempt.times \in Nat /\ attempt.limit \in Nat
  BY ControlTypes DEF Plans, Control, Typed, Attempts
<1>3. attempt # NoAttempt => attempt.kind \in Kinds
  BY DEF Control, Typed, Attempts
<1>4. CASE stage = "probing"
  <2>1. Promised = Cardinality(plan.cands) * ProbeLimit
    BY <1>4 DEF Promised
  <2>2. ProbeLimit \in Nat
    BY <1>4, ProbesFit DEF Limited
  <2>3. attempt # NoAttempt => attempt.kind = "probe"
    BY <1>3, <1>4 DEF Control, Routes, Kinds
  <2>4. attempt # NoAttempt =>
          attempt.limit = ProbeLimit /\ attempt.times = 1 /\ plan.cands # {}
    BY <2>3 DEF Limited, Control, Routes
  <2>5. QED
    BY <1>1, <2>1, <2>2, <2>4, Times
<1>5. CASE stage = "rung" /\ attempt.kind # "retry" /\ plan.share # None
  <2>1. Promised = Cardinality(plan.cands) * plan.share
    BY <1>5 DEF Promised
  <2>2. attempt # NoAttempt => attempt.kind = "rung"
    BY <1>3, <1>5 DEF Control, Routes, Kinds
  <2>3. attempt # NoAttempt =>
          attempt.limit = plan.share /\ attempt.times = 1 /\ plan.cands # {}
    BY <1>5, <2>2 DEF Limited, Control, Routes
  <2>4. QED
    BY <1>1, <1>2, <1>5, <2>1, <2>3, Times
<1>6. CASE ~(stage = "probing") /\ ~(stage = "rung" /\ attempt.kind # "retry" /\ plan.share # None)
  <2>1. Promised = IF attempt # NoAttempt THEN attempt.times * attempt.limit ELSE 0
    BY <1>6 DEF Promised
  <2>2. QED
    BY <1>2, <2>1, Times
<1>7. QED
  BY <1>4, <1>5, <1>6

\* A step that takes no more than was promised leaves the accounts in order,
\* where what is kept stays, is given up, or is kept out of what was left.
LEMMA AccountsKeep ==
    ASSUME Control, Control', Fits, Limited, run' = run,
           ~run.layout => /\ overrun' >= overrun /\ Promised' \in Nat
                          /\ Spent' + Promised' <= Spent + Promised,
           \/ keep'.reserve = 0
           \/ keep' = keep
           \/ keep'.over = overrun' /\ (~run.layout => /\ work' + keep'.reserve <= Bound
                                                       /\ Promised' = 0)
    PROVE  Fits'
<1>1. SUFFICES ASSUME ~run.layout
               PROVE  /\ Spent' + Promised' <= Bound
                      /\ keep'.reserve > 0 =>
                            /\ keep'.over <= overrun'
                            /\ Spent' + Promised' + keep'.reserve + keep'.over <= Bound
  BY DEF Fits
<1>2. /\ overrun' >= overrun /\ Promised' \in Nat /\ Promised \in Nat
      /\ Spent' + Promised' <= Spent + Promised
      /\ Spent + Promised <= Bound
      /\ keep.reserve > 0 => /\ keep.over <= overrun
                             /\ Spent + Promised + keep.reserve + keep.over <= Bound
  BY <1>1, PromisedIs DEF Fits
<1>3. /\ work \in Nat /\ overrun \in Nat /\ work' \in Nat /\ overrun' \in Nat
      /\ keep.reserve \in Nat /\ keep.over \in Nat /\ keep'.reserve \in Nat /\ keep'.over \in Nat
  BY DEF Control, Typed, Data, Kept
<1>4. Spent = work - overrun /\ Spent' = work' - overrun' /\ Spent \in Int /\ Spent' \in Int
  BY <1>3 DEF Spent
<1>5. Spent' + Promised' <= Bound
  BY <1>2, <1>4, Numbers
<1>6. CASE keep'.reserve = 0
  BY <1>5, <1>6
<1>7. CASE keep' = keep
  <2>1. keep.reserve > 0 => keep.over <= overrun'
    BY <1>2, <1>3
  <2>2. keep.reserve > 0 => Spent' + Promised' + keep.reserve + keep.over <= Bound
    <3>1. SUFFICES ASSUME keep.reserve > 0
                   PROVE  Spent' + Promised' + keep.reserve + keep.over <= Bound
      OBVIOUS
    <3>2. Spent + Promised + keep.reserve + keep.over <= Bound
      BY <1>2, <3>1
    <3>3. Spent' + Promised' <= Spent + Promised
      BY <1>2
    <3>4. /\ Spent \in Int /\ Spent' \in Int /\ Promised \in Int /\ Promised' \in Int
          /\ keep.reserve \in Int /\ keep.over \in Int /\ Bound \in Int
      BY <1>2, <1>3, <1>4, Numbers
    <3> DEFINE s1 == Spent
               p1 == Promised
               s2 == Spent'
               p2 == Promised'
               c  == keep.reserve
               d  == keep.over
    <3>5. /\ s1 \in Int /\ s2 \in Int /\ p1 \in Int /\ p2 \in Int /\ c \in Int /\ d \in Int
          /\ Bound \in Int
          /\ s1 + p1 + c + d <= Bound /\ s2 + p2 <= s1 + p1
      BY <3>2, <3>3, <3>4
    <3> HIDE DEF s1, p1, s2, p2, c, d
    <3>6. s2 + p2 + c + d <= Bound
      BY <3>5
    <3>7. QED
      BY <3>6 DEF s2, p2, c, d
  <2>3. QED
    BY <1>5, <1>7, <2>1, <2>2
<1>8. CASE keep'.over = overrun' /\ work' + keep'.reserve <= Bound /\ Promised' = 0
  <2>1. Spent' + Promised' + keep'.reserve + keep'.over = work' + keep'.reserve
    BY <1>3, <1>4, <1>8
  <2>2. keep'.over <= overrun'
    BY <1>3, <1>8
  <2>3. QED
    BY <1>5, <1>8, <2>1, <2>2
<1>9. QED
  BY <1>1, <1>6, <1>7, <1>8

\* An attempt that ends takes no more than was promised it.
LEMMA EndsWithin ==
    ASSUME Control, Limited, Promised' = 0, attempt # NoAttempt,
           \/ work' = work /\ overrun' = overrun
           \/ \E w \in Nat, checked \in BOOLEAN : Charge(w, checked)
    PROVE  ~run.layout => /\ overrun' >= overrun /\ Promised' \in Nat
                          /\ Spent' + Promised' <= Spent + Promised
<1>1. SUFFICES ASSUME ~run.layout
               PROVE  /\ overrun' >= overrun /\ Promised' \in Nat
                      /\ Spent' + Promised' <= Spent + Promised
  OBVIOUS
<1>2. Promised \in Nat /\ attempt.times * attempt.limit <= Promised
  BY <1>1, PromisedIs
<1>3. work \in Nat /\ overrun \in Nat
  BY ControlTypes
<1>4. attempt.times * attempt.limit \in Nat
  BY Times DEF Control, Typed, Attempts
<1>5. CASE work' = work /\ overrun' = overrun
  BY <1>2, <1>3, <1>5 DEF Spent
<1>6. CASE \E w \in Nat, checked \in BOOLEAN : Charge(w, checked)
  <2> DEFINE most == attempt.times * attempt.limit
  <2>1. /\ work' \in Nat /\ overrun' \in Nat /\ overrun' >= overrun
        /\ work' - overrun' <= work - overrun + most
    BY <1>1, <1>6, Charged
  <2> HIDE DEF most
  <2>2. most \in Nat /\ most <= Promised
    BY <1>2, <1>4 DEF most
  <2>3. Promised \in Nat
    BY <1>2
  <2> DEFINE w1 == work
             v1 == overrun
             w2 == work'
             v2 == overrun'
             f  == Promised
  <2>4. /\ w1 \in Nat /\ v1 \in Nat /\ w2 \in Nat /\ v2 \in Nat /\ f \in Nat
        /\ w2 - v2 <= w1 - v1 + most
    BY <1>3, <2>1, <2>3
  <2> HIDE DEF w1, v1, w2, v2, f
  <2>5. w2 - v2 + 0 <= w1 - v1 + f
    BY <2>2, <2>4 DEF f
  <2>6. Spent' = w2 - v2 /\ Spent = w1 - v1
    BY DEF Spent, w1, v1, w2, v2
  <2>7. QED
    BY <2>1, <2>5, <2>6 DEF f
<1>7. QED
  BY <1>5, <1>6

LEMMA AtRest ==
    ASSUME attempt' = NoAttempt, stage' \notin {"probes", "probing"}, run' = run,
           stage' = "rung" /\ plan'.share # None => best' # NoBest
    PROVE  Limited' /\ (stage' # "rung" \/ plan'.share = None => Promised' = 0)
  BY DEF Limited, Promised, NoAttempt

LEMMA DecideFits ==
    ASSUME Control, Control', ReserveSetOnce, Fits, Limited, Decide
    PROVE  Fits' /\ Limited'
<1>1. /\ attempt = NoAttempt /\ attempt' = NoAttempt /\ run' = run /\ work' = work
      /\ overrun' = overrun /\ best' = best
  BY DEF Decide, StartProbes, EndProbes, StartRungs, NextPitch, PickLeader, LeaderOnFiner,
     AdmittedOnRegular, AdmittedOnFiner, EndPitch, PassRung, NoRound, NoStep, StartPitch, Skip,
     GoTo, Idle, judgedVars
<1>2. keep'.reserve = 0 \/ keep' = keep
  <2>1. CASE NoStep
    BY <2>1, StepsKept DEF NoStep
  <2>2. CASE ~NoStep
    BY <2>2 DEF Decide, StartProbes, EndProbes, StartRungs, NextPitch, PickLeader,
       LeaderOnFiner, AdmittedOnRegular, AdmittedOnFiner, EndPitch, PassRung, NoRound,
       StartPitch, Skip, GoTo, learned
  <2>3. QED
    BY <2>1, <2>2
<1>3. Spent' = Spent /\ (~run.layout => Promised \in Nat) /\ Spent \in Int /\ overrun \in Nat
  BY <1>1, PromisedIs, ControlTypes DEF Spent
\* What suffices for each: no more is promised.
<1>4. ASSUME ~run.layout => Promised' \in Nat /\ Promised' <= Promised PROVE Fits'
  <2>1. ~run.layout => /\ overrun' >= overrun /\ Promised' \in Nat
                       /\ Spent' + Promised' <= Spent + Promised
    BY <1>1, <1>3, <1>4
  <2>2. QED
    BY <1>1, <1>2, <2>1, AccountsKeep
<1>5. CASE StartProbes /\ stage' = "probing"
  <2>1. plan'.cands = Modes /\ Modes' = Modes /\ Len(run.rungs) >= 3 /\ stage = "probes"
        /\ keep' = keep
    BY <1>1, <1>5, ControlTypes DEF StartProbes, GoTo, Plans, Modes, Idle, learned
  <2>2. Limited'
    BY <1>1, <1>5, <2>1 DEF Limited, NoAttempt
  <2>3. ~run.layout => Promised' <= Bound /\ Promised' \in Nat /\ Spent = 0
    <3>1. Cardinality(Modes) = Len(run.rungs)
      <4>1. 1 \in Int /\ Len(run.rungs) \in Int /\ Len(run.rungs) >= 1
        BY <2>1, ControlTypes
      <4>2. Cardinality(1..Len(run.rungs)) = Len(run.rungs) - 1 + 1
        BY <4>1, FS_Interval
      <4>3. QED
        BY <4>1, <4>2, ControlTypes
    <3>2. ProbeLimit' = ProbeLimit
      BY <1>1 DEF ProbeLimit
    <3>3. Promised' = Len(run.rungs) * ProbeLimit
      BY <1>1, <1>5, <2>1, <3>1, <3>2 DEF Promised
    <3>4. ~run.layout => Len(run.rungs) * ProbeLimit \in Nat
      BY <2>1, ProbesFit, ControlTypes, Times
    <3>5. QED
      BY <2>1, <3>3, <3>4, ProbesFit DEF Limited
  <2>4. keep.reserve = 0
    BY <2>1 DEF Control, Placed, ReserveSetOnce
  <2>5. QED
    BY <1>1, <1>3, <2>1, <2>2, <2>3, <2>4 DEF Fits
<1>6. CASE PassRung
  <2>1. /\ stage = "rung" /\ stage' = "rung" /\ plan.cands # {} /\ keep' = keep
        /\ plan' = [plan EXCEPT !.cands = WithoutFirst(@)] /\ lead' = lead
    BY <1>6 DEF PassRung, GoTo, Idle, learned
  <2>2. plan'.cands = WithoutFirst(plan.cands) /\ plan'.share = plan.share
    BY <1>1, <2>1, NextOfThePlan
  <2>3. Limited'
    BY <1>1, <2>1, <2>2 DEF Limited, NoAttempt
  <2>4. ~run.layout => Promised' \in Nat /\ Promised' <= Promised
    <3>1. CASE plan.share = None
      BY <1>1, <1>3, <2>1, <2>2, <3>1 DEF Promised
    <3>2. CASE plan.share # None
      <4>1. /\ Promised = Cardinality(plan.cands) * plan.share
            /\ Promised' = Cardinality(WithoutFirst(plan.cands)) * plan.share
        BY <1>1, <2>1, <2>2, <3>2 DEF Promised, NoAttempt
      <4>2. plan.share \in Nat
        BY <3>2, ControlTypes DEF Plans
      <4>3. /\ Cardinality(plan.cands) \in Nat /\ Cardinality(plan.cands) > 0
            /\ Cardinality(WithoutFirst(plan.cands)) = Cardinality(plan.cands) - 1
        BY <2>1, CandsCount
      <4>4. Cardinality(plan.cands) - 1 \in Nat
        BY <4>3
      <4>5. Promised' \in Nat
        BY <4>1, <4>2, <4>3, <4>4, Times
      <4>6. QED
        BY <4>1, <4>2, <4>3, <4>5, Times
    <3>3. QED
      BY <3>1, <3>2
  <2>5. QED
    BY <1>4, <2>3, <2>4
<1>7. CASE ~PassRung /\ ~(StartProbes /\ stage' = "probing")
  <2>1. stage' \notin {"probes", "probing"}
    BY <1>7 DEF Decide, StartProbes, EndProbes, StartRungs, NextPitch, PickLeader, LeaderOnFiner,
       AdmittedOnRegular, AdmittedOnFiner, EndPitch, NoRound, NoStep, StartPitch, Skip,
       GoTo, Idle, AfterRound, Flows, flow, Control, OnALattice
  <2>2. stage' # "rung" \/ plan'.share = None
    BY <1>7, NoPlanIs DEF Decide, StartProbes, EndProbes, StartRungs, NextPitch, PickLeader,
       LeaderOnFiner, AdmittedOnRegular, AdmittedOnFiner, EndPitch, NoRound, NoStep,
       StartPitch, Skip, GoTo, Idle, AfterRound, Flows, flow, Control, OnALattice
  <2>3. Limited' /\ Promised' = 0
    BY <1>1, <2>1, <2>2, AtRest
  <2>4. QED
    BY <1>3, <1>4, <2>3
<1>8. QED
  BY <1>5, <1>6, <1>7

\* Where no more is promised than what is left, or than was promised, it fits.
LEMMA PromisesKeep ==
    ASSUME Control, Control', Fits, Limited, run' = run,
           keep'.reserve = 0 \/ keep' = keep,
           ~run.layout => /\ overrun' >= overrun /\ Promised' \in Nat
                          /\ Spent' <= Spent + Promised,
           ~run.layout => \/ Spent' + Promised' <= Spent + Promised
                          \/ keep'.reserve = 0 /\ Promised' <= BoundLeft(work')
                          \/ Promised' <= RungLeft(work')
    PROVE  Fits'
<1>1. CASE run.layout \/ Spent' + Promised' <= Spent + Promised
  BY <1>1, AccountsKeep
<1>2. CASE ~run.layout /\ ~(Spent' + Promised' <= Spent + Promised)
  <2>1. /\ work' \in Nat /\ overrun' \in Nat /\ overrun \in Nat /\ work \in Nat
        /\ keep.reserve \in Nat /\ keep.over \in Nat /\ keep'.reserve \in Nat
    BY DEF Control, Typed, Data, Kept
  <2>2. /\ overrun' >= overrun /\ Promised' \in Nat /\ Promised \in Nat
        /\ Spent' <= Spent + Promised
    BY <1>2, PromisedIs
  <2>3. Spent' = work' - overrun' /\ Spent \in Int /\ Spent' \in Int
    BY <2>1 DEF Spent
  <2>4. Promised' # 0
    BY <1>2, <2>2, <2>3
  <2>5. /\ BoundLeft(work') \in Nat /\ RungLeft(work') \in Nat
        /\ BoundLeft(work') + work' <= Bound \/ BoundLeft(work') = 0
        /\ RungLeft(work') + keep.reserve + work' <= Bound \/ RungLeft(work') = 0
    BY <2>1, Lefts
  <2> DEFINE a == BoundLeft(work')
             b == RungLeft(work')
             c == keep.reserve
             p == Promised'
             w == work'
             d == overrun'
  <2>6. /\ a \in Nat /\ b \in Nat /\ c \in Nat /\ p \in Nat /\ w \in Nat /\ d \in Nat
        /\ Bound \in Nat
    BY <2>1, <2>2, <2>5, Numbers
  <2>7. /\ a + w <= Bound \/ a = 0
        /\ b + c + w <= Bound \/ b = 0
    BY <2>5
  <2>8. (keep'.reserve = 0 /\ p <= a) \/ p <= b
    BY <1>2
  <2>9. p # 0 /\ Spent' = w - d
    BY <2>3, <2>4
  <2> HIDE DEF a, b, c, p, w, d
  <2>10. ASSUME p <= a PROVE p + w <= Bound
    BY <2>6, <2>7, <2>9, <2>10
  <2>11. ASSUME p <= b PROVE p + c + w <= Bound /\ p + w <= Bound
    BY <2>6, <2>7, <2>9, <2>11
  <2>12. w - d + p <= Bound
    <3>1. p + w <= Bound
      BY <2>8, <2>10, <2>11
    <3>2. QED
      BY <2>6, <3>1
  <2>13. ASSUME keep'.reserve > 0
         PROVE  keep'.over <= overrun' /\ Spent' + p + keep'.reserve + keep'.over <= Bound
    <3>1. keep' = keep /\ p + c + w <= Bound
      BY <2>8, <2>11, <2>13
    <3> DEFINE v == keep.over
    <3>2. v <= overrun /\ v \in Nat /\ keep'.over = v /\ keep'.reserve = c
      BY <1>2, <2>1, <2>13, <3>1 DEF Fits, c
    <3> HIDE DEF v
    <3>3. v <= d
      BY <2>1, <2>2, <3>2 DEF d
    <3>4. w - d + p + c + v <= Bound
      BY <2>6, <3>1, <3>2, <3>3
    <3>5. QED
      BY <2>9, <3>2, <3>3, <3>4 DEF d
  <2>14. QED
    BY <2>9, <2>12, <2>13 DEF Fits, p
<1>3. QED
  BY <1>1, <1>2

---------------------------------------------------------------------------
(* The work within its bound: an attempt begins *)

LEMMA Starting ==
    ASSUME Control, Beginning, NEW kind, NEW mode, NEW limit, NEW times, NEW result,
           attempt = NoAttempt, Begin(kind, mode, limit, times, result)
    PROVE  /\ attempt'.kind = kind /\ attempt'.limit = limit /\ attempt'.times = times
           /\ attempt' # NoAttempt
           /\ run' = run /\ work' = work /\ overrun' = overrun /\ best' = best /\ stage' = stage
           /\ Spent' = Spent
<1>1. /\ attempt' = [kind |-> kind, mode |-> mode, limit |-> limit, times |-> times,
                     result |-> result]
  BY DEF Begin
<1>2. attempt' # NoAttempt
  BY <1>1 DEF NoAttempt
<1>3. QED
  BY <1>1, <1>2 DEF Beginning, judgedVars, Spent

LEMMA BeginProbeFits ==
    ASSUME Control, Control', Fits, Limited, BeginProbe
    PROVE  Fits' /\ Limited'
<1>1. /\ attempt = NoAttempt /\ stage = "probing" /\ plan' = plan /\ keep' = keep
      /\ Begin("probe", First(plan.cands), ProbeLimit, 1, <<>>)
  BY DEF BeginProbe, Idle, flow, learned
<1>2. Beginning
  BY DEF BeginProbe, Beginning, flow, learned, Control, Typed, Data
<1>3. /\ attempt'.kind = "probe" /\ attempt'.limit = ProbeLimit /\ attempt'.times = 1
      /\ run' = run /\ overrun' = overrun /\ stage' = stage /\ Spent' = Spent
  BY <1>1, <1>2, Starting
<1>4. ProbeLimit' = ProbeLimit
  BY <1>3 DEF ProbeLimit
<1>5. Promised' = Promised
  BY <1>1, <1>3, <1>4 DEF Promised
<1>6. Limited'
  BY <1>1, <1>3, <1>4 DEF Limited
<1>7. ~run.layout => /\ overrun' >= overrun /\ Promised' \in Nat
                     /\ Spent' + Promised' <= Spent + Promised
  BY <1>3, <1>5, PromisedIs, ControlTypes DEF Spent
<1>8. QED
  BY <1>1, <1>3, <1>6, <1>7, AccountsKeep

\* An attempt outside of the probing and the shares is promised its limits.
LEMMA AloneFits ==
    ASSUME Control, Control', Fits, Limited, Beginning, NEW kind, NEW mode, NEW limit \in Nat,
           NEW times \in Nat, NEW result, attempt = NoAttempt,
           Begin(kind, mode, limit, times, result),
           stage \notin {"probes", "probing"}, kind \notin {"probe", "retry"},
           kind = "rung" => times = 1, stage = "rung" => plan'.share = None,
           keep'.reserve = 0 \/ keep' = keep,
           ~run.layout => \/ keep'.reserve = 0 /\ times * limit <= BoundLeft(work)
                          \/ times * limit <= RungLeft(work)
    PROVE  Fits' /\ Limited'
<1>1. /\ attempt'.kind = kind /\ attempt'.limit = limit /\ attempt'.times = times
      /\ attempt' # NoAttempt /\ run' = run /\ work' = work /\ overrun' = overrun
      /\ stage' = stage /\ Spent' = Spent
  BY Starting
<1>2. Promised' = times * limit
  BY <1>1 DEF Promised
<1>3. Limited'
  <2>1. /\ stage' \notin {"probes", "probing"} /\ attempt'.kind # "probe"
        /\ attempt'.kind = "rung" => attempt'.times = 1
        /\ stage' = "rung" => plan'.share = None
        /\ attempt'.kind = "rung" => stage' = "rung"
    BY <1>1 DEF Control, Routes
  <2>2. QED
    BY <2>1, Zenon DEF Limited
<1>4. work \in Nat /\ overrun \in Nat /\ Spent \in Int /\ times * limit \in Nat
  BY ControlTypes, Times DEF Spent
<1> DEFINE p == times * limit
<1>5. Promised' = p /\ p \in Nat
  BY <1>2, <1>4
<1>6. ~run.layout => (keep'.reserve = 0 /\ p <= BoundLeft(work')) \/ p <= RungLeft(work')
  BY <1>1
<1> HIDE DEF p
<1>7. ~run.layout => /\ overrun' >= overrun /\ Promised' \in Nat
                     /\ Spent' <= Spent + Promised
  BY <1>1, <1>4, <1>5, PromisedIs
<1>8. QED
  BY <1>1, <1>3, <1>5, <1>6, <1>7, PromisesKeep

LEMMA BeginContinuationFits ==
    ASSUME Control, Control', ReserveSetOnce, Fits, Limited, BeginContinuation
    PROVE  Fits' /\ Limited'
<1> DEFINE limit == IF run.layout THEN Positive(WorkLeft(work) - CheckCharge) ELSE BoundLeft(work)
<1>1. /\ attempt = NoAttempt /\ stage = "continue" /\ keep' = keep
      /\ Begin("continuation", probes.mode, limit, 1, <<>>)
  BY DEF BeginContinuation, Idle, learned
<1>2. Beginning
  BY DEF BeginContinuation, Beginning, learned, Control, Typed, Data
<1>3. keep'.reserve = 0
  BY <1>1 DEF Control, Placed, ReserveSetOnce
<1>4. limit \in Nat /\ (~run.layout => limit = BoundLeft(work))
  BY LeftNow
<1> HIDE DEF limit
<1>5. ~run.layout => 1 * limit <= BoundLeft(work)
  BY <1>4, LeftNow
<1>6. QED
  BY <1>1, <1>2, <1>3, <1>4, <1>5, AloneFits

LEMMA BeginRoundFits ==
    ASSUME Control, Control', ReserveSetOnce, Fits, Limited, BeginRound
    PROVE  Fits' /\ Limited'
<1> DEFINE slots == IF stage = "A" THEN lead.slots ELSE 1
<1>1. /\ stage \in {"A", "seeds"} /\ attempt = NoAttempt /\ keep' = keep
      /\ Begin("round", best.mode, RoundLimit(slots), RoundSeeds(slots), <<>>)
      /\ RoundFits(slots) /\ rounds' = rounds + 1
  BY DEF BeginRound, Idle, learned
<1>2. Beginning
  BY <1>1 DEF BeginRound, Beginning, learned, flow, Control, Typed, Data
<1>3. slots \in Int
  BY ControlTypes DEF Leads
<1> HIDE DEF slots
<1>4. best # NoBest /\ RoundSeeds(slots) > 0
  BY <1>1 DEF RoundFits, OpenBest
<1>5. /\ RoundSeeds(slots) \in Nat /\ RoundLimit(slots) \in Nat
      /\ ~run.layout => RoundSeeds(slots) * RoundLimit(slots) <= RungLeft(work)
  BY <1>3, <1>4, RoundSeedsAre, RoundLimits
<1>6. QED
  BY <1>1, <1>2, <1>5, AloneFits

LEMMA BeginStepFits ==
    ASSUME Control, Control', Fits, Limited, BeginStep
    PROVE  Fits' /\ Limited'
<1>1. PICK kind \in {"narrow", "clearance"} :
        /\ Idle(IF kind = "narrow" THEN "steps" ELSE "clearance")
        /\ keep' = [keep EXCEPT !.reserve = 0, !.steps = StepsKeep]
        /\ StepRuns(kind)
        /\ Begin(kind, best.mode, StepLimit(StepsKeep), 1, <<>>)
        /\ UNCHANGED <<run, late, work, overrun, judgedVars, last, slowest, regular, extra,
                       probes, rounds, failed, flow>>
  BY Zenon DEF BeginStep
<1>2. keep' \in Kept /\ keep'.reserve = 0 /\ StepsKeep \in Nat
  BY <1>1, StepsKept DEF StepsKeep, Control, Typed, Data, Kept
<1>3. Beginning
  BY <1>1, <1>2 DEF Beginning, flow, Control, Typed, Data
<1>4. stage \in {"steps", "clearance"} /\ attempt = NoAttempt
  BY <1>1 DEF Idle
<1>5. best # NoBest
  BY <1>1 DEF StepRuns, OpenBest
<1> DEFINE limit == StepLimit(StepsKeep)
<1>6. limit \in Nat /\ (~run.layout => limit = BoundLeft(work))
  BY <1>2, <1>5, StepLimits
<1>7. Begin(kind, best.mode, limit, 1, <<>>)
  BY <1>1
<1> HIDE DEF limit
<1>8. ~run.layout => 1 * limit <= BoundLeft(work)
  BY <1>6, LeftNow
<1>9. QED
  BY <1>2, <1>3, <1>4, <1>6, <1>7, <1>8, AloneFits

\* The share of each rung that is still to come, when the first of them starts.
LEMMA ShareFits ==
    ASSUME Control, plan.cands # {}
    PROVE  /\ RungShare(RungLeft(work), Cardinality(plan.cands) + plan.after) \in Nat
           /\ Cardinality(plan.cands)
                * RungShare(RungLeft(work), Cardinality(plan.cands) + plan.after)
              <= RungLeft(work)
<1> DEFINE n == Cardinality(plan.cands)
           m == plan.after
           most == RungLeft(work)
           share == RungShare(most, n + m)
<1>1. n \in Nat /\ n > 0 /\ m \in Nat /\ most \in Nat
  BY CandsCount, ControlTypes, LeftNow DEF Plans
<1> HIDE DEF n, m, most
<1>2. Positive(most) = most
  BY <1>1 DEF Positive, Larger
<1>3. n + m \in Int /\ n + m > 0 /\ most \in Int
  BY <1>1
<1>4. share \in Nat /\ (n + m) * share <= most
  BY <1>2, <1>3, RungShares
<1> HIDE DEF share
<1>5. n * share <= (n + m) * share /\ n * share \in Nat
  BY <1>1, <1>4, SMT
<1> DEFINE a == n * share
           b == (n + m) * share
<1>6. a \in Int /\ b \in Int
  BY <1>1, <1>4, <1>5
<1>7. a <= b /\ b <= most
  BY <1>4, <1>5
<1> HIDE DEF a, b
<1>8. a <= most
  BY <1>1, <1>6, <1>7
<1>9. QED
  BY <1>4, <1>8 DEF a, share, n, m, most

LEMMA BeginRungFits ==
    ASSUME Control, Control', ReserveSetOnce, Fits, Limited, BeginRung
    PROVE  Fits' /\ Limited'
<1>1. /\ attempt = NoAttempt /\ stage = "rung" /\ plan.cands # {} /\ keep' = keep
      /\ plan' = [plan EXCEPT !.share = Share]
      /\ Begin("rung", First(plan.cands), RungLimit, 1, <<>>)
  BY DEF BeginRung, Idle, learned
<1>2. Beginning
  BY DEF BeginRung, Beginning, learned, Control, Typed, Data
<1>3. Share \in Nat \cup {None} /\ RungLimit \in Nat
  BY <1>1, RungLimits
<1>4. plan'.cands = plan.cands /\ plan'.share = Share
  BY <1>1, <1>3, ControlTypes DEF Plans
<1>5. /\ attempt'.kind = "rung" /\ attempt'.limit = RungLimit /\ attempt'.times = 1
      /\ attempt' # NoAttempt /\ run' = run /\ work' = work /\ overrun' = overrun
      /\ best' = best /\ stage' = stage /\ Spent' = Spent
  BY <1>1, <1>2, Starting
<1>6. CASE run.layout
  BY <1>5, <1>6 DEF Fits, Limited
<1>7. CASE ~run.layout /\ best = NoBest
  <2>1. plan.share = None
    BY <1>1, <1>7 DEF Limited
  <2>2. plan'.share = None /\ RungLimit = BoundLeft(work) /\ keep'.reserve = 0
    BY <1>1, <1>4, <1>7, <2>1 DEF Share, RungLimit, ReserveSetOnce
  <2> DEFINE limit == RungLimit
  <2>3. limit \in Nat /\ 1 * limit <= BoundLeft(work)
    BY <1>3, <2>2
  <2>4. Begin("rung", First(plan.cands), limit, 1, <<>>)
    BY <1>1
  <2> HIDE DEF limit
  <2>5. QED
    BY <1>1, <1>2, <2>2, <2>3, <2>4, AloneFits
<1>8. CASE ~run.layout /\ best # NoBest
  <2>1. Share # None /\ RungLimit = Share
    <3>1. RungShare(RungLeft(work), Cardinality(plan.cands) + plan.after) \in Nat
      BY <1>1, ShareFits
    <3>2. QED
      BY <1>8, <3>1 DEF Share, RungLimit, None
  <2>2. Limited'
    BY <1>1, <1>4, <1>5, <1>8, <2>1 DEF Limited
  <2>3. Promised' = Cardinality(plan.cands) * Share
    BY <1>1, <1>4, <1>5, <2>1 DEF Promised
  <2>4. Cardinality(plan.cands) \in Nat /\ Share \in Nat
    BY <1>3, <2>1, CandsCount
  <2>5. Promised' \in Nat
    BY <2>3, <2>4, Times
  <2>6. overrun' >= overrun /\ Spent \in Int /\ Promised \in Nat /\ Spent' <= Spent + Promised
    BY <1>5, <1>8, ControlTypes, PromisedIs DEF Spent
  <2>7. CASE plan.share # None
    <3>1. Share = plan.share
      BY <2>7 DEF Share
    <3>2. Promised' = Promised
      BY <1>1, <2>3, <2>7, <3>1 DEF Promised, NoAttempt
    <3>3. Spent' + Promised' <= Spent + Promised
      BY <1>5, <2>6, <3>2
    <3>4. QED
      BY <1>1, <1>5, <2>2, <2>5, <2>6, <3>3, AccountsKeep
  <2>8. CASE plan.share = None
    <3>1. Share = RungShare(RungLeft(work), Cardinality(plan.cands) + plan.after)
      BY <1>8, <2>8 DEF Share
    <3>2. Promised' <= RungLeft(work)
      BY <1>1, <2>3, <3>1, ShareFits
    <3>3. Promised' <= RungLeft(work')
      BY <1>5, <3>2
    <3>4. QED
      BY <1>1, <1>5, <2>2, <2>5, <2>6, <3>3, PromisesKeep
  <2>9. QED
    BY <2>7, <2>8
<1>9. QED
  BY <1>6, <1>7, <1>8

LEMMA BeginningFits ==
    ASSUME Control, Control', ReserveSetOnce, Fits, Limited,
           BeginProbe \/ BeginRung \/ BeginAlone
    PROVE  Fits' /\ Limited'
  BY BeginProbeFits, BeginContinuationFits, BeginRoundFits, BeginStepFits, BeginRungFits
     DEF BeginAlone

---------------------------------------------------------------------------
(* The work within its bound: an attempt ends *)

LEMMA Spends ==
    ASSUME Control, attempt # NoAttempt, ~run.layout,
           \/ work' = work /\ overrun' = overrun
           \/ \E w \in Nat, checked \in BOOLEAN : Charge(w, checked)
    PROVE  /\ overrun' >= overrun /\ Spent \in Int /\ Spent' \in Int
           /\ attempt.times * attempt.limit \in Nat
           /\ Spent' <= Spent + attempt.times * attempt.limit
<1> DEFINE most == attempt.times * attempt.limit
<1>1. work \in Nat /\ overrun \in Nat /\ most \in Nat
  BY ControlTypes, Times DEF Control, Typed, Attempts
<1>2. CASE work' = work /\ overrun' = overrun
  <2>1. Spent' = Spent /\ Spent \in Int
    BY <1>1, <1>2 DEF Spent
  <2> HIDE DEF most
  <2>2. Spent' <= Spent + most
    BY <1>1, <2>1
  <2>3. QED
    BY <1>1, <1>2, <2>1, <2>2 DEF most
<1>3. CASE \E w \in Nat, checked \in BOOLEAN : Charge(w, checked)
  <2>1. /\ work' \in Nat /\ overrun' \in Nat /\ overrun' >= overrun
        /\ work' - overrun' <= work - overrun + most
    BY <1>3, Charged
  <2>2. QED
    BY <1>1, <2>1 DEF Spent
<1>4. QED
  BY <1>2, <1>3

\* One of those that share what is promised is done with its part.
LEMMA OneOfMany ==
    ASSUME Control, attempt # NoAttempt, ~run.layout,
           \/ work' = work /\ overrun' = overrun
           \/ \E w \in Nat, checked \in BOOLEAN : Charge(w, checked),
           plan.cands # {}, attempt.times = 1,
           Promised = Cardinality(plan.cands) * attempt.limit,
           Promised' = Cardinality(WithoutFirst(plan.cands)) * attempt.limit
    PROVE  /\ overrun' >= overrun /\ Promised' \in Nat
           /\ Spent' + Promised' <= Spent + Promised
<1> DEFINE n == Cardinality(plan.cands)
           l == attempt.limit
           a == Promised
           b == Promised'
<1>1. /\ n \in Nat /\ n > 0 /\ n - 1 \in Nat /\ l \in Nat
      /\ Cardinality(WithoutFirst(plan.cands)) = n - 1
  BY CandsCount DEF Control, Typed, Attempts
<1>2. a = n * l /\ b = (n - 1) * l
  BY <1>1
<1>3. overrun' >= overrun /\ Spent \in Int /\ Spent' \in Int /\ Spent' <= Spent + l
  <2>1. 1 * l = l
    BY <1>1
  <2>2. QED
    BY <2>1, Spends
<1> DEFINE s1 == Spent
           s2 == Spent'
<1>4. s1 \in Int /\ s2 \in Int /\ s2 <= s1 + l
  BY <1>3
<1> HIDE DEF n, l, a, b, s1, s2
<1>5. a \in Nat /\ b \in Nat /\ b = a - l
  BY <1>1, <1>2, Times
<1>6. s2 + b <= s1 + a
  BY <1>1, <1>4, <1>5
<1>7. QED
  BY <1>3, <1>5, <1>6 DEF a, b, s1, s2

LEMMA ProbeEndsFits ==
    ASSUME Control, Control', ReserveSetOnce, Fits, Limited, NEW o, ProbeOutcome(o), ProbeEnds(o)
    PROVE  Fits' /\ Limited' /\ ReserveSetOnce'
<1>1. /\ stage = "probing" /\ plan.cands # {} /\ attempt.kind = "probe" /\ attempt # NoAttempt
      /\ attempt' = NoAttempt /\ run' = run /\ stage' \in {"probing", "continue"}
      /\ plan' = [plan EXCEPT !.cands = WithoutFirst(@)]
  <2>1. attempt.kind = "probe" /\ attempt # NoAttempt
    BY DEF ProbeEnds, NoAttempt
  <2>2. stage = "probing" /\ plan.cands # {}
    BY <2>1 DEF Control, Routes
  <2>3. QED
    BY <2>1, <2>2, Zenon DEF ProbeEnds
<1>2. keep' = keep /\ best' = best
  BY DEF ProbeEnds, Dropped, judgedVars, learned
<1>3. \/ work' = work /\ overrun' = overrun
      \/ \E w \in Nat, checked \in BOOLEAN : Charge(w, checked)
  BY DEF ProbeEnds, Dropped, ProbeOutcome
<1>4. Limited'
  BY <1>1 DEF Limited, NoAttempt
<1>5. plan'.cands = WithoutFirst(plan.cands)
  BY <1>1, NextOfThePlan
<1>6. ~run.layout => /\ overrun' >= overrun /\ Promised' \in Nat
                     /\ Spent' + Promised' <= Spent + Promised
  <2>1. CASE stage' = "continue"
    <3>1. Promised' = 0
      BY <1>1, <2>1 DEF Promised
    <3>2. QED
      BY <1>1, <1>3, <3>1, EndsWithin
  <2>2. CASE ~run.layout /\ stage' = "probing"
    <3>1. attempt.times = 1 /\ attempt.limit = ProbeLimit /\ ProbeLimit' = ProbeLimit
      BY <1>1, <2>2 DEF Limited, ProbeLimit
    <3>2. /\ Promised = Cardinality(plan.cands) * attempt.limit
          /\ Promised' = Cardinality(WithoutFirst(plan.cands)) * attempt.limit
      BY <1>1, <1>5, <2>2, <3>1 DEF Promised
    <3>3. QED
      BY <1>1, <1>3, <2>2, <3>1, <3>2, OneOfMany
  <2>3. QED
    BY <1>1, <2>1, <2>2
<1>7. keep' \in Kept
  BY DEF Control, Typed, Data
<1>8. QED
  BY <1>1, <1>2, <1>4, <1>6, <1>7, AccountsKeep, OnceAgain

\* The ends after which nothing is promised any more.
LEMMA LastFits ==
    ASSUME Control, Control', Fits, Limited, attempt # NoAttempt, attempt' = NoAttempt, run' = run,
           stage' \notin {"probes", "probing", "rung"},
           \/ work' = work /\ overrun' = overrun
           \/ \E w \in Nat, checked \in BOOLEAN : Charge(w, checked),
           \/ keep'.reserve = 0
           \/ keep' = keep
           \/ keep'.over = overrun' /\ (~run.layout => work' + keep'.reserve <= Bound)
    PROVE  Fits' /\ Limited'
<1>1. Limited' /\ Promised' = 0
  BY AtRest
<1>2. ~run.layout => /\ overrun' >= overrun /\ Promised' \in Nat
                     /\ Spent' + Promised' <= Spent + Promised
  BY <1>1, EndsWithin
<1>3. QED
  BY <1>1, <1>2, AccountsKeep

LEMMA ContinuationEndsFits ==
    ASSUME Control, Control', ReserveSetOnce, Fits, Limited, NEW o, Outcome(o), ContinuationEnds(o)
    PROVE  Fits' /\ Limited' /\ ReserveSetOnce'
<1>1. /\ attempt # NoAttempt /\ attempt' = NoAttempt /\ run' = run /\ stage' = "rungs"
  BY DEF ContinuationEnds, NoAttempt
<1>2. \/ work' = work /\ overrun' = overrun
      \/ \E w \in Nat, checked \in BOOLEAN : Charge(w, checked)
  <2>1. o.fate = "routed" => Judged(o.board) \in BOOLEAN
    BY OpensAre DEF Outcome
  <2>2. o.fate = "routed" => Charge(o.work, Judged(o.board))
    BY Zenon DEF ContinuationEnds
  <2>3. QED
    BY <2>1, <2>2 DEF ContinuationEnds, Dropped, Outcome
<1>3. QED
  BY <1>1, <1>2, ContinuationKept, LastFits

LEMMA VariedFits ==
    ASSUME Control, Control', ReserveSetOnce, Fits, Limited, NEW o, Outcome(o),
           RoundEnds(o) \/ StepEnds(o)
    PROVE  Fits' /\ Limited' /\ ReserveSetOnce'
<1>1. /\ attempt.kind \in {"round", "narrow", "clearance"} /\ attempt # NoAttempt
      /\ attempt' = NoAttempt /\ run' = run /\ Varied(o)
  BY DEF RoundEnds, StepEnds, NoAttempt
<1>2. best # NoBest
  BY <1>1 DEF Control, Routes
<1>3. stage' \notin {"probes", "probing", "rung"}
  BY DEF RoundEnds, StepEnds, AfterRound, flow, Control, Routes
<1>4. keep' = keep /\ ReserveSetOnce'
  BY <1>1, <1>2, VariedKept
<1>5. \/ work' = work /\ overrun' = overrun
      \/ \E w \in Nat, checked \in BOOLEAN : Charge(w, checked)
  <2>1. o.fate = "routed" => Judged(o.board) \in BOOLEAN
    BY OpensAre DEF Outcome
  <2>2. o.fate = "routed" => Charge(o.work, Judged(o.board))
    BY <1>1, Zenon DEF Varied
  <2>3. QED
    BY <1>1, <2>1, <2>2 DEF Varied, Dropped, Outcome
<1>6. QED
  BY <1>1, <1>3, <1>4, <1>5, LastFits

LEMMA ErrorFits ==
    ASSUME Control, Control', ReserveSetOnce, Fits, Limited, NEW o, Error(o)
    PROVE  Fits' /\ Limited' /\ ReserveSetOnce'
<1>1. /\ attempt # NoAttempt /\ attempt' = NoAttempt /\ run' = run /\ stage' = "failed"
      /\ work' = work /\ overrun' = overrun /\ best' = best /\ keep' = keep
  BY DEF Error, judgedVars, learned
<1>2. keep' \in Kept
  BY DEF Control, Typed, Data
<1>3. QED
  BY <1>1, <1>2, LastFits, OnceAgain

\* What is left of the shares when a rung is done.
LEMMA SharesLeft ==
    ASSUME Control, Limited, ~run.layout, stage = "rung", attempt.kind = "rung",
           attempt # NoAttempt, attempt' = NoAttempt, stage' = stage,
           plan' = [plan EXCEPT !.cands = WithoutFirst(@)],
           \/ work' = work /\ overrun' = overrun
           \/ \E w \in Nat, checked \in BOOLEAN : Charge(w, checked)
    PROVE  /\ overrun' >= overrun /\ Promised' \in Nat
           /\ Spent' + Promised' <= Spent + Promised
<1>1. plan.cands # {}
  BY DEF Control, Routes
<1>2. plan'.cands = WithoutFirst(plan.cands) /\ plan'.share = plan.share
  BY <1>1, NextOfThePlan
<1>3. CASE plan.share = None
  <2>1. Promised' = 0
    BY <1>2, <1>3 DEF Promised, NoAttempt
  <2>2. QED
    BY <2>1, EndsWithin
<1>4. CASE plan.share # None
  <2>1. attempt.times = 1 /\ attempt.limit = plan.share
    BY <1>4 DEF Limited
  <2>2. /\ Promised = Cardinality(plan.cands) * attempt.limit
        /\ Promised' = Cardinality(WithoutFirst(plan.cands)) * attempt.limit
    BY <1>2, <1>4, <2>1 DEF Promised, NoAttempt
  <2>3. QED
    BY <1>1, <2>1, <2>2, OneOfMany
<1>5. QED
  BY <1>3, <1>4

LEMMA RungPanicsFits ==
    ASSUME Control, Control', ReserveSetOnce, Fits, Limited, NEW o, RungEnds(o),
           o.fate \in {"panic", "checkPanic"}
    PROVE  Fits' /\ Limited' /\ ReserveSetOnce'
<1>1. /\ attempt.kind = "rung" /\ attempt # NoAttempt /\ attempt' = NoAttempt /\ run' = run
      /\ stage' = stage /\ plan' = [plan EXCEPT !.cands = WithoutFirst(@)]
      /\ work' = work /\ overrun' = overrun /\ best' = best /\ keep' = keep
  <2>1. attempt.kind = "rung" /\ attempt # NoAttempt
    BY DEF RungEnds, NoAttempt
  <2>2. /\ Dropped /\ attempt' = NoAttempt /\ run' = run /\ stage' = stage
        /\ plan' = [plan EXCEPT !.cands = WithoutFirst(@)]
    BY RungPanics
  <2>3. QED
    BY <2>1, <2>2, Panicked
<1>2. stage = "rung" /\ plan.cands # {}
  BY <1>1 DEF Control, Routes
<1>3. plan'.share = plan.share
  BY <1>1, <1>2, NextOfThePlan
<1>4. Limited'
  BY <1>1, <1>2, <1>3, AtRest DEF Limited
<1>5. ~run.layout => /\ overrun' >= overrun /\ Promised' \in Nat
                     /\ Spent' + Promised' <= Spent + Promised
  BY <1>1, <1>2, SharesLeft
<1>6. keep' \in Kept
  BY DEF Control, Typed, Data
<1>7. QED
  BY <1>1, <1>4, <1>5, <1>6, AccountsKeep, OnceAgain

\* A rung that is settled, with its seeds or without.
LEMMA SettleFits ==
    ASSUME Control, Control', ReserveSetOnce, Fits, Limited, RetryIsLast,
           attempt.kind \in {"rung", "retry"}, run' = run,
           NEW r \in Results, Settle(r),
           \/ work' = work /\ overrun' = overrun
           \/ \E w \in Nat, checked \in BOOLEAN : Charge(w, checked)
    PROVE  Fits' /\ Limited' /\ ReserveSetOnce'
<1>1. stage = "rung" /\ plan.cands # {} /\ attempt.mode = First(plan.cands)
      /\ attempt # NoAttempt
  BY DEF Control, Routes, NoAttempt
<1>2. work' \in Nat /\ overrun' \in Nat
  BY <1>1, Charged, ControlTypes
<1>3. attempt' = NoAttempt /\ best' # NoBest
  BY <1>2, Settled
<1>4. /\ \/ keep'.reserve = 0
         \/ keep' = keep
         \/ /\ best = NoBest /\ keep'.over = overrun'
            /\ ~run.layout => work' + keep'.reserve <= Bound
      /\ ReserveSetOnce'
  BY <1>2, SettleKept
<1>5. CASE Flows(TRUE)
  <2>1. stage' = "seeds"
    BY <1>5 DEF Flows
  <2>2. QED
    BY <1>1, <1>3, <1>4, <2>1, LastFits
<1>6. CASE plan' = [plan EXCEPT !.cands = WithoutFirst(@)] /\ stage' = stage
  <2>1. plan'.cands = WithoutFirst(plan.cands) /\ plan'.share = plan.share
    BY <1>1, <1>6, NextOfThePlan
  <2>2. Limited'
    BY <1>1, <1>3, <1>6, AtRest
  <2>3. ~run.layout => /\ overrun' >= overrun /\ Promised' \in Nat
                       /\ Spent' + Promised' <= Spent + Promised
    <3>1. CASE attempt.kind = "rung"
      BY <1>1, <1>3, <1>6, <3>1, SharesLeft
    <3>2. CASE attempt.kind = "retry"
      <4>1. WithoutFirst(plan.cands) = {}
        BY <1>1, <3>2 DEF RetryIsLast, WithoutFirst
      <4>2. Cardinality(plan'.cands) = 0
        BY <2>1, <4>1, FS_EmptySet
      <4>3. plan'.share \in Nat \cup {None}
        BY <2>1, ControlTypes DEF Plans
      <4>4. Promised' = 0
        BY <1>1, <1>3, <1>6, <4>2, <4>3 DEF Promised, NoAttempt
      <4>5. QED
        BY <1>1, <4>4, EndsWithin
    <3>3. QED
      BY <3>1, <3>2
  <2>4. ~run.layout /\ best = NoBest => Promised' = 0
    <3>1. SUFFICES ASSUME ~run.layout, best = NoBest PROVE Promised' = 0
      OBVIOUS
    <3>2. plan.share = None
      BY <1>1, <3>1 DEF Limited
    <3>3. QED
      BY <1>1, <1>3, <1>6, <2>1, <3>2, AtRest
  <2>5. QED
    BY <1>4, <2>2, <2>3, <2>4, AccountsKeep
<1>7. QED
  BY <1>5, <1>6, SettleIs

LEMMA RetryEndsFits ==
    ASSUME Control, Control', ReserveSetOnce, Fits, Limited, RetryIsLast,
           NEW o, Outcome(o), RetryEnds(o)
    PROVE  Fits' /\ Limited' /\ ReserveSetOnce'
<1>1. attempt.kind = "retry" /\ o.work \in Nat
  BY DEF RetryEnds, Outcome
<1>2. run' = run
  BY RetryIs
<1>3. /\ \/ work' = work /\ overrun' = overrun
         \/ \E w \in Nat, checked \in BOOLEAN : Charge(w, checked)
      /\ \E r \in Results : Settle(r)
  BY <1>1, RetryIs
<1>4. QED
  BY <1>1, <1>2, <1>3, SettleFits

\* The seeds of the last rung are given no more than what is left.
LEMMA RetryBegins ==
    ASSUME Control, Control', ReserveSetOnce, Fits, Limited, attempt.kind = "rung",
           NEW w \in Nat, NEW checked \in BOOLEAN, Charge(w, checked), run' = run,
           NEW r, Begin("retry", attempt.mode, RetryLimit(work'), RetrySeeds, r),
           UNCHANGED <<best, output, learned, flow>>
    PROVE  Fits' /\ Limited' /\ ReserveSetOnce'
<1>1. attempt # NoAttempt /\ stage = "rung"
  BY DEF NoAttempt, Control, Routes
<1>2. /\ keep' = keep /\ best' = best /\ stage' = stage /\ plan' = plan
  BY DEF learned, flow
<1>3. work' \in Nat
  BY <1>1, Charged
<1> DEFINE limit == RetryLimit(work')
<1>4. limit \in Nat /\ (~run.layout => RetrySeeds * limit <= RungLeft(work'))
  BY <1>3, RetryLimits
<1> HIDE DEF limit
<1>5. /\ attempt'.kind = "retry" /\ attempt'.limit = limit /\ attempt'.times = RetrySeeds
      /\ attempt' # NoAttempt
  <2>1. attempt' = [kind |-> "retry", mode |-> attempt.mode, limit |-> limit,
                    times |-> RetrySeeds, result |-> r]
    BY DEF Begin, limit
  <2>2. QED
    BY <2>1 DEF NoAttempt
<1>6. Promised' = RetrySeeds * limit
  BY <1>1, <1>2, <1>5 DEF Promised
<1>7. Limited'
  <2>1. /\ stage' \notin {"probes", "probing"} /\ attempt'.kind \notin {"probe", "rung"}
        /\ ~run'.layout => (plan'.share # None => best' # NoBest)
    BY <1>1, <1>2, <1>5 DEF Limited
  <2>2. QED
    BY <2>1, Zenon DEF Limited
<1>8. ~run.layout => /\ overrun' >= overrun /\ Promised' \in Nat
                     /\ Spent' <= Spent + Promised /\ Promised' <= RungLeft(work')
  <2>1. SUFFICES ASSUME ~run.layout
                 PROVE  /\ overrun' >= overrun /\ Promised' \in Nat
                        /\ Spent' <= Spent + Promised /\ Promised' <= RungLeft(work')
    OBVIOUS
  <2>2. Promised' \in Nat
    BY <1>4, <1>6, Times, Numbers
  <2>3. /\ overrun' >= overrun /\ Spent \in Int /\ Spent' \in Int
        /\ attempt.times * attempt.limit \in Nat
        /\ Spent' <= Spent + attempt.times * attempt.limit
    BY <1>1, <2>1, Spends
  <2>4. Promised \in Nat /\ attempt.times * attempt.limit <= Promised
    BY <1>1, <2>1, PromisedIs
  <2> DEFINE most == attempt.times * attempt.limit
             p == Promised
             s1 == Spent
             s2 == Spent'
  <2>5. /\ most \in Nat /\ p \in Nat /\ s1 \in Int /\ s2 \in Int /\ s2 <= s1 + most
        /\ most <= p
    BY <2>3, <2>4
  <2> HIDE DEF most, p, s1, s2
  <2>6. s2 <= s1 + p
    BY <2>5
  <2>7. QED
    BY <1>4, <1>6, <2>1, <2>2, <2>3, <2>6 DEF p, s1, s2
<1>9. keep' \in Kept
  BY DEF Control, Typed, Data
<1>10. QED
  BY <1>2, <1>7, <1>8, <1>9, PromisesKeep, OnceAgain

LEMMA RungEndsFits ==
    ASSUME Control, Control', ReserveSetOnce, Fits, Limited, RetryIsLast,
           NEW o, Outcome(o), RungEnds(o)
    PROVE  Fits' /\ Limited' /\ ReserveSetOnce'
<1>1. CASE o.fate \in {"panic", "checkPanic"}
  BY <1>1, RungPanicsFits
<1>2. CASE o.fate \notin {"panic", "checkPanic"}
  <2> DEFINE checked == Judged(o.board)
             r       == Result(o, checked, FALSE)
  <2>1. /\ checked \in BOOLEAN /\ r \in Results /\ Charge(o.work, checked)
        /\ \/ /\ RetryWanted(r)
              /\ Begin("retry", attempt.mode, RetryLimit(work'), RetrySeeds, r)
              /\ UNCHANGED <<best, output, learned, flow>>
           \/ ~RetryWanted(r) /\ Settle(r) /\ beyond' = beyond
        /\ run' = run
    BY <1>2, RungRouted
  <2>2. attempt.kind = "rung" /\ o.work \in Nat
    BY DEF RungEnds, Outcome
  <2> HIDE DEF checked, r
  <2>3. CASE Settle(r)
    BY <2>1, <2>2, <2>3, SettleFits
  <2>4. CASE /\ Begin("retry", attempt.mode, RetryLimit(work'), RetrySeeds, r)
             /\ UNCHANGED <<best, output, learned, flow>>
    BY <2>1, <2>2, <2>4, RetryBegins
  <2>5. QED
    BY <2>1, <2>3, <2>4
<1>3. QED
  BY <1>1, <1>2

---------------------------------------------------------------------------
(* Every step keeps the work within its bound *)

Bounded == ReserveSetOnce /\ Fits /\ Limited /\ RetryIsLast

LEMMA LateBounded == ASSUME Control, Bounded, Control', Late PROVE Bounded'
<1>1. /\ run' = run /\ work' = work /\ overrun' = overrun /\ best' = best /\ keep' = keep
      /\ stage' = stage /\ plan' = plan /\ attempt' = attempt
  BY DEF Late, judgedVars, learned, flow
<1>2. keep' \in Kept
  BY DEF Control, Typed, Data
<1>3. Spent' = Spent /\ Promised' = Promised
  <2>1. ProbeLimit' = ProbeLimit
    BY <1>1 DEF ProbeLimit
  <2>2. QED
    BY <1>1, <2>1 DEF Spent, Promised
<1>4. Fits'
  BY <1>1, <1>3, Zenon DEF Bounded, Fits
<1>5. Limited'
  <2>1. ProbeLimit' = ProbeLimit
    BY <1>1 DEF ProbeLimit
  <2>2. QED
    BY <1>1, <1>3, <2>1, Zenon DEF Bounded, Limited
<1>6. ReserveSetOnce' /\ RetryIsLast'
  BY <1>1, <1>2, OnceAgain DEF Bounded, RetryIsLast
<1>7. QED
  BY <1>4, <1>5, <1>6 DEF Bounded

LEMMA DecideBounded == ASSUME Control, Bounded, Control', Decide PROVE Bounded'
<1>1. Fits' /\ Limited'
  BY DecideFits DEF Bounded
<1>2. attempt' = NoAttempt /\ run' = run /\ best' = best
  BY DEF Decide, StartProbes, EndProbes, StartRungs, NextPitch, PickLeader, LeaderOnFiner,
     AdmittedOnRegular, AdmittedOnFiner, EndPitch, PassRung, NoRound, NoStep, StartPitch, Skip,
     GoTo, Idle, judgedVars
<1>3. keep' \in Kept /\ keep'.set = keep.set /\ (keep'.reserve = 0 \/ keep'.reserve = keep.reserve)
  <2>1. CASE keep' = keep
    BY <2>1 DEF Control, Typed, Data
  <2>2. CASE keep' # keep
    <3>1. keep' = [keep EXCEPT !.reserve = 0, !.steps = StepsKeep]
      BY <2>2 DEF Decide, StartProbes, EndProbes, StartRungs, NextPitch, PickLeader,
         LeaderOnFiner, AdmittedOnRegular, AdmittedOnFiner, EndPitch, PassRung, NoRound,
         NoStep, StartPitch, Skip, GoTo, learned
    <3>2. QED
      BY <3>1, StepsKept
  <2>3. QED
    BY <2>1, <2>2
<1>4. ReserveSetOnce'
  BY <1>2, <1>3, OnceAgain DEF Bounded
<1>5. RetryIsLast'
  BY <1>2 DEF RetryIsLast, NoAttempt
<1>6. QED
  BY <1>1, <1>4, <1>5 DEF Bounded

LEMMA BeginningBounded ==
    ASSUME Control, Bounded, Control', BeginProbe \/ BeginRung \/ BeginAlone
    PROVE  Bounded'
<1>1. Fits' /\ Limited'
  BY BeginningFits DEF Bounded
<1>2. run' = run /\ best' = best
  BY DEF BeginProbe, BeginRung, BeginAlone, BeginContinuation, BeginRound, BeginStep, judgedVars
<1>3. keep' \in Kept /\ keep'.set = keep.set /\ (keep'.reserve = 0 \/ keep'.reserve = keep.reserve)
  <2>1. CASE keep' = keep
    BY <2>1 DEF Control, Typed, Data
  <2>2. CASE keep' # keep
    <3>1. keep' = [keep EXCEPT !.reserve = 0, !.steps = StepsKeep]
      BY <2>2 DEF BeginProbe, BeginRung, BeginAlone, BeginContinuation, BeginRound, BeginStep,
         learned
    <3>2. QED
      BY <3>1, StepsKept
  <2>3. QED
    BY <2>1, <2>2
<1>4. ReserveSetOnce'
  BY <1>2, <1>3, OnceAgain DEF Bounded
<1>5. RetryIsLast'
  <2>1. attempt'.kind # "retry"
    BY DEF BeginProbe, BeginRung, BeginAlone, BeginContinuation, BeginRound, BeginStep, Begin
  <2>2. QED
    BY <2>1 DEF RetryIsLast
<1>6. QED
  BY <1>1, <1>4, <1>5 DEF Bounded

\* Only the end of the last rung begins a retry.
LEMMA RetryStaysLast ==
    ASSUME Control, NEW o, Outcome(o), RungEnds(o)
    PROVE  RetryIsLast'
<1>1. attempt.kind = "rung" /\ plan.cands # {} /\ attempt.mode = First(plan.cands)
  BY DEF RungEnds, Control, Routes
<1>2. CASE o.fate \in {"panic", "checkPanic"}
  BY <1>2, RungPanics DEF RetryIsLast, NoAttempt
<1>3. CASE o.fate \notin {"panic", "checkPanic"}
  <2> DEFINE checked == Judged(o.board)
             r       == Result(o, checked, FALSE)
  <2>1. \/ /\ RetryWanted(r)
           /\ Begin("retry", attempt.mode, RetryLimit(work'), RetrySeeds, r)
           /\ UNCHANGED <<best, output, learned, flow>>
        \/ ~RetryWanted(r) /\ Settle(r) /\ beyond' = beyond
    BY <1>3, RungRouted
  <2> HIDE DEF checked, r
  <2>2. CASE Settle(r)
    <3>1. attempt' = NoAttempt
      BY <2>2, SettleIs
    <3>2. QED
      BY <3>1 DEF RetryIsLast, NoAttempt
  <2>3. CASE /\ RetryWanted(r)
             /\ Begin("retry", attempt.mode, RetryLimit(work'), RetrySeeds, r)
             /\ UNCHANGED <<best, output, learned, flow>>
    <3>1. attempt.mode = Len(run.rungs)
      BY <2>3, Zenon DEF RetryWanted
    <3>2. attempt'.mode = attempt.mode /\ plan' = plan
      BY <2>3 DEF Begin, flow
    <3>3. plan.cands \subseteq 1..Len(run.rungs) /\ Len(run.rungs) \in Nat
      BY ControlTypes
    <3>4. First(plan.cands) \in plan.cands /\ \A n \in plan.cands : First(plan.cands) <= n
      BY <1>1, CandsCount
    <3>5. ASSUME NEW n \in plan.cands PROVE n = attempt.mode
      <4>1. n \in Int /\ n <= Len(run.rungs)
        BY <3>3
      <4>2. attempt.mode <= n
        BY <1>1, <3>4
      <4>3. QED
        BY <3>1, <3>3, <4>1, <4>2
    <3>6. plan.cands = {attempt.mode}
      BY <1>1, <3>4, <3>5
    <3>7. QED
      BY <3>2, <3>6 DEF RetryIsLast
  <2>4. QED
    BY <2>1, <2>2, <2>3
<1>4. QED
  BY <1>2, <1>3

LEMMA LadderKeepsBound ==
    ASSUME Control, Bounded, Control', LadderStep
    PROVE  Bounded'
<1>1. ReserveSetOnce /\ Fits /\ Limited /\ RetryIsLast
  BY DEF Bounded
<1>2. ASSUME NEW o, RetryEnds(o) \/ Error(o) \/ ProbeEnds(o) \/ ContinuationEnds(o)
                    \/ RoundEnds(o) \/ StepEnds(o), Outcome(o) \/ ProbeOutcome(o)
      PROVE  attempt' = NoAttempt
  <2>1. CASE RetryEnds(o)
    <3>1. \E r : Settle(r)
      BY <2>1, Zenon DEF RetryEnds
    <3>2. QED
      BY <3>1, SettleIs
  <2>2. QED
    BY <1>2, <2>1 DEF Error, ProbeEnds, ContinuationEnds, RoundEnds, StepEnds
<1>3. attempt' = NoAttempt => RetryIsLast'
  BY DEF RetryIsLast, NoAttempt
<1>4. ASSUME NEW o, ProbeOutcome(o), ProbeEnds(o) PROVE Bounded'
  BY <1>1, <1>2, <1>3, <1>4, ProbeEndsFits DEF Bounded
<1>5. ASSUME NEW o, Outcome(o), ContinuationEnds(o) PROVE Bounded'
  BY <1>1, <1>2, <1>3, <1>5, ContinuationEndsFits DEF Bounded
<1>6. ASSUME NEW o, Outcome(o), RetryEnds(o) PROVE Bounded'
  BY <1>1, <1>2, <1>3, <1>6, RetryEndsFits DEF Bounded
<1>7. ASSUME NEW o, Outcome(o), RoundEnds(o) \/ StepEnds(o) PROVE Bounded'
  BY <1>1, <1>2, <1>3, <1>7, VariedFits DEF Bounded
<1>8. ASSUME NEW o, Outcome(o), RungEnds(o) PROVE Bounded'
  BY <1>1, <1>8, RungEndsFits, RetryStaysLast DEF Bounded
<1>9. ASSUME NEW o, Outcome(o), Error(o) PROVE Bounded'
  BY <1>1, <1>2, <1>3, <1>9, ErrorFits DEF Bounded
<1>10. QED
  BY <1>4, <1>5, <1>6, <1>7, <1>8, <1>9, LateBounded, DecideBounded, BeginningBounded
     DEF LadderStep, EndsAlone

---------------------------------------------------------------------------
(* The waves *)

LEMMA WorksAre ==
    ASSUME NEW limit \in Nat, NEW w \in Works(limit)
    PROVE  w \in Nat
<1>1. limit + Over \in Nat
  BY Numbers
<1>2. w \in 1..(limit + Over)
  BY DEF Works
<1>3. QED
  BY <1>1, <1>2

LEMMA OutcomesAre ==
    ASSUME run \in Runs, NEW limit \in Nat, NEW o \in Outcomes(limit)
    PROVE  Outcome(o)
<1>1. run.fates \subseteq {"panic", "checkPanic", "error"}
  BY LadderConstants
<1>2. CASE o \in Routed(limit)
  <2>1. o.fate = "routed" /\ o.board \in Boards /\ o.work \in Works(limit)
    BY <1>2 DEF Routed
  <2>2. QED
    BY <2>1, WorksAre DEF Outcome
<1>3. ASSUME NEW f \in run.fates, o = [fate |-> f, work |-> limit] PROVE Outcome(o)
  <2>1. o.fate \in {"panic", "checkPanic", "error"} /\ o.work \in Nat
    BY <1>1, <1>3
  <2>2. QED
    BY <2>1 DEF Outcome
<1>4. QED
  BY <1>2, <1>3 DEF Outcomes

LEMMA ProbeOutcomesAre ==
    ASSUME NEW limit \in Nat, NEW o \in ProbeOutcomes(limit)
    PROVE  ProbeOutcome(o)
<1>1. CASE o \in [fate : {"routed"}, unfinished : Unfinished, work : Works(limit)]
  <2>1. o.fate = "routed" /\ o.unfinished \in Unfinished /\ o.work \in Works(limit)
    BY <1>1
  <2>2. Unfinished \subseteq Nat
    BY LadderConstants
  <2>3. QED
    BY <2>1, <2>2, WorksAre DEF ProbeOutcome
<1>2. ASSUME NEW f \in run.fates \cap {"panic"}, o = [fate |-> f, work |-> limit]
      PROVE  ProbeOutcome(o)
  BY <1>2 DEF ProbeOutcome
<1>3. QED
  BY <1>1, <1>2 DEF ProbeOutcomes

\* The steps of the waves that are steps of the ladder.
LEMMA WavesStep ==
    ASSUME Control, WavesInOrder, WavesNext
    PROVE  \/ LadderStep
           \/ UNCHANGED vars
<1>1. CASE StartWave \/ (\E m \in Modes : RouteEnds(m)) \/ WavesDone
  BY <1>1 DEF StartWave, RouteEnds, WavesDone, Done
<1>2. CASE JudgeProbe
  <2>1. attempt.kind = "probe" /\ ran[attempt.mode] # NotRun /\ ProbeEnds(ran[attempt.mode].end)
    BY <1>2 DEF JudgeProbe, Joined
  <2>2. stage = "probing" /\ attempt.mode \in Modes
    BY <2>1 DEF Control, Routes, Typed, NoAttempt
  <2>3. ProbeOutcome(ran[attempt.mode].end)
    BY <2>1, <2>2 DEF WavesInOrder, WavesEnded, HasRun
  <2>4. QED
    BY <2>1, <2>3 DEF LadderStep
<1>3. CASE JudgeRung
  <2>1. /\ attempt.kind = "rung" /\ ran[attempt.mode] # NotRun
        /\ RungEnds(ran[attempt.mode].end) \/ Error(ran[attempt.mode].end)
    BY <1>3 DEF JudgeRung, Joined
  <2>2. stage = "rung" /\ attempt.mode \in Modes
    BY <2>1 DEF Control, Routes, Typed, NoAttempt
  <2>3. Outcome(ran[attempt.mode].end)
    BY <2>1, <2>2 DEF WavesInOrder, WavesEnded, HasRun
  <2>4. QED
    BY <2>1, <2>3 DEF LadderStep
<1>4. CASE Alone
  <2>1. CASE EndAlone
    <3>1. attempt # NoAttempt
      BY <2>1 DEF EndAlone, NoAttempt
    <3>2. attempt.limit \in Nat /\ run \in Runs
      BY <3>1 DEF Control, Typed, Data, Attempts
    <3>3. PICK o \in Outcomes(attempt.limit) : EndsAlone(o) \/ Error(o)
      BY <2>1 DEF EndAlone, EndsAlone
    <3>4. Outcome(o)
      BY <3>2, <3>3, OutcomesAre
    <3>5. QED
      BY <3>3, <3>4 DEF LadderStep
  <2>2. QED
    BY <1>4, <2>1 DEF Alone, LadderStep
<1>5. QED
  BY <1>1, <1>2, <1>3, <1>4 DEF WavesNext, LadderStep

\* The ladder comes to its seeds before its steps, and to nothing else after.
LEMMA SeedsFirst ==
    ASSUME Control, LadderStep
    PROVE  /\ run' = run
           /\ stage' \in {"steps", "clearance", "done"}
              => stage \in {"seeds", "steps", "clearance", "done"}
<1>1. CASE Late
  BY <1>1 DEF Late, flow
<1>2. CASE Decide
  BY <1>2 DEF Decide, StartProbes, EndProbes, StartRungs, NextPitch, PickLeader, LeaderOnFiner,
     AdmittedOnRegular, AdmittedOnFiner, EndPitch, PassRung, NoRound, NoStep, StartPitch, Skip,
     GoTo, Idle, AfterRound, Flows, flow, Control, OnALattice
<1>3. CASE BeginProbe \/ BeginRung \/ BeginAlone
  BY <1>3 DEF BeginProbe, BeginRung, BeginAlone, BeginContinuation, BeginRound, BeginStep, flow
<1>4. ASSUME NEW o, ProbeOutcome(o), ProbeEnds(o)
      PROVE  run' = run /\ stage' \notin {"steps", "clearance", "done"}
  BY <1>4 DEF ProbeEnds, Control, Routes
<1>5. ASSUME NEW o, Outcome(o), ContinuationEnds(o) \/ Error(o)
      PROVE  run' = run /\ stage' \notin {"steps", "clearance", "done"}
  BY <1>5 DEF ContinuationEnds, Error
<1>6. ASSUME NEW o, Outcome(o), RoundEnds(o)
      PROVE  run' = run /\ (stage' = "B" \/ stage' = stage)
  BY <1>6 DEF RoundEnds, AfterRound, flow
<1>7. ASSUME NEW o, Outcome(o), StepEnds(o)
      PROVE  run' = run /\ stage \in {"steps", "clearance"}
  BY <1>7 DEF StepEnds, Control, Routes
<1>8. ASSUME NEW r, Settle(r) PROVE stage' \in {"seeds", stage}
  <2>1. Flows(TRUE) \/ stage' = stage
    BY <1>8, SettleIs
  <2>2. QED
    BY <2>1 DEF Flows
<1>9. ASSUME NEW o, Outcome(o), RungEnds(o)
      PROVE  run' = run /\ stage' \in {"seeds", stage}
  <2>1. CASE o.fate \in {"panic", "checkPanic"}
    BY <1>9, <2>1, RungPanics
  <2>2. CASE o.fate \notin {"panic", "checkPanic"}
    <3>1. run' = run /\ (stage' = stage \/ \E r : Settle(r))
      BY <1>9, <2>2, RungRouted DEF flow
    <3>2. QED
      BY <1>8, <3>1
  <2>3. QED
    BY <2>1, <2>2
<1>10. ASSUME NEW o, Outcome(o), RetryEnds(o)
       PROVE  run' = run /\ stage' \in {"seeds", stage}
  <2>1. run' = run /\ \E r : Settle(r)
    BY <1>10, RetryIs
  <2>2. QED
    BY <1>8, <2>1
<1>11. QED
  BY <1>1, <1>2, <1>3, <1>4, <1>5, <1>6, <1>7, <1>9, <1>10 DEF LadderStep, EndsAlone

\* A wave is of the first of those to come; an earlier one is in it too.
LEMMA FirstsAre ==
    ASSUME Control, NEW width \in Int
    PROVE  /\ Firsts(width) \subseteq plan.cands
           /\ \A m \in Firsts(width) : \A n \in plan.cands : n < m => n \in Firsts(width)
<1>1. plan.cands \subseteq Nat /\ IsFiniteSet(plan.cands)
  BY ControlTypes, CandsCount
<1>2. ASSUME NEW m \in Firsts(width), NEW n \in plan.cands, n < m PROVE n \in Firsts(width)
  <2> DEFINE A == {k \in plan.cands : k < m}
             B == {k \in plan.cands : k < n}
  <2>1. m \in plan.cands /\ Cardinality(A) < width
    BY DEF Firsts
  <2>2. B \subseteq A /\ IsFiniteSet(A) /\ n \in A /\ n \notin B
    <3>1. m \in Nat /\ n \in Nat
      BY <1>1, <2>1
    <3>2. \A k \in plan.cands : k < n => k < m
      BY <1>1, <1>2, <3>1
    <3>3. A \subseteq plan.cands
      OBVIOUS
    <3>4. QED
      BY <1>1, <1>2, <3>1, <3>2, <3>3, FS_Subset
  <2>3. IsFiniteSet(B) /\ Cardinality(B) \in Nat /\ Cardinality(A) \in Nat
    BY <2>2, FS_Subset, FS_CardinalityType
  <2>4. Cardinality(B) <= Cardinality(A)
    BY <2>2, FS_Subset
  <2>5. Cardinality(B) # Cardinality(A)
    BY <2>2, FS_Subset
  <2> QED
    <3>1. B = {k \in plan.cands : k < n}
      OBVIOUS
    <3> DEFINE a == Cardinality(A)
               b == Cardinality(B)
    <3>2. a \in Nat /\ b \in Nat /\ b <= a /\ a < width
      BY <2>1, <2>3, <2>4
    <3> HIDE DEF a, b
    <3>3. b < width
      BY <3>2
    <3>4. QED
      BY <3>3 DEF b, Firsts
<1>3. QED
  BY <1>2 DEF Firsts

LEMMA StartWaveInOrder == ASSUME Control, WavesInOrder, StartWave PROVE WavesInOrder'
<1>1. /\ InWaves /\ wave = {} /\ ran[attempt.mode] = NotRun
      /\ ran' = ran /\ left' = left /\ UNCHANGED vars
  BY DEF StartWave
<1>2. /\ plan' = plan /\ stage' = stage /\ attempt' = attempt /\ Modes' = Modes
      /\ InWaves' = InWaves
  BY <1>1 DEF vars, flow, Modes, InWaves
<1>3. PICK width \in Int : wave' = Firsts(width)
  <2>1. Widths \subseteq Int
    BY CandsCount DEF Widths
  <2>2. QED
    BY <2>1 DEF StartWave
<1>4. wave' \subseteq plan.cands /\ wave' \subseteq Modes
  BY <1>3, FirstsAre, ControlTypes
<1>5. /\ attempt.mode \in plan.cands /\ \A m \in plan.cands : attempt.mode <= m
      /\ attempt.mode \in Nat
  <2>1. plan.cands # {} /\ attempt.mode = First(plan.cands)
    BY <1>1 DEF InWaves, Control, Routes
  <2>2. QED
    BY <2>1, CandsCount, ControlTypes
<1>6. \A m \in plan.cands : ran[m] = NotRun
  <2>1. SUFFICES ASSUME NEW m \in plan.cands, ran[m] # NotRun PROVE FALSE
    OBVIOUS
  <2>2. m \in Nat /\ attempt.mode < m
    BY <1>1, <1>5, <2>1, ControlTypes
  <2>3. QED
    BY <1>1, <1>5, <2>1, <2>2 DEF WavesInOrder, FirstsRun, HasRun
<1>7. WavesRun'
  BY <1>1, <1>2, <1>4, <1>6 DEF WavesInOrder, WavesRun
<1>8. WavesEnded' /\ NoneLeft'
  BY <1>1, <1>2 DEF WavesInOrder, WavesEnded, NoneLeft, HasRun, Outcome, ProbeOutcome
<1>9. FirstsRun'
  BY <1>1, <1>2, <1>3, <1>6, FirstsAre DEF FirstsRun, HasRun
<1>10. QED
  BY <1>7, <1>8, <1>9 DEF WavesInOrder

LEMMA RouteEndsInOrder ==
    ASSUME Control, WavesInOrder, NEW m \in Modes, RouteEnds(m)
    PROVE  WavesInOrder'
<1>1. /\ m \in wave /\ wave' = wave \ {m} /\ UNCHANGED vars
      /\ \/ /\ attempt.kind = "probe" /\ left' = left
            /\ \E o \in ProbeOutcomes(WaveLimit) :
                  ran' = [ran EXCEPT ![m] = [limit |-> WaveLimit, end |-> o]]
         \/ /\ attempt.kind # "probe" /\ left' = left \cup {m}
            /\ \E o \in Outcomes(WaveLimit) :
                  ran' = [ran EXCEPT ![m] = [limit |-> WaveLimit, end |-> o]]
  BY DEF RouteEnds
<1>2. /\ plan' = plan /\ stage' = stage /\ attempt' = attempt /\ Modes' = Modes
      /\ InWaves' = InWaves
  BY <1>1 DEF vars, flow, Modes, InWaves
<1>3. InWaves /\ wave \subseteq plan.cands /\ DOMAIN ran = Modes /\ ran[m] = NotRun
  BY <1>1 DEF WavesInOrder, WavesRun
<1>4. /\ attempt.kind = "probe" => stage = "probing"
      /\ attempt.kind # "probe" => stage = "rung"
      /\ WaveLimit \in Nat /\ run \in Runs
  BY <1>3 DEF InWaves, Control, Routes, Typed, Data, Attempts, WaveLimit, NoAttempt
<1>5. PICK o : /\ ran' = [ran EXCEPT ![m] = [limit |-> WaveLimit, end |-> o]]
               /\ stage = "probing" => ProbeOutcome(o)
               /\ stage # "probing" => stage = "rung" /\ Outcome(o)
  BY <1>1, <1>4, ProbeOutcomesAre, OutcomesAre
<1>6. /\ DOMAIN ran' = Modes
      /\ ran'[m].limit = WaveLimit /\ ran'[m].end = o /\ ran'[m] # NotRun
      /\ \A n \in Modes : n # m => ran'[n] = ran[n]
  <2>1. ran'[m] = [limit |-> WaveLimit, end |-> o]
    BY <1>3, <1>5
  <2>2. WaveLimit # None
    BY <1>4, NoPlanIs
  <2>3. ran'[m] # NotRun
    BY <2>1, <2>2 DEF NotRun
  <2>4. QED
    BY <1>3, <1>5, <2>1, <2>3
<1>7. WavesRun'
  <2>1. wave' \subseteq Modes /\ left' \subseteq Modes
    BY <1>1 DEF WavesInOrder, WavesRun
  <2>2. \A n \in wave' : ran'[n] = NotRun
    BY <1>1, <1>6, ControlTypes DEF WavesInOrder, WavesRun
  <2>3. QED
    BY <1>1, <1>2, <1>3, <1>6, <2>1, <2>2 DEF WavesRun
<1>8. WavesEnded'
  <2>1. SUFFICES ASSUME NEW n \in Modes, ran'[n] # NotRun
                 PROVE  /\ ran'[n].limit \in Nat
                        /\ stage = "probing" => ProbeOutcome(ran'[n].end)
                        /\ stage # "probing" => stage = "rung" /\ Outcome(ran'[n].end)
    BY <1>2 DEF WavesEnded, HasRun, Outcome, ProbeOutcome
  <2>2. CASE n = m
    BY <1>4, <1>5, <1>6, <2>2
  <2>3. CASE n # m
    BY <1>6, <2>1, <2>3 DEF WavesInOrder, WavesEnded, HasRun
  <2>4. QED
    BY <2>2, <2>3
<1>9. FirstsRun'
  <2>1. SUFFICES ASSUME NEW a \in plan.cands, NEW b \in plan.cands, b < a,
                        a \in wave' \/ ran'[a] # NotRun
                 PROVE  b \in wave' \/ ran'[b] # NotRun
    BY <1>2 DEF FirstsRun, HasRun
  <2>2. a \in Modes /\ b \in Modes
    BY ControlTypes
  <2>3. a \in wave \/ ran[a] # NotRun
    BY <1>1, <1>6, <2>1, <2>2
  <2>4. b \in wave \/ ran[b] # NotRun
    BY <2>1, <2>3 DEF WavesInOrder, FirstsRun, HasRun
  <2>5. QED
    BY <1>1, <1>6, <2>2, <2>4
<1>10. NoneLeft'
  BY <1>2, <1>4 DEF NoneLeft
<1>11. QED
  BY <1>7, <1>8, <1>9, <1>10 DEF WavesInOrder

\* When no wave runs, and what has run is the same but for one that is judged, or
\* forgotten.
LEMMA JudgedInOrder ==
    ASSUME Control, Control', WavesInOrder, wave = {}, wave' = {}, run' = run, left' \subseteq left,
           \/ ran' = Forgotten
           \/ /\ ran' = [ran EXCEPT ![attempt.mode] = NotRun] /\ stage' = stage
              /\ \A m, n \in plan'.cands :
                    n < m => {m, n} \subseteq plan.cands \ {attempt.mode},
           NoneLeft'
    PROVE  WavesInOrder'
<1>1. Modes' = Modes /\ DOMAIN ran = Modes /\ left' \subseteq Modes
  BY DEF Modes, WavesInOrder, WavesRun
<1>2. /\ DOMAIN ran' = Modes
      /\ \A m \in Modes : ran'[m] = NotRun \/ (ran'[m] = ran[m] /\ stage' = stage)
  BY <1>1 DEF Forgotten
<1>3. WavesRun'
  BY <1>1, <1>2 DEF WavesRun
<1>4. WavesEnded'
  BY <1>1, <1>2 DEF WavesInOrder, WavesEnded, HasRun, Outcome, ProbeOutcome
<1>5. FirstsRun'
  <2>1. CASE ran' = Forgotten
    <3>1. \A m \in Modes : ran'[m] = NotRun
      BY <2>1 DEF Forgotten
    <3>2. plan'.cands \subseteq Modes
      BY <1>1 DEF Control, Typed, Place
    <3>3. \A m \in plan'.cands : ran'[m] = NotRun
      BY <3>1, <3>2
    <3>4. QED
      BY <3>3 DEF FirstsRun, HasRun
  <2>2. CASE /\ ran' = [ran EXCEPT ![attempt.mode] = NotRun] /\ stage' = stage
             /\ \A m, n \in plan'.cands :
                   n < m => {m, n} \subseteq plan.cands \ {attempt.mode}
    <3>1. \A m \in Modes \ {attempt.mode} : ran'[m] = ran[m]
      BY <1>1, <2>2
    <3>2. \A m, n \in plan.cands : n < m /\ ran[m] # NotRun => ran[n] # NotRun
      BY DEF WavesInOrder, FirstsRun, HasRun
    <3>3. SUFFICES ASSUME NEW m \in plan'.cands, NEW n \in plan'.cands, n < m, ran'[m] # NotRun
                   PROVE  ran'[n] # NotRun
      BY DEF FirstsRun, HasRun
    <3>4. /\ m \in plan.cands /\ n \in plan.cands /\ m # attempt.mode /\ n # attempt.mode
          /\ m \in Modes /\ n \in Modes
      BY <2>2, <3>3, ControlTypes
    <3>5. QED
      BY <3>1, <3>2, <3>3, <3>4
  <2>3. QED
    BY <2>1, <2>2
<1>6. QED
  BY <1>3, <1>4, <1>5 DEF WavesInOrder

LEMMA JudgeProbeInOrder ==
    ASSUME Control, Control', WavesInOrder, JudgeProbe
    PROVE  WavesInOrder'
<1>1. /\ attempt.kind = "probe" /\ wave = {} /\ wave' = {} /\ left' = left
      /\ ProbeEnds(ran[attempt.mode].end)
      /\ ran' = IF stage' = "probing" /\ plan'.cands # {}
                THEN [ran EXCEPT ![attempt.mode] = NotRun] ELSE Forgotten
  BY DEF JudgeProbe, Joined, Forget
<1>2. /\ stage = "probing" /\ plan.cands # {} /\ attempt.mode = First(plan.cands)
      /\ attempt.mode \in Modes
  BY <1>1, ControlTypes, CandsCount DEF Control, Routes
<1>3. /\ run' = run /\ stage' \in {"probing", "continue"}
      /\ plan' = [plan EXCEPT !.cands = WithoutFirst(@)]
  BY <1>1, <1>2, Zenon DEF ProbeEnds
<1>4. plan'.cands = plan.cands \ {attempt.mode}
  BY <1>2, <1>3, ControlTypes DEF WithoutFirst, Plans
<1>5. NoneLeft'
  BY <1>3 DEF NoneLeft
<1>6. QED
  BY <1>1, <1>2, <1>3, <1>4, <1>5, JudgedInOrder

\* Where a rung's end leaves the ladder among the rungs, what is left to run is
\* without it, or it alone has its seeds routed.
LEMMA RungEndsCands ==
    ASSUME Control, attempt.kind \in {"rung", "retry"}, run' = run, RetryIsLast',
           \/ \E r : Settle(r)
           \/ /\ attempt'.kind = "retry" /\ attempt'.mode = attempt.mode
              /\ plan' = plan /\ stage' = stage
           \/ plan' = [plan EXCEPT !.cands = WithoutFirst(@)] /\ stage' = stage
    PROVE  /\ stage' \in {"seeds", "rung"}
           /\ stage' = "rung" => plan'.cands \in {plan.cands \ {attempt.mode}, {attempt.mode}}
<1>1. stage = "rung" /\ plan.cands # {} /\ attempt.mode = First(plan.cands)
  BY DEF Control, Routes
<1>2. CASE plan' = [plan EXCEPT !.cands = WithoutFirst(@)] /\ stage' = stage
  BY <1>1, <1>2, ControlTypes DEF WithoutFirst, Plans
<1>3. CASE \E r : Settle(r)
  <2>1. Flows(TRUE) \/ (plan' = [plan EXCEPT !.cands = WithoutFirst(@)] /\ stage' = stage)
    BY <1>3, SettleIs
  <2>2. CASE Flows(TRUE)
    BY <2>2 DEF Flows
  <2>3. QED
    BY <1>2, <2>1, <2>2
<1>4. CASE /\ attempt'.kind = "retry" /\ attempt'.mode = attempt.mode
           /\ plan' = plan /\ stage' = stage
  BY <1>1, <1>4 DEF RetryIsLast
<1>5. QED
  BY <1>2, <1>3, <1>4

LEMMA JudgeRungInOrder ==
    ASSUME Control, Control', RetryIsLast', WavesInOrder, JudgeRung
    PROVE  WavesInOrder'
<1>1. /\ attempt.kind = "rung" /\ wave = {} /\ wave' = {} /\ ran[attempt.mode] # NotRun
      /\ RungEnds(ran[attempt.mode].end) \/ Error(ran[attempt.mode].end)
      /\ ran' = IF stage' = "rung" /\ plan'.cands # {}
                THEN [ran EXCEPT ![attempt.mode] = NotRun] ELSE Forgotten
      /\ Judge
  BY DEF JudgeRung, Joined, Forget
<1>2. stage = "rung" /\ attempt.mode \in Modes /\ attempt.mode \in Nat
  BY <1>1, ControlTypes, CandsCount DEF Control, Routes
<1> DEFINE o == ran[attempt.mode].end
<1>3. Outcome(o)
  BY <1>1, <1>2 DEF WavesInOrder, WavesEnded, HasRun
<1>4. left' \subseteq left /\ (stage' = "seeds" => left' = {})
  BY <1>1, <1>2 DEF Judge, Cleared
<1>5. CASE Error(o)
  <2>1. run' = run /\ stage' = "failed"
    BY <1>5 DEF Error
  <2>2. NoneLeft'
    BY <2>1 DEF NoneLeft
  <2>3. QED
    BY <1>1, <1>2, <1>4, <2>1, <2>2, JudgedInOrder
<1>6. CASE RungEnds(o)
  <2>1. run' = run
    BY <1>6 DEF RungEnds
  <2>2. \/ \E r : Settle(r)
        \/ /\ attempt'.kind = "retry" /\ attempt'.mode = attempt.mode
           /\ plan' = plan /\ stage' = stage
        \/ plan' = [plan EXCEPT !.cands = WithoutFirst(@)] /\ stage' = stage
    <3>1. CASE o.fate \in {"panic", "checkPanic"}
      BY <1>6, <3>1, RungPanics
    <3>2. CASE o.fate \notin {"panic", "checkPanic"}
      <4>1. \/ \E r : Settle(r)
            \/ \E r : /\ Begin("retry", attempt.mode, RetryLimit(work'), RetrySeeds, r)
                      /\ UNCHANGED <<best, output, learned, flow>>
        BY <1>3, <1>6, <3>2, RungRouted
      <4>2. QED
        BY <4>1 DEF Begin, flow
    <3>3. QED
      BY <3>1, <3>2
  <2>3. /\ stage' \in {"seeds", "rung"}
        /\ stage' = "rung" => plan'.cands \in {plan.cands \ {attempt.mode}, {attempt.mode}}
    BY <1>1, <2>1, <2>2, RungEndsCands
  <2>4. NoneLeft'
    BY <1>4, <2>3 DEF NoneLeft
  <2>5. \/ ran' = Forgotten
        \/ /\ ran' = [ran EXCEPT ![attempt.mode] = NotRun] /\ stage' = stage
           /\ \A m, n \in plan'.cands : n < m => {m, n} \subseteq plan.cands \ {attempt.mode}
    BY <1>1, <1>2, <2>3
  <2>6. QED
    BY <1>1, <1>2, <1>4, <2>1, <2>4, <2>5, JudgedInOrder
<1>7. QED
  BY <1>1, <1>5, <1>6

\* The steps of the ladder alone, with no wave under way.
LEMMA AloneCands ==
    ASSUME Control, RetryIsLast', Alone, stage \in {"probing", "rung"}, stage' = stage
    PROVE  plan'.cands \subseteq plan.cands
<1>1. CASE Decide
  BY <1>1, ControlTypes DEF Decide, StartProbes, EndProbes, StartRungs, NextPitch, PickLeader,
     LeaderOnFiner, AdmittedOnRegular, AdmittedOnFiner, EndPitch, PassRung, NoRound, NoStep,
     StartPitch, Skip, GoTo, Idle, Flows, Control, OnALattice, WithoutFirst, Plans
<1>2. CASE BeginProbe \/ BeginRung \/ BeginAlone
  BY <1>2, ControlTypes DEF BeginProbe, BeginRung, BeginAlone, BeginContinuation, BeginRound,
     BeginStep, flow, Idle, Plans
<1>3. CASE EndAlone
  <2>1. PICK o \in Outcomes(attempt.limit) : EndsAlone(o) \/ Error(o)
    BY <1>3 DEF EndAlone, EndsAlone
  <2>2. attempt # NoAttempt
    BY <1>3 DEF EndAlone, NoAttempt
  <2>3. Outcome(o)
    BY <2>1, <2>2, OutcomesAre DEF Control, Typed, Data, Attempts
  <2>4. CASE RetryEnds(o)
    <3>1. run' = run /\ (\E r : Settle(r)) /\ attempt.kind = "retry"
      BY <2>3, <2>4, RetryIs DEF RetryEnds
    <3>2. attempt.mode \in plan.cands
      BY <3>1, CandsCount DEF Control, Routes
    <3>3. plan'.cands \in {plan.cands \ {attempt.mode}, {attempt.mode}}
      <4>1. stage' = "rung"
        BY <3>1 DEF Control, Routes
      <4>2. QED
        BY <3>1, <4>1, RungEndsCands
    <3>4. QED
      BY <3>2, <3>3
  <2>5. CASE ContinuationEnds(o) \/ Error(o)
    BY <2>5 DEF ContinuationEnds, Error
  <2>6. CASE RoundEnds(o) \/ StepEnds(o)
    BY <2>6 DEF RoundEnds, StepEnds, Control, Routes
  <2>7. QED
    BY <2>1, <2>4, <2>5, <2>6 DEF EndsAlone
<1>4. QED
  BY <1>1, <1>2, <1>3 DEF Alone

\* Where the plan, the attempt and the waves stay, they stay in order.
LEMMA StillInOrder ==
    ASSUME WavesInOrder, run' = run, plan' = plan, stage' = stage, attempt' = attempt,
           UNCHANGED waveVars
    PROVE  WavesInOrder'
<1>1. wave' = wave /\ ran' = ran /\ left' = left /\ Modes' = Modes /\ InWaves' = InWaves
  BY DEF waveVars, Modes, InWaves
<1>2. WavesRun' /\ NoneLeft'
  BY <1>1, Zenon DEF WavesInOrder, WavesRun, NoneLeft
<1>3. WavesEnded' /\ FirstsRun'
  BY <1>1 DEF WavesInOrder, WavesEnded, FirstsRun, HasRun, Outcome, ProbeOutcome
<1>4. QED
  BY <1>2, <1>3 DEF WavesInOrder

LEMMA AloneInOrder ==
    ASSUME Control, Control', RetryIsLast', WavesInOrder, Alone
    PROVE  WavesInOrder'
<1>1. ~InWaves
  <2>1. CASE EndAlone
    BY <2>1 DEF EndAlone, InWaves
  <2>2. CASE Decide \/ BeginProbe \/ BeginRung \/ BeginAlone
    <3>1. attempt = NoAttempt
      BY <2>2 DEF Decide, StartProbes, EndProbes, StartRungs, NextPitch, PickLeader,
         LeaderOnFiner, AdmittedOnRegular, AdmittedOnFiner, EndPitch, PassRung, NoRound,
         NoStep, BeginProbe, BeginRung, BeginAlone, BeginContinuation, BeginRound, BeginStep,
         Idle
    <3>2. QED
      BY <3>1 DEF InWaves, NoAttempt
  <2>3. QED
    BY <2>1, <2>2 DEF Alone
<1>2. /\ wave = {} /\ wave' = {} /\ Judge
      /\ ran' = IF stage' = stage THEN ran ELSE Forgotten
  BY <1>1 DEF Alone, WavesInOrder, WavesRun
<1>3. /\ run' = run
      /\ stage' \in {"steps", "clearance", "done"}
         => stage \in {"seeds", "steps", "clearance", "done"}
  <2>1. LadderStep \/ UNCHANGED vars
    BY WavesStep DEF WavesNext
  <2>2. QED
    BY <2>1, SeedsFirst DEF vars, flow
<1>4. left' \subseteq left /\ (stage # "seeds" /\ stage' = "seeds" => left' = {})
  BY <1>2 DEF Judge, Cleared
<1>5. NoneLeft'
  BY <1>3, <1>4 DEF WavesInOrder, NoneLeft
<1>6. CASE ran' = Forgotten
  BY <1>2, <1>3, <1>4, <1>5, <1>6, JudgedInOrder
<1>7. CASE ran' = ran /\ stage' = stage
  <2>1. Modes' = Modes /\ plan'.cands \subseteq Modes /\ left' \subseteq Modes
    BY <1>3, <1>4 DEF Modes, Control, Typed, Place, WavesInOrder, WavesRun
  <2>2. WavesRun'
    BY <1>2, <1>7, <2>1 DEF WavesInOrder, WavesRun
  <2>3. WavesEnded'
    BY <1>7, <2>1 DEF WavesInOrder, WavesEnded, HasRun, Outcome, ProbeOutcome
  <2>4. FirstsRun'
    <3>1. CASE stage \in {"probing", "rung"}
      <4>1. plan'.cands \subseteq plan.cands
        BY <1>7, <3>1, AloneCands
      <4>2. \A m, n \in plan.cands : n < m /\ ran[m] # NotRun => ran[n] # NotRun
        BY <1>2 DEF WavesInOrder, FirstsRun, HasRun
      <4>3. QED
        BY <1>2, <1>7, <4>1, <4>2 DEF FirstsRun, HasRun
    <3>2. CASE stage \notin {"probing", "rung"}
      <4>1. \A m \in Modes : ran[m] = NotRun
        BY <3>2 DEF WavesInOrder, WavesEnded, HasRun
      <4>2. \A m \in plan'.cands : ran'[m] = NotRun
        BY <1>7, <2>1, <4>1
      <4>3. QED
        BY <1>2, <4>2 DEF FirstsRun, HasRun
    <3>3. QED
      BY <3>1, <3>2
  <2>5. QED
    BY <1>5, <2>2, <2>3, <2>4 DEF WavesInOrder
<1>8. QED
  BY <1>2, <1>6, <1>7

LEMMA WavesStayInOrder ==
    ASSUME Control, Control', RetryIsLast', WavesInOrder, WavesNext
    PROVE  WavesInOrder'
<1>1. CASE (Late /\ UNCHANGED waveVars) \/ WavesDone
  <2>1. run' = run /\ plan' = plan /\ stage' = stage /\ attempt' = attempt /\ UNCHANGED waveVars
    BY <1>1 DEF Late, WavesDone, Done, vars, flow
  <2>2. QED
    BY <2>1, StillInOrder
<1>2. QED
  BY <1>1, StartWaveInOrder, RouteEndsInOrder, JudgeProbeInOrder, JudgeRungInOrder, AloneInOrder
     DEF WavesNext

---------------------------------------------------------------------------
(* The inductive invariant *)

LadderInv == Control /\ BestKept /\ CompleteIsLast /\ Bounded
Inv == LadderInv /\ WavesInOrder

LEMMA InitControl == ASSUME Init PROVE Control
<1>1. run \in Runs /\ attempt = NoAttempt /\ plan = NoPlan /\ lead = NoLead /\ stage = "probes"
  BY DEF Init
<1>2. probes \in Probed /\ probes.mode = 0 /\ probes.continued = FALSE
  BY DEF Init, Probed, None
<1>3. keep \in Kept /\ last \in Costs /\ slowest \in Costs
  BY DEF Init, Kept, Costs
<1>4. Data
  BY <1>1, <1>2, <1>3 DEF Init, Data
<1>5. Place
  BY <1>1, NoPlanIs DEF Place, Stages
<1>6. Routes
  BY <1>1 DEF Routes, NoAttempt
<1>7. Placed
  BY <1>1, <1>2 DEF Init, Placed
<1>8. OnALattice
  BY <1>1, NoPlanIs, Numbers DEF OnALattice
<1>9. QED
  BY <1>1, <1>4, <1>5, <1>6, <1>7, <1>8 DEF Control, Typed

LEMMA InitBounded == ASSUME Init PROVE Bounded
<1>1. /\ attempt = NoAttempt /\ stage = "probes" /\ best = NoBest /\ work = 0 /\ overrun = 0
      /\ keep.reserve = 0 /\ keep.set = FALSE
  BY DEF Init
<1>2. attempt.kind = "none"
  BY <1>1 DEF NoAttempt
<1>3. Spent = 0 /\ Promised = 0
  BY <1>1 DEF Spent, Promised
<1>4. Fits
  BY <1>1, <1>3, Numbers DEF Fits
<1>5. Limited
  BY <1>1, <1>2, <1>3 DEF Limited
<1>6. ReserveSetOnce /\ RetryIsLast
  BY <1>1, <1>2 DEF ReserveSetOnce, RetryIsLast
<1>7. QED
  BY <1>4, <1>5, <1>6 DEF Bounded

LEMMA InitHolds == ASSUME WavesInit PROVE Inv
<1>1. Init /\ wave = {} /\ left = {} /\ ran = [m \in Modes |-> NotRun]
  BY DEF WavesInit
<1>2. BestKept
  BY <1>1 DEF Init, BestKept
<1>3. CompleteIsLast
  BY <1>1 DEF Init, CompleteIsLast, Complete, NoAttempt
<1>4. WavesInOrder
  <2>1. stage = "probes" /\ plan.cands = {}
    BY <1>1, NoPlanIs DEF Init
  <2>2. DOMAIN ran = Modes /\ \A m \in Modes : ~HasRun(m)
    BY <1>1 DEF HasRun
  <2>3. WavesRun
    BY <1>1, <2>2 DEF WavesRun
  <2>4. WavesEnded /\ FirstsRun /\ NoneLeft
    BY <2>1, <2>2 DEF WavesEnded, FirstsRun, NoneLeft
  <2>5. QED
    BY <2>3, <2>4 DEF WavesInOrder
<1>5. QED
  BY <1>1, <1>2, <1>3, <1>4, InitControl, InitBounded DEF Inv, LadderInv

\* Nothing of the ladder changes while threads start and end.
LEMMA StandsStill == ASSUME LadderInv, UNCHANGED vars PROVE LadderInv'
<1>1. /\ run' = run /\ late' = late /\ work' = work /\ overrun' = overrun /\ best' = best
      /\ output' = output /\ least' = least /\ counts' = counts /\ keep' = keep /\ last' = last
      /\ slowest' = slowest /\ regular' = regular /\ extra' = extra /\ probes' = probes
      /\ rounds' = rounds /\ beyond' = beyond /\ failed' = failed /\ stage' = stage
      /\ plan' = plan /\ lead' = lead /\ attempt' = attempt
  BY DEF vars, judgedVars, learned, flow
<1>2. Modes' = Modes /\ Complete' = Complete /\ ProbeLimit' = ProbeLimit /\ Spent' = Spent
  BY <1>1 DEF Modes, Complete, ProbeLimit, Spent
<1>3. Promised' = Promised
  BY <1>1, <1>2 DEF Promised
<1>4. Data' /\ Place'
  BY <1>1, <1>2 DEF LadderInv, Control, Typed, Data, Place, Probed
<1>5. Typed'
  BY <1>1, <1>2, <1>4 DEF LadderInv, Control, Typed
<1>6. Routes' /\ Placed' /\ OnALattice'
  BY <1>1, <1>2, Zenon DEF LadderInv, Control, Routes, Placed, OnALattice
<1>7. BestKept' /\ CompleteIsLast'
  BY <1>1, <1>2, Zenon DEF LadderInv, BestKept, CompleteIsLast, BestRank, ResultRank
<1>8. Fits' /\ Limited'
  BY <1>1, <1>2, <1>3, Zenon DEF LadderInv, Bounded, Fits, Limited
<1>9. ReserveSetOnce' /\ RetryIsLast'
  BY <1>1, <1>2, Zenon DEF LadderInv, Bounded, ReserveSetOnce, RetryIsLast
<1>10. QED
  BY <1>5, <1>6, <1>7, <1>8, <1>9 DEF LadderInv, Control, Bounded

LEMMA StepHolds == ASSUME Inv, [WavesNext]_allVars PROVE Inv'
<1>1. LadderInv /\ WavesInOrder /\ Control /\ BestKept /\ CompleteIsLast /\ Bounded
  BY DEF Inv, LadderInv
<1>2. CASE WavesNext
  <2>1. LadderInv'
    <3>1. CASE LadderStep
      <4>1. Control'
        BY <1>1, <3>1, LadderKeepsControl
      <4>2. BestKept' /\ CompleteIsLast' /\ Bounded'
        BY <1>1, <3>1, <4>1, LadderKeepsBest, LadderCompletes, LadderKeepsBound
      <4>3. QED
        BY <4>1, <4>2 DEF LadderInv
    <3>2. CASE UNCHANGED vars
      BY <1>1, <3>2, StandsStill
    <3>3. QED
      BY <1>1, <1>2, <3>1, <3>2, WavesStep
  <2>2. Control' /\ RetryIsLast'
    BY <2>1 DEF LadderInv, Bounded
  <2>3. WavesInOrder'
    BY <1>1, <1>2, <2>2, WavesStayInOrder
  <2>4. QED
    BY <2>1, <2>3 DEF Inv
<1>3. CASE UNCHANGED allVars
  <2>1. UNCHANGED vars /\ UNCHANGED waveVars
    BY <1>3 DEF allVars
  <2>2. run' = run /\ plan' = plan /\ stage' = stage /\ attempt' = attempt
    BY <2>1 DEF vars, flow
  <2>3. QED
    BY <1>1, <2>1, <2>2, StandsStill, StillInOrder DEF Inv
<1>4. QED
  BY <1>2, <1>3

---------------------------------------------------------------------------
(* The theorems *)

\* The ladder as it runs keeps its inductive invariant: where it is in its plan and
\* what routes there (ladder.rs, Ladder::run), what it keeps and promises.
THEOREM InvHolds == WavesSpec => []Inv
<1>1. Inv /\ [WavesNext]_allVars => Inv'
  BY StepHolds
<1>2. QED
  BY <1>1, InitHolds, PTL DEF WavesSpec

\* Every variable has its type, and no rung of a wave has run already
\* (ladder.rs, rung_wave).
THEOREM TypeHolds == WavesSpec => []WavesTypeOK
<1>1. ASSUME Inv PROVE WavesTypeOK
  <2>1. Control /\ WavesInOrder
    BY <1>1 DEF Inv, LadderInv
  <2>2. TypeOK
    <3>1. /\ run \in Runs /\ {late, extra, failed} \subseteq BOOLEAN
          /\ best = NoBest \/ (best.mode \in Modes /\ best.board \in Boards)
      BY <2>1 DEF Control, Typed, Data, Bests
    <3>2. {work, overrun, rounds, beyond, keep.reserve, keep.steps, keep.first, keep.over,
           last.work, slowest.work} \subseteq Nat
      BY <2>1 DEF Control, Typed, Data, Kept, Costs
    <3>3. output = <<>> \/ output[1] \in Boards
      BY <2>1 DEF Control, Typed, Data
    <3>4. stage \in Stages /\ plan.cands \subseteq Modes
      BY <2>1, ControlTypes
    <3>5. attempt = NoAttempt
            \/ (attempt.limit \in Nat /\ attempt.times \in Nat /\ attempt.mode \in Modes)
      BY <2>1 DEF Control, Typed, Attempts
    <3>6. QED
      BY <3>1, <3>2, <3>3, <3>4, <3>5 DEF TypeOK
  <2>3. QED
    BY <2>1, <2>2 DEF WavesTypeOK, WavesInOrder, WavesRun, WavesEnded, HasRun
<1>2. QED
  BY <1>1, InvHolds, PTL

\* The output directory holds the best board's files, whatever panicked on the way
\* (ladder.rs, the renames of pitch, seed_retry, seed_round and step).
THEOREM OutputHolds == WavesSpec => []OutputIsBest
<1>1. Inv => OutputIsBest
  BY DEF Inv, LadderInv, BestKept, OutputIsBest
<1>2. QED
  BY <1>1, InvHolds, PTL

\* The check gate never costs the ladder its best board: none of those it could
\* have kept ranks before the one it kept (ladder.rs, judge and CheckGate).
THEOREM LeastHolds == WavesSpec => []BestIsLeast
<1>1. Inv => BestIsLeast
  BY DEF Inv, LadderInv, BestKept, BestIsLeast, BestRank
<1>2. QED
  BY <1>1, InvHolds, PTL

\* A complete board ends the ladder: after it only the rung after a clean skeleton
\* is tried, with its seeds, unless an attempt panicked (ladder.rs, pitch).
THEOREM CompleteHolds == WavesSpec => []CompleteEnds
<1>1. Inv => CompleteEnds
  BY DEF Inv, LadderInv, CompleteIsLast, CompleteEnds
<1>2. QED
  BY <1>1, InvHolds, PTL

\* Route mode: the ladder's work stays within its bound but for what routers do
\* past their limits (ladder.rs, ladder_work_bound).
THEOREM BoundHolds == WavesSpec => []WithinBound
<1>1. ASSUME Inv PROVE WithinBound
  <2>1. SUFFICES ASSUME ~run.layout PROVE work - overrun <= Bound
    BY DEF WithinBound
  <2>2. Control /\ Limited /\ Fits
    BY <1>1 DEF Inv, LadderInv, Bounded
  <2>3. work \in Nat /\ overrun \in Nat /\ Promised \in Nat /\ Spent + Promised <= Bound
    BY <2>1, <2>2, ControlTypes, PromisedIs DEF Fits
  <2>4. QED
    BY <2>3, Numbers DEF Spent
<1>2. QED
  BY <1>1, InvHolds, PTL

\* Route mode: the work kept for the steps is still there when the rungs and the
\* seed rounds are done, but for what routers did past their limits since
\* (ladder.rs, route_step_reserve).
THEOREM ReserveHolds == WavesSpec => []ReserveIsThere
<1>1. ASSUME Inv PROVE ReserveIsThere
  <2>1. SUFFICES ASSUME ~run.layout, keep.reserve > 0
                 PROVE  Bound - work + (overrun - keep.over) >= keep.reserve
    BY DEF ReserveIsThere
  <2>2. Control /\ Limited /\ Fits
    BY <1>1 DEF Inv, LadderInv, Bounded
  <2>3. /\ work \in Nat /\ overrun \in Nat /\ Promised \in Nat
        /\ Spent + Promised + keep.reserve + keep.over <= Bound
    BY <2>1, <2>2, ControlTypes, PromisedIs DEF Fits
  <2>4. keep.reserve \in Nat /\ keep.over \in Nat
    BY <2>2 DEF Control, Typed, Data, Kept
  <2>5. QED
    BY <2>3, <2>4, Numbers DEF Spent
<1>2. QED
  BY <1>1, InvHolds, PTL

\* No rung's directory is left when the seeds and steps run, whatever was stopped,
\* passed over or panicked (ladder.rs, clear_rung_directories).
THEOREM DirectoriesHold == WavesSpec => []NoRungDirectoryLeft
<1>1. Inv => NoRungDirectoryLeft
  BY DEF Inv, WavesInOrder, NoneLeft, NoRungDirectoryLeft
<1>2. QED
  BY <1>1, InvHolds, PTL
=============================================================================
