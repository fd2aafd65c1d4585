------------------------------- MODULE Ladder -------------------------------
(***************************************************************************)
(* The attempt ladder (board_router/ladder.rs) with its attempts one after *)
(* another: the rung probes and the leading probe's continuation, the      *)
(* rungs of every pitch (the leader's first, in route mode), the best      *)
(* rung's seed rounds, the narrow-signal and minimum-clearance steps.      *)
(* LadderWaves runs probes and rungs side by side and implements this.     *)
(*                                                                         *)
(* An attempt begins (what it may start with, and the work it may do, is   *)
(* decided), routes, and ends: it leaves any board of Boards after any     *)
(* work up to its limit and an overrun (a fresh router's first iteration,  *)
(* the batch under way), panics, or is an error, which ends the ladder.    *)
(***************************************************************************)
EXTENDS LadderRules

CONSTANTS
    Runs,           \* the ladders: what is decided before the first attempt
    Budget,         \* ladder_budget_seconds, in minutes
    Bound,          \* ladder_work_bound: the budget and its tolerance
    RefineBudget,   \* what a finer lattice's attempt may be projected to take
    DeadlineWork,   \* a layout's deadline_work
    ProbeWork,      \* probe_seconds
    CheckWork,      \* what a check counts in a layout
    RetrySeeds,     \* retry_seeds
    FirstIteration, \* a fresh router's first negotiation iteration
    Over,           \* how far a router goes past its limit
    Grain,          \* the works tried beside the least and the most: its multiples
    SeedRounds,     \* SEED_ROUNDS
    Sizes,          \* the lattices' pitches, the regular one first
    Boards,         \* what an attempt may leave
    Unfinished      \* the nets a probe may leave

ASSUME LadderConstants ==
    /\ {Budget, Bound, RefineBudget, DeadlineWork, CheckWork, Over, FirstIteration} \subseteq Nat
    /\ {RetrySeeds, ProbeWork, SeedRounds, Grain} \subseteq Nat \ {0}
    /\ Budget <= Bound
    /\ Unfinished \subseteq Nat /\ Sizes \in Seq(Nat \ {0}) /\ Sizes # <<>>
    /\ \A b \in Boards : {b.count, b.kicad, b.starved, b.pours, b.copper} \subseteq Nat
    /\ \A r \in Runs :
         /\ r.layout \in BOOLEAN /\ r.rungs \in Seq(STRING) /\ r.top \in Nat
         /\ r.fates \subseteq {"panic", "checkPanic", "error"}
         /\ r.steps \subseteq {"narrow", "clearance"}

VARIABLES
    run,        \* what is fixed: the kind of ladder, its rungs, what may fail
    late,       \* whether the wall clock passed the deadline
    work,       \* the ladder's work
    overrun,    \* of it, what routers did past their limits (route mode)
    best,       \* the best board and its attempt
    output,     \* what is in the output directory
    least,      \* the least rank of the boards the ladder could have kept
    counts,     \* the measures of the boards checked (CheckGate), the caller's first
    keep,       \* the work kept for the steps, and what was learned with it
    last,       \* the last attempt's work and pitch
    slowest,    \* the slowest's
    probes,     \* probe_counts, the leading probe, probed_mode
    regular,    \* regular_opens
    rounds,     \* seed_rounds_run
    extra,      \* extra_rung_tried
    beyond,     \* the attempts begun on a complete board
    failed,     \* whether an attempt panicked
    stage,      \* where the ladder is
    plan,       \* the pitch under way
    lead,       \* the leader and its plan
    attempt     \* the attempt routing now

flow == <<stage, plan, lead>>
learned == <<keep, last, slowest, regular, extra>>
judgedVars == <<best, output, least, counts>>
vars == <<run, late, work, overrun, judgedVars, learned, probes, rounds, beyond, failed,
          flow, attempt>>

NoBest == [mode |-> 0]
NoAttempt == [kind |-> "none"]
NoPlan == [pitch |-> 1, cands |-> {}, after |-> 0, share |-> None, left |-> 0,
           retry |-> FALSE, back |-> "rungs"]
NoLead == [mode |-> 0, admitted |-> {}, slots |-> 0, finer |-> 0]

Modes == DOMAIN run.rungs
Finer == 2..Len(Sizes)

\* The rungs run in their order.
First(cands) == CHOOSE m \in cands : \A n \in cands : m <= n
WithoutFirst(cands) == cands \ {First(cands)}

Stages == {"probes", "probing", "continue", "rungs", "pitches", "rung", "leader", "A", "B",
           "C", "D", "seeds", "steps", "clearance", "done", "failed"}

---------------------------------------------------------------------------
(* What is left *)

BoundLeft(w) == Positive(Bound - w)

\* Mutant: the rungs take what is kept for the step.
LeftWithReserve(w) == BoundLeft(w)

RungLeft(w) == Positive(BoundLeft(w) - keep.reserve)
WorkLeft(w) == DeadlineWork - w
CheckCharge == IF run.layout THEN CheckWork ELSE 0
BoundAllows == run.layout \/ BoundAllowsAttempt(RungLeft(work), Budget)

NoTimeForAnother ==
    /\ run.layout
    /\ WorkLeft(work) - keep.reserve < Larger(last.work, 2) + CheckCharge

\* Mutant: a complete board is varied like an open one.
AnyBest == best # NoBest

OpenBest == best # NoBest /\ best.opens[1] > 0
Complete == best # NoBest /\ best.opens[1] = 0

\* What keeps a rung on the pitch `size` from starting.
ShortOfWork(size) ==
    IF ~run.layout THEN ~BoundAllows
    ELSE IF keep.reserve > 0
         THEN ~FitsBeforeReserve(WorkLeft(work) - CheckCharge, keep.reserve, last.work,
                                 IF last.size = 0 THEN size ELSE last.size, size)
         ELSE NoTimeForAnother

PitchSkipped(pitch) ==
    /\ pitch > 1
    /\ \/ /\ slowest.size > 0
          /\ \/ ProjectedExceeds(slowest.work, slowest.size, Sizes[pitch], RefineBudget)
             \/ ~run.layout /\ ProjectedExceeds(slowest.work, slowest.size, Sizes[pitch],
                                                RungLeft(work))
       \/ pitch > run.fit

\* The skeleton and the stubs only help where a pour net's pad stayed open.
NotNeeded(mode) ==
    /\ run.rungs[mode] \in {"skeleton", "stubs"} \ run.asked
    /\ best # NoBest
    /\ run.rungs[best.mode] \in {"connect", "exclusive", "stubs"}
    /\ ~best.board.pourOpen

---------------------------------------------------------------------------
(* An attempt: what it does, its check, its rank *)

Works(limit) == {w \in 1..(limit + Over) : w = 1 \/ w = limit + Over \/ w % Grain = 0}

Routed(limit) == [fate : {"routed"}, board : Boards, work : Works(limit)]
Outcomes(limit) ==
    Routed(limit) \cup {[fate |-> f, work |-> limit] : f \in run.fates}

ProbeOutcomes(limit) ==
    [fate : {"routed"}, unfinished : Unfinished, work : Works(limit)]
      \cup {[fate |-> f, work |-> limit] : f \in run.fates \cap {"panic"}}

Begin(kind, mode, limit, times, result) ==
    /\ attempt' = [kind |-> kind, mode |-> mode, limit |-> limit, times |-> times,
                   result |-> result]
    /\ beyond' = beyond + (IF Complete THEN 1 ELSE 0)

\* judge: whether KiCad checks the board.
Judged(board) ==
    \/ PoursBetter(board, IF best = NoBest THEN <<>> ELSE best.opens, best.board)
    \/ Wants(board, IF best = NoBest THEN <<>> ELSE best.opens, best.board, late,
             run.kept, counts, run.top)

Opens(board, checked) == IF checked THEN Checked(board) ELSE Unchecked(board)

\* The work of an attempt of `times` routers, and of its check.
Charge(w, checked) ==
    /\ work' = work + attempt.times * w + (IF checked THEN CheckCharge ELSE 0)
    /\ overrun' = IF run.layout THEN 0
                  ELSE overrun + attempt.times * Positive(w - attempt.limit)

\* History: the least rank KiCad would give a board.  A board left out for the
\* caller's sake (`kept`, `top`) is not one the ladder would have kept.
NoteRank(board, checked) ==
    LET rank == RankOf(Checked(board), board)
    IN  least' = IF /\ checked \/ (run.top = 0 /\ run.kept = <<>>)
                    /\ least = <<>> \/ Before(rank, least)
                 THEN rank ELSE least

NoteCheck(board, checked) ==
    counts' = IF checked /\ run.top > 0 THEN Append(counts, <<board.count, board.copper>>)
              ELSE counts

\* A board that KiCad did not check cannot beat the best.
Beats(board, checked) ==
    \/ best = NoBest
    \/ checked /\ Before(RankOf(Checked(board), board), RankOf(best.opens, best.board))

\* keep_reserves: once an attempt leaves connections open.
Reserved(opens, first, w) ==
    IF keep.set \/ opens[1] = 0 \/ run.steps = {} THEN keep
    ELSE [keep EXCEPT
            !.set = TRUE,
            !.reserve =
                IF run.layout
                THEN ReserveWithCheck(
                         NarrowStepReserve(first, Smaller((2 * DeadlineWork) \div 5, 10)),
                         CheckCharge)
                ELSE RouteStepReserve(first, BoundLeft(w)),
            !.first = IF run.layout THEN 0 ELSE first,
            !.over = overrun']
---------------------------------------------------------------------------
Init ==
    /\ run \in Runs
    /\ late = FALSE /\ work = 0 /\ overrun = 0
    /\ best = NoBest /\ output = <<>> /\ least = <<>> /\ counts = run.measures
    /\ keep = [reserve |-> 0, set |-> FALSE, first |-> 0, over |-> 0, steps |-> 0]
    /\ last = [work |-> 2, size |-> 0]
    /\ slowest = [work |-> 0, size |-> 0]
    /\ probes = [counts |-> [m \in Modes |-> None], mode |-> 0, work |-> 0, continued |-> FALSE]
    /\ regular = [m \in Modes |-> None]
    /\ rounds = 0 /\ extra = FALSE /\ beyond = 0 /\ failed = FALSE
    /\ stage = "probes" /\ plan = NoPlan /\ lead = NoLead
    /\ attempt = NoAttempt

\* The wall clock passes the deadline.
Late ==
    /\ run.clocked /\ ~late /\ stage \notin {"done", "failed"}
    /\ late' = TRUE
    /\ UNCHANGED <<run, work, overrun, judgedVars, learned, probes, rounds, beyond, failed,
                   flow, attempt>>

Idle(name) == stage = name /\ attempt = NoAttempt

\* Nothing but the place in the ladder changes.
GoTo(name) ==
    /\ stage' = name
    /\ UNCHANGED <<run, late, work, overrun, judgedVars, learned, probes, rounds, beyond,
                   failed, attempt>>

\* An attempt panicked: what it did is not charged, and the ladder goes on.
Dropped ==
    /\ failed' = TRUE
    /\ UNCHANGED <<work, overrun, judgedVars, learned>>

\* An attempt was an error: the ladder ends with it.
Error(o) ==
    /\ attempt # NoAttempt /\ attempt.kind # "probe" /\ o.fate = "error"
    /\ stage' = "failed" /\ attempt' = NoAttempt
    /\ UNCHANGED <<run, late, work, overrun, judgedVars, learned, probes, rounds, beyond,
                   failed, plan, lead>>

---------------------------------------------------------------------------
(* The rung probes: each negotiates a little, the leader goes on *)

ProbeLimit ==
    IF run.layout THEN ProbeWork
    ELSE Smaller(ProbeWork, Budget \div (2 * Len(run.rungs)))

StartProbes ==
    /\ Idle("probes")
    /\ IF /\ run.probing /\ Len(run.rungs) >= 3
          /\ ~late /\ ~(run.layout /\ WorkLeft(work) < 3 * ProbeWork + 3)
       THEN plan' = [plan EXCEPT !.cands = Modes] /\ GoTo("probing")
       ELSE plan' = plan /\ GoTo("rungs")
    /\ UNCHANGED lead

\* Whether the work left starts another probe; lateness counts as it starts.
ProbeFits == probes.mode = 0 \/ ~run.layout \/ WorkLeft(work) >= 2 * ProbeWork + 2

BeginProbe ==
    /\ Idle("probing") /\ plan.cands # {}
    /\ ProbeFits /\ ~(probes.mode # 0 /\ late)
    /\ Begin("probe", First(plan.cands), ProbeLimit, 1, <<>>)
    /\ UNCHANGED <<run, late, work, overrun, judgedVars, learned, probes, rounds, failed, flow>>

ProbeEnds(o) ==
    /\ attempt.kind = "probe"
    /\ attempt' = NoAttempt
    /\ plan' = [plan EXCEPT !.cands = WithoutFirst(@)]
    /\ \/ o.fate = "panic" /\ Dropped /\ UNCHANGED <<probes, stage>>
       \/ /\ o.fate = "routed"
          /\ Charge(o.work, FALSE)
          /\ LET leads == \/ probes.mode = 0
                          \/ o.unfinished < probes.counts[probes.mode]
             IN  probes' = [probes EXCEPT
                              !.counts[attempt.mode] = o.unfinished,
                              !.mode = IF leads THEN attempt.mode ELSE @,
                              !.work = IF leads THEN o.work ELSE @]
          /\ stage' = IF o.unfinished = 0 THEN "continue" ELSE stage
          /\ UNCHANGED <<judgedVars, learned, failed>>
    /\ UNCHANGED <<run, late, rounds, beyond, lead>>

EndProbes ==
    /\ Idle("probing")
    /\ plan.cands = {} \/ ~ProbeFits \/ (probes.mode # 0 /\ late)
    /\ plan' = NoPlan
    /\ GoTo(IF probes.mode = 0 THEN "rungs" ELSE "continue")
    /\ UNCHANGED lead

BeginContinuation ==
    /\ Idle("continue")
    /\ Begin("continuation", probes.mode,
             IF run.layout THEN Positive(WorkLeft(work) - CheckCharge) ELSE BoundLeft(work),
             1, <<>>)
    /\ plan' = NoPlan
    /\ UNCHANGED <<run, late, work, overrun, judgedVars, learned, probes, rounds, failed,
                   stage, lead>>

\* The continued board is the ladder's first.  It is written before it is
\* judged: a check that panics leaves it in the output directory.
ContinuationEnds(o) ==
    /\ attempt.kind = "continuation"
    /\ attempt' = NoAttempt /\ stage' = "rungs"
    /\ \/ o.fate = "panic" /\ Dropped /\ UNCHANGED probes
       \/ /\ o.fate = "checkPanic"
          /\ Charge(o.work, FALSE)
          /\ output' \in {<<b>> : b \in Boards}
          /\ failed' = TRUE
          /\ UNCHANGED <<best, least, counts, learned, probes>>
       \/ /\ o.fate = "routed"
          /\ LET checked == Judged(o.board)
                 opens   == Opens(o.board, checked)
                 whole   == probes.work + o.work
             IN  /\ Charge(o.work, checked)
                 /\ NoteRank(o.board, checked) /\ NoteCheck(o.board, checked)
                 /\ output' = <<o.board>>
                 /\ best' = [mode |-> attempt.mode, board |-> o.board, opens |-> opens,
                             own |-> whole, size |-> Sizes[1], seeded |-> FALSE,
                             limit |-> DeadlineWork]
                 /\ last' = [work |-> whole, size |-> Sizes[1]]
                 /\ slowest' = last'
                 /\ keep' = Reserved(opens, whole, work')
                 /\ probes' = [probes EXCEPT !.continued = TRUE]
          /\ UNCHANGED <<regular, extra, failed>>
    /\ UNCHANGED <<run, late, rounds, beyond, plan, lead>>
---------------------------------------------------------------------------
(* The rungs of the pitches, and their order *)

ProbedMode == IF probes.continued THEN probes.mode ELSE 0
Others(mode) == Modes \ {mode}

\* A pitch: what its rungs share is decided as it starts.
StartPitch(pitch, cands, after, retry, back) ==
    /\ plan' = [pitch |-> pitch, cands |-> cands, after |-> after, share |-> None,
                left |-> Positive(WorkLeft(work)), retry |-> retry, back |-> back]
    /\ GoTo("rung")

Skip(name) == plan' = NoPlan /\ lead' = NoLead /\ GoTo(name)

StartRungs ==
    /\ Idle("rungs")
    /\ IF Complete THEN Skip("seeds")
       ELSE IF run.layout \/ Len(run.rungs) < 2 THEN Skip("pitches")
       ELSE IF probes.continued THEN Skip("leader")
       ELSE StartPitch(1, Modes, 0, FALSE, "leader") /\ UNCHANGED lead

NextPitch ==
    /\ Idle("pitches")
    /\ IF plan.pitch > Len(Sizes) \/ PitchSkipped(plan.pitch) THEN Skip("seeds")
       ELSE /\ StartPitch(plan.pitch, IF plan.pitch = 1 THEN Others(ProbedMode) ELSE Modes,
                          0, TRUE, "pitches")
            /\ UNCHANGED lead

\* The leader, and the rungs its gate admits.
PickLeader ==
    /\ Idle("leader")
    /\ IF ~OpenBest THEN Skip("seeds")
       ELSE LET leader   == IF probes.continued THEN probes.mode ELSE best.mode
                measures == IF probes.continued THEN probes.counts ELSE regular
                admitted == {m \in Others(leader) :
                                LeaderGateAdmits(measures[m], measures[leader])}
                skipped  == {p \in Finer : PitchSkipped(p)}
                planned  == {p \in Finer : \A q \in 2..p : q \notin skipped}
            IN  /\ lead' = [mode |-> leader, admitted |-> admitted, finer |-> 0,
                            slots |-> 1 + Cardinality(planned)
                                      + (IF probes.continued THEN Cardinality(admitted) ELSE 0)]
                /\ plan' = NoPlan
                /\ GoTo("A")

LeaderOnFiner ==
    /\ Idle("B")
    /\ IF plan.pitch > Len(Sizes) \/ (OpenBest /\ PitchSkipped(plan.pitch))
       THEN plan' = NoPlan /\ UNCHANGED lead /\ GoTo("C")
       ELSE IF ~OpenBest THEN Skip("seeds")
       ELSE /\ lead' = [lead EXCEPT !.slots = Positive(@ - 1), !.finer = @ + 1]
            /\ StartPitch(plan.pitch, {lead.mode}, lead'.slots, FALSE, "B")

AdmittedOnRegular ==
    /\ Idle("C")
    /\ IF lead.admitted = {} \/ (probes.continued /\ ~OpenBest) THEN Skip("seeds")
       ELSE /\ UNCHANGED lead
            /\ IF probes.continued THEN StartPitch(1, lead.admitted, 0, FALSE, "D")
               ELSE plan' = [NoPlan EXCEPT !.pitch = 2] /\ GoTo("D")

AdmittedOnFiner ==
    /\ Idle("D")
    /\ IF plan.pitch > 1 + lead.finer \/ ~OpenBest \/ PitchSkipped(plan.pitch) THEN Skip("seeds")
       ELSE StartPitch(plan.pitch, lead.admitted, 0, FALSE, "D") /\ UNCHANGED lead

\* A pitch has run (Flow::Next), or no further rung runs (Flow::Stop).
Flows(stop) ==
    IF stop
    THEN stage' = "seeds" /\ plan' = NoPlan /\ lead' = NoLead
    ELSE /\ stage' = plan.back
         /\ plan' = [NoPlan EXCEPT !.pitch = plan.pitch + 1]
         /\ UNCHANGED lead

OutOfWork ==
    best # NoBest /\ (late \/ ShortOfWork(Sizes[plan.pitch]))

EndPitch ==
    /\ Idle("rung")
    /\ plan.cands = {} \/ OutOfWork
    /\ Flows(plan.cands # {})
    /\ UNCHANGED <<run, late, work, overrun, judgedVars, learned, probes, rounds, beyond,
                   failed, attempt>>

PassRung ==
    /\ Idle("rung")
    /\ plan.cands # {} /\ ~OutOfWork /\ NotNeeded(First(plan.cands))
    /\ plan' = [plan EXCEPT !.cands = WithoutFirst(@)]
    /\ UNCHANGED lead
    /\ GoTo("rung")

\* The work deadline of the rungs of a pitch: in route mode all that is left
\* until there is a board, then an even share, fixed by the first rung that
\* starts; in a layout what was left as the pitch started.
Share ==
    IF run.layout \/ best = NoBest \/ plan.share # None THEN plan.share
    ELSE RungShare(RungLeft(work), Cardinality(plan.cands) + plan.after)

RungLimit ==
    IF run.layout THEN Positive(plan.left - CheckCharge - keep.reserve)
    ELSE IF best = NoBest THEN BoundLeft(work) ELSE Share

BeginRung ==
    /\ Idle("rung")
    /\ plan.cands # {} /\ ~OutOfWork /\ ~NotNeeded(First(plan.cands))
    /\ plan' = [plan EXCEPT !.share = Share]
    /\ Begin("rung", First(plan.cands), RungLimit, 1, <<>>)
    /\ UNCHANGED <<run, late, work, overrun, judgedVars, learned, probes, rounds, failed,
                   stage, lead>>

\* A rung is done, with its seeds: what it teaches, and whether it is the best.
Settle(r) ==
    LET mode     == attempt.mode
        size     == Sizes[plan.pitch]
        checked  == r.checked
        opens    == Opens(r.board, checked)
        better   == Beats(r.board, checked)
        complete == IF better THEN opens[1] = 0 ELSE Complete
        kept     == Reserved(opens, r.work, work')
        again    == /\ opens[1] = 0 /\ run.rungs[mode] = "skeleton" /\ ~extra
                    /\ mode < Len(run.rungs) /\ 2 * r.work <= RefineBudget
        stop     == ~again /\ (opens[1] = 0 \/ extra \/ work' > Budget)
    IN  /\ regular' = IF plan.pitch = 1 THEN [regular EXCEPT ![mode] = opens[1]] ELSE regular
        /\ last' = [work |-> r.work, size |-> size]
        /\ slowest' = IF slowest.size = 0 \/ r.work > slowest.work THEN last' ELSE slowest
        /\ IF better
           THEN /\ best' = [mode |-> mode, board |-> r.board, opens |-> opens, own |-> r.own,
                            size |-> size, seeded |-> r.seeded, limit |-> r.limit]
                /\ output' = <<r.board>>
           ELSE UNCHANGED <<best, output>>
        /\ keep' = IF complete THEN [kept EXCEPT !.reserve = 0] ELSE kept
        /\ extra' = (extra \/ again)
        /\ attempt' = NoAttempt
        /\ IF stop THEN Flows(TRUE)
           ELSE plan' = [plan EXCEPT !.cands = WithoutFirst(@)] /\ UNCHANGED <<stage, lead>>
Result(o, checked, seeded) ==
    [board |-> o.board, checked |-> checked, own |-> o.work, work |-> o.work,
     limit |-> attempt.limit, seeded |-> seeded]

\* The last rung of the pitch, still open, again with some seeds.
RetryWanted(r) ==
    /\ plan.retry /\ Opens(r.board, r.checked)[1] > 0
    /\ 2 * r.work <= RefineBudget
    /\ attempt.mode = Len(run.rungs)
    /\ ~late
    /\ IF run.layout
       THEN \/ keep.reserve = 0
            \/ WorkLeft(work') - CheckCharge - keep.reserve >= RetrySeeds * r.work
       ELSE RungLeft(work') >= RetrySeeds * r.work

RetryLimit(w) ==
    IF run.layout THEN Positive(WorkLeft(w) - CheckCharge - keep.reserve) \div RetrySeeds
    ELSE RungShare(RungLeft(w), RetrySeeds)

\* A rung whose check panics is dropped before its work is charged.
RungEnds(o) ==
    /\ attempt.kind = "rung"
    /\ \/ /\ o.fate \in {"panic", "checkPanic"}
          /\ Dropped
          /\ attempt' = NoAttempt
          /\ plan' = [plan EXCEPT !.cands = WithoutFirst(@)]
          /\ UNCHANGED <<beyond, stage, lead>>
       \/ /\ o.fate = "routed"
          /\ LET checked == Judged(o.board)
                 r       == Result(o, checked, FALSE)
             IN  /\ Charge(o.work, checked)
                 /\ NoteRank(o.board, checked) /\ NoteCheck(o.board, checked)
                 /\ IF RetryWanted(r)
                    THEN /\ Begin("retry", attempt.mode, RetryLimit(work'), RetrySeeds, r)
                         /\ UNCHANGED <<best, output, learned, flow>>
                    ELSE Settle(r) /\ UNCHANGED beyond
          /\ UNCHANGED failed
    /\ UNCHANGED <<run, late, probes, rounds>>

\* The better of the rung's board and its seeds'.
RetryEnds(o) ==
    /\ attempt.kind = "retry"
    /\ LET r == [attempt.result EXCEPT !.seeded = TRUE]
       IN  \/ /\ o.fate = "panic"
              /\ failed' = TRUE
              /\ UNCHANGED <<work, overrun, least, counts>>
              /\ Settle(r)
           \/ /\ o.fate = "checkPanic"
              /\ failed' = TRUE
              /\ Charge(o.work, FALSE)
              /\ Settle(r)
              /\ UNCHANGED <<least, counts>>
           \/ /\ o.fate = "routed"
              /\ LET checked == Judged(o.board)
                     other   == [r EXCEPT !.board = o.board, !.checked = checked, !.own = o.work]
                     wins    == /\ checked
                                /\ \/ ~r.checked
                                   \/ Before(RankOf(Checked(o.board), o.board),
                                             RankOf(Checked(r.board), r.board))
                 IN  /\ Charge(o.work, checked)
                     /\ NoteRank(o.board, checked) /\ NoteCheck(o.board, checked)
                     /\ Settle(IF wins THEN other ELSE r)
              /\ UNCHANGED failed
    /\ UNCHANGED <<run, late, probes, rounds, beyond>>

---------------------------------------------------------------------------
(* The best rung's seed rounds *)

\* How many seeds what is left pays for, at the best attempt's cost.
RoundSeeds(slots) ==
    LET cost    == Larger(best.own, 1)
        budget  == Positive(Budget - work - cost - CheckCharge) \div cost
        reserve == IF run.layout /\ keep.reserve > 0
                   THEN Positive(WorkLeft(work) - CheckCharge - keep.reserve) \div cost
                   ELSE RetrySeeds
        share   == IF run.layout THEN RetrySeeds
                   ELSE RungShare(RungLeft(work), slots) \div cost
    IN  Smaller(Smaller(RetrySeeds, budget), Smaller(reserve, share))

RoundFits(slots) ==
    /\ OpenBest /\ ~best.seeded
    /\ RoundSeeds(slots) > 0
    /\ ~late /\ ~NoTimeForAnother /\ BoundAllows

RoundLimit(slots) ==
    LET seeds == RoundSeeds(slots)
    IN  IF run.layout THEN Positive(WorkLeft(work) - CheckCharge - keep.reserve) \div seeds
        ELSE RungShare(RungShare(RungLeft(work), slots), seeds)

AfterRound ==
    IF stage = "A"
    THEN /\ stage' = "B"
         /\ plan' = [NoPlan EXCEPT !.pitch = 2]
         /\ lead' = [lead EXCEPT !.slots = @ - 1]
    ELSE UNCHANGED flow

BeginRound ==
    LET slots == IF stage = "A" THEN lead.slots ELSE 1
    IN  /\ Idle("A") \/ (Idle("seeds") /\ rounds < SeedRounds)
        /\ RoundFits(slots)
        /\ rounds' = rounds + 1
        /\ Begin("round", best.mode, RoundLimit(slots), RoundSeeds(slots), <<>>)
        /\ UNCHANGED <<run, late, work, overrun, judgedVars, learned, probes, failed, flow>>

NoRound ==
    /\ \/ Idle("A") /\ ~RoundFits(lead.slots) /\ AfterRound
       \/ /\ Idle("seeds") /\ ~(rounds < SeedRounds /\ RoundFits(1))
          /\ stage' = "steps" /\ UNCHANGED <<plan, lead>>
    /\ UNCHANGED <<run, late, work, overrun, judgedVars, learned, probes, rounds, beyond,
                   failed, attempt>>

\* Mutant: the better board stays in the scratch directory.
KeepsInScratch(o, size, checked) ==
    IF Beats(o.board, checked)
    THEN /\ best' = [best EXCEPT !.board = o.board, !.opens = Opens(o.board, checked)]
         /\ UNCHANGED output
    ELSE UNCHANGED <<best, output>>

\* A round's or a step's board replaces the best where it beats it.
Keeps(o, size, checked) ==
    IF Beats(o.board, checked)
    THEN /\ best' = [best EXCEPT !.board = o.board, !.opens = Opens(o.board, checked),
                                 !.own = o.work]
         /\ output' = <<o.board>>
    ELSE UNCHANGED <<best, output>>

Varied(o) ==
    \/ /\ o.fate = "panic" /\ Dropped
    \/ /\ o.fate = "checkPanic"
       /\ Charge(o.work, FALSE)
       /\ failed' = TRUE
       /\ UNCHANGED <<judgedVars, learned>>
    \/ /\ o.fate = "routed"
       /\ LET checked == Judged(o.board)
          IN  /\ Charge(o.work, checked)
              /\ NoteRank(o.board, checked) /\ NoteCheck(o.board, checked)
              /\ Keeps(o, best.size, checked)
       /\ UNCHANGED <<learned, failed>>

RoundEnds(o) ==
    /\ attempt.kind = "round"
    /\ attempt' = NoAttempt
    /\ Varied(o)
    /\ AfterRound
    /\ UNCHANGED <<run, late, probes, rounds, beyond>>

---------------------------------------------------------------------------
(* The narrow-signal step, then the minimum-clearance step *)

StepHasTime(kept) ==
    IF run.layout
    THEN IF kept > 0
         THEN WorkLeft(work) - CheckCharge >= NarrowStepMinimum(Positive(kept - CheckCharge))
         ELSE ~NoTimeForAnother
    ELSE /\ RouteStepHasTime(BoundLeft(work), kept, Budget)
         /\ FirstIterationFits(BoundLeft(work), FirstIteration)
         /\ StepCostFits(BoundLeft(work), keep.first)

StepLimit(kept) ==
    IF ~run.layout THEN BoundLeft(work)
    ELSE IF kept > 0 THEN Positive(WorkLeft(work) - CheckCharge) ELSE best.limit

\* What was kept for the steps is theirs.
StepsKeep == IF stage = "steps" THEN keep.reserve ELSE keep.steps

StepRuns(kind) ==
    /\ kind \in run.steps
    /\ OpenBest
    /\ 2 * work < 3 * Budget /\ ~late
    /\ StepHasTime(StepsKeep)

BeginStep ==
    \E kind \in {"narrow", "clearance"} :
        /\ Idle(IF kind = "narrow" THEN "steps" ELSE "clearance")
        /\ LET given == [keep EXCEPT !.reserve = 0, !.steps = StepsKeep]
           IN  keep' = given
        /\ StepRuns(kind)
        /\ Begin(kind, best.mode, StepLimit(StepsKeep), 1, <<>>)
        /\ UNCHANGED <<run, late, work, overrun, judgedVars, last, slowest, regular, extra,
                       probes, rounds, failed, flow>>

\* A narrow step that ran at the minimum clearance too leaves no second step.
StepEnds(o) ==
    /\ attempt.kind \in {"narrow", "clearance"}
    /\ attempt' = NoAttempt
    /\ Varied(o)
    /\ stage' = IF attempt.kind = "narrow" /\ "clearance" \notin run.steps THEN "clearance"
                ELSE "done"
    /\ UNCHANGED <<run, late, probes, rounds, beyond, plan, lead>>

NoStep ==
    /\ \/ /\ Idle("steps") /\ ~StepRuns("narrow")
          /\ stage' = "clearance"
          /\ keep' = [keep EXCEPT !.reserve = 0, !.steps = StepsKeep]
       \/ /\ Idle("clearance") /\ ~StepRuns("clearance")
          /\ stage' = "done"
          /\ UNCHANGED keep
    /\ UNCHANGED <<run, late, work, overrun, judgedVars, last, slowest, regular, extra, probes,
                   rounds, beyond, failed, plan, lead, attempt>>
---------------------------------------------------------------------------
EndProbe == attempt.kind = "probe" /\ \E o \in ProbeOutcomes(attempt.limit) : ProbeEnds(o)
EndRung == attempt.kind = "rung" /\ \E o \in Outcomes(attempt.limit) : RungEnds(o) \/ Error(o)

\* The attempts that run alone.
EndAlone ==
    /\ attempt.kind \in {"continuation", "retry", "round", "narrow", "clearance"}
    /\ \E o \in Outcomes(attempt.limit) :
          \/ ContinuationEnds(o) \/ RetryEnds(o) \/ RoundEnds(o) \/ StepEnds(o)
          \/ Error(o)

Decide ==
    \/ StartProbes \/ EndProbes
    \/ StartRungs \/ NextPitch \/ PickLeader \/ LeaderOnFiner
    \/ AdmittedOnRegular \/ AdmittedOnFiner
    \/ EndPitch \/ PassRung
    \/ NoRound \/ NoStep

BeginAlone == BeginContinuation \/ BeginRound \/ BeginStep

Done == stage \in {"done", "failed"} /\ UNCHANGED vars

Next ==
    \/ Late \/ Decide
    \/ BeginProbe \/ BeginRung \/ BeginAlone
    \/ EndProbe \/ EndRung \/ EndAlone
    \/ Done

Spec == Init /\ [][Next]_vars

---------------------------------------------------------------------------
(* Properties *)

\* Every variable has its type; no reserve and no limit is negative.
TypeOK ==
    /\ run \in Runs /\ {late, extra, failed} \subseteq BOOLEAN
    /\ {work, overrun, rounds, beyond, keep.reserve, keep.steps, keep.first, keep.over,
        last.work, slowest.work} \subseteq Nat
    /\ best = NoBest \/ (best.mode \in Modes /\ best.board \in Boards)
    /\ output = <<>> \/ output[1] \in Boards
    /\ stage \in Stages
    /\ plan.cands \subseteq Modes
    /\ attempt = NoAttempt
          \/ (attempt.limit \in Nat /\ attempt.times \in Nat /\ attempt.mode \in Modes)

\* The check gate never costs the ladder its best board (ladder.rs, judge and
\* CheckGate): of all the boards its attempts left, those KiCad did not check
\* included, none would have ranked before the one it kept.
BestIsLeast ==
    /\ best # NoBest /\ least # <<>>
    /\ attempt.kind # "retry" /\ stage # "failed"
    => ~Before(least, RankOf(best.opens, best.board))

\* The output directory holds the best board's files, whatever panicked on the
\* way (ladder.rs, the renames of pitch, seed_retry, seed_round and step).
OutputIsBest == best # NoBest => output = <<best.board>>

\* Route mode: the ladder's work stays within its bound but for what routers do
\* past their limits (ladder_work_bound): the limits of the rungs, the seeds
\* side by side and the steps never add up to more than was left.
WithinBound == ~run.layout => work - overrun <= Bound

\* Route mode: the work kept for the narrow-signal step is still there when the
\* rungs and seed rounds are done, but for what routers did past their limits
\* since it was kept (route_step_reserve).
ReserveIsThere ==
    ~run.layout /\ keep.reserve > 0 =>
        Bound - work + (overrun - keep.over) >= keep.reserve

\* A complete board ends the ladder (ladder.rs, pitch): after it only the rung
\* after a clean skeleton is still tried, with its seeds, unless attempts panic.
CompleteEnds == beyond <= 2 \/ failed
===========================================================================
