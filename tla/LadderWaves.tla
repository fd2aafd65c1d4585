----------------------------- MODULE LadderWaves -----------------------------
(***************************************************************************)
(* The ladder as it runs (board_router/ladder.rs, rung_wave and probes):   *)
(* the probes, and the rungs of a pitch after its first board, route side  *)
(* by side, as many as the memory lets, each in a thread; they are judged  *)
(* in rung order, and one the order would not have reached counts for      *)
(* nothing.  Ladder is what this promises: the attempts one after another. *)
(***************************************************************************)
EXTENDS Ladder

VARIABLES
    wave,       \* the rungs routing now
    ran,        \* per rung: how its attempt ended and the limit it had
    left        \* the rungs whose directory exists

waveVars == <<wave, ran, left>>
allVars == <<vars, waveVars>>

NotRun == [limit |-> None]

\* Every variable has its type; no rung routes twice.
WavesTypeOK ==
    /\ TypeOK
    /\ wave \subseteq Modes /\ left \subseteq Modes
    /\ \A m \in Modes : ran[m] = NotRun \/ ran[m].limit \in Nat
    /\ \A m \in wave : ran[m] = NotRun

WavesInit ==
    /\ Init
    /\ wave = {} /\ left = {}
    /\ ran = [m \in Modes |-> NotRun]

InWaves == attempt.kind \in {"probe", "rung"}

\* How many the memory lets run side by side; the first rung without a board
\* runs alone.
Widths ==
    IF attempt.kind = "rung" /\ best = NoBest THEN {1} ELSE 1..Cardinality(plan.cands)

Firsts(width) ==
    {m \in plan.cands : Cardinality({n \in plan.cands : n < m}) < width}

\* Mutant: each rung has what is left as its router starts.
LimitAsItStarts == IF attempt.kind = "rung" THEN RungLeft(work) ELSE attempt.limit

\* What a thread of the wave was given: its share, decided before they start.
WaveLimit == attempt.limit

\* Mutant: a wave starts with a rung that has run and waits to be judged.
StartWaveAgain ==
    /\ InWaves /\ wave = {}
    /\ \E width \in Widths : wave' = Firsts(width)
    /\ UNCHANGED <<vars, ran, left>>

StartWave ==
    /\ InWaves /\ wave = {} /\ ran[attempt.mode] = NotRun
    /\ \E width \in Widths : wave' = Firsts(width)
    /\ UNCHANGED <<vars, ran, left>>

\* A thread ends, in any order; a probe leaves no directory, a panic may.
RouteEnds(m) ==
    /\ m \in wave
    /\ wave' = wave \ {m}
    /\ IF attempt.kind = "probe"
       THEN /\ \E o \in ProbeOutcomes(WaveLimit) :
                  ran' = [ran EXCEPT ![m] = [limit |-> WaveLimit, end |-> o]]
            /\ UNCHANGED left
       ELSE /\ \E o \in Outcomes(WaveLimit) :
                  ran' = [ran EXCEPT ![m] = [limit |-> WaveLimit, end |-> o]]
            /\ left' = left \cup {m}
    /\ UNCHANGED vars

\* The wave is joined: its next rung in order is judged.
Joined(m) == attempt.mode = m /\ wave = {} /\ ran[m] # NotRun

Forgotten == [m \in Modes |-> NotRun]

\* What a pitch (or the probing) leaves of the waves when it is over.
Forget(stays) ==
    ran' = IF stage' = stays /\ plan'.cands # {}
           THEN [ran EXCEPT ![attempt.mode] = NotRun] ELSE Forgotten

JudgeProbe ==
    /\ attempt.kind = "probe"
    /\ Joined(attempt.mode)
    /\ ProbeEnds(ran[attempt.mode].end)
    /\ Forget("probing")
    /\ UNCHANGED <<wave, left>>

\* Mutant: what the order stopped at stays beside the output directory.
StaysBeside(others) == others

\* clear_rung_directories, once the rungs are over.
Cleared(others) == IF stage # "seeds" /\ stage' = "seeds" THEN {} ELSE others

\* A rung judged, or passed over, has its directory renamed or removed; its
\* seeds are routed beside it first.
Judge ==
    left' = Cleared(
        IF \/ stage = "rung" /\ InWaves /\ attempt'.kind # "retry"
           \/ attempt.kind = "retry"
        THEN left \ {attempt.mode}
        ELSE IF Idle("rung") /\ plan.cands # {} /\ stage' = "rung" /\ attempt' = NoAttempt
        THEN left \ {First(plan.cands)}
        ELSE left)

JudgeRung ==
    /\ attempt.kind = "rung"
    /\ Joined(attempt.mode)
    /\ RungEnds(ran[attempt.mode].end) \/ Error(ran[attempt.mode].end)
    /\ Forget("rung")
    /\ Judge
    /\ UNCHANGED wave

\* The steps that are the ladder's own.
Alone ==
    /\ Decide \/ BeginProbe \/ BeginRung \/ BeginAlone \/ EndAlone
    /\ ran' = IF stage' = stage THEN ran ELSE Forgotten
    /\ Judge
    /\ UNCHANGED wave

WavesDone == Done /\ UNCHANGED waveVars

WavesNext ==
    \/ StartWave
    \/ \E m \in Modes : RouteEnds(m)
    \/ JudgeProbe \/ JudgeRung
    \/ Late /\ UNCHANGED waveVars
    \/ Alone
    \/ WavesDone

WavesSpec == WavesInit /\ [][WavesNext]_allVars

---------------------------------------------------------------------------
(* Properties *)

\* The waves change nothing but when an attempt routes (pitch's comment: "they
\* are judged in rung order as one after another, a rung the order would not
\* have reached counting for nothing"): however many run side by side and in
\* whatever order they end, the ladder's steps are those of one attempt after
\* another, each within the limits it would have had alone.
InOrder == INSTANCE Ladder WITH Grain <- 1
AsOneAfterAnother == InOrder!Spec

\* No rung's directory is left beside the board's when the seeds and steps run
\* (clear_rung_directories), whatever was stopped, passed over or panicked.
NoRungDirectoryLeft == stage \in {"seeds", "steps", "clearance", "done"} => left = {}
=============================================================================
