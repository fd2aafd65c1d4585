---------------------------- MODULE SeedsInOrder ----------------------------
(***************************************************************************)
(* What the placement's seed race promises (board_placer/seed_race.rs, the *)
(* comment of race_seeds): it keeps its seeds as running one after the     *)
(* other would.  Seed k is kept while the work of the seeds before it is   *)
(* under the limit, the first `Minimum` always.                            *)
(***************************************************************************)
EXTENDS Integers, Sequences

CONSTANTS
    Seeds,      \* how many there are; they are 0 .. Seeds - 1
    Minimum,    \* how many are kept whatever they cost
    Works,      \* what a seed's placement may cost
    Limits,     \* the work budgets tried
    NoLimit     \* no budget

Offsets == 0..(Seeds - 1)

VARIABLES
    work,       \* what each seed costs, whichever thread runs it
    panics,     \* the seeds whose placement panics
    limit,      \* the work budget
    kept,       \* the kept seeds, in order
    used,       \* their work
    over        \* "no", "kept" (the race returns), "panicked"

vars == <<work, panics, limit, kept, used, over>>

Init ==
    /\ work \in [Offsets -> Works]
    /\ \/ panics = {}
       \/ \E s \in Offsets : panics = {s}
    /\ limit \in Limits
    /\ kept = <<>> /\ used = 0 /\ over = "no"

\* Whether the limit leaves room for another seed.
Open == Len(kept) < Minimum \/ (limit # NoLimit => used < limit)

KeepNext ==
    /\ over = "no" /\ Len(kept) < Seeds /\ Open
    /\ LET s == Len(kept)
       IN  s \notin panics /\ kept' = Append(kept, s) /\ used' = used + work[s]
    /\ UNCHANGED <<work, panics, limit, over>>

Return ==
    /\ over = "no" /\ (Len(kept) = Seeds \/ ~Open)
    /\ over' = "kept"
    /\ UNCHANGED <<work, panics, limit, kept, used>>

\* A panic ends the process, one of a seed that would not be kept too.
Panic ==
    /\ over = "no" /\ panics # {}
    /\ over' = "panicked"
    /\ UNCHANGED <<work, panics, limit, kept, used>>

Next == KeepNext \/ Return \/ Panic

Spec == Init /\ [][Next]_vars /\ WF_vars(Next)
=============================================================================
