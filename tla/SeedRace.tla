------------------------------ MODULE SeedRace ------------------------------
(***************************************************************************)
(* The placement's seed race (board_placer/seed_race.rs, race_seeds and    *)
(* run_pool; place.rs calls it).  The seeds run in batches, each in a pool *)
(* of threads that take the next index from an atomic counter and put the  *)
(* result in the index's slot; when all threads have ended the results are *)
(* kept in seed order until the limit is reached.                          *)
(***************************************************************************)
EXTENDS Integers, Sequences, FiniteSets, SequencesExt

CONSTANTS
    Seeds, Minimum, Works, Limits, NoLimit,     \* as in SeedsInOrder
    Pools,      \* how many threads the process may have
    Reference   \* REFERENCE_THREADS

ASSUME SeedConstants ==
    /\ Seeds \in Nat \ {0} /\ Minimum \in 1..Seeds
    /\ Works \subseteq Nat /\ Limits \subseteq Nat \cup {NoLimit}
    /\ NoLimit \notin Nat

ASSUME RaceConstants ==
    /\ Pools \subseteq Nat \ {0} /\ \E n \in Pools : \A m \in Pools : m <= n
    /\ Reference \in Nat \ {0}

Offsets == 0..(Seeds - 1)
Threads == 1..CHOOSE n \in Pools : \A m \in Pools : m <= n

VARIABLES
    work, panics, limit,    \* the seeds, as in SeedsInOrder
    threads,    \* the process's search threads
    next,       \* the first seed not yet given to a batch
    batch,      \* the length of the batch under way, 0 between batches
    index,      \* the pool's atomic counter
    thread,     \* what each thread of the pool does: a seed, or what else
    slots,      \* the seeds whose slot holds a result
    spoiled,    \* whether a thread panicked
    taken,      \* how many results of the batch were looked at
    kept, used, over,       \* the kept seeds, their work, how it ended
    works,      \* batch_works: what the batch's kept seeds took
    ran,        \* the seeds run (SeedRace::run)
    pool        \* pool_work

seeds == <<work, panics, limit, threads>>
vars == <<seeds, next, batch, index, thread, slots, spoiled, taken, kept, used, over, works,
          ran, pool>>

\* A thread between two seeds, and one that has ended.
Free == -1
Ended == -2
Running(t) == thread[t] >= 0

CeilDiv(a, b) == (a + b - 1) \div b
AtLeastOne(a) == IF a < 1 THEN 1 ELSE a
Less(a, b) == IF a < b THEN 0 ELSE a - b
Min2(a, b) == IF a < b THEN a ELSE b

\* Mutant: the last batch is as long as the others.
BatchPastTheEnd ==
    IF kept = <<>> THEN AtLeastOne(Minimum)
    ELSE IF limit = NoLimit THEN Seeds - next
    ELSE AtLeastOne(CeilDiv(Less(limit, used), AtLeastOne(used \div Len(kept))))

\* How many seeds the next batch has: the minimum first, then as many as the
\* budget left holds at the kept seeds' mean work.
Batch ==
    LET left == Seeds - next
        mean == AtLeastOne(used \div Len(kept))
    IN  Min2(left,
             IF kept = <<>> THEN AtLeastOne(Minimum)
             ELSE IF limit = NoLimit THEN left
             ELSE AtLeastOne(CeilDiv(Less(limit, used), mean)))

\* Mutant: each work on the thread that frees last.
MakespanOfLast(list, n) ==
    LET Latest(free) == CHOOSE t \in 1..n : \A u \in 1..n : free[t] >= free[u]
        Put(free, w) == [free EXCEPT ![Latest(free)] = @ + w]
        free == FoldLeft(Put, [t \in 1..n |-> 0], list)
    IN  CHOOSE m \in {free[t] : t \in 1..n} : \A t \in 1..n : free[t] <= m

\* pool_makespan: each work on the thread of `n` that frees first.
Makespan(list, n) ==
    LET Earliest(free) == CHOOSE t \in 1..n : \A u \in 1..n : free[t] <= free[u]
        Put(free, w) == [free EXCEPT ![Earliest(free)] = @ + w]
        free == FoldLeft(Put, [t \in 1..n |-> 0], list)
    IN  CHOOSE m \in {free[t] : t \in 1..n} : \A t \in 1..n : free[t] <= m

---------------------------------------------------------------------------
Init ==
    /\ work \in [Offsets -> Works]
    /\ \/ panics = {}
       \/ \E s \in Offsets : panics = {s}
    /\ limit \in Limits /\ threads \in Pools
    /\ next = 0 /\ batch = 0 /\ index = 0
    /\ thread = [t \in Threads |-> Ended]
    /\ slots = {} /\ spoiled = FALSE /\ taken = 0
    /\ kept = <<>> /\ used = 0 /\ over = "no" /\ works = <<>>
    /\ ran = 0 /\ pool = 0

\* Whether the budget is spent, with the minimum kept.
Spent == Len(kept) >= Minimum /\ limit # NoLimit /\ used >= limit

\* The next batch's pool: as many threads as the process has, at most one per
\* seed.
StartBatch ==
    /\ over = "no" /\ batch = 0 /\ next < Seeds
    /\ batch' = Batch /\ index' = next
    /\ thread' = [t \in Threads |-> IF t <= Min2(threads, AtLeastOne(Batch)) THEN Free ELSE Ended]
    /\ slots' = {} /\ taken' = 0 /\ works' = <<>>
    /\ UNCHANGED <<seeds, next, spoiled, kept, used, over, ran, pool>>

\* Mutant: the counter is read before it is written.
TakeAsRead(t) ==
    /\ batch > 0 /\ thread[t] = Free
    /\ thread' = [thread EXCEPT ![t] = IF index < next + batch THEN index ELSE Ended]
    /\ index' \in {index, index + 1}
    /\ UNCHANGED <<seeds, next, batch, slots, spoiled, taken, kept, used, over, works, ran, pool>>

\* A free thread takes the next index, or ends past the range.
Take(t) ==
    /\ batch > 0 /\ thread[t] = Free
    /\ thread' = [thread EXCEPT ![t] = IF index < next + batch THEN index ELSE Ended]
    /\ index' = index + 1
    /\ UNCHANGED <<seeds, next, batch, slots, spoiled, taken, kept, used, over, works, ran, pool>>

\* A seed's placement is done, after any time; one that panics ends its thread.
Finish(t) ==
    /\ Running(t)
    /\ IF thread[t] \in panics
       THEN spoiled' = TRUE /\ thread' = [thread EXCEPT ![t] = Ended] /\ UNCHANGED slots
       ELSE /\ slots' = slots \cup {thread[t]}
            /\ thread' = [thread EXCEPT ![t] = Free]
            /\ UNCHANGED spoiled
    /\ UNCHANGED <<seeds, next, batch, index, taken, kept, used, over, works, ran, pool>>

\* The scope has joined its threads.
Joined == batch > 0 /\ \A t \in Threads : thread[t] = Ended

\* A panic of a thread is the scope's.
Unwind ==
    /\ over = "no" /\ Joined /\ spoiled
    /\ over' = "panicked"
    /\ UNCHANGED <<seeds, next, batch, index, thread, slots, spoiled, taken, kept, used, works,
                   ran, pool>>

\* What the batch's results add to the kept ones, one by one.
KeepTaken ==
    /\ over = "no" /\ Joined /\ ~spoiled /\ taken < batch
    /\ kept' = Append(kept, next + taken)
    /\ used' = used + work[next + taken]
    /\ works' = Append(works, work[next + taken])
    /\ taken' = taken + 1
    /\ UNCHANGED <<seeds, next, batch, index, thread, slots, spoiled, over, ran, pool>>

\* Mutant: all that a batch ran is kept.
KeepAll == KeepTaken

\* The next result, in seed order, is kept while the budget is not spent.
Keep == ~Spent /\ KeepTaken

\* The batch's results are looked at, or the budget is spent: the race ends or
\* the next batch starts.
EndBatch ==
    /\ over = "no" /\ Joined /\ ~spoiled
    /\ taken = batch \/ Spent
    /\ ran' = ran + batch
    /\ pool' = pool + Makespan(works, Reference)
    /\ next' = next + batch /\ batch' = 0
    /\ over' = IF Spent \/ next' >= Seeds THEN "kept" ELSE "no"
    /\ UNCHANGED <<seeds, index, thread, slots, spoiled, taken, kept, used, works>>

Over == over # "no" /\ UNCHANGED vars

Next ==
    \/ StartBatch
    \/ \E t \in Threads : Take(t) \/ Finish(t)
    \/ Unwind \/ Keep \/ EndBatch
    \/ Over

\* The threads run, and the caller does.
Spec ==
    /\ Init /\ [][Next]_vars
    /\ WF_vars(StartBatch \/ Unwind \/ Keep \/ EndBatch)
    /\ \A t \in Threads : WF_vars(Take(t) \/ Finish(t))

---------------------------------------------------------------------------
(* Properties *)

\* Every variable has its type (the pool's clock is ClockOfThePool's); what is
\* kept is what the counts say.
TypeOK ==
    /\ threads \in Pools /\ over \in {"no", "kept", "panicked"}
    /\ next \in 0..Seeds /\ batch \in 0..(Seeds - next) /\ taken \in 0..Seeds
    /\ \A t \in Threads : thread[t] \in Offsets \cup {Free, Ended}
    /\ slots \subseteq Offsets /\ index \in 0..(Seeds + threads)
    /\ {used, ran} \subseteq Nat
    /\ Len(kept) <= ran + batch

\* The race keeps the seeds that running one after the other would keep, and
\* ends (race_seeds: "keeps them as running one after the other would"),
\* whatever the threads and whichever seed ends first.
Order == INSTANCE SeedsInOrder
KeptInOrder == Order!Spec

\* No seed runs twice and none of a batch is left out: the threads share the
\* atomic counter alone (run_pool).
EachSeedOnce ==
    /\ \A t, u \in Threads : Running(t) /\ thread[t] = thread[u] => t = u
    /\ \A t \in Threads :
           Running(t) => thread[t] \in next..(next + batch - 1) /\ thread[t] \notin slots
    /\ Joined /\ ~spoiled => slots = next..(next + batch - 1)

Total(list) == FoldLeft(LAMBDA sum, w : sum + w, 0, list)
Longest(list) == FoldLeft(LAMBDA most, w : IF w > most THEN w ELSE most, 0, list)

\* What a batch counts on the reference machine's clock (pool_makespan) is what
\* a pool may take that never has a thread idle while a seed waits: no less
\* than an even share or the longest seed, no more than the seeds before the
\* longest, shared evenly, and the longest.
BatchOnTheClock ==
    LET took == pool' - pool
    IN  /\ Reference * took >= Total(works) /\ took >= Longest(works)
        /\ Reference * took <= Total(works) + (Reference - 1) * Longest(works)
ClockOfThePool == [][ran' # ran => BatchOnTheClock]_vars
=============================================================================
