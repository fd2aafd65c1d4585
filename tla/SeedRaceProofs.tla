--------------------------- MODULE SeedRaceProofs ---------------------------
(***************************************************************************)
(* Theorems of the placement's seed race, for any seeds, works and budgets *)
(* and any number of threads: its threads run every seed of a batch exactly*)
(* once, and what it keeps is what SeedsInOrder keeps.                     *)
(***************************************************************************)
EXTENDS SeedRace, FiniteSetTheorems, TLAPS

\* The threads the pool may use that have ended.
EndedThreads == {t \in 1..threads : thread[t] = Ended}

\* The variables' sets.
Typed ==
    /\ work \in [Offsets -> Works] /\ panics \in SUBSET Offsets
    /\ limit \in Limits /\ threads \in Pools
    /\ next \in 0..Seeds /\ batch \in 0..(Seeds - next) /\ taken \in 0..Seeds
    /\ index \in Nat /\ thread \in [Threads -> Offsets \cup {Free, Ended}]
    /\ slots \in SUBSET Offsets /\ spoiled \in BOOLEAN
    /\ kept \in Seq(Nat) /\ used \in Nat /\ ran \in Nat
    /\ over \in {"no", "kept", "panicked"}

\* A pool: each index below the counter is one thread's or in its slot, and a
\* thread that ends without a panic leaves no index of the batch untaken.
PoolTakesOnce ==
    /\ batch = 0 => \A t \in Threads : thread[t] = Ended
    /\ index <= next + batch + Cardinality(EndedThreads)
    /\ \A t \in Threads : thread[t] # Ended => t <= threads
    /\ \A t \in Threads : Running(t) =>
           /\ thread[t] \in next..(next + batch - 1)
           /\ thread[t] < index /\ thread[t] \notin slots
    /\ \A t, u \in Threads : Running(t) /\ thread[t] = thread[u] => t = u
    /\ batch > 0 =>
           /\ next <= index
           /\ \A s \in slots : s \in next..(next + batch - 1) /\ s < index /\ s \notin panics
           /\ \A s \in next..(next + batch - 1) : s < index =>
                  s \in slots \/ spoiled \/ \E t \in Threads : thread[t] = s
           /\ spoiled \/ thread[1] # Ended \/ index >= next + batch
    /\ spoiled => panics # {}

\* What is kept are the first seeds, all that were looked at while the race goes on.
KeptAreFirst ==
    /\ kept = [i \in 1..Len(kept) |-> i - 1]
    /\ Len(kept) <= next + batch /\ ran = next
    /\ batch > 0 => taken <= batch
    /\ over = "no" => Len(kept) = next + (IF batch > 0 THEN taken ELSE 0)
    /\ over = "no" /\ batch = 0 => next < Seeds

Inv == Typed /\ PoolTakesOnce /\ KeptAreFirst

---------------------------------------------------------------------------
\* The threads are numbered from 1, and there are as many as the process may have.
LEMMA ThreadsOfThePool ==
    ASSUME Typed
    PROVE  /\ threads \in Nat \ {0} /\ 1 \in Threads
           /\ 1..threads \subseteq Threads /\ Threads \subseteq Nat \ {0}
<1> DEFINE most == CHOOSE n \in Pools : \A m \in Pools : m <= n
<1>1. most \in Pools /\ \A m \in Pools : m <= most
  BY RaceConstants
<1>2. Threads = 1..most
  BY DEF Threads
<1> HIDE DEF most
<1>3. threads \in Pools
  BY DEF Typed
<1>4. QED
  BY <1>1, <1>2, <1>3, RaceConstants

LEMMA FewerThreads ==
    ASSUME NEW n \in Nat, NEW S \in SUBSET (1..n)
    PROVE  IsFiniteSet(S) /\ Cardinality(S) \in 0..n
<1>1. IsFiniteSet(1..n) /\ Cardinality(1..n) = n
  BY FS_Interval
<1>2. IsFiniteSet(S) /\ Cardinality(S) <= n
  BY <1>1, FS_Subset
<1>3. Cardinality(S) \in Nat
  BY <1>2, FS_CardinalityType
<1>4. QED
  BY <1>2, <1>3

\* While seeds are left a batch takes at least one of them and no more than there
\* are.
LEMMA BatchFits ==
    ASSUME Typed, next < Seeds
    PROVE  Batch \in 1..(Seeds - next)
<1> DEFINE left == Seeds - next
           mean == AtLeastOne(used \div Len(kept))
           most == AtLeastOne(CeilDiv(Less(limit, used), mean))
<1>1. left \in Nat /\ left >= 1 /\ Minimum \in Nat /\ used \in Nat /\ Len(kept) \in Nat
  BY SeedConstants DEF Typed
<1>2. AtLeastOne(Minimum) \in Nat /\ AtLeastOne(Minimum) >= 1
  BY <1>1 DEF AtLeastOne
<1>3. ASSUME kept # <<>>, limit # NoLimit
      PROVE  most \in Nat /\ most >= 1
  <2>1. limit \in Nat /\ Less(limit, used) \in Nat
    BY <1>1, <1>3, SeedConstants DEF Typed, Less
  <2>2. Len(kept) >= 1
    BY <1>3 DEF Typed
  <2>3. mean \in Nat /\ mean >= 1
    BY <1>1, <2>2 DEF AtLeastOne
  <2> HIDE DEF mean
  <2>4. CeilDiv(Less(limit, used), mean) \in Int
    BY <2>1, <2>3 DEF CeilDiv
  <2>5. QED
    BY <2>4 DEF AtLeastOne
<1> HIDE DEF most
<1>4. Batch = Min2(left, IF kept = <<>> THEN AtLeastOne(Minimum)
                         ELSE IF limit = NoLimit THEN left ELSE most)
  BY DEF Batch, most
<1>5. QED
  BY <1>1, <1>2, <1>3, <1>4 DEF Min2

---------------------------------------------------------------------------
LEMMA InitHolds == Init => Inv
<1> SUFFICES ASSUME Init PROVE Inv
  OBVIOUS
<1>1. Typed
  <2>1. panics \in SUBSET Offsets /\ 0 \in 0..Seeds /\ 0 \in 0..(Seeds - 0)
    BY SeedConstants DEF Init, Offsets
  <2>2. kept \in Seq(Nat) /\ thread \in [Threads -> Offsets \cup {Free, Ended}]
    BY DEF Init
  <2>3. QED
    BY <2>1, <2>2 DEF Init, Typed
<1>2. PoolTakesOnce
  <2>1. Cardinality(EndedThreads) \in Nat
    BY <1>1, ThreadsOfThePool, FewerThreads DEF EndedThreads
  <2>2. QED
    BY <1>1, <2>1, SeedConstants DEF Init, Typed, PoolTakesOnce, Running, Free, Ended
<1>3. KeptAreFirst
  BY SeedConstants DEF Init, KeptAreFirst
<1>4. QED
  BY <1>1, <1>2, <1>3 DEF Inv

\* A step of the race that leaves the pool, or the kept seeds, as they are.
LEMMA StartKeeps ==
    ASSUME Inv, StartBatch
    PROVE  Inv'
<1>1. /\ Typed /\ PoolTakesOnce /\ KeptAreFirst
      /\ over = "no" /\ batch = 0 /\ next < Seeds
      /\ batch' = Batch /\ index' = next /\ slots' = {} /\ taken' = 0
      /\ thread' = [t \in Threads |->
             IF t <= Min2(threads, AtLeastOne(Batch)) THEN Free ELSE Ended]
      /\ UNCHANGED <<work, panics, limit, threads, next, spoiled, kept, used, over, ran>>
  BY DEF Inv, StartBatch, seeds
<1>2. batch' \in 1..(Seeds - next)
  BY <1>1, BatchFits
<1>3. Min2(threads, AtLeastOne(Batch)) \in 1..threads
  BY <1>1, <1>2, ThreadsOfThePool, SeedConstants DEF Min2, AtLeastOne, Typed
<1>4. Typed'
  BY <1>1, <1>2, SeedConstants DEF Typed
<1>5. Cardinality(EndedThreads') \in Nat
  <2>1. EndedThreads' \in SUBSET (1..threads)
    BY <1>1 DEF EndedThreads
  <2>2. QED
    BY <1>1, <2>1, ThreadsOfThePool, FewerThreads
<1>6. PoolTakesOnce'
  BY <1>1, <1>2, <1>3, <1>4, <1>5, ThreadsOfThePool, SeedConstants
     DEF Typed, PoolTakesOnce, Running, Free, Ended
<1>7. KeptAreFirst'
  BY <1>1, <1>2, SeedConstants DEF KeptAreFirst, Typed
<1>8. QED
  BY <1>4, <1>6, <1>7 DEF Inv

\* A thread takes the counter's index, which is no other's, or finds the batch given
\* out and ends.
LEMMA TakeKeeps ==
    ASSUME Inv, NEW t \in Threads, Take(t)
    PROVE  Inv'
<1> DEFINE to == IF index < next + batch THEN index ELSE Ended
<1>1. /\ Typed /\ PoolTakesOnce /\ KeptAreFirst
      /\ batch > 0 /\ thread[t] = Free /\ index' = index + 1
      /\ thread' = [thread EXCEPT ![t] = to]
      /\ UNCHANGED <<work, panics, limit, threads, next, batch, slots, spoiled, taken, kept,
                     used, over, ran>>
  BY DEF Inv, Take, seeds
<1>2. /\ index \in Nat /\ next <= index /\ next \in Nat /\ batch \in Nat
      /\ next + batch <= Seeds /\ Seeds \in Nat /\ threads \in Nat
  BY <1>1, SeedConstants, ThreadsOfThePool DEF Typed, PoolTakesOnce
<1>3. to \in Offsets \cup {Free, Ended}
  BY <1>2 DEF Offsets
<1>4. /\ thread'[t] = to
      /\ \A u \in Threads \ {t} : thread'[u] = thread[u]
      /\ thread' \in [Threads -> Offsets \cup {Free, Ended}]
  BY <1>1, <1>3 DEF Typed
<1>5. Typed'
  BY <1>1, <1>2, <1>4 DEF Typed
<1>6. t \in 1..threads
  BY <1>1, ThreadsOfThePool DEF PoolTakesOnce, Free, Ended
<1>7. index' <= next' + batch' + Cardinality(EndedThreads')
  <2>1. IsFiniteSet(EndedThreads) /\ Cardinality(EndedThreads) \in Nat
    BY <1>1, <1>2, FewerThreads DEF EndedThreads
  <2>2. CASE index < next + batch
    <3>1. EndedThreads' \in SUBSET (1..threads)
      BY <1>1 DEF EndedThreads
    <3>2. QED
      BY <1>1, <1>2, <2>2, <3>1, FewerThreads
  <2>3. CASE ~(index < next + batch)
    <3>1. t \notin EndedThreads /\ EndedThreads' = EndedThreads \cup {t}
      BY <1>1, <1>4, <1>6, <2>3, ThreadsOfThePool DEF EndedThreads, Free, Ended
    <3>2. Cardinality(EndedThreads') = Cardinality(EndedThreads) + 1
      BY <2>1, <3>1, FS_AddElement
    <3>3. QED
      BY <1>1, <1>2, <2>1, <3>2 DEF PoolTakesOnce
  <2>4. QED
    BY <2>2, <2>3
<1>8. \A u \in Threads : Running(u)' =>
          /\ thread'[u] \in next..(next + batch - 1)
          /\ thread'[u] < index' /\ thread'[u] \notin slots
  BY <1>1, <1>2, <1>4 DEF PoolTakesOnce, Running, Free, Ended, Typed, Offsets
<1>9. \A u, v \in Threads : Running(u)' /\ thread'[u] = thread'[v] => u = v
  BY <1>1, <1>2, <1>4 DEF PoolTakesOnce, Running, Free, Ended, Typed
<1>10. \A s \in next..(next + batch - 1) : s < index' =>
          s \in slots \/ spoiled \/ \E u \in Threads : thread'[u] = s
  <2> SUFFICES ASSUME NEW s \in next..(next + batch - 1), s < index + 1,
                      s \notin slots, ~spoiled
               PROVE  \E u \in Threads : thread'[u] = s
    BY <1>1
  <2>1. CASE s = index
    BY <1>1, <1>2, <1>4, <2>1
  <2>2. CASE s < index
    <3>1. PICK u \in Threads : thread[u] = s
      BY <1>1, <2>2 DEF PoolTakesOnce
    <3>2. u # t
      BY <1>1, <1>2, <3>1 DEF Free
    <3>3. QED
      BY <1>4, <3>1, <3>2
  <2>3. QED
    BY <1>2, <2>1, <2>2
<1>11. spoiled \/ thread'[1] # Ended \/ index' >= next + batch
  BY <1>1, <1>2, <1>4, ThreadsOfThePool DEF PoolTakesOnce, Free, Ended
<1>12. \A u \in Threads : thread'[u] # Ended => u <= threads
  BY <1>1, <1>4 DEF PoolTakesOnce, Free, Ended
<1> HIDE DEF to
<1>13. PoolTakesOnce'
  BY <1>1, <1>2, <1>7, <1>8, <1>9, <1>10, <1>11, <1>12 DEF PoolTakesOnce, Typed
<1>14. KeptAreFirst'
  BY <1>1 DEF KeptAreFirst
<1>15. QED
  BY <1>5, <1>13, <1>14 DEF Inv

\* A seed ends in its slot, or its thread with a panic.
LEMMA FinishKeeps ==
    ASSUME Inv, NEW t \in Threads, Finish(t)
    PROVE  Inv'
<1> DEFINE s == thread[t]
           to == IF s \in panics THEN Ended ELSE Free
<1>1. /\ Typed /\ PoolTakesOnce /\ KeptAreFirst /\ Running(t)
      /\ thread' = [thread EXCEPT ![t] = to]
      /\ slots' = IF s \in panics THEN slots ELSE slots \cup {s}
      /\ spoiled' = (spoiled \/ s \in panics)
      /\ UNCHANGED <<work, panics, limit, threads, next, batch, index, taken, kept, used, over,
                     ran>>
  BY DEF Inv, Finish, seeds, Typed
<1>2. /\ s \in Offsets /\ s \in next..(next + batch - 1) /\ s < index /\ s \notin slots
      /\ index \in Nat /\ next \in Nat /\ batch \in Nat /\ threads \in Nat
      /\ s \in Nat /\ batch > 0 /\ t \in 1..threads
  BY <1>1, SeedConstants, ThreadsOfThePool
     DEF PoolTakesOnce, Typed, Running, Free, Ended, Offsets
<1>3. /\ thread'[t] = to /\ ~Running(t)'
      /\ \A u \in Threads \ {t} : thread'[u] = thread[u]
      /\ thread' \in [Threads -> Offsets \cup {Free, Ended}]
  BY <1>1 DEF Typed, Running, Free, Ended
<1>4. Typed'
  BY <1>1, <1>2, <1>3 DEF Typed
<1>5. index' <= next' + batch' + Cardinality(EndedThreads')
  <2>1. IsFiniteSet(EndedThreads) /\ Cardinality(EndedThreads) \in Nat
    BY <1>1, <1>2, FewerThreads DEF EndedThreads
  <2>2. t \notin EndedThreads
    BY <1>1 DEF EndedThreads, Running, Ended
  <2>3. EndedThreads' = IF s \in panics THEN EndedThreads \cup {t} ELSE EndedThreads
    BY <1>1, <1>2, <1>3, <2>2, ThreadsOfThePool DEF EndedThreads, Free, Ended
  <2>4. Cardinality(EndedThreads \cup {t}) = Cardinality(EndedThreads) + 1
    BY <2>1, <2>2, FS_AddElement
  <2>5. QED
    BY <1>1, <1>2, <2>1, <2>3, <2>4 DEF PoolTakesOnce
<1>6. \A u \in Threads : Running(u)' =>
          /\ thread'[u] \in next..(next + batch - 1)
          /\ thread'[u] < index /\ thread'[u] \notin slots'
  <2> SUFFICES ASSUME NEW u \in Threads, Running(u)'
               PROVE  /\ thread'[u] \in next..(next + batch - 1)
                      /\ thread'[u] < index /\ thread'[u] \notin slots'
    OBVIOUS
  <2>1. u # t /\ thread'[u] = thread[u] /\ Running(u)
    BY <1>3 DEF Running
  <2>2. thread[u] # s
    BY <1>1, <2>1 DEF PoolTakesOnce
  <2>3. QED
    BY <1>1, <2>1, <2>2 DEF PoolTakesOnce
<1>7. \A u, v \in Threads : Running(u)' /\ thread'[u] = thread'[v] => u = v
  BY <1>1, <1>3 DEF PoolTakesOnce, Running
<1>8. \A r \in slots' : r \in next..(next + batch - 1) /\ r < index /\ r \notin panics
  BY <1>1, <1>2 DEF PoolTakesOnce
<1>9. \A r \in next..(next + batch - 1) : r < index =>
          r \in slots' \/ spoiled' \/ \E u \in Threads : thread'[u] = r
  <2> SUFFICES ASSUME NEW r \in next..(next + batch - 1), r < index,
                      r \notin slots', ~spoiled'
               PROVE  \E u \in Threads : thread'[u] = r
    OBVIOUS
  <2>1. PICK u \in Threads : thread[u] = r
    BY <1>1, <1>2 DEF PoolTakesOnce
  <2>2. r # s
    BY <1>1
  <2>3. QED
    BY <1>3, <2>1, <2>2
<1>10. spoiled' \/ thread'[1] # Ended \/ index >= next + batch
  <2>1. CASE t = 1
    <3>1. s \in panics => spoiled'
      BY <1>1
    <3>2. s \notin panics => thread'[1] # Ended
      BY <1>3, <2>1 DEF Free, Ended
    <3>3. QED
      BY <3>1, <3>2
  <2>2. CASE t # 1
    <3>1. 1 \in Threads /\ thread'[1] = thread[1]
      BY <1>1, <1>3, <2>2, ThreadsOfThePool
    <3>2. QED
      BY <1>1, <1>2, <3>1 DEF PoolTakesOnce
  <2>3. QED
    BY <2>1, <2>2
<1>11. \A u \in Threads : thread'[u] # Ended => u <= threads
  BY <1>1, <1>2, <1>3 DEF PoolTakesOnce
<1>12. spoiled' => panics # {}
  BY <1>1 DEF PoolTakesOnce
<1> HIDE DEF s, to
<1>13. PoolTakesOnce'
  BY <1>1, <1>2, <1>5, <1>6, <1>7, <1>8, <1>9, <1>10, <1>11, <1>12 DEF PoolTakesOnce
<1>14. KeptAreFirst'
  BY <1>1 DEF KeptAreFirst
<1>15. QED
  BY <1>4, <1>13, <1>14 DEF Inv

\* With the pool joined and no panic every seed of the batch is in its slot, and none
\* of them panics.
LEMMA JoinedHasAll ==
    ASSUME Inv, Joined, ~spoiled
    PROVE  slots = next..(next + batch - 1) /\ slots \cap panics = {}
<1>1. /\ Typed /\ PoolTakesOnce /\ batch > 0 /\ \A t \in Threads : thread[t] = Ended
  BY DEF Inv, Joined
<1>2. index >= next + batch
  BY <1>1, ThreadsOfThePool DEF PoolTakesOnce
<1>3. next \in Nat /\ batch \in Nat /\ index \in Nat
  BY <1>1, SeedConstants DEF Typed
<1>4. \A s \in next..(next + batch - 1) : s \in slots
  BY <1>1, <1>2, <1>3 DEF PoolTakesOnce, Ended
<1>5. QED
  BY <1>1, <1>4 DEF PoolTakesOnce

\* The steps of the race after a batch has run leave its threads and slots alone.
LEMMA PoolStays ==
    ASSUME PoolTakesOnce,
           UNCHANGED <<panics, threads, next, batch, index, thread, slots, spoiled>>
    PROVE  PoolTakesOnce'
  BY DEF PoolTakesOnce, EndedThreads, Running

LEMMA KeepKeeps ==
    ASSUME Inv, Keep
    PROVE  Inv'
<1>1. /\ Typed /\ PoolTakesOnce /\ KeptAreFirst
      /\ over = "no" /\ Joined /\ ~spoiled /\ taken < batch
      /\ kept' = Append(kept, next + taken) /\ used' = used + work[next + taken]
      /\ taken' = taken + 1
      /\ UNCHANGED <<work, panics, limit, threads, next, batch, index, thread, slots, spoiled,
                     over, ran>>
  BY DEF Inv, Keep, KeepTaken, seeds
<1>2. /\ next \in Nat /\ batch \in Nat /\ taken \in Nat /\ next + batch <= Seeds
      /\ Seeds \in Nat /\ next + taken \in Offsets /\ batch > 0 /\ kept \in Seq(Nat)
  BY <1>1, SeedConstants DEF Typed, Offsets
<1>3. Len(kept) = next + taken /\ kept = [i \in 1..Len(kept) |-> i - 1]
  BY <1>1, <1>2 DEF KeptAreFirst
<1>4. /\ kept' \in Seq(Nat) /\ Len(kept') = next + taken + 1
      /\ kept' = [i \in 1..Len(kept') |-> i - 1]
  BY <1>1, <1>2, <1>3
<1>5. used' \in Nat
  <2>1. work[next + taken] \in Nat
    BY <1>1, <1>2, SeedConstants DEF Typed
  <2>2. QED
    BY <1>1, <2>1 DEF Typed
<1>6. Typed'
  BY <1>1, <1>2, <1>4, <1>5 DEF Typed
<1>7. PoolTakesOnce'
  BY <1>1, PoolStays
<1>8. KeptAreFirst'
  BY <1>1, <1>2, <1>4 DEF KeptAreFirst
<1>9. QED
  BY <1>6, <1>7, <1>8 DEF Inv

LEMMA EndKeeps ==
    ASSUME Inv, EndBatch
    PROVE  Inv'
<1>1. /\ Typed /\ PoolTakesOnce /\ KeptAreFirst
      /\ over = "no" /\ Joined /\ ~spoiled /\ (taken = batch \/ Spent)
      /\ ran' = ran + batch /\ next' = next + batch /\ batch' = 0
      /\ over' = IF Spent \/ next' >= Seeds THEN "kept" ELSE "no"
      /\ UNCHANGED <<work, panics, limit, threads, index, thread, slots, spoiled, taken, kept,
                     used>>
  BY DEF Inv, EndBatch, seeds
<1>2. /\ next \in Nat /\ batch \in Nat /\ taken \in Nat /\ next + batch <= Seeds
      /\ Seeds \in Nat /\ ran \in Nat /\ index \in Nat /\ batch > 0
      /\ \A t \in Threads : thread[t] = Ended
  BY <1>1, SeedConstants DEF Typed, Joined
<1>3. Typed'
  BY <1>1, <1>2 DEF Typed
<1>4. PoolTakesOnce'
  BY <1>1, <1>2 DEF PoolTakesOnce, EndedThreads, Running, Ended
<1>5. KeptAreFirst'
  BY <1>1, <1>2 DEF KeptAreFirst, Typed
<1>6. QED
  BY <1>3, <1>4, <1>5 DEF Inv

LEMMA NextKeeps == Inv /\ [Next]_vars => Inv'
<1> SUFFICES ASSUME Inv, [Next]_vars PROVE Inv'
  OBVIOUS
<1>1. CASE UNCHANGED vars
  <2>1. /\ Typed /\ PoolTakesOnce /\ KeptAreFirst
    BY DEF Inv
  <2>2. QED
    BY <1>1, <2>1, PoolStays DEF vars, seeds, Inv, Typed, KeptAreFirst
<1>2. CASE Unwind
  <2>1. /\ Typed /\ PoolTakesOnce /\ KeptAreFirst
    BY DEF Inv
  <2>2. QED
    BY <1>2, <2>1, PoolStays DEF Unwind, seeds, Inv, Typed, KeptAreFirst
<1>3. CASE Over
  BY <1>1, <1>3 DEF Over
<1>4. QED
  BY <1>1, <1>2, <1>3, StartKeeps, TakeKeeps, FinishKeeps, KeepKeeps, EndKeeps DEF Next

---------------------------------------------------------------------------
\* The inductive invariant of the race.
THEOREM InvHolds == Spec => []Inv
<1>1. QED
  BY InitHolds, NextKeeps, PTL DEF Spec

\* Every variable has its type: batches stay within the seeds, the counter passes the
\* end of a batch by no more than the threads, and no more is kept than ran.
THEOREM TypeHolds == Spec => []TypeOK
<1>1. ASSUME Inv PROVE TypeOK
  <2>1. Typed /\ PoolTakesOnce /\ KeptAreFirst
    BY <1>1 DEF Inv
  <2>2. Cardinality(EndedThreads) \in 0..threads
    BY <2>1, ThreadsOfThePool, FewerThreads DEF EndedThreads
  <2>3. index \in 0..(Seeds + threads)
    BY <2>1, <2>2, ThreadsOfThePool, SeedConstants DEF Typed, PoolTakesOnce
  <2>4. QED
    BY <2>1, <2>3, SeedConstants DEF Typed, KeptAreFirst, TypeOK
<1>2. QED
  BY <1>1, InvHolds, PTL

\* No seed runs twice and none of a batch is left out, however the threads interleave
\* (run_pool's counter).
THEOREM OnceHolds == Spec => []EachSeedOnce
<1>1. ASSUME Inv PROVE EachSeedOnce
  BY <1>1, JoinedHasAll DEF Inv, PoolTakesOnce, EachSeedOnce
<1>2. QED
  BY <1>1, InvHolds, PTL

---------------------------------------------------------------------------
(* The race implements SeedsInOrder, its fairness aside *)

LEMMA InitInOrder == Init => Order!Init
  BY DEF Init, Order!Init, Offsets, Order!Offsets

\* A result kept is the next seed's, and there is room for it.
LEMMA KeepInOrder ==
    ASSUME Inv, Keep
    PROVE  Order!KeepNext
<1>1. /\ Typed /\ KeptAreFirst /\ ~Spent
      /\ over = "no" /\ Joined /\ ~spoiled /\ taken < batch
      /\ kept' = Append(kept, next + taken) /\ used' = used + work[next + taken]
      /\ UNCHANGED <<work, panics, limit, over>>
  BY DEF Inv, Keep, KeepTaken, seeds
<1>2. /\ next \in Nat /\ batch \in Nat /\ taken \in Nat /\ next + batch <= Seeds
      /\ Seeds \in Nat /\ batch > 0 /\ used \in Nat /\ limit \in Nat \cup {NoLimit}
      /\ Minimum \in Nat /\ Len(kept) = next + taken
  BY <1>1, SeedConstants DEF Typed, KeptAreFirst, Joined
<1>3. next + taken \notin panics
  BY <1>1, <1>2, JoinedHasAll
<1>4. Order!Open
  BY <1>1, <1>2, SeedConstants DEF Spent, Order!Open
<1>5. QED
  BY <1>1, <1>2, <1>3, <1>4 DEF Order!KeepNext

\* The race returns when all seeds are kept or the budget is spent.
LEMMA EndInOrder ==
    ASSUME Inv, EndBatch
    PROVE  Order!Return \/ UNCHANGED Order!vars
<1>1. /\ Typed /\ KeptAreFirst
      /\ over = "no" /\ Joined /\ ~spoiled /\ (taken = batch \/ Spent)
      /\ next' = next + batch
      /\ over' = IF Spent \/ next' >= Seeds THEN "kept" ELSE "no"
      /\ UNCHANGED <<work, panics, limit, kept, used>>
  BY DEF Inv, EndBatch, seeds
<1>2. /\ next \in Nat /\ batch \in Nat /\ taken \in Nat /\ next + batch <= Seeds
      /\ Seeds \in Nat /\ batch > 0 /\ used \in Nat
      /\ limit \in Nat \cup {NoLimit} /\ Minimum \in Nat
      /\ Len(kept) = next + taken
  BY <1>1, SeedConstants DEF Typed, KeptAreFirst, Joined
<1>3. CASE Spent
  <2>1. ~Order!Open
    BY <1>2, <1>3, SeedConstants DEF Spent, Order!Open, Typed
  <2>2. QED
    BY <1>1, <1>3, <2>1 DEF Order!Return
<1>4. CASE ~Spent /\ next' >= Seeds
  <2>1. Len(kept) = Seeds
    BY <1>1, <1>2, <1>4
  <2>2. QED
    BY <1>1, <1>4, <2>1 DEF Order!Return
<1>5. CASE ~Spent /\ ~(next' >= Seeds)
  BY <1>1, <1>5 DEF Order!vars
<1>6. QED
  BY <1>3, <1>4, <1>5

LEMMA StepInOrder == Inv /\ [Next]_vars => [Order!Next]_Order!vars
<1> SUFFICES ASSUME Inv, [Next]_vars PROVE [Order!Next]_Order!vars
  OBVIOUS
<1>1. CASE UNCHANGED vars
  BY <1>1 DEF vars, seeds, Order!vars
<1>2. CASE StartBatch
  BY <1>2 DEF StartBatch, seeds, Order!vars
<1>3. CASE \E t \in Threads : Take(t) \/ Finish(t)
  BY <1>3 DEF Take, Finish, seeds, Order!vars
<1>4. CASE Unwind
  BY <1>4 DEF Unwind, seeds, Inv, PoolTakesOnce, Order!Next, Order!Panic
<1>5. CASE Over
  BY <1>5 DEF Over, vars, seeds, Order!vars
<1>6. CASE Keep
  BY <1>6, KeepInOrder DEF Order!Next
<1>7. CASE EndBatch
  BY <1>7, EndInOrder DEF Order!Next
<1>8. QED
  BY <1>1, <1>2, <1>3, <1>4, <1>5, <1>6, <1>7 DEF Next

\* Whatever the threads and whichever seed ends first, the race keeps the seeds that
\* running one after the other would keep (race_seeds).
THEOREM RaceKeepsInOrder == Spec => Order!Init /\ [][Order!Next]_Order!vars
<1>1. QED
  BY InitInOrder, InvHolds, StepInOrder, PTL DEF Spec
=============================================================================
