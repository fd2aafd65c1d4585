--------------------------- MODULE DrcCacheProofs ---------------------------
(***************************************************************************)
(* Theorems of the cache of KiCad's reports, for any number of processes,  *)
(* any (finite) set of inputs and any bound on the entries: what is        *)
(* published is whole and of the inputs, the cache never fails a DRC, and  *)
(* the last to evict leaves the cache within its bound.                    *)
(***************************************************************************)
EXTENDS DrcCache, FiniteSetTheorems, TLAPS

---------------------------------------------------------------------------
(* The inductive invariant *)

Ats ==
    {"idle", "look", "touch", "judge", "hit", "kicad", "made", "store", "rename", "list",
     "remove", "fresh"}
Ends == {"none", "published", "failed", "killed"}
Files == [of : Versions \cup {0}, whole : BOOLEAN, mixed : BOOLEAN]
Entries == [file : Files, used : Int]
Listing == Int \X Versions
Runs ==
    [at : Ats, n : Nat, key : Versions \cup {0}, edited : BOOLEAN, bytes : Files,
     unlisted : SUBSET Versions, listed : SUBSET Listing, doomed : SUBSET Listing, end : Ends]

Typed ==
    /\ entry \in [Versions -> Entries]
    /\ temps \in [1..MaxRuns -> {"none", "new", "old"}]
    /\ input \in [Procs -> Versions]
    /\ output \in [Procs -> Files]
    /\ run \in [Procs -> Runs]
    /\ clock \in Nat /\ runs \in Nat /\ owed \in BOOLEAN

\* A report that may be published is whole, and of some inputs.
Whole(f) == f.whole /\ f.of \in Versions

\* What is found at a key: a report of the inputs hashed, or one made while
\* someone wrote them.
OfTheKey(f, k) == f.of \in Versions /\ (f.mixed \/ f.of = k)

\* What is to be published for the inputs i.
OfTheInput(f, i, edited) == (~edited /\ ~f.mixed) => f.of = i

EntryOK(e, k) == e # NoEntry => e.used >= 0 /\ OfTheKey(e.file, k)

\* A run, with its inputs and what is published for it.
RunOK(r, i, o) ==
    /\ r.at \in {"look", "touch", "judge", "store", "rename", "list", "remove"}
       => r.key \in Versions
    /\ (r.key # 0 /\ r.at # "idle" /\ ~r.edited) => r.key = i
    /\ r.at \in {"touch", "judge", "store", "rename"} => OfTheKey(r.bytes, r.key)
    /\ r.at \in {"hit", "made", "store", "rename", "list", "remove", "fresh"}
       => Whole(r.bytes) /\ OfTheInput(r.bytes, i, r.edited)
    /\ r.at = "made" => ~r.bytes.mixed
    /\ r.at # "idle" => o = NoFile
    /\ o # NoFile => Whole(o) /\ OfTheInput(o, i, r.edited)
    /\ IsFiniteSet(r.listed)

Data ==
    /\ \A k \in Versions : EntryOK(entry[k], k)
    /\ \A p \in Procs : RunOK(run[p], input[p], output[p])

\* The keys with an entry, and those an evicting run leaves.
PresentKeys == {k \in Versions : Present(k)}
Spared(p) == {k \in PresentKeys : \A x \in run[p].doomed : x[2] # k}

\* A run that evicts has seen every entry, or will, and what it does not remove
\* is within the bound.
Covers(p) ==
    \/ /\ run[p].at = "list"
       /\ \A k \in PresentKeys : k \in run[p].unlisted \/ \E x \in run[p].listed : x[2] = k
    \/ run[p].at = "remove" /\ Cardinality(Spared(p)) <= MaxEntries

\* Past its bound, the cache has a run that brings it back.
Bounded == owed \/ Cardinality(PresentKeys) <= MaxEntries \/ \E p \in Procs : Covers(p)

Inv == Typed /\ Data /\ Bounded

---------------------------------------------------------------------------
(* What eviction leaves *)

LEMMA GoalIsLess == Goal \in Nat /\ Goal <= MaxEntries
  BY CacheConstants DEF Goal

\* Of two listed entries one comes first; what is newer than the newer is newer.
LEMMA OlderHasMoreNewer ==
    ASSUME NEW L \in SUBSET Listing, IsFiniteSet(L), NEW x \in L, NEW y \in L, Before(x, y)
    PROVE  /\ Cardinality(Newer(x, L)) \in Nat /\ Cardinality(Newer(y, L)) \in Nat
           /\ Cardinality(Newer(y, L)) < Cardinality(Newer(x, L))
<1>1. Newer(y, L) \subseteq Newer(x, L)
  <2>1. SUFFICES ASSUME NEW z \in L, Before(y, z) PROVE Before(x, z)
    BY DEF Newer
  <2>2. /\ x[1] \in Int /\ x[2] \in Nat /\ y[1] \in Int /\ y[2] \in Nat
        /\ z[1] \in Int /\ z[2] \in Nat
    BY CacheConstants DEF Listing
  <2>3. QED
    BY <2>1, <2>2 DEF Before
<1>2. y \in Newer(x, L) /\ y \notin Newer(y, L)
  <2>1. y[1] \in Int /\ y[2] \in Nat
    BY CacheConstants DEF Listing
  <2>2. QED
    BY <2>1 DEF Newer, Before
<1>3. Newer(x, L) \in SUBSET L
  BY DEF Newer
<1>4. IsFiniteSet(Newer(x, L)) /\ IsFiniteSet(Newer(y, L))
  BY <1>1, <1>3, FS_Subset
<1>5. QED
  BY <1>1, <1>2, <1>4, FS_Subset, FS_CardinalityType

\* Those that are kept are told apart by how many are newer: no more than Goal.
LEMMA KeptAreFew ==
    ASSUME NEW L \in SUBSET Listing, IsFiniteSet(L)
    PROVE  IsFiniteSet(L \ Doomed(L)) /\ Cardinality(L \ Doomed(L)) <= MaxEntries
<1> DEFINE kept == L \ Doomed(L)
<1>1. IsFiniteSet(kept)
  BY FS_Subset
<1>2. CASE Cardinality(L) <= MaxEntries
  BY <1>2 DEF Doomed
<1>3. CASE ~(Cardinality(L) <= MaxEntries)
  <2> DEFINE f == [x \in kept |-> Cardinality(Newer(x, L))]
  <2>1. \A x \in kept : Cardinality(Newer(x, L)) \in Nat /\ Cardinality(Newer(x, L)) < Goal
    <3> TAKE x \in kept
    <3>1. Newer(x, L) \in SUBSET L
      BY DEF Newer
    <3>2. Cardinality(Newer(x, L)) \in Nat
      BY <3>1, FS_Subset, FS_CardinalityType
    <3>3. ~(Cardinality(Newer(x, L)) >= Goal)
      BY <1>3 DEF Doomed, Oldest
    <3>4. QED
      BY <3>2, <3>3, GoalIsLess
  <2>2. f \in [kept -> 0..(Goal - 1)]
    BY <2>1, GoalIsLess
  <2>3. ASSUME NEW x \in kept, NEW y \in kept, f[x] = f[y] PROVE x = y
    <3>1. x \in L /\ y \in L /\ Cardinality(Newer(x, L)) = Cardinality(Newer(y, L))
      BY <2>3
    <3>2. ~Before(x, y) /\ ~Before(y, x)
      BY <3>1, OlderHasMoreNewer
    <3>3. x \in Int \X Versions /\ y \in Int \X Versions
      BY <3>1 DEF Listing
    <3>4. x = <<x[1], x[2]>> /\ y = <<y[1], y[2]>>
      BY <3>3
    <3>5. x[1] \in Int /\ x[2] \in Nat /\ y[1] \in Int /\ y[2] \in Nat
      BY <3>3, CacheConstants
    <3>6. x[1] = y[1] /\ x[2] = y[2]
      BY <3>2, <3>5 DEF Before
    <3>7. QED
      BY <3>4, <3>6
  <2>4. f \in Injection(kept, 0..(Goal - 1))
    BY <2>2, <2>3 DEF Injection, IsInjective
  <2>5. IsFiniteSet(0..(Goal - 1)) /\ Cardinality(0..(Goal - 1)) = Goal
    BY GoalIsLess, FS_Interval
  <2>6. Cardinality(kept) <= Goal
    BY <2>4, <2>5, FS_Injection
  <2>7. QED
    BY <1>1, <2>6, GoalIsLess, CacheConstants, FS_CardinalityType
<1>4. QED
  BY <1>1, <1>2, <1>3

\* Keys that are all listed are no more than the listing.
LEMMA KeysAreListed ==
    ASSUME NEW K, NEW L, IsFiniteSet(L), \A k \in K : \E x \in L : x[2] = k
    PROVE  IsFiniteSet(K) /\ Cardinality(K) <= Cardinality(L)
<1> DEFINE f == [k \in K |-> CHOOSE x \in L : x[2] = k]
<1>1. \A k \in K : f[k] \in L /\ f[k][2] = k
  OBVIOUS
<1>2. f \in [K -> L]
  BY <1>1
<1>3. f \in Injection(K, L)
  BY <1>1, <1>2 DEF Injection, IsInjective
<1>4. QED
  BY <1>3, FS_Injection

---------------------------------------------------------------------------
(* Init, and what every step of a run has in common *)

LEMMA Records == NoFile \in Files /\ NoEntry \in Entries /\ Idle \in Runs
  BY DEF NoFile, NoEntry, Idle, Files, Entries, Runs, Ats, Ends

LEMMA InitHolds == Init => Inv
<1> SUFFICES ASSUME Init PROVE Inv
  OBVIOUS
<1>1. PICK S \in SUBSET Versions :
        /\ Cardinality(S) <= MaxEntries
        /\ entry = [k \in Versions |->
               IF k \in S THEN [file |-> File(k, FALSE), used |-> 0] ELSE NoEntry]
  BY DEF Init
<1>2. \A k \in Versions : [file |-> File(k, FALSE), used |-> 0] \in Entries
  BY DEF File, Files, Entries
<1>3. (CHOOSE v \in Versions : TRUE) \in Versions
  BY CacheConstants
<1>4. Typed
  BY <1>1, <1>2, <1>3, Records DEF Init, Typed
<1>5. \A k \in Versions : EntryOK(entry[k], k)
  BY <1>1 DEF EntryOK, OfTheKey, File
<1>6. \A p \in Procs : RunOK(run[p], input[p], output[p])
  BY FS_EmptySet DEF Init, RunOK, Idle
<1>7. PresentKeys = S
  <2>1. NoEntry.used = -1 /\ \A k \in S : entry[k].used = 0
    BY <1>1 DEF NoEntry
  <2>2. \A k \in S : Present(k)
    BY <2>1 DEF Present
  <2>3. \A k \in Versions \ S : ~Present(k)
    BY <1>1 DEF Present
  <2>4. QED
    BY <2>2, <2>3 DEF PresentKeys
<1>8. QED
  BY <1>1, <1>4, <1>5, <1>6, <1>7 DEF Inv, Data, Bounded

\* A step of p that changes no entry, or one: what is left to show of it.
LEMMA OneRun ==
    ASSUME Typed, Data, NEW p \in Procs,
           NEW r \in Runs, NEW i \in Versions, NEW o \in Files,
           run' = [run EXCEPT ![p] = r], input' = [input EXCEPT ![p] = i],
           output' = [output EXCEPT ![p] = o], RunOK(r, i, o)
    PROVE  /\ run' \in [Procs -> Runs] /\ input' \in [Procs -> Versions]
           /\ output' \in [Procs -> Files]
           /\ \A q \in Procs : RunOK(run'[q], input'[q], output'[q])
  BY DEF Typed, Data

LEMMA OneEntry ==
    ASSUME Typed, Data, NEW k \in Versions, NEW e \in Entries, EntryOK(e, k),
           entry' = [entry EXCEPT ![k] = e]
    PROVE  /\ entry' \in [Versions -> Entries]
           /\ \A l \in Versions : EntryOK(entry'[l], l)
  BY DEF Typed, Data

\* What the data of a step p comes to.
RunStep(p) ==
    \E r \in Runs :
        /\ run' = [run EXCEPT ![p] = r] /\ RunOK(r, input[p], output[p])
        /\ input' = input /\ output' = output

LEMMA RunStepKeeps ==
    ASSUME Typed, Data, NEW p \in Procs, RunStep(p)
    PROVE  /\ run' \in [Procs -> Runs] /\ input' \in [Procs -> Versions]
           /\ output' \in [Procs -> Files]
           /\ \A q \in Procs : RunOK(run'[q], input'[q], output'[q])
<1>1. PICK r \in Runs :
        /\ run' = [run EXCEPT ![p] = r] /\ RunOK(r, input[p], output[p])
        /\ input' = input /\ output' = output
  BY DEF RunStep
<1>2. /\ input' = [input EXCEPT ![p] = input[p]] /\ output' = [output EXCEPT ![p] = output[p]]
      /\ input[p] \in Versions /\ output[p] \in Files
  BY <1>1 DEF Typed
<1>3. QED
  BY <1>1, <1>2, OneRun

\* The types of a run's parts, and of a step's variants of it.
LEMMA PartsOfARun ==
    ASSUME Typed, Data, NEW p \in Procs
    PROVE  /\ run[p] \in Runs /\ input[p] \in Versions /\ output[p] \in Files
           /\ RunOK(run[p], input[p], output[p])
           /\ \A at \in Ats : [run[p] EXCEPT !.at = at] \in Runs
           /\ run[p].at \in Ats /\ run[p].key \in Versions \cup {0}
           /\ run[p].edited \in BOOLEAN /\ run[p].bytes \in Files
           /\ run[p].listed \in SUBSET Listing /\ run[p].doomed \in SUBSET Listing
           /\ run[p].unlisted \in SUBSET Versions
           /\ 0 \notin Versions
<1>1. run[p] \in Runs /\ input[p] \in Versions /\ output[p] \in Files
      /\ RunOK(run[p], input[p], output[p])
  BY DEF Typed, Data
<1>2. QED
  BY <1>1, CacheConstants DEF Runs

LEMMA OtherBytes ==
    ASSUME NEW r \in Runs, NEW at \in Ats, NEW f \in Files
    PROVE  /\ [r EXCEPT !.at = at, !.bytes = f] \in Runs
           /\ [r EXCEPT !.bytes = f, !.at = at] \in Runs
  BY DEF Runs

\* A run that ends and publishes nothing.
LEMMA EndKeeps ==
    ASSUME Typed, Data, NEW p \in Procs, NEW how \in Ends, End(p, how),
           input' = input, output' = output
    PROVE  RunStep(p)
<1> DEFINE r == [Idle EXCEPT !.end = how, !.edited = run[p].edited]
<1>1. /\ r \in Runs /\ r.at = "idle" /\ r.end = how /\ r.edited = run[p].edited
      /\ r.listed = {}
  BY Records, PartsOfARun DEF Idle, Runs
<1>2. run' = [run EXCEPT ![p] = r]
  BY DEF End
<1> HIDE DEF r
<1>3. RunOK(r, input[p], output[p])
  BY <1>1, PartsOfARun, FS_EmptySet DEF RunOK
<1>4. QED
  BY <1>1, <1>2, <1>3 DEF RunStep

\* A step that only goes on to another place.
LEMMA GoingOnKeeps ==
    ASSUME Typed, Data, NEW p \in Procs, NEW at \in Ats, Step(p, at),
           input' = input, output' = output,
           RunOK([run[p] EXCEPT !.at = at], input[p], output[p])
    PROVE  RunStep(p)
  BY PartsOfARun DEF RunStep, Step

---------------------------------------------------------------------------
(* The data of each step *)

LEMMA BeginKeeps ==
    ASSUME Typed, Data, NEW p \in Procs, Begin(p)
    PROVE  Typed' /\ Data'
<1>1. PICK v \in Versions, cached \in BOOLEAN :
        /\ input' = [input EXCEPT ![p] = v]
        /\ run' = [run EXCEPT ![p] =
               [Idle EXCEPT !.at = IF cached THEN "look" ELSE "kicad", !.n = runs + 1,
                            !.key = IF cached THEN Key(v) ELSE 0]]
  BY DEF Begin
<1> DEFINE at == IF cached THEN "look" ELSE "kicad"
           key == IF cached THEN Key(v) ELSE 0
           r == [Idle EXCEPT !.at = at, !.n = runs + 1, !.key = key]
<1>2. /\ at \in {"look", "kicad"} /\ key \in Versions \cup {0} /\ runs + 1 \in Nat
      /\ (at = "look" => key = v) /\ key \in {v, 0}
  BY DEF Typed, Key
<1>3. output' = [output EXCEPT ![p] = NoFile] /\ run' = [run EXCEPT ![p] = r]
  BY <1>1 DEF Begin
<1> HIDE DEF at, key
<1>4. /\ r \in Runs /\ r.at = at /\ r.key = key /\ r.end = "none" /\ r.listed = {}
  BY <1>2, Records DEF Idle, Runs, Ats, Ends
<1> HIDE DEF r
<1>7. v \in Versions /\ 0 \notin Versions
  BY CacheConstants
<1>8. RunOK(r, v, NoFile)
  BY <1>2, <1>4, <1>7, FS_EmptySet DEF RunOK
<1>5. /\ entry' = entry /\ temps' = temps /\ clock' = clock /\ runs' = runs + 1
      /\ owed' = owed
  BY DEF Begin, directory
<1>6. QED
  BY <1>1, <1>2, <1>3, <1>4, <1>5, <1>7, <1>8, OneRun, Records DEF Typed, Data

\* lookup.
LEMMA LookupKeeps ==
    ASSUME Typed, Data, NEW p \in Procs, Look(p) \/ Touch(p) \/ Judge(p)
    PROVE  Typed' /\ Data'
<1>1. /\ run[p] \in Runs /\ RunOK(run[p], input[p], output[p])
      /\ \A at \in Ats : [run[p] EXCEPT !.at = at] \in Runs
      /\ run[p].key \in Versions \cup {0} /\ run[p].bytes \in Files
  BY PartsOfARun
<1>2. CASE Look(p)
  <2>1. run[p].at = "look" /\ run[p].key \in Versions
    BY <1>1, <1>2 DEF Look, RunOK
  <2> DEFINE k == run[p].key
             r == [run[p] EXCEPT !.at = "touch", !.bytes = entry[k].file]
  <2>2. entry[k] \in Entries /\ EntryOK(entry[k], k)
    BY <2>1 DEF Typed, Data
  <2>3. entry[k].file \in Files
    BY <2>2 DEF Entries
  <2>4. RunStep(p)
    <3>1. CASE Present(k)
      <4>1. run' = [run EXCEPT ![p] = r] /\ input' = input /\ output' = output
        BY <1>2, <3>1 DEF Look
      <4>2. r \in Runs
        BY <1>1, <2>3, OtherBytes DEF Ats
      <4>3. OfTheKey(entry[k].file, k)
        BY <2>2, <3>1 DEF EntryOK, Present
      <4>4. RunOK(r, input[p], output[p])
        BY <1>1, <2>1, <4>3 DEF RunOK, Runs
      <4>5. QED
        BY <4>1, <4>2, <4>4 DEF RunStep
    <3>2. CASE ~Present(k)
      <4>1. Step(p, "kicad") /\ input' = input /\ output' = output
        BY <1>2, <3>2 DEF Look
      <4>2. RunOK([run[p] EXCEPT !.at = "kicad"], input[p], output[p])
        BY <1>1, <2>1 DEF RunOK, Runs
      <4>3. QED
        BY <4>1, <4>2, GoingOnKeeps DEF Ats
    <3>3. QED
      BY <3>1, <3>2
  <2>5. /\ entry' = entry /\ temps' = temps /\ clock' = clock /\ runs' = runs
        /\ owed' = owed
    BY <1>2 DEF Look, directory, bounds
  <2>6. QED
    BY <2>4, <2>5, RunStepKeeps DEF Typed, Data
<1>3. CASE Touch(p)
  <2> DEFINE k == run[p].key
             e == [entry[k] EXCEPT !.used = clock + 1]
  <2>1. run[p].at = "touch" /\ k \in Versions
    BY <1>1, <1>3 DEF Touch, RunOK
  <2>2. entry[k] \in Entries /\ EntryOK(entry[k], k) /\ clock \in Nat
    BY <2>1 DEF Typed, Data
  <2>3. /\ entry' \in [Versions -> Entries] /\ \A l \in Versions : EntryOK(entry'[l], l)
        /\ clock' \in Nat
    <3>1. CASE Present(k)
      <4>1. entry' = [entry EXCEPT ![k] = e] /\ clock' = clock + 1
        BY <1>3, <3>1 DEF Touch
      <4>2. e \in Entries /\ e.used >= 0 /\ e.file = entry[k].file
        BY <2>2 DEF Entries
      <4>3. EntryOK(e, k)
        BY <2>2, <3>1, <4>2 DEF EntryOK, Present
      <4>4. k \in Versions /\ clock' \in Nat
        BY <2>1, <2>2, <4>1
      <4> HIDE DEF e, k
      <4>5. QED
        BY <4>1, <4>2, <4>3, <4>4, OneEntry
    <3>2. CASE ~Present(k)
      BY <1>3, <2>2, <3>2 DEF Touch, Typed, Data
    <3>3. QED
      BY <3>1, <3>2
  <2>4. RunStep(p)
    <3>1. Step(p, "judge") /\ input' = input /\ output' = output
      BY <1>3 DEF Touch
    <3>2. RunOK([run[p] EXCEPT !.at = "judge"], input[p], output[p])
      BY <1>1, <2>1 DEF RunOK, Runs
    <3>3. QED
      BY <3>1, <3>2, GoingOnKeeps DEF Ats
  <2>5. temps' = temps /\ runs' = runs /\ owed' = owed
    BY <1>3 DEF Touch, bounds
  <2>6. QED
    BY <2>3, <2>4, <2>5, RunStepKeeps DEF Typed, Data
<1>4. CASE Judge(p)
  <2>1. /\ run[p].at = "judge" /\ run[p].key \in Versions
        /\ input' = input /\ output' = output
    BY <1>1, <1>4 DEF Judge, RunOK
  <2>2. RunStep(p)
    <3>1. CASE run[p].bytes.whole
      <4>1. RunOK([run[p] EXCEPT !.at = "hit"], input[p], output[p])
        BY <1>1, <2>1, <3>1, PartsOfARun DEF RunOK, Runs, OfTheKey, Whole, OfTheInput
      <4>2. QED
        BY <1>4, <2>1, <3>1, <4>1, GoingOnKeeps DEF Judge, Ats
    <3>2. CASE ~run[p].bytes.whole
      <4>1. RunOK([run[p] EXCEPT !.at = "kicad"], input[p], output[p])
        BY <1>1, <2>1 DEF RunOK, Runs
      <4>2. QED
        BY <1>4, <2>1, <3>2, <4>1, GoingOnKeeps DEF Judge, Ats
    <3>3. QED
      BY <3>1, <3>2
  <2>3. /\ entry' \in [Versions -> Entries]
        /\ \A l \in Versions : EntryOK(entry'[l], l)
    <3>1. entry' = entry \/ entry' = [entry EXCEPT ![run[p].key] = NoEntry]
      BY <1>4 DEF Judge
    <3>2. EntryOK(NoEntry, run[p].key)
      BY DEF EntryOK
    <3>3. QED
      BY <2>1, <3>1, <3>2, Records, OneEntry DEF Typed, Data
  <2>4. temps' = temps /\ clock' = clock /\ runs' = runs /\ owed' = owed
    BY <1>4 DEF Judge, bounds
  <2>5. QED
    BY <2>2, <2>3, <2>4, RunStepKeeps DEF Typed, Data
<1>5. QED
  BY <1>2, <1>3, <1>4

\* The report: published, made, or given up.
LEMMA ReportKeeps ==
    ASSUME Typed, Data, NEW p \in Procs, Publish(p) \/ Kicad(p) \/ Made(p)
    PROVE  Typed' /\ Data'
<1>1. /\ run[p] \in Runs /\ RunOK(run[p], input[p], output[p])
      /\ \A at \in Ats : [run[p] EXCEPT !.at = at] \in Runs
      /\ run[p].key \in Versions \cup {0} /\ run[p].bytes \in Files /\ run[p].edited \in BOOLEAN
      /\ input[p] \in Versions /\ output[p] \in Files /\ 0 \notin Versions
  BY PartsOfARun
<1>2. /\ entry' = entry /\ temps' = temps /\ clock' = clock /\ runs' = runs
      /\ owed' = owed /\ input' = input
  BY DEF Publish, Kicad, Made, directory, bounds
<1>3. CASE Publish(p)
  <2>1. CASE output' = [output EXCEPT ![p] = run[p].bytes] /\ End(p, "published")
    <3> DEFINE r == [Idle EXCEPT !.end = "published", !.edited = run[p].edited]
    <3>1. /\ r \in Runs /\ r.at = "idle" /\ r.end = "published" /\ r.edited = run[p].edited
          /\ r.listed = {}
      BY <1>1, Records DEF Idle, Runs, Ends
    <3>2. run' = [run EXCEPT ![p] = r]
      BY <2>1 DEF End
    <3> HIDE DEF r
    <3>3. Whole(run[p].bytes) /\ OfTheInput(run[p].bytes, input[p], run[p].edited)
      BY <1>1, <1>3 DEF Publish, RunOK
    <3>4. RunOK(r, input[p], run[p].bytes)
      BY <1>1, <3>1, <3>3, FS_EmptySet DEF RunOK
    <3>5. input' = [input EXCEPT ![p] = input[p]]
      BY <1>2 DEF Typed
    <3>6. /\ run' \in [Procs -> Runs] /\ input' \in [Procs -> Versions]
          /\ output' \in [Procs -> Files]
          /\ \A q \in Procs : RunOK(run'[q], input'[q], output'[q])
      BY <1>1, <2>1, <3>1, <3>2, <3>4, <3>5, OneRun
    <3>7. QED
      BY <1>2, <3>6 DEF Typed, Data
  <2>2. CASE UNCHANGED output /\ End(p, "failed")
    <3>1. RunStep(p)
      BY <1>2, <2>2, EndKeeps DEF Ends
    <3>2. QED
      BY <1>2, <3>1, RunStepKeeps DEF Typed, Data
  <2>3. QED
    BY <1>3, <2>1, <2>2 DEF Publish
<1>4. CASE Kicad(p)
  <2>1. run[p].at = "kicad" /\ output' = output
    BY <1>4 DEF Kicad
  <2>2. CASE run' = [run EXCEPT ![p].at = "made", ![p].bytes = File(input[p], FALSE)]
    <3> DEFINE f == File(input[p], FALSE)
               r == [run[p] EXCEPT !.at = "made", !.bytes = f]
    <3>1. f \in Files /\ Whole(f) /\ f.of = input[p] /\ ~f.mixed
      BY <1>1 DEF File, Files, Whole
    <3>2. run' = [run EXCEPT ![p] = r]
      BY <2>2
    <3> HIDE DEF f
    <3>3. r \in Runs
      BY <1>1, <3>1, OtherBytes DEF Ats
    <3>4. RunOK(r, input[p], output[p])
      BY <1>1, <2>1, <3>1 DEF RunOK, Runs, OfTheInput
    <3>5. RunStep(p)
      BY <1>2, <2>1, <3>2, <3>3, <3>4 DEF RunStep
    <3>6. QED
      BY <1>2, <3>5, RunStepKeeps DEF Typed, Data
  <2>3. CASE End(p, "failed")
    <3>1. RunStep(p)
      BY <1>2, <2>1, <2>3, EndKeeps DEF Ends
    <3>2. QED
      BY <1>2, <3>1, RunStepKeeps DEF Typed, Data
  <2>4. QED
    BY <1>4, <2>2, <2>3 DEF Kicad
<1>5. CASE Made(p)
  <2> DEFINE at == IF run[p].key = 0 THEN "fresh" ELSE "store"
             f == [run[p].bytes EXCEPT !.mixed = run[p].edited]
             r == [run[p] EXCEPT !.bytes = f, !.at = at]
  <2>1. /\ run[p].at = "made" /\ output' = output
        /\ run' = [run EXCEPT ![p].bytes.mixed = run[p].edited, ![p].at = at]
    BY <1>5 DEF Made
  <2>2. /\ f \in Files /\ f.mixed = run[p].edited /\ f.of = run[p].bytes.of
        /\ f.whole = run[p].bytes.whole
    BY <1>1 DEF Files
  <2>3. run' = [run EXCEPT ![p] = r]
    BY <2>1
  <2>4. at \in Ats /\ at \in {"fresh", "store"} /\ (at = "store" => run[p].key \in Versions)
    BY <1>1 DEF Ats
  <2> HIDE DEF f, at
  <2>5. r \in Runs
    BY <1>1, <2>2, <2>4, OtherBytes
  <2>6. Whole(f) /\ OfTheInput(f, input[p], run[p].edited)
    BY <1>1, <2>1, <2>2 DEF RunOK, Whole, OfTheInput
  <2>7. at = "store" => OfTheKey(f, run[p].key)
    BY <1>1, <2>1, <2>2, <2>4, <2>6 DEF RunOK, Whole, OfTheInput, OfTheKey
  <2>8. RunOK(r, input[p], output[p])
    BY <1>1, <2>1, <2>4, <2>6, <2>7 DEF RunOK, Runs
  <2>9. RunStep(p)
    BY <1>2, <2>1, <2>3, <2>5, <2>8 DEF RunStep
  <2>10. QED
    BY <1>2, <2>9, RunStepKeeps DEF Typed, Data
<1>6. QED
  BY <1>3, <1>4, <1>5

\* store, up to the rename.
LEMMA StoreKeeps ==
    ASSUME Typed, Data, NEW p \in Procs, Store(p) \/ Rename(p)
    PROVE  Typed' /\ Data'
<1>1. /\ run[p] \in Runs /\ RunOK(run[p], input[p], output[p])
      /\ run[p].key \in Versions /\ run[p].bytes \in Files
      /\ OfTheKey(run[p].bytes, run[p].key)
      /\ run[p].at \in {"store", "rename"}
  BY PartsOfARun DEF Store, Rename, RunOK
<1>2. input' = input /\ output' = output /\ runs' = runs
  BY DEF Store, Rename, bounds
<1>3. temps' \in [1..MaxRuns -> {"none", "new", "old"}]
  BY DEF Store, Rename, Typed
<1>4. ASSUME NEW at \in {"rename", "fresh"}, Step(p, at) PROVE RunStep(p)
  <2>1. RunOK([run[p] EXCEPT !.at = at], input[p], output[p])
    BY <1>1, <1>4 DEF RunOK, Runs
  <2>2. QED
    BY <1>2, <1>4, <2>1, GoingOnKeeps DEF Ats
<1>5. CASE Store(p)
  <2>1. RunStep(p)
    BY <1>4, <1>5 DEF Store
  <2>2. entry' = entry /\ clock' = clock /\ owed' = owed
    BY <1>5 DEF Store
  <2>3. QED
    BY <1>2, <1>3, <2>1, <2>2, RunStepKeeps DEF Typed, Data
<1>6. CASE Rename(p) /\ temps[run[p].n] = "none"
  <2>1. RunStep(p)
    BY <1>4, <1>6 DEF Rename
  <2>2. entry' = entry /\ clock' = clock /\ owed' = owed
    BY <1>6 DEF Rename
  <2>3. QED
    BY <1>2, <1>3, <2>1, <2>2, RunStepKeeps DEF Typed, Data
<1>7. CASE Rename(p) /\ temps[run[p].n] # "none"
  <2>1. Replaced(p)
    BY <1>7 DEF Rename
  <2> DEFINE e == [file |-> run[p].bytes, used |-> clock + 1]
             r == [run[p] EXCEPT !.at = "list", !.unlisted = Versions]
  <2>2. /\ entry' = [entry EXCEPT ![run[p].key] = e] /\ run' = [run EXCEPT ![p] = r]
        /\ clock' = clock + 1 /\ owed' = FALSE /\ clock + 1 \in Nat
    <3>1. entry' = [entry EXCEPT ![run[p].key] = e] /\ run' = [run EXCEPT ![p] = r]
      BY <2>1, Zenon DEF Replaced
    <3>2. clock' = clock + 1 /\ owed' = FALSE
      BY <2>1, Zenon DEF Replaced
    <3>3. clock + 1 \in Nat
      BY DEF Typed
    <3>4. QED
      BY <3>1, <3>2, <3>3, Zenon
  <2>3. e \in Entries /\ EntryOK(e, run[p].key)
    BY <1>1 DEF Entries, EntryOK, Typed
  <2>4. r \in Runs
    BY <1>1 DEF Runs, Ats
  <2>5. RunOK(r, input[p], output[p])
    BY <1>1 DEF RunOK, Runs
  <2>6. RunStep(p)
    BY <1>2, <2>2, <2>4, <2>5 DEF RunStep
  <2> HIDE DEF e, r
  <2>7. entry' \in [Versions -> Entries] /\ \A l \in Versions : EntryOK(entry'[l], l)
    BY <1>1, <2>2, <2>3, OneEntry
  <2>8. QED
    BY <1>2, <1>3, <2>2, <2>6, <2>7, RunStepKeeps DEF Typed, Data
<1>8. QED
  BY <1>5, <1>6, <1>7

\* evict.
LEMMA EvictKeeps ==
    ASSUME Typed, Data, NEW p \in Procs,
           ListEntry(p) \/ ListTemp(p) \/ Listed(p) \/ RemoveOldest(p) \/ Evicted(p)
    PROVE  Typed' /\ Data'
<1>1. /\ run[p] \in Runs /\ RunOK(run[p], input[p], output[p])
      /\ run[p].listed \in SUBSET Listing /\ run[p].doomed \in SUBSET Listing
      /\ run[p].unlisted \in SUBSET Versions
      /\ run[p].at \in {"list", "remove"}
  BY PartsOfARun DEF ListEntry, ListTemp, Listed, RemoveOldest, Evicted
<1>2. /\ input' = input /\ output' = output /\ runs' = runs /\ clock' = clock /\ owed' = owed
  BY DEF ListEntry, ListTemp, Listed, RemoveOldest, Evicted, bounds
<1>3. CASE ListEntry(p)
  <2>1. PICK k \in run[p].unlisted :
          run' = [run EXCEPT ![p].unlisted = @ \ {k},
                             ![p].listed = IF Present(k) THEN @ \cup {<<entry[k].used, k>>}
                                           ELSE @]
    BY <1>3 DEF ListEntry
  <2> DEFINE U == run[p].unlisted \ {k}
             L == IF Present(k) THEN run[p].listed \cup {<<entry[k].used, k>>}
                  ELSE run[p].listed
             r == [run[p] EXCEPT !.unlisted = U, !.listed = L]
  <2>2. run' = [run EXCEPT ![p] = r]
    BY <2>1
  <2>3. U \in SUBSET Versions /\ k \in Versions
    BY <1>1
  <2>4. entry[k].used \in Int
    BY <2>3 DEF Typed, Entries
  <2>5. L \in SUBSET Listing
    BY <1>1, <2>3, <2>4 DEF Listing
  <2>6. IsFiniteSet(run[p].listed)
    BY <1>1 DEF RunOK
  <2>7. IsFiniteSet(L)
    BY <2>6, FS_AddElement
  <2> HIDE DEF U, L
  <2>8. r \in Runs
    BY <1>1, <2>3, <2>5 DEF Runs
  <2>9. RunOK(r, input[p], output[p])
    BY <1>1, <2>7 DEF RunOK, Runs
  <2>10. RunStep(p)
    BY <1>2, <2>2, <2>8, <2>9 DEF RunStep
  <2>11. entry' = entry /\ temps' = temps
    BY <1>3 DEF ListEntry, directory
  <2>12. QED
    BY <1>2, <2>10, <2>11, RunStepKeeps DEF Typed, Data
<1>4. CASE ListTemp(p)
  <2>1. PICK n \in 1..MaxRuns : temps' = [temps EXCEPT ![n] = "none"]
    BY <1>4 DEF ListTemp
  <2>2. entry' = entry /\ run' = run
    BY <1>4 DEF ListTemp
  <2>3. QED
    BY <1>2, <2>1, <2>2 DEF Typed, Data
<1>5. CASE Listed(p)
  <2> DEFINE D == Doomed(run[p].listed)
             r == [run[p] EXCEPT !.at = "remove", !.listed = {}, !.doomed = D]
  <2>1. run' = [run EXCEPT ![p] = r] /\ entry' = entry /\ temps' = temps
    BY <1>5 DEF Listed, directory
  <2>2. D \in SUBSET Listing
    BY <1>1 DEF Doomed, Oldest
  <2> HIDE DEF D
  <2>3. r \in Runs
    BY <1>1, <2>2 DEF Runs, Ats
  <2>4. RunOK(r, input[p], output[p])
    BY <1>1, FS_EmptySet DEF RunOK, Runs
  <2>5. RunStep(p)
    BY <1>2, <2>1, <2>3, <2>4 DEF RunStep
  <2>6. QED
    BY <1>2, <2>1, <2>5, RunStepKeeps DEF Typed, Data
<1>6. CASE RemoveOldest(p)
  <2>1. PICK x \in run[p].doomed :
          /\ entry' = [entry EXCEPT ![x[2]] = NoEntry]
          /\ run' = [run EXCEPT ![p].doomed = @ \ {x}]
    BY <1>6 DEF RemoveOldest
  <2> DEFINE D == run[p].doomed \ {x}
             r == [run[p] EXCEPT !.doomed = D]
  <2>2. run' = [run EXCEPT ![p] = r] /\ D \in SUBSET Listing
    BY <1>1, <2>1
  <2> HIDE DEF D
  <2>3. r \in Runs
    BY <1>1, <2>2 DEF Runs
  <2>4. RunOK(r, input[p], output[p])
    BY <1>1 DEF RunOK, Runs
  <2>5. RunStep(p)
    BY <1>2, <2>2, <2>3, <2>4 DEF RunStep
  <2>6. x[2] \in Versions
    BY <1>1 DEF Listing
  <2>7. EntryOK(NoEntry, x[2])
    BY DEF EntryOK
  <2>8. entry' \in [Versions -> Entries] /\ \A l \in Versions : EntryOK(entry'[l], l)
    BY <2>1, <2>6, <2>7, Records, OneEntry
  <2>9. temps' = temps
    BY <1>6 DEF RemoveOldest
  <2>10. QED
    BY <1>2, <2>5, <2>8, <2>9, RunStepKeeps DEF Typed, Data
<1>7. CASE Evicted(p)
  <2>1. RunOK([run[p] EXCEPT !.at = "fresh"], input[p], output[p])
    BY <1>1 DEF RunOK, Runs
  <2>2. RunStep(p)
    BY <1>2, <1>7, <2>1, GoingOnKeeps DEF Evicted, Ats
  <2>3. entry' = entry /\ temps' = temps
    BY <1>7 DEF Evicted, directory
  <2>4. QED
    BY <1>2, <2>2, <2>3, RunStepKeeps DEF Typed, Data
<1>8. QED
  BY <1>3, <1>4, <1>5, <1>6, <1>7

\* A failure that is not heeded: the run goes on with what it has.
LEMMA UnheededKeeps ==
    ASSUME Typed, Data, NEW p \in Procs, Unheeded(p)
    PROVE  Typed' /\ Data'
<1>1. /\ run[p] \in Runs /\ RunOK(run[p], input[p], output[p])
      /\ run[p].doomed \in SUBSET Listing /\ run[p].unlisted \in SUBSET Versions
  BY PartsOfARun
<1>2. /\ input' = input /\ output' = output /\ entry' = entry /\ clock' = clock
      /\ runs' = runs /\ owed' \in BOOLEAN
      /\ temps' \in [1..MaxRuns -> {"none", "new", "old"}]
  BY DEF Unheeded, Fault, Evicts, Typed
<1>3. ASSUME NEW at \in {"judge", "kicad", "fresh"}, Step(p, at),
             \/ at \in {"judge", "kicad"} /\ run[p].at \in {"look", "touch", "judge"}
             \/ at = "fresh" /\ run[p].at \in {"rename", "list"},
             at = "judge" => run[p].at = "touch"
      PROVE  RunStep(p)
  <2>1. RunOK([run[p] EXCEPT !.at = at], input[p], output[p])
    BY <1>1, <1>3 DEF RunOK, Runs
  <2>2. QED
    BY <1>2, <1>3, <2>1, GoingOnKeeps DEF Ats
<1>4. ASSUME NEW k \in run[p].unlisted, run' = [run EXCEPT ![p].unlisted = @ \ {k}]
      PROVE  RunStep(p)
  <2> DEFINE r == [run[p] EXCEPT !.unlisted = run[p].unlisted \ {k}]
  <2>1. run' = [run EXCEPT ![p] = r]
    BY <1>4
  <2>2. r \in Runs /\ RunOK(r, input[p], output[p])
    BY <1>1 DEF Runs, RunOK
  <2>3. QED
    BY <1>2, <2>1, <2>2 DEF RunStep
<1>5. ASSUME NEW x \in run[p].doomed, run' = [run EXCEPT ![p].doomed = @ \ {x}]
      PROVE  RunStep(p)
  <2> DEFINE r == [run[p] EXCEPT !.doomed = run[p].doomed \ {x}]
  <2>1. run' = [run EXCEPT ![p] = r]
    BY <1>5
  <2>2. r \in Runs /\ RunOK(r, input[p], output[p])
    BY <1>1 DEF Runs, RunOK
  <2>3. QED
    BY <1>2, <2>1, <2>2 DEF RunStep
<1>6. RunStep(p)
  BY <1>3, <1>4, <1>5 DEF Unheeded
<1>7. QED
  BY <1>2, <1>6, RunStepKeeps DEF Typed, Data

\* What may go wrong.
LEMMA FaultKeeps ==
    ASSUME Typed, Data, Spoil \/ Hour \/ \E p \in Procs : Kill(p) \/ Unheeded(p) \/ Edit(p)
    PROVE  Typed' /\ Data'
<1>1. CASE Spoil
  <2>1. PICK k \in Versions :
          Present(k) /\ entry' = [entry EXCEPT ![k].file.whole = FALSE]
    BY <1>1 DEF Spoil
  <2> DEFINE f == [entry[k].file EXCEPT !.whole = FALSE]
             e == [entry[k] EXCEPT !.file = f]
  <2>2. entry[k] \in Entries /\ EntryOK(entry[k], k) /\ entry' = [entry EXCEPT ![k] = e]
    BY <2>1 DEF Typed, Data
  <2>3. /\ entry[k].file \in Files /\ f \in Files /\ f.of = entry[k].file.of
        /\ f.mixed = entry[k].file.mixed
    BY <2>2 DEF Entries, Files
  <2> HIDE DEF f
  <2>4. e \in Entries /\ e.used = entry[k].used /\ e.file = f
    BY <2>2, <2>3 DEF Entries
  <2>5. EntryOK(e, k)
    BY <2>1, <2>2, <2>3, <2>4 DEF EntryOK, OfTheKey, Present
  <2> HIDE DEF e
  <2>6. entry' \in [Versions -> Entries] /\ \A l \in Versions : EntryOK(entry'[l], l)
    BY <2>2, <2>4, <2>5, OneEntry
  <2>7. /\ temps' = temps /\ input' = input /\ output' = output /\ run' = run
        /\ clock' = clock /\ owed' = owed /\ runs' = runs
    BY <1>1 DEF Spoil, Fault
  <2>8. QED
    BY <2>6, <2>7 DEF Typed, Data
<1>2. CASE Hour
  BY <1>2 DEF Hour, Typed, Data, bounds
<1>3. ASSUME NEW p \in Procs, Kill(p) PROVE Typed' /\ Data'
  <2>1. RunStep(p)
    BY <1>3, EndKeeps DEF Kill, Ends
  <2>2. /\ entry' = entry /\ temps' = temps /\ clock' = clock /\ runs' = runs
        /\ owed' \in BOOLEAN
    BY <1>3 DEF Kill, Fault, directory, Evicts, Typed
  <2>3. QED
    BY <2>1, <2>2, RunStepKeeps DEF Typed, Data
<1>4. ASSUME NEW p \in Procs, Edit(p) PROVE Typed' /\ Data'
  <2>1. PICK v \in Versions : input' = [input EXCEPT ![p] = v]
    BY <1>4 DEF Edit
  <2> DEFINE r == [run[p] EXCEPT !.edited = TRUE]
  <2>2. run' = [run EXCEPT ![p] = r] /\ run[p].at # "idle" /\ output' = output
    BY <1>4 DEF Edit
  <2>3. run[p] \in Runs /\ RunOK(run[p], input[p], output[p]) /\ output[p] \in Files
    BY PartsOfARun
  <2>4. output' = [output EXCEPT ![p] = output[p]]
    BY <2>2 DEF Typed
  <2>5. r \in Runs
    BY <2>3 DEF Runs
  <2>6. RunOK(r, v, output[p])
    BY <2>2, <2>3 DEF RunOK, Runs, OfTheInput
  <2> HIDE DEF r
  <2>7. /\ run' \in [Procs -> Runs] /\ input' \in [Procs -> Versions]
        /\ output' \in [Procs -> Files]
        /\ \A q \in Procs : RunOK(run'[q], input'[q], output'[q])
    BY <2>1, <2>2, <2>3, <2>4, <2>5, <2>6, OneRun
  <2>8. /\ entry' = entry /\ temps' = temps /\ clock' = clock /\ runs' = runs
        /\ owed' = owed
    BY <1>4 DEF Edit, Fault, directory
  <2>9. QED
    BY <2>7, <2>8 DEF Typed, Data
<1>5. ASSUME NEW p \in Procs, Unheeded(p) PROVE Typed' /\ Data'
  BY <1>5, UnheededKeeps
<1>6. QED
  BY <1>1, <1>2, <1>3, <1>4, <1>5

LEMMA DataKeeps == Typed /\ Data /\ [Next]_vars => Typed' /\ Data'
<1> SUFFICES ASSUME Typed, Data, [Next]_vars PROVE Typed' /\ Data'
  OBVIOUS
<1>1. ASSUME NEW p \in Procs, Begin(p) \/ Proceed(p) \/ ListTemp(p) PROVE Typed' /\ Data'
  BY <1>1, BeginKeeps, LookupKeeps, ReportKeeps, StoreKeeps, EvictKeeps DEF Proceed
<1>2. CASE UNCHANGED vars
  BY <1>2 DEF vars, Typed, Data
<1>3. QED
  BY <1>1, <1>2, FaultKeeps DEF Next

---------------------------------------------------------------------------
(* The bound *)

LEMMA PresentIsFinite == IsFiniteSet(PresentKeys) /\ Cardinality(PresentKeys) \in Nat
<1>1. PresentKeys \in SUBSET Versions
  BY DEF PresentKeys
<1>2. QED
  BY <1>1, CacheConstants, FS_Subset, FS_CardinalityType

\* A run that covers still does, if it is where it was and no entry came.
LEMMA CoversStays ==
    ASSUME NEW q \in Procs, Covers(q), run'[q] = run[q], PresentKeys' \subseteq PresentKeys
    PROVE  Covers(q)'
<1>1. CASE run[q].at = "list" /\ \A k \in PresentKeys :
             k \in run[q].unlisted \/ \E x \in run[q].listed : x[2] = k
  BY <1>1 DEF Covers
<1>2. CASE run[q].at = "remove" /\ Cardinality(Spared(q)) <= MaxEntries
  <2>1. Spared(q) \in SUBSET PresentKeys /\ Spared(q)' \in SUBSET Spared(q)
    BY DEF Spared
  <2>2. IsFiniteSet(Spared(q)) /\ Cardinality(Spared(q)) \in Nat
    BY <2>1, PresentIsFinite, FS_Subset, FS_CardinalityType
  <2>3. /\ Cardinality(Spared(q)') <= Cardinality(Spared(q))
        /\ IsFiniteSet(Spared(q)') /\ Cardinality(Spared(q)') \in Nat
    BY <2>1, <2>2, FS_Subset, FS_CardinalityType
  <2>4. Cardinality(Spared(q)') <= MaxEntries
    BY <1>2, <2>2, <2>3, CacheConstants
  <2>5. QED
    BY <1>2, <2>4 DEF Covers
<1>3. QED
  BY <1>1, <1>2 DEF Covers

\* What leaves no entry more keeps the bound, if whoever covered still does.
LEMMA NoneMoreKeeps ==
    ASSUME Bounded, PresentKeys' \subseteq PresentKeys, owed => owed',
           \A p \in Procs : Covers(p) =>
               Covers(p)' \/ owed' \/ Cardinality(PresentKeys') <= MaxEntries
    PROVE  Bounded'
<1>1. CASE Cardinality(PresentKeys) <= MaxEntries
  <2>1. PresentKeys' \in SUBSET PresentKeys
    OBVIOUS
  <2>2. /\ Cardinality(PresentKeys') <= Cardinality(PresentKeys)
        /\ Cardinality(PresentKeys') \in Nat
    BY <2>1, PresentIsFinite, FS_Subset, FS_CardinalityType
  <2>3. Cardinality(PresentKeys') <= MaxEntries
    BY <1>1, <2>2, PresentIsFinite, CacheConstants
  <2>4. QED
    BY <2>3 DEF Bounded
<1>2. QED
  BY <1>1 DEF Bounded

\* A step of p that stores nothing and leaves no entry more: what is left to
\* show is that p still covers.
LEMMA OneRunsBound ==
    ASSUME Bounded, PresentKeys' \subseteq PresentKeys, owed => owed', NEW p \in Procs,
           \A q \in Procs \ {p} : run'[q] = run[q],
           Covers(p) => Covers(p)' \/ owed' \/ Cardinality(PresentKeys') <= MaxEntries
    PROVE  Bounded'
<1>1. ASSUME NEW q \in Procs, Covers(q)
      PROVE  Covers(q)' \/ owed' \/ Cardinality(PresentKeys') <= MaxEntries
  <2>1. CASE q # p
    BY <1>1, <2>1, CoversStays
  <2>2. CASE q = p
    BY <1>1, <2>2
  <2>3. QED
    BY <2>1, <2>2
<1>2. QED
  BY <1>1, NoneMoreKeeps

\* The entries of each kind of step.
LEMMA OneEntryLess ==
    ASSUME Typed, NEW k, entry' = entry \/ entry' = [entry EXCEPT ![k] = NoEntry]
    PROVE  PresentKeys' \subseteq PresentKeys
  BY DEF Typed, PresentKeys, Present

LEMMA OneEntryChanged ==
    ASSUME Typed, NEW k \in Versions, NEW e, Present(k), entry' = [entry EXCEPT ![k] = e]
    PROVE  PresentKeys' \subseteq PresentKeys
  BY DEF Typed, PresentKeys, Present

\* A step of a run that does not evict, but for a store's rename.
LEMMA NotEvictingKeeps ==
    ASSUME Typed, Data, Bounded, NEW p \in Procs,
           \/ Begin(p) \/ Look(p) \/ Touch(p) \/ Judge(p) \/ Kicad(p) \/ Made(p) \/ Publish(p)
           \/ Store(p) \/ (Rename(p) /\ temps[run[p].n] = "none")
    PROVE  Bounded'
<1>1. run[p].at \notin {"list", "remove"}
  BY DEF Begin, Look, Touch, Judge, Kicad, Made, Publish, Store, Rename
<1>2. owed' = owed
  BY DEF Begin, Look, Touch, Judge, Kicad, Made, Publish, Store, Rename
<1>3. \A q \in Procs \ {p} : run'[q] = run[q]
  BY DEF Begin, Look, Touch, Judge, Kicad, Made, Publish, Store, Rename, Step, End, Typed
<1>4. PresentKeys' \subseteq PresentKeys
  <2>1. CASE entry' = entry \/ entry' = [entry EXCEPT ![run[p].key] = NoEntry]
    BY <2>1, OneEntryLess
  <2>2. CASE Touch(p) /\ Present(run[p].key)
    <3>1. entry' = [entry EXCEPT ![run[p].key] =
                        [entry[run[p].key] EXCEPT !.used = clock + 1]]
      BY <2>2 DEF Touch
    <3>2. run[p].key \in Versions
      BY <2>2, PartsOfARun DEF Touch, RunOK
    <3>3. QED
      BY <2>2, <3>1, <3>2, OneEntryChanged
  <2>3. entry' = entry \/ entry' = [entry EXCEPT ![run[p].key] = NoEntry]
          \/ (Touch(p) /\ Present(run[p].key))
    BY DEF Begin, Look, Touch, Judge, Kicad, Made, Publish, Store, Rename, directory
  <2>4. QED
    BY <2>1, <2>2, <2>3
<1>5. ~Covers(p)
  BY <1>1 DEF Covers
<1>6. QED
  BY <1>2, <1>3, <1>4, <1>5, OneRunsBound

\* The run that stored has every entry still to list.
LEMMA StoringCovers ==
    ASSUME Typed, Data, NEW p \in Procs, Rename(p), temps[run[p].n] # "none"
    PROVE  Bounded'
<1>1. Replaced(p)
  BY DEF Rename
<1>2. run'[p].at = "list" /\ run'[p].unlisted = Versions
  <2>1. run' = [run EXCEPT ![p] = [run[p] EXCEPT !.at = "list", !.unlisted = Versions]]
    BY <1>1, Zenon DEF Replaced
  <2>2. run[p] \in Runs /\ run \in [Procs -> Runs]
    BY DEF Typed
  <2>3. QED
    BY <2>1, <2>2 DEF Runs
<1>3. Covers(p)'
  BY <1>2 DEF Covers, PresentKeys
<1>4. QED
  BY <1>3 DEF Bounded

\* The listing takes the entries one by one, and what it leaves is within the
\* bound.
LEMMA EvictBound ==
    ASSUME Typed, Data, Bounded, NEW p \in Procs,
           ListEntry(p) \/ Listed(p) \/ RemoveOldest(p) \/ Evicted(p)
    PROVE  Bounded'
<1>1. /\ run[p] \in Runs /\ RunOK(run[p], input[p], output[p])
      /\ run[p].listed \in SUBSET Listing /\ run[p].doomed \in SUBSET Listing
      /\ IsFiniteSet(run[p].listed) /\ run \in [Procs -> Runs]
  BY PartsOfARun DEF RunOK, Typed
<1>2. owed' = owed
  BY DEF ListEntry, Listed, RemoveOldest, Evicted
<1>3. \A q \in Procs \ {p} : run'[q] = run[q]
  BY DEF ListEntry, Listed, RemoveOldest, Evicted, Step, Typed
<1>4. PresentKeys' \subseteq PresentKeys
  <2>1. CASE RemoveOldest(p)
    BY <2>1, OneEntryLess DEF RemoveOldest
  <2>2. CASE entry' = entry
    BY <2>2, OneEntryLess
  <2>3. QED
    BY <2>1, <2>2 DEF ListEntry, Listed, Evicted, directory
<1>5. ASSUME Covers(p)
      PROVE  Covers(p)' \/ owed' \/ Cardinality(PresentKeys') <= MaxEntries
  <2>1. CASE ListEntry(p)
    <3>1. PICK k \in run[p].unlisted :
            run' = [run EXCEPT ![p].unlisted = @ \ {k},
                               ![p].listed = IF Present(k) THEN @ \cup {<<entry[k].used, k>>}
                                             ELSE @]
      BY <2>1 DEF ListEntry
    <3>2. /\ run'[p].at = "list" /\ run'[p].unlisted = run[p].unlisted \ {k}
          /\ run'[p].listed = IF Present(k) THEN run[p].listed \cup {<<entry[k].used, k>>}
                              ELSE run[p].listed
      BY <1>1, <2>1, <3>1 DEF ListEntry, Runs
    <3>3. \A l \in PresentKeys :
             l \in run[p].unlisted \/ \E x \in run[p].listed : x[2] = l
      BY <1>5, <2>1 DEF Covers, ListEntry
    <3>4. ASSUME NEW l \in PresentKeys', l \notin run'[p].unlisted
          PROVE  \E x \in run'[p].listed : x[2] = l
      <4>1. l \in PresentKeys
        BY <1>4, <3>4
      <4>2. CASE l = k
        <5>1. Present(k)
          BY <4>1, <4>2 DEF PresentKeys
        <5>2. <<entry[k].used, k>> \in run'[p].listed
          BY <3>2, <5>1
        <5>3. <<entry[k].used, k>>[2] = l
          BY <4>2
        <5>4. QED
          BY <5>2, <5>3
      <4>3. CASE l # k
        BY <3>2, <3>3, <3>4, <4>1, <4>3
      <4>4. QED
        BY <4>2, <4>3
    <3>5. Covers(p)'
      BY <3>2, <3>4 DEF Covers
    <3>6. QED
      BY <3>5
  <2>2. CASE Listed(p)
    <3> DEFINE L == run[p].listed
               K == {k \in PresentKeys' : \A x \in Doomed(L) : x[2] # k}
    <3>1. run'[p].at = "remove" /\ run'[p].doomed = Doomed(L)
      BY <1>1, <2>2 DEF Listed, Runs
    <3>2. \A k \in PresentKeys' : \E x \in L : x[2] = k
      BY <1>4, <1>5, <2>2 DEF Covers, Listed
    <3>3. \A k \in K : \E x \in L \ Doomed(L) : x[2] = k
      BY <3>2
    <3>4. IsFiniteSet(L \ Doomed(L)) /\ Cardinality(L \ Doomed(L)) <= MaxEntries
      BY <1>1, KeptAreFew
    <3> HIDE DEF K
    <3>5. IsFiniteSet(K) /\ Cardinality(K) <= Cardinality(L \ Doomed(L))
      BY <3>3, <3>4, KeysAreListed
    <3>6. Cardinality(K) <= MaxEntries
      BY <3>4, <3>5, FS_CardinalityType, CacheConstants
    <3>7. Spared(p)' = K
      BY <3>1 DEF Spared, K
    <3>8. QED
      BY <3>1, <3>6, <3>7 DEF Covers
  <2>3. CASE RemoveOldest(p)
    <3>1. PICK x \in run[p].doomed :
            /\ entry' = [entry EXCEPT ![x[2]] = NoEntry]
            /\ run' = [run EXCEPT ![p].doomed = @ \ {x}]
      BY <2>3 DEF RemoveOldest
    <3>2. run'[p].at = "remove" /\ run'[p].doomed = run[p].doomed \ {x}
      BY <1>1, <2>3, <3>1 DEF RemoveOldest, Runs
    <3>3. x[2] \in Versions
      BY <1>1 DEF Listing
    <3>4. x[2] \notin PresentKeys'
      BY <3>1, <3>3 DEF PresentKeys, Present, Typed
    <3>5. Spared(p)' \in SUBSET Spared(p)
      BY <1>4, <3>2, <3>4 DEF Spared
    <3>6. Cardinality(Spared(p)) <= MaxEntries /\ Spared(p) \in SUBSET PresentKeys
      BY <1>5, <2>3 DEF Covers, RemoveOldest, Spared
    <3>7. IsFiniteSet(Spared(p)) /\ Cardinality(Spared(p)) \in Nat
      BY <3>6, PresentIsFinite, FS_Subset, FS_CardinalityType
    <3>8. IsFiniteSet(Spared(p)') /\ Cardinality(Spared(p)') <= Cardinality(Spared(p))
      BY <3>5, <3>7, FS_Subset
    <3>9. Cardinality(Spared(p)') <= MaxEntries
      BY <3>6, <3>7, <3>8, FS_CardinalityType, CacheConstants
    <3>10. QED
      BY <3>2, <3>9 DEF Covers
  <2>4. CASE Evicted(p)
    <3>1. Spared(p) = PresentKeys /\ PresentKeys' = PresentKeys
      BY <2>4 DEF Evicted, Spared, PresentKeys, Present, directory
    <3>2. QED
      BY <1>5, <2>4, <3>1 DEF Covers, Evicted
  <2>5. QED
    BY <2>1, <2>2, <2>3, <2>4
<1>6. QED
  BY <1>2, <1>3, <1>4, <1>5, OneRunsBound

LEMMA FaultBound ==
    ASSUME Typed, Data, Bounded,
           \/ Spoil \/ Hour \/ UNCHANGED vars
           \/ \E p \in Procs : Kill(p) \/ Unheeded(p) \/ Edit(p) \/ ListTemp(p)
    PROVE  Bounded'
<1>1. CASE run' = run /\ owed' = owed /\ PresentKeys' \subseteq PresentKeys
  <2>1. ASSUME NEW p \in Procs, Covers(p) PROVE Covers(p)'
    BY <1>1, <2>1, CoversStays
  <2>2. QED
    BY <1>1, <2>1, NoneMoreKeeps
<1>2. CASE Spoil
  <2>1. PICK k \in Versions : Present(k) /\ entry' = [entry EXCEPT ![k].file.whole = FALSE]
    BY <1>2 DEF Spoil
  <2>2. entry' = [entry EXCEPT ![k] = [@ EXCEPT !.file.whole = FALSE]]
    BY <2>1
  <2>3. PresentKeys' \subseteq PresentKeys
    BY <2>1, <2>2, OneEntryChanged
  <2>4. QED
    BY <1>1, <1>2, <2>3 DEF Spoil
<1>3. CASE Hour \/ UNCHANGED vars \/ \E p \in Procs : ListTemp(p)
  <2>1. entry' = entry /\ run' = run /\ owed' = owed
    BY <1>3 DEF Hour, ListTemp, vars
  <2>2. QED
    BY <1>1, <2>1, OneEntryLess
<1>4. ASSUME NEW p \in Procs, Kill(p) PROVE Bounded'
  <2>1. /\ PresentKeys' \subseteq PresentKeys /\ \A q \in Procs \ {p} : run'[q] = run[q]
        /\ owed' = (owed \/ run[p].at \in {"list", "remove"})
    BY <1>4, OneEntryLess DEF Kill, End, Evicts, directory, Typed
  <2>2. Covers(p) => owed'
    BY <2>1 DEF Covers
  <2>3. QED
    BY <2>1, <2>2, OneRunsBound
<1>5. ASSUME NEW p \in Procs, Edit(p) PROVE Bounded'
  <2>1. /\ PresentKeys' \subseteq PresentKeys /\ \A q \in Procs \ {p} : run'[q] = run[q]
        /\ owed' = owed /\ entry' = entry
    BY <1>5, OneEntryLess DEF Edit, directory, Typed
  <2>2. /\ run'[p].at = run[p].at /\ run'[p].unlisted = run[p].unlisted
        /\ run'[p].listed = run[p].listed /\ run'[p].doomed = run[p].doomed
    BY <1>5 DEF Edit, Typed, Runs
  <2>3. PresentKeys' = PresentKeys /\ Spared(p)' = Spared(p)
    BY <2>1, <2>2 DEF PresentKeys, Present, Spared
  <2>4. Covers(p) => Covers(p)'
    BY <2>2, <2>3 DEF Covers
  <2>5. QED
    BY <2>1, <2>4, OneRunsBound
<1>6. ASSUME NEW p \in Procs, Unheeded(p) PROVE Bounded'
  <2>1. /\ PresentKeys' \subseteq PresentKeys /\ \A q \in Procs \ {p} : run'[q] = run[q]
        /\ owed' = (owed \/ run[p].at \in {"list", "remove"})
    BY <1>6, OneEntryLess DEF Unheeded, Step, Evicts, Typed
  <2>2. Covers(p) => owed'
    BY <2>1 DEF Covers
  <2>3. QED
    BY <2>1, <2>2, OneRunsBound
<1>7. QED
  BY <1>2, <1>3, <1>4, <1>5, <1>6

LEMMA NextKeeps == Inv /\ [Next]_vars => Inv'
<1> SUFFICES ASSUME Typed, Data, Bounded, [Next]_vars PROVE Inv'
  BY DEF Inv
<1>1. Typed' /\ Data'
  BY DataKeeps
<1>2. Bounded'
  <2>1. ASSUME NEW p \in Procs, Begin(p) \/ Proceed(p) PROVE Bounded'
    BY <2>1, NotEvictingKeeps, StoringCovers, EvictBound DEF Proceed
  <2>2. QED
    BY <2>1, FaultBound DEF Next
<1>3. QED
  BY <1>1, <1>2 DEF Inv

---------------------------------------------------------------------------
(* Theorems *)

\* The invariant holds of every behaviour of the cache.
THEOREM InvHolds == Spec => []Inv
  BY InitHolds, NextKeeps, PTL DEF Spec

\* Every variable keeps its type, and only a run with a key uses the directory.
THEOREM TypeHolds == Spec => []TypeOK
<1>1. Inv => TypeOK
  <2> SUFFICES ASSUME Inv PROVE TypeOK
    OBVIOUS
  <2>1. \A k \in Versions : entry[k].used \in Int /\ entry[k].file.of \in Versions \cup {0}
    BY DEF Inv, Typed, Entries, Files
  <2>2. ASSUME NEW p \in Procs
        PROVE  /\ output[p].of \in Versions \cup {0}
               /\ run[p].end \in {"none", "published", "failed", "killed"}
               /\ run[p].at \in {"look", "touch", "judge", "store", "rename", "list", "remove"}
                  => run[p].key \in Versions
    BY PartsOfARun DEF Inv, Files, Runs, Ends, RunOK
  <2>3. QED
    BY <2>1, <2>2 DEF Inv, Typed, TypeOK
<1>2. QED
  BY <1>1, InvHolds, PTL

\* What is published is whole, however runs, kills and spoilt entries fall.
THEOREM WholeHolds == Spec => []PublishedIsWhole
<1>1. Inv => PublishedIsWhole
  BY DEF Inv, Data, RunOK, Whole, PublishedIsWhole
<1>2. QED
  BY <1>1, InvHolds, PTL

\* A hit or a fresh report: what is published is of the caller's own inputs.
THEOREM OfTheInputsHolds == Spec => []PublishedIsOfTheInputs
<1>1. Inv => PublishedIsOfTheInputs
  <2> SUFFICES ASSUME Inv, NEW p \in Procs
               PROVE  LET made == IF run[p].at \in {"hit", "fresh"} THEN run[p].bytes
                                  ELSE output[p]
                      IN  (made # NoFile /\ ~run[p].edited /\ ~made.mixed
                             /\ run[p].at # "made") => made.of = input[p]
    BY DEF PublishedIsOfTheInputs
  <2>1. RunOK(run[p], input[p], output[p])
    BY DEF Inv, Data
  <2>2. QED
    BY <2>1 DEF RunOK, OfTheInput
<1>2. QED
  BY <1>1, InvHolds, PTL

\* A step of a run with the cache takes it on, keeps its report, or publishes it.
LEMMA RunGoesOn ==
    ASSUME Typed, NEW p \in Procs, Begin(p) \/ Proceed(p) \/ ListTemp(p)
    PROVE  GoesOn(p)
<1>1. run \in [Procs -> Runs] /\ output \in [Procs -> Files] /\ run[p] \in Runs
  BY DEF Typed
<1>2. ASSUME NEW at \in {"judge", "hit", "kicad", "rename", "fresh"}, Step(p, at),
             \/ run[p].at \in {"look", "touch", "judge"}
             \/ run[p].at \in {"store", "rename", "remove"} /\ at \in {"rename", "fresh"}
      PROVE  GoesOn(p)
  <2>1. run'[p].at = at /\ run'[p].bytes = run[p].bytes
    BY <1>1, <1>2 DEF Step, Runs
  <2>2. QED
    BY <1>2, <2>1 DEF GoesOn, Answered, WithTheCache
<1>3. CASE Begin(p) \/ Kicad(p) \/ Made(p)
  BY <1>3 DEF Begin, Kicad, Made, GoesOn, Answered, WithTheCache
<1>4. CASE Look(p)
  <2>1. CASE run' = [run EXCEPT ![p].at = "touch", ![p].bytes = entry[run[p].key].file]
    <3>1. run[p].at = "look" /\ run'[p].at = "touch"
      BY <1>1, <1>4, <2>1 DEF Look, Runs
    <3>2. QED
      BY <3>1 DEF GoesOn, Answered, WithTheCache
  <2>2. QED
    BY <1>2, <1>4, <2>1 DEF Look
<1>5. CASE Touch(p) \/ Judge(p) \/ Store(p) \/ Evicted(p)
  BY <1>2, <1>5 DEF Touch, Judge, Store, Evicted
<1>6. CASE Rename(p)
  <2>1. CASE Replaced(p)
    <3>1. run' = [run EXCEPT ![p] = [run[p] EXCEPT !.at = "list", !.unlisted = Versions]]
      BY <2>1, Zenon DEF Replaced
    <3>2. run'[p].at = "list" /\ run'[p].bytes = run[p].bytes
      BY <1>1, <3>1 DEF Runs
    <3>3. QED
      BY <3>2 DEF GoesOn, Answered
  <2>2. QED
    BY <1>2, <1>6, <2>1 DEF Rename
<1>7. CASE ListEntry(p) \/ ListTemp(p) \/ Listed(p) \/ RemoveOldest(p)
  <2>1. run'[p].at \in {"list", "remove"} /\ run'[p].bytes = run[p].bytes
    <3>1. CASE ListEntry(p)
      BY <1>1, <3>1 DEF ListEntry, Runs
    <3>2. CASE ListTemp(p)
      BY <3>2 DEF ListTemp
    <3>3. CASE Listed(p)
      BY <1>1, <3>3 DEF Listed, Runs
    <3>4. CASE RemoveOldest(p)
      BY <1>1, <3>4 DEF RemoveOldest, Runs
    <3>5. QED
      BY <1>7, <3>1, <3>2, <3>3, <3>4
  <2>2. QED
    BY <2>1 DEF GoesOn, Answered
<1>8. CASE Publish(p)
  <2>1. run[p].at \in {"hit", "fresh"}
    BY <1>8 DEF Publish
  <2>2. CASE output' = [output EXCEPT ![p] = run[p].bytes] /\ End(p, "published")
    <3>1. run'[p].at = "idle" /\ run'[p].end = "published" /\ output'[p] = run[p].bytes
      BY <1>1, <2>2 DEF End, Idle
    <3>2. QED
      BY <2>1, <3>1 DEF GoesOn, Publishing
  <2>3. CASE End(p, "failed")
    <3>1. run'[p].at = "idle" /\ run'[p].end = "failed"
      BY <1>1, <2>3 DEF End, Idle
    <3>2. QED
      BY <2>1, <3>1 DEF GoesOn, Publishing
  <2>4. QED
    BY <1>8, <2>2, <2>3 DEF Publish
<1>9. QED
  BY <1>3, <1>4, <1>5, <1>6, <1>7, <1>8 DEF Proceed

\* Nor does a fault, or another's step, but for a kill.
LEMMA FaultGoesOn ==
    ASSUME Typed, NEW p \in Procs, Kill(p) \/ Unheeded(p) \/ Edit(p) \/ run'[p] = run[p]
    PROVE  GoesOn(p)
<1>1. run \in [Procs -> Runs] /\ run[p] \in Runs
  BY DEF Typed
<1>2. CASE Kill(p)
  <2>1. run'[p].at = "idle" /\ run'[p].end = "killed"
    BY <1>1, <1>2 DEF Kill, End, Idle
  <2>2. QED
    BY <2>1 DEF GoesOn
<1>3. CASE Unheeded(p)
  <2>1. /\ run'[p].at # "idle" /\ run'[p].bytes = run[p].bytes
        /\ run[p].at \in Answered => run'[p].at \in Answered
    BY <1>1, <1>3 DEF Unheeded, Step, Answered, Runs
  <2>2. QED
    BY <2>1 DEF GoesOn
<1>4. CASE Edit(p)
  <2>1. run[p].at # "idle" /\ run'[p].at = run[p].at /\ run'[p].bytes = run[p].bytes
    BY <1>1, <1>4 DEF Edit, Runs
  <2>2. QED
    BY <2>1 DEF GoesOn
<1>5. CASE run'[p] = run[p]
  BY <1>5 DEF GoesOn, Answered, WithTheCache
<1>6. QED
  BY <1>2, <1>3, <1>4, <1>5

\* Whatever another process removed or a directory refused, a run keeps the report
\* it has until it is published, and ends nowhere in the cache.
THEOREM NeverFailsHolds == Spec => NeverFailsADrc
<1>1. Typed /\ [Next]_vars => [\A p \in Procs : GoesOn(p)]_vars
  <2> SUFFICES ASSUME Typed, Next, NEW p \in Procs PROVE GoesOn(p)
    BY DEF Next
  <2>1. CASE Spoil \/ Hour
    BY <2>1, FaultGoesOn DEF Spoil, Hour
  <2>2. ASSUME NEW q \in Procs, q # p,
               Begin(q) \/ Proceed(q) \/ ListTemp(q) \/ Kill(q) \/ Unheeded(q) \/ Edit(q)
        PROVE  run'[p] = run[p]
    BY <2>2 DEF Typed, Begin, Proceed, ListTemp, Kill, Unheeded, Edit, Look, Touch, Judge,
                Publish, Kicad, Made, Store, Rename, Replaced, ListEntry, Listed,
                RemoveOldest, Evicted, Step, End
  <2>3. QED
    BY <2>1, <2>2, RunGoesOn, FaultGoesOn DEF Next
<1>2. Inv => Typed
  BY DEF Inv
<1>3. QED
  BY <1>1, <1>2, InvHolds, PTL DEF Spec, NeverFailsADrc

\* Processes that store side by side, each evicting by its own listing, leave
\* the cache within its bound once the last is done.
THEOREM BoundHolds == Spec => []WithinBoundAfterStores
<1>1. Inv => WithinBoundAfterStores
  BY DEF Inv, Bounded, Covers, Evicts, PresentKeys, WithinBoundAfterStores
<1>2. QED
  BY <1>1, InvHolds, PTL
=============================================================================
