------------------------------ MODULE DrcCache ------------------------------
(***************************************************************************)
(* The cache of KiCad's DRC reports (crates/pcb-kicad/src/drc_cache.rs,    *)
(* native_report.rs, run_report_command_cached): several processes with one*)
(* directory and no lock.  A process makes a report at a time, each for its*)
(* own output; every file operation is one step, and a process may be      *)
(* killed between any two.                                                 *)
(*                                                                         *)
(* A report is the version of the inputs that kicad-cli read; a hash is    *)
(* the version hashed.  The bound on bytes works as the one on entries and *)
(* is left out.  Any operation on the directory may fail.                  *)
(***************************************************************************)
EXTENDS Integers, FiniteSets

CONSTANTS
    Procs,
    Versions,       \* of the inputs: numbers above 0
    MaxEntries,     \* MAX_ENTRIES
    MaxRuns,        \* bound: reports made, all processes together
    MaxFaults       \* bound: kills, spoilt entries, edits during a run, failures

ASSUME CacheConstants ==
    /\ Versions \subseteq Nat \ {0} /\ Versions # {} /\ IsFiniteSet(Versions)
    /\ MaxEntries \in Nat \ {0} /\ MaxRuns \in Nat /\ MaxFaults \in Nat

VARIABLES
    entry,      \* the directory's entries, by key
    temps,      \* the directory's temporary files, by the run that wrote it
    input,      \* the files a process's report is to be of
    output,     \* what is published for it
    run,        \* where a process is and what it has read
    clock,      \* counts the uses of entries
    runs,       \* the number of runs begun
    faults,
    owed        \* whether the eviction of the last to store was cut short or failed

vars == <<entry, temps, input, output, run, clock, runs, faults, owed>>
directory == <<entry, temps>>
bounds == <<runs, faults>>

\* A file: the version it is of, whether it is whole, and whether the inputs
\* changed while it was made.
NoFile == [of |-> 0, whole |-> FALSE, mixed |-> FALSE]
File(of, mixed) == [of |-> of, whole |-> TRUE, mixed |-> mixed]

\* An entry: its file and its time of last use.
NoEntry == [file |-> NoFile, used |-> -1]
Present(k) == entry[k] # NoEntry

\* key: a hash, or 0 without a cache.  edited: whether the inputs changed
\* during the run.  unlisted, listed: the listing of evict.  doomed: what it
\* is to remove.
Idle ==
    [at |-> "idle", n |-> 0, key |-> 0, edited |-> FALSE, bytes |-> NoFile,
     unlisted |-> {}, listed |-> {}, doomed |-> {}, end |-> "none"]

Step(p, at) == run' = [run EXCEPT ![p].at = at]

\* How a run ends: its report published, with an error, or killed.
End(p, how) ==
    run' = [run EXCEPT ![p] = [Idle EXCEPT !.end = how, !.edited = run[p].edited]]

Init ==
    /\ \E S \in SUBSET Versions :
         /\ Cardinality(S) <= MaxEntries
         /\ entry = [k \in Versions |->
                IF k \in S THEN [file |-> File(k, FALSE), used |-> 0] ELSE NoEntry]
    /\ temps = [n \in 1..MaxRuns |-> "none"]
    /\ input = [p \in Procs |-> CHOOSE v \in Versions : TRUE]
    /\ output = [p \in Procs |-> NoFile]
    /\ run = [p \in Procs |-> Idle]
    /\ clock = 0 /\ runs = 0 /\ faults = 0 /\ owed = FALSE

---------------------------------------------------------------------------
(* A run *)

\* Mutant: the hash is of the board's name alone.
KeyOfTheName(v) == CHOOSE k \in Versions : TRUE
Key(v) == v

\* The old report is removed and the key taken, if there is a cache.
Begin(p) ==
    /\ run[p].at = "idle" /\ runs < MaxRuns
    /\ \E v \in Versions, cached \in BOOLEAN :
         /\ input' = [input EXCEPT ![p] = v]
         /\ run' = [run EXCEPT ![p] =
                [Idle EXCEPT !.at = IF cached THEN "look" ELSE "kicad",
                             !.n = runs + 1,
                             !.key = IF cached THEN Key(v) ELSE 0]]
    /\ output' = [output EXCEPT ![p] = NoFile]
    /\ runs' = runs + 1
    /\ UNCHANGED <<directory, clock, faults, owed>>

\* lookup: the bytes are read, and the entry, if it is still there (it, or
\* another's with its name), is marked as used.
Look(p) ==
    /\ run[p].at = "look"
    /\ IF Present(run[p].key)
       THEN run' = [run EXCEPT ![p].at = "touch", ![p].bytes = entry[run[p].key].file]
       ELSE Step(p, "kicad")
    /\ UNCHANGED <<directory, input, output, clock, bounds, owed>>

Touch(p) ==
    /\ run[p].at = "touch"
    /\ IF Present(run[p].key)
       THEN entry' = [entry EXCEPT ![run[p].key].used = clock + 1] /\ clock' = clock + 1
       ELSE UNCHANGED <<entry, clock>>
    /\ Step(p, "judge")
    /\ UNCHANGED <<temps, input, output, bounds, owed>>

\* Mutant: what the cache has is published as it is.
HitUnread(p) ==
    /\ run[p].at = "judge"
    /\ Step(p, "hit")
    /\ UNCHANGED <<directory, input, output, clock, bounds, owed>>

\* A report that validates is a hit; one that does not is discarded, by its
\* name.
Judge(p) ==
    /\ run[p].at = "judge"
    /\ IF run[p].bytes.whole
       THEN Step(p, "hit") /\ UNCHANGED entry
       ELSE Step(p, "kicad") /\ entry' = [entry EXCEPT ![run[p].key] = NoEntry]
    /\ UNCHANGED <<temps, input, output, clock, bounds, owed>>

\* write_atomically of the hit, or the rename of the fresh report.
Publish(p) ==
    /\ run[p].at \in {"hit", "fresh"}
    /\ \/ output' = [output EXCEPT ![p] = run[p].bytes] /\ End(p, "published")
       \/ UNCHANGED output /\ End(p, "failed")
    /\ UNCHANGED <<directory, input, clock, bounds, owed>>

\* run_bounded: kicad-cli reads the inputs; it may fail, or hang and be
\* killed.
Kicad(p) ==
    /\ run[p].at = "kicad"
    /\ \/ run' = [run EXCEPT ![p].at = "made", ![p].bytes = File(input[p], FALSE)]
       \/ End(p, "failed")
    /\ UNCHANGED <<directory, input, output, clock, bounds, owed>>

\* Mutant: a report made without a cache is stored all the same.
MadeStores(p) ==
    /\ run[p].at = "made"
    /\ run' = [run EXCEPT ![p].bytes.mixed = run[p].edited, ![p].at = "store"]
    /\ UNCHANGED <<directory, input, output, clock, bounds, owed>>

\* It ended well and its report validates.
Made(p) ==
    /\ run[p].at = "made"
    /\ run' = [run EXCEPT ![p].bytes.mixed = run[p].edited,
                          ![p].at = IF run[p].key = 0 THEN "fresh" ELSE "store"]
    /\ UNCHANGED <<directory, input, output, clock, bounds, owed>>

\* store: the temporary file; a directory that cannot be written is a line
\* on stderr.
Store(p) ==
    /\ run[p].at = "store"
    /\ \/ temps' = [temps EXCEPT ![run[p].n] = "new"] /\ Step(p, "rename")
       \/ UNCHANGED temps /\ Step(p, "fresh")
    /\ UNCHANGED <<entry, input, output, clock, bounds, owed>>

Replaced(p) ==
    /\ entry' = [entry EXCEPT ![run[p].key] = [file |-> run[p].bytes, used |-> clock + 1]]
    /\ clock' = clock + 1 /\ owed' = FALSE
    /\ run' = [run EXCEPT ![p].at = "list", ![p].unlisted = Versions]

\* Mutant: an error of the rename is the run's.
RenameOrFail(p) ==
    /\ run[p].at = "rename"
    /\ IF temps[run[p].n] # "none" THEN Replaced(p)
       ELSE End(p, "failed") /\ UNCHANGED <<entry, clock, owed>>
    /\ temps' = [temps EXCEPT ![run[p].n] = "none"]
    /\ UNCHANGED <<input, output, bounds>>

\* The rename: another process may have removed a file it took for a killed
\* one's.
Rename(p) ==
    /\ run[p].at = "rename"
    /\ IF temps[run[p].n] # "none" THEN Replaced(p)
       ELSE Step(p, "fresh") /\ UNCHANGED <<entry, clock, owed>>
    /\ temps' = [temps EXCEPT ![run[p].n] = "none"]
    /\ UNCHANGED <<input, output, bounds>>

---------------------------------------------------------------------------
(* evict *)

\* One file after the other: old temporary files go, the entries' times are
\* noted.
ListEntry(p) ==
    /\ run[p].at = "list"
    /\ \E k \in run[p].unlisted :
         run' = [run EXCEPT ![p].unlisted = @ \ {k},
                            ![p].listed = IF Present(k) THEN @ \cup {<<entry[k].used, k>>}
                                          ELSE @]
    /\ UNCHANGED <<directory, input, output, clock, bounds, owed>>

ListTemp(p) ==
    /\ run[p].at = "list"
    /\ \E n \in 1..MaxRuns : temps[n] = "old" /\ temps' = [temps EXCEPT ![n] = "none"]
    /\ UNCHANGED <<entry, input, output, run, clock, bounds, owed>>

\* What was used longest ago comes first, of the same time by name.
Before(a, b) == a[1] < b[1] \/ (a[1] = b[1] /\ a[2] < b[2])
Newer(x, listed) == {y \in listed : Before(x, y)}

\* The least recently used, until nine tenths of the bound remain.
Goal == (MaxEntries * 9) \div 10
Oldest(listed) == {x \in listed : Cardinality(Newer(x, listed)) >= Goal}

\* Mutant: a cache at its bound and one more is taken as within it.
DoomedPastOneMore(listed) ==
    IF Cardinality(listed) <= MaxEntries + 1 THEN {} ELSE Oldest(listed)
Doomed(listed) ==
    IF Cardinality(listed) <= MaxEntries THEN {} ELSE Oldest(listed)

Listed(p) ==
    /\ run[p].at = "list" /\ run[p].unlisted = {}
    /\ run' = [run EXCEPT ![p].at = "remove", ![p].listed = {},
                          ![p].doomed = Doomed(run[p].listed)]
    /\ UNCHANGED <<directory, input, output, clock, bounds, owed>>

RemoveOldest(p) ==
    /\ run[p].at = "remove"
    /\ \E x \in run[p].doomed :
         /\ \A y \in run[p].doomed : ~Before(y, x)
         /\ entry' = [entry EXCEPT ![x[2]] = NoEntry]
         /\ run' = [run EXCEPT ![p].doomed = @ \ {x}]
    /\ UNCHANGED <<temps, input, output, clock, bounds, owed>>

Evicted(p) ==
    /\ run[p].at = "remove" /\ run[p].doomed = {}
    /\ Step(p, "fresh")
    /\ UNCHANGED <<directory, input, output, clock, bounds, owed>>

---------------------------------------------------------------------------
(* What may go wrong *)

Fault == faults < MaxFaults /\ faults' = faults + 1 /\ UNCHANGED runs

Evicts(p) == run[p].at \in {"list", "remove"}

Kill(p) ==
    /\ run[p].at # "idle" /\ Fault
    /\ owed' = (owed \/ Evicts(p))
    /\ End(p, "killed")
    /\ UNCHANGED <<directory, input, output, clock>>

\* The entry cannot be read (it counts as none), marked or discarded, the rename
\* fails, or evict cannot read the directory, see an entry or remove one: none of it
\* is heeded.
Unheeded(p) ==
    /\ Fault
    /\ \/ run[p].at = "look" /\ Step(p, "kicad")
       \/ run[p].at = "touch" /\ Step(p, "judge")
       \/ run[p].at = "judge" /\ ~run[p].bytes.whole /\ Step(p, "kicad")
       \/ run[p].at = "rename" /\ Step(p, "fresh")
       \/ run[p].at = "list" /\ run[p].unlisted = Versions /\ Step(p, "fresh")
       \/ /\ run[p].at = "list"
          /\ \E k \in run[p].unlisted : run' = [run EXCEPT ![p].unlisted = @ \ {k}]
       \/ /\ run[p].at = "remove"
          /\ \E x \in run[p].doomed :
               /\ \A y \in run[p].doomed : ~Before(y, x)
               /\ run' = [run EXCEPT ![p].doomed = @ \ {x}]
    /\ temps' = IF run[p].at = "rename" THEN [temps EXCEPT ![run[p].n] = "none"] ELSE temps
    /\ owed' = (owed \/ Evicts(p))
    /\ UNCHANGED <<entry, input, output, clock>>

\* An entry's bytes are lost (the machine stops, the disk is full).
Spoil ==
    /\ Fault
    /\ \E k \in Versions :
         Present(k) /\ entry[k].file.whole /\ entry' = [entry EXCEPT ![k].file.whole = FALSE]
    /\ UNCHANGED <<temps, input, output, run, clock, owed>>

\* Someone writes the inputs while a report is made of them.
Edit(p) ==
    /\ run[p].at # "idle" /\ Fault
    /\ \E v \in Versions \ {input[p]} : input' = [input EXCEPT ![p] = v]
    /\ run' = [run EXCEPT ![p].edited = TRUE]
    /\ UNCHANGED <<directory, output, clock, owed>>

\* An hour passes: the temporary files there are old.
Hour ==
    /\ \E n \in 1..MaxRuns : temps[n] = "new"
    /\ temps' = [n \in 1..MaxRuns |-> IF temps[n] = "new" THEN "old" ELSE temps[n]]
    /\ UNCHANGED <<entry, input, output, run, clock, bounds, owed>>

Proceed(p) ==
    \/ Look(p) \/ Touch(p) \/ Judge(p) \/ Kicad(p) \/ Made(p) \/ Publish(p)
    \/ Store(p) \/ Rename(p) \/ ListEntry(p) \/ Listed(p) \/ RemoveOldest(p)
    \/ Evicted(p)

Next ==
    \/ \E p \in Procs :
         Begin(p) \/ Proceed(p) \/ ListTemp(p) \/ Kill(p) \/ Unheeded(p) \/ Edit(p)
    \/ Spoil \/ Hour

Spec == Init /\ [][Next]_vars

---------------------------------------------------------------------------
(* Properties *)

\* Every variable has its type; only a run with a key uses the directory.
TypeOK ==
    /\ \A k \in Versions : entry[k].used \in Int /\ entry[k].file.of \in Versions \cup {0}
    /\ temps \in [1..MaxRuns -> {"none", "new", "old"}]
    /\ input \in [Procs -> Versions]
    /\ \A p \in Procs :
         /\ output[p].of \in Versions \cup {0}
         /\ run[p].end \in {"none", "published", "failed", "killed"}
         /\ run[p].at \in {"look", "touch", "judge", "store", "rename", "list", "remove"}
            => run[p].key \in Versions

\* What is published is a whole report (a hit as a fresh one), whatever the
\* other processes renamed, removed or left behind and whatever was spoilt
\* (drc_cache.rs: "concurrent processes never see half an entry").
PublishedIsWhole == \A p \in Procs : output[p] # NoFile => output[p].whole

\* A caller cannot tell a hit from a fresh report: with inputs that nobody
\* wrote during the run the report published is of these inputs, if nobody
\* wrote those of the run that made it either.
PublishedIsOfTheInputs ==
    \A p \in Procs :
        LET made == IF run[p].at \in {"hit", "fresh"} THEN run[p].bytes ELSE output[p]
        IN  (made # NoFile /\ ~run[p].edited /\ ~made.mixed /\ run[p].at # "made")
            => made.of = input[p]

\* After a store the cache is within its bound: of those that store side by
\* side, each evicting by its own listing, the last leaves no more than
\* MAX_ENTRIES, unless it was killed or an operation of its eviction failed (then
\* the next to store does).
WithinBoundAfterStores ==
    (~owed /\ \A p \in Procs : ~Evicts(p))
        => Cardinality({k \in Versions : Present(k)}) <= MaxEntries

\* Where a run has its report, where it is busy with the cache, and where it
\* publishes.
Answered == {"hit", "store", "rename", "list", "remove", "fresh"}
WithTheCache == {"look", "touch", "judge", "store", "rename", "list", "remove"}
Publishing == {"hit", "fresh"}

\* How the run of p may go on: one that has its report keeps it, byte for byte,
\* until it is published or its output cannot be written; none ends while it is
\* busy with the cache, but killed.
GoesOn(p) ==
    LET ends == run'[p].at = "idle"
    IN  /\ run[p].at \in Answered /\ ~ends
           => run'[p].at \in Answered /\ run'[p].bytes = run[p].bytes
        /\ run[p].at \in Answered \cup WithTheCache /\ ends
           => \/ run'[p].end = "killed"
              \/ run[p].at \in Publishing /\ run'[p].end = "failed"
              \/ /\ run[p].at \in Publishing /\ run'[p].end = "published"
                 /\ output'[p] = run[p].bytes

\* The cache never fails a DRC (drc_cache.rs:39, "a cache that cannot be read or
\* written is skipped"): whatever of the directory fails, is gone, or is another
\* process's, a run goes on with the report it has, or to KiCad.
NeverFailsADrc == [][\A p \in Procs : GoesOn(p)]_vars
=============================================================================
