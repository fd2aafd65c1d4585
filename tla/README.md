# Verification of pcb-maker

pcb-maker places and routes KiCad boards and has KiCad check the result. Most
of the repository is sequential computation on one board: geometry, search,
annealing, reports. It has state worth a model checker in four places:

* where runs share a machine: the memory **ledger** (`crates/pcb-kicad/src/ledger.rs`,
  the same rules in `benchmarks/harness_common.py`), a harness's **gate** over it
  (`benchmarks/agent-tasks/run.py`) and the **cache** of KiCad's DRC reports;
* where one run routes a board many times: the **ladder** of attempts, side by
  side in threads, under bounds on its work, with panics;
* where placements **race** in a pool of threads;
* where the **router** negotiates: nets ripped up, searched and stamped against a
  shared occupancy, cut and resumed, given up, tried again and put back.

These are modelled and checked, and most of what the runs check is proved too,
for any instance; what is left to TLC is said below.

Source paths below are relative to the repository.

## The system

| Component | State | Operations | Interacts with | What is hard | What makes it correct |
|---|---|---|---|---|---|
| **Memory ledger** (`ledger.rs`) | the file: a reservation per process (held, waited for, since when, floor, end, priority, short) | `update` under a lock; the rules `may_hold`, `order_allows`, `drain_state`, `drain_allows`, `short_allows`, `binary_floor_allows` | every run and harness of the machine | order of requests, starvation, deadlock of growing runs, crashes, reused pids, a file that fails, different capacities read | at most one run past the capacity; nobody passes the first waiter; nobody waits for ever; the file says what runs hold |
| **A process's own part** (`OWN`, `hold`, `while_reserved`, `start_watchdog`) | own limit, children's part, checks running, waiting since | reserve, raise, check, give back, grow, end | the ledger; its watchdog thread; kicad-cli | two threads that read under one lock and write under another | the limit never falls; a check runs inside the reservation; one check's memory at most |
| **Harness side** (`harness_common.py`) | entries of boards under the harness's pid | `admit`, `withdraw`, `move`, `release` | the ledger; the board's binary | the hand-over to a binary, death of the harness, a floor only it sees | as the ledger's |
| **Memory gate** (`benchmarks/agent-tasks/run.py`) | token to reservation, who took it over | `admit`, `started`, `inside_environment`, `finished` | harness side | threads per board, binaries after the board's run | each binary inside one reservation |
| **Seed race** (`board_placer/seed_race.rs`) | batches, slots, the work used | `race_seeds`, `run_pool` | placer threads | seeds finish in any order | the kept seeds follow from their work alone |
| **DRC cache** (`drc_cache.rs`, `native_report.rs`) | a directory of reports by key | `lookup`, `store`, `discard`, `evict` | other processes' caches, kicad-cli | no lock: read, touch, evict and rename interleave | a hit is the whole report of its key; the bounds |
| **Routing ladder** (`board_router/ladder.rs`, `attempt.rs`, `budget.rs`, `memory.rs`) | rungs, the best result, the deadline | waves of rungs in threads | router, ledger | waves end in any order; deadline | the best finished result wins, the same for any thread count |
| **Router** (`pcb-router`) | occupancy, history, the nets' branches and stamps, links given up | negotiate in batches, cut and resume, give up, try again, repair hard, force | ladder (probes and their continuation), differential pairs (`GiveUp`) | counts changed by differences; several nets changed and put back; searches against one occupancy | occupancy equals the copper; the repaired board is free of conflict; all or nothing |
| **Layout flow** (`board_layout.rs`) | a board's stage | place, route, check, repair | all of the above | one step of several failing | the verdict is of the board written |
| **Work budgets** (`work_rate.rs`), **placer**, **global and topological routers**, **congestion model**, **verdicts, fab release**, **Freerouting backend**, **command line** | per call | functions of a board | | floating point, geometry | compared with references by the tests |

`PROJECT.json` lists each with its status and every hazard at its line.

## The modules

| Module | What it is |
|---|---|
| `LedgerRules` | the rules of admission as operators on a ledger: a function from identities (pids, boards) to reservations |
| `MemoryLedger` | the machine: binaries (main thread and watchdog), a harness's boards, the file with the entries of dead processes, the clock |
| `MCMemoryLedger` | the boards that the runs of TLC bring |
| `MCLedgerLiveness` | `MemoryLedger` with a clock that goes on for ever in finitely many states, fairness, and the liveness properties |
| `MemoryLedgerProofs` | the inductive invariant of `MemoryLedger` and its proof |
| `ProcessReservation` | one process lock by lock: its main thread and its watchdog, the other processes as the room they leave |
| `ProcessReservationProofs` | the inductive invariant of `ProcessReservation` and its proof |
| `HarnessGate` | a harness's boards and their binaries in the ledger: hand-over of a reservation, runs inside one, ancestors |
| `HarnessGateProofs` | the inductive invariant of `HarnessGate` and its proof |
| `LadderRules` | the ladder's decisions as operators: shares, projections, ranks, what the check gate wants checked |
| `Ladder` | the ladder with its attempts one after another: what each may start with, how it ends, what is kept |
| `LadderWaves` | the ladder as it runs, probes and rungs side by side; implements `Ladder` |
| `LadderProofs` | the inductive invariant of `LadderWaves` and its proof |
| `LadderInOrderProofs` | that each step of `LadderWaves` is one of `Ladder`'s or none |
| `MCLadder` | the ladders and boards that TLC takes |
| `SeedsInOrder` | the placement's seeds one after another |
| `SeedRace` | the batches and the thread pool; implements `SeedsInOrder` |
| `SeedRaceProofs` | the inductive invariant of `SeedRace`, and that its steps are those of `SeedsInOrder` |
| `DrcCache` | processes on one cache directory, each file operation a step |
| `DrcCacheProofs` | the inductive invariant of `DrcCache` and its proof |
| `MCDrcCache` | two processes none of which is told from the other |
| `Copper` | the nets' copper: branches, stamps, occupancy, conflicts, rip-ups, what a search may leave |
| `Negotiation` | the router's negotiation, a probe and its resume, links given up, the hard repair, forced connections |
| `MCNegotiation` | five nets on a row of nodes |

### How state and steps correspond to the code

**Reservations.** `ledger[r]` is the file's entry of `r`; a reservation with
nothing held and nothing waited for is no entry. The file is updated under an
exclusive lock, so each `update` closure is one step; `orphans` are the entries
whose process is gone, which `update` drops before it changes anything
(`Live`). A crash (`Crash`, `HarnessDies`) only adds to `orphans`; the entry
is still in the file when the same pid arms again.

**A try.** `TryHold` is `try_hold`: the answer of the rules (`Answer`), the
entry that replaces the process's (`Entry`: held, or what was held before with
the wish), and `OWN`. A refusal keeps what is held; less than is held always
goes; a ledger that cannot be written (`Writable`) lets the run go on `broken`.
`HoldRound` is one round of `hold`'s loop. A check (`StartCheck`, `EndCheck`)
is `while_reserved` with `set_checking`'s rewrite of the entry.

**The watchdog** (`Grow`, `BackWithin`, `Exceeded`) may act at any time after
the first hold. In `MemoryLedger` its reading of `OWN` and its try are one
step. In `ProcessReservation` they are two, as are `while_reserved`'s, and the
ledger is the `room` the others leave, which may change at any time.

**Boards.** `TryAdmit` is `try_admit`: the harness's rule (`MemoryRoom`: the
capacity and its floor, or alone), the order, the drain with its end exception
(strict past the bound), short requests.

**The environment** chooses at each try the capacity a process reads (each
keeps the headroom summary for 30 s, so two may differ), the memory available,
the measured floor and whether the file can be written.

**Megabytes and seconds** are small integers; the rules only add and compare
them. `Mb` sums reservations as the cardinality of the units they hold, which
is the sum and can be reasoned about with the library's theorems on
cardinality, where a recursive sum cannot. The drain's thresholds, which an
entry may carry of its own (`drain_after`, `drain_max`), are constants.

**Abstracted:** log lines and texts, labels, start ticks (a pid reused is a new
process: `Arm` starts from nothing), JSON. A run of `MemoryLedger` is started
directly, under no harness (`HarnessGate` has those that are). Two boards that begin to wait in one unit of
time are ordered by their number; the code's times are fractions of seconds.

**The harness's gate** (`HarnessGate`). A board's thread goes `out`, `held`
(`Admit`), `started`, `runs` (`HandOver`, which is `Ledger.move`), `ran`; a
binary run before its board's runs inside the board's entry, one after it
inside another entry (`AdmitAfter`). `TryHold` is `try_hold` with what
`MemoryLedger` leaves out: what was granted counts as the process's own limit
(a check comes on top of it), what it runs inside is taken off, the harness's
entries are left out of the holders. The order, the drain and the floor are
`passed`, any answer: they are `MemoryLedger`'s, and a request larger than the
capacity is not ended here. `inside_environment` gives no ticks of the process,
so a pid that came back is taken for the binary, or a gone one ends in
`StartOutside`.

**The ladder** (`Ladder`). An attempt begins (`Begin...`: which guard lets it,
which limit it gets, as the code computes them at that moment), then ends with
any board of `Boards` after any work up to its limit and an overrun, in a panic
of the attempt or of its check, or in an error that ends the ladder. `Judged`
and `RankOf` are the check gate and the rank; `Charge` is what is charged.
The check gate's `counts` start with the caller's board (`measures`) where there is
one, in a layout's final ladder. `LadderWaves` keeps these decisions and adds the threads: `StartWave` takes the
limits of all rungs it starts at once, `RouteEnds` comes in any order, judging
follows rung order. Units are minutes of work. `Widths` (how many side by side)
is any width, since the ledger decides it; `fit` says on which lattice the
memory suffices. Left out: the negotiation's budgets inside an attempt, the
part of a limit that is search, the charges of lattices and lowering, a pour's
loss charge, `keep_for_continuation`, the test hooks. A rung's wall-clock guard
stops it as its work limit does.

**The seed race** (`SeedRace`). `Take` is the pool's `fetch_add`, `Finish` the
slot written, `Unwind` the panic that the join passes on; `Keep` and `EndBatch`
are the sequential part after the join.

**The cache** (`DrcCache`). Each call to the file system is a step: read, touch,
write of the temporary file, rename, listing entry by entry, removal. `Kill`
ends a process between any two, `Spoil` is a file that lost its bytes (nothing
is synced), `Edit` another's write to the inputs during the run, `Hour` the age
at which `evict` removes temporary files. A report made while its inputs were
edited is `mixed`: the key is of the inputs before, and the entry may hold it.
`Unheeded` is an operation on the directory that fails and that the code ignores:
an entry that cannot be read, marked or discarded, a rename, evict's `read_dir`,
the metadata of an entry, a removal (`drc_cache.rs:417`, `:457`). A run ends in
`published`, in `failed` (the `Err` of KiCad's call or of the output's publication),
or is killed. The bound on bytes works as that on entries and is left out.

**The router** (`Copper`, `Negotiation`). A branch joins a terminal to its net's
tree; a net's copper stamps the cells other nets must keep out of, and `occ`
counts stamps per cell, changed by the difference to the stamps the net
remembers (`stamped`), as `stamp` does. A search may return any set of
branches the constants offer that leaves no reachable terminal open: cost,
price and history only choose among them. One of the negotiation's for a net that
is blocked may leave any open, since the code then leaves terminals out
(`unreachable`, `route_net.rs:296`) and keeps to corridors after two hopeless
searches (`:486`). (A forced connection lifts the mark and not the list, so that the
net's next search may leave a terminal out too; no property tells this apart.) So the price appears only where the
code compares it (`give_up.rs`) and where a resumed negotiation must go on at it.
`rip`, `search` and `stamp` are the three parts of a batch; the searches of a
batch all see the occupancy the rip-ups left, in a pool or in turn. The stops
of the negotiation (stalled, work, wall clock, hopeless) and the budgets of the
repair are any. Nets are numbered in routing order, so that the code's lists of
nets are sets with a first one; two lists end in a part that comes last, which
`added` (what a give-up appends) and the links say. What the code does to several
nets one after another and to each by itself (stamping a batch, stripping a link's
nets, putting them back) is done to all of them at once. Left out: pour nets and
their refresh, corridors, buses, window growth, replanning, negotiations nested
in the via reduction or the residue repair, `skip_resolve`, trouble and residue
repairs, clean-up, spokes. `conflicts` stands for tracks and vias alike.

`RepairedIsApart` is about the nets of `order`, the routing order taken before the
negotiation (`driver.rs:25`): a net of a pair that becomes routable only when the
pair's link is given up is in no later list of it (`give_up.rs:236`,
`global.rs:144`), so that the repair, which goes over `order` alone
(`resolve.rs:16`), takes no account of a conflict between two such nets.

## What the runs check

| Run | Instance | Shows |
|---|---|---|
| `Capacity` | 2 binaries, one with checks, one of a short command; capacities 3 and 4 read at will; the file may fail; sizes 2 and 5; two times | `OnlyTheOldestOvercommits`, `FileSaysWhatRunsHold`, `TypeOK` through every order of reserving, waiting, growing, checking, ending, crashing, and pids that come back |
| `Order` | 1 binary, 3 boards (each a large one of the nightly or a small ordinary one); memory available 4 or 8; floor 1 | `FirstWaiterKeepsItsRoom`, an action property: no step of a later request takes the room of the first waiter; `OnlyTheOldestOvercommits` with the harness's rule |
| `Starvation` | 2 binaries that come, run and go for ever, a board of 3 with floor 2 of 5 available | `EveryBoardStarts`: without the drain the stream keeps the board out for ever |
| `HolderGoesOn` | 2 binaries that both grow | `EveryHolderGoesOn`: no two holders wait for each other for ever |
| `CheckInside` | one process, its two threads lock by lock, room 0, 3 or 5 | `OwnLimitOnlyGrows`, `OneCheckAtMost`, `ChecksRunInsideUpFront`, `TypeOK` |
| `HarnessGate` | 2 boards, capacity 4, peak 2 | `BinariesAreCovered`, `GrantIsKept`, `ReservedOnce` through refusals, waits, ends, crashes and the harness's death, and `GrantedGoesOn`: a binary that waited before the hand-over goes on after it |
| `SeedRace` | 5 seeds, pools of 1 and 3 threads, works 0, 2, 3, limits none, 4 and 7 | `KeptInOrder` (the refinement, with its fairness), `EachSeedOnce`, `ClockOfThePool` |
| `DrcCache` | 2 processes, 3 reports, 3 keys, 2 entries, 1 fault | `PublishedIsWhole`, `PublishedIsOfTheInputs`, `WithinBoundAfterStores`, and `NeverFailsADrc`, an action property: a run that has its report keeps it to the end, and none ends while it is busy with the cache |
| `Ladder` | five kinds of ladder: route mode on two layers with a deadline and on four with probes, a layout's on two and on four, its final one | `AsOneAfterAnother` (the refinement), `BestIsLeast`, `OutputIsBest`, `WithinBound`, `ReserveIsThere`, `CompleteEnds`, `NoRungDirectoryLeft` |
| `Negotiation` | a signal, a pair's net, its link, a net of two branches with a fixed stub, a link without a way; four iterations | `OccupancyIsCopper`, `RepairedIsApart`, `CutGoesOn`, `AllOrNothing`, `TypeOK` |

Two runs end in a counterexample; each is a place where the repository's text
says something of the program that the program does not do.

| Run | Text | Counterexample |
|---|---|---|
| `CheckOutside` | "Every kicad-cli that loads a board runs inside its process's reservation" | the watchdog read the children's part before the main thread raised it, writes it back after, and the check runs without it |
| `ReleasedRouted` | links given up "lose their copper and are not routed again" (`give_up.rs:168`) | `resume_polished` takes the routing order, then finishes the iteration its probe was cut in; a link given up at that iteration's end is incomplete and still in the order, and is searched and stamped again while marked as released (`driver.rs:98`). A later try of it prepares its state afresh without stripping it. The feature (`diff_pair_give_up`) is off by default |

`Negotiation` takes probes without links to give up, and runs with them, so that
its properties are not judged on states that only this reaches; with that
restriction `ReleasedStayOut` holds. (Without it `OccupancyIsCopper` fails too, where
the try prepares a state whose stamps are still counted.)

### Seen while modelling, without a run of its own

Ledger: a raise of the watchdog rewrites the entry the main thread waits with
(`ledger.rs:1493`), against the module's text; past its bound the drain goes on,
strictly (`:894`), against the comments of the module and of `DRAIN_MAX`; a short
run keeps its mark when it grows (`:1453`); growth is exempt from the order, so
that runs that start small and grow may starve a waiter (`:1414`); the entries a
harness holds for its other boards count as ancestors' and are left out of the
holders a board's binary waits for (`:683`, against `:657`).

Ladder: a layout's rung in the same wave as the one that completes the board was
routed with the reserve taken off, one after it is not (`ladder.rs:2109`, against
the comment at `:2172`); it stays within the limit it would have had alone, which
is what `AsOneAfterAnother` says. A rung whose check panics is dropped before its
work is charged (`:2322`): `WithinBound` is of the work charged.
`continue_probe` writes the output directory before its board is judged
(`:1750`), and a ladder that ends without a best leaves it there: `OutputIsBest` is of
a ladder that has one. An extra rung after a clean skeleton whose attempt panics lets the
ladder go on with a complete board (hence `failed` in `CompleteEnds`).

Cache: inputs written between the hash and kicad-cli's reading of them are reported
under the key of the old ones (`native_report.rs:435`): `PublishedIsOfTheInputs` says
nothing of such a report. Two processes that evict at the same time may remove more
than either meant to, even every entry, when each spares others as the newest
(`drc_cache.rs:451`; "what is gone is gone", `:413`): `WithinBoundAfterStores` is an
upper bound. A removal that fails leaves the cache past its bound until the next
store.

Harness: when it is killed its entries are dropped, and a binary that runs on inside
one counts on memory nobody reserves (`run.py:1336`): `BinariesAreCovered` is of a
harness that lives.

Seed race: a seed past the budget that panics ends the race, though its result
would have counted for nothing.

Router: "The nets of a batch do not overlap: routing them against the same
occupancy is the same as routing them in turn" (`batching.rs:70`) holds of the
windows that made the batch; a search whose corridor or widened window leaves
them may meet a mate of its batch, which the next iteration counts as a conflict.

### Bounds, and why they are enough

Two binaries are what deadlock, overcommit and reuse need: a third holder adds
another that the oldest is compared with, and the theorems cover any number.
Sizes 2 and 5 beside capacities 3 and 4 give a run that fits, one that fits
only alone and one that is too large. `Order` needs three boards (the waiter,
one before it in rank, one that comes later) and a binary that grows between
them; the smaller of the memories available makes the floor bind, the larger
one lets the ledger be overcommitted. The nightly's boards drain at once and rank
before the others; the binary and the small boards wait in the ordinary rank.
One unit of time passes in `Capacity`
and `Order`: what matters is whether a reservation began before, in, or after
the unit a wait began in.

For liveness a bounded clock would just stop. `MCLedgerLiveness` renames the
times in use after each unit so that their order and every difference up to one
past the largest threshold stay: the rules only compare times and compare
differences with the thresholds. The clock waits for the polls of those who
wait (2 and 15 s against the 120 s after which an entry is stale).

`HarnessGate`: two boards are one that holds and one that waits for it; the
capacity is two peaks, so that a binary's own request fits before, with or
without the hand-over of the other. `SeedRace`: five seeds and three threads
give a first batch of the minimum, later ones by the mean work, a pool smaller
and one larger than a batch; a seed of work 0 makes the mean 0. `DrcCache`: three
keys against two entries make each store evict; a third process could only do
what one of the two does between two steps of the other; the three reports may
be split as three and none, or two and one. `Ladder`: work is taken at its
least, its most and at multiples of `Grain` (the abstract ladder of the
refinement allows every amount); two lattices, three rungs, four boards that
differ in each measure the rank and the gate compare; the budgets are such that
rungs, retries, a seed round and steps are each sometimes short of time.
`Negotiation`: a row of ten nodes, each kept clear by its neighbours. The
instance was chosen so that a link's try stands, fails at the link and fails at
its nets; a link goes for each of the two reasons; a forced connection stands,
fails after displacing, and fails by `MaxInvolved`; a whole rip-up happens in
conflict; a rip-up leaves a branch dangling; two nets of one batch collide. No net of it is reachable in part, so that what a
blocked net's search leaves open is covered by the theorems alone.
`PriceCap` 2 is the price capped after two growths, `StuckWhole` is 2 for 8,
`ForceRounds` 2 for 16.

### Fairness

`HarnessGate` is weakly fair to the polls of a binary that waits and to the
hand-over (the thread that started the binary calls it next). `SeedRace` is
weakly fair to the caller and to each thread, which the operating system runs.
The ladder, the cache and the negotiation have only safety properties: their
steps end by limits that are choices here.

`LiveSpec` is fair to time (strongly: it is held up while a process between
`arm` and its first reservation is in the same unit), to the polls of each
process that waits (a sleep of constant length in a loop) and to the end of a
run or board that holds its memory and does not wait (routes, layouts and
checks have deadlines). Nothing is assumed of new requests, which may come for
ever, or of crashes, withdrawals and growth, which need not come.

## What is proved

For every number of runs and boards, every capacity, size, floor and threshold
that `LedgerConstants` and `RuleConstants` allow (natural numbers, a bound on
the capacities read, finitely many identities):

* `InductiveHolds`: `Spec => []Inductive`, whence `TypeHolds`,
  `OvercommitHolds` and `FileHolds`.

`OnlyTheOldestOvercommits` alone is not inductive: `may_hold` compares the
start in the others' entries with the asking run's own, so the entry must have
the start its run ranks by, and a run admitted as the oldest must hold in the
file what it holds in `OWN` (`FileSaysWhatRunsHold`), or a shrinking entry of
another would make it a second one; a process that has not armed counts on
nothing, or a pid that comes back would count on its predecessor's. The proof
goes by what a step does to the ledger, not by the step: dropping or lowering
entries keeps the invariant (`WithinShrinks`), raising one entry keeps it when
`may_hold` allows it (`WithinGrows`, which is where the oldest of the holders
is used), an own entry rewritten at no more keeps it. Under them are the sums:
monotone, and split into one entry and the others (`MbMonotone`, `MbSplit`),
from the library's theorems on cardinality.

* `RoomHolds`: `Spec => FirstWaiterKeepsItsRoom`. A step rewrites one entry, or
  takes entries out (`OneMoves`), and an entry written holds no more than before
  since when it did, or grows, or is of a request that is short or that
  `order_allows` let go (`Moved`). `order_allows` is asked with the asking run's own
  `waiting_since`, though, which the others cannot see: the property needs it to be
  what the entry says, or the request would pass the first waiter with a key
  nobody compares it with. This is `AllTold`: a run that can write the file and
  holds nothing waits in it since when its own part says, what it holds it holds in
  the file since when and as short as its own part says, and a board's entry waits
  as its harness does. It holds through the watchdog's tries and the marks of checks
  (`Moves`, `MarkMoves`), and beside the invariant above it is inductive.

For any process, check and room (`ProcessReservationProofs`):

* `UpFrontHolds`: a check reserved up front runs inside the reservation. The
  invariant follows the children's part through every reading a thread carries
  between two locks: once it is one check, every reading says so.
* `OneCheckHolds`: the children's part is at most one check, because a raise
  is what lacks of one and every reading carried is bounded by it.
* `OwnLimitHolds`: no step of either thread lowers the limit.

For any seeds, batches and numbers of threads of which one is the largest
(`SeedRaceProofs`):

* `OnceHolds`: each seed of a batch is annealed once, by one thread. The
  invariant is about the counter: every index below it is a thread's, or in its
  slot, or lost with a panic, and a thread that ended without one left no index
  of the batch untaken (`PoolTakesOnce`).
* `RaceKeepsInOrder`: the safety part of `KeptInOrder`, the refinement of
  `SeedsInOrder`. What is kept are the first seeds, all that were looked at
  (`KeptAreFirst`): keeping one is the abstract step, ending a batch is the
  abstract end or nothing, and so is a panic, which needs a seed that panics.

For any boards, capacity, peaks and sizes (`HarnessGateProofs`):

* `CoverHolds`, `GrantHolds`, `OnceHolds`: a binary's memory is covered by its own
  entry and the one it runs inside; a board keeps what it was admitted with; it
  is reserved under one pid. The invariant is per board, in three parts: what the
  harness holds at each place of the board's thread, what the binary counts on,
  and that from the hand-over on what was granted to the board is the binary's
  (the larger of what its entry says was granted and what it read of it).

For any processes, keys and files, with finitely many keys (`DrcCacheProofs`):

* `WholeHolds`, `OfTheInputsHolds`: what is at a key is a report of
  the key's inputs, or one made while they were edited, or has lost its bytes;
  what a process carries from one step to the next is no worse (`RunOK`).
* `NeverFailsHolds`: `Spec => NeverFailsADrc`. Each step of a run, and each fault,
  takes it on with the report it has, or to KiCad, or publishes it (`RunGoesOn`,
  `FaultGoesOn`).
* `BoundHolds`: once no eviction is owed, the cache is within its bound. While it is
  past it, a process evicts: it has seen every entry or will (`Covers`), and
  what is to be removed leaves no more than the bound. That the removals suffice
  is a fact of the order by age: the newer ones of the k-th are k - 1.

For any ladder `LadderConstants` allows: any rungs, lattices, boards, budgets,
seeds and number of rungs side by side (`LadderProofs`):

* `OutputHolds`, `LeastHolds`: the output directory holds the best board, and no
  board that could have been kept ranks before it. The invariant (`BestKept`)
  has to follow a rung's board while its seeds route: it is the best of those
  noted then, though not yet kept.
* `CompleteHolds`: a complete board ends the ladder. The attempts begun on one are
  counted by the kind that routes (`CompleteIsLast`); seeds are tried after the last
  rung only, so that a wave has nothing left to start then (`RetryIsLast`).
* `BoundHolds`, `ReserveHolds`: the work within the bound, the reserve kept for the
  steps. What is promised counts like what is spent (`Fits`): an attempt's limit
  times its routers, a wave's share times its rungs, a probing's limit times its
  probes. Each attempt's end takes back at least what it was promised; the sums
  need what `LadderRules` shares out to be no more than what there is (`RungShares`).
  The reserve is set once, with the overrun up to then (`ReserveSetOnce`).
* `DirectoriesHold`: no rung's directory is left. `TypeHolds`: the types, and that no
  rung of a wave has run (`WavesInOrder`: those of a wave are the first to come).

and that it implements the ladder with its attempts one after another
(`LadderInOrderProofs`):

* `OneAfterAnother`: `WavesSpec => AsOneAfterAnother`. The abstract ladder's
  definitions are the ladder's but for the amounts of work an attempt may do
  (`SameSteps`). Starting a wave and the end of a thread are no steps of it. A rung
  judged ends as one that ran alone could have: what it was given when its wave
  started is no more than it would be given now (`GivenHolds`). In route mode both are
  the plan's share; in a layout the limit would have grown, as the first board of the
  pitch may only lower what is kept for the steps.

For any nets, lattice, links, paths and bounds that `CopperConstants` and
`NegotiationConstants` allow (finitely many nets and cells; a zone that is
symmetric; stubs of different nets apart), in runs, in probes, and after the resume
of a probe whose board has no links to give up (`NegotiationProofs`):

* `OccupancyFollows`, `NegotiationTypes`: the occupancy counts the copper there is. The
  invariant (`Inv`) is that the occupancy counts the stamps the nets remember, and
  that a net's stamps are the zones of its copper but between its search and its
  stamp. It is kept by the difference a restamp counts (`RestampSound`) as long as
  no state is made afresh over stamps that are counted. That is where a link's try
  is delicate: the link's state is prepared without being stripped, which needs a
  link given up to be bare (`GoneAreBare`), which needs it to be in none of the
  lists that are still to be routed (`GoneStayOut`) - what fails in `ReleasedRouted`,
  after a resume, and why the theorems say `mode # "resumed" \/ ~gives`.
* `CutsGoOn`: an iteration searches each of its nets once, at the price of the
  iterations before, cut or not. The invariant counts what is still to search: of
  the batch, of what is in no batch yet, or of the rest a cut left.
* `RepairedAreApart`, `TriesAreAllOrNothing`: the repair leaves no two nets' copper
  too close, and a try or a forced connection ends with its nets complete and out of
  conflict or with the copper it found. Both rest on `RepairHolds`, on top of `Inv`.
  A net is clear (`Clear`) when no other net stamps a node of its branches that are
  not fixed; with the occupancy right that is to be in no conflict
  (`ClearIsNoConflict`). It is kept by a rip-up (`RipUpClear`) and by a hard search
  (`HardClear`: the new path is where nobody stamps, so that, zones being symmetric,
  nobody's nodes are where it stamps), is had by all of `order` when no net is
  contested, and is lost by a forced connection alone. Meanwhile `TryKeeps` says that what
  was saved is what the nets were, and that the nets not saved are as they were. So
  taking back gives what there was (`AsBeforeClear`), and a connection that stands
  leaves the nets it did not touch clear too (`StandsClear`): the copper it moved is
  clear of them by its own conflicts, and the fixed branches, which its searches
  cannot add (`Held`), were clear of them before. Two fixed branches are apart from
  the start (`CopperConstants`), as a conflict does not count them.

Only model-checked:

* liveness, since temporal reasoning with fairness is outside the prover:
  `EveryBoardStarts`, `EveryHolderGoesOn`, `GrantedGoesOn`, the fairness of
  `KeptInOrder`;
* `ClockOfThePool`, which is about a greedy schedule that the model computes by a fold
  over the batch: what a fold computes needs induction over data.

In models that proofs are about, lists whose order is that of their numbers are
sets with a first element (`First`, a plan's rungs; an eviction's `doomed`), which a
prover can reason about without induction.

## What is not modelled, and the plan

Every invariant and action property of the passing runs is a theorem, but for
`ClockOfThePool`.

Models left: the ledger's file itself (lock file, temporary file and rename
under crashes, of which `MemoryLedger`'s single step is the abstraction), and
more of the router: the trouble and residue repairs, the via reduction's nested
negotiations, a layout's `update` of a negotiated board.

The modules stand for a small part of the repository's lines. The rest is
geometry, search, annealing, floating-point estimates and quantiles, import and
export of file formats, verdicts and reports: functions of their input, compared
with references by the repository's tests. They have no state that several
actors change, no order that could be another, and nothing a bounded check over
abstract inputs would tell that the tests do not.
