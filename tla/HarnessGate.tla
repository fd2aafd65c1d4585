---------------------------- MODULE HarnessGate ----------------------------
(***************************************************************************)
(* A harness's boards and their binaries in the memory ledger              *)
(* (benchmarks/agent-tasks/run.py, MemoryGate; benchmarks/harness_common.py,*)
(* Ledger.move; crates/pcb-kicad/src/ledger.rs, try_hold).  A board's      *)
(* thread reserves the board's expected peak, runs the binaries before its *)
(* run inside that reservation, starts the board's binary and hands it the *)
(* reservation, and runs the binaries after it inside one more.  A binary  *)
(* reserves for itself meanwhile: before the hand-over, after it, inside.  *)
(*                                                                         *)
(* Each update of the ledger is one step.  The rules that hold a new       *)
(* request back (the order, the drain, the floor) are MemoryLedger's: here *)
(* one may be held back at any time.  Identities: a board b is its harness's*)
(* entry for it, Pid(b) the process that runs for it now.                  *)
(***************************************************************************)
EXTENDS LedgerRules, Sequences

CONSTANTS
    Boards,     \* numbers
    Capacity,   \* capacity_mb
    Peaks,      \* what a board may be expected to take
    AfterRun,   \* AFTER_RUN_MB
    Sizes       \* what a binary may ask to hold of its own

Pid(b) == 100 + b
Pids == {Pid(b) : b \in Boards}
Ids == Boards \cup Pids

ASSUME GateConstants ==
    /\ Boards \subseteq 1..99 /\ Capacity \in Nat
    /\ Peaks \subseteq Nat \ {0} /\ AfterRun \in Nat \ {0} /\ Sizes \subseteq Nat \ {0}

VARIABLES
    ledger,     \* the reservations in the file
    orphans,    \* the entries whose process is gone
    gate,       \* what the gate knows of each board: keys, moved
    at,         \* where the board's thread is
    binary,     \* the process that runs for the board
    starts,     \* who reserved or started, oldest first
    dead        \* whether the harness was killed

vars == <<ledger, orphans, gate, at, binary, starts, dead>>

\* An entry: the start it ranks by is that of `from`.
NoHold == [mb |-> 0, wants |-> 0, from |-> 0, granted |-> 0]

\* keys: "none", "board" (its own entry), "moved" (its entry, under the
\* binary's pid); moved: whether the board's binary took it over.
NoToken == [key |-> "none", moved |-> FALSE, peak |-> 0]

NoBinary ==
    [pc |-> "none", base |-> 0, extra |-> 0, granted |-> 0, inside |-> 0,
     want |-> <<0, 0>>]

Live == [r \in Ids |-> IF r \in orphans THEN NoHold ELSE ledger[r]]
Write(L) == ledger' = L /\ orphans' = {}

Runs(b) == binary[b].pc \in {"idle", "waiting"}
OthersOf(me) == Ids \ {me}
Older(r, s) ==
    \E i, j \in DOMAIN starts : i < j /\ starts[i] = r /\ starts[j] = s
Without(seq, x) == SelectSeq(seq, LAMBDA y : y # x)
Latest(x) == starts' = Append(Without(starts, x), x)

---------------------------------------------------------------------------
Init ==
    /\ ledger = [r \in Ids |-> NoHold] /\ orphans = {}
    /\ gate = [b \in Boards |-> NoToken]
    /\ at = [b \in Boards |-> "out"]
    /\ binary = [b \in Boards |-> NoBinary]
    /\ starts = <<>> /\ dead = FALSE

---------------------------------------------------------------------------
(* A binary *)

\* The harness's entries are those of a process above the binary.
Above == IF dead THEN {} ELSE Boards

\* may_hold, with the ancestors' reservations left out of the holders.
MayHoldBelow(L, me, held, wanted) ==
    LET holders == Holders(L, OthersOf(me) \ Above)
    IN  \/ Mb(L, OthersOf(me)) + wanted <= Capacity
        \/ holders = {}
        \/ held > 0 /\ \A r \in holders : L[r].wants > 0 /\ Older(me, L[r].from)

\* What a harness handed over, read from the entry or before.
Granted(L, b) == Larger(L[Pid(b)].granted, binary[b].granted)

\* Mutant: less than the reservation it runs inside counts as less than none.
BeyondUnclamped(mb, inside) == mb - inside

\* What is the binary's own beyond the reservation it runs inside.
Beyond(mb, inside) == Larger(mb - inside, 0)

\* try_hold: the entry of the binary and its own part after it.  `passed` is
\* what the order, the drain and the floor say of a new request.
TryHold(b, wish, extra, wait, passed) ==
    LET me      == Pid(b)
        L       == Live
        o       == binary[b]
        granted == Granted(L, b)
        base    == Larger(Larger(wish, o.base), granted)
        wanted  == base + extra
        held    == Larger(o.base, granted) + o.extra
        inside  == IF o.inside = 0 THEN 0 ELSE L[o.inside].mb
        new     == held = 0 /\ \A r \in Above \cup {me} : L[r].mb = 0
        fits    == /\ \/ MayHoldBelow(L, me, held, Beyond(wanted, inside))
                      \/ held > 0 /\ wanted <= held
                   /\ ~new \/ passed
        entry(mb, wants) ==
            IF mb = 0 /\ wants = 0 THEN NoHold
            ELSE [mb |-> mb, wants |-> wants, from |-> me, granted |-> granted]
    IN  IF fits
        THEN [held |-> TRUE,
              ledger |-> [L EXCEPT ![me] = entry(Beyond(wanted, inside), 0)],
              own |-> [o EXCEPT !.base = base, !.extra = extra, !.granted = granted]]
        ELSE [held |-> FALSE,
              ledger |-> [L EXCEPT ![me] =
                  IF wait \/ held > 0
                  THEN entry(Beyond(held, inside), IF wait THEN wanted ELSE 0)
                  ELSE NoHold],
              own |-> [o EXCEPT !.base = Larger(@, granted), !.granted = granted]]

HoldRound(b, base, extra) ==
    \E passed \in BOOLEAN :
    \E try \in {TryHold(b, base, extra, TRUE, passed)} :
        /\ Write(try.ledger)
        /\ binary' = [binary EXCEPT ![b] =
              IF try.held THEN [try.own EXCEPT !.pc = "idle", !.want = <<0, 0>>]
              ELSE [try.own EXCEPT !.pc = "waiting", !.want = <<base, extra>>]]
        /\ UNCHANGED <<gate, at, starts, dead>>

\* reserve_at_least, and a check's memory raised for it (while_reserved).
Reserve(b) ==
    /\ binary[b].pc = "idle"
    /\ \/ \E size \in Sizes : size > binary[b].base /\ HoldRound(b, size, binary[b].extra)
       \/ binary[b].extra = 0 /\ HoldRound(b, binary[b].base, KicadCheck)

\* Mutant: only a request that holds nothing yet is tried again.
PollWhileNothingHeld(b) ==
    /\ binary[b].pc = "waiting" /\ Live[Pid(b)].mb = 0
    /\ HoldRound(b, binary[b].want[1], binary[b].want[2])

\* hold's next try.
Poll(b) ==
    /\ binary[b].pc = "waiting"
    /\ HoldRound(b, binary[b].want[1], binary[b].want[2])

\* The watchdog's raise, and the check's memory given back: tries that do not
\* wait.
TryOnce(b) ==
    \E try \in {TryHold(b, size, binary[b].extra, FALSE, TRUE) :
                    size \in {s \in Sizes : binary[b].base > 0 /\ s > binary[b].base}}
               \cup {TryHold(b, binary[b].base, 0, FALSE, TRUE) :
                    none \in {n \in {0} : binary[b].pc = "idle" /\ binary[b].extra > 0}} :
        /\ Runs(b)
        /\ Write(try.ledger)
        /\ binary' = [binary EXCEPT ![b] = try.own]
        /\ UNCHANGED <<gate, at, starts, dead>>

\* It ends by itself, with its entry removed, or is killed.
Gone(b) ==
    /\ Runs(b)
    /\ binary' = [binary EXCEPT ![b] = [NoBinary EXCEPT !.pc = "ended"]]
    /\ starts' = Without(starts, Pid(b))
    /\ UNCHANGED <<gate, at, dead>>

Exit(b) == Gone(b) /\ Write([Live EXCEPT ![Pid(b)] = NoHold])
Crash(b) == Gone(b) /\ orphans' = orphans \cup {Pid(b)} /\ UNCHANGED ledger

---------------------------------------------------------------------------
(* The board's thread and the gate *)

Idle(b) == ~dead /\ binary[b].pc = "none"

\* admit: the board's expected peak, reserved at once.
Admit(b) ==
    /\ ~dead /\ at[b] = "out"
    /\ \E peak \in Peaks :
         /\ Mb(Live, Ids) + peak <= Capacity \/ Holders(Live, Ids) = {}
         /\ Write([Live EXCEPT ![b] = [mb |-> peak, wants |-> 0, from |-> b, granted |-> 0]])
         /\ gate' = [gate EXCEPT ![b] = [key |-> "board", moved |-> FALSE, peak |-> peak]]
    /\ at' = [at EXCEPT ![b] = "held"]
    /\ Latest(b)
    /\ UNCHANGED <<binary, dead>>

\* A process for the board: the new pid's entry is nobody's yet.
Spawn(b, inside) ==
    /\ binary' = [binary EXCEPT ![b] = [NoBinary EXCEPT !.pc = "idle", !.inside = inside]]
    /\ Latest(Pid(b))

\* inside_environment while the gate holds the board's entry.
StartInside(b) ==
    /\ Idle(b) /\ at[b] = "held"
    /\ Spawn(b, IF gate[b].key = "board" THEN b ELSE 0)
    /\ UNCHANGED <<ledger, orphans, gate, at, dead>>

\* run_measured starts the board's binary, and hands over in on_start.
StartBinary(b) ==
    /\ Idle(b) /\ at[b] = "held" /\ gate[b].key = "board" /\ gate[b].peak > 0
    /\ Spawn(b, 0)
    /\ at' = [at EXCEPT ![b] = "started"]
    /\ UNCHANGED <<ledger, orphans, gate, dead>>

\* Mutant: a binary that reserved for itself keeps what it asked for.
MoveToTheirs(L, b) ==
    IF L[b].mb = 0 THEN L
    ELSE IF L[Pid(b)] # NoHold
    THEN [L EXCEPT ![b] = NoHold, ![Pid(b)].granted = Larger(@, L[b].mb)]
    ELSE [L EXCEPT ![b] = NoHold, ![Pid(b)] = [L[b] EXCEPT !.granted = L[b].mb]]

\* Mutant: the binary's own, which may be more by now, is overwritten.
MoveOverTheirs(L, b) ==
    IF L[b].mb = 0 THEN L
    ELSE [L EXCEPT ![b] = NoHold, ![Pid(b)] = [L[b] EXCEPT !.granted = L[b].mb]]

\* Mutant: the harness's entry stays beside the binary's own.
MoveBesideTheirs(L, b) ==
    IF L[b].mb = 0 THEN L
    ELSE IF L[Pid(b)] # NoHold
    THEN [L EXCEPT ![Pid(b)].mb = Larger(@, L[b].mb),
                   ![Pid(b)].granted = Larger(@, L[b].mb)]
    ELSE [L EXCEPT ![b] = NoHold, ![Pid(b)] = [L[b] EXCEPT !.granted = L[b].mb]]

\* move: the entry becomes the process's, or what the process has reserved
\* already is raised to it.
Moved(L, b) ==
    IF L[b].mb = 0 THEN L
    ELSE IF L[Pid(b)] # NoHold
    THEN [L EXCEPT ![b] = NoHold,
                   ![Pid(b)].mb = Larger(@, L[b].mb),
                   ![Pid(b)].granted = Larger(@, L[b].mb)]
    ELSE [L EXCEPT ![b] = NoHold, ![Pid(b)] = [L[b] EXCEPT !.granted = L[b].mb]]

\* started: the binary may have ended already (its pid is not free: the
\* harness has not waited for it).
HandOver(b) ==
    /\ ~dead /\ at[b] = "started"
    /\ ledger' = Moved(Live, b)
    /\ orphans' = IF binary[b].pc = "ended" THEN {Pid(b)} ELSE {}
    /\ gate' = [gate EXCEPT ![b].moved = TRUE,
                            ![b].key = IF Live[b].mb > 0 /\ Live[Pid(b)] = NoHold
                                       THEN "moved" ELSE "none"]
    /\ at' = [at EXCEPT ![b] = "runs"]
    /\ UNCHANGED <<binary, starts, dead>>

\* The process's end is seen, its group killed and waited for.
Reap(b) ==
    /\ ~dead /\ binary[b].pc = "ended" /\ at[b] # "started"
    /\ binary' = [binary EXCEPT ![b] = NoBinary]
    /\ at' = [at EXCEPT ![b] = IF @ = "runs" THEN "ran" ELSE @]
    /\ UNCHANGED <<ledger, orphans, gate, starts, dead>>

\* inside_environment after the run: a short reservation for the binaries
\* after it.
AdmitAfter(b) ==
    /\ Idle(b) /\ at[b] = "ran" /\ gate[b].moved
    /\ Mb(Live, Ids) + AfterRun <= Capacity \/ Holders(Live, Ids) = {}
    /\ Write([Live EXCEPT ![b] = [mb |-> AfterRun, wants |-> 0, from |-> b, granted |-> 0]])
    /\ gate' = [gate EXCEPT ![b] = [key |-> "board", moved |-> FALSE, peak |-> 0]]
    /\ at' = [at EXCEPT ![b] = "held"]
    /\ Latest(b)
    /\ UNCHANGED <<binary, dead>>

\* The pid is another process's already: it looks as if the board's binary
\* still ran, and the binary after it runs outside.
StartOutside(b) ==
    /\ Idle(b) /\ at[b] = "ran" /\ gate[b].moved
    /\ Spawn(b, 0)
    /\ UNCHANGED <<ledger, orphans, gate, at, dead>>

\* release of the key the gate has.
Released(L, b) ==
    IF gate[b].key = "board" THEN [L EXCEPT ![b] = NoHold]
    ELSE IF gate[b].key = "moved" /\ L[Pid(b)].from = b THEN [L EXCEPT ![Pid(b)] = NoHold]
    ELSE L

\* done, in run_once's finally: the board's run is over, or was an error.
EndBoard(b) ==
    /\ Idle(b) /\ at[b] \in {"held", "ran"}
    /\ Write(Released(Live, b))
    /\ gate' = [gate EXCEPT ![b] = NoToken]
    /\ at' = [at EXCEPT ![b] = "out"]
    /\ starts' = Without(starts, b)
    /\ UNCHANGED <<binary, dead>>

\* The harness is killed: its entries are a dead process's; its binaries,
\* in process groups of their own, go on.
HarnessDies ==
    /\ ~dead /\ dead' = TRUE
    /\ orphans' = orphans \cup Boards
    /\ at' = [b \in Boards |-> "out"]
    /\ gate' = [b \in Boards |-> NoToken]
    /\ binary' = [b \in Boards |-> IF Runs(b) THEN binary[b] ELSE NoBinary]
    /\ UNCHANGED <<ledger, starts>>

Stopped == dead /\ (\A b \in Boards : ~Runs(b)) /\ UNCHANGED vars

BoardNext(b) ==
    \/ Admit(b) \/ StartInside(b) \/ StartBinary(b) \/ HandOver(b) \/ Reap(b)
    \/ AdmitAfter(b) \/ StartOutside(b) \/ EndBoard(b)

BinaryNext(b) == Reserve(b) \/ Poll(b) \/ TryOnce(b) \/ Exit(b) \/ Crash(b)

Next ==
    \/ \E b \in Boards : BoardNext(b) \/ BinaryNext(b)
    \/ HarnessDies
    \/ Stopped

\* Threads and binaries that wait poll, and the hand-over follows the start.
Spec ==
    /\ Init /\ [][Next]_vars
    /\ \A b \in Boards : WF_vars(Poll(b)) /\ WF_vars(HandOver(b))

---------------------------------------------------------------------------
(* Properties *)

\* Every variable has its type; no identity has two entries.
TypeOK ==
    /\ \A r \in Ids : /\ {ledger[r].mb, ledger[r].wants, ledger[r].granted} \subseteq Nat
                      /\ ledger[r].from \in {0} \cup Ids
    /\ orphans \subseteq Ids /\ dead \in BOOLEAN
    /\ \A b \in Boards :
         /\ gate[b].key \in {"none", "board", "moved"}
         /\ at[b] \in {"out", "held", "started", "runs", "ran"}
         /\ binary[b].pc \in {"none", "idle", "waiting", "ended"}
         /\ {binary[b].base, binary[b].extra, binary[b].granted} \subseteq Nat

\* What a binary counts on is in the ledger, in its own entry and in the
\* reservation it runs inside: through the hand-over, refusals, raises and
\* the ends of the binaries before it, while the harness lives.
BinariesAreCovered ==
    \A b \in Boards : Runs(b) /\ ~dead =>
        LET o == binary[b]
        IN  o.base + o.extra <= Live[Pid(b)].mb
                                  + (IF o.inside = 0 THEN 0 ELSE Live[o.inside].mb)

\* The grant a board was admitted with is never lost: until its binary has
\* ended the ledger holds at least that for it, before, through and after the
\* hand-over (Ledger.move), whenever the binary reserved for itself.
GrantIsKept ==
    \A b \in Boards :
        \/ at[b] \in {"held", "started"} /\ gate[b].key = "board" /\ gate[b].peak > 0
        \/ at[b] = "runs" /\ Runs(b)
        => Live[b].mb + Live[Pid(b)].mb >= gate[b].peak

\* A board's memory is reserved once from the hand-over on (not under the
\* harness's pid and under the binary's), and a board that is over leaves
\* nothing in the ledger.
ReservedOnce ==
    \A b \in Boards :
        /\ at[b] = "runs" => Live[b].mb = 0
        /\ at[b] = "out" /\ ~Runs(b) => Live[b].mb + Live[Pid(b)].mb = 0

\* A board's binary that waits, since before the hand-over, for no more of its
\* own than its board was admitted with goes on once it is handed over.
GrantedGoesOn ==
    \A b \in Boards :
        (/\ binary[b].pc = "waiting" /\ at[b] \in {"started", "runs"}
         /\ binary[b].want[1] <= gate[b].peak /\ binary[b].want[2] = 0)
        ~> (binary[b].pc # "waiting" \/ dead)
=============================================================================
