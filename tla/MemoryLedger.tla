--------------------------- MODULE MemoryLedger ---------------------------
(***************************************************************************)
(* The memory ledger shared by every run on the machine.  Binaries         *)
(* (crates/pcb-kicad/src/ledger.rs) and the boards of harnesses            *)
(* (benchmarks/harness_common.py) reserve through one file; each update    *)
(* of it is one step here (the lock and the file are the subject of a      *)
(* module of their own).  A binary is its main thread, which reserves,     *)
(* waits and checks, and its watchdog, which raises its reservation as it  *)
(* grows; each may be anywhere when the other rewrites the entry.          *)
(*                                                                         *)
(* The binaries here are started directly, with no harness above them: no  *)
(* reservation is handed to them (granted_mb), none is their ancestors',   *)
(* and they run inside none (PCB_MAKER_LEDGER_INSIDE).                     *)
(*                                                                         *)
(* The environment chooses, at every try: the capacity the process reads   *)
(* (each one keeps the headroom summary for 30 s), the memory there is     *)
(* for the runs in the ledger, the measured floor, and whether the file can *)
(* be written.                                                             *)
(***************************************************************************)
EXTENDS LedgerRules

CONSTANTS
    Runs,           \* the binaries' pids
    ShortRuns,      \* those of a short command (arm)
    Checkers,       \* those that run KiCad checks
    Boards,         \* the harnesses' boards, as numbers beside the pids
    Capacities,     \* what capacity_mb may be
    MaxCapacity,    \* the most of them
    Frees,          \* the memory there may be for the ledger's runs
    Floors,         \* what measured_floor_mb may be
    FloorKeep,      \* FLOOR_KEEP_MB, a short request's floor
    Sizes,          \* what a binary may ask to hold of its own
    BoardKinds,     \* the requests of boards: [mb, nightly, short, seconds]
    Writable,       \* whether an update of the file may succeed
    MaxNow          \* the clock's bound

Ids == Runs \cup Boards

ASSUME LedgerConstants ==
    /\ Runs \subseteq Nat /\ Boards \subseteq Nat
    /\ IsFiniteSet(Ids)
    /\ Runs \cap Boards = {}
    /\ ShortRuns \subseteq Runs /\ Checkers \subseteq Runs
    /\ Capacities \subseteq Nat
    /\ MaxCapacity \in Nat /\ \A c \in Capacities : c <= MaxCapacity
    /\ KicadCheck > 0
    /\ Frees \subseteq Nat /\ Floors \subseteq Nat
    /\ FloorKeep \in Nat
    /\ Sizes \subseteq Nat
    /\ BoardKinds \subseteq [mb : Nat \ {0}, nightly : BOOLEAN, short : BOOLEAN,
                             seconds : Nat \cup {NoTime}]
    /\ Writable \subseteq BOOLEAN
    /\ MaxNow \in Nat

VARIABLES
    now,        \* the clock
    ledger,     \* the reservations in the file
    orphans,    \* the entries whose process is gone (dropped at the next update)
    own,        \* each binary's own part (OWN)
    pc,         \* where each binary's main thread is
    request,    \* what its main thread waits to hold, and since when
    board       \* each board's request

vars == <<now, ledger, orphans, own, pc, request, board>>

(***************************************************************************)
(* A binary's own part.  `over` is the watchdog's: past the reservation    *)
(* without room; `raise` and `checking` are the running check's.           *)
(***************************************************************************)
Own ==
    [started   : Int,
     since     : Int,          \* waiting_since
     heldSince : Int,
     base      : Nat, extra : Nat,
     heldShort : BOOLEAN, broken : BOOLEAN, over : BOOLEAN,
     checking  : BOOLEAN, raise : Nat]

Unarmed ==
    [started |-> NoTime, since |-> NoTime, heldSince |-> NoTime,
     base |-> 0, extra |-> 0, heldShort |-> FALSE, broken |-> FALSE,
     over |-> FALSE, checking |-> FALSE, raise |-> 0]

NoRequest == [base |-> 0, extra |-> 0, raise |-> 0, at |-> NoTime]
Request == [base : Nat, extra : Nat, raise : Nat, at : Int]

NoBoard == [pc |-> "out", mb |-> 0, nightly |-> FALSE, short |-> FALSE,
            seconds |-> NoTime, since |-> NoTime]
Board == [pc : {"out", "waiting", "holding"}, mb : Nat, nightly : BOOLEAN,
          short : BOOLEAN, seconds : Int, since : Int]

\* Every variable has its type; nothing a run holds or waits for is negative.
TypeOK ==
    /\ now \in Nat
    /\ ledger \in [Ids -> Reservation]
    /\ orphans \in SUBSET Ids
    /\ own \in [Runs -> Own]
    /\ pc \in [Runs -> {"out", "idle", "waiting"}]
    /\ request \in [Runs -> Request]
    /\ board \in [Boards -> Board]

Init ==
    /\ now = 0
    /\ ledger = [r \in Ids |-> NoEntry]
    /\ orphans = {}
    /\ own = [p \in Runs |-> Unarmed]
    /\ pc = [p \in Runs |-> "out"]
    /\ request = [p \in Runs |-> NoRequest]
    /\ board = [b \in Boards |-> NoBoard]

\* The live reservations, as every update reads them.
Live == [r \in Ids |-> IF r \in orphans THEN NoEntry ELSE ledger[r]]

\* What a process reads before it tries.
Readings == [capacity : Capacities, free : Frees, floor : Floors,
             writable : Writable]

\* available_less_growth: MemAvailable is what the runs have not taken yet,
\* and each reservation counts whole, taken or still to grow into.
AvailableLessGrowth(L, others, in) == in.free - Mb(L, others)

----------------------------------------------------------------------------
(* One try to hold.                                                        *)

\* Whether the ledger lets p, whose own part is o, hold base and extra: its
\* answer with what the entry then says of it.
Answer(L, p, o, base, extra, in) ==
    LET others  == Ids \ {p}
        wanted  == base + extra
        held    == o.base + o.extra
        since   == IF o.since = NoTime THEN now ELSE o.since
        new     == held = 0 /\ L[p].mb = 0
        short   == new /\ p \in ShortRuns /\ ShortRequest(base, extra)
        floor   == IF short THEN FloorKeep ELSE in.floor
        available == AvailableLessGrowth(L, others, in)
        fits    == \/ MayHold(L, p, held, o.started, wanted, in.capacity)
                   \/ held > 0 /\ wanted <= held
        ordered == \/ ~new
                   \/ /\ OrderAllows(L, others, <<1, since, p>>, wanted, in.capacity)
                      /\ \A w \in DrainedFor(L, others, <<1, since, p>>, now,
                                             in.capacity, available) :
                            DrainAllows(L, others, w, wanted, in.capacity,
                                        available, NoTime)
                   \/ short /\ ShortAllows(wanted, available)
        floorOk == \/ ~new
                   \/ Holders(L, others) = {}
                   \/ BinaryFloorAllows(wanted, available, floor)
    IN  [fits    |-> fits /\ ordered /\ floorOk,
         since   |-> since,
         short   |-> short \/ (o.heldShort /\ held > 0),
         floor   |-> IF new THEN floor ELSE 0,
         onFloor |-> new /\ fits /\ ordered /\ ~floorOk]

\* The entry of a run that holds mb and, when wants > 0, waits for more.
Entry(p, o, mb, wants, answer, short) ==
    IF mb = 0 /\ wants = 0
    THEN NoEntry
    ELSE [NoEntry EXCEPT
            !.started = o.started, !.mb = mb, !.wants = wants,
            !.since = IF wants > 0 THEN answer.since ELSE NoTime,
            !.heldSince = IF mb = 0 THEN NoTime
                          ELSE IF o.heldSince = NoTime THEN now ELSE o.heldSince,
            !.onFloor = wants > 0 /\ answer.onFloor,
            !.floor = IF wants > 0 THEN answer.floor ELSE 0,
            !.refreshed = IF wants > 0 THEN now ELSE NoTime,
            !.short = short /\ mb > 0]

\* try_hold: the ledger and p's own part after it, and whether it holds.
\* The own limit only grows; a ledger that cannot be written is left alone
\* and the run goes on without it.
TryHold(L, p, o, wish, extra, wait, in) ==
    LET base   == Larger(wish, o.base)
        held   == o.base + o.extra
        answer == Answer(L, p, o, base, extra, in)
        wants  == IF wait THEN base + extra ELSE 0
    IN  IF o.broken \/ ~in.writable
        THEN [held |-> TRUE, wrote |-> FALSE, ledger |-> L,
              own |-> [o EXCEPT !.broken = TRUE, !.base = base, !.extra = extra]]
        ELSE IF answer.fits
        THEN [held |-> TRUE, wrote |-> TRUE,
              ledger |-> [L EXCEPT ![p] = Entry(p, o, base + extra, 0, answer, answer.short)],
              own |-> [o EXCEPT
                         !.base = base, !.extra = extra, !.since = NoTime,
                         !.heldShort = answer.short /\ base + extra > 0,
                         !.heldSince = IF base + extra > 0 /\ @ = NoTime THEN now ELSE @]]
        ELSE [held |-> FALSE, wrote |-> TRUE,
              ledger |-> [L EXCEPT ![p] = Entry(p, o, held, wants, answer, o.heldShort)],
              own |-> [o EXCEPT !.since = IF wait THEN answer.since ELSE @]]

\* Mutant: the entries of dead processes stay dead when their pids come back.
WriteBesideTheDead(try) ==
    /\ ledger' = IF try.wrote THEN try.ledger ELSE ledger
    /\ UNCHANGED orphans

\* The file after a try: an update drops the entries of dead processes.
Write(try) ==
    /\ ledger' = IF try.wrote THEN try.ledger ELSE ledger
    /\ orphans' = IF try.wrote THEN {} ELSE orphans

----------------------------------------------------------------------------
(* A binary's main thread.                                                 *)

\* arm
Arm(p) ==
    /\ pc[p] = "out"
    /\ pc' = [pc EXCEPT ![p] = "idle"]
    /\ own' = [own EXCEPT ![p] = [Unarmed EXCEPT !.started = now]]
    /\ UNCHANGED <<now, ledger, orphans, request, board>>

\* set_checking: a check begins, and the entry is rewritten to say so.
MarkCheck(L, p, o, raise, in) ==
    TryHold(L, p, [o EXCEPT !.checking = TRUE, !.raise = raise],
            o.base, o.extra, FALSE, in)

\* A round of hold's loop (`try` and `done` are bound once, so that TLC
\* evaluates each once): a run that holds what it asked for goes on (with
\* its check, when part of it was raised for one), one that does not waits.
HoldRound(p, wish, in) ==
    \E try \in {TryHold(Live, p, own[p], wish.base, wish.extra, TRUE, in)} :
    \E done \in {IF try.held /\ wish.raise > 0
                THEN MarkCheck(try.ledger, p, try.own, wish.raise, in) ELSE try} :
        /\ Write(done)
        /\ own' = [own EXCEPT ![p] = done.own]
        /\ pc' = [pc EXCEPT ![p] = IF try.held THEN "idle" ELSE "waiting"]
        /\ request' = [request EXCEPT ![p] = IF try.held THEN NoRequest ELSE wish]
        /\ UNCHANGED <<now, board>>

\* reserve_at_least: raises the own limit, waiting for the room.
Reserve(p, size, in) ==
    /\ pc[p] = "idle" /\ ~own[p].checking
    /\ size > own[p].base
    /\ HoldRound(p, [base |-> size, extra |-> own[p].extra, raise |-> 0, at |-> now], in)

\* reserve_check_up_front: a command whose memory is its checks.
ReserveCheck(p, in) ==
    /\ pc[p] = "idle" /\ ~own[p].checking
    /\ p \in Checkers /\ own[p].extra < KicadCheck
    /\ HoldRound(p, [base |-> own[p].base, extra |-> KicadCheck, raise |-> 0, at |-> now], in)

\* while_reserved: a check inside what the children have already, or with
\* what that lacks raised first.
StartCheck(p, in) ==
    LET raise == Larger(KicadCheck - own[p].extra, 0)
        mark  == MarkCheck(Live, p, own[p], 0, in)
    IN  /\ pc[p] = "idle" /\ ~own[p].checking /\ p \in Checkers
        /\ IF raise > 0
           THEN HoldRound(p, [base |-> own[p].base, extra |-> own[p].extra + raise,
                              raise |-> raise, at |-> now], in)
           ELSE /\ Write(mark)
                /\ own' = [own EXCEPT ![p] = mark.own]
                /\ UNCHANGED <<now, pc, request, board>>

\* hold polls every two seconds.
Poll(p, in) ==
    /\ pc[p] = "waiting"
    /\ HoldRound(p, request[p], in)

\* Mutant: a check's memory is given back again, past what there is.
EndCheckAgain(p, in) ==
    LET try == TryHold(Live, p, own[p], own[p].base,
                       own[p].extra - own[p].raise, FALSE, in)
    IN  /\ pc[p] = "idle"
        /\ Write(try)
        /\ own' = [own EXCEPT ![p] = [try.own EXCEPT !.checking = FALSE]]
        /\ UNCHANGED <<now, pc, request, board>>

\* The check's memory is given back.
EndCheck(p, in) ==
    LET try == TryHold(Live, p, own[p], own[p].base,
                       Larger(own[p].extra - own[p].raise, 0), FALSE, in)
    IN  /\ pc[p] = "idle" /\ own[p].checking
        /\ Write(try)
        /\ own' = [own EXCEPT ![p] = [try.own EXCEPT !.checking = FALSE, !.raise = 0]]
        /\ UNCHANGED <<now, pc, request, board>>

\* The process is gone; an entry it leaves is an orphan's.
Gone(p) ==
    /\ own' = [own EXCEPT ![p] = Unarmed]
    /\ pc' = [pc EXCEPT ![p] = "out"]
    /\ request' = [request EXCEPT ![p] = NoRequest]
    /\ UNCHANGED <<now, board>>

\* release and the end of the process: a run the ledger broke for leaves
\* its entry to the pid rule.
Leave(p) ==
    /\ Gone(p)
    /\ IF own[p].broken
       THEN /\ orphans' = orphans \cup {p}
            /\ UNCHANGED ledger
       ELSE /\ ledger' = [Live EXCEPT ![p] = NoEntry]
            /\ orphans' = {}

\* The run ends, by itself or by a panic.
Exit(p) == pc[p] # "out" /\ Leave(p)

\* A request larger than the capacity ends after the drain's bound.
GiveUp(p, capacity) ==
    /\ pc[p] = "waiting"
    /\ TooLargeEnds(request[p].base + request[p].extra, capacity,
                    now - request[p].at, DrainMax)
    /\ Leave(p)

\* A signal ends it: the entry stays until the next update reads its pid.
Crash(p) ==
    /\ pc[p] # "out"
    /\ Gone(p)
    /\ orphans' = orphans \cup {p}
    /\ UNCHANGED ledger

----------------------------------------------------------------------------
(* A binary's watchdog, from its first hold on.                            *)

Watched(p) == pc[p] # "out" /\ own[p].base > 0

\* The run grew to nine tenths of its reservation, or past it: past it the
\* request is as old as its admission.
Grow(p, size, past, in) ==
    LET o   == IF past /\ own[p].since = NoTime
               THEN [own[p] EXCEPT !.since = own[p].heldSince] ELSE own[p]
        try == TryHold(Live, p, o, size, o.extra, past, in)
    IN  /\ Watched(p)
        /\ size > own[p].base
        /\ Write(try)
        /\ own' = [own EXCEPT ![p] = [try.own EXCEPT !.over = ~try.held /\ (@ \/ past)]]
        /\ UNCHANGED <<now, pc, request, board>>

\* Back within its reservation: the entry no longer waits.
BackWithin(p, in) ==
    LET try == TryHold(Live, p, own[p], own[p].base, own[p].extra, FALSE, in)
    IN  /\ Watched(p) /\ own[p].over
        /\ Write(try)
        /\ own' = [own EXCEPT ![p] = [try.own EXCEPT !.over = FALSE]]
        /\ UNCHANGED <<now, pc, request, board>>

\* overgrown_ends: the memory runs short.
Exceeded(p) == Watched(p) /\ own[p].over /\ Leave(p)

----------------------------------------------------------------------------
(* A harness's boards.                                                     *)

\* try_admit: the board's entry holds its memory, or waits for it.
TryAdmit(b, ask, in) ==
    LET L       == [Live EXCEPT ![b] = NoEntry]
        others  == Ids \ {b}
        key     == <<Rank(ask.nightly), ask.since, b>>
        available == AvailableLessGrowth(L, others, in)
        end     == IF ask.seconds = NoTime THEN NoTime ELSE now + ask.seconds
        fits    == MemoryRoom(L, others, ask.mb, in.floor, in.capacity, available)
        short   == ask.short /\ ask.mb <= ShortOwn + KicadCheck
        ordered == /\ OrderAllows(L, others, key, ask.mb, in.capacity)
                   /\ \A w \in DrainedFor(L, others, key, now, in.capacity, available) :
                        DrainAllows(L, others, w, ask.mb, in.capacity, available,
                            IF PastBound(L, others, w, now, in.capacity, available)
                            THEN NoTime ELSE end)
        admits  == fits /\ (ordered \/ short)
        held    == [NoEntry EXCEPT !.started = now, !.mb = ask.mb, !.heldSince = now,
                                   !.short = short, !.end = end, !.nightly = ask.nightly]
        waits   == [NoEntry EXCEPT !.started = ask.since, !.wants = ask.mb,
                                   !.since = ask.since, !.refreshed = now,
                                   !.floor = in.floor, !.nightly = ask.nightly,
                                   !.onFloor = /\ ~fits
                                               /\ Mb(L, others) + ask.mb <= in.capacity]
    IN  /\ in.writable
        /\ ledger' = [L EXCEPT ![b] = IF admits THEN held ELSE waits]
        /\ orphans' = {}
        /\ board' = [board EXCEPT ![b] = [ask EXCEPT !.pc = IF admits THEN "holding"
                                                            ELSE "waiting"]]
        /\ UNCHANGED <<now, own, pc, request>>

\* admit: the first try, and the next one every 15 seconds.
AskBoard(b, kind, in) ==
    /\ board[b].pc = "out"
    /\ TryAdmit(b, [pc |-> "waiting", mb |-> kind.mb, nightly |-> kind.nightly,
                    short |-> kind.short, seconds |-> kind.seconds, since |-> now], in)

PollBoard(b, in) ==
    /\ board[b].pc = "waiting"
    /\ TryAdmit(b, board[b], in)

\* The board's entry is removed under the lock.
RemoveBoard(b) ==
    /\ ledger' = [Live EXCEPT ![b] = NoEntry]
    /\ orphans' = {}
    /\ board' = [board EXCEPT ![b] = NoBoard]
    /\ UNCHANGED <<now, own, pc, request>>

\* release: the board is done.
EndBoard(b) == board[b].pc = "holding" /\ RemoveBoard(b)

\* withdraw: the harness stops, or the board is larger than the capacity.
Withdraw(b) == board[b].pc = "waiting" /\ RemoveBoard(b)

\* The harness is killed: every entry it wrote is a dead process's.
HarnessDies ==
    /\ \E b \in Boards : board[b].pc # "out"
    /\ board' = [b \in Boards |-> NoBoard]
    /\ orphans' = orphans \cup Boards
    /\ UNCHANGED <<now, ledger, own, pc, request>>

Tick == now < MaxNow /\ now' = now + 1 /\ UNCHANGED <<ledger, orphans, own, pc, request, board>>

----------------------------------------------------------------------------

RunNext(p) ==
    \/ Arm(p)
    \/ Exit(p)
    \/ Crash(p)
    \/ Exceeded(p)
    \/ \E capacity \in Capacities : GiveUp(p, capacity)
    \/ \E in \in Readings :
         \/ \E size \in Sizes : Reserve(p, size, in)
         \/ ReserveCheck(p, in)
         \/ StartCheck(p, in)
         \/ Poll(p, in)
         \/ EndCheck(p, in)
         \/ \E size \in Sizes, past \in BOOLEAN : Grow(p, size, past, in)
         \/ BackWithin(p, in)

BoardNext(b) ==
    \/ \E in \in Readings :
         \/ \E kind \in BoardKinds : AskBoard(b, kind, in)
         \/ PollBoard(b, in)
    \/ EndBoard(b)
    \/ Withdraw(b)

Next ==
    \/ \E p \in Runs : RunNext(p)
    \/ \E b \in Boards : BoardNext(b)
    \/ HarnessDies
    \/ Tick

Spec == Init /\ [][Next]_vars

----------------------------------------------------------------------------
(* What the ledger promises.                                               *)

\* The oldest of the holders of L, by start and pid.
Oldest(L, r) ==
    /\ L[r].mb > 0
    /\ \A s \in Holders(L, Ids) \ {r} :
          LexLess(<<0, L[r].started, r>>, <<0, L[s].started, s>>)

\* The reservations are within the capacity (the largest any process read),
\* or they are without the oldest holder's.
WithinButForTheOldest(L) ==
    \/ Mb(L, Ids) <= MaxCapacity
    \/ \E r \in Ids : Oldest(L, r) /\ Mb(L, Ids \ {r}) <= MaxCapacity

\* The machine is overcommitted by one run at most, the oldest that holds
\* memory: may_hold lets a request past the capacity alone, or as the oldest
\* when every other holder waits, and no later request, growth, release or
\* crash makes a second one of it.
OnlyTheOldestOvercommits == WithinButForTheOldest(ledger)

\* The file says of every run that can write it what the run itself counts
\* on (OWN): through refusals, which keep what is held, the watchdog's
\* raises beside the main thread's, checks that end, and pids that come
\* back while the entry of the process before is still in the file.
FileSaysWhatRunsHold ==
    \A p \in Runs : ~own[p].broken => Live[p].mb = own[p].base + own[p].extra

\* Both and what makes them inductive: an entry has the start its run
\* ranks by, and a process that has not armed counts on nothing.
Inductive ==
    /\ TypeOK
    /\ OnlyTheOldestOvercommits
    /\ FileSaysWhatRunsHold
    /\ \A p \in Runs : ~own[p].broken /\ Live[p].mb > 0 =>
                        Live[p].started = own[p].started
    /\ \A p \in Runs : pc[p] = "out" => own[p] = Unarmed

\* The room of a waiter beside the reservations that began after its wait:
\* with it the waiter fits once the runs it waits on have ended.
RoomKept(L, waiter) ==
    LET newer == {r \in Ids \ {waiter} :
                     ~L[r].short /\ L[r].heldSince >= L[waiter].since}
    IN  Mb(L, newer) + L[waiter].wants <= MaxCapacity

\* No request that comes after the first waiter takes its room: only runs
\* that hold memory already, and grow, and short requests may.
FirstWaiterKeepsItsRoom ==
    [][\A w \in FirstWaiter(Live, Ids) :
         LET after == Live'
         IN  /\ RoomKept(Live, w)
             /\ after[w].wants = Live[w].wants
             /\ after[w].since = Live[w].since
             /\ \A r \in Ids : after[r].mb > Live[r].mb =>
                   /\ Live[r].mb = 0
                   /\ ~LexLess(<<Rank(after[r].nightly), now, r>>, OrderKey(Live, w))
             => RoomKept(after, w)]_vars

============================================================================
