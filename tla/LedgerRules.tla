---------------------------- MODULE LedgerRules ----------------------------
(***************************************************************************)
(* The admission rules of the machine's memory ledger, as functions of the *)
(* reservations: crates/pcb-kicad/src/ledger.rs, and the same rules in     *)
(* benchmarks/harness_common.py.                                           *)
(*                                                                         *)
(* A ledger is a function L from the identities that may reserve to        *)
(* reservations.  An identity is a number: the pid of a binary (one entry  *)
(* per pid), or a board of a harness (whose entries share the harness's    *)
(* pid and are told apart by label and start).  A reservation that holds   *)
(* nothing and waits for nothing is no entry: every rule passes over it.   *)
(* Memory is counted in units of megabytes, time in units of seconds.      *)
(***************************************************************************)
EXTENDS Integers, FiniteSets

CONSTANTS
    SmallRequest,   \* SMALL_REQUEST_MB: at most this is a small request
    ShortOwn,       \* SHORT_OWN_MB: a short request's own memory at most
    KicadCheck,     \* KICAD_CHECK_MB: what one KiCad check takes
    DrainAfter,     \* DEFAULT_DRAIN_AFTER_SECONDS
    DrainMax,       \* DEFAULT_DRAIN_MAX_SECONDS
    StaleAfter      \* STALE_AFTER_SECONDS

ASSUME RuleConstants ==
    /\ {SmallRequest, ShortOwn, KicadCheck} \subseteq Nat
    /\ {DrainAfter, DrainMax, StaleAfter} \subseteq Nat

NoTime == -1

(***************************************************************************)
(* A reservation: what it holds (mb), what it waits to hold (wants, 0      *)
(* while it does not wait) and the fields the rules read.                  *)
(***************************************************************************)
Reservation ==
    [started   : Int,       \* when its process first reserved
     mb        : Nat,       \* megabytes
     wants     : Nat,       \* waiting_mb
     since     : Int,       \* waiting_since, while it waits
     heldSince : Int,       \* held_since, while it holds memory
     onFloor   : BOOLEAN,   \* waits_on_floor
     floor     : Int,       \* floor_mb
     refreshed : Int,       \* refreshed, while it waits
     end       : Int,       \* expected_end
     nightly   : BOOLEAN,   \* priority is nightly
     short     : BOOLEAN]

NoEntry ==
    [started |-> NoTime, mb |-> 0, wants |-> 0, since |-> NoTime,
     heldSince |-> NoTime, onFloor |-> FALSE, floor |-> 0,
     refreshed |-> NoTime, end |-> NoTime, nightly |-> FALSE,
     short |-> FALSE]

Lesser(a, b) == IF a <= b THEN a ELSE b
Larger(a, b) == IF a >= b THEN a ELSE b

\* The megabytes the reservations of S hold together, unit by unit.
Units(L, S) == UNION {{r} \X (1..L[r].mb) : r \in S}
Mb(L, S) == Cardinality(Units(L, S))

Holders(L, S) == {r \in S : L[r].mb > 0}
Waiters(L, S) == {r \in S : L[r].wants > 0}

----------------------------------------------------------------------------
(* The order of the waiting requests.                                      *)

\* The lexicographic order of (rank, time, pid).
LexLess(a, b) ==
    \/ a[1] < b[1]
    \/ a[1] = b[1] /\ a[2] < b[2]
    \/ a[1] = b[1] /\ a[2] = b[2] /\ a[3] < b[3]

Rank(nightly) == IF nightly THEN 0 ELSE 1

OrderKey(L, r) == <<Rank(L[r].nightly), L[r].since, r>>

\* The waiting requests of S that come before a request with this key.
Ahead(L, S, key) == {w \in Waiters(L, S) : LexLess(OrderKey(L, w), key)}

\* The first of the waiting requests of S: at most one.
FirstWaiter(L, S) ==
    {w \in Waiters(L, S) :
        \A v \in Waiters(L, S) \ {w} : LexLess(OrderKey(L, w), OrderKey(L, v))}

----------------------------------------------------------------------------
(* The capacity and the order.                                             *)

\* Mutant: a request past the capacity goes when every holder waits, whoever
\* is the oldest.
WaitersOfAnyAge(L, holders, me, started) == \A r \in holders : L[r].wants > 0

\* Mutant: no request goes past the capacity beside a holder.
NeverOldest(L, holders, me, started) == FALSE

\* Whether every other holder waits too and started after `me`.
OldestOfWaiters(L, holders, me, started) ==
    \A r \in holders : /\ L[r].wants > 0
                       /\ LexLess(<<0, started, me>>, <<0, L[r].started, r>>)

\* Whether `me`, holding `held` since it started at `started`, may hold
\* `wanted`: with the others within the capacity; or alone; or as the oldest
\* when every other holder waits too.
MayHold(L, me, held, started, wanted, capacity) ==
    LET others  == DOMAIN L \ {me}
        holders == Holders(L, others)
    IN  \/ Mb(L, others) + wanted <= capacity
        \/ holders = {}
        \/ held > 0 /\ OldestOfWaiters(L, holders, me, started)

\* Mutant: a reservation of the second the wait began in is older than it.
StrictlyNewer(L, S, waiter) == {r \in S : L[r].heldSince > L[waiter].since}

\* The reservations of S that began to hold once `waiter` waited.
Newer(L, S, waiter) == {r \in S : L[r].heldSince >= L[waiter].since}

\* Whether a new request with order key `key` passes no older waiter of S.
OrderAllows(L, S, key, wanted, capacity) ==
    \A oldest \in FirstWaiter(L, S) \cap Ahead(L, S, key) :
        LET rest     == {r \in S \ {oldest} : ~L[r].short}
            wants    == L[oldest].wants
            reserved == Mb(L, rest)
            fitsNow  == reserved + wants <= capacity \/ Holders(L, rest) = {}
        IN  IF fitsNow /\ ~L[oldest].onFloor
            THEN reserved + wanted + wants <= capacity
            ELSE Mb(L, Newer(L, rest, oldest)) + wanted + wants <= capacity

----------------------------------------------------------------------------
(* The drain for a starved waiter.                                         *)

\* The room of `waiter` after a request of `wanted` with `freed` given back.
WaiterRoom(L, S, waiter, capacity, available, wanted, freed, floor) ==
    Lesser(capacity - (Mb(L, S \ {waiter}) - freed) - wanted,
           available + freed - wanted - floor + L[waiter].mb)

ShortHeld(L, S, waiter) == Mb(L, {r \in S \ {waiter} : L[r].short})

WaitedFor(L, waiter, now) == now - L[waiter].since

\* Mutant: the ledger drains for nobody.
NeverDrains(L, S, waiter, now, capacity, available) == FALSE

\* Whether newer requests are held to the drain for `waiter`.
Drains(L, S, waiter, now, capacity, available) ==
    LET others == S \ {waiter}
        newer  == {r \in others : L[r].short} \cup Newer(L, others, waiter)
    IN  /\ L[waiter].nightly \/ WaitedFor(L, waiter, now) >= DrainAfter
        /\ now - L[waiter].refreshed <= StaleAfter
        /\ WaiterRoom(L, S, waiter, capacity, available, 0, Mb(L, newer),
                      Larger(L[waiter].floor, 0)) >= L[waiter].wants

\* Drained for past its bound: strictly, as for the nightly's.
PastBound(L, S, waiter, now, capacity, available) ==
    /\ Drains(L, S, waiter, now, capacity, available)
    /\ WaitedFor(L, waiter, now) > DrainMax

\* The first waiter before `key` that the ledger drains for: at most one.
DrainedFor(L, S, key, now, capacity, available) ==
    LET drained == {w \in Ahead(L, S, key) : Drains(L, S, w, now, capacity, available)}
    IN  {w \in drained :
            \A v \in drained \ {w} : LexLess(OrderKey(L, w), OrderKey(L, v))}

\* Whether `waiter` cannot fit before a run larger than a small one ends.
BlockedByLarge(L, S, waiter, capacity, available) ==
    LET holders == {r \in Holders(L, S \ {waiter}) : ~L[r].short}
        small   == {r \in holders : L[r].mb <= SmallRequest}
    IN  /\ \E r \in holders : L[r].mb > SmallRequest
        /\ WaiterRoom(L, S, waiter, capacity, available, 0,
                      Mb(L, small) + ShortHeld(L, S, waiter),
                      Larger(L[waiter].floor, 0)) < L[waiter].wants

\* Whether a new request of `wanted` that ends at `end` (NoTime: unknown)
\* may go while `waiter` is drained for.
DrainAllows(L, S, waiter, wanted, capacity, available, end) ==
    LET holders == {r \in Holders(L, S \ {waiter}) : ~L[r].short}
    IN  \/ WaiterRoom(L, S, waiter, capacity, available, wanted,
                      ShortHeld(L, S, waiter), Larger(L[waiter].floor, 0))
              >= L[waiter].wants
        \/ wanted <= SmallRequest /\ BlockedByLarge(L, S, waiter, capacity, available)
        \/ /\ ~L[waiter].nightly
           /\ end # NoTime
           /\ holders # {}
           /\ \A r \in holders : L[r].end # NoTime /\ end <= L[r].end

----------------------------------------------------------------------------
(* Short requests, the floor and requests that are too large.              *)

ShortRequest(base, extra) == base <= ShortOwn /\ extra <= KicadCheck

ShortAllows(wanted, available) == available >= wanted

BinaryFloorAllows(wanted, available, floor) == available - wanted >= floor

TooLargeEnds(wanted, capacity, waited, bound) == wanted > capacity /\ waited >= bound

\* Mutant: the memory that is free is enough, whatever is reserved.
RoomInTheFree(L, S, wanted, floor, capacity, available) == available - wanted >= floor

\* The harnesses' rule: the capacity and the floor, or alone.
MemoryRoom(L, S, wanted, floor, capacity, available) ==
    \/ /\ Mb(L, S) + wanted <= capacity
       /\ available - wanted >= floor
    \/ Holders(L, S) = {}

============================================================================
