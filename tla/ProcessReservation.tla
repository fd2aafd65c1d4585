------------------------ MODULE ProcessReservation ------------------------
(***************************************************************************)
(* One process's own part of the memory ledger (ledger.rs, OWN), lock by   *)
(* lock: its main thread, which raises its limit and runs KiCad checks     *)
(* inside its reservation (while_reserved), and its watchdog, which raises *)
(* the limit as the process grows.  Each reads base_mb and extra_mb under  *)
(* one lock (reserved_mb) and tries to hold what it made of them under     *)
(* another (try_hold); MemoryLedger takes the two as one step.             *)
(*                                                                         *)
(* The other processes are the room they leave it: `room` may change at    *)
(* any time, and every try reads it.                                       *)
(***************************************************************************)
EXTENDS Integers

CONSTANTS
    KicadCheck,     \* KICAD_CHECK_MB
    MaxResident,    \* how large the process may grow
    Rooms           \* what the other processes may leave it

ASSUME ProcessConstants ==
    /\ KicadCheck \in Nat \ {0} /\ MaxResident \in Nat
    /\ Rooms \subseteq Nat

VARIABLES
    upFront,    \* whether the command reserves its check first
    base, extra,
    checks,     \* checks_mb: what the check running now takes
    entry,      \* the process's entry in the file: what it holds, and waits for
    room,
    resident,
    main,       \* where the main thread is, and what it read
    dog         \* where the watchdog is, and what it read

own == <<base, extra, checks, entry>>
vars == <<upFront, own, room, resident, main, dog>>

Larger(a, b) == IF a >= b THEN a ELSE b

\* What a thread carries from one lock to the next.
Read == [base : Nat, extra : Nat, raise : Nat]
Nothing == [base |-> 0, extra |-> 0, raise |-> 0]

At(pc, read) == [pc |-> pc, read |-> read]
MainPcs == {"start", "idle", "hold", "raise", "mark", "marked", "rewrite", "work",
            "end", "giveBack"}
DogPcs == {"none", "sleep", "grow", "past", "back"}

\* Every variable has its type; nothing the process holds is negative.
TypeOK ==
    /\ upFront \in BOOLEAN
    /\ {base, extra, checks, room, resident} \subseteq Nat
    /\ entry \in [mb : Nat, wants : Nat]
    /\ main \in [pc : MainPcs, read : Read]
    /\ dog \in [pc : DogPcs, read : Read, over : BOOLEAN]

Init ==
    /\ upFront \in BOOLEAN
    /\ base = 0 /\ extra = 0 /\ checks = 0
    /\ entry = [mb |-> 0, wants |-> 0]
    /\ room \in Rooms
    /\ resident = 0
    /\ main = At("start", Nothing)
    /\ dog = [pc |-> "none", read |-> Nothing, over |-> FALSE]

\* Mutant: what the caller read of its own limit replaces it.
TryHoldAsRead(wish, children, wait) ==
    LET wanted == wish + children
        held   == base + extra
    IN  IF wanted <= room \/ (held > 0 /\ wanted <= held)
        THEN [held |-> TRUE, base |-> wish, extra |-> children,
              entry |-> [mb |-> wanted, wants |-> 0]]
        ELSE [held |-> FALSE, base |-> base, extra |-> extra,
              entry |-> [mb |-> held, wants |-> IF wait THEN wanted ELSE 0]]

\* try_hold under the lock of OWN: the limit read before only grows, the
\* children's part is what the caller made of its reading.
TryHold(wish, children, wait) ==
    LET limit  == Larger(wish, base)
        wanted == limit + children
        held   == base + extra
    IN  IF wanted <= room \/ (held > 0 /\ wanted <= held)
        THEN [held |-> TRUE, base |-> limit, extra |-> children,
              entry |-> [mb |-> wanted, wants |-> 0]]
        ELSE [held |-> FALSE, base |-> base, extra |-> extra,
              entry |-> [mb |-> held, wants |-> IF wait THEN wanted ELSE 0]]

Set(try) ==
    /\ base' = try.base /\ extra' = try.extra /\ entry' = try.entry
    /\ UNCHANGED <<upFront, checks, room, resident>>

----------------------------------------------------------------------------
(* The main thread.                                                        *)

\* The thread goes on at pc with what it carries; the locks stay as they are.
Carry(pc, read) == main' = At(pc, read) /\ UNCHANGED <<upFront, own, room, resident, dog>>

\* reserve_check_up_front, at the command's start.
StartUpFront ==
    /\ main.pc = "start"
    /\ IF upFront
       THEN Carry("hold", [base |-> base, extra |-> KicadCheck, raise |-> 0])
       ELSE Carry("idle", Nothing)

\* reserve_at_least: a larger limit of its own, with the children's part
\* read before.
ReserveAtLeast(size) ==
    /\ main.pc = "idle" /\ size > base
    /\ Carry("hold", [base |-> size, extra |-> extra, raise |-> 0])

\* Mutant: a check raises its memory whatever the children have already.
RaiseForEveryCheck ==
    /\ main.pc = "idle"
    /\ Carry("raise", [base |-> base, extra |-> extra + KicadCheck, raise |-> KicadCheck])

\* while_reserved reads what the process has and what that lacks.
ReadForCheck ==
    LET raise == Larger(KicadCheck - Larger(extra - checks, 0), 0)
    IN  /\ main.pc = "idle"
        /\ IF raise > 0
           THEN Carry("raise", [base |-> base, extra |-> extra + raise, raise |-> raise])
           ELSE Carry("mark", Nothing)

\* hold's loop: it polls until the ledger lets it go on, and the first hold
\* starts the watchdog.
Hold ==
    LET try == TryHold(main.read.base, main.read.extra, TRUE)
    IN  /\ main.pc \in {"hold", "raise"}
        /\ Set(try)
        /\ IF try.held
           THEN /\ main' = IF main.pc = "raise"
                           THEN At("mark", main.read) ELSE At("idle", Nothing)
                /\ dog' = IF dog.pc = "none" THEN [dog EXCEPT !.pc = "sleep"] ELSE dog
           ELSE UNCHANGED <<main, dog>>

\* set_checking before the check: checks_mb under a first lock.
Mark ==
    /\ main.pc = "mark"
    /\ checks' = checks + KicadCheck
    /\ main' = At("marked", main.read)
    /\ UNCHANGED <<upFront, base, extra, entry, room, resident, dog>>

\* ... then what the process has read anew ...
ReadForMark ==
    /\ main.pc = "marked"
    /\ Carry("rewrite", [base |-> base, extra |-> extra, raise |-> main.read.raise])

\* ... and the entry rewritten to say so.
Rewrite ==
    /\ main.pc = "rewrite"
    /\ Set(TryHold(main.read.base, main.read.extra, FALSE))
    /\ main' = At("work", main.read)
    /\ UNCHANGED dog

\* The check ends: set_checking again.
Unmark ==
    /\ main.pc = "work"
    /\ checks' = Larger(checks - KicadCheck, 0)
    /\ main' = At("end", main.read)
    /\ UNCHANGED <<upFront, base, extra, entry, room, resident, dog>>

\* Mutant: a check gives its memory back, raised or reserved up front.
ReadForWholeEnd ==
    /\ main.pc = "end"
    /\ Carry("giveBack", [base |-> base, extra |-> Larger(extra - KicadCheck, 0),
                          raise |-> 0])

\* Mutant: what was raised is taken off, whatever is left of it by then.
ReadForEndBelowNothing ==
    /\ main.pc = "end"
    /\ Carry("giveBack", [base |-> base, extra |-> extra - main.read.raise, raise |-> 0])

\* What the process has then is read, less what was raised ...
ReadForEnd ==
    /\ main.pc = "end"
    /\ Carry("giveBack", [base |-> base, extra |-> Larger(extra - main.read.raise, 0),
                          raise |-> 0])

\* ... and held.
GiveBack ==
    /\ main.pc = "giveBack"
    /\ Set(TryHold(main.read.base, main.read.extra, FALSE))
    /\ main' = At("idle", Nothing)
    /\ UNCHANGED dog

----------------------------------------------------------------------------
(* The watchdog.                                                           *)

\* It wakes, reads the reservation and then the resident size: below nine
\* tenths of it (here, below it) nothing, unless the run was past it; at it
\* more, past it more and waiting for it.
Wake ==
    LET read == [base |-> base, extra |-> extra, raise |-> Larger(resident, base) + 1]
    IN  /\ dog.pc = "sleep"
        /\ \/ resident < base /\ dog.over
              /\ dog' = [pc |-> "back", read |-> read, over |-> FALSE]
           \/ resident = base /\ base > 0
              /\ dog' = [dog EXCEPT !.pc = "grow", !.read = read]
           \/ resident > base /\ base > 0
              /\ dog' = [dog EXCEPT !.pc = "past", !.read = read]
        /\ UNCHANGED <<upFront, own, room, resident, main>>

\* It asks for more with the children's part it read.
Ask ==
    LET past == dog.pc = "past"
        try  == TryHold(dog.read.raise, dog.read.extra, past)
    IN  /\ dog.pc \in {"grow", "past"}
        /\ Set(try)
        /\ dog' = [pc |-> "sleep", read |-> Nothing,
                   over |-> IF try.held THEN FALSE ELSE dog.over \/ past]
        /\ UNCHANGED main

\* Back within: the entry no longer waits.
BackWithin ==
    /\ dog.pc = "back"
    /\ Set(TryHold(dog.read.base, dog.read.extra, FALSE))
    /\ dog' = [dog EXCEPT !.pc = "sleep", !.read = Nothing]
    /\ UNCHANGED main

----------------------------------------------------------------------------
(* What happens to the process.                                            *)

\* The process allocates and frees.
Resident ==
    /\ resident' \in 0..MaxResident
    /\ UNCHANGED <<upFront, own, room, main, dog>>

\* Other processes come and go.
Room ==
    /\ room' \in Rooms
    /\ UNCHANGED <<upFront, own, resident, main, dog>>

MainNext ==
    \/ StartUpFront
    \/ \E size \in 1..MaxResident : ReserveAtLeast(size)
    \/ ReadForCheck
    \/ Hold
    \/ Mark
    \/ ReadForMark
    \/ Rewrite
    \/ Unmark
    \/ ReadForEnd
    \/ GiveBack

DogNext == Wake \/ Ask \/ BackWithin

Next == MainNext \/ DogNext \/ Resident \/ Room

Spec == Init /\ [][Next]_vars

----------------------------------------------------------------------------
(* What the process promises.                                              *)

\* "Every kicad-cli that loads a board runs inside its process's
\* reservation": while a check runs the reservation has its memory.
ChecksRunInside == main.pc = "work" => checks <= extra

\* A command that reserves its check up front keeps that, although the
\* watchdog writes the children's part back that it read a lock before.
ChecksRunInsideUpFront == upFront => ChecksRunInside

\* The children's part never comes to more than the one check that runs:
\* what a stale writer brings back, the next check takes for its own.
OneCheckAtMost == extra <= KicadCheck

\* No interleaving of the two threads lowers the process's own limit, the
\* one its watchdog ends it by: each holds with what it read before.
OwnLimitOnlyGrows == [][base' >= base]_vars

============================================================================
