------------------------- MODULE MCLedgerLiveness -------------------------
(***************************************************************************)
(* MemoryLedger for liveness: processes come and go for ever, so the clock *)
(* cannot simply stop at a bound.  The rules only compare times with each  *)
(* other and their differences with the thresholds of the drain, so a step *)
(* of the clock renames the times in use: it keeps their order, and every  *)
(* difference up to one more than the largest threshold.  The states       *)
(* reached are those of MemoryLedger up to that renaming, and finitely     *)
(* many.                                                                   *)
(***************************************************************************)
EXTENDS MemoryLedger

LongBoardOnly == {[mb |-> 3, nightly |-> FALSE, short |-> FALSE, seconds |-> NoTime]}
NoBoardKinds == {}

MaxGap == 1 + Larger(Larger(DrainAfter, DrainMax), StaleAfter)

\* The times in use after one more unit of the clock.
TimesInUse ==
    ({now + 1}
      \cup UNION {{ledger[r].started, ledger[r].since, ledger[r].heldSince,
                   ledger[r].refreshed, ledger[r].end} : r \in Ids}
      \cup UNION {{own[p].started, own[p].since, own[p].heldSince, request[p].at} : p \in Runs}
      \cup {board[b].since : b \in Boards}) \ {NoTime}

\* The units of time that are kept: the first MaxGap after a time in use.
KeptUnits ==
    LET times == TimesInUse
    IN  {u \in 0..now : \E t \in times : t <= u /\ u < t + MaxGap}

\* The new name of a time: the kept units before it.
Renamed(t, kept) ==
    IF t = NoTime THEN NoTime ELSE Cardinality({u \in kept : u < t})

\* The processes that wait poll (2 s, 15 s) well before their entries go
\* stale (120 s): the clock does not outrun a live waiter's poll.
PollsKeepUp ==
    \A w \in Waiters(Live, Ids) : now - ledger[w].refreshed < StaleAfter

TickRenamed ==
    /\ PollsKeepUp
    /\ UNCHANGED <<orphans, pc>>
    /\ \E kept \in {KeptUnits} :
        /\ now' = Renamed(now + 1, kept)
        /\ ledger' = [r \in Ids |-> [ledger[r] EXCEPT
                         !.started = Renamed(@, kept), !.since = Renamed(@, kept),
                         !.heldSince = Renamed(@, kept),
                         !.refreshed = Renamed(@, kept), !.end = Renamed(@, kept)]]
        /\ own' = [p \in Runs |-> [own[p] EXCEPT
                         !.started = Renamed(@, kept), !.since = Renamed(@, kept),
                         !.heldSince = Renamed(@, kept)]]
        /\ request' = [p \in Runs |-> [request[p] EXCEPT !.at = Renamed(@, kept)]]
        /\ board' = [b \in Boards |-> [board[b] EXCEPT !.since = Renamed(@, kept)]]

\* A binary reserves in the unit of time it arms in, before another arms.
ReservesAtOnce == \A p \in Runs : pc[p] = "idle" => own[p].base > 0

\* The steps of runs that nothing kills (a crash is an end whose entry the
\* next update drops) and that no harness withdraws.
RunGoesOn(p) ==
    \/ ReservesAtOnce /\ Arm(p)
    \/ pc[p] = "idle" /\ own[p].base > 0 /\ Exit(p)
    \/ \E in \in Readings :
         \/ \E size \in Sizes : Reserve(p, size, in)
         \/ Poll(p, in)

BoardGoesOn(b) ==
    \/ \E in \in Readings :
         \/ \E kind \in BoardKinds : AskBoard(b, kind, in)
         \/ PollBoard(b, in)
    \/ EndBoard(b)

NextRenamed ==
    \/ \E p \in Runs : RunGoesOn(p)
    \/ \E b \in Boards : BoardGoesOn(b)
    \/ ReservesAtOnce /\ TickRenamed

\* Time passes, waiting processes poll, and a run and a board that do not
\* wait end their work.
Fairness ==
    /\ SF_vars(ReservesAtOnce /\ TickRenamed)
    /\ \A p \in Runs :
         /\ WF_vars(\E in \in Readings : Poll(p, in))
         /\ WF_vars(pc[p] = "idle" /\ Exit(p))
    /\ \A b \in Boards :
         /\ WF_vars(\E in \in Readings : PollBoard(b, in))
         /\ WF_vars(EndBoard(b))

LiveSpec == Init /\ [][NextRenamed]_vars /\ Fairness

\* No board waits for ever: ordered admission and the drain let no stream
\* of newer requests starve it.
EveryBoardStarts ==
    \A b \in Boards : board[b].pc = "waiting" ~> board[b].pc # "waiting"

\* A run that holds memory and waits to hold more does not wait for ever:
\* two of them would each wait for the other.
EveryHolderGoesOn ==
    \A p \in Runs :
        pc[p] = "waiting" /\ ledger[p].mb > 0 ~> pc[p] # "waiting"
============================================================================
