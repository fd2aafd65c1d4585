----------------------------- MODULE LadderRules -----------------------------
(***************************************************************************)
(* The budget rules of the routing ladder (board_router/budget.rs), pure.  *)
(* Work is counted in minutes of an idle machine; the code's seconds are   *)
(* rounded to them, its divisions round down.                              *)
(*                                                                         *)
(* A board is what the ladder compares: the connections the router left    *)
(* open, those KiCad finds open beside them, its starved thermals, the     *)
(* rank of what its pours lost, its vias and copper.  The last two are one *)
(* number, as the code compares them together.                             *)
(***************************************************************************)
EXTENDS Integers, Sequences, FiniteSets

None == -1          \* an Option's None where the values are naturals

Larger(a, b) == IF a >= b THEN a ELSE b
Smaller(a, b) == IF a <= b THEN a ELSE b
Positive(a) == Larger(a, 0)

---------------------------------------------------------------------------
(* Shares of the work, and what is kept back of it *)

\* Mutant: every rung of a pitch gets all that is left.
WholeShare(left, rungs) == Positive(left)

RungShare(left, rungs) == Positive(left) \div Larger(rungs, 1)

BoundAllowsAttempt(left, budget) == 20 * left >= budget

\* An attempt counts at least two minutes; `to` and `from` are lattices.
FitsBeforeReserve(left, reserve, cost, from, to) ==
    /\ left - reserve >= 2
    /\ (left - reserve) * to * to >= cost * (IF to < from THEN from * from ELSE to * to)

ProjectedExceeds(cost, from, to, limit) == cost * from * from > limit * to * to

NarrowStepMinimum(kept) == Larger(kept \div 2, 3)

NarrowStepReserve(first, cap) ==
    LET kept == Smaller(Larger((3 * first) \div 4, 4), cap)
    IN  IF kept < NarrowStepMinimum(kept) THEN 0 ELSE kept

ReserveWithCheck(reserve, check) == IF reserve > 0 THEN reserve + check ELSE 0

RouteStepReserve(first, left) == Smaller(Positive(first), Positive(left))

RouteStepHasTime(left, kept, budget) ==
    /\ left > 0
    /\ IF kept > 0 THEN 2 * left >= kept ELSE BoundAllowsAttempt(left, budget)

StepCostFits(left, first) == 5 * left >= first
FirstIterationFits(left, iteration) == left >= iteration

LeaderGateAdmits(count, leader) ==
    count = None \/ leader = None \/ count <= 2 * leader

---------------------------------------------------------------------------
(* Which boards KiCad checks, and how boards rank *)

\* (open, starved), pours, copper: the first difference decides.
RankOf(opens, board) == <<opens[1], opens[2], board.pours, board.copper>>
Before(a, b) == \E i \in 1..4 : a[i] < b[i] /\ \A j \in 1..(i - 1) : a[j] = b[j]

Checked(board) == <<board.count + board.kicad, board.starved>>
Unchecked(board) == <<board.count, 0>>

\* Mutant: a tie on the open count is left to vias and copper alone.
CouldWinByCopper(board, opens, best) ==
    \/ board.count < opens[1]
    \/ board.count = opens[1] /\ board.copper < best.copper

CouldWin(board, opens, best) ==
    \/ board.count < opens[1]
    \/ /\ board.count = opens[1]
       /\ opens[2] > 0 \/ board.copper < best.copper

CouldBeatKept(count, kept) == count < kept[1] \/ (count = kept[1] /\ kept[2] > 0)

\* `opens` and `best`: the best board so far (no opens: none yet); `kept`: the
\* caller's board as KiCad sees it (empty: none); `counts`: the measures of
\* the boards checked; `top`: how many by them are checked (0: any).
Wants(board, opens, best, finishing, kept, counts, top) ==
    LET measure == <<board.count, board.copper>>
        ahead   == {i \in DOMAIN counts :
                       counts[i][1] < measure[1]
                          \/ (counts[i][1] = measure[1] /\ counts[i][2] <= measure[2])}
        beats   == opens = <<>> \/ CouldWin(board, opens, best)
    IN  IF finishing
        THEN beats /\ (kept = <<>> \/ CouldBeatKept(board.count, kept))
        ELSE \/ opens = <<>>
             \/ board.count = 0
             \/ beats /\ (top = 0 \/ Cardinality(ahead) < top)

\* As open as the best by the router's count, with better pours.
PoursBetter(board, opens, best) ==
    opens # <<>> /\ board.count = opens[1] /\ board.pours < best.pours
=============================================================================
