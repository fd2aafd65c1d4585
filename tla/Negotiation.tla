---------------------------- MODULE Negotiation ----------------------------
(***************************************************************************)
(* The router's negotiation and the hard repair after it (pcb-router,      *)
(* router/negotiate.rs, batching.rs, give_up.rs, resolve.rs, the forced    *)
(* connections of finish.rs and the phases of driver.rs): a run, or a      *)
(* probe whose work limit may cut an iteration and its resume.             *)
(*                                                                         *)
(* A batch's nets are searched against one occupancy, in threads or in     *)
(* turn: a step each, the stamps after all of them.                        *)
(*                                                                         *)
(* The code's lists of nets are in the routing order, but for two that     *)
(* have a part that comes last: a list is a set here, and `added` or the   *)
(* links say which of it comes last.                                       *)
(***************************************************************************)
EXTENDS Copper

CONSTANTS
    Window,         \* the cells of a net's search window, with its margin
    MaxBatch,       \* members of a batch
    MaxIterations,
    PriceCap,       \* the price of sharing, in growths since present_factor
    Rule,           \* GiveUpRule
    ForceRounds, MaxInvolved,   \* bounds of a forced connection
    ProbesGiveUp    \* whether probed boards have links to give up

ASSUME NegotiationConstants ==
    /\ MaxBatch \in Nat \ {0} /\ MaxIterations \in Nat /\ PriceCap \in Nat
    /\ ForceRounds \in Nat /\ MaxInvolved \in Nat
    /\ Rule \in [minRounds : Nat, stall : Nat, pathless : Nat, maxRounds : Nat, minPresent : Nat]
    /\ Rule.pathless > 0 /\ Rule.maxRounds > 0

VARIABLES
    board,
    mode,           \* "run", "probe", or "resumed" after a probe
    gives,          \* whether the board says what its links stand for
    phase,
    order,          \* the nets to route
    iterations,     \* over all negotiations
    iteration,      \* of this one
    present,        \* the price of sharing
    reached,        \* present_reached
    pending,        \* the nets of the next iteration
    added,          \* those of them that a give-up added at the end
    left,           \* those of this one that are in no batch yet
    batch,          \* the batch in hand
    todo,           \* the nets still to handle in this phase
    cut,            \* the rest of an iteration that a limit cut
    finishing,      \* whether that rest is being routed
    removed,        \* the nets the hard repair ripped up or routes on
    untried,        \* the links given up that it may still try again
    try,            \* the try in hand: a link's, or a forced connection
    asked,          \* the nets this iteration is for
    searched,       \* how often it searched each net
    ended           \* how many iterations ended in conflict

negotiation == <<iterations, iteration, present, reached, pending, added, cut, finishing>>
work == <<left, batch, todo>>
repair == <<removed, untried, try>>
history == <<asked, searched, ended>>
vars == <<board, mode, gives, phase, order, negotiation, work, repair, history>>

NoCut == [left |-> {}, present |-> -1]
NoTry == [net |-> 0, saved |-> [n \in {} |-> {}], ok |-> TRUE, round |-> 0, before |-> {},
          rest |-> {}]
Min2(a, b) == IF a < b THEN a ELSE b
Grown(price) == Min2(price + 1, PriceCap)

RoutingOrder(b) == {n \in Nets : b.nets[n].routable}
Unfinished(b, nets) == {n \in nets : ~b.nets[n].complete \/ InConflict(b, n)}

\* Nets whose windows are apart share a batch; each goes to the first it fits, so that
\* the first batch is of every net that fits the ones before it.
Fits(n, members) ==
    Cardinality(members) < MaxBatch /\ \A m \in members : Window[m] \cap Window[n] = {}
FirstBatch(members, nets) ==
    \A n \in nets :
        n \in members <=> Fits(n, {m \in members \ {n} : Sooner(m, n, added)})

\* How a round counts for an optional net, by its conflicts (GiveUpRecord::round).
Counted(record, cells, complete, price) ==
    CASE cells > 0 /\ price < Rule.minPresent -> record
      [] cells > 0 /\ price >= Rule.minPresent ->
            LET better == record.best < 0 \/ cells < record.best
            IN  [unsettled |-> record.unsettled + 1, pathless |-> 0,
                 best |-> IF better THEN cells ELSE record.best,
                 since |-> IF better THEN 0 ELSE record.since + 1]
      [] cells = 0 /\ complete -> NoRecord
      [] OTHER -> [record EXCEPT !.unsettled = @ + 1, !.pathless = @ + 1]

Verdict(record) ==
    CASE record.pathless >= Rule.pathless -> "no path"
      [] record.pathless < Rule.pathless
            /\ \/ record.unsettled >= Rule.maxRounds
               \/ record.unsettled >= Rule.minRounds /\ record.since >= Rule.stall -> "no room"
      [] OTHER -> ""

Rounded(b, nets, price) ==
    LET record(n) == Counted(b.nets[n].record, Cardinality(Conflicts(b, n)),
                             b.nets[n].complete, price)
    IN  [b EXCEPT !.nets = [n \in Nets |-> IF n \notin nets THEN b.nets[n]
                                           ELSE [b.nets[n] EXCEPT !.record = record(n)]]]

Gone(b) == {entry.net : entry \in b.gone}
StoodFor(links) == UNION {StandsFor[l] : l \in links}

\* Links given up: their copper goes, they are routed no more; the nets that all
\* links given up so far stand for are made afresh without them (release).
Dropped(b, links) ==
    LET bare == StripAll(b, links)
    IN  [bare EXCEPT
            !.nets = [n \in Nets |-> IF n \notin links THEN @[n]
                                     ELSE [@[n] EXCEPT !.released = TRUE, !.routable = FALSE]],
            !.gone = @ \cup {[net |-> l, reason |-> Verdict(b.nets[l].record)] : l \in links}]

Release(b, links) ==
    LET dropped == Dropped(b, links)
        all == Gone(dropped)
    IN  Rewrite(StripAll(dropped, StoodFor(all)), StoodFor(all), all)

\* give_up_round: the board, and the nets of the next iteration.
GiveUpRound(b, conflicted, price) ==
    LET links == {n \in order \cap Links :
                    gives /\ ~b.nets[n].released /\ b.nets[n].routable}
        counted == Rounded(b, links, price)
        \* A settled net has no verdict, nor has a conflict below the price.
        counts(n) == IF InConflict(b, n) THEN price >= Rule.minPresent ELSE ~b.nets[n].complete
        going == {n \in links : counts(n) /\ Verdict(counted.nets[n].record) # ""}
        after == Release(counted, going)
        again == {n \in StoodFor(Gone(after)) \ conflicted : after.nets[n].routable}
    IN  IF going = {} THEN [board |-> counted, nets |-> conflicted, added |-> {}]
        ELSE [board |-> after, added |-> again,
              nets |-> {n \in conflicted : ~after.nets[n].released} \cup again]

\* end_iteration: the nets in conflict, or without a path they may still find.
IterationEnd(b, price) ==
    LET stuck == [n \in Nets |->
                    IF n \notin order THEN b.nets[n]
                    ELSE [b.nets[n] EXCEPT !.stuck = IF InConflict(b, n) THEN @ + 1 ELSE 0]]
        open(n) == InConflict(b, n)
                   \/ ~(b.nets[n].complete \/ b.nets[n].blocked \/ b.nets[n].released)
    IN  GiveUpRound([b EXCEPT !.nets = stuck], {n \in order : open(n)}, price)

Init ==
    /\ mode \in {"run", "probe"}
    /\ gives \in BOOLEAN /\ (mode = "probe" /\ gives => ProbesGiveUp)
    /\ board = Prepared /\ order = RoutingOrder(Prepared)
    /\ phase = "negotiate" /\ pending = order /\ added = {}
    /\ iterations = 0 /\ iteration = 0 /\ present = 0 /\ reached = 0
    /\ left = {} /\ batch = {} /\ todo = {} /\ cut = NoCut /\ finishing = FALSE
    /\ removed = {} /\ untried = {} /\ try = NoTry
    /\ asked = {} /\ searched = [n \in Nets |-> 0] /\ ended = 0

----------------------------------------------------------------------------
\* The negotiation.

GoTo(next) == phase' = next
Stop == IF mode = "probe" THEN "probed" ELSE "resolve"

\* A cut iteration that was not finished is given up; past the wall-clock deadline a
\* router that has negotiated before keeps its routes.
Negotiate ==
    /\ phase = "negotiate"
    /\ \E late \in BOOLEAN :
        /\ late => iterations > 0
        /\ GoTo(IF late \/ MaxIterations = 0 THEN Stop ELSE "iteration")
    /\ iteration' = 0 /\ cut' = NoCut /\ reached' = present
    /\ UNCHANGED <<board, mode, gives, order, iterations, present, pending, added, finishing,
                   work, repair, history>>

BeginIteration ==
    /\ phase = "iteration"
    /\ iterations' = iterations + 1 /\ iteration' = iteration + 1
    /\ left' = pending /\ asked' = pending /\ searched' = [n \in Nets |-> 0]
    /\ GoTo("batch")
    /\ UNCHANGED <<board, mode, gives, order, present, reached, pending, added, cut, finishing,
                   batch, todo, repair, ended>>

BeginBatch ==
    /\ phase = "batch" /\ left # {}
    /\ \E members \in SUBSET left \ {{}} :
        /\ FirstBatch(members, left)
        /\ batch' = members /\ todo' = members /\ left' = left \ members
    /\ GoTo("rip")
    /\ UNCHANGED <<board, mode, gives, order, negotiation, repair, history>>

\* The work limit binds between two batches of a probe's later iterations.
CutLeaving(rest) ==
    /\ phase = "batch" /\ mode = "probe" /\ iterations > 1
    /\ left # {} /\ left # asked
    /\ cut' = [left |-> rest, present |-> present]
    /\ reached' = present /\ left' = {}
    /\ GoTo("probed")
    /\ UNCHANGED <<board, mode, gives, order, iterations, iteration, present, pending, added,
                   finishing, batch, todo, repair, history>>

\* Mutant: the first net after the cut counts as routed.
CutPast == \E n \in Nets : IsFirst(n, left, added) /\ CutLeaving(left \ {n})
CutIteration == CutLeaving(left)

\* The nets of a batch are handled one by one, then the batch's next part begins.
NextOfBatch(n, next) ==
    /\ IsFirst(n, todo, added)
    /\ IF todo = {n} THEN todo' = batch /\ GoTo(next)
       ELSE todo' = todo \ {n} /\ GoTo(phase)

RipUpNet(n) ==
    /\ phase = "rip"
    /\ NextOfBatch(n, "search")
    /\ board' = RipUpConflicted(board, n)
    /\ UNCHANGED <<mode, gives, order, negotiation, left, batch, repair, history>>

\* The searches stamp nothing: each sees the occupancy the rip-ups left.
SearchNet(n) ==
    /\ phase = "search"
    /\ NextOfBatch(n, "stamp")
    /\ \E branches \in Searches(board, n, FALSE) :
        board' = Routed(board, n, branches, FALSE)
    /\ searched' = [searched EXCEPT ![n] = @ + 1]
    /\ UNCHANGED <<mode, gives, order, negotiation, left, batch, repair, asked, ended>>

StampNet(n) ==
    /\ phase = "stamp" /\ IsFirst(n, todo, added)
    /\ board' = Stamp(board, n)
    /\ todo' = todo \ {n}
    /\ IF todo = {n} THEN GoTo("batch") /\ batch' = {} ELSE GoTo("stamp") /\ UNCHANGED batch
    /\ UNCHANGED <<mode, gives, order, negotiation, left, repair, history>>

\* Conflict free, the negotiation ends; else the price grows and it may end stalled,
\* out of work or time, or hopeless.
EndIteration ==
    /\ phase = "batch" /\ left = {} /\ ~finishing
    /\ LET end == IterationEnd(board, present)
           settled == end.nets = {}
           price == IF settled THEN present ELSE Grown(present)
       IN  /\ board' = end.board
           /\ present' = price
           /\ pending' = (IF settled THEN pending ELSE end.nets)
           /\ added' = (IF settled THEN added ELSE end.added)
           /\ ended' = ended + (IF settled THEN 0 ELSE 1)
           /\ \E stop \in BOOLEAN :
                IF stop \/ settled \/ iteration = MaxIterations
                THEN GoTo(Stop) /\ reached' = price
                ELSE GoTo("iteration") /\ UNCHANGED reached
    /\ UNCHANGED <<mode, gives, order, iterations, iteration, cut, finishing, work, repair,
                   asked, searched>>

\* The rest of a cut iteration is routed first, at its price.
Resume ==
    /\ phase = "probed"
    /\ mode' = "resumed" /\ order' = RoutingOrder(board)
    /\ left' = cut.left /\ cut' = NoCut
    /\ IF cut # NoCut
       THEN /\ finishing' = TRUE /\ present' = cut.present /\ GoTo("batch")
            /\ UNCHANGED <<pending, added>>
       ELSE /\ finishing' = FALSE /\ present' = reached /\ GoTo("negotiate")
            /\ pending' = Unfinished(board, order') /\ added' = {}
    /\ UNCHANGED <<board, gives, iterations, iteration, reached, batch, todo, repair, history>>

\* Then the iteration ends as it would have (finish_cut_iteration), and a new
\* negotiation goes on at the price reached.
FinishCut ==
    /\ phase = "batch" /\ left = {} /\ finishing
    /\ LET end == IterationEnd(board, present)
           price == IF end.nets = {} THEN reached ELSE Grown(present)
       IN  /\ board' = end.board
           /\ reached' = price /\ present' = price
           /\ pending' = Unfinished(end.board, order) /\ added' = {}
           /\ ended' = ended + (IF end.nets = {} THEN 0 ELSE 1)
    /\ finishing' = FALSE /\ GoTo("negotiate")
    /\ UNCHANGED <<mode, gives, order, iterations, iteration, cut, work, repair, asked, searched>>

----------------------------------------------------------------------------
\* The hard repair.

Contested == {n \in order \ removed : InConflict(board, n)}
IsWorst(n) ==
    LET count(k) == Cardinality(Conflicts(board, k))
    IN  \A m \in Contested : count(m) < count(n) \/ (count(m) = count(n) /\ m <= n)

\* The most contested net's conflicted branches go, until none is in conflict.
RipWorst(n) ==
    /\ phase = "resolve" /\ n \in Contested /\ IsWorst(n)
    /\ board' = RipUpConflicted([board EXCEPT !.nets[n].stuck = 0], n)
    /\ removed' = removed \cup {n}
    /\ UNCHANGED <<mode, gives, phase, order, negotiation, work, untried, try, history>>

RipsDone ==
    /\ phase = "resolve" /\ Contested = {}
    /\ untried' = {entry.net : entry \in {e \in board.gone : e.reason = "no room"}}
    /\ GoTo("tries")
    /\ UNCHANGED <<board, mode, gives, order, negotiation, work, removed, try, history>>

AsItIs(b, n) == [net |-> b.nets[n], given |-> b.given[n]]
Saved(b, nets) == [n \in nets |-> AsItIs(b, n)]

\* A link given up is routed once more with the others' copper fixed, and its nets'
\* copper gone (retry_released).
TryLink(l) ==
    /\ phase = "tries" /\ l \in untried
    /\ LET nets == StandsFor[l]
           bare == Rewrite(StripAll(board, nets), nets, Gone(board) \ {l})
           link == [NewNet(l, bare.given[l]) EXCEPT !.record = board.nets[l].record]
           fresh == [bare EXCEPT !.nets[l] = link]
       IN  \E branches \in Searches(fresh, l, TRUE) :
            LET with == Stamp(Routed(fresh, l, branches, TRUE), l)
            IN  /\ board' = with
                /\ try' = [NoTry EXCEPT !.net = l, !.saved = Saved(board, nets \cup {l}),
                                     !.before = board]
                /\ todo' = (IF with.nets[l].complete
                            THEN {n \in nets : with.nets[n].routable} ELSE {})
    /\ untried' = untried \ {l}
    /\ GoTo("rejoin")
    /\ UNCHANGED <<mode, gives, order, negotiation, left, batch, removed, history>>

\* A net is routed where no other net's copper is.
RouteAlone(n) ==
    \E branches \in Searches(board, n, TRUE) :
        board' = Stamp(Routed(board, n, branches, TRUE), n)

\* Then its nets, to the link.
Rejoin(n) ==
    /\ phase = "rejoin" /\ IsFirst(n, todo, {})
    /\ RouteAlone(n)
    /\ todo' = todo \ {n}
    /\ UNCHANGED <<mode, gives, phase, order, negotiation, left, batch, repair, history>>

\* The board with some nets' states and terminals as they were saved.
Restored(b, saved, stamps(_)) ==
    [b EXCEPT
        !.nets = [n \in Nets |-> IF n \notin DOMAIN saved THEN @[n]
                                 ELSE [saved[n].net EXCEPT !.stamped = stamps(n)]],
        !.given = [n \in Nets |-> IF n \notin DOMAIN saved THEN @[n] ELSE saved[n].given]]

\* Mutant: the saved stamps come back with the saved states.
PutBackStamped(b, saved, link) ==
    LET back == Restored(StripAll(b, DOMAIN saved), saved, LAMBDA n : saved[n].net.stamped)
    IN  StampAll(back, DOMAIN saved \ {link})

\* The board with a failed try's nets as they were: the stamps follow the branches.
PutBack(b, saved, link) ==
    LET back == Restored(StripAll(b, DOMAIN saved), saved, LAMBDA n : {})
    IN  StampAll(back, DOMAIN saved \ {link})

\* All complete, its nets leave no terminal open that was not before.
TryStands == \A n \in DOMAIN try.saved : board.nets[n].complete

JudgeTry ==
    /\ phase = "rejoin" /\ todo = {}
    /\ board' = (IF TryStands
                 THEN [board EXCEPT !.gone = {e \in @ : e.net # try.net}]
                 ELSE PutBack(board, try.saved, try.net))
    /\ try' = NoTry /\ GoTo("tries")
    /\ UNCHANGED <<mode, gives, order, negotiation, work, removed, untried, history>>

\* The links tried, or the work for it spent: the nets ripped up and the incomplete
\* ones are routed hard, links first.
TriesDone ==
    /\ phase = "tries"
    /\ LET incomplete == {n \in order : ~board.nets[n].complete /\ ~board.nets[n].released}
       IN  removed' = removed \cup incomplete /\ todo' = removed'
    /\ GoTo("hard")
    /\ UNCHANGED <<board, mode, gives, order, negotiation, left, batch, untried, try, history>>

LinksFirst == Nets \ Links

\* Past its budget the repair leaves a net open.
RouteHard(n) ==
    /\ phase = "hard" /\ IsFirst(n, todo, LinksFirst)
    /\ RouteAlone(n) \/ UNCHANGED board
    /\ todo' = todo \ {n}
    /\ UNCHANGED <<mode, gives, phase, order, negotiation, left, batch, repair, history>>

RepairDone ==
    /\ phase = "hard" /\ todo = {}
    /\ todo' = removed /\ GoTo("force")
    /\ UNCHANGED <<board, mode, gives, order, negotiation, left, batch, repair, history>>

PassOver(n) ==
    /\ phase = "force" /\ IsFirst(n, todo, LinksFirst)
    /\ todo' = todo \ {n}
    /\ UNCHANGED <<board, mode, gives, phase, order, negotiation, left, batch, repair, history>>

\* A net still incomplete is routed through the others' copper (force_connect).
ForceConnect(n) ==
    /\ phase = "force" /\ IsFirst(n, todo, LinksFirst) /\ ~board.nets[n].complete
    /\ LET bare == UnstampAll(board, {n})
       IN  \E branches \in Searches(bare, n, FALSE) :
            LET through == Routed(bare, n, branches, FALSE)
                forced == Stamp([through EXCEPT !.nets[n].blocked = FALSE], n)
            IN  /\ board' = forced
                /\ try' = [NoTry EXCEPT !.net = n, !.saved = Saved(board, {n}),
                                     !.ok = forced.nets[n].complete, !.before = board,
                                     !.rest = todo \ {n}]
    /\ todo' = {} /\ GoTo("displace")
    /\ UNCHANGED <<mode, gives, order, negotiation, left, batch, removed, untried, history>>

Displaced == {n \in order \ {try.net} : InConflict(board, n)}

\* The nets it displaces are rerouted, all of them a round; too many, and it fails.
ForceRound ==
    /\ phase = "displace" /\ todo = {} /\ try.ok
    /\ Displaced # {} /\ try.round < ForceRounds
    /\ LET many == Cardinality(DOMAIN try.saved) + Cardinality(Displaced) > MaxInvolved
       IN  /\ todo' = (IF many THEN {} ELSE Displaced)
           /\ try' = [try EXCEPT !.ok = ~many, !.round = @ + 1]
    /\ UNCHANGED <<board, mode, gives, phase, order, negotiation, left, batch, removed, untried,
                   history>>

\* A net is saved before its first reroute.
Displace(n) ==
    /\ phase = "displace" /\ IsFirst(n, todo, {})
    /\ LET ripped == RipUpConflicted(board, n)
       IN  \E branches \in Searches(ripped, n, FALSE) :
            board' = Stamp(Routed(ripped, n, branches, FALSE), n)
    /\ LET involved == DOMAIN try.saved \cup {n}
       IN  try' = [try EXCEPT !.saved = [m \in involved |-> IF m \in DOMAIN @ THEN @[m]
                                                              ELSE AsItIs(board, m)]]
    /\ todo' = todo \ {n}
    /\ UNCHANGED <<mode, gives, phase, order, negotiation, left, batch, removed, untried, history>>

\* The board with a failed connection's nets as they were: all of them unstamped
\* first, then stamped again.
TakeBack(b, saved) ==
    LET bare == UnstampAll(b, DOMAIN saved)
        back == [bare EXCEPT !.nets =
                    [n \in Nets |-> IF n \notin DOMAIN saved THEN @[n]
                                    ELSE [@[n] EXCEPT !.branches = saved[n].net.branches,
                                                      !.complete = saved[n].net.complete]]]
    IN  StampAll(back, DOMAIN saved)

\* Mutant: a connection stands once its net is complete, whatever it displaced.
SettledItself(b, nets) == b.nets[try.net].complete

Settled(b, nets) == \A n \in nets : b.nets[n].complete /\ ~InConflict(b, n)

EndForce ==
    /\ phase = "displace" /\ todo = {}
    /\ ~try.ok \/ Displaced = {} \/ try.round = ForceRounds
    /\ board' = (IF try.ok /\ Settled(board, DOMAIN try.saved) THEN board
                 ELSE TakeBack(board, try.saved))
    /\ try' = NoTry /\ todo' = try.rest /\ GoTo("force")
    /\ UNCHANGED <<mode, gives, order, negotiation, left, batch, removed, untried, history>>

Finish ==
    /\ phase = "force" /\ todo = {}
    /\ GoTo("done")
    /\ UNCHANGED <<board, mode, gives, order, negotiation, work, repair, history>>

Done == phase = "done" /\ UNCHANGED vars

OfTheBatch(n) == RipUpNet(n) \/ SearchNet(n) \/ StampNet(n)
OfTheRepair(n) ==
    RipWorst(n) \/ Rejoin(n) \/ RouteHard(n) \/ PassOver(n) \/ ForceConnect(n) \/ Displace(n)

Next ==
    \/ Negotiate \/ BeginIteration \/ BeginBatch \/ CutIteration
    \/ EndIteration \/ Resume \/ FinishCut
    \/ \E n \in Nets : OfTheBatch(n) \/ OfTheRepair(n)
    \/ RipsDone \/ (\E l \in Links : TryLink(l)) \/ JudgeTry \/ TriesDone
    \/ RepairDone \/ ForceRound \/ EndForce \/ Finish \/ Done

Spec == Init /\ [][Next]_vars

----------------------------------------------------------------------------
\* What the negotiation and the repair must keep.

Phases == {"negotiate", "iteration", "batch", "rip", "search", "stamp", "probed", "resolve",
           "tries", "rejoin", "hard", "force", "displace", "done"}

\* The types of the negotiation's state and of every net's.
TypeOK ==
    /\ mode \in {"run", "probe", "resumed"} /\ phase \in Phases
    /\ board.occ \in [Cells -> 0..Cardinality(Nets)]
    /\ \A n \in Nets :
        /\ board.nets[n].branches \subseteq Stubs[n] \cup Plan[n][board.given[n]].ways
        /\ board.nets[n].stamped \subseteq Cells /\ board.given[n] \subseteq LinksOf(n)
    /\ order \cup pending \cup left \cup batch \cup todo \cup removed \subseteq Nets
    /\ untried \subseteq Links /\ present \in 0..PriceCap /\ reached \in 0..PriceCap
    /\ finishing => mode = "resumed"

\* The occupancy counts per cell the nets whose copper keeps others away from it:
\* through rip-ups, releases, tries that are taken back and forced connections the
\* counts changed by differences stay those of the copper there is.  Only a batch's
\* nets are behind, from their search to their stamp.
OccupancyIsCopper ==
    phase \notin {"search", "stamp"} =>
        \A c \in Cells :
            board.occ[c] = Cardinality({n \in Nets : c \in Footprint(board.nets[n].branches)})

\* The hard repair leaves no two nets' copper too close, of the nets that are routed
\* from the start, also where it tried links again and forced connections through
\* others' copper (resolve.rs: "Makes the board conflict free").
RepairedIsApart ==
    phase = "done" => \A m, n \in order : m # n => Apart(board, m, n)

\* Cut by a probe's limit or not, an iteration searches each net it is for exactly
\* once, at the price grown once for each iteration that ended in conflict
\* (negotiate.rs: a resumed probe goes on as one that stopped after that iteration).
CutGoesOn ==
    phase = "batch" /\ left = {} =>
        /\ searched = [n \in Nets |-> IF n \in asked THEN 1 ELSE 0]
        /\ present = Min2(ended, PriceCap)

CopperOf(b) ==
    [n \in Nets |-> [branches |-> b.nets[n].branches, complete |-> b.nets[n].complete,
                     released |-> b.nets[n].released, given |-> b.given[n]]]

\* A link tried again, or a connection forced, ends with every net it took up
\* complete and out of conflict, or with the copper and the terminals as they were.
AllOrNothing ==
    [][try # NoTry /\ try' = NoTry =>
        \/ \A n \in DOMAIN try.saved : board'.nets[n].complete /\ ~InConflict(board', n)
        \/ CopperOf(board') = CopperOf(try.before)]_vars

\* A net given up has no copper and is not routed again (give_up.rs, release).
ReleasedStayOut ==
    \A n \in Nets : board.nets[n].released => board.nets[n].branches = {}
=============================================================================
