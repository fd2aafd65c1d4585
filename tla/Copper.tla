------------------------------- MODULE Copper -------------------------------
(***************************************************************************)
(* The nets' copper on the router's shared lattice (pcb-router,            *)
(* router/stamping.rs and route_net.rs): branches, their stamps, the count *)
(* of stamps per cell (the occupancy), conflicts, rip-ups and the search   *)
(* that grows a net's tree.                                                *)
(*                                                                         *)
(* A branch is [joins, on, nodes]: the terminal it joins to the tree (0: a *)
(* stub that joins none), the terminal whose branch it starts on (0: the   *)
(* net's first terminal), and its lattice nodes; one that starts on        *)
(* another terminal's pad is left out.  Where branches may go is           *)
(* a constant, and so is what a node keeps the other nets away from; what  *)
(* paths cost is left out: a search may return any path.                   *)
(*                                                                         *)
(* What the code does to several nets one after another and to each by     *)
(* itself is done here to a set of nets at once.                           *)
(***************************************************************************)
EXTENDS Integers, FiniteSets

CONSTANTS
    Nets,       \* the nets, numbers
    Cells,      \* the lattice's nodes
    Zone,       \* the cells that copper on a node stamps, itself among them
    Links,      \* the nets that stand in for connections of others
    StandsFor,  \* and for which: a link's nets
    Plan,       \* per net and links given up: its terminals and possible branches
    Stubs,      \* the fixed branches of a net: its escape stubs and skeleton
    StuckWhole  \* iterations in conflict after which a net is ripped up whole

LinksOf(n) == {l \in Links : n \in StandsFor[l]}

Nodes(branches) == UNION {branch.nodes : branch \in branches}
Footprint(branches) == UNION {Zone[c] : c \in Nodes(branches)}

Branch == [joins : Nat, on : Nat, nodes : SUBSET Cells]

\* Two nodes keep each other's nets away or neither does.  Stubs and skeletons are
\* laid where no other net's are (fix_escapes, route_skeletons, fix_plane_stubs).
ASSUME CopperConstants ==
    /\ Nets \subseteq Nat /\ IsFiniteSet(Nets) /\ Links \subseteq Nets /\ IsFiniteSet(Cells)
    /\ Zone \in [Cells -> SUBSET Cells]
    /\ \A c, d \in Cells : c \in Zone[c] /\ (d \in Zone[c] <=> c \in Zone[d])
    /\ StandsFor \in [Links -> SUBSET (Nets \ Links)]
    /\ \A n \in Nets : \A given \in SUBSET LinksOf(n) :
        Plan[n][given].joins \subseteq Nat /\ Plan[n][given].ways \subseteq Branch
    /\ Stubs \in [Nets -> SUBSET Branch]
    /\ \A m, n \in Nets : m # n => Nodes(Stubs[m]) \cap Footprint(Stubs[n]) = {}
    /\ StuckWhole \in Nat \ {0}

\* A board is [nets, occ, given, gone]: the nets' states, the occupancy, the links
\* given up that each net's terminals are made for, and those given up.
NoRecord == [unsettled |-> 0, pathless |-> 0, best |-> -1, since |-> 0]

\* A net as it is prepared for its terminals (prepare_net).
NewNet(n, given) ==
    [branches |-> {}, fixed |-> {}, stamped |-> {}, complete |-> FALSE, blocked |-> FALSE,
     stuck |-> 0, record |-> NoRecord, released |-> FALSE,
     routable |-> Plan[n][given].joins # {}]

\* The nets of `new` that stamp a cell and did not in `old`.
Newly(c, old, new) == {n \in Nets : c \in new[n].stamped \ old[n].stamped}

\* Mutant: the new stamps are counted without regard to the old ones.
RecountNew(occ, old, new) ==
    [c \in Cells |-> occ[c] + Cardinality({n \in Nets : c \in new[n].stamped})
                            - Cardinality(Newly(c, new, old))]

\* Only the stamps that went or came change their counts.
Recount(occ, old, new) ==
    [c \in Cells |-> occ[c] + Cardinality(Newly(c, old, new)) - Cardinality(Newly(c, new, old))]

\* The board with other states of its nets, their stamps counted.
Restamp(b, nets) == [b EXCEPT !.nets = nets, !.occ = Recount(@, b.nets, nets)]

\* A net's stamps follow its branches; or it has none.
Stamped(net) == [net EXCEPT !.stamped = Footprint(net.branches)]
StampAll(b, nets) ==
    Restamp(b, [n \in Nets |-> IF n \in nets THEN Stamped(b.nets[n]) ELSE b.nets[n]])
Stamp(b, n) == StampAll(b, {n})
UnstampAll(b, nets) ==
    Restamp(b, [n \in Nets |-> IF n \in nets THEN [b.nets[n] EXCEPT !.stamped = {}] ELSE b.nets[n]])

\* The order of routing; the nets of `late` come after the others.
Sooner(m, n, late) == IF m \in late <=> n \in late THEN m < n ELSE n \in late
IsFirst(n, nets, late) == n \in nets /\ \A m \in nets \ {n} : Sooner(n, m, late)

\* The nodes of a branch, and of a net but for its fixed branches, that another net
\* stamps too.
Hits(b, branch) == {c \in branch.nodes : b.occ[c] > 1}
Conflicts(b, n) == UNION {Hits(b, branch) : branch \in b.nets[n].branches \ b.nets[n].fixed}
InConflict(b, n) == Conflicts(b, n) # {}

\* Each branch starts at the first terminal or on another branch of the set.
Closed(branches) ==
    \A branch \in branches : branch.on = 0 \/ \E host \in branches : host.joins = branch.on

RipUpWhole(b, n) == b.nets[n].stuck > 0 /\ b.nets[n].stuck % StuckWhole = 0

\* The branches fixed or free of conflict, without those left dangling
\* (unconflicted_branches).
Kept(b, n) ==
    LET net == b.nets[n]
        free == {branch \in net.branches :
                    branch \in net.fixed \/ (~RipUpWhole(b, n) /\ Hits(b, branch) = {})}
    IN  UNION {kept \in SUBSET free : Closed(kept)}

RipUpConflicted(b, n) ==
    Stamp([b EXCEPT !.nets[n].branches = Kept(b, n), !.nets[n].complete = FALSE], n)

\* Every branch of the nets goes, the fixed ones too (strip, rip_up).
StripAll(b, nets) ==
    LET bare(net) == [net EXCEPT !.branches = {}, !.fixed = {}, !.complete = FALSE]
    IN  Restamp(b, [n \in Nets |-> IF n \in nets THEN Stamped(bare(b.nets[n])) ELSE b.nets[n]])

\* Mutant: a search takes one stamp off every cell, its own net's or not.
SeenLess(b, n, c) == b.occ[c] - 1

\* The occupancy as the net's own search sees it (mask_own, occupancy_seen).
Seen(b, n, c) == b.occ[c] - (IF c \in b.nets[n].stamped THEN 1 ELSE 0)
Passable(b, n, branch, hard) == hard => \A c \in branch.nodes : Seen(b, n, c) <= 0

Joined(branches) == {branch.joins : branch \in branches} \ {0}
Terminals(b, n) == Plan[n][b.given[n]].joins
Open(b, n) == Terminals(b, n) \ Joined(b.nets[n].branches)

\* What route_net may make of a net: its branches and more from the tree, one for
\* each terminal a path reaches.  With `hard` they go through no other net's copper.
\* The negotiation's later searches of a blocked net leave terminals out and keep to
\* corridors: what a path reaches may stay open.
Searches(b, n, hard) ==
    LET kept == b.nets[n].branches
        ways == {way \in Plan[n][b.given[n]].ways \ b.nets[n].fixed :
                   way.joins \in Open(b, n) /\ Passable(b, n, way, hard)}
        Tree(new) ==
            /\ \A way, other \in new : way.joins = other.joins => way = other
            /\ Closed(kept \cup new)
        Whole(new) ==
            \A way \in ways : way.joins \in Joined(new) \/ ~Closed(kept \cup new \cup {way})
        tries == IF hard \/ ~b.nets[n].blocked THEN {new \in SUBSET ways : Tree(new) /\ Whole(new)}
                 ELSE {new \in SUBSET ways : Tree(new)}
    IN  {kept \cup new : new \in tries}

\* The net with the branches its search left; one the negotiation's search cannot
\* complete is blocked.
Routed(b, n, branches, hard) ==
    LET complete == Terminals(b, n) \subseteq Joined(branches)
    IN  [b EXCEPT !.nets[n].branches = branches, !.nets[n].complete = complete,
                  !.nets[n].blocked = @ \/ (~hard /\ ~complete)]

\* The terminals of some nets for the links given up, and their states made afresh.
Rewrite(b, nets, given) ==
    [b EXCEPT !.given = [n \in Nets |-> IF n \in nets THEN LinksOf(n) \cap given ELSE @[n]],
              !.nets = [n \in Nets |-> IF n \in nets THEN NewNet(n, LinksOf(n) \cap given)
                                       ELSE @[n]]]

\* The board before the negotiation: what is fixed is stamped.
Prepared ==
    LET net(n) == [NewNet(n, {}) EXCEPT !.branches = Stubs[n], !.fixed = Stubs[n]]
        bare == [nets |-> [n \in Nets |-> net(n)], occ |-> [c \in Cells |-> 0],
                 given |-> [n \in Nets |-> {}], gone |-> {}]
    IN  StampAll(bare, Nets)

\* Two nets' copper lies apart: neither's nodes are in the other's zones.
Apart(b, m, n) == Nodes(b.nets[m].branches) \cap Footprint(b.nets[n].branches) = {}
=============================================================================
