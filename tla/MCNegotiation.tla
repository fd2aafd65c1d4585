--------------------------- MODULE MCNegotiation ---------------------------
EXTENDS Negotiation

\* A row of nodes, each of which keeps its neighbours to its net.
Row == 1..10
Near == [c \in Row |-> {d \in Row : d >= c - 1 /\ d <= c + 1}]

Way(joins, on, nodes) == [joins |-> joins, on |-> on, nodes |-> nodes]

\* A signal, one net of a pair, the pair's link, a net of two branches with a fixed
\* stub, and a link for the signal without a way.
Signal == 1
PairNet == 2
Link == 3
Trunk == 4
Walled == 5

AllNets == {Signal, PairNet, Link, Trunk, Walled}
AllLinks == {Link, Walled}
LinkStandsFor == [l \in AllLinks |-> IF l = Link THEN {PairNet} ELSE {Signal}]

\* The pair's net goes from pad to pad when its link is given up.
Board ==
    [n \in AllNets |->
        CASE n = Signal -> [given \in {{}, {Walled}} |->
                [joins |-> {1}, ways |-> {Way(1, 0, {1}), Way(1, 0, {5})}]]
          [] n = PairNet -> [given \in {{}, {Link}} |->
                [joins |-> {1},
                 ways |-> IF given = {} THEN {Way(1, 0, {2}), Way(1, 0, {5})}
                          ELSE {Way(1, 0, {5, 6}), Way(1, 0, {8})}]]
          [] n = Link -> [given \in {{}} |->
                [joins |-> {1}, ways |-> {Way(1, 0, {4}), Way(1, 0, {7})}]]
          [] n = Trunk -> [given \in {{}} |->
                [joins |-> {1, 2}, ways |-> {Way(1, 0, {6}), Way(1, 0, {9}), Way(2, 1, {3})}]]
          [] n = Walled -> [given \in {{}} |-> [joins |-> {1}, ways |-> {}]]]

FixedStubs == [n \in AllNets |-> IF n = Trunk THEN {Way(0, 0, {10})} ELSE {}]

Windows ==
    [n \in AllNets |->
        CASE n = Signal -> 1..3 [] n = PairNet -> 2..5 [] n = Link -> 4..8
          [] n = Trunk -> Row [] n = Walled -> {9}]

Rules == [minRounds |-> 1, stall |-> 1, pathless |-> 1, maxRounds |-> 2, minPresent |-> 1]
=============================================================================
