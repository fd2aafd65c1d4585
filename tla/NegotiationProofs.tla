------------------------- MODULE NegotiationProofs -------------------------
(***************************************************************************)
(* Theorems of the negotiation and the hard repair, for any nets, lattice, *)
(* links and bounds: the types; that the occupancy counts the copper there *)
(* is; that a cut iteration goes on; that the repair leaves the nets'      *)
(* copper apart; and that a link tried again or a connection forced gives  *)
(* all or nothing.                                                         *)
(***************************************************************************)
EXTENDS Negotiation, FiniteSetTheorems, TLAPS

---------------------------------------------------------------------------
(* Boards *)

\* The types of a board and of its nets.
Records == [unsettled : Nat, pathless : Nat, best : Int, since : Nat]
NetStates ==
    [branches : SUBSET Branch, fixed : SUBSET Branch, stamped : SUBSET Cells,
     complete : BOOLEAN, blocked : BOOLEAN, stuck : Nat, record : Records,
     released : BOOLEAN, routable : BOOLEAN]
Entries == [net : Links, reason : {"", "no path", "no room"}]
Boards ==
    [nets : [Nets -> NetStates], occ : [Cells -> Int], given : [Nets -> SUBSET Links],
     gone : SUBSET Entries]

\* The occupancy counts the stamps there are.
Counts(b) == \A c \in Cells : b.occ[c] = Cardinality({n \in Nets : c \in b.nets[n].stamped})

\* A net's copper is where its terminals may have it.
Rightful(b, n) ==
    /\ b.given[n] \subseteq LinksOf(n)
    /\ b.nets[n].branches \subseteq Stubs[n] \cup Plan[n][b.given[n]].ways
    /\ b.nets[n].fixed \subseteq Stubs[n]

\* A board of its types, its stamps counted, every net rightful.
Sound(b) == b \in Boards /\ Counts(b) /\ \A n \in Nets : Rightful(b, n)

\* Boards that differ in the nets' states only, and in the occupancy with them.
OfNets(b, c) == c.given = b.given /\ c.gone = b.gone

\* Copper and its zones are of cells.
LEMMA FootprintType ==
    ASSUME NEW branches \in SUBSET Branch
    PROVE  Nodes(branches) \subseteq Cells /\ Footprint(branches) \subseteq Cells
<1>1. Nodes(branches) \subseteq Cells
  BY DEF Nodes, Branch
<1>2. QED
  BY <1>1, CopperConstants DEF Footprint

\* The count changed by what went and what came is the count of what there is.
LEMMA CountOfDifference ==
    ASSUME NEW A \in SUBSET Nets, NEW B \in SUBSET Nets
    PROVE  /\ Cardinality(A) \in Nat /\ Cardinality(B \ A) \in Nat /\ Cardinality(A \ B) \in Nat
           /\ Cardinality(B) = Cardinality(A) + Cardinality(B \ A) - Cardinality(A \ B)
<1>1. IsFiniteSet(A) /\ IsFiniteSet(B) /\ IsFiniteSet(A \ B) /\ IsFiniteSet(B \ A)
  BY CopperConstants, FS_Subset
<1>2. Cardinality(A \ B) = Cardinality(A) - Cardinality(A \cap B)
  BY <1>1, FS_Difference
<1>3. Cardinality(B \ A) = Cardinality(B) - Cardinality(A \cap B)
  <2>1. Cardinality(B \ A) = Cardinality(B) - Cardinality(B \cap A)
    BY <1>1, FS_Difference
  <2>2. A \cap B = B \cap A
    OBVIOUS
  <2>3. QED
    BY <2>1, <2>2, Zenon
<1>5. /\ Cardinality(A) \in Nat /\ Cardinality(B) \in Nat /\ Cardinality(A \cap B) \in Nat
      /\ Cardinality(A \ B) \in Nat /\ Cardinality(B \ A) \in Nat
  BY <1>1, FS_CardinalityType, FS_Intersection
<1>6. QED
  BY <1>2, <1>3, <1>5

\* The parts of a board.
LEMMA BoardParts ==
    ASSUME NEW b \in Boards
    PROVE  /\ b.nets \in [Nets -> NetStates] /\ b.occ \in [Cells -> Int]
           /\ b.given \in [Nets -> SUBSET Links] /\ b.gone \in SUBSET Entries
  BY DEF Boards

\* Stamps are counted as they change.
LEMMA RestampSound ==
    ASSUME NEW b \in Boards, Counts(b), NEW nets \in [Nets -> NetStates]
    PROVE  /\ Restamp(b, nets) \in Boards /\ Counts(Restamp(b, nets))
           /\ Restamp(b, nets).nets = nets /\ OfNets(b, Restamp(b, nets))
<1> DEFINE occ == Recount(b.occ, b.nets, nets)
           new == Restamp(b, nets)
<1>1. \A c \in Cells : /\ occ[c] = Cardinality({n \in Nets : c \in nets[n].stamped})
                       /\ occ[c] \in Int
  <2> SUFFICES ASSUME NEW c \in Cells
               PROVE  /\ occ[c] = Cardinality({n \in Nets : c \in nets[n].stamped})
                      /\ occ[c] \in Int
    OBVIOUS
  <2> DEFINE A == {n \in Nets : c \in b.nets[n].stamped}
             B == {n \in Nets : c \in nets[n].stamped}
  <2>1. Newly(c, b.nets, nets) = B \ A /\ Newly(c, nets, b.nets) = A \ B
    BY DEF Newly
  <2>2. b.occ[c] = Cardinality(A)
    BY DEF Counts
  <2>3. occ[c] = Cardinality(A) + Cardinality(B \ A) - Cardinality(A \ B)
    BY <2>1, <2>2 DEF Recount
  <2>4. A \in SUBSET Nets /\ B \in SUBSET Nets
    OBVIOUS
  <2> HIDE DEF occ, A, B
  <2>5. /\ Cardinality(A) \in Nat /\ Cardinality(B \ A) \in Nat /\ Cardinality(A \ B) \in Nat
        /\ Cardinality(B) = Cardinality(A) + Cardinality(B \ A) - Cardinality(A \ B)
    BY <2>4, CountOfDifference, Zenon
  <2>6. occ[c] = Cardinality(B) /\ occ[c] \in Int
    BY <2>3, <2>5
  <2>7. QED
    BY <2>6 DEF B
<1>2. occ \in [Cells -> Int]
  <2>1. \A c \in Cells : occ[c] \in Int
    BY <1>1
  <2>2. occ = [c \in Cells |-> occ[c]]
    BY DEF Recount
  <2> HIDE DEF occ
  <2>3. QED
    BY <2>1, <2>2
<1>3. new = [b EXCEPT !.nets = nets, !.occ = occ]
  BY DEF Restamp
<1> HIDE DEF occ
<1>4. new \in Boards /\ new.nets = nets /\ new.occ = occ /\ new.given = b.given
      /\ new.gone = b.gone
  BY <1>2, <1>3 DEF Boards
<1>5. QED
  BY <1>1, <1>4 DEF Counts, OfNets

\* The parts of a net's state.
LEMMA NetParts ==
    ASSUME NEW net \in NetStates
    PROVE  /\ net.branches \in SUBSET Branch /\ net.fixed \in SUBSET Branch
           /\ net.stamped \in SUBSET Cells /\ net.complete \in BOOLEAN
           /\ net.blocked \in BOOLEAN /\ net.stuck \in Nat /\ net.record \in Records
           /\ net.released \in BOOLEAN /\ net.routable \in BOOLEAN
  BY DEF NetStates

\* The parts of a sound board.
LEMMA SoundParts ==
    ASSUME NEW b, Sound(b)
    PROVE  /\ b \in Boards /\ Counts(b)
           /\ b.nets \in [Nets -> NetStates] /\ b.occ \in [Cells -> Int]
           /\ b.given \in [Nets -> SUBSET Links] /\ b.gone \in SUBSET Entries
           /\ \A n \in Nets : b.nets[n] \in NetStates /\ Rightful(b, n)
  BY BoardParts DEF Sound

\* What a net keeps while only its stamps change.
Alike(net, new) ==
    /\ new.branches = net.branches /\ new.fixed = net.fixed /\ new.complete = net.complete
    /\ new.blocked = net.blocked /\ new.stuck = net.stuck /\ new.record = net.record
    /\ new.released = net.released /\ new.routable = net.routable

\* A board whose nets' stamps alone change stays sound.
LEMMA RestampAlike ==
    ASSUME NEW b, Sound(b), NEW nets \in [Nets -> NetStates],
           \A n \in Nets : nets[n].branches \subseteq b.nets[n].branches
                           /\ nets[n].fixed \subseteq b.nets[n].fixed
    PROVE  /\ Sound(Restamp(b, nets)) /\ Restamp(b, nets).nets = nets
           /\ OfNets(b, Restamp(b, nets))
<1>1. /\ Restamp(b, nets) \in Boards /\ Counts(Restamp(b, nets))
      /\ Restamp(b, nets).nets = nets /\ OfNets(b, Restamp(b, nets))
  BY SoundParts, RestampSound
<1>2. \A n \in Nets : Rightful(Restamp(b, nets), n)
  BY <1>1, SoundParts DEF Rightful, OfNets
<1>3. QED
  BY <1>1, <1>2 DEF Sound

\* A net's state with its stamps after its branches.
LEMMA StampedType ==
    ASSUME NEW net \in NetStates
    PROVE  /\ Stamped(net) \in NetStates /\ Alike(net, Stamped(net))
           /\ Stamped(net).stamped = Footprint(net.branches)
<1>1. Footprint(net.branches) \in SUBSET Cells
  BY NetParts, FootprintType
<1>2. QED
  BY <1>1 DEF Stamped, NetStates, Alike

\* Stamping nets changes their stamps alone.
LEMMA StampAllSound ==
    ASSUME NEW b, Sound(b), NEW S \in SUBSET Nets
    PROVE  /\ Sound(StampAll(b, S)) /\ OfNets(b, StampAll(b, S))
           /\ \A n \in Nets :
                /\ Alike(b.nets[n], StampAll(b, S).nets[n])
                /\ n \notin S => StampAll(b, S).nets[n] = b.nets[n]
                /\ n \in S => StampAll(b, S).nets[n].stamped = Footprint(b.nets[n].branches)
<1> DEFINE nets == [n \in Nets |-> IF n \in S THEN Stamped(b.nets[n]) ELSE b.nets[n]]
<1>1. \A n \in Nets : /\ b.nets[n] \in NetStates /\ Stamped(b.nets[n]) \in NetStates
                      /\ Alike(b.nets[n], Stamped(b.nets[n]))
                      /\ Stamped(b.nets[n]).stamped = Footprint(b.nets[n].branches)
  BY SoundParts, StampedType
<1>2. nets \in [Nets -> NetStates]
  BY <1>1
<1>3. \A n \in Nets :
        /\ Alike(b.nets[n], nets[n])
        /\ n \notin S => nets[n] = b.nets[n]
        /\ n \in S => nets[n].stamped = Footprint(b.nets[n].branches)
  BY <1>1 DEF Alike
<1>4. StampAll(b, S) = Restamp(b, nets)
  BY DEF StampAll
<1> HIDE DEF nets
<1>5. \A n \in Nets : nets[n].branches \subseteq b.nets[n].branches
                      /\ nets[n].fixed \subseteq b.nets[n].fixed
  BY <1>3 DEF Alike
<1>6. Sound(Restamp(b, nets)) /\ Restamp(b, nets).nets = nets /\ OfNets(b, Restamp(b, nets))
  BY <1>2, <1>5, RestampAlike
<1>7. QED
  BY <1>3, <1>4, <1>6

\* So does taking their stamps off.
LEMMA UnstampAllSound ==
    ASSUME NEW b, Sound(b), NEW S \in SUBSET Nets
    PROVE  /\ Sound(UnstampAll(b, S)) /\ OfNets(b, UnstampAll(b, S))
           /\ \A n \in Nets :
                /\ Alike(b.nets[n], UnstampAll(b, S).nets[n])
                /\ n \notin S => UnstampAll(b, S).nets[n] = b.nets[n]
                /\ n \in S => UnstampAll(b, S).nets[n].stamped = {}
<1> DEFINE bare(net) == [net EXCEPT !.stamped = {}]
           nets == [n \in Nets |-> IF n \in S THEN bare(b.nets[n]) ELSE b.nets[n]]
<1>1. \A n \in Nets : /\ b.nets[n] \in NetStates /\ bare(b.nets[n]) \in NetStates
                      /\ Alike(b.nets[n], bare(b.nets[n])) /\ bare(b.nets[n]).stamped = {}
  BY SoundParts DEF NetStates, Alike
<1>4. UnstampAll(b, S) = Restamp(b, nets)
  BY DEF UnstampAll
<1> HIDE DEF bare
<1>2. nets \in [Nets -> NetStates]
  BY <1>1
<1>3. \A n \in Nets :
        /\ Alike(b.nets[n], nets[n])
        /\ n \notin S => nets[n] = b.nets[n]
        /\ n \in S => nets[n].stamped = {}
  BY <1>1 DEF Alike
<1> HIDE DEF nets
<1>5. \A n \in Nets : nets[n].branches \subseteq b.nets[n].branches
                      /\ nets[n].fixed \subseteq b.nets[n].fixed
  BY <1>3 DEF Alike
<1>6. Sound(Restamp(b, nets)) /\ Restamp(b, nets).nets = nets /\ OfNets(b, Restamp(b, nets))
  BY <1>2, <1>5, RestampAlike
<1>7. QED
  BY <1>3, <1>4, <1>6

\* No branches, no copper.
LEMMA NoCopper == Nodes({}) = {} /\ Footprint({}) = {}
  BY DEF Nodes, Footprint

\* A net without copper or stamps.
Bare(net) == net.branches = {} /\ net.fixed = {} /\ net.stamped = {}

\* Stripped nets are bare; the others stay.
LEMMA StripAllSound ==
    ASSUME NEW b, Sound(b), NEW S \in SUBSET Nets
    PROVE  /\ Sound(StripAll(b, S)) /\ OfNets(b, StripAll(b, S))
           /\ \A n \in Nets :
                /\ n \notin S => StripAll(b, S).nets[n] = b.nets[n]
                /\ n \in S => /\ Bare(StripAll(b, S).nets[n])
                              /\ StripAll(b, S).nets[n].released = b.nets[n].released
                              /\ StripAll(b, S).nets[n].routable = b.nets[n].routable
                              /\ StripAll(b, S).nets[n].record = b.nets[n].record
<1> DEFINE bare(net) == [net EXCEPT !.branches = {}, !.fixed = {}, !.complete = FALSE]
           nets == [n \in Nets |-> IF n \in S THEN Stamped(bare(b.nets[n])) ELSE b.nets[n]]
<1>1. \A net \in NetStates :
        /\ bare(net) \in NetStates /\ bare(net).branches = {} /\ bare(net).fixed = {}
        /\ bare(net).released = net.released /\ bare(net).routable = net.routable
        /\ bare(net).record = net.record
  BY DEF NetStates
<1>2. StripAll(b, S) = Restamp(b, nets)
  BY DEF StripAll
<1> HIDE DEF bare
<1>3. \A net \in NetStates :
        /\ Stamped(bare(net)) \in NetStates /\ Bare(Stamped(bare(net)))
        /\ Stamped(bare(net)).released = net.released
        /\ Stamped(bare(net)).routable = net.routable
        /\ Stamped(bare(net)).record = net.record
  <2> SUFFICES ASSUME NEW net \in NetStates
               PROVE  /\ Stamped(bare(net)) \in NetStates /\ Bare(Stamped(bare(net)))
                      /\ Stamped(bare(net)).released = net.released
                      /\ Stamped(bare(net)).routable = net.routable
                      /\ Stamped(bare(net)).record = net.record
    OBVIOUS
  <2>1. /\ Stamped(bare(net)) \in NetStates /\ Alike(bare(net), Stamped(bare(net)))
        /\ Stamped(bare(net)).stamped = Footprint(bare(net).branches)
    BY <1>1, StampedType
  <2>2. QED
    BY <1>1, <2>1, NoCopper DEF Alike, Bare
<1>4. \A n \in Nets : b.nets[n] \in NetStates
  BY SoundParts
<1>5. nets \in [Nets -> NetStates]
  BY <1>3, <1>4
<1>6. \A n \in Nets :
        /\ n \notin S => nets[n] = b.nets[n]
        /\ n \in S => /\ Bare(nets[n])
                      /\ nets[n].released = b.nets[n].released
                      /\ nets[n].routable = b.nets[n].routable
                      /\ nets[n].record = b.nets[n].record
  BY <1>3, <1>4
<1> HIDE DEF nets
<1>7. \A n \in Nets : nets[n].branches \subseteq b.nets[n].branches
                      /\ nets[n].fixed \subseteq b.nets[n].fixed
  BY <1>6 DEF Bare
<1>8. Sound(Restamp(b, nets)) /\ Restamp(b, nets).nets = nets /\ OfNets(b, Restamp(b, nets))
  BY <1>5, <1>7, RestampAlike
<1>9. QED
  BY <1>2, <1>6, <1>8

\* A net's state replaced by one of the same stamps.
With(b, n, net) == [b EXCEPT !.nets[n] = net]

\* The board stays sound, and the other nets stay.
LEMMA WithSound ==
    ASSUME NEW b, Sound(b), NEW n \in Nets, NEW net \in NetStates,
           net.stamped = b.nets[n].stamped,
           net.branches \subseteq Stubs[n] \cup Plan[n][b.given[n]].ways,
           net.fixed \subseteq Stubs[n]
    PROVE  /\ Sound(With(b, n, net)) /\ OfNets(b, With(b, n, net))
           /\ With(b, n, net).nets[n] = net /\ With(b, n, net).occ = b.occ
           /\ \A m \in Nets \ {n} : With(b, n, net).nets[m] = b.nets[m]
<1> DEFINE c == With(b, n, net)
<1>1. b.nets \in [Nets -> NetStates] /\ b \in Boards
  BY SoundParts
<1>2. c \in Boards /\ c.nets = [b.nets EXCEPT ![n] = net] /\ c.occ = b.occ
      /\ c.given = b.given /\ c.gone = b.gone
  BY <1>1 DEF With, Boards
<1> HIDE DEF c
<1>3. c.nets[n] = net /\ \A m \in Nets \ {n} : c.nets[m] = b.nets[m]
  BY <1>1, <1>2
<1>4. \A m \in Nets : c.nets[m].stamped = b.nets[m].stamped
  BY <1>3
<1>5. Counts(c)
  BY <1>2, <1>4, SoundParts DEF Counts
<1>6. \A m \in Nets : Rightful(c, m)
  BY <1>2, <1>3, SoundParts DEF Rightful
<1>7. QED
  BY <1>2, <1>3, <1>5, <1>6 DEF c, Sound, OfNets

---------------------------------------------------------------------------
(* What the operations on one net make of a board *)

\* Boards that differ in the nets of S alone.
OnlyOf(S, b, c) == OfNets(b, c) /\ \A m \in Nets \ S : c.nets[m] = b.nets[m]

\* A net's stamps are those of its copper.
InStep(b, n) == b.nets[n].stamped = Footprint(b.nets[n].branches)

\* What a net keeps in rip-ups and searches.
Standing(net, new) ==
    new.released = net.released /\ new.routable = net.routable /\ new.record = net.record

\* A net's branches after a search.
Grew(b, c, n, branches) ==
    /\ c.nets[n].branches = branches /\ c.nets[n].fixed = b.nets[n].fixed
    /\ Standing(b.nets[n], c.nets[n])

\* A rip-up keeps branches of the net, those fixed or out of conflict.
LEMMA KeptOf ==
    ASSUME NEW b, Sound(b), NEW n \in Nets
    PROVE  /\ Kept(b, n) \subseteq b.nets[n].branches
           /\ Kept(b, n) \in SUBSET Branch
           /\ Kept(b, n) \subseteq Stubs[n] \cup Plan[n][b.given[n]].ways
           /\ \A branch \in Kept(b, n) \ b.nets[n].fixed : Hits(b, branch) = {}
<1>1. Kept(b, n) \subseteq b.nets[n].branches
      /\ \A branch \in Kept(b, n) \ b.nets[n].fixed : Hits(b, branch) = {}
  BY DEF Kept
<1>2. b.nets[n] \in NetStates /\ Rightful(b, n)
  BY SoundParts
<1>3. QED
  BY <1>1, <1>2, NetParts DEF Rightful

\* Stamping a net.
LEMMA StampSound ==
    ASSUME NEW b, Sound(b), NEW n \in Nets
    PROVE  /\ Sound(Stamp(b, n)) /\ OnlyOf({n}, b, Stamp(b, n))
           /\ Alike(b.nets[n], Stamp(b, n).nets[n])
           /\ Stamp(b, n).nets[n].stamped = Footprint(b.nets[n].branches)
  BY StampAllSound DEF Stamp, OnlyOf

\* A rip-up leaves what it keeps, stamped; the other nets stay.
LEMMA RipUpSound ==
    ASSUME NEW b, Sound(b), NEW n \in Nets
    PROVE  /\ Sound(RipUpConflicted(b, n)) /\ OnlyOf({n}, b, RipUpConflicted(b, n))
           /\ RipUpConflicted(b, n).nets[n].branches = Kept(b, n)
           /\ RipUpConflicted(b, n).nets[n].stamped = Footprint(Kept(b, n))
           /\ RipUpConflicted(b, n).nets[n].fixed = b.nets[n].fixed
           /\ Standing(b.nets[n], RipUpConflicted(b, n).nets[n])
           /\ RipUpConflicted(b, n).nets[n].complete = FALSE
<1> DEFINE net == [[b.nets[n] EXCEPT !.branches = Kept(b, n)] EXCEPT !.complete = FALSE]
           c == With(b, n, net)
<1>1. b.nets \in [Nets -> NetStates] /\ b.nets[n] \in NetStates /\ b \in Boards
      /\ Rightful(b, n)
  BY SoundParts
<1>2. /\ net \in NetStates /\ net.branches = Kept(b, n) /\ net.fixed = b.nets[n].fixed
      /\ net.stamped = b.nets[n].stamped /\ net.released = b.nets[n].released
      /\ net.routable = b.nets[n].routable /\ net.record = b.nets[n].record
      /\ net.complete = FALSE
  BY <1>1, KeptOf DEF NetStates
<1>3. [b EXCEPT !.nets[n].branches = Kept(b, n), !.nets[n].complete = FALSE] = c
  BY <1>1 DEF With, Boards
<1> HIDE DEF net
<1>4. Sound(c) /\ OfNets(b, c) /\ c.nets[n] = net /\ \A m \in Nets \ {n} : c.nets[m] = b.nets[m]
  <2>1. net.branches \subseteq Stubs[n] \cup Plan[n][b.given[n]].ways
        /\ net.fixed \subseteq Stubs[n]
    BY <1>1, <1>2, KeptOf DEF Rightful
  <2>2. QED
    BY <1>2, <2>1, WithSound
<1>5. RipUpConflicted(b, n) = Stamp(c, n)
  BY <1>3 DEF RipUpConflicted
<1> HIDE DEF c
<1>6. /\ Sound(Stamp(c, n)) /\ OnlyOf({n}, c, Stamp(c, n))
      /\ Alike(c.nets[n], Stamp(c, n).nets[n])
      /\ Stamp(c, n).nets[n].stamped = Footprint(c.nets[n].branches)
  BY <1>4, StampSound
<1>7. QED
  BY <1>2, <1>4, <1>5, <1>6 DEF OnlyOf, OfNets, Alike, Standing

\* A net's count of iterations in conflict put back.
Unstuck(b, n) == [b EXCEPT !.nets[n].stuck = 0]

\* It changes no copper.
LEMMA UnstuckSound ==
    ASSUME NEW b, Sound(b), NEW n \in Nets
    PROVE  /\ Sound(Unstuck(b, n)) /\ OnlyOf({n}, b, Unstuck(b, n))
           /\ Unstuck(b, n).occ = b.occ
           /\ Unstuck(b, n).nets[n].branches = b.nets[n].branches
           /\ Unstuck(b, n).nets[n].fixed = b.nets[n].fixed
           /\ Unstuck(b, n).nets[n].stamped = b.nets[n].stamped
           /\ Standing(b.nets[n], Unstuck(b, n).nets[n])
<1> DEFINE net == [b.nets[n] EXCEPT !.stuck = 0]
<1>1. b.nets \in [Nets -> NetStates] /\ b.nets[n] \in NetStates /\ b \in Boards
      /\ Rightful(b, n)
  BY SoundParts
<1>2. /\ net \in NetStates /\ net.branches = b.nets[n].branches /\ net.fixed = b.nets[n].fixed
      /\ net.stamped = b.nets[n].stamped /\ Standing(b.nets[n], net)
  BY <1>1 DEF NetStates, Standing
<1>3. Unstuck(b, n) = With(b, n, net)
  BY <1>1 DEF With, Boards, Unstuck
<1> HIDE DEF net
<1>4. QED
  BY <1>1, <1>2, <1>3, WithSound DEF OnlyOf, Rightful

\* What a search adds to a net's branches.
LEMMA SearchesGive ==
    ASSUME NEW b, NEW n \in Nets, NEW hard \in BOOLEAN, NEW branches \in Searches(b, n, hard)
    PROVE  /\ b.nets[n].branches \subseteq branches
           /\ \A way \in branches \ b.nets[n].branches :
                way \in Plan[n][b.given[n]].ways /\ Passable(b, n, way, hard)
  BY DEF Searches

\* A search changes its net's branches, no stamp and no other net.
LEMMA RoutedSound ==
    ASSUME NEW b, Sound(b), NEW n \in Nets, NEW hard \in BOOLEAN,
           NEW branches \in Searches(b, n, hard)
    PROVE  /\ Sound(Routed(b, n, branches, hard))
           /\ OnlyOf({n}, b, Routed(b, n, branches, hard))
           /\ Routed(b, n, branches, hard).occ = b.occ
           /\ Routed(b, n, branches, hard).nets[n].stamped = b.nets[n].stamped
           /\ Grew(b, Routed(b, n, branches, hard), n, branches)
<1> DEFINE complete == Terminals(b, n) \subseteq Joined(branches)
           blocked == b.nets[n].blocked \/ (~hard /\ ~complete)
           net == [[[b.nets[n] EXCEPT !.branches = branches] EXCEPT !.complete = complete]
                       EXCEPT !.blocked = blocked]
<1>1. b.nets \in [Nets -> NetStates] /\ b.nets[n] \in NetStates /\ b \in Boards
      /\ Rightful(b, n) /\ b.given[n] \in SUBSET LinksOf(n)
  BY SoundParts DEF Rightful
<1>2. branches \subseteq Stubs[n] \cup Plan[n][b.given[n]].ways /\ branches \in SUBSET Branch
  <2>1. branches \subseteq b.nets[n].branches \cup Plan[n][b.given[n]].ways
    BY SearchesGive
  <2>2. Plan[n][b.given[n]].ways \in SUBSET Branch
    BY <1>1, CopperConstants
  <2>3. QED
    BY <1>1, <2>1, <2>2, NetParts DEF Rightful
<1>3. complete \in BOOLEAN
  OBVIOUS
<1>4. Routed(b, n, branches, hard) = With(b, n, net)
  BY <1>1 DEF With, Boards, Routed
<1> HIDE DEF complete
<1>5. blocked \in BOOLEAN
  BY <1>1, <1>3, NetParts
<1> HIDE DEF blocked
<1>6. /\ net \in NetStates /\ net.branches = branches /\ net.fixed = b.nets[n].fixed
      /\ net.stamped = b.nets[n].stamped /\ Standing(b.nets[n], net)
  BY <1>1, <1>2, <1>3, <1>5 DEF NetStates, Standing
<1> HIDE DEF net
<1>7. QED
  BY <1>1, <1>2, <1>4, <1>6, WithSound DEF OnlyOf, Rightful, Grew

\* A search without a limit, and its stamps.
LEMMA RoutedStampedSound ==
    ASSUME NEW b, Sound(b), NEW n \in Nets, NEW hard \in BOOLEAN,
           NEW branches \in Searches(b, n, hard)
    PROVE  /\ Sound(Stamp(Routed(b, n, branches, hard), n))
           /\ OnlyOf({n}, b, Stamp(Routed(b, n, branches, hard), n))
           /\ Grew(b, Stamp(Routed(b, n, branches, hard), n), n, branches)
           /\ InStep(Stamp(Routed(b, n, branches, hard), n), n)
<1> DEFINE c == Routed(b, n, branches, hard)
<1>1. Sound(c) /\ OnlyOf({n}, b, c) /\ Grew(b, c, n, branches)
  BY RoutedSound
<1> HIDE DEF c
<1>2. /\ Sound(Stamp(c, n)) /\ OnlyOf({n}, c, Stamp(c, n))
      /\ Alike(c.nets[n], Stamp(c, n).nets[n])
      /\ Stamp(c, n).nets[n].stamped = Footprint(c.nets[n].branches)
  BY <1>1, StampSound
<1>3. OnlyOf({n}, b, Stamp(c, n))
  BY <1>1, <1>2 DEF OnlyOf, OfNets
<1>4. Grew(b, Stamp(c, n), n, branches) /\ InStep(Stamp(c, n), n)
  BY <1>1, <1>2 DEF Alike, Standing, Grew, InStep
<1>5. QED
  BY <1>2, <1>3, <1>4 DEF c

---------------------------------------------------------------------------
(* Nets made afresh, links given up *)

\* The links given up have no copper and are out of the routing.
GoneAreBare(b, links) == \A l \in links : Bare(b.nets[l]) /\ b.nets[l].released

\* A bare net has its stamps.
LEMMA BareInStep ==
    ASSUME NEW b, NEW n, Bare(b.nets[n])
    PROVE  InStep(b, n)
  BY NoCopper DEF Bare, InStep

\* A net made afresh is bare.
LEMMA NewNetType ==
    ASSUME NEW n \in Nets, NEW given \in SUBSET LinksOf(n)
    PROVE  /\ NewNet(n, given) \in NetStates /\ Bare(NewNet(n, given))
           /\ NewNet(n, given).released = FALSE
<1> DEFINE routable == Plan[n][given].joins # {}
<1>1. NoRecord \in Records
  BY DEF NoRecord, Records
<1>2. routable \in BOOLEAN
  OBVIOUS
<1>3. NewNet(n, given) =
        [branches |-> {}, fixed |-> {}, stamped |-> {}, complete |-> FALSE, blocked |-> FALSE,
         stuck |-> 0, record |-> NoRecord, released |-> FALSE, routable |-> routable]
  BY DEF NewNet
<1> HIDE DEF routable
<1>4. QED
  BY <1>1, <1>2, <1>3 DEF NetStates, Bare

\* Links are nets.
LEMMA LinksAreNets == Links \subseteq Nets /\ \A n \in Nets : LinksOf(n) \in SUBSET Links
  BY CopperConstants DEF LinksOf

\* Nets without stamps made afresh; the others stay.
LEMMA RewriteSound ==
    ASSUME NEW b, Sound(b), NEW S \in SUBSET Nets, NEW given,
           \A n \in S : b.nets[n].stamped = {}
    PROVE  /\ Sound(Rewrite(b, S, given)) /\ Rewrite(b, S, given).gone = b.gone
           /\ Rewrite(b, S, given).occ = b.occ
           /\ \A n \in Nets \ S : Rewrite(b, S, given).nets[n] = b.nets[n]
           /\ \A n \in Nets \ S : Rewrite(b, S, given).given[n] = b.given[n]
           /\ \A n \in S : Bare(Rewrite(b, S, given).nets[n])
           /\ \A n \in S : Rewrite(b, S, given).nets[n].released = FALSE
<1> DEFINE c == Rewrite(b, S, given)
           nets == [n \in Nets |-> IF n \in S THEN NewNet(n, LinksOf(n) \cap given)
                                   ELSE b.nets[n]]
           terminals == [n \in Nets |-> IF n \in S THEN LinksOf(n) \cap given ELSE b.given[n]]
<1>1. b \in Boards /\ \A n \in Nets : b.nets[n] \in NetStates /\ b.given[n] \in SUBSET Links
  BY SoundParts
<1>2. \A n \in Nets : /\ NewNet(n, LinksOf(n) \cap given) \in NetStates
                      /\ Bare(NewNet(n, LinksOf(n) \cap given))
                      /\ NewNet(n, LinksOf(n) \cap given).released = FALSE
  <2> TAKE n \in Nets
  <2>1. LinksOf(n) \cap given \in SUBSET LinksOf(n)
    OBVIOUS
  <2>2. QED
    BY <2>1, NewNetType
<1>3. \A n \in Nets : LinksOf(n) \cap given \in SUBSET Links
  BY LinksAreNets
<1>4. nets \in [Nets -> NetStates] /\ terminals \in [Nets -> SUBSET Links]
  BY <1>1, <1>2, <1>3
<1>5. c = [b EXCEPT !.given = terminals, !.nets = nets]
  BY DEF Rewrite
<1>6. \A n \in Nets :
        /\ n \notin S => nets[n] = b.nets[n] /\ terminals[n] = b.given[n]
        /\ n \in S => /\ Bare(nets[n]) /\ nets[n].released = FALSE
                      /\ terminals[n] \subseteq LinksOf(n)
  BY <1>2
<1> HIDE DEF c, nets, terminals
<1>7. c \in Boards /\ c.nets = nets /\ c.given = terminals /\ c.occ = b.occ /\ c.gone = b.gone
  BY <1>1, <1>4, <1>5 DEF Boards
<1>8. \A n \in Nets : c.nets[n].stamped = b.nets[n].stamped
  BY <1>6, <1>7 DEF Bare
<1>9. Counts(c)
  BY <1>7, <1>8, SoundParts DEF Counts
<1>10. \A n \in Nets : Rightful(c, n)
  BY <1>6, <1>7, SoundParts DEF Rightful, Bare
<1>11. QED
  BY <1>6, <1>7, <1>9, <1>10 DEF c, Sound

\* The same copper, stamps and standing; a count or a record may differ.
SameCopper(net, new) ==
    /\ new.branches = net.branches /\ new.fixed = net.fixed /\ new.stamped = net.stamped
    /\ new.complete = net.complete /\ new.released = net.released
    /\ new.routable = net.routable

\* Boards whose nets differ in counts and records only.
LEMMA SameCopperSound ==
    ASSUME NEW b, Sound(b), NEW nets \in [Nets -> NetStates],
           \A n \in Nets : SameCopper(b.nets[n], nets[n])
    PROVE  LET c == [b EXCEPT !.nets = nets]
           IN  Sound(c) /\ OfNets(b, c) /\ c.nets = nets /\ c.occ = b.occ
<1> DEFINE c == [b EXCEPT !.nets = nets]
<1>1. b \in Boards
  BY SoundParts
<1>2. c \in Boards /\ c.nets = nets /\ c.occ = b.occ /\ c.given = b.given /\ c.gone = b.gone
  BY <1>1 DEF Boards
<1> HIDE DEF c
<1>3. Counts(c)
  BY <1>2, SoundParts DEF Counts, SameCopper
<1>4. \A n \in Nets : Rightful(c, n)
  BY <1>2, SoundParts DEF Rightful, SameCopper
<1>5. QED
  BY <1>2, <1>3, <1>4 DEF c, Sound, OfNets

\* Conflicts are counted.
LEMMA ConflictsType ==
    ASSUME NEW b, Sound(b), NEW n \in Nets
    PROVE  Cardinality(Conflicts(b, n)) \in Nat
<1>1. b.nets[n] \in NetStates
  BY SoundParts
<1>2. Conflicts(b, n) \subseteq Cells
  BY <1>1, NetParts DEF Conflicts, Hits, Branch
<1>3. QED
  BY <1>2, CopperConstants, FS_Subset, FS_CardinalityType

\* A round's record (GiveUpRecord::round).
LEMMA CountedType ==
    ASSUME NEW record \in Records, NEW cells \in Nat, NEW complete \in BOOLEAN, NEW price \in Int
    PROVE  Counted(record, cells, complete, price) \in Records
<1>1. Rule.minPresent \in Nat
  BY NegotiationConstants
<1>2. CASE cells > 0 /\ price < Rule.minPresent
  BY <1>1, <1>2 DEF Counted
<1>3. CASE cells > 0 /\ price >= Rule.minPresent
  BY <1>1, <1>3 DEF Counted, Records
<1>4. CASE cells = 0 /\ complete
  BY <1>1, <1>4 DEF Counted, Records, NoRecord
<1>5. CASE cells = 0 /\ ~complete
  <2>1. Counted(record, cells, complete, price)
          = [record EXCEPT !.unsettled = record.unsettled + 1,
                           !.pathless = record.pathless + 1]
    BY <1>1, <1>5 DEF Counted
  <2> DEFINE more == [record EXCEPT !.unsettled = record.unsettled + 1]
  <2>2. more \in Records /\ record.pathless \in Nat
    BY DEF Records
  <2>3. [more EXCEPT !.pathless = record.pathless + 1] \in Records
    <3> HIDE DEF more
    <3>1. QED
      BY <2>2 DEF Records
  <2>4. QED
    BY <2>1, <2>3
<1>6. QED
  BY <1>1, <1>2, <1>3, <1>4, <1>5

\* The verdicts there are.
LEMMA VerdictType == \A record : Verdict(record) \in {"", "no path", "no room"}
  BY DEF Verdict

\* A round counts, and moves no copper.
LEMMA RoundedSound ==
    ASSUME NEW b, Sound(b), NEW S \in SUBSET Nets, NEW price \in Int
    PROVE  /\ Sound(Rounded(b, S, price)) /\ OfNets(b, Rounded(b, S, price))
           /\ Rounded(b, S, price).occ = b.occ
           /\ \A n \in Nets : SameCopper(b.nets[n], Rounded(b, S, price).nets[n])
<1> DEFINE record(n) == Counted(b.nets[n].record, Cardinality(Conflicts(b, n)),
                                b.nets[n].complete, price)
           new(n) == [b.nets[n] EXCEPT !.record = record(n)]
           nets == [n \in Nets |-> IF n \notin S THEN b.nets[n] ELSE new(n)]
<1>1. \A n \in Nets : b.nets[n] \in NetStates
  BY SoundParts
<1>2. \A n \in Nets : record(n) \in Records
  BY <1>1, NetParts, ConflictsType, CountedType
<1>3. Rounded(b, S, price) = [b EXCEPT !.nets = nets]
  BY DEF Rounded
<1> HIDE DEF record
<1>4. \A n \in Nets : new(n) \in NetStates /\ SameCopper(b.nets[n], new(n))
  BY <1>1, <1>2 DEF NetStates, SameCopper
<1> HIDE DEF new
<1>5. nets \in [Nets -> NetStates] /\ \A n \in Nets : SameCopper(b.nets[n], nets[n])
  BY <1>1, <1>4 DEF SameCopper
<1> HIDE DEF nets
<1>6. QED
  BY <1>3, <1>5, SameCopperSound

\* Links dropped are bare, released and routed no more.
LEMMA DroppedSound ==
    ASSUME NEW b, Sound(b), NEW S \in SUBSET Links
    PROVE  /\ Sound(Dropped(b, S)) /\ Dropped(b, S).given = b.given
           /\ Gone(Dropped(b, S)) = Gone(b) \cup S
           /\ \A n \in Nets :
                /\ n \notin S => Dropped(b, S).nets[n] = b.nets[n]
                /\ n \in S => /\ Bare(Dropped(b, S).nets[n])
                              /\ Dropped(b, S).nets[n].released
                              /\ ~Dropped(b, S).nets[n].routable
<1> DEFINE bare == StripAll(b, S)
           out(net) == [net EXCEPT !.released = TRUE, !.routable = FALSE]
           nets == [n \in Nets |-> IF n \notin S THEN bare.nets[n] ELSE out(bare.nets[n])]
           entries == {[net |-> l, reason |-> Verdict(b.nets[l].record)] : l \in S}
           c == [bare EXCEPT !.nets = nets, !.gone = bare.gone \cup entries]
<1>1. S \in SUBSET Nets
  BY LinksAreNets
<1>2. /\ Sound(bare) /\ OfNets(b, bare)
      /\ \A n \in Nets : /\ n \notin S => bare.nets[n] = b.nets[n]
                         /\ n \in S => Bare(bare.nets[n])
  BY <1>1, StripAllSound
<1>3. Dropped(b, S) = c
  BY DEF Dropped
<1> DEFINE entry(l) == [net |-> l, reason |-> Verdict(b.nets[l].record)]
<1>4. \A l \in S : entry(l) \in Entries /\ entry(l).net = l
  <2> TAKE l \in S
  <2>1. Verdict(b.nets[l].record) \in {"", "no path", "no room"}
    BY VerdictType
  <2>2. QED
    BY <2>1 DEF Entries
<1>5. entries \in SUBSET Entries /\ {one.net : one \in entries} = S
  <2>1. entries = {entry(l) : l \in S}
    OBVIOUS
  <2> HIDE DEF entry, entries
  <2>2. QED
    BY <1>4, <2>1
<1> HIDE DEF bare, entries
<1>6. \A net \in NetStates : /\ out(net) \in NetStates /\ out(net).released /\ ~out(net).routable
                             /\ out(net).stamped = net.stamped
                             /\ Bare(net) => Bare(out(net))
  BY DEF NetStates, Bare
<1> HIDE DEF out
<1>7. bare \in Boards /\ \A n \in Nets : bare.nets[n] \in NetStates
  BY <1>2, SoundParts
<1>8. /\ nets \in [Nets -> NetStates]
      /\ \A n \in Nets :
            /\ nets[n].stamped = bare.nets[n].stamped
            /\ n \notin S => nets[n] = b.nets[n]
            /\ n \in S => Bare(nets[n]) /\ nets[n].released /\ ~nets[n].routable
  BY <1>2, <1>6, <1>7
<1> HIDE DEF nets
<1>9. /\ c \in Boards /\ c.nets = nets /\ c.occ = bare.occ /\ c.given = bare.given
      /\ c.gone = bare.gone \cup entries
  BY <1>5, <1>7, <1>8 DEF Boards
<1> HIDE DEF c
<1>10. Counts(c)
  BY <1>2, <1>8, <1>9, SoundParts DEF Counts
<1>11. \A n \in Nets : Rightful(c, n)
  <2> TAKE n \in Nets
  <2>1. CASE n \in S
    BY <1>2, <1>8, <1>9, <2>1, SoundParts DEF Rightful, Bare
  <2>2. CASE n \notin S
    BY <1>2, <1>8, <1>9, <2>2, SoundParts DEF Rightful
  <2>3. QED
    BY <2>1, <2>2
<1>12. Gone(c) = Gone(b) \cup S
  <2>1. Gone(c) = {one.net : one \in bare.gone} \cup {one.net : one \in entries}
    BY <1>9 DEF Gone
  <2>2. bare.gone = b.gone
    BY <1>2 DEF OfNets
  <2>3. QED
    BY <1>5, <2>1, <2>2 DEF Gone
<1>13. QED
  BY <1>2, <1>3, <1>8, <1>9, <1>10, <1>11, <1>12 DEF Sound, OfNets

\* What links stand for are nets, and no links.
LEMMA StoodForType ==
    \A links \in SUBSET Links : StoodFor(links) \subseteq Nets /\ StoodFor(links) \cap Links = {}
<1>1. \A l \in Links : StandsFor[l] \subseteq Nets \ Links
  BY CopperConstants
<1>2. QED
  BY <1>1 DEF StoodFor

\* Links are given up.
LEMMA GoneAreLinks == \A b \in Boards : Gone(b) \subseteq Links
  BY DEF Boards, Entries, Gone

\* A release leaves each net as it was or bare; the links given up stay out.
LEMMA ReleaseSound ==
    ASSUME NEW b, Sound(b), NEW S \in SUBSET Links
    PROVE  /\ Sound(Release(b, S)) /\ Gone(Release(b, S)) = Gone(b) \cup S
           /\ \A n \in Nets :
                /\ Release(b, S).nets[n] = b.nets[n] \/ Bare(Release(b, S).nets[n])
                /\ n \in S => Bare(Release(b, S).nets[n]) /\ Release(b, S).nets[n].released
                /\ n \in Links \ S => Release(b, S).nets[n] = b.nets[n]
<1> DEFINE dropped == Dropped(b, S)
           all == Gone(dropped)
           theirs == StoodFor(all)
           bare == StripAll(dropped, theirs)
           c == Rewrite(bare, theirs, all)
<1>1. /\ Sound(dropped) /\ all = Gone(b) \cup S
      /\ \A n \in Nets :
            /\ n \notin S => dropped.nets[n] = b.nets[n]
            /\ n \in S => Bare(dropped.nets[n]) /\ dropped.nets[n].released
  BY DroppedSound
<1>2. Release(b, S) = c
  BY DEF Release
<1>3. all \in SUBSET Links
  BY <1>1, GoneAreLinks, SoundParts
<1>4. theirs \in SUBSET Nets /\ theirs \cap Links = {}
  BY <1>3, StoodForType
<1> HIDE DEF dropped, theirs
<1>5. /\ Sound(bare) /\ OfNets(dropped, bare)
      /\ \A n \in Nets : /\ n \notin theirs => bare.nets[n] = dropped.nets[n]
                         /\ n \in theirs => Bare(bare.nets[n])
  BY <1>1, <1>4, StripAllSound
<1> HIDE DEF bare, all
<1>6. \A n \in theirs : bare.nets[n].stamped = {}
  BY <1>4, <1>5 DEF Bare
<1>7. /\ Sound(c) /\ c.gone = bare.gone
      /\ \A n \in Nets \ theirs : c.nets[n] = bare.nets[n]
      /\ \A n \in theirs : Bare(c.nets[n])
  <2>1. /\ Sound(c) /\ c.gone = bare.gone
        /\ \A n \in theirs : Bare(c.nets[n])
    BY <1>4, <1>5, <1>6, RewriteSound
  <2>2. \A n \in Nets \ theirs : c.nets[n] = bare.nets[n]
    BY DEF Rewrite
  <2>3. QED
    BY <2>1, <2>2
<1> HIDE DEF c
<1>8. Gone(c) = all
  BY <1>5, <1>7 DEF Gone, OfNets, all
<1>9. \A n \in Nets :
        /\ c.nets[n] = b.nets[n] \/ Bare(c.nets[n])
        /\ n \in S => Bare(c.nets[n]) /\ c.nets[n].released
        /\ n \in Links \ S => c.nets[n] = b.nets[n]
  BY <1>1, <1>4, <1>5, <1>7
<1>10. QED
  BY <1>1, <1>2, <1>7, <1>8, <1>9

\* What an iteration's end makes of a board.
EndsWell(b, end) ==
    /\ Sound(end.board) /\ \A n \in Nets : InStep(end.board, n)
    /\ GoneAreBare(end.board, Gone(end.board))
    /\ ~gives => Gone(end.board) = Gone(b)
    /\ end.nets \subseteq Nets /\ end.nets \cap Gone(end.board) = {}
    /\ end.added \subseteq Nets

\* What a give-up round makes of a board whose links given up are bare.
LEMMA GiveUpSound ==
    ASSUME NEW b, Sound(b), NEW conflicted \in SUBSET Nets, NEW price \in Int,
           order \subseteq Nets, gives \in BOOLEAN, GoneAreBare(b, Gone(b)),
           conflicted \cap Gone(b) = {}, \A n \in Nets : InStep(b, n)
    PROVE  EndsWell(b, GiveUpRound(b, conflicted, price))
<1> DEFINE links == {n \in order \cap Links :
                        gives /\ ~b.nets[n].released /\ b.nets[n].routable}
           counted == Rounded(b, links, price)
           counts(n) == IF InConflict(b, n) THEN price >= Rule.minPresent
                        ELSE ~b.nets[n].complete
           going == {n \in links : counts(n) /\ Verdict(counted.nets[n].record) # ""}
           after == Release(counted, going)
           again == {n \in StoodFor(Gone(after)) \ conflicted : after.nets[n].routable}
           stay == {n \in conflicted : ~after.nets[n].released}
           end == GiveUpRound(b, conflicted, price)
<1>1. end = IF going = {} THEN [board |-> counted, nets |-> conflicted, added |-> {}]
            ELSE [board |-> after, added |-> again, nets |-> stay \cup again]
  BY DEF GiveUpRound
<1>2. links \in SUBSET Nets /\ going \in SUBSET Links /\ (~gives => going = {})
  OBVIOUS
<1> HIDE DEF links, going, end
<1>3. /\ Sound(counted) /\ OfNets(b, counted)
      /\ \A n \in Nets : SameCopper(b.nets[n], counted.nets[n])
  BY <1>2, RoundedSound
<1> HIDE DEF counted
<1>4. Gone(counted) = Gone(b)
  BY <1>3 DEF Gone, OfNets
<1>5. /\ \A n \in Nets : InStep(counted, n)
      /\ GoneAreBare(counted, Gone(counted))
  <2>1. \A n \in Nets : InStep(counted, n)
    BY <1>3 DEF InStep, SameCopper
  <2>2. Gone(b) \subseteq Nets
    BY GoneAreLinks, LinksAreNets, SoundParts
  <2>3. QED
    BY <1>3, <1>4, <2>1, <2>2 DEF GoneAreBare, SameCopper, Bare
<1>6. CASE going = {}
  <2>1. end.board = counted /\ end.nets = conflicted /\ end.added = {}
    BY <1>1, <1>6
  <2>2. QED
    BY <1>3, <1>4, <1>5, <2>1 DEF EndsWell, end
<1>7. CASE going # {}
  <2>1. /\ Sound(after) /\ Gone(after) = Gone(b) \cup going
        /\ \A n \in Nets :
              /\ after.nets[n] = counted.nets[n] \/ Bare(after.nets[n])
              /\ n \in going => Bare(after.nets[n]) /\ after.nets[n].released
              /\ n \in Links \ going => after.nets[n] = counted.nets[n]
    BY <1>2, <1>3, <1>4, ReleaseSound
  <2> HIDE DEF after
  <2>2. \A n \in Nets : InStep(after, n)
    BY <1>5, <2>1, BareInStep DEF InStep
  <2>3. Gone(after) \subseteq Links /\ Gone(after) \subseteq Nets
    BY <2>1, GoneAreLinks, LinksAreNets, SoundParts
  <2>4. GoneAreBare(after, Gone(after))
    BY <1>4, <1>5, <2>1, <2>3 DEF GoneAreBare
  <2>5. again \subseteq Nets /\ again \cap Gone(after) = {}
    BY <2>3, StoodForType
  <2>6. stay \subseteq Nets /\ stay \cap Gone(after) = {}
    BY <2>4 DEF GoneAreBare
  <2> HIDE DEF again, stay
  <2>7. end.board = after /\ end.nets = stay \cup again /\ end.added = again
    BY <1>1, <1>7
  <2>8. QED
    BY <1>2, <1>7, <2>1, <2>2, <2>4, <2>5, <2>6, <2>7 DEF end, EndsWell
<1>8. QED
  BY <1>6, <1>7

\* An iteration's end: the nets it leaves for the next are none of those given up.
LEMMA IterationEndSound ==
    ASSUME NEW b, Sound(b), NEW price \in Int,
           order \subseteq Nets, gives \in BOOLEAN, GoneAreBare(b, Gone(b)),
           \A n \in Nets : InStep(b, n)
    PROVE  EndsWell(b, IterationEnd(b, price))
<1> DEFINE count(n) == IF InConflict(b, n) THEN b.nets[n].stuck + 1 ELSE 0
           new(n) == [b.nets[n] EXCEPT !.stuck = count(n)]
           stuck == [n \in Nets |-> IF n \notin order THEN b.nets[n] ELSE new(n)]
           open(n) == \/ InConflict(b, n)
                      \/ ~(b.nets[n].complete \/ b.nets[n].blocked \/ b.nets[n].released)
           conflicted == {n \in order : open(n)}
           c == [b EXCEPT !.nets = stuck]
<1>1. IterationEnd(b, price) = GiveUpRound(c, conflicted, price)
  BY DEF IterationEnd
<1>2. conflicted \cap Gone(b) = {}
  <2>1. \A n \in Gone(b) : b.nets[n].branches = {} /\ b.nets[n].released
    BY DEF GoneAreBare, Bare
  <2>2. \A n \in Gone(b) : ~InConflict(b, n)
    BY <2>1 DEF InConflict, Conflicts
  <2>3. QED
    BY <2>1, <2>2
<1>3. \A n \in Nets : b.nets[n] \in NetStates /\ count(n) \in Nat
  BY SoundParts, NetParts
<1>4. conflicted \in SUBSET Nets
  OBVIOUS
<1> HIDE DEF count, conflicted
<1>5. \A n \in Nets : new(n) \in NetStates /\ SameCopper(b.nets[n], new(n))
  BY <1>3 DEF NetStates, SameCopper
<1> HIDE DEF new
<1>6. stuck \in [Nets -> NetStates] /\ \A n \in Nets : SameCopper(b.nets[n], stuck[n])
  BY <1>3, <1>5 DEF SameCopper
<1> HIDE DEF stuck
<1>7. Sound(c) /\ OfNets(b, c) /\ c.nets = stuck
  BY <1>6, SameCopperSound
<1> HIDE DEF c
<1>8. Gone(c) = Gone(b) /\ \A n \in Nets : InStep(c, n)
  BY <1>6, <1>7 DEF Gone, OfNets, InStep, SameCopper
<1>9. GoneAreBare(c, Gone(c))
  <2>1. Gone(b) \subseteq Nets
    BY GoneAreLinks, LinksAreNets, SoundParts
  <2>2. QED
    BY <1>6, <1>7, <1>8, <2>1 DEF GoneAreBare, SameCopper, Bare
<1>10. QED
  <2>1. EndsWell(c, IterationEnd(b, price))
    BY <1>1, <1>2, <1>4, <1>7, <1>8, <1>9, GiveUpSound
  <2>2. QED
    BY <1>8, <2>1 DEF EndsWell

---------------------------------------------------------------------------
(* Nets' states saved and put back *)

\* What a try saves: states of nets, and their terminals.
SavedStates(saved) ==
    /\ DOMAIN saved \subseteq Nets
    /\ \A n \in DOMAIN saved :
        /\ saved[n].net \in NetStates /\ saved[n].given \in SUBSET LinksOf(n)
        /\ saved[n].net.branches \subseteq Stubs[n] \cup Plan[n][saved[n].given].ways
        /\ saved[n].net.fixed \subseteq Stubs[n]

\* Nets are saved as they are.
LEMMA SavedIsSaved ==
    ASSUME NEW b, Sound(b), NEW S \in SUBSET Nets
    PROVE  /\ SavedStates(Saved(b, S)) /\ DOMAIN Saved(b, S) = S
           /\ \A n \in S : /\ Saved(b, S)[n].net = b.nets[n]
                           /\ Saved(b, S)[n].given = b.given[n]
  BY SoundParts DEF SavedStates, Saved, AsItIs, Rightful

\* A net as it was saved, its stamps following its copper; a link has none.
BackAs(c, n, saved, link) ==
    /\ c.nets[n].branches = saved[n].net.branches /\ c.nets[n].fixed = saved[n].net.fixed
    /\ c.nets[n].complete = saved[n].net.complete
    /\ c.nets[n].released = saved[n].net.released
    /\ c.given[n] = saved[n].given
    /\ IF n = link THEN c.nets[n].stamped = {} ELSE InStep(c, n)

\* A failed try's nets are back as they were, the others as they are.
LEMMA PutBackSound ==
    ASSUME NEW b, Sound(b), NEW saved, SavedStates(saved), NEW link \in Nets
    PROVE  /\ Sound(PutBack(b, saved, link)) /\ PutBack(b, saved, link).gone = b.gone
           /\ \A n \in Nets \ DOMAIN saved : AsItIs(PutBack(b, saved, link), n) = AsItIs(b, n)
           /\ \A n \in DOMAIN saved : BackAs(PutBack(b, saved, link), n, saved, link)
<1> DEFINE S == DOMAIN saved
           bare == StripAll(b, S)
           was(n) == [saved[n].net EXCEPT !.stamped = {}]
           nets == [n \in Nets |-> IF n \notin S THEN bare.nets[n] ELSE was(n)]
           given == [n \in Nets |-> IF n \notin S THEN bare.given[n] ELSE saved[n].given]
           back == [bare EXCEPT !.nets = nets, !.given = given]
           c == StampAll(back, S \ {link})
<1>1. PutBack(b, saved, link) = c
  BY DEF PutBack, Restored
<1>2. S \in SUBSET Nets /\ \A n \in S : /\ saved[n].net \in NetStates
                                        /\ saved[n].given \in SUBSET LinksOf(n)
  BY DEF SavedStates
<1> HIDE DEF S
<1>3. /\ Sound(bare) /\ OfNets(b, bare)
      /\ \A n \in Nets : n \notin S => bare.nets[n] = b.nets[n]
      /\ \A n \in S : Bare(bare.nets[n])
  BY <1>2, StripAllSound
<1> HIDE DEF bare
<1>4. \A n \in S : /\ was(n) \in NetStates /\ was(n).branches = saved[n].net.branches
                   /\ was(n).fixed = saved[n].net.fixed /\ was(n).stamped = {}
                   /\ was(n).complete = saved[n].net.complete
                   /\ was(n).released = saved[n].net.released
  BY <1>2 DEF NetStates
<1> HIDE DEF was
<1>5. bare \in Boards /\ \A n \in Nets : /\ bare.nets[n] \in NetStates
                                         /\ bare.given[n] \in SUBSET Links
                                         /\ bare.given[n] = b.given[n]
  BY <1>3, SoundParts DEF OfNets
<1>6. nets \in [Nets -> NetStates] /\ given \in [Nets -> SUBSET Links]
  BY <1>2, <1>4, <1>5, LinksAreNets
<1>7. \A n \in Nets : /\ n \notin S => nets[n] = b.nets[n] /\ given[n] = b.given[n]
                      /\ n \in S => nets[n] = was(n) /\ given[n] = saved[n].given
                      /\ nets[n].stamped = bare.nets[n].stamped
  BY <1>3, <1>4, <1>5 DEF Bare
<1> HIDE DEF nets, given
<1>8. /\ back \in Boards /\ back.nets = nets /\ back.given = given /\ back.occ = bare.occ
      /\ back.gone = b.gone
  BY <1>3, <1>5, <1>6 DEF Boards, OfNets
<1> HIDE DEF back
<1>9. Counts(back)
  BY <1>3, <1>7, <1>8, SoundParts DEF Counts
<1>10. \A n \in Nets : Rightful(back, n)
  <2> TAKE n \in Nets
  <2>1. CASE n \in S
    BY <1>2, <1>4, <1>7, <1>8, <2>1 DEF Rightful, SavedStates, S
  <2>2. CASE n \notin S
    BY <1>7, <1>8, <2>2, SoundParts DEF Rightful
  <2>3. QED
    BY <2>1, <2>2
<1>11. Sound(back)
  BY <1>8, <1>9, <1>10 DEF Sound
<1>12. /\ Sound(c) /\ OfNets(back, c)
       /\ \A n \in Nets :
            /\ Alike(back.nets[n], c.nets[n])
            /\ n \notin S \ {link} => c.nets[n] = back.nets[n]
            /\ n \in S \ {link} => c.nets[n].stamped = Footprint(back.nets[n].branches)
  BY <1>2, <1>11, StampAllSound
<1> HIDE DEF c
<1>13. \A n \in Nets \ S : c.nets[n] = b.nets[n] /\ c.given[n] = b.given[n]
  BY <1>7, <1>8, <1>12 DEF OfNets
<1>14. ASSUME NEW n \in S
       PROVE  /\ c.nets[n].branches = saved[n].net.branches
              /\ c.nets[n].fixed = saved[n].net.fixed
              /\ c.nets[n].complete = saved[n].net.complete
              /\ c.nets[n].released = saved[n].net.released
              /\ c.given[n] = saved[n].given
              /\ n # link => InStep(c, n)
              /\ n = link => c.nets[n].stamped = {}
  <2>1. n \in Nets /\ back.nets[n] = was(n) /\ back.given[n] = saved[n].given
    BY <1>2, <1>7, <1>8
  <2>2. Alike(was(n), c.nets[n]) /\ c.given[n] = saved[n].given
    BY <1>12, <2>1 DEF OfNets
  <2>3. n # link => InStep(c, n)
    BY <1>12, <2>1, <2>2 DEF InStep, Alike
  <2>4. n = link => c.nets[n].stamped = {}
    BY <1>4, <1>12, <2>1
  <2>5. QED
    BY <1>4, <2>2, <2>3, <2>4 DEF Alike
<1>15. \A n \in Nets \ S : AsItIs(c, n) = AsItIs(b, n)
  BY <1>13 DEF AsItIs
<1>16. \A n \in S : BackAs(c, n, saved, link)
  BY <1>14 DEF BackAs
<1>17. QED
  BY <1>1, <1>8, <1>12, <1>15, <1>16 DEF OfNets, S

\* A net's copper as it was saved; the rest of its state as it is.
CopperAs(b, c, n, saved) ==
    /\ c.nets[n].branches = saved[n].net.branches /\ c.nets[n].fixed = b.nets[n].fixed
    /\ c.nets[n].complete = saved[n].net.complete
    /\ c.nets[n].released = b.nets[n].released
    /\ InStep(c, n)

\* A failed connection's nets have their copper back.
LEMMA TakeBackSound ==
    ASSUME NEW b, Sound(b), NEW saved, SavedStates(saved),
           \A n \in DOMAIN saved : saved[n].given = b.given[n]
    PROVE  /\ Sound(TakeBack(b, saved)) /\ OnlyOf(DOMAIN saved, b, TakeBack(b, saved))
           /\ \A n \in DOMAIN saved : CopperAs(b, TakeBack(b, saved), n, saved)
<1> DEFINE S == DOMAIN saved
           bare == UnstampAll(b, S)
           was(n) == [bare.nets[n] EXCEPT !.branches = saved[n].net.branches,
                                          !.complete = saved[n].net.complete]
           nets == [n \in Nets |-> IF n \notin S THEN bare.nets[n] ELSE was(n)]
           back == [bare EXCEPT !.nets = nets]
           c == StampAll(back, S)
<1>1. TakeBack(b, saved) = c
  BY DEF TakeBack
<1>2. S \in SUBSET Nets /\ \A n \in S : /\ saved[n].net \in NetStates
                                        /\ saved[n].given = b.given[n]
  BY DEF SavedStates
<1> HIDE DEF S
<1>3. /\ Sound(bare) /\ OfNets(b, bare)
      /\ \A n \in Nets : Alike(b.nets[n], bare.nets[n])
      /\ \A n \in Nets : n \notin S => bare.nets[n] = b.nets[n]
  BY <1>2, UnstampAllSound
<1> HIDE DEF bare
<1>4. bare \in Boards /\ \A n \in Nets : bare.nets[n] \in NetStates
  BY <1>3, SoundParts
<1>5. \A n \in S : /\ was(n) \in NetStates /\ was(n).branches = saved[n].net.branches
                   /\ was(n).fixed = b.nets[n].fixed
                   /\ was(n).stamped = bare.nets[n].stamped
                   /\ was(n).complete = saved[n].net.complete
                   /\ was(n).released = b.nets[n].released
  <2> TAKE n \in S
  <2>1. bare.nets[n] \in NetStates /\ saved[n].net.branches \in SUBSET Branch
        /\ saved[n].net.complete \in BOOLEAN /\ Alike(b.nets[n], bare.nets[n])
    BY <1>2, <1>3, <1>4, NetParts
  <2>2. QED
    BY <2>1 DEF NetStates, Alike
<1> HIDE DEF was
<1>6. nets \in [Nets -> NetStates]
  BY <1>4, <1>5
<1>7. \A n \in Nets : /\ n \notin S => nets[n] = b.nets[n]
                      /\ n \in S => nets[n] = was(n)
                      /\ nets[n].stamped = bare.nets[n].stamped
  BY <1>3, <1>5
<1> HIDE DEF nets
<1>8. /\ back \in Boards /\ back.nets = nets /\ back.given = b.given /\ back.occ = bare.occ
      /\ back.gone = b.gone
  BY <1>3, <1>4, <1>6 DEF Boards, OfNets
<1> HIDE DEF back
<1>9. Counts(back)
  BY <1>3, <1>7, <1>8, SoundParts DEF Counts
<1>10. \A n \in Nets : Rightful(back, n)
  <2> TAKE n \in Nets
  <2>1. CASE n \in S
    BY <1>2, <1>5, <1>7, <1>8, <2>1, SoundParts DEF Rightful, SavedStates, S
  <2>2. CASE n \notin S
    BY <1>7, <1>8, <2>2, SoundParts DEF Rightful
  <2>3. QED
    BY <2>1, <2>2
<1>11. Sound(back)
  BY <1>8, <1>9, <1>10 DEF Sound
<1>12. /\ Sound(c) /\ OfNets(back, c)
       /\ \A n \in Nets :
            /\ Alike(back.nets[n], c.nets[n])
            /\ n \notin S => c.nets[n] = back.nets[n]
            /\ n \in S => c.nets[n].stamped = Footprint(back.nets[n].branches)
  BY <1>2, <1>11, StampAllSound
<1> HIDE DEF c
<1>13. OnlyOf(S, b, c)
  BY <1>7, <1>8, <1>12 DEF OfNets, OnlyOf
<1>14. ASSUME NEW n \in S
       PROVE  /\ c.nets[n].branches = saved[n].net.branches
              /\ c.nets[n].fixed = b.nets[n].fixed
              /\ c.nets[n].complete = saved[n].net.complete
              /\ c.nets[n].released = b.nets[n].released
              /\ InStep(c, n)
  <2>1. n \in Nets /\ back.nets[n] = was(n)
    BY <1>2, <1>7, <1>8
  <2>2. Alike(was(n), c.nets[n])
    BY <1>12, <2>1
  <2>3. InStep(c, n)
    BY <1>12, <2>1, <2>2 DEF InStep, Alike
  <2>4. QED
    BY <1>5, <2>2, <2>3 DEF Alike
<1>15. \A n \in S : CopperAs(b, c, n, saved)
  BY <1>14 DEF CopperAs
<1>16. QED
  BY <1>1, <1>12, <1>13, <1>15 DEF S

---------------------------------------------------------------------------
(* The board before the negotiation *)

\* Only what is fixed is there.
LEMMA PreparedSound ==
    /\ Sound(Prepared) /\ Prepared.gone = {} /\ \A n \in Nets : InStep(Prepared, n)
    /\ \A n \in Nets : Prepared.nets[n].branches = Stubs[n] /\ Prepared.nets[n].fixed = Stubs[n]
<1> DEFINE net(n) == [NewNet(n, {}) EXCEPT !.branches = Stubs[n], !.fixed = Stubs[n]]
           nets == [n \in Nets |-> net(n)]
           occ == [c \in Cells |-> 0]
           given == [n \in Nets |-> {}]
           bare == [nets |-> nets, occ |-> occ, given |-> given, gone |-> {}]
<1>1. Prepared = StampAll(bare, Nets)
  BY DEF Prepared
<1>2. \A n \in Nets : /\ net(n) \in NetStates /\ net(n).branches = Stubs[n]
                      /\ net(n).fixed = Stubs[n] /\ net(n).stamped = {}
  <2> TAKE n \in Nets
  <2>1. NewNet(n, {}) \in NetStates /\ Bare(NewNet(n, {})) /\ Stubs[n] \in SUBSET Branch
    BY NewNetType, CopperConstants
  <2>2. QED
    BY <2>1 DEF NetStates, Bare
<1> HIDE DEF net
<1>3. nets \in [Nets -> NetStates] /\ occ \in [Cells -> Int] /\ given \in [Nets -> SUBSET Links]
  BY <1>2
<1>4. bare \in Boards
  BY <1>3 DEF Boards
<1>5. Counts(bare)
  <2>1. \A c \in Cells : {n \in Nets : c \in bare.nets[n].stamped} = {}
    BY <1>2
  <2>2. QED
    BY <2>1, FS_EmptySet DEF Counts
<1>6. \A n \in Nets : Rightful(bare, n)
  BY <1>2 DEF Rightful
<1>7. Sound(bare)
  BY <1>4, <1>5, <1>6 DEF Sound
<1>8. \A n \in Nets : bare.nets[n].branches = Stubs[n] /\ bare.nets[n].fixed = Stubs[n]
  BY <1>2
<1>9. bare.gone = {}
  OBVIOUS
<1> HIDE DEF bare
<1>10. QED
  BY <1>1, <1>7, <1>8, <1>9, StampAllSound DEF OfNets, Alike, InStep

---------------------------------------------------------------------------
(* The inductive invariant *)

\* Runs and probes; resumed ones only of boards that have no links to give up.
Covered == mode # "resumed" \/ ~gives

\* The types of the scalars; only a probe waits to be resumed.
Scalars ==
    /\ mode \in {"run", "probe", "resumed"} /\ gives \in BOOLEAN /\ phase \in Phases
    /\ finishing \in BOOLEAN /\ (finishing => mode = "resumed")
    /\ present \in 0..PriceCap /\ reached \in 0..PriceCap
    /\ cut = NoCut \/ cut \in [left : SUBSET Nets, present : 0..PriceCap]
    /\ phase = "probed" => mode = "probe"

\* The types of the sets of nets.
Sets ==
    /\ order \subseteq Nets /\ pending \subseteq Nets /\ added \subseteq Nets
    /\ left \subseteq Nets /\ batch \subseteq Nets /\ todo \subseteq Nets
    /\ removed \subseteq Nets /\ untried \subseteq Links

\* The phases of a batch, and of the repair.
Batching == {"rip", "search", "stamp"}
Repairing == {"resolve", "tries", "rejoin", "hard", "force", "displace", "done"}

\* The nets still to handle in a batch are of it.
OfBatch ==
    /\ phase \in Batching => todo \subseteq batch
    /\ phase \notin Batching => batch = {}
    /\ phase \notin Batching \cup {"rejoin", "hard", "force", "displace"} => todo = {}

\* A net's stamps are behind its copper from its batch's search to its own stamp.
Behind(n) == (phase = "search" /\ n \in batch) \/ (phase = "stamp" /\ n \in todo)
StampsFollow == \A n \in Nets : Behind(n) \/ InStep(board, n)

\* The links given up but for one that is being tried again.
StillGone == IF phase = "rejoin" THEN Gone(board) \ {try.net} ELSE Gone(board)

\* They are bare, and among no nets to route.
GoneStayOut ==
    /\ ~gives => Gone(board) = {}
    /\ GoneAreBare(board, StillGone)
    /\ (left \cup batch \cup todo \cup removed) \cap Gone(board) = {}
    /\ untried \subseteq StillGone
    /\ phase \notin Repairing => removed = {} /\ untried = {}
    /\ phase \notin Repairing \cup {"probed"} => pending \cap Gone(board) = {}

\* A try has its parts.
Whole(t) ==
    t = [net |-> t.net, saved |-> t.saved, ok |-> t.ok, round |-> t.round,
         before |-> t.before, rest |-> t.rest]

\* What a try saved.
TryHolds ==
    /\ Whole(try)
    /\ phase \notin {"rejoin", "displace"} => try = NoTry
    /\ phase \in {"rejoin", "displace"} => SavedStates(try.saved)
    /\ phase = "rejoin" =>
        /\ try.net \in Links /\ DOMAIN try.saved = StandsFor[try.net] \cup {try.net}
        /\ Bare(try.saved[try.net].net) /\ try.saved[try.net].net.released
        /\ todo \subseteq StandsFor[try.net]
    /\ phase = "displace" =>
        /\ try.net \in DOMAIN try.saved /\ try.rest \subseteq Nets
        /\ (try.rest \cup DOMAIN try.saved) \cap Gone(board) = {}
        /\ \A n \in DOMAIN try.saved : try.saved[n].given = board.given[n]

\* The invariant: the parts of the state, and how they hang together.
Inv ==
    /\ Covered /\ Scalars /\ Sets /\ OfBatch /\ Sound(board) /\ StampsFollow
    /\ GoneStayOut /\ TryHolds

---------------------------------------------------------------------------
(* Every step keeps it: the negotiation *)

\* No try has its parts too.
LEMMA NoTryIsWhole == Whole(NoTry)
  BY DEF Whole, NoTry

\* It holds of the prepared board.
LEMMA InitInv ==
    ASSUME Init, Covered PROVE Inv
<1>1. Sound(board) /\ board.gone = {} /\ \A n \in Nets : InStep(board, n)
  BY PreparedSound DEF Init
<1>2. Gone(board) = {}
  BY <1>1 DEF Gone
<1>3. order \subseteq Nets
  BY DEF Init, RoutingOrder
<1>4. Scalars /\ Sets /\ OfBatch
  <2>1. Sets /\ OfBatch
    BY <1>3 DEF Init, Sets, OfBatch, Batching
  <2>2. 0 \in 0..PriceCap
    BY NegotiationConstants
  <2>3. Scalars
    BY <2>2 DEF Init, Scalars, Phases
  <2>4. QED
    BY <2>1, <2>3
<1>5. StampsFollow /\ GoneStayOut
  BY <1>1, <1>2 DEF Init, StampsFollow, GoneStayOut, StillGone, GoneAreBare
<1>6. TryHolds
  BY NoTryIsWhole DEF Init, TryHolds
<1>7. QED
  BY <1>1, <1>4, <1>5, <1>6 DEF Inv

\* Negotiate keeps the invariant.
LEMMA NegotiateInv ==
    ASSUME Inv, Negotiate PROVE Inv'
<1> USE DEF Inv, Negotiate, GoTo, Stop, work, repair
<1>1. Covered' /\ Scalars' /\ Sets' /\ OfBatch'
  BY DEF Covered, Scalars, Sets, OfBatch, Phases, Batching
<1>2. Sound(board)' /\ StampsFollow'
  BY DEF StampsFollow, Behind
<1>3. GoneStayOut'
  BY DEF GoneStayOut, StillGone, Repairing
<1>4. TryHolds'
  BY DEF TryHolds
<1>5. QED
  BY <1>1, <1>2, <1>3, <1>4

\* BeginIteration keeps the invariant.
LEMMA BeginIterationInv ==
    ASSUME Inv, BeginIteration PROVE Inv'
<1> USE DEF Inv, BeginIteration, GoTo, repair
<1>1. Covered' /\ Scalars' /\ Sets' /\ Sound(board)'
  BY DEF Covered, Scalars, Sets, Phases
<1>2. OfBatch'
  BY DEF OfBatch, Batching
<1>3. StampsFollow'
  BY DEF StampsFollow, Behind
<1>4. GoneStayOut'
  BY DEF GoneStayOut, StillGone, Repairing, OfBatch, Batching
<1>5. TryHolds'
  BY DEF TryHolds
<1>6. QED
  BY <1>1, <1>2, <1>3, <1>4, <1>5

\* BeginBatch keeps the invariant.
LEMMA BeginBatchInv ==
    ASSUME Inv, BeginBatch PROVE Inv'
<1> USE DEF Inv, BeginBatch, GoTo, negotiation, repair
<1>1. Covered' /\ Scalars' /\ Sets' /\ Sound(board)'
  BY DEF Covered, Scalars, Sets, Phases
<1>2. OfBatch'
  BY DEF OfBatch, Batching
<1>3. StampsFollow'
  BY DEF StampsFollow, Behind
<1>4. GoneStayOut'
  BY DEF GoneStayOut, StillGone, Repairing
<1>5. TryHolds'
  BY DEF TryHolds
<1>6. QED
  BY <1>1, <1>2, <1>3, <1>4, <1>5

\* CutIteration keeps the invariant.
LEMMA CutIterationInv ==
    ASSUME Inv, CutIteration PROVE Inv'
<1> USE DEF Inv, CutIteration, CutLeaving, GoTo, repair
<1>1. Covered' /\ Scalars' /\ Sets' /\ Sound(board)'
  BY DEF Covered, Scalars, Sets, Phases
<1>2. OfBatch'
  BY DEF OfBatch, Batching
<1>3. StampsFollow'
  BY DEF StampsFollow, Behind
<1>4. GoneStayOut'
  BY DEF GoneStayOut, StillGone, Repairing
<1>5. TryHolds'
  BY DEF TryHolds
<1>6. QED
  BY <1>1, <1>2, <1>3, <1>4, <1>5

\* A batch's nets in turn: none else comes in hand.
LEMMA NextOfBatchGoesOn ==
    ASSUME Inv, NEW n \in Nets, NEW next \in {"search", "stamp"}, NextOfBatch(n, next),
           UNCHANGED batch, phase \in {"rip", "search"}, phase # next
    PROVE  /\ n \in todo /\ n \in batch /\ batch \subseteq Nets
           /\ todo' \subseteq batch /\ phase' \in {phase, next}
           /\ phase' = next => todo' = batch
  BY DEF NextOfBatch, IsFirst, Inv, OfBatch, Batching, Sets, GoTo

\* RipUpNet keeps the invariant.
LEMMA RipUpNetInv ==
    ASSUME Inv, NEW n \in Nets, RipUpNet(n) PROVE Inv'
<1> USE DEF Inv, RipUpNet, negotiation, repair
<1>1. /\ n \in todo /\ n \in batch /\ batch \subseteq Nets /\ todo' \subseteq batch
      /\ phase' \in {"rip", "search"} /\ (phase' = "search" => todo' = batch)
  BY NextOfBatchGoesOn
<1>2. /\ Sound(board') /\ OnlyOf({n}, board, board') /\ InStep(board', n)
  BY RipUpSound DEF InStep
<1>3. Covered' /\ Scalars' /\ Sets' /\ OfBatch'
  BY <1>1 DEF Covered, Scalars, Sets, OfBatch, Phases, Batching
<1>4. StampsFollow'
  BY <1>1, <1>2 DEF StampsFollow, Behind, InStep, OnlyOf
<1>5. Gone(board)' = Gone(board) /\ n \notin Gone(board) /\ Gone(board) \subseteq Nets
  BY <1>1, <1>2, GoneAreLinks, LinksAreNets, SoundParts DEF Gone, OnlyOf, OfNets, GoneStayOut
<1>6. GoneStayOut'
  BY <1>1, <1>2, <1>5 DEF GoneStayOut, StillGone, GoneAreBare, Repairing, OnlyOf
<1>7. TryHolds'
  BY <1>1 DEF TryHolds
<1>8. QED
  BY <1>2, <1>3, <1>4, <1>6, <1>7

\* SearchNet keeps the invariant.
LEMMA SearchNetInv ==
    ASSUME Inv, NEW n \in Nets, SearchNet(n) PROVE Inv'
<1> USE DEF Inv, SearchNet, negotiation, repair
<1>1. /\ n \in todo /\ n \in batch /\ batch \subseteq Nets /\ todo' \subseteq batch
      /\ phase' \in {"search", "stamp"} /\ (phase' = "stamp" => todo' = batch)
  BY NextOfBatchGoesOn
<1>2. /\ Sound(board') /\ OnlyOf({n}, board, board')
  <2>1. PICK branches \in Searches(board, n, FALSE) : board' = Routed(board, n, branches, FALSE)
    OBVIOUS
  <2>2. QED
    BY <2>1, RoutedSound
<1>3. Covered' /\ Scalars' /\ Sets' /\ OfBatch'
  BY <1>1 DEF Covered, Scalars, Sets, OfBatch, Phases, Batching
<1>4. StampsFollow'
  <2> SUFFICES ASSUME NEW m \in Nets, m \notin batch
               PROVE  InStep(board', m)
    BY <1>1 DEF StampsFollow, Behind
  <2>1. InStep(board, m)
    BY DEF StampsFollow, Behind
  <2>2. QED
    BY <1>1, <1>2, <2>1 DEF InStep, OnlyOf
<1>5. Gone(board)' = Gone(board) /\ n \notin Gone(board) /\ Gone(board) \subseteq Nets
  BY <1>1, <1>2, GoneAreLinks, LinksAreNets, SoundParts DEF Gone, OnlyOf, OfNets, GoneStayOut
<1>6. GoneStayOut'
  BY <1>1, <1>2, <1>5 DEF GoneStayOut, StillGone, GoneAreBare, Repairing, OnlyOf
<1>7. TryHolds'
  BY <1>1 DEF TryHolds
<1>8. QED
  BY <1>2, <1>3, <1>4, <1>6, <1>7

\* StampNet keeps the invariant.
LEMMA StampNetInv ==
    ASSUME Inv, NEW n \in Nets, StampNet(n) PROVE Inv'
<1> USE DEF Inv, StampNet, negotiation, repair
<1>1. /\ n \in todo /\ n \in batch /\ batch \subseteq Nets /\ todo' = todo \ {n}
      /\ phase' \in {"stamp", "batch"} /\ batch' \subseteq batch
      /\ phase' = "batch" => todo' = {} /\ batch' = {}
      /\ phase' = "stamp" => batch' = batch
  BY DEF IsFirst, OfBatch, Batching, Sets, GoTo
<1>2. /\ Sound(board') /\ OnlyOf({n}, board, board') /\ InStep(board', n)
  BY StampSound DEF InStep, Alike
<1>3. Covered' /\ Scalars' /\ Sets' /\ OfBatch'
  BY <1>1 DEF Covered, Scalars, Sets, OfBatch, Phases, Batching
<1>4. StampsFollow'
  <2> SUFFICES ASSUME NEW m \in Nets, m # n, ~InStep(board', m)
               PROVE  Behind(m)'
    BY <1>2 DEF StampsFollow
  <2>1. ~InStep(board, m)
    BY <1>2 DEF InStep, OnlyOf
  <2>2. m \in todo /\ m \in todo'
    BY <1>1, <2>1 DEF StampsFollow, Behind
  <2>3. QED
    BY <1>1, <2>2 DEF Behind
<1>5. Gone(board)' = Gone(board) /\ n \notin Gone(board) /\ Gone(board) \subseteq Nets
  BY <1>1, <1>2, GoneAreLinks, LinksAreNets, SoundParts DEF Gone, OnlyOf, OfNets, GoneStayOut
<1>6. GoneStayOut'
  BY <1>1, <1>2, <1>5 DEF GoneStayOut, StillGone, GoneAreBare, Repairing, OnlyOf
<1>7. TryHolds'
  BY <1>1 DEF TryHolds
<1>8. QED
  BY <1>2, <1>3, <1>4, <1>6, <1>7

\* A grown price is within its cap.
LEMMA GrownType ==
    \A price \in 0..PriceCap : Grown(price) \in 0..PriceCap
  BY NegotiationConstants DEF Grown, Min2

\* At an iteration's end every net's stamps follow its copper.
LEMMA AtTheEnd ==
    ASSUME Inv, phase = "batch"
    PROVE  EndsWell(board, IterationEnd(board, present)) /\ (\A n \in Nets : InStep(board, n))
<1>1. \A n \in Nets : InStep(board, n)
  BY DEF Inv, StampsFollow, Behind
<1>2. GoneAreBare(board, Gone(board))
  BY DEF Inv, GoneStayOut, StillGone
<1>3. present \in Int
  BY DEF Inv, Scalars
<1>4. Sound(board) /\ order \subseteq Nets /\ gives \in BOOLEAN
  BY DEF Inv, Sets, Scalars
<1>5. QED
  BY <1>1, <1>2, <1>3, <1>4, IterationEndSound

\* EndIteration keeps the invariant.
LEMMA EndIterationInv ==
    ASSUME Inv, EndIteration PROVE Inv'
<1> DEFINE end == IterationEnd(board, present)
           settled == end.nets = {}
           price == IF settled THEN present ELSE Grown(present)
<1>1. /\ phase = "batch" /\ left = {} /\ board' = end.board
      /\ present' = price /\ (reached' = price \/ reached' = reached)
      /\ pending' = (IF settled THEN pending ELSE end.nets)
      /\ added' = (IF settled THEN added ELSE end.added)
      /\ phase' \in {Stop, "iteration"} /\ (phase' = "iteration" => ~settled)
      /\ UNCHANGED <<mode, gives, order, cut, finishing, work, repair>>
  <2>1. /\ phase = "batch" /\ left = {} /\ board' = end.board /\ present' = price
        /\ pending' = (IF settled THEN pending ELSE end.nets)
        /\ added' = (IF settled THEN added ELSE end.added)
        /\ UNCHANGED <<mode, gives, order, cut, finishing, work, repair>>
    BY DEF EndIteration
  <2>2. \E stop \in BOOLEAN :
            IF stop \/ settled \/ iteration = MaxIterations
            THEN phase' = Stop /\ reached' = price
            ELSE phase' = "iteration" /\ UNCHANGED reached
    BY DEF EndIteration, GoTo
  <2> HIDE DEF settled, price
  <2>3. /\ phase' \in {Stop, "iteration"}
        /\ phase' = "iteration" => ~settled
        /\ reached' = price \/ reached' = reached
    <3>1. Stop # "iteration"
      BY DEF Stop
    <3>2. QED
      BY <2>2, <3>1
  <2>4. QED
    BY <2>1, <2>3 DEF settled, price
<1>2. EndsWell(board, end)
  BY <1>1, AtTheEnd
<1>3. price \in 0..PriceCap
  BY GrownType DEF Inv, Scalars
<1> HIDE DEF end, price
<1>4. Covered' /\ Scalars'
  BY <1>1, <1>3 DEF Inv, Covered, Scalars, Phases, Stop
<1>5. Sets'
  BY <1>1, <1>2 DEF Inv, Sets, EndsWell, work, repair
<1>6. OfBatch'
  BY <1>1 DEF Inv, OfBatch, Batching, Stop, work
<1>7. Sound(board)' /\ StampsFollow'
  BY <1>1, <1>2 DEF EndsWell, StampsFollow
<1>8. GoneStayOut'
  <2>1. ~gives => Gone(board)' = {}
    BY <1>1, <1>2 DEF EndsWell, Inv, GoneStayOut
  <2>2. GoneAreBare(board, StillGone)'
    BY <1>1, <1>2 DEF EndsWell, StillGone, Stop
  <2>3. left' = {} /\ batch' = {} /\ todo' = {} /\ removed' = {} /\ untried' = {}
    BY <1>1 DEF Inv, OfBatch, Batching, GoneStayOut, Repairing, work, repair
  <2>4. phase' \notin Repairing \cup {"probed"} => pending' \cap Gone(board)' = {}
    <3>1. CASE settled
      BY <1>1, <3>1 DEF Stop, Repairing
    <3>2. CASE ~settled
      BY <1>1, <1>2, <3>2 DEF EndsWell
    <3>3. QED
      BY <3>1, <3>2
  <2>5. QED
    BY <1>1, <2>1, <2>2, <2>3, <2>4 DEF GoneStayOut
<1>9. TryHolds'
  BY <1>1 DEF Inv, TryHolds, Stop, repair
<1>10. QED
  BY <1>4, <1>5, <1>6, <1>7, <1>8, <1>9 DEF Inv

\* Resume keeps the invariant.
LEMMA ResumeInv ==
    ASSUME Inv, Resume, Covered' PROVE Inv'
<1> USE DEF Inv, Resume, GoTo
<1>1. Gone(board) = {}
  BY DEF Covered, Scalars, GoneStayOut
<1>2. order' \subseteq Nets /\ pending' \subseteq Nets /\ added' \subseteq Nets
  BY DEF RoutingOrder, Unfinished, Sets
<1>3. left' \subseteq Nets /\ present' \in 0..PriceCap /\ finishing' \in BOOLEAN
  <2>1. CASE cut = NoCut
    BY <2>1 DEF Scalars, NoCut
  <2>2. CASE cut # NoCut
    <3>1. cut.left \subseteq Nets /\ cut.present \in 0..PriceCap
      BY <2>2 DEF Scalars
    <3>2. left' = cut.left /\ present' = cut.present /\ finishing' = TRUE
      BY <2>2
    <3>3. QED
      BY <3>1, <3>2
  <2>3. QED
    BY <2>1, <2>2
<1>4. Covered' /\ Scalars'
  BY <1>3 DEF Covered, Scalars, Phases
<1>5. Sets'
  BY <1>2, <1>3 DEF Sets, repair
<1>6. OfBatch' /\ Sound(board)'
  BY DEF OfBatch, Batching
<1>7. StampsFollow'
  BY DEF StampsFollow, Behind
<1>8. GoneStayOut'
  BY <1>1 DEF GoneStayOut, GoneAreBare, StillGone, Repairing, repair
<1>9. TryHolds'
  BY DEF TryHolds, repair
<1>10. QED
  BY <1>4, <1>5, <1>6, <1>7, <1>8, <1>9

\* FinishCut keeps the invariant.
LEMMA FinishCutInv ==
    ASSUME Inv, FinishCut PROVE Inv'
<1> DEFINE end == IterationEnd(board, present)
           price == IF end.nets = {} THEN reached ELSE Grown(present)
<1>1. /\ phase = "batch" /\ left = {} /\ finishing /\ board' = end.board
      /\ present' = price /\ reached' = price
      /\ pending' = Unfinished(end.board, order) /\ added' = {}
      /\ finishing' = FALSE /\ phase' = "negotiate"
      /\ UNCHANGED <<mode, gives, order, cut, work, repair>>
  BY DEF FinishCut, GoTo
<1>2. EndsWell(board, end)
  BY <1>1, AtTheEnd
<1>3. price \in 0..PriceCap
  BY GrownType DEF Inv, Scalars
<1>4. Unfinished(end.board, order) \subseteq order
  BY DEF Unfinished
<1> HIDE DEF end, price
<1>5. Covered' /\ Scalars'
  BY <1>1, <1>3 DEF Inv, Covered, Scalars, Phases
<1>6. Sets'
  BY <1>1, <1>4 DEF Inv, Sets, work, repair
<1>7. OfBatch'
  BY <1>1 DEF Inv, OfBatch, Batching, work
<1>8. Sound(board)' /\ StampsFollow'
  BY <1>1, <1>2 DEF EndsWell, StampsFollow
<1>9. GoneStayOut'
  <2>1. Gone(board)' = {}
    BY <1>1, <1>2 DEF EndsWell, Inv, GoneStayOut, Covered, Scalars
  <2>2. removed' = {} /\ untried' = {}
    BY <1>1 DEF Inv, GoneStayOut, Repairing, repair
  <2>3. QED
    BY <1>1, <2>1, <2>2 DEF GoneStayOut, GoneAreBare, StillGone
<1>10. TryHolds'
  BY <1>1 DEF Inv, TryHolds, repair
<1>11. QED
  BY <1>5, <1>6, <1>7, <1>8, <1>9, <1>10 DEF Inv

---------------------------------------------------------------------------
(* Every step keeps it: the hard repair *)

\* A bare net is in no conflict.
LEMMA BareNoConflict ==
    ASSUME NEW b, NEW n, Bare(b.nets[n])
    PROVE  ~InConflict(b, n)
  BY DEF Bare, InConflict, Conflicts

\* A step of the repair on one net that is not given up.
LEMMA OneNetStep ==
    ASSUME Inv, NEW n \in Nets, n \notin Gone(board), Sound(board'),
           OnlyOf({n}, board, board'), InStep(board', n),
           phase \in Repairing, phase' \in Repairing, phase = "rejoin" <=> phase' = "rejoin",
           phase = "rejoin" => try'.net = try.net,
           UNCHANGED <<gives, left, batch, untried>>,
           (todo' \cup removed') \cap Gone(board) = {}
    PROVE  StampsFollow' /\ GoneStayOut' /\ Gone(board)' = Gone(board)
<1>1. Gone(board)' = Gone(board) /\ Gone(board) \subseteq Nets
  BY GoneAreLinks, LinksAreNets, SoundParts DEF Inv, Gone, OnlyOf, OfNets
<1>2. StampsFollow'
  <2> SUFFICES ASSUME NEW m \in Nets, m # n PROVE InStep(board', m)
    BY DEF StampsFollow
  <2>1. InStep(board, m)
    BY DEF Inv, StampsFollow, Behind, Repairing
  <2>2. QED
    BY <2>1 DEF InStep, OnlyOf
<1>3. GoneStayOut'
  <2>1. StillGone' = StillGone /\ n \notin StillGone /\ StillGone \subseteq Nets
    BY <1>1 DEF StillGone
  <2>2. GoneAreBare(board, StillGone)'
    BY <2>1 DEF Inv, GoneStayOut, GoneAreBare, OnlyOf
  <2>3. QED
    BY <1>1, <2>1, <2>2 DEF Inv, GoneStayOut
<1>4. QED
  BY <1>1, <1>2, <1>3

\* RipWorst keeps the invariant.
LEMMA RipWorstInv ==
    ASSUME Inv, NEW n \in Nets, RipWorst(n) PROVE Inv'
<1> USE DEF Inv, RipWorst, negotiation, work
<1>1. Sound(board') /\ OnlyOf({n}, board, board') /\ InStep(board', n)
  <2>1. board' = RipUpConflicted(Unstuck(board, n), n)
    BY DEF Unstuck
  <2>2. Sound(Unstuck(board, n)) /\ OnlyOf({n}, board, Unstuck(board, n))
    BY UnstuckSound
  <2> DEFINE c == Unstuck(board, n)
  <2> HIDE DEF c
  <2>3. Sound(c)
    BY <2>2 DEF c
  <2>4. /\ Sound(RipUpConflicted(c, n)) /\ OnlyOf({n}, c, RipUpConflicted(c, n))
        /\ InStep(RipUpConflicted(c, n), n)
    BY <2>3, RipUpSound DEF InStep
  <2>5. board' = RipUpConflicted(c, n) /\ OnlyOf({n}, board, c)
    BY <2>1, <2>2 DEF c
  <2>6. QED
    BY <2>4, <2>5 DEF OnlyOf, OfNets
<1>2. n \notin Gone(board)
  <2>1. InConflict(board, n)
    BY DEF Contested
  <2>2. QED
    BY <2>1, BareNoConflict DEF GoneStayOut, GoneAreBare, StillGone
<1>3. StampsFollow' /\ GoneStayOut'
  BY <1>1, <1>2, OneNetStep DEF Repairing, GoneStayOut
<1>4. Covered' /\ Scalars' /\ Sets' /\ OfBatch'
  BY DEF Covered, Scalars, Sets, OfBatch
<1>5. TryHolds'
  BY DEF TryHolds
<1>6. QED
  BY <1>1, <1>3, <1>4, <1>5

\* RipsDone keeps the invariant.
LEMMA RipsDoneInv ==
    ASSUME Inv, RipsDone PROVE Inv'
<1> USE DEF Inv, RipsDone, GoTo, negotiation, work
<1>1. untried' \subseteq Gone(board) /\ Gone(board) \subseteq Links
  BY GoneAreLinks, SoundParts DEF Gone
<1>2. Covered' /\ Scalars' /\ Sets' /\ OfBatch'
  BY <1>1 DEF Covered, Scalars, Sets, OfBatch, Phases, Batching
<1>3. Sound(board)' /\ StampsFollow'
  BY DEF StampsFollow, Behind
<1>4. GoneStayOut'
  BY <1>1 DEF GoneStayOut, StillGone, Repairing
<1>5. TryHolds'
  BY DEF TryHolds
<1>6. QED
  BY <1>2, <1>3, <1>4, <1>5

\* The board a link is routed on once more.
Fresh(b, l, given) ==
    LET bare == Rewrite(StripAll(b, StandsFor[l]), StandsFor[l], given)
        link == [NewNet(l, bare.given[l]) EXCEPT !.record = b.nets[l].record]
    IN  [bare EXCEPT !.nets[l] = link]

\* The link and its nets are bare on it, the others as they were.
LEMMA FreshSound ==
    ASSUME NEW b, Sound(b), NEW l \in Links, Bare(b.nets[l]), NEW given
    PROVE  /\ Sound(Fresh(b, l, given)) /\ Fresh(b, l, given).gone = b.gone
           /\ \A n \in Nets \ (StandsFor[l] \cup {l}) :
                /\ Fresh(b, l, given).nets[n] = b.nets[n]
                /\ Fresh(b, l, given).given[n] = b.given[n]
           /\ \A n \in StandsFor[l] \cup {l} : Bare(Fresh(b, l, given).nets[n])
<1> DEFINE nets == StandsFor[l]
           stripped == StripAll(b, nets)
           bare == Rewrite(stripped, nets, given)
           link == [NewNet(l, bare.given[l]) EXCEPT !.record = b.nets[l].record]
           fresh == [bare EXCEPT !.nets[l] = link]
<1>1. nets \in SUBSET Nets /\ l \in Nets /\ l \notin nets
  BY CopperConstants
<1> HIDE DEF nets
<1>2. /\ Sound(stripped) /\ OfNets(b, stripped)
      /\ \A n \in Nets : /\ n \notin nets => stripped.nets[n] = b.nets[n]
                         /\ n \in nets => Bare(stripped.nets[n])
  BY <1>1, StripAllSound
<1> HIDE DEF stripped
<1>3. \A n \in nets : stripped.nets[n].stamped = {}
  BY <1>1, <1>2 DEF Bare
<1>4. /\ Sound(bare) /\ bare.gone = stripped.gone
      /\ \A n \in nets : Bare(bare.nets[n])
  BY <1>1, <1>2, <1>3, RewriteSound
<1>5. /\ \A n \in Nets \ nets : bare.nets[n] = stripped.nets[n]
      /\ \A n \in Nets \ nets : bare.given[n] = stripped.given[n]
  BY DEF Rewrite
<1> HIDE DEF bare
<1>6. bare.nets[l] = b.nets[l] /\ b.nets[l] \in NetStates /\ bare.given[l] \in SUBSET LinksOf(l)
  BY <1>1, <1>2, <1>4, <1>5, SoundParts DEF Rightful
<1>7. link \in NetStates /\ Bare(link)
  <2>1. /\ NewNet(l, bare.given[l]) \in NetStates /\ Bare(NewNet(l, bare.given[l]))
        /\ b.nets[l].record \in Records
    BY <1>1, <1>6, NewNetType, NetParts
  <2>2. QED
    BY <2>1 DEF NetStates, Bare
<1>8. fresh = With(bare, l, link)
  BY DEF With
<1> HIDE DEF link
<1>9. link.stamped = bare.nets[l].stamped
  BY <1>6, <1>7 DEF Bare
<1>10. link.branches = {} /\ link.fixed = {}
  BY <1>7 DEF Bare
<1>11. /\ Sound(fresh) /\ OfNets(bare, fresh) /\ fresh.nets[l] = link
       /\ \A n \in Nets \ {l} : fresh.nets[n] = bare.nets[n]
  <2>1. link.branches \subseteq Stubs[l] \cup Plan[l][bare.given[l]].ways
        /\ link.fixed \subseteq Stubs[l]
    BY <1>10
  <2> DEFINE c == With(bare, l, link)
  <2>2. Sound(c) /\ OfNets(bare, c)
    BY <1>1, <1>4, <1>7, <1>9, <2>1, WithSound
  <2>3. c.nets[l] = link
    BY <1>1, <1>4, <1>7, <1>9, <2>1, WithSound
  <2>4. \A n \in Nets \ {l} : c.nets[n] = bare.nets[n]
    BY <1>1, <1>4, <1>7, <1>9, <2>1, WithSound
  <2>5. QED
    BY <1>8, <2>2, <2>3, <2>4
<1> HIDE DEF fresh
<1>12. fresh.gone = b.gone
  BY <1>2, <1>4, <1>11 DEF OfNets
<1>13. \A n \in Nets \ (nets \cup {l}) :
            fresh.nets[n] = b.nets[n] /\ fresh.given[n] = b.given[n]
  BY <1>2, <1>5, <1>11 DEF OfNets
<1>14. \A n \in nets \cup {l} : Bare(fresh.nets[n])
  BY <1>1, <1>4, <1>7, <1>11
<1>15. QED
  <2>1. Fresh(b, l, given) = fresh
    BY DEF Fresh, fresh, link, bare, stripped, nets
  <2>2. QED
    BY <1>11, <1>12, <1>13, <1>14, <2>1 DEF nets

\* TryLink keeps the invariant.
LEMMA TryLinkInv ==
    ASSUME Inv, NEW l \in Links, TryLink(l) PROVE Inv'
<1> USE DEF Inv
<1> DEFINE nets == StandsFor[l]
           fresh == Fresh(board, l, Gone(board) \ {l})
<1>1. /\ phase = "tries" /\ l \in untried /\ untried' = untried \ {l} /\ phase' = "rejoin"
      /\ UNCHANGED <<mode, gives, order, negotiation, left, batch, removed, history>>
  BY DEF TryLink, GoTo
<1>2. PICK branches \in Searches(fresh, l, TRUE) :
        LET with == Stamp(Routed(fresh, l, branches, TRUE), l)
        IN  /\ board' = with
            /\ try' = [NoTry EXCEPT !.net = l, !.saved = Saved(board, nets \cup {l}),
                                    !.before = board]
            /\ todo' = (IF with.nets[l].complete
                        THEN {n \in nets : with.nets[n].routable} ELSE {})
  BY DEF TryLink, Fresh
<1>3. try' = [NoTry EXCEPT !.net = l, !.saved = Saved(board, nets \cup {l}), !.before = board]
      /\ todo' \subseteq nets
  BY <1>2
<1>4. l \in Nets /\ nets \subseteq Nets /\ nets \cap Links = {} /\ l \in Gone(board)
      /\ Bare(board.nets[l]) /\ board.nets[l].released
  BY <1>1, CopperConstants DEF GoneStayOut, GoneAreBare, StillGone
<1>5. /\ Sound(fresh) /\ fresh.gone = board.gone
      /\ \A n \in Nets \ (nets \cup {l}) :
            fresh.nets[n] = board.nets[n] /\ fresh.given[n] = board.given[n]
      /\ \A n \in nets \cup {l} : Bare(fresh.nets[n])
  BY <1>4, FreshSound
<1> HIDE DEF nets, fresh
<1>6. /\ Sound(board') /\ OnlyOf({l}, fresh, board') /\ InStep(board', l)
  <2> DEFINE c == Stamp(Routed(fresh, l, branches, TRUE), l)
  <2>1. Sound(c) /\ OnlyOf({l}, fresh, c) /\ InStep(c, l)
    BY <1>4, <1>5, RoutedStampedSound
  <2> HIDE DEF c
  <2>2. board' = c
    BY <1>2 DEF c
  <2>3. QED
    BY <2>1, <2>2 DEF InStep
<1>7. board'.gone = board.gone
  BY <1>5, <1>6 DEF OnlyOf, OfNets
<1>8. Gone(board)' = Gone(board) /\ Gone(board) \subseteq Links
  BY <1>7, GoneAreLinks, SoundParts DEF Gone
<1>9. try'.net = l /\ try'.saved = Saved(board, nets \cup {l}) /\ Whole(try')
  BY <1>3 DEF NoTry, Whole
<1>10. Covered' /\ Scalars' /\ Sets' /\ OfBatch'
  BY <1>1, <1>3, <1>4 DEF Covered, Scalars, Sets, OfBatch, Phases, Batching, negotiation
<1>11. StampsFollow'
  <2> SUFFICES ASSUME NEW n \in Nets, n # l PROVE InStep(board', n)
    BY <1>6 DEF StampsFollow
  <2>1. CASE n \in nets
    BY <1>5, <1>6, <2>1, BareInStep DEF InStep, OnlyOf
  <2>2. CASE n \notin nets
    <3>1. InStep(board, n)
      BY <1>1 DEF StampsFollow, Behind
    <3>2. board'.nets[n] = board.nets[n]
      BY <1>5, <1>6, <2>2 DEF OnlyOf
    <3>3. QED
      BY <3>1, <3>2 DEF InStep
  <2>3. QED
    BY <2>1, <2>2
<1>12. GoneStayOut'
  <2>1. StillGone' = Gone(board) \ {l} /\ StillGone = Gone(board)
    BY <1>1, <1>8, <1>9 DEF StillGone
  <2>2. \A n \in Gone(board) \ {l} : n \in Nets /\ board'.nets[n] = board.nets[n]
    BY <1>4, <1>5, <1>6, <1>8, LinksAreNets DEF OnlyOf
  <2>3. GoneAreBare(board, StillGone)'
    BY <2>1, <2>2 DEF GoneStayOut, GoneAreBare
  <2>4. todo' \cap Gone(board) = {}
    BY <1>3, <1>4, <1>8
  <2>5. QED
    BY <1>1, <1>8, <2>1, <2>3, <2>4 DEF GoneStayOut, Repairing
<1>13. TryHolds'
  <2>1. /\ SavedStates(try'.saved) /\ DOMAIN try'.saved = nets \cup {l}
        /\ try'.saved[l].net = board.nets[l]
    BY <1>4, <1>9, SavedIsSaved
  <2>2. QED
    BY <1>1, <1>3, <1>4, <1>9, <2>1 DEF TryHolds, nets
<1>14. QED
  BY <1>6, <1>10, <1>11, <1>12, <1>13

\* A net routed where no other's copper is.
LEMMA RouteAloneSound ==
    ASSUME Sound(board), NEW n \in Nets, RouteAlone(n)
    PROVE  Sound(board') /\ OnlyOf({n}, board, board') /\ InStep(board', n)
<1>1. PICK branches \in Searches(board, n, TRUE) :
        board' = Stamp(Routed(board, n, branches, TRUE), n)
  BY DEF RouteAlone
<1> DEFINE c == Stamp(Routed(board, n, branches, TRUE), n)
<1>2. Sound(c) /\ OnlyOf({n}, board, c) /\ InStep(c, n)
  BY RoutedStampedSound
<1>3. board' = c
  BY <1>1
<1> HIDE DEF c
<1>4. QED
  BY <1>2, <1>3 DEF InStep

\* Rejoin keeps the invariant.
LEMMA RejoinInv ==
    ASSUME Inv, NEW n \in Nets, Rejoin(n) PROVE Inv'
<1> USE DEF Inv, Rejoin, negotiation, repair
<1>1. /\ n \in todo /\ n \notin Gone(board) /\ todo' = todo \ {n}
      /\ (todo' \cup removed') \cap Gone(board) = {}
  BY DEF IsFirst, GoneStayOut
<1>2. Sound(board') /\ OnlyOf({n}, board, board') /\ InStep(board', n)
  BY RouteAloneSound
<1>3. StampsFollow' /\ GoneStayOut'
  BY <1>1, <1>2, OneNetStep DEF Repairing
<1>4. Covered' /\ Scalars' /\ Sets' /\ OfBatch'
  BY <1>1 DEF Covered, Scalars, Sets, OfBatch, Batching
<1>5. TryHolds'
  BY <1>1 DEF TryHolds
<1>6. QED
  BY <1>2, <1>3, <1>4, <1>5

\* JudgeTry keeps the invariant.
LEMMA JudgeTryInv ==
    ASSUME Inv, JudgeTry PROVE Inv'
<1> USE DEF Inv
<1> DEFINE l == try.net
           kept == [board EXCEPT !.gone = {e \in @ : e.net # try.net}]
           back == PutBack(board, try.saved, try.net)
<1>1. /\ phase = "rejoin" /\ todo = {} /\ phase' = "tries" /\ try' = NoTry
      /\ board' = kept \/ board' = back
      /\ UNCHANGED <<mode, gives, order, negotiation, work, removed, untried, history>>
  BY DEF JudgeTry, GoTo
<1>2. /\ SavedStates(try.saved) /\ l \in Links
      /\ DOMAIN try.saved = StandsFor[l] \cup {l}
      /\ Bare(try.saved[l].net) /\ try.saved[l].net.released
  BY <1>1 DEF TryHolds
<1>3. l \in Nets /\ StandsFor[l] \subseteq Nets \ Links
  BY <1>2, CopperConstants
<1>4. /\ GoneAreBare(board, Gone(board) \ {l}) /\ untried \subseteq Gone(board) \ {l}
      /\ \A n \in Nets : InStep(board, n)
      /\ Gone(board) \subseteq Links
  BY <1>1, GoneAreLinks, SoundParts DEF GoneStayOut, StillGone, StampsFollow, Behind
<1>5. Covered' /\ Scalars' /\ Sets' /\ OfBatch' /\ TryHolds'
  BY <1>1, NoTryIsWhole DEF Covered, Scalars, Sets, OfBatch, TryHolds, Phases, Batching,
     negotiation, work
<1>6. CASE board' = kept
  <2>1. board \in Boards
    BY SoundParts
  <2>2. /\ kept \in Boards /\ kept.nets = board.nets /\ kept.occ = board.occ
        /\ kept.given = board.given /\ kept.gone = {e \in board.gone : e.net # l}
    BY <2>1 DEF Boards
  <2> HIDE DEF kept, l
  <2>3. Sound(kept)
    BY <2>2 DEF Sound, Counts, Rightful
  <2>4. Gone(kept) = Gone(board) \ {l}
    BY <2>2 DEF Gone
  <2>5. StampsFollow'
    BY <1>4, <1>6, <2>2 DEF StampsFollow, InStep
  <2>6. GoneStayOut'
    <3>1. StillGone' = Gone(board) \ {l} /\ Gone(board)' = Gone(board) \ {l}
      BY <1>1, <1>6, <2>4 DEF StillGone
    <3>2. GoneAreBare(board, StillGone)'
      BY <1>4, <1>6, <2>2, <3>1 DEF GoneAreBare
    <3>3. QED
      BY <1>1, <1>4, <3>1, <3>2 DEF GoneStayOut, Repairing, work
  <2>7. QED
    BY <1>5, <1>6, <2>3, <2>5, <2>6
<1>7. CASE board' = back
  <2>1. /\ Sound(back) /\ back.gone = board.gone
        /\ \A n \in Nets \ DOMAIN try.saved : AsItIs(back, n) = AsItIs(board, n)
        /\ \A n \in DOMAIN try.saved : BackAs(back, n, try.saved, l)
    BY <1>2, <1>3, PutBackSound
  <2> HIDE DEF back
  <2>2. Bare(back.nets[l]) /\ back.nets[l].released
    BY <1>2, <2>1 DEF Bare, BackAs
  <2>3. \A n \in Nets \ DOMAIN try.saved : back.nets[n] = board.nets[n]
    BY <2>1 DEF AsItIs
  <2>4. StampsFollow'
    <3> SUFFICES ASSUME NEW n \in Nets, n # l PROVE InStep(back, n)
      BY <1>7, <2>2, BareInStep DEF StampsFollow
    <3>1. CASE n \in DOMAIN try.saved
      BY <2>1, <3>1 DEF BackAs
    <3>2. CASE n \notin DOMAIN try.saved
      BY <1>4, <2>3, <3>2 DEF InStep
    <3>3. QED
      BY <3>1, <3>2
  <2>5. GoneStayOut'
    <3>1. StillGone' = Gone(board) /\ Gone(board)' = Gone(board)
      BY <1>1, <1>7, <2>1 DEF StillGone, Gone
    <3>2. \A n \in Gone(board) \ {l} : back.nets[n] = board.nets[n]
      BY <1>2, <1>3, <1>4, <2>3, LinksAreNets
    <3>3. GoneAreBare(board, StillGone)'
      BY <1>4, <1>7, <2>2, <3>1, <3>2 DEF GoneAreBare
    <3>4. QED
      BY <1>1, <1>4, <3>1, <3>3 DEF GoneStayOut, Repairing, work
  <2>6. QED
    BY <1>5, <1>7, <2>1, <2>4, <2>5
<1>8. QED
  BY <1>1, <1>6, <1>7

\* TriesDone keeps the invariant.
LEMMA TriesDoneInv ==
    ASSUME Inv, TriesDone PROVE Inv'
<1> USE DEF Inv, TriesDone, GoTo, negotiation
<1>1. removed' \subseteq Nets /\ removed' \cap Gone(board) = {}
  <2>1. \A n \in Gone(board) : board.nets[n].released
    BY DEF GoneStayOut, GoneAreBare, StillGone
  <2>2. QED
    BY <2>1 DEF Sets, GoneStayOut
<1>2. Covered' /\ Scalars' /\ Sets' /\ OfBatch'
  BY <1>1 DEF Covered, Scalars, Sets, OfBatch, Phases, Batching
<1>3. Sound(board)' /\ StampsFollow'
  BY DEF StampsFollow, Behind
<1>4. GoneStayOut'
  BY <1>1 DEF GoneStayOut, StillGone, Repairing
<1>5. TryHolds'
  BY DEF TryHolds
<1>6. QED
  BY <1>2, <1>3, <1>4, <1>5

\* RouteHard keeps the invariant.
LEMMA RouteHardInv ==
    ASSUME Inv, NEW n \in Nets, RouteHard(n) PROVE Inv'
<1> USE DEF Inv, RouteHard, negotiation, repair
<1>1. /\ n \in todo /\ n \notin Gone(board) /\ todo' = todo \ {n}
      /\ (todo' \cup removed') \cap Gone(board) = {}
  BY DEF IsFirst, GoneStayOut
<1>2. Sound(board') /\ OnlyOf({n}, board, board') /\ InStep(board', n)
  <2>1. CASE RouteAlone(n)
    BY <2>1, RouteAloneSound
  <2>2. CASE UNCHANGED board
    BY <2>2 DEF OnlyOf, OfNets, StampsFollow, Behind, InStep
  <2>3. QED
    BY <2>1, <2>2
<1>3. StampsFollow' /\ GoneStayOut'
  BY <1>1, <1>2, OneNetStep DEF Repairing
<1>4. Covered' /\ Scalars' /\ Sets' /\ OfBatch'
  BY <1>1 DEF Covered, Scalars, Sets, OfBatch, Batching
<1>5. TryHolds'
  BY <1>1 DEF TryHolds
<1>6. QED
  BY <1>2, <1>3, <1>4, <1>5

\* RepairDone keeps the invariant.
LEMMA RepairDoneInv ==
    ASSUME Inv, RepairDone PROVE Inv'
<1> USE DEF Inv, RepairDone, GoTo, negotiation, repair
<1>1. Covered' /\ Scalars' /\ Sets' /\ OfBatch'
  BY DEF Covered, Scalars, Sets, OfBatch, Phases, Batching
<1>2. Sound(board)' /\ StampsFollow'
  BY DEF StampsFollow, Behind
<1>3. GoneStayOut'
  BY DEF GoneStayOut, StillGone, Repairing
<1>4. TryHolds'
  BY DEF TryHolds
<1>5. QED
  BY <1>1, <1>2, <1>3, <1>4

\* PassOver keeps the invariant.
LEMMA PassOverInv ==
    ASSUME Inv, NEW n \in Nets, PassOver(n) PROVE Inv'
<1> USE DEF Inv, PassOver, negotiation, repair
<1>1. Covered' /\ Scalars' /\ Sets' /\ OfBatch'
  BY DEF Covered, Scalars, Sets, OfBatch, Phases, Batching
<1>2. Sound(board)' /\ StampsFollow'
  BY DEF StampsFollow, Behind
<1>3. GoneStayOut'
  BY DEF GoneStayOut, StillGone, Repairing
<1>4. TryHolds'
  BY DEF TryHolds
<1>5. QED
  BY <1>1, <1>2, <1>3, <1>4

\* A net a forced connection may still route.
Unblocked(b, n) == [b EXCEPT !.nets[n].blocked = FALSE]

\* It moves no copper.
LEMMA UnblockedSound ==
    ASSUME NEW b, Sound(b), NEW n \in Nets
    PROVE  /\ Sound(Unblocked(b, n)) /\ OnlyOf({n}, b, Unblocked(b, n))
           /\ Unblocked(b, n).occ = b.occ
           /\ Grew(b, Unblocked(b, n), n, b.nets[n].branches)
<1> DEFINE net == [b.nets[n] EXCEPT !.blocked = FALSE]
<1>1. b.nets \in [Nets -> NetStates] /\ b.nets[n] \in NetStates /\ b \in Boards
      /\ Rightful(b, n)
  BY SoundParts
<1>2. /\ net \in NetStates /\ net.branches = b.nets[n].branches /\ net.fixed = b.nets[n].fixed
      /\ net.stamped = b.nets[n].stamped /\ Standing(b.nets[n], net)
  BY <1>1 DEF NetStates, Standing
<1>3. Unblocked(b, n) = With(b, n, net)
  BY <1>1 DEF With, Boards, Unblocked
<1> HIDE DEF net
<1>4. QED
  BY <1>1, <1>2, <1>3, WithSound DEF OnlyOf, Rightful, Grew

\* A net without its stamps routed anew, and stamped.
LEMMA ForcedSound ==
    ASSUME NEW b, Sound(b), NEW n \in Nets,
           NEW branches \in Searches(UnstampAll(b, {n}), n, FALSE)
    PROVE  LET c == Stamp(Unblocked(Routed(UnstampAll(b, {n}), n, branches, FALSE), n), n)
           IN  Sound(c) /\ OnlyOf({n}, b, c) /\ InStep(c, n)
<1> DEFINE bare == UnstampAll(b, {n})
           through == Routed(bare, n, branches, FALSE)
           open == Unblocked(through, n)
           c == Stamp(open, n)
<1>1. Sound(bare) /\ OnlyOf({n}, b, bare)
  BY UnstampAllSound DEF OnlyOf
<1> HIDE DEF bare
<1>2. branches \in Searches(bare, n, FALSE)
  BY DEF bare
<1>3. Sound(through) /\ OnlyOf({n}, bare, through)
  BY <1>1, <1>2, RoutedSound
<1> HIDE DEF through
<1>4. Sound(open) /\ OnlyOf({n}, through, open)
  BY <1>3, UnblockedSound
<1> HIDE DEF open
<1>5. /\ Sound(c) /\ OnlyOf({n}, open, c) /\ InStep(c, n)
  BY <1>4, StampSound DEF InStep, Alike
<1>6. OnlyOf({n}, b, c)
  BY <1>1, <1>3, <1>4, <1>5 DEF OnlyOf, OfNets
<1>7. QED
  BY <1>5, <1>6 DEF open, through, bare

\* ForceConnect keeps the invariant.
LEMMA ForceConnectInv ==
    ASSUME Inv, NEW n \in Nets, ForceConnect(n) PROVE Inv'
<1> USE DEF Inv
<1>1. /\ phase = "force" /\ n \in todo /\ todo' = {} /\ phase' = "displace"
      /\ n \notin Gone(board) /\ todo \subseteq Nets /\ todo \cap Gone(board) = {}
      /\ UNCHANGED <<mode, gives, order, negotiation, left, batch, removed, untried, history>>
  BY DEF ForceConnect, IsFirst, GoTo, GoneStayOut, Sets
<1>2. PICK branches \in Searches(UnstampAll(board, {n}), n, FALSE) :
        LET forced == Stamp(Unblocked(Routed(UnstampAll(board, {n}), n, branches, FALSE), n), n)
        IN  /\ board' = forced
            /\ try' = [NoTry EXCEPT !.net = n, !.saved = Saved(board, {n}),
                                    !.ok = forced.nets[n].complete, !.before = board,
                                    !.rest = todo \ {n}]
  BY DEF ForceConnect, Unblocked
<1>3. Sound(board') /\ OnlyOf({n}, board, board') /\ InStep(board', n)
  BY <1>2, ForcedSound
<1>4. /\ try'.net = n /\ try'.saved = Saved(board, {n}) /\ try'.rest = todo \ {n}
      /\ Whole(try')
  BY <1>2 DEF NoTry, Whole
<1>5. StampsFollow' /\ GoneStayOut' /\ Gone(board)' = Gone(board)
  BY <1>1, <1>3, OneNetStep DEF Repairing, GoneStayOut
<1>6. Covered' /\ Scalars' /\ Sets' /\ OfBatch'
  BY <1>1 DEF Covered, Scalars, Sets, OfBatch, Phases, Batching, negotiation
<1>7. TryHolds'
  <2>1. /\ SavedStates(try'.saved) /\ DOMAIN try'.saved = {n}
        /\ try'.saved[n].given = board.given[n]
    BY <1>4, SavedIsSaved
  <2>2. board'.given = board.given
    BY <1>3 DEF OnlyOf, OfNets
  <2>3. QED
    BY <1>1, <1>4, <1>5, <2>1, <2>2 DEF TryHolds
<1>8. QED
  BY <1>3, <1>5, <1>6, <1>7

\* ForceRound keeps the invariant.
LEMMA ForceRoundInv ==
    ASSUME Inv, ForceRound PROVE Inv'
<1> USE DEF Inv
<1>1. /\ phase = "displace" /\ todo' \subseteq Displaced
      /\ UNCHANGED <<board, mode, gives, phase, order, negotiation, left, batch, removed,
                     untried, history>>
  BY DEF ForceRound
<1>2. /\ try'.net = try.net /\ try'.saved = try.saved /\ try'.rest = try.rest
      /\ Whole(try')
  <2>1. PICK ok, round : try' = [try EXCEPT !.ok = ok, !.round = round]
    BY DEF ForceRound
  <2>2. Whole(try)
    BY DEF TryHolds
  <2>3. QED
    BY <2>1, <2>2 DEF Whole
<1>3. Displaced \subseteq Nets /\ Displaced \cap Gone(board) = {}
  <2>1. \A n \in Gone(board) : ~InConflict(board, n)
    BY <1>1, BareNoConflict DEF GoneStayOut, GoneAreBare, StillGone
  <2>2. QED
    BY <2>1 DEF Displaced, Sets
<1>4. Covered' /\ Scalars' /\ Sets' /\ OfBatch'
  BY <1>1, <1>3 DEF Covered, Scalars, Sets, OfBatch, Phases, Batching, negotiation
<1>5. Sound(board)' /\ StampsFollow'
  BY <1>1 DEF StampsFollow, Behind
<1>6. GoneStayOut'
  BY <1>1, <1>3 DEF GoneStayOut, StillGone, Repairing
<1>7. TryHolds'
  BY <1>1, <1>2 DEF TryHolds
<1>8. QED
  BY <1>4, <1>5, <1>6, <1>7

\* Displace keeps the invariant.
LEMMA DisplaceInv ==
    ASSUME Inv, NEW n \in Nets, Displace(n) PROVE Inv'
<1> USE DEF Inv
<1> DEFINE ripped == RipUpConflicted(board, n)
           involved == DOMAIN try.saved \cup {n}
           saved == [m \in involved |-> IF m \in DOMAIN try.saved THEN try.saved[m]
                                        ELSE AsItIs(board, m)]
<1>1. /\ phase = "displace" /\ n \in todo /\ todo' = todo \ {n} /\ n \notin Gone(board)
      /\ UNCHANGED <<mode, gives, phase, order, negotiation, left, batch, removed, untried,
                     history>>
  BY DEF Displace, IsFirst, GoneStayOut
<1>2. PICK branches \in Searches(ripped, n, FALSE) :
        board' = Stamp(Routed(ripped, n, branches, FALSE), n)
  BY DEF Displace
<1>3. /\ try'.net = try.net /\ try'.saved = saved /\ try'.rest = try.rest
      /\ Whole(try')
  <2>1. try' = [try EXCEPT !.saved = saved]
    BY DEF Displace
  <2>2. Whole(try)
    BY DEF TryHolds
  <2> HIDE DEF saved
  <2>3. QED
    BY <2>1, <2>2 DEF Whole
<1>4. Sound(board') /\ OnlyOf({n}, board, board') /\ InStep(board', n)
  <2>1. Sound(ripped) /\ OnlyOf({n}, board, ripped)
    BY RipUpSound
  <2> HIDE DEF ripped
  <2>2. Sound(board') /\ OnlyOf({n}, ripped, board') /\ InStep(board', n)
    BY <1>2, <2>1, RoutedStampedSound
  <2>3. QED
    BY <2>1, <2>2 DEF OnlyOf, OfNets
<1>5. StampsFollow' /\ GoneStayOut' /\ Gone(board)' = Gone(board)
  BY <1>1, <1>4, OneNetStep DEF Repairing, GoneStayOut
<1>6. Covered' /\ Scalars' /\ Sets' /\ OfBatch'
  BY <1>1 DEF Covered, Scalars, Sets, OfBatch, Phases, Batching, negotiation
<1>7. TryHolds'
  <2>1. AsItIs(board, n).net \in NetStates /\ AsItIs(board, n).given = board.given[n]
        /\ AsItIs(board, n).net = board.nets[n] /\ Rightful(board, n)
    BY SoundParts DEF AsItIs
  <2>2. SavedStates(saved) /\ DOMAIN saved = involved
    BY <1>1, <2>1 DEF SavedStates, TryHolds, Rightful
  <2>3. \A m \in involved : saved[m].given = board.given[m]
    BY <1>1, <2>1 DEF TryHolds
  <2>4. board'.given = board.given
    BY <1>4 DEF OnlyOf, OfNets
  <2>5. involved \cap Gone(board) = {} /\ try.net \in involved
    BY <1>1 DEF TryHolds
  <2> HIDE DEF saved, involved
  <2>6. QED
    BY <1>1, <1>3, <1>5, <2>2, <2>3, <2>4, <2>5 DEF TryHolds
<1>8. QED
  BY <1>4, <1>5, <1>6, <1>7

\* EndForce keeps the invariant.
LEMMA EndForceInv ==
    ASSUME Inv, EndForce PROVE Inv'
<1> USE DEF Inv
<1> DEFINE back == TakeBack(board, try.saved)
<1>1. /\ phase = "displace" /\ todo = {} /\ todo' = try.rest /\ phase' = "force"
      /\ try' = NoTry /\ (board' = board \/ board' = back)
      /\ UNCHANGED <<mode, gives, order, negotiation, left, batch, removed, untried, history>>
  BY DEF EndForce, GoTo
<1>2. /\ SavedStates(try.saved) /\ try.rest \subseteq Nets
      /\ (try.rest \cup DOMAIN try.saved) \cap Gone(board) = {}
      /\ \A n \in DOMAIN try.saved : try.saved[n].given = board.given[n]
  BY <1>1 DEF TryHolds
<1>3. /\ Sound(board') /\ OnlyOf(DOMAIN try.saved, board, board')
      /\ \A n \in DOMAIN try.saved : InStep(board', n)
  <2>1. CASE board' = board
    BY <1>1, <1>2, <2>1 DEF OnlyOf, OfNets, SavedStates, StampsFollow, Behind
  <2>2. CASE board' = back
    <3>1. /\ Sound(back) /\ OnlyOf(DOMAIN try.saved, board, back)
          /\ \A n \in DOMAIN try.saved : CopperAs(board, back, n, try.saved)
      BY <1>2, TakeBackSound
    <3>2. QED
      BY <2>2, <3>1 DEF CopperAs
  <2>3. QED
    BY <1>1, <2>1, <2>2
<1>4. Gone(board)' = Gone(board) /\ Gone(board) \subseteq Nets
  BY <1>3, GoneAreLinks, LinksAreNets, SoundParts DEF Gone, OnlyOf, OfNets
<1>5. StampsFollow'
  <2> SUFFICES ASSUME NEW m \in Nets, m \notin DOMAIN try.saved PROVE InStep(board', m)
    BY <1>3 DEF StampsFollow
  <2>1. InStep(board, m)
    BY <1>1 DEF StampsFollow, Behind
  <2>2. QED
    BY <1>3, <2>1 DEF InStep, OnlyOf
<1>6. GoneStayOut'
  <2>1. StillGone' = Gone(board) /\ StillGone = Gone(board)
    BY <1>1, <1>4 DEF StillGone
  <2>2. GoneAreBare(board, StillGone)'
    BY <1>2, <1>3, <1>4, <2>1 DEF GoneStayOut, GoneAreBare, OnlyOf
  <2>3. QED
    BY <1>1, <1>2, <1>4, <2>1, <2>2 DEF GoneStayOut, Repairing
<1>7. Covered' /\ Scalars' /\ Sets' /\ OfBatch'
  BY <1>1, <1>2 DEF Covered, Scalars, Sets, OfBatch, Phases, Batching, negotiation
<1>8. TryHolds'
  BY <1>1, NoTryIsWhole DEF TryHolds
<1>9. QED
  BY <1>3, <1>5, <1>6, <1>7, <1>8

\* Finish keeps the invariant.
LEMMA FinishInv ==
    ASSUME Inv, Finish PROVE Inv'
<1> USE DEF Inv, Finish, GoTo, negotiation, work, repair
<1>1. Covered' /\ Scalars' /\ Sets' /\ OfBatch'
  BY DEF Covered, Scalars, Sets, OfBatch, Phases, Batching
<1>2. Sound(board)' /\ StampsFollow'
  BY DEF StampsFollow, Behind
<1>3. GoneStayOut'
  BY DEF GoneStayOut, StillGone, Repairing
<1>4. TryHolds'
  BY DEF TryHolds
<1>5. QED
  BY <1>1, <1>2, <1>3, <1>4

\* A step that changes nothing keeps it.
LEMMA StutterInv ==
    ASSUME Inv, UNCHANGED vars PROVE Inv'
<1> USE DEF Inv, vars, negotiation, work, repair, history
<1>1. Covered' /\ Scalars' /\ Sets' /\ OfBatch'
  BY DEF Covered, Scalars, Sets, OfBatch
<1>2. Sound(board)' /\ StampsFollow'
  BY DEF StampsFollow, Behind
<1>3. GoneStayOut'
  BY DEF GoneStayOut, StillGone
<1>4. TryHolds'
  BY DEF TryHolds
<1>5. QED
  BY <1>1, <1>2, <1>3, <1>4

\* Every step keeps it.
LEMMA NextInv ==
    ASSUME Inv, [Next]_vars, Covered' PROVE Inv'
<1>1. CASE Negotiate \/ BeginIteration \/ BeginBatch \/ CutIteration
           \/ EndIteration \/ Resume \/ FinishCut
  BY <1>1, NegotiateInv, BeginIterationInv, BeginBatchInv, CutIterationInv, EndIterationInv,
     ResumeInv, FinishCutInv
<1>2. ASSUME NEW n \in Nets, OfTheBatch(n) PROVE Inv'
  BY <1>2, RipUpNetInv, SearchNetInv, StampNetInv DEF OfTheBatch
<1>3. ASSUME NEW n \in Nets, OfTheRepair(n) PROVE Inv'
  BY <1>3, RipWorstInv, RejoinInv, RouteHardInv, PassOverInv, ForceConnectInv, DisplaceInv
     DEF OfTheRepair
<1>4. ASSUME NEW l \in Links, TryLink(l) PROVE Inv'
  BY <1>4, TryLinkInv
<1>5. CASE RipsDone \/ JudgeTry \/ TriesDone \/ RepairDone \/ ForceRound \/ EndForce \/ Finish
  BY <1>5, RipsDoneInv, JudgeTryInv, TriesDoneInv, RepairDoneInv, ForceRoundInv, EndForceInv,
     FinishInv
<1>6. CASE Done \/ UNCHANGED vars
  BY <1>6, StutterInv DEF Done
<1>7. QED
  BY <1>1, <1>2, <1>3, <1>4, <1>5, <1>6 DEF Next

---------------------------------------------------------------------------
(* The types and the occupancy *)

\* Whether links are given up is the board's, and only a probe is resumed.
LEMMA ModeGoesOn ==
    ASSUME [Next]_vars
    PROVE  gives' = gives /\ (mode' = mode \/ (Resume /\ mode' = "resumed"))
<1>1. CASE Negotiate \/ BeginIteration \/ BeginBatch \/ CutIteration
           \/ EndIteration \/ Resume \/ FinishCut
  BY <1>1 DEF Negotiate, BeginIteration, BeginBatch, CutIteration, CutLeaving, EndIteration,
     Resume, FinishCut
<1>2. ASSUME NEW n \in Nets, OfTheBatch(n) PROVE gives' = gives /\ mode' = mode
  BY <1>2 DEF OfTheBatch, RipUpNet, SearchNet, StampNet
<1>3. ASSUME NEW n \in Nets, OfTheRepair(n) PROVE gives' = gives /\ mode' = mode
  BY <1>3 DEF OfTheRepair, RipWorst, Rejoin, RouteHard, PassOver, ForceConnect, Displace
<1>4. ASSUME NEW l \in Links, TryLink(l) PROVE gives' = gives /\ mode' = mode
  BY <1>4 DEF TryLink
<1>5. CASE RipsDone \/ JudgeTry \/ TriesDone \/ RepairDone \/ ForceRound \/ EndForce \/ Finish
  BY <1>5 DEF RipsDone, JudgeTry, TriesDone, RepairDone, ForceRound, EndForce, Finish
<1>6. CASE Done \/ UNCHANGED vars
  BY <1>6 DEF Done, vars
<1>7. QED
  BY <1>1, <1>2, <1>3, <1>4, <1>5, <1>6 DEF Next

\* What is covered was covered before.
LEMMA CoveredBefore ==
    ASSUME [Next]_vars, Covered' PROVE Covered
  BY ModeGoesOn DEF Covered

\* A run stays a run, and a board without links to give up is one still.
LEMMA StaysCovered ==
    ASSUME [Next]_vars, Inv, mode = "run" \/ ~gives
    PROVE  Covered' /\ (mode = "run" \/ ~gives)'
<1>1. Resume => mode = "probe"
  BY DEF Resume, Inv, Scalars
<1>2. QED
  BY <1>1, ModeGoesOn DEF Covered

\* The invariant holds of every run and probe, of resumed ones without links to give up.
LEMMA InvHolds == Spec => [](Covered => Inv)
<1>1. Init => (Covered => Inv)
  BY InitInv
<1>2. (Covered => Inv) /\ [Next]_vars => (Covered => Inv)'
  BY NextInv, CoveredBefore
<1>3. QED
  BY <1>1, <1>2, PTL DEF Spec

\* It gives the types.
LEMMA InvTypes ==
    ASSUME Inv PROVE TypeOK
<1> USE DEF Inv
<1>1. board.occ \in [Cells -> 0..Cardinality(Nets)]
  <2>1. \A c \in Cells : board.occ[c] \in 0..Cardinality(Nets)
    <3> TAKE c \in Cells
    <3> DEFINE there == {n \in Nets : c \in board.nets[n].stamped}
    <3>1. board.occ[c] = Cardinality(there)
      BY SoundParts DEF Counts
    <3>2. there \subseteq Nets
      OBVIOUS
    <3> HIDE DEF there
    <3>3. Cardinality(there) \in Nat /\ Cardinality(Nets) \in Nat
          /\ Cardinality(there) <= Cardinality(Nets)
      BY <3>2, CopperConstants, FS_Subset, FS_CardinalityType
    <3>4. QED
      BY <3>1, <3>3
  <2>2. board.occ \in [Cells -> Int]
    BY SoundParts
  <2>3. QED
    BY <2>1, <2>2
<1>2. ASSUME NEW n \in Nets
      PROVE  /\ board.nets[n].branches \subseteq Stubs[n] \cup Plan[n][board.given[n]].ways
             /\ board.nets[n].stamped \subseteq Cells /\ board.given[n] \subseteq LinksOf(n)
  BY SoundParts, NetParts DEF Rightful
<1>3. QED
  BY <1>1, <1>2 DEF TypeOK, Scalars, Sets

\* It gives the occupancy.
LEMMA InvOccupancy ==
    ASSUME Inv PROVE OccupancyIsCopper
<1> SUFFICES ASSUME phase \notin {"search", "stamp"}, NEW c \in Cells
             PROVE  board.occ[c]
                      = Cardinality({n \in Nets : c \in Footprint(board.nets[n].branches)})
  BY DEF OccupancyIsCopper
<1>1. \A n \in Nets : board.nets[n].stamped = Footprint(board.nets[n].branches)
  BY DEF Inv, StampsFollow, Behind, InStep
<1>2. {n \in Nets : c \in board.nets[n].stamped}
        = {n \in Nets : c \in Footprint(board.nets[n].branches)}
  BY <1>1
<1>3. board.occ[c] = Cardinality({n \in Nets : c \in board.nets[n].stamped})
  BY SoundParts DEF Inv, Counts
<1>4. QED
  BY <1>2, <1>3

\* The types of the negotiation's state hold in every run and every probe, and after the
\* resume of one whose board has no links to give up (router/negotiate.rs, resolve.rs).
THEOREM NegotiationTypes == Spec => [](mode # "resumed" \/ ~gives => TypeOK)
<1>1. (Covered => Inv) => (mode # "resumed" \/ ~gives => TypeOK)
  BY InvTypes DEF Covered
<1>2. QED
  BY <1>1, InvHolds, PTL

\* The occupancy, changed by differences only, counts the copper there is: through
\* rip-ups, links given up and tried again, and connections forced and taken back.
THEOREM OccupancyFollows == Spec => [](mode # "resumed" \/ ~gives => OccupancyIsCopper)
<1>1. (Covered => Inv) => (mode # "resumed" \/ ~gives => OccupancyIsCopper)
  BY InvOccupancy DEF Covered
<1>2. QED
  BY <1>1, InvHolds, PTL

---------------------------------------------------------------------------
(* A cut iteration goes on *)

\* Each net the iteration is for is searched once, but for some.
SearchedBut(rest) == searched = [n \in Nets |-> IF n \in asked \ rest THEN 1 ELSE 0]
\* The price has grown once for each iteration that ended in conflict.
Agreed(price) == price = Min2(ended, PriceCap)

\* The nets of the batch in hand whose search is to come.
ToSearch == CASE phase = "rip" -> batch [] phase = "search" -> todo [] OTHER -> {}

\* What an iteration has still to search is in the batch, left, or in the cut's rest.
CutInv ==
    /\ ended \in Nat /\ Agreed(present)
    /\ phase = "probed" \/ finishing => Agreed(reached)
    /\ cut # NoCut => phase = "probed" /\ Agreed(cut.present) /\ SearchedBut(cut.left)
                      /\ cut.left \subseteq asked
    /\ phase \in Batching \cup {"batch"} =>
        /\ left \cup batch \subseteq asked /\ left \cap batch = {}
        /\ todo \subseteq batch /\ SearchedBut(left \cup ToSearch)
    /\ phase \notin Batching \cup Repairing => batch = {} /\ todo = {}

\* The price grows with the count.
LEMMA Min2Grown ==
    ASSUME NEW n \in Nat
    PROVE  Grown(Min2(n, PriceCap)) = Min2(n + 1, PriceCap)
  BY NegotiationConstants DEF Grown, Min2

\* It holds before the first iteration.
LEMMA CutInvInit ==
    ASSUME Init PROVE CutInv
  BY NegotiationConstants DEF Init, CutInv, Agreed, Batching, Repairing, Min2

\* The ends of iterations keep it.
LEMMA CutInvEnd ==
    ASSUME CutInv, EndIteration \/ FinishCut PROVE CutInv'
<1> DEFINE end == IterationEnd(board, present)
           settled == end.nets = {}
<1>1. CASE EndIteration
  <2> DEFINE price == IF settled THEN present ELSE Grown(present)
  <2>1. /\ phase = "batch" /\ ~finishing /\ finishing' = finishing /\ cut' = cut
        /\ present' = price /\ ended' = ended + (IF settled THEN 0 ELSE 1)
    BY <1>1 DEF EndIteration
  <2>2. UNCHANGED <<batch, todo>>
    BY <1>1 DEF EndIteration, work
  <2>3. \E stop \in BOOLEAN :
            IF stop \/ settled \/ iteration = MaxIterations
            THEN phase' = Stop /\ reached' = price
            ELSE phase' = "iteration" /\ UNCHANGED reached
    BY <1>1 DEF EndIteration, GoTo
  <2> HIDE DEF settled
  <2>4. price = Min2(ended', PriceCap) /\ ended' \in Nat
    BY <2>1, Min2Grown DEF CutInv, Agreed
  <2> HIDE DEF price
  <2>5. phase' \in {"probed", "resolve", "iteration"} /\ (phase' = "probed" => reached' = price)
    BY <2>3 DEF Stop
  <2>6. cut' = NoCut
    BY <2>1 DEF CutInv
  <2>7. QED
    BY <2>1, <2>2, <2>4, <2>5, <2>6 DEF CutInv, Agreed, Batching, Repairing
<1>2. CASE FinishCut
  <2> DEFINE price == IF settled THEN reached ELSE Grown(present)
  <2>1. /\ phase = "batch" /\ finishing /\ finishing' = FALSE /\ phase' = "negotiate"
        /\ present' = price /\ ended' = ended + (IF settled THEN 0 ELSE 1) /\ cut' = cut
    BY <1>2 DEF FinishCut, GoTo
  <2>2. UNCHANGED <<batch, todo>>
    BY <1>2 DEF FinishCut, work
  <2> HIDE DEF settled
  <2>3. price = Min2(ended', PriceCap) /\ ended' \in Nat
    BY <2>1, Min2Grown DEF CutInv, Agreed
  <2> HIDE DEF price
  <2>4. cut' = NoCut
    BY <2>1 DEF CutInv
  <2>5. QED
    BY <2>1, <2>2, <2>3, <2>4 DEF CutInv, Agreed, Batching, Repairing
<1>3. QED
  BY <1>1, <1>2

\* A batch's steps keep it.
LEMMA CutInvBatch ==
    ASSUME CutInv, NEW n \in Nets, OfTheBatch(n) PROVE CutInv'
<1> USE DEF CutInv
<1>1. n \in todo /\ n \in batch /\ n \in asked /\ n \notin left
      /\ phase \in Batching /\ cut = NoCut
  BY DEF OfTheBatch, RipUpNet, SearchNet, StampNet, NextOfBatch, IsFirst, Batching
<1>2. CASE RipUpNet(n)
  <2>1. /\ phase = "rip" /\ UNCHANGED <<negotiation, left, batch, history>>
        /\ \/ todo' = batch /\ phase' = "search"
           \/ todo' = todo \ {n} /\ phase' = "rip"
    BY <1>2 DEF RipUpNet, NextOfBatch, GoTo
  <2>2. ToSearch' = batch /\ ToSearch = batch
    BY <2>1 DEF ToSearch
  <2>3. SearchedBut(left \cup ToSearch)'
    BY <2>1, <2>2 DEF SearchedBut, history, Batching
  <2>4. QED
    BY <1>1, <2>1, <2>3 DEF negotiation, history, Agreed, Batching, Repairing
<1>3. CASE SearchNet(n)
  <2>1. /\ phase = "search" /\ searched' = [searched EXCEPT ![n] = @ + 1]
        /\ UNCHANGED <<negotiation, left, batch, asked, ended>>
        /\ \/ todo = {n} /\ todo' = batch /\ phase' = "stamp"
           \/ todo' = todo \ {n} /\ phase' = "search"
    BY <1>3 DEF SearchNet, NextOfBatch, GoTo
  <2>2. ToSearch = todo /\ ToSearch' = todo \ {n}
    BY <2>1 DEF ToSearch
  <2>3. SearchedBut(left \cup ToSearch)'
    <3>1. searched = [m \in Nets |-> IF m \in asked \ (left \cup todo) THEN 1 ELSE 0]
      BY <1>1, <2>2 DEF SearchedBut, Batching
    <3>2. searched' = [m \in Nets |-> IF m \in asked \ (left \cup (todo \ {n})) THEN 1 ELSE 0]
      BY <1>1, <2>1, <3>1
    <3>3. QED
      BY <2>1, <2>2, <3>2 DEF SearchedBut
  <2>4. QED
    BY <1>1, <2>1, <2>3 DEF negotiation, Agreed, Batching, Repairing
<1>4. CASE StampNet(n)
  <2>1. /\ phase = "stamp" /\ UNCHANGED <<negotiation, left, history>> /\ todo' = todo \ {n}
        /\ \/ todo = {n} /\ batch' = {} /\ phase' = "batch"
           \/ batch' = batch /\ phase' = "stamp"
    BY <1>4 DEF StampNet, GoTo
  <2>2. ToSearch = {} /\ ToSearch' = {}
    BY <2>1 DEF ToSearch
  <2>3. SearchedBut(left \cup ToSearch)'
    BY <2>1, <2>2 DEF SearchedBut, history, Batching
  <2>4. QED
    BY <1>1, <2>1, <2>3 DEF negotiation, history, Agreed, Batching, Repairing
<1>5. QED
  BY <1>2, <1>3, <1>4 DEF OfTheBatch

\* Every step keeps it.
LEMMA CutInvNext ==
    ASSUME CutInv, [Next]_vars PROVE CutInv'
<1> USE DEF CutInv
<1>1. CASE Negotiate
  BY <1>1 DEF Negotiate, GoTo, Stop, history, work, Agreed, Batching, Repairing, ToSearch,
     NoCut
<1>2. CASE BeginIteration
  <2>1. /\ phase = "iteration" /\ phase' = "batch" /\ left' = pending /\ asked' = pending
        /\ searched' = [n \in Nets |-> 0]
        /\ UNCHANGED <<present, reached, cut, finishing, batch, todo, ended>>
    BY <1>2 DEF BeginIteration, GoTo
  <2>2. QED
    BY <2>1 DEF Agreed, Batching, Repairing, ToSearch, SearchedBut
<1>3. CASE BeginBatch
  <2>1. PICK members \in SUBSET left \ {{}} :
            batch' = members /\ todo' = members /\ left' = left \ members
    BY <1>3 DEF BeginBatch
  <2>2. phase = "batch" /\ phase' = "rip" /\ UNCHANGED <<negotiation, history>>
    BY <1>3 DEF BeginBatch, GoTo
  <2>3. left' \cup ToSearch' = left /\ ToSearch = {}
    BY <2>1, <2>2 DEF ToSearch
  <2>4. SearchedBut(left \cup ToSearch)'
    BY <2>2, <2>3 DEF SearchedBut, history
  <2>5. QED
    BY <2>1, <2>2, <2>4 DEF negotiation, history, Agreed, Batching, Repairing
<1>4. CASE CutIteration
  <2>1. /\ phase = "batch" /\ phase' = "probed" /\ cut' = [left |-> left, present |-> present]
        /\ reached' = present /\ UNCHANGED <<present, asked, searched, ended>>
    BY <1>4 DEF CutIteration, CutLeaving, GoTo, history
  <2>2. ToSearch = {}
    BY <2>1 DEF ToSearch
  <2>3. searched' = [n \in Nets |-> IF n \in asked' \ cut'.left THEN 1 ELSE 0]
    BY <2>1, <2>2 DEF SearchedBut, Batching
  <2>4. cut'.left \subseteq asked' /\ cut'.present = present
    BY <2>1 DEF Batching
  <2>5. batch' = {} /\ todo' = {}
    BY <1>4, <2>1 DEF CutIteration, CutLeaving, Repairing, Batching
  <2>6. QED
    BY <2>1, <2>3, <2>4, <2>5 DEF Agreed, Batching, Repairing, SearchedBut
<1>5. CASE EndIteration \/ FinishCut
  BY <1>5, CutInvEnd
<1>6. CASE Resume
  <2>1. /\ phase = "probed" /\ left' = cut.left /\ cut' = NoCut
        /\ UNCHANGED <<reached, batch, todo, history>>
    BY <1>6 DEF Resume
  <2>2. CASE cut # NoCut
    <3>1. finishing' = TRUE /\ present' = cut.present /\ phase' = "batch"
      BY <1>6, <2>2 DEF Resume, GoTo
    <3>2. ToSearch' = {}
      BY <3>1 DEF ToSearch
    <3>3. QED
      BY <2>1, <2>2, <3>1, <3>2 DEF Agreed, Batching, Repairing, SearchedBut, history
  <2>3. CASE cut = NoCut
    <3>1. finishing' = FALSE /\ present' = reached /\ phase' = "negotiate"
      BY <1>6, <2>3 DEF Resume, GoTo
    <3>2. QED
      BY <2>1, <3>1 DEF Agreed, Batching, Repairing, history
  <2>4. QED
    BY <2>2, <2>3
<1>7. ASSUME NEW n \in Nets, OfTheBatch(n) PROVE CutInv'
  BY <1>7, CutInvBatch
<1>8. ASSUME phase \in Repairing, phase' \in Repairing, UNCHANGED <<negotiation, history>>
      PROVE  CutInv'
  BY <1>8 DEF negotiation, history, Repairing, Batching, Agreed
<1>9. ASSUME NEW n \in Nets, OfTheRepair(n) PROVE CutInv'
  BY <1>8, <1>9 DEF OfTheRepair, RipWorst, Rejoin, RouteHard, PassOver, ForceConnect, Displace,
     Repairing, GoTo
<1>10. ASSUME NEW l \in Links, TryLink(l) PROVE CutInv'
  BY <1>8, <1>10 DEF TryLink, Repairing, GoTo
<1>11. CASE RipsDone \/ JudgeTry \/ TriesDone \/ RepairDone \/ ForceRound \/ EndForce \/ Finish
  BY <1>8, <1>11 DEF RipsDone, JudgeTry, TriesDone, RepairDone, ForceRound, EndForce, Finish,
     Repairing, GoTo
<1>12. CASE Done \/ UNCHANGED vars
  BY <1>12 DEF Done, vars, negotiation, work, history, Agreed, SearchedBut, ToSearch
<1>13. QED
  BY <1>1, <1>2, <1>3, <1>4, <1>5, <1>6, <1>7, <1>9, <1>10, <1>11, <1>12 DEF Next

\* Cut by a probe's limit or not, an iteration searches each net it is for exactly
\* once, at the price grown once for each iteration that ended in conflict: a resumed
\* probe goes on as one that stopped after that iteration (negotiate.rs,
\* finish_cut_iteration).
THEOREM CutsGoOn == Spec => []CutGoesOn
<1>1. Init => CutInv
  BY CutInvInit
<1>2. CutInv /\ [Next]_vars => CutInv'
  BY CutInvNext
<1>3. CutInv => CutGoesOn
  <2> SUFFICES ASSUME CutInv, phase = "batch", left = {}
               PROVE  /\ searched = [n \in Nets |-> IF n \in asked THEN 1 ELSE 0]
                      /\ present = Min2(ended, PriceCap)
    BY DEF CutGoesOn
  <2>1. ToSearch = {} /\ SearchedBut(left \cup ToSearch)
    BY DEF CutInv, ToSearch, Batching
  <2>2. QED
    BY <2>1 DEF CutInv, SearchedBut, Agreed
<1>4. QED
  BY <1>1, <1>2, <1>3, PTL DEF Spec

---------------------------------------------------------------------------
(* All or nothing, and the nets apart *)

\* The nodes of a net's branches that are not fixed; clear of the other nets' zones.
Own(b, n) == Nodes(b.nets[n].branches \ b.nets[n].fixed)
Clear(b, n) == \A m \in Nets \ {n} : \A c \in Own(b, n) : c \notin b.nets[m].stamped

\* The nets that are routed from the start.
OrderClear(b) == \A n \in order : Clear(b, n)

\* What a try saved is what was; the other nets are as they were.
TryKeeps ==
    /\ OrderClear(try.before) /\ \A n \in Nets : InStep(try.before, n)
    /\ \A n \in DOMAIN try.saved : try.saved[n] = AsItIs(try.before, n)
    /\ \A n \in Nets \ DOMAIN try.saved : AsItIs(board, n) = AsItIs(try.before, n)

\* What a forced connection leaves of the nets it saved.
Held(b, c, n) ==
    /\ c.nets[n].fixed = b.nets[n].fixed /\ c.nets[n].released = b.nets[n].released
    /\ c.given[n] = b.given[n]
    /\ c.nets[n].branches \cap c.nets[n].fixed \subseteq b.nets[n].branches

\* The repair's invariant: the nets ripped up are clear of the others, then all are but
\* while a connection is forced.
RepairHolds ==
    /\ phase = "resolve" => \A n \in removed : Clear(board, n)
    /\ phase \in {"tries", "rejoin", "hard", "force", "done"} => OrderClear(board)
    /\ phase \in {"rejoin", "displace"} => TryKeeps
    /\ phase = "rejoin" => \A n \in DOMAIN try.saved : Clear(board, n)
    /\ phase = "displace" => \A n \in DOMAIN try.saved : Held(try.before, board, n)

\* What a net's own search sees of a cell, and its conflicts, are the others' stamps.
LEMMA OthersThere ==
    ASSUME NEW b, Sound(b), NEW n \in Nets, NEW c \in Cells
    PROVE  /\ Seen(b, n, c) <= 0 <=> \A m \in Nets \ {n} : c \notin b.nets[m].stamped
           /\ c \in b.nets[n].stamped =>
                (b.occ[c] > 1 <=> \E m \in Nets \ {n} : c \in b.nets[m].stamped)
<1> DEFINE others == {m \in Nets \ {n} : c \in b.nets[m].stamped}
           all == {m \in Nets : c \in b.nets[m].stamped}
<1>1. b.occ[c] = Cardinality(all)
  BY SoundParts DEF Counts
<1>2. others = {} <=> \A m \in Nets \ {n} : c \notin b.nets[m].stamped
  OBVIOUS
<1>3. IF c \in b.nets[n].stamped THEN all = others \cup {n} ELSE all = others
  OBVIOUS
<1>4. n \notin others /\ others \subseteq Nets
  OBVIOUS
<1> HIDE DEF others, all
<1>5. IsFiniteSet(others)
  BY <1>4, CopperConstants, FS_Subset
<1>6. /\ Cardinality(others) \in Nat /\ (Cardinality(others) = 0 <=> others = {})
      /\ Cardinality(others \cup {n}) = Cardinality(others) + 1
  BY <1>4, <1>5, FS_CardinalityType, FS_EmptySet, FS_AddElement
<1>7. CASE c \in b.nets[n].stamped
  <2>1. b.occ[c] = Cardinality(others) + 1
    BY <1>1, <1>3, <1>6, <1>7
  <2>2. Seen(b, n, c) = Cardinality(others)
    BY <1>6, <1>7, <2>1 DEF Seen
  <2>3. Seen(b, n, c) <= 0 <=> others = {}
    BY <1>6, <2>2
  <2>4. b.occ[c] > 1 <=> others # {}
    BY <1>6, <2>1
  <2>5. QED
    BY <1>2, <2>3, <2>4
<1>8. CASE c \notin b.nets[n].stamped
  <2>1. Seen(b, n, c) = Cardinality(others)
    BY <1>1, <1>3, <1>6, <1>8 DEF Seen
  <2>2. Seen(b, n, c) <= 0 <=> others = {}
    BY <1>6, <2>1
  <2>3. QED
    BY <1>2, <1>8, <2>2
<1>9. QED
  BY <1>7, <1>8

\* The nodes of a net's copper are its own to stamp.
LEMMA OwnType ==
    ASSUME NEW b, Sound(b), NEW n \in Nets
    PROVE  /\ Own(b, n) \subseteq Nodes(b.nets[n].branches)
           /\ Nodes(b.nets[n].branches) \subseteq Cells
           /\ Nodes(b.nets[n].branches) \subseteq Footprint(b.nets[n].branches)
           /\ Footprint(b.nets[n].branches) \subseteq Cells
<1>1. b.nets[n].branches \in SUBSET Branch
  BY SoundParts, NetParts
<1>2. Nodes(b.nets[n].branches) \subseteq Cells /\ Footprint(b.nets[n].branches) \subseteq Cells
  BY <1>1, FootprintType
<1>3. \A c \in Cells : c \in Zone[c]
  BY CopperConstants
<1>4. Own(b, n) \subseteq Nodes(b.nets[n].branches)
  BY DEF Own, Nodes
<1>5. QED
  BY <1>2, <1>3, <1>4 DEF Footprint

\* A net is clear of the others when it is in no conflict.
LEMMA ClearIsNoConflict ==
    ASSUME NEW b, Sound(b), NEW n \in Nets, InStep(b, n)
    PROVE  Clear(b, n) <=> ~InConflict(b, n)
<1>1. \A c \in Own(b, n) : c \in Cells /\ c \in b.nets[n].stamped
  BY OwnType DEF InStep
<1>2. InConflict(b, n) <=> \E c \in Own(b, n) : b.occ[c] > 1
  BY DEF InConflict, Conflicts, Hits, Own, Nodes
<1>3. \A c \in Own(b, n) : b.occ[c] > 1 <=> \E m \in Nets \ {n} : c \in b.nets[m].stamped
  BY <1>1, OthersThere
<1>4. QED
  BY <1>2, <1>3 DEF Clear

\* A net whose branches stay is as clear as before where the others' stamps are no more.
LEMMA StillClear ==
    ASSUME NEW b, NEW c, NEW n \in Nets,
           c.nets[n].branches = b.nets[n].branches, c.nets[n].fixed = b.nets[n].fixed,
           \A m \in Nets \ {n} : c.nets[m].stamped \subseteq b.nets[m].stamped
    PROVE  Clear(b, n) => Clear(c, n)
<1>1. Own(c, n) = Own(b, n)
  BY DEF Own
<1>2. QED
  BY <1>1 DEF Clear

\* A bare net is clear.
LEMMA BareIsClear ==
    ASSUME NEW b, NEW n, Bare(b.nets[n]) PROVE Clear(b, n)
  BY NoCopper DEF Bare, Own, Nodes, Clear

\* Zones are symmetric.
LEMMA ZonesMeet ==
    ASSUME NEW b, Sound(b), NEW n \in Nets, NEW c \in Cells,
           c \in Footprint(b.nets[n].branches)
    PROVE  \E branch \in b.nets[n].branches : \E d \in branch.nodes :
                d \in Cells /\ d \in Zone[c] /\ c \in Zone[d]
<1>1. PICK d \in Nodes(b.nets[n].branches) : c \in Zone[d]
  BY DEF Footprint
<1>2. d \in Cells
  BY <1>1, OwnType
<1>3. d \in Zone[c]
  BY <1>1, <1>2, CopperConstants
<1>4. QED
  BY <1>1, <1>2, <1>3 DEF Nodes

\* A search through no other net's copper leaves each net as clear as it was.
LEMMA HardClear ==
    ASSUME NEW b, Sound(b), NEW n \in Nets, NEW branches \in Searches(b, n, TRUE),
           \A m \in Nets : InStep(b, m), NEW m \in Nets, Clear(b, m)
    PROVE  Clear(Stamp(Routed(b, n, branches, TRUE), n), m)
<1> DEFINE c == Stamp(Routed(b, n, branches, TRUE), n)
<1>1. Sound(c) /\ OnlyOf({n}, b, c) /\ Grew(b, c, n, branches) /\ InStep(c, n)
  BY RoutedStampedSound
<1> HIDE DEF c
<1>2. c.nets[n].branches = branches /\ c.nets[n].fixed = b.nets[n].fixed
      /\ \A k \in Nets \ {n} : c.nets[k] = b.nets[k]
  BY <1>1 DEF Grew, OnlyOf
<1>3. \A way \in branches \ b.nets[n].branches : \A d \in way.nodes :
        d \in Cells => \A k \in Nets \ {n} : d \notin b.nets[k].stamped
  <2>1. \A way \in branches \ b.nets[n].branches : \A d \in way.nodes : Seen(b, n, d) <= 0
    BY SearchesGive DEF Passable
  <2>2. QED
    BY <2>1, OthersThere
<1>4. CASE m = n
  <2> SUFFICES ASSUME NEW d \in Own(c, n), NEW k \in Nets \ {n}
               PROVE  d \notin c.nets[k].stamped
    BY <1>4 DEF Clear, c
  <2>1. PICK way \in branches \ b.nets[n].fixed : d \in way.nodes
    BY <1>2 DEF Own, Nodes
  <2>2. CASE way \in b.nets[n].branches
    <3>1. d \in Own(b, n)
      BY <2>1, <2>2 DEF Own, Nodes
    <3>2. QED
      BY <1>2, <1>4, <3>1 DEF Clear
  <2>3. CASE way \notin b.nets[n].branches
    <3>1. d \in Cells
      BY <1>1, <1>2, <2>1, OwnType DEF Nodes
    <3>2. QED
      BY <1>2, <1>3, <2>1, <2>3, <3>1
  <2>4. QED
    BY <2>2, <2>3
<1>5. CASE m # n
  <2>1. Own(c, m) = Own(b, m)
    BY <1>2, <1>5 DEF Own
  <2> SUFFICES ASSUME NEW d \in Own(b, m), d \in c.nets[n].stamped
               PROVE  FALSE
    BY <1>2, <1>5, <2>1 DEF Clear, c
  <2>2. d \in Cells /\ d \in Nodes(b.nets[m].branches)
    BY OwnType
  <2>3. d \in Footprint(c.nets[n].branches)
    BY <1>1 DEF InStep
  <2>4. PICK way \in branches : \E e \in way.nodes : e \in Cells /\ e \in Zone[d] /\ d \in Zone[e]
    BY <1>1, <1>2, <2>2, <2>3, ZonesMeet
  <2>5. PICK e \in way.nodes : e \in Cells /\ e \in Zone[d] /\ d \in Zone[e]
    BY <2>4
  <2>6. CASE way \in b.nets[n].branches
    <3>1. d \in b.nets[n].stamped
      BY <2>5, <2>6 DEF InStep, Footprint, Nodes
    <3>2. QED
      BY <1>5, <3>1 DEF Clear
  <2>7. CASE way \notin b.nets[n].branches
    <3>1. e \in b.nets[m].stamped
      BY <2>2, <2>5 DEF InStep, Footprint
    <3>2. QED
      BY <1>3, <1>5, <2>4, <2>5, <2>7, <3>1
  <2>8. QED
    BY <2>6, <2>7
<1>6. QED
  BY <1>4, <1>5 DEF c

\* A rip-up leaves its net clear, and the others as clear as they were.
LEMMA RipUpClear ==
    ASSUME NEW b, Sound(b), NEW n \in Nets, InStep(b, n)
    PROVE  /\ Clear(RipUpConflicted(b, n), n)
           /\ \A m \in Nets : Clear(b, m) => Clear(RipUpConflicted(b, n), m)
<1> DEFINE c == RipUpConflicted(b, n)
<1>1. /\ Sound(c) /\ OnlyOf({n}, b, c) /\ c.nets[n].branches = Kept(b, n)
      /\ c.nets[n].stamped = Footprint(Kept(b, n)) /\ c.nets[n].fixed = b.nets[n].fixed
  BY RipUpSound
<1> HIDE DEF c
<1>2. \A k \in Nets \ {n} : c.nets[k] = b.nets[k]
  BY <1>1 DEF OnlyOf
<1>3. Kept(b, n) \subseteq b.nets[n].branches
      /\ \A branch \in Kept(b, n) \ b.nets[n].fixed : Hits(b, branch) = {}
  BY KeptOf
<1>4. Clear(c, n)
  <2> SUFFICES ASSUME NEW d \in Own(c, n), NEW k \in Nets \ {n} PROVE d \notin b.nets[k].stamped
    BY <1>2 DEF Clear
  <2>1. PICK branch \in Kept(b, n) \ b.nets[n].fixed : d \in branch.nodes
    BY <1>1 DEF Own, Nodes
  <2>2. ~(b.occ[d] > 1)
    BY <1>3, <2>1 DEF Hits
  <2>3. d \in Nodes(b.nets[n].branches)
    BY <1>3, <2>1 DEF Nodes
  <2>4. d \in Cells /\ d \in b.nets[n].stamped
    BY <2>3, OwnType DEF InStep
  <2>5. QED
    BY <2>2, <2>4, OthersThere
<1>5. ASSUME NEW m \in Nets \ {n}, Clear(b, m) PROVE Clear(c, m)
  <2>1. c.nets[n].stamped \subseteq b.nets[n].stamped
    BY <1>1, <1>3 DEF InStep, Footprint, Nodes
  <2>2. QED
    BY <1>2, <1>5, <2>1, StillClear
<1>6. QED
  BY <1>4, <1>5 DEF c

\* In the repair every net's stamps follow its copper.
LEMMA AllInStep ==
    ASSUME Inv, phase \in Repairing PROVE Sound(board) /\ \A n \in Nets : InStep(board, n)
  BY DEF Inv, StampsFollow, Behind, Repairing

\* Routed where no other's copper is, a net leaves all as clear as they were.
LEMMA AloneClear ==
    ASSUME Inv, phase \in Repairing, NEW n \in Nets, RouteAlone(n)
    PROVE  /\ \A m \in Nets : Clear(board, m) => Clear(board', m)
           /\ OnlyOf({n}, board, board')
<1>1. PICK branches \in Searches(board, n, TRUE) :
        board' = Stamp(Routed(board, n, branches, TRUE), n)
  BY DEF RouteAlone
<1> DEFINE c == Stamp(Routed(board, n, branches, TRUE), n)
<1>2. \A m \in Nets : Clear(board, m) => Clear(c, m)
  BY AllInStep, HardClear
<1>3. OnlyOf({n}, board, board')
  BY AllInStep, RouteAloneSound
<1>4. board' = c
  BY <1>1
<1> HIDE DEF c
<1>5. QED
  BY <1>2, <1>3, <1>4

\* Other steps of the repair: the board stays, and so does what a try kept.
LEMMA StillBoardRepair ==
    ASSUME RepairHolds, Inv,
           phase \notin {"resolve", "displace", "rejoin"} \/ phase' = phase,
           phase \in Repairing, phase' \in Repairing \ {"resolve", "rejoin", "displace"}
               \/ phase' = phase,
           UNCHANGED <<board, order>>, phase = "resolve" => UNCHANGED removed,
           try'.saved = try.saved, try'.before = try.before
    PROVE  RepairHolds'
<1>1. OrderClear(board)' = OrderClear(board)
  BY DEF OrderClear, Clear, Own
<1>2. TryKeeps => TryKeeps'
  BY DEF TryKeeps, OrderClear
<1>3. QED
  BY <1>1, <1>2 DEF RepairHolds, Repairing

\* The steps before the repair.
LEMMA BeforeRepair ==
    ASSUME Inv, phase \notin Repairing, phase' \notin Repairing \/ phase' = "resolve",
           UNCHANGED removed
    PROVE  RepairHolds'
<1>1. removed' = {}
  BY DEF Inv, GoneStayOut
<1>2. QED
  BY <1>1 DEF RepairHolds, Repairing

\* RipWorst keeps what the repair holds.
LEMMA RipWorstRepair ==
    ASSUME RepairHolds, Inv, NEW n \in Nets, RipWorst(n) PROVE RepairHolds'
<1> DEFINE c == Unstuck(board, n)
           e == RipUpConflicted(c, n)
<1>1. phase = "resolve" /\ phase' = phase /\ removed' = removed \cup {n} /\ board' = e
  BY DEF RipWorst, Unstuck
<1>2. Sound(board) /\ \A m \in Nets : InStep(board, m)
  BY <1>1, AllInStep DEF Repairing
<1>3. /\ Sound(c) /\ OnlyOf({n}, board, c) /\ c.nets[n].branches = board.nets[n].branches
      /\ c.nets[n].fixed = board.nets[n].fixed /\ c.nets[n].stamped = board.nets[n].stamped
  BY <1>2, UnstuckSound
<1> HIDE DEF c
<1>4. \A m \in Nets : /\ c.nets[m].branches = board.nets[m].branches
                      /\ c.nets[m].fixed = board.nets[m].fixed
                      /\ c.nets[m].stamped = board.nets[m].stamped
  BY <1>3 DEF OnlyOf
<1>5. \A m \in Nets : Clear(board, m) => Clear(c, m)
  BY <1>4, StillClear
<1>6. InStep(c, n)
  BY <1>2, <1>4 DEF InStep
<1>7. Clear(e, n) /\ \A m \in Nets : Clear(c, m) => Clear(e, m)
  BY <1>3, <1>6, RipUpClear
<1> HIDE DEF e
<1>8. removed \subseteq Nets
  BY DEF Inv, Sets
<1>9. QED
  BY <1>1, <1>5, <1>7, <1>8 DEF RepairHolds

\* RipsDone keeps it: no net is in conflict.
LEMMA RipsDoneRepair ==
    ASSUME RepairHolds, Inv, RipsDone PROVE RepairHolds'
<1>1. phase = "resolve" /\ phase' = "tries" /\ Contested = {} /\ UNCHANGED <<board, order>>
  BY DEF RipsDone, GoTo
<1>2. Sound(board) /\ \A n \in Nets : InStep(board, n)
  BY <1>1, AllInStep DEF Repairing
<1>3. ASSUME NEW n \in order PROVE Clear(board, n)
  <2>1. n \in Nets
    BY DEF Inv, Sets
  <2>2. CASE n \in removed
    BY <1>1, <2>2 DEF RepairHolds
  <2>3. CASE n \notin removed
    <3>1. ~InConflict(board, n)
      BY <1>1, <2>3 DEF Contested
    <3>2. QED
      BY <1>2, <2>1, <3>1, ClearIsNoConflict
  <2>4. QED
    BY <2>2, <2>3
<1>4. OrderClear(board)'
  BY <1>1, <1>3 DEF OrderClear
<1>5. QED
  BY <1>1, <1>4 DEF RepairHolds

\* TryLink keeps it.
LEMMA TryLinkRepair ==
    ASSUME RepairHolds, Inv, NEW l \in Links, TryLink(l) PROVE RepairHolds'
<1> DEFINE nets == StandsFor[l]
           fresh == Fresh(board, l, Gone(board) \ {l})
<1>1. phase = "tries" /\ l \in untried /\ phase' = "rejoin" /\ order' = order
  BY DEF TryLink, GoTo
<1>2. PICK branches \in Searches(fresh, l, TRUE) :
        LET with == Stamp(Routed(fresh, l, branches, TRUE), l)
        IN  /\ board' = with
            /\ try' = [NoTry EXCEPT !.net = l, !.saved = Saved(board, nets \cup {l}),
                                    !.before = board]
  BY DEF TryLink, Fresh
<1>3. l \in Nets /\ nets \subseteq Nets /\ Bare(board.nets[l])
  BY <1>1, CopperConstants DEF Inv, GoneStayOut, GoneAreBare, StillGone
<1>4. Sound(board) /\ \A n \in Nets : InStep(board, n)
  BY <1>1, AllInStep DEF Repairing
<1>5. /\ Sound(fresh)
      /\ \A n \in Nets \ (nets \cup {l}) :
            fresh.nets[n] = board.nets[n] /\ fresh.given[n] = board.given[n]
      /\ \A n \in nets \cup {l} : Bare(fresh.nets[n])
  BY <1>3, <1>4, FreshSound
<1> HIDE DEF nets, fresh
<1>6. \A n \in Nets : InStep(fresh, n)
  BY <1>4, <1>5, BareInStep DEF InStep
<1>7. \A n \in nets \cup {l} : Clear(fresh, n)
  BY <1>5, BareIsClear
<1>8. ASSUME NEW n \in Nets \ (nets \cup {l}), Clear(board, n) PROVE Clear(fresh, n)
  <2>1. fresh.nets[n] = board.nets[n]
    BY <1>5
  <2>2. \A m \in Nets \ {n} : fresh.nets[m].stamped \subseteq board.nets[m].stamped
    BY <1>5 DEF Bare
  <2>3. QED
    BY <1>8, <2>1, <2>2, StillClear
<1> DEFINE c == Stamp(Routed(fresh, l, branches, TRUE), l)
<1>9. OnlyOf({l}, fresh, c) /\ \A n \in Nets : Clear(fresh, n) => Clear(c, n)
  BY <1>3, <1>5, <1>6, RoutedStampedSound, HardClear
<1>10. board' = c /\ try'.saved = Saved(board, nets \cup {l}) /\ try'.before = board
  BY <1>2 DEF NoTry
<1> HIDE DEF c
<1>11. OrderClear(board)
  BY <1>1 DEF RepairHolds
<1>12. OrderClear(board)'
  <2>1. order \subseteq Nets
    BY DEF Inv, Sets
  <2>2. QED
    BY <1>1, <1>7, <1>8, <1>9, <1>10, <1>11, <2>1 DEF OrderClear
<1>13. \A n \in nets \cup {l} : Clear(board', n)
  BY <1>3, <1>7, <1>9, <1>10
<1>14. DOMAIN try'.saved = nets \cup {l}
       /\ \A n \in nets \cup {l} : try'.saved[n] = AsItIs(board, n)
  BY <1>10 DEF Saved
<1>15. \A n \in Nets \ (nets \cup {l}) : AsItIs(board', n) = AsItIs(board, n)
  BY <1>5, <1>9, <1>10 DEF AsItIs, OnlyOf, OfNets
<1>16. TryKeeps'
  BY <1>1, <1>4, <1>10, <1>11, <1>14, <1>15 DEF TryKeeps, OrderClear
<1>17. QED
  BY <1>1, <1>12, <1>13, <1>14, <1>16 DEF RepairHolds

\* Rejoin keeps it.
LEMMA RejoinRepair ==
    ASSUME RepairHolds, Inv, NEW n \in Nets, Rejoin(n) PROVE RepairHolds'
<1>1. /\ phase = "rejoin" /\ phase' = phase /\ order' = order /\ try' = try /\ n \in todo
      /\ RouteAlone(n)
  BY DEF Rejoin, repair, IsFirst
<1>2. OnlyOf({n}, board, board') /\ \A m \in Nets : Clear(board, m) => Clear(board', m)
  BY <1>1, AloneClear DEF Repairing
<1>3. n \in DOMAIN try.saved /\ DOMAIN try.saved \subseteq Nets /\ order \subseteq Nets
  BY <1>1 DEF Inv, TryHolds, SavedStates, Sets
<1>4. \A m \in Nets \ {n} : AsItIs(board', m) = AsItIs(board, m)
  BY <1>2 DEF AsItIs, OnlyOf, OfNets
<1>5. OrderClear(board)' /\ \A m \in DOMAIN try.saved : Clear(board', m)
  BY <1>1, <1>2, <1>3 DEF RepairHolds, OrderClear
<1>6. TryKeeps'
  BY <1>1, <1>3, <1>4 DEF RepairHolds, TryKeeps, OrderClear
<1>7. QED
  BY <1>1, <1>5, <1>6 DEF RepairHolds

\* RouteHard keeps it.
LEMMA RouteHardRepair ==
    ASSUME RepairHolds, Inv, NEW n \in Nets, RouteHard(n) PROVE RepairHolds'
<1>1. /\ phase = "hard" /\ phase' = phase /\ order' = order
      /\ RouteAlone(n) \/ board' = board
  BY DEF RouteHard
<1>2. \A m \in Nets : Clear(board, m) => Clear(board', m)
  BY <1>1, AloneClear DEF Repairing
<1>3. OrderClear(board)'
  BY <1>1, <1>2 DEF RepairHolds, OrderClear, Inv, Sets
<1>4. QED
  BY <1>1, <1>3 DEF RepairHolds

\* The board has the copper a try found: the same branches, stamps and terminals.
AsBefore(b, c, n) ==
    /\ c.nets[n].branches = b.nets[n].branches /\ c.nets[n].fixed = b.nets[n].fixed
    /\ c.nets[n].complete = b.nets[n].complete /\ c.nets[n].released = b.nets[n].released
    /\ c.given[n] = b.given[n] /\ InStep(c, n)

\* Its nets are clear where they were, and the copper is the same.
LEMMA AsBeforeClear ==
    ASSUME NEW b, NEW c, \A n \in Nets : AsBefore(b, c, n), \A n \in Nets : InStep(b, n)
    PROVE  /\ \A n \in Nets : Clear(b, n) => Clear(c, n)
           /\ CopperOf(c) = CopperOf(b)
<1>1. \A n \in Nets : c.nets[n].stamped = b.nets[n].stamped
  BY DEF AsBefore, InStep
<1>2. \A n \in Nets : c.nets[n].branches = b.nets[n].branches
                      /\ c.nets[n].fixed = b.nets[n].fixed
  BY DEF AsBefore
<1>3. ASSUME NEW n \in Nets PROVE Clear(b, n) => Clear(c, n)
  BY <1>1, <1>2, StillClear
<1>4. CopperOf(c) = CopperOf(b)
  BY DEF CopperOf, AsBefore
<1>5. QED
  BY <1>3, <1>4

\* A failed try leaves the copper it found.
LEMMA PutBackAsBefore ==
    ASSUME Inv, RepairHolds, phase = "rejoin"
    PROVE  \A n \in Nets : AsBefore(try.before, PutBack(board, try.saved, try.net), n)
<1> DEFINE c == PutBack(board, try.saved, try.net)
<1>1. /\ SavedStates(try.saved) /\ try.net \in Nets /\ try.net \in DOMAIN try.saved
      /\ Bare(try.saved[try.net].net)
  BY LinksAreNets DEF Inv, TryHolds
<1>2. TryKeeps
  BY DEF RepairHolds
<1>3. /\ \A n \in Nets \ DOMAIN try.saved : AsItIs(c, n) = AsItIs(board, n)
      /\ \A n \in DOMAIN try.saved : BackAs(c, n, try.saved, try.net)
  BY <1>1, PutBackSound DEF Inv
<1> HIDE DEF c
<1>4. ASSUME NEW n \in Nets \ DOMAIN try.saved PROVE AsBefore(try.before, c, n)
  <2>1. AsItIs(c, n) = AsItIs(try.before, n) /\ InStep(try.before, n)
    BY <1>2, <1>3 DEF TryKeeps
  <2>2. c.nets[n] = try.before.nets[n] /\ c.given[n] = try.before.given[n]
    BY <2>1 DEF AsItIs
  <2>3. QED
    BY <2>1, <2>2 DEF AsBefore, InStep
<1>5. ASSUME NEW n \in DOMAIN try.saved PROVE AsBefore(try.before, c, n)
  <2>1. /\ try.saved[n].net = try.before.nets[n] /\ try.saved[n].given = try.before.given[n]
    <3>1. try.saved[n] = AsItIs(try.before, n)
      BY <1>2 DEF TryKeeps
    <3>2. QED
      BY <3>1 DEF AsItIs
  <2>2. BackAs(c, n, try.saved, try.net)
    BY <1>3
  <2>3. InStep(c, n)
    BY <1>1, <2>2, NoCopper DEF BackAs, InStep, Bare
  <2>4. QED
    BY <2>1, <2>2, <2>3 DEF BackAs, AsBefore
<1>6. QED
  BY <1>4, <1>5 DEF c

\* What a judged try leaves: its nets complete and out of conflict, or what it found;
\* and the nets apart.
LEMMA JudgedTry ==
    ASSUME RepairHolds, Inv, JudgeTry
    PROVE  /\ RepairHolds'
           /\ \/ \A n \in DOMAIN try.saved : board'.nets[n].complete /\ ~InConflict(board', n)
              \/ CopperOf(board') = CopperOf(try.before)
<1> DEFINE kept == [board EXCEPT !.gone = {e \in @ : e.net # try.net}]
           back == PutBack(board, try.saved, try.net)
<1>1. /\ phase = "rejoin" /\ phase' = "tries" /\ order' = order
      /\ \/ TryStands /\ board' = kept
         \/ board' = back
  BY DEF JudgeTry, GoTo
<1>2. /\ Sound(board) /\ (\A n \in Nets : InStep(board, n)) /\ order \subseteq Nets
      /\ DOMAIN try.saved \subseteq Nets
  BY <1>1, AllInStep DEF Repairing, Inv, Sets, TryHolds, SavedStates
<1>3. /\ OrderClear(board) /\ TryKeeps /\ \A n \in DOMAIN try.saved : Clear(board, n)
  BY <1>1 DEF RepairHolds
<1>4. CASE TryStands /\ board' = kept
  <2>1. kept.nets = board.nets /\ kept.occ = board.occ
    BY <1>2, SoundParts DEF Boards
  <2> HIDE DEF kept
  <2>2. \A n \in Nets : (Clear(board', n) <=> Clear(board, n))
                        /\ (InConflict(board', n) <=> InConflict(board, n))
    BY <1>4, <2>1 DEF Clear, Own, InConflict, Conflicts, Hits
  <2>3. OrderClear(board)'
    BY <1>1, <1>2, <1>3, <2>2 DEF OrderClear
  <2>4. ASSUME NEW n \in DOMAIN try.saved
        PROVE  board'.nets[n].complete /\ ~InConflict(board', n)
    <3>1. ~InConflict(board, n)
      BY <1>2, <1>3, ClearIsNoConflict
    <3>2. QED
      BY <1>2, <1>4, <2>1, <2>2, <3>1 DEF TryStands
  <2>5. QED
    BY <1>1, <2>3, <2>4 DEF RepairHolds
<1>5. CASE board' = back
  <2>1. \A n \in Nets : AsBefore(try.before, back, n)
    BY <1>1, PutBackAsBefore
  <2> HIDE DEF back
  <2>2. OrderClear(try.before) /\ \A n \in Nets : InStep(try.before, n)
    BY <1>3 DEF TryKeeps
  <2>3. /\ \A n \in Nets : Clear(try.before, n) => Clear(back, n)
        /\ CopperOf(back) = CopperOf(try.before)
    BY <2>1, <2>2, AsBeforeClear
  <2>4. OrderClear(board)'
    BY <1>1, <1>2, <1>5, <2>2, <2>3 DEF OrderClear
  <2>5. QED
    BY <1>1, <1>5, <2>3, <2>4 DEF RepairHolds
<1>6. QED
  BY <1>1, <1>4, <1>5

\* A search adds no fixed branch, and a rip-up keeps branches there were.
LEMMA SearchesHold ==
    ASSUME NEW b, NEW n \in Nets, NEW hard \in BOOLEAN, NEW branches \in Searches(b, n, hard)
    PROVE  branches \cap b.nets[n].fixed \subseteq b.nets[n].branches
  BY DEF Searches

\* ForceConnect keeps it.
LEMMA ForceConnectRepair ==
    ASSUME RepairHolds, Inv, NEW n \in Nets, ForceConnect(n) PROVE RepairHolds'
<1> DEFINE bare == UnstampAll(board, {n})
<1>1. phase = "force" /\ phase' = "displace" /\ order' = order
  BY DEF ForceConnect, GoTo
<1>2. PICK branches \in Searches(bare, n, FALSE) :
        LET forced == Stamp(Unblocked(Routed(bare, n, branches, FALSE), n), n)
        IN  /\ board' = forced
            /\ try' = [NoTry EXCEPT !.net = n, !.saved = Saved(board, {n}),
                                    !.ok = forced.nets[n].complete, !.before = board,
                                    !.rest = todo \ {n}]
  BY DEF ForceConnect, Unblocked
<1>3. Sound(board) /\ OrderClear(board) /\ \A m \in Nets : InStep(board, m)
  BY <1>1, AllInStep DEF Repairing, RepairHolds
<1>4. /\ Sound(bare) /\ OnlyOf({n}, board, bare) /\ Alike(board.nets[n], bare.nets[n])
  BY <1>3, UnstampAllSound DEF OnlyOf
<1> HIDE DEF bare
<1> DEFINE through == Routed(bare, n, branches, FALSE)
           open == Unblocked(through, n)
           c == Stamp(open, n)
<1>5. Sound(through) /\ OnlyOf({n}, bare, through) /\ Grew(bare, through, n, branches)
  BY <1>4, RoutedSound
<1> HIDE DEF through
<1>6. Sound(open) /\ OnlyOf({n}, through, open)
      /\ Grew(through, open, n, through.nets[n].branches)
  BY <1>5, UnblockedSound
<1> HIDE DEF open
<1>7. OnlyOf({n}, open, c) /\ Alike(open.nets[n], c.nets[n])
  BY <1>6, StampSound
<1>8. board' = c /\ try'.saved = Saved(board, {n}) /\ try'.before = board
  BY <1>2 DEF NoTry, c, open, through
<1> HIDE DEF c
<1>9. OnlyOf({n}, board, c)
  BY <1>4, <1>5, <1>6, <1>7 DEF OnlyOf, OfNets
<1>10. /\ c.nets[n].branches = branches /\ c.nets[n].fixed = board.nets[n].fixed
       /\ c.nets[n].released = board.nets[n].released
  BY <1>4, <1>5, <1>6, <1>7 DEF Grew, Alike, Standing
<1>11. branches \cap board.nets[n].fixed \subseteq board.nets[n].branches
  BY <1>4, SearchesHold DEF Alike
<1>12. Held(board, c, n)
  BY <1>9, <1>10, <1>11 DEF Held, OnlyOf, OfNets
<1>13. DOMAIN try'.saved = {n} /\ try'.saved[n] = AsItIs(board, n)
  BY <1>8 DEF Saved
<1>14. \A m \in Nets \ {n} : AsItIs(board', m) = AsItIs(board, m)
  BY <1>8, <1>9 DEF AsItIs, OnlyOf, OfNets
<1>15. TryKeeps'
  BY <1>1, <1>3, <1>8, <1>13, <1>14 DEF TryKeeps, OrderClear
<1>16. QED
  BY <1>1, <1>8, <1>12, <1>13, <1>15 DEF RepairHolds

\* Displace keeps it.
LEMMA DisplaceRepair ==
    ASSUME RepairHolds, Inv, NEW n \in Nets, Displace(n) PROVE RepairHolds'
<1> DEFINE ripped == RipUpConflicted(board, n)
           involved == DOMAIN try.saved \cup {n}
           saved == [m \in involved |-> IF m \in DOMAIN try.saved THEN try.saved[m]
                                        ELSE AsItIs(board, m)]
<1>1. phase = "displace" /\ phase' = phase /\ order' = order
  BY DEF Displace
<1>2. PICK branches \in Searches(ripped, n, FALSE) :
        board' = Stamp(Routed(ripped, n, branches, FALSE), n)
  BY DEF Displace
<1>3. try'.saved = saved /\ try'.before = try.before
  <2>1. try' = [try EXCEPT !.saved = saved]
    BY DEF Displace
  <2>2. Whole(try)
    BY DEF Inv, TryHolds
  <2> HIDE DEF saved
  <2>3. QED
    BY <2>1, <2>2 DEF Whole
<1>4. Sound(board) /\ (\A m \in Nets : InStep(board, m)) /\ DOMAIN try.saved \subseteq Nets
  BY <1>1, AllInStep DEF Repairing, Inv, TryHolds, SavedStates
<1>5. TryKeeps /\ \A m \in DOMAIN try.saved : Held(try.before, board, m)
  BY <1>1 DEF RepairHolds
<1>6. /\ Sound(ripped) /\ OnlyOf({n}, board, ripped)
      /\ ripped.nets[n].branches = Kept(board, n)
      /\ ripped.nets[n].fixed = board.nets[n].fixed
      /\ Standing(board.nets[n], ripped.nets[n])
  BY <1>4, RipUpSound
<1> HIDE DEF ripped
<1> DEFINE c == Stamp(Routed(ripped, n, branches, FALSE), n)
<1>7. OnlyOf({n}, ripped, c) /\ Grew(ripped, c, n, branches)
  BY <1>6, RoutedStampedSound
<1>8. board' = c
  BY <1>2
<1> HIDE DEF c
<1>9. OnlyOf({n}, board, c)
  BY <1>6, <1>7 DEF OnlyOf, OfNets
<1>10. Held(board, c, n)
  <2>1. /\ c.nets[n].branches = branches /\ c.nets[n].fixed = board.nets[n].fixed
        /\ c.nets[n].released = board.nets[n].released
    BY <1>6, <1>7 DEF Grew, Standing
  <2>2. branches \cap board.nets[n].fixed \subseteq Kept(board, n)
    BY <1>6, SearchesHold
  <2>3. Kept(board, n) \subseteq board.nets[n].branches
    BY <1>4, KeptOf
  <2>4. c.given[n] = board.given[n]
    BY <1>9 DEF OnlyOf, OfNets
  <2>5. QED
    BY <2>1, <2>2, <2>3, <2>4 DEF Held
<1>11. n \notin DOMAIN try.saved => AsItIs(board, n) = AsItIs(try.before, n)
  BY <1>5 DEF TryKeeps
<1>12. Held(try.before, c, n)
  <2>1. CASE n \in DOMAIN try.saved
    <3>1. Held(try.before, board, n)
      BY <1>5, <2>1
    <3>2. QED
      BY <1>10, <3>1 DEF Held
  <2>2. CASE n \notin DOMAIN try.saved
    <3>1. board.nets[n] = try.before.nets[n] /\ board.given[n] = try.before.given[n]
      BY <1>11, <2>2 DEF AsItIs
    <3>2. QED
      BY <1>10, <3>1 DEF Held
  <2>3. QED
    BY <2>1, <2>2
<1>13. \A m \in DOMAIN try.saved \ {n} : Held(try.before, c, m)
  <2> TAKE m \in DOMAIN try.saved \ {n}
  <2>1. Held(try.before, board, m) /\ c.nets[m] = board.nets[m] /\ c.given[m] = board.given[m]
    BY <1>4, <1>5, <1>9 DEF OnlyOf, OfNets
  <2>2. QED
    BY <2>1 DEF Held
<1>14. \A m \in involved : saved[m] = AsItIs(try.before, m)
  <2> TAKE m \in involved
  <2>1. CASE m \in DOMAIN try.saved
    BY <1>5, <2>1 DEF TryKeeps
  <2>2. CASE m \notin DOMAIN try.saved
    BY <1>11, <2>2
  <2>3. QED
    BY <2>1, <2>2
<1>15. \A m \in Nets \ involved : AsItIs(c, m) = AsItIs(try.before, m)
  <2> TAKE m \in Nets \ involved
  <2>1. AsItIs(board, m) = AsItIs(try.before, m)
    BY <1>5 DEF TryKeeps
  <2>2. c.nets[m] = board.nets[m] /\ c.given[m] = board.given[m]
    BY <1>9 DEF OnlyOf, OfNets
  <2>3. QED
    BY <2>1, <2>2 DEF AsItIs
<1>16. DOMAIN saved = involved
  OBVIOUS
<1> HIDE DEF saved
<1>17. TryKeeps'
  BY <1>1, <1>3, <1>5, <1>8, <1>14, <1>15, <1>16 DEF TryKeeps, OrderClear
<1>18. QED
  BY <1>1, <1>3, <1>8, <1>12, <1>13, <1>16, <1>17 DEF RepairHolds

\* A failed connection leaves the copper it found.
LEMMA TakeBackAsBefore ==
    ASSUME Inv, RepairHolds, phase = "displace"
    PROVE  \A n \in Nets : AsBefore(try.before, TakeBack(board, try.saved), n)
<1> DEFINE c == TakeBack(board, try.saved)
<1>1. /\ SavedStates(try.saved)
      /\ \A n \in DOMAIN try.saved : try.saved[n].given = board.given[n]
  BY DEF Inv, TryHolds
<1>2. TryKeeps /\ \A n \in DOMAIN try.saved : Held(try.before, board, n)
  BY DEF RepairHolds
<1>3. /\ OnlyOf(DOMAIN try.saved, board, c)
      /\ \A n \in DOMAIN try.saved : CopperAs(board, c, n, try.saved)
  BY <1>1, TakeBackSound DEF Inv
<1> HIDE DEF c
<1>4. ASSUME NEW n \in Nets \ DOMAIN try.saved PROVE AsBefore(try.before, c, n)
  <2>1. AsItIs(board, n) = AsItIs(try.before, n) /\ InStep(try.before, n)
    BY <1>2 DEF TryKeeps
  <2>2. board.nets[n] = try.before.nets[n] /\ board.given[n] = try.before.given[n]
    BY <2>1 DEF AsItIs
  <2>3. c.nets[n] = board.nets[n] /\ c.given[n] = board.given[n]
    BY <1>3 DEF OnlyOf, OfNets
  <2>4. QED
    BY <2>1, <2>2, <2>3 DEF AsBefore, InStep
<1>5. ASSUME NEW n \in DOMAIN try.saved PROVE AsBefore(try.before, c, n)
  <2>1. try.saved[n].net = try.before.nets[n]
    <3>1. try.saved[n] = AsItIs(try.before, n)
      BY <1>2 DEF TryKeeps
    <3>2. QED
      BY <3>1 DEF AsItIs
  <2>2. CopperAs(board, c, n, try.saved) /\ Held(try.before, board, n)
    BY <1>2, <1>3
  <2>3. c.given[n] = board.given[n]
    BY <1>3 DEF OnlyOf, OfNets
  <2>4. QED
    BY <2>1, <2>2, <2>3 DEF CopperAs, Held, AsBefore
<1>6. QED
  BY <1>4, <1>5 DEF c

\* A connection that stands leaves every net clear: those it took up are in no conflict,
\* and their fixed branches kept clear of the others before.
LEMMA StandsClear ==
    ASSUME Inv, RepairHolds, phase = "displace", Settled(board, DOMAIN try.saved)
    PROVE  OrderClear(board)
<1>1. Sound(board) /\ (\A n \in Nets : InStep(board, n)) /\ order \subseteq Nets
      /\ DOMAIN try.saved \subseteq Nets
  BY AllInStep DEF Repairing, Inv, Sets, TryHolds, SavedStates
<1>2. /\ OrderClear(try.before) /\ (\A n \in Nets : InStep(try.before, n))
      /\ \A n \in Nets \ DOMAIN try.saved : AsItIs(board, n) = AsItIs(try.before, n)
      /\ \A n \in DOMAIN try.saved : Held(try.before, board, n)
  BY DEF RepairHolds, TryKeeps
<1>3. \A n \in DOMAIN try.saved : Clear(board, n)
  BY <1>1, ClearIsNoConflict DEF Settled
<1>4. \A n \in Nets \ DOMAIN try.saved : board.nets[n] = try.before.nets[n]
  BY <1>2 DEF AsItIs
<1>5. ASSUME NEW n \in order \ DOMAIN try.saved PROVE Clear(board, n)
  <2> SUFFICES ASSUME NEW m \in Nets \ {n}, NEW d \in Own(board, n), d \in board.nets[m].stamped
               PROVE  FALSE
    BY DEF Clear
  <2>1. n \in Nets /\ board.nets[n] = try.before.nets[n] /\ Clear(try.before, n)
    BY <1>1, <1>2, <1>4 DEF OrderClear
  <2>2. d \in Own(try.before, n)
    BY <2>1 DEF Own
  <2>3. d \notin try.before.nets[m].stamped
    BY <2>1, <2>2 DEF Clear
  <2>4. m \in DOMAIN try.saved
    BY <1>4, <2>3
  <2>5. d \in Cells /\ d \in Nodes(board.nets[n].branches)
    BY <1>1, <2>1, OwnType
  <2>6. d \in Footprint(board.nets[m].branches)
    BY <1>1 DEF InStep
  <2>7. PICK way \in board.nets[m].branches :
            \E e \in way.nodes : e \in Cells /\ e \in Zone[d] /\ d \in Zone[e]
    BY <1>1, <2>5, <2>6, ZonesMeet
  <2>8. PICK e \in way.nodes : e \in Cells /\ e \in Zone[d] /\ d \in Zone[e]
    BY <2>7
  <2>9. CASE way \in board.nets[m].fixed
    <3>1. way \in try.before.nets[m].branches
      BY <1>2, <2>4, <2>7, <2>9 DEF Held
    <3>2. d \in try.before.nets[m].stamped
      BY <1>2, <2>8, <3>1 DEF InStep, Footprint, Nodes
    <3>3. QED
      BY <2>3, <3>2
  <2>10. CASE way \notin board.nets[m].fixed
    <3>1. e \in Own(board, m)
      BY <2>7, <2>8, <2>10 DEF Own, Nodes
    <3>2. e \in board.nets[n].stamped
      BY <1>1, <2>1, <2>5, <2>8 DEF InStep, Footprint
    <3>3. QED
      BY <1>3, <2>1, <2>4, <3>1, <3>2 DEF Clear
  <2>11. QED
    BY <2>9, <2>10
<1>6. QED
  BY <1>3, <1>5 DEF OrderClear

\* What a forced connection leaves: its nets complete and out of conflict, or what it
\* found; and the nets apart.
LEMMA EndedForce ==
    ASSUME RepairHolds, Inv, EndForce
    PROVE  /\ RepairHolds'
           /\ \/ \A n \in DOMAIN try.saved : board'.nets[n].complete /\ ~InConflict(board', n)
              \/ CopperOf(board') = CopperOf(try.before)
<1> DEFINE back == TakeBack(board, try.saved)
<1>1. /\ phase = "displace" /\ phase' = "force" /\ order' = order
      /\ \/ Settled(board, DOMAIN try.saved) /\ board' = board
         \/ board' = back
  BY DEF EndForce, GoTo
<1>2. CASE Settled(board, DOMAIN try.saved) /\ board' = board
  <2>1. OrderClear(board)
    BY <1>1, <1>2, StandsClear
  <2>2. OrderClear(board)'
    BY <1>1, <1>2, <2>1 DEF OrderClear
  <2>3. QED
    BY <1>1, <1>2, <2>2 DEF RepairHolds, Settled
<1>3. CASE board' = back
  <2>1. \A n \in Nets : AsBefore(try.before, back, n)
    BY <1>1, TakeBackAsBefore
  <2> HIDE DEF back
  <2>2. /\ OrderClear(try.before) /\ (\A n \in Nets : InStep(try.before, n))
        /\ order \subseteq Nets
    BY <1>1 DEF TryKeeps, RepairHolds, Inv, Sets
  <2>3. /\ \A n \in Nets : Clear(try.before, n) => Clear(back, n)
        /\ CopperOf(back) = CopperOf(try.before)
    BY <2>1, <2>2, AsBeforeClear
  <2>4. OrderClear(board)'
    BY <1>1, <1>3, <2>2, <2>3 DEF OrderClear
  <2>5. QED
    BY <1>1, <1>3, <2>3, <2>4 DEF RepairHolds
<1>4. QED
  BY <1>1, <1>2, <1>3

\* Every step keeps what the repair holds.
LEMMA NextRepair ==
    ASSUME RepairHolds, Inv, [Next]_vars PROVE RepairHolds'
<1>1. CASE Negotiate \/ BeginIteration \/ BeginBatch \/ CutIteration
           \/ EndIteration \/ Resume \/ FinishCut
  <2>1. phase \notin Repairing /\ (phase' \notin Repairing \/ phase' = "resolve")
        /\ UNCHANGED removed
    BY <1>1 DEF Negotiate, BeginIteration, BeginBatch, CutIteration, CutLeaving, EndIteration,
       Resume, FinishCut, Repairing, GoTo, Stop, repair
  <2>2. QED
    BY <2>1, BeforeRepair
<1>2. ASSUME NEW n \in Nets, OfTheBatch(n) PROVE RepairHolds'
  <2>1. phase \notin Repairing /\ phase' \notin Repairing /\ UNCHANGED removed
    BY <1>2 DEF OfTheBatch, RipUpNet, SearchNet, StampNet, NextOfBatch, Repairing, GoTo, repair
  <2>2. QED
    BY <2>1, BeforeRepair
<1>3. CASE TriesDone \/ RepairDone \/ Finish
  <2>1. /\ phase \in {"tries", "hard", "force"} /\ phase' \in {"hard", "force", "done"}
        /\ UNCHANGED <<board, order, try>>
    BY <1>3 DEF TriesDone, RepairDone, Finish, GoTo, repair
  <2>2. QED
    BY <2>1, StillBoardRepair DEF Repairing
<1>4. ASSUME NEW n \in Nets, PassOver(n) PROVE RepairHolds'
  <2>1. phase = "force" /\ UNCHANGED <<phase, board, order, try>>
    BY <1>4 DEF PassOver, repair
  <2>2. QED
    BY <2>1, StillBoardRepair DEF Repairing
<1>5. CASE ForceRound
  <2>1. phase = "displace" /\ UNCHANGED <<phase, board, order>>
    BY <1>5 DEF ForceRound
  <2>2. try'.saved = try.saved /\ try'.before = try.before
    <3>1. PICK ok, round : try' = [try EXCEPT !.ok = ok, !.round = round]
      BY <1>5 DEF ForceRound
    <3>2. Whole(try)
      BY DEF Inv, TryHolds
    <3>3. QED
      BY <3>1, <3>2 DEF Whole
  <2>3. QED
    BY <2>1, <2>2, StillBoardRepair DEF Repairing
<1>6. ASSUME NEW n \in Nets, OfTheRepair(n) PROVE RepairHolds'
  BY <1>4, <1>6, RipWorstRepair, RejoinRepair, RouteHardRepair, ForceConnectRepair,
     DisplaceRepair DEF OfTheRepair
<1>7. ASSUME NEW l \in Links, TryLink(l) PROVE RepairHolds'
  BY <1>7, TryLinkRepair
<1>8. CASE Done \/ UNCHANGED vars
  <2>1. UNCHANGED <<phase, board, order, try, removed>>
    BY <1>8 DEF Done, vars, repair
  <2>2. CASE phase \in Repairing
    BY <2>1, <2>2, StillBoardRepair
  <2>3. CASE phase \notin Repairing
    BY <2>1, <2>3, BeforeRepair
  <2>4. QED
    BY <2>2, <2>3
<1>9. QED
  BY <1>1, <1>2, <1>3, <1>5, <1>6, <1>7, <1>8, RipsDoneRepair, JudgedTry, EndedForce DEF Next

\* It holds once the nets are prepared.
LEMMA InitRepair ==
    ASSUME Init PROVE RepairHolds
  BY DEF Init, RepairHolds

\* Nets clear of each other are apart: two fixed branches are from the start.
LEMMA ClearIsApart ==
    ASSUME NEW b, Sound(b), NEW m \in Nets, NEW n \in Nets, m # n,
           InStep(b, m), InStep(b, n), Clear(b, m), Clear(b, n)
    PROVE  Apart(b, m, n)
<1> SUFFICES ASSUME NEW d \in Nodes(b.nets[m].branches),
                    d \in Footprint(b.nets[n].branches)
             PROVE  FALSE
  BY DEF Apart
<1>1. PICK one \in b.nets[m].branches : d \in one.nodes
  BY DEF Nodes
<1>2. d \in Cells
  BY OwnType
<1>3. PICK other \in b.nets[n].branches :
        \E e \in other.nodes : e \in Cells /\ e \in Zone[d] /\ d \in Zone[e]
  BY <1>2, ZonesMeet
<1>4. PICK e \in other.nodes : e \in Cells /\ e \in Zone[d] /\ d \in Zone[e]
  BY <1>3
<1>5. one \in b.nets[m].fixed
  <2>1. d \notin Own(b, m)
    BY DEF Clear, InStep
  <2>2. QED
    BY <1>1, <2>1 DEF Own, Nodes
<1>6. other \in b.nets[n].fixed
  <2>1. e \in b.nets[m].stamped
    BY <1>4 DEF InStep, Footprint
  <2>2. e \notin Own(b, n)
    BY <2>1 DEF Clear
  <2>3. QED
    BY <1>3, <2>2 DEF Own, Nodes
<1>7. one \in Stubs[m] /\ other \in Stubs[n]
  BY <1>5, <1>6, SoundParts DEF Rightful
<1>8. d \in Nodes(Stubs[m]) /\ d \in Footprint(Stubs[n])
  BY <1>1, <1>4, <1>7 DEF Nodes, Footprint
<1>9. QED
  BY <1>8, CopperConstants

\* A repaired board's nets are clear of each other.
LEMMA RepairedApart ==
    ASSUME Inv, RepairHolds PROVE RepairedIsApart
<1> SUFFICES ASSUME phase = "done", NEW m \in order, NEW n \in order, m # n
             PROVE  Apart(board, m, n)
  BY DEF RepairedIsApart
<1>1. Sound(board) /\ \A k \in Nets : InStep(board, k)
  BY AllInStep DEF Repairing
<1>2. OrderClear(board) /\ order \subseteq Nets
  BY DEF RepairHolds, Inv, Sets
<1>3. QED
  BY <1>1, <1>2, ClearIsApart DEF OrderClear

\* The hard repair leaves no two nets' copper too close, of the nets that are routed
\* from the start: also where it tried links again and forced connections through
\* others' copper (resolve.rs, finish.rs).
THEOREM RepairedAreApart == Spec => [](mode # "resumed" \/ ~gives => RepairedIsApart)
<1>1. Init => (Covered => Inv /\ RepairHolds)
  BY InitInv, InitRepair
<1>2. (Covered => Inv /\ RepairHolds) /\ [Next]_vars => (Covered => Inv /\ RepairHolds)'
  BY NextInv, NextRepair, CoveredBefore
<1>3. (Covered => Inv /\ RepairHolds) => (mode # "resumed" \/ ~gives => RepairedIsApart)
  BY RepairedApart DEF Covered
<1>4. QED
  BY <1>1, <1>2, <1>3, PTL DEF Spec

\* A try ends with its nets complete and out of conflict, or with what it found.
LEMMA TryEnds ==
    ASSUME Inv, RepairHolds, [Next]_vars, try # NoTry, try' = NoTry
    PROVE  \/ \A n \in DOMAIN try.saved : board'.nets[n].complete /\ ~InConflict(board', n)
           \/ CopperOf(board') = CopperOf(try.before)
<1>1. phase \in {"rejoin", "displace"} /\ DOMAIN try.saved # {}
  BY DEF Inv, TryHolds
<1>2. try'.saved # try.saved
  BY <1>1 DEF NoTry
<1>3. ~ForceRound
  <2> SUFFICES ASSUME ForceRound PROVE FALSE
    OBVIOUS
  <2>1. PICK ok, round : try' = [try EXCEPT !.ok = ok, !.round = round]
    BY DEF ForceRound
  <2>2. Whole(try)
    BY DEF Inv, TryHolds
  <2>3. try'.saved = try.saved
    BY <2>1, <2>2 DEF Whole
  <2>4. QED
    BY <1>2, <2>3
<1>4. ASSUME NEW n \in Nets, Displace(n) PROVE FALSE
  <2> DEFINE involved == DOMAIN try.saved \cup {n}
             saved == [m \in involved |-> IF m \in DOMAIN try.saved THEN try.saved[m]
                                          ELSE AsItIs(board, m)]
  <2>1. try' = [try EXCEPT !.saved = saved]
    BY <1>4 DEF Displace
  <2>2. Whole(try)
    BY DEF Inv, TryHolds
  <2>3. DOMAIN saved = involved
    OBVIOUS
  <2> HIDE DEF saved
  <2>4. try'.saved = saved
    BY <2>1, <2>2 DEF Whole
  <2>5. QED
    BY <2>3, <2>4 DEF NoTry
<1>5. JudgeTry \/ EndForce
  <2>1. ~(Negotiate \/ BeginIteration \/ BeginBatch \/ CutIteration \/ EndIteration
          \/ Resume \/ FinishCut)
    BY <1>1 DEF Negotiate, BeginIteration, BeginBatch, CutIteration, CutLeaving, EndIteration,
       Resume, FinishCut
  <2>2. \A n \in Nets : ~OfTheBatch(n)
    BY <1>1 DEF OfTheBatch, RipUpNet, SearchNet, StampNet
  <2>3. \A n \in Nets : ~OfTheRepair(n)
    BY <1>1, <1>2, <1>4 DEF OfTheRepair, RipWorst, Rejoin, RouteHard, PassOver, ForceConnect,
       repair
  <2>4. ~(RipsDone \/ TriesDone \/ RepairDone \/ Finish \/ Done \/ UNCHANGED vars)
    BY <1>1, <1>2 DEF RipsDone, TriesDone, RepairDone, Finish, Done, vars, repair
  <2>5. \A l \in Links : ~TryLink(l)
    BY <1>1 DEF TryLink
  <2>6. QED
    BY <1>3, <2>1, <2>2, <2>3, <2>4, <2>5 DEF Next
<1>6. QED
  BY <1>5, JudgedTry, EndedForce

\* A link tried again, or a connection forced, ends with every net it took up complete
\* and out of conflict, or with the copper and the terminals as they were: of every run,
\* and of probes of boards without links to give up (retry_released, force_connect).
THEOREM TriesAreAllOrNothing == Spec /\ (mode = "run" \/ ~gives) => AllOrNothing
<1> DEFINE Straight == mode = "run" \/ ~gives
           All == Inv /\ RepairHolds /\ Straight
<1>1. Init /\ Straight => All
  BY InitInv, InitRepair DEF Covered
<1>2. All /\ [Next]_vars => All'
  BY NextInv, NextRepair, StaysCovered
<1>3. All /\ [Next]_vars =>
        [try # NoTry /\ try' = NoTry =>
            \/ \A n \in DOMAIN try.saved : board'.nets[n].complete /\ ~InConflict(board', n)
            \/ CopperOf(board') = CopperOf(try.before)]_vars
  BY TryEnds
<1>4. QED
  BY <1>1, <1>2, <1>3, PTL DEF Spec, AllOrNothing
=============================================================================
