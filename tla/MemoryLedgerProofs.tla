------------------------ MODULE MemoryLedgerProofs ------------------------
(***************************************************************************)
(* Theorems of the memory ledger, for any number of runs and boards, any   *)
(* sizes and capacities and any clock: its type invariant, that the file   *)
(* says what the runs hold, that at most the oldest holder overcommits the *)
(* machine, and that no new request takes the first waiter's room.         *)
(***************************************************************************)
EXTENDS MemoryLedger, FiniteSetTheorems, TLAPS

----------------------------------------------------------------------------
(* Sums of megabytes.                                                      *)

\* The units that finitely many reservations hold are finitely many.
LEMMA UnitsFinite ==
    ASSUME NEW L, NEW S, IsFiniteSet(S), \A r \in S : L[r].mb \in Nat
    PROVE  IsFiniteSet(Units(L, S)) /\ Mb(L, S) \in Nat
<1> DEFINE f == [r \in S |-> {r} \X (1..L[r].mb)]
           T == {f[r] : r \in S}
<1>1. f \in Surjection(S, T)
  BY DEF Surjection
<1>2. IsFiniteSet(T)
  BY <1>1, FS_Surjection
<1>3. ASSUME NEW t \in T PROVE IsFiniteSet(t)
  <2>1. PICK r \in S : t = {r} \X (1..L[r].mb)
    BY <1>3
  <2>2. L[r].mb \in Int /\ 1 \in Int
    OBVIOUS
  <2>3. IsFiniteSet({r}) /\ IsFiniteSet(1..L[r].mb)
    BY <2>2, FS_Singleton, FS_Interval
  <2>4. QED
    BY <2>1, <2>3, FS_Product
<1>4. IsFiniteSet(UNION T)
  BY <1>2, <1>3, FS_UNION
<1>5. UNION T = Units(L, S)
  BY DEF Units
<1>6. QED
  BY <1>4, <1>5, FS_CardinalityType DEF Mb

\* Fewer reservations, each holding at most as much, hold at most as much.
LEMMA MbMonotone ==
    ASSUME NEW L, NEW S, IsFiniteSet(S), \A r \in S : L[r].mb \in Nat,
           NEW K, NEW T \in SUBSET S,
           \A r \in T : K[r].mb \in Nat /\ K[r].mb <= L[r].mb
    PROVE  Mb(K, T) <= Mb(L, S)
<1>1. Units(K, T) \subseteq Units(L, S)
  <2> SUFFICES ASSUME NEW r \in T, NEW u \in {r} \X (1..K[r].mb)
               PROVE  u \in {r} \X (1..L[r].mb)
    BY DEF Units
  <2> QED
    OBVIOUS
<1>2. QED
  BY <1>1, UnitsFinite, FS_Subset DEF Mb

\* What a set of reservations holds is what one of them and the rest hold.
LEMMA MbSplit ==
    ASSUME NEW L, NEW S, IsFiniteSet(S), \A r \in S : L[r].mb \in Nat,
           NEW p \in S
    PROVE  Mb(L, S) = Mb(L, S \ {p}) + L[p].mb
<1> DEFINE own1 == {p} \X (1..L[p].mb)
           rest == Units(L, S \ {p})
<1>1. Units(L, S) = rest \cup own1 /\ rest \cap own1 = {}
  BY DEF Units
<1>2. IsFiniteSet(S \ {p}) /\ IsFiniteSet(rest) /\ Mb(L, S \ {p}) \in Nat
  BY UnitsFinite, FS_RemoveElement
<1>3. IsFiniteSet(own1) /\ Cardinality(own1) = L[p].mb
  <2> DEFINE g == [i \in 1..L[p].mb |-> <<p, i>>]
  <2>1. g \in Bijection(1..L[p].mb, own1)
    <3>1. g \in [1..L[p].mb -> own1]
      OBVIOUS
    <3>2. \A i, j \in 1..L[p].mb : g[i] = g[j] => i = j
      OBVIOUS
    <3>3. ASSUME NEW t \in own1 PROVE \E i \in 1..L[p].mb : g[i] = t
      <4>1. t[2] \in 1..L[p].mb /\ t = <<p, t[2]>>
        OBVIOUS
      <4>2. g[t[2]] = t
        BY <4>1
      <4>3. QED
        BY <4>1, <4>2
    <3>4. QED
      BY <3>1, <3>2, <3>3 DEF Bijection, Injection, Surjection, IsInjective
  <2>2. ExistsBijection(1..L[p].mb, own1)
    BY <2>1 DEF ExistsBijection
  <2>3. L[p].mb \in Nat /\ L[p].mb \in Int /\ 1 \in Int
    OBVIOUS
  <2>4. IsFiniteSet(1..L[p].mb)
    BY <2>3, FS_Interval
  <2>5. QED
    BY <2>2, <2>3, <2>4, FS_CountingElements, FS_Bijection
<1>4. Cardinality(rest \cup own1) = Cardinality(rest) + L[p].mb - Cardinality({})
  BY <1>1, <1>2, <1>3, FS_Union
<1>5. QED
  BY <1>1, <1>2, <1>4, FS_EmptySet DEF Mb

----------------------------------------------------------------------------
(* One overcommitting run at most.                                         *)

\* The sums the rules compare are natural numbers, and one identity's share
\* of them comes off.
LEMMA LedgerSums ==
    ASSUME NEW L \in [Ids -> Reservation], NEW p \in Ids
    PROVE  /\ IsFiniteSet(Ids) /\ IsFiniteSet(Ids \ {p})
           /\ Mb(L, Ids) \in Nat /\ Mb(L, Ids \ {p}) \in Nat
           /\ Mb(L, Ids) = Mb(L, Ids \ {p}) + L[p].mb
<1>1. \A r \in Ids : L[r].mb \in Nat
  BY DEF Reservation
<1>2. IsFiniteSet(Ids)
  BY LedgerConstants
<1>3. IsFiniteSet(Ids \ {p})
  BY <1>2, FS_RemoveElement
<1>4. QED
  BY <1>1, <1>2, <1>3, UnitsFinite, MbSplit

\* What two ledgers agree on beside p, they hold beside p.
LEMMA SameBeside ==
    ASSUME NEW L \in [Ids -> Reservation], NEW K \in [Ids -> Reservation],
           NEW p \in Ids, \A r \in Ids \ {p} : K[r] = L[r]
    PROVE  Mb(K, Ids \ {p}) = Mb(L, Ids \ {p})
<1>1. Units(K, Ids \ {p}) = Units(L, Ids \ {p})
  BY DEF Units
<1>2. QED
  BY <1>1 DEF Mb

\* Reservations that shrink or go, each with the start it had, keep it.
LEMMA WithinShrinks ==
    ASSUME NEW L \in [Ids -> Reservation], NEW K \in [Ids -> Reservation],
           WithinButForTheOldest(L),
           \A r \in Ids : /\ K[r].mb <= L[r].mb
                          /\ K[r].mb > 0 => K[r].started = L[r].started
    PROVE  WithinButForTheOldest(K)
<1>1. \A r \in Ids : L[r].mb \in Nat /\ K[r].mb \in Nat
  BY DEF Reservation
<1>2. CASE Mb(L, Ids) <= MaxCapacity
  <2>1. IsFiniteSet(Ids) /\ Mb(K, Ids) <= Mb(L, Ids)
    BY <1>1, MbMonotone, LedgerConstants
  <2>2. Mb(K, Ids) \in Nat /\ Mb(L, Ids) \in Nat /\ MaxCapacity \in Nat
    BY <1>1, <2>1, UnitsFinite, LedgerConstants
  <2>3. QED
    BY <1>2, <2>1, <2>2 DEF WithinButForTheOldest
<1>3. ASSUME NEW r \in Ids, Oldest(L, r), Mb(L, Ids \ {r}) <= MaxCapacity
      PROVE  WithinButForTheOldest(K)
  <2>1. /\ IsFiniteSet(Ids \ {r})
        /\ Mb(K, Ids \ {r}) \in Nat /\ Mb(L, Ids \ {r}) \in Nat
        /\ Mb(K, Ids) = Mb(K, Ids \ {r}) + K[r].mb
    BY LedgerSums
  <2>2. Mb(K, Ids \ {r}) <= Mb(L, Ids \ {r})
    BY <1>1, <2>1, MbMonotone
  <2>3. Mb(K, Ids \ {r}) <= MaxCapacity
    BY <1>3, <2>1, <2>2, LedgerConstants
  <2>4. CASE K[r].mb > 0
    <3>1. Holders(K, Ids) \subseteq Holders(L, Ids)
      BY <1>1 DEF Holders
    <3>2. Oldest(K, r)
      BY <1>3, <2>4, <3>1 DEF Oldest, Holders
    <3>3. QED
      BY <2>3, <3>2 DEF WithinButForTheOldest
  <2>5. CASE ~(K[r].mb > 0)
    BY <1>1, <2>1, <2>3, <2>5 DEF WithinButForTheOldest
  <2>6. QED
    BY <2>4, <2>5
<1>4. QED
  BY <1>2, <1>3 DEF WithinButForTheOldest

\* A reservation that grows as may_hold lets it keeps it too: within the
\* capacity, or alone, or as the oldest of the holders, all waiting.
LEMMA WithinGrows ==
    ASSUME NEW L \in [Ids -> Reservation], NEW K \in [Ids -> Reservation],
           WithinButForTheOldest(L),
           NEW p \in Ids, \A r \in Ids \ {p} : K[r] = L[r],
           NEW held \in Nat, NEW started \in Int,
           held > 0 => L[p].mb > 0 /\ L[p].started = started,
           K[p].mb > 0 => K[p].started = started,
           NEW capacity \in Capacities,
           MayHold(L, p, held, started, K[p].mb, capacity)
    PROVE  WithinButForTheOldest(K)
<1> DEFINE holders == Holders(L, Ids \ {p})
<1>1. /\ Mb(K, Ids \ {p}) = Mb(L, Ids \ {p})
      /\ Mb(K, Ids \ {p}) \in Nat /\ K[p].mb \in Nat /\ L[p].mb \in Nat
      /\ Mb(K, Ids) = Mb(K, Ids \ {p}) + K[p].mb
      /\ Mb(L, Ids) = Mb(L, Ids \ {p}) + L[p].mb
      /\ capacity \in Nat /\ MaxCapacity \in Nat /\ capacity <= MaxCapacity
  BY SameBeside, LedgerSums, LedgerConstants DEF Reservation
<1>2. DOMAIN L = Ids
  OBVIOUS
<1>3. Holders(K, Ids) \ {p} = holders
  BY DEF Holders
<1>4. CASE Mb(L, Ids \ {p}) + K[p].mb <= capacity
  BY <1>1, <1>4 DEF WithinButForTheOldest
<1>5. CASE holders = {}
  <2>1. Units(L, Ids \ {p}) = {}
    <3>1. ASSUME NEW r \in Ids \ {p} PROVE {r} \X (1..L[r].mb) = {}
      <4>1. L[r].mb \in Nat /\ ~(L[r].mb > 0)
        BY <1>5 DEF Holders, Reservation
      <4>2. 1..L[r].mb = {}
        BY <4>1
      <4>3. QED
        BY <4>2
    <3>2. QED
      BY <3>1 DEF Units
  <2>2. Mb(L, Ids \ {p}) = 0
    BY <2>1, FS_EmptySet DEF Mb
  <2>3. CASE K[p].mb > 0
    <3>1. Oldest(K, p)
      BY <1>3, <1>5, <2>3 DEF Oldest
    <3>2. Mb(K, Ids \ {p}) <= MaxCapacity
      BY <1>1, <2>2
    <3>3. QED
      BY <3>1, <3>2 DEF WithinButForTheOldest
  <2>4. CASE ~(K[p].mb > 0)
    BY <1>1, <2>2, <2>4 DEF WithinButForTheOldest
  <2>5. QED
    BY <2>3, <2>4
<1>6. CASE held > 0 /\ OldestOfWaiters(L, holders, p, started)
  <2>1. \A r \in holders : r # p /\ LexLess(<<0, started, p>>, <<0, L[r].started, r>>)
    BY <1>6 DEF OldestOfWaiters, Holders
  <2>2. L[p].mb > 0 /\ L[p].started = started
    BY <1>6
  <2>3. Mb(L, Ids \ {p}) <= MaxCapacity
    <3>1. CASE Mb(L, Ids) <= MaxCapacity
      BY <1>1, <3>1
    <3>2. ASSUME NEW r \in Ids, Oldest(L, r), Mb(L, Ids \ {r}) <= MaxCapacity
          PROVE  r = p
      <4>1. SUFFICES ASSUME r # p PROVE FALSE
        OBVIOUS
      <4>2. r \in holders /\ p \in Holders(L, Ids) \ {r}
        BY <3>2, <4>1, <2>2 DEF Oldest, Holders
      <4>3. /\ LexLess(<<0, L[p].started, p>>, <<0, L[r].started, r>>)
            /\ LexLess(<<0, L[r].started, r>>, <<0, L[p].started, p>>)
        BY <2>1, <2>2, <3>2, <4>2 DEF Oldest
      <4>4. /\ L[p].started \in Int /\ L[r].started \in Int
            /\ p \in Int /\ r \in Int
        BY LedgerConstants DEF Reservation, Ids
      <4>5. QED
        BY <4>3, <4>4 DEF LexLess
    <3>3. QED
      BY <3>1, <3>2 DEF WithinButForTheOldest
  <2>4. CASE K[p].mb > 0
    <3>1. Oldest(K, p)
      BY <1>3, <2>1, <2>4 DEF Oldest, Holders
    <3>2. QED
      BY <1>1, <2>3, <3>1 DEF WithinButForTheOldest
  <2>5. CASE ~(K[p].mb > 0)
    BY <1>1, <2>3, <2>5 DEF WithinButForTheOldest
  <2>6. QED
    BY <2>4, <2>5
<1>7. QED
  BY <1>2, <1>4, <1>5, <1>6 DEF MayHold

----------------------------------------------------------------------------
(* One try to hold.                                                        *)

\* What the file's entry of p and p's own part (o) agree on.
Agree(L, o, p) ==
    ~o.broken => /\ L[p].mb = o.base + o.extra
                 /\ L[p].mb > 0 => L[p].started = o.started

Answers == [fits : BOOLEAN, since : Int, short : BOOLEAN, floor : Int, onFloor : BOOLEAN]

\* An answer has its type, and is yes only when may_hold is or nothing grows.
LEMMA AnswerOfTheRules ==
    ASSUME now \in Nat, NEW L, NEW p, NEW o \in Own,
           NEW base \in Nat, NEW extra \in Nat, NEW in \in Readings
    PROVE  LET held == o.base + o.extra
               answer == Answer(L, p, o, base, extra, in)
           IN  /\ answer \in Answers
               /\ answer.fits =>
                     \/ MayHold(L, p, held, o.started, base + extra, in.capacity)
                     \/ base + extra <= held
<1> DEFINE answer == Answer(L, p, o, base, extra, in)
<1>1. DOMAIN answer = {"fits", "since", "short", "floor", "onFloor"}
  BY DEF Answer
<1>2. answer.fits \in BOOLEAN /\ answer.onFloor \in BOOLEAN
  BY DEF Answer
<1>3. answer.short \in BOOLEAN
  BY DEF Answer
<1>4. answer.since \in Int
  BY DEF Answer, Own
<1>5. answer.floor \in Int
  <2>1. FloorKeep \in Int /\ \A floor \in Floors : floor \in Int
    BY LedgerConstants
  <2>2. in.floor \in Floors
    BY DEF Readings
  <2> DEFINE new   == o.base + o.extra = 0 /\ L[p].mb = 0
             short == new /\ p \in ShortRuns /\ ShortRequest(base, extra)
  <2>3. answer.floor = IF new THEN IF short THEN FloorKeep ELSE in.floor ELSE 0
    BY DEF Answer
  <2> HIDE DEF new, short, answer
  <2>4. in.floor \in Int
    BY <2>1, <2>2
  <2>5. QED
    BY <2>1, <2>3, <2>4
<1>6. answer \in Answers
  <2>1. answer = [fits |-> answer.fits, since |-> answer.since, short |-> answer.short,
                  floor |-> answer.floor, onFloor |-> answer.onFloor]
    BY DEF Answer
  <2>2. QED
    BY <1>2, <1>3, <1>4, <1>5, <2>1 DEF Answers
<1>7. answer.fits =>
        \/ MayHold(L, p, o.base + o.extra, o.started, base + extra, in.capacity)
        \/ base + extra <= o.base + o.extra
  BY DEF Answer
<1>8. QED
  BY <1>6, <1>7

\* An entry has its type, what it is to hold and its run's start.
LEMMA EntryOfARun ==
    ASSUME now \in Nat, NEW p, NEW o \in Own, NEW mb \in Nat, NEW wants \in Nat,
           NEW answer \in Answers, NEW short \in BOOLEAN
    PROVE  LET entry == Entry(p, o, mb, wants, answer, short)
           IN  /\ entry \in Reservation
               /\ entry.mb = mb
               /\ mb > 0 => entry.started = o.started
<1>1. NoEntry \in Reservation
  BY DEF NoEntry, Reservation, NoTime
<1>2. CASE mb = 0 /\ wants = 0
  BY <1>1, <1>2 DEF Entry, NoEntry
<1>3. CASE ~(mb = 0 /\ wants = 0)
  <2> DEFINE since     == IF wants > 0 THEN answer.since ELSE NoTime
             heldSince == IF mb = 0 THEN NoTime
                          ELSE IF o.heldSince = NoTime THEN now ELSE o.heldSince
             onFloor   == wants > 0 /\ answer.onFloor
             floor     == IF wants > 0 THEN answer.floor ELSE 0
             refreshed == IF wants > 0 THEN now ELSE NoTime
             isShort   == short /\ mb > 0
  <2>1. Entry(p, o, mb, wants, answer, short) =
          [started |-> o.started, mb |-> mb, wants |-> wants, since |-> since,
           heldSince |-> heldSince, onFloor |-> onFloor, floor |-> floor,
           refreshed |-> refreshed, end |-> NoTime, nightly |-> FALSE,
           short |-> isShort]
    BY <1>3 DEF Entry, NoEntry
  <2>2. /\ o.started \in Int /\ since \in Int /\ heldSince \in Int
        /\ floor \in Int /\ refreshed \in Int /\ NoTime \in Int
    BY DEF Own, Answers, NoTime
  <2>3. onFloor \in BOOLEAN /\ isShort \in BOOLEAN
    OBVIOUS
  <2>4. QED
    BY <2>1, <2>2, <2>3 DEF Reservation
<1>4. QED
  BY <1>2, <1>3

\* What a try to hold leaves: typed, the others' entries alone, p's entry in
\* agreement with its own part, and one overcommitting run at most.
Kept(try, L, p) ==
    /\ try.held \in BOOLEAN /\ try.wrote \in BOOLEAN
    /\ try.ledger \in [Ids -> Reservation]
    /\ try.own \in Own
    /\ \A r \in Ids \ {p} : try.ledger[r] = L[r]
    /\ WithinButForTheOldest(try.ledger)
    /\ Agree(try.ledger, try.own, p)
    /\ ~try.wrote => try.own.broken

\* An entry rewritten with p's start and as much as before at most, or with
\* what may_hold allows, leaves one overcommitting run at most.
LEMMA RewriteKeeps ==
    ASSUME NEW L \in [Ids -> Reservation], NEW p \in Runs, NEW o \in Own, ~o.broken,
           WithinButForTheOldest(L), Agree(L, o, p),
           NEW entry \in Reservation, entry.mb > 0 => entry.started = o.started,
           \/ entry.mb <= o.base + o.extra
           \/ \E capacity \in Capacities :
                 MayHold(L, p, o.base + o.extra, o.started, entry.mb, capacity)
    PROVE  WithinButForTheOldest([L EXCEPT ![p] = entry])
<1> DEFINE K == [L EXCEPT ![p] = entry]
           held == o.base + o.extra
<1>1. /\ p \in Ids /\ K \in [Ids -> Reservation] /\ K[p] = entry
      /\ \A r \in Ids \ {p} : K[r] = L[r]
  BY DEF Ids
<1>2. /\ L[p].mb = held /\ held \in Nat /\ o.started \in Int
      /\ held > 0 => L[p].started = o.started
  BY DEF Agree, Own
<1>3. CASE entry.mb <= held
  <2>1. \A r \in Ids : /\ K[r].mb <= L[r].mb
                       /\ K[r].mb > 0 => K[r].started = L[r].started
    <3>1. \A r \in Ids : L[r].mb \in Nat
      BY DEF Reservation
    <3>2. entry.mb \in Nat
      BY DEF Reservation
    <3>3. K[p].mb <= L[p].mb /\ (K[p].mb > 0 => K[p].started = L[p].started)
      BY <1>1, <1>2, <1>3, <3>2
    <3> HIDE DEF K, held
    <3>4. QED
      BY <1>1, <3>1, <3>3
  <2> HIDE DEF K
  <2>2. QED
    BY <1>1, <2>1, WithinShrinks
<1>4. ASSUME NEW capacity \in Capacities,
             MayHold(L, p, held, o.started, entry.mb, capacity)
      PROVE  WithinButForTheOldest(K)
  <2> HIDE DEF K, held
  <2>1. QED
    BY <1>1, <1>2, <1>4, WithinGrows
<1>5. QED
  BY <1>3, <1>4

\* One try to hold keeps all of it, whatever it answers.
LEMMA TryHoldKeeps ==
    ASSUME now \in Nat, NEW L \in [Ids -> Reservation], NEW p \in Runs, NEW o \in Own,
           WithinButForTheOldest(L), Agree(L, o, p),
           NEW wish \in Nat, NEW extra \in Nat, NEW wait \in BOOLEAN, NEW in \in Readings
    PROVE  Kept(TryHold(L, p, o, wish, extra, wait, in), L, p)
<1> DEFINE base   == Larger(wish, o.base)
           held   == o.base + o.extra
           answer == Answer(L, p, o, base, extra, in)
           wants  == IF wait THEN base + extra ELSE 0
           try    == TryHold(L, p, o, wish, extra, wait, in)
<1>1. /\ base \in Nat /\ held \in Nat /\ base + extra \in Nat /\ wants \in Nat
      /\ o.heldShort \in BOOLEAN /\ o.broken \in BOOLEAN
  BY DEF Larger, Own
<1>2. /\ answer \in Answers
      /\ answer.fits => \/ MayHold(L, p, held, o.started, base + extra, in.capacity)
                        \/ base + extra <= held
  BY <1>1, AnswerOfTheRules
<1>3. p \in Ids /\ in.capacity \in Capacities
  BY DEF Ids, Readings
<1>4. CASE o.broken \/ ~in.writable
  <2> DEFINE o2 == [o EXCEPT !.broken = TRUE, !.base = base, !.extra = extra]
  <2>1. try = [held |-> TRUE, wrote |-> FALSE, ledger |-> L, own |-> o2]
    BY <1>4 DEF TryHold
  <2>2. o2 \in Own /\ o2.broken
    BY <1>1 DEF Own
  <2> HIDE DEF o2, try
  <2>3. QED
    BY <2>1, <2>2 DEF Kept, Agree, try
<1>5. CASE ~o.broken /\ in.writable /\ answer.fits
  <2> DEFINE entry == Entry(p, o, base + extra, 0, answer, answer.short)
             o2 == [o EXCEPT
                      !.base = base, !.extra = extra, !.since = NoTime,
                      !.heldShort = answer.short /\ base + extra > 0,
                      !.heldSince = IF base + extra > 0 /\ @ = NoTime THEN now ELSE @]
  <2>1. try = [held |-> TRUE, wrote |-> TRUE, ledger |-> [L EXCEPT ![p] = entry],
               own |-> o2]
    BY <1>5 DEF TryHold
  <2>2. /\ entry \in Reservation /\ entry.mb = base + extra
        /\ entry.mb > 0 => entry.started = o.started
    <3>1. 0 \in Nat /\ answer.short \in BOOLEAN
      BY <1>2 DEF Answers
    <3> HIDE DEF answer, base
    <3>2. QED
      BY <1>1, <1>2, <3>1, EntryOfARun
  <2>3. /\ o2 \in Own /\ o2.base = base /\ o2.extra = extra
        /\ o2.started = o.started /\ o2.broken = o.broken
    <3> DEFINE isShort   == answer.short /\ base + extra > 0
               heldSince == IF base + extra > 0 /\ o.heldSince = NoTime
                            THEN now ELSE o.heldSince
    <3>1. isShort \in BOOLEAN /\ heldSince \in Int /\ NoTime \in Int
      BY DEF Own, NoTime
    <3>2. o2 = [o EXCEPT !.base = base, !.extra = extra, !.since = NoTime,
                         !.heldShort = isShort, !.heldSince = heldSince]
      OBVIOUS
    <3> HIDE DEF answer, base, isShort, heldSince, o2
    <3>3. QED
      BY <1>1, <3>1, <3>2 DEF Own
  <2>4. WithinButForTheOldest([L EXCEPT ![p] = entry])
    <3> HIDE DEF answer, base, entry
    <3>1. QED
      BY <1>2, <1>3, <1>5, <2>2, RewriteKeeps
  <2>5. /\ [L EXCEPT ![p] = entry] \in [Ids -> Reservation]
        /\ [L EXCEPT ![p] = entry][p] = entry
        /\ \A r \in Ids \ {p} : [L EXCEPT ![p] = entry][r] = L[r]
    BY <1>3, <2>2
  <2> HIDE DEF o2, entry, base, answer, try
  <2>6. QED
    BY <2>1, <2>2, <2>3, <2>4, <2>5 DEF Kept, Agree, try
<1>6. CASE ~o.broken /\ in.writable /\ ~answer.fits
  <2> DEFINE entry == Entry(p, o, held, wants, answer, o.heldShort)
             o2 == [o EXCEPT !.since = IF wait THEN answer.since ELSE @]
  <2>1. try = [held |-> FALSE, wrote |-> TRUE, ledger |-> [L EXCEPT ![p] = entry],
               own |-> o2]
    BY <1>6 DEF TryHold
  <2>2. /\ entry \in Reservation /\ entry.mb = held
        /\ entry.mb > 0 => entry.started = o.started
    <3> HIDE DEF answer, held, wants
    <3>1. QED
      BY <1>1, <1>2, EntryOfARun
  <2>3. /\ o2 \in Own /\ o2.base = o.base /\ o2.extra = o.extra
        /\ o2.started = o.started /\ o2.broken = o.broken
    <3>1. answer.since \in Int
      BY <1>2 DEF Answers
    <3> HIDE DEF answer
    <3>2. QED
      BY <3>1 DEF Own
  <2>4. WithinButForTheOldest([L EXCEPT ![p] = entry])
    <3>1. entry.mb <= o.base + o.extra
      BY <1>1, <2>2
    <3> HIDE DEF entry
    <3>2. QED
      BY <1>6, <2>2, <3>1, RewriteKeeps
  <2>5. /\ [L EXCEPT ![p] = entry] \in [Ids -> Reservation]
        /\ [L EXCEPT ![p] = entry][p] = entry
        /\ \A r \in Ids \ {p} : [L EXCEPT ![p] = entry][r] = L[r]
    BY <1>3, <2>2
  <2> HIDE DEF o2, entry, answer, try
  <2>6. QED
    BY <2>1, <2>2, <2>3, <2>4, <2>5 DEF Kept, Agree, try
<1>7. QED
  BY <1>1, <1>4, <1>5, <1>6

----------------------------------------------------------------------------
(* The steps.                                                              *)

\* The part of the invariant that is about the file.
FileInv ==
    /\ ledger \in [Ids -> Reservation]
    /\ orphans \in SUBSET Ids
    /\ own \in [Runs -> Own]
    /\ WithinButForTheOldest(ledger)
    /\ \A p \in Runs : Agree(Live, own[p], p)

\* The part that is about where the processes are.
ProcessInv ==
    /\ now \in Nat
    /\ pc \in [Runs -> {"out", "idle", "waiting"}]
    /\ request \in [Runs -> Request]
    /\ board \in [Boards -> Board]
    /\ \A p \in Runs : pc[p] = "out" => own[p] = Unarmed

LEMMA InductiveParts == Inductive <=> FileInv /\ ProcessInv
  BY DEF Inductive, FileInv, ProcessInv, TypeOK, OnlyTheOldestOvercommits,
         FileSaysWhatRunsHold, Agree

LEMMA NothingHeld ==
    /\ NoEntry \in Reservation /\ NoEntry.mb = 0
    /\ Unarmed \in Own /\ Unarmed.base = 0 /\ Unarmed.extra = 0
    /\ NoRequest \in Request /\ NoBoard \in Board
  BY DEF NoEntry, Reservation, Unarmed, Own, NoRequest, Request, NoBoard, Board, NoTime

\* The live reservations are a ledger that keeps it too.
LEMMA LiveKeeps ==
    ASSUME FileInv
    PROVE  Live \in [Ids -> Reservation] /\ WithinButForTheOldest(Live)
<1>1. Live \in [Ids -> Reservation]
  BY NothingHeld DEF FileInv, Live
<1>2. \A r \in Ids : /\ Live[r].mb <= ledger[r].mb
                     /\ Live[r].mb > 0 => Live[r].started = ledger[r].started
  <2>1. \A r \in Ids : ledger[r].mb \in Nat
    BY DEF FileInv, Reservation
  <2>2. QED
    BY <2>1, NothingHeld DEF Live
<1>3. QED
  BY <1>1, <1>2, WithinShrinks DEF FileInv

\* A step that writes what a try to hold left, with p's part beside it.
LEMMA WriteKeeps ==
    ASSUME FileInv, NEW p \in Runs, NEW try, Kept(try, Live, p), NEW o \in Own,
           Agree(try.ledger, o, p), ~try.wrote => o.broken,
           Write(try), own' = [own EXCEPT ![p] = o]
    PROVE  FileInv'
<1>1. own' \in [Runs -> Own] /\ own'[p] = o /\ \A q \in Runs \ {p} : own'[q] = own[q]
  BY DEF FileInv
<1>2. CASE try.wrote
  <2>1. ledger' = try.ledger /\ orphans' = {}
    BY <1>2 DEF Write
  <2>2. ledger' \in [Ids -> Reservation] /\ WithinButForTheOldest(ledger')
    BY <2>1 DEF Kept
  <2>3. \A r \in Ids : Live'[r] = try.ledger[r]
    BY <2>1 DEF Live
  <2>4. ASSUME NEW q \in Runs PROVE Agree(Live', own'[q], q)
    <3>1. q \in Ids
      BY DEF Ids
    <3>2. CASE q = p
      BY <1>1, <2>3, <3>1, <3>2 DEF Agree
    <3>3. CASE q # p
      <4>1. Live'[q] = Live[q]
        BY <2>3, <3>1, <3>3 DEF Kept
      <4>2. QED
        BY <1>1, <3>3, <4>1 DEF Agree, FileInv
    <3>4. QED
      BY <3>2, <3>3
  <2>5. WithinButForTheOldest(ledger)'
    BY <2>2 DEF WithinButForTheOldest, Oldest, Mb, Units, Holders
  <2>6. QED
    BY <1>1, <2>1, <2>2, <2>4, <2>5 DEF FileInv
<1>3. CASE ~try.wrote
  <2>1. ledger' = ledger /\ orphans' = orphans /\ o.broken
    BY <1>3 DEF Write
  <2>2. Live' = Live
    BY <2>1 DEF Live
  <2>3. ASSUME NEW q \in Runs PROVE Agree(Live', own'[q], q)
    BY <1>1, <2>1, <2>2 DEF Agree, FileInv
  <2>4. WithinButForTheOldest(ledger)'
    BY <2>1 DEF FileInv, WithinButForTheOldest, Oldest, Mb, Units, Holders
  <2>5. QED
    BY <1>1, <2>1, <2>3, <2>4 DEF FileInv
<1>4. QED
  BY <1>2, <1>3

\* A run the step leaves alone, or that holds and counts on nothing then.
StaysOrHasNothing(p) ==
    \/ Live'[p] = Live[p] /\ own'[p] = own[p]
    \/ own'[p].base = 0 /\ own'[p].extra = 0 /\ Live'[p].mb = 0

\* A step that leaves the file alone but for entries that become dead
\* processes', none of a run that counts on something.
LEMMA DeathKeeps ==
    ASSUME FileInv,
           ledger' = ledger, orphans' \in SUBSET Ids,
           own' \in [Runs -> Own],
           \A p \in Runs : StaysOrHasNothing(p)
    PROVE  FileInv'
<1>2. ASSUME NEW p \in Runs PROVE Agree(Live', own'[p], p)
  <2>1. CASE Live'[p] = Live[p] /\ own'[p] = own[p]
    BY <2>1 DEF Agree, FileInv
  <2>2. CASE own'[p].base = 0 /\ own'[p].extra = 0 /\ Live'[p].mb = 0
    BY <2>2 DEF Agree
  <2>3. QED
    BY <2>1, <2>2 DEF StaysOrHasNothing
<1>3. WithinButForTheOldest(ledger)'
  BY DEF FileInv, WithinButForTheOldest, Oldest, Mb, Units, Holders
<1>4. QED
  BY <1>2, <1>3 DEF FileInv

\* An update that takes p's entry out of the file, when p counts on nothing
\* afterwards or is a board.
LEMMA RemovalKeeps ==
    ASSUME FileInv, NEW p \in Ids, ledger' = [Live EXCEPT ![p] = NoEntry], orphans' = {},
           own' \in [Runs -> Own],
           \A q \in Runs \ {p} : own'[q] = own[q],
           p \in Runs => own'[p].base = 0 /\ own'[p].extra = 0
    PROVE  FileInv'
<1>1. Live \in [Ids -> Reservation] /\ WithinButForTheOldest(Live)
  BY LiveKeeps
<1>2. /\ ledger' \in [Ids -> Reservation]
      /\ ledger'[p] = NoEntry /\ \A r \in Ids \ {p} : ledger'[r] = Live[r]
  BY <1>1, NothingHeld
<1>3. WithinButForTheOldest(ledger')
  <2>1. \A r \in Ids : /\ ledger'[r].mb <= Live[r].mb
                       /\ ledger'[r].mb > 0 => ledger'[r].started = Live[r].started
    <3>1. \A r \in Ids : Live[r].mb \in Nat
      BY <1>1 DEF Reservation
    <3>2. QED
      BY <1>2, <3>1, NothingHeld
  <2>2. QED
    BY <1>1, <1>2, <2>1, WithinShrinks
<1>4. \A r \in Ids : Live'[r] = ledger'[r]
  BY DEF Live
<1>5. ASSUME NEW q \in Runs PROVE Agree(Live', own'[q], q)
  <2>1. q \in Ids
    BY DEF Ids
  <2>2. CASE q = p
    BY <1>2, <1>4, <2>1, <2>2, NothingHeld DEF Agree
  <2>3. CASE q # p
    <3>1. Live'[q] = Live[q] /\ own'[q] = own[q]
      BY <1>2, <1>4, <2>1, <2>3
    <3>2. QED
      BY <3>1 DEF Agree, FileInv
  <2>4. QED
    BY <2>2, <2>3
<1>6. WithinButForTheOldest(ledger)'
  BY <1>3 DEF WithinButForTheOldest, Oldest, Mb, Units, Holders
<1>7. QED
  BY <1>2, <1>5, <1>6 DEF FileInv

\* A round of hold keeps the invariant, and its check's mark with it.
LEMMA HoldRoundKeeps ==
    ASSUME FileInv, ProcessInv, NEW p \in Runs, NEW wish \in Request, NEW in \in Readings,
           pc[p] # "out", HoldRound(p, wish, in)
    PROVE  FileInv' /\ ProcessInv'
<1>1. Live \in [Ids -> Reservation] /\ WithinButForTheOldest(Live)
  BY LiveKeeps
<1>2. own[p] \in Own /\ Agree(Live, own[p], p) /\ now \in Nat
  BY DEF FileInv, ProcessInv
<1>3. wish.base \in Nat /\ wish.extra \in Nat /\ wish.raise \in Nat
  BY DEF Request
<1> DEFINE first == TryHold(Live, p, own[p], wish.base, wish.extra, TRUE, in)
           mark  == MarkCheck(first.ledger, p, first.own, wish.raise, in)
           try   == IF first.held /\ wish.raise > 0 THEN mark ELSE first
<1>4. Kept(first, Live, p)
  <2>1. TRUE \in BOOLEAN
    OBVIOUS
  <2>2. QED
    BY <1>1, <1>2, <1>3, <2>1, TryHoldKeeps
<1>5. Kept(mark, Live, p)
  <2> DEFINE o == [first.own EXCEPT !.checking = TRUE, !.raise = wish.raise]
  <2>1. first.own \in Own /\ first.ledger \in [Ids -> Reservation]
    BY <1>4 DEF Kept
  <2>2. /\ o \in Own /\ o.base = first.own.base /\ o.extra = first.own.extra
        /\ o.started = first.own.started /\ o.broken = first.own.broken
        /\ o.base \in Nat /\ o.extra \in Nat
    <3> HIDE DEF first
    <3>1. QED
      BY <1>3, <2>1 DEF Own
  <2>3. WithinButForTheOldest(first.ledger) /\ Agree(first.ledger, o, p)
    <3> HIDE DEF first, o
    <3>1. QED
      BY <1>4, <2>2 DEF Kept, Agree
  <2>4. mark = TryHold(first.ledger, p, o, o.base, o.extra, FALSE, in)
    <3> HIDE DEF first
    <3>1. mark = TryHold(first.ledger, p, o, first.own.base, first.own.extra, FALSE, in)
      BY DEF MarkCheck
    <3>2. QED
      BY <2>2, <3>1
  <2>5. Kept(mark, first.ledger, p)
    <3>1. FALSE \in BOOLEAN
      OBVIOUS
    <3> HIDE DEF first, o, mark
    <3>2. QED
      BY <1>2, <2>1, <2>2, <2>3, <2>4, <3>1, TryHoldKeeps
  <2> HIDE DEF first, mark
  <2>6. QED
    BY <1>4, <2>5 DEF Kept
<1>6. /\ Write(try)
      /\ own' = [own EXCEPT ![p] = try.own]
      /\ pc' = [pc EXCEPT ![p] = IF first.held THEN "idle" ELSE "waiting"]
      /\ request' = [request EXCEPT ![p] = IF first.held THEN NoRequest ELSE wish]
      /\ now' = now /\ board' = board
  BY DEF HoldRound
<1> HIDE DEF first, mark, try
<1>7. Kept(try, Live, p)
  BY <1>4, <1>5 DEF try
<1>8. FileInv'
  <2>1. try.own \in Own /\ Agree(try.ledger, try.own, p) /\ (~try.wrote => try.own.broken)
    BY <1>7 DEF Kept
  <2>2. QED
    BY <1>6, <1>7, <2>1, WriteKeeps
<1>9. ProcessInv'
  <2>1. request' \in [Runs -> Request]
    BY <1>6, NothingHeld DEF ProcessInv
  <2>2. pc' \in [Runs -> {"out", "idle", "waiting"}]
    BY <1>6 DEF ProcessInv
  <2>3. \A q \in Runs : pc'[q] = "out" => own'[q] = Unarmed
    BY <1>6 DEF ProcessInv, FileInv
  <2>4. QED
    BY <1>6, <2>1, <2>2, <2>3 DEF ProcessInv
<1>10. QED
  BY <1>8, <1>9

\* A try of a running process outside hold's loop (a check's mark and its
\* end, the watchdog's): its part may change beside what the try left.
LEMMA SingleTryKeeps ==
    ASSUME FileInv, ProcessInv, NEW p \in Runs, NEW before \in Own,
           before.base = own[p].base, before.extra = own[p].extra,
           before.started = own[p].started, before.broken = own[p].broken,
           NEW wish \in Nat, NEW extra \in Nat, NEW wait \in BOOLEAN, NEW in \in Readings,
           NEW try, try = TryHold(Live, p, before, wish, extra, wait, in),
           NEW after,
           try.own \in Own => /\ after \in Own
                              /\ after.base = try.own.base /\ after.extra = try.own.extra
                              /\ after.started = try.own.started
                              /\ after.broken = try.own.broken,
           pc[p] # "out", Write(try), own' = [own EXCEPT ![p] = after],
           UNCHANGED <<now, pc, request, board>>
    PROVE  FileInv' /\ ProcessInv'
<1>1. Live \in [Ids -> Reservation] /\ WithinButForTheOldest(Live)
  BY LiveKeeps
<1>2. Agree(Live, before, p) /\ now \in Nat
  BY DEF FileInv, ProcessInv, Agree
<1>3. Kept(try, Live, p)
  BY <1>1, <1>2, TryHoldKeeps
<1>4. after \in Own /\ Agree(try.ledger, after, p) /\ (~try.wrote => after.broken)
  BY <1>3 DEF Kept, Agree
<1>5. FileInv'
  BY <1>3, <1>4, WriteKeeps
<1>6. ProcessInv'
  BY DEF ProcessInv, FileInv
<1>7. QED
  BY <1>5, <1>6

\* A process that leaves by itself takes its entry with it, or leaves it to
\* the pid rule when it could not write the file.
LEMMA LeaveKeeps ==
    ASSUME FileInv, ProcessInv, NEW p \in Runs, Leave(p)
    PROVE  FileInv' /\ ProcessInv'
<1>1. /\ own' = [own EXCEPT ![p] = Unarmed]
      /\ pc' = [pc EXCEPT ![p] = "out"]
      /\ request' = [request EXCEPT ![p] = NoRequest]
      /\ now' = now /\ board' = board
  BY DEF Leave, Gone
<1>2. p \in Ids
  BY DEF Ids
<1>3. ProcessInv'
  BY <1>1, NothingHeld DEF ProcessInv, FileInv
<1>4. /\ own' \in [Runs -> Own] /\ own'[p] = Unarmed
      /\ \A q \in Runs \ {p} : own'[q] = own[q]
  BY <1>1, NothingHeld DEF FileInv
<1>5. CASE own[p].broken
  <2>1. ledger' = ledger /\ orphans' = orphans \cup {p}
    BY <1>5 DEF Leave
  <2>2. Live'[p].mb = 0
    BY <1>2, <2>1, NothingHeld DEF Live
  <2>3. FileInv'
    <3>1. orphans' \in SUBSET Ids
      BY <1>2, <2>1 DEF FileInv
    <3>2. \A q \in Runs \ {p} : Live'[q] = Live[q] /\ own'[q] = own[q]
      BY <1>4, <2>1 DEF Live, Ids
    <3>3. \A q \in Runs : StaysOrHasNothing(q)
      BY <1>4, <2>2, <3>2, NothingHeld DEF StaysOrHasNothing
    <3>4. QED
      BY <1>4, <2>1, <3>1, <3>3, DeathKeeps
  <2>4. QED
    BY <1>3, <2>3
<1>6. CASE ~own[p].broken
  <2>1. ledger' = [Live EXCEPT ![p] = NoEntry] /\ orphans' = {}
    BY <1>6 DEF Leave
  <2>2. FileInv'
    BY <1>2, <1>4, <2>1, NothingHeld, RemovalKeeps
  <2>3. QED
    BY <1>3, <2>2
<1>7. QED
  BY <1>5, <1>6

\* The steps of a binary's main thread and its watchdog.
LEMMA RunKeeps ==
    ASSUME FileInv, ProcessInv, NEW p \in Runs, RunNext(p)
    PROVE  FileInv' /\ ProcessInv'
<1>1. /\ own[p] \in Own /\ request[p] \in Request /\ now \in Nat
      /\ own[p].base \in Nat /\ own[p].extra \in Nat /\ own[p].raise \in Nat
      /\ p \in Ids /\ KicadCheck \in Nat /\ Sizes \subseteq Nat
  BY LedgerConstants, RuleConstants DEF FileInv, ProcessInv, Own, Ids
<1>2. CASE Arm(p)
  <2> DEFINE o == [Unarmed EXCEPT !.started = now]
  <2>1. o \in Own /\ o.base = 0 /\ o.extra = 0
    BY <1>1, NothingHeld DEF Own
  <2>2. /\ own' = [own EXCEPT ![p] = o] /\ pc' = [pc EXCEPT ![p] = "idle"]
        /\ UNCHANGED <<now, ledger, orphans, request, board>>
    BY <1>2 DEF Arm
  <2>3. own[p] = Unarmed
    BY <1>2 DEF Arm, ProcessInv
  <2> HIDE DEF o
  <2>9. Live'[p].mb = 0
    <3>1. Live' = Live
      BY <2>2 DEF Live
    <3>2. ~Unarmed.broken
      BY DEF Unarmed
    <3>3. QED
      BY <2>3, <3>1, <3>2, NothingHeld DEF FileInv, Agree
  <2>4. own' \in [Runs -> Own] /\ own'[p] = o /\ \A q \in Runs \ {p} : own'[q] = own[q]
    BY <2>1, <2>2 DEF FileInv
  <2>5. FileInv'
    <3>1. orphans' \in SUBSET Ids /\ ledger' = ledger /\ Live' = Live
      BY <2>2 DEF FileInv, Live
    <3>2. \A q \in Runs : StaysOrHasNothing(q)
      BY <2>1, <2>4, <2>9, <3>1 DEF StaysOrHasNothing
    <3>3. QED
      BY <2>4, <3>1, <3>2, DeathKeeps
  <2>6. ProcessInv'
    <3>1. pc' \in [Runs -> {"out", "idle", "waiting"}]
      BY <2>2 DEF ProcessInv
    <3>2. \A q \in Runs : pc'[q] = "out" => own'[q] = Unarmed
      BY <2>2, <2>4 DEF ProcessInv
    <3>3. QED
      BY <2>2, <3>1, <3>2 DEF ProcessInv
  <2>7. QED
    BY <2>5, <2>6
<1>3. ASSUME NEW size \in Sizes, NEW in \in Readings, Reserve(p, size, in)
      PROVE  FileInv' /\ ProcessInv'
  <2> DEFINE wish == [base |-> size, extra |-> own[p].extra, raise |-> 0, at |-> now]
  <2>1. wish \in Request /\ pc[p] # "out" /\ HoldRound(p, wish, in)
    BY <1>1, <1>3 DEF Reserve, Request
  <2> HIDE DEF wish
  <2>2. QED
    BY <2>1, HoldRoundKeeps
<1>4. ASSUME NEW in \in Readings, ReserveCheck(p, in)
      PROVE  FileInv' /\ ProcessInv'
  <2> DEFINE wish == [base |-> own[p].base, extra |-> KicadCheck, raise |-> 0, at |-> now]
  <2>1. wish \in Request /\ pc[p] # "out" /\ HoldRound(p, wish, in)
    BY <1>1, <1>4 DEF ReserveCheck, Request
  <2> HIDE DEF wish
  <2>2. QED
    BY <2>1, HoldRoundKeeps
<1>5. ASSUME NEW in \in Readings, StartCheck(p, in)
      PROVE  FileInv' /\ ProcessInv'
  <2> DEFINE raise == Larger(KicadCheck - own[p].extra, 0)
  <2>1. raise \in Nat /\ pc[p] # "out"
    BY <1>1, <1>5 DEF Larger, StartCheck
  <2>2. CASE raise > 0
    <3> DEFINE wish == [base |-> own[p].base, extra |-> own[p].extra + raise,
                        raise |-> raise, at |-> now]
    <3>1. HoldRound(p, wish, in)
      BY <1>5, <2>2 DEF StartCheck
    <3> HIDE DEF raise
    <3>2. wish \in Request
      BY <1>1, <2>1 DEF Request
    <3> HIDE DEF wish
    <3>3. QED
      BY <2>1, <3>1, <3>2, HoldRoundKeeps
  <2>3. CASE ~(raise > 0)
    <3> DEFINE mark   == MarkCheck(Live, p, own[p], 0, in)
               before == [own[p] EXCEPT !.checking = TRUE, !.raise = 0]
    <3>1. /\ Write(mark) /\ own' = [own EXCEPT ![p] = mark.own]
          /\ UNCHANGED <<now, pc, request, board>>
      BY <1>5, <2>3 DEF StartCheck
    <3>2. /\ before \in Own /\ before.base = own[p].base /\ before.extra = own[p].extra
          /\ before.started = own[p].started /\ before.broken = own[p].broken
      BY <1>1 DEF Own
    <3>3. mark = TryHold(Live, p, before, own[p].base, own[p].extra, FALSE, in)
      BY DEF MarkCheck
    <3>4. FALSE \in BOOLEAN
      OBVIOUS
    <3> HIDE DEF mark, before
    <3>5. QED
      BY <1>1, <2>1, <3>1, <3>2, <3>3, <3>4, SingleTryKeeps
  <2>4. QED
    BY <2>2, <2>3
<1>6. ASSUME NEW in \in Readings, Poll(p, in)
      PROVE  FileInv' /\ ProcessInv'
  <2>1. pc[p] # "out" /\ HoldRound(p, request[p], in)
    BY <1>6 DEF Poll
  <2>2. QED
    BY <1>1, <2>1, HoldRoundKeeps
<1>7. ASSUME NEW in \in Readings, EndCheck(p, in)
      PROVE  FileInv' /\ ProcessInv'
  <2> DEFINE extra == Larger(own[p].extra - own[p].raise, 0)
             try   == TryHold(Live, p, own[p], own[p].base, extra, FALSE, in)
             after == [try.own EXCEPT !.checking = FALSE, !.raise = 0]
  <2>1. /\ FALSE \in BOOLEAN /\ pc[p] # "out"
        /\ Write(try) /\ own' = [own EXCEPT ![p] = after]
        /\ UNCHANGED <<now, pc, request, board>>
    BY <1>7 DEF EndCheck
  <2>5. extra \in Nat
    BY <1>1 DEF Larger
  <2> HIDE DEF extra
  <2>2. try = TryHold(Live, p, own[p], own[p].base, extra, FALSE, in)
    OBVIOUS
  <2> HIDE DEF try
  <2>3. try.own \in Own => /\ after \in Own
                            /\ after.base = try.own.base /\ after.extra = try.own.extra
                            /\ after.started = try.own.started
                            /\ after.broken = try.own.broken
    BY DEF Own
  <2> HIDE DEF after
  <2>4. QED
    BY <1>1, <2>1, <2>2, <2>3, <2>5, SingleTryKeeps
<1>8. CASE Exit(p) \/ Exceeded(p) \/ \E capacity \in Capacities : GiveUp(p, capacity)
  BY <1>8, LeaveKeeps DEF Exit, Exceeded, GiveUp
<1>9. CASE Crash(p)
  <2>1. /\ own' = [own EXCEPT ![p] = Unarmed]
        /\ pc' = [pc EXCEPT ![p] = "out"]
        /\ request' = [request EXCEPT ![p] = NoRequest]
        /\ now' = now /\ board' = board
        /\ ledger' = ledger /\ orphans' = orphans \cup {p}
    BY <1>9 DEF Crash, Gone
  <2>2. Live'[p].mb = 0
    BY <1>1, <2>1, NothingHeld DEF Live
  <2>3. /\ own' \in [Runs -> Own] /\ own'[p] = Unarmed
        /\ \A q \in Runs \ {p} : own'[q] = own[q]
    BY <2>1, NothingHeld DEF FileInv
  <2>4. FileInv'
    <3>1. orphans' \in SUBSET Ids
      BY <1>1, <2>1 DEF FileInv
    <3>2. \A q \in Runs \ {p} : Live'[q] = Live[q] /\ own'[q] = own[q]
      BY <2>1, <2>3 DEF Live, Ids
    <3>3. \A q \in Runs : StaysOrHasNothing(q)
      BY <2>2, <2>3, <3>2, NothingHeld DEF StaysOrHasNothing
    <3>4. QED
      BY <2>1, <2>3, <3>1, <3>3, DeathKeeps
  <2>5. ProcessInv'
    BY <2>1, NothingHeld DEF ProcessInv, FileInv
  <2>6. QED
    BY <2>4, <2>5
<1>10. ASSUME NEW in \in Readings, NEW size \in Sizes, NEW past \in BOOLEAN,
              Grow(p, size, past, in)
       PROVE  FileInv' /\ ProcessInv'
  <2> DEFINE before == IF past /\ own[p].since = NoTime
                       THEN [own[p] EXCEPT !.since = own[p].heldSince] ELSE own[p]
             try    == TryHold(Live, p, before, size, before.extra, past, in)
             after  == [try.own EXCEPT !.over = ~try.held /\ (@ \/ past)]
  <2>1. /\ pc[p] # "out" /\ Write(try) /\ own' = [own EXCEPT ![p] = after]
        /\ UNCHANGED <<now, pc, request, board>>
    BY <1>10 DEF Grow, Watched
  <2>2. /\ before \in Own /\ before.base = own[p].base /\ before.extra = own[p].extra
        /\ before.started = own[p].started /\ before.broken = own[p].broken
        /\ before.extra \in Nat /\ size \in Nat
    BY <1>1 DEF Own
  <2> HIDE DEF before
  <2>3. try = TryHold(Live, p, before, size, before.extra, past, in)
    OBVIOUS
  <2> HIDE DEF try
  <2>4. try.own \in Own => /\ after \in Own
                            /\ after.base = try.own.base /\ after.extra = try.own.extra
                            /\ after.started = try.own.started
                            /\ after.broken = try.own.broken
    <3> DEFINE over == ~try.held /\ (try.own.over \/ past)
    <3>1. after = [try.own EXCEPT !.over = over] /\ over \in BOOLEAN
      OBVIOUS
    <3> HIDE DEF over, after
    <3>2. QED
      BY <3>1 DEF Own
  <2> HIDE DEF after
  <2>5. QED
    BY <2>1, <2>2, <2>3, <2>4, SingleTryKeeps
<1>11. ASSUME NEW in \in Readings, BackWithin(p, in)
       PROVE  FileInv' /\ ProcessInv'
  <2> DEFINE try   == TryHold(Live, p, own[p], own[p].base, own[p].extra, FALSE, in)
             after == [try.own EXCEPT !.over = FALSE]
  <2>1. /\ pc[p] # "out" /\ FALSE \in BOOLEAN
        /\ Write(try) /\ own' = [own EXCEPT ![p] = after]
        /\ UNCHANGED <<now, pc, request, board>>
    BY <1>11 DEF BackWithin, Watched
  <2>2. try = TryHold(Live, p, own[p], own[p].base, own[p].extra, FALSE, in)
    OBVIOUS
  <2> HIDE DEF try
  <2>3. try.own \in Own => /\ after \in Own
                            /\ after.base = try.own.base /\ after.extra = try.own.extra
                            /\ after.started = try.own.started
                            /\ after.broken = try.own.broken
    BY DEF Own
  <2> HIDE DEF after
  <2>4. QED
    BY <1>1, <2>1, <2>2, <2>3, SingleTryKeeps
<1>12. QED
  BY <1>2, <1>3, <1>4, <1>5, <1>6, <1>7, <1>8, <1>9, <1>10, <1>11 DEF RunNext

\* The entry of a board that holds its memory.
HeldFrom(e, at, mb, short, end, nightly) ==
    [e EXCEPT !.started = at, !.mb = mb, !.heldSince = at,
              !.short = short, !.end = end, !.nightly = nightly]

LEMMA HeldEntry ==
    ASSUME NEW e \in Reservation, NEW at \in Int, NEW mb \in Nat,
           NEW short \in BOOLEAN, NEW end \in Int, NEW nightly \in BOOLEAN
    PROVE  LET held == HeldFrom(e, at, mb, short, end, nightly)
           IN  held \in Reservation /\ held.mb = mb /\ held.started = at
  BY DEF Reservation, HeldFrom

\* The entry of a board that waits.
WaitsFrom(e, at, since, mb, nightly, floor, floored) ==
    [e EXCEPT !.started = since, !.wants = mb, !.since = since, !.refreshed = at,
              !.floor = floor, !.nightly = nightly, !.onFloor = floored]

LEMMA WaitingEntry ==
    ASSUME NEW e \in Reservation, NEW at \in Int, NEW since \in Int, NEW mb \in Nat,
           NEW nightly \in BOOLEAN, NEW floor \in Int, NEW floored \in BOOLEAN
    PROVE  LET waits == WaitsFrom(e, at, since, mb, nightly, floor, floored)
           IN  waits \in Reservation /\ waits.mb = e.mb
  BY DEF Reservation, WaitsFrom

\* A board's request keeps it: its entry holds what the harnesses' rule
\* allows, which is never more than may_hold allows a run that holds nothing.
LEMMA BoardTryKeeps ==
    ASSUME FileInv, ProcessInv, NEW b \in Boards, NEW ask \in Board,
           NEW in \in Readings, TryAdmit(b, ask, in)
    PROVE  FileInv' /\ ProcessInv'
<1> DEFINE L == [Live EXCEPT ![b] = NoEntry]
           entry == ledger'[b]
<1>1. /\ Live \in [Ids -> Reservation] /\ WithinButForTheOldest(Live)
      /\ b \in Ids /\ b \notin Runs /\ now \in Nat
  BY LiveKeeps, LedgerConstants DEF ProcessInv, Ids
<1>2. /\ L \in [Ids -> Reservation] /\ L[b] = NoEntry /\ DOMAIN L = Ids
      /\ \A r \in Ids \ {b} : L[r] = Live[r]
  BY <1>1, NothingHeld
<1>3. /\ ask.mb \in Nat /\ ask.since \in Int /\ ask.nightly \in BOOLEAN
      /\ ask.short \in BOOLEAN /\ ask.seconds \in Int
      /\ in.capacity \in Capacities /\ in.floor \in Nat
  BY LedgerConstants DEF Board, Readings
<1>4. WithinButForTheOldest(L)
  <2>1. \A r \in Ids : /\ L[r].mb <= Live[r].mb
                       /\ L[r].mb > 0 => L[r].started = Live[r].started
    <3>1. \A r \in Ids : Live[r].mb \in Nat
      BY <1>1 DEF Reservation
    <3> HIDE DEF L
    <3>2. QED
      BY <1>2, <3>1, NothingHeld
  <2> HIDE DEF L
  <2>2. QED
    BY <1>1, <1>2, <2>1, WithinShrinks
<1> DEFINE others == Ids \ {b}
           available == AvailableLessGrowth(L, others, in)
           end     == IF ask.seconds = NoTime THEN NoTime ELSE now + ask.seconds
           fits    == MemoryRoom(L, others, ask.mb, in.floor, in.capacity, available)
           short   == ask.short /\ ask.mb <= ShortOwn + KicadCheck
           nightly == ask.nightly
           floored == ~fits /\ Mb(L, others) + ask.mb <= in.capacity
           held    == [NoEntry EXCEPT !.started = now, !.mb = ask.mb, !.heldSince = now,
                                      !.short = short, !.end = end, !.nightly = nightly]
           waits   == [NoEntry EXCEPT !.started = ask.since, !.wants = ask.mb,
                                      !.since = ask.since, !.refreshed = now,
                                      !.floor = in.floor, !.nightly = nightly,
                                      !.onFloor = floored]
<1>5. \E admits \in BOOLEAN :
         /\ admits => fits
         /\ ledger' = [L EXCEPT ![b] = IF admits THEN held ELSE waits]
         /\ orphans' = {}
         /\ board' = [board EXCEPT ![b] = [ask EXCEPT !.pc = IF admits THEN "holding"
                                                             ELSE "waiting"]]
         /\ UNCHANGED <<now, own, pc, request>>
  BY DEF TryAdmit
<1>6. PICK admits \in BOOLEAN :
         /\ admits => fits
         /\ ledger' = [L EXCEPT ![b] = IF admits THEN held ELSE waits]
         /\ orphans' = {}
         /\ board' = [board EXCEPT ![b] = [ask EXCEPT !.pc = IF admits THEN "holding"
                                                             ELSE "waiting"]]
         /\ UNCHANGED <<now, own, pc, request>>
  BY <1>5
<1>7. held \in Reservation /\ held.mb = ask.mb /\ held.started = now
  <2>1. now \in Int /\ end \in Int /\ short \in BOOLEAN /\ nightly \in BOOLEAN
    BY <1>1, <1>3 DEF NoTime
  <2> HIDE DEF end, short, nightly
  <2>2. held = HeldFrom(NoEntry, now, ask.mb, short, end, nightly)
    BY DEF HeldFrom
  <2> HIDE DEF held
  <2>3. QED
    BY <1>3, <2>1, <2>2, NothingHeld, HeldEntry
<1>8. waits \in Reservation /\ waits.mb = 0
  <2>1. floored \in BOOLEAN /\ nightly \in BOOLEAN /\ now \in Int /\ in.floor \in Int
    BY <1>1, <1>3
  <2> HIDE DEF floored, nightly
  <2>2. waits = WaitsFrom(NoEntry, now, ask.since, ask.mb, nightly, in.floor, floored)
    BY DEF WaitsFrom
  <2> HIDE DEF waits
  <2>3. QED
    BY <1>3, <2>1, <2>2, NothingHeld, WaitingEntry
<1> HIDE DEF held, waits
<1>9. admits => MayHold(L, b, 0, now, ask.mb, in.capacity)
  <2> HIDE DEF L
  <2>1. QED
    BY <1>2, <1>6 DEF MemoryRoom, MayHold
<1> HIDE DEF fits
<1>10. /\ ledger' \in [Ids -> Reservation]
       /\ entry = IF admits THEN held ELSE waits
       /\ \A r \in Ids \ {b} : ledger'[r] = L[r]
  BY <1>1, <1>2, <1>6, <1>7, <1>8
<1> HIDE DEF L, entry
<1>11. WithinButForTheOldest(ledger')
  <2>1. CASE admits
    <3>1. entry.mb = ask.mb /\ entry.started = now
      BY <1>7, <1>10, <2>1
    <3>2. MayHold(L, b, 0, now, entry.mb, in.capacity) /\ now \in Int /\ 0 \in Nat
      BY <1>1, <1>9, <2>1, <3>1
    <3>3. entry = ledger'[b]
      BY DEF entry
    <3>4. QED
      BY <1>1, <1>2, <1>3, <1>4, <1>10, <3>1, <3>2, <3>3, WithinGrows
  <2>2. CASE ~admits
    <3>1. ledger'[b].mb = 0
      BY <1>8, <1>10, <2>2 DEF entry
    <3>2. \A r \in Ids : L[r].mb \in Nat
      BY <1>2 DEF Reservation
    <3>3. \A r \in Ids : /\ ledger'[r].mb <= L[r].mb
                         /\ ledger'[r].mb > 0 => ledger'[r].started = L[r].started
      BY <1>10, <3>1, <3>2
    <3>4. QED
      BY <1>2, <1>4, <1>10, <3>3, WithinShrinks
  <2>3. QED
    BY <2>1, <2>2
<1>12. FileInv'
  <2>1. ASSUME NEW p \in Runs PROVE Agree(Live', own'[p], p)
    <3>1. p \in Ids /\ p # b
      BY <1>1 DEF Ids
    <3>2. Live'[p] = ledger'[p]
      BY <1>6, <3>1 DEF Live
    <3>3. Live'[p] = Live[p] /\ own'[p] = own[p]
      BY <1>2, <1>6, <1>10, <3>1, <3>2
    <3>4. QED
      BY <3>3 DEF Agree, FileInv
  <2>2. WithinButForTheOldest(ledger)'
    BY <1>11 DEF WithinButForTheOldest, Oldest, Mb, Units, Holders
  <2>3. own' = own /\ orphans' \in SUBSET Ids
    BY <1>6
  <2>4. QED
    BY <1>10, <2>1, <2>2, <2>3 DEF FileInv
<1>13. ProcessInv'
  <2>1. [ask EXCEPT !.pc = IF admits THEN "holding" ELSE "waiting"] \in Board
    BY DEF Board
  <2>2. board' \in [Boards -> Board]
    BY <1>6, <2>1 DEF ProcessInv
  <2>3. QED
    BY <1>6, <2>2 DEF ProcessInv
<1>14. QED
  BY <1>12, <1>13

\* A board's entry is removed.
LEMMA RemoveBoardKeeps ==
    ASSUME FileInv, ProcessInv, NEW b \in Boards, RemoveBoard(b)
    PROVE  FileInv' /\ ProcessInv'
<1>1. /\ ledger' = [Live EXCEPT ![b] = NoEntry] /\ orphans' = {}
      /\ board' = [board EXCEPT ![b] = NoBoard]
      /\ own' = own /\ now' = now /\ pc' = pc /\ request' = request
  BY DEF RemoveBoard
<1>2. b \in Ids /\ b \notin Runs /\ own' \in [Runs -> Own]
  BY <1>1, LedgerConstants DEF Ids, FileInv
<1>3. FileInv'
  BY <1>1, <1>2, RemovalKeeps
<1>4. ProcessInv'
  BY <1>1, NothingHeld DEF ProcessInv
<1>5. QED
  BY <1>3, <1>4

\* The steps of a board.
LEMMA BoardKeeps ==
    ASSUME FileInv, ProcessInv, NEW b \in Boards, BoardNext(b)
    PROVE  FileInv' /\ ProcessInv'
<1>1. ASSUME NEW in \in Readings, NEW kind \in BoardKinds, AskBoard(b, kind, in)
      PROVE  FileInv' /\ ProcessInv'
  <2> DEFINE ask == [pc |-> "waiting", mb |-> kind.mb, nightly |-> kind.nightly,
                     short |-> kind.short, seconds |-> kind.seconds, since |-> now]
  <2>1. /\ kind.mb \in Nat /\ kind.nightly \in BOOLEAN /\ kind.short \in BOOLEAN
        /\ kind.seconds \in Int /\ now \in Int
    BY LedgerConstants DEF ProcessInv, NoTime
  <2>2. ask \in Board /\ TryAdmit(b, ask, in)
    BY <1>1, <2>1 DEF Board, AskBoard
  <2> HIDE DEF ask
  <2>3. QED
    BY <2>2, BoardTryKeeps
<1>2. ASSUME NEW in \in Readings, PollBoard(b, in)
      PROVE  FileInv' /\ ProcessInv'
  <2>1. board[b] \in Board /\ TryAdmit(b, board[b], in)
    BY <1>2 DEF ProcessInv, PollBoard
  <2>2. QED
    BY <2>1, BoardTryKeeps
<1>3. CASE EndBoard(b) \/ Withdraw(b)
  BY <1>3, RemoveBoardKeeps DEF EndBoard, Withdraw
<1>4. QED
  BY <1>1, <1>2, <1>3 DEF BoardNext

\* A harness that is killed leaves its boards' entries to the pid rule.
LEMMA HarnessDiesKeeps ==
    ASSUME FileInv, ProcessInv, HarnessDies
    PROVE  FileInv' /\ ProcessInv'
<1>1. /\ board' = [b \in Boards |-> NoBoard] /\ orphans' = orphans \cup Boards
      /\ now' = now /\ ledger' = ledger /\ own' = own /\ pc' = pc /\ request' = request
  BY DEF HarnessDies
<1>2. orphans' \in SUBSET Ids /\ own' \in [Runs -> Own]
  BY <1>1 DEF FileInv, Ids
<1>3. \A p \in Runs : p \in Ids /\ p \notin Boards
  BY LedgerConstants DEF Ids
<1>4. \A p \in Runs : StaysOrHasNothing(p)
  BY <1>1, <1>3 DEF StaysOrHasNothing, Live
<1>5. FileInv'
  BY <1>1, <1>2, <1>4, DeathKeeps
<1>6. ProcessInv'
  BY <1>1, NothingHeld DEF ProcessInv
<1>7. QED
  BY <1>5, <1>6

----------------------------------------------------------------------------
(* The invariant, and what follows from it.                                *)

LEMMA InitKeeps == Init => Inductive
<1> SUFFICES ASSUME Init PROVE FileInv /\ ProcessInv
  BY InductiveParts
<1>1. /\ ledger = [r \in Ids |-> NoEntry] /\ orphans = {}
      /\ own = [p \in Runs |-> Unarmed]
      /\ now = 0 /\ pc = [p \in Runs |-> "out"]
      /\ request = [p \in Runs |-> NoRequest] /\ board = [b \in Boards |-> NoBoard]
  BY DEF Init
<1>2. ProcessInv
  BY <1>1, NothingHeld DEF ProcessInv
<1>3. ledger \in [Ids -> Reservation] /\ own \in [Runs -> Own]
  BY <1>1, NothingHeld
<1>4. \A p \in Runs : Agree(Live, own[p], p)
  <2>1. ASSUME NEW p \in Runs PROVE Live[p].mb = 0 /\ own[p] = Unarmed
    BY <1>1, NothingHeld DEF Live, Ids
  <2>2. QED
    BY <2>1, NothingHeld DEF Agree
<1>5. WithinButForTheOldest(ledger)
  <2>1. Units(ledger, Ids) = {}
    BY <1>1, NothingHeld DEF Units
  <2>2. Mb(ledger, Ids) = 0
    BY <2>1, FS_EmptySet DEF Mb
  <2>3. QED
    BY <2>2, LedgerConstants DEF WithinButForTheOldest
<1>6. QED
  BY <1>1, <1>2, <1>3, <1>4, <1>5 DEF FileInv

LEMMA NextKeeps == Inductive /\ [Next]_vars => Inductive'
<1> SUFFICES ASSUME FileInv, ProcessInv, [Next]_vars PROVE FileInv' /\ ProcessInv'
  <2>1. Inductive' <=> FileInv' /\ ProcessInv'
    BY InductiveParts, PTL
  <2>2. QED
    BY <2>1, InductiveParts
<1>1. CASE \E p \in Runs : RunNext(p)
  BY <1>1, RunKeeps
<1>2. CASE \E b \in Boards : BoardNext(b)
  BY <1>2, BoardKeeps
<1>3. CASE HarnessDies
  BY <1>3, HarnessDiesKeeps
<1>4. CASE Tick \/ UNCHANGED vars
  <2>1. /\ ledger' = ledger /\ orphans' = orphans /\ own' = own /\ pc' = pc
        /\ request' = request /\ board' = board /\ now' \in Nat
    BY <1>4 DEF Tick, vars, ProcessInv
  <2>2. \A p \in Runs : StaysOrHasNothing(p)
    BY <2>1 DEF StaysOrHasNothing, Live
  <2>3. FileInv'
    <3>1. orphans' \in SUBSET Ids /\ own' \in [Runs -> Own]
      BY <2>1 DEF FileInv
    <3>2. QED
      BY <2>1, <2>2, <3>1, DeathKeeps
  <2>4. ProcessInv'
    BY <2>1 DEF ProcessInv
  <2>5. QED
    BY <2>3, <2>4
<1>5. QED
  BY <1>1, <1>2, <1>3, <1>4 DEF Next

\* The invariant holds of every behaviour of the ledger.
THEOREM InductiveHolds == Spec => []Inductive
<1>1. QED
  BY InitKeeps, NextKeeps, PTL DEF Spec

\* Every variable has its type: no rewrite of an entry makes a reservation
\* negative (a check gives back at most what the run's children have).
THEOREM TypeHolds == Spec => []TypeOK
<1>1. Inductive => TypeOK
  BY DEF Inductive
<1>2. QED
  BY <1>1, InductiveHolds, PTL

\* At most one run overcommits the machine, the oldest that holds memory:
\* every try to hold (may_hold), growth, check, release, crash and admission
\* of a board keeps the reservations without the oldest's within the
\* largest capacity any process reads.
THEOREM OvercommitHolds == Spec => []OnlyTheOldestOvercommits
<1>1. Inductive => OnlyTheOldestOvercommits
  BY DEF Inductive
<1>2. QED
  BY <1>1, InductiveHolds, PTL

\* The live entries say what the runs that can write the file count on
\* (OWN), whatever the watchdogs, refusals and reused pids do.
THEOREM FileHolds == Spec => []FileSaysWhatRunsHold
<1>1. Inductive => FileSaysWhatRunsHold
  BY DEF Inductive
<1>2. QED
  BY <1>1, InductiveHolds, PTL

----------------------------------------------------------------------------
(* The room of the first waiter.                                           *)

\* An entry that takes no room of a waiter's: it holds no more than it did,
\* since when it did, and it stays short.
Stays(old, new) ==
    new.mb > 0 => /\ new.mb <= old.mb /\ new.heldSince = old.heldSince
                  /\ old.short => new.short

\* A new request of r that goes is short, or passes no waiter before it.
GoesInOrder(L, r, new) ==
    /\ L[r].mb = 0 /\ new.wants = 0
    /\ \/ new.short
       \/ \E since \in Int, capacity \in Capacities :
            /\ \/ since = now
               \/ L[r].wants > 0 /\ L[r].since = since /\ Rank(L[r].nightly) = Rank(new.nightly)
            /\ OrderAllows(L, Ids \ {r}, <<Rank(new.nightly), since, r>>, new.mb, capacity)

\* What a step may make of r's entry.
Moved(L, r, new) ==
    \/ Stays(L[r], new)
    \/ L[r].mb > 0 /\ new.mb > L[r].mb
    \/ GoesInOrder(L, r, new)

\* A step writes one entry, or removes entries.
OneMoves(L, K) ==
    \/ \E r \in Ids : (\A s \in Ids \ {r} : K[s] = L[s]) /\ Moved(L, r, K[r])
    \/ \A r \in Ids : K[r] \in {L[r], NoEntry}

\* Reservations of which those that hold are among others that hold as much.
LEMMA MbWithin ==
    ASSUME NEW L \in [Ids -> Reservation], NEW K \in [Ids -> Reservation],
           NEW S \in SUBSET Ids, NEW T \in SUBSET Ids,
           \A r \in T : K[r].mb > 0 => r \in S /\ K[r].mb <= L[r].mb
    PROVE  Mb(K, T) <= Mb(L, S) /\ Mb(K, T) \in Nat /\ Mb(L, S) \in Nat
<1>1. IsFiniteSet(S) /\ IsFiniteSet(T) /\ \A r \in Ids : L[r].mb \in Nat /\ K[r].mb \in Nat
  BY LedgerConstants, FS_Subset DEF Reservation
<1>2. Units(K, T) \subseteq Units(L, S)
  <2> SUFFICES ASSUME NEW r \in T, NEW u \in {r} \X (1..K[r].mb)
               PROVE  r \in S /\ u \in {r} \X (1..L[r].mb)
    BY DEF Units
  <2>1. K[r].mb > 0
    BY <1>1
  <2>2. QED
    BY <1>1, <2>1
<1>3. IsFiniteSet(Units(L, S)) /\ Mb(L, S) \in Nat /\ Mb(K, T) \in Nat
  BY <1>1, UnitsFinite
<1>4. QED
  BY <1>2, <1>3, FS_Subset DEF Mb

\* Of two requests one comes first.
LEMMA OneComesFirst ==
    ASSUME NEW a \in Int, NEW b \in Int, NEW s \in Int, NEW t \in Int,
           NEW p \in Nat, NEW q \in Nat, p # q
    PROVE  LexLess(<<a, s, p>>, <<b, t, q>>) \/ LexLess(<<b, t, q>>, <<a, s, p>>)
  BY DEF LexLess

\* A request that is not short and passes no waiter leaves the first one its room.
LEMMA GoesBesideTheFirst ==
    ASSUME NEW L \in [Ids -> Reservation], NEW K \in [Ids -> Reservation],
           NEW w \in FirstWaiter(L, Ids), NEW r \in Ids, r # w,
           NEW key, LexLess(OrderKey(L, w), key),
           NEW capacity \in Capacities,
           OrderAllows(L, Ids \ {r}, key, K[r].mb, capacity),
           \A s \in Ids \ {r} : K[s] = L[s],
           K[w].wants = L[w].wants, K[w].since = L[w].since
    PROVE  RoomKept(K, w)
<1> DEFINE S     == Ids \ {r}
           rest  == {s \in S \ {w} : ~L[s].short}
           late  == Newer(L, rest, w)
           newer == {s \in Ids \ {w} : ~K[s].short /\ K[s].heldSince >= K[w].since}
<1>1. w \in Ids /\ L[w].wants \in Nat /\ K[r].mb \in Nat /\ K[r].mb >= 0
  BY DEF FirstWaiter, Waiters, Reservation
<1>2. w \in FirstWaiter(L, S) \cap Ahead(L, S, key)
  BY DEF FirstWaiter, Waiters, Ahead
<1>3. \/ Mb(L, rest) + K[r].mb + L[w].wants <= capacity
      \/ Mb(L, late) + K[r].mb + L[w].wants <= capacity
  BY <1>2 DEF OrderAllows
<1>4. newer \ {r} \subseteq late /\ late \subseteq rest /\ rest \subseteq Ids
  BY <1>1 DEF Newer
<1> HIDE DEF rest, late, newer
<1>5. \A s \in Ids : K[s].mb \in Nat /\ L[s].mb \in Nat
  BY DEF Reservation
<1>6. Mb(K, newer \ {r}) <= Mb(L, late) /\ Mb(K, newer \ {r}) <= Mb(L, rest)
      /\ Mb(K, newer \ {r}) \in Nat /\ Mb(L, late) \in Nat /\ Mb(L, rest) \in Nat
  <2>1. \A s \in newer \ {r} : K[s].mb <= L[s].mb /\ s \in late /\ s \in rest
    BY <1>4, <1>5
  <2>2. late \in SUBSET Ids /\ rest \in SUBSET Ids /\ newer \ {r} \in SUBSET Ids
    BY <1>4
  <2>3. QED
    BY <2>1, <2>2, MbWithin
<1>7. newer \subseteq Ids
  BY DEF newer
<1>8. Mb(K, newer) <= Mb(K, newer \ {r}) + K[r].mb /\ Mb(K, newer) \in Nat
  <2>1. CASE r \in newer
    <3>1. IsFiniteSet(newer) /\ \A s \in newer : K[s].mb \in Nat
      BY <1>5, <1>7, LedgerConstants, FS_Subset
    <3>2. Mb(K, newer) = Mb(K, newer \ {r}) + K[r].mb
      BY <2>1, <3>1, MbSplit
    <3>3. QED
      BY <1>1, <1>6, <3>2
  <2>2. CASE r \notin newer
    <3>1. newer \ {r} = newer
      BY <2>2
    <3>2. QED
      BY <1>1, <1>6, <3>1
  <2>3. QED
    BY <2>1, <2>2
<1>9. capacity <= MaxCapacity /\ capacity \in Nat /\ MaxCapacity \in Nat
  BY LedgerConstants
<1>10. Mb(K, newer) + L[w].wants <= MaxCapacity
  BY <1>1, <1>3, <1>6, <1>8, <1>9
<1>11. QED
  BY <1>10 DEF RoomKept, newer

\* Entries that go, or take no room, leave it too.
LEMMA StaysBesideTheFirst ==
    ASSUME NEW L \in [Ids -> Reservation], NEW K \in [Ids -> Reservation],
           NEW w \in FirstWaiter(L, Ids), RoomKept(L, w),
           \A s \in Ids : K[s].short \/ K[s] = L[s] \/ Stays(L[s], K[s]),
           K[w].wants = L[w].wants, K[w].since = L[w].since
    PROVE  RoomKept(K, w)
<1> DEFINE before == {s \in Ids \ {w} : ~L[s].short /\ L[s].heldSince >= L[w].since}
           after  == {s \in Ids \ {w} : ~K[s].short /\ K[s].heldSince >= K[w].since}
<1>1. /\ w \in Ids /\ L[w].wants \in Nat /\ MaxCapacity \in Nat
      /\ \A s \in Ids : L[s].mb \in Nat /\ K[s].mb \in Nat
  BY LedgerConstants DEF FirstWaiter, Waiters, Reservation
<1>2. ASSUME NEW s \in after, K[s].mb > 0
      PROVE  s \in before /\ K[s].mb <= L[s].mb
  <2>1. s \in Ids \ {w} /\ ~K[s].short /\ K[s].heldSince >= L[w].since
    OBVIOUS
  <2>2. K[s].mb <= L[s].mb /\ K[s].heldSince = L[s].heldSince /\ (L[s].short => K[s].short)
    BY <1>1, <1>2, <2>1 DEF Stays
  <2>3. QED
    BY <2>1, <2>2
<1>3. Mb(K, after) <= Mb(L, before) /\ Mb(K, after) \in Nat /\ Mb(L, before) \in Nat
  <2>1. before \in SUBSET Ids /\ after \in SUBSET Ids
    OBVIOUS
  <2> HIDE DEF before, after
  <2>2. QED
    BY <1>2, <2>1, MbWithin
<1>4. Mb(L, before) + L[w].wants <= MaxCapacity
  BY DEF RoomKept
<1>5. Mb(K, after) + K[w].wants <= MaxCapacity
  BY <1>1, <1>3, <1>4
<1>6. QED
  BY <1>5 DEF RoomKept

\* A step that moves one entry, or removes entries, leaves the first waiter its
\* room, as long as only later requests that held nothing begin to hold.
LEMMA RoomStaysKept ==
    ASSUME NEW L \in [Ids -> Reservation], NEW K \in [Ids -> Reservation], now \in Nat,
           OneMoves(L, K), NEW w \in FirstWaiter(L, Ids), RoomKept(L, w),
           K[w].wants = L[w].wants, K[w].since = L[w].since,
           \A r \in Ids : K[r].mb > L[r].mb =>
              /\ L[r].mb = 0
              /\ ~LexLess(<<Rank(K[r].nightly), now, r>>, OrderKey(L, w))
    PROVE  RoomKept(K, w)
<1>1. /\ w \in Ids /\ L[w].wants > 0 /\ L[w].since \in Int /\ Ids \subseteq Nat
      /\ \A v \in Waiters(L, Ids) \ {w} : LexLess(OrderKey(L, w), OrderKey(L, v))
      /\ \A s \in Ids : L[s].mb \in Nat /\ K[s].mb \in Nat
  BY LedgerConstants DEF FirstWaiter, Waiters, Reservation, Ids
<1>2. CASE \A r \in Ids : K[r] \in {L[r], NoEntry}
  <2>1. \A r \in Ids : K[r] = L[r] \/ Stays(L[r], K[r])
    BY <1>2, NothingHeld DEF Stays
  <2>2. QED
    BY <2>1, StaysBesideTheFirst
<1>3. ASSUME NEW r \in Ids, \A s \in Ids \ {r} : K[s] = L[s], Moved(L, r, K[r])
      PROVE  RoomKept(K, w)
  <2>1. CASE Stays(L[r], K[r]) \/ K[r].short
    <3>1. \A s \in Ids : K[s].short \/ K[s] = L[s] \/ Stays(L[s], K[s])
      BY <1>3, <2>1
    <3>2. QED
      BY <3>1, StaysBesideTheFirst
  <2>2. ~(L[r].mb > 0 /\ K[r].mb > L[r].mb)
    <3>1. SUFFICES ASSUME K[r].mb > L[r].mb PROVE ~(L[r].mb > 0)
      OBVIOUS
    <3>2. L[r].mb = 0
      BY <3>1
    <3>3. QED
      BY <3>2
  <2>3. CASE GoesInOrder(L, r, K[r]) /\ ~K[r].short /\ K[r].mb > L[r].mb
    <3>1. PICK since \in Int, capacity \in Capacities :
            /\ \/ since = now
               \/ /\ L[r].wants > 0 /\ L[r].since = since
                  /\ Rank(L[r].nightly) = Rank(K[r].nightly)
            /\ OrderAllows(L, Ids \ {r}, <<Rank(K[r].nightly), since, r>>, K[r].mb, capacity)
      BY <2>3 DEF GoesInOrder
    <3> DEFINE key == <<Rank(K[r].nightly), since, r>>
    <3>2. r # w
      BY <1>1, <2>3 DEF GoesInOrder
    <3>3. LexLess(OrderKey(L, w), key)
      <4>1. CASE since = now
        <5>1. ~LexLess(key, OrderKey(L, w))
          BY <1>1, <2>3, <4>1
        <5>2. Rank(L[w].nightly) \in Int /\ Rank(K[r].nightly) \in Int
          BY DEF Rank
        <5>3. w \in Nat /\ r \in Nat
          BY <1>1
        <5>4. QED
          BY <1>1, <3>2, <5>1, <5>2, <5>3, OneComesFirst DEF OrderKey
      <4>2. CASE L[r].wants > 0 /\ L[r].since = since /\ Rank(L[r].nightly) = Rank(K[r].nightly)
        BY <1>1, <3>2, <4>2 DEF OrderKey, Waiters
      <4>3. QED
        BY <3>1, <4>1, <4>2
    <3> HIDE DEF key
    <3>4. QED
      BY <1>3, <3>1, <3>2, <3>3, GoesBesideTheFirst DEF key
  <2>4. CASE GoesInOrder(L, r, K[r]) /\ K[r].mb <= L[r].mb
    BY <1>1, <2>1, <2>4 DEF GoesInOrder, Stays
  <2>5. QED
    BY <1>1, <1>3, <2>1, <2>2, <2>3, <2>4 DEF Moved
<1>4. QED
  BY <1>2, <1>3 DEF OneMoves

----------------------------------------------------------------------------
(* What the file says of the requests that wait.                           *)

\* The file's entry of p says since when p, whose own part is o, holds what
\* it holds, that it is short when it was, and since when it waits to begin.
Told(L, o, p) ==
    ~o.broken =>
        /\ ~L[p].nightly
        /\ L[p].mb > 0 => /\ o.heldSince # NoTime /\ L[p].heldSince = o.heldSince
                          /\ L[p].short => o.heldShort
        /\ o.base + o.extra = 0 /\ o.since # NoTime =>
               L[p].wants > 0 /\ L[p].since = o.since

\* A run that holds nothing either asks for something or does not wait.
AsksOrRests(o, wait, wanted) ==
    ~o.broken /\ o.base + o.extra = 0 => IF wait THEN wanted > 0 ELSE o.since = NoTime

\* What a try to hold makes of p's entry and of p's own part.
Moves(try, L, o, p, wait) ==
    /\ Told(try.ledger, try.own, p)
    /\ Moved(L, p, try.ledger[p])
    /\ try.held /\ ~try.own.broken => try.own.since = NoTime
    /\ ~try.own.broken /\ try.own.base + try.own.extra = 0 /\ try.own.since # NoTime =>
          wait /\ o.base + o.extra = 0

\* The fields of an entry.
LEMMA EntryFields ==
    ASSUME NEW p, NEW o, NEW mb \in Nat, NEW wants \in Nat, NEW answer, NEW short \in BOOLEAN
    PROVE  LET entry == Entry(p, o, mb, wants, answer, short)
           IN  /\ entry.mb = mb /\ entry.wants = wants /\ ~entry.nightly
               /\ wants > 0 => entry.since = answer.since
               /\ mb > 0 => entry.heldSince = IF o.heldSince = NoTime THEN now ELSE o.heldSince
               /\ entry.short <=> short /\ mb > 0
<1>1. CASE mb = 0 /\ wants = 0
  <2>1. Entry(p, o, mb, wants, answer, short) = NoEntry
    BY <1>1 DEF Entry
  <2>2. NoEntry.mb = 0 /\ NoEntry.wants = 0 /\ ~NoEntry.nightly /\ ~NoEntry.short
    BY DEF NoEntry
  <2>3. QED
    BY <1>1, <2>1, <2>2
<1>2. CASE ~(mb = 0 /\ wants = 0)
  <2> DEFINE since     == IF wants > 0 THEN answer.since ELSE NoTime
             heldSince == IF mb = 0 THEN NoTime
                          ELSE IF o.heldSince = NoTime THEN now ELSE o.heldSince
             onFloor   == wants > 0 /\ answer.onFloor
             floor     == IF wants > 0 THEN answer.floor ELSE 0
             refreshed == IF wants > 0 THEN now ELSE NoTime
             isShort   == short /\ mb > 0
             entry     == Entry(p, o, mb, wants, answer, short)
  <2>1. entry =
          [started |-> o.started, mb |-> mb, wants |-> wants, since |-> since,
           heldSince |-> heldSince, onFloor |-> onFloor, floor |-> floor,
           refreshed |-> refreshed, end |-> NoTime, nightly |-> FALSE,
           short |-> isShort]
    BY <1>2 DEF Entry, NoEntry
  <2> HIDE DEF since, heldSince, onFloor, floor, refreshed, isShort, entry
  <2>2. /\ entry.mb = mb /\ entry.wants = wants /\ ~entry.nightly
        /\ entry.since = since /\ entry.heldSince = heldSince /\ (entry.short <=> isShort)
    BY <2>1
  <2>3. /\ wants > 0 => since = answer.since
        /\ mb > 0 => heldSince = IF o.heldSince = NoTime THEN now ELSE o.heldSince
        /\ isShort <=> short /\ mb > 0
    BY DEF since, heldSince, isShort
  <2> HIDE DEF entry
  <2>4. entry = Entry(p, o, mb, wants, answer, short)
    BY DEF entry
  <2>5. QED
    BY <2>2, <2>3, <2>4
<1>3. QED
  BY <1>1, <1>2

\* What an answer says of a run that holds nothing, and of one that does.
LEMMA AnswerReads ==
    ASSUME now \in Nat, NEW L, NEW p \in Runs, NEW o \in Own,
           NEW base \in Nat, NEW extra \in Nat, NEW in \in Readings
    PROVE  LET held   == o.base + o.extra
               answer == Answer(L, p, o, base, extra, in)
           IN  /\ answer.since = IF o.since = NoTime THEN now ELSE o.since
               /\ held > 0 => (answer.short <=> o.heldShort)
               /\ held > 0 /\ base + extra <= held => answer.fits
               /\ held = 0 /\ L[p].mb = 0 /\ answer.fits /\ ~answer.short =>
                     OrderAllows(L, Ids \ {p}, <<1, answer.since, p>>, base + extra, in.capacity)
<1> DEFINE answer == Answer(L, p, o, base, extra, in)
           held   == o.base + o.extra
<1>1. held \in Nat /\ o.heldShort \in BOOLEAN
  BY DEF Own
<1>2. answer.since = IF o.since = NoTime THEN now ELSE o.since
  BY DEF Answer
<1>3. ASSUME held > 0
      PROVE  (answer.short <=> o.heldShort) /\ (base + extra <= held => answer.fits)
  <2>1. ~(held = 0)
    BY <1>1, <1>3
  <2> HIDE DEF held
  <2>2. answer.short <=> o.heldShort
    BY <1>1, <1>3, <2>1 DEF Answer, held
  <2>3. base + extra <= held => answer.fits
    BY <1>3, <2>1 DEF Answer, held
  <2>4. QED
    BY <2>2, <2>3
<1>4. ASSUME held = 0, L[p].mb = 0, answer.fits, ~answer.short
      PROVE  OrderAllows(L, Ids \ {p}, <<1, answer.since, p>>, base + extra, in.capacity)
  BY <1>4 DEF Answer
<1>5. QED
  BY <1>2, <1>3, <1>4

\* One try to hold, whatever it answers.
LEMMA TryMoves ==
    ASSUME now \in Nat, NEW L \in [Ids -> Reservation], NEW p \in Runs, NEW o \in Own,
           Agree(L, o, p), Told(L, o, p),
           NEW wish \in Nat, NEW extra \in Nat, NEW wait \in BOOLEAN, NEW in \in Readings,
           AsksOrRests(o, wait, wish + extra)
    PROVE  Moves(TryHold(L, p, o, wish, extra, wait, in), L, o, p, wait)
<1> DEFINE base   == Larger(wish, o.base)
           held   == o.base + o.extra
           answer == Answer(L, p, o, base, extra, in)
           wanted == base + extra
           wants  == IF wait THEN wanted ELSE 0
           try    == TryHold(L, p, o, wish, extra, wait, in)
<1>1. /\ base \in Nat /\ held \in Nat /\ wanted \in Nat /\ wants \in Nat
      /\ o.heldShort \in BOOLEAN /\ o.broken \in BOOLEAN /\ wanted >= wish + extra
      /\ 0 \in Nat /\ o.since \in Int /\ o.heldSince \in Int
      /\ o.base \in Nat /\ o.extra \in Nat
  BY DEF Larger, Own
<1>2. /\ answer \in Answers
      /\ answer.since = IF o.since = NoTime THEN now ELSE o.since
      /\ held > 0 => (answer.short <=> o.heldShort)
      /\ held > 0 /\ wanted <= held => answer.fits
      /\ held = 0 /\ L[p].mb = 0 /\ answer.fits /\ ~answer.short =>
            OrderAllows(L, Ids \ {p}, <<1, answer.since, p>>, wanted, in.capacity)
  <2>1. answer \in Answers
    BY <1>1, AnswerOfTheRules
  <2>2. /\ answer.since = IF o.since = NoTime THEN now ELSE o.since
        /\ held > 0 => (answer.short <=> o.heldShort)
        /\ held > 0 /\ wanted <= held => answer.fits
        /\ held = 0 /\ L[p].mb = 0 /\ answer.fits /\ ~answer.short =>
              OrderAllows(L, Ids \ {p}, <<1, answer.since, p>>, wanted, in.capacity)
    <3>1. base \in Nat
      BY <1>1
    <3> HIDE DEF base
    <3>2. QED
      BY ONLY <3>1, now \in Nat, L \in [Ids -> Reservation], p \in Runs, o \in Own,
              extra \in Nat, in \in Readings, AnswerReads DEF answer, held, wanted
  <2>3. QED
    BY <2>1, <2>2
<1>3. p \in Ids /\ in.capacity \in Capacities /\ L[p].mb \in Nat
  BY DEF Ids, Readings, Reservation
<1>4. CASE o.broken \/ ~in.writable
  <2> DEFINE o2 == [o EXCEPT !.broken = TRUE, !.base = base, !.extra = extra]
  <2>1. try = [held |-> TRUE, wrote |-> FALSE, ledger |-> L, own |-> o2]
    BY <1>4 DEF TryHold
  <2>2. o2.broken
    BY DEF Own
  <2>3. Moved(L, p, L[p])
    BY <1>3 DEF Moved, Stays
  <2> HIDE DEF o2, try
  <2>4. QED
    BY <2>1, <2>2, <2>3 DEF Moves, Told, try
<1>5. CASE ~o.broken /\ in.writable /\ answer.fits
  <2> DEFINE entry == Entry(p, o, wanted, 0, answer, answer.short)
             o2 == [o EXCEPT
                      !.base = base, !.extra = extra, !.since = NoTime,
                      !.heldShort = answer.short /\ base + extra > 0,
                      !.heldSince = IF base + extra > 0 /\ @ = NoTime THEN now ELSE @]
  <2>1. try = [held |-> TRUE, wrote |-> TRUE, ledger |-> [L EXCEPT ![p] = entry],
               own |-> o2]
    BY <1>5 DEF TryHold
  <2>2. /\ entry.mb = wanted /\ entry.wants = 0 /\ ~entry.nightly
        /\ wanted > 0 => entry.heldSince = IF o.heldSince = NoTime THEN now ELSE o.heldSince
        /\ entry.short <=> answer.short /\ wanted > 0
    <3>1. answer.short \in BOOLEAN
      BY <1>2 DEF Answers
    <3> HIDE DEF answer, wanted
    <3>2. QED
      BY <1>1, <3>1, EntryFields
  <2>3. /\ o2.since = NoTime
        /\ o2.heldShort <=> answer.short /\ wanted > 0
        /\ wanted > 0 => o2.heldSince = IF o.heldSince = NoTime THEN now ELSE o.heldSince
    <3> HIDE DEF answer, base
    <3>1. QED
      BY DEF Own
  <2>4. [L EXCEPT ![p] = entry][p] = entry
    BY <1>3
  <2>5. Moved(L, p, entry)
    <3>1. CASE wanted = 0
      BY <2>2, <3>1 DEF Moved, Stays
    <3>2. CASE held > 0 /\ wanted > 0
      <4>1. L[p].mb = held /\ o.heldSince # NoTime /\ L[p].heldSince = o.heldSince
            /\ (L[p].short => o.heldShort)
        BY <1>5, <3>2 DEF Agree, Told
      <4> HIDE DEF answer, wanted, held, entry
      <4>2. CASE wanted <= held
        BY <1>2, <2>2, <3>2, <4>1, <4>2 DEF Moved, Stays
      <4>3. CASE ~(wanted <= held)
        BY <1>1, <2>2, <3>2, <4>1, <4>3 DEF Moved
      <4>4. QED
        BY <4>2, <4>3
    <3>3. CASE held = 0 /\ wanted > 0
      <4>1. L[p].mb = 0
        BY <1>5, <3>3 DEF Agree
      <4>2. CASE answer.short
        BY <2>2, <3>3, <4>1, <4>2 DEF Moved, GoesInOrder
      <4>3. CASE ~answer.short
        <5>1. OrderAllows(L, Ids \ {p}, <<1, answer.since, p>>, wanted, in.capacity)
          BY <1>2, <1>5, <3>3, <4>1, <4>3
        <5>2. answer.since \in Int
          BY <1>2 DEF Answers
        <5>3. Rank(entry.nightly) = 1
          BY <2>2 DEF Rank
        <5>4. \/ answer.since = now
              \/ /\ L[p].wants > 0 /\ L[p].since = answer.since
                 /\ Rank(L[p].nightly) = Rank(entry.nightly)
          <6>1. CASE o.since = NoTime
            BY <1>2, <6>1
          <6>2. CASE o.since # NoTime
            <7>1. ~L[p].nightly /\ L[p].wants > 0 /\ L[p].since = o.since
              BY <1>5, <3>3, <6>2 DEF Told
            <7>2. Rank(L[p].nightly) = Rank(entry.nightly)
              BY <2>2, <7>1 DEF Rank
            <7>3. QED
              BY <1>2, <2>2, <6>2, <7>1, <7>2
          <6>3. QED
            BY <6>1, <6>2
        <5> HIDE DEF answer, entry, wanted, held
        <5>5. GoesInOrder(L, p, entry)
          BY <1>3, <2>2, <4>1, <5>1, <5>2, <5>3, <5>4 DEF GoesInOrder
        <5>6. QED
          BY <5>5 DEF Moved
      <4>4. QED
        BY <4>2, <4>3
    <3>4. QED
      BY <1>1, <3>1, <3>2, <3>3
  <2>6. Told([L EXCEPT ![p] = entry], o2, p)
    <3> HIDE DEF answer, wanted, entry, o2
    <3>1. now # NoTime
      BY DEF NoTime
    <3>2. QED
      BY <1>1, <2>2, <2>3, <2>4, <3>1 DEF Told
  <2> HIDE DEF o2, entry, base, answer, try
  <2>7. QED
    BY <2>1, <2>3, <2>4, <2>5, <2>6 DEF Moves, try
<1>6. CASE ~o.broken /\ in.writable /\ ~answer.fits
  <2> DEFINE entry == Entry(p, o, held, wants, answer, o.heldShort)
             o2 == [o EXCEPT !.since = IF wait THEN answer.since ELSE @]
  <2>1. try = [held |-> FALSE, wrote |-> TRUE, ledger |-> [L EXCEPT ![p] = entry],
               own |-> o2]
    BY <1>6 DEF TryHold
  <2>2. /\ entry.mb = held /\ entry.wants = wants /\ ~entry.nightly
        /\ wants > 0 => entry.since = answer.since
        /\ held > 0 => entry.heldSince = IF o.heldSince = NoTime THEN now ELSE o.heldSince
        /\ entry.short <=> o.heldShort /\ held > 0
    <3> HIDE DEF answer, held, wants
    <3>1. QED
      BY <1>1, EntryFields
  <2>3. /\ o2.since = IF wait THEN answer.since ELSE o.since
        /\ o2.base = o.base /\ o2.extra = o.extra /\ o2.broken = o.broken
        /\ o2.heldShort = o.heldShort /\ o2.heldSince = o.heldSince
    <3> HIDE DEF answer
    <3>1. QED
      BY DEF Own
  <2>4. [L EXCEPT ![p] = entry][p] = entry
    BY <1>3
  <2>5. L[p].mb = held
        /\ (held > 0 => /\ o.heldSince # NoTime /\ L[p].heldSince = o.heldSince
                        /\ L[p].short => o.heldShort)
    BY <1>6 DEF Agree, Told
  <2>6. Moved(L, p, entry)
    <3> HIDE DEF answer, held, wants, entry
    <3>1. Stays(L[p], entry)
      BY <1>1, <1>3, <2>2, <2>5 DEF Stays
    <3>2. QED
      BY <3>1 DEF Moved
  <2>7. held = 0 => IF wait THEN wanted > 0 ELSE o.since = NoTime
    <3>1. SUFFICES ASSUME held = 0, wait PROVE wanted > 0
      BY <1>6 DEF AsksOrRests
    <3>2. wish + extra > 0
      BY <1>6, <3>1 DEF AsksOrRests
    <3> HIDE DEF wanted
    <3>3. QED
      BY <1>1, <3>2
  <2>8. Told([L EXCEPT ![p] = entry], o2, p)
    <3> HIDE DEF answer, wanted, entry, o2
    <3>1. QED
      BY <1>1, <1>2, <2>2, <2>3, <2>4, <2>5, <2>7 DEF Told
  <2> HIDE DEF o2, entry, answer, try
  <2>9. QED
    BY <1>1, <2>1, <2>3, <2>4, <2>6, <2>7, <2>8 DEF Moves, try
<1>7. QED
  BY <1>1, <1>4, <1>5, <1>6

\* An entry rewritten with what it holds moves as the entry it rewrites.
LEMMA MovedThenMarked ==
    ASSUME NEW L \in [Ids -> Reservation], NEW r \in Ids,
           NEW first \in Reservation, NEW then \in Reservation, Moved(L, r, first),
           then.mb > 0 =>
              /\ then.mb = first.mb /\ then.wants = 0 /\ Stays(first, then)
              /\ Rank(then.nightly) = Rank(first.nightly)
    PROVE  Moved(L, r, then)
<1>1. L[r].mb \in Nat /\ first.mb \in Nat /\ then.mb \in Nat
  BY DEF Reservation
<1>2. CASE then.mb = 0
  BY <1>2 DEF Moved, Stays
<1>3. CASE then.mb > 0 /\ Stays(L[r], first)
  BY <1>1, <1>3 DEF Moved, Stays
<1>4. CASE then.mb > 0 /\ L[r].mb > 0 /\ first.mb > L[r].mb
  BY <1>4 DEF Moved
<1>5. CASE then.mb > 0 /\ GoesInOrder(L, r, first)
  <2>1. /\ L[r].mb = 0 /\ then.mb = first.mb /\ then.wants = 0
        /\ first.short => then.short
        /\ Rank(then.nightly) = Rank(first.nightly)
    BY <1>5 DEF GoesInOrder, Stays
  <2>2. GoesInOrder(L, r, then)
    BY <1>5, <2>1 DEF GoesInOrder
  <2>3. QED
    BY <2>2 DEF Moved
<1>6. QED
  BY <1>1, <1>2, <1>3, <1>4, <1>5 DEF Moved

\* The mark of a check rewrites the entry with what it holds.
LEMMA MarkMoves ==
    ASSUME now \in Nat, NEW L \in [Ids -> Reservation], NEW p \in Runs, NEW o \in Own,
           Agree(L, o, p), Told(L, o, p), NEW in \in Readings
    PROVE  LET mark == TryHold(L, p, o, o.base, o.extra, FALSE, in)
           IN  mark.ledger[p].mb > 0 =>
                  \/ mark.ledger[p] = L[p]
                  \/ /\ mark.ledger[p].mb = L[p].mb /\ mark.ledger[p].wants = 0
                     /\ Stays(L[p], mark.ledger[p])
                     /\ Rank(mark.ledger[p].nightly) = Rank(L[p].nightly)
<1> DEFINE held   == o.base + o.extra
           base   == Larger(o.base, o.base)
           answer == Answer(L, p, o, base, o.extra, in)
           mark   == TryHold(L, p, o, o.base, o.extra, FALSE, in)
<1>1. /\ base = o.base /\ o.base \in Nat /\ o.extra \in Nat /\ held \in Nat
      /\ p \in Ids /\ L[p].mb \in Nat /\ 0 \in Nat
      /\ o.heldShort \in BOOLEAN
  BY DEF Own, Larger, Ids, Reservation
<1>2. answer \in Answers /\ (held > 0 => answer.fits /\ (answer.short <=> o.heldShort))
  <2>1. answer \in Answers
    BY <1>1, AnswerOfTheRules
  <2>2. held > 0 /\ base + o.extra <= held => answer.fits
    BY ONLY <1>1, now \in Nat, L \in [Ids -> Reservation], p \in Runs, o \in Own,
            in \in Readings, AnswerReads DEF answer, held, base
  <2>3. held > 0 => (answer.short <=> o.heldShort)
    BY ONLY <1>1, now \in Nat, L \in [Ids -> Reservation], p \in Runs, o \in Own,
            in \in Readings, AnswerReads DEF answer, held, base
  <2>4. QED
    BY <1>1, <2>1, <2>2, <2>3
<1>3. CASE o.broken \/ ~in.writable
  <2>1. mark.ledger = L
    BY <1>3 DEF TryHold
  <2>2. QED
    BY <2>1
<1>4. CASE ~o.broken /\ in.writable /\ answer.fits
  <2> DEFINE entry == Entry(p, o, base + o.extra, 0, answer, answer.short)
  <2>1. mark.ledger[p] = entry
    BY <1>1, <1>4 DEF TryHold
  <2>2. base + o.extra = held /\ answer.short \in BOOLEAN
    BY <1>1, <1>2 DEF Answers
  <2>3. /\ entry.mb = held /\ entry.wants = 0 /\ ~entry.nightly
        /\ held > 0 => entry.heldSince = IF o.heldSince = NoTime THEN now ELSE o.heldSince
        /\ entry.short <=> answer.short /\ held > 0
    <3> HIDE DEF answer, held, base
    <3>1. QED
      BY <1>1, <2>2, EntryFields
  <2>4. held > 0 =>
          /\ L[p].mb = held /\ o.heldSince # NoTime /\ L[p].heldSince = o.heldSince
          /\ L[p].short => o.heldShort
          /\ ~L[p].nightly
    BY <1>4 DEF Agree, Told
  <2> HIDE DEF answer, held, base, entry, mark
  <2>5. entry.mb > 0 => /\ entry.mb = L[p].mb /\ Stays(L[p], entry)
                        /\ Rank(entry.nightly) = Rank(L[p].nightly)
    BY <1>1, <1>2, <2>3, <2>4 DEF Stays, Rank
  <2>6. QED
    BY <2>1, <2>3, <2>5 DEF mark
<1>5. CASE ~o.broken /\ in.writable /\ ~answer.fits
  <2> DEFINE entry == Entry(p, o, held, 0, answer, o.heldShort)
  <2>1. mark.ledger[p] = entry
    BY <1>1, <1>5 DEF TryHold
  <2>2. entry.mb = held
    <3> HIDE DEF answer, held
    <3>1. QED
      BY <1>1, EntryFields
  <2> HIDE DEF answer, entry, mark
  <2>3. ~(entry.mb > 0)
    BY <1>1, <1>2, <1>5, <2>2
  <2>4. QED
    BY <2>1, <2>3 DEF mark
<1>6. QED
  BY <1>3, <1>4, <1>5 DEF Own

----------------------------------------------------------------------------
(* The steps, and what the file says.                                      *)

\* The file and a run's own part, and where its main thread is.
RunTold(p) ==
    /\ Told(Live, own[p], p)
    /\ ~own[p].broken /\ own[p].base + own[p].extra = 0 /\ own[p].since # NoTime =>
          pc[p] = "waiting"
    /\ pc[p] = "waiting" => request[p].base + request[p].extra > 0

\* The file and a board's request.
BoardTold(b) ==
    /\ board[b].pc # "holding" => Live[b].mb = 0
    /\ board[b].pc = "waiting" =>
          /\ Live[b].wants > 0 /\ board[b].mb > 0
          /\ Live[b].since = board[b].since
          /\ Rank(Live[b].nightly) = Rank(board[b].nightly)

AllTold ==
    /\ \A p \in Runs : RunTold(p)
    /\ \A b \in Boards : BoardTold(b)

\* A step of p that leaves the others' requests and entries alone.
LEMMA RunToldKeeps ==
    ASSUME AllTold, FileInv, ProcessInv, NEW p \in Runs,
           \A r \in Ids \ {p} : Live'[r] = Live[r],
           \A q \in Runs \ {p} : /\ own'[q] = own[q] /\ pc'[q] = pc[q]
                                 /\ request'[q] = request[q],
           board' = board,
           RunTold(p)'
    PROVE  AllTold'
<1>1. ASSUME NEW q \in Runs PROVE RunTold(q)'
  <2>1. CASE q = p
    BY <2>1
  <2>2. CASE q # p
    <3>1. q \in Ids \ {p}
      BY <2>2 DEF Ids
    <3>2. Live'[q] = Live[q] /\ own'[q] = own[q] /\ pc'[q] = pc[q] /\ request'[q] = request[q]
      BY <2>2, <3>1
    <3>3. RunTold(q)
      BY DEF AllTold
    <3>4. QED
      BY <3>2, <3>3 DEF RunTold, Told
  <2>3. QED
    BY <2>1, <2>2
<1>2. ASSUME NEW b \in Boards PROVE BoardTold(b)'
  <2>1. b \in Ids \ {p}
    BY LedgerConstants DEF Ids
  <2>2. Live'[b] = Live[b] /\ board'[b] = board[b]
    BY <2>1
  <2>3. BoardTold(b)
    BY DEF AllTold
  <2>4. QED
    BY <2>2, <2>3 DEF BoardTold
<1>3. QED
  BY <1>1, <1>2 DEF AllTold

\* A step that writes what a try to hold left.
LEMMA WriteMoves ==
    ASSUME FileInv, NEW p \in Runs, NEW try, Kept(try, Live, p), Write(try),
           Moved(Live, p, try.ledger[p])
    PROVE  /\ \A r \in Ids \ {p} : Live'[r] = Live[r]
           /\ try.wrote => Live'[p] = try.ledger[p]
           /\ OneMoves(Live, Live')
<1>1. p \in Ids
  BY DEF Ids
<1>2. CASE try.wrote
  <2>1. \A r \in Ids : Live'[r] = try.ledger[r]
    BY <1>2 DEF Write, Live
  <2>2. \A r \in Ids \ {p} : Live'[r] = Live[r]
    BY <2>1 DEF Kept
  <2>3. Live'[p] = try.ledger[p]
    BY <1>1, <2>1
  <2>4. Moved(Live, p, Live'[p])
    BY <2>3
  <2>5. QED
    BY <1>1, <2>2, <2>3, <2>4 DEF OneMoves
<1>3. CASE ~try.wrote
  <2>1. Live' = Live
    BY <1>3 DEF Write, Live
  <2>2. QED
    BY <1>3, <2>1 DEF OneMoves
<1>4. QED
  BY <1>2, <1>3 DEF Kept

\* A round of hold, and its check's mark with it.
LEMMA HoldRoundMoves ==
    ASSUME FileInv, ProcessInv, AllTold, NEW p \in Runs, NEW wish \in Request,
           NEW in \in Readings, wish.base + wish.extra > 0, HoldRound(p, wish, in)
    PROVE  AllTold' /\ OneMoves(Live, Live')
<1>1. /\ Live \in [Ids -> Reservation] /\ WithinButForTheOldest(Live)
      /\ own[p] \in Own /\ Agree(Live, own[p], p) /\ now \in Nat /\ p \in Ids
      /\ Told(Live, own[p], p)
      /\ wish.base \in Nat /\ wish.extra \in Nat /\ wish.raise \in Nat
  BY LiveKeeps DEF FileInv, ProcessInv, AllTold, RunTold, Request, Ids
<1> DEFINE first == TryHold(Live, p, own[p], wish.base, wish.extra, TRUE, in)
           mark  == MarkCheck(first.ledger, p, first.own, wish.raise, in)
           try   == IF first.held /\ wish.raise > 0 THEN mark ELSE first
<1>2. Kept(first, Live, p) /\ Moves(first, Live, own[p], p, TRUE)
  <2>1. TRUE \in BOOLEAN /\ AsksOrRests(own[p], TRUE, wish.base + wish.extra)
    BY DEF AsksOrRests
  <2>2. QED
    BY <1>1, <2>1, TryHoldKeeps, TryMoves
<1> DEFINE o == [first.own EXCEPT !.checking = TRUE, !.raise = wish.raise]
<1>3. /\ first.own \in Own /\ first.ledger \in [Ids -> Reservation]
      /\ Agree(first.ledger, first.own, p) /\ Told(first.ledger, first.own, p)
      /\ WithinButForTheOldest(first.ledger) /\ Moved(Live, p, first.ledger[p])
      /\ first.held /\ ~first.own.broken => first.own.since = NoTime
      /\ \A r \in Ids \ {p} : first.ledger[r] = Live[r]
  BY <1>2 DEF Kept, Moves
<1>4. /\ mark = TryHold(first.ledger, p, o, first.own.base, first.own.extra, FALSE, in)
      /\ /\ Write(try)
         /\ own' = [own EXCEPT ![p] = try.own]
         /\ pc' = [pc EXCEPT ![p] = IF first.held THEN "idle" ELSE "waiting"]
         /\ request' = [request EXCEPT ![p] = IF first.held THEN NoRequest ELSE wish]
         /\ now' = now /\ board' = board
  BY DEF HoldRound, MarkCheck
<1> HIDE DEF first
<1>5. /\ o \in Own /\ o.base = first.own.base /\ o.extra = first.own.extra
      /\ o.started = first.own.started /\ o.broken = first.own.broken
      /\ o.since = first.own.since /\ o.heldSince = first.own.heldSince
      /\ o.heldShort = first.own.heldShort
      /\ o.base \in Nat /\ o.extra \in Nat
  BY <1>1, <1>3 DEF Own
<1> HIDE DEF o, mark
<1>6. mark = TryHold(first.ledger, p, o, o.base, o.extra, FALSE, in)
  BY <1>4, <1>5
<1>7. Agree(first.ledger, o, p) /\ Told(first.ledger, o, p)
  BY <1>3, <1>5 DEF Agree, Told
<1>8. ASSUME first.held
      PROVE  /\ Kept(mark, Live, p) /\ Told(mark.ledger, mark.own, p)
             /\ Moved(Live, p, mark.ledger[p])
             /\ ~mark.own.broken /\ mark.own.base + mark.own.extra = 0 =>
                   mark.own.since = NoTime
  <2>1. FALSE \in BOOLEAN /\ AsksOrRests(o, FALSE, o.base + o.extra)
    BY <1>3, <1>5, <1>8 DEF AsksOrRests
  <2>2. Kept(mark, first.ledger, p)
    BY <1>1, <1>3, <1>5, <1>6, <1>7, <2>1, TryHoldKeeps
  <2>3. Moves(mark, first.ledger, o, p, FALSE)
    BY <1>1, <1>3, <1>5, <1>6, <1>7, <2>1, TryMoves
  <2>4. Kept(mark, Live, p)
    BY <1>3, <2>2 DEF Kept
  <2>5. mark.ledger[p].mb > 0 =>
          \/ mark.ledger[p] = first.ledger[p]
          \/ /\ mark.ledger[p].mb = first.ledger[p].mb /\ mark.ledger[p].wants = 0
             /\ Stays(first.ledger[p], mark.ledger[p])
             /\ Rank(mark.ledger[p].nightly) = Rank(first.ledger[p].nightly)
    BY <1>1, <1>3, <1>5, <1>6, <1>7, MarkMoves
  <2>6. Moved(Live, p, mark.ledger[p])
    <3>1. CASE mark.ledger[p] = first.ledger[p]
      BY <1>3, <3>1
    <3>2. CASE mark.ledger[p] # first.ledger[p]
      <4>1. first.ledger[p] \in Reservation /\ mark.ledger[p] \in Reservation
        BY <1>1, <1>3, <2>4 DEF Kept
      <4>2. QED
        BY <1>1, <1>3, <2>5, <3>2, <4>1, MovedThenMarked
    <3>3. QED
      BY <3>1, <3>2
  <2>7. QED
    BY <2>3, <2>4, <2>6 DEF Moves
<1>9. /\ Kept(try, Live, p) /\ Told(try.ledger, try.own, p)
      /\ Moved(Live, p, try.ledger[p])
      /\ first.held /\ ~try.own.broken /\ try.own.base + try.own.extra = 0 =>
            try.own.since = NoTime
  BY <1>2, <1>3, <1>8
<1> HIDE DEF try
<1>10. /\ \A r \in Ids \ {p} : Live'[r] = Live[r]
       /\ try.wrote => Live'[p] = try.ledger[p]
       /\ OneMoves(Live, Live')
  BY <1>4, <1>9, WriteMoves
<1>11. /\ own'[p] = try.own
       /\ pc'[p] = IF first.held THEN "idle" ELSE "waiting"
       /\ request'[p] = IF first.held THEN NoRequest ELSE wish
       /\ \A q \in Runs \ {p} : /\ own'[q] = own[q] /\ pc'[q] = pc[q]
                               /\ request'[q] = request[q]
  BY <1>4 DEF FileInv, ProcessInv
<1>12. RunTold(p)'
  <2>1. Told(Live', own'[p], p)
    BY <1>9, <1>10, <1>11 DEF Told, Kept
  <2>2. ~own'[p].broken /\ own'[p].base + own'[p].extra = 0 /\ own'[p].since # NoTime =>
          pc'[p] = "waiting"
    BY <1>9, <1>11
  <2>3. pc'[p] = "waiting" => request'[p].base + request'[p].extra > 0
    BY <1>11
  <2>4. QED
    BY <2>1, <2>2, <2>3 DEF RunTold
<1>13. QED
  BY <1>4, <1>10, <1>11, <1>12, RunToldKeeps

\* A try outside hold's loop.
LEMMA SingleTryMoves ==
    ASSUME FileInv, ProcessInv, AllTold, NEW p \in Runs, NEW before \in Own,
           before.base = own[p].base, before.extra = own[p].extra,
           before.started = own[p].started, before.broken = own[p].broken,
           before.heldSince = own[p].heldSince, before.heldShort = own[p].heldShort,
           \/ before.base > 0
           \/ before.since = own[p].since /\ pc[p] = "idle",
           NEW wish \in Nat, NEW extra \in Nat, NEW wait \in BOOLEAN, NEW in \in Readings,
           wait => before.base > 0,
           NEW try, try = TryHold(Live, p, before, wish, extra, wait, in),
           NEW after,
           try.own \in Own =>
              /\ after.base = try.own.base /\ after.extra = try.own.extra
              /\ after.broken = try.own.broken /\ after.since = try.own.since
              /\ after.heldSince = try.own.heldSince
              /\ after.heldShort = try.own.heldShort,
           Write(try), own' = [own EXCEPT ![p] = after],
           UNCHANGED <<now, pc, request, board>>
    PROVE  AllTold' /\ OneMoves(Live, Live')
<1>1. /\ Live \in [Ids -> Reservation] /\ WithinButForTheOldest(Live) /\ now \in Nat
      /\ Agree(Live, before, p) /\ RunTold(p)
      /\ before.base \in Nat /\ before.extra \in Nat
  BY LiveKeeps DEF FileInv, ProcessInv, AllTold, Agree, Own
<1>2. Told(Live, before, p)
  <2>1. CASE before.base > 0
    <3>1. ~(before.base + before.extra = 0)
      BY <1>1, <2>1
    <3>2. QED
      BY <1>1, <3>1 DEF RunTold, Told
  <2>2. CASE before.since = own[p].since
    BY <1>1, <2>2 DEF RunTold, Told
  <2>3. QED
    BY <2>1, <2>2
<1>3. AsksOrRests(before, wait, wish + extra)
      /\ (~before.broken /\ before.base + before.extra = 0 => ~wait)
  <2>1. CASE before.base > 0
    <3>1. ~(before.base + before.extra = 0)
      BY <1>1, <2>1
    <3>2. QED
      BY <3>1 DEF AsksOrRests
  <2>2. CASE ~(before.base > 0)
    BY <1>1, <2>2 DEF RunTold, AsksOrRests
  <2>3. QED
    BY <2>1, <2>2
<1>4. Kept(try, Live, p) /\ Moves(try, Live, before, p, wait)
  BY <1>1, <1>2, <1>3, TryHoldKeeps, TryMoves
<1>5. /\ \A r \in Ids \ {p} : Live'[r] = Live[r]
      /\ try.wrote => Live'[p] = try.ledger[p]
      /\ OneMoves(Live, Live')
  BY <1>4, WriteMoves DEF Moves
<1>6. /\ own'[p] = after /\ pc'[p] = pc[p] /\ request'[p] = request[p]
      /\ \A q \in Runs \ {p} : /\ own'[q] = own[q] /\ pc'[q] = pc[q]
                              /\ request'[q] = request[q]
  BY DEF FileInv
<1>7. /\ after.base = try.own.base /\ after.extra = try.own.extra
      /\ after.broken = try.own.broken /\ after.since = try.own.since
      /\ after.heldSince = try.own.heldSince
      /\ after.heldShort = try.own.heldShort
  BY <1>4 DEF Kept
<1>8. RunTold(p)'
  <2>1. Told(Live', own'[p], p)
    <3>1. Told(try.ledger, try.own, p) /\ (~try.wrote => after.broken)
      BY <1>4, <1>7 DEF Moves, Kept
    <3>2. CASE try.wrote
      <4>1. Told(try.ledger, after, p)
        BY <1>7, <3>1 DEF Told
      <4>2. QED
        BY <1>5, <1>6, <3>2, <4>1 DEF Told
    <3>3. CASE ~try.wrote
      BY <1>6, <3>1, <3>3 DEF Told
    <3>4. QED
      BY <3>2, <3>3, <1>4 DEF Kept
  <2>2. ~(~own'[p].broken /\ own'[p].base + own'[p].extra = 0 /\ own'[p].since # NoTime)
    <3>1. SUFFICES ASSUME ~try.own.broken, try.own.base + try.own.extra = 0,
                          try.own.since # NoTime
                   PROVE  FALSE
      BY <1>6, <1>7
    <3>2. wait /\ before.base + before.extra = 0
      BY <1>4, <3>1 DEF Moves
    <3>3. QED
      BY <1>1, <3>2
  <2>3. pc'[p] = "waiting" => request'[p].base + request'[p].extra > 0
    BY <1>1, <1>6 DEF RunTold
  <2>4. QED
    BY <2>1, <2>2, <2>3 DEF RunTold
<1>9. QED
  BY <1>5, <1>6, <1>8, RunToldKeeps

\* The process is gone, and its live entry with it.
LEMMA GoneMoves ==
    ASSUME FileInv, ProcessInv, AllTold, NEW p \in Runs, Gone(p),
           \A r \in Ids \ {p} : Live'[r] = Live[r], Live'[p] = NoEntry
    PROVE  AllTold' /\ OneMoves(Live, Live')
<1>1. /\ own'[p] = Unarmed /\ pc'[p] = "out" /\ board' = board
      /\ \A q \in Runs \ {p} : /\ own'[q] = own[q] /\ pc'[q] = pc[q]
                              /\ request'[q] = request[q]
  BY DEF Gone, FileInv, ProcessInv
<1>2. RunTold(p)'
  <2>1. /\ Live'[p].mb = 0 /\ ~Live'[p].nightly /\ Unarmed.since = NoTime
    BY DEF NoEntry, Unarmed
  <2>2. QED
    BY <1>1, <2>1 DEF RunTold, Told
<1>3. \A r \in Ids : Live'[r] \in {Live[r], NoEntry}
  OBVIOUS
<1>4. QED
  BY <1>1, <1>2, <1>3, RunToldKeeps DEF OneMoves

\* A process that leaves takes its live entry with it, one way or another.
LEMMA LeaveMoves ==
    ASSUME FileInv, ProcessInv, AllTold, NEW p \in Runs, Leave(p) \/ Crash(p)
    PROVE  AllTold' /\ OneMoves(Live, Live')
<1>1. Gone(p) /\ p \in Ids
  BY DEF Leave, Crash, Ids
<1>2. CASE ledger' = ledger /\ orphans' = orphans \cup {p}
  <2>1. (\A r \in Ids \ {p} : Live'[r] = Live[r]) /\ Live'[p] = NoEntry
    BY <1>1, <1>2 DEF Live
  <2>2. QED
    BY <1>1, <2>1, GoneMoves
<1>3. CASE ledger' = [Live EXCEPT ![p] = NoEntry] /\ orphans' = {}
  <2>1. (\A r \in Ids \ {p} : Live'[r] = Live[r]) /\ Live'[p] = NoEntry
    BY <1>1, <1>3 DEF Live
  <2>2. QED
    BY <1>1, <2>1, GoneMoves
<1>4. QED
  BY <1>2, <1>3 DEF Leave, Crash

\* The steps of a binary.
LEMMA RunMoves ==
    ASSUME FileInv, ProcessInv, AllTold, NEW p \in Runs, RunNext(p)
    PROVE  AllTold' /\ OneMoves(Live, Live')
<1>1. /\ own[p] \in Own /\ request[p] \in Request /\ now \in Nat /\ RunTold(p)
      /\ own[p].base \in Nat /\ own[p].extra \in Nat /\ own[p].raise \in Nat
      /\ p \in Ids /\ KicadCheck \in Nat /\ KicadCheck > 0 /\ Sizes \subseteq Nat
  BY LedgerConstants, RuleConstants DEF FileInv, ProcessInv, Own, Ids, AllTold
<1>2. CASE Arm(p)
  <2> DEFINE o == [Unarmed EXCEPT !.started = now]
  <2>1. /\ pc[p] = "out" /\ own' = [own EXCEPT ![p] = o] /\ pc' = [pc EXCEPT ![p] = "idle"]
        /\ UNCHANGED <<now, ledger, orphans, request, board>>
    BY <1>2 DEF Arm
  <2>2. own[p] = Unarmed
    BY <2>1 DEF ProcessInv
  <2>3. Live' = Live
    BY <2>1 DEF Live
  <2>4. /\ own'[p] = o /\ pc'[p] = "idle" /\ request'[p] = request[p]
        /\ \A q \in Runs \ {p} : /\ own'[q] = own[q] /\ pc'[q] = pc[q]
                                /\ request'[q] = request[q]
    BY <2>1 DEF FileInv, ProcessInv
  <2>5. /\ ~Unarmed.broken /\ Unarmed.heldSince = NoTime
        /\ o.since = NoTime /\ o.heldSince = NoTime
    BY DEF Unarmed
  <2> HIDE DEF o
  <2>6. RunTold(p)'
    BY <1>1, <2>2, <2>3, <2>4, <2>5 DEF RunTold, Told
  <2>7. AllTold'
    BY <2>1, <2>3, <2>4, <2>6, RunToldKeeps
  <2>8. QED
    BY <2>3, <2>7 DEF OneMoves
<1>3. ASSUME NEW size \in Sizes, NEW in \in Readings, Reserve(p, size, in)
      PROVE  AllTold' /\ OneMoves(Live, Live')
  <2> DEFINE wish == [base |-> size, extra |-> own[p].extra, raise |-> 0, at |-> now]
  <2>1. size > own[p].base /\ size \in Nat
    BY <1>1, <1>3 DEF Reserve
  <2>2. wish \in Request /\ wish.base + wish.extra > 0
    BY <1>1, <2>1 DEF Request
  <2>3. HoldRound(p, wish, in)
    BY <1>3 DEF Reserve
  <2> HIDE DEF wish
  <2>4. QED
    BY <2>2, <2>3, HoldRoundMoves
<1>4. ASSUME NEW in \in Readings, ReserveCheck(p, in)
      PROVE  AllTold' /\ OneMoves(Live, Live')
  <2> DEFINE wish == [base |-> own[p].base, extra |-> KicadCheck, raise |-> 0, at |-> now]
  <2>1. wish \in Request /\ wish.base + wish.extra > 0
    BY <1>1 DEF Request
  <2>2. HoldRound(p, wish, in)
    BY <1>4 DEF ReserveCheck
  <2> HIDE DEF wish
  <2>3. QED
    BY <2>1, <2>2, HoldRoundMoves
<1>5. ASSUME NEW in \in Readings, StartCheck(p, in)
      PROVE  AllTold' /\ OneMoves(Live, Live')
  <2> DEFINE raise == Larger(KicadCheck - own[p].extra, 0)
  <2>1. raise \in Nat /\ pc[p] = "idle"
    BY <1>1, <1>5 DEF Larger, StartCheck
  <2>2. CASE raise > 0
    <3> DEFINE wish == [base |-> own[p].base, extra |-> own[p].extra + raise,
                        raise |-> raise, at |-> now]
    <3>1. HoldRound(p, wish, in)
      BY <1>5, <2>2 DEF StartCheck
    <3> HIDE DEF raise
    <3>2. wish \in Request /\ wish.base + wish.extra > 0
      BY <1>1, <2>1, <2>2 DEF Request
    <3> HIDE DEF wish
    <3>3. QED
      BY <3>1, <3>2, HoldRoundMoves
  <2>3. CASE ~(raise > 0)
    <3> DEFINE mark   == MarkCheck(Live, p, own[p], 0, in)
               before == [own[p] EXCEPT !.checking = TRUE, !.raise = 0]
    <3>1. /\ Write(mark) /\ own' = [own EXCEPT ![p] = mark.own]
          /\ UNCHANGED <<now, pc, request, board>>
      BY <1>5, <2>3 DEF StartCheck
    <3>2. /\ before \in Own /\ before.base = own[p].base /\ before.extra = own[p].extra
          /\ before.started = own[p].started /\ before.broken = own[p].broken
          /\ before.heldSince = own[p].heldSince /\ before.heldShort = own[p].heldShort
          /\ before.since = own[p].since
      BY <1>1 DEF Own
    <3>3. mark = TryHold(Live, p, before, own[p].base, own[p].extra, FALSE, in)
      BY DEF MarkCheck
    <3>4. FALSE \in BOOLEAN
      OBVIOUS
    <3> HIDE DEF mark, before
    <3>5. QED
      BY <1>1, <2>1, <3>1, <3>2, <3>3, <3>4, SingleTryMoves
  <2>4. QED
    BY <2>2, <2>3
<1>6. ASSUME NEW in \in Readings, Poll(p, in)
      PROVE  AllTold' /\ OneMoves(Live, Live')
  <2>1. pc[p] = "waiting" /\ HoldRound(p, request[p], in)
    BY <1>6 DEF Poll
  <2>2. request[p].base + request[p].extra > 0
    BY <1>1, <2>1 DEF RunTold
  <2>3. QED
    BY <1>1, <2>1, <2>2, HoldRoundMoves
<1>7. ASSUME NEW in \in Readings, EndCheck(p, in)
      PROVE  AllTold' /\ OneMoves(Live, Live')
  <2> DEFINE extra == Larger(own[p].extra - own[p].raise, 0)
             try   == TryHold(Live, p, own[p], own[p].base, extra, FALSE, in)
             after == [try.own EXCEPT !.checking = FALSE, !.raise = 0]
  <2>1. /\ FALSE \in BOOLEAN /\ pc[p] = "idle"
        /\ Write(try) /\ own' = [own EXCEPT ![p] = after]
        /\ UNCHANGED <<now, pc, request, board>>
    BY <1>7 DEF EndCheck
  <2>2. extra \in Nat
    BY <1>1 DEF Larger
  <2> HIDE DEF extra
  <2>3. try = TryHold(Live, p, own[p], own[p].base, extra, FALSE, in)
    OBVIOUS
  <2> HIDE DEF try
  <2>4. try.own \in Own =>
              /\ after.base = try.own.base /\ after.extra = try.own.extra
              /\ after.broken = try.own.broken /\ after.since = try.own.since
              /\ after.heldSince = try.own.heldSince
              /\ after.heldShort = try.own.heldShort
    BY DEF Own
  <2> HIDE DEF after
  <2>5. QED
    BY <1>1, <2>1, <2>2, <2>3, <2>4, SingleTryMoves
<1>8. CASE \/ Exit(p) \/ Exceeded(p) \/ Crash(p)
           \/ \E capacity \in Capacities : GiveUp(p, capacity)
  BY <1>8, LeaveMoves DEF Exit, Exceeded, GiveUp
<1>9. ASSUME NEW in \in Readings, NEW size \in Sizes, NEW past \in BOOLEAN,
             Grow(p, size, past, in)
      PROVE  AllTold' /\ OneMoves(Live, Live')
  <2> DEFINE before == IF past /\ own[p].since = NoTime
                       THEN [own[p] EXCEPT !.since = own[p].heldSince] ELSE own[p]
             try    == TryHold(Live, p, before, size, before.extra, past, in)
             after  == [try.own EXCEPT !.over = ~try.held /\ (@ \/ past)]
  <2>1. /\ own[p].base > 0 /\ Write(try) /\ own' = [own EXCEPT ![p] = after]
        /\ UNCHANGED <<now, pc, request, board>>
    BY <1>9 DEF Grow, Watched
  <2>2. /\ before \in Own /\ before.base = own[p].base /\ before.extra = own[p].extra
        /\ before.started = own[p].started /\ before.broken = own[p].broken
        /\ before.heldSince = own[p].heldSince /\ before.heldShort = own[p].heldShort
        /\ before.extra \in Nat /\ size \in Nat
    BY <1>1 DEF Own
  <2> HIDE DEF before
  <2>3. try = TryHold(Live, p, before, size, before.extra, past, in)
    OBVIOUS
  <2> HIDE DEF try
  <2>4. try.own \in Own =>
              /\ after.base = try.own.base /\ after.extra = try.own.extra
              /\ after.broken = try.own.broken /\ after.since = try.own.since
              /\ after.heldSince = try.own.heldSince
              /\ after.heldShort = try.own.heldShort
    <3> DEFINE over == ~try.held /\ (try.own.over \/ past)
    <3>1. after = [try.own EXCEPT !.over = over]
      OBVIOUS
    <3> HIDE DEF over, after
    <3>2. QED
      BY <3>1 DEF Own
  <2> HIDE DEF after
  <2>5. QED
    BY <2>1, <2>2, <2>3, <2>4, SingleTryMoves
<1>10. ASSUME NEW in \in Readings, BackWithin(p, in)
       PROVE  AllTold' /\ OneMoves(Live, Live')
  <2> DEFINE try   == TryHold(Live, p, own[p], own[p].base, own[p].extra, FALSE, in)
             after == [try.own EXCEPT !.over = FALSE]
  <2>1. /\ own[p].base > 0 /\ FALSE \in BOOLEAN
        /\ Write(try) /\ own' = [own EXCEPT ![p] = after]
        /\ UNCHANGED <<now, pc, request, board>>
    BY <1>10 DEF BackWithin, Watched
  <2>2. try = TryHold(Live, p, own[p], own[p].base, own[p].extra, FALSE, in)
    OBVIOUS
  <2> HIDE DEF try
  <2>3. try.own \in Own =>
              /\ after.base = try.own.base /\ after.extra = try.own.extra
              /\ after.broken = try.own.broken /\ after.since = try.own.since
              /\ after.heldSince = try.own.heldSince
              /\ after.heldShort = try.own.heldShort
    BY DEF Own
  <2> HIDE DEF after
  <2>4. QED
    BY <1>1, <2>1, <2>2, <2>3, SingleTryMoves
<1>11. QED
  BY <1>2, <1>3, <1>4, <1>5, <1>6, <1>7, <1>8, <1>9, <1>10 DEF RunNext

\* The order reads the entries of S alone.
LEMMA OrderReads ==
    ASSUME NEW S, NEW L, NEW K, \A r \in S : K[r] = L[r], NEW key, NEW wanted, NEW capacity,
           OrderAllows(K, S, key, wanted, capacity)
    PROVE  OrderAllows(L, S, key, wanted, capacity)
<1>1. FirstWaiter(L, S) \cap Ahead(L, S, key) = FirstWaiter(K, S) \cap Ahead(K, S, key)
  <2>1. Waiters(K, S) = Waiters(L, S) /\ Waiters(L, S) \subseteq S
    BY DEF Waiters
  <2>2. \A w \in S : OrderKey(K, w) = OrderKey(L, w)
    BY DEF OrderKey
  <2>3. FirstWaiter(L, S) = FirstWaiter(K, S) /\ Ahead(L, S, key) = Ahead(K, S, key)
    BY <2>1, <2>2 DEF FirstWaiter, Ahead
  <2>4. QED
    BY <2>3
<1>2. SUFFICES ASSUME NEW oldest \in FirstWaiter(L, S) \cap Ahead(L, S, key)
      PROVE  LET rest     == {r \in S \ {oldest} : ~L[r].short}
                 wants    == L[oldest].wants
                 reserved == Mb(L, rest)
                 fitsNow  == reserved + wants <= capacity \/ Holders(L, rest) = {}
             IN  IF fitsNow /\ ~L[oldest].onFloor
                 THEN reserved + wanted + wants <= capacity
                 ELSE Mb(L, Newer(L, rest, oldest)) + wanted + wants <= capacity
  BY DEF OrderAllows
<1>3. oldest \in S /\ K[oldest] = L[oldest]
  BY DEF FirstWaiter, Waiters
<1> DEFINE restK == {r \in S \ {oldest} : ~K[r].short}
           restL == {r \in S \ {oldest} : ~L[r].short}
<1>4. restK = restL /\ restL \subseteq S
  OBVIOUS
<1>5. LET wants    == K[oldest].wants
          reserved == Mb(K, restK)
          fitsNow  == reserved + wants <= capacity \/ Holders(K, restK) = {}
      IN  IF fitsNow /\ ~K[oldest].onFloor
          THEN reserved + wanted + wants <= capacity
          ELSE Mb(K, Newer(K, restK, oldest)) + wanted + wants <= capacity
  BY <1>1 DEF OrderAllows
<1> HIDE DEF restK, restL
<1>6. /\ Holders(K, restK) = Holders(L, restL)
      /\ Newer(K, restK, oldest) = Newer(L, restL, oldest)
      /\ Newer(L, restL, oldest) \subseteq S
  BY <1>3, <1>4 DEF Holders, Newer
<1>7. \A T \in SUBSET S : Mb(K, T) = Mb(L, T)
  <2> SUFFICES ASSUME NEW T \in SUBSET S PROVE Units(K, T) = Units(L, T)
    BY DEF Mb
  <2>1. \A r \in T : {r} \X (1..K[r].mb) = {r} \X (1..L[r].mb)
    OBVIOUS
  <2>2. QED
    BY <2>1 DEF Units
<1>8. Mb(K, restK) = Mb(L, restL)
      /\ Mb(K, Newer(K, restK, oldest)) = Mb(L, Newer(L, restL, oldest))
  BY <1>4, <1>6, <1>7
<1>9. QED
  BY <1>3, <1>5, <1>6, <1>8 DEF restL

\* A board's request: it goes in order, or is short, or waits.
LEMMA BoardTryMoves ==
    ASSUME FileInv, ProcessInv, AllTold, NEW b \in Boards, NEW ask \in Board,
           ask.mb > 0, board[b].pc # "holding",
           \/ ask.since = now
           \/ /\ Live[b].wants > 0 /\ Live[b].since = ask.since
              /\ Rank(Live[b].nightly) = Rank(ask.nightly),
           NEW in \in Readings, TryAdmit(b, ask, in)
    PROVE  AllTold' /\ OneMoves(Live, Live')
<1> DEFINE L       == [Live EXCEPT ![b] = NoEntry]
           others  == Ids \ {b}
           key     == <<Rank(ask.nightly), ask.since, b>>
           available == AvailableLessGrowth(L, others, in)
           end     == IF ask.seconds = NoTime THEN NoTime ELSE now + ask.seconds
           fits    == MemoryRoom(L, others, ask.mb, in.floor, in.capacity, available)
           short   == ask.short /\ ask.mb <= ShortOwn + KicadCheck
           nightly == ask.nightly
           floored == ~fits /\ Mb(L, others) + ask.mb <= in.capacity
           held    == [NoEntry EXCEPT !.started = now, !.mb = ask.mb, !.heldSince = now,
                                      !.short = short, !.end = end, !.nightly = nightly]
           waits   == [NoEntry EXCEPT !.started = ask.since, !.wants = ask.mb,
                                      !.since = ask.since, !.refreshed = now,
                                      !.floor = in.floor, !.nightly = nightly,
                                      !.onFloor = floored]
<1>1. \E admits \in BOOLEAN :
         /\ admits => OrderAllows(L, others, key, ask.mb, in.capacity) \/ short
         /\ ledger' = [L EXCEPT ![b] = IF admits THEN held ELSE waits]
         /\ orphans' = {}
         /\ board' = [board EXCEPT ![b] = [ask EXCEPT !.pc = IF admits THEN "holding"
                                                             ELSE "waiting"]]
         /\ UNCHANGED <<now, own, pc, request>>
  BY DEF TryAdmit
<1>2. PICK admits \in BOOLEAN :
         /\ admits => OrderAllows(L, others, key, ask.mb, in.capacity) \/ short
         /\ ledger' = [L EXCEPT ![b] = IF admits THEN held ELSE waits]
         /\ orphans' = {}
         /\ board' = [board EXCEPT ![b] = [ask EXCEPT !.pc = IF admits THEN "holding"
                                                             ELSE "waiting"]]
         /\ UNCHANGED <<now, own, pc, request>>
  BY <1>1
<1>3. /\ Live \in [Ids -> Reservation] /\ b \in Ids /\ b \notin Runs
      /\ ask.since \in Int /\ ask.mb \in Nat /\ in.capacity \in Capacities
      /\ Live[b].mb = 0
  BY LiveKeeps, LedgerConstants DEF Ids, Board, Readings, AllTold, BoardTold
<1>4. /\ \A r \in Ids \ {b} : Live'[r] = Live[r]
      /\ Live'[b] = IF admits THEN held ELSE waits
  <2> HIDE DEF held, waits
  <2>1. /\ ledger'[b] = IF admits THEN held ELSE waits
        /\ \A r \in Ids \ {b} : ledger'[r] = Live[r]
    BY <1>2, <1>3 DEF Live
  <2>2. \A r \in Ids : Live'[r] = ledger'[r]
    BY <1>2 DEF Live
  <2>3. QED
    BY <1>3, <2>1, <2>2
<1>5. /\ held.mb = ask.mb /\ held.wants = 0 /\ (held.short <=> short)
      /\ held.nightly = nightly
  <2> HIDE DEF end, short, nightly, fits, floored
  <2>1. QED
    BY DEF NoEntry
<1>6. /\ waits.mb = 0 /\ waits.wants = ask.mb /\ waits.since = ask.since
      /\ waits.nightly = nightly
  <2> HIDE DEF end, short, nightly, fits, floored
  <2>1. QED
    BY DEF NoEntry
<1> HIDE DEF held, waits, short
<1>7. OneMoves(Live, Live')
  <2>1. CASE ~admits
    <3>1. Moved(Live, b, Live'[b])
      BY <1>4, <1>6, <2>1 DEF Moved, Stays
    <3>2. QED
      BY <1>3, <1>4, <3>1 DEF OneMoves
  <2>2. CASE admits /\ short
    <3>1. Moved(Live, b, Live'[b])
      BY <1>3, <1>4, <1>5, <2>2 DEF Moved, GoesInOrder
    <3>2. QED
      BY <1>3, <1>4, <3>1 DEF OneMoves
  <2>3. CASE admits /\ ~short
    <3>1. OrderAllows(L, others, key, ask.mb, in.capacity)
      BY <1>2, <2>3
    <3>2. \A r \in others : L[r] = Live[r]
      BY <1>3
    <3> HIDE DEF L
    <3>3. OrderAllows(Live, others, key, ask.mb, in.capacity)
      BY <3>1, <3>2, OrderReads
    <3>4. held.nightly = ask.nightly /\ Live'[b] = held
      BY <1>4, <1>5, <2>3
    <3>5. GoesInOrder(Live, b, held)
      BY <1>3, <1>5, <3>3, <3>4 DEF GoesInOrder
    <3>6. Moved(Live, b, Live'[b])
      BY <3>4, <3>5 DEF Moved
    <3>7. QED
      BY <1>3, <1>4, <3>6 DEF OneMoves
  <2>4. QED
    BY <2>1, <2>2, <2>3
<1>8. ASSUME NEW q \in Runs PROVE RunTold(q)'
  <2>1. q \in Ids \ {b}
    BY <1>3 DEF Ids
  <2>2. Live'[q] = Live[q] /\ own'[q] = own[q] /\ pc'[q] = pc[q] /\ request'[q] = request[q]
    BY <1>2, <1>4, <2>1
  <2>3. RunTold(q)
    BY DEF AllTold
  <2>4. QED
    BY <2>2, <2>3 DEF RunTold, Told
<1>9. ASSUME NEW c \in Boards PROVE BoardTold(c)'
  <2>1. CASE c = b
    <3>1. /\ board'[b].pc = IF admits THEN "holding" ELSE "waiting"
          /\ board'[b].mb = ask.mb /\ board'[b].since = ask.since
          /\ board'[b].nightly = ask.nightly
      BY <1>2 DEF ProcessInv, Board
    <3>2. QED
      BY <1>4, <1>6, <2>1, <3>1 DEF BoardTold
  <2>2. CASE c # b
    <3>1. c \in Ids \ {b}
      BY <2>2 DEF Ids
    <3>2. Live'[c] = Live[c] /\ board'[c] = board[c]
      BY <1>2, <1>4, <2>2, <3>1
    <3>3. BoardTold(c)
      BY DEF AllTold
    <3>4. QED
      BY <3>2, <3>3 DEF BoardTold
  <2>3. QED
    BY <2>1, <2>2
<1>10. QED
  BY <1>7, <1>8, <1>9 DEF AllTold

\* Boards that go out with their live entries.
LEMMA BoardsOutMove ==
    ASSUME FileInv, ProcessInv, AllTold, NEW C \in SUBSET Boards,
           \A c \in C : Live'[c] = NoEntry /\ board'[c] = NoBoard,
           \A r \in Ids \ C : Live'[r] = Live[r],
           \A c \in Boards \ C : board'[c] = board[c],
           own' = own, pc' = pc, request' = request
    PROVE  AllTold' /\ OneMoves(Live, Live')
<1>1. ASSUME NEW q \in Runs PROVE RunTold(q)'
  <2>1. q \in Ids \ C
    BY LedgerConstants DEF Ids
  <2>2. Live'[q] = Live[q] /\ RunTold(q)
    BY <2>1 DEF AllTold
  <2>3. QED
    BY <2>2 DEF RunTold, Told
<1>2. ASSUME NEW c \in Boards PROVE BoardTold(c)'
  <2>1. CASE c \in C
    BY <2>1 DEF BoardTold, NoEntry, NoBoard
  <2>2. CASE c \notin C
    <3>1. Live'[c] = Live[c] /\ board'[c] = board[c] /\ BoardTold(c)
      BY <2>2 DEF AllTold, Ids
    <3>2. QED
      BY <3>1 DEF BoardTold
  <2>3. QED
    BY <2>1, <2>2
<1>3. \A r \in Ids : Live'[r] \in {Live[r], NoEntry}
  OBVIOUS
<1>4. QED
  BY <1>1, <1>2, <1>3 DEF AllTold, OneMoves

\* The steps of a board.
LEMMA BoardMoves ==
    ASSUME FileInv, ProcessInv, AllTold, NEW b \in Boards, BoardNext(b)
    PROVE  AllTold' /\ OneMoves(Live, Live')
<1>1. ASSUME NEW in \in Readings, NEW kind \in BoardKinds, AskBoard(b, kind, in)
      PROVE  AllTold' /\ OneMoves(Live, Live')
  <2> DEFINE ask == [pc |-> "waiting", mb |-> kind.mb, nightly |-> kind.nightly,
                     short |-> kind.short, seconds |-> kind.seconds, since |-> now]
  <2>1. /\ kind.mb \in Nat /\ kind.mb > 0 /\ kind.nightly \in BOOLEAN
        /\ kind.short \in BOOLEAN /\ kind.seconds \in Int /\ now \in Int
    BY LedgerConstants DEF ProcessInv, NoTime
  <2>2. /\ ask \in Board /\ TryAdmit(b, ask, in) /\ board[b].pc = "out"
        /\ ask.mb > 0 /\ ask.since = now
    BY <1>1, <2>1 DEF Board, AskBoard
  <2> HIDE DEF ask
  <2>3. QED
    BY <2>2, BoardTryMoves
<1>2. ASSUME NEW in \in Readings, PollBoard(b, in)
      PROVE  AllTold' /\ OneMoves(Live, Live')
  <2>1. board[b] \in Board /\ board[b].pc = "waiting" /\ TryAdmit(b, board[b], in)
    BY <1>2 DEF ProcessInv, PollBoard
  <2>2. /\ board[b].mb > 0 /\ Live[b].wants > 0 /\ Live[b].since = board[b].since
        /\ Rank(Live[b].nightly) = Rank(board[b].nightly)
    BY <2>1 DEF AllTold, BoardTold
  <2>3. QED
    BY <2>1, <2>2, BoardTryMoves
<1>3. CASE EndBoard(b) \/ Withdraw(b)
  <2>1. /\ ledger' = [Live EXCEPT ![b] = NoEntry] /\ orphans' = {}
        /\ board' = [board EXCEPT ![b] = NoBoard]
        /\ own' = own /\ pc' = pc /\ request' = request
    BY <1>3 DEF EndBoard, Withdraw, RemoveBoard
  <2>2. Live'[b] = NoEntry /\ \A r \in Ids \ {b} : Live'[r] = Live[r]
    BY <2>1 DEF Live, Ids
  <2>3. board'[b] = NoBoard /\ \A c \in Boards \ {b} : board'[c] = board[c]
    BY <2>1 DEF ProcessInv
  <2>4. {b} \in SUBSET Boards
    OBVIOUS
  <2>5. QED
    BY <2>1, <2>2, <2>3, <2>4, BoardsOutMove
<1>4. QED
  BY <1>1, <1>2, <1>3 DEF BoardNext

\* Every step keeps what the file says, and moves one entry.
LEMMA NextMoves ==
    ASSUME FileInv, ProcessInv, AllTold, [Next]_vars
    PROVE  AllTold' /\ OneMoves(Live, Live')
<1>1. CASE \E p \in Runs : RunNext(p)
  BY <1>1, RunMoves
<1>2. CASE \E b \in Boards : BoardNext(b)
  BY <1>2, BoardMoves
<1>3. CASE HarnessDies
  <2>1. /\ board' = [b \in Boards |-> NoBoard] /\ orphans' = orphans \cup Boards
        /\ ledger' = ledger /\ own' = own /\ pc' = pc /\ request' = request
    BY <1>3 DEF HarnessDies
  <2>2. /\ \A b \in Boards : Live'[b] = NoEntry /\ board'[b] = NoBoard
        /\ \A r \in Ids \ Boards : Live'[r] = Live[r]
    BY <2>1 DEF Live, Ids
  <2>3. QED
    BY <2>1, <2>2, BoardsOutMove
<1>4. CASE Tick \/ UNCHANGED vars
  <2>1. /\ Live' = Live /\ own' = own /\ pc' = pc /\ request' = request /\ board' = board
    BY <1>4 DEF Tick, vars, Live
  <2>2. \A p \in Runs : RunTold(p)'
    BY <2>1 DEF AllTold, RunTold, Told
  <2>3. \A b \in Boards : BoardTold(b)'
    BY <2>1 DEF AllTold, BoardTold
  <2>4. QED
    BY <2>1, <2>2, <2>3 DEF AllTold, OneMoves
<1>5. QED
  BY <1>1, <1>2, <1>3, <1>4 DEF Next

\* The file says since when every request waits and holds.
LEMMA ToldHolds == Spec => [](Inductive /\ AllTold)
<1>1. Init => AllTold
  <2>1. SUFFICES ASSUME Init PROVE AllTold
    OBVIOUS
  <2>2. \A r \in Ids : Live[r] = NoEntry
    BY <2>1 DEF Init, Live
  <2>3. \A p \in Runs : RunTold(p)
    <3>1. \A p \in Runs : own[p] = Unarmed /\ pc[p] = "out" /\ Live[p] = NoEntry
      BY <2>1, <2>2 DEF Init, Ids
    <3>2. ~NoEntry.nightly /\ NoEntry.mb = 0 /\ Unarmed.since = NoTime
      BY DEF NoEntry, Unarmed
    <3>3. QED
      BY <3>1, <3>2 DEF RunTold, Told
  <2>4. \A b \in Boards : BoardTold(b)
    BY <2>1, <2>2 DEF Init, Ids, BoardTold, NoEntry, NoBoard
  <2>5. QED
    BY <2>3, <2>4 DEF AllTold
<1>2. Inductive /\ AllTold /\ [Next]_vars => AllTold'
  BY InductiveParts, NextMoves
<1>3. QED
  BY <1>1, <1>2, InductiveHolds, PTL DEF Spec

\* No new request takes the room of the first waiter (order_allows): whatever
\* a step rewrites, the reservations newer than its wait and what it waits
\* for stay within the largest capacity, unless a run that holds memory
\* grows or a short request goes.
THEOREM RoomHolds == Spec => FirstWaiterKeepsItsRoom
<1> DEFINE Kept1 == \A w \in FirstWaiter(Live, Ids) :
                      LET after == Live'
                      IN  /\ RoomKept(Live, w)
                          /\ after[w].wants = Live[w].wants
                          /\ after[w].since = Live[w].since
                          /\ \A r \in Ids : after[r].mb > Live[r].mb =>
                                /\ Live[r].mb = 0
                                /\ ~LexLess(<<Rank(after[r].nightly), now, r>>, OrderKey(Live, w))
                          => RoomKept(after, w)
<1>1. (Inductive /\ AllTold) /\ (Inductive /\ AllTold)' /\ [Next]_vars => Kept1
  <2>1. SUFFICES ASSUME Inductive, AllTold, Inductive', [Next]_vars PROVE Kept1
    OBVIOUS
  <2>2. Live \in [Ids -> Reservation] /\ now \in Nat
    BY <2>1, InductiveParts, LiveKeeps DEF ProcessInv
  <2>3. Live' \in [Ids -> Reservation]
    BY <2>1, NothingHeld DEF Inductive, TypeOK, Live
  <2>4. OneMoves(Live, Live')
    BY <2>1, InductiveParts, NextMoves
  <2>5. QED
    BY <2>2, <2>3, <2>4, RoomStaysKept
<1>2. QED
  BY <1>1, ToldHolds, PTL DEF Spec, FirstWaiterKeepsItsRoom

============================================================================
