-------------------------- MODULE HarnessGateProofs --------------------------
(***************************************************************************)
(* Theorems of the harness's gate, for any boards, any capacity, any peaks *)
(* and any sizes the binaries ask for: what a board was admitted with is   *)
(* in the ledger once until its binary has ended, and what a binary counts *)
(* on is covered.                                                          *)
(***************************************************************************)
EXTENDS HarnessGate, TLAPS

Entry == [mb : Nat, wants : Nat, from : {0} \cup Ids, granted : Nat]
Token == [key : {"none", "board", "moved"}, moved : BOOLEAN, peak : Nat]
Binary ==
    [pc : {"none", "idle", "waiting", "ended"}, base : Nat, extra : Nat, granted : Nat,
     inside : {0} \cup Boards, want : Nat \X Nat]

\* The variables' sets.
Typed ==
    /\ ledger \in [Ids -> Entry] /\ orphans \in SUBSET Ids /\ dead \in BOOLEAN
    /\ gate \in [Boards -> Token] /\ binary \in [Boards -> Binary]
    /\ at \in [Boards -> {"out", "held", "started", "runs", "ran"}]

\* A board's entry is there from its admission to the hand-over and no longer.
HarnessSide(b) ==
    /\ at[b] \notin {"held", "started"} => Live[b].mb = 0
    /\ at[b] \in {"held", "started"} =>
           gate[b].key = "board" /\ Live[b].mb > 0 /\ Live[b].mb >= gate[b].peak
    /\ at[b] # "out" => ~dead

\* A binary that is gone has nothing, one that has not tried counts on nothing, and
\* what it counts on is in its entry and the one it runs inside.
BinarySide(b) ==
    /\ binary[b].inside \in {0, b}
    /\ binary[b].inside = b => at[b] = "held" \/ dead
    /\ at[b] = "started" => binary[b].pc # "none"
    /\ ~Runs(b) => Live[Pid(b)].mb = 0 /\ binary[b].inside = 0
    /\ Runs(b) /\ Pid(b) \in orphans => binary[b].base = 0 /\ binary[b].extra = 0
    /\ Runs(b) /\ ~dead =>
           binary[b].base + binary[b].extra <=
               Live[Pid(b)].mb + (IF binary[b].inside = 0 THEN 0 ELSE Live[b].mb)

\* What was handed over is in the binary's entry and in what it will ask for.
HandedOver(b) ==
    at[b] = "runs" /\ Runs(b) =>
        /\ Pid(b) \notin orphans
        /\ Live[Pid(b)].mb >= gate[b].peak
        /\ Larger(Live[Pid(b)].granted, binary[b].granted) >= gate[b].peak

BoardInv(b) == HarnessSide(b) /\ BinarySide(b) /\ HandedOver(b)

Inv ==
    /\ Typed
    /\ \A b \in Boards : b \in orphans => dead
    /\ \A b \in Boards : BoardInv(b)

---------------------------------------------------------------------------
\* No two boards share an entry, and none is its own binary's.
LEMMA Identities ==
    /\ 0 \notin Ids /\ Boards \subseteq Ids
    /\ \A b \in Boards : Pid(b) \in Ids /\ b # 0
    /\ \A b, c \in Boards : Pid(b) # c /\ (Pid(b) = Pid(c) => b = c)
  BY GateConstants DEF Ids, Pids, Pid

LEMMA LiveTyped ==
    ASSUME Typed
    PROVE  Live \in [Ids -> Entry] /\ NoHold \in Entry /\ NoHold.mb = 0 /\ NoHold.granted = 0
<1>1. NoHold \in Entry /\ NoHold.mb = 0 /\ NoHold.granted = 0
  BY DEF NoHold, Entry
<1>2. QED
  BY <1>1 DEF Typed, Live

\* What an update writes is what is live after it.
LEMMA WrittenIsLive ==
    ASSUME NEW L \in [Ids -> Entry], Write(L)
    PROVE  Live' = L /\ orphans' = {} /\ ledger' = L
  BY DEF Write, Live

\* A step that leaves a board's entries and what is known of it as they are.
LEMMA BoardStays ==
    ASSUME NEW c \in Boards, BoardInv(c),
           Live'[c] = Live[c], Live'[Pid(c)] = Live[Pid(c)],
           Pid(c) \in orphans' => Pid(c) \in orphans,
           gate'[c] = gate[c], at'[c] = at[c], binary'[c] = binary[c], dead' = dead
    PROVE  BoardInv(c)'
<1>1. Runs(c)' <=> Runs(c)
  BY DEF Runs
<1>2. HarnessSide(c)'
  BY DEF BoardInv, HarnessSide
<1>3. BinarySide(c)'
  BY <1>1 DEF BoardInv, BinarySide
<1>4. HandedOver(c)'
  BY <1>1 DEF BoardInv, HandedOver
<1>5. QED
  BY <1>2, <1>3, <1>4 DEF BoardInv

LEMMA InitHolds == Init => Inv
<1> SUFFICES ASSUME Init PROVE Inv
  OBVIOUS
<1>1. NoHold \in Entry /\ NoToken \in Token /\ NoBinary \in Binary
  BY DEF NoHold, Entry, NoToken, Token, NoBinary, Binary
<1>2. Typed
  BY <1>1 DEF Init, Typed
<1>3. ASSUME NEW b \in Boards PROVE BoardInv(b)
  <2>1. Live[b].mb = 0 /\ Live[Pid(b)].mb = 0
    BY Identities DEF Init, Live, NoHold
  <2>2. at[b] = "out" /\ binary[b].pc = "none" /\ binary[b].inside = 0
    BY DEF Init, NoBinary
  <2>3. QED
    BY <2>1, <2>2, Identities DEF BoardInv, HarnessSide, BinarySide, HandedOver, Runs
<1>4. QED
  BY <1>2, <1>3 DEF Inv, Init

---------------------------------------------------------------------------
(* A binary's tries *)

\* A try, held or refused, leaves the other entries alone, covers what the binary
\* counts on from then on, and loses nothing that was handed over.
Covers(b, try) ==
    /\ try.ledger \in [Ids -> Entry] /\ try.own \in Binary
    /\ \A r \in Ids \ {Pid(b)} : try.ledger[r] = Live[r]
    /\ try.own.pc = binary[b].pc /\ try.own.inside = binary[b].inside
    /\ try.own.base + try.own.extra <=
           try.ledger[Pid(b)].mb + (IF binary[b].inside = 0 THEN 0 ELSE Live[b].mb)
    /\ Granted(Live, b) \in Nat /\ try.own.granted = Granted(Live, b)
    /\ binary[b].inside = 0 => try.ledger[Pid(b)].mb >= Granted(Live, b)

LEMMA TryCovers ==
    ASSUME Typed, NEW b \in Boards, NEW wish \in Nat, NEW extra \in Nat,
           NEW wait \in BOOLEAN, NEW passed \in BOOLEAN,
           binary[b].inside \in {0, b}
    PROVE  Covers(b, TryHold(b, wish, extra, wait, passed))
<1> DEFINE me      == Pid(b)
           o       == binary[b]
           granted == Granted(Live, b)
           base    == Larger(Larger(wish, o.base), granted)
           wanted  == base + extra
           held    == Larger(o.base, granted) + o.extra
           inside  == IF o.inside = 0 THEN 0 ELSE Live[o.inside].mb
           new     == held = 0 /\ \A r \in Above \cup {me} : Live[r].mb = 0
           fits    == /\ \/ MayHoldBelow(Live, me, held, Beyond(wanted, inside))
                         \/ held > 0 /\ wanted <= held
                      /\ ~new \/ passed
           entry(mb, wants) ==
               IF mb = 0 /\ wants = 0 THEN NoHold
               ELSE [mb |-> mb, wants |-> wants, from |-> me, granted |-> granted]
           try     == TryHold(b, wish, extra, wait, passed)
<1>1. Live \in [Ids -> Entry] /\ me \in Ids /\ b \in Ids /\ o \in Binary
  BY LiveTyped, Identities DEF Typed
<1>2. /\ o.base \in Nat /\ o.extra \in Nat /\ o.granted \in Nat /\ Live[me].granted \in Nat
      /\ Live[b].mb \in Nat
  BY <1>1 DEF Entry, Binary
<1>3. granted \in Nat
  BY <1>2 DEF Granted, Larger
<1>4. base \in Nat /\ base >= granted /\ wanted \in Nat /\ wanted >= base
  <2> HIDE DEF granted
  <2>1. QED
    BY <1>2, <1>3 DEF Larger
<1>5. /\ held \in Nat /\ held >= granted /\ Larger(o.base, granted) \in Nat
      /\ held = Larger(o.base, granted) + o.extra
  <2> HIDE DEF granted
  <2>1. QED
    BY <1>2, <1>3 DEF Larger
<1>6. /\ inside = (IF o.inside = 0 THEN 0 ELSE Live[b].mb) /\ inside \in Nat
  BY <1>2, Identities
<1>7. ASSUME NEW mb \in Nat, NEW wants \in Nat
      PROVE  entry(mb, wants) \in Entry /\ entry(mb, wants).mb = mb
  <2> HIDE DEF granted
  <2>1. QED
    BY <1>1, <1>3, <1>7, LiveTyped DEF Entry
<1>8. ASSUME NEW mb \in Nat PROVE Beyond(mb, inside) \in Nat /\ mb <= Beyond(mb, inside) + inside
  <2> HIDE DEF inside
  <2>1. QED
    BY <1>6, <1>8 DEF Beyond, Larger
<1>9. ASSUME NEW mb \in Nat, inside = 0 PROVE Beyond(mb, inside) = mb
  <2> HIDE DEF inside
  <2>1. QED
    BY <1>9 DEF Beyond, Larger
<1>10. CASE fits
  <2>1. try = [held |-> TRUE,
               ledger |-> [Live EXCEPT ![me] = entry(Beyond(wanted, inside), 0)],
               own |-> [o EXCEPT !.base = base, !.extra = extra, !.granted = granted]]
    BY <1>10 DEF TryHold
  <2> HIDE DEF try, fits, new, entry, inside, wanted, base, granted, held
  <2>2. /\ entry(Beyond(wanted, inside), 0) \in Entry
        /\ entry(Beyond(wanted, inside), 0).mb = Beyond(wanted, inside)
    BY <1>4, <1>7, <1>8
  <2>3. /\ try.ledger \in [Ids -> Entry] /\ try.ledger[me].mb = Beyond(wanted, inside)
        /\ \A r \in Ids \ {me} : try.ledger[r] = Live[r]
    BY <1>1, <2>1, <2>2
  <2>4. /\ try.own \in Binary /\ try.own.base = base /\ try.own.extra = extra
        /\ try.own.granted = granted /\ try.own.pc = o.pc /\ try.own.inside = o.inside
    BY <1>1, <1>3, <1>4, <2>1 DEF Binary
  <2>5. wanted = base + extra
    BY DEF wanted
  <2>6. QED
    BY <1>3, <1>4, <1>6, <1>8, <1>9, <2>3, <2>4, <2>5 DEF try, granted, Covers
<1>11. CASE ~fits
  <2> DEFINE refused == IF wait \/ held > 0
                        THEN entry(Beyond(held, inside), IF wait THEN wanted ELSE 0)
                        ELSE NoHold
  <2>1. try = [held |-> FALSE,
               ledger |-> [Live EXCEPT ![me] = refused],
               own |-> [o EXCEPT !.base = Larger(@, granted), !.granted = granted]]
    BY <1>11 DEF TryHold
  <2> HIDE DEF try, fits, new, entry, inside, wanted, base, granted, held
  <2>2. /\ refused \in Entry /\ refused.mb \in Nat /\ refused.mb + inside >= held
        /\ inside = 0 => refused.mb = held
    <3>1. CASE wait \/ held > 0
      <4>1. /\ refused \in Entry /\ refused.mb = Beyond(held, inside)
        BY <1>4, <1>5, <1>7, <1>8, <3>1
      <4> HIDE DEF refused
      <4>2. QED
        BY <1>5, <1>6, <1>8, <1>9, <4>1
    <3>2. CASE ~(wait \/ held > 0)
      BY <1>5, <1>6, <3>2, LiveTyped
    <3>3. QED
      BY <3>1, <3>2
  <2> HIDE DEF refused
  <2>3. /\ try.ledger \in [Ids -> Entry] /\ try.ledger[me] = refused
        /\ \A r \in Ids \ {me} : try.ledger[r] = Live[r]
    BY <1>1, <2>1, <2>2
  <2>4. /\ try.own \in Binary /\ try.own.base = Larger(o.base, granted)
        /\ try.own.extra = o.extra
        /\ try.own.granted = granted /\ try.own.pc = o.pc /\ try.own.inside = o.inside
    BY <1>1, <1>3, <1>5, <2>1 DEF Binary
  <2>5. QED
    BY <1>3, <1>5, <1>6, <2>2, <2>3, <2>4 DEF try, granted, Covers
<1>12. QED
  BY <1>10, <1>11

\* A binary's entry and its own part after a try keep the invariant.
LEMMA TryKeeps ==
    ASSUME Inv, NEW b \in Boards, Runs(b), NEW try, Covers(b, try), Write(try.ledger),
           NEW after \in Binary, after.pc \in {"idle", "waiting"},
           after.base = try.own.base, after.extra = try.own.extra,
           after.granted = try.own.granted, after.inside = try.own.inside,
           binary' = [binary EXCEPT ![b] = after],
           UNCHANGED <<gate, at, dead>>
    PROVE  Inv'
<1>1. Typed /\ BoardInv(b) /\ binary[b].inside \in {0, b}
  BY DEF Inv, BoardInv, BinarySide
<1> DEFINE granted == Granted(Live, b)
<1>2. /\ try.ledger \in [Ids -> Entry] /\ try.own \in Binary
      /\ \A r \in Ids \ {Pid(b)} : try.ledger[r] = Live[r]
      /\ try.own.inside = binary[b].inside
      /\ try.own.base + try.own.extra <=
             try.ledger[Pid(b)].mb + (IF binary[b].inside = 0 THEN 0 ELSE Live[b].mb)
      /\ granted \in Nat /\ try.own.granted = granted
      /\ binary[b].inside = 0 => try.ledger[Pid(b)].mb >= granted
  BY DEF Covers
<1>3. Live' = try.ledger /\ orphans' = {} /\ ledger' = try.ledger
  BY <1>2, WrittenIsLive
<1>4. Typed'
  BY <1>1, <1>2, <1>3 DEF Typed
<1>5. binary'[b] = after /\ \A c \in Boards \ {b} : binary'[c] = binary[c]
  BY <1>1 DEF Typed
<1>6. ASSUME NEW c \in Boards, c # b PROVE BoardInv(c)'
  <2>1. Pid(c) \in Ids \ {Pid(b)} /\ c \in Ids \ {Pid(b)}
    BY <1>6, Identities
  <2>2. Live'[c] = Live[c] /\ Live'[Pid(c)] = Live[Pid(c)] /\ BoardInv(c)
    BY <1>2, <1>3, <2>1 DEF Inv
  <2>3. QED
    BY <1>3, <1>5, <1>6, <2>2, BoardStays
<1>7. BoardInv(b)'
  <2>1. Runs(b)' /\ b \in Ids \ {Pid(b)} /\ Live'[b] = Live[b]
    BY <1>2, <1>3, <1>5, Identities DEF Runs
  <2>2. HarnessSide(b)'
    BY <1>1, <2>1 DEF BoardInv, HarnessSide
  <2>3. BinarySide(b)'
    BY <1>1, <1>2, <1>3, <1>5, <2>1 DEF BoardInv, BinarySide
  <2>4. HandedOver(b)'
    <3> SUFFICES ASSUME at[b] = "runs"
                 PROVE  /\ Live'[Pid(b)].mb >= gate[b].peak
                        /\ Larger(Live'[Pid(b)].granted, after.granted) >= gate[b].peak
      BY <1>3, <1>5 DEF HandedOver
    <3>1. binary[b].inside = 0
      BY <1>1 DEF BoardInv, BinarySide, HarnessSide
    <3>2. /\ gate[b].peak \in Nat /\ Live'[Pid(b)].mb \in Nat /\ Live'[Pid(b)].granted \in Nat
      BY <1>1, <1>2, <1>3, Identities DEF Typed, Token, Entry
    <3>3. granted >= gate[b].peak
      BY <1>1 DEF BoardInv, HandedOver, Granted
    <3>4. Live'[Pid(b)].mb >= granted /\ after.granted = granted
      BY <1>2, <1>3, <3>1
    <3> HIDE DEF granted
    <3>5. QED
      BY <1>2, <3>2, <3>3, <3>4 DEF Larger
  <2>5. QED
    BY <2>2, <2>3, <2>4 DEF BoardInv
<1>8. QED
  BY <1>3, <1>4, <1>6, <1>7, Identities DEF Inv

LEMMA RoundKeeps ==
    ASSUME Inv, NEW b \in Boards, Runs(b), NEW base \in Nat, NEW extra \in Nat,
           HoldRound(b, base, extra)
    PROVE  Inv'
<1>1. PICK passed \in BOOLEAN : \E try \in {TryHold(b, base, extra, TRUE, passed)} :
        /\ Write(try.ledger)
        /\ binary' = [binary EXCEPT ![b] =
              IF try.held THEN [try.own EXCEPT !.pc = "idle", !.want = <<0, 0>>]
              ELSE [try.own EXCEPT !.pc = "waiting", !.want = <<base, extra>>]]
        /\ UNCHANGED <<gate, at, starts, dead>>
  BY DEF HoldRound
<1> DEFINE try == TryHold(b, base, extra, TRUE, passed)
           after == IF try.held THEN [try.own EXCEPT !.pc = "idle", !.want = <<0, 0>>]
                    ELSE [try.own EXCEPT !.pc = "waiting", !.want = <<base, extra>>]
<1>2. Typed /\ binary[b].inside \in {0, b} /\ TRUE \in BOOLEAN
  BY DEF Inv, BoardInv, BinarySide
<1>3. Covers(b, try)
  BY <1>2, TryCovers
<1>4. Write(try.ledger) /\ binary' = [binary EXCEPT ![b] = after] /\ UNCHANGED <<gate, at, dead>>
  BY <1>1
<1> HIDE DEF try
<1>5. /\ after \in Binary /\ after.pc \in {"idle", "waiting"}
      /\ after.base = try.own.base /\ after.extra = try.own.extra
      /\ after.granted = try.own.granted /\ after.inside = try.own.inside
  BY <1>3 DEF Binary, Covers
<1> HIDE DEF after
<1>6. QED
  BY <1>3, <1>4, <1>5, TryKeeps

\* The tries of a binary.
LEMMA TriesKeep ==
    ASSUME Inv, NEW b \in Boards, Reserve(b) \/ Poll(b) \/ TryOnce(b)
    PROVE  Inv'
<1>1. /\ Typed /\ binary[b] \in Binary /\ binary[b].base \in Nat /\ binary[b].extra \in Nat
      /\ Sizes \subseteq Nat /\ KicadCheck \in Nat /\ 0 \in Nat
  BY GateConstants, RuleConstants DEF Inv, Typed, Binary
<1>2. CASE Reserve(b)
  BY <1>1, <1>2, RoundKeeps DEF Reserve, Runs
<1>3. CASE Poll(b)
  <2>1. binary[b].want[1] \in Nat /\ binary[b].want[2] \in Nat
    BY <1>1 DEF Binary
  <2>2. QED
    BY <1>3, <2>1, RoundKeeps DEF Poll, Runs
<1>4. CASE TryOnce(b)
  <2>1. PICK wish \in Nat, extra \in Nat :
           /\ Runs(b) /\ Write(TryHold(b, wish, extra, FALSE, TRUE).ledger)
           /\ binary' = [binary EXCEPT ![b] = TryHold(b, wish, extra, FALSE, TRUE).own]
           /\ UNCHANGED <<gate, at, dead>>
    BY <1>1, <1>4 DEF TryOnce
  <2> DEFINE try == TryHold(b, wish, extra, FALSE, TRUE)
  <2>2. binary[b].inside \in {0, b} /\ TRUE \in BOOLEAN /\ FALSE \in BOOLEAN
    BY DEF Inv, BoardInv, BinarySide
  <2>3. Covers(b, try)
    BY <1>1, <2>2, TryCovers
  <2>4. Write(try.ledger) /\ binary' = [binary EXCEPT ![b] = try.own]
    BY <2>1
  <2> HIDE DEF try
  <2>5. try.own \in Binary /\ try.own.pc \in {"idle", "waiting"}
    BY <2>1, <2>3 DEF Runs, Covers
  <2>6. QED
    BY <2>1, <2>3, <2>4, <2>5, TryKeeps
<1>5. QED
  BY <1>2, <1>3, <1>4

\* A binary's end leaves nothing live of its own.
LEMMA GoneKeeps ==
    ASSUME Inv, NEW b \in Boards, Exit(b) \/ Crash(b)
    PROVE  Inv'
<1> DEFINE ended == [NoBinary EXCEPT !.pc = "ended"]
<1>1. /\ Typed /\ BoardInv(b) /\ Live \in [Ids -> Entry] /\ NoHold \in Entry /\ NoHold.mb = 0
      /\ b \in Ids /\ Pid(b) \in Ids
  BY LiveTyped, Identities DEF Inv
<1>2. /\ Runs(b) /\ binary' = [binary EXCEPT ![b] = ended] /\ UNCHANGED <<gate, at, dead>>
  BY DEF Exit, Crash, Gone
<1>3. ended \in Binary /\ ended.pc = "ended" /\ ended.inside = 0
  BY DEF NoBinary, Binary
<1> HIDE DEF ended
<1>4. /\ ledger' \in [Ids -> Entry] /\ orphans' \in SUBSET Ids
      /\ Live' = [Live EXCEPT ![Pid(b)] = NoHold]
      /\ orphans' \subseteq orphans \cup {Pid(b)}
  <2>1. CASE Exit(b)
    <3>1. [Live EXCEPT ![Pid(b)] = NoHold] \in [Ids -> Entry]
      BY <1>1
    <3>2. QED
      BY <2>1, <3>1, WrittenIsLive DEF Exit
  <2>2. CASE Crash(b)
    <3>1. ledger' = ledger /\ orphans' = orphans \cup {Pid(b)}
      BY <2>2 DEF Crash
    <3>2. Live' = [Live EXCEPT ![Pid(b)] = NoHold]
      BY <1>1, <3>1 DEF Live, Typed
    <3>3. QED
      BY <1>1, <3>1, <3>2 DEF Typed
  <2>3. QED
    BY <2>1, <2>2
<1>5. Typed'
  BY <1>1, <1>2, <1>3, <1>4 DEF Typed
<1>6. binary'[b] = ended /\ \A c \in Boards \ {b} : binary'[c] = binary[c]
  BY <1>1, <1>2 DEF Typed
<1>7. ASSUME NEW c \in Boards, c # b PROVE BoardInv(c)'
  <2>1. Pid(c) # Pid(b) /\ c # Pid(b) /\ c \in Ids /\ Pid(c) \in Ids
    BY <1>7, Identities
  <2>2. Live'[c] = Live[c] /\ Live'[Pid(c)] = Live[Pid(c)] /\ BoardInv(c)
    BY <1>1, <1>4, <2>1 DEF Inv
  <2>3. QED
    BY <1>2, <1>4, <1>6, <1>7, <2>1, <2>2, BoardStays
<1>8. BoardInv(b)'
  <2>1. /\ ~Runs(b)' /\ Live'[Pid(b)].mb = 0 /\ Live'[b] = Live[b] /\ b # 0
    BY <1>1, <1>3, <1>4, <1>6, Identities DEF Runs
  <2>2. HarnessSide(b)'
    BY <1>1, <1>2, <2>1 DEF BoardInv, HarnessSide
  <2>3. BinarySide(b)' /\ HandedOver(b)'
    BY <1>3, <1>6, <2>1 DEF BinarySide, HandedOver
  <2>4. QED
    BY <2>2, <2>3 DEF BoardInv
<1>9. QED
  BY <1>2, <1>4, <1>5, <1>7, <1>8, Identities DEF Inv

---------------------------------------------------------------------------
(* The board's thread *)

\* A step of a board's thread that changes at most the board's own entry.
LEMMA EntryOfBoard ==
    ASSUME Inv, NEW b \in Boards, NEW e \in Entry,
           Write([Live EXCEPT ![b] = e]) \/ (ledger' = ledger /\ orphans' = orphans /\ e = Live[b])
    PROVE  /\ ledger' \in [Ids -> Entry] /\ orphans' \in SUBSET Ids
           /\ orphans' \subseteq orphans
           /\ Live' = [Live EXCEPT ![b] = e]
           /\ Live'[b] = e /\ Live'[Pid(b)] = Live[Pid(b)]
           /\ \A c \in Boards \ {b} : Live'[c] = Live[c] /\ Live'[Pid(c)] = Live[Pid(c)]
<1>1. Typed /\ Live \in [Ids -> Entry] /\ b \in Ids
  BY LiveTyped, Identities DEF Inv
<1>2. [Live EXCEPT ![b] = e] \in [Ids -> Entry]
  BY <1>1
<1>3. /\ ledger' \in [Ids -> Entry] /\ orphans' \in SUBSET Ids
      /\ orphans' \subseteq orphans
      /\ Live' = [Live EXCEPT ![b] = e]
  <2>1. CASE Write([Live EXCEPT ![b] = e])
    BY <1>2, <2>1, WrittenIsLive
  <2>2. CASE ledger' = ledger /\ orphans' = orphans /\ e = Live[b]
    BY <1>1, <2>2 DEF Live, Typed
  <2>3. QED
    BY <2>1, <2>2
<1>4. QED
  BY <1>1, <1>3, Identities

\* Such a step of one board: the others keep their part.
LEMMA OthersKeep ==
    ASSUME Inv, NEW b \in Boards, NEW e \in Entry,
           Write([Live EXCEPT ![b] = e]) \/ (ledger' = ledger /\ orphans' = orphans /\ e = Live[b]),
           dead' = dead, ~dead,
           NEW token \in Token, gate' = [gate EXCEPT ![b] = token],
           NEW place \in {"out", "held", "started", "runs", "ran"},
           at' = [at EXCEPT ![b] = place],
           NEW process \in Binary, binary' = [binary EXCEPT ![b] = process]
    PROVE  /\ BoardInv(b)' => Inv'
           /\ gate'[b] = token /\ at'[b] = place /\ binary'[b] = process
<1>1. Typed /\ \A c \in Boards : BoardInv(c)
  BY DEF Inv
<1>2. /\ ledger' \in [Ids -> Entry] /\ orphans' \in SUBSET Ids
      /\ orphans' \subseteq orphans
      /\ \A c \in Boards \ {b} : Live'[c] = Live[c] /\ Live'[Pid(c)] = Live[Pid(c)]
  BY EntryOfBoard
<1>3. Typed'
  BY <1>1, <1>2 DEF Typed
<1>4. gate'[b] = token /\ at'[b] = place /\ binary'[b] = process
  BY <1>1 DEF Typed
<1>5. ASSUME NEW c \in Boards, c # b PROVE BoardInv(c)'
  <2>1. gate'[c] = gate[c] /\ at'[c] = at[c] /\ binary'[c] = binary[c]
    BY <1>1, <1>5 DEF Typed
  <2>2. QED
    BY <1>1, <1>2, <1>5, <2>1, BoardStays
<1>6. \A c \in Boards : c \in orphans' => dead'
  BY <1>2 DEF Inv
<1>7. QED
  BY <1>3, <1>4, <1>5, <1>6 DEF Inv

\* A process that starts counts on nothing yet.
LEMMA NewBinary ==
    ASSUME NEW inside \in {0} \cup Boards
    PROVE  LET new == [NoBinary EXCEPT !.pc = "idle", !.inside = inside]
           IN  /\ new \in Binary /\ new.pc = "idle" /\ new.inside = inside
               /\ new.base = 0 /\ new.extra = 0 /\ new.granted = 0
  BY DEF NoBinary, Binary

\* Admissions, starts, the reaping and the end of a board.
LEMMA ThreadKeeps ==
    ASSUME Inv, NEW b \in Boards,
           \/ Admit(b) \/ StartInside(b) \/ StartBinary(b) \/ Reap(b)
           \/ AdmitAfter(b) \/ StartOutside(b) \/ EndBoard(b)
    PROVE  Inv'
<1>1. /\ Typed /\ BoardInv(b) /\ Live \in [Ids -> Entry] /\ NoHold \in Entry /\ NoHold.mb = 0
      /\ b \in Ids /\ Pid(b) \in Ids /\ b # 0
      /\ gate[b] \in Token /\ binary[b] \in Binary /\ Live[b] \in Entry /\ Live[Pid(b)] \in Entry
      /\ at[b] \in {"out", "held", "started", "runs", "ran"}
  BY LiveTyped, Identities DEF Inv, Typed
<1>2. /\ HarnessSide(b) /\ BinarySide(b) /\ HandedOver(b)
  BY <1>1 DEF BoardInv
<1>3. /\ gate = [gate EXCEPT ![b] = gate[b]] /\ at = [at EXCEPT ![b] = at[b]]
      /\ binary = [binary EXCEPT ![b] = binary[b]]
  BY <1>1 DEF Typed
<1>4. CASE Admit(b)
  <2>1. PICK peak \in Peaks :
          /\ Write([Live EXCEPT ![b] = [mb |-> peak, wants |-> 0, from |-> b, granted |-> 0]])
          /\ gate' = [gate EXCEPT ![b] = [key |-> "board", moved |-> FALSE, peak |-> peak]]
    BY <1>4 DEF Admit
  <2> DEFINE e == [mb |-> peak, wants |-> 0, from |-> b, granted |-> 0]
             token == [key |-> "board", moved |-> FALSE, peak |-> peak]
  <2>2. peak \in Nat /\ peak > 0 /\ e \in Entry /\ e.mb = peak
        /\ token \in Token /\ token.key = "board" /\ token.peak = peak
    BY <1>1, GateConstants DEF Entry, Token
  <2>3. /\ Write([Live EXCEPT ![b] = e]) /\ gate' = [gate EXCEPT ![b] = token]
        /\ at' = [at EXCEPT ![b] = "held"] /\ binary' = [binary EXCEPT ![b] = binary[b]]
        /\ dead' = dead /\ ~dead /\ at[b] = "out"
    BY <1>3, <1>4, <2>1 DEF Admit
  <2> HIDE DEF e, token
  <2>4. /\ BoardInv(b)' => Inv'
        /\ gate'[b] = token /\ at'[b] = "held" /\ binary'[b] = binary[b]
    BY <1>1, <2>2, <2>3, OthersKeep
  <2>5. Live'[b] = e /\ Live'[Pid(b)] = Live[Pid(b)] /\ orphans' \subseteq orphans
    BY <2>2, <2>3, EntryOfBoard
  <2>6. HarnessSide(b)'
    BY <2>2, <2>3, <2>4, <2>5 DEF HarnessSide
  <2>7. BinarySide(b)' /\ HandedOver(b)'
    <3>1. Live[b].mb = 0 /\ binary[b].inside = 0
      BY <1>1, <1>2, <2>3, Identities DEF HarnessSide, BinarySide
    <3>2. QED
      BY <1>1, <1>2, <2>3, <2>4, <2>5, <3>1 DEF BinarySide, HandedOver, Runs
  <2>8. QED
    BY <2>4, <2>6, <2>7 DEF BoardInv
<1>5. CASE StartInside(b)
  <2> DEFINE new == [NoBinary EXCEPT !.pc = "idle", !.inside = b]
  <2>1. /\ new \in Binary /\ new.pc = "idle" /\ new.inside = b
        /\ new.base = 0 /\ new.extra = 0 /\ new.granted = 0
    BY NewBinary
  <2>2. /\ ledger' = ledger /\ orphans' = orphans /\ gate' = [gate EXCEPT ![b] = gate[b]]
        /\ at' = [at EXCEPT ![b] = "held"] /\ binary' = [binary EXCEPT ![b] = new]
        /\ dead' = dead /\ ~dead /\ at[b] = "held" /\ binary[b].pc = "none"
    BY <1>2, <1>3, <1>5 DEF StartInside, Idle, Spawn, HarnessSide
  <2> HIDE DEF new
  <2>3. /\ BoardInv(b)' => Inv'
        /\ gate'[b] = gate[b] /\ at'[b] = "held" /\ binary'[b] = new
    BY <1>1, <2>1, <2>2, OthersKeep
  <2>4. Live'[b] = Live[b] /\ Live'[Pid(b)] = Live[Pid(b)]
    BY <1>1, <2>2, EntryOfBoard
  <2>5. Live[Pid(b)].mb = 0 /\ Live[b].mb \in Nat
    BY <1>1, <1>2, <2>2 DEF BinarySide, Runs, Entry
  <2>6. HarnessSide(b)' /\ BinarySide(b)' /\ HandedOver(b)'
    BY <1>1, <1>2, <2>1, <2>2, <2>3, <2>4, <2>5
       DEF HarnessSide, BinarySide, HandedOver, Runs
  <2>7. QED
    BY <2>3, <2>6 DEF BoardInv
<1>6. CASE StartBinary(b) \/ StartOutside(b)
  <2> DEFINE new == [NoBinary EXCEPT !.pc = "idle", !.inside = 0]
             place == IF at[b] = "held" THEN "started" ELSE at[b]
  <2>1. /\ new \in Binary /\ new.pc = "idle" /\ new.inside = 0
        /\ new.base = 0 /\ new.extra = 0 /\ new.granted = 0
    BY NewBinary
  <2>2. /\ ledger' = ledger /\ orphans' = orphans /\ gate' = [gate EXCEPT ![b] = gate[b]]
        /\ at' = [at EXCEPT ![b] = place] /\ binary' = [binary EXCEPT ![b] = new]
        /\ dead' = dead /\ ~dead /\ at[b] \in {"held", "ran"} /\ binary[b].pc = "none"
        /\ place \in {"out", "held", "started", "runs", "ran"}
    BY <1>3, <1>6 DEF StartBinary, StartOutside, Idle, Spawn
  <2>3. place # "runs" /\ (place \in {"held", "started"} <=> at[b] \in {"held", "started"})
    BY <2>2
  <2> HIDE DEF new, place
  <2>4. /\ BoardInv(b)' => Inv'
        /\ gate'[b] = gate[b] /\ at'[b] = place /\ binary'[b] = new
    BY <1>1, <2>1, <2>2, OthersKeep
  <2>5. Live'[b] = Live[b] /\ Live'[Pid(b)] = Live[Pid(b)]
    BY <1>1, <2>2, EntryOfBoard
  <2>6. Live[Pid(b)].mb = 0
    BY <1>2, <2>2 DEF BinarySide, Runs
  <2>7. HarnessSide(b)' /\ BinarySide(b)' /\ HandedOver(b)'
    BY <1>1, <1>2, <2>1, <2>2, <2>3, <2>4, <2>5, <2>6
       DEF HarnessSide, BinarySide, HandedOver, Runs
  <2>8. QED
    BY <2>4, <2>7 DEF BoardInv
<1>7. CASE Reap(b)
  <2> DEFINE place == IF at[b] = "runs" THEN "ran" ELSE at[b]
  <2>1. NoBinary \in Binary /\ NoBinary.pc = "none" /\ NoBinary.inside = 0
    BY DEF NoBinary, Binary
  <2>2. /\ ledger' = ledger /\ orphans' = orphans /\ gate' = [gate EXCEPT ![b] = gate[b]]
        /\ at' = [at EXCEPT ![b] = place] /\ binary' = [binary EXCEPT ![b] = NoBinary]
        /\ dead' = dead /\ ~dead /\ binary[b].pc = "ended" /\ at[b] # "started"
        /\ place \in {"out", "held", "started", "runs", "ran"}
    BY <1>1, <1>3, <1>7 DEF Reap
  <2>3. /\ place # "runs" /\ place # "started"
        /\ (place \in {"held", "started"} <=> at[b] \in {"held", "started"})
    BY <2>2
  <2> HIDE DEF place
  <2>4. /\ BoardInv(b)' => Inv'
        /\ gate'[b] = gate[b] /\ at'[b] = place /\ binary'[b] = NoBinary
    BY <1>1, <2>1, <2>2, OthersKeep
  <2>5. Live'[b] = Live[b] /\ Live'[Pid(b)] = Live[Pid(b)]
    BY <1>1, <2>2, EntryOfBoard
  <2>6. HarnessSide(b)' /\ BinarySide(b)' /\ HandedOver(b)'
    BY <1>1, <1>2, <2>1, <2>2, <2>3, <2>4, <2>5
       DEF HarnessSide, BinarySide, HandedOver, Runs
  <2>7. QED
    BY <2>4, <2>6 DEF BoardInv
<1>8. CASE AdmitAfter(b)
  <2> DEFINE e == [mb |-> AfterRun, wants |-> 0, from |-> b, granted |-> 0]
             token == [key |-> "board", moved |-> FALSE, peak |-> 0]
  <2>1. /\ e \in Entry /\ e.mb = AfterRun /\ AfterRun \in Nat /\ AfterRun > 0
        /\ token \in Token /\ token.key = "board" /\ token.peak = 0
    BY <1>1, GateConstants DEF Entry, Token
  <2>2. /\ Write([Live EXCEPT ![b] = e]) /\ gate' = [gate EXCEPT ![b] = token]
        /\ at' = [at EXCEPT ![b] = "held"] /\ binary' = [binary EXCEPT ![b] = binary[b]]
        /\ dead' = dead /\ ~dead /\ at[b] = "ran" /\ binary[b].pc = "none"
    BY <1>3, <1>8 DEF AdmitAfter, Idle
  <2> HIDE DEF e, token
  <2>3. /\ BoardInv(b)' => Inv'
        /\ gate'[b] = token /\ at'[b] = "held" /\ binary'[b] = binary[b]
    BY <1>1, <2>1, <2>2, OthersKeep
  <2>4. Live'[b] = e /\ Live'[Pid(b)] = Live[Pid(b)]
    BY <2>1, <2>2, EntryOfBoard
  <2>5. HarnessSide(b)' /\ BinarySide(b)' /\ HandedOver(b)'
    BY <1>1, <1>2, <2>1, <2>2, <2>3, <2>4 DEF HarnessSide, BinarySide, HandedOver, Runs
  <2>6. QED
    BY <2>3, <2>5 DEF BoardInv
<1>9. CASE EndBoard(b)
  <2>1. /\ Write(Released(Live, b)) /\ gate' = [gate EXCEPT ![b] = NoToken]
        /\ at' = [at EXCEPT ![b] = "out"] /\ binary' = binary
        /\ dead' = dead /\ ~dead /\ binary[b].pc = "none"
    BY <1>9 DEF EndBoard, Idle
  <2>2. Live[Pid(b)].mb = 0 /\ (gate[b].key # "board" => Live[b].mb = 0)
    BY <1>2, <2>1 DEF BinarySide, Runs, HarnessSide
  <2>3. /\ Released(Live, b) \in [Ids -> Entry]
        /\ Released(Live, b)[b].mb = 0 /\ Released(Live, b)[Pid(b)].mb = 0
        /\ \A r \in Ids \ {b, Pid(b)} : Released(Live, b)[r] = Live[r]
    BY <1>1, <2>2, Identities DEF Released
  <2>4. Live' = Released(Live, b) /\ orphans' = {} /\ ledger' = Released(Live, b)
    BY <2>1, <2>3, WrittenIsLive
  <2>5. NoToken \in Token
    BY DEF NoToken, Token
  <2>6. Typed'
    BY <1>1, <2>1, <2>3, <2>4, <2>5 DEF Typed
  <2>7. ASSUME NEW c \in Boards, c # b PROVE BoardInv(c)'
    <3>1. c \in Ids \ {b, Pid(b)} /\ Pid(c) \in Ids \ {b, Pid(b)}
      BY <2>7, Identities
    <3>2. /\ Live'[c] = Live[c] /\ Live'[Pid(c)] = Live[Pid(c)] /\ BoardInv(c)
          /\ gate'[c] = gate[c] /\ at'[c] = at[c] /\ binary'[c] = binary[c]
      BY <1>1, <2>1, <2>3, <2>4, <2>7, <3>1 DEF Inv, Typed
    <3>3. QED
      BY <2>1, <2>4, <3>2, BoardStays
  <2>8. BoardInv(b)'
    <3>1. at'[b] = "out" /\ binary'[b] = binary[b] /\ Live'[b].mb = 0 /\ Live'[Pid(b)].mb = 0
      BY <1>1, <2>1, <2>3, <2>4 DEF Typed
    <3>2. binary[b].inside = 0
      BY <1>2, <2>1 DEF BinarySide, Runs
    <3>3. QED
      BY <1>1, <1>2, <2>1, <3>1, <3>2 DEF BoardInv, HarnessSide, BinarySide, HandedOver, Runs
  <2>9. QED
    BY <2>4, <2>6, <2>7, <2>8, Identities DEF Inv
<1>10. QED
  BY <1>4, <1>5, <1>6, <1>7, <1>8, <1>9

\* Ledger.move: the board's entry is gone, and the binary's holds at least what each
\* of the two held.
LEMMA MovedEntry ==
    ASSUME NEW L \in [Ids -> Entry], NEW b \in Boards, L[b].mb > 0
    PROVE  LET moved == Moved(L, b)
           IN  /\ moved \in [Ids -> Entry] /\ moved[b].mb = 0
               /\ moved[Pid(b)].mb >= L[b].mb /\ moved[Pid(b)].mb >= L[Pid(b)].mb
               /\ moved[Pid(b)].granted >= L[b].mb
               /\ \A r \in Ids \ {b, Pid(b)} : moved[r] = L[r]
<1>1. /\ b \in Ids /\ Pid(b) \in Ids /\ b # Pid(b) /\ L[b] \in Entry /\ L[Pid(b)] \in Entry
      /\ NoHold \in Entry /\ NoHold.mb = 0
  BY Identities DEF NoHold, Entry
<1>2. /\ L[b].mb \in Nat /\ L[Pid(b)].mb \in Nat /\ L[Pid(b)].granted \in Nat
  BY <1>1 DEF Entry
<1>3. CASE L[Pid(b)] # NoHold
  <2> DEFINE m == Larger(L[Pid(b)].mb, L[b].mb)
             g == Larger(L[Pid(b)].granted, L[b].mb)
  <2>1. m \in Nat /\ m >= L[b].mb /\ m >= L[Pid(b)].mb /\ g \in Nat /\ g >= L[b].mb
    BY <1>2 DEF Larger
  <2>2. Moved(L, b) = [L EXCEPT ![b] = NoHold, ![Pid(b)].mb = m, ![Pid(b)].granted = g]
    BY <1>1, <1>2, <1>3 DEF Moved
  <2> HIDE DEF m, g
  <2>3. Moved(L, b) = [L EXCEPT ![b] = NoHold,
                                ![Pid(b)] = [L[Pid(b)] EXCEPT !.mb = m, !.granted = g]]
    BY <1>1, <2>2
  <2>4. [L[Pid(b)] EXCEPT !.mb = m, !.granted = g] \in Entry
    BY <1>1, <2>1 DEF Entry
  <2>5. QED
    BY <1>1, <2>1, <2>3, <2>4 DEF Entry
<1>4. CASE L[Pid(b)] = NoHold
  <2> DEFINE e == [L[b] EXCEPT !.granted = L[b].mb]
  <2>1. Moved(L, b) = [L EXCEPT ![b] = NoHold, ![Pid(b)] = e]
    BY <1>1, <1>2, <1>4 DEF Moved
  <2>2. /\ e \in Entry /\ e.mb = L[b].mb /\ e.granted = L[b].mb
    BY <1>1, <1>2 DEF Entry
  <2> HIDE DEF e
  <2>3. QED
    BY <1>1, <1>2, <1>4, <2>1, <2>2
<1>5. QED
  BY <1>3, <1>4

LEMMA HandOverKeeps ==
    ASSUME Inv, NEW b \in Boards, HandOver(b)
    PROVE  Inv'
<1> DEFINE moved == Moved(Live, b)
           key == IF Live[b].mb > 0 /\ Live[Pid(b)] = NoHold THEN "moved" ELSE "none"
           token == [gate[b] EXCEPT !.moved = TRUE, !.key = key]
<1>1. /\ Typed /\ BoardInv(b) /\ HarnessSide(b) /\ BinarySide(b) /\ Live \in [Ids -> Entry]
      /\ NoHold \in Entry /\ NoHold.mb = 0
      /\ b \in Ids /\ Pid(b) \in Ids /\ b # Pid(b) /\ b # 0
  BY LiveTyped, Identities DEF Inv, BoardInv
<1>2. /\ ~dead /\ at[b] = "started" /\ ledger' = moved
      /\ orphans' = IF binary[b].pc = "ended" THEN {Pid(b)} ELSE {}
      /\ at' = [at EXCEPT ![b] = "runs"] /\ binary' = binary /\ dead' = dead
      /\ gate' = [gate EXCEPT ![b] = token]
  BY <1>1 DEF HandOver, Typed
<1>3. /\ Live[b].mb > 0 /\ Live[b].mb >= gate[b].peak /\ Live[b].mb \in Nat
      /\ Live[Pid(b)].mb \in Nat /\ gate[b].peak \in Nat
  BY <1>1, <1>2 DEF HarnessSide, Entry, Typed, Token
<1>4. token \in Token /\ token.peak = gate[b].peak
  BY <1>1 DEF Typed, Token
<1> HIDE DEF moved, key, token
<1>5. /\ moved \in [Ids -> Entry] /\ moved[b].mb = 0
      /\ moved[Pid(b)].mb >= Live[b].mb /\ moved[Pid(b)].mb >= Live[Pid(b)].mb
      /\ moved[Pid(b)].granted >= Live[b].mb
      /\ \A r \in Ids \ {b, Pid(b)} : moved[r] = Live[r]
  BY <1>1, <1>3, MovedEntry DEF moved
<1>6. \A r \in Ids : Live'[r] = IF binary[b].pc = "ended" /\ r = Pid(b) THEN NoHold ELSE moved[r]
  BY <1>2 DEF Live
<1>7. Typed'
  BY <1>1, <1>2, <1>4, <1>5 DEF Typed
<1>8. ASSUME NEW c \in Boards, c # b PROVE BoardInv(c)'
  <2>1. c \in Ids \ {b, Pid(b)} /\ Pid(c) \in Ids \ {b, Pid(b)}
    BY <1>8, Identities
  <2>2. /\ Live'[c] = Live[c] /\ Live'[Pid(c)] = Live[Pid(c)] /\ BoardInv(c)
        /\ gate'[c] = gate[c] /\ at'[c] = at[c] /\ binary'[c] = binary[c]
        /\ Pid(c) \notin orphans'
    BY <1>1, <1>2, <1>5, <1>6, <1>8, <2>1 DEF Inv, Typed
  <2>3. QED
    BY <1>2, <2>2, BoardStays
<1>9. BoardInv(b)'
  <2>1. /\ at'[b] = "runs" /\ gate'[b] = token /\ Live'[b].mb = 0
    BY <1>1, <1>2, <1>5, <1>6 DEF Typed
  <2>2. binary[b].inside = 0 /\ (Runs(b)' <=> Runs(b)) /\ (Runs(b) \/ binary[b].pc = "ended")
    BY <1>1, <1>2 DEF BinarySide, Runs, Typed, Binary
  <2>3. HarnessSide(b)'
    BY <1>2, <2>1 DEF HarnessSide
  <2>4. CASE Runs(b)
    <3>1. Live'[Pid(b)] = moved[Pid(b)] /\ orphans' = {} /\ moved[Pid(b)] \in Entry
      BY <1>1, <1>2, <1>5, <1>6, <2>4 DEF Runs
    <3>2. /\ moved[Pid(b)].mb \in Nat /\ moved[Pid(b)].granted \in Nat
          /\ binary[b].granted \in Nat /\ binary[b].base \in Nat /\ binary[b].extra \in Nat
      BY <1>1, <3>1 DEF Entry, Typed, Binary
    <3>3. BinarySide(b)'
      BY <1>1, <1>2, <1>3, <1>5, <2>1, <2>2, <2>4, <3>1, <3>2 DEF BinarySide
    <3>4. HandedOver(b)'
      BY <1>2, <1>3, <1>4, <1>5, <2>1, <3>1, <3>2 DEF HandedOver, Larger
    <3>5. QED
      BY <2>3, <3>3, <3>4 DEF BoardInv
  <2>5. CASE ~Runs(b)
    <3>1. Live'[Pid(b)].mb = 0
      BY <1>1, <1>6, <2>2, <2>5
    <3>2. BinarySide(b)' /\ HandedOver(b)'
      BY <1>1, <1>2, <2>1, <2>2, <2>5, <3>1 DEF BinarySide, HandedOver
    <3>3. QED
      BY <2>3, <3>2 DEF BoardInv
  <2>6. QED
    BY <2>4, <2>5
<1>10. QED
  BY <1>2, <1>7, <1>8, <1>9, Identities DEF Inv

\* The harness's death leaves its binaries their entries, and its boards nothing.
LEMMA DeathKeeps ==
    ASSUME Inv, HarnessDies
    PROVE  Inv'
<1>1. /\ Typed /\ Live \in [Ids -> Entry] /\ NoHold \in Entry /\ NoHold.mb = 0
      /\ NoToken \in Token /\ NoBinary \in Binary /\ NoBinary.pc = "none" /\ NoBinary.inside = 0
  BY LiveTyped DEF Inv, NoToken, Token, NoBinary, Binary
<1>2. /\ dead' = TRUE /\ orphans' = orphans \cup Boards /\ ledger' = ledger
      /\ at' = [b \in Boards |-> "out"] /\ gate' = [b \in Boards |-> NoToken]
      /\ binary' = [b \in Boards |-> IF Runs(b) THEN binary[b] ELSE NoBinary]
  BY DEF HarnessDies
<1>3. Typed'
  BY <1>1, <1>2, Identities DEF Typed
<1>4. ASSUME NEW b \in Boards PROVE BoardInv(b)'
  <2>1. /\ Live'[b].mb = 0 /\ Live'[Pid(b)] = Live[Pid(b)] /\ at'[b] = "out"
        /\ Pid(b) \in orphans' => Pid(b) \in orphans
    BY <1>1, <1>2, Identities DEF Live
  <2>2. Runs(b)' <=> Runs(b)
    BY <1>1, <1>2 DEF Runs
  <2>3. BinarySide(b) /\ binary'[b] = IF Runs(b) THEN binary[b] ELSE NoBinary
    BY <1>2 DEF Inv, BoardInv
  <2>4. QED
    BY <1>1, <1>2, <2>1, <2>2, <2>3 DEF BoardInv, HarnessSide, BinarySide, HandedOver
<1>5. QED
  BY <1>2, <1>3, <1>4 DEF Inv

---------------------------------------------------------------------------
LEMMA NextKeeps == Inv /\ [Next]_vars => Inv'
<1> SUFFICES ASSUME Inv, [Next]_vars PROVE Inv'
  OBVIOUS
<1>1. CASE UNCHANGED vars
  BY <1>1 DEF vars, Inv, Typed, BoardInv, HarnessSide, BinarySide, HandedOver, Runs, Live
<1>2. ASSUME NEW b \in Boards, BoardNext(b) PROVE Inv'
  BY <1>2, ThreadKeeps, HandOverKeeps DEF BoardNext
<1>3. ASSUME NEW b \in Boards, BinaryNext(b) PROVE Inv'
  BY <1>3, TriesKeep, GoneKeeps DEF BinaryNext
<1>4. CASE HarnessDies
  BY <1>4, DeathKeeps
<1>5. QED
  BY <1>1, <1>2, <1>3, <1>4 DEF Next, Stopped

\* The inductive invariant of the gate.
THEOREM InvHolds == Spec => []Inv
<1>1. QED
  BY InitHolds, NextKeeps, PTL DEF Spec

\* Every variable has its type: no reservation is negative, through any hand-over,
\* refusal or raise inside a reservation.
THEOREM TypeHolds == Spec => []TypeOK
<1>1. ASSUME Inv PROVE TypeOK
  BY <1>1 DEF Inv, Typed, Entry, Token, Binary, TypeOK
<1>2. QED
  BY <1>1, InvHolds, PTL

\* What a binary counts on is in the ledger while the harness lives.
THEOREM CoverHolds == Spec => []BinariesAreCovered
<1>1. ASSUME Inv PROVE BinariesAreCovered
  <2> SUFFICES ASSUME NEW b \in Boards, Runs(b), ~dead
               PROVE  binary[b].base + binary[b].extra <=
                        Live[Pid(b)].mb
                          + (IF binary[b].inside = 0 THEN 0 ELSE Live[binary[b].inside].mb)
    BY DEF BinariesAreCovered
  <2>1. BinarySide(b)
    BY <1>1 DEF Inv, BoardInv
  <2>2. QED
    BY <2>1, Identities DEF BinarySide
<1>2. QED
  BY <1>1, InvHolds, PTL

\* The grant a board was admitted with is in the ledger until its binary has ended,
\* whenever the binary reserved for itself (Ledger.move).
THEOREM GrantHolds == Spec => []GrantIsKept
<1>1. ASSUME Inv PROVE GrantIsKept
  <2> SUFFICES ASSUME NEW b \in Boards,
                      at[b] \in {"held", "started"} \/ (at[b] = "runs" /\ Runs(b))
               PROVE  Live[b].mb + Live[Pid(b)].mb >= gate[b].peak
    BY DEF GrantIsKept
  <2>1. /\ HarnessSide(b) /\ HandedOver(b)
        /\ Live[b].mb \in Nat /\ Live[Pid(b)].mb \in Nat /\ gate[b].peak \in Nat
    BY <1>1, LiveTyped, Identities DEF Inv, BoardInv, Typed, Entry, Token
  <2>2. QED
    BY <2>1 DEF HarnessSide, HandedOver
<1>2. QED
  BY <1>1, InvHolds, PTL

\* From the hand-over on a board's memory is reserved once, and a board that is over
\* leaves nothing.
THEOREM OnceHolds == Spec => []ReservedOnce
<1>1. ASSUME Inv PROVE ReservedOnce
  BY <1>1 DEF Inv, BoardInv, HarnessSide, BinarySide, ReservedOnce
<1>2. QED
  BY <1>1, InvHolds, PTL
=============================================================================
