--------------------- MODULE ProcessReservationProofs ---------------------
(***************************************************************************)
(* Theorems of one process's own part of the ledger, for any check, any    *)
(* size the process grows to and any room the others leave it.             *)
(***************************************************************************)
EXTENDS ProcessReservation, TLAPS

\* What the threads carry between two locks is no more than one check, and
\* a check is counted while it runs and only then.
Carried ==
    /\ extra <= KicadCheck
    /\ main.read.extra <= KicadCheck
    /\ dog.read.extra <= KicadCheck
    /\ main.pc \in {"start", "idle", "hold", "raise", "mark", "end", "giveBack"} => checks = 0
    /\ main.pc \in {"marked", "rewrite", "work"} => checks = KicadCheck

\* A command that reserved its check up front: nothing is held before the
\* first hold, and then no reading of the children's part differs from it.
KeptUpFront ==
    upFront =>
        \/ /\ main.pc = "start" /\ dog.pc = "none"
        \/ /\ main.pc = "hold" /\ main.read.extra = KicadCheck /\ dog.pc = "none"
        \/ /\ extra = KicadCheck
           /\ main.pc \notin {"start", "raise"}
           /\ main.pc \in {"hold", "rewrite", "giveBack"} => main.read.extra = KicadCheck
           /\ main.read.raise = 0
           /\ dog.pc \in {"grow", "past", "back"} => dog.read.extra = KicadCheck

Inv == TypeOK /\ Carried /\ KeptUpFront

\* What a try leaves: the limit never lower, and the children's part the
\* caller's or the one before.
LEMMA TryHoldLeaves ==
    ASSUME TypeOK, NEW wish \in Nat, NEW children \in Nat, NEW wait \in BOOLEAN
    PROVE  LET try == TryHold(wish, children, wait)
           IN  /\ try.base \in Nat /\ try.base >= base
               /\ try.extra \in {children, extra}
               /\ try.held => try.extra = children
               /\ try.extra \in Nat
               /\ try.held \in BOOLEAN
               /\ try.entry \in [mb : Nat, wants : Nat]
<1> DEFINE try    == TryHold(wish, children, wait)
           limit  == Larger(wish, base)
           wanted == limit + children
           held   == base + extra
<1>1. base \in Nat /\ extra \in Nat /\ limit \in Nat /\ limit >= base
  BY DEF TypeOK, Larger
<1>2. wanted \in Nat /\ held \in Nat
  BY <1>1
<1>3. CASE wanted <= room \/ (held > 0 /\ wanted <= held)
  <2>1. try = [held |-> TRUE, base |-> limit, extra |-> children,
               entry |-> [mb |-> wanted, wants |-> 0]]
    BY <1>3 DEF TryHold
  <2> HIDE DEF try, limit, wanted
  <2>2. QED
    BY <1>1, <1>2, <2>1 DEF try
<1>4. CASE ~(wanted <= room \/ (held > 0 /\ wanted <= held))
  <2> DEFINE wants == IF wait THEN wanted ELSE 0
  <2>1. try = [held |-> FALSE, base |-> base, extra |-> extra,
               entry |-> [mb |-> held, wants |-> wants]]
    BY <1>4 DEF TryHold
  <2>2. wants \in Nat
    BY <1>2
  <2> HIDE DEF try, limit, wanted, wants, held
  <2>3. QED
    BY <1>1, <1>2, <2>1, <2>2 DEF try
<1>5. QED
  BY <1>3, <1>4

\* The types of what is read.
LEMMA Types ==
    ASSUME TypeOK
    PROVE  /\ base \in Nat /\ extra \in Nat /\ checks \in Nat /\ resident \in Nat
           /\ main.pc \in MainPcs /\ main.read \in Read
           /\ main.read.base \in Nat /\ main.read.extra \in Nat /\ main.read.raise \in Nat
           /\ dog.pc \in DogPcs /\ dog.read \in Read /\ dog.over \in BOOLEAN
           /\ dog.read.base \in Nat /\ dog.read.extra \in Nat /\ dog.read.raise \in Nat
           /\ KicadCheck \in Nat /\ KicadCheck > 0
           /\ Nothing \in Read /\ Nothing.extra = 0 /\ Nothing.raise = 0
  BY ProcessConstants DEF TypeOK, Read, Nothing

\* A step that leaves the locks as they are and moves the main thread on.
LEMMA CarryTypes ==
    ASSUME TypeOK, NEW pc \in MainPcs, NEW read \in Read, Carry(pc, read)
    PROVE  /\ TypeOK'
           /\ main'.pc = pc /\ main'.read = read
           /\ upFront' = upFront /\ base' = base /\ extra' = extra /\ checks' = checks
           /\ dog' = dog
  BY DEF Carry, At, TypeOK, own

\* A step that sets what a try left, with the main thread or the watchdog
\* moving on.
LEMMA SetTypes ==
    ASSUME TypeOK, NEW wish \in Nat, NEW children \in Nat, NEW wait \in BOOLEAN,
           Set(TryHold(wish, children, wait)),
           main' \in [pc : MainPcs, read : Read],
           dog' \in [pc : DogPcs, read : Read, over : BOOLEAN]
    PROVE  /\ TypeOK'
           /\ base' >= base /\ extra' \in {children, extra}
           /\ TryHold(wish, children, wait).held => extra' = children
           /\ upFront' = upFront /\ checks' = checks
<1> DEFINE try == TryHold(wish, children, wait)
<1>1. /\ try.base \in Nat /\ try.base >= base
      /\ try.extra \in {children, extra} /\ try.extra \in Nat
      /\ try.held => try.extra = children
      /\ try.entry \in [mb : Nat, wants : Nat]
  BY TryHoldLeaves
<1>2. /\ base' = try.base /\ extra' = try.extra /\ entry' = try.entry
      /\ UNCHANGED <<upFront, checks, room, resident>>
  BY DEF Set
<1> HIDE DEF try
<1>3. QED
  BY <1>1, <1>2 DEF TypeOK, try

LEMMA InitHolds == Init => Inv
<1> SUFFICES ASSUME Init PROVE Inv
  OBVIOUS
<1>1. /\ main.pc = "start" /\ main.read = Nothing /\ dog.pc = "none"
      /\ dog.read = Nothing /\ extra = 0 /\ checks = 0
  BY DEF Init, At
<1>2. TypeOK
  BY ProcessConstants DEF Init, TypeOK, At, MainPcs, DogPcs, Read, Nothing
<1>3. Carried
  BY <1>1, <1>2, Types DEF Carried
<1>4. KeptUpFront
  BY <1>1 DEF KeptUpFront
<1>5. QED
  BY <1>2, <1>3, <1>4 DEF Inv

\* The main thread's steps.
LEMMA MainKeeps ==
    ASSUME Inv, MainNext
    PROVE  Inv' /\ base' >= base
<1>1. /\ TypeOK /\ Carried /\ KeptUpFront
  BY DEF Inv
<1>2. CASE StartUpFront
  <2>1. CASE upFront
    <3> DEFINE read == [base |-> base, extra |-> KicadCheck, raise |-> 0]
    <3>1. Carry("hold", read) /\ main.pc = "start"
      BY <1>2, <2>1 DEF StartUpFront
    <3>2. read \in Read /\ read.extra = KicadCheck
      BY <1>1, Types DEF Read
    <3> HIDE DEF read
    <3>3. /\ TypeOK' /\ main'.pc = "hold" /\ main'.read.extra = KicadCheck
          /\ upFront' = upFront /\ base' = base /\ extra' = extra /\ checks' = checks
          /\ dog' = dog
      BY <1>1, <3>1, <3>2, CarryTypes DEF MainPcs
    <3>4. Carried'
      BY <1>1, <3>1, <3>3, Types DEF Carried
    <3>5. KeptUpFront'
      BY <1>1, <3>1, <3>3, Types DEF KeptUpFront
    <3>6. QED
      BY <1>1, <3>3, <3>4, <3>5, Types DEF Inv
  <2>2. CASE ~upFront
    <3>1. Carry("idle", Nothing) /\ main.pc = "start"
      BY <1>2, <2>2 DEF StartUpFront
    <3>2. /\ TypeOK' /\ main'.pc = "idle" /\ main'.read = Nothing
          /\ upFront' = upFront /\ base' = base /\ extra' = extra /\ checks' = checks
          /\ dog' = dog
      BY <1>1, <3>1, CarryTypes, Types DEF MainPcs
    <3>3. Carried' /\ KeptUpFront'
      BY <1>1, <2>2, <3>1, <3>2, Types DEF Carried, KeptUpFront
    <3>4. QED
      BY <1>1, <3>2, <3>3, Types DEF Inv
  <2>3. QED
    BY <2>1, <2>2
<1>3. ASSUME NEW size \in 1..MaxResident, ReserveAtLeast(size)
      PROVE  Inv' /\ base' >= base
  <2> DEFINE read == [base |-> size, extra |-> extra, raise |-> 0]
  <2>1. Carry("hold", read) /\ main.pc = "idle"
    BY <1>3 DEF ReserveAtLeast
  <2>2. read \in Read /\ read.extra = extra /\ read.raise = 0
    BY <1>1, Types, ProcessConstants DEF Read
  <2> HIDE DEF read
  <2>3. /\ TypeOK' /\ main'.pc = "hold" /\ main'.read.extra = extra /\ main'.read.raise = 0
        /\ upFront' = upFront /\ base' = base /\ extra' = extra /\ checks' = checks
        /\ dog' = dog
    BY <1>1, <2>1, <2>2, CarryTypes DEF MainPcs
  <2>4. Carried' /\ KeptUpFront'
    BY <1>1, <2>1, <2>3, Types DEF Carried, KeptUpFront
  <2>5. QED
    BY <1>1, <2>3, <2>4, Types DEF Inv
<1>4. CASE ReadForCheck
  <2> DEFINE raise == Larger(KicadCheck - Larger(extra - checks, 0), 0)
             read  == [base |-> base, extra |-> extra + raise, raise |-> raise]
  <2>1. main.pc = "idle" /\ checks = 0 /\ extra <= KicadCheck
    BY <1>1, <1>4 DEF ReadForCheck, Carried
  <2>2. raise \in Nat /\ extra + raise = KicadCheck
    BY <1>1, <2>1, Types DEF Larger
  <2>3. CASE raise > 0
    <3>1. Carry("raise", read)
      BY <1>4, <2>3 DEF ReadForCheck
    <3> HIDE DEF raise
    <3>2. read \in Read /\ read.extra = KicadCheck
      BY <1>1, <2>2, Types DEF Read
    <3> HIDE DEF read
    <3>3. /\ TypeOK' /\ main'.pc = "raise" /\ main'.read.extra = KicadCheck
          /\ upFront' = upFront /\ base' = base /\ extra' = extra /\ checks' = checks
          /\ dog' = dog
      BY <1>1, <3>1, <3>2, CarryTypes DEF MainPcs
    <3>4. Carried' /\ KeptUpFront'
      BY <1>1, <2>1, <2>2, <2>3, <3>3, Types DEF Carried, KeptUpFront
    <3>5. QED
      BY <1>1, <3>3, <3>4, Types DEF Inv
  <2>4. CASE ~(raise > 0)
    <3>1. Carry("mark", Nothing)
      BY <1>4, <2>4 DEF ReadForCheck
    <3> HIDE DEF raise, read
    <3>2. /\ TypeOK' /\ main'.pc = "mark" /\ main'.read = Nothing
          /\ upFront' = upFront /\ base' = base /\ extra' = extra /\ checks' = checks
          /\ dog' = dog
      BY <1>1, <3>1, CarryTypes, Types DEF MainPcs
    <3>3. Carried' /\ KeptUpFront'
      BY <1>1, <2>1, <2>2, <3>2, Types DEF Carried, KeptUpFront
    <3>4. QED
      BY <1>1, <3>2, <3>3, Types DEF Inv
  <2>5. QED
    BY <2>3, <2>4
<1>5. CASE Hold
  <2> DEFINE try == TryHold(main.read.base, main.read.extra, TRUE)
  <2>1. /\ main.pc \in {"hold", "raise"} /\ Set(try)
        /\ IF try.held
           THEN /\ main' = IF main.pc = "raise"
                           THEN At("mark", main.read) ELSE At("idle", Nothing)
                /\ dog' = IF dog.pc = "none" THEN [dog EXCEPT !.pc = "sleep"] ELSE dog
           ELSE UNCHANGED <<main, dog>>
    BY <1>5 DEF Hold
  <2>2. TRUE \in BOOLEAN
    OBVIOUS
  <2>3. /\ main' \in [pc : MainPcs, read : Read]
        /\ dog' \in [pc : DogPcs, read : Read, over : BOOLEAN]
        /\ dog'.read = dog.read
        /\ dog'.pc = dog.pc \/ dog'.pc = "sleep"
    <3> HIDE DEF try
    <3>1. At("mark", main.read) \in [pc : MainPcs, read : Read]
      BY <1>1, Types DEF At, MainPcs
    <3>2. At("idle", Nothing) \in [pc : MainPcs, read : Read]
      BY <1>1, Types DEF At, MainPcs
    <3>3. [dog EXCEPT !.pc = "sleep"] \in [pc : DogPcs, read : Read, over : BOOLEAN]
      BY <1>1 DEF TypeOK, DogPcs
    <3>4. [dog EXCEPT !.pc = "sleep"].read = dog.read /\ [dog EXCEPT !.pc = "sleep"].pc = "sleep"
      BY <1>1 DEF TypeOK
    <3>5. QED
      BY <1>1, <2>1, <3>1, <3>2, <3>3, <3>4 DEF TypeOK
  <2>4. /\ TypeOK' /\ base' >= base /\ extra' \in {main.read.extra, extra}
        /\ try.held => extra' = main.read.extra
        /\ upFront' = upFront /\ checks' = checks
    BY <1>1, <2>1, <2>2, <2>3, Types, SetTypes
  <2> HIDE DEF try
  <2>5. CASE try.held
    <3>1. \/ main.pc = "raise" /\ main'.pc = "mark" /\ main'.read = main.read
          \/ main.pc = "hold" /\ main'.pc = "idle" /\ main'.read = Nothing
      BY <2>1, <2>5 DEF At
    <3>2. Carried'
      BY <1>1, <2>1, <2>3, <2>4, <3>1, Types DEF Carried
    <3>3. KeptUpFront'
      BY <1>1, <2>1, <2>3, <2>4, <2>5, <3>1, Types DEF KeptUpFront
    <3>4. QED
      BY <2>4, <3>2, <3>3 DEF Inv
  <2>6. CASE ~try.held
    <3>1. main' = main /\ dog' = dog
      BY <2>1, <2>6
    <3>2. Carried' /\ KeptUpFront'
      BY <1>1, <2>1, <2>4, <3>1, Types DEF Carried, KeptUpFront
    <3>3. QED
      BY <2>4, <3>2 DEF Inv
  <2>7. QED
    BY <2>5, <2>6
<1>6. CASE Mark
  <2>1. /\ main.pc = "mark" /\ checks' = checks + KicadCheck
        /\ main' = At("marked", main.read)
        /\ UNCHANGED <<upFront, base, extra, entry, room, resident, dog>>
    BY <1>6 DEF Mark
  <2>2. main'.pc = "marked" /\ main'.read = main.read
    BY <2>1 DEF At
  <2>3. TypeOK'
    BY <1>1, <2>1, Types DEF TypeOK, At, MainPcs
  <2>4. Carried' /\ KeptUpFront'
    BY <1>1, <2>1, <2>2, Types DEF Carried, KeptUpFront
  <2>5. QED
    BY <1>1, <2>1, <2>3, <2>4, Types DEF Inv
<1>7. CASE ReadForMark
  <2> DEFINE read == [base |-> base, extra |-> extra, raise |-> main.read.raise]
  <2>1. Carry("rewrite", read) /\ main.pc = "marked"
    BY <1>7 DEF ReadForMark
  <2>2. read \in Read /\ read.extra = extra /\ read.raise = main.read.raise
    BY <1>1, Types DEF Read
  <2> HIDE DEF read
  <2>3. /\ TypeOK' /\ main'.pc = "rewrite" /\ main'.read.extra = extra
        /\ main'.read.raise = main.read.raise
        /\ upFront' = upFront /\ base' = base /\ extra' = extra /\ checks' = checks
        /\ dog' = dog
    BY <1>1, <2>1, <2>2, CarryTypes DEF MainPcs
  <2>4. Carried' /\ KeptUpFront'
    BY <1>1, <2>1, <2>3, Types DEF Carried, KeptUpFront
  <2>5. QED
    BY <1>1, <2>3, <2>4, Types DEF Inv
<1>8. CASE Rewrite
  <2> DEFINE try == TryHold(main.read.base, main.read.extra, FALSE)
  <2>1. main.pc = "rewrite" /\ Set(try) /\ main' = At("work", main.read) /\ dog' = dog
    BY <1>8 DEF Rewrite
  <2>2. /\ main'.pc = "work" /\ main'.read = main.read /\ FALSE \in BOOLEAN
        /\ main' \in [pc : MainPcs, read : Read]
        /\ dog' \in [pc : DogPcs, read : Read, over : BOOLEAN]
    BY <1>1, <2>1, Types DEF At, MainPcs, TypeOK
  <2>3. /\ TypeOK' /\ base' >= base /\ extra' \in {main.read.extra, extra}
        /\ upFront' = upFront /\ checks' = checks
    BY <1>1, <2>1, <2>2, Types, SetTypes
  <2> HIDE DEF try
  <2>4. Carried' /\ KeptUpFront'
    BY <1>1, <2>1, <2>2, <2>3, Types DEF Carried, KeptUpFront
  <2>5. QED
    BY <2>3, <2>4 DEF Inv
<1>9. CASE Unmark
  <2>1. /\ main.pc = "work" /\ checks' = Larger(checks - KicadCheck, 0)
        /\ main' = At("end", main.read)
        /\ UNCHANGED <<upFront, base, extra, entry, room, resident, dog>>
    BY <1>9 DEF Unmark
  <2>2. main'.pc = "end" /\ main'.read = main.read
    BY <2>1 DEF At
  <2>3. checks' = 0
    BY <1>1, <2>1, Types DEF Carried, Larger
  <2>4. TypeOK'
    BY <1>1, <2>1, <2>3, Types DEF TypeOK, At, MainPcs
  <2>5. Carried' /\ KeptUpFront'
    BY <1>1, <2>1, <2>2, <2>3, Types DEF Carried, KeptUpFront
  <2>6. QED
    BY <1>1, <2>1, <2>4, <2>5, Types DEF Inv
<1>10. CASE ReadForEnd
  <2> DEFINE left == Larger(extra - main.read.raise, 0)
             read == [base |-> base, extra |-> left, raise |-> 0]
  <2>1. Carry("giveBack", read) /\ main.pc = "end"
    BY <1>10 DEF ReadForEnd
  <2>2. left \in Nat /\ left <= KicadCheck /\ (main.read.raise = 0 => left = extra)
    BY <1>1, Types DEF Larger, Carried
  <2> HIDE DEF left
  <2>3. read \in Read /\ read.extra = left /\ read.raise = 0
    BY <1>1, <2>2, Types DEF Read
  <2> HIDE DEF read
  <2>4. /\ TypeOK' /\ main'.pc = "giveBack" /\ main'.read.extra = left
        /\ main'.read.raise = 0
        /\ upFront' = upFront /\ base' = base /\ extra' = extra /\ checks' = checks
        /\ dog' = dog
    BY <1>1, <2>1, <2>3, CarryTypes DEF MainPcs
  <2>5. Carried' /\ KeptUpFront'
    BY <1>1, <2>1, <2>2, <2>4, Types DEF Carried, KeptUpFront
  <2>6. QED
    BY <1>1, <2>4, <2>5, Types DEF Inv
<1>11. CASE GiveBack
  <2> DEFINE try == TryHold(main.read.base, main.read.extra, FALSE)
  <2>1. main.pc = "giveBack" /\ Set(try) /\ main' = At("idle", Nothing) /\ dog' = dog
    BY <1>11 DEF GiveBack
  <2>2. /\ main'.pc = "idle" /\ main'.read = Nothing /\ FALSE \in BOOLEAN
        /\ main' \in [pc : MainPcs, read : Read]
        /\ dog' \in [pc : DogPcs, read : Read, over : BOOLEAN]
    BY <1>1, <2>1, Types DEF At, MainPcs, TypeOK
  <2>3. /\ TypeOK' /\ base' >= base /\ extra' \in {main.read.extra, extra}
        /\ upFront' = upFront /\ checks' = checks
    BY <1>1, <2>1, <2>2, Types, SetTypes
  <2> HIDE DEF try
  <2>4. Carried' /\ KeptUpFront'
    BY <1>1, <2>1, <2>2, <2>3, Types DEF Carried, KeptUpFront
  <2>5. QED
    BY <2>3, <2>4 DEF Inv
<1>12. QED
  BY <1>2, <1>3, <1>4, <1>5, <1>6, <1>7, <1>8, <1>9, <1>10, <1>11 DEF MainNext

\* The watchdog's steps.
LEMMA DogKeeps ==
    ASSUME Inv, DogNext
    PROVE  Inv' /\ base' >= base
<1>1. /\ TypeOK /\ Carried /\ KeptUpFront
  BY DEF Inv
<1>2. CASE Wake
  <2> DEFINE read == [base |-> base, extra |-> extra, raise |-> Larger(resident, base) + 1]
  <2>1. /\ dog.pc = "sleep"
        /\ UNCHANGED <<upFront, own, room, resident, main>>
        /\ \/ dog' = [pc |-> "back", read |-> read, over |-> FALSE]
           \/ dog' = [dog EXCEPT !.pc = "grow", !.read = read]
           \/ dog' = [dog EXCEPT !.pc = "past", !.read = read]
    BY <1>2 DEF Wake
  <2>2. read \in Read /\ read.extra = extra
    BY <1>1, Types DEF Read, Larger
  <2> HIDE DEF read
  <2>3. /\ dog' \in [pc : DogPcs, read : Read, over : BOOLEAN]
        /\ dog'.pc \in {"back", "grow", "past"} /\ dog'.read = read
    <3>1. CASE dog' = [pc |-> "back", read |-> read, over |-> FALSE]
      BY <2>2, <3>1 DEF DogPcs
    <3>2. ASSUME NEW pc \in {"grow", "past"}, dog' = [dog EXCEPT !.pc = pc, !.read = read]
          PROVE  /\ dog' \in [pc : DogPcs, read : Read, over : BOOLEAN]
                 /\ dog'.pc = pc /\ dog'.read = read
      <4>1. dog' = [pc |-> pc, read |-> read, over |-> dog.over]
        BY <1>1, <3>2 DEF TypeOK
      <4>2. dog.over \in BOOLEAN
        BY <1>1, Types
      <4>3. QED
        BY <2>2, <3>2, <4>1, <4>2 DEF DogPcs
    <3>3. QED
      BY <2>1, <3>1, <3>2
  <2>4. TypeOK' /\ base' = base /\ extra' = extra /\ main' = main /\ checks' = checks
        /\ upFront' = upFront
    BY <1>1, <2>1, <2>3 DEF TypeOK, own
  <2>5. Carried'
    BY <1>1, <2>2, <2>3, <2>4, Types DEF Carried
  <2>6. KeptUpFront'
    BY <1>1, <2>1, <2>2, <2>3, <2>4, Types DEF KeptUpFront
  <2>7. QED
    BY <1>1, <2>4, <2>5, <2>6, Types DEF Inv
<1>3. CASE Ask
  <2> DEFINE past == dog.pc = "past"
             try  == TryHold(dog.read.raise, dog.read.extra, past)
             over == IF try.held THEN FALSE ELSE dog.over \/ past
  <2>1. /\ dog.pc \in {"grow", "past"} /\ Set(try) /\ main' = main
        /\ dog' = [pc |-> "sleep", read |-> Nothing, over |-> over]
    BY <1>3 DEF Ask
  <2>2. past \in BOOLEAN /\ over \in BOOLEAN
    BY <1>1, Types
  <2> HIDE DEF over
  <2>3. /\ dog' \in [pc : DogPcs, read : Read, over : BOOLEAN]
        /\ dog'.pc = "sleep" /\ dog'.read = Nothing
        /\ main' \in [pc : MainPcs, read : Read]
    BY <1>1, <2>1, <2>2, Types DEF DogPcs, TypeOK
  <2> HIDE DEF past
  <2>4. /\ TypeOK' /\ base' >= base /\ extra' \in {dog.read.extra, extra}
        /\ upFront' = upFront /\ checks' = checks
    BY <1>1, <2>1, <2>2, <2>3, Types, SetTypes
  <2> HIDE DEF try
  <2>5. Carried'
    BY <1>1, <2>1, <2>3, <2>4, Types DEF Carried
  <2>6. KeptUpFront'
    BY <1>1, <2>1, <2>3, <2>4, Types DEF KeptUpFront
  <2>7. QED
    BY <2>4, <2>5, <2>6 DEF Inv
<1>4. CASE BackWithin
  <2> DEFINE try == TryHold(dog.read.base, dog.read.extra, FALSE)
  <2>1. /\ dog.pc = "back" /\ Set(try) /\ main' = main
        /\ dog' = [dog EXCEPT !.pc = "sleep", !.read = Nothing]
    BY <1>4 DEF BackWithin
  <2>2. /\ dog' \in [pc : DogPcs, read : Read, over : BOOLEAN]
        /\ dog'.pc = "sleep" /\ dog'.read = Nothing /\ FALSE \in BOOLEAN
        /\ main' \in [pc : MainPcs, read : Read]
    BY <1>1, <2>1, Types DEF DogPcs, TypeOK
  <2>3. /\ TypeOK' /\ base' >= base /\ extra' \in {dog.read.extra, extra}
        /\ upFront' = upFront /\ checks' = checks
    BY <1>1, <2>1, <2>2, Types, SetTypes
  <2> HIDE DEF try
  <2>4. Carried' /\ KeptUpFront'
    BY <1>1, <2>1, <2>2, <2>3, Types DEF Carried, KeptUpFront
  <2>5. QED
    BY <2>3, <2>4 DEF Inv
<1>5. QED
  BY <1>2, <1>3, <1>4 DEF DogNext

LEMMA NextHolds == Inv /\ [Next]_vars => Inv' /\ base' >= base
<1> SUFFICES ASSUME Inv, [Next]_vars PROVE Inv' /\ base' >= base
  OBVIOUS
<1>1. CASE MainNext
  BY <1>1, MainKeeps
<1>2. CASE DogNext
  BY <1>2, DogKeeps
<1>3. CASE Resident \/ Room \/ UNCHANGED vars
  <2>1. /\ base' = base /\ extra' = extra /\ checks' = checks /\ entry' = entry
        /\ upFront' = upFront /\ main' = main /\ dog' = dog
        /\ room' \in Nat /\ resident' \in Nat
    <3>1. room \in Nat /\ resident \in Nat
      BY DEF Inv, TypeOK
    <3>2. CASE Resident
      BY <3>1, <3>2, ProcessConstants DEF Resident, own
    <3>3. CASE Room
      BY <3>1, <3>3, ProcessConstants DEF Room, own
    <3>4. CASE UNCHANGED vars
      BY <3>1, <3>4 DEF vars, own
    <3>5. QED
      BY <1>3, <3>2, <3>3, <3>4
  <2>2. base \in Nat
    BY Types DEF Inv
  <2>3. TypeOK' /\ Carried' /\ KeptUpFront'
    BY <2>1 DEF Inv, TypeOK, Carried, KeptUpFront
  <2>4. QED
    BY <2>1, <2>2, <2>3 DEF Inv
<1>4. QED
  BY <1>1, <1>2, <1>3 DEF Next

\* The invariant holds of every behaviour of the process.
THEOREM InvHolds == Spec => []Inv
<1>1. QED
  BY InitHolds, NextHolds, PTL DEF Spec

\* Every variable of the process keeps its type: no thread ever carries a
\* negative size, or a reading it has not made.
THEOREM TypeHolds == Spec => []TypeOK
<1>1. Inv => TypeOK
  BY DEF Inv
<1>2. QED
  BY <1>1, InvHolds, PTL

\* A check that was reserved up front runs inside the reservation, however
\* the watchdog's raises fall between the main thread's locks.
THEOREM UpFrontHolds == Spec => []ChecksRunInsideUpFront
<1>1. Inv => ChecksRunInsideUpFront
  BY Types DEF Inv, Carried, KeptUpFront, ChecksRunInsideUpFront, ChecksRunInside
<1>2. QED
  BY <1>1, InvHolds, PTL

\* The children's part never comes to more than one check.
THEOREM OneCheckHolds == Spec => []OneCheckAtMost
<1>1. Inv => OneCheckAtMost
  BY DEF Inv, Carried, OneCheckAtMost
<1>2. QED
  BY <1>1, InvHolds, PTL

\* No step of either thread lowers the process's own limit.
THEOREM OwnLimitHolds == Spec => OwnLimitOnlyGrows
<1>1. Inv /\ [Next]_vars => [base' >= base]_vars
  BY NextHolds
<1>2. QED
  BY <1>1, InvHolds, PTL DEF Spec, OwnLimitOnlyGrows

============================================================================
