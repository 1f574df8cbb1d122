---- MODULE AppStore_proofs ----
(***************************************************************************)
(* The application store, for any applications, sizes and number of        *)
(* writes: RAM agrees with Flash outside app_write, the two slots          *)
(* implement the atomic store, and a burst outlives one compile.           *)
(*                                                                         *)
(* The slot of a sequence number is its parity, so app_write never touches *)
(* the slot in use, and what it writes is not accepted before its last     *)
(* step.  The inductive invariant says so in four parts: Parity, Known (the *)
(* accepted slots that are not being rewritten are those RAM knows),       *)
(* Progress (what the page under construction holds at each step of        *)
(* app_write) and Kept (what the machine executes from is not rewritten).  *)
(***************************************************************************)
EXTENDS AppStore, TLAPS

\* Verified and Best as functions of the pages.
Whole(p) == p.status = VALID /\ p.app # None /\ p.words = Words(p.app)
BestOf(pg) ==
    LET good == {s \in Slots : Whole(pg[s])}
    IN  IF good = {} THEN None
        ELSE CHOOSE s \in good : \A r \in good :
                pg[s].seq > pg[r].seq \/ (pg[s].seq = pg[r].seq /\ s <= r)

Page == [status : 0..3, app : Apps \union {None}, seq : 0..MaxSequence, words : 0..HeaderWords+CodeWords]
Writing == [app : Apps, seq : 1..MaxSequence, slot : Slots, at : 0..HeaderWords+CodeWords+4]

Parity(pg) == \A s \in Slots : pg[s].app # None => pg[s].seq % 2 = s

\* The page is being rewritten: app_write has erased it.
Busy(w, s) == w # None /\ w.slot = s /\ w.at # 0

\* The accepted slots outside the one being rewritten.
Known(pg, w, v, sl, c) ==
    /\ \A s \in Slots : Whole(pg[s]) /\ ~Busy(w, s) => v /\ pg[s].seq <= c
    /\ v => sl \in Slots /\ Whole(pg[sl]) /\ ~Busy(w, sl) /\ pg[sl].seq = c
    /\ ~v => c = 0

\* What the page holds when the operation at this position is next.
Half(p, w) ==
    LET n == Words(w.app) IN
    /\ w.at = 1 => p.status = ERASED /\ p.words = 0
    /\ w.at \in 2..n+2 => p.status = WRITING /\ p.words = w.at - 2
    /\ w.at > 2 => p.app = w.app /\ p.seq = w.seq
    /\ w.at = n+3 => p.status = VERIFYING /\ p.words = n
    /\ w.at = n+4 => p.status = VALID /\ p.words = n

Progress(pg, w, c) ==
    w # None =>
        /\ w.seq = c + 1 /\ w.slot = w.seq % 2 /\ w.at <= Words(w.app) + 4
        /\ Half(pg[w.slot], w)

\* The burst, with at most one compile since it began.
Kept(pg, w, c) ==
    burst # -1 /\ began.compiles <= 1 =>
        /\ Whole(pg[burst]) /\ pg[burst].app = began.app /\ pg[burst].seq = began.seq
        /\ began.compiles = 0 => w = None /\ c = began.seq
        /\ w # None => w.slot # burst

IInv ==
    /\ TypeOK /\ Parity(page) /\ Known(page, writing, valid, slot, count)
    /\ Progress(page, writing, count) /\ Kept(page, writing, count)

LEMMA WordsNat ==
    \A app \in Apps : Words(app) \in Nat /\ Words(app) > HeaderWords /\ Words(app) <= HeaderWords + CodeWords
BY StoreAssumption DEF Words, Apps

LEMMA BestIsBestOf == Best = BestOf(page)
BY DEF Best, BestOf, Verified, Whole

\* One accepted slot above all others is the one app_scan chooses.
LEMMA BestIs ==
    ASSUME NEW pg \in [Slots -> Page], NEW s \in Slots, Whole(pg[s]),
           \A r \in Slots : Whole(pg[r]) /\ r # s => pg[r].seq < pg[s].seq
    PROVE  BestOf(pg) = s
<1> DEFINE good == {r \in Slots : Whole(pg[r])}
           Top(r) == \A q \in good : pg[r].seq > pg[q].seq \/ (pg[r].seq = pg[q].seq /\ r <= q)
<1>1. \A r \in Slots : pg[r].seq \in Int /\ r \in Int
    BY DEF Page, Slots
<1>2. s \in good /\ Top(s)
    BY <1>1
<1>3. \A r \in good : Top(r) => r = s
    BY <1>1
<1>4. BestOf(pg) = CHOOSE r \in good : Top(r)
    BY <1>2 DEF BestOf
<1> QED BY <1>2, <1>3, <1>4

LEMMA BestNone ==
    ASSUME NEW pg, \A r \in Slots : ~Whole(pg[r])
    PROVE  BestOf(pg) = None
BY DEF BestOf

\* While the two pages are as RAM knows them, the best slot is RAM's.
LEMMA BestKnown ==
    ASSUME NEW pg \in [Slots -> Page], Parity(pg), NEW v \in BOOLEAN, NEW sl \in Slots, NEW c \in Nat,
           \A s \in Slots : Whole(pg[s]) => v /\ pg[s].seq <= c,
           v => Whole(pg[sl]) /\ pg[sl].seq = c
    PROVE  BestOf(pg) = IF v THEN sl ELSE None
<1>1. CASE ~v
    BY <1>1, BestNone
<1>2. CASE v
    <2>1. \A r \in Slots : Whole(pg[r]) /\ r # sl => pg[r].seq < pg[sl].seq
        <3> SUFFICES ASSUME NEW r \in Slots, Whole(pg[r]), r # sl PROVE pg[r].seq < pg[sl].seq
            OBVIOUS
        <3>1. pg[r].seq % 2 = r /\ pg[sl].seq % 2 = sl
            BY <1>2 DEF Parity, Whole
        <3>2. pg[r].seq \in Int /\ pg[r].seq <= c /\ pg[sl].seq = c
            BY <1>2 DEF Page
        <3> QED BY <3>1, <3>2
    <2> QED BY <1>2, <2>1, BestIs
<1> QED BY <1>1, <1>2
-----------------------------------------------------------------------------
(* What the invariant says of one state.                                   *)

LEMMA StateTypes ==
    ASSUME IInv
    PROVE  /\ page \in [Slots -> Page] /\ (writing = None \/ writing \in Writing)
           /\ valid \in BOOLEAN /\ slot \in Slots /\ count \in Nat /\ count \in 0..MaxSequence
BY StoreAssumption DEF IInv, TypeOK, Page, Writing

LEMMA WritingTypes ==
    ASSUME IInv, writing # None
    PROVE  /\ writing \in Writing /\ writing.app \in Apps /\ writing.slot \in Slots
           /\ writing.seq \in 1..MaxSequence /\ writing.seq = count + 1
           /\ writing.slot = writing.seq % 2
           /\ writing.at \in 0..Words(writing.app)+4 /\ writing.at \in Int
           /\ Words(writing.app) \in Nat /\ Words(writing.app) > HeaderWords
           /\ Words(writing.app) <= HeaderWords + CodeWords
           /\ HeaderWords \in Nat /\ HeaderWords > 0 /\ CodeWords \in Nat
           /\ writing.app # None /\ Half(page[writing.slot], writing)
<1>1. writing \in Writing
    BY StateTypes
<1>2. writing.app \in Apps /\ writing.slot \in Slots /\ writing.seq \in 1..MaxSequence
      /\ writing.at \in 0..HeaderWords+CodeWords+4
    BY <1>1 DEF Writing
<1>3. writing.seq = count + 1 /\ writing.slot = writing.seq % 2
      /\ writing.at <= Words(writing.app) + 4 /\ Half(page[writing.slot], writing)
    BY DEF IInv, Progress
<1>4. HeaderWords \in Nat /\ HeaderWords > 0 /\ CodeWords \in Nat /\ writing.app # None
    BY <1>2, StoreAssumption
<1>5. Words(writing.app) \in Nat /\ Words(writing.app) > HeaderWords /\ Words(writing.app) <= HeaderWords + CodeWords
    BY <1>2, WordsNat
<1>6. writing.at \in Int /\ writing.at >= 0
    BY <1>2, <1>4
<1>7. writing.at \in 0..Words(writing.app)+4
    BY <1>3, <1>5, <1>6
<1> QED BY <1>1, <1>2, <1>3, <1>4, <1>5, <1>6, <1>7

\* The slot of the sequence number in use is not the slot of the next one.
LEMMA OtherSlot ==
    ASSUME IInv, valid
    PROVE  slot # (count + 1) % 2
<1>1. slot \in Slots /\ page[slot].app # None /\ page[slot].seq = count /\ count \in Nat
    BY StateTypes DEF IInv, Known, Whole
<1>2. count % 2 = slot
    BY <1>1 DEF IInv, Parity
<1> QED BY <1>1, <1>2

\* A page under construction is not accepted before its last step.
LEMMA NotYet ==
    ASSUME IInv, writing # None, writing.at # 0, writing.at # Words(writing.app) + 4
    PROVE  ~Whole(page[writing.slot])
<1> DEFINE n == Words(writing.app)  p == page[writing.slot]
<1>1. writing.at \in Int /\ n \in Nat /\ writing.at > 0 /\ writing.at < n + 4
    BY WritingTypes
<1>2. writing.at = 1 \/ writing.at \in 2..n+2 \/ writing.at = n + 3
    BY <1>1
<1>3. p.status = ERASED \/ p.status = WRITING \/ p.status = VERIFYING
    BY <1>2, WritingTypes DEF Half
<1> QED BY <1>3 DEF Whole, ERASED, WRITING, VERIFYING, VALID

\* When the last half-word is written the new page is accepted.
LEMMA JustWritten ==
    ASSUME IInv, writing # None, writing.at = Words(writing.app) + 4
    PROVE  /\ Whole(page[writing.slot])
           /\ page[writing.slot].app = writing.app /\ page[writing.slot].seq = writing.seq
<1> DEFINE n == Words(writing.app)  p == page[writing.slot]
<1>1. n \in Nat /\ writing.at > 2 /\ writing.at = n + 4
    BY WritingTypes
<1>2. p.status = VALID /\ p.words = n /\ p.app = writing.app /\ p.seq = writing.seq
    BY <1>1, WritingTypes DEF Half
<1> QED BY <1>2, WritingTypes DEF Whole

\* The slot that a boot would choose in every state.
LEMMA ScanFinds ==
    ASSUME IInv
    PROVE  Best = IF writing # None /\ writing.at = Words(writing.app) + 4 THEN writing.slot
                  ELSE IF valid THEN slot ELSE None
<1>1. CASE writing # None /\ writing.at = Words(writing.app) + 4
    <2>1. writing.slot \in Slots /\ writing.seq = count + 1 /\ count \in Nat
        BY <1>1, WritingTypes, StateTypes
    <2>2. \A r \in Slots : Whole(page[r]) /\ r # writing.slot => page[r].seq < page[writing.slot].seq
        <3> SUFFICES ASSUME NEW r \in Slots, Whole(page[r]), r # writing.slot
                     PROVE  page[r].seq < page[writing.slot].seq
            OBVIOUS
        <3>1. page[r].seq <= count
            BY DEF IInv, Known, Busy
        <3>2. page[r].seq \in Int
            BY StateTypes DEF Page
        <3> QED BY <1>1, <2>1, <3>1, <3>2, JustWritten
    <2> QED BY <1>1, <2>1, <2>2, JustWritten, BestIs, BestIsBestOf, StateTypes
<1>2. CASE ~(writing # None /\ writing.at = Words(writing.app) + 4)
    <2>1. \A s \in Slots : Whole(page[s]) => ~Busy(writing, s)
        BY <1>2, NotYet DEF Busy
    <2>2. \A s \in Slots : Whole(page[s]) => valid /\ page[s].seq <= count
        BY <2>1 DEF IInv, Known
    <2>3. valid => Whole(page[slot]) /\ page[slot].seq = count
        BY DEF IInv, Known
    <2>4. BestOf(page) = IF valid THEN slot ELSE None
        BY <2>2, <2>3, BestKnown, StateTypes DEF IInv
    <2> QED BY <1>2, <2>4, BestIsBestOf
<1> QED BY <1>1, <1>2
-----------------------------------------------------------------------------
(* The invariant holds initially and every action keeps it.                *)

LEMMA InitKeeps == Init => IInv
<1> SUFFICES ASSUME Init PROVE IInv
    OBVIOUS
<1>1. MaxSequence \in Nat /\ HeaderWords \in Nat /\ CodeWords \in Nat
    BY StoreAssumption
<1>2. 0 \in 0..MaxSequence /\ 0 \in 0..HeaderWords+CodeWords /\ 0 \in 0..3 /\ 0 \in 0..4 /\ 0 \in 0..2
    BY <1>1
<1>3. TypeOK
    BY <1>2 DEF Init, TypeOK, Blank, NoBurst, Slots, ERASED
<1>4. \A s \in Slots : page[s].app = None
    BY DEF Init, Blank
<1>5. Parity(page) /\ Known(page, writing, valid, slot, count)
    BY <1>4 DEF Init, Parity, Known, Whole
<1> QED BY <1>3, <1>5 DEF Init, IInv, Progress, Kept

LEMMA WriteBeginKeeps ==
    ASSUME IInv, NEW app \in Apps, WriteBegin(app)
    PROVE  IInv'
<1> USE DEF WriteBegin
<1>1. /\ writing = None /\ count \in Nat /\ MaxSequence \in Nat /\ count < MaxSequence
      /\ HeaderWords \in Nat /\ CodeWords \in Nat
    BY StateTypes, StoreAssumption
<1>2. (count + 1) % 2 \in Slots /\ count + 1 \in 1..MaxSequence /\ 0 \in 0..HeaderWords+CodeWords+4
    BY <1>1 DEF Slots
<1>3. writing' \in Writing /\ writing' # None
    BY <1>2, StoreAssumption DEF TargetSlot, Writing
<1>4. /\ writing'.app = app /\ writing'.seq = count + 1 /\ writing'.slot = (count + 1) % 2
      /\ writing'.at = 0
    BY DEF TargetSlot
<1>5. began' \in [app : Apps \union {None}, seq : 0..MaxSequence, compiles : 0..2]
    <2>1. began \in [app : Apps \union {None}, seq : 0..MaxSequence, compiles : 0..2]
        BY DEF IInv, TypeOK
    <2>2. began.compiles \in 0..2
        BY <2>1
    <2>3. (IF burst = -1 THEN 0 ELSE IF began.compiles < 2 THEN began.compiles + 1 ELSE began.compiles) \in 0..2
        BY <2>2
    <2> QED BY <2>1, <2>3
<1>6. TypeOK'
    BY <1>3, <1>5 DEF IInv, TypeOK, Writing, ram
<1>7. Parity(page')
    BY DEF IInv
<1>8. Known(page', writing', valid', slot', count')
    BY <1>1, <1>4 DEF IInv, Known, Busy, ram
<1>9. Progress(page', writing', count')
    <2>1. Words(app) \in Nat
        BY WordsNat
    <2>2. Half(page'[writing'.slot], writing')
        BY <1>4, <2>1 DEF Half
    <2> QED BY <1>1, <1>4, <2>1, <2>2 DEF Progress, ram
<1>10. Kept(page, writing, count)'
    <2> SUFFICES ASSUME burst # -1, began'.compiles <= 1
                 PROVE  /\ Whole(page[burst]) /\ page[burst].app = began'.app /\ page[burst].seq = began'.seq
                        /\ began'.compiles = 0 => writing' = None /\ count = began'.seq
                        /\ writing' # None => writing'.slot # burst
        BY DEF Kept, ram
    <2>1. began.compiles \in 0..2
        BY DEF IInv, TypeOK
    <2>2. began.compiles = 0 /\ began'.compiles = 1
        BY <2>1 DEF IInv, TypeOK
    <2>3. began'.app = began.app /\ began'.seq = began.seq
        BY DEF IInv, TypeOK
    <2>4. Whole(page[burst]) /\ page[burst].app = began.app /\ page[burst].seq = began.seq /\ count = began.seq
        BY <2>2 DEF IInv, Kept
    <2>5. burst \in Slots
        BY DEF IInv, TypeOK
    <2>6. count % 2 = burst
        BY <2>4, <2>5 DEF IInv, Parity, Whole
    <2>7. writing'.slot # burst
        BY <1>1, <1>4, <2>6
    <2> QED BY <2>2, <2>3, <2>4, <2>7
<1> QED BY <1>6, <1>7, <1>8, <1>9, <1>10 DEF IInv
-----------------------------------------------------------------------------
(* One operation of app_write.                                             *)

\* The page being written, and the length of the application.
Target == page[writing.slot]
Length == Words(writing.app)

\* The page after the operation at each position.
LEMMA WrittenIs ==
    ASSUME IInv, writing # None, writing.at <= Length + 3
    PROVE  /\ writing.at = 0 => Written(Target) = Blank
           /\ writing.at = 1 => Written(Target) = [Target EXCEPT !.status = WRITING] /\ Target.words = 0
           /\ writing.at \in 2..Length+1 =>
                /\ Written(Target) = [Target EXCEPT !.words = writing.at - 1,
                                                   !.app = writing.app, !.seq = writing.seq]
                /\ Target.status = WRITING
           /\ writing.at = Length + 2 =>
                /\ Written(Target) = [Target EXCEPT !.status = VERIFYING]
                /\ Target.words = Length /\ Target.app = writing.app /\ Target.seq = writing.seq
           /\ writing.at = Length + 3 =>
                /\ Written(Target) = [Target EXCEPT !.status = VALID]
                /\ Target.words = Length /\ Target.app = writing.app /\ Target.seq = writing.seq
<1> DEFINE p == Target  n == Length  at == writing.at
<1>1. p \in Page /\ n \in Nat /\ n > 1 /\ at \in Int /\ Half(p, writing)
    BY WritingTypes, StateTypes DEF Target, Length
<1>2. at = 0 => Written(p) = Blank
    BY <1>1 DEF Length, Written, Verify, Commit
<1>3. at = 1 => Written(p) = [p EXCEPT !.status = WRITING] /\ p.words = 0
    BY <1>1 DEF Length, Written, Verify, Commit, Half, Program, ERASED, WRITING
<1>4. ASSUME at \in 2..n+1
      PROVE  /\ Written(p) = [p EXCEPT !.words = at - 1, !.app = writing.app, !.seq = writing.seq]
             /\ p.status = WRITING
    <2>1. p.status = WRITING /\ p.words = at - 2 /\ p.words + 1 = at - 1
        BY <1>1, <1>4 DEF Length, Half
    <2>2. Written(p) = [p EXCEPT !.words = @ + 1, !.app = writing.app, !.seq = writing.seq]
        BY <1>1, <1>4 DEF Length, Written, Verify, Commit
    <2> QED BY <2>1, <2>2
<1>5. ASSUME at = n+2
      PROVE  /\ Written(p) = [p EXCEPT !.status = VERIFYING]
             /\ p.words = n /\ p.app = writing.app /\ p.seq = writing.seq
    <2>1. p.status = WRITING /\ p.words = n /\ p.app = writing.app /\ p.seq = writing.seq
        BY <1>1, <1>5 DEF Length, Half
    <2> QED BY <1>1, <1>5, <2>1 DEF Length, Written, Verify, Commit, Program, WRITING, VERIFYING
<1>6. ASSUME at = n+3
      PROVE  /\ Written(p) = [p EXCEPT !.status = VALID]
             /\ p.words = n /\ p.app = writing.app /\ p.seq = writing.seq
    <2>1. p.status = VERIFYING /\ p.words = n /\ p.app = writing.app /\ p.seq = writing.seq
        BY <1>1, <1>6 DEF Length, Half
    <2> QED BY <1>1, <1>6, <2>1 DEF Length, Written, Verify, Commit, Program, VALID, VERIFYING
<1> QED BY <1>2, <1>3, <1>4, <1>5, <1>6

\* It is a page of the slot's parity, in the state of the next position, accepted
\* only after the last operation.
LEMMA WrittenFits ==
    ASSUME IInv, writing # None, writing.at <= Length + 3, NEW q, q = Written(Target)
    PROVE  /\ q \in Page
           /\ q.app # None => q.seq % 2 = writing.slot
           /\ Half(q, [writing EXCEPT !.at = @ + 1])
           /\ writing.at # Length + 3 => ~Whole(q)
<1> DEFINE p == Target  n == Length  at == writing.at  next == [writing EXCEPT !.at = @ + 1]
<1>1. /\ p \in Page /\ n \in Nat /\ n > 1 /\ at \in Int /\ at >= 0 /\ at <= n + 3
      /\ n <= HeaderWords + CodeWords /\ HeaderWords \in Nat /\ CodeWords \in Nat
      /\ p.app # None => p.seq % 2 = writing.slot
    BY WritingTypes, StateTypes DEF IInv, Parity, Target, Length
<1>2. writing \in Writing /\ writing.app \in Apps /\ writing.seq \in 0..MaxSequence
      /\ writing.slot = writing.seq % 2
    BY WritingTypes
<1>3. next.at = at + 1 /\ next.app = writing.app /\ next.seq = writing.seq
    BY <1>2 DEF Writing
<1>4. at = 0 \/ at = 1 \/ at \in 2..n+1 \/ at = n+2 \/ at = n+3
    BY <1>1
<1>0. /\ at = 0 => q = Blank
      /\ at = 1 => q = [p EXCEPT !.status = WRITING] /\ p.words = 0
      /\ at \in 2..n+1 => /\ q = [p EXCEPT !.words = at - 1, !.app = writing.app, !.seq = writing.seq]
                          /\ p.status = WRITING
      /\ at = n+2 => /\ q = [p EXCEPT !.status = VERIFYING]
                     /\ p.words = n /\ p.app = writing.app /\ p.seq = writing.seq
      /\ at = n+3 => /\ q = [p EXCEPT !.status = VALID]
                     /\ p.words = n /\ p.app = writing.app /\ p.seq = writing.seq
    BY WrittenIs
<1>5. CASE at = 0
    <2>1. q = Blank
        BY <1>5, <1>0
    <2>2. q \in Page
        BY <1>1, <2>1, StoreAssumption DEF Blank, Page, ERASED
    <2> QED BY <1>1, <1>3, <1>5, <2>1, <2>2 DEF Length, Blank, Half, Whole, ERASED, VALID
<1>6. CASE at = 1
    <2>1. q = [p EXCEPT !.status = WRITING] /\ p.words = 0
        BY <1>6, <1>0
    <2>2. q \in Page /\ q.status = WRITING /\ q.words = 0 /\ q.app = p.app /\ q.seq = p.seq
        BY <1>1, <2>1 DEF Page, WRITING
    <2> QED BY <1>1, <1>3, <1>6, <2>2 DEF Length, Half, Whole, WRITING, VALID
<1>7. CASE at \in 2..n+1
    <2>1. q = [p EXCEPT !.words = at - 1, !.app = writing.app, !.seq = writing.seq] /\ p.status = WRITING
        BY <1>7, <1>0
    <2>2. at - 1 \in 0..HeaderWords+CodeWords
        BY <1>1, <1>7
    <2>3. q \in Page /\ q.status = WRITING /\ q.words = at - 1 /\ q.app = writing.app /\ q.seq = writing.seq
        BY <1>1, <1>2, <2>1, <2>2 DEF Page
    <2> QED BY <1>1, <1>2, <1>3, <1>7, <2>3 DEF Length, Half, Whole, WRITING, VALID
<1>8. CASE at = n+2
    <2>1. /\ q = [p EXCEPT !.status = VERIFYING]
          /\ p.words = n /\ p.app = writing.app /\ p.seq = writing.seq
        BY <1>8, <1>0
    <2>2. q \in Page /\ q.status = VERIFYING /\ q.words = n /\ q.app = writing.app /\ q.seq = writing.seq
        BY <1>1, <2>1 DEF Page, VERIFYING
    <2> QED BY <1>1, <1>2, <1>3, <1>8, <2>2 DEF Length, Half, Whole, VERIFYING, VALID
<1>9. CASE at = n+3
    <2>1. /\ q = [p EXCEPT !.status = VALID]
          /\ p.words = n /\ p.app = writing.app /\ p.seq = writing.seq
        BY <1>9, <1>0
    <2>2. q \in Page /\ q.status = VALID /\ q.words = n /\ q.app = writing.app /\ q.seq = writing.seq
        BY <1>1, <2>1 DEF Page, VALID
    <2> QED BY <1>1, <1>2, <1>3, <1>9, <2>2 DEF Length, Half, Whole
<1> QED BY <1>4, <1>5, <1>6, <1>7, <1>8, <1>9

\* The failures are injected before the last operation.
LEMMA StopsEarly ==
    ASSUME IInv, writing # None, Stops(writing.at)
    PROVE  writing.at # Words(writing.app) + 3
BY WritingTypes DEF Stops, Verify

LEMMA FlashStepKeeps ==
    ASSUME IInv, FlashStep
    PROVE  IInv'
<1> DEFINE n == Words(writing.app)  q == Written(page[writing.slot])  next == [writing EXCEPT !.at = @ + 1]
<1>1. /\ writing # None /\ writing \in Writing /\ writing.slot \in Slots /\ page \in [Slots -> Page]
      /\ n \in Nat /\ writing.at \in Int /\ writing.at >= 0 /\ writing.at <= n + 3
      /\ n <= HeaderWords + CodeWords /\ HeaderWords \in Nat /\ CodeWords \in Nat
      /\ page' = [page EXCEPT ![writing.slot] = q]
      /\ writing' = IF Stops(writing.at) THEN None ELSE next
      /\ UNCHANGED <<valid, slot, count, type, fail, running, burst, active, began>>
    BY WritingTypes, StateTypes DEF FlashStep, Commit, ram, vm
<1>2. /\ q \in Page /\ Half(q, next)
      /\ q.app # None => q.seq % 2 = writing.slot
      /\ writing.at # n + 3 => ~Whole(q)
    BY <1>1, WrittenFits DEF Target, Length
<1>3. /\ page' \in [Slots -> Page] /\ page'[writing.slot] = q
      /\ \A s \in Slots : s # writing.slot => page'[s] = page[s]
    <2>1. /\ writing.slot \in Slots /\ page \in [Slots -> Page] /\ q \in Page
          /\ page' = [page EXCEPT ![writing.slot] = q]
        BY <1>1, <1>2
    <2> HIDE DEF q
    <2> QED BY <2>1
<1>4. next \in Writing /\ next.at = writing.at + 1 /\ next.app = writing.app /\ next.seq = writing.seq
      /\ next.slot = writing.slot /\ next # None
    <2>1. writing.at + 1 \in 0..HeaderWords+CodeWords+4
        BY <1>1
    <2>2. next \in Writing
        BY <1>1, <2>1 DEF Writing
    <2>3. next # None
        BY <2>2, StoreAssumption DEF Writing
    <2> QED BY <1>1, <2>2, <2>3 DEF Writing
<1>5. TypeOK'
    BY <1>1, <1>3, <1>4 DEF IInv, TypeOK, Page, Writing
<1>6. Parity(page')
    BY <1>2, <1>3 DEF IInv, Parity
<1>7. valid => slot # writing.slot
    BY <1>1, OtherSlot, WritingTypes
<1>8. Known(page', writing', valid', slot', count')
    <2>1. ASSUME NEW s \in Slots, Whole(page'[s]), ~Busy(writing', s)
          PROVE  valid /\ page'[s].seq <= count
        <3>1. CASE s = writing.slot
            <4>1. writing' = None
                BY <1>1, <1>4, <2>1, <3>1 DEF Busy
            <4>2. writing.at # n + 3
                BY <1>1, <1>4, <4>1, StopsEarly
            <4>3. ~Whole(q) /\ page'[s] = q
                BY <1>2, <1>3, <3>1, <4>2
            <4> QED BY <2>1, <4>3
        <3>2. CASE s # writing.slot
            BY <1>1, <1>3, <2>1, <3>2 DEF IInv, Known, Busy
        <3> QED BY <3>1, <3>2
    <2>2. ASSUME valid
          PROVE  slot \in Slots /\ Whole(page'[slot]) /\ ~Busy(writing', slot) /\ page'[slot].seq = count
        <3>1. slot \in Slots /\ Whole(page[slot]) /\ page[slot].seq = count
            BY <2>2 DEF IInv, Known
        <3> QED BY <1>1, <1>3, <1>4, <1>7, <2>2, <3>1 DEF Busy
    <2>3. ~valid => count = 0
        BY DEF IInv, Known
    <2> QED BY <1>1, <2>1, <2>2, <2>3 DEF Known
<1>9. Progress(page', writing', count')
    <2> SUFFICES ASSUME writing' # None PROVE Progress(page', writing', count')
        BY DEF Progress
    <2>1. writing' = next
        BY <1>1
    <2>2. next.seq = count + 1 /\ next.slot = next.seq % 2 /\ count' = count
        BY <1>1, <1>4, WritingTypes
    <2>3. next.at <= Words(next.app) + 4
        BY <1>1, <1>4
    <2>4. Half(page'[next.slot], next)
        BY <1>2, <1>3, <1>4
    <2> QED BY <2>1, <2>2, <2>3, <2>4 DEF Progress
<1>10. Kept(page, writing, count)'
    <2> SUFFICES ASSUME burst # -1, began.compiles <= 1
                 PROVE  /\ Whole(page'[burst]) /\ page'[burst].app = began.app /\ page'[burst].seq = began.seq
                        /\ began.compiles = 0 => writing' = None /\ count = began.seq
                        /\ writing' # None => writing'.slot # burst
        BY <1>1 DEF Kept
    <2>1. burst \in Slots
        BY DEF IInv, TypeOK
    <2>2. /\ Whole(page[burst]) /\ page[burst].app = began.app /\ page[burst].seq = began.seq
          /\ began.compiles # 0 /\ writing.slot # burst
        BY <1>1 DEF IInv, Kept
    <2> QED BY <1>1, <1>3, <1>4, <2>1, <2>2
<1> QED BY <1>5, <1>6, <1>8, <1>9, <1>10 DEF IInv

LEMMA WriteReturnKeeps ==
    ASSUME IInv, WriteReturn
    PROVE  IInv'
<1>1. /\ writing # None /\ writing.at = Words(writing.app) + 4
      /\ count' = writing.seq /\ slot' = writing.slot /\ type' = writing.app
      /\ valid' = TRUE /\ fail' = 0 /\ writing' = None
      /\ UNCHANGED <<page, running, burst, active, began>>
    BY WritingTypes DEF WriteReturn, Commit, vm
<1>2. /\ writing.app \in Apps /\ writing.slot \in Slots /\ writing.seq \in 0..MaxSequence
      /\ writing.seq = count + 1 /\ count \in Nat /\ writing.at # 0
    BY <1>1, WritingTypes, StateTypes
<1>3. Whole(page[writing.slot]) /\ page[writing.slot].seq = writing.seq
    BY <1>1, JustWritten
<1>4. TypeOK'
    BY <1>1, <1>2 DEF IInv, TypeOK
<1>5. Known(page', writing', valid', slot', count')
    <2>1. ASSUME NEW s \in Slots, Whole(page[s]) PROVE page[s].seq <= writing.seq
        <3>1. CASE s = writing.slot
            BY <1>2, <1>3, <3>1
        <3>2. CASE s # writing.slot
            <4>1. page[s].seq <= count /\ page[s].seq \in Int
                BY <2>1, <3>2, StateTypes DEF IInv, Known, Busy, Page
            <4> QED BY <1>2, <4>1
        <3> QED BY <3>1, <3>2
    <2> QED BY <1>1, <1>2, <1>3, <2>1 DEF Known, Busy
<1>6. Kept(page, writing, count)'
    <2> SUFFICES ASSUME burst # -1, began.compiles <= 1
                 PROVE  /\ Whole(page[burst]) /\ page[burst].app = began.app /\ page[burst].seq = began.seq
                        /\ began.compiles # 0
        BY <1>1 DEF Kept
    <2> QED BY <1>1 DEF IInv, Kept
<1> QED BY <1>1, <1>4, <1>5, <1>6 DEF IInv, Parity, Progress
-----------------------------------------------------------------------------
(* The loss of power.                                                      *)

\* app_scan finds an accepted slot, and none has a higher sequence number.
LEMMA BestMax ==
    ASSUME NEW pg \in [Slots -> Page]
    PROVE  \/ BestOf(pg) = None /\ \A s \in Slots : ~Whole(pg[s])
           \/ /\ BestOf(pg) \in Slots /\ Whole(pg[BestOf(pg)])
              /\ \A s \in Slots : Whole(pg[s]) => pg[s].seq <= pg[BestOf(pg)].seq
<1> DEFINE good == {r \in Slots : Whole(pg[r])}
           Top(r) == \A q \in good : pg[r].seq > pg[q].seq \/ (pg[r].seq = pg[q].seq /\ r <= q)
<1>1. \A r \in Slots : pg[r].seq \in Int /\ r \in Int
    BY DEF Page, Slots
<1>2. CASE good = {}
    BY <1>2, BestNone
<1>3. CASE good # {}
    <2>1. \E r \in good : Top(r)
        <3>1. PICK r \in good : TRUE
            BY <1>3
        <3>2. CASE 1 - r \notin good
            <4>1. good = {r}
                BY <3>1, <3>2 DEF Slots
            <4> QED BY <1>1, <4>1
        <3>3. CASE 1 - r \in good
            <4>1. good = {0, 1}
                BY <3>1, <3>3 DEF Slots
            <4>2. pg[0].seq >= pg[1].seq => Top(0)
                BY <1>1, <4>1
            <4>3. pg[0].seq < pg[1].seq => Top(1)
                BY <1>1, <4>1
            <4> QED BY <1>1, <4>1, <4>2, <4>3
        <3> QED BY <3>2, <3>3
    <2>2. BestOf(pg) = CHOOSE r \in good : Top(r)
        BY <1>3 DEF BestOf
    <2>3. BestOf(pg) \in good /\ Top(BestOf(pg))
        BY <2>1, <2>2
    <2> QED BY <1>1, <2>3
<1> QED BY <1>2, <1>3

\* An erase that is cut short leaves the page as it was, or not accepted.
LEMMA TornNotNew ==
    ASSUME NEW p \in Page, NEW q \in Torn(p)
    PROVE  /\ q \in Page /\ (Whole(q) => q = p)
           /\ q.app # None => q.app = p.app /\ q.seq = p.seq
<1>1. CASE q \in {[p EXCEPT !.status = st] : st \in 0..p.status}
    <2>1. PICK st \in 0..p.status : q = [p EXCEPT !.status = st]
        BY <1>1
    <2>2. p.status \in 0..3 /\ st \in 0..3
        BY DEF Page
    <2>3. q \in Page /\ q.status = st /\ q.app = p.app /\ q.seq = p.seq /\ q.words = p.words
        BY <2>1, <2>2 DEF Page
    <2>4. st = 3 => p.status = 3
        BY <2>2
    <2>5. p.status = 3 /\ st = 3 => q = p
        BY <2>1, <2>2 DEF Page
    <2> QED BY <2>3, <2>4, <2>5 DEF Whole, VALID
<1>2. CASE q \in {[Blank EXCEPT !.status = p.status]}
    <2>1. q = [Blank EXCEPT !.status = p.status] /\ p.status \in 0..3
        BY <1>2 DEF Page
    <2>2. q \in Page /\ q.app = None
        BY <2>1, StoreAssumption DEF Blank, Page, ERASED
    <2> QED BY <2>2 DEF Whole
<1> QED BY <1>1, <1>2 DEF Torn

\* Losing power leaves a page that is acceptable only if it was, and untouched.
LEMMA AfterPowerLoss ==
    ASSUME IInv, PowerLoss
    PROVE  /\ page' \in [Slots -> Page] /\ Parity(page')
           /\ \A s \in Slots : Whole(page'[s]) => page'[s] = page[s]
           /\ (writing = None \/ writing.at # 0) => page' = page
           /\ \A s \in Slots : page'[s] # page[s] => writing # None /\ s = writing.slot
<1>1. page \in [Slots -> Page]
    BY StateTypes
<1>2. CASE writing # None /\ writing.at = 0
    <2>1. PICK p \in Torn(page[writing.slot]) : page' = [page EXCEPT ![writing.slot] = p]
        BY <1>2 DEF PowerLoss
    <2>2. writing.slot \in Slots /\ page[writing.slot] \in Page
        BY <1>1, <1>2, WritingTypes
    <2>3. /\ p \in Page
          /\ Whole(p) => p = page[writing.slot]
          /\ p.app # None => p.app = page[writing.slot].app /\ p.seq = page[writing.slot].seq
        BY <2>2, TornNotNew
    <2>4. /\ page' \in [Slots -> Page] /\ page'[writing.slot] = p
          /\ \A s \in Slots : s # writing.slot => page'[s] = page[s]
        BY <1>1, <2>1, <2>2, <2>3
    <2>5. Parity(page')
        BY <2>2, <2>3, <2>4 DEF IInv, Parity
    <2>6. \A s \in Slots : Whole(page'[s]) => page'[s] = page[s]
        BY <2>3, <2>4
    <2> QED BY <1>2, <2>4, <2>5, <2>6
<1>3. CASE ~(writing # None /\ writing.at = 0)
    <2>1. page' = page
        BY <1>3 DEF PowerLoss
    <2> QED BY <1>1, <2>1 DEF IInv
<1> QED BY <1>2, <1>3

LEMMA BestPrime == Best' = BestOf(page')
BY DEF Best, BestOf, Verified, Whole

LEMMA PowerLossKeeps ==
    ASSUME IInv, PowerLoss
    PROVE  IInv'
<1> DEFINE b == BestOf(page')
<1>1. /\ page' \in [Slots -> Page] /\ Parity(page')
    BY AfterPowerLoss
<1>2. /\ valid' = (b # None) /\ slot' = (IF b = None THEN 0 ELSE b)
      /\ count' = (IF b = None THEN 0 ELSE page'[b].seq)
      /\ type' = (IF b = None THEN None ELSE page'[b].app)
      /\ writing' = None /\ fail' = 0 /\ running' = FALSE
      /\ burst' = -1 /\ active' = 0 /\ began' = NoBurst
    BY BestPrime DEF PowerLoss
<1>3. \/ b = None /\ \A s \in Slots : ~Whole(page'[s])
      \/ /\ b \in Slots /\ Whole(page'[b])
         /\ \A s \in Slots : Whole(page'[s]) => page'[s].seq <= page'[b].seq
    BY <1>1, BestMax
<1>4. b \in Slots => b # None /\ page'[b] \in Page
    BY <1>1, StoreAssumption
<1> HIDE DEF b
<1>5. MaxSequence \in Nat /\ HeaderWords \in Nat /\ CodeWords \in Nat
    BY StoreAssumption
<1>6. TypeOK'
    <2>1. slot' \in Slots /\ count' \in 0..MaxSequence /\ type' \in Apps \union {None}
        BY <1>2, <1>3, <1>4, <1>5 DEF Page, Slots
    <2>2. began' \in [app : Apps \union {None}, seq : 0..MaxSequence, compiles : 0..2]
        BY <1>2, <1>5 DEF NoBurst
    <2>3. valid' \in BOOLEAN /\ running' \in BOOLEAN
        BY <1>2
    <2>4. fail' \in 0..4 /\ burst' \in Slots \union {-1} /\ active' \in 0..MaxSequence
        BY <1>2, <1>5
    <2>5. writing' = None
        BY <1>2
    <2> QED BY <1>1, <2>1, <2>2, <2>3, <2>4, <2>5 DEF TypeOK, Page
<1>7. Known(page', writing', valid', slot', count')
    BY <1>2, <1>3, <1>4 DEF Known, Busy
<1> QED BY <1>1, <1>2, <1>6, <1>7 DEF IInv, Progress, Kept
-----------------------------------------------------------------------------
(* The actions that leave Flash and the counter as they are.               *)

LEMMA RamStepKeeps ==
    ASSUME IInv, (\E stage \in 1..4 : AppFail(stage)) \/ AppRun \/ AppStop
    PROVE  IInv'
<1>1. UNCHANGED <<page, writing, valid, slot, count, burst, active, began>>
    BY DEF AppFail, AppRun, AppStop, vm
<1>2. TypeOK'
    <2>1. CASE \E stage \in 1..4 : AppFail(stage)
        BY <2>1 DEF IInv, TypeOK, AppFail, vm
    <2>2. CASE AppRun
        <3>1. page[slot].app \in Apps \union {None}
            BY StateTypes DEF Page
        <3> QED BY <2>2, <3>1 DEF IInv, TypeOK, AppRun, vm
    <2>3. CASE AppStop
        BY <2>3 DEF IInv, TypeOK, AppStop, vm
    <2> QED BY <2>1, <2>2, <2>3
<1>3. Kept(page, writing, count)'
    BY <1>1 DEF IInv, Kept
<1> QED BY <1>1, <1>2, <1>3 DEF IInv

LEMMA VmStepKeeps ==
    ASSUME IInv, VmLook \/ VmBurstEnds \/ VmExits
    PROVE  IInv'
<1>1. UNCHANGED <<page, writing, valid, slot, count, type, fail>> /\ writing = None
    BY DEF VmLook, VmBurstEnds, VmExits, ram
<1>2. MaxSequence \in Nat /\ 0 \in 0..MaxSequence /\ 0 \in 0..2
    BY StoreAssumption
<1>3. TypeOK' /\ Kept(page, writing, count)'
    <2>1. CASE VmLook
        <3>1. CASE running /\ valid /\ Verified(slot) /\ type \in Bytecode
            <4>1. /\ running' = running /\ burst' = slot /\ active' = page[slot].seq
                  /\ began' = [app |-> page[slot].app, seq |-> page[slot].seq, compiles |-> 0]
                BY <2>1, <3>1 DEF VmLook, ram
            <4>2. page[slot] \in Page /\ slot \in Slots
                BY StateTypes
            <4>3. TypeOK'
                BY <1>1, <1>2, <4>1, <4>2 DEF IInv, TypeOK, Page
            <4>4. Whole(page[slot]) /\ page[slot].seq = count
                BY <3>1 DEF IInv, Known
            <4> QED BY <1>1, <4>1, <4>3, <4>4 DEF Kept
        <3>2. CASE ~(running /\ valid /\ Verified(slot) /\ type \in Bytecode)
            <4>1. active' = 0 /\ UNCHANGED <<running, burst, began>>
                BY <2>1, <3>2 DEF VmLook, ram
            <4> QED BY <1>1, <1>2, <4>1 DEF IInv, TypeOK, Kept
        <3> QED BY <3>1, <3>2
    <2>2. CASE VmBurstEnds \/ VmExits
        <3>1. burst' = -1 /\ began' = NoBurst /\ active' = active /\ running' \in BOOLEAN
            BY <2>2 DEF VmBurstEnds, VmExits, ram, IInv, TypeOK
        <3>2. began' \in [app : Apps \union {None}, seq : 0..MaxSequence, compiles : 0..2]
            BY <1>2, <3>1 DEF NoBurst
        <3> QED BY <1>1, <3>1, <3>2 DEF IInv, TypeOK, Kept
    <2> QED BY <2>1, <2>2
<1> QED BY <1>1, <1>3 DEF IInv

LEMMA NextKeeps == IInv /\ [Next]_vars => IInv'
<1> SUFFICES ASSUME IInv, [Next]_vars PROVE IInv'
    OBVIOUS
<1>1. CASE UNCHANGED vars
    BY <1>1 DEF vars, IInv, TypeOK, Kept
<1>2. CASE Next
    BY <1>2, WriteBeginKeeps, FlashStepKeeps, WriteReturnKeeps, PowerLossKeeps, RamStepKeeps, VmStepKeeps
       DEF Next, AppWrite
<1> QED BY <1>1, <1>2

LEMMA Invariance == Spec => []IInv
BY InitKeeps, NextKeeps, PTL DEF Spec
-----------------------------------------------------------------------------
(* The theorems.                                                           *)

\* The types, and RAM names what the next boot would find whenever app_write is not
\* at work: the commands that read g_app_slot and g_app_valid use no stale slot.
THEOREM StoreStaysSound == Spec => []StoreSound
<1>1. IInv => StoreSound
    <2> SUFFICES ASSUME IInv PROVE StoreSound
        OBVIOUS
    <2>1. writing = None => Best = IF valid THEN slot ELSE None
        BY ScanFinds
    <2>2. slot \in Slots /\ slot # None
        BY StateTypes, StoreAssumption
    <2>3. valid => page[slot].seq = count
        BY DEF IInv, Known
    <2> QED BY <2>1, <2>2, <2>3, StateTypes DEF IInv, StoreSound, RamAgreesWithFlash
<1> QED BY <1>1, Invariance, PTL

\* The slot that the machine executes from outlives one compile: app_write goes to the
\* slot of the other parity.
THEOREM BurstOutlivesACompile == Spec => []BurstKeepsItsCode
<1>1. IInv => BurstKeepsItsCode
    BY DEF IInv, Kept, BurstKeepsItsCode, Whole, Verified
<1> QED BY <1>1, Invariance, PTL
-----------------------------------------------------------------------------
(* The store implements the atomic store.                                  *)

Installed == IF Best = None THEN None ELSE page[Best].app
Version == IF Best = None THEN 0 ELSE page[Best].seq

\* Pages that differ from those of Flash in the one being written, and there only by
\* one that is not accepted.
LEMMA SameBest ==
    ASSUME IInv, NEW pg \in [Slots -> Page], Parity(pg),
           writing # None, writing.at # Words(writing.app) + 4,
           \A s \in Slots : s # writing.slot => pg[s] = page[s],
           Whole(pg[writing.slot]) => writing.at = 0 /\ pg[writing.slot] = page[writing.slot]
    PROVE  BestOf(pg) = Best /\ (Best # None => pg[Best] = page[Best])
<1>1. Best = IF valid THEN slot ELSE None
    BY ScanFinds
<1>2. \A s \in Slots : Whole(pg[s]) => valid /\ pg[s].seq <= count
    BY DEF IInv, Known, Busy
<1>3. valid => slot # writing.slot /\ slot \in Slots /\ Whole(page[slot]) /\ page[slot].seq = count
    BY OtherSlot, WritingTypes DEF IInv, Known
<1>4. valid => pg[slot] = page[slot]
    BY <1>3
<1>5. BestOf(pg) = IF valid THEN slot ELSE None
    <2>1. valid => Whole(pg[slot]) /\ pg[slot].seq = count
        BY <1>3, <1>4
    <2> QED BY <1>2, <2>1, StateTypes, BestKnown
<1> QED BY <1>1, <1>4, <1>5

\* The last half-word installs the new application, with the next sequence number.
LEMMA Commits ==
    ASSUME IInv, FlashStep, writing.at = Words(writing.app) + 3
    PROVE  /\ BestOf(page') = writing.slot
           /\ page'[writing.slot].app = writing.app /\ page'[writing.slot].seq = Version + 1
<1> DEFINE q == Written(Target)
<1>1. /\ writing # None /\ writing.slot \in Slots /\ page \in [Slots -> Page]
      /\ page' = [page EXCEPT ![writing.slot] = q]
    BY StateTypes, WritingTypes DEF FlashStep, Target
<1>2. /\ q \in Page /\ q = [Target EXCEPT !.status = VALID]
      /\ Target.words = Length /\ Target.app = writing.app /\ Target.seq = writing.seq
    BY <1>1, WrittenFits, WrittenIs, WritingTypes DEF Length
<1>3. Target \in Page /\ writing.app # None /\ writing.seq = count + 1 /\ count \in Nat
    BY <1>1, WritingTypes, StateTypes DEF Target
<1>4. q.status = VALID /\ q.words = Words(writing.app) /\ q.app = writing.app /\ q.seq = writing.seq
    BY <1>2, <1>3 DEF Page, Length
<1> HIDE DEF q
<1>5. /\ page' \in [Slots -> Page] /\ page'[writing.slot] = q
      /\ \A s \in Slots : s # writing.slot => page'[s] = page[s]
    BY <1>1, <1>2
<1>6. Whole(q)
    BY <1>3, <1>4 DEF Whole
<1>7. \A r \in Slots : Whole(page'[r]) /\ r # writing.slot => page'[r].seq < page'[writing.slot].seq
    <2> SUFFICES ASSUME NEW r \in Slots, Whole(page'[r]), r # writing.slot
                 PROVE  page'[r].seq < page'[writing.slot].seq
        OBVIOUS
    <2>1. page[r].seq <= count /\ page[r].seq \in Int
        BY <1>1, <1>5 DEF IInv, Known, Busy, Page
    <2> QED BY <1>3, <1>4, <1>5, <2>1
<1>8. BestOf(page') = writing.slot
    BY <1>1, <1>5, <1>6, <1>7, BestIs
<1>9. Version = count
    <2>1. Best = IF valid THEN slot ELSE None
        BY <1>1, WritingTypes, ScanFinds
    <2>2. slot # None
        BY StateTypes, StoreAssumption
    <2> QED BY <2>1, <2>2 DEF Version, IInv, Known
<1> QED BY <1>3, <1>4, <1>5, <1>8, <1>9

LEMMA StoreStep ==
    ASSUME IInv, [Next]_vars
    PROVE  \/ \E app \in Apps : Installed' = app /\ Version' = Version + 1
           \/ Installed' = Installed /\ Version' = Version
<1>1. /\ Installed' = IF BestOf(page') = None THEN None ELSE page'[BestOf(page')].app
      /\ Version' = IF BestOf(page') = None THEN 0 ELSE page'[BestOf(page')].seq
    BY BestPrime DEF Installed, Version
<1>2. ASSUME BestOf(page') = Best, Best # None => page'[Best] = page[Best]
      PROVE  Installed' = Installed /\ Version' = Version
    BY <1>1, <1>2 DEF Installed, Version
<1>3. CASE page' = page
    BY <1>2, <1>3, BestIsBestOf
<1>4. CASE FlashStep
    <2>1. CASE writing.at = Words(writing.app) + 3
        <3>1. writing.app \in Apps /\ writing.slot # None
            BY <1>4, WritingTypes, StoreAssumption DEF FlashStep
        <3> QED BY <1>1, <1>4, <2>1, <3>1, Commits
    <2>2. CASE writing.at # Words(writing.app) + 3
        <3> DEFINE q == Written(Target)
        <3>1. /\ writing # None /\ writing.slot \in Slots /\ page \in [Slots -> Page]
              /\ writing.at <= Length + 3 /\ writing.at \in Int /\ Length \in Nat
              /\ page' = [page EXCEPT ![writing.slot] = q]
            BY <1>4, StateTypes, WritingTypes DEF FlashStep, Target, Length, Commit
        <3>2. q \in Page /\ ~Whole(q) /\ (q.app # None => q.seq % 2 = writing.slot)
            BY <2>2, <3>1, WrittenFits DEF Length
        <3> HIDE DEF q
        <3>3. /\ page' \in [Slots -> Page] /\ page'[writing.slot] = q
              /\ \A s \in Slots : s # writing.slot => page'[s] = page[s]
            BY <3>1, <3>2
        <3>4. Parity(page')
            BY <3>2, <3>3 DEF IInv, Parity
        <3>5. writing.at # Words(writing.app) + 4 /\ ~Whole(page'[writing.slot])
            BY <3>1, <3>2, <3>3 DEF Length
        <3> QED BY <1>2, <3>1, <3>3, <3>4, <3>5, SameBest
    <2> QED BY <2>1, <2>2
<1>5. CASE PowerLoss
    <2>1. CASE writing = None \/ writing.at # 0
        BY <1>3, <1>5, <2>1, AfterPowerLoss
    <2>2. CASE writing # None /\ writing.at = 0
        <3>1. writing.slot \in Slots /\ writing.at # Words(writing.app) + 4
            BY <2>2, WritingTypes
        <3>2. /\ page' \in [Slots -> Page] /\ Parity(page')
              /\ \A s \in Slots : Whole(page'[s]) => page'[s] = page[s]
              /\ \A s \in Slots : s # writing.slot => page'[s] = page[s]
            BY <1>5, AfterPowerLoss
        <3> QED BY <1>2, <2>2, <3>1, <3>2, SameBest
    <2> QED BY <2>1, <2>2
<1>6. CASE Next
    <2>1. FlashStep \/ PowerLoss \/ page' = page
        BY <1>6 DEF Next, AppWrite, WriteBegin, WriteReturn, AppFail, AppRun, AppStop,
                    VmLook, VmBurstEnds, VmExits
    <2> QED BY <1>3, <1>4, <1>5, <2>1
<1>7. CASE UNCHANGED vars
    BY <1>3, <1>7 DEF vars
<1> QED BY <1>6, <1>7

\* app_write is atomic: whatever half-word power or an injected failure stops it at, the
\* application installed changes in one step, to the new one, one version later.
THEOREM WriteIsAtomic == Spec => ReplacesAtomically
<1>1. Init => Store!Init
    <2> SUFFICES ASSUME Init PROVE Best = None
        BY DEF Store!Init
    <2>1. \A s \in Slots : ~Whole(page[s])
        BY DEF Init, Blank, Whole
    <2> QED BY <2>1, BestNone, BestIsBestOf
<1>2. IInv /\ [Next]_vars => [Store!Next]_<<Installed, Version>>
    <2> SUFFICES ASSUME IInv, [Next]_vars PROVE [Store!Next]_<<Installed, Version>>
        OBVIOUS
    <2> QED BY StoreStep DEF Store!Next, Store!Install, Installed, Version
<1> QED BY <1>1, <1>2, Invariance, PTL DEF Spec, ReplacesAtomically, Store!Spec, Installed, Version
====
