---- MODULE HbcVm_proofs ----
(***************************************************************************)
(* Soundness of the bytecode verifier, for every sequence of cells and     *)
(* every size of stack, frames and locals: what bytecode_verify accepts,   *)
(* task_vm executes without a trap that the verifier is there to exclude.  *)
(*                                                                         *)
(* The scan of pass 1 is a recursive function, shown to exist and to be    *)
(* closed under After (BoundariesClosed).  From the table of pass 3 only   *)
(* what the verifier checks of it is used.  The invariant then is that the *)
(* machine is at a boundary, at the depth of the table above the frame's   *)
(* base, and that every frame will return to such a place (Placed).        *)
(***************************************************************************)
EXTENDS HbcVm, SequenceTheorems, WellFoundedInduction, TLAPS

\* Every nonempty set of naturals has a least element: the form of induction
\* used below.
LEMMA LeastNatural ==
    ASSUME NEW T \in SUBSET Nat, T # {}
    PROVE  \E m \in T : \A j \in T : m =< j
<1>1. \E m \in T : \A j \in T : ~ (<<j, m>> \in OpToRel(<, Nat))
    BY NatLessThanWellFounded, WFMin
<1>2. \A j, m \in Nat : <<j, m>> \in OpToRel(<, Nat) <=> j < m
    BY DEF OpToRel
<1>3. PICK m \in T : \A j \in T : ~ (<<j, m>> \in OpToRel(<, Nat))
    BY <1>1
<1>4. ASSUME NEW j \in T PROVE m =< j
    <2>1. j \in Nat /\ m \in Nat
        OBVIOUS
    <2>2. ~ (j < m)
        BY <2>1, <1>2, <1>3
    <2> QED BY <2>1, <2>2
<1> QED BY <1>4

-----------------------------------------------------------------------------
(* The linear scan.                                                        *)

\* One unfolding of the recursive function of Boundaries.
Rest(c, g, p) ==
    IF p = Len(c) THEN {}
    ELSE {p} \union (IF Decodes(c, p) THEN g[After(c, p)] ELSE {})
Unfold(c, g) == [p \in 0..Len(c) |-> Rest(c, g, p)]

\* An instruction that decodes ends later than it begins, within the code.
LEMMA AfterLater ==
    ASSUME NEW c \in Seq(Nat), NEW p \in 0..Len(c), p < Len(c), Decodes(c, p)
    PROVE  After(c, p) \in p+1..Len(c)
<1>1. p + 1 \in 1..Len(c) /\ Len(c) \in Nat /\ p \in Nat
    OBVIOUS
<1>2. CASE At(c, p) \in Bare
    BY <1>1, <1>2 DEF After
<1>3. CASE At(c, p) \notin Bare
    <2>1. p + 1 < Len(c) /\ After(c, p) <= Len(c)
        BY <1>3 DEF Decodes
    <2>2. p + 2 \in 1..Len(c)
        BY <1>1, <2>1
    <2>3. Operand(c, p) \in Nat
        BY <2>2 DEF Operand
    <2> QED BY <1>1, <1>3, <2>1, <2>3 DEF After
<1> QED BY <1>2, <1>3

\* Unfolding looks only at later addresses.
LEMMA RestLater ==
    ASSUME NEW c \in Seq(Nat), NEW p \in 0..Len(c), NEW g, NEW h,
           \A q \in p+1..Len(c) : g[q] = h[q]
    PROVE  Rest(c, g, p) = Rest(c, h, p)
<1>1. CASE p = Len(c)
    BY <1>1 DEF Rest
<1>2. CASE p # Len(c)
    <2>1. p < Len(c)
        BY <1>2
    <2>2. Decodes(c, p) => g[After(c, p)] = h[After(c, p)]
        BY <2>1, AfterLater
    <2> QED BY <2>2 DEF Rest
<1> QED BY <1>1, <1>2

LEMMA ScanExists ==
    ASSUME NEW c \in Seq(Nat)
    PROVE  \E f : f = Unfold(c, f)
<1> DEFINE L == Len(c)
           F == [0..L -> SUBSET (0..L)]
           Good(g, k) == \A p \in k..L : g[p] = Rest(c, g, p)
           T == {n \in 0..L : ~ \E g \in F : Good(g, L - n)}
<1>1. L \in Nat
    OBVIOUS
<1>2. T = {}
    <2> SUFFICES ASSUME T # {} PROVE FALSE
        OBVIOUS
    <2>1. PICK m \in T : \A j \in T : m =< j
        <3>1. T \in SUBSET Nat
            BY <1>1
        <3> HIDE DEF T
        <3> QED BY <3>1, LeastNatural
    <2>2. m \in 0..L /\ ~ \E g \in F : Good(g, L - m)
        BY <2>1
    <2>3. CASE m = 0
        <3> DEFINE g == [p \in 0..L |-> {}]
        <3>1. g \in F
            OBVIOUS
        <3>2. Good(g, L)
            BY <1>1 DEF Rest
        <3>3. L - m = L
            BY <1>1, <2>3
        <3> HIDE DEF g
        <3> QED BY <2>2, <3>1, <3>2, <3>3
    <2>4. CASE m # 0
        <3>1. m - 1 \in 0..L /\ m - 1 \notin T
            <4>1. m - 1 \in 0..L /\ ~ (m =< m - 1)
                BY <1>1, <2>2, <2>4
            <4> HIDE DEF T
            <4> QED BY <2>1, <4>1
        <3>2. PICK g \in F : Good(g, L - (m - 1))
            BY <3>1
        <3> DEFINE k == L - m
                   h == [p \in 0..L |-> IF p = k THEN Rest(c, g, k) ELSE g[p]]
        <3>3. k \in 0..L /\ L - (m - 1) = k + 1 /\ k < L
            BY <1>1, <2>2, <2>4
        <3>4. \A q \in k+1..L : q \in 0..L /\ h[q] = g[q]
            BY <1>1, <3>3
        <3>5. h[k] = Rest(c, g, k)
            BY <3>3
        <3>6. Rest(c, g, k) \in SUBSET (0..L)
            <4>1. Decodes(c, k) => g[After(c, k)] \in SUBSET (0..L)
                <5>1. Decodes(c, k) => After(c, k) \in 0..L
                    BY <1>1, <3>3, AfterLater
                <5> QED BY <3>2, <5>1
            <4> QED BY <3>3, <4>1 DEF Rest
        <3>7. h \in F
            BY <3>2, <3>6
        <3>8. ASSUME NEW p \in k..L PROVE h[p] = Rest(c, h, p)
            <4>1. p \in 0..L /\ (p = k \/ p \in k+1..L) /\ \A q \in p+1..L : g[q] = h[q]
                <5>1. p \in 0..L /\ (p = k \/ p \in k+1..L)
                    BY <1>1, <3>3
                <5>2. \A q \in p+1..L : q \in k+1..L
                    BY <1>1, <3>3
                <5> QED BY <3>4, <5>1, <5>2
            <4>2. Rest(c, g, p) = Rest(c, h, p)
                BY <4>1, RestLater
            <4>3. p \in k+1..L => g[p] = Rest(c, g, p)
                BY <3>2, <3>3
            <4> QED BY <3>4, <3>5, <4>1, <4>2, <4>3
        <3>9. Good(h, L - m)
            BY <3>8
        <3> HIDE DEF h
        <3> QED BY <2>2, <3>7, <3>9
    <2> QED BY <2>3, <2>4
<1>3. PICK g \in F : Good(g, 0)
    <2>1. L \in 0..L /\ L - L = 0 /\ L \notin T
        BY <1>1, <1>2
    <2>2. \E g \in F : Good(g, L - L)
        BY <2>1
    <2> QED BY <2>1, <2>2
<1>4. g = Unfold(c, g)
    BY <1>1, <1>3 DEF Unfold
<1> QED BY <1>4

\* The scan begins at 0, stays inside the code and goes from one instruction to the next.
LEMMA BoundariesClosed ==
    ASSUME NEW c \in Seq(Nat), c # <<>>
    PROVE  /\ 0 \in Boundaries(c)
           /\ \A p \in Boundaries(c) :
                /\ p \in 0..Len(c)-1
                /\ Decodes(c, p) => After(c, p) = Len(c) \/ After(c, p) \in Boundaries(c)
<1> DEFINE L == Len(c)
           scan == CHOOSE f : f = Unfold(c, f)
           Inside(q) == \A p \in scan[q] :
                            /\ p \in 0..L-1
                            /\ Decodes(c, p) => After(c, p) = L \/ After(c, p) \in scan[q]
           T == {n \in 0..L : ~ Inside(L - n)}
<1>1. L \in Nat /\ L > 0
    OBVIOUS
<1>2. scan = Unfold(c, scan)
    BY ScanExists
<1>3. Boundaries(c) = scan[0]
    BY DEF Boundaries, Unfold, Rest
<1> HIDE DEF scan
<1>4. \A q \in 0..L : scan[q] = Rest(c, scan, q)
    BY <1>2 DEF Unfold
<1>5. \A q \in 0..L : q < L => q \in scan[q]
    <2> SUFFICES ASSUME NEW q \in 0..L, q < L PROVE q \in scan[q]
        OBVIOUS
    <2>1. q # L
        BY <1>1
    <2>2. q \in Rest(c, scan, q)
        BY <2>1 DEF Rest
    <2> QED BY <1>4, <2>2
<1>6. T = {}
    <2> SUFFICES ASSUME T # {} PROVE FALSE
        OBVIOUS
    <2>1. PICK m \in T : \A j \in T : m =< j
        <3>1. T \in SUBSET Nat
            BY <1>1
        <3> HIDE DEF T
        <3> QED BY <3>1, LeastNatural
    <2> DEFINE q == L - m
    <2>2. q \in 0..L /\ m \in 0..L /\ ~ Inside(q)
        BY <1>1, <2>1
    <2>3. \A r \in q+1..L : Inside(r)
        <3> SUFFICES ASSUME NEW r \in q+1..L PROVE Inside(r)
            OBVIOUS
        <3>1. L - r \in 0..L /\ L - r < m /\ L - (L - r) = r
            BY <1>1, <2>2
        <3>2. L - r \notin T
            <4>1. ~ (m =< L - r)
                BY <1>1, <2>2, <3>1
            <4> HIDE DEF T
            <4> QED BY <2>1, <4>1
        <3> QED BY <3>1, <3>2
    <2>4. Inside(q)
        <3> SUFFICES ASSUME NEW p \in scan[q]
                     PROVE  /\ p \in 0..L-1
                            /\ Decodes(c, p) => After(c, p) = L \/ After(c, p) \in scan[q]
            OBVIOUS
        <3>1. q < L
            <4>1. q # L
                <5>1. Rest(c, scan, L) = {}
                    BY DEF Rest
                <5>2. scan[q] = Rest(c, scan, q)
                    BY <1>4, <2>2
                <5> HIDE DEF q
                <5> QED BY <5>1, <5>2
            <4> QED BY <1>1, <2>2, <4>1
        <3>2. CASE p = q
            <4>1. q \in 0..L-1
                BY <1>1, <2>2, <3>1
            <4>2. ASSUME Decodes(c, q), After(c, q) # L PROVE After(c, q) \in scan[q]
                <5>1. After(c, q) \in 0..L /\ After(c, q) < L
                    BY <1>1, <2>2, <3>1, <4>2, AfterLater
                <5>2. After(c, q) \in scan[After(c, q)]
                    BY <1>5, <5>1
                <5> QED BY <1>4, <2>2, <3>1, <4>2, <5>2 DEF Rest
            <4> QED BY <3>2, <4>1, <4>2
        <3>3. CASE p # q
            <4>1. Decodes(c, q) /\ p \in scan[After(c, q)] /\ scan[After(c, q)] \subseteq scan[q]
                BY <1>4, <2>2, <3>1, <3>3 DEF Rest
            <4>2. After(c, q) \in q+1..L
                BY <2>2, <3>1, <4>1, AfterLater
            <4>3. Inside(After(c, q))
                BY <2>3, <4>2
            <4> QED BY <4>1, <4>3
        <3> QED BY <3>2, <3>3
    <2> QED BY <2>2, <2>4
<1>7. Inside(0)
    <2>1. L \in 0..L /\ L - L = 0 /\ L \notin T
        BY <1>1, <1>6
    <2> QED BY <2>1
<1> QED BY <1>1, <1>3, <1>5, <1>7
-----------------------------------------------------------------------------
(* What the verifier has checked of an address and its depth.              *)

\* A place where the machine may be at this depth: the end, or an instruction at the
\* depth of the table.
Meets(c, p, d) ==
    /\ p \in 0..Len(c)
    /\ p < Len(c) => p \in Boundaries(c) /\ <<p, d>> \in Depths(c, Boundaries(c))

LEMMA VerifiedBoundary ==
    ASSUME NEW c \in Seq(Nat), bytecode_verify(c)
    PROVE  /\ c # <<>> /\ 0 \in Boundaries(c)
           /\ \A p \in Boundaries(c) :
                /\ p \in 0..Len(c)-1 /\ Decodes(c, p)
                /\ At(c, p) \in Targeted => Operand(c, p) \in Boundaries(c)
                /\ After(c, p) \in p+1..Len(c)
                /\ After(c, p) = Len(c) \/ After(c, p) \in Boundaries(c)
<1>1. c # <<>> /\ Sound(c, Boundaries(c))
    BY DEF bytecode_verify
<1>2. ASSUME NEW p \in Boundaries(c)
      PROVE  /\ p \in 0..Len(c)-1 /\ Decodes(c, p)
             /\ At(c, p) \in Targeted => Operand(c, p) \in Boundaries(c)
             /\ After(c, p) \in p+1..Len(c)
             /\ After(c, p) = Len(c) \/ After(c, p) \in Boundaries(c)
    <2>1. /\ Decodes(c, p) /\ At(c, p) \in Targeted => Operand(c, p) \in Boundaries(c)
        BY <1>1 DEF Sound
    <2>2. /\ p \in 0..Len(c)-1
          /\ Decodes(c, p) => After(c, p) = Len(c) \/ After(c, p) \in Boundaries(c)
        BY <1>1, BoundariesClosed
    <2>3. p \in 0..Len(c) /\ p < Len(c)
        BY <2>2
    <2>4. Decodes(c, p)
        BY <1>1 DEF Sound
    <2>5. At(c, p) \in Targeted => Operand(c, p) \in Boundaries(c)
        BY <1>1 DEF Sound
    <2> QED BY <2>2, <2>3, <2>4, <2>5, AfterLater
<1> QED BY <1>1, <1>2, BoundariesClosed

\* Everything that holds at an instruction the machine reaches at depth d.
LEMMA VerifiedStep ==
    ASSUME NEW c \in Seq(Nat), bytecode_verify(c), NEW p, NEW d, p < Len(c), Meets(c, p, d)
    PROVE  /\ p \in 0..Len(c)-1 /\ Decodes(c, p) /\ DepthOK(c, p, d)
           /\ At(c, p) \in Targeted => Operand(c, p) \in 0..Len(c)-1
           /\ After(c, p) \in p+1..Len(c)
           /\ FallsThrough(At(c, p)) => Meets(c, After(c, p), d + Delta(At(c, p)))
           /\ At(c, p) \in {JMP, JZ} => Meets(c, Operand(c, p), d + Delta(At(c, p)))
           /\ At(c, p) = CALL => Meets(c, Operand(c, p), 0)
<1> DEFINE B == Boundaries(c)  D == Depths(c, B)  op == At(c, p)  e == d + Delta(op)
<1>1. p \in B /\ <<p, d>> \in D
    BY DEF Meets
<1>2. /\ p \in 0..Len(c)-1 /\ Decodes(c, p)
      /\ op \in Targeted => Operand(c, p) \in B
      /\ After(c, p) \in p+1..Len(c)
      /\ After(c, p) = Len(c) \/ After(c, p) \in B
    BY <1>1, VerifiedBoundary
<1>3. Accepts(c, B, D)
    BY DEF bytecode_verify
<1> HIDE DEF B, D
<1>4. Entries(c, B) \subseteq D /\ DepthOK(c, p, d) /\ Follow(c, p, d) \subseteq D
    <2>1. \A x \in D : DepthOK(c, x[1], x[2]) /\ Follow(c, x[1], x[2]) \subseteq D
        BY <1>3 DEF Accepts
    <2>2. Entries(c, B) \subseteq D
        BY <1>3 DEF Accepts
    <2> QED BY <1>1, <2>1, <2>2
<1>5. op \in Targeted => Operand(c, p) \in 0..Len(c)-1
    BY <1>2, VerifiedBoundary DEF B
<1>6. ASSUME FallsThrough(op) PROVE Meets(c, After(c, p), e)
    <2>1. After(c, p) < Len(c) => <<After(c, p), e>> \in D
        BY <1>4, <1>6 DEF Follow
    <2>2. After(c, p) \in 0..Len(c) /\ (After(c, p) < Len(c) => After(c, p) \in B)
        BY <1>2
    <2> QED BY <2>1, <2>2 DEF Meets, B, D
<1>7. ASSUME op \in {JMP, JZ} PROVE Meets(c, Operand(c, p), e)
    <2>1. <<Operand(c, p), e>> \in D
        BY <1>4, <1>7 DEF Follow
    <2>2. op \in Targeted
        BY <1>7 DEF Targeted
    <2> QED BY <1>2, <1>5, <2>1, <2>2 DEF Meets, B, D
<1>8. ASSUME op = CALL PROVE Meets(c, Operand(c, p), 0)
    <2>1. <<Operand(c, p), 0>> \in D
        BY <1>1, <1>4, <1>8 DEF Entries
    <2>2. op \in Targeted
        BY <1>8 DEF Targeted
    <2> QED BY <1>2, <1>5, <2>1, <2>2 DEF Meets, B, D
<1> QED BY <1>2, <1>4, <1>5, <1>6, <1>7, <1>8

\* The first instruction is reached at depth 0.
LEMMA VerifiedStart ==
    ASSUME NEW c \in Seq(Nat), bytecode_verify(c)
    PROVE  Meets(c, 0, 0)
<1>1. <<0, 0>> \in Depths(c, Boundaries(c))
    BY DEF bytecode_verify, Accepts, Entries
<1> QED BY <1>1, VerifiedBoundary DEF Meets
-----------------------------------------------------------------------------
(* Numbers of Width bits.                                                  *)

Fits(n) == n \in Int /\ n = Wrap(n)

LEMMA WrapFits == \A n \in Int : Fits(Wrap(n))
<1> SUFFICES ASSUME NEW n \in Int PROVE Fits(Wrap(n))
    OBVIOUS
<1> DEFINE M == 2^Width  H == 2^(Width-1)
<1>1. M \in Nat /\ H \in Nat /\ M > 0
    BY VmAssumption
<1> HIDE DEF M, H
<1>2. \A x \in Int : Wrap(x) = ((x + H) % M) - H
    BY DEF Wrap, M, H
<1>3. (n + H) % M \in Nat /\ (n + H) % M < M
    BY <1>1
<1>4. \A r \in Nat : r < M => r % M = r
    BY <1>1
<1>5. Wrap(n) \in Int /\ Wrap(n) + H = (n + H) % M
    BY <1>1, <1>2, <1>3
<1>6. Wrap(Wrap(n)) = Wrap(n)
    BY <1>1, <1>2, <1>3, <1>4, <1>5
<1> QED BY <1>5, <1>6 DEF Fits

LEMMA TruthFits == Fits(0) /\ Fits(1)
<1> DEFINE M == 2^Width  H == 2^(Width-1)
<1>1. M \in Nat /\ H \in Nat /\ H + 1 < M
    BY VmAssumption
<1> HIDE DEF M, H
<1>2. \A x \in Int : Wrap(x) = ((x + H) % M) - H
    BY DEF Wrap, M, H
<1>3. \A r \in Nat : r < M => r % M = r
    BY <1>1
<1>4. Wrap(0) = 0 /\ Wrap(1) = 1
    BY <1>1, <1>2, <1>3
<1> QED BY <1>4 DEF Fits

LEMMA ApplyFits ==
    ASSUME NEW op \in Binary, NEW l \in Int, NEW r \in Int, op = DIV => r # 0
    PROVE  Fits(Apply(op, l, r))
<1>1. op \in {ADD, SUB, MUL, DIV, LT, LE, GT, GE, EQ, NE}
    BY DEF Binary, ADD, SUB, MUL, DIV, LT, LE, GT, GE, EQ, NE
<1>2. CASE op \in {ADD, SUB, MUL}
    <2>1. l + r \in Int /\ l - r \in Int /\ l * r \in Int
        OBVIOUS
    <2>2. Apply(op, l, r) \in {Wrap(l + r), Wrap(l - r), Wrap(l * r)}
        BY <1>2 DEF Apply, ADD, SUB, MUL, DIV, LT, LE, GT, GE, EQ, NE
    <2> QED BY <2>1, <2>2, WrapFits
<1>3. CASE op = DIV
    <2> DEFINE a == IF l < 0 THEN -l ELSE l   b == IF r < 0 THEN -r ELSE r
    <2>1. a \in Int /\ b \in Int /\ b > 0
        BY <1>3
    <2> HIDE DEF a, b
    <2>2. a \div b \in Int
        BY <2>1
    <2>3. Apply(op, l, r) \in {Wrap(a \div b), Wrap(-(a \div b))}
        <3>1. Apply(op, l, r) = Quotient(l, r)
            BY <1>3 DEF Apply, ADD, SUB, MUL, DIV, LT, LE, GT, GE, EQ, NE
        <3> QED BY <3>1 DEF Quotient, a, b
    <2>4. -(a \div b) \in Int
        BY <2>2
    <2> QED BY <2>2, <2>3, <2>4, WrapFits
<1>4. CASE op \in {LT, LE, GT, GE, EQ, NE}
    <2>1. Apply(op, l, r) \in {0, 1}
        BY <1>4 DEF Apply, Truth, ADD, SUB, MUL, DIV, LT, LE, GT, GE, EQ, NE
    <2> QED BY <2>1, TruthFits
<1> QED BY <1>1, <1>2, <1>3, <1>4
-----------------------------------------------------------------------------
(* The opcodes by class.                                                   *)

LEMMA OperandOps ==
    ASSUME NEW op \in WithOperand
    PROVE  op \notin Bare /\ op # WRITE
BY DEF WithOperand, Bare, Binary, DemoOps, PUSH, LOAD, STORE, ADD, NE, CALL, RET, GPIO, SLEEP, JMP, JZ,
       PRINT, POP, WRITE, HALT

LEMMA WriteOp == WRITE \notin Bare
BY DEF Bare, Binary, DemoOps, ADD, NE, RET, GPIO, PRINT, POP, WRITE, HALT

LEMMA DeltaTable ==
    /\ \A op \in {PUSH, LOAD} : Takes(op) = 0 /\ Delta(op) = 1 /\ FallsThrough(op)
    /\ \A op \in Binary : Takes(op) = 2 /\ Delta(op) = -1 /\ FallsThrough(op)
    /\ \A op \in {STORE, JZ, PRINT, POP} : Takes(op) = 1 /\ Delta(op) = -1 /\ FallsThrough(op)
    /\ \A op \in {GPIO, SLEEP, WRITE} : Delta(op) = 0 /\ FallsThrough(op)
    /\ Delta(CALL) = 1 /\ FallsThrough(CALL)
    /\ Delta(JMP) = 0
BY DEF Takes, Delta, FallsThrough, Binary, PUSH, LOAD, STORE, ADD, NE, CALL, RET, GPIO, SLEEP, JMP, JZ,
       PRINT, POP, WRITE, HALT
-----------------------------------------------------------------------------
(* The machine of verified code.                                           *)

LocalsFit(l) == l \in [0..Locals-1 -> Int] /\ \A i \in 0..Locals-1 : Fits(l[i])
StackFits(s) == s \in Seq(Int) /\ \A i \in 1..Len(s) : Fits(s[i])

Frame == [ret : Nat, base : Nat, locals : [0..Locals-1 -> Int]]
BaseOf(fr, i) == IF i = 0 THEN 0 ELSE fr[i].base

\* Every frame returns to where the machine may be with one value more.
FramesFit(c, fr) ==
    /\ fr \in Seq(Frame) /\ Len(fr) <= FrameSize
    /\ \A i \in 1..Len(fr) :
          /\ LocalsFit(fr[i].locals) /\ BaseOf(fr, i-1) <= fr[i].base
          /\ Meets(c, fr[i].ret, fr[i].base + 1 - BaseOf(fr, i-1))

Placed(c, p, s, l, fr) ==
    /\ StackFits(s) /\ Len(s) <= StackSize /\ LocalsFit(l) /\ FramesFit(c, fr)
    /\ BaseOf(fr, Len(fr)) <= Len(s)
    /\ Meets(c, p, Len(s) - BaseOf(fr, Len(fr)))

IInv ==
    /\ code \in Seq(Nat) /\ steps \in 0..MaxSteps /\ VerifiedRunsClean
    /\ status \in Idle => pc = 0 /\ stack = <<>> /\ locals = ZeroLocals /\ frames = <<>>
    /\ status \notin Idle =>
          /\ bytecode_verify(code) /\ depths = Depths(code, Boundaries(code))
          /\ Placed(code, pc, stack, locals, frames)

LEMMA PushFits ==
    ASSUME NEW s, StackFits(s), NEW x, Fits(x)
    PROVE  StackFits(Append(s, x)) /\ Len(Append(s, x)) = Len(s) + 1
<1>1. s \in Seq(Int) /\ x \in Int /\ Len(s) \in Nat
    BY DEF StackFits, Fits
<1>2. /\ Append(s, x) \in Seq(Int) /\ Len(Append(s, x)) = Len(s) + 1
      /\ \A i \in 1..Len(s) + 1 : Append(s, x)[i] = IF i <= Len(s) THEN s[i] ELSE x
    BY <1>1
<1> QED BY <1>1, <1>2 DEF StackFits

LEMMA DropFits ==
    ASSUME NEW s, StackFits(s), NEW n \in Nat, n <= Len(s)
    PROVE  StackFits(SubSeq(s, 1, Len(s) - n)) /\ Len(SubSeq(s, 1, Len(s) - n)) = Len(s) - n
<1>1. s \in Seq(Int) /\ Len(s) \in Nat
    BY DEF StackFits
<1>2. /\ SubSeq(s, 1, Len(s) - n) \in Seq(Int) /\ Len(SubSeq(s, 1, Len(s) - n)) = Len(s) - n
      /\ \A i \in 1..Len(s) - n : SubSeq(s, 1, Len(s) - n)[i] = s[i]
    BY <1>1
<1> QED BY <1>1, <1>2 DEF StackFits

LEMMA FramePush ==
    ASSUME NEW c, NEW fr, FramesFit(c, fr), Len(fr) < FrameSize, NEW f \in Frame, LocalsFit(f.locals),
           BaseOf(fr, Len(fr)) <= f.base, Meets(c, f.ret, f.base + 1 - BaseOf(fr, Len(fr)))
    PROVE  /\ FramesFit(c, Append(fr, f)) /\ Len(Append(fr, f)) = Len(fr) + 1
           /\ BaseOf(Append(fr, f), Len(fr) + 1) = f.base
<1> DEFINE g == Append(fr, f)
<1>1. fr \in Seq(Frame) /\ Len(fr) \in Nat /\ FrameSize \in Nat
    BY VmAssumption DEF FramesFit
<1>2. /\ g \in Seq(Frame) /\ Len(g) = Len(fr) + 1 /\ g[Len(fr) + 1] = f
      /\ \A i \in 1..Len(fr) : g[i] = fr[i]
    BY <1>1
<1> HIDE DEF g
<1>3. \A i \in 0..Len(fr) : BaseOf(g, i) = BaseOf(fr, i)
    BY <1>2 DEF BaseOf
<1>4. ASSUME NEW i \in 1..Len(g)
      PROVE  /\ LocalsFit(g[i].locals) /\ BaseOf(g, i-1) <= g[i].base
             /\ Meets(c, g[i].ret, g[i].base + 1 - BaseOf(g, i-1))
    <2>1. CASE i = Len(fr) + 1
        <3>1. i - 1 = Len(fr) /\ i - 1 \in 0..Len(fr)
            BY <1>1, <2>1
        <3>2. BaseOf(g, i-1) = BaseOf(fr, Len(fr)) /\ g[i] = f
            BY <1>2, <1>3, <2>1, <3>1
        <3> QED BY <3>2
    <2>2. CASE i # Len(fr) + 1
        <3>1. i \in 1..Len(fr) /\ i - 1 \in 0..Len(fr)
            BY <1>1, <1>2, <2>2
        <3>2. g[i] = fr[i] /\ BaseOf(g, i-1) = BaseOf(fr, i-1)
            BY <1>2, <1>3, <3>1
        <3> QED BY <3>1, <3>2 DEF FramesFit
    <2> QED BY <2>1, <2>2
<1>5. BaseOf(g, Len(fr) + 1) = f.base
    BY <1>1, <1>2 DEF BaseOf
<1> QED BY <1>1, <1>2, <1>4, <1>5 DEF FramesFit, g

LEMMA FramePop ==
    ASSUME NEW c, NEW fr, FramesFit(c, fr), Len(fr) # 0
    PROVE  /\ FramesFit(c, SubSeq(fr, 1, Len(fr) - 1)) /\ Len(SubSeq(fr, 1, Len(fr) - 1)) = Len(fr) - 1
           /\ BaseOf(SubSeq(fr, 1, Len(fr) - 1), Len(fr) - 1) = BaseOf(fr, Len(fr) - 1)
<1> DEFINE g == SubSeq(fr, 1, Len(fr) - 1)
<1>1. fr \in Seq(Frame) /\ Len(fr) \in Nat /\ FrameSize \in Nat /\ Len(fr) > 0 /\ Len(fr) <= FrameSize
    BY VmAssumption DEF FramesFit
<1>2. /\ g \in Seq(Frame) /\ Len(g) = Len(fr) - 1
      /\ \A i \in 1..Len(fr) - 1 : g[i] = fr[i]
    <2> DEFINE m == Len(fr) - 1
    <2>1. m \in Nat /\ \A i \in 1..m : fr[i] \in Frame
        BY <1>1
    <2> HIDE DEF m
    <2>2. m - 1 + 1 = m /\ (IF 1 <= m THEN m - 1 + 1 ELSE 0) = m /\ \A i \in 1..m : 1 + i - 1 = i
        BY <2>1
    <2>3. /\ SubSeq(fr, 1, m) \in Seq(Frame)
          /\ Len(SubSeq(fr, 1, m)) = IF 1 <= m THEN m - 1 + 1 ELSE 0
          /\ \A i \in 1..m - 1 + 1 : SubSeq(fr, 1, m)[i] = fr[1 + i - 1]
        BY <2>1, SubSeqProperties
    <2>4. /\ SubSeq(fr, 1, m) \in Seq(Frame) /\ Len(SubSeq(fr, 1, m)) = m
          /\ \A i \in 1..m : SubSeq(fr, 1, m)[i] = fr[i]
        BY <2>2, <2>3
    <2> QED BY <2>4 DEF m
<1> HIDE DEF g
<1>3. \A i \in 0..Len(fr) - 1 : BaseOf(g, i) = BaseOf(fr, i)
    BY <1>1, <1>2 DEF BaseOf
<1>4. ASSUME NEW i \in 1..Len(g)
      PROVE  /\ LocalsFit(g[i].locals) /\ BaseOf(g, i-1) <= g[i].base
             /\ Meets(c, g[i].ret, g[i].base + 1 - BaseOf(g, i-1))
    <2>1. i \in 1..Len(fr) - 1 /\ i \in 1..Len(fr) /\ i - 1 \in 0..Len(fr) - 1
        BY <1>1, <1>2
    <2>2. g[i] = fr[i] /\ BaseOf(g, i-1) = BaseOf(fr, i-1)
        BY <1>2, <1>3, <2>1
    <2> QED BY <2>1, <2>2 DEF FramesFit
<1>5. Len(fr) - 1 \in 0..Len(fr) - 1
    BY <1>1
<1> QED BY <1>1, <1>2, <1>3, <1>4, <1>5 DEF FramesFit, g
-----------------------------------------------------------------------------
(* Steps of the machine.                                                   *)

Depth == Sp - Base

\* What is known of the machine while it runs.
LEMMA Running ==
    ASSUME IInv, status = "running"
    PROVE  /\ code \in Seq(Nat) /\ bytecode_verify(code) /\ depths = Depths(code, Boundaries(code))
           /\ Placed(code, pc, stack, locals, frames) /\ Meets(code, pc, Depth)
           /\ Base = BaseOf(frames, Len(frames)) /\ Base \in Nat /\ Base <= Sp /\ Sp \in Nat
           /\ Sp <= StackSize /\ StackSize \in Nat /\ Depth \in Nat /\ Sp = Base + Depth
           /\ frames \in Seq(Frame) /\ Len(frames) \in Nat
           /\ StackFits(stack) /\ LocalsFit(locals) /\ FramesFit(code, frames)
<1>1. /\ code \in Seq(Nat) /\ bytecode_verify(code) /\ depths = Depths(code, Boundaries(code))
      /\ Placed(code, pc, stack, locals, frames)
    BY DEF IInv, Idle
<1>2. /\ frames \in Seq(Frame) /\ Len(frames) \in Nat
      /\ StackFits(stack) /\ LocalsFit(locals) /\ FramesFit(code, frames)
    BY <1>1 DEF Placed, FramesFit
<1>3. frames = <<>> <=> Len(frames) = 0
    BY <1>2
<1>4. Base = BaseOf(frames, Len(frames))
    BY <1>3 DEF Base, BaseOf
<1>5. Base \in Nat
    <2>1. CASE frames = <<>>
        BY <2>1 DEF Base
    <2>2. CASE frames # <<>>
        <3>1. Len(frames) \in 1..Len(frames)
            BY <1>2, <1>3, <2>2
        <3>2. frames[Len(frames)] \in Frame
            BY <1>2, <3>1
        <3> QED BY <2>2, <3>2 DEF Base, Frame
    <2> QED BY <2>1, <2>2
<1>6. Sp \in Nat /\ StackSize \in Nat
    BY <1>2, VmAssumption DEF StackFits, Sp
<1>7. Sp <= StackSize /\ Base <= Sp /\ Meets(code, pc, Depth)
    BY <1>1, <1>4 DEF Placed, Sp, Depth
<1> QED BY <1>1, <1>2, <1>4, <1>5, <1>6, <1>7 DEF Depth

\* An instruction about to be executed.
LEMMA Fetched ==
    ASSUME IInv, NEW ops, Fetch(ops)
    PROVE  /\ status = "running" /\ At(code, pc) \in ops
           /\ steps' \in 0..MaxSteps /\ code' = code /\ depths' = depths
           /\ pc \in 0..Len(code)-1 /\ Decodes(code, pc) /\ DepthOK(code, pc, Depth)
           /\ At(code, pc) \in Targeted => Arg \in 0..Len(code)-1
           /\ FallsThrough(At(code, pc)) => Meets(code, After(code, pc), Depth + Delta(At(code, pc)))
           /\ At(code, pc) \in {JMP, JZ} => Meets(code, Arg, Depth + Delta(At(code, pc)))
           /\ At(code, pc) = CALL => Meets(code, Arg, 0)
           /\ After(code, pc) \in Nat
<1>1. status = "running" /\ pc < Len(code) /\ At(code, pc) \in ops /\ steps < MaxSteps
      /\ steps' = steps + 1 /\ code' = code /\ depths' = depths
    BY DEF Fetch
<1>2. steps' \in 0..MaxSteps
    BY <1>1, VmAssumption DEF IInv
<1>3. code \in Seq(Nat) /\ bytecode_verify(code) /\ Meets(code, pc, Depth)
    BY <1>1, Running
<1>4. After(code, pc) \in pc+1..Len(code) /\ pc \in 0..Len(code)-1
    BY <1>1, <1>3, VerifiedStep
<1>5. After(code, pc) \in Nat
    BY <1>4
<1> QED BY <1>1, <1>2, <1>3, <1>5, VerifiedStep DEF Arg

\* The operand of an instruction that has one is there, and is followed by the next.
LEMMA OperandThere ==
    ASSUME IInv, NEW ops, Fetch(ops), At(code, pc) \in WithOperand
    PROVE  /\ Here /\ Arg \in Nat /\ After(code, pc) = pc + 2
           /\ At(code, pc) \in {LOAD, STORE} => Arg < Locals
<1>2. pc + 1 < Len(code)
    BY Fetched, OperandOps DEF Decodes
<1>3. pc \in Nat /\ code \in Seq(Nat) /\ Len(code) \in Nat
    BY Fetched, Running
<1>4. pc + 2 \in 1..Len(code)
    BY <1>2, <1>3
<1>5. Arg \in Nat
    BY <1>3, <1>4 DEF Arg, Operand
<1>6. After(code, pc) = pc + 2
    BY OperandOps DEF After
<1>7. At(code, pc) \in {LOAD, STORE} => Arg < Locals
    BY Fetched, OperandOps DEF Decodes, Arg
<1> QED BY <1>2, <1>5, <1>6, <1>7 DEF Here

\* The machine moves on to another place of the table.
LEMMA StepKeeps ==
    ASSUME IInv, status = "running", status' = "running", code' = code, depths' = depths,
           steps' \in 0..MaxSteps, Placed(code, pc', stack', locals', frames')
    PROVE  IInv'
<1>1. VerifiedRunsClean'
    BY DEF VerifiedRunsClean
<1>2. status' \notin Idle
    BY DEF Idle
<1> QED BY <1>1, <1>2, Running DEF IInv

\* It stops where it is, for a reason that is left to it.
LEMMA StopKeeps ==
    ASSUME IInv, status = "running", status' \in Traps \union {"exited"}, UNCHANGED machine,
           code' = code, depths' = depths, steps' \in 0..MaxSteps,
           status' = "push" => frames # <<>>, status' = "return-frame" => frames = <<>>,
           status' = "invalid-opcode" => At(code, pc) \in DemoOps
    PROVE  IInv'
<1>1. UNCHANGED <<pc, stack, locals, frames>>
    BY DEF machine
<1>2. VerifiedRunsClean'
    BY <1>1 DEF VerifiedRunsClean
<1>3. status' \notin Idle
    BY DEF Idle, Traps
<1> QED BY <1>1, <1>2, <1>3, Running DEF IInv

\* A step inside the frame: stack and locals may change, control goes to p.
LEMMA LocalStep ==
    ASSUME IInv, NEW ops, Fetch(ops), status' = status, frames' = frames,
           StackFits(stack'), Len(stack') <= StackSize, LocalsFit(locals'),
           NEW d \in Int, d >= 0, Len(stack') = Base + d, Meets(code, pc', d)
    PROVE  IInv'
<1>1. /\ Base = BaseOf(frames, Len(frames)) /\ Base \in Nat /\ FramesFit(code, frames)
      /\ status = "running"
    BY Running DEF Fetch
<1>2. Len(stack') - Base = d /\ Base <= Len(stack')
    BY <1>1
<1>3. Placed(code, pc', stack', locals', frames')
    BY <1>1, <1>2 DEF Placed
<1> QED BY <1>1, <1>3, Fetched, StepKeeps

LEMMA PushKeeps == IInv /\ Push => IInv'
<1> SUFFICES ASSUME IInv, Push PROVE IInv'
    OBVIOUS
<1>1. Fetch({PUSH, LOAD})
    BY DEF Push
<1>2. /\ At(code, pc) \in {PUSH, LOAD} /\ status = "running" /\ DepthOK(code, pc, Depth)
      /\ steps' \in 0..MaxSteps /\ code' = code /\ depths' = depths
      /\ FallsThrough(At(code, pc)) => Meets(code, After(code, pc), Depth + Delta(At(code, pc)))
    BY <1>1, Fetched
<1>3. At(code, pc) \in WithOperand /\ Delta(At(code, pc)) = 1 /\ FallsThrough(At(code, pc))
    BY <1>2, DeltaTable DEF WithOperand
<1>4. Here /\ Arg \in Nat /\ After(code, pc) = pc + 2 /\ (At(code, pc) = LOAD => Arg < Locals)
    BY <1>1, <1>3, OperandThere
<1>5. Depth + 1 <= StackSize /\ Meets(code, pc + 2, Depth + 1)
    BY <1>2, <1>3, <1>4, Running DEF DepthOK
<1>6. CASE Sp >= StackSize
    <2>1. status' = "push" /\ UNCHANGED machine
        BY <1>6 DEF Push, Trap
    <2>2. frames # <<>>
        BY <1>2, <1>5, <1>6, Running DEF Base
    <2> QED BY <1>2, <2>1, <2>2, StopKeeps DEF Traps
<1>7. CASE Sp < StackSize
    <2> DEFINE x == IF At(code, pc) = PUSH THEN Wrap(Arg) ELSE locals[Arg]
    <2>1. /\ stack' = Append(stack, x) /\ pc' = pc + 2 /\ status' = status
          /\ locals' = locals /\ frames' = frames
        <3>1. ~ (~Here \/ Sp >= StackSize \/ (At(code, pc) = LOAD /\ Arg >= Locals))
            BY <1>2, <1>4, <1>7, Running, VmAssumption
        <3> QED BY <3>1 DEF Push, Go, Silent
    <2>2. Fits(x)
        <3>1. CASE At(code, pc) = PUSH
            BY <1>4, <3>1, WrapFits
        <3>2. CASE At(code, pc) # PUSH
            <4>1. Arg \in 0..Locals-1
                BY <1>2, <1>4, <3>2, VmAssumption
            <4> QED BY <1>2, <3>2, <4>1, Running DEF LocalsFit
        <3> QED BY <3>1, <3>2
    <2> HIDE DEF x
    <2>3. StackFits(stack') /\ Len(stack') = Sp + 1
        BY <1>2, <2>1, <2>2, PushFits, Running DEF Sp
    <2>4. Depth + 1 \in Int /\ Depth + 1 >= 0 /\ Len(stack') = Base + (Depth + 1) /\ Len(stack') <= StackSize
        BY <1>2, <1>7, <2>3, Running
    <2>5. LocalsFit(locals')
        BY <1>2, <2>1, Running
    <2> QED BY <1>1, <1>5, <2>1, <2>3, <2>4, <2>5, LocalStep
<1> QED BY <1>2, <1>6, <1>7, Running

\* Pops n values, and pushes none.
LEMMA Dropped ==
    ASSUME IInv, status = "running", NEW n \in Nat, n <= Depth, stack' = Drop(n)
    PROVE  /\ StackFits(stack') /\ Len(stack') = Sp - n /\ Len(stack') <= StackSize
           /\ Len(stack') = Base + (Depth - n) /\ Depth - n \in Int /\ Depth - n >= 0
<1>1. /\ StackFits(stack) /\ Sp \in Nat /\ Base \in Nat /\ Depth \in Nat /\ Sp = Base + Depth
      /\ Sp <= StackSize /\ StackSize \in Nat
    BY Running
<1>2. n <= Sp
    BY <1>1
<1>3. StackFits(stack') /\ Len(stack') = Sp - n
    BY <1>1, <1>2, DropFits DEF Drop, Sp
<1> QED BY <1>1, <1>3

\* The value on top is a number of Width bits.
LEMMA TopFits ==
    ASSUME IInv, status = "running", Sp >= 1
    PROVE  Fits(Top)
<1>1. StackFits(stack) /\ Sp \in Nat
    BY Running
<1> QED BY <1>1 DEF StackFits, Top, Sp

LEMMA StoreKeeps == IInv /\ Store => IInv'
<1> SUFFICES ASSUME IInv, Store PROVE IInv'
    OBVIOUS
<1>1. Fetch({STORE})
    BY DEF Store
<1>2. /\ At(code, pc) = STORE /\ status = "running" /\ DepthOK(code, pc, Depth)
      /\ FallsThrough(STORE) => Meets(code, After(code, pc), Depth + Delta(STORE))
    BY <1>1, Fetched
<1>3. /\ At(code, pc) \in WithOperand /\ Takes(STORE) = 1 /\ Delta(STORE) = -1 /\ FallsThrough(STORE)
    BY <1>2, DeltaTable DEF WithOperand
<1>4. Here /\ Arg \in Nat /\ After(code, pc) = pc + 2 /\ Arg < Locals
    BY <1>1, <1>2, <1>3, OperandThere
<1>5. Depth >= 1 /\ Meets(code, pc + 2, Depth - 1) /\ Sp >= 1
    <2>1. Depth \in Nat /\ Sp = Base + Depth /\ Base \in Nat
        BY <1>2, Running
    <2>2. Depth >= 1 /\ Meets(code, pc + 2, Depth + (-1))
        BY <1>2, <1>3, <1>4 DEF DepthOK
    <2>3. Depth + (-1) = Depth - 1
        BY <2>1
    <2> QED BY <2>1, <2>2, <2>3
<1>6. /\ locals' = [locals EXCEPT ![Arg] = Top] /\ stack' = Drop(1) /\ pc' = pc + 2
      /\ status' = status /\ frames' = frames
    <2>1. ~ (~Here \/ Sp = 0 \/ Arg >= Locals)
        BY <1>4, <1>5, VmAssumption, Running, <1>2
    <2> QED BY <2>1 DEF Store, Go, Silent
<1>7. LocalsFit(locals')
    <2>1. Arg \in 0..Locals-1 /\ LocalsFit(locals) /\ Fits(Top)
        BY <1>2, <1>4, <1>5, VmAssumption, Running, TopFits
    <2>2. Top \in Int
        BY <2>1 DEF Fits
    <2> QED BY <1>6, <2>1, <2>2 DEF LocalsFit
<1> QED BY <1>1, <1>2, <1>5, <1>6, <1>7, Dropped, LocalStep

LEMMA ArithmeticKeeps == IInv /\ Arithmetic => IInv'
<1> SUFFICES ASSUME IInv, Arithmetic PROVE IInv'
    OBVIOUS
<1>1. Fetch(Binary)
    BY DEF Arithmetic
<1> DEFINE op == At(code, pc)
<1>2. /\ op \in Binary /\ status = "running" /\ DepthOK(code, pc, Depth) /\ After(code, pc) = pc + 1
      /\ FallsThrough(op) => Meets(code, After(code, pc), Depth + Delta(op))
      /\ steps' \in 0..MaxSteps /\ code' = code /\ depths' = depths
    BY <1>1, Fetched DEF Bare, After
<1>3. Takes(op) = 2 /\ Delta(op) = -1 /\ FallsThrough(op)
    BY <1>2, DeltaTable
<1>4. /\ Depth \in Nat /\ Sp = Base + Depth /\ Base \in Nat /\ Sp \in Nat /\ Sp <= StackSize
      /\ StackSize \in Nat /\ StackFits(stack) /\ LocalsFit(locals)
    BY <1>2, Running
<1>5. Depth >= 2 /\ Meets(code, pc + 1, Depth - 1) /\ Sp >= 2
    <2>1. Depth >= 2 /\ Meets(code, pc + 1, Depth + (-1))
        BY <1>2, <1>3 DEF DepthOK
    <2>2. Depth + (-1) = Depth - 1
        BY <1>4
    <2> QED BY <1>4, <2>1, <2>2
<1>6. CASE op = DIV /\ Top = 0
    <2>1. status' = "divide-by-zero" /\ UNCHANGED machine
        BY <1>4, <1>5, <1>6 DEF Arithmetic, Trap
    <2> QED BY <1>2, <2>1, StopKeeps DEF Traps
<1>7. CASE ~ (op = DIV /\ Top = 0)
    <2> DEFINE x == Apply(op, stack[Sp-1], Top)
    <2>1. /\ stack' = Append(Drop(2), x) /\ pc' = pc + 1 /\ status' = status
          /\ locals' = locals /\ frames' = frames
        BY <1>4, <1>5, <1>7 DEF Arithmetic, Go, Silent
    <2>2. stack[Sp-1] \in Int /\ Top \in Int
        BY <1>4, <1>5 DEF StackFits, Top, Sp
    <2>3. Fits(x)
        BY <1>2, <1>7, <2>2, ApplyFits
    <2> HIDE DEF x
    <2>4. StackFits(Drop(2)) /\ Len(Drop(2)) = Sp - 2
        BY <1>4, <1>5, DropFits DEF Drop, Sp
    <2>5. StackFits(stack') /\ Len(stack') = Sp - 2 + 1
        BY <2>1, <2>3, <2>4, PushFits
    <2>6. Depth - 1 \in Int /\ Depth - 1 >= 0 /\ Len(stack') = Base + (Depth - 1) /\ Len(stack') <= StackSize
        BY <1>4, <1>5, <2>5
    <2> QED BY <1>1, <1>4, <1>5, <2>1, <2>5, <2>6, LocalStep
<1> QED BY <1>6, <1>7

LEMMA CallKeeps == IInv /\ Call => IInv'
<1> SUFFICES ASSUME IInv, Call PROVE IInv'
    OBVIOUS
<1>1. Fetch({CALL})
    BY DEF Call
<1>2. /\ At(code, pc) = CALL /\ status = "running" /\ pc \in Nat
      /\ FallsThrough(CALL) => Meets(code, After(code, pc), Depth + Delta(CALL))
      /\ Arg \in 0..Len(code)-1 /\ Meets(code, Arg, 0)
      /\ steps' \in 0..MaxSteps /\ code' = code /\ depths' = depths
    BY <1>1, Fetched DEF Targeted
<1>3. At(code, pc) \in WithOperand /\ Delta(CALL) = 1 /\ FallsThrough(CALL)
    BY <1>2, DeltaTable DEF WithOperand
<1>4. Here /\ Arg \in Nat /\ After(code, pc) = pc + 2
    BY <1>1, <1>2, <1>3, OperandThere
<1>5. /\ Depth \in Nat /\ Sp = Base + Depth /\ Base \in Nat /\ Sp \in Nat /\ Sp <= StackSize
      /\ StackSize \in Nat /\ StackFits(stack) /\ LocalsFit(locals) /\ FramesFit(code, frames)
      /\ Len(frames) \in Nat /\ Base = BaseOf(frames, Len(frames)) /\ code \in Seq(Nat)
    BY <1>2, Running
<1>6. CASE Len(frames) >= FrameSize
    <2>1. status' = "call-frame" /\ UNCHANGED machine
        BY <1>6 DEF Call, Trap
    <2> QED BY <1>2, <2>1, StopKeeps DEF Traps
<1>7. CASE Len(frames) < FrameSize
    <2> DEFINE f == [ret |-> pc + 2, base |-> Sp, locals |-> locals]
    <2>1. /\ frames' = Append(frames, f) /\ locals' = ZeroLocals /\ pc' = Arg
          /\ stack' = stack /\ status' = status
        <3>1. ~ (Arg >= Len(code))
            <4>1. Len(code) \in Nat /\ Arg \in 0..Len(code)-1
                BY <1>2, <1>5
            <4> QED BY <4>1
        <3>2. ~ (Len(frames) >= FrameSize)
            BY <1>5, <1>7, VmAssumption
        <3> QED BY <1>4, <3>1, <3>2 DEF Call, Go, Silent
    <2>2. f \in Frame /\ f.locals = locals /\ f.base = Sp /\ f.ret = pc + 2
        BY <1>2, <1>5 DEF Frame, LocalsFit
    <2>3. Meets(code, f.ret, f.base + 1 - Base)
        <3>1. f.base + 1 - Base = Depth + 1
            BY <1>5, <2>2
        <3> QED BY <1>2, <1>3, <1>4, <2>2, <3>1
    <2>4. /\ FramesFit(code, frames') /\ Len(frames') = Len(frames) + 1
          /\ BaseOf(frames', Len(frames) + 1) = Sp
        <3>1. BaseOf(frames, Len(frames)) <= f.base
            BY <1>5, <2>2
        <3> HIDE DEF f
        <3> QED BY <1>5, <1>7, <2>1, <2>2, <2>3, <3>1, FramePush
    <2>5. LocalsFit(ZeroLocals)
        BY TruthFits DEF LocalsFit, ZeroLocals
    <2>6. Meets(code, pc', Len(stack') - BaseOf(frames', Len(frames')))
        <3>1. Len(stack') - BaseOf(frames', Len(frames')) = 0
            BY <1>5, <2>1, <2>4 DEF Sp
        <3> QED BY <1>2, <2>1, <3>1
    <2>7. Placed(code, pc', stack', locals', frames')
        BY <1>5, <2>1, <2>4, <2>5, <2>6 DEF Placed, Sp
    <2> QED BY <1>2, <2>1, <2>7, StepKeeps
<1> QED BY <1>5, <1>6, <1>7, VmAssumption

LEMMA ReturnKeeps == IInv /\ Return => IInv'
<1> SUFFICES ASSUME IInv, Return PROVE IInv'
    OBVIOUS
<1>1. Fetch({RET})
    BY DEF Return
<1>2. /\ At(code, pc) = RET /\ status = "running" /\ DepthOK(code, pc, Depth)
      /\ steps' \in 0..MaxSteps /\ code' = code /\ depths' = depths
    BY <1>1, Fetched
<1>3. /\ Depth \in Nat /\ Sp = Base + Depth /\ Base \in Nat /\ Sp \in Nat /\ Sp <= StackSize
      /\ StackFits(stack) /\ LocalsFit(locals) /\ FramesFit(code, frames)
      /\ Len(frames) \in Nat /\ Base = BaseOf(frames, Len(frames))
    BY <1>2, Running
<1>4. Depth = 1 /\ Sp = Base + 1
    BY <1>2, <1>3 DEF DepthOK
<1>5. CASE Len(frames) = 0
    <2>1. status' = "return-frame" /\ UNCHANGED machine
        BY <1>5 DEF Return, Trap
    <2>2. frames = <<>>
        BY <1>3, <1>5 DEF FramesFit
    <2> QED BY <1>2, <2>1, <2>2, StopKeeps DEF Traps
<1>6. CASE Len(frames) # 0
    <2> DEFINE n == Len(frames)
    <2>1. n \in 1..n /\ n - 1 \in Nat
        BY <1>3, <1>6
    <2>2. Base = frames[n].base
        BY <1>3, <1>6 DEF BaseOf
    <2>3. /\ frames' = SubSeq(frames, 1, n - 1) /\ locals' = frames[n].locals /\ pc' = frames[n].ret
          /\ stack' = stack /\ status' = status
        <3>1. Sp = frames[n].base + 1
            BY <1>4, <2>2
        <3> QED BY <1>6, <3>1 DEF Return, Go, Silent
    <2>4. /\ LocalsFit(locals') /\ BaseOf(frames, n-1) <= frames[n].base
          /\ Meets(code, pc', frames[n].base + 1 - BaseOf(frames, n-1))
        BY <1>3, <2>1, <2>3 DEF FramesFit
    <2>5. /\ FramesFit(code, frames') /\ Len(frames') = n - 1
          /\ BaseOf(frames', n - 1) = BaseOf(frames, n - 1)
        BY <1>3, <1>6, <2>3, FramePop
    <2>6. BaseOf(frames, n-1) \in Nat
        <3>1. n - 1 = 0 \/ n - 1 \in 1..n
            <4>1. n \in Nat /\ n # 0
                BY <1>3, <1>6
            <4> HIDE DEF n
            <4> QED BY <4>1
        <3>2. frames \in Seq(Frame)
            BY <1>3 DEF FramesFit
        <3>3. n - 1 \in 1..n => frames[n-1] \in Frame
            BY <3>2
        <3> QED BY <3>1, <3>3 DEF BaseOf, Frame
    <2>7. Len(stack') = frames[n].base + 1 /\ frames[n].base \in Nat
        BY <1>3, <1>4, <2>2, <2>3 DEF Sp
    <2>8. BaseOf(frames', Len(frames')) = BaseOf(frames, n-1)
        BY <2>5
    <2>9. BaseOf(frames', Len(frames')) <= Len(stack')
        BY <2>4, <2>6, <2>7, <2>8
    <2>10. Meets(code, pc', Len(stack') - BaseOf(frames', Len(frames')))
        <3>1. Len(stack') - BaseOf(frames', Len(frames')) = frames[n].base + 1 - BaseOf(frames, n-1)
            BY <2>6, <2>7, <2>8
        <3> QED BY <2>4, <3>1
    <2>11. StackFits(stack') /\ Len(stack') <= StackSize
        BY <1>3, <2>3 DEF Sp
    <2>12. Placed(code, pc', stack', locals', frames')
        BY <2>4, <2>5, <2>9, <2>10, <2>11 DEF Placed
    <2> QED BY <1>2, <2>3, <2>12, StepKeeps
<1> QED BY <1>5, <1>6

\* A jump, or a conditional one that pops its condition: control stays in the frame.
LEMMA JumpKeeps == IInv /\ Jump => IInv'
<1> SUFFICES ASSUME IInv, Jump PROVE IInv'
    OBVIOUS
<1>1. Fetch({JMP})
    BY DEF Jump
<1>2. /\ At(code, pc) = JMP /\ status = "running"
      /\ Arg \in 0..Len(code)-1 /\ Meets(code, Arg, Depth + Delta(JMP))
    BY <1>1, Fetched DEF Targeted
<1>3. /\ At(code, pc) \in WithOperand /\ Delta(JMP) = 0
    BY <1>2, DeltaTable DEF WithOperand
<1>4. Here
    BY <1>1, <1>3, OperandThere
<1>5. /\ Depth \in Nat /\ Sp = Base + Depth /\ Sp <= StackSize /\ StackFits(stack) /\ LocalsFit(locals)
      /\ code \in Seq(Nat) /\ Len(code) \in Nat
    BY <1>2, Running
<1>6. ~ (Arg >= Len(code)) /\ Depth + 0 = Depth
    BY <1>2, <1>5
<1>7. pc' = Arg /\ UNCHANGED <<stack, locals, frames, status>>
    BY <1>4, <1>6 DEF Jump, Go, Silent
<1>8. Meets(code, pc', Depth) /\ Len(stack') = Base + Depth /\ Len(stack') <= StackSize
    BY <1>2, <1>3, <1>5, <1>6, <1>7 DEF Sp
<1> QED BY <1>1, <1>5, <1>7, <1>8, LocalStep

\* One value popped, and control to a place of the table at the depth below.
LEMMA PopStep ==
    ASSUME IInv, NEW ops, Fetch(ops), At(code, pc) \in {JZ, PRINT, POP}, status' = status,
           stack' = Drop(1), locals' = locals, frames' = frames,
           pc' = After(code, pc) \/ (At(code, pc) = JZ /\ pc' = Arg)
    PROVE  IInv'
<1>1. /\ status = "running" /\ DepthOK(code, pc, Depth)
      /\ FallsThrough(At(code, pc)) => Meets(code, After(code, pc), Depth + Delta(At(code, pc)))
      /\ At(code, pc) \in {JMP, JZ} => Meets(code, Arg, Depth + Delta(At(code, pc)))
    BY Fetched
<1>2. Takes(At(code, pc)) = 1 /\ Delta(At(code, pc)) = -1 /\ FallsThrough(At(code, pc))
    BY DeltaTable
<1>3. Depth \in Nat /\ LocalsFit(locals)
    BY <1>1, Running
<1>4. Depth >= 1 /\ Depth + (-1) = Depth - 1
    BY <1>1, <1>2, <1>3 DEF DepthOK
<1>5. Meets(code, pc', Depth - 1)
    BY <1>1, <1>2, <1>4
<1> QED BY <1>1, <1>3, <1>4, <1>5, Dropped, LocalStep

\* Where an instruction that pops is, a value is.
LEMMA ValueThere ==
    ASSUME IInv, NEW ops, Fetch(ops), At(code, pc) \in {JZ, PRINT, POP}
    PROVE  Sp # 0 /\ status = "running"
<1>1. status = "running" /\ DepthOK(code, pc, Depth)
    BY Fetched
<1>2. Depth \in Nat /\ Base \in Nat /\ Sp = Base + Depth
    BY <1>1, Running
<1>3. Depth >= 1
    BY <1>1, DeltaTable DEF DepthOK
<1> QED BY <1>1, <1>2, <1>3

LEMMA BranchKeeps == IInv /\ Branch => IInv'
<1> SUFFICES ASSUME IInv, Branch PROVE IInv'
    OBVIOUS
<1>1. Fetch({JZ})
    BY DEF Branch
<1>2. At(code, pc) = JZ /\ Arg \in 0..Len(code)-1 /\ Sp # 0 /\ status = "running"
    BY <1>1, Fetched, ValueThere DEF Targeted
<1>3. Here /\ After(code, pc) = pc + 2
    BY <1>1, <1>2, OperandThere DEF WithOperand
<1>4. ~ (Arg >= Len(code))
    <2>1. Len(code) \in Nat
        BY <1>2, Running
    <2> QED BY <1>2, <2>1
<1>5. /\ stack' = Drop(1) /\ pc' = IF Top = 0 THEN Arg ELSE pc + 2
      /\ UNCHANGED <<locals, frames, status>>
    BY <1>2, <1>3, <1>4 DEF Branch, Go, Silent
<1> QED BY <1>1, <1>2, <1>3, <1>5, PopStep

LEMMA PopKeeps == IInv /\ (PrintInt \/ Pop) => IInv'
<1> SUFFICES ASSUME IInv, PrintInt \/ Pop PROVE IInv'
    OBVIOUS
<1>1. CASE PrintInt
    <2>1. Fetch({PRINT})
        BY <1>1 DEF PrintInt
    <2>2. At(code, pc) = PRINT /\ Sp # 0
        BY <2>1, Fetched, ValueThere
    <2>3. After(code, pc) = pc + 1
        BY <2>2 DEF After, Bare
    <2>4. stack' = Drop(1) /\ pc' = pc + 1 /\ UNCHANGED <<locals, frames, status>>
        BY <1>1, <2>2 DEF PrintInt, Go
    <2> QED BY <2>1, <2>2, <2>3, <2>4, PopStep
<1>2. CASE Pop
    <2>1. Fetch({POP})
        BY <1>2 DEF Pop
    <2>2. At(code, pc) = POP /\ Sp # 0
        BY <2>1, Fetched, ValueThere
    <2>3. After(code, pc) = pc + 1
        BY <2>2 DEF After, Bare
    <2>4. stack' = Drop(1) /\ pc' = pc + 1 /\ UNCHANGED <<locals, frames, status>>
        BY <1>2, <2>2 DEF Pop, Go, Silent
    <2> QED BY <2>1, <2>2, <2>3, <2>4, PopStep
<1> QED BY <1>1, <1>2

LEMMA EffectKeeps == IInv /\ Effect => IInv'
<1> SUFFICES ASSUME IInv, Effect PROVE IInv'
    OBVIOUS
<1>1. Fetch({GPIO, SLEEP, WRITE})
    BY DEF Effect
<1>2. /\ At(code, pc) \in {GPIO, SLEEP, WRITE} /\ status = "running" /\ Decodes(code, pc)
      /\ FallsThrough(At(code, pc)) => Meets(code, After(code, pc), Depth + Delta(At(code, pc)))
      /\ After(code, pc) \in Nat
    BY <1>1, Fetched
<1>3. At(code, pc) # GPIO => Here /\ ~ (After(code, pc) > Len(code))
    <2> SUFFICES ASSUME At(code, pc) # GPIO PROVE Here /\ ~ (After(code, pc) > Len(code))
        OBVIOUS
    <2>1. At(code, pc) \notin Bare
        BY <1>2, WriteOp, OperandOps DEF WithOperand
    <2>2. pc + 1 < Len(code) /\ After(code, pc) <= Len(code)
        BY <1>2, <2>1 DEF Decodes
    <2>3. Len(code) \in Nat
        BY <1>2, Running
    <2> QED BY <1>2, <2>2, <2>3 DEF Here
<1>4. pc' = After(code, pc) /\ UNCHANGED <<stack, locals, frames, status>>
    BY <1>3 DEF Effect, Go
<1>5. Delta(At(code, pc)) = 0 /\ FallsThrough(At(code, pc))
    BY <1>2, DeltaTable
<1>6. /\ Depth \in Nat /\ Sp = Base + Depth /\ Sp <= StackSize /\ StackFits(stack) /\ LocalsFit(locals)
    BY <1>2, Running
<1>7. Depth + 0 = Depth
    BY <1>6
<1>8. Meets(code, pc', Depth) /\ Len(stack') = Base + Depth /\ Len(stack') <= StackSize
    BY <1>2, <1>4, <1>5, <1>6, <1>7 DEF Sp
<1> QED BY <1>1, <1>4, <1>6, <1>8, LocalStep

LEMMA HaltKeeps == IInv /\ (Halt \/ PcOutOfRange) => IInv'
<1> SUFFICES ASSUME IInv, Halt \/ PcOutOfRange PROVE IInv'
    OBVIOUS
<1>1. CASE Halt
    <2> DEFINE ops == (0..255) \ (Binary \union WithOperand \union {RET, GPIO, PRINT, POP, WRITE})
    <2>1. Fetch(ops)
        BY <1>1 DEF Halt
    <2>2. /\ At(code, pc) \in ops /\ status = "running" /\ Decodes(code, pc)
          /\ steps' \in 0..MaxSteps /\ code' = code /\ depths' = depths
        BY <2>1, Fetched
    <2>3. At(code, pc) \in DemoOps \union {HALT}
        BY <2>2 DEF Decodes, Bare
    <2>4. status' = (IF At(code, pc) = HALT THEN "exited" ELSE "invalid-opcode") /\ UNCHANGED machine
        BY <1>1 DEF Halt
    <2> QED BY <2>2, <2>3, <2>4, StopKeeps DEF Traps
<1>2. CASE PcOutOfRange
    <2>1. /\ status = "running" /\ status' = "pc-out-of-range" /\ UNCHANGED machine
          /\ code' = code /\ depths' = depths /\ steps' = steps
        BY <1>2 DEF PcOutOfRange, Trap
    <2>2. steps' \in 0..MaxSteps
        BY <2>1 DEF IInv
    <2> QED BY <2>1, <2>2, StopKeeps DEF Traps
<1> QED BY <1>1, <1>2
-----------------------------------------------------------------------------
(* The theorem.                                                            *)

LEMMA StartPlaced ==
    ASSUME NEW c \in Seq(Nat), bytecode_verify(c)
    PROVE  Placed(c, 0, <<>>, ZeroLocals, <<>>)
<1>1. StackFits(<<>>) /\ Len(<<>>) = 0 /\ 0 <= StackSize /\ 0 <= FrameSize
    BY VmAssumption DEF StackFits
<1>2. LocalsFit(ZeroLocals)
    BY TruthFits DEF LocalsFit, ZeroLocals
<1>3. FramesFit(c, <<>>) /\ BaseOf(<<>>, Len(<<>>)) = 0
    BY <1>1 DEF FramesFit, BaseOf
<1>4. Meets(c, 0, Len(<<>>) - BaseOf(<<>>, Len(<<>>)))
    BY <1>1, <1>3, VerifiedStart
<1> QED BY <1>1, <1>2, <1>3, <1>4 DEF Placed

LEMMA LoadKeeps == IInv /\ Load => IInv'
<1> SUFFICES ASSUME IInv, Load PROVE IInv'
    OBVIOUS
<1>1. /\ status = "loaded" /\ code' = code /\ code \in Seq(Nat) /\ steps' = steps /\ steps \in 0..MaxSteps
      /\ UNCHANGED <<pc, stack, locals, frames>>
      /\ pc = 0 /\ stack = <<>> /\ locals = ZeroLocals /\ frames = <<>>
    BY DEF Load, machine, IInv, Idle
<1>2. CASE bytecode_verify(code)
    <2>1. status' = "running" /\ depths' = Depths(code, Boundaries(code))
        BY <1>2 DEF Load
    <2>2. Placed(code, 0, <<>>, ZeroLocals, <<>>)
        BY <1>1, <1>2, StartPlaced
    <2> QED BY <1>1, <1>2, <2>1, <2>2 DEF IInv, VerifiedRunsClean, Idle
<1>3. CASE ~ bytecode_verify(code)
    <2>1. status' = "rejected"
        BY <1>3 DEF Load
    <2> QED BY <1>1, <2>1 DEF IInv, VerifiedRunsClean, Idle
<1> QED BY <1>2, <1>3

LEMMA Inductive ==
    /\ VmInit /\ status = "loaded" /\ code \in Seq(Nat) => IInv
    /\ IInv /\ [Load \/ VmStep]_<<code, machine, out, status, steps, depths>> => IInv'
<1>1. VmInit /\ status = "loaded" /\ code \in Seq(Nat) => IInv
    BY VmAssumption DEF VmInit, IInv, VerifiedRunsClean, Idle
<1>2. IInv /\ UNCHANGED <<code, machine, out, status, steps, depths>> => IInv'
    BY DEF IInv, VerifiedRunsClean, machine
<1>3. IInv /\ VmStep => IInv'
    BY PushKeeps, StoreKeeps, ArithmeticKeeps, CallKeeps, ReturnKeeps, JumpKeeps, BranchKeeps,
       PopKeeps, EffectKeeps, HaltKeeps DEF VmStep
<1> QED BY <1>1, <1>2, <1>3, LoadKeeps

LEMMA Consequences == IInv => MachineSound
<1> SUFFICES ASSUME IInv PROVE MachineSound
    OBVIOUS
<1>1. CASE status \in Idle
    <2>1. pc = 0 /\ stack = <<>> /\ locals = ZeroLocals /\ frames = <<>> /\ code \in Seq(Nat)
        BY <1>1 DEF IInv
    <2>2. Sp = 0 /\ Len(frames) = 0 /\ locals \in [0..Locals-1 -> Int] /\ pc \in 0..Len(code)
        BY <2>1 DEF Sp, ZeroLocals
    <2>3. TypeOK
        BY <2>2, VmAssumption DEF TypeOK, IInv
    <2>4. status # "running"
        BY <1>1 DEF Idle
    <2> QED BY <2>3, <2>4 DEF MachineSound, DepthAsVerified, IInv
<1>2. CASE status \notin Idle
    <2>1. Placed(code, pc, stack, locals, frames)
        BY <1>2 DEF IInv
    <2>2. TypeOK
        BY <2>1 DEF Placed, TypeOK, StackFits, LocalsFit, FramesFit, Meets, Fits, Sp, IInv
    <2>3. DepthAsVerified
        BY Running DEF DepthAsVerified, Meets, Depth
    <2> QED BY <2>2, <2>3 DEF MachineSound, IInv
<1> QED BY <1>1, <1>2

\* The verifier is sound: whatever cells the slot holds and whatever the sizes, code that
\* bytecode_verify accepts runs at the depths it computed, inside the fixed arrays of
\* task_vm, and traps only for the reasons it leaves open.
THEOREM VerifierSound == VmSpec => []MachineSound
BY Inductive, Consequences, PTL DEF VmSpec
====
