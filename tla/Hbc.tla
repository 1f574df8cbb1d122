---- MODULE Hbc ----
(***************************************************************************)
(* HBC, the bytecode of Hala-C, and bytecode_verify (halaos_runtime.c).    *)
(* A program is a sequence of cells: an opcode, or an operand.  Operands   *)
(* of two and four bytes are one cell here, so addresses count cells; a    *)
(* jump into an operand, and an operand that looks like an opcode, remain. *)
(***************************************************************************)
EXTENDS Integers, Sequences

CONSTANTS StackSize, FrameSize, Locals      \* 16, 4, 8

PUSH == 1  LOAD == 2  STORE == 3  ADD == 4  SUB == 5  MUL == 6  DIV == 7
LT == 8  LE == 9  GT == 10  GE == 11  EQ == 12  NE == 13
CALL == 14  RET == 15  GPIO == 16  SLEEP == 17  JMP == 18  JZ == 19
PRINT == 20  POP == 21  WRITE == 32  HALT == 255
Binary == ADD..NE
DemoOps == 48..53
Bare == Binary \union DemoOps \union {RET, GPIO, PRINT, POP, HALT}
WithOperand == {PUSH, LOAD, STORE, CALL, SLEEP, JMP, JZ}
Targeted == {CALL, JMP, JZ}

At(code, pc) == code[pc + 1]
Operand(code, pc) == code[pc + 2]

\* The address after the instruction at pc.
After(code, pc) ==
    IF At(code, pc) \in Bare THEN pc + 1
    ELSE IF At(code, pc) = WRITE THEN pc + 2 + Operand(code, pc)
    ELSE pc + 2

\* Pass 1 on one instruction: it is known, its operands are there, a local exists.
Decodes(code, pc) ==
    \/ At(code, pc) \in Bare
    \/ /\ At(code, pc) \in WithOperand \union {WRITE} /\ pc + 1 < Len(code)
       /\ At(code, pc) \in {LOAD, STORE} => Operand(code, pc) < Locals
       /\ After(code, pc) <= Len(code)

\* The addresses at which the linear scan finds an instruction.
Boundaries(code) ==
    LET scan[pc \in 0..Len(code)] ==
            IF pc = Len(code) THEN {}
            ELSE {pc} \union (IF Decodes(code, pc) THEN scan[After(code, pc)] ELSE {})
    IN  scan[0]

\* Pass 3 on one instruction: operands it takes, and what it does to the depth.
Takes(op) ==
    IF op \in Binary THEN 2 ELSE IF op \in {STORE, JZ, PRINT, POP, RET} THEN 1 ELSE 0

Delta(op) ==
    IF op \in {PUSH, LOAD, CALL} THEN 1
    ELSE IF op \in Binary \union {STORE, JZ, PRINT, POP} THEN -1 ELSE 0

FallsThrough(op) == op \notin {RET, JMP, HALT}

\* Mutant: the depth after a return is not looked at.
DepthOK_anyret(code, pc, d) ==
    /\ d >= Takes(At(code, pc)) /\ d + Delta(At(code, pc)) \in 0..StackSize

DepthOK(code, pc, d) ==
    /\ d >= Takes(At(code, pc)) /\ d + Delta(At(code, pc)) \in 0..StackSize
    /\ At(code, pc) = RET => d = 1

\* Where control goes from pc with depth d.
Follow(code, pc, d) ==
    LET op == At(code, pc)  e == d + Delta(op) IN
    (IF op \in {JMP, JZ} THEN {<<Operand(code, pc), e>>} ELSE {}) \union
    (IF FallsThrough(op) /\ After(code, pc) < Len(code) THEN {<<After(code, pc), e>>} ELSE {})

\* Address 0 and every callee start at depth 0.
Entries(code, B) ==
    {<<0, 0>>} \union {<<Operand(code, pc), 0>> : pc \in {p \in B : At(code, p) = CALL}}

\* The worklist of pass 3.  Each round processes what the one before has found;
\* more rounds than addresses give some address two depths.
Depths(code, B) ==
    LET round[k \in 0..Len(code)+1] ==
            IF k = 0 THEN [done |-> {}, todo |-> Entries(code, B)]
            ELSE LET prev == round[k-1]
                     good == {x \in prev.todo : DepthOK(code, x[1], x[2])}
                     done == prev.done \union prev.todo
                 IN  [done |-> done,
                      todo |-> UNION {Follow(code, x[1], x[2]) : x \in good} \ done]
    IN  round[Len(code) + 1].done

\* The table of depths is accepted: it is complete, every address has one depth
\* and every instruction finds the operands it takes.
Accepts(code, B, D) ==
    /\ Entries(code, B) \subseteq D
    /\ \A x \in D : DepthOK(code, x[1], x[2]) /\ Follow(code, x[1], x[2]) \subseteq D
    /\ \A x, y \in D : x[1] = y[1] => x[2] = y[2]

\* Passes 1 and 2 on the addresses of the scan.
Sound(code, B) ==
    \A pc \in B : /\ Decodes(code, pc)
                  /\ At(code, pc) \in Targeted => Operand(code, pc) \in B

bytecode_verify(code) ==
    /\ code # <<>>
    /\ LET B == Boundaries(code)
       IN  Sound(code, B) /\ Accepts(code, B, Depths(code, B))
====
