---- MODULE HbcVm ----
(***************************************************************************)
(* task_vm (halaos_tasks.c): the stack machine that executes HBC.  One     *)
(* action per kind of instruction, each with the checks task_vm makes      *)
(* itself.  Bursts, and what happens to the slot between them, are in      *)
(* AppStore.                                                               *)
(***************************************************************************)
EXTENDS Hbc

CONSTANTS
    Width,      \* bits of an i32 (32)
    MaxSteps    \* bound: g_vm_steps of one run

\* The powers of two are named because the provers do not compute them.
ASSUME VmAssumption ==
    /\ StackSize \in Nat /\ FrameSize \in Nat /\ Locals \in Nat /\ MaxSteps \in Nat
    /\ 2^Width \in Nat /\ 2^(Width-1) \in Nat /\ 2^(Width-1) + 1 < 2^Width

VARIABLES
    code,       \* the program in the slot
    pc, stack, locals, frames,  \* task_vm's pc, operand, locals, and the call frames
    out,        \* history: what it did to the world
    status,     \* what the machine is doing, or why it stopped
    steps,      \* g_vm_steps
    depths      \* history: the table of the verifier

machine == <<pc, stack, locals, frames>>

\* Two's complement.
Wrap(n) == ((n + 2^(Width-1)) % 2^Width) - 2^(Width-1)
Truth(b) == IF b THEN 1 ELSE 0
\* C division, truncated towards zero; the most negative number by -1 is itself.
Quotient(l, r) ==
    LET q == (IF l < 0 THEN -l ELSE l) \div (IF r < 0 THEN -r ELSE r)
    IN  Wrap(IF (l < 0) = (r < 0) THEN q ELSE -q)

Apply(op, l, r) ==
    CASE op = ADD -> Wrap(l + r) [] op = SUB -> Wrap(l - r) [] op = MUL -> Wrap(l * r)
      [] op = DIV -> Quotient(l, r)
      [] op = LT -> Truth(l < r) [] op = LE -> Truth(l <= r)
      [] op = GT -> Truth(l > r) [] op = GE -> Truth(l >= r)
      [] op = EQ -> Truth(l = r) [] op = NE -> Truth(l # r)

ZeroLocals == [i \in 0..Locals-1 |-> 0]
Sp == Len(stack)
Top == stack[Sp]
Drop(n) == SubSeq(stack, 1, Sp - n)

VmInit ==
    /\ pc = 0 /\ depths = {} /\ stack = <<>> /\ locals = ZeroLocals /\ frames = <<>>
    /\ out = <<>> /\ steps = 0

\* app_verify_slot, at the head of task_vm's loop.
Load ==
    /\ status = "loaded"
    /\ IF bytecode_verify(code)
       THEN status' = "running" /\ depths' = Depths(code, Boundaries(code))
       ELSE status' = "rejected" /\ UNCHANGED depths
    /\ UNCHANGED <<code, machine, out, steps>>

\* The instruction at pc is one of ops.
Fetch(ops) ==
    /\ status = "running" /\ steps < MaxSteps /\ pc < Len(code) /\ At(code, pc) \in ops
    /\ steps' = steps + 1 /\ UNCHANGED <<code, depths>>

Trap(reason) == status' = reason /\ UNCHANGED <<machine, out>>
Arg == Operand(code, pc)
Here == pc + 1 < Len(code)         \* the operand of the instruction is there
Go(target) == pc' = target
Silent == UNCHANGED <<out, status>>

PcOutOfRange ==
    /\ status = "running" /\ pc >= Len(code) /\ Trap("pc-out-of-range")
    /\ UNCHANGED <<code, steps, depths>>

Push ==
    /\ Fetch({PUSH, LOAD})
    /\ IF ~Here \/ Sp >= StackSize \/ (At(code, pc) = LOAD /\ Arg >= Locals)
       THEN Trap("push")
       ELSE /\ stack' = Append(stack, IF At(code, pc) = PUSH THEN Wrap(Arg) ELSE locals[Arg])
            /\ Go(pc + 2) /\ Silent /\ UNCHANGED <<locals, frames>>

Store ==
    /\ Fetch({STORE})
    /\ IF ~Here \/ Sp = 0 \/ Arg >= Locals THEN Trap("store-local")
       ELSE /\ locals' = [locals EXCEPT ![Arg] = Top] /\ stack' = Drop(1)
            /\ Go(pc + 2) /\ Silent /\ UNCHANGED frames

Arithmetic ==
    /\ Fetch(Binary)
    /\ IF Sp < 2 THEN Trap("binary-stack")
       ELSE IF At(code, pc) = DIV /\ Top = 0 THEN Trap("divide-by-zero")
       ELSE /\ stack' = Append(Drop(2), Apply(At(code, pc), stack[Sp-1], Top))
            /\ Go(pc + 1) /\ Silent /\ UNCHANGED <<locals, frames>>

Call ==
    /\ Fetch({CALL})
    /\ IF ~Here \/ Len(frames) >= FrameSize THEN Trap("call-frame")
       ELSE IF Arg >= Len(code) THEN Trap("call-target")
       ELSE /\ frames' = Append(frames, [ret |-> pc + 2, base |-> Sp, locals |-> locals])
            /\ locals' = ZeroLocals /\ Go(Arg) /\ Silent /\ UNCHANGED stack

\* task_vm says "return-frame" in both cases; they are told apart here.
Return ==
    /\ Fetch({RET})
    /\ LET fp == Len(frames) IN
       IF fp = 0 THEN Trap("return-frame")
       ELSE IF Sp # frames[fp].base + 1 THEN Trap("return-stack")
       ELSE /\ frames' = SubSeq(frames, 1, fp - 1) /\ locals' = frames[fp].locals
            /\ Go(frames[fp].ret) /\ Silent /\ UNCHANGED stack

Jump ==
    /\ Fetch({JMP})
    /\ IF ~Here \/ Arg >= Len(code) THEN Trap("jump-target")
       ELSE Go(Arg) /\ Silent /\ UNCHANGED <<stack, locals, frames>>

Branch ==
    /\ Fetch({JZ})
    /\ IF ~Here \/ Sp = 0 THEN Trap("branch-stack")
       ELSE IF Top = 0 /\ Arg >= Len(code) THEN Trap("branch-target")
       ELSE /\ stack' = Drop(1) /\ Go(IF Top = 0 THEN Arg ELSE pc + 2)
            /\ Silent /\ UNCHANGED <<locals, frames>>

PrintInt ==
    /\ Fetch({PRINT})
    /\ IF Sp = 0 THEN Trap("print-stack")
       ELSE /\ out' = Append(out, <<"print", Top>>) /\ stack' = Drop(1)
            /\ Go(pc + 1) /\ UNCHANGED <<locals, frames, status>>

Pop ==
    /\ Fetch({POP})
    /\ IF Sp = 0 THEN Trap("pop-stack")
       ELSE stack' = Drop(1) /\ Go(pc + 1) /\ Silent /\ UNCHANGED <<locals, frames>>

\* GPIO, SLEEP and WRITE act on the world and leave the machine alone.
Effect ==
    /\ Fetch({GPIO, SLEEP, WRITE})
    /\ IF At(code, pc) # GPIO /\ (~Here \/ After(code, pc) > Len(code)) THEN Trap("operand")
       ELSE /\ out' = Append(out, IF At(code, pc) = GPIO THEN <<"gpio", 0>>
                                  ELSE IF At(code, pc) = SLEEP THEN <<"sleep", Arg>>
                                  ELSE <<"write", Arg>>)
            /\ Go(After(code, pc)) /\ UNCHANGED <<stack, locals, frames, status>>

\* vm_complete, or an opcode that task_vm does not know: those of the demos, too.
Halt ==
    /\ Fetch((0..255) \ (Binary \union WithOperand \union {RET, GPIO, PRINT, POP, WRITE}))
    /\ status' = IF At(code, pc) = HALT THEN "exited" ELSE "invalid-opcode"
    /\ UNCHANGED <<machine, out>>

VmStep ==
    \/ PcOutOfRange \/ Push \/ Store \/ Arithmetic \/ Call \/ Return \/ Jump \/ Branch
    \/ PrintInt \/ Pop \/ Effect \/ Halt

\* The machine alone, on whatever cells the slot holds.
VmSpec ==
    /\ VmInit /\ status = "loaded" /\ code \in Seq(Nat)
    /\ [][Load \/ VmStep]_<<code, machine, out, status, steps, depths>>
-----------------------------------------------------------------------------
(* Properties.                                                             *)

Idle == {"source", "loaded", "rejected"}
Traps == {"divide-by-zero", "call-frame", "push", "pc-out-of-range", "return-frame",
          "invalid-opcode"}

\* Types and ranges: the fixed arrays of task_vm are never indexed outside.
TypeOK ==
    /\ pc \in 0..Len(code) /\ Sp <= StackSize /\ Len(frames) <= FrameSize
    /\ \A i \in 1..Sp : stack[i] = Wrap(stack[i])
    /\ locals \in [0..Locals-1 -> Int]
    /\ steps \in 0..MaxSteps

Base == IF frames = <<>> THEN 0 ELSE frames[Len(frames)].base

\* The depth the verifier computes for an address is the depth above the frame's
\* base each time the machine gets there, by whichever path and from whichever call.
DepthAsVerified ==
    status = "running" /\ pc < Len(code) => <<pc, Sp - Base>> \in depths

\* Verified code takes no operand that is not there, jumps nowhere but to an
\* instruction, and returns with one value: it traps only for a division by zero, for
\* calls too deep for the frames or, together, for the stack; past its end; on a
\* return that no call has led to; or on the package of a demo.
VerifiedRunsClean ==
    /\ status \in Idle \union Traps \union {"running", "exited"}
    /\ status = "push" => frames # <<>>
    /\ status = "return-frame" => frames = <<>>
    /\ status = "invalid-opcode" => At(code, pc) \in DemoOps

\* What verification buys task_vm: typed, at the depths of the table, without a trap
\* that a check at compile time could have excluded.
MachineSound == TypeOK /\ DepthAsVerified /\ VerifiedRunsClean
====
