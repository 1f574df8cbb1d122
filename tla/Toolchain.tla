---- MODULE Toolchain ----
(***************************************************************************)
(* From source to execution: a program is compiled, verified and executed; *)
(* a sequence of cells, whatever its origin (an older compiler, Flash), is *)
(* verified and executed.                                                  *)
(***************************************************************************)
EXTENDS HalaC

CONSTANTS Programs, Codes

VARIABLES
    program,    \* the source, <<>> when there is none
    error,      \* what the compiler returns
    meant       \* history: the meaning of the source

vars == <<code, machine, out, status, steps, program, error, meant, depths>>

Nothing == [out |-> <<>>, stop |-> ""]

Init ==
    /\ VmInit /\ error = 0
    /\ \/ /\ program \in Programs /\ code = <<>> /\ status = "source"
          /\ meant = Meaning(program)
       \/ /\ program = <<>> /\ code \in Codes /\ status = "loaded" /\ meant = Nothing

\* compile_hala_c for an ordinary application.
Build ==
    /\ status = "source"
    /\ LET R == Compile(Tokens(program)) IN
       /\ code' = R.code /\ error' = R.error
       /\ status' = IF R.error = 0 THEN "loaded" ELSE "rejected"
    /\ UNCHANGED <<machine, out, steps, program, meant, depths>>

Next == Build \/ ((Load \/ VmStep) /\ UNCHANGED <<program, error, meant>>)

Spec == Init /\ [][Next]_vars
-----------------------------------------------------------------------------
(* Properties.                                                             *)

\* A body that can reach its end, and whose last byte is nevertheless that of RET.
LooksReturned(b) ==
    b # <<>> /\ LET s == Last(b) IN
        \/ s[1] = "sleep" /\ s[2] = RET
        \/ s[1] = "if" /\ s[3] # <<>> /\ Last(s[3])[1] = "return"
        \/ s[1] = "ifelse" /\ s[4] # <<>> /\ Last(s[4])[1] = "return"
           /\ ~(s[3] # <<>> /\ Last(s[3])[1] = "return")
FallsOff == \E i \in 1..Len(program) : LooksReturned(program[i][2])

AsMeant ==
    /\ IsPrefix(out, meant.out)
    /\ status \in Traps \union {"exited"} /\ status # "push" =>
          out = meant.out /\ status = meant.stop

\* What a compiled program prints, and how it stops, is what the source says: through
\* precedence, backpatched jumps and calls, frames and the fixed stack.  The
\* exception is a body that only looks as if it returned: hc_function tests its last
\* byte alone, and adds no return.
CompiledAsMeant == program # <<>> /\ ~FallsOff => AsMeant

\* A well-formed program is refused only because a table or the code is full.
RefusedOnlyWhenFull ==
    program # <<>> /\ ~FallsOff /\ status = "rejected" => error \in {-61, -68, -71, -73, -74}
====
