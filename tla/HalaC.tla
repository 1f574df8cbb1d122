---- MODULE HalaC ----
(***************************************************************************)
(* What a Hala-C program means, apart from how it is compiled: statements  *)
(* run in order on the locals of their function, expressions are numbers   *)
(* of Width bits, a body that ends without return returns 0.  Programs are *)
(* trees; Tokens writes them down.  The outcome is what the machine is to  *)
(* print, and how it is to stop.                                           *)
(***************************************************************************)
EXTENDS HbcVm, HalaCompiler

CONSTANT Fuel       \* bound: statements and calls of one evaluation

\* An expression is <<"num", n>>, <<"var", x>>, <<"neg", e>>, <<"call", f>>,
\* <<"par", e>> or <<"op", kind, e1, e2>>.
RECURSIVE ExprTokens(_), BlockTokens(_)
ExprTokens(e) ==
    CASE e[1] = "num" -> <<Token("NUM", e[2])>>
      [] e[1] = "var" -> <<Token("IDENT", e[2])>>
      [] e[1] = "neg" -> <<T("-"), T("(")>> \o ExprTokens(e[2]) \o <<T(")")>>
      [] e[1] = "call" -> <<Token("IDENT", e[2]), T("("), T(")")>>
      [] e[1] = "op" -> ExprTokens(e[3]) \o <<T(e[2])>> \o ExprTokens(e[4])
      [] e[1] = "par" -> <<T("(")>> \o ExprTokens(e[2]) \o <<T(")")>>

StatementTokens(s) ==
    CASE s[1] = "int" -> <<T("INT"), Token("IDENT", s[2]), T("=")>> \o ExprTokens(s[3]) \o <<T(";")>>
      [] s[1] = "set" -> <<Token("IDENT", s[2]), T("=")>> \o ExprTokens(s[3]) \o <<T(";")>>
      [] s[1] = "print" -> <<T("PRINT"), T("(")>> \o ExprTokens(s[2]) \o <<T(")"), T(";")>>
      [] s[1] = "return" -> <<T("RETURN")>> \o ExprTokens(s[2]) \o <<T(";")>>
      [] s[1] = "do" -> <<Token("IDENT", s[2]), T("("), T(")"), T(";")>>
      [] s[1] = "sleep" -> <<T("SLEEP"), T("("), Token("NUM", s[2]), T(")"), T(";")>>
      [] s[1] = "gpio" -> <<T("GPIO"), T("("), T(")"), T(";")>>
      [] s[1] = "write" -> <<T("WRITE"), T("("), Token("NUM", 1), T(","), Token("STR", s[2]),
                             T(")"), T(";")>>
      [] s[1] = "if" -> <<T("IF"), T("(")>> \o ExprTokens(s[2]) \o <<T(")")>> \o BlockTokens(s[3])
      [] s[1] = "ifelse" -> <<T("IF"), T("(")>> \o ExprTokens(s[2]) \o <<T(")")>> \o BlockTokens(s[3])
                            \o <<T("ELSE")>> \o BlockTokens(s[4])
      [] s[1] = "while" -> <<T("WHILE"), T("(")>> \o ExprTokens(s[2]) \o <<T(")")>> \o BlockTokens(s[3])
BlockTokens(b) == <<T("{")>> \o FlattenSeq([i \in 1..Len(b) |-> StatementTokens(b[i])]) \o <<T("}")>>

\* A program is a sequence of <<name, body>>.
Tokens(program) ==
    FlattenSeq([i \in 1..Len(program) |->
        <<T("INT"), Token("IDENT", program[i][1]), T("("), T(")")>> \o BlockTokens(program[i][2])])
    \o <<T("EOF")>>
-----------------------------------------------------------------------------
(* Evaluation.  E is the state: variables, output, how it stopped ("" while *)
(* it goes on), whether the function has returned, and the fuel left.      *)

Stop(E, reason) == [E EXCEPT !.stop = reason]
Halted(E) == E.stop # "" \/ E.returned
Body(program, name) == program[CHOOSE i \in 1..Len(program) : program[i][1] = name][2]

RECURSIVE Eval(_, _, _), Exec(_, _, _), ExecAll(_, _, _)

\* A call of a function at nesting depth E.depth.
Invoke(program, E, name) ==
    IF E.depth >= FrameSize THEN Stop(E, "call-frame")
    ELSE LET R == ExecAll(program, [E EXCEPT !.vars = <<>>, !.depth = @ + 1, !.value = 0],
                          Body(program, name))
         IN  [R EXCEPT !.vars = E.vars, !.depth = E.depth, !.returned = FALSE,
                       !.value = IF R.returned THEN @ ELSE 0]

\* Left, then right.
Eval(program, E, e) ==
    IF E.stop # "" THEN E ELSE
    CASE e[1] = "num" -> [E EXCEPT !.value = e[2]]
      [] e[1] = "var" -> [E EXCEPT !.value = IF e[2] \in DOMAIN E.vars THEN E.vars[e[2]] ELSE 0]
      [] e[1] = "par" -> Eval(program, E, e[2])
      [] e[1] = "neg" -> LET R == Eval(program, E, e[2]) IN [R EXCEPT !.value = Wrap(0 - @)]
      [] e[1] = "call" -> Invoke(program, E, e[2])
      [] e[1] = "op" ->
            LET L == Eval(program, E, e[3])
                R == Eval(program, L, e[4])
            IN  IF R.stop # "" THEN R
                ELSE IF e[2] = "/" /\ R.value = 0 THEN Stop(R, "divide-by-zero")
                ELSE [R EXCEPT !.value = Apply(OpcodeOf(e[2]), L.value, R.value)]

Say(E, what, x) == IF E.stop # "" THEN E ELSE [E EXCEPT !.out = Append(@, <<what, x>>)]

Exec(program, E, s) ==
    IF Halted(E) THEN E ELSE IF E.fuel = 0 THEN Stop(E, "fuel") ELSE
    LET F == [E EXCEPT !.fuel = @ - 1]
        on(e) == Eval(program, F, e)
    IN
    CASE s[1] \in {"int", "set"} ->
            LET R == on(s[3]) IN [R EXCEPT !.vars = (s[2] :> R.value) @@ R.vars]
      [] s[1] = "print" -> LET R == on(s[2]) IN Say(R, "print", R.value)
      [] s[1] = "return" -> [on(s[2]) EXCEPT !.returned = TRUE]
      [] s[1] = "do" -> Invoke(program, F, s[2])
      [] s[1] = "sleep" -> Say(F, "sleep", s[2])
      [] s[1] = "gpio" -> Say(F, "gpio", 0)
      [] s[1] = "write" -> Say(F, "write", Len(s[2]))
      [] s[1] \in {"if", "ifelse"} ->
            LET R == on(s[2]) IN
            IF R.stop # "" THEN R ELSE IF R.value # 0 THEN ExecAll(program, R, s[3])
            ELSE IF s[1] = "if" THEN R ELSE ExecAll(program, R, s[4])
      [] s[1] = "while" ->
            LET R == on(s[2]) IN
            IF R.stop # "" \/ R.value = 0 THEN R
            ELSE Exec(program, ExecAll(program, R, s[3]), s)

ExecAll(program, E, b) ==
    LET run[i \in 0..Len(b)] == IF i = 0 THEN E ELSE Exec(program, run[i-1], b[i])
    IN  run[Len(b)]

\* The program is its function main.
Meaning(program) ==
    LET R == Invoke(program, [vars |-> <<>>, out |-> <<>>, stop |-> "", returned |-> FALSE,
                              value |-> 0, depth |-> 0, fuel |-> Fuel], "main")
    IN  [out |-> R.out, stop |-> IF R.stop = "" THEN "exited" ELSE R.stop]
====
