---- MODULE HalaCompiler ----
(***************************************************************************)
(* hala_compiler.c: recursive descent over the tokens of a Hala-C program, *)
(* one cell of HBC after the other, jumps and calls patched when their     *)
(* target is known.  Every hc_ function is an operator from a compiler     *)
(* state to the next.  Lexing, and lines and columns, are left out: a      *)
(* token is its kind, and its name, number or string.                      *)
(***************************************************************************)
EXTENDS Hbc, SequencesExt

CONSTANTS MaxTokens, MaxFunctions, MaxCalls, MaxCode, SleepLimit

Token(kind, value) == [kind |-> kind, value |-> value]
T(kind) == Token(kind, 0)

\* The compiler state; next is the current token, failed the first error code.
Fresh(tokens) ==
    [tokens |-> tokens, next |-> 1, failed |-> 0, code |-> <<>>,
     functions |-> <<>>, locals |-> <<>>, calls |-> <<>>]

Peek(P) == P.tokens[P.next]
Sees(P, kind) == Peek(P).kind = kind
Skip(P) == [P EXCEPT !.next = @ + 1]
Fail(P, error) == IF P.failed # 0 THEN P ELSE [P EXCEPT !.failed = error]
Expect(P, kind, error) == IF Sees(P, kind) THEN Skip(P) ELSE Fail(P, error)
\* hc_expect of one token after another.
ExpectAll(P, wanted) == FoldLeft(LAMBDA Q, w : Expect(Q, w[1], w[2]), P, wanted)

Size(P) == Len(P.code)
\* Cells that do not fit are left out, and the first one is an error.
Emit(P, cells) ==
    LET room == MaxCode - Size(P)
    IN  IF Len(cells) <= room THEN [P EXCEPT !.code = @ \o cells]
        ELSE Fail([P EXCEPT !.code = @ \o SubSeq(cells, 1, room)], -68)

\* Mutant: the instruction after the target.
Patch_after(P, at, target) ==
    IF at >= Size(P) THEN Fail(P, -69) ELSE [P EXCEPT !.code[at + 1] = target + 1]

Patch(P, at, target) ==
    IF at >= Size(P) THEN Fail(P, -69) ELSE [P EXCEPT !.code[at + 1] = target]

\* The jump whose address is at this cell lands here.
Land(P, at) == Patch(P, at, Size(P))

FindLocal(P, name) == {i \in 1..Len(P.locals) : P.locals[i] = name}
FindFunction(P, name) == {i \in 1..Len(P.functions) : P.functions[i].name = name}
Only(S) == CHOOSE x \in S : TRUE

AddLocal(P, name) ==
    IF FindLocal(P, name) # {} THEN Fail(P, -70)
    ELSE IF Len(P.locals) >= Locals THEN Fail(P, -71)
    ELSE [P EXCEPT !.locals = Append(@, name)]

AddFunction(P, name) ==
    IF FindFunction(P, name) # {} THEN Fail(P, -72)
    ELSE IF Len(P.functions) >= MaxFunctions THEN Fail(P, -73)
    ELSE [P EXCEPT !.functions = Append(@, [name |-> name, address |-> Size(P)])]

\* A call, its target to be patched.
EmitCall(P, name) ==
    LET Q == Emit(P, <<CALL, 0>>)
    IN  IF Len(P.calls) >= MaxCalls THEN Fail(Q, -74)
        ELSE [Q EXCEPT !.calls = Append(@, [name |-> name, at |-> Size(P) + 1])]
-----------------------------------------------------------------------------
(* Expressions.                                                            *)

OpcodeOf(kind) ==
    CASE kind = "*" -> MUL [] kind = "/" -> DIV [] kind = "+" -> ADD [] kind = "-" -> SUB
      [] kind = "<" -> LT [] kind = "<=" -> LE [] kind = ">" -> GT [] kind = ">=" -> GE
      [] kind = "==" -> EQ [] kind = "!=" -> NE
Comparisons == {"<", "<=", ">", ">=", "==", "!="}

RECURSIVE Primary(_), Factor(_), Term(_), FactorRest(_), TermRest(_), Expression(_)

Primary(P) ==
    LET name == Peek(P).value  Q == Skip(P) IN
    CASE Sees(P, "NUM") -> Emit(Q, <<PUSH, name>>)
      [] Sees(P, "IDENT") ->
            IF Sees(Q, "(") THEN EmitCall(Expect(Skip(Q), ")", -75), name)
            ELSE IF FindLocal(Q, name) = {} THEN Fail(Q, -76)
            ELSE Emit(Q, <<LOAD, Only(FindLocal(Q, name)) - 1>>)
      [] Sees(P, "(") -> Expect(Expression(Q), ")", -77)
      [] Sees(P, "-") -> Emit(Primary(Emit(Q, <<PUSH, 0>>)), <<SUB>>)
      [] OTHER -> Fail(P, -78)

\* Mutant: the rest of a term is compiled first: a - b - c is a - (b - c).
TermRest_right(P) ==
    IF P.failed = 0 /\ Peek(P).kind \in {"+", "-"}
    THEN Emit(TermRest(Factor(Skip(P))), <<OpcodeOf(Peek(P).kind)>>)
    ELSE P

Factor(P) == FactorRest(Primary(P))
FactorRest(P) ==
    IF P.failed = 0 /\ Peek(P).kind \in {"*", "/"}
    THEN FactorRest(Emit(Primary(Skip(P)), <<OpcodeOf(Peek(P).kind)>>))
    ELSE P
Term(P) == TermRest(Factor(P))
TermRest(P) ==
    IF P.failed = 0 /\ Peek(P).kind \in {"+", "-"}
    THEN TermRest(Emit(Factor(Skip(P)), <<OpcodeOf(Peek(P).kind)>>))
    ELSE P

\* At most one comparison.
Compared(P) ==
    IF P.failed = 0 /\ Peek(P).kind \in Comparisons
    THEN Emit(Term(Skip(P)), <<OpcodeOf(Peek(P).kind)>>)
    ELSE P
Expression(P) == Compared(Term(P))
-----------------------------------------------------------------------------
(* Statements.                                                             *)

RECURSIVE Statement(_), Statements(_), Block(_)

\* Up to the closing brace.
Statements(P) ==
    IF P.failed # 0 \/ Sees(P, "}") \/ Sees(P, "EOF") THEN P ELSE Statements(Statement(P))
Block(P) == Expect(Statements(Expect(P, "{", -112)), "}", -113)

Declaration(P) ==
    LET N == Expect(Skip(P), "IDENT", -80)
        A == AddLocal(N, N.tokens[IF N.failed = 0 THEN N.next - 1 ELSE N.next].value)
        V == IF Sees(A, "=") THEN Expression(Skip(A)) ELSE Emit(A, <<PUSH, 0>>)
        E == Expect(V, ";", -81)
    IN  IF Len(A.locals) = Len(N.locals) THEN E ELSE Emit(E, <<STORE, Len(A.locals) - 1>>)

Condition(P, open, close) == Expect(Expression(Expect(Skip(P), "(", open)), ")", close)

\* After the block of an if; its JZ is to be patched.
Else(P, jz) ==
    IF Sees(P, "ELSE") THEN Land(Block(Land(Emit(Skip(P), <<JMP, 0>>), jz)), Size(P) + 1)
    ELSE Land(P, jz)

\* From the condition on.
Then(P) == Else(Block(Emit(P, <<JZ, 0>>)), Size(P) + 1)
If(P) == Then(Condition(P, -83, -84))

Loop(P, top) == Land(Emit(Block(Emit(P, <<JZ, 0>>)), <<JMP, top>>), Size(P) + 1)
While(P) == Loop(Condition(P, -85, -86), Size(P))

\* A string's value is its cells, escapes decoded.
Write(P) ==
    LET O == Expect(Skip(P), "(", -87)
        N == Expect(O, "NUM", -88)
        D == IF Peek(O).value # 1 THEN Fail(N, -89) ELSE N
        S == Expect(D, ",", -90)
        A == Expect(S, "STR", -91)
        L == IF Sees(A, ",") THEN Expect(Skip(A), "NUM", -92) ELSE A
        E == ExpectAll(L, <<<<")", -93>>, <<";", -94>>>>)
    IN  IF E.failed # 0 THEN E
        ELSE Emit(E, <<WRITE, Len(Peek(S).value)>> \o Peek(S).value)

Sleep(P) ==
    LET O == Expect(Skip(P), "(", -98)
        N == Expect(O, "NUM", -99)
        D == IF N.failed = 0 /\ Peek(O).value > SleepLimit THEN Fail(N, -100) ELSE N
    IN  Emit(ExpectAll(D, <<<<")", -101>>, <<";", -102>>>>), <<SLEEP, Peek(O).value>>)

\* name = expression; or name();
Named(P) ==
    LET name == Peek(P).value  Q == Skip(P) IN
    CASE Sees(Q, "=") ->
            IF FindLocal(Q, name) = {} THEN Fail(Skip(Q), -76)
            ELSE Emit(Expect(Expression(Skip(Q)), ";", -107),
                      <<STORE, Only(FindLocal(Q, name)) - 1>>)
      [] Sees(Q, "(") ->
            Emit(EmitCall(ExpectAll(Skip(Q), <<<<")", -108>>, <<";", -109>>>>), name), <<POP>>)
      [] OTHER -> Fail(Q, -110)

Statement(P) ==
    CASE Sees(P, "INT") -> Declaration(P)
      [] Sees(P, "RETURN") -> Emit(Expect(Expression(Skip(P)), ";", -82), <<RET>>)
      [] Sees(P, "IF") -> If(P)
      [] Sees(P, "WHILE") -> While(P)
      [] Sees(P, "WRITE") -> Write(P)
      [] Sees(P, "PRINT") ->
            Emit(ExpectAll(Expression(Expect(Skip(P), "(", -95)), <<<<")", -96>>, <<";", -97>>>>),
                 <<PRINT>>)
      [] Sees(P, "SLEEP") -> Sleep(P)
      [] Sees(P, "GPIO") ->
            Emit(ExpectAll(Skip(P), <<<<"(", -103>>, <<")", -104>>, <<";", -105>>>>), <<GPIO>>)
      [] Sees(P, "{") -> Expect(Statements(Skip(P)), "}", -106)
      [] Sees(P, "IDENT") -> Named(P)
      [] OTHER -> Fail(P, -111)
-----------------------------------------------------------------------------
(* Functions and programs.                                                 *)

\* The last byte of the code; that of an address, which is below 256, is 0.
LastByte(code) ==
    LET last == CHOOSE pc \in Boundaries(code) : After(code, pc) = Len(code)
    IN  IF At(code, last) \in Targeted THEN 0 ELSE Last(code)

\* The value 0 is returned after a body, unless the last byte emitted is that of
\* RET, whichever instruction it belongs to.
ImplicitReturn(P) ==
    IF P.failed = 0 /\ LastByte(P.code) # RET THEN Emit(P, <<PUSH, 0, RET>>) ELSE P

FunctionBody(P, name) ==
    IF P.failed # 0 THEN P
    ELSE ImplicitReturn(Block([AddFunction(P, name) EXCEPT !.locals = <<>>]))

Function(P) ==
    FunctionBody(ExpectAll(P, <<<<"INT", -114>>, <<"IDENT", -115>>, <<"(", -116>>, <<")", -117>>>>),
                 P.tokens[P.next + 1].value)

RECURSIVE Functions(_)
Functions(P) == IF P.failed # 0 \/ Sees(P, "EOF") THEN P ELSE Functions(Function(P))

PatchCalls(P) ==
    FoldLeft(LAMBDA Q, c : IF FindFunction(P, c.name) = {} THEN Fail(Q, -118)
                           ELSE Patch(Q, c.at, P.functions[Only(FindFunction(P, c.name))].address),
             P, P.calls)

Link(P) ==
    IF P.failed # 0 THEN P
    ELSE IF FindFunction(P, "main") = {} THEN Fail(P, -119) ELSE PatchCalls(P)

\* What app_write does with the outcome.
Accept(P) ==
    IF P.failed # 0 THEN [error |-> P.failed, code |-> <<>>]
    ELSE IF ~bytecode_verify(P.code) THEN [error |-> -3, code |-> <<>>]
    ELSE [error |-> 0, code |-> P.code]

\* hala_compile_general: an error code or the code.
Compile(tokens) ==
    IF Len(tokens) > MaxTokens THEN [error |-> -61, code |-> <<>>]
    ELSE Accept(Link(Functions(Emit(EmitCall(Fresh(tokens), "main"), <<HALT>>))))
====
