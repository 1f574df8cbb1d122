---- MODULE MC_Toolchain ----
(***************************************************************************)
(* Programs and cells for Toolchain: every main of two statements after    *)
(* the declaration of x, with every body of f; every short sequence of     *)
(* cells over a small alphabet.                                            *)
(***************************************************************************)
EXTENDS Toolchain

N(n) == <<"num", n>>
X == <<"var", "x">>
F == <<"call", "f">>
Op(kind, a, b) == <<"op", kind, a, b>>

Sums == {Op("-", Op("-", X, N(1)), N(2)), Op("+", N(1), Op("*", X, N(3))),
         Op("*", <<"par", Op("+", X, N(1))>>, F), Op("/", N(3), X), Op("-", X, <<"neg", F>>)}
Conditions == {Op("<", X, N(2)), Op("==", Op("+", F, N(1)), X)}
DeclareY == <<"int", "y", Op(">=", X, F)>>
Decrement == <<"set", "x", Op("-", X, N(1))>>
Show(e) == <<"print", e>>

Simple == {Show(e) : e \in Sums} \union
    {<<"set", "x", Op("+", X, F)>>, <<"sleep", 3>>, <<"sleep", RET>>, <<"gpio">>,
     <<"write", <<1, 2>>>>, <<"do", "f">>, <<"return", X>>}
Compound ==
    {<<"if", c, <<Show(X), s>>>> : c \in Conditions, s \in {<<"return", N(1)>>, Decrement}}
    \union {<<"ifelse", c, <<s>>, <<Show(N(3))>>>> :
              c \in Conditions, s \in {<<"return", N(1)>>, Decrement}}
    \union {<<"while", X, <<s, Decrement>>>> :
              s \in {Show(X), <<"do", "f">>, <<"if", Op(">", X, N(1)), <<Show(N(0))>>>>}}
    \union {DeclareY}
MainStatements == Simple \union Compound

FBodies == {<<>>, <<<<"return", N(2)>>>>, <<<<"gpio">>>>, <<<<"sleep", RET>>>>,
            <<<<"int", "x", N(1)>>, <<"if", X, <<<<"return", N(3)>>>>>>>>,
            <<<<"return", Op("+", N(1), <<"call", "g">>)>>>>,
            <<<<"int", "y", N(0)>>, <<"return", <<"op", "+", F, N(1)>>>>>>}
GBody == <<<<"int", "x", N(3)>>, Show(X)>>

MCPrograms ==
    {<< <<"f", f>>, <<"g", GBody>>,
        <<"main", <<<<"int", "x", N(2)>>, s1, s2>>>> >> :
          f \in FBodies, s1 \in MainStatements, s2 \in MainStatements \ {DeclareY}}

Alphabet == {0, 1, 2, 3, 4, 14, 15, 19, 20, 48}
Short == UNION {[1..n -> Alphabet] : n \in 1..4}
\* A call of a short function, and HALT.
Callees == {<<CALL, 3, HALT>> \o c : c \in UNION {[1..n -> {0, 1, 3, 15, 19, 21}] : n \in 1..5}}
MCCodes == Short \union Callees
====
