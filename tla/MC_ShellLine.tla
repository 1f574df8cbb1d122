---- MODULE MC_ShellLine ----
(***************************************************************************)
(* Segments for ShellLine: a first command with 0 to 3 filters, with and   *)
(* without a redirection and the background mark, and malformed ones.      *)
(* Texts lie on both sides of the buffers of 96 and 128 bytes.             *)
(***************************************************************************)
EXTENDS ShellLine

MCOutputs ==
    [w \in {"unknown", "short", "full", "large", "huge", "run"} |->
        CASE w = "short" -> Text(12, 1) [] w = "full" -> Text(96, 3)
          [] w = "large" -> Text(128, 4) [] w = "huge" -> Text(129, 4)
          [] w = "run" -> Text(9, 1) [] OTHER -> Text(20, 1)]

Firsts == {<<"short">>, <<"full">>, <<"large">>, <<"huge">>, <<"run">>, <<"/tmp/a">>, <<"/tmp/b">>}
Pipes == {<<>>, <<"|", "cat">>, <<"|", "wc">>, <<"|", "tail">>, <<"|", "cat", "|", "wc">>,
          <<"|", "wc", "|", "cat">>, <<"|", "cat", "|", "cat", "|", "wc">>, <<"|">>}
Targets == {<<>>, <<">", "/tmp/a">>, <<">", "/tmp/b">>, <<">", "null">>, <<">", "zero">>, <<">">>}
MCSegments ==
    {f \o p \o r : f \in Firsts, p \in Pipes, r \in Targets}
    \union {<<"run">> \o p \o r \o <<"&">> : p \in Pipes, r \in Targets}
    \union {<<"short", ">", "/tmp/a", "|", "cat">>, <<"short", ">", "/tmp/a", ">", "/tmp/b">>, <<"&">>, <<"short", "&">>}
====
