---- MODULE MCStatusPath ----
(***************************************************************************)
(* Two short games: one says hello, the other ends in an Info.             *)
(***************************************************************************)
EXTENDS StatusPath

SmallGames == {<<"hello">>, <<"status", "info">>}
====
