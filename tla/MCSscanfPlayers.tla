----------------------------- MODULE MCSscanfPlayers -----------------------------
(* Two players and a bot on a server of three, names of which one begins    *)
(* like another, and two scripts that know sscanf                           *)
EXTENDS SscanfPlayers

MCNames == {<<"a">>, <<"a", "b">>, <<"b", "a">>}
MCBots == {<<"b", "a">>}
MCGarbage == {<<>>}

(* The scripts are alike *)
Symmetric == Permutations(Scripts)
==================================================================================
