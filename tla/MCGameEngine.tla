------------------------------ MODULE MCGameEngine ------------------------------
(* Small instances of GameEngine: two slots, two games, the delays of the code. *)
EXTENDS GameEngine, TLC

CONSTANTS dm, race

MCGames == 0 .. 1
MCFiles == {dm, race}
MCRaceGames == {race}

\* A list with both games, the same list edited, and an empty list.
MCGameLists ==
  {0 :> dm @@ 1 :> race, 0 :> race @@ 1 :> NoFile, 0 :> NoFile @@ 1 :> NoFile}
MCOneList == {0 :> dm @@ 1 :> race}
MCInvalidGame == -1

Symmetric == Permutations(Players) \cup Permutations(TimerIds)
===============================================================================
