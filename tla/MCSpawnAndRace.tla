---------------------------- MODULE MCSpawnAndRace ----------------------------
(* Small instances of SpawnAndRace: two points, two slots, two vehicles. *)
EXTENDS SpawnAndRace, TLC

MCOneTeam == {0, 255}
MCNoTeam == 255
MCNobody == -1

Symmetric == Permutations(Vehicles)
===============================================================================
