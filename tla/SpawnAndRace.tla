----------------------------- MODULE SpawnAndRace -----------------------------
(***************************************************************************)
(* Where the players of a game start and what they drive: spawn.pwn and    *)
(* race.pwn, with the parts of gameMeta.pwn and of the server they use.    *)
(*                                                                         *)
(* A game adds spawn points and may name a vehicle model; players are put  *)
(* at a random point of their team, or at the next point in turn, where a  *)
(* race also gives them a vehicle.  race.pwn remembers that vehicle by the *)
(* player's slot.  Vehicle ids belong to the server, which uses an id      *)
(* again once its vehicle is destroyed, and other scripts have vehicles of *)
(* their own.                                                              *)
(***************************************************************************)
EXTENDS Integers, Sequences, FiniteSets

CONSTANTS
  SLOTS,               \* players have the slots 0 .. SLOTS - 1
  MAX_SPAWN_POINTS,    \* defined as SLOTS; a parameter so that it can be smaller
  Teams,               \* team numbers, with the 0 of a cleared array
  NO_TEAM,
  Models,              \* the vehicle models setVehicleModel accepts: 400 .. 611
  NoModel,             \* 0, what raceData holds before the first race
  Vehicles,            \* ids of the server's vehicle pool
  NoVehicle,           \* -1
  INVALID_VEHICLE_ID,  \* what CreateVehicle answers when it makes no vehicle
  Nobody               \* the owner of a vehicle of another script

ASSUME SizesAssumption ==
  /\ SLOTS \in Nat \ {0}
  /\ MAX_SPAWN_POINTS \in Nat \ {0}

ASSUME Distinguished ==
  /\ 0 \in Teams /\ NO_TEAM \in Teams
  /\ NoModel \notin Models
  /\ NoVehicle \notin Vehicles /\ INVALID_VEHICLE_ID \notin Vehicles
  /\ NoVehicle # INVALID_VEHICLE_ID
  /\ Nobody \notin 0 .. SLOTS - 1

Players == 0 .. SLOTS - 1
Points == 0 .. MAX_SPAWN_POINTS - 1

VARIABLES
  spawnTeamId,             \* spawn.pwn: the team of each spawn point
  numberOfSpawnPositions,  \* spawn.pwn
  currentUniqueSpawnId,    \* spawn.pwn: the point the next unique spawn uses
  isRace,                  \* gameMeta.pwn: the type of the game is GAME_TYPE_RACE
  vehicleModel,            \* race.pwn
  playerRaceVehicle,       \* race.pwn: the vehicle of each slot
  connected,
  playerTeam,
  madeFor,                 \* the server's vehicles: id -> the slot it was made for
  turns,                   \* auxiliary: unique spawns since the points last changed
  at                       \* auxiliary: the point of a player's last spawn

points == <<spawnTeamId, numberOfSpawnPositions, currentUniqueSpawnId, turns>>
race == <<vehicleModel, playerRaceVehicle>>
people == <<connected, playerTeam>>
vars == <<points, isRace, race, madeFor, people, at>>

Nowhere == -1

-----------------------------------------------------------------------------
(* Vehicles.                                                               *)

Alive == DOMAIN madeFor

\* The vehicles F with v given to owner, and without v.
Made(F, v, owner) == [u \in DOMAIN F \cup {v} |-> IF u = v THEN owner ELSE F[u]]
Gone(F, v) == [u \in DOMAIN F \ {v} |-> F[u]]

\* Mutant: destroyPlayerVehicle keeps the id.
DestroyPlayerVehicleKept(p) ==
  /\ madeFor' = Gone(madeFor, playerRaceVehicle[p])
  /\ UNCHANGED playerRaceVehicle

\* destroyPlayerVehicle; an id that is not in the pool is ignored by the server.
DestroyPlayerVehicle(p) ==
  /\ madeFor' = Gone(madeFor, playerRaceVehicle[p])
  /\ playerRaceVehicle' = [playerRaceVehicle EXCEPT ![p] = NoVehicle]

\* Mutant: the player's old vehicle is not destroyed first.
CreatePlayerVehicleOnly(p) ==
  LET free == Vehicles \ Alive IN
  IF vehicleModel \in Models /\ free # {}
  THEN \E v \in free :
         /\ madeFor' = Made(madeFor, v, p)
         /\ playerRaceVehicle' = [playerRaceVehicle EXCEPT ![p] = v]
  ELSE /\ playerRaceVehicle' = [playerRaceVehicle EXCEPT ![p] = INVALID_VEHICLE_ID]
       /\ UNCHANGED madeFor

\* createPlayerVehicle: destroy the old one, then make one.  The server makes
\* none for a model it does not know or when its pool is full.
CreatePlayerVehicle(p) ==
  LET old == playerRaceVehicle[p]
      kept == Gone(madeFor, old)
      free == Vehicles \ DOMAIN kept
  IN  IF vehicleModel \in Models /\ free # {}
      THEN \E v \in free :
             /\ madeFor' = Made(kept, v, p)
             /\ playerRaceVehicle' = [playerRaceVehicle EXCEPT ![p] = v]
      ELSE /\ madeFor' = kept
           /\ playerRaceVehicle' = [playerRaceVehicle EXCEPT ![p] = INVALID_VEHICLE_ID]

\* The public functions.
SetRaceVehicle(model) ==
  /\ vehicleModel' = model
  /\ UNCHANGED <<points, isRace, playerRaceVehicle, madeFor, people, at>>

CreatePlayerRaceVehicle(p) ==
  /\ p \in connected
  /\ CreatePlayerVehicle(p)
  /\ UNCHANGED <<points, isRace, vehicleModel, people, at>>

\* The include file filterscripts/race.pwn passes no player at all, so that
\* the slot is whatever the callee finds.
DestroyPlayerRaceVehicle(p) ==
  /\ playerRaceVehicle[p] # NoVehicle
  /\ DestroyPlayerVehicle(p)
  /\ UNCHANGED <<points, isRace, vehicleModel, people, at>>

\* The slots checkToDestroyVehicle looks at end with the highest one in use.
Searched ==
  {i \in Players : i = 0 \/ \E j \in connected : i <= j}

Owners(v) == {i \in Searched : playerRaceVehicle[i] = v}

\* A vehicle respawns, wrecked or left alone for long enough; a player's race
\* vehicle is then destroyed.
OnVehicleSpawn(v) ==
  /\ v \in Alive
  /\ IF Owners(v) = {}
     THEN UNCHANGED <<madeFor, playerRaceVehicle>>
     ELSE \E p \in Owners(v) :
            /\ \A i \in Owners(v) : p <= i
            /\ DestroyPlayerVehicle(p)
  /\ UNCHANGED <<points, isRace, vehicleModel, people, at>>

\* Another script makes a vehicle and destroys one of its own.
OtherVehicleMade(v) ==
  /\ v \in Vehicles \ Alive
  /\ madeFor' = Made(madeFor, v, Nobody)
  /\ UNCHANGED <<points, isRace, race, people, at>>

OtherVehicleDestroyed(v) ==
  /\ v \in Alive /\ madeFor[v] = Nobody
  /\ madeFor' = Gone(madeFor, v)
  /\ UNCHANGED <<points, isRace, race, people, at>>

-----------------------------------------------------------------------------
(* Spawn points.                                                           *)

\* addSpawnPoint; nothing happens when there are too many.
AddSpawnPos(team) ==
  /\ numberOfSpawnPositions < MAX_SPAWN_POINTS
  /\ spawnTeamId' = [spawnTeamId EXCEPT ![numberOfSpawnPositions] = team]
  /\ numberOfSpawnPositions' = numberOfSpawnPositions + 1
  /\ turns' = <<>>
  /\ UNCHANGED <<currentUniqueSpawnId, isRace, race, madeFor, people, at>>

SpawnAt(p, i) == at' = [at EXCEPT ![p] = i]

Registered == 0 .. numberOfSpawnPositions - 1

\* The array the points of a team are collected in: filled from index 1 while
\* index 0 keeps its initial 0, and read from index 0.
TeamPoints(team) == {i \in Registered : spawnTeamId[i] = team}

SpawnIds(team) ==
  IF TeamPoints(team) = {} THEN {}
  ELSE {0} \cup {i \in TeamPoints(team) : \E j \in TeamPoints(team) : i < j}

\* randomSpawnPlayer.  With every point of the array in one team the array is
\* one too short, and the callback ends with a run-time error instead.
SpawnPlayerAtRandomPos(p) ==
  LET team == playerTeam[p] IN
  /\ p \in connected
  /\ IF team = NO_TEAM
     THEN \E i \in Registered : SpawnAt(p, i)
     ELSE /\ Cardinality(TeamPoints(team)) < MAX_SPAWN_POINTS
          /\ \E i \in SpawnIds(team) : SpawnAt(p, i)
  /\ UNCHANGED <<points, isRace, race, madeFor, people>>

\* Mutant: the turn starts again one point too late.
NextPointLate ==
  IF currentUniqueSpawnId > numberOfSpawnPositions THEN 0 ELSE currentUniqueSpawnId

\* The point whose turn it is.
NextPoint ==
  IF currentUniqueSpawnId = numberOfSpawnPositions THEN 0 ELSE currentUniqueSpawnId

\* The turns taken, as far back as they can matter.
LastTurns(s) ==
  IF Len(s) > MAX_SPAWN_POINTS THEN SubSeq(s, Len(s) - MAX_SPAWN_POINTS + 1, Len(s)) ELSE s

\* Mutant: the turn is taken without moving on.
TakeTurnAgain(i) ==
  /\ currentUniqueSpawnId' = i
  /\ turns' = LastTurns(Append(turns, i))
  /\ UNCHANGED <<spawnTeamId, numberOfSpawnPositions>>

TakeTurn(i) ==
  /\ currentUniqueSpawnId' = i + 1
  /\ turns' = LastTurns(Append(turns, i))
  /\ UNCHANGED <<spawnTeamId, numberOfSpawnPositions>>

\* spawnPlayerUnique; players in a team are turned away.
SpawnPlayerAtUniquePos(p) ==
  /\ p \in connected
  /\ numberOfSpawnPositions > 0 /\ playerTeam[p] = NO_TEAM
  /\ SpawnAt(p, NextPoint)
  /\ TakeTurn(NextPoint)
  /\ IF isRace THEN CreatePlayerVehicle(p) ELSE UNCHANGED <<playerRaceVehicle, madeFor>>
  /\ UNCHANGED <<isRace, vehicleModel, people>>

\* Mutant: the turn is kept when the points are reset.
UnloadGameKeepsTurn ==
  /\ spawnTeamId' = [i \in Points |-> NO_TEAM]
  /\ numberOfSpawnPositions' = 0
  /\ turns' = <<>>
  /\ isRace' = FALSE
  /\ at' = [p \in Players |-> Nowhere]
  /\ UNCHANGED <<currentUniqueSpawnId, race, madeFor, people>>

\* gameUnloader.init: resetSpawnData and Meta.reset.  Vehicles and their model
\* stay.
UnloadGame ==
  /\ spawnTeamId' = [i \in Points |-> NO_TEAM]
  /\ numberOfSpawnPositions' = 0
  /\ currentUniqueSpawnId' = 0
  /\ turns' = <<>>
  /\ isRace' = FALSE
  /\ at' = [p \in Players |-> Nowhere]
  /\ UNCHANGED <<race, madeFor, people>>

\* Meta.setType, called by the game.
SetGameType(race_type) ==
  /\ isRace' = race_type
  /\ UNCHANGED <<points, race, madeFor, people, at>>

-----------------------------------------------------------------------------
(* Players.                                                                *)

PlayerConnect(p) ==
  /\ p \notin connected
  /\ connected' = connected \cup {p}
  /\ playerTeam' = [playerTeam EXCEPT ![p] = NO_TEAM]
  /\ at' = [at EXCEPT ![p] = Nowhere]
  /\ UNCHANGED <<points, isRace, race, madeFor>>

\* Neither OnPlayerDisconnect nor OnPlayerConnect touches race.pwn.
PlayerDisconnect(p) ==
  /\ p \in connected
  /\ connected' = connected \ {p}
  /\ UNCHANGED <<points, isRace, race, madeFor, playerTeam, at>>

\* SetPlayerTeam, called by the game.
SetPlayerTeam(p, team) ==
  /\ p \in connected
  /\ playerTeam' = [playerTeam EXCEPT ![p] = team]
  /\ UNCHANGED <<points, isRace, race, madeFor, connected, at>>

Init ==
  /\ spawnTeamId = [i \in Points |-> 0]
  /\ numberOfSpawnPositions = 0 /\ currentUniqueSpawnId = 0
  /\ turns = <<>>
  /\ isRace = FALSE /\ vehicleModel = NoModel
  /\ playerRaceVehicle = [p \in Players |-> NoVehicle]
  /\ connected = {} /\ playerTeam = [p \in Players |-> NO_TEAM]
  /\ madeFor = [v \in {} |-> Nobody]
  /\ at = [p \in Players |-> Nowhere]

Next ==
  \/ \E team \in Teams : AddSpawnPos(team)
  \/ UnloadGame
  \/ \E b \in BOOLEAN : SetGameType(b)
  \/ \E m \in Models : SetRaceVehicle(m)
  \/ \E p \in Players :
       \/ SpawnPlayerAtRandomPos(p) \/ SpawnPlayerAtUniquePos(p)
       \/ CreatePlayerRaceVehicle(p) \/ DestroyPlayerRaceVehicle(p)
       \/ PlayerConnect(p) \/ PlayerDisconnect(p)
       \/ \E team \in Teams : SetPlayerTeam(p, team)
  \/ \E v \in Vehicles :
       \/ OnVehicleSpawn(v)
       \/ OtherVehicleMade(v) \/ OtherVehicleDestroyed(v)

Spec == Init /\ [][Next]_vars

-----------------------------------------------------------------------------
(* Properties.                                                             *)

\* Every variable has its type.
TypeOK ==
  /\ spawnTeamId \in [Points -> Teams]
  /\ numberOfSpawnPositions \in 0 .. MAX_SPAWN_POINTS
  /\ currentUniqueSpawnId \in 0 .. MAX_SPAWN_POINTS
  /\ turns \in Seq(Points)
  /\ isRace \in BOOLEAN
  /\ vehicleModel \in Models \cup {NoModel}
  /\ playerRaceVehicle \in [Players -> Vehicles \cup {NoVehicle, INVALID_VEHICLE_ID}]
  /\ connected \subseteq Players
  /\ playerTeam \in [Players -> Teams]
  /\ Alive \subseteq Vehicles
  /\ madeFor \in [Alive -> Players \cup {Nobody}]
  /\ at \in [Players -> Points \cup {-1}]

\* Players are only put at points the current game has added, and the turn
\* never points past the place where it starts again, whatever order points are
\* added, used and reset in.
PointsExist ==
  /\ currentUniqueSpawnId <= numberOfSpawnPositions
  /\ \A p \in Players : at[p] < numberOfSpawnPositions

\* No unique point comes up again before all the others have (spawn.pwn line 85:
\* much less likely to have someone else standing there).
UniqueTurns ==
  \A i, j \in DOMAIN turns :
    i < j /\ j - i < numberOfSpawnPositions => turns[i] # turns[j]

\* A vehicle race.pwn remembers exists and was made for that player: although
\* the server uses ids again, DestroyVehicle never hits the vehicle of another
\* player or of another script, and no two players share one.
VehicleIsOnesOwn ==
  \A p \in Players :
    playerRaceVehicle[p] \in Vehicles =>
      /\ playerRaceVehicle[p] \in Alive
      /\ madeFor[playerRaceVehicle[p]] = p

\* Every race vehicle on the map is remembered: one per slot, so that the pool
\* never fills with vehicles nobody can destroy any more.
NoVehicleIsLost ==
  \A v \in Alive : madeFor[v] # Nobody => playerRaceVehicle[madeFor[v]] = v

===============================================================================
