-------------------------- MODULE SpawnAndRaceProofs --------------------------
(* Proofs about SpawnAndRace for every number of players, points, teams and *)
(* vehicles.                                                                *)
EXTENDS SpawnAndRace, TLAPS

-----------------------------------------------------------------------------
(* The helpers.                                                            *)

\* The next point in turn is one the game has added.
LEMMA NextPointExists ==
  ASSUME TypeOK, PointsExist, numberOfSpawnPositions > 0
  PROVE  NextPoint \in 0 .. numberOfSpawnPositions - 1 /\ NextPoint \in Points
BY SizesAssumption DEF TypeOK, PointsExist, NextPoint, Points

\* What is kept of the turns is their end.
LEMMA LastTurnsAreTheEnd ==
  ASSUME NEW s \in Seq(Points)
  PROVE  /\ LastTurns(s) \in Seq(Points)
         /\ \E d \in Nat : /\ Len(LastTurns(s)) = Len(s) - d
                           /\ \A k \in 1 .. Len(s) - d : LastTurns(s)[k] = s[k + d]
<1>1. CASE Len(s) > MAX_SPAWN_POINTS
  <2> DEFINE d == Len(s) - MAX_SPAWN_POINTS
  <2>1. d \in Nat /\ d + 1 \in 1 .. Len(s) /\ Len(s) \in Nat
    BY <1>1, SizesAssumption
  <2>2. LastTurns(s) = SubSeq(s, d + 1, Len(s))
    BY <1>1 DEF LastTurns
  <2>3. Len(LastTurns(s)) = Len(s) - d /\ LastTurns(s) \in Seq(Points)
    BY <2>1, <2>2
  <2>4. \A k \in 1 .. Len(s) - d : LastTurns(s)[k] = s[k + d]
    BY <2>1, <2>2
  <2> QED
    BY <2>1, <2>3, <2>4
<1>2. CASE ~(Len(s) > MAX_SPAWN_POINTS)
  <2>1. LastTurns(s) = s
    BY <1>2 DEF LastTurns
  <2>2. Len(s) = Len(s) - 0 /\ \A k \in 1 .. Len(s) - 0 : s[k] = s[k + 0]
    OBVIOUS
  <2> QED
    BY <2>1, <2>2
<1> QED
  BY <1>1, <1>2

\* Removing a vehicle, then perhaps making one, keeps the pool a pool.
LEMMA PoolTyping ==
  ASSUME TypeOK, NEW u, NEW v \in Vehicles, NEW owner \in Players \cup {Nobody}
  PROVE  /\ DOMAIN Gone(madeFor, u) \subseteq Vehicles
         /\ Gone(madeFor, u) \in [DOMAIN Gone(madeFor, u) -> Players \cup {Nobody}]
         /\ DOMAIN Made(Gone(madeFor, u), v, owner) \subseteq Vehicles
         /\ Made(Gone(madeFor, u), v, owner)
              \in [DOMAIN Made(Gone(madeFor, u), v, owner) -> Players \cup {Nobody}]
         /\ DOMAIN Made(madeFor, v, owner) \subseteq Vehicles
         /\ Made(madeFor, v, owner)
              \in [DOMAIN Made(madeFor, v, owner) -> Players \cup {Nobody}]
BY DEF TypeOK, Alive, Gone, Made

-----------------------------------------------------------------------------
(* The inductive invariant about vehicles and points.                      *)

Owned == TypeOK /\ PointsExist /\ VehicleIsOnesOwn /\ NoVehicleIsLost

\* destroyPlayerVehicle keeps every other vehicle with its owner.
LEMMA DestroyKeeps ==
  ASSUME Owned, NEW p \in Players, DestroyPlayerVehicle(p)
  PROVE  /\ playerRaceVehicle' \in [Players -> Vehicles \cup {NoVehicle, INVALID_VEHICLE_ID}]
         /\ Alive' \subseteq Vehicles /\ madeFor' \in [Alive' -> Players \cup {Nobody}]
         /\ VehicleIsOnesOwn' /\ NoVehicleIsLost'
<1> DEFINE old == playerRaceVehicle[p]
<1>1. /\ Alive' = Alive \ {old}
      /\ \A u \in Alive' : madeFor'[u] = madeFor[u]
      /\ madeFor' \in [Alive' -> Players \cup {Nobody}]
  BY PoolTyping DEF DestroyPlayerVehicle, Alive, Owned, TypeOK, Gone
<1>2. /\ playerRaceVehicle' \in [Players -> Vehicles \cup {NoVehicle, INVALID_VEHICLE_ID}]
      /\ playerRaceVehicle'[p] = NoVehicle
      /\ \A q \in Players \ {p} : playerRaceVehicle'[q] = playerRaceVehicle[q]
  BY DEF DestroyPlayerVehicle, Owned, TypeOK
<1>3. VehicleIsOnesOwn'
  BY <1>1, <1>2, Distinguished DEF Owned, VehicleIsOnesOwn
<1>4. NoVehicleIsLost'
  <2> SUFFICES ASSUME NEW v \in Alive', madeFor'[v] # Nobody
               PROVE  playerRaceVehicle'[madeFor'[v]] = v
    BY DEF NoVehicleIsLost
  <2>1. v \in Alive /\ v # old /\ madeFor'[v] = madeFor[v] /\ madeFor[v] \in Players
    BY <1>1
  <2>2. playerRaceVehicle[madeFor[v]] = v
    BY <2>1 DEF Owned, NoVehicleIsLost
  <2>3. madeFor[v] # p
    BY <2>1, <2>2
  <2> QED
    BY <1>2, <2>1, <2>2, <2>3
<1> QED
  BY <1>1, <1>2, <1>3, <1>4 DEF Owned, TypeOK, DestroyPlayerVehicle

\* So does createPlayerVehicle, whose new vehicle has an id nobody holds.
LEMMA CreateKeeps ==
  ASSUME Owned, NEW p \in Players, CreatePlayerVehicle(p)
  PROVE  /\ playerRaceVehicle' \in [Players -> Vehicles \cup {NoVehicle, INVALID_VEHICLE_ID}]
         /\ Alive' \subseteq Vehicles /\ madeFor' \in [Alive' -> Players \cup {Nobody}]
         /\ VehicleIsOnesOwn' /\ NoVehicleIsLost'
<1> DEFINE old == playerRaceVehicle[p]
           kept == Gone(madeFor, old)
<1>1. /\ DOMAIN kept = Alive \ {old}
      /\ \A u \in DOMAIN kept : kept[u] = madeFor[u]
  BY DEF Alive, CreatePlayerVehicle, Gone
<1>2. \A q \in Players \ {p} : playerRaceVehicle[q] \in Vehicles =>
          playerRaceVehicle[q] \in DOMAIN kept /\ kept[playerRaceVehicle[q]] = q
  BY <1>1 DEF Owned, VehicleIsOnesOwn
<1>3. \A u \in DOMAIN kept : kept[u] # Nobody =>
          kept[u] \in Players \ {p} /\ playerRaceVehicle[kept[u]] = u
  BY <1>1 DEF Owned, NoVehicleIsLost, TypeOK
<1>4. ASSUME NEW v \in Vehicles \ DOMAIN kept, madeFor' = Made(kept, v, p),
             playerRaceVehicle' = [playerRaceVehicle EXCEPT ![p] = v]
      PROVE  /\ playerRaceVehicle' \in [Players -> Vehicles \cup {NoVehicle, INVALID_VEHICLE_ID}]
             /\ Alive' \subseteq Vehicles /\ madeFor' \in [Alive' -> Players \cup {Nobody}]
             /\ VehicleIsOnesOwn' /\ NoVehicleIsLost'
  <2>1. /\ Alive' = DOMAIN kept \cup {v}
        /\ madeFor'[v] = p
        /\ \A u \in DOMAIN kept : madeFor'[u] = kept[u]
    BY <1>4 DEF Alive, Made
  <2>2. /\ playerRaceVehicle' \in [Players -> Vehicles \cup {NoVehicle, INVALID_VEHICLE_ID}]
        /\ playerRaceVehicle'[p] = v
        /\ \A q \in Players \ {p} : playerRaceVehicle'[q] = playerRaceVehicle[q]
    BY <1>4 DEF Owned, TypeOK
  <2>3. VehicleIsOnesOwn'
    BY <1>2, <2>1, <2>2 DEF VehicleIsOnesOwn
  <2>4. NoVehicleIsLost'
    BY <1>3, <2>1, <2>2 DEF NoVehicleIsLost
  <2>5. Alive' \subseteq Vehicles /\ madeFor' \in [Alive' -> Players \cup {Nobody}]
    BY <1>4, PoolTyping DEF Owned, Alive
  <2> QED
    BY <1>1, <2>1, <2>2, <2>3, <2>4, <2>5 DEF Owned, TypeOK
<1>5. ASSUME madeFor' = kept,
             playerRaceVehicle' = [playerRaceVehicle EXCEPT ![p] = INVALID_VEHICLE_ID]
      PROVE  /\ playerRaceVehicle' \in [Players -> Vehicles \cup {NoVehicle, INVALID_VEHICLE_ID}]
             /\ Alive' \subseteq Vehicles /\ madeFor' \in [Alive' -> Players \cup {Nobody}]
             /\ VehicleIsOnesOwn' /\ NoVehicleIsLost'
  <2>1. /\ playerRaceVehicle' \in [Players -> Vehicles \cup {NoVehicle, INVALID_VEHICLE_ID}]
        /\ playerRaceVehicle'[p] = INVALID_VEHICLE_ID
        /\ \A q \in Players \ {p} : playerRaceVehicle'[q] = playerRaceVehicle[q]
    BY <1>5 DEF Owned, TypeOK
  <2>2. Alive' = DOMAIN kept /\ madeFor' \in [Alive' -> Players \cup {Nobody}]
    BY <1>1, <1>5 DEF Owned, TypeOK, Alive, Gone
  <2>3. VehicleIsOnesOwn'
    BY <1>2, <1>5, <2>1, <2>2, Distinguished DEF VehicleIsOnesOwn
  <2>4. NoVehicleIsLost'
    BY <1>3, <1>5, <2>1, <2>2 DEF NoVehicleIsLost
  <2> QED
    BY <1>1, <2>1, <2>2, <2>3, <2>4 DEF Owned, TypeOK
<1> QED
  BY <1>4, <1>5 DEF CreatePlayerVehicle

\* Nothing changes when nobody is given a vehicle or loses one.
LEMMA PoolUnchanged ==
  ASSUME Owned, UNCHANGED <<playerRaceVehicle, madeFor>>
  PROVE  VehicleIsOnesOwn' /\ NoVehicleIsLost' /\ Alive' = Alive
BY DEF Owned, VehicleIsOnesOwn, NoVehicleIsLost, Alive

LEMMA InitOwned == Init => Owned
<1> SUFFICES ASSUME Init PROVE Owned
  OBVIOUS
<1>1. Alive = {} /\ madeFor \in [Alive -> Players \cup {Nobody}]
  BY DEF Init, Alive
<1>2. TypeOK
  <2>1. at \in [Players -> Points \cup {-1}]
    BY DEF Init, Nowhere
  <2>2. turns \in Seq(Points)
    BY DEF Init
  <2>3. /\ 0 \in 0 .. MAX_SPAWN_POINTS
        /\ spawnTeamId \in [Points -> Teams] /\ playerTeam \in [Players -> Teams]
        /\ playerRaceVehicle \in [Players -> Vehicles \cup {NoVehicle, INVALID_VEHICLE_ID}]
    BY SizesAssumption, Distinguished DEF Init
  <2> QED
    BY <1>1, <2>1, <2>2, <2>3 DEF Init, TypeOK
<1>3. PointsExist
  BY SizesAssumption DEF Init, PointsExist, Nowhere
<1>4. VehicleIsOnesOwn
  BY Distinguished DEF Init, VehicleIsOnesOwn
<1>5. NoVehicleIsLost
  BY <1>1 DEF NoVehicleIsLost
<1> QED
  BY <1>2, <1>3, <1>4, <1>5 DEF Owned

LEMMA OwnedStep == Owned /\ [Next]_vars => Owned'
<1> SUFFICES ASSUME Owned, [Next]_vars PROVE Owned'
  OBVIOUS
<1> USE DEF points, race, people
<1>1. ASSUME NEW team \in Teams, AddSpawnPos(team) PROVE Owned'
  <2>1. VehicleIsOnesOwn' /\ NoVehicleIsLost' /\ Alive' = Alive
    BY <1>1, PoolUnchanged DEF AddSpawnPos
  <2>2. TypeOK'
    BY <1>1, <2>1, SizesAssumption DEF AddSpawnPos, Owned, TypeOK, Points
  <2>3. PointsExist'
    BY <1>1, SizesAssumption, SMTT(30) DEF AddSpawnPos, Owned, TypeOK, PointsExist, Points
  <2> QED
    BY <2>1, <2>2, <2>3 DEF Owned
<1>2. CASE UnloadGame
  <2>1. VehicleIsOnesOwn' /\ NoVehicleIsLost' /\ Alive' = Alive
    BY <1>2, PoolUnchanged DEF UnloadGame
  <2>2. TypeOK'
    <3>1. <<>> \in Seq(Points) /\ 0 \in 0 .. MAX_SPAWN_POINTS
      BY SizesAssumption
    <3>2. Nowhere \in Points \cup {-1}
      BY Distinguished DEF Nowhere
    <3> QED
      BY <1>2, <2>1, <3>1, <3>2, Distinguished DEF UnloadGame, Owned, TypeOK
  <2>3. PointsExist'
    BY <1>2, SizesAssumption DEF UnloadGame, PointsExist, Nowhere
  <2> QED
    BY <2>1, <2>2, <2>3 DEF Owned
<1>3. ASSUME NEW b \in BOOLEAN, SetGameType(b) PROVE Owned'
  <2>1. VehicleIsOnesOwn' /\ NoVehicleIsLost' /\ Alive' = Alive
    BY <1>3, PoolUnchanged DEF SetGameType
  <2> QED
    BY <1>3, <2>1 DEF SetGameType, Owned, TypeOK, PointsExist
<1>4. ASSUME NEW m \in Models, SetRaceVehicle(m) PROVE Owned'
  <2>1. VehicleIsOnesOwn' /\ NoVehicleIsLost' /\ Alive' = Alive
    BY <1>4, PoolUnchanged DEF SetRaceVehicle
  <2> QED
    BY <1>4, <2>1 DEF SetRaceVehicle, Owned, TypeOK, PointsExist
<1>5. ASSUME NEW p \in Players, NEW i \in 0 .. numberOfSpawnPositions - 1, SpawnAt(p, i)
      PROVE  /\ at' \in [Players -> Points \cup {-1}]
             /\ \A q \in Players : at'[q] < numberOfSpawnPositions
  <2>1. i \in Points \cup {-1}
    BY <1>5, SizesAssumption DEF Owned, TypeOK, Points
  <2>2. i < numberOfSpawnPositions
    BY <1>5 DEF Owned, TypeOK
  <2> QED
    BY <1>5, <2>1, <2>2 DEF SpawnAt, Owned, TypeOK, PointsExist
<1>6. ASSUME NEW p \in Players, SpawnPlayerAtRandomPos(p) PROVE Owned'
  <2>1. VehicleIsOnesOwn' /\ NoVehicleIsLost' /\ Alive' = Alive
    BY <1>6, PoolUnchanged DEF SpawnPlayerAtRandomPos
  <2>2. SpawnIds(playerTeam[p]) \subseteq 0 .. numberOfSpawnPositions - 1
    BY DEF SpawnIds, TeamPoints, Registered, Owned, TypeOK
  <2>3. /\ at' \in [Players -> Points \cup {-1}]
        /\ \A q \in Players : at'[q] < numberOfSpawnPositions
    BY <1>5, <1>6, <2>2 DEF SpawnPlayerAtRandomPos, Registered
  <2> QED
    BY <1>6, <2>1, <2>3 DEF SpawnPlayerAtRandomPos, Owned, TypeOK, PointsExist
<1>7. ASSUME NEW p \in Players, SpawnPlayerAtUniquePos(p) PROVE Owned'
  <2>1. /\ playerRaceVehicle' \in [Players -> Vehicles \cup {NoVehicle, INVALID_VEHICLE_ID}]
        /\ Alive' \subseteq Vehicles /\ madeFor' \in [Alive' -> Players \cup {Nobody}]
        /\ VehicleIsOnesOwn' /\ NoVehicleIsLost'
    <3>1. CASE isRace
      BY <1>7, <3>1, CreateKeeps DEF SpawnPlayerAtUniquePos
    <3>2. CASE ~isRace
      BY <1>7, <3>2, PoolUnchanged DEF SpawnPlayerAtUniquePos, Owned, TypeOK
    <3> QED
      BY <3>1, <3>2
  <2>2. NextPoint \in 0 .. numberOfSpawnPositions - 1 /\ NextPoint \in Points
    BY <1>7, NextPointExists DEF SpawnPlayerAtUniquePos, Owned
  <2>3. /\ at' \in [Players -> Points \cup {-1}]
        /\ \A q \in Players : at'[q] < numberOfSpawnPositions
    BY <1>5, <1>7, <2>2 DEF SpawnPlayerAtUniquePos
  <2>4. /\ currentUniqueSpawnId' \in 0 .. MAX_SPAWN_POINTS
        /\ currentUniqueSpawnId' <= numberOfSpawnPositions
        /\ UNCHANGED <<spawnTeamId, numberOfSpawnPositions>>
    <3>1. numberOfSpawnPositions \in 0 .. MAX_SPAWN_POINTS
      BY DEF Owned, TypeOK
    <3>2. currentUniqueSpawnId' = NextPoint + 1 /\ UNCHANGED <<spawnTeamId, numberOfSpawnPositions>>
      BY <1>7 DEF SpawnPlayerAtUniquePos, TakeTurn
    <3> QED
      BY <2>2, <3>1, <3>2, SizesAssumption
  <2>5. turns' \in Seq(Points)
    <3>1. Append(turns, NextPoint) \in Seq(Points)
      BY <2>2 DEF Owned, TypeOK
    <3> QED
      BY <1>7, <3>1, LastTurnsAreTheEnd DEF SpawnPlayerAtUniquePos, TakeTurn
  <2> QED
    BY <1>7, <2>1, <2>3, <2>4, <2>5 DEF SpawnPlayerAtUniquePos, Owned, TypeOK, PointsExist
<1>8. ASSUME NEW p \in Players, CreatePlayerRaceVehicle(p) PROVE Owned'
  BY <1>8, CreateKeeps DEF CreatePlayerRaceVehicle, Owned, TypeOK, PointsExist
<1>9. ASSUME NEW p \in Players, DestroyPlayerRaceVehicle(p) PROVE Owned'
  BY <1>9, DestroyKeeps DEF DestroyPlayerRaceVehicle, Owned, TypeOK, PointsExist
<1>10. ASSUME NEW p \in Players, PlayerConnect(p) PROVE Owned'
  <2>1. VehicleIsOnesOwn' /\ NoVehicleIsLost' /\ Alive' = Alive
    BY <1>10, PoolUnchanged DEF PlayerConnect
  <2>2. /\ at' \in [Players -> Points \cup {-1}]
        /\ \A q \in Players : at'[q] < numberOfSpawnPositions
    <3>1. Nowhere \in Points \cup {-1} /\ Nowhere = -1
      BY Distinguished DEF Nowhere
    <3> QED
      BY <1>10, <3>1 DEF PlayerConnect, Owned, TypeOK, PointsExist
  <2> QED
    BY <1>10, <2>1, <2>2, Distinguished DEF PlayerConnect, Owned, TypeOK, PointsExist
<1>11. ASSUME NEW p \in Players, PlayerDisconnect(p) PROVE Owned'
  <2>1. VehicleIsOnesOwn' /\ NoVehicleIsLost' /\ Alive' = Alive
    BY <1>11, PoolUnchanged DEF PlayerDisconnect
  <2> QED
    BY <1>11, <2>1 DEF PlayerDisconnect, Owned, TypeOK, PointsExist
<1>12. ASSUME NEW p \in Players, NEW team \in Teams, SetPlayerTeam(p, team) PROVE Owned'
  <2>1. VehicleIsOnesOwn' /\ NoVehicleIsLost' /\ Alive' = Alive
    BY <1>12, PoolUnchanged DEF SetPlayerTeam
  <2> QED
    BY <1>12, <2>1 DEF SetPlayerTeam, Owned, TypeOK, PointsExist
<1>13. ASSUME NEW v \in Vehicles, OnVehicleSpawn(v) PROVE Owned'
  <2>1. CASE Owners(v) = {}
    <3>1. VehicleIsOnesOwn' /\ NoVehicleIsLost' /\ Alive' = Alive
      BY <1>13, <2>1, PoolUnchanged DEF OnVehicleSpawn
    <3> QED
      BY <1>13, <2>1, <3>1 DEF OnVehicleSpawn, Owned, TypeOK, PointsExist
  <2>2. CASE Owners(v) # {}
    <3>1. PICK p \in Owners(v) : DestroyPlayerVehicle(p)
      BY <1>13, <2>2 DEF OnVehicleSpawn
    <3>2. p \in Players
      BY DEF Owners, Searched
    <3> QED
      BY <1>13, <3>1, <3>2, DestroyKeeps DEF OnVehicleSpawn, Owned, TypeOK, PointsExist
  <2> QED
    BY <2>1, <2>2
<1>14. ASSUME NEW v \in Vehicles, OtherVehicleMade(v) PROVE Owned'
  <2>1. /\ Alive' = Alive \cup {v} /\ madeFor'[v] = Nobody
        /\ \A u \in Alive : madeFor'[u] = madeFor[u]
    BY <1>14 DEF OtherVehicleMade, Alive, Made
  <2>2. Alive' \subseteq Vehicles /\ madeFor' \in [Alive' -> Players \cup {Nobody}]
    BY <1>14, PoolTyping DEF OtherVehicleMade, Owned, Alive
  <2>3. VehicleIsOnesOwn'
    BY <1>14, <2>1 DEF OtherVehicleMade, Owned, VehicleIsOnesOwn
  <2>4. NoVehicleIsLost'
    BY <1>14, <2>1 DEF OtherVehicleMade, Owned, NoVehicleIsLost
  <2> QED
    BY <1>14, <2>1, <2>2, <2>3, <2>4 DEF OtherVehicleMade, Owned, TypeOK, PointsExist
<1>15. ASSUME NEW v \in Vehicles, OtherVehicleDestroyed(v) PROVE Owned'
  <2>1. /\ Alive' = Alive \ {v} /\ madeFor[v] = Nobody
        /\ \A u \in Alive' : madeFor'[u] = madeFor[u]
    BY <1>15 DEF OtherVehicleDestroyed, Alive, Gone
  <2>2. Alive' \subseteq Vehicles /\ madeFor' \in [Alive' -> Players \cup {Nobody}]
    BY <1>15, PoolTyping, Distinguished DEF OtherVehicleDestroyed, Owned, Alive
  <2>3. VehicleIsOnesOwn'
    BY <1>15, <2>1, Distinguished DEF OtherVehicleDestroyed, Owned, VehicleIsOnesOwn, Players
  <2>4. NoVehicleIsLost'
    BY <1>15, <2>1 DEF OtherVehicleDestroyed, Owned, NoVehicleIsLost
  <2> QED
    BY <1>15, <2>1, <2>2, <2>3, <2>4 DEF OtherVehicleDestroyed, Owned, TypeOK, PointsExist
<1>16. CASE UNCHANGED vars
  <2>1. VehicleIsOnesOwn' /\ NoVehicleIsLost' /\ Alive' = Alive
    BY <1>16, PoolUnchanged DEF vars
  <2> QED
    BY <1>16, <2>1 DEF vars, Owned, TypeOK, PointsExist
<1> QED
  BY <1>1, <1>2, <1>3, <1>4, <1>6, <1>7, <1>8, <1>9, <1>10, <1>11, <1>12, <1>13, <1>14,
     <1>15, <1>16 DEF Next

\* TypeOK: every variable keeps its type.
THEOREM TypeCorrect == Spec => []TypeOK
<1>1. Owned => TypeOK
  BY DEF Owned
<1> QED
  BY InitOwned, OwnedStep, <1>1, PTL DEF Spec

\* PointsExist: nobody is put at a point the game has not added.
THEOREM PointsAlwaysExist == Spec => []PointsExist
<1>1. Owned => PointsExist
  BY DEF Owned
<1> QED
  BY InitOwned, OwnedStep, <1>1, PTL DEF Spec

\* VehicleIsOnesOwn: the vehicle remembered for a player is the player's own,
\* whatever ids the server uses again.
THEOREM VehiclesAreOnesOwn == Spec => []VehicleIsOnesOwn
<1>1. Owned => VehicleIsOnesOwn
  BY DEF Owned
<1> QED
  BY InitOwned, OwnedStep, <1>1, PTL DEF Spec

\* NoVehicleIsLost: there is never a race vehicle nobody remembers.
THEOREM NoVehicleIsEverLost == Spec => []NoVehicleIsLost
<1>1. Owned => NoVehicleIsLost
  BY DEF Owned
<1> QED
  BY InitOwned, OwnedStep, <1>1, PTL DEF Spec

-----------------------------------------------------------------------------
(* Turns: two of them less than n apart differ by the distance, or by the   *)
(* distance less n.                                                         *)

Walk(s, n) ==
  /\ \A i \in 1 .. Len(s) : s[i] < n
  /\ \A i, j \in 1 .. Len(s) :
       i <= j /\ j - i < n => s[j] = s[i] + (j - i) \/ s[j] = s[i] + (j - i) - n

\* One step further round a circle of n points.
LEMMA NextOnTheCircle ==
  ASSUME NEW n \in Nat \ {0}, NEW a \in Nat, NEW b \in Nat, NEW e \in Nat, NEW x \in Nat,
         a < n, b < n, e + 1 < n,
         b = a + e \/ b = a + e - n,
         x = IF b + 1 = n THEN 0 ELSE b + 1
  PROVE  x = a + (e + 1) \/ x = a + (e + 1) - n
<1>1. CASE b + 1 = n
  BY <1>1
<1>2. CASE b + 1 # n
  BY <1>2
<1> QED
  BY <1>1, <1>2

\* The next turn continues the walk.
LEMMA WalkGoesOn ==
  ASSUME NEW n \in Nat \ {0}, NEW s \in Seq(Points), Walk(s, n),
         NEW c \in 0 .. n, Len(s) > 0 => c = s[Len(s)] + 1,
         NEW x \in Points, x = IF c = n THEN 0 ELSE c
  PROVE  Walk(Append(s, x), n)
<1> DEFINE t == Append(s, x)
<1>1. /\ Len(s) \in Nat /\ Len(t) = Len(s) + 1 /\ t[Len(s) + 1] = x
      /\ \A i \in 1 .. Len(s) : t[i] = s[i] /\ s[i] \in Nat
      /\ x \in Nat
  BY SizesAssumption DEF Points
<1>2. x < n
  OBVIOUS
<1>3. ASSUME NEW i \in 1 .. Len(s), Len(s) + 1 - i < n
      PROVE  x = s[i] + (Len(s) + 1 - i) \/ x = s[i] + (Len(s) + 1 - i) - n
  <2> DEFINE m == Len(s)
  <2>1. m \in 1 .. Len(s) /\ i <= m /\ m - i < n /\ m > 0
    BY <1>1, <1>3
  <2>2. s[m] = s[i] + (m - i) \/ s[m] = s[i] + (m - i) - n
    BY <2>1 DEF Walk
  <2>3. c = s[m] + 1 /\ s[m] \in Nat /\ s[i] \in Nat /\ s[i] < n /\ s[m] < n
    BY <1>1, <2>1 DEF Walk
  <2>4. m - i \in Nat /\ (m - i) + 1 < n /\ (m - i) + 1 = Len(s) + 1 - i
    BY <1>1, <1>3, <2>1
  <2>5. x = IF s[m] + 1 = n THEN 0 ELSE s[m] + 1
    BY <2>3
  <2>6. x = s[i] + ((m - i) + 1) \/ x = s[i] + ((m - i) + 1) - n
    <3> DEFINE a == s[i]
               b == s[m]
               e == m - i
    <3>1. /\ a \in Nat /\ b \in Nat /\ e \in Nat /\ a < n /\ b < n /\ e + 1 < n
          /\ b = a + e \/ b = a + e - n
          /\ x = IF b + 1 = n THEN 0 ELSE b + 1
      BY <2>2, <2>3, <2>4, <2>5
    <3>2. x \in Nat
      BY <1>1
    <3> HIDE DEF a, b, e
    <3>3. x = a + (e + 1) \/ x = a + (e + 1) - n
      BY <3>1, <3>2, NextOnTheCircle
    <3> QED
      BY <3>3 DEF a, e
  <2> QED
    BY <2>4, <2>6
<1>4. \A i \in 1 .. Len(t) : t[i] < n
  BY <1>1, <1>2 DEF Walk
<1>5. ASSUME NEW i \in 1 .. Len(t), NEW j \in 1 .. Len(t), i <= j, j - i < n
      PROVE  t[j] = t[i] + (j - i) \/ t[j] = t[i] + (j - i) - n
  <2>1. CASE j = Len(t) /\ i = Len(t)
    BY <1>1, <2>1
  <2>2. CASE j = Len(t) /\ i # Len(t)
    <3>1. i \in 1 .. Len(s) /\ j = Len(s) + 1
      BY <1>1, <2>2
    <3> QED
      BY <1>1, <1>3, <1>5, <3>1
  <2>3. CASE j # Len(t)
    <3>1. i \in 1 .. Len(s) /\ j \in 1 .. Len(s)
      BY <1>1, <1>5, <2>3
    <3> QED
      BY <1>1, <1>5, <3>1 DEF Walk
  <2> QED
    BY <2>1, <2>2, <2>3
<1> QED
  BY <1>4, <1>5 DEF Walk

\* The end of a walk is a walk.
LEMMA WalkEnds ==
  ASSUME NEW n \in Nat \ {0}, NEW s \in Seq(Points), Walk(s, n), Len(s) > 0
  PROVE  /\ Walk(LastTurns(s), n)
         /\ LastTurns(s) # <<>> /\ LastTurns(s)[Len(LastTurns(s))] = s[Len(s)]
<1> DEFINE t == LastTurns(s)
<1>1. PICK d \in Nat : /\ Len(t) = Len(s) - d
                       /\ \A k \in 1 .. Len(s) - d : t[k] = s[k + d]
  BY LastTurnsAreTheEnd
<1>2. Len(s) \in Nat /\ t \in Seq(Points)
  BY LastTurnsAreTheEnd
<1>3. \A k \in 1 .. Len(t) : k + d \in 1 .. Len(s) /\ t[k] = s[k + d]
  BY <1>1, <1>2
<1>4. \A k \in 1 .. Len(t) : t[k] < n
  BY <1>3 DEF Walk
<1>5. ASSUME NEW i \in 1 .. Len(t), NEW j \in 1 .. Len(t), i <= j, j - i < n
      PROVE  t[j] = t[i] + (j - i) \/ t[j] = t[i] + (j - i) - n
  <2>1. i + d \in 1 .. Len(s) /\ j + d \in 1 .. Len(s) /\ i + d <= j + d
        /\ (j + d) - (i + d) = j - i
    BY <1>3, <1>5
  <2>2. s[j + d] = s[i + d] + (j - i) \/ s[j + d] = s[i + d] + (j - i) - n
    BY <1>5, <2>1 DEF Walk
  <2> QED
    BY <1>3, <2>2
<1>6. Len(t) > 0
  BY SizesAssumption DEF LastTurns
<1> QED
  BY <1>1, <1>2, <1>3, <1>4, <1>5, <1>6 DEF Walk

\* The points that have come up since the points last changed are a walk, and
\* the next turn is the one after the last.
TurnsWalk ==
  turns # <<>> =>
    /\ numberOfSpawnPositions > 0
    /\ Walk(turns, numberOfSpawnPositions)
    /\ currentUniqueSpawnId = turns[Len(turns)] + 1

TInv == Owned /\ TurnsWalk

LEMMA TurnsStep == TInv /\ [Next]_vars => TInv'
<1> SUFFICES ASSUME TInv, [Next]_vars PROVE TurnsWalk'
  BY OwnedStep DEF TInv
<1> USE DEF points, race, people
<1>1. CASE UNCHANGED points
  BY <1>1 DEF TInv, TurnsWalk, Walk
<1>2. CASE turns' = <<>>
  BY <1>2 DEF TurnsWalk
<1>3. ASSUME NEW p \in Players, SpawnPlayerAtUniquePos(p) PROVE TurnsWalk'
  <2> DEFINE n == numberOfSpawnPositions
             s == Append(turns, NextPoint)
  <2>1. n \in Nat \ {0} /\ currentUniqueSpawnId \in 0 .. n
    BY <1>3, SizesAssumption DEF SpawnPlayerAtUniquePos, TInv, Owned, TypeOK, PointsExist
  <2>2. NextPoint \in Points
    BY <1>3, NextPointExists DEF SpawnPlayerAtUniquePos, TInv, Owned
  <2>3. turns \in Seq(Points) /\ s \in Seq(Points)
    BY <2>2 DEF TInv, Owned, TypeOK
  <2>4. Walk(turns, n) /\ (Len(turns) > 0 => currentUniqueSpawnId = turns[Len(turns)] + 1)
    <3>1. CASE turns = <<>>
      BY <3>1 DEF Walk
    <3>2. CASE turns # <<>>
      BY <3>2 DEF TInv, TurnsWalk
    <3> QED
      BY <3>1, <3>2
  <2>5. Walk(s, n)
    BY <2>1, <2>2, <2>3, <2>4, WalkGoesOn DEF NextPoint
  <2>6. Len(s) > 0 /\ s[Len(s)] = NextPoint
    BY <2>3
  <2>7. /\ Walk(LastTurns(s), n) /\ LastTurns(s)[Len(LastTurns(s))] = NextPoint
    BY <2>1, <2>3, <2>5, <2>6, WalkEnds
  <2>8. turns' = LastTurns(s) /\ numberOfSpawnPositions' = n
        /\ currentUniqueSpawnId' = NextPoint + 1
    BY <1>3 DEF SpawnPlayerAtUniquePos, TakeTurn
  <2> QED
    BY <2>1, <2>7, <2>8 DEF TurnsWalk, Walk
<1> QED
  BY <1>1, <1>2, <1>3 DEF Next, AddSpawnPos, UnloadGame, SetGameType, SetRaceVehicle,
     SpawnPlayerAtRandomPos, CreatePlayerRaceVehicle, DestroyPlayerRaceVehicle, PlayerConnect,
     PlayerDisconnect, SetPlayerTeam, OnVehicleSpawn, OtherVehicleMade,
     OtherVehicleDestroyed, vars

\* UniqueTurns: for any number of points, added and used in any order, a point
\* does not come up again before all the others have.
THEOREM TurnsAreUnique == Spec => []UniqueTurns
<1>1. Init => TInv
  BY InitOwned DEF Init, TInv, TurnsWalk
<1>2. ASSUME TInv PROVE UniqueTurns
  <2> SUFFICES ASSUME NEW i \in DOMAIN turns, NEW j \in DOMAIN turns,
                      i < j, j - i < numberOfSpawnPositions
               PROVE  turns[i] # turns[j]
    BY DEF UniqueTurns
  <2>1. /\ turns \in Seq(Points) /\ numberOfSpawnPositions \in Nat
        /\ i \in 1 .. Len(turns) /\ j \in 1 .. Len(turns) /\ turns # <<>>
        /\ turns[i] \in Int /\ turns[j] \in Int
    BY <1>2, SizesAssumption DEF TInv, Owned, TypeOK, Points
  <2>2. i <= j /\ i \in Int /\ j \in Int /\ j - i > 0
    BY <2>1
  <2>3. Walk(turns, numberOfSpawnPositions)
    BY <1>2, <2>1 DEF TInv, TurnsWalk
  <2>4. \/ turns[j] = turns[i] + (j - i)
        \/ turns[j] = turns[i] + (j - i) - numberOfSpawnPositions
    BY <2>1, <2>2, <2>3 DEF Walk
  <2> DEFINE a == turns[i]
             b == turns[j]
             e == j - i
             n == numberOfSpawnPositions
  <2>5. /\ a \in Int /\ e \in Int /\ n \in Int /\ e > 0 /\ e < n
        /\ b = a + e \/ b = a + e - n
    BY <2>1, <2>2, <2>4
  <2> HIDE DEF a, b, e, n
  <2>6. a # b
    BY <2>5
  <2> QED
    BY <2>6 DEF a, b
<1> QED
  BY <1>1, <1>2, TurnsStep, PTL DEF Spec
===============================================================================
