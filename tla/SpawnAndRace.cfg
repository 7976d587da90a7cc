SPECIFICATION Spec
SYMMETRY Symmetric
CONSTANTS
  SLOTS = 2
  MAX_SPAWN_POINTS = 2
  Teams <- MCOneTeam
  NO_TEAM <- MCNoTeam
  Models = {m1}
  NoModel = NoModel
  Vehicles = {v1, v2}
  NoVehicle = NoVehicle
  INVALID_VEHICLE_ID = INVALID
  Nobody <- MCNobody
INVARIANTS
  TypeOK
  PointsExist
  UniqueTurns
  VehicleIsOnesOwn
  NoVehicleIsLost
