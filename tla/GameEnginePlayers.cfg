SPECIFICATION Spec
SYMMETRY Symmetric
CONSTANTS
  dm = dm
  race = race
  Games <- MCGames
  Files <- MCFiles
  NoFile = NoFile
  RaceGames <- MCRaceGames
  GameLists <- MCOneList
  Players = {p1, p2}
  NoPlayer = NoPlayer
  INVALID_GAME_ID <- MCInvalidGame
  TimerIds = {t1, t2, t3}
  NoTimer = NoTimer
  Unkept = Unkept
  GAME_LOAD_TIMEOUT = 6
  EXIT_DELAY = 11
  SHOW_DELAY = 10
  RESPAWN_DELAY = 5
  PLAYER_SHOW_DELAY = 6
  MaxTimers = 4
INVARIANTS
  TypeOK
  SilentGamesAreTimed
  NothingOldInterruptsPlay
  BlackOutsidePlay
  TextdrawsFollowPlay
