SPECIFICATION FairSpec
CONSTANTS
  dm = dm
  race = race
  Games <- MCGames
  Files <- MCFiles
  NoFile = NoFile
  RaceGames <- MCRaceGames
  GameLists <- MCGameLists
  Players = {p1}
  NoPlayer = NoPlayer
  INVALID_GAME_ID <- MCInvalidGame
  TimerIds = {t1, t2, t3}
  NoTimer = NoTimer
  Unkept = Unkept
  GAME_LOAD_TIMEOUT = 6
  EXIT_DELAY = 11
  SHOW_DELAY = 10
  RESPAWN_DELAY = 5
  PLAYER_SHOW_DELAY = 6
  MaxTimers = 3
INVARIANTS
  TimersAreHeld
  NothingOfAnotherGame
  ExitBelongsToAGame
PROPERTIES
  ImplementsLifecycle
  ServerSettles
