SPECIFICATION PlayersSpec
CONSTANTS
  Half = 128
  MaxPlayers = 3
  INVALID = 99
  CELLMIN = 98
  Names <- MCNames
  NoName = NoName
  Bots <- MCBots
  Garbage <- MCGarbage
  Scripts = {gamemode, filterscript}
  Settable = {"CELLMIN_ON_MATCHES"}
  MostUncounted = 1
SYMMETRY Symmetric
INVARIANTS
  PlayersAreKnown
  LookupsAreSound

