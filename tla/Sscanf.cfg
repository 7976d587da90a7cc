SPECIFICATION Spec
CONSTANTS
  Half = 128
  MaxPlayers = 1
  INVALID = 99
  CELLMIN = 98
  Names <- MCNames
  NoName = NoName
  Bots <- MCBots
  Garbage <- MCGarbage
  Scripts = {gamemode}
  Settable = {}
  MostUncounted = 0
  Untouched = Untouched
  Publics <- MCPublics
  NoCall = NoCall
  Calls <- MCCalls
INVARIANTS
  TypeOK
  NeverPastTheDestinations
  EndsInTime
  FieldsAreRead
  WordsSurvive
  GroupsAreFilled

