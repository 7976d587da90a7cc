SPECIFICATION FairSpec
CONSTANTS
  Players = {p1, p2}
  TimerIds = {t1, t2}
  NoTimer = NoTimer
  LAST = 2
  MaxTextdraw = 1
  INVALID_TEXT_DRAW = INVALID
INVARIANTS
  TypeOK
  OneFadeEach
  ScreenIsAsAsked
  FadeTextdrawIsSafe
  MessageOnlyForTheDead
PROPERTIES
  FadesAreSmooth
  FadesEnd
