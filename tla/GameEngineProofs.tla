--------------------------- MODULE GameEngineProofs ---------------------------
(* Proofs about GameEngine for every set of games, players and timer ids.  *)
EXTENDS GameEngine, TLAPS

-----------------------------------------------------------------------------
(* Typing.                                                                 *)

\* What the unloader leaves of the timers is a set of timers.
LEMMA KeptTyping ==
  ASSUME TypeOK
  PROVE  /\ TimersKept \subseteq TimerRecords
         /\ \A T, h : KillTimer(T, h) \subseteq T
         /\ ScriptsKept \subseteq filterscripts
         /\ MetaKept \in Files \cup {NoFile}
         /\ SpawnsKept \subseteq Files
         /\ FadedOnUnload \subseteq connected
         /\ TimeoutKept \in TimerIds \cup {NoTimer}
<1> USE DEF TypeOK, KillTimer
<1>1. {Forgotten("ShowGameChangeTDs", SHOW_DELAY), Forgotten("RespawnAllPlayers", RESPAWN_DELAY)}
        \subseteq TimerRecords
  BY DelaysAssumption DEF Forgotten, Timer, TimerRecords, Callbacks
<1>2. \A T, h : KillTimer(T, h) \subseteq T
  OBVIOUS
<1>3. TimersKept \subseteq TimerRecords
  BY <1>1 DEF TimersKept
<1>4. QED
  BY <1>2, <1>3 DEF ScriptsKept, MetaKept, SpawnsKept, FadedOnUnload, TimeoutKept

\* A timer whose id is kept is a timer.
LEMMA NewTimerTyping ==
  ASSUME NEW h \in TimerIds
  PROVE  /\ Kept(h, "GameLoadTimeout", GAME_LOAD_TIMEOUT) \in TimerRecords
         /\ Kept(h, "ExitGameChangerScreen", EXIT_DELAY) \in TimerRecords
BY DelaysAssumption DEF Kept, Timer, TimerRecords, Callbacks

\* Half a second changes nothing of a timer but the time it has left.
LEMMA AgedTyping ==
  ASSUME NEW t \in TimerRecords
  PROVE  /\ t.left > 0 => Aged(t) \in TimerRecords
         /\ Aged(t).id = t.id /\ Aged(t).fn = t.fn /\ Aged(t).player = t.player
         /\ Aged(t).left = t.left - 1
BY DEF Aged, TimerRecords

\* A choice from a list is a slot of the cache, or -1.
LEMMA ChoiceTyping ==
  ASSUME TypeOK, NEW list \in {fileOf} \cup GameLists, NEW g \in Choices(list)
  PROVE  /\ list \in [Games -> Files \cup {NoFile}]
         /\ g \in Games \cup {INVALID_GAME_ID}
         /\ FileName(list, g) \in Files \cup {NoFile}
BY ListsAssumption DEF TypeOK, Choices, FileName

\* Every step preserves the types.
LEMMA TypingStep == TypeOK /\ [Next]_vars => TypeOK'
<1> SUFFICES ASSUME TypeOK, [Next]_vars PROVE TypeOK'
  OBVIOUS
<1>0. TimersKept \subseteq TimerRecords /\ \A T, h : KillTimer(T, h) \subseteq T
  BY KeptTyping
<1>1. ASSUME NEW list \in {fileOf} \cup GameLists, NEW h \in TimerIds,
             NEW g \in Choices(list), BeginLoad(list, g)
      PROVE  /\ (LoadMissing(list, g, h) => TypeOK')
             /\ (LoadSilent(list, g, h) => TypeOK')
             /\ (LoadAnswered(list, g, h) => TypeOK')
  <2>1. list \in [Games -> Files \cup {NoFile}] /\ g \in Games \cup {INVALID_GAME_ID}
        /\ FileName(list, g) \in Files \cup {NoFile}
    BY ChoiceTyping
  <2>2. Armed(h) \subseteq TimerRecords
    BY <1>0, NewTimerTyping DEF Armed
  <2>3. Answered(KillTimer(TimersKept, TimeoutKept), h) \subseteq TimerRecords
    <3>1. KillTimer(TimersKept, TimeoutKept) \subseteq TimerRecords
      BY <1>0
    <3> QED
      BY <1>0, <3>1, NewTimerTyping DEF Answered
  <2>4. GameData(FileName(list, g)) /\ FileName(list, g) # NoFile =>
          /\ metaOf' \in Files \cup {NoFile} /\ raceOf' \in Files \cup {NoFile}
          /\ spawnsOf' \subseteq Files
    BY <2>1, KeptTyping DEF GameData, TypeOK
  <2>5. /\ fileOf' \in [Games -> Files \cup {NoFile}]
        /\ currentGameId' \in Games \cup {INVALID_GAME_ID} /\ playing' \in BOOLEAN
        /\ connected' \subseteq Players /\ faded' \subseteq connected'
        /\ shown' \subseteq connected' /\ tdsCreated' \in BOOLEAN
    BY <1>1, <2>1, KeptTyping DEF BeginLoad, TypeOK
  <2>6. ScriptsKept \subseteq Files
    BY KeptTyping DEF TypeOK
  <2>7. LoadMissing(list, g, h) => TypeOK'
    BY <2>2, <2>5, <2>6, KeptTyping DEF LoadMissing, TypeOK
  <2>8. LoadSilent(list, g, h) => TypeOK'
    BY <2>1, <2>2, <2>4, <2>5, <2>6 DEF LoadSilent, TypeOK
  <2>9. LoadAnswered(list, g, h) => TypeOK'
    BY <2>1, <2>3, <2>4, <2>5, <2>6 DEF LoadAnswered, TypeOK
  <2> QED
    BY <2>7, <2>8, <2>9
<1>2. CASE LoadGame
  BY <1>1, <1>2 DEF LoadGame, LoadMissing, LoadSilent, LoadAnswered
<1>3. UnloadData => /\ filterscripts' \subseteq Files /\ initialised' \subseteq filterscripts'
                    /\ playing' \in BOOLEAN
                    /\ metaOf' \in Files \cup {NoFile} /\ raceOf' \in Files \cup {NoFile}
                    /\ spawnsOf' \subseteq Files
                    /\ connected' \subseteq Players /\ faded' \subseteq connected'
                    /\ shown' \subseteq connected' /\ tdsCreated' \in BOOLEAN
  BY KeptTyping DEF UnloadData, TypeOK
<1>4. CASE UnloadGame
  BY <1>3, <1>4, KeptTyping DEF UnloadGame, TypeOK
<1>5. ASSUME NEW f \in Files, NEW h \in TimerIds, InitTheGame(f, h) PROVE TypeOK'
  <2>1. Answered(timers, h) \subseteq TimerRecords
    BY <1>0, NewTimerTyping DEF Answered, TypeOK
  <2> QED
    BY <1>5, <2>1 DEF InitTheGame, TypeOK, handlers, screens
<1>6. ASSUME NEW t \in timers, GameLoadTimeout(t) PROVE TypeOK'
  BY <1>3, <1>6, KeptTyping DEF GameLoadTimeout, TypeOK, handles, scripts, handlers, screens
<1>7. ASSUME NEW t \in timers, ExitGameChangerScreen(t) PROVE TypeOK'
  BY <1>7 DEF ExitGameChangerScreen, TypeOK, scripts, handlers, screens
<1>8. ASSUME NEW t \in timers,
             RespawnAllPlayers(t) \/ ShowGameChangeTDs(t) \/ ShowGameChangeTDSForPlayer(t)
      PROVE  TypeOK'
  BY <1>8 DEF RespawnAllPlayers, ShowGameChangeTDs, ShowGameChangeTDSForPlayer, TypeOK,
              handles, scripts, handlers, screens
<1>9. ASSUME NEW p \in Players, PlayerConnect(p) PROVE TypeOK'
  <2>1. Timer(Unkept, "ShowGameChangeTDSForPlayer", p, PLAYER_SHOW_DELAY) \in TimerRecords
    BY DelaysAssumption DEF Timer, TimerRecords, Callbacks
  <2> QED
    BY <1>9, <2>1 DEF PlayerConnect, TypeOK, handles, scripts, handlers
<1>10. ASSUME NEW p \in Players, PlayerDisconnect(p) PROVE TypeOK'
  BY <1>10 DEF PlayerDisconnect, TypeOK, handles, scripts, handlers
<1>11. CASE Tick
  <2>1. \A t \in timers : Aged(t) \in TimerRecords
    BY <1>11, AgedTyping DEF Tick, TypeOK
  <2> QED
    BY <1>11, <2>1 DEF Tick, TypeOK, handles, scripts, handlers, screens
<1>12. CASE RestartGameMode
  <2>1. Forgotten("ShowGameChangeTDs", SHOW_DELAY) \in TimerRecords
    BY DelaysAssumption DEF Forgotten, Timer, TimerRecords, Callbacks
  <2> QED
    BY <1>12, <2>1, KeptTyping, ListsAssumption DEF RestartGameMode, TypeOK
<1>13. CASE UNCHANGED vars
  BY <1>13 DEF vars, TypeOK, handles, scripts, handlers, screens
<1> QED
  BY <1>2, <1>4, <1>5, <1>6, <1>7, <1>8, <1>9, <1>10, <1>11, <1>12, <1>13
  DEF Next, Answers, TimerFires

LEMMA InitTyping == Init => TypeOK
<1>1. Forgotten("ShowGameChangeTDs", SHOW_DELAY) \in TimerRecords
  BY DelaysAssumption DEF Forgotten, Timer, TimerRecords, Callbacks
<1> QED
  BY <1>1, ListsAssumption DEF Init, TypeOK

\* Every variable keeps its type: the type invariant of gameLoader.pwn,
\* gameUnloader.pwn and gameChanger.pwn together.
THEOREM TypeCorrect == Spec => []TypeOK
<1> QED
  BY InitTyping, TypingStep, PTL DEF Spec

-----------------------------------------------------------------------------
(* The timers and their handles.                                           *)

\* A kept id is a real one, a forgotten timer has none.
IdsAreKept ==
  \A t \in timers :
    IF t.fn \in {"GameLoadTimeout", "ExitGameChangerScreen"}
    THEN t.id \in TimerIds ELSE t.id = Unkept

\* Killing one handle never kills the timer of the other, although
\* exitGameChangerTimer is left with the id of a dead timer after an unload.
HandlesDiffer ==
  timeoutTimer # NoTimer =>
    timeoutTimer # exitGameChangerTimer /\ Pending("GameLoadTimeout")

\* An id names one timer.
OneTimerPerId ==
  \A t, u \in timers : t.id \in TimerIds /\ t.id = u.id => t = u

HandleInv == TimersAreHeld /\ IdsAreKept /\ HandlesDiffer /\ OneTimerPerId

\* What an unload leaves: no timer with a handle when a game was loaded, and
\* otherwise nothing has changed.
LEMMA KeptTimers ==
  ASSUME TypeOK, HandleInv, NEW t
  PROVE  t \in TimersKept <=>
           IF Unloading
           THEN \/ t \in timers /\ t.fn \notin {"GameLoadTimeout", "ExitGameChangerScreen"}
                \/ t = Forgotten("ShowGameChangeTDs", SHOW_DELAY)
                \/ t = Forgotten("RespawnAllPlayers", RESPAWN_DELAY)
           ELSE t \in timers
<1>1. ASSUME t \in timers
      PROVE  t.id \in {timeoutTimer, exitGameChangerTimer}
               <=> t.fn \in {"GameLoadTimeout", "ExitGameChangerScreen"}
  BY <1>1, Distinguished DEF HandleInv, TimersAreHeld, IdsAreKept, TypeOK
<1> QED
  BY <1>1 DEF TimersKept, KillTimer

\* What gameLoader.init leaves of the timers before it sets its own.
LEMMA CleanTimers ==
  ASSUME TypeOK, HandleInv, NEW t
  PROVE  t \in KillTimer(TimersKept, TimeoutKept) <=>
           t \in TimersKept /\ t.fn # "GameLoadTimeout"
<1>1. ASSUME t \in timers, ~Unloading
      PROVE  t.id = timeoutTimer <=> t.fn = "GameLoadTimeout"
  BY <1>1, Distinguished DEF HandleInv, TimersAreHeld, IdsAreKept, HandlesDiffer, TypeOK
<1>2. Forgotten("ShowGameChangeTDs", SHOW_DELAY).id # NoTimer
      /\ Forgotten("RespawnAllPlayers", RESPAWN_DELAY).id # NoTimer
      /\ Forgotten("ShowGameChangeTDs", SHOW_DELAY).fn # "GameLoadTimeout"
      /\ Forgotten("RespawnAllPlayers", RESPAWN_DELAY).fn # "GameLoadTimeout"
  BY Distinguished DEF Forgotten, Timer
<1>3. ASSUME t \in timers PROVE t.id # NoTimer
  BY <1>3, Distinguished DEF TypeOK, TimerRecords
<1> QED
  BY <1>1, <1>2, <1>3, KeptTimers DEF TimeoutKept, KillTimer

\* What InitTheGame leaves of the timers before it sets the exit timer.
LEMMA AnsweredTimers ==
  ASSUME TypeOK, HandleInv, NEW T, T \subseteq timers \cup TimersKept, NEW h, NEW t
  PROVE  t \in Answered(T, h) <=>
           \/ t \in T /\ t.fn \notin {"GameLoadTimeout", "ExitGameChangerScreen"}
           \/ t = Kept(h, "ExitGameChangerScreen", EXIT_DELAY)
<1>1. ASSUME t \in timers
      PROVE  t.id \in {timeoutTimer, exitGameChangerTimer}
               <=> t.fn \in {"GameLoadTimeout", "ExitGameChangerScreen"}
  BY <1>1, Distinguished DEF HandleInv, TimersAreHeld, IdsAreKept, TypeOK
<1>2. /\ Forgotten("ShowGameChangeTDs", SHOW_DELAY).id \notin {timeoutTimer, exitGameChangerTimer}
      /\ Forgotten("RespawnAllPlayers", RESPAWN_DELAY).id \notin {timeoutTimer, exitGameChangerTimer}
      /\ Forgotten("ShowGameChangeTDs", SHOW_DELAY).fn = "ShowGameChangeTDs"
      /\ Forgotten("RespawnAllPlayers", RESPAWN_DELAY).fn = "RespawnAllPlayers"
  BY Distinguished DEF Forgotten, Timer, TypeOK
<1>3. t \in T => t \in timers \cup TimersKept
  OBVIOUS
<1> QED
  BY <1>1, <1>2, <1>3, KeptTimers DEF Answered, KillTimer

LEMMA HandleStep == TypeOK /\ HandleInv /\ [Next]_vars => HandleInv'
<1> SUFFICES ASSUME TypeOK, HandleInv, [Next]_vars PROVE HandleInv'
  OBVIOUS
<1> USE Distinguished DEF HandleInv, TimersAreHeld, IdsAreKept, HandlesDiffer, OneTimerPerId, Pending
<1>a. /\ Forgotten("ShowGameChangeTDs", SHOW_DELAY).fn = "ShowGameChangeTDs"
      /\ Forgotten("RespawnAllPlayers", RESPAWN_DELAY).fn = "RespawnAllPlayers"
      /\ Forgotten("ShowGameChangeTDs", SHOW_DELAY).id = Unkept
      /\ Forgotten("RespawnAllPlayers", RESPAWN_DELAY).id = Unkept
      /\ \A h : /\ Kept(h, "GameLoadTimeout", GAME_LOAD_TIMEOUT).fn = "GameLoadTimeout"
                /\ Kept(h, "ExitGameChangerScreen", EXIT_DELAY).fn = "ExitGameChangerScreen"
                /\ Kept(h, "GameLoadTimeout", GAME_LOAD_TIMEOUT).id = h
                /\ Kept(h, "ExitGameChangerScreen", EXIT_DELAY).id = h
  BY DEF Forgotten, Kept, Timer
\* The timers an unload leaves satisfy the invariant whatever it kills.
<1>b. \A t \in TimersKept :
        IF t.fn \in {"GameLoadTimeout", "ExitGameChangerScreen"}
        THEN t \in timers /\ ~Unloading ELSE t.id = Unkept
  BY <1>a, KeptTimers
<1>1. ASSUME NEW list \in {fileOf} \cup GameLists, NEW h \in TimerIds,
             NEW g \in Choices(list), IsFresh(h)
      PROVE  /\ (LoadMissing(list, g, h) => HandleInv')
             /\ (LoadSilent(list, g, h) => HandleInv')
             /\ (LoadAnswered(list, g, h) => HandleInv')
  <2>1. \A t : t \in Armed(h) <=>
               \/ t \in TimersKept /\ t.fn # "GameLoadTimeout"
               \/ t = Kept(h, "GameLoadTimeout", GAME_LOAD_TIMEOUT)
    BY CleanTimers DEF Armed
  <2>2. timers' = Armed(h) /\ timeoutTimer' = h /\ exitGameChangerTimer' = exitGameChangerTimer
          => HandleInv'
    BY <1>1, <1>a, <1>b, <2>1 DEF IsFresh
  <2>3. LoadAnswered(list, g, h) => HandleInv'
    <3> SUFFICES ASSUME LoadAnswered(list, g, h) PROVE HandleInv'
      OBVIOUS
    <3>1. \A t \in timers' : \/ t \in TimersKept /\ t.fn \notin {"GameLoadTimeout", "ExitGameChangerScreen"}
                             \/ t = Kept(h, "ExitGameChangerScreen", EXIT_DELAY)
      BY AnsweredTimers, CleanTimers DEF LoadAnswered
    <3> QED
      BY <3>1, <1>a, <1>b DEF LoadAnswered
  <2> QED
    BY <2>2, <2>3 DEF LoadMissing, LoadSilent
<1>2. CASE LoadGame
  BY <1>1, <1>2 DEF LoadGame, LoadMissing, LoadSilent, LoadAnswered
<1>3. CASE UnloadGame
  BY <1>3, <1>a, <1>b, KeptTimers DEF UnloadGame, TimeoutKept
<1>4. ASSUME NEW f \in Files, NEW h \in TimerIds, InitTheGame(f, h) PROVE HandleInv'
  <2>1. \A t \in timers' : \/ t \in timers /\ t.fn \notin {"GameLoadTimeout", "ExitGameChangerScreen"}
                           \/ t = Kept(h, "ExitGameChangerScreen", EXIT_DELAY)
    BY <1>4, AnsweredTimers DEF InitTheGame
  <2> QED
    BY <1>4, <2>1, <1>a, Distinguished DEF InitTheGame
<1>5. ASSUME NEW t \in timers, GameLoadTimeout(t) PROVE HandleInv'
  <2>1. timeoutTimer # NoTimer
    BY <1>5, Distinguished DEF GameLoadTimeout, Due
  <2>2. CASE Unloading
    BY <1>5, <2>1, <2>2, <1>a, <1>b DEF GameLoadTimeout
  <2>3. CASE ~Unloading
    BY <1>5, <2>1, <2>3, KeptTimers DEF GameLoadTimeout, Due
  <2> QED
    BY <2>2, <2>3
<1>6. ASSUME NEW t \in timers, ExitGameChangerScreen(t) PROVE HandleInv'
  BY <1>6, Distinguished DEF ExitGameChangerScreen, Due, TypeOK
<1>7. ASSUME NEW t \in timers,
             RespawnAllPlayers(t) \/ ShowGameChangeTDs(t) \/ ShowGameChangeTDSForPlayer(t)
      PROVE  HandleInv'
  BY <1>7 DEF RespawnAllPlayers, ShowGameChangeTDs, ShowGameChangeTDSForPlayer, Due, handles
<1>8. ASSUME NEW p \in Players, PlayerConnect(p) PROVE HandleInv'
  BY <1>8 DEF PlayerConnect, Timer, handles
<1>9. ASSUME NEW p \in Players, PlayerDisconnect(p) PROVE HandleInv'
  BY <1>9 DEF PlayerDisconnect, handles
<1>10. CASE Tick
  <2>1. /\ \A t \in timers' : \E u \in timers : t = Aged(u) /\ t.id = u.id /\ t.fn = u.fn
        /\ \A u \in timers : \E t \in timers' : t.fn = u.fn
    BY <1>10, AgedTyping DEF Tick, TypeOK
  <2>2. UNCHANGED handles
    BY <1>10 DEF Tick
  <2>3. TimersAreHeld' /\ IdsAreKept' /\ HandlesDiffer'
    BY <2>1, <2>2 DEF handles
  <2>4. OneTimerPerId'
    BY <2>1
  <2> QED
    BY <2>3, <2>4
<1>11. CASE RestartGameMode
  BY <1>11, <1>a DEF RestartGameMode
<1>12. CASE UNCHANGED vars
  BY <1>12 DEF vars, handles
<1> QED
  BY <1>2, <1>3, <1>4, <1>5, <1>6, <1>7, <1>8, <1>9, <1>10, <1>11, <1>12
  DEF Next, Answers, TimerFires

-----------------------------------------------------------------------------
(* The filterscript of the game, and whom the handlers serve.              *)

\* A game that has answered is no longer timed; one that has not, is.
AnsweredOrTimed ==
  /\ Answering => timeoutTimer = NoTimer
  /\ filterscripts # initialised => timeoutTimer # NoTimer

ScriptInv ==
  /\ OnlyTheCurrentGameIsLoaded /\ AnsweredOrTimed
  /\ ExitBelongsToAGame /\ HandlersServeTheCurrentGame

\* An unload leaves no game script and no game data, nor an exit timer.
LEMMA NothingIsKept ==
  ASSUME TypeOK, HandleInv, ScriptInv
  PROVE  /\ ScriptsKept = {} /\ SpawnsKept = {} /\ MetaKept = NoFile
         /\ \A t \in TimersKept : t.fn # "ExitGameChangerScreen"
<1> USE DEF ScriptInv, OnlyTheCurrentGameIsLoaded, HandlersServeTheCurrentGame,
            ExitBelongsToAGame, InPlay, CurrentFile, FileName
<1>1. CASE Unloading
  <2>1. \A t \in TimersKept : t.fn # "ExitGameChangerScreen"
    BY <1>1, KeptTimers DEF Forgotten, Timer
  <2> QED
    BY <1>1, <2>1 DEF ScriptsKept, SpawnsKept, MetaKept, Unloading
<1>2. CASE ~Unloading
  <2>1. CurrentFile = NoFile /\ NoFile \notin Files
    BY <1>2, Distinguished DEF Unloading
  <2>2. filterscripts = {} /\ spawnsOf = {} /\ metaOf = NoFile
    BY <2>1 DEF TypeOK
  <2>3. \A t \in timers : t.fn # "ExitGameChangerScreen"
    BY <2>1, <2>2 DEF Pending, TypeOK
  <2> QED
    BY <1>2, <2>2, <2>3 DEF ScriptsKept, SpawnsKept, MetaKept, TimersKept
<1> QED
  BY <1>1, <1>2

LEMMA ScriptStep == TypeOK /\ HandleInv /\ ScriptInv /\ [Next]_vars => ScriptInv'
<1> SUFFICES ASSUME TypeOK, HandleInv, ScriptInv, [Next]_vars PROVE ScriptInv'
  OBVIOUS
<1> USE DEF ScriptInv, OnlyTheCurrentGameIsLoaded, AnsweredOrTimed, ExitBelongsToAGame,
            HandlersServeTheCurrentGame, InPlay, CurrentFile, FileName, Answering, Pending
<1>a. initialised \subseteq filterscripts
  BY DEF TypeOK
<1>b. \A h : /\ Kept(h, "GameLoadTimeout", GAME_LOAD_TIMEOUT).fn = "GameLoadTimeout"
             /\ Kept(h, "ExitGameChangerScreen", EXIT_DELAY).fn = "ExitGameChangerScreen"
  BY DEF Kept, Timer
\* A step that ends with nothing loaded, or the chosen game alone.
<1>1. ASSUME NEW list \in {fileOf} \cup GameLists, NEW h \in TimerIds,
             NEW g \in Choices(list), IsFresh(h)
      PROVE  /\ (LoadMissing(list, g, h) => ScriptInv')
             /\ (LoadSilent(list, g, h) => ScriptInv')
             /\ (LoadAnswered(list, g, h) => ScriptInv')
  <2>1. \A t \in Armed(h) : t.fn # "ExitGameChangerScreen"
    BY <1>b, CleanTimers, NothingIsKept DEF Armed
  <2>2. h # NoTimer
    BY Distinguished
  <2>3. LoadMissing(list, g, h) => ScriptInv'
    BY <2>1, <2>2, <1>a, NothingIsKept DEF LoadMissing, BeginLoad
  <2>4. ASSUME LoadSilent(list, g, h) PROVE ScriptInv'
    <3>1. FileName(list, g) = CurrentFile'
      BY <2>4 DEF LoadSilent, BeginLoad
    <3>2. /\ filterscripts' = {CurrentFile'} /\ initialised' = {}
          /\ metaOf' = CurrentFile' /\ spawnsOf' = {CurrentFile'}
          /\ timeoutTimer' = h /\ timers' = Armed(h) /\ playing' = FALSE
          /\ CurrentFile' \in RaceGames => raceOf' = CurrentFile'
      BY <2>4, <3>1, <1>a, NothingIsKept DEF LoadSilent, BeginLoad, GameData
    <3> QED
      BY <3>2, <2>1, <2>2
  <2>5. ASSUME LoadAnswered(list, g, h) PROVE ScriptInv'
    <3>1. FileName(list, g) = CurrentFile'
      BY <2>5 DEF LoadAnswered, BeginLoad
    <3>2. /\ filterscripts' = {CurrentFile'} /\ initialised' = {CurrentFile'}
          /\ metaOf' = CurrentFile' /\ spawnsOf' = {CurrentFile'}
          /\ timeoutTimer' = NoTimer
          /\ CurrentFile' \in RaceGames => raceOf' = CurrentFile'
      BY <2>5, <3>1, <1>a, NothingIsKept DEF LoadAnswered, GameData
    <3> QED
      BY <3>2
  <2> QED
    BY <2>3, <2>4, <2>5
<1>2. CASE LoadGame
  BY <1>1, <1>2 DEF LoadGame, LoadMissing, LoadSilent, LoadAnswered
<1>3. ASSUME filterscripts' = ScriptsKept, initialised' = initialised \cap ScriptsKept,
             metaOf' = MetaKept, spawnsOf' = SpawnsKept, playing' = FALSE,
             \A t \in timers' : t.fn # "ExitGameChangerScreen"
      PROVE  ScriptInv'
  BY <1>3, NothingIsKept
<1>4. CASE UnloadGame
  BY <1>3, <1>4, NothingIsKept DEF UnloadGame, UnloadData
<1>5. ASSUME NEW f \in Files, NEW h \in TimerIds, InitTheGame(f, h) PROVE ScriptInv'
  <2>1. f = CurrentFile /\ filterscripts = {f} /\ initialised \subseteq {f}
    BY <1>5, <1>a DEF InitTheGame
  <2>2. filterscripts' = {f} /\ initialised' = {f} /\ CurrentFile' = f
    BY <1>5, <2>1 DEF InitTheGame
  <2> QED
    BY <1>5, <2>2 DEF InitTheGame, handlers
<1>6. ASSUME NEW t \in timers, GameLoadTimeout(t) PROVE ScriptInv'
  <2>1. timeoutTimer # NoTimer
    BY <1>6, Distinguished DEF GameLoadTimeout, Due, HandleInv, TimersAreHeld, IdsAreKept
  <2> QED
    BY <1>3, <1>6, <2>1, NothingIsKept DEF GameLoadTimeout, UnloadData
<1>7. ASSUME NEW t \in timers,
             \/ ExitGameChangerScreen(t) \/ RespawnAllPlayers(t)
             \/ ShowGameChangeTDs(t) \/ ShowGameChangeTDSForPlayer(t)
      PROVE  ScriptInv'
  <2>1. CASE ExitGameChangerScreen(t)
    BY <2>1 DEF ExitGameChangerScreen, Due, handlers
  <2> QED
    BY <1>7, <2>1 DEF RespawnAllPlayers, ShowGameChangeTDs, ShowGameChangeTDSForPlayer,
                      handles, scripts, handlers
<1>8. ASSUME NEW p \in Players, PlayerConnect(p) \/ PlayerDisconnect(p) PROVE ScriptInv'
  BY <1>8 DEF PlayerConnect, PlayerDisconnect, Timer, handles, scripts, handlers
<1>9. CASE Tick
  <2>1. \A t \in timers' : \E u \in timers : t.fn = u.fn
    BY <1>9, AgedTyping DEF Tick, TypeOK
  <2> QED
    BY <1>9, <2>1 DEF Tick, handles, scripts, handlers
<1>10. CASE RestartGameMode
  <2>1. \A t \in timers' : t.fn # "ExitGameChangerScreen"
    BY <1>10 DEF RestartGameMode, Forgotten, Timer
  <2> QED
    BY <1>10, <2>1, NothingIsKept DEF RestartGameMode
<1>11. CASE UNCHANGED vars
  BY <1>11 DEF vars, handles, scripts, handlers
<1> QED
  BY <1>2, <1>4, <1>5, <1>6, <1>7, <1>8, <1>9, <1>10, <1>11 DEF Next, Answers, TimerFires

-----------------------------------------------------------------------------
(* The game changer screen.                                                *)

\* What an unload started is over before the screen is left: this is where the
\* delays matter.
ExitComesLast ==
  \A t \in timers :
    Answering /\ t.fn \in {"ShowGameChangeTDs", "RespawnAllPlayers"} =>
      \E e \in timers : e.fn = "ExitGameChangerScreen" /\ t.left < e.left

DelaysHold ==
  \A t \in timers :
    /\ t.fn = "ShowGameChangeTDs" => t.left <= SHOW_DELAY
    /\ t.fn = "RespawnAllPlayers" => t.left <= RESPAWN_DELAY

\* Outside play the textdraws exist or are about to be made.
TextdrawsExistOrCome == ~InPlay /\ ~tdsCreated => Pending("ShowGameChangeTDs")

ScreenInv ==
  /\ ExitComesLast /\ DelaysHold /\ NothingOldInterruptsPlay /\ NoTextdrawsInPlay
  /\ BlackOutsidePlay /\ TextdrawsExistOrCome /\ TextdrawsReachEverybody

\* The screen after an unload, whether or not there was a game to unload.
LEMMA ScreenKept ==
  ASSUME TypeOK, HandleInv, ScriptInv, ScreenInv
  PROVE  /\ connected \subseteq FadedOnUnload
         /\ ~tdsCreated => \E t \in TimersKept : t.fn = "ShowGameChangeTDs"
         /\ \A p \in connected \ shown : \E t \in TimersKept :
              \/ t.fn = "ShowGameChangeTDs"
              \/ t.fn = "ShowGameChangeTDSForPlayer" /\ t.player = p
         /\ \A t \in TimersKept :
              t.fn \in {"ShowGameChangeTDs", "RespawnAllPlayers"} => t.left < EXIT_DELAY
<1> DEFINE show == Forgotten("ShowGameChangeTDs", SHOW_DELAY)
<1>1. CASE Unloading
  <2>1. show \in TimersKept /\ show.fn = "ShowGameChangeTDs"
    BY <1>1 DEF TimersKept, Forgotten, Timer
  <2>2. \A t \in TimersKept :
          t.fn \in {"ShowGameChangeTDs", "RespawnAllPlayers"} => t.left < EXIT_DELAY
    BY <1>1, KeptTimers, DelaysAssumption
    DEF ScreenInv, DelaysHold, Forgotten, Timer, TypeOK, TimerRecords
  <2> QED
    BY <1>1, <2>1, <2>2 DEF FadedOnUnload
<1>2. CASE ~Unloading
  <2>1. ~InPlay
    BY <1>2, Distinguished
    DEF Unloading, ScriptInv, ExitBelongsToAGame, CurrentFile, FileName, TypeOK
  <2>2. TimersKept = timers /\ FadedOnUnload = faded
    BY <1>2 DEF TimersKept, FadedOnUnload
  <2>3. \A t \in timers :
          t.fn \in {"ShowGameChangeTDs", "RespawnAllPlayers"} => t.left < EXIT_DELAY
    BY DelaysAssumption DEF ScreenInv, DelaysHold, TypeOK, TimerRecords
  <2> QED
    BY <2>1, <2>2, <2>3
    DEF ScreenInv, BlackOutsidePlay, TextdrawsExistOrCome, TextdrawsReachEverybody, Pending
<1> QED
  BY <1>1, <1>2

\* A step that unloads and, if a game answers, sets the exit timer.
UnloadsTheScreen ==
  /\ playing' = FALSE
  /\ faded' = FadedOnUnload /\ UNCHANGED <<connected, tdsCreated, shown>>
  /\ \A t \in TimersKept :
       t.fn \notin {"GameLoadTimeout", "ExitGameChangerScreen"} => t \in timers'
  /\ \A t \in timers' : \/ t \in TimersKept
                        \/ t.fn = "GameLoadTimeout"
                        \/ t.fn = "ExitGameChangerScreen" /\ t.left = EXIT_DELAY
  /\ \/ initialised' = {}
     \/ \E e \in timers' : e.fn = "ExitGameChangerScreen" /\ e.left = EXIT_DELAY

LEMMA ScreenAfterUnload ==
  ASSUME TypeOK, HandleInv, ScriptInv, ScreenInv, UnloadsTheScreen
  PROVE  ScreenInv'
<1> USE DEF UnloadsTheScreen
<1>1. ~InPlay'
  BY DEF InPlay
<1>2. ExitComesLast'
  BY ScreenKept DEF ExitComesLast, Answering
<1>3. DelaysHold'
  <2>1. ASSUME NEW t \in TimersKept
        PROVE  /\ t.fn = "ShowGameChangeTDs" => t.left <= SHOW_DELAY
               /\ t.fn = "RespawnAllPlayers" => t.left <= RESPAWN_DELAY
    BY KeptTimers, DelaysAssumption DEF ScreenInv, DelaysHold, Forgotten, Timer
  <2> QED
    BY <2>1 DEF DelaysHold
<1>4. TextdrawsExistOrCome' /\ TextdrawsReachEverybody'
  BY ScreenKept DEF TextdrawsExistOrCome, TextdrawsReachEverybody, Pending
<1> QED
  BY <1>1, <1>2, <1>3, <1>4, ScreenKept
  DEF ScreenInv, NothingOldInterruptsPlay, NoTextdrawsInPlay, BlackOutsidePlay

LEMMA ScreenStep ==
  TypeOK /\ HandleInv /\ ScriptInv /\ ScreenInv /\ TypeOK' /\ [Next]_vars => ScreenInv'
<1> SUFFICES ASSUME TypeOK, HandleInv, ScriptInv, ScreenInv, TypeOK', [Next]_vars
             PROVE  ScreenInv'
  OBVIOUS
<1>b. \A h : /\ Kept(h, "GameLoadTimeout", GAME_LOAD_TIMEOUT).fn = "GameLoadTimeout"
             /\ Kept(h, "ExitGameChangerScreen", EXIT_DELAY).fn = "ExitGameChangerScreen"
             /\ Kept(h, "ExitGameChangerScreen", EXIT_DELAY).left = EXIT_DELAY
  BY DEF Kept, Timer
<1>c. initialised \cap ScriptsKept = {}
  BY NothingIsKept
<1>1. ASSUME NEW list \in {fileOf} \cup GameLists, NEW h \in TimerIds,
             NEW g \in Choices(list), BeginLoad(list, g)
      PROVE  /\ (LoadMissing(list, g, h) => ScreenInv')
             /\ (LoadSilent(list, g, h) => ScreenInv')
             /\ (LoadAnswered(list, g, h) => ScreenInv')
  <2>1. /\ playing' = FALSE
        /\ faded' = FadedOnUnload /\ UNCHANGED <<connected, tdsCreated, shown>>
    BY <1>1 DEF BeginLoad
  <2>2. /\ \A t \in TimersKept :
             t.fn \notin {"GameLoadTimeout", "ExitGameChangerScreen"} => t \in Armed(h)
        /\ \A t \in Armed(h) : t \in TimersKept \/ t.fn = "GameLoadTimeout"
    BY <1>b, CleanTimers DEF Armed
  <2>3. LoadMissing(list, g, h) \/ LoadSilent(list, g, h) => ScreenInv'
    <3>1. LoadMissing(list, g, h) \/ LoadSilent(list, g, h) =>
            timers' = Armed(h) /\ initialised' = {}
      BY <1>c DEF LoadMissing, LoadSilent
    <3>2. LoadMissing(list, g, h) \/ LoadSilent(list, g, h) => UnloadsTheScreen
      BY <2>1, <2>2, <3>1 DEF UnloadsTheScreen
    <3> QED
      BY <3>2, ScreenAfterUnload
  <2>4. ASSUME LoadAnswered(list, g, h) PROVE ScreenInv'
    <3> DEFINE T == KillTimer(TimersKept, TimeoutKept)
    <3>1. T \subseteq TimersKept
      BY CleanTimers
    <3>2. \A t : t \in timers' <=>
            \/ t \in T /\ t.fn \notin {"GameLoadTimeout", "ExitGameChangerScreen"}
            \/ t = Kept(h, "ExitGameChangerScreen", EXIT_DELAY)
      BY <2>4, <3>1, AnsweredTimers DEF LoadAnswered
    <3>3. \A t \in TimersKept :
            t.fn \notin {"GameLoadTimeout", "ExitGameChangerScreen"} => t \in timers'
      BY <3>2, CleanTimers
    <3>4. UnloadsTheScreen
      BY <2>1, <3>1, <3>2, <3>3, <1>b DEF UnloadsTheScreen
    <3> QED
      BY <3>4, ScreenAfterUnload
  <2> QED
    BY <2>3, <2>4
<1>2. CASE LoadGame
  BY <1>1, <1>2 DEF LoadGame, LoadMissing, LoadSilent, LoadAnswered
<1>3. CASE UnloadGame
  <2>1. UnloadsTheScreen
    BY <1>3, <1>c DEF UnloadGame, UnloadData, UnloadsTheScreen
  <2> QED
    BY <2>1, ScreenAfterUnload
<1>4. ASSUME NEW f \in Files, NEW h \in TimerIds, InitTheGame(f, h) PROVE ScreenInv'
  <2>1. \A t : t \in timers' <=>
          \/ t \in timers /\ t.fn \notin {"GameLoadTimeout", "ExitGameChangerScreen"}
          \/ t = Kept(h, "ExitGameChangerScreen", EXIT_DELAY)
    BY <1>4, AnsweredTimers DEF InitTheGame
  <2>2. InPlay' = InPlay
    BY <1>4 DEF InitTheGame, InPlay
  <2>3. \A t \in timers :
          t.fn \in {"ShowGameChangeTDs", "RespawnAllPlayers"} => t.left < EXIT_DELAY
    BY DelaysAssumption DEF ScreenInv, DelaysHold, TypeOK, TimerRecords
  <2>4. ExitComesLast' /\ DelaysHold'
    BY <2>1, <2>3, <1>b DEF ExitComesLast, ScreenInv, DelaysHold
  <2>5. UNCHANGED screens
    BY <1>4 DEF InitTheGame
  <2>6. NothingOldInterruptsPlay'
    BY <2>1, <2>2, <1>b DEF ScreenInv, NothingOldInterruptsPlay, Pending
  <2> QED
    BY <2>1, <2>2, <2>4, <2>5, <2>6
    DEF ScreenInv, NoTextdrawsInPlay, BlackOutsidePlay, TextdrawsExistOrCome,
        TextdrawsReachEverybody, Pending, screens
<1>5. ASSUME NEW t \in timers, GameLoadTimeout(t) PROVE ScreenInv'
  <2>1. timeoutTimer # NoTimer /\ t.fn = "GameLoadTimeout"
    BY <1>5, Distinguished DEF GameLoadTimeout, Due, HandleInv, TimersAreHeld, IdsAreKept
  <2>2. UnloadsTheScreen
    BY <1>5, <2>1, <1>c DEF GameLoadTimeout, UnloadData, UnloadsTheScreen
  <2> QED
    BY <2>2, ScreenAfterUnload
<1>6. ASSUME NEW t \in timers, ExitGameChangerScreen(t) PROVE ScreenInv'
  <2>1. exitGameChangerTimer # NoTimer /\ t.fn = "ExitGameChangerScreen" /\ t.left = 0
    BY <1>6, Distinguished DEF ExitGameChangerScreen, Due, HandleInv, TimersAreHeld, IdsAreKept
  <2>2. \A e \in timers : e.fn = "ExitGameChangerScreen" => e = t
    BY <2>1 DEF HandleInv, TimersAreHeld, IdsAreKept, OneTimerPerId
  <2>3. Answering
    BY <2>1 DEF ScriptInv, ExitBelongsToAGame, Pending, Answering
  <2>4. \A u \in timers : u.fn \notin {"ShowGameChangeTDs", "RespawnAllPlayers"}
    BY <2>1, <2>2, <2>3 DEF ScreenInv, ExitComesLast, TypeOK, TimerRecords
  <2>5. timers' = timers \ {t} /\ tdsCreated' = FALSE /\ shown' = {} /\ initialised' = initialised
    BY <1>6, <2>1 DEF ExitGameChangerScreen
  <2>6. InPlay'
    BY <1>6, <2>1 DEF ExitGameChangerScreen, InPlay
  <2> QED
    BY <2>4, <2>5, <2>6
    DEF ScreenInv, ExitComesLast, NothingOldInterruptsPlay, Pending, DelaysHold, NoTextdrawsInPlay, BlackOutsidePlay,
        TextdrawsExistOrCome, TextdrawsReachEverybody
<1>d. ASSUME NEW t \in timers, t.fn # "ExitGameChangerScreen", timers' = timers \ {t},
             UNCHANGED scripts
      PROVE  InPlay' = InPlay /\ ExitComesLast' /\ DelaysHold' /\ NothingOldInterruptsPlay'
  BY <1>d
  DEF InPlay, Answering, Pending, ScreenInv, ExitComesLast, DelaysHold,
      NothingOldInterruptsPlay, scripts
<1>7. ASSUME NEW t \in timers, RespawnAllPlayers(t) PROVE ScreenInv'
  BY <1>7, <1>d
  DEF RespawnAllPlayers, Due, ScreenInv, NoTextdrawsInPlay, BlackOutsidePlay,
      TextdrawsExistOrCome, TextdrawsReachEverybody, Pending, screens
<1>8. ASSUME NEW t \in timers, ShowGameChangeTDs(t) PROVE ScreenInv'
  <2>1. t.fn = "ShowGameChangeTDs" /\ ~InPlay
    BY <1>8 DEF ShowGameChangeTDs, Due, ScreenInv, NothingOldInterruptsPlay, Pending
  <2> QED
    BY <1>8, <2>1, <1>d
    DEF ShowGameChangeTDs, ScreenInv, NoTextdrawsInPlay, BlackOutsidePlay,
        TextdrawsExistOrCome, TextdrawsReachEverybody
<1>9. ASSUME NEW t \in timers, ShowGameChangeTDSForPlayer(t) PROVE ScreenInv'
  <2>1. t.fn = "ShowGameChangeTDSForPlayer" /\ t.player \in Players \cup {NoPlayer}
    BY <1>9 DEF ShowGameChangeTDSForPlayer, Due, TypeOK, TimerRecords
  <2>2. InPlay' = InPlay /\ ExitComesLast' /\ DelaysHold' /\ NothingOldInterruptsPlay'
    BY <1>9, <2>1, <1>d DEF ShowGameChangeTDSForPlayer
  <2>3. NoTextdrawsInPlay' /\ BlackOutsidePlay' /\ TextdrawsExistOrCome'
    BY <1>9, <2>1, <2>2
    DEF ShowGameChangeTDSForPlayer, ScreenInv, NoTextdrawsInPlay, BlackOutsidePlay,
        TextdrawsExistOrCome, Pending
  <2>4. TextdrawsReachEverybody'
    BY <1>9, <2>1, <2>2
    DEF ShowGameChangeTDSForPlayer, ScreenInv, TextdrawsExistOrCome, TextdrawsReachEverybody,
        Pending
  <2> QED
    BY <2>2, <2>3, <2>4 DEF ScreenInv
<1>10. ASSUME NEW p \in Players, PlayerConnect(p) PROVE ScreenInv'
  <2>1. /\ timers' = timers \cup {Timer(Unkept, "ShowGameChangeTDSForPlayer", p, PLAYER_SHOW_DELAY)}
        /\ UNCHANGED <<scripts, tdsCreated, shown>>
        /\ connected' = connected \cup {p} /\ faded' = faded \cup {p}
    BY <1>10 DEF PlayerConnect
  <2>2. InPlay' = InPlay /\ ExitComesLast' /\ DelaysHold' /\ NothingOldInterruptsPlay'
    BY <2>1
    DEF Timer, InPlay, Answering, Pending, ScreenInv, ExitComesLast, DelaysHold,
        NothingOldInterruptsPlay, scripts
  <2>3. NoTextdrawsInPlay' /\ BlackOutsidePlay' /\ TextdrawsExistOrCome'
    BY <2>1, <2>2
    DEF ScreenInv, NoTextdrawsInPlay, BlackOutsidePlay, TextdrawsExistOrCome, Pending
  <2>4. \E t \in timers' : t.fn = "ShowGameChangeTDSForPlayer" /\ t.player = p
    <3> DEFINE new == Timer(Unkept, "ShowGameChangeTDSForPlayer", p, PLAYER_SHOW_DELAY)
    <3>1. new \in timers'
      BY <2>1
    <3>2. new.fn = "ShowGameChangeTDSForPlayer" /\ new.player = p
      BY DEF Timer
    <3> QED
      BY <3>1, <3>2
  <2>5. TextdrawsReachEverybody'
    <3>1. timers \subseteq timers' /\ connected' \ shown' \subseteq (connected \ shown) \cup {p}
      BY <2>1
    <3> QED
      BY <2>2, <2>4, <3>1 DEF ScreenInv, TextdrawsReachEverybody, Pending
  <2> QED
    BY <2>2, <2>3, <2>5 DEF ScreenInv
<1>11. ASSUME NEW p \in Players, PlayerDisconnect(p) PROVE ScreenInv'
  BY <1>11
  DEF PlayerDisconnect, scripts, ScreenInv, ExitComesLast, DelaysHold,
      NothingOldInterruptsPlay, NoTextdrawsInPlay, BlackOutsidePlay, TextdrawsExistOrCome, TextdrawsReachEverybody, Pending, InPlay, Answering
<1>12. CASE Tick
  <2>1. /\ \A t \in timers' : \E u \in timers :
             t.fn = u.fn /\ t.player = u.player /\ t.left = u.left - 1
        /\ \A u \in timers : \E t \in timers' :
             t.fn = u.fn /\ t.player = u.player /\ t.left = u.left - 1
    BY <1>12, AgedTyping DEF Tick, TypeOK
  <2>2. UNCHANGED <<scripts, screens>>
    BY <1>12 DEF Tick
  <2>3. InPlay' = InPlay /\ \A f : Pending(f)' = Pending(f)
    BY <2>1, <2>2 DEF InPlay, Answering, Pending, scripts
  <2>4. \A t \in timers : t.left \in Nat
    BY DEF TypeOK, TimerRecords
  <2>5. ExitComesLast'
    BY <2>1, <2>2, <2>4 DEF ScreenInv, ExitComesLast, Answering, scripts
  <2>6. DelaysHold'
    BY <2>1, <2>4, DelaysAssumption DEF ScreenInv, DelaysHold
  <2> QED
    BY <2>1, <2>2, <2>3, <2>5, <2>6
    DEF ScreenInv, NothingOldInterruptsPlay, NoTextdrawsInPlay, BlackOutsidePlay, TextdrawsExistOrCome,
        TextdrawsReachEverybody, screens
<1>13. CASE RestartGameMode
  <2>1. ~Answering'
    BY <1>13, <1>c DEF RestartGameMode, Answering
  <2>2. DelaysHold'
    BY <1>13, DelaysAssumption DEF RestartGameMode, DelaysHold, Forgotten, Timer
  <2> QED
    BY <1>13, <2>1, <2>2
    DEF RestartGameMode, ScreenInv, ExitComesLast, NothingOldInterruptsPlay, NoTextdrawsInPlay, BlackOutsidePlay,
        TextdrawsExistOrCome, TextdrawsReachEverybody, InPlay
<1>14. CASE UNCHANGED vars
  BY <1>14
  DEF vars, scripts, screens, ScreenInv, ExitComesLast, DelaysHold,
      NothingOldInterruptsPlay, NoTextdrawsInPlay, BlackOutsidePlay, TextdrawsExistOrCome, TextdrawsReachEverybody, Pending, InPlay, Answering
<1> QED
  BY <1>2, <1>3, <1>4, <1>5, <1>6, <1>7, <1>8, <1>9, <1>10, <1>11, <1>12, <1>13, <1>14
  DEF Next, Answers, TimerFires

-----------------------------------------------------------------------------
(* The theorems.                                                           *)

\* The inductive invariant: the handles keep the timers apart, which keeps the
\* scripts and the game data apart, which keeps the screen in order.
IInv == TypeOK /\ HandleInv /\ ScriptInv /\ ScreenInv

LEMMA InitIInv == Init => IInv
<1> SUFFICES ASSUME Init PROVE IInv
  OBVIOUS
<1>1. TypeOK
  BY InitTyping
<1>2. timers = {Forgotten("ShowGameChangeTDs", SHOW_DELAY)} /\ ~Answering
  BY DEF Init, Answering
<1>3. \A t \in timers : t.fn = "ShowGameChangeTDs" /\ t.id = Unkept /\ t.left = SHOW_DELAY
  BY <1>2 DEF Forgotten, Timer
<1>4. HandleInv
  BY <1>3, Distinguished
  DEF Init, HandleInv, TimersAreHeld, IdsAreKept, HandlesDiffer, OneTimerPerId
<1>5. ScriptInv
  BY <1>2, <1>3
  DEF Init, ScriptInv, OnlyTheCurrentGameIsLoaded, AnsweredOrTimed, ExitBelongsToAGame,
      HandlersServeTheCurrentGame, InPlay, Answering, Pending
<1>6. ScreenInv
  BY <1>2, <1>3, DelaysAssumption
  DEF Init, ScreenInv, ExitComesLast, DelaysHold, NothingOldInterruptsPlay, NoTextdrawsInPlay, BlackOutsidePlay,
      TextdrawsExistOrCome, TextdrawsReachEverybody, InPlay
<1> QED
  BY <1>1, <1>4, <1>5, <1>6 DEF IInv

\* The inductive invariant holds throughout.
THEOREM Inductive == Spec => []IInv
<1>1. IInv /\ [Next]_vars => IInv'
  BY TypingStep, HandleStep, ScriptStep, ScreenStep DEF IInv
<1> QED
  BY <1>1, InitIInv, PTL DEF Spec

\* No timer of gameLoader.pwn is ever out of reach of its handle.
THEOREM TimersStayHeld == Spec => []TimersAreHeld
<1>1. IInv => TimersAreHeld
  BY DEF IInv, HandleInv
<1> QED
  BY <1>1, Inductive, PTL

\* unloadfs always names the filterscript that is loaded, however often the game
\* list was read again; meta data and spawn points are those of the current game,
\* and a loaded game that races has its own vehicle model.  (That a model goes with
\* its game is not claimed: resetRaceData has no caller.)
THEOREM OneGameAtATime == Spec => []NothingOfAnotherGame
<1>1. IInv => NothingOfAnotherGame
  BY DEF IInv, ScriptInv, NothingOfAnotherGame
<1> QED
  BY <1>1, Inductive, PTL

\* A silent game is timed and an answered one is not: the timeout and a late
\* InitTheGame never both take effect.
THEOREM TimeoutXorAnswer == Spec => []SilentGamesAreTimed
<1>1. IInv => SilentGamesAreTimed
  BY Distinguished
  DEF IInv, HandleInv, TimersAreHeld, IdsAreKept, HandlesDiffer, ScriptInv, AnsweredOrTimed,
      SilentGamesAreTimed, Pending
<1> QED
  BY <1>1, Inductive, PTL

\* The screen is left only for a game that answered and is still loaded.
THEOREM ExitOnlyForAGame == Spec => []ExitBelongsToAGame
<1>1. IInv => ExitBelongsToAGame
  BY DEF IInv, ScriptInv
<1> QED
  BY <1>1, Inductive, PTL

\* Whatever an unload started has happened before the next game is in play, for
\* all delays with SHOW_DELAY < EXIT_DELAY and RESPAWN_DELAY < EXIT_DELAY.
THEOREM PlayIsUndisturbed == Spec => []NothingOldInterruptsPlay
<1>1. IInv => NothingOldInterruptsPlay
  BY DEF IInv, ScreenInv
<1> QED
  BY <1>1, Inductive, PTL

\* Outside play every screen is black.
THEOREM ScreenOutsidePlay == Spec => []BlackOutsidePlay
<1>1. IInv => BlackOutsidePlay
  BY DEF IInv, ScreenInv
<1> QED
  BY <1>1, Inductive, PTL

\* The textdraws are there or coming outside play, and gone in play.
THEOREM TextdrawsAreRight == Spec => []TextdrawsFollowPlay
<1>1. IInv => TextdrawsFollowPlay
  BY DEF IInv, ScreenInv, TextdrawsFollowPlay
<1> QED
  BY <1>1, Inductive, PTL

-----------------------------------------------------------------------------
(* Refinement: the engine implements GameLifecycle.                        *)

LEMMA InitRefines == Init => Abstract!LifecycleInit
BY DEF Init, Abstract!LifecycleInit, PhaseNow, GameNow, Lit

\* The phases seen through the invariant.
LEMMA PhaseFacts ==
  ASSUME IInv
  PROVE  /\ Answering => currentGameId # INVALID_GAME_ID
         /\ ~InPlay => Lit = {}
         /\ InPlay => Answering
         /\ Pending("ExitGameChangerScreen") => PhaseNow \in {"starting", "playing"}
<1>1. Answering => currentGameId # INVALID_GAME_ID
  BY Distinguished
  DEF IInv, TypeOK, ScriptInv, OnlyTheCurrentGameIsLoaded, CurrentFile, FileName, Answering
<1>2. ~InPlay => Lit = {}
  BY DEF IInv, ScreenInv, BlackOutsidePlay, Lit
<1>3. Pending("ExitGameChangerScreen") \/ InPlay => Answering
  BY DEF IInv, ScriptInv, ExitBelongsToAGame, Answering
<1> QED
  BY <1>1, <1>2, <1>3 DEF PhaseNow

LEMMA StepRefines == IInv /\ IInv' /\ [Next]_vars => [Abstract!LifecycleNext]_(Abstract!abstractVars)
<1> SUFFICES ASSUME IInv, IInv', [Next]_vars
             PROVE  [Abstract!LifecycleNext]_(Abstract!abstractVars)
  OBVIOUS
<1> USE DEF Abstract!LifecycleNext, Abstract!abstractVars
<1>a. TypeOK /\ HandleInv /\ ScriptInv /\ ScreenInv
  BY DEF IInv
<1>b. connected \subseteq FadedOnUnload /\ ScriptsKept = {}
  BY <1>a, ScreenKept, NothingIsKept
<1>1. ASSUME NEW list \in {fileOf} \cup GameLists, NEW h \in TimerIds,
             NEW g \in Choices(list),
             LoadMissing(list, g, h) \/ LoadSilent(list, g, h) \/ LoadAnswered(list, g, h)
      PROVE  Abstract!LifecycleNext
  <2>1. /\ Lit' = {} /\ connected' = connected /\ currentGameId' = g
        /\ g \in Games \cup {INVALID_GAME_ID}
    BY <1>1, <1>a, <1>b, ChoiceTyping DEF LoadMissing, LoadSilent, LoadAnswered, BeginLoad, Lit
  <2>2. CASE g = INVALID_GAME_ID
    <3>1. Abstract!Drop
      BY <2>1, <2>2 DEF Abstract!Drop, PhaseNow, GameNow
    <3> QED
      BY <3>1
  <2>3. CASE g # INVALID_GAME_ID
    <3>1. g \in Games /\ GameNow' = {g}
      BY <2>1, <2>3 DEF GameNow
    <3>2. PhaseNow' \in {"loading", "starting"}
      <4>1. playing' = FALSE
        BY <1>1 DEF LoadMissing, LoadSilent, LoadAnswered, BeginLoad
      <4> QED
        BY <4>1, <2>1, <2>3 DEF PhaseNow, InPlay
    <3>3. Abstract!Request
      BY <2>1, <3>1, <3>2 DEF Abstract!Request
    <3> QED
      BY <3>3
  <2> QED
    BY <2>2, <2>3
<1>2. CASE LoadGame
  BY <1>1, <1>2 DEF LoadGame
<1>3. ASSUME UnloadGame \/ \E t \in timers : GameLoadTimeout(t) PROVE Abstract!LifecycleNext
  <2>1. currentGameId' = INVALID_GAME_ID /\ UnloadData
    BY <1>3, <1>a, Distinguished
    DEF UnloadGame, GameLoadTimeout, Due, HandleInv, TimersAreHeld, IdsAreKept
  <2>2. Abstract!Drop
    BY <2>1, <1>b DEF UnloadData, Abstract!Drop, PhaseNow, GameNow, Lit
  <2> QED
    BY <2>2
\* A game that answers a second time changes nothing that is seen from outside.
<1>4. ASSUME NEW f \in Files, NEW h \in TimerIds, InitTheGame(f, h)
      PROVE  Abstract!LifecycleNext \/ UNCHANGED Abstract!abstractVars
  <2>1. currentGameId # INVALID_GAME_ID
    BY <1>4, <1>a, Distinguished
    DEF InitTheGame, TypeOK, ScriptInv, OnlyTheCurrentGameIsLoaded, CurrentFile, FileName
  <2>2. Answering' /\ UNCHANGED <<currentGameId, playing, connected, faded>>
    BY <1>4 DEF InitTheGame, Answering, screens
  <2>3. CASE Answering
    BY <2>2, <2>3 DEF PhaseNow, GameNow, Lit, InPlay
  <2>4. CASE ~Answering
    <3>1. ~InPlay
      BY <2>4, PhaseFacts
    <3>2. Abstract!Answer
      BY <2>1, <2>2, <2>4, <3>1 DEF Abstract!Answer, PhaseNow, GameNow, Lit, InPlay
    <3> QED
      BY <3>2
  <2> QED
    BY <2>3, <2>4
<1>5. ASSUME NEW t \in timers, ExitGameChangerScreen(t) PROVE Abstract!LifecycleNext
  <2>1. exitGameChangerTimer # NoTimer /\ t.fn = "ExitGameChangerScreen"
    BY <1>5, <1>a, Distinguished
    DEF ExitGameChangerScreen, Due, HandleInv, TimersAreHeld, IdsAreKept
  <2>2. PhaseNow \in {"starting", "playing"}
    BY <2>1, PhaseFacts DEF Pending
  <2>3. /\ UNCHANGED <<currentGameId, connected, initialised>>
        /\ playing' = TRUE /\ faded' = faded \ connected
    BY <1>5, <2>1 DEF ExitGameChangerScreen
  <2>4. PhaseNow' = "playing"
    BY <2>2, <2>3 DEF PhaseNow, InPlay, Answering
  <2>5. Abstract!Start
    BY <2>2, <2>3, <2>4 DEF Abstract!Start, GameNow, Lit
  <2> QED
    BY <2>5
<1>c. ASSUME UNCHANGED <<currentGameId, initialised, playing, connected, faded>>
      PROVE  UNCHANGED Abstract!abstractVars
  BY <1>c DEF PhaseNow, GameNow, Lit, Answering, InPlay
<1>6. ASSUME NEW t \in timers,
             RespawnAllPlayers(t) \/ ShowGameChangeTDs(t) \/ ShowGameChangeTDSForPlayer(t)
      PROVE  UNCHANGED Abstract!abstractVars
  BY <1>6, <1>c
  DEF RespawnAllPlayers, ShowGameChangeTDs, ShowGameChangeTDSForPlayer, scripts, screens
<1>7. ASSUME NEW p \in Players, PlayerConnect(p) PROVE Abstract!LifecycleNext
  <2>1. /\ UNCHANGED <<currentGameId, initialised, playing>> /\ p \notin connected
        /\ connected' = connected \cup {p} /\ faded' = faded \cup {p}
    BY <1>7 DEF PlayerConnect, scripts
  <2>2. Abstract!Join(p)
    BY <2>1 DEF Abstract!Join, PhaseNow, GameNow, Lit, Answering, InPlay
  <2> QED
    BY <2>2
<1>8. ASSUME NEW p \in Players, PlayerDisconnect(p) PROVE Abstract!LifecycleNext
  <2>1. Abstract!Leave(p)
    BY <1>8
    DEF PlayerDisconnect, scripts, Abstract!Leave, PhaseNow, GameNow, Lit, Answering, InPlay
  <2> QED
    BY <2>1
<1>9. CASE Tick
  BY <1>9, <1>c DEF Tick, scripts, screens
<1>10. CASE RestartGameMode
  <2>1. Abstract!Reboot
    BY <1>10 DEF RestartGameMode, Abstract!Reboot, PhaseNow, GameNow, Lit
  <2> QED
    BY <2>1
<1>11. CASE UNCHANGED vars
  BY <1>11, <1>c DEF vars, scripts, screens
<1> QED
  BY <1>2, <1>3, <1>4, <1>5, <1>6, <1>7, <1>8, <1>9, <1>10, <1>11 DEF Next, Answers, TimerFires

\* Seen from outside, the engine is the life cycle of GameLifecycle.tla.
THEOREM Refinement == Spec => ImplementsLifecycle
<1>1. IInv /\ IInv' /\ [Next]_vars => [Abstract!LifecycleNext]_(Abstract!abstractVars)
  BY StepRefines
<1> QED
  BY <1>1, InitRefines, Inductive, PTL DEF Spec, ImplementsLifecycle, Abstract!Lifecycle
===============================================================================
