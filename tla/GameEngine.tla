------------------------------ MODULE GameEngine ------------------------------
(***************************************************************************)
(* The life cycle of a game: gameLoader.pwn, gameUnloader.pwn and          *)
(* gameChanger.pwn, with the filterscript that is the game and the players *)
(* who look at the game changer screen meanwhile.                          *)
(*                                                                         *)
(* Every callback is one action, because the AMX runs one callback at a    *)
(* time.  Timers are explicit: a timer is pending until it fires or is     *)
(* killed, and counts down in units of half a second, the largest unit in  *)
(* which all delays of these files are whole numbers.  A timer fires when  *)
(* its count is 0, and time does not pass while one is due; commands and   *)
(* connections fall anywhere between.  One variable is history: playing    *)
(* remembers what the players can see and no variable of the code holds,   *)
(* that the game changer screen has been left for the current game.  Only  *)
(* properties read it.                                                     *)
(***************************************************************************)
EXTENDS Integers, FiniteSets

CONSTANTS
  Games,              \* the slots of the game cache, 0 .. MAX_NUMBER_OF_GAMES_IN_CACHE - 1
  Files,              \* filterscripts that are games
  NoFile,             \* the file name of a slot without a game: the empty string
  RaceGames,          \* those of them that choose a race vehicle (jaydm.pwn does)
  GameLists,          \* the contents gameList.csv can have: slot -> file
  Players,
  NoPlayer,           \* the argument of a timer that has none
  INVALID_GAME_ID,    \* -1
  TimerIds,           \* ids SetTimer hands out
  NoTimer,            \* -1, what a handle holds when no timer is running
  Unkept,             \* the id of a timer whose id the code throws away
  GAME_LOAD_TIMEOUT,  \* SetTimer("GameLoadTimeout", 3000, 0)
  EXIT_DELAY,         \* SetTimer("ExitGameChangerScreen", 5500, 0)
  SHOW_DELAY,         \* SetTimer("ShowGameChangeTDs", 5000, 0)
  RESPAWN_DELAY,      \* SetTimer("RespawnAllPlayers", 2500, 0)
  PLAYER_SHOW_DELAY,  \* SetTimerEx("ShowGameChangeTDSForPlayer", 3000, 0, ...)
  MaxTimers           \* bound: no command or connection with this many timers pending

\* The special values are none of the ordinary ones.
ASSUME Distinguished ==
  /\ INVALID_GAME_ID \notin Games
  /\ NoFile \notin Files
  /\ NoPlayer \notin Players
  /\ NoTimer \notin TimerIds /\ Unkept \notin TimerIds /\ NoTimer # Unkept

ASSUME ListsAssumption ==
  GameLists \subseteq [Games -> Files \cup {NoFile}] /\ RaceGames \subseteq Files

\* The delays, and the one relation between them the screen depends on: the
\* game changer screen is left later than anything an unload leaves behind.
ASSUME DelaysAssumption ==
  /\ {GAME_LOAD_TIMEOUT, EXIT_DELAY, SHOW_DELAY, RESPAWN_DELAY, PLAYER_SHOW_DELAY}
       \subseteq Nat
  /\ SHOW_DELAY < EXIT_DELAY
  /\ RESPAWN_DELAY < EXIT_DELAY

VARIABLES
  fileOf,                \* game.pwn: the file name in each slot of the cache
  currentGameId,         \* gameLoader.pwn
  timeoutTimer,          \* gameLoader.pwn
  exitGameChangerTimer,  \* gameLoader.pwn
  timers,                \* the timers the server is running
  filterscripts,         \* the games whose filterscript is loaded
  initialised,           \* those which have called InitTheGame since
  playing,               \* history: the screen has been left for the game loaded last
  metaOf,                \* the game whose data gameMeta.pwn holds, or NoFile
  spawnsOf,              \* the games whose spawn points spawn.pwn holds
  raceOf,                \* the game whose vehicle model race.pwn holds, or NoFile
  connected,             \* the players on the server
  faded,                 \* the players whose screen has been faded to black
  tdsCreated,            \* gameChanger.pwn: the four textdraws exist
  shown                  \* the players they are shown to

handles == <<timeoutTimer, exitGameChangerTimer>>
scripts == <<filterscripts, initialised, playing>>
handlers == <<metaOf, spawnsOf, raceOf>>
screens == <<connected, faded, tdsCreated, shown>>
vars == <<fileOf, currentGameId, handles, timers, scripts, handlers, screens>>

-----------------------------------------------------------------------------
(* Timers.                                                                 *)

Callbacks == {"GameLoadTimeout", "ExitGameChangerScreen", "RespawnAllPlayers",
              "ShowGameChangeTDs", "ShowGameChangeTDSForPlayer"}

Timer(h, f, p, d) == [id |-> h, fn |-> f, player |-> p, left |-> d]

TimerRecords == [id : TimerIds \cup {Unkept}, fn : Callbacks,
                 player : Players \cup {NoPlayer}, left : Nat]

\* SetTimer with the id kept, SetTimer without, KillTimer.
Kept(h, f, d) == Timer(h, f, NoPlayer, d)
Forgotten(f, d) == Timer(Unkept, f, NoPlayer, d)
KillTimer(T, h) == {t \in T : t.id # h}

\* The server never hands an id out twice; only an id that is neither running
\* nor still held by a handle can be told apart from a new one.
IsFresh(h) ==
  /\ h \in TimerIds
  /\ h \notin {timeoutTimer, exitGameChangerTimer}
  /\ \A t \in timers : t.id # h

Aged(t) == [t EXCEPT !.left = @ - 1]

Due(f) == {t \in timers : t.fn = f /\ t.left = 0}

Pending(f) == \E t \in timers : t.fn = f

-----------------------------------------------------------------------------
(* gameUnloader.init, gameChanger.init and resetCurrentGame: what is left  *)
(* of each variable after a call.  Nothing happens when no game is loaded. *)

Unloading == currentGameId # INVALID_GAME_ID

\* Mutant: the exit timer is not killed by resetCurrentGame.
TimersKeptExitRuns ==
  IF Unloading
  THEN KillTimer(timers, timeoutTimer)
         \cup {Forgotten("ShowGameChangeTDs", SHOW_DELAY),
               Forgotten("RespawnAllPlayers", RESPAWN_DELAY)}
  ELSE timers

\* Mutant: the screens are not faded when a game is unloaded.
FadedOnUnloadForgotten == faded

\* unloadfs takes the file name of the current game from the cache.
ScriptsKept ==
  IF Unloading THEN filterscripts \ {fileOf[currentGameId]} ELSE filterscripts

\* Both handles are killed; the two timers started are never looked at again.
TimersKept ==
  IF Unloading
  THEN KillTimer(KillTimer(timers, timeoutTimer), exitGameChangerTimer)
         \cup {Forgotten("ShowGameChangeTDs", SHOW_DELAY),
               Forgotten("RespawnAllPlayers", RESPAWN_DELAY)}
  ELSE timers

\* exitGameChangerTimer is killed but, unlike timeoutTimer, keeps its value.
TimeoutKept == IF Unloading THEN NoTimer ELSE timeoutTimer

FadedOnUnload == IF Unloading THEN faded \cup connected ELSE faded
MetaKept == IF Unloading THEN NoFile ELSE metaOf
SpawnsKept == IF Unloading THEN {} ELSE spawnsOf

\* Everything an unload changes except the timers and the game id.  Of the
\* handlers gameUnloader.init resets two: resetRaceData of race.pwn has no caller.
UnloadData ==
  /\ filterscripts' = ScriptsKept
  /\ initialised' = initialised \cap ScriptsKept
  /\ playing' = FALSE
  /\ metaOf' = MetaKept /\ spawnsOf' = SpawnsKept
  /\ faded' = FadedOnUnload
  /\ UNCHANGED <<raceOf, connected, tdsCreated, shown>>

-----------------------------------------------------------------------------
(* The commands of gj.pwn, and the callbacks of the timers.                *)

MayStart == Cardinality(timers) < MaxTimers

\* Mutant: InitTheGame does not kill the timeout.
AnsweredStillTimed(T, h) ==
  KillTimer(T, exitGameChangerTimer)
    \cup {Kept(h, "ExitGameChangerScreen", EXIT_DELAY)}

\* Mutant: the exit timer runs half a second too short.
AnsweredTooSoon(T, h) ==
  KillTimer(KillTimer(T, timeoutTimer), exitGameChangerTimer)
    \cup {Kept(h, "ExitGameChangerScreen", EXIT_DELAY - 1)}

\* InitTheGame's effect on the pending timers: the timeout is killed, then a
\* running exit timer, and the exit timer starts afresh under id h.
Answered(T, h) ==
  KillTimer(KillTimer(T, timeoutTimer), exitGameChangerTimer)
    \cup {Kept(h, "ExitGameChangerScreen", EXIT_DELAY)}

\* A filterscript registers its data from OnFilterScriptInit.  The vehicle model
\* stays what an earlier game made it unless this game sets one of its own.
GameData(f) ==
  /\ metaOf' = f /\ spawnsOf' = SpawnsKept \cup {f}
  /\ raceOf' = IF f \in RaceGames THEN f ELSE raceOf

\* chooseRandomGame: a slot that holds a game, or -1 when the cache has none.
Choices(list) ==
  LET filled == {g \in Games : list[g] # NoFile}
  IN  IF filled = {} THEN {INVALID_GAME_ID} ELSE filled

FileName(list, g) == IF g = INVALID_GAME_ID THEN NoFile ELSE list[g]

\* Mutant: an old timeout is not killed before a new one is set.
ArmedTwice(h) == TimersKept \cup {Kept(h, "GameLoadTimeout", GAME_LOAD_TIMEOUT)}

\* Mutant: a load is not timed.
ArmedNever(h) == KillTimer(TimersKept, TimeoutKept)

\* The timers once gameLoader.init has killed the old timeout and set its own.
Armed(h) ==
  KillTimer(TimersKept, TimeoutKept)
    \cup {Kept(h, "GameLoadTimeout", GAME_LOAD_TIMEOUT)}

\* gameLoader.init up to loadfs: unload, choose from a list that may just have
\* been read again, remember the game.
BeginLoad(list, g) ==
  /\ connected # {} /\ MayStart
  /\ fileOf' = list
  /\ currentGameId' = g
  /\ playing' = FALSE
  /\ faded' = FadedOnUnload
  /\ UNCHANGED <<connected, tdsCreated, shown>>

\* loadfs finds no such file, or one that is loaded already.
LoadMissing(list, g, h) ==
  /\ BeginLoad(list, g) /\ IsFresh(h)
  /\ timeoutTimer' = h
  /\ timers' = Armed(h)
  /\ filterscripts' = ScriptsKept
  /\ initialised' = initialised \cap ScriptsKept
  /\ metaOf' = MetaKept /\ spawnsOf' = SpawnsKept
  /\ UNCHANGED <<exitGameChangerTimer, raceOf>>

\* The filterscript loads but leaves InitTheGame for later.
LoadSilent(list, g, h) ==
  LET f == FileName(list, g) IN
  /\ f # NoFile /\ f \notin ScriptsKept
  /\ BeginLoad(list, g) /\ IsFresh(h)
  /\ timeoutTimer' = h
  /\ timers' = Armed(h)
  /\ filterscripts' = ScriptsKept \cup {f}
  /\ initialised' = initialised \cap ScriptsKept
  /\ GameData(f)
  /\ UNCHANGED exitGameChangerTimer

\* The filterscript calls InitTheGame from OnFilterScriptInit, that is, inside
\* loadfs: the timeout that was set just before is killed in the same step.
LoadAnswered(list, g, h) ==
  LET f == FileName(list, g) IN
  /\ f # NoFile /\ f \notin ScriptsKept
  /\ BeginLoad(list, g) /\ IsFresh(h)
  /\ timeoutTimer' = NoTimer
  /\ exitGameChangerTimer' = h
  /\ timers' = Answered(KillTimer(TimersKept, TimeoutKept), h)
  /\ filterscripts' = ScriptsKept \cup {f}
  /\ initialised' = (initialised \cap ScriptsKept) \cup {f}
  /\ GameData(f)

LoadGame ==
  \E list \in {fileOf} \cup GameLists, h \in TimerIds : \E g \in Choices(list) :
    LoadMissing(list, g, h) \/ LoadSilent(list, g, h) \/ LoadAnswered(list, g, h)

\* The command /unloadgame.
UnloadGame ==
  /\ connected # {} /\ MayStart
  /\ timers' = TimersKept
  /\ timeoutTimer' = TimeoutKept
  /\ currentGameId' = INVALID_GAME_ID
  /\ UnloadData
  /\ UNCHANGED <<fileOf, exitGameChangerTimer>>

\* A filterscript that was silent at first calls InitTheGame, or one that has
\* called it calls it again: the exit timer starts anew, in play too.
InitTheGame(f, h) ==
  /\ f \in filterscripts
  /\ IsFresh(h)
  /\ exitGameChangerTimer' = h
  /\ timers' = Answered(timers, h)
  /\ timeoutTimer' = NoTimer
  /\ initialised' = initialised \cup {f}
  /\ UNCHANGED <<fileOf, currentGameId, filterscripts, playing, handlers, screens>>

\* Stale when the handle has been reset; otherwise the game is unloaded.
GameLoadTimeout(t) ==
  /\ t \in Due("GameLoadTimeout")
  /\ IF timeoutTimer = NoTimer
     THEN /\ timers' = timers \ {t}
          /\ UNCHANGED <<fileOf, currentGameId, handles, scripts, handlers, screens>>
     ELSE /\ timers' = TimersKept \ {t}
          /\ timeoutTimer' = NoTimer
          /\ currentGameId' = INVALID_GAME_ID
          /\ UnloadData
          /\ UNCHANGED <<fileOf, exitGameChangerTimer>>

\* The screens are faded back, the textdraws go, everybody is spawned.
ExitGameChangerScreen(t) ==
  /\ t \in Due("ExitGameChangerScreen")
  /\ timers' = timers \ {t}
  /\ IF exitGameChangerTimer = NoTimer
     THEN UNCHANGED <<exitGameChangerTimer, playing, screens>>
     ELSE /\ exitGameChangerTimer' = NoTimer
          /\ playing' = TRUE
          /\ faded' = faded \ connected
          /\ tdsCreated' = FALSE /\ shown' = {}
          /\ UNCHANGED connected
  /\ UNCHANGED <<fileOf, currentGameId, timeoutTimer, filterscripts, initialised, handlers>>

\* SpawnPlayer for every slot: no state of this module.
RespawnAllPlayers(t) ==
  /\ t \in Due("RespawnAllPlayers")
  /\ timers' = timers \ {t}
  /\ UNCHANGED <<fileOf, currentGameId, handles, scripts, handlers, screens>>

\* Mutant: the textdraws are shown without being made anew.
ShowWithoutCreating(t) ==
  /\ t \in Due("ShowGameChangeTDs")
  /\ timers' = timers \ {t}
  /\ shown' = IF tdsCreated THEN connected ELSE shown
  /\ UNCHANGED <<fileOf, currentGameId, handles, scripts, handlers, connected, faded,
                 tdsCreated>>

\* The textdraws are made anew and shown to everybody.
ShowGameChangeTDs(t) ==
  /\ t \in Due("ShowGameChangeTDs")
  /\ timers' = timers \ {t}
  /\ tdsCreated' = TRUE /\ shown' = connected
  /\ UNCHANGED <<fileOf, currentGameId, handles, scripts, handlers, connected, faded>>

\* Showing textdraws that do not exist has no effect.
ShowGameChangeTDSForPlayer(t) ==
  /\ t \in Due("ShowGameChangeTDSForPlayer")
  /\ timers' = timers \ {t}
  /\ shown' = IF tdsCreated THEN shown \cup ({t.player} \cap connected) ELSE shown
  /\ UNCHANGED <<fileOf, currentGameId, handles, scripts, handlers, connected, faded,
                 tdsCreated>>

-----------------------------------------------------------------------------
(* Players, time, and a restart of the gamemode.                           *)

\* Mutant: the screen of a player who joins is not faded.
PlayerConnectUnfaded(p) ==
  /\ p \notin connected /\ MayStart
  /\ connected' = connected \cup {p}
  /\ timers' = timers \cup
       {Timer(Unkept, "ShowGameChangeTDSForPlayer", p, PLAYER_SHOW_DELAY)}
  /\ UNCHANGED <<fileOf, currentGameId, handles, scripts, handlers, faded, tdsCreated, shown>>

\* Mutant: what a player's slot was shown is kept for the next player.
PlayerDisconnectKeepsScreen(p) ==
  /\ p \in connected
  /\ connected' = connected \ {p}
  /\ UNCHANGED <<fileOf, currentGameId, handles, timers, scripts, handlers, faded,
                 tdsCreated, shown>>

\* OnPlayerConnect calls initForPlayer whether or not a game is being played.
PlayerConnect(p) ==
  /\ p \notin connected /\ MayStart
  /\ connected' = connected \cup {p}
  /\ faded' = faded \cup {p}
  /\ timers' = timers \cup
       {Timer(Unkept, "ShowGameChangeTDSForPlayer", p, PLAYER_SHOW_DELAY)}
  /\ UNCHANGED <<fileOf, currentGameId, handles, scripts, handlers, tdsCreated, shown>>

\* The timer OnPlayerConnect set for the player's slot stays.
PlayerDisconnect(p) ==
  /\ p \in connected
  /\ connected' = connected \ {p}
  /\ faded' = faded \ {p} /\ shown' = shown \ {p}
  /\ UNCHANGED <<fileOf, currentGameId, handles, timers, scripts, handlers, tdsCreated>>

\* Half a second passes; every timer that is due fires first.
Tick ==
  /\ \A t \in timers : t.left > 0
  /\ timers' = {Aged(t) : t \in timers}
  /\ UNCHANGED <<fileOf, currentGameId, handles, scripts, handlers, screens>>

\* OnGameModeInit reads the game list and shows the game changer screen.
Init ==
  /\ fileOf \in GameLists
  /\ currentGameId = INVALID_GAME_ID
  /\ timeoutTimer = NoTimer /\ exitGameChangerTimer = NoTimer
  /\ timers = {Forgotten("ShowGameChangeTDs", SHOW_DELAY)}
  /\ filterscripts = {} /\ initialised = {} /\ playing = FALSE
  /\ metaOf = NoFile /\ spawnsOf = {} /\ raceOf = NoFile
  /\ connected = {} /\ faded = {}
  /\ tdsCreated = TRUE /\ shown = {}

\* Mutant: OnGameModeExit leaves the filterscript of the game loaded.
RestartKeepsTheGame ==
  /\ UNCHANGED <<filterscripts, initialised>>
  /\ fileOf' \in GameLists
  /\ currentGameId' = INVALID_GAME_ID
  /\ timeoutTimer' = NoTimer /\ exitGameChangerTimer' = NoTimer
  /\ timers' = {Forgotten("ShowGameChangeTDs", SHOW_DELAY)}
  /\ playing' = FALSE
  /\ metaOf' = NoFile /\ spawnsOf' = {} /\ raceOf' = NoFile
  /\ connected' = {} /\ faded' = {}
  /\ tdsCreated' = TRUE /\ shown' = {}

\* OnGameModeExit unloads the game's filterscript, which would survive the
\* gamemode otherwise; the gamemode's timers and variables go with it, and
\* OnGameModeInit starts it from its initial state.
RestartGameMode ==
  /\ filterscripts' = ScriptsKept
  /\ initialised' = initialised \cap ScriptsKept
  /\ fileOf' \in GameLists
  /\ currentGameId' = INVALID_GAME_ID
  /\ timeoutTimer' = NoTimer /\ exitGameChangerTimer' = NoTimer
  /\ timers' = {Forgotten("ShowGameChangeTDs", SHOW_DELAY)}
  /\ playing' = FALSE
  /\ metaOf' = NoFile /\ spawnsOf' = {} /\ raceOf' = NoFile
  /\ connected' = {} /\ faded' = {}
  /\ tdsCreated' = TRUE /\ shown' = {}

Commands == LoadGame \/ UnloadGame \/ RestartGameMode
Answers == \E f \in Files, h \in TimerIds : InitTheGame(f, h)

TimerFires ==
  \E t \in timers :
    \/ GameLoadTimeout(t) \/ ExitGameChangerScreen(t) \/ RespawnAllPlayers(t)
    \/ ShowGameChangeTDs(t) \/ ShowGameChangeTDSForPlayer(t)

Next ==
  \/ LoadGame \/ UnloadGame \/ RestartGameMode
  \/ Answers
  \/ TimerFires \/ Tick
  \/ \E p \in Players : PlayerConnect(p) \/ PlayerDisconnect(p)

\* The server keeps running its timers; nobody has to type a command, join or
\* leave, and a filterscript need not answer.
Spec == Init /\ [][Next]_vars
FairSpec == Spec /\ WF_vars(TimerFires \/ Tick)

-----------------------------------------------------------------------------
(* Properties.                                                             *)

\* Every variable has its type.
TypeOK ==
  /\ fileOf \in [Games -> Files \cup {NoFile}]
  /\ currentGameId \in Games \cup {INVALID_GAME_ID}
  /\ timeoutTimer \in TimerIds \cup {NoTimer}
  /\ exitGameChangerTimer \in TimerIds \cup {NoTimer}
  /\ timers \subseteq TimerRecords
  /\ filterscripts \subseteq Files /\ initialised \subseteq filterscripts
  /\ playing \in BOOLEAN
  /\ metaOf \in Files \cup {NoFile} /\ raceOf \in Files \cup {NoFile}
  /\ spawnsOf \subseteq Files
  /\ connected \subseteq Players /\ faded \subseteq connected /\ shown \subseteq connected
  /\ tdsCreated \in BOOLEAN

Answering == initialised # {}
InPlay == playing

CurrentFile == FileName(fileOf, currentGameId)

\* A timeout or exit timer that is pending is the one its handle names, so the
\* next load, unload or InitTheGame can still kill it (the KillTimer calls of
\* gameLoader.pwn lines 27-29, 67-69 and 96-102).
TimersAreHeld ==
  \A t \in timers :
    /\ t.fn = "GameLoadTimeout" => t.id = timeoutTimer
    /\ t.fn = "ExitGameChangerScreen" => t.id = exitGameChangerTimer

\* Only the filterscript of the current game is ever loaded: unloadfs is given
\* the name loadfs was given, although the game list may be read again between.
OnlyTheCurrentGameIsLoaded == filterscripts \subseteq {CurrentFile}

\* A loaded game that has not called InitTheGame is being timed, and one that
\* has is not: a late answer and the timeout never both take effect.
SilentGamesAreTimed ==
  /\ filterscripts # initialised => Pending("GameLoadTimeout")
  /\ Answering => ~Pending("GameLoadTimeout")

\* The game changer screen is left only for a game that answered and is still
\* loaded; no exit timer outlives its game, and no play.
ExitBelongsToAGame ==
  Pending("ExitGameChangerScreen") \/ InPlay => CurrentFile \in initialised

\* What an unload started (the respawn of everybody, the textdraws) is over
\* before the next game is in play: 2.5 and 5 seconds against 5.5.
NothingOldInterruptsPlay ==
  InPlay => ~Pending("RespawnAllPlayers") /\ ~Pending("ShowGameChangeTDs")

\* While a game is in play no game changer textdraw exists or is shown.
NoTextdrawsInPlay == InPlay => ~tdsCreated /\ shown = {}

\* Outside play nobody looks into a world without a game (gameUnloader.pwn
\* line 22: enter the game load screen as no game is loaded).
BlackOutsidePlay == ~InPlay => connected \subseteq faded

\* Outside play everybody sees the textdraws, or a timer is on its way that
\* will show them, whenever the player joined.
TextdrawsReachEverybody ==
  ~InPlay =>
    \A p \in connected \ shown :
      \/ Pending("ShowGameChangeTDs")
      \/ \E t \in timers : t.fn = "ShowGameChangeTDSForPlayer" /\ t.player = p

\* No game works with the textdraws over it, and nobody waits without them.
TextdrawsFollowPlay == NoTextdrawsInPlay /\ TextdrawsReachEverybody

\* Meta data and spawn points are those of the current game, never left over
\* from an earlier one, and a game that races does so with its own vehicle.
HandlersServeTheCurrentGame ==
  /\ metaOf # NoFile => metaOf = CurrentFile
  /\ spawnsOf \subseteq {CurrentFile}
  /\ filterscripts \cap RaceGames \subseteq {raceOf}

\* Of the games before the current one neither script nor meta data nor spawn
\* points are left, however games and lists change, and a race is not driven in
\* another game's vehicle.  (That vehicle's model does stay behind when no race
\* is on: UnloadData.)
NothingOfAnotherGame == OnlyTheCurrentGameIsLoaded /\ HandlersServeTheCurrentGame

\* When the commands and the games' answers cease the server comes to rest: in
\* play, or idle with no filterscript loaded and no request outstanding.
Settled ==
  \/ InPlay
  \/ currentGameId = INVALID_GAME_ID /\ filterscripts = {} /\ timeoutTimer = NoTimer

ServerSettles == []<><<Commands \/ Answers>>_vars \/ <>[]Settled

-----------------------------------------------------------------------------
(* The life cycle this engine implements.                                  *)

PhaseNow ==
  IF currentGameId = INVALID_GAME_ID THEN "idle"
  ELSE IF ~Answering THEN "loading"
  ELSE IF InPlay THEN "playing" ELSE "starting"

GameNow == {currentGameId} \ {INVALID_GAME_ID}

Lit == connected \ faded

Abstract == INSTANCE GameLifecycle
  WITH phase <- PhaseNow,
       game <- GameNow,
       present <- connected,
       lit <- Lit

\* The engine implements GameLifecycle: what it does with timers and
\* filterscripts is, seen from outside, one of the steps promised there.
ImplementsLifecycle == Abstract!Lifecycle
===============================================================================
