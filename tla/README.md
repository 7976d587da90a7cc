# Grand Jobs: the verification project

Grand Jobs is a San Andreas Multiplayer (SA-MP) gamemode written in Pawn. The
gamemode proper lives in `src/gamemodes/src`; games and minigames are separate
*filterscripts* (`src/filterscripts`) which the gamemode loads and unloads by
RCON command and which talk back to it with `CallRemoteFunction`.

Everything runs in the single-threaded AMX virtual machine: a callback runs to
its end before the next one starts. What makes the program hard is what happens
*between* callbacks: timers that were started earlier and come due later
(`SetTimer` / `KillTimer`), database queries that are answered by another
thread's result callback, filterscripts that answer late or never, and players
who leave while any of these is outstanding and whose slot number is then given
to somebody else.

## Inventory

Paths are under `src/gamemodes/src` unless they start with `src/`.

| component | source | state it keeps | operations | what makes it correct |
| --- | --- | --- | --- | --- |
| Game life cycle | `gameEngine/initialisation/global/gameLoader.pwn`, `gameUnloader.pwn`, `gameChanger.pwn`, `gj.pwn` | `currentGameId`, `timeoutTimer`, `exitGameChangerTimer`, the textdraw handles, timers nobody keeps the id of | `/loadgame`, `/unloadgame`, `GameLoadTimeout`, `InitTheGame`, `ExitGameChangerScreen`, `RespawnAllPlayers`, `ShowGameChangeTDs`, `ShowGameChangeTDSForPlayer` | one game at a time; a game is timed or has answered, never both; nothing of an old game reaches the next; the screen is black outside play |
| Game list | `game.pwn`, `globalGameLoader.pwn`, `gamePicker.pwn` in the same directory | `gameData`, `numberOfGamesLoaded`, `cacheTime` | refresh from `gameList.csv`, typed and untyped choice | a choice is a slot that holds a game; the cache is read again after an hour and not before |
| Game data handlers | `gameEngine/initialisation/game/gameMeta.pwn`, `gameEngine/helpers/spawn/spawn.pwn`, `gameEngine/helpers/race/race.pwn` | meta data, spawn points and whose turn it is, the race vehicle of each slot | filled by the filterscript through `CallRemoteFunction`, used by it to place players, reset by the unloader | a player is put at a point that exists, of the right team, in turn; a destroyed vehicle is the player's own |
| Screen fade | `core/internal/libaries/third_party/screenfade.inc` | one textdraw, one repeating timer and one counter per slot | `FadePlayerScreen`, the 75 ms tick, connect, disconnect | one fade per player; the screen ends as last asked; no jump in the shade |
| Death screen | `core/player/death.pwn` | the id of one player textdraw per slot | show on death, hide on leaving `PLAYER_STATE_WASTED` | the message goes with the death, and destroys nobody else's textdraw |
| Accounts | `core/playerAccount/**`, `core/playerConnection/**`, `core/initialisation/initialiseDatabase` | account data, the registered and logged-in flags, queries in flight | `OnPlayerConnect`, query results, login dialog, six-step registration wizard | an answer is applied to the player it was asked for; flags agree with the database when nothing is in flight |
| Runaway race | `src/filterscripts/jay_runaway2.pwn` | the phase of the game, sign-ups, several timers and two textdraws per player | `/signup`, `/leave`, `StartGame`, checkpoints, `EndGame` | a round starts once with the players who signed up for it, and a timer of one round never acts on the next |
| Ammunation | `src/filterscripts/ammunation` | who is in which shop, menus, a timer chain per player | enter, buy, leave | one menu and one timer chain per player; control and camera are given back |
| Pure helpers | `core/internal/libaries/API.pwn` | none | `IsValidEmail`, `adler32`, ... | agreement with their definitions |
| Logging, settings, language | `core/internal/Logger.pwn`, `settings.pwn`, `globals.pwn` | none that others read back | output, constants | not modelled |
| sscanf plugin: players | `src/plugins/sscanf-2.8.2/sscanf` (end of `sscanf.cpp`, `specifiers.cpp`, `utils.cpp`), `third_party/sscanf2.inc` | per slot a counter, a name and the NPC flag; the global options | `SSCANF_Init`, `SSCANF_Join`, `SSCANF_Leave`, `SSCANF_SetPlayerName`, `SSCANF_Option`; lookup by number, by name, as a list | the counter is the number of scripts that know the player; who is found is online and of the kind asked for |
| sscanf plugin: calls | the same directory: `sscanf.cpp`, `specifiers.cpp`, `data.cpp`, `array.cpp`, `enum.cpp`, `kustom.cpp` | during a call: place in format and text, delimiter, destinations used, quiet section, options | one branch per specifier, in two loops: while there is input, and for the defaults after it | nothing is written past the destinations; fields go to their own specifier; options should end with the call; every call ends |
| Whirlpool plugin | `src/plugins/Whirlpool/Whirlpool/main.cpp`, `64bit_tables.h` | during a call: hash, buffer with its position, length, and the round's key and state | `WP_Hash` | what is hashed is the string and its padding; the rounds are those of the cipher |
| Plugin SDK | `src/plugins/**/SDK` | none | function pointers into the server | not modelled |
| Vendored Pawn code | `core/internal/libaries/third_party` except the fade and `sscanf2.inc` | | YSI, translate, zcmd, the MySQL include | not modelled |
| Stock scripts, data | most of `src/filterscripts`, `src/npcmodes`, `src/scriptfiles` | | distributed with the SA-MP server | not modelled |

### How they interact

- *Commands.* `gj.pwn` calls the loader and the unloader directly. Both send
  `loadfs` / `unloadfs` with `SendRconCommand`, which runs at once: the
  filterscript's `OnFilterScriptInit` runs *inside* the loader, and may call back
  `InitTheGame` before the loader has returned.
- *Remote functions.* Filterscripts fill the handlers and answer the loader by
  `CallRemoteFunction`, through the include files in `filterscripts/`.
- *Database.* Queries are sent by a callback and answered by a later one, through
  the MySQL plugin, with the slot number they were sent for.
- *Shared screen.* Game changer and registration wizard both fade a player's
  screen, without knowing of each other. Fade, death screen and race all create
  player textdraws, whose small ids the server hands out per slot.
- *Passwords.* The accounts hash with `WP_Hash` when they register and compare
  (`AccountPassword.pwn:12`, `:23`, `registerPlayer.pwn:59`); the native keeps nothing
  between calls, so that `Session` needs only whose password a text is.
- *Text.* The game list is read with sscanf (`globalGameLoader.pwn:47`), commands
  look players up with it. The plugin's options and what it knows of the players
  are shared by all scripts of the server, each of which reports the players.
- *Slots.* Everything a script knows of a player is indexed by the slot number,
  which the next player to join may be given. Database answers and timers carry
  a slot number, not a player.
- *Time.* The delays of the game change (2.5, 3, 5 and 5.5 seconds) are the only
  thing that keeps the steps of one change from falling into the next game.

### Where it is hard

The list, with lines and the properties that answer each item, is the `hazards`
part of `PROJECT.json`. In short: an answer racing its timeout; timers whose
handle is kept but stale, or not kept at all; a game list read again between
`loadfs` and `unloadfs`; players who join in the middle of a game change; a
handler that is not reset; fades that interrupt each other; ids of vehicles,
textdraws, timers and slots used again for something else; arrays filled from
one and read from zero; a gamemode that restarts over loaded filterscripts;
database answers that arrive for a slot somebody else has by then; scripts that
end while others still count on a player; a parser that skips one delimiter too
many, reads a format that it has itself written to, or has more specifiers than
destinations; and a hash buffer that is never cleared as a whole.

## Modules

| module | stands for |
| --- | --- |
| `GameLifecycle` | what the engine promises, without timers: idle, loading, starting, playing |
| `GameEngine` | loader, unloader, changer, the filterscript as a game, players coming and going, the restart of the gamemode |
| `GameEngineProofs` | theorems about `GameEngine`, the refinement of `GameLifecycle` among them |
| `SpawnAndRace`, `SpawnAndRaceProofs` | spawn points, teams, race vehicles and the server's vehicle pool |
| `PlayerScreen`, `PlayerScreenProofs` | fade, death message, the two textdraws of the Runaway race, the server's player textdraw ids |
| `Session`, `SessionProofs` | accounts: lookup, flags, login dialog, registration wizard, queries in flight |
| `SscanfText` | what the sscanf plugin does to text, as operators: spacers, numbers, strings, the pieces of a format |
| `SscanfPlayers` | what the plugin knows of the players, the scripts that tell it, and the lookups; extends `SscanfText` |
| `SscanfGroups` | arrays, enumerations and the types of a script, as operators; extends `SscanfPlayers`, whose lookups an array may contain |
| `Sscanf` | whole calls, one specifier at a time, composed with the players of `SscanfPlayers` |
| `SscanfProofs`, `SscanfCallsProofs` | the proofs about the plugin: the players, how calls proceed, and their fields; words, arrays and enumerations |
| `WhirlpoolCipher` | tables and one round of the hash, as operators |
| `Whirlpool`, `WhirlpoolProofs` | `WP_Hash`: chunks, buffer, padding, rounds |
| `FoldProofs` | no code: induction over the naturals and along `FoldLeft`, for the proofs about the plugins |
| `MCGameEngine`, `MCSpawnAndRace`, `MCPlayerScreen`, `MCSession`, `MCSscanfPlayers`, `MCSscanf`, `MCWhirlpool` | constants, symmetry and inputs for the model checker |

The modules of the gamemode are independent: they meet only in what a player
sees (`faded` of `GameEngine` records the fades the engine itself asked for, and
`PlayerScreen` lets anyone ask for a fade at any moment) and in the reset of the
handlers, which `GameEngine` records per game and `SpawnAndRace` in detail.
`Session` shares nothing with the others but the players and their slots.

Shared conventions: a callback or command is one action, since the AMX runs each
to its end. A timer is a record in `timers`, under the id the code keeps, or under
`Unkept` when the code throws the id away (two such timers that are equal in all
fields are one). `SetTimer` never hands out an id twice, which with a finite set
of ids becomes: the new id is neither running nor held by any handle (`IsFresh`).
An operator named after a plausible mistake and commented *Mutant* is not part of
any specification: it is what the definition after it would be with that mistake.

### GameEngine

State: `currentGameId`, `timeoutTimer` and `exitGameChangerTimer` are the code's
variables; `fileOf` is the file-name column of the game cache; `filterscripts`
and `initialised` are the scripts that are loaded and those that have called
`InitTheGame`; `metaOf`, `spawnsOf` and `raceOf` say whose data the three handlers
hold (`RaceGames` are the games that choose a race vehicle); `tdsCreated` and `shown`
describe the four global textdraws. `playing` is history: that the screen has been left
for the game loaded last, which no variable of the code says.

`gameLoader.init` is `LoadGame`, in three forms that differ in what the
filterscript does: it does not exist or is loaded already (`LoadMissing`), it loads
without answering (`LoadSilent`), or it answers from `OnFilterScriptInit`
(`LoadAnswered`, as `src/filterscripts/game/jaydm.pwn` does). Each includes the
unload of the running game, the choice among a list that may just have been read
again from disk, and the timeout being armed. `UnloadGame`, `InitTheGame`,
`GameLoadTimeout`, `ExitGameChangerScreen`, `RespawnAllPlayers`,
`ShowGameChangeTDs` and `ShowGameChangeTDSForPlayer` are the functions of those
names. A loaded script may call `InitTheGame` at any time and as often as it likes, as
the code does not look: a second call starts the exit timer anew, in play too.
`RestartGameMode` is `OnGameModeExit` followed by `OnGameModeInit`.
`Tick` lets half a second pass, which all delays are multiples of; timers due at
the same instant fire in any order.

Initially the timer for the textdraws, set by `initialiseGamemode`, is pending and
no game is loaded. Two observations that look wrong and are harmless, shown by
the invariants: `resetCurrentGame` kills the exit timer but leaves its id in the
handle, and a player who joins during play is faded to black and stays so until
the next game change (the life cycle promises no more: `Join` does not light).

Left out: the animated title, audio streams, NPCs, and what `SpawnPlayer` causes
in other scripts.

### SpawnAndRace

`AddSpawnPos`, `SpawnPlayerAtRandomPos`, `SpawnPlayerAtUniquePos`, `SetRaceVehicle`,
`CreatePlayerRaceVehicle` and `DestroyPlayerRaceVehicle` are the public functions;
`OnVehicleSpawn` the callback (`OnVehicleDeath` only logs, against `race.pwn:73`). A point is its number; its
coordinates do not matter. The include file and the handler disagree on the
names of arguments of `AddSpawnPos`, twice, so that the two mistakes cancel. The
vehicle model is never -1, because `resetRaceData` is never called; with model 0
the server makes no vehicle. When all `MAX_SPAWN_POINTS` points belong to one team
the candidate array overflows and the callback ends with a run-time error, which
is why `SpawnPlayerAtRandomPos` is then not enabled. `OtherVehicleMade` and
`OtherVehicleDestroyed` are external: other scripts that use the same pool.
`turns` and `at` are auxiliary, read by properties only.

### PlayerScreen

`FadePlayerScreen`, `UpdateTextdrawFade`, `PlayerConnect` and `PlayerDisconnect` are
the whole of `screenfade.inc`; the shade stands for the colour. `PlayerDeath` and
`PlayerStateChange` are `death.pwn`. `RaceStarts`, `RaceFinishes` and `LeaveRace`
create and destroy the race's textdraws as the race's code does, whatever the handles
hold; they may come at any time, so that every order the race can produce is there, and
more. A player may die again without a change of state in between. Player textdraw ids are external:
the lowest free one, all forgotten when the player leaves. `wanted` is auxiliary.
The stale id `death.pwn` keeps over a disconnect cannot hit the fade textdraw,
which is the first one a player gets and so always the lowest id
(`FadeTextdrawIsSafe`); it can hit a textdraw of the race, of which no comment of
the code says anything.

### Session

`isPlayerRegistered`, `bPlayerLoggedIn` and `userData` are the code's per-slot arrays
(of `userData` only whose account it holds); `dialog` is what y_dialog shows; `queries`
are those the plugin has not answered; `accounts` is the table. `PlayerConnect` is
`OnPlayerConnect` with the constructors it calls, `OnPlayerSpawn` the login check,
`Register` the command, `Moves` the dialogs of `registerPlayer.pwn` and the help of
`loginPlayer.pwn`, in which inputs are abstracted to where they lead,
`ConfirmRegistration` the last step, `Login` the right password. A wrong password shows
the same dialog again, which changes nothing.

External: the plugin runs the queries of one connection in the order they were sent
and answers in that order, so `Answer` executes and answers the head of the queue in
one step. A lookup is always answered (the code tests the connection only once, at
the start); an INSERT may fail, for the UNIQUE columns of `constructTable`, and then
nothing is called. Names are unique among the players, as the server sees to it.
`RestartGameMode` ends with any set of the INSERTs in flight carried out, since
`mysql_close` tells nobody.

Whatever password is typed is some account's, or
none's; `Validates` says it is right if it is that of the account whose data are held, or if no
data are held, since `strcmp` takes the empty string for equal to any.

Noted while reading and outside the model: the lookup reads a column `Email`
(`retrieveData.pwn:47`) that `constructTable` calls `EmailAddress`; `Kick` is commented
out (`loginPlayer.pwn:28`); the public `IsPlayerLoggedIn` does not return its value.

### SscanfPlayers

`g_iTrueMax`, `g_iConnected`, `g_szPlayerNames`, `g_iNPC` and `gOptions` are the
plugin's globals. `online`, `scripts` and `pending` are the server: a callback runs in
one script after the other, and a script that was called may look players up before
the next one is. `Join`, `Leave` and `SetPlayerName` are the natives, called by
`StartScript`, `StopScript` and `Callback` as `sscanf2.inc` does. The names start as
whatever memory held (`Garbage`); the NPC flags do too, but are never read before they
are written.

Scripts start and end whenever they like, with players online or not. A script that
starts late reports only the players nobody has reported, and counts out all of them when
it ends. `uncounted` is history and says how often that happened to a slot: a start found
a player there who was known already. Such a start is never made up for, so that the
counter of the slot is one short for its later players as well, and the plugin then forgets
some who are online, or takes some for online who are not. `CountIsExact` says precisely
that, for every slot and at every point of the callbacks; what depends on the plugin
knowing who is online is claimed for the other slots. In this repository only the gamemode includes `sscanf2.inc`. Any other
script that does, loaded with `loadfs`, makes the case real.

`DoUser` and `UserList` keep what looks odd in the code: a name matches if it is a
prefix of the word; the empty word is the id 0; in a list, the array of connections is
moved with the start of the search and that of the names is not.

### SscanfText, SscanfGroups, Sscanf

A text is a sequence of characters, a pointer a position in it. A reader is an
operator from text and position to the value, the position after it and whether
it was content. `Sscanf` has one action per specifier, each a turn of a loop of
`n_sscanf`: `Required` and `Optional` are the numbers and characters, then `String`,
`User`, `Array`, `Enum`, `Kustom`, `SearchLiteral`, `Option`, the delimiters, quiet
sections, and `Ignored` for what is none of them. `InputEnds` goes on to the second
loop, whose actions are those called *Default*, *Discarded*, *Missing*, or shared with
the first. `saved` holds the values in the order of the destinations.

The plugin writes NULs into the format to end its pieces. That is modelled where the
code reads such a piece a second time: the defaults, then the input, of one array or
enumeration (`after`, `rest`).

Numbers wrap at `Half`, 128 in the runs, where the code has 2^31. A floating point
number is its whole part. `CallPublic`, the script's own `sscanf_<name>`, is external
and stands for whatever it makes of the word. Not called with: formats without a default
where one belongs, and ones that end inside a bracket, for which the code saves
uninitialised memory or reads past the end. Nor does the model have what lies behind a text
that ends in a lone backslash, where `DoC` reads on past the NUL (`specifiers.cpp:88-103`,
`GetChar`: the text ends again), or what `DoSD` overwrites on the stack of its caller when a
default is longer than its destination (`specifiers.cpp:872-876`: it is cut). No call of a run
comes there.

`Return` restores the options and `ReturnAtOnce` does not: the code has eleven plain returns
(`sscanf.cpp:373`, `449`, `454`, `479`, `548`, `553`, `578`, `647`, `652`, `677` and `936`).

Noted while reading, and kept by the model: a string before an empty field with an
explicit delimiter takes that field with it (finding 2; a line `Name,,0` of
the game list is such a text); `S`, `L` and `U[]` with an explicit delimiter read their
default with that and not with the bracket; `U(0)[n]` without input gives one player
and nothing that ends the list; an `E` whose type ends with `-`
fails if it is given exactly the defaults it needs; a `P`, a literal or a `k` inside an
enumeration with defaults is cut short for the second reading. Outside of the model: a
`sscanf_<name>` that calls sscanf itself changes the delimiter of the outer call.

### WhirlpoolCipher, Whirlpool

An unsigned integer is the set of its bits. `C` is computed from the S-box and the
eight coefficients; the entries of `64bit_tables.h` are not transcribed, so that no run or
proof would find a wrong one. (A script that computed the same from the S-box of this module found
all 2,048 words and the ten constants equal to those of the file.) `NextKey` and
`NextState` look up, shift and xor as the unrolled code does.

`pc` is the place in `n_WP_Hash`, `NESSIEadd`, `processBuffer` and `NESSIEfinalize`:
`Fetch` takes a chunk, `AddByte` and `AddRest` are the loop and its rest, `Round` and
`Compress` the block, `EndMessage` and `AppendLength` the padding, `Return` the digest.
The buffer is a local that is not cleared (`Stack` is what it may hold) and `WP_Hash`
clears only its first byte. `given` and `blocks` record what was added and processed,
for the properties. The server waits for the whole call; its steps are apart here
because the properties relate them.

Kept by the model: of a string longer than a chunk the last character of each chunk
that is followed by another is lost, and a NUL hashed for it (finding 4); `Tally` drops a carry
that is pending when the value to be added has no more bytes, from 8,192 characters on;
the comment of `main.cpp:353` says that bits are left, which is not so for the empty
string, harmlessly. The refusal of a small destination changes no state and is left out.

## What each run checks

| run | instance | properties | states |
| --- | --- | --- | --- |
| `engine_players` | 2 players, 1 list of 2 games, 4 timers | type, `SilentGamesAreTimed`, `NothingOldInterruptsPlay`, `BlackOutsidePlay`, `TextdrawsFollowPlay` | 927,963 |
| `engine_lists` | 1 player, 2 games, 3 lists, 3 timers | `TimersAreHeld`, `NothingOfAnotherGame` (one game at a time, with its own data), `ExitBelongsToAGame`, refinement of `GameLifecycle`, `ServerSettles` | 286,210 |
| `spawn_and_race` | 2 slots, 2 points, a team, 2 vehicle ids | type, `PointsExist`, `UniqueTurns`, `VehicleIsOnesOwn`, `NoVehicleIsLost` | 280,896 |
| `screen` | 2 players, 2 timer ids, 2 textdraw ids, fades of 3 iterations | type, `OneFadeEach`, `ScreenIsAsAsked`, `FadeTextdrawIsSafe`, `MessageOnlyForTheDead`, `FadesAreSmooth`, `FadesEnd` | 476,766 |
| `session_safety` | 2 slots, 2 names, 3 queries | type, `RegisteredWhenQuiet`, `PasswordIsOnesOwn`, `LoginHasAPassword` | 96,336 |
| `session_login` | 1 slot, 2 names | `LoginIsForTheRegistered`, violated | |
| `sscanf_players` | 3 slots, 3 names of which one is a bot's and one begins like another, 2 scripts | `PlayersAreKnown`, `LookupsAreSound` | 430,040 |
| `sscanf_calls` | 1 player, 1 script, 3,085 calls | type, `NeverPastTheDestinations`, `EndsInTime`, `FieldsAreRead`, `WordsSurvive`, `GroupsAreFilled` | 82,498 |
| `sscanf_middle` | one call | `MiddleDefaults`, violated | |
| `sscanf_options` | two calls that set an option | `OptionsRestored`, violated | |
| `whirlpool` | 11 strings, 2 stacks, chunks of 66 | type, `BufferHoldsTheRest`, `PaddingIsExact`, `ShortStringsAreHashed`, `RoundsAreWhirlpool` | 1,320 |
| `whirlpool_long` | the same | `HashesTheString`, violated | |

In `sscanf_calls` a call carries what its format and text were built from and where
each part begins, and the properties compute the answer from that alone: numbers from the fields between
separators, words from the words before they were escaped, arrays and enumerations
from the input and the defaults given, the last two of which go on as a series.
`ShortStringsAreHashed` and `RoundsAreWhirlpool` likewise compare with definitions of their
own, the latter with the substitution, shift and mixing of the cipher over bytes
instead of tables of words.

### Bounds, and why they are enough

- *Delays* of `GameEngine` are the code's own, in half seconds: 6, 11, 10, 5, 6.
- *MaxTimers* (4, and 3 where the list changes and for liveness): no command or connection while that many
  timers are pending. One game change starts at most four (timeout or exit,
  textdraws, respawn, and that of a player who joins), so two overlapping
  changes meet in every order; the proofs do not depend on the bound.
- *Timer ids*: at most two are held and one is new, so three suffice. Of the
  two ids for fades both players may hold one, or one player's fade be interrupted while
  the other has none. The proofs have any number.
- *Games* and *lists*: two games, one a race; the list as it is, edited, empty.
  Editing between load and unload is the case that could confuse the unloader.
- *SLOTS 2, 2 points, 2 vehicle ids*: two points are enough for a turn that must not
  come back at once and for one that starts over; two ids for two slots let the
  pool be filled, by another script too, and ids be used again.
- *LAST 2* instead of 15: the first iteration, the second, in which the black textdraw goes,
  and the last, in which it comes, are distinct; the proofs cover any LAST.
- *MaxTextdraw* 1: beside the fade there is one id, for which the message and both textdraws
  of the race compete, so that it is handed on at once and often there is none. With one
  player, four ids, which hold all of them, and *LAST* 3, the run also passes, on 19,286
  states; with the two players and *LAST* 3 too, on 808,316.
- *Slots* and *Names* of `Session`: two names in two slots already let a player come
  back in another slot while an answer for the first one is due, and let either
  slot change hands. *MaxQueries* 3: nothing is asked with that many in flight,
  enough for the lookup and the registration of an earlier player before one's
  own lookup. With 4 the run also passes, on 542,570 states.
- *Three slots, two scripts* of `SscanfPlayers`: a second script lets the first end
  while the other counts on, and makes a point between two callbacks; three slots let a
  list hold two players and say that there are more.
- *MostUncounted 1*: one start per slot may go uncounted. The first is the one that matters; the
  proofs have any number. The scripts are alike (symmetry), and of the options only that for
  several matches is set in this run (*Settable*); names that match partially are looked up
  by calls of `sscanf_calls`.
- *Calls* of `Sscanf`: every text of up to four characters of a digit, a delimiter, a
  space and a letter, and of five and six digits and delimiters, with formats of up to
  three fields; up to three words; arrays of three and four cells, enumerations of up to
  four entries, with up to three values in the input; each remaining specifier with an
  input, with none and with a short one. One delimiter or cell too many shows with two
  fields; the third tells what follows it. The theorems hold for any calls.
- *Half 128* instead of 2^31: numbers of three digits wrap.
- *Strings* of `Whirlpool`: with 31 to 33 and 63 to 66 bytes the padding needs another
  block or does not; 66, 67 and 133 are one, two and three chunks, of 66 instead of 4,096
  characters, so that a chunk ends inside a block.
- *Symmetry* over players, slots, names, scripts, timer ids or vehicle ids, in runs without liveness only.
- Deadlock is checked everywhere: a player can always join or leave.

### Fairness

`GameEngine`: weak fairness of *a due timer fires or time passes*. That is what the
server's main loop does whatever the scripts do. Nothing is assumed of commands, of
players, or of filterscripts, which may never answer. `ServerSettles` therefore
says: either commands or answers are given for ever, or the server comes to rest, in play,
or idle with nothing loaded and no request outstanding.

`PlayerScreen`: weak fairness of each repeating timer, which the server runs every
75 ms. `FadesEnd`: a player is asked to fade for ever, or again and again has no
fade running.

`Session` assumes none: its properties speak of the moments when no query is in
flight, not of their coming. Nor do `Sscanf` and `Whirlpool`, which are plain code:
that a call ends is `EndsInTime`, a bound on its turns, and that no step of it is stuck
is what the check for deadlocks shows.

### Findings

Each is a run that must fail, against a sentence of the code itself.

1. `loginPlayer.pwn:9` shows no login dialog to the unregistered; the flag it tests is
   set by a lookup for an earlier player of the slot, if that is answered after the slot
   changed hands, and the new player spawns before the next answer. It takes a database
   that is slow against the five seconds to the spawn, or a slot that is taken again at
   once.
2. `sscanf.cpp:148-150` gives an example of a default in the middle of a string, which
   fails: `DoS` ends past the delimiter (`specifiers.cpp:310`), and the loop skips one
   more (`sscanf.cpp:956`), the one that should have announced the default.
3. `sscanf.cpp:239` saves the options *so we can have local modifications*. After a plain
   return they are not local: a format that sets an option and is then refused, say for a list of
   players with a length under 2, leaves it to every later call of any script.
4. `main.cpp:542` wants strings over 4,096 characters *coded right anyway*. The size given to
   `amx_GetString` (`main.cpp:550`) includes the NUL, so a character is lost at the end of each piece
   that another follows. `ShortStringsAreHashed` is what holds.

Three more are noted without a run; the model keeps what the code does:

- `gameUnloader.pwn:26` resets *data across all handlers*, but only two of the three:
  `resetRaceData` (`race.pwn:16`) has no caller, and the vehicle model that `jaydm.pwn:26`
  sets stays for the games after it. What does hold (`NothingOfAnotherGame`) is that a
  game which chooses a vehicle races with its own.
- `sscanf2.inc:221-223` counts the scripts that know a player so that the plugin still knows
  that the player is connected when one of them ends. A script that is loaded later does not
  count players who are known (`sscanf2.inc:151`, `195`) but is counted out (`260`), after which
  the plugin forgets somebody who is still online. `PlayersAreKnown` sets such slots apart.
- `specifiers.cpp:207` discards the rest of a string that is too long, and `292` lets any string
  escape its delimiters. Both at once fail: past the end of the destination the code does not
  look for backslashes, the escaped delimiter ends the word, and the rest goes to the next
  destination. `WordsSurvive` says when words do come back: when the destinations, but for the last,
  hold the spaces and delimiters of their words (`SpacersFit`).

Also noted: `spawn.pwn:72` stores a team's points from index 1 and draws from 0; the search of
`race.pwn:76` misses the respawned vehicle of a player who has left; a registered player
who spawns before the lookup is answered is told that the account is unregistered, and
not asked until the next spawn (`playerAccountCheckLogin.pwn:20`).

`RegisteredWhenQuiet` and `PasswordIsOnesOwn` show
what does hold: the later answers put the registered flag and the data right again.
They do not clear the logged-in flag: if a slot changes hands while a registration
is in flight, `OnRegisterComplete`, which knows only the slot, logs the next player in and
confirms the registration to that player.

## What is proved

All theorems hold for any number of players, games, points, vehicles and timers.
The assumptions are those stated with the constants: the special values are
distinct from the ordinary ones, and in `DelaysAssumption` that
`SHOW_DELAY` and `RESPAWN_DELAY` are smaller than `EXIT_DELAY`. Without that
relation the textdraws or the respawn of an unload could fall into the next
game, so it states what the three literals in two files have to keep to.

The theorems about the plugins need as little: any players, names and scripts for
`SscanfPlayers`, which start and end at any time; any formats and texts for `Sscanf`, as long as they are
sequences (`CallsAssumption`). What a call says of how its format and text were built
(`FieldsAssumption`, `WordsAssumption`, `ArraysAssumption`, `EnumsAssumption`) has to be
true of them; only the properties read it, calls of any other kind say nothing, and TLC
goes through it for every call of the run. That words come back has a condition of its own,
`SpacersFit`, in the property and in the theorem alike, since it is false without: a delimiter that is escaped
past the end of its destination ends the word.
`Whirlpool` is proved for any strings and any stack, with chunks that
fit into the buffer of 4,100 characters that `main.cpp` gives them
(`WhirlpoolAssumption`). `TablesAssumption` says what the S-box and the multiples of the
eight coefficients are, byte for byte: facts about constant tables, which TLC goes through
in full whenever it starts, and which the prover takes from there.

**FoldProofs.** The library's induction theorems take the property as an operator, which
no prover here can instantiate. That `<` is well founded on the naturals is stated of
sets, though; from it `Induct` gives induction as a fact about sets of numbers.
`FoldExists` uses it to show that what `FoldLeft` chooses exists and is what one expects, for
a step that is a function on some set, and `FoldKeeps` that what every step keeps holds
at the end. All that is proved about texts, tallies and lists of any length rests on
these two.

**GameEngineProofs.** No safety property is inductive alone. `Inductive` proves
`IInv`, four groups, each proved to be kept by its own lemma:

- `TypeOK`;
- `HandleInv`: every timeout or exit timer pending is the one its handle names, the
  two handles differ unless empty, an id names one timer. It is what makes
  `KillTimer(handle)` mean *no such timer is left* (`KeptTimers`, `CleanTimers`,
  `AnsweredTimers`);
- `ScriptInv`: only the current game's filterscript is loaded; it is timed until it
  answers and not after; the exit timer belongs to a game that has answered. It
  uses `HandleInv` to know that a killed timer is gone, and gives
  `NothingIsKept`: after an unload nothing of the old game is left;
- `ScreenInv`: while the exit timer is pending, whatever an earlier unload
  started has less time left than it; black and textdraws outside play. It uses
  the relation between the delays.

From `IInv` follow all safety properties of the runs, and, with `StepRefines`, one
case per action, that `Spec => ImplementsLifecycle`.

**SpawnAndRaceProofs.** `Owned`, the conjunction of `TypeOK`, `PointsExist`,
`VehicleIsOnesOwn` and `NoVehicleIsLost`, is inductive: ownership needs both directions, since an
id may be given out again only when no slot still remembers it. `UniqueTurns`
needs `TurnsWalk` in addition: the recorded turns are a walk round the points that
ends just before `currentUniqueSpawnId`.

**PlayerScreenProofs.** `IInv` adds to the properties that a slot without a player
has nothing running or shown (`GoneInv`), that the fade textdraw is the one with
id 0 (`TextdrawInv`), that a message on the screen is the one the handle names
(`MessageInv`), and that a running fade is of the kind last asked for, with
shade and black textdraw matching its counter (`FadeInv`). `FadesAreSmooth`, an action
property, needs `PaceInv` too: once a fade has begun, the shade on the screen is that of its
iteration and, from the second iteration of a fade to clear on, the black textdraw is
gone. Without it a step could find a shade other than its own and jump. `StepIsSmooth` then has a
case for every action: those that are about another player, or another textdraw, leave
the shade alone (`UnmovedIsSmooth`), and a tick moves it by one (`UpdateIsSmooth`).

**SessionProofs.** `LoginInv` (what is registered has its data or is logged in) makes
`LoginHasAPassword` inductive. `RegisteredWhenQuiet` and `PasswordIsOnesOwn` follow
from `WordInv`: for every player some place in the queue, or its front, has the last
word. There stands the player's own lookup, and behind it only answers that
concern both the slot and the name of the player, or neither; at the front, what
is known of the player is right already. `WordAnswer` moves the place forward,
`WordConnect` puts it at the end, and `WordConfirm` uses that names are unique: a
registration of one player cannot concern another's name.

**SscanfProofs.** Of the players: `Exact`, that every counter is the number of scripts that told
of the player and not yet of the leaving, less the starts that did not count, is inductive with
`Typing` and `CallbackOk` (the callback under way is due in running scripts, for a player who is
still online), whenever scripts start and end: a late start adds one to both sides of the
difference, and an end takes one from the counter and one from those who told. `CountStep` does the
arithmetic of finite sets once for all actions. That the plugin knows exactly who is online in a
slot without such a start then follows when no callback is under way and a script runs. `LookupsAreSound` needs `KindsAreKnown` beside `Exact`: the NPC
flag of whoever is known and was always counted is right, which the flag of a free slot is not. A player found by
name is then online and of the kind asked for (`LookupsFind`). For a list, `Gathered`
says what the loop of `UserList` has after each turn: the matches up to the last one, in
order and none twice (`TurnGathers`), whence the terminator is right (`ListsAreSound`).

Of the calls: every step of the loops either saves at most one value while there is a
destination (`Saves`) or saves nothing (`Ends`); `WorkSavesOrEnds` has a case for each
specifier. `Bounded` adds to the property that `saved` is a sequence and the call one of
`Calls`.

That every call ends is proved by the place in the format. `EndsInTime` bounds the turns;
`Timely` strengthens it to say that there are no more of them than characters passed, and
that the place is in front of the end while the call goes on. Each turn then ends the
call, or goes on to the defaults without moving, or moves on by one at least
(`WorkGoesOn`). The last is a lemma for every reader of a format (those called `...GoesOn`):
the lengths, types, defaults and literals, escapes and brackets that are never closed
included, for any format. What the readers make of the text does not matter.

`TypeOK` asks for the text as well, and for what the groups do. `Typed` strengthens it by
`Timely`, by what the players need, and by `saved` being a sequence; the answer is tied to
the phase. The place in the text never goes back (`WorkAdvances`), whichever specifier
moves it. For arrays and enumerations this is a fact about a fold: a reading that is typed
is so after one more string (`StringsStepTyped`), value (`CellsStepTyped`) or entry
(`EnumStepTyped`, with a lemma for each kind of entry), and so after all (`StringsGoOn`,
`ValuesGoOn`, `EnumGoesOn`). It rests on the pieces of a format being texts themselves
(`TypesAreTexts`, `LiteralsAreTexts`, `DefaultsAreTexts`) and on the lengths of arrays being
numbers above zero (`PositiveLengths`), since `GetLength` falls back to one when the format
gives none.

What the calls give is proved against a definition that knows nothing of the readers. The
theorems, here and in the next module, have the same form: an invariant that says how far
the call has come (`FieldsSoFar`, `WordsRead`, `ArrayRead`, `EnumRead`), one lemma for each
place it can be at, and one for each reader.

A call of fields is `AmongFields` when its place in the format begins specifier `k` and its
place in the text begins field `k`: `Begins` says this in terms of the separators alone. It
stays so after a specifier that is read (`AtRequired`, `AtOptional`, and `AtQuiet`,
`WithinQuiet` and `BehindQuiet` for the three turns of a quiet one), and is `Done` when a field
is no number, the input ends or the format does (`FieldsAtEnd`). Under it are three facts about
any text: the field that begins at a place is the one `FieldOf` finds by counting; one spacer after
it leads to where the next begins; and a numeral is read as the number it is, though
`GetDec` wraps after every digit and `Number` once at the end.

**SscanfCallsProofs.** A call of words is `AtWord` when `k` words are saved and the place in the text is the first
letter of the next. The loop of `DoS` is followed turn by turn (`StringRun`): as long
as there is room each letter is copied, whether it stands there or after a backslash, and
after that letters are only passed over, which `WordSoFar` puts as a prefix of the word. At the end
of the word the loop stops (`WordRead`), and the delimiter, passed by the main loop, leads to the
next (`BehindWord`). The size in the format is read by `LengthRead`.

A call of an array reads it in one turn, in front of which nothing is saved (`AtArray`) and
behind which the array is (`BehindArray`); the work is in what the turn reads. The type and
the defaults are cut out of the format (`TypeRead`, `DefaultsRead`), and the numerals of the
defaults stand in the piece cut out as they stood in the format (`StandsCut`). Each numeral of the
defaults or of the input is read and leads to the next (`NumeralTaken`), so that the loop
of `Values` has read the first `k` after `k` turns (`IntsTaken`). `GoOn` adds the last
difference again and again and wraps each time, where the property wraps a multiple of it once
(`WrapsPlus`, `NextMember`, `DefaultsFilled`). The values over that are what the array should
have (`ArrayContents`). This needs `UntouchedAssumption`: the mark of a cell that is left
alone is no number.

A call of an enumeration is read in one turn too (`AtEnum`, `BehindEnum`), which is two
readings. The turns of a reading's loop are followed place by place (`EnumRuns`): it is in
front of an entry, within a quiet one, at the brace that ends that one, or at its end
(`InFront`, `InSection`, `EndOfSection`, `Behind`). Each of them says which cells there are: one
for each entry that is kept among those passed, and in it the number that this entry read or
the mark of a cell left alone (`AreCells`). Two counts run along, of the entries that read and of
those that are kept (`ReadTo`, `KeptTo`). Every turn moves on by a character of the
types at least, so that the loop comes to its end (`ReadingEnds`). The defaults are one for
each entry that reads and the last entry is one of these; so that reading has been through all entries
(`EnumOld`), while the other stops where the values do (`EnumNew`). The one over the other gives
each entry what it should have (`EntriesFilled`).

**WhirlpoolProofs.** `Inv` says for every stage of a call what is known: while data are
added, that buffer and blocks hold them and the next byte is clear (`Held`); after the 1,
that the last block is data, 1 and zeros (`Ended`); after the length, `Exact`. The
arithmetic of blocks (`InBlocks`, `OneBlockMore`, `BlockAdded`) is apart, as are the facts
about shifts; `FillHolds`, `EndMessageEnds` and `AppendLengthIsExact` are the three that
matter.

`StringInv` goes on from there to the string: what was given is the string up to the place
in it, with a NUL for the last character of each chunk that another follows, and the length is
that of what was fetched; so a string within one chunk is hashed as it is (`ShortStringsHold`).
`Tallied` does the addition with carry, by induction over the 32
bytes of the length. `CipherTyped` adds that the words are words.

`EveryRoundIsWhirlpool` is about how it is hashed, and needs no invariant: it is a fact about any
key and state. An entry of table `t` is a byte times the coefficients, turned by `t`
(`ByteOfTable`), so that the exclusive or of eight lookups is a row of the product
(`MixtureIsMixRows`, `LookupsMix`), the key's round adds the constant (`KeyRound`) and the
state's the key (`StateRound`). The parity of nine bits (`OddOfNine`) is what the exclusive or
comes down to.

**Only model-checked.** The liveness properties `ServerSettles` and `FadesEnd`, since
fairness and ENABLED are out of the prover's reach. The properties of the four failing
runs are of course not theorems.

## Order of the work

1. `GameEngine`, `GameLifecycle`: the game change, its refinement, its proofs.
2. `SpawnAndRace`: what a game uses of the engine.
3. `PlayerScreen`: what a player sees, with ids used again.
4. `Session`: accounts, with queries answered in order, by slot number.
5. `SscanfText`, `SscanfPlayers`: the plugin's players, told by many scripts.
6. `SscanfGroups`, `Sscanf`: its calls, and their proofs.
7. `WhirlpoolCipher`, `Whirlpool`: the hash of the passwords, and its proofs.

## Not modelled

- *Game list*: the cache, `cacheTime` against the wrapping tick counter, and the typed
  choice, which nothing calls. `GameEngine` lets every load see any list, so that its
  properties do not depend on when the list is read.
- *Runaway race*: sign-up, countdown, rounds, the late removal of a finisher. Only its
  textdraws are modelled, in `PlayerScreen`. Its hazards are listed.
- *Ammunation*: shops, menus and the timer chain of each player, a filterscript of its
  own.
- *Pure helpers* (`API.pwn`): stateless functions of a few lines.
- *Floats* of sscanf below the point, its warnings, and the plugin SDK.
- Output, constants, the Pawn libraries and stock filterscripts, which hold no state the
  components above depend on.
