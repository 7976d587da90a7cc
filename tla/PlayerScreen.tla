----------------------------- MODULE PlayerScreen -----------------------------
(***************************************************************************)
(* What a player has on the screen: the fade of screenfade.inc and the     *)
(* "wasted" message of death.pwn, with the two textdraws of the Runaway    *)
(* race that share the player's textdraw ids with them.                    *)
(*                                                                         *)
(* A fade is a repeating timer that paints the player's fade textdraw one  *)
(* shade darker or lighter each time and kills itself at the last shade;   *)
(* a full fade to black ends with a global black textdraw shown instead.   *)
(* Anybody may ask for a fade at any time: the game changer, the register  *)
(* wizard.  Ids of player textdraws belong to the server, which hands out  *)
(* the lowest free one and forgets them all when the player leaves; the    *)
(* scripts keep theirs in arrays indexed by the player's slot.             *)
(***************************************************************************)
EXTENDS Integers, FiniteSets

CONSTANTS
  Players,            \* player slots
  TimerIds,           \* ids SetTimerEx hands out
  NoTimer,            \* -1
  LAST,               \* the iteration a fade ends at: 15
  MaxTextdraw,        \* bound: the highest id of a player textdraw
  INVALID_TEXT_DRAW   \* what a handle holds when there is no textdraw

ASSUME LastAssumption == LAST \in Nat \ {0}
ASSUME IdsAssumption ==
  /\ NoTimer \notin TimerIds
  /\ MaxTextdraw \in Nat
  /\ INVALID_TEXT_DRAW \notin 0 .. MaxTextdraw

VARIABLES
  connected,           \* the slots in use
  fadeTimer,           \* screenfade.inc: the id of the running fade
  FadeScreenIteration, \* screenfade.inc: how far it has come, -1 before its start
  FadeTD,              \* screenfade.inc: the textdraw it paints
  timers,              \* the fade timers the server is running
  box,                 \* the shade of the fade textdraw, 0 when hidden or clear
  globalShown,         \* the slots GlobalFadeInTD is shown to
  wanted,              \* auxiliary: the kind of fade last asked for
  textdraws,           \* the server's player textdraws, by slot and id
  wasted,              \* the players in PLAYER_STATE_WASTED
  TDEditor_PTD,        \* death.pwn: the textdraw that says how the player died
  yourTime,            \* jay_runaway2.pwn: the textdraw of the player's time
  endInfo              \* jay_runaway2.pwn: the textdraw of the player's place

fades == <<fadeTimer, FadeScreenIteration, FadeTD, timers, box, globalShown, wanted>>
deaths == <<wasted, TDEditor_PTD>>
runaway == <<yourTime, endInfo>>
vars == <<connected, fades, textdraws, deaths, runaway>>

TextdrawIds == 0 .. MaxTextdraw
Handles == TextdrawIds \cup {INVALID_TEXT_DRAW}
Owners == {"none", "fade", "wasted", "race"}

-----------------------------------------------------------------------------
(* Player textdraws.                                                       *)

\* CreatePlayerTextDraw among textdraws T: the lowest free id, if there is one.
NewTextdraw(T) ==
  LET free == {i \in TextdrawIds : T[i] = "none"}
  IN  IF free = {} THEN INVALID_TEXT_DRAW
      ELSE CHOOSE i \in free : \A j \in free : i <= j

Created(T, owner) ==
  IF NewTextdraw(T) = INVALID_TEXT_DRAW THEN T ELSE [T EXCEPT ![NewTextdraw(T)] = owner]

\* PlayerTextDrawDestroy; an id that is not in use is ignored.
Destroyed(T, h) == IF h = INVALID_TEXT_DRAW THEN T ELSE [T EXCEPT ![h] = "none"]

NoTextdraws == [i \in TextdrawIds |-> "none"]

-----------------------------------------------------------------------------
(* Fading.                                                                 *)

Fade(h, p, kind) == [id |-> h, player |-> p, kind |-> kind]
Kinds == {"black", "clear"}
FadeRecords == [id : TimerIds, player : Players, kind : Kinds]

KillTimer(T, h) == {t \in T : t.id # h}

\* An id neither running nor held: the server does not hand an id out twice.
IsFresh(h) == (\A t \in timers : t.id # h) /\ (\A p \in Players : fadeTimer[p] # h)

\* Mutant: the fade that is still running is not killed.
FadePlayerScreenTwice(p, kind, h) ==
  /\ p \in connected /\ IsFresh(h)
  /\ timers' = timers \cup {Fade(h, p, kind)}
  /\ fadeTimer' = [fadeTimer EXCEPT ![p] = h]
  /\ FadeScreenIteration' = [FadeScreenIteration EXCEPT ![p] = -1]
  /\ wanted' = [wanted EXCEPT ![p] = kind]
  /\ UNCHANGED <<connected, FadeTD, box, globalShown, textdraws, deaths, runaway>>

\* The fade textdraw exists since the player connected, so that
\* CreateFadeTextdraws has nothing left to do (FadeTextdrawIsSafe).
FadePlayerScreen(p, kind, h) ==
  /\ p \in connected /\ IsFresh(h)
  /\ timers' = KillTimer(timers, fadeTimer[p]) \cup {Fade(h, p, kind)}
  /\ fadeTimer' = [fadeTimer EXCEPT ![p] = h]
  /\ FadeScreenIteration' = [FadeScreenIteration EXCEPT ![p] = -1]
  /\ IF FadeTD[p] = INVALID_TEXT_DRAW
     THEN /\ FadeTD' = [FadeTD EXCEPT ![p] = NewTextdraw(textdraws[p])]
          /\ textdraws' = [textdraws EXCEPT ![p] = Created(@, "fade")]
     ELSE UNCHANGED <<FadeTD, textdraws>>
  /\ wanted' = [wanted EXCEPT ![p] = kind]
  /\ UNCHANGED <<connected, box, globalShown, deaths, runaway>>

\* The shade painted in iteration i.
Shade(kind, i) == IF kind = "black" THEN i ELSE LAST - i

\* Mutant: the black textdraw is hidden only when the fade ends.
PaintLate(t, i) ==
  LET p == t.player IN
  /\ FadeScreenIteration' = [FadeScreenIteration EXCEPT ![p] = i]
  /\ box' = [box EXCEPT ![p] = Shade(t.kind, i)]
  /\ UNCHANGED <<timers, fadeTimer, globalShown>>

\* One shade further.  The black textdraw goes in the second iteration of a
\* fade to clear, when the counter still stands at 0.
Paint(t, i) ==
  LET p == t.player IN
  /\ FadeScreenIteration' = [FadeScreenIteration EXCEPT ![p] = i]
  /\ box' = [box EXCEPT ![p] = Shade(t.kind, i)]
  /\ globalShown' = IF i = 1 /\ t.kind = "clear" THEN globalShown \ {p} ELSE globalShown
  /\ UNCHANGED <<timers, fadeTimer>>

\* Mutant: the timer of a fade that is over goes on.
FinishForever(t) ==
  LET p == t.player IN
  /\ FadeScreenIteration' = [FadeScreenIteration EXCEPT ![p] = -1]
  /\ box' = [box EXCEPT ![p] = 0]
  /\ globalShown' = IF t.kind = "black" THEN globalShown \cup {p} ELSE globalShown \ {p}
  /\ fadeTimer' = [fadeTimer EXCEPT ![p] = NoTimer]
  /\ UNCHANGED timers

\* Mutant: the fade ends one iteration too late.
IsLastLate(i) == i > LAST

IsLast(i) == i = LAST

\* The last shade: black is handed over to the global textdraw.
Finish(t) ==
  LET p == t.player IN
  /\ FadeScreenIteration' = [FadeScreenIteration EXCEPT ![p] = -1]
  /\ box' = [box EXCEPT ![p] = 0]
  /\ globalShown' = IF t.kind = "black" THEN globalShown \cup {p} ELSE globalShown \ {p}
  /\ timers' = KillTimer(timers, fadeTimer[p])
  /\ fadeTimer' = [fadeTimer EXCEPT ![p] = NoTimer]

\* Mutant: the black textdraw is not hidden.
ResetKeepsBlack(p) ==
  /\ timers' = KillTimer(timers, fadeTimer[p])
  /\ fadeTimer' = [fadeTimer EXCEPT ![p] = NoTimer]
  /\ FadeScreenIteration' = [FadeScreenIteration EXCEPT ![p] = -1]
  /\ box' = [box EXCEPT ![p] = 0]
  /\ UNCHANGED globalShown

\* ResetPlayerFadeData.
ResetPlayerFadeData(p) ==
  /\ timers' = KillTimer(timers, fadeTimer[p])
  /\ fadeTimer' = [fadeTimer EXCEPT ![p] = NoTimer]
  /\ FadeScreenIteration' = [FadeScreenIteration EXCEPT ![p] = -1]
  /\ box' = [box EXCEPT ![p] = 0]
  /\ globalShown' = globalShown \ {p}

\* The repeating timer; its first branch is for a player who has left.
UpdateTextdrawFade(t) ==
  LET p == t.player
      i == FadeScreenIteration[p] + 1
  IN  /\ t \in timers
      /\ IF p \notin connected
         THEN /\ ResetPlayerFadeData(p)
              /\ FadeTD' = [FadeTD EXCEPT ![p] = INVALID_TEXT_DRAW]
              /\ textdraws' = [textdraws EXCEPT ![p] = Destroyed(@, FadeTD[p])]
         ELSE /\ IF IsLast(i) THEN Finish(t) ELSE Paint(t, i)
              /\ UNCHANGED <<FadeTD, textdraws>>
      /\ UNCHANGED <<connected, wanted, deaths, runaway>>

-----------------------------------------------------------------------------
(* Players come, die, race and go.                                         *)

\* Mutant: the fade textdraw is left to the first fade.
PlayerConnectLazily(p) ==
  /\ p \notin connected
  /\ connected' = connected \cup {p}
  /\ ResetPlayerFadeData(p)
  /\ FadeTD' = [FadeTD EXCEPT ![p] = INVALID_TEXT_DRAW]
  /\ textdraws' = [textdraws EXCEPT ![p] = Destroyed(@, FadeTD[p])]
  /\ wanted' = [wanted EXCEPT ![p] = "clear"]
  /\ UNCHANGED <<deaths, runaway>>

\* FadePlayerConnect: reset what the slot holds, make the fade textdraw.
PlayerConnect(p) ==
  LET reset == Destroyed(textdraws[p], FadeTD[p]) IN
  /\ p \notin connected
  /\ connected' = connected \cup {p}
  /\ ResetPlayerFadeData(p)
  /\ FadeTD' = [FadeTD EXCEPT ![p] = NewTextdraw(reset)]
  /\ textdraws' = [textdraws EXCEPT ![p] = Created(reset, "fade")]
  /\ wanted' = [wanted EXCEPT ![p] = "clear"]
  /\ UNCHANGED <<deaths, runaway>>

\* The race gives its textdraw back, FadePlayerDisconnect resets the fade, the
\* server forgets the player's textdraws; death.pwn is not told.
PlayerDisconnect(p) ==
  /\ p \in connected
  /\ connected' = connected \ {p} /\ wasted' = wasted \ {p}
  /\ yourTime' = [yourTime EXCEPT ![p] = INVALID_TEXT_DRAW]
  /\ endInfo' = [endInfo EXCEPT ![p] = INVALID_TEXT_DRAW]
  /\ ResetPlayerFadeData(p)
  /\ FadeTD' = [FadeTD EXCEPT ![p] = INVALID_TEXT_DRAW]
  /\ textdraws' = [textdraws EXCEPT ![p] = NoTextdraws]
  /\ UNCHANGED <<wanted, TDEditor_PTD>>

\* showWastedTextdraw with a reason to show.
WastedMessage(p, T) ==
  LET cleared == Destroyed(T, TDEditor_PTD[p]) IN
  /\ TDEditor_PTD' = [TDEditor_PTD EXCEPT ![p] = NewTextdraw(cleared)]
  /\ textdraws' = [textdraws EXCEPT ![p] = Created(cleared, "wasted")]

\* OnPlayerDeath, also for a player who is dead already; a death nobody and
\* nothing can be blamed for shows no reason.
PlayerDeath(p) ==
  /\ p \in connected
  /\ wasted' = wasted \cup {p}
  /\ \/ WastedMessage(p, textdraws[p])
     \/ UNCHANGED <<TDEditor_PTD, textdraws>>
  /\ UNCHANGED <<connected, fades, runaway>>

\* Mutant: the message stays when the player is spawned again.
HideWastedTextdrawNot(p) == UNCHANGED <<TDEditor_PTD, textdraws>>

HideWastedTextdraw(p) ==
  /\ TDEditor_PTD' = [TDEditor_PTD EXCEPT ![p] = INVALID_TEXT_DRAW]
  /\ textdraws' = [textdraws EXCEPT ![p] = Destroyed(@, TDEditor_PTD[p])]

\* OnPlayerStateChange out of PLAYER_STATE_WASTED.
PlayerStateChange(p) ==
  /\ p \in wasted
  /\ wasted' = wasted \ {p}
  /\ HideWastedTextdraw(p)
  /\ UNCHANGED <<connected, fades, runaway>>

\* The three steps of the race come in any order here: who has signed up, which
\* countdown runs and whether a race is on are not state of this module.

\* processGame at the end of the countdown; an id yourTime still holds is lost.
RaceStarts(p) ==
  /\ p \in connected
  /\ yourTime' = [yourTime EXCEPT ![p] = NewTextdraw(textdraws[p])]
  /\ textdraws' = [textdraws EXCEPT ![p] = Created(@, "race")]
  /\ UNCHANGED <<connected, fades, deaths, endInfo>>

\* HandleCheckpointEntry, also a second time before the player is removed.
RaceFinishes(p) ==
  LET cleared == Destroyed(textdraws[p], endInfo[p]) IN
  /\ p \in connected
  /\ endInfo' = [endInfo EXCEPT ![p] = NewTextdraw(cleared)]
  /\ textdraws' = [textdraws EXCEPT ![p] = Created(cleared, "race")]
  /\ UNCHANGED <<connected, fades, deaths, yourTime>>

\* RemovePlayerFromGame, 7 seconds after the finish or sooner.
LeaveRace(p) ==
  /\ p \in connected
  /\ yourTime' = [yourTime EXCEPT ![p] = INVALID_TEXT_DRAW]
  /\ endInfo' = [endInfo EXCEPT ![p] = INVALID_TEXT_DRAW]
  /\ textdraws' = [textdraws EXCEPT ![p] =
                     Destroyed(Destroyed(@, endInfo[p]), yourTime[p])]
  /\ UNCHANGED <<connected, fades, deaths>>

Init ==
  /\ connected = {} /\ wasted = {}
  /\ fadeTimer = [p \in Players |-> NoTimer]
  /\ FadeScreenIteration = [p \in Players |-> -1]
  /\ FadeTD = [p \in Players |-> INVALID_TEXT_DRAW]
  /\ timers = {}
  /\ box = [p \in Players |-> 0]
  /\ globalShown = {}
  /\ wanted = [p \in Players |-> "clear"]
  /\ textdraws = [p \in Players |-> NoTextdraws]
  /\ TDEditor_PTD = [p \in Players |-> INVALID_TEXT_DRAW]
  /\ yourTime = [p \in Players |-> INVALID_TEXT_DRAW]
  /\ endInfo = [p \in Players |-> INVALID_TEXT_DRAW]

AskForFade(p) == \E kind \in Kinds, h \in TimerIds : FadePlayerScreen(p, kind, h)

Next ==
  \/ \E p \in Players :
       \/ AskForFade(p)
       \/ PlayerConnect(p) \/ PlayerDisconnect(p)
       \/ PlayerDeath(p) \/ PlayerStateChange(p)
       \/ RaceStarts(p) \/ RaceFinishes(p) \/ LeaveRace(p)
  \/ \E t \in timers : UpdateTextdrawFade(t)

Spec == Init /\ [][Next]_vars

\* Every timer that runs fires again after 75 ms.
Fires(h) == \E t \in timers : t.id = h /\ UpdateTextdrawFade(t)
FairSpec == Spec /\ \A h \in TimerIds : WF_vars(Fires(h))

-----------------------------------------------------------------------------
(* Properties.                                                             *)

\* Every variable has its type.
TypeOK ==
  /\ connected \subseteq Players /\ wasted \subseteq connected
  /\ fadeTimer \in [Players -> TimerIds \cup {NoTimer}]
  /\ FadeScreenIteration \in [Players -> -1 .. LAST - 1]
  /\ FadeTD \in [Players -> Handles]
  /\ timers \subseteq FadeRecords
  /\ box \in [Players -> 0 .. LAST]
  /\ globalShown \subseteq Players
  /\ wanted \in [Players -> Kinds]
  /\ textdraws \in [Players -> [TextdrawIds -> Owners]]
  /\ TDEditor_PTD \in [Players -> Handles]
  /\ yourTime \in [Players -> Handles] /\ endInfo \in [Players -> Handles]

\* A running fade is the one its player's handle names, and no fade outlives
\* its player: a second fade replaces the first, and a new player in the slot
\* never sees the rest of an old one.
OneFadeEach ==
  \A t \in timers : t.player \in connected /\ t.id = fadeTimer[t.player]

Fading(p) == \E t \in timers : t.player = p
Darkness(p) == IF p \in globalShown THEN LAST ELSE box[p]

\* However fades interrupted each other, a screen at rest is as it was last
\* asked to be, and a player who has just connected looks at a clear one.
ScreenIsAsAsked ==
  \A p \in connected :
    ~Fading(p) => Darkness(p) = IF wanted[p] = "black" THEN LAST ELSE 0

\* A fade that has begun moves one shade at a time, in its own direction, and
\* is not undone by the change from one black textdraw to the other.
FadesAreSmooth ==
  [][\A p \in connected \cap connected' :
       /\ FadeScreenIteration[p] >= 0
       /\ fadeTimer'[p] \in {fadeTimer[p], NoTimer}
       => \/ Darkness(p)' = Darkness(p)
          \/ Darkness(p)' = Darkness(p) + (IF wanted[p] = "black" THEN 1 ELSE -1)]_vars

\* The fade textdraw of a player on the server exists and is nobody else's,
\* although death.pwn keeps the id of an earlier player's message and destroys
\* it when the slot's next player dies.
FadeTextdrawIsSafe ==
  \A p \in connected : FadeTD[p] \in TextdrawIds /\ textdraws[p][FadeTD[p]] = "fade"

\* The message that says how a player died is gone once the player is not dead.
MessageOnlyForTheDead ==
  \A p \in Players, i \in TextdrawIds : textdraws[p][i] = "wasted" => p \in wasted

\* A fade that nobody interrupts for ever comes to its end.
FadesEnd ==
  \A p \in Players : []<><<AskForFade(p)>>_vars \/ []<>~Fading(p)
===============================================================================
