---------------------------- MODULE GameLifecycle ----------------------------
(***************************************************************************)
(* What the game engine promises, without timers, filterscripts or         *)
(* textdraws.  The server is idle, loading a game, starting it (the game   *)
(* has answered, the players still look at the game changer screen) or     *)
(* playing it.  Players look at a black screen until a game is played, and *)
(* one game never turns into another without going through an unload.      *)
(***************************************************************************)
CONSTANTS Games, Players

VARIABLES phase,     \* "idle", "loading", "starting" or "playing"
          game,      \* the set holding the game, empty when idle
          present,   \* the players on the server
          lit        \* the players whose screen is not black

abstractVars == <<phase, game, present, lit>>

LifecycleInit ==
  /\ phase = "idle" /\ game = {}
  /\ present = {} /\ lit = {}

\* A game is asked for: whatever is running ends first.  It may answer at once.
Request ==
  /\ \E g \in Games : game' = {g}
  /\ phase' \in {"loading", "starting"}
  /\ lit' = {}
  /\ UNCHANGED present

\* The game answers while it is being waited for.
Answer ==
  /\ phase = "loading" /\ phase' = "starting"
  /\ UNCHANGED <<game, present, lit>>

\* The game changer screen is taken away for everybody who is there.  A game may
\* ask for that again while it is played, for those who joined meanwhile.
Start ==
  /\ phase \in {"starting", "playing"} /\ phase' = "playing"
  /\ lit' = present
  /\ UNCHANGED <<game, present>>

\* The game ends, times out, or turns out not to exist.
Drop ==
  /\ phase' = "idle" /\ game' = {}
  /\ lit' = {}
  /\ UNCHANGED present

\* A player who joins sees a black screen, whatever the phase.
Join(p) ==
  /\ p \notin present /\ present' = present \cup {p}
  /\ UNCHANGED <<phase, game, lit>>

Leave(p) ==
  /\ p \in present
  /\ present' = present \ {p} /\ lit' = lit \ {p}
  /\ UNCHANGED <<phase, game>>

\* The gamemode restarts and everybody has to join again.
Reboot ==
  /\ phase' = "idle" /\ game' = {}
  /\ present' = {} /\ lit' = {}

LifecycleNext ==
  \/ Request \/ Answer \/ Start \/ Drop \/ Reboot
  \/ \E p \in Players : Join(p) \/ Leave(p)

Lifecycle == LifecycleInit /\ [][LifecycleNext]_abstractVars
==============================================================================
