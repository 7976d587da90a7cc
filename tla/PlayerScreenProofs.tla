-------------------------- MODULE PlayerScreenProofs --------------------------
(* Proofs about PlayerScreen for every number of players, timers and shades. *)
EXTENDS PlayerScreen, WellFoundedInduction, TLAPS

-----------------------------------------------------------------------------
(* Textdraws.                                                              *)

\* A set of ids that is not empty has a lowest one.
LEMMA LowestId ==
  ASSUME NEW S \in SUBSET Nat, S # {}
  PROVE  \E i \in S : \A j \in S : i <= j
<1>1. PICK i \in S : \A j \in S : <<j, i>> \notin OpToRel(<, Nat)
  BY NatLessThanWellFounded, WFMin
<1>2. \A j \in S : ~(j < i)
  BY <1>1 DEF OpToRel
<1> QED
  BY <1>2

\* CreatePlayerTextDraw answers a free id, the lowest.
LEMMA NewTextdrawFacts ==
  ASSUME NEW T \in [TextdrawIds -> Owners]
  PROVE  /\ NewTextdraw(T) \in Handles
         /\ NewTextdraw(T) # INVALID_TEXT_DRAW =>
              NewTextdraw(T) \in TextdrawIds /\ T[NewTextdraw(T)] = "none"
         /\ T[0] = "none" => NewTextdraw(T) = 0
         /\ T[0] # "none" => NewTextdraw(T) # 0
<1> DEFINE free == {i \in TextdrawIds : T[i] = "none"}
<1>1. free \subseteq TextdrawIds /\ 0 \in TextdrawIds
      /\ INVALID_TEXT_DRAW \notin TextdrawIds /\ TextdrawIds \subseteq Nat
  BY IdsAssumption DEF TextdrawIds
<1>2. CASE free = {}
  <2>1. NewTextdraw(T) = INVALID_TEXT_DRAW
    BY <1>2 DEF NewTextdraw
  <2> QED
    BY <1>1, <1>2, <2>1 DEF Handles
<1>3. CASE free # {}
  <2>1. NewTextdraw(T) = CHOOSE i \in free : \A j \in free : i <= j
    BY <1>3 DEF NewTextdraw
  <2>2. \E i \in free : \A j \in free : i <= j
    BY <1>1, <1>3, LowestId
  <2>3. NewTextdraw(T) \in free /\ \A j \in free : NewTextdraw(T) <= j
    BY <2>1, <2>2
  <2>4. ASSUME T[0] = "none" PROVE NewTextdraw(T) = 0
    <3>1. 0 \in free
      BY <1>1, <2>4
    <3>2. NewTextdraw(T) \in Nat /\ NewTextdraw(T) <= 0
      BY <1>1, <2>3, <3>1
    <3> QED
      BY <3>2
  <2> QED
    BY <1>1, <2>3, <2>4 DEF Handles
<1> QED
  BY <1>2, <1>3

\* Making and destroying textdraws changes one id and keeps the types.
LEMMA TextdrawTyping ==
  ASSUME NEW T \in [TextdrawIds -> Owners], NEW owner \in Owners, NEW h \in Handles
  PROVE  /\ Created(T, owner) \in [TextdrawIds -> Owners]
         /\ Destroyed(T, h) \in [TextdrawIds -> Owners]
         /\ \A i \in TextdrawIds :
              /\ Created(T, owner)[i] = IF i = NewTextdraw(T) THEN owner ELSE T[i]
              /\ Destroyed(T, h)[i] = IF i = h THEN "none" ELSE T[i]
<1>1. INVALID_TEXT_DRAW \notin TextdrawIds
  BY IdsAssumption DEF TextdrawIds
<1>2. NewTextdraw(T) # INVALID_TEXT_DRAW => NewTextdraw(T) \in TextdrawIds
  BY NewTextdrawFacts
<1> QED
  BY <1>1, <1>2 DEF Created, Destroyed, Handles, Owners

LEMMA NoTextdrawsFacts ==
  /\ NoTextdraws \in [TextdrawIds -> Owners]
  /\ 0 \in TextdrawIds /\ INVALID_TEXT_DRAW # 0 /\ INVALID_TEXT_DRAW \notin TextdrawIds
  /\ \A i \in TextdrawIds : NoTextdraws[i] = "none"
BY IdsAssumption DEF NoTextdraws, TextdrawIds, Owners

-----------------------------------------------------------------------------
(* The inductive invariant.                                                *)

\* Nothing of a player who is gone is left but the id of the death message.
GoneInv ==
  \A p \in Players \ connected :
    /\ textdraws[p] = NoTextdraws
    /\ FadeTD[p] = INVALID_TEXT_DRAW /\ yourTime[p] = INVALID_TEXT_DRAW
    /\ endInfo[p] = INVALID_TEXT_DRAW

\* The fade textdraw has id 0, because it is made first, and no other handle
\* has that id, stale or not.
TextdrawInv ==
  /\ \A p \in connected : FadeTD[p] = 0 /\ textdraws[p][0] = "fade"
  /\ \A p \in Players : TDEditor_PTD[p] # 0 /\ yourTime[p] # 0 /\ endInfo[p] # 0

\* The message of a dead player is the one the handle names.
MessageInv ==
  \A p \in Players, i \in TextdrawIds :
    textdraws[p][i] = "wasted" => p \in wasted /\ TDEditor_PTD[p] = i

\* A fade is of the kind last asked for, and two players never hold the same id.
FadeInv ==
  /\ OneFadeEach
  /\ \A t \in timers : t.kind = wanted[t.player]
  /\ \A p, q \in Players : fadeTimer[p] = fadeTimer[q] /\ fadeTimer[p] # NoTimer => p = q

IInv == TypeOK /\ GoneInv /\ TextdrawInv /\ MessageInv /\ FadeInv /\ ScreenIsAsAsked

LEMMA InitIInv == Init => IInv
<1> SUFFICES ASSUME Init PROVE IInv
  OBVIOUS
<1>1. TypeOK
  BY NoTextdrawsFacts, LastAssumption DEF Init, TypeOK, Handles, Kinds
<1>2. GoneInv /\ TextdrawInv /\ MessageInv
  BY NoTextdrawsFacts DEF Init, GoneInv, TextdrawInv, MessageInv
<1>3. FadeInv /\ ScreenIsAsAsked
  BY DEF Init, FadeInv, OneFadeEach, ScreenIsAsAsked
<1> QED
  BY <1>1, <1>2, <1>3 DEF IInv

\* Killing the timer a player's handle names kills the player's fade, and only it.
LEMMA KillFacts ==
  ASSUME IInv, NEW p \in Players
  PROVE  \A t \in timers : t \in KillTimer(timers, fadeTimer[p]) <=> t.player # p
<1> SUFFICES ASSUME NEW t \in timers
             PROVE  t.id # fadeTimer[p] <=> t.player # p
  BY DEF KillTimer
<1>1. t.id = fadeTimer[t.player] /\ t.player \in Players /\ t.id \in TimerIds
  BY DEF IInv, TypeOK, FadeInv, OneFadeEach, FadeRecords
<1>2. t.id # NoTimer
  BY <1>1, IdsAssumption
<1> QED
  BY <1>1, <1>2 DEF IInv, FadeInv

\* Steps that touch no textdraw keep what is known of textdraws, steps that
\* touch no fade keep what is known of fades.
LEMMA TextdrawsUntouched ==
  ASSUME IInv, UNCHANGED <<connected, textdraws, FadeTD, deaths, runaway>>
  PROVE  GoneInv' /\ TextdrawInv' /\ MessageInv'
BY DEF IInv, GoneInv, TextdrawInv, MessageInv, deaths, runaway

LEMMA FadesUntouched ==
  ASSUME IInv, UNCHANGED <<connected, fades>>
  PROVE  FadeInv' /\ ScreenIsAsAsked'
BY DEF IInv, FadeInv, OneFadeEach, ScreenIsAsAsked, Fading, Darkness, fades, runaway

\* ResetPlayerFadeData for a player who is not, or no longer, on the server.
LEMMA ResetKeeps ==
  ASSUME IInv, NEW p \in Players, ResetPlayerFadeData(p),
         connected' \subseteq connected \cup {p},
         \A q \in connected \ {p} : q \in connected',
         UNCHANGED wanted \/ wanted' = [wanted EXCEPT ![p] = "clear"],
         p \in connected' => wanted' = [wanted EXCEPT ![p] = "clear"]
  PROVE  FadeInv' /\ ScreenIsAsAsked'
<1>1. \A t \in timers : t \in timers' <=> t.player # p
  BY KillFacts DEF ResetPlayerFadeData
<1>2. timers' \subseteq timers
  BY DEF ResetPlayerFadeData, KillTimer
<1>3. /\ fadeTimer'[p] = NoTimer
      /\ \A q \in Players \ {p} : /\ fadeTimer'[q] = fadeTimer[q]
                                  /\ wanted'[q] = wanted[q] /\ box'[q] = box[q]
                                  /\ q \in globalShown' <=> q \in globalShown
      /\ box'[p] = 0 /\ p \notin globalShown'
  BY DEF ResetPlayerFadeData, IInv, TypeOK
<1>4. OneFadeEach'
  BY <1>1, <1>2, <1>3 DEF OneFadeEach, IInv, FadeInv, TypeOK
<1>5. \A t \in timers' : t.kind = wanted'[t.player]
  BY <1>1, <1>2, <1>3 DEF OneFadeEach, IInv, FadeInv, TypeOK
<1>6. \A r, q \in Players : fadeTimer'[r] = fadeTimer'[q] /\ fadeTimer'[r] # NoTimer => r = q
  BY <1>3 DEF IInv, FadeInv
<1>7. ScreenIsAsAsked'
  <2> SUFFICES ASSUME NEW q \in connected', ~Fading(q)'
               PROVE  Darkness(q)' = IF wanted'[q] = "black" THEN LAST ELSE 0
    BY DEF ScreenIsAsAsked
  <2>1. CASE q = p
    BY <1>3, <2>1 DEF Darkness, IInv, TypeOK
  <2>2. CASE q # p
    <3>1. q \in connected /\ q \in Players /\ ~Fading(q)
      BY <1>1, <2>2 DEF Fading, IInv, TypeOK
    <3>2. Darkness(q)' = Darkness(q) /\ wanted'[q] = wanted[q]
      BY <1>3, <2>2, <3>1 DEF Darkness
    <3> QED
      BY <3>1, <3>2 DEF IInv, ScreenIsAsAsked
  <2> QED
    BY <2>1, <2>2
<1> QED
  BY <1>4, <1>5, <1>6, <1>7 DEF FadeInv

\* A new fade replaces the old one of the player.
LEMMA AskingKeeps ==
  ASSUME IInv, NEW p \in Players, NEW kind \in Kinds, NEW h \in TimerIds,
         FadePlayerScreen(p, kind, h)
  PROVE  IInv'
<1> DEFINE new == Fade(h, p, kind)
<1>1. /\ new \in FadeRecords /\ new.id = h /\ new.player = p /\ new.kind = kind
      /\ h # NoTimer /\ p \in connected
  BY IdsAssumption DEF Fade, FadeRecords, FadePlayerScreen
<1>2. UNCHANGED <<connected, FadeTD, textdraws, box, globalShown, deaths, runaway>>
  BY <1>1, NoTextdrawsFacts DEF FadePlayerScreen, IInv, TextdrawInv
<1>3. /\ \A t \in timers : t \in timers' <=> t.player # p \/ t = new
      /\ new \in timers' /\ timers' \subseteq timers \cup {new}
  BY KillFacts DEF FadePlayerScreen, KillTimer
<1>4. /\ fadeTimer'[p] = h /\ wanted'[p] = kind
      /\ \A q \in Players \ {p} : fadeTimer'[q] = fadeTimer[q] /\ wanted'[q] = wanted[q]
      /\ \A q \in Players : fadeTimer[q] # h
      /\ fadeTimer' \in [Players -> TimerIds \cup {NoTimer}] /\ wanted' \in [Players -> Kinds]
  BY DEF FadePlayerScreen, IsFresh, IInv, TypeOK
<1>5. TypeOK'
  <2>1. FadeScreenIteration' \in [Players -> -1 .. LAST - 1]
    BY LastAssumption DEF FadePlayerScreen, IInv, TypeOK
  <2> QED
    BY <1>1, <1>2, <1>3, <1>4, <2>1 DEF IInv, TypeOK, deaths, runaway
<1>6. FadeInv'
  <2>1. OneFadeEach'
    BY <1>1, <1>2, <1>3, <1>4 DEF IInv, TypeOK, FadeInv, OneFadeEach, FadeRecords
  <2>2. \A t \in timers' : t.kind = wanted'[t.player]
    BY <1>1, <1>3, <1>4, SMTT(30) DEF IInv, TypeOK, FadeInv, FadeRecords
  <2>3. \A r, q \in Players : fadeTimer'[r] = fadeTimer'[q] /\ fadeTimer'[r] # NoTimer => r = q
    BY <1>4 DEF IInv, FadeInv
  <2> QED
    BY <2>1, <2>2, <2>3 DEF FadeInv
<1>7. ScreenIsAsAsked'
  <2> SUFFICES ASSUME NEW q \in connected', ~Fading(q)'
               PROVE  Darkness(q)' = IF wanted'[q] = "black" THEN LAST ELSE 0
    BY DEF ScreenIsAsAsked
  <2>1. q # p
    BY <1>1, <1>3 DEF Fading
  <2>2. q \in connected /\ q \in Players /\ ~Fading(q)
    BY <1>2, <1>3, <2>1 DEF Fading, IInv, TypeOK
  <2>3. Darkness(q)' = Darkness(q) /\ wanted'[q] = wanted[q]
    BY <1>2, <1>4, <2>1, <2>2 DEF Darkness
  <2> QED
    BY <2>2, <2>3 DEF IInv, ScreenIsAsAsked
<1>8. GoneInv' /\ TextdrawInv' /\ MessageInv'
  BY <1>2, TextdrawsUntouched
<1> QED
  BY <1>5, <1>6, <1>7, <1>8 DEF IInv

\* The last shade is the one asked for.
LEMMA FinishKeeps ==
  ASSUME IInv, NEW t \in timers, Finish(t),
         UNCHANGED <<connected, FadeTD, textdraws, wanted, deaths, runaway>>
  PROVE  IInv'
<1> DEFINE p == t.player
<1>1. p \in Players /\ p \in connected /\ t.kind = wanted[p] /\ t.kind \in Kinds
  BY DEF IInv, TypeOK, FadeInv, OneFadeEach, FadeRecords
<1>2. /\ \A u \in timers : u \in timers' <=> u.player # p
      /\ timers' \subseteq timers
  BY <1>1, KillFacts DEF Finish, KillTimer
<1>3. /\ fadeTimer'[p] = NoTimer /\ box'[p] = 0
      /\ \A q \in Players \ {p} : /\ fadeTimer'[q] = fadeTimer[q] /\ box'[q] = box[q]
                                  /\ q \in globalShown' <=> q \in globalShown
      /\ p \in globalShown' <=> t.kind = "black"
  BY <1>1 DEF Finish, IInv, TypeOK
<1>4. TypeOK'
  BY <1>1, <1>2, LastAssumption DEF Finish, IInv, TypeOK, deaths, runaway
<1>5. FadeInv'
  <2>1. OneFadeEach'
    BY <1>2, <1>3 DEF IInv, TypeOK, FadeInv, OneFadeEach
  <2>2. \A u \in timers' : u.kind = wanted'[u.player]
    BY <1>2 DEF IInv, FadeInv
  <2>3. \A r, q \in Players : fadeTimer'[r] = fadeTimer'[q] /\ fadeTimer'[r] # NoTimer => r = q
    BY <1>3 DEF IInv, FadeInv
  <2> QED
    BY <2>1, <2>2, <2>3 DEF FadeInv
<1>6. ScreenIsAsAsked'
  <2> SUFFICES ASSUME NEW q \in connected', ~Fading(q)'
               PROVE  Darkness(q)' = IF wanted'[q] = "black" THEN LAST ELSE 0
    BY DEF ScreenIsAsAsked
  <2>1. CASE q = p
    BY <1>1, <1>3, <2>1 DEF Darkness
  <2>2. CASE q # p
    <3>1. q \in connected /\ q \in Players /\ ~Fading(q)
      BY <1>2, <2>2 DEF Fading, IInv, TypeOK
    <3>2. Darkness(q)' = Darkness(q) /\ wanted'[q] = wanted[q]
      BY <1>3, <2>2, <3>1 DEF Darkness
    <3> QED
      BY <3>1, <3>2 DEF IInv, ScreenIsAsAsked
  <2> QED
    BY <2>1, <2>2
<1>7. GoneInv' /\ TextdrawInv' /\ MessageInv'
  BY TextdrawsUntouched
<1> QED
  BY <1>4, <1>5, <1>6, <1>7 DEF IInv

\* Any other shade is one of a fade that goes on.
LEMMA PaintKeeps ==
  ASSUME IInv, NEW t \in timers, FadeScreenIteration[t.player] + 1 # LAST,
         Paint(t, FadeScreenIteration[t.player] + 1),
         UNCHANGED <<connected, FadeTD, textdraws, wanted, deaths, runaway>>
  PROVE  IInv'
<1> DEFINE p == t.player
           i == FadeScreenIteration[p] + 1
<1>1. p \in Players /\ p \in connected /\ t.kind \in Kinds
  BY DEF IInv, TypeOK, FadeInv, OneFadeEach, FadeRecords
<1>2. i \in 0 .. LAST - 1 /\ Shade(t.kind, i) \in 0 .. LAST
  <2>1. FadeScreenIteration[p] \in -1 .. LAST - 1
    BY <1>1 DEF IInv, TypeOK
  <2>2. i # LAST
    OBVIOUS
  <2>3. i \in 0 .. LAST - 1
    <3> HIDE DEF p
    <3> QED
      BY <2>1, <2>2, LastAssumption
  <2>4. LAST - i \in 0 .. LAST /\ i \in 0 .. LAST
    <3> HIDE DEF i
    <3> QED
      BY <2>3, LastAssumption
  <2> HIDE DEF i
  <2> QED
    BY <2>3, <2>4 DEF Shade
<1>3. TypeOK'
  <2>1. /\ FadeScreenIteration' \in [Players -> -1 .. LAST - 1]
        /\ box' \in [Players -> 0 .. LAST] /\ globalShown' \subseteq Players
    BY <1>1, <1>2, LastAssumption DEF Paint, IInv, TypeOK
  <2> QED
    BY <2>1 DEF Paint, IInv, TypeOK, deaths, runaway
<1>4. FadeInv'
  BY DEF Paint, IInv, FadeInv, OneFadeEach
<1>5. ScreenIsAsAsked'
  <2> SUFFICES ASSUME NEW q \in connected', ~Fading(q)'
               PROVE  Darkness(q)' = IF wanted'[q] = "black" THEN LAST ELSE 0
    BY DEF ScreenIsAsAsked
  <2>1. q # p /\ q \in connected /\ q \in Players /\ ~Fading(q)
    BY DEF Paint, Fading, IInv, TypeOK
  <2>2. Darkness(q)' = Darkness(q)
    BY <1>1, <2>1 DEF Paint, Darkness, IInv, TypeOK
  <2> QED
    BY <2>1, <2>2 DEF IInv, ScreenIsAsAsked
<1>6. GoneInv' /\ TextdrawInv' /\ MessageInv'
  BY TextdrawsUntouched
<1> QED
  BY <1>3, <1>4, <1>5, <1>6 DEF IInv

\* Textdraws of others come and go without the fade textdraw being touched.
LEMMA DestroyKeeps ==
  ASSUME IInv, NEW p \in Players, NEW h \in Handles, h # 0
  PROVE  /\ Destroyed(textdraws[p], h) \in [TextdrawIds -> Owners]
         /\ Destroyed(textdraws[p], h)[0] = textdraws[p][0]
         /\ \A i \in TextdrawIds :
              Destroyed(textdraws[p], h)[i] = "wasted" => textdraws[p][i] = "wasted" /\ i # h
BY TextdrawTyping, NoTextdrawsFacts DEF IInv, TypeOK

\* PlayerConnect: whatever the slot held is gone, so that the first textdraw
\* made gets id 0.
LEMMA ConnectKeeps ==
  ASSUME IInv, NEW p \in Players, PlayerConnect(p)
  PROVE  IInv'
<1>1. /\ textdraws[p] = NoTextdraws /\ FadeTD[p] = INVALID_TEXT_DRAW
      /\ yourTime[p] = INVALID_TEXT_DRAW /\ p \notin connected
  BY DEF PlayerConnect, IInv, GoneInv
<1>2. Destroyed(textdraws[p], FadeTD[p]) = NoTextdraws
  BY <1>1 DEF Destroyed
<1>3. NewTextdraw(NoTextdraws) = 0 /\ Created(NoTextdraws, "fade") \in [TextdrawIds -> Owners]
  BY NoTextdrawsFacts, NewTextdrawFacts, TextdrawTyping DEF Owners, Handles
<1>4. \A i \in TextdrawIds :
        Created(NoTextdraws, "fade")[i] = IF i = 0 THEN "fade" ELSE "none"
  BY <1>3, NoTextdrawsFacts DEF Created
<1>5. /\ connected' = connected \cup {p}
      /\ FadeTD' = [FadeTD EXCEPT ![p] = 0]
      /\ textdraws' = [textdraws EXCEPT ![p] = Created(NoTextdraws, "fade")]
      /\ wanted' = [wanted EXCEPT ![p] = "clear"] /\ UNCHANGED <<deaths, runaway>>
      /\ ResetPlayerFadeData(p)
  BY <1>2, <1>3 DEF PlayerConnect
<1>6. TypeOK'
  <2>1. /\ fadeTimer' \in [Players -> TimerIds \cup {NoTimer}]
        /\ FadeScreenIteration' \in [Players -> -1 .. LAST - 1]
        /\ box' \in [Players -> 0 .. LAST] /\ globalShown' \subseteq Players
        /\ timers' \subseteq FadeRecords
    BY <1>5, LastAssumption DEF ResetPlayerFadeData, KillTimer, IInv, TypeOK
  <2>2. /\ textdraws' \in [Players -> [TextdrawIds -> Owners]]
        /\ FadeTD' \in [Players -> Handles] /\ wanted' \in [Players -> Kinds]
    BY <1>3, <1>5, NoTextdrawsFacts DEF IInv, TypeOK, Handles, Kinds
  <2> QED
    BY <1>5, <2>1, <2>2 DEF IInv, TypeOK, deaths, runaway
<1>7. FadeInv' /\ ScreenIsAsAsked'
  BY <1>5, ResetKeeps
<1>8. GoneInv' /\ TextdrawInv' /\ MessageInv'
  <2>1. GoneInv'
    BY <1>5 DEF IInv, TypeOK, GoneInv, runaway
  <2>2. TextdrawInv'
    BY <1>4, <1>5, NoTextdrawsFacts DEF IInv, TypeOK, TextdrawInv, deaths, runaway
  <2>3. MessageInv'
    BY <1>4, <1>5 DEF IInv, TypeOK, MessageInv, deaths, runaway
  <2> QED
    BY <2>1, <2>2, <2>3
<1> QED
  BY <1>6, <1>7, <1>8 DEF IInv

\* PlayerDisconnect leaves nothing but the id of the death message.
LEMMA DisconnectKeeps ==
  ASSUME IInv, NEW p \in Players, PlayerDisconnect(p)
  PROVE  IInv'
<1>1. TypeOK'
  <2>1. /\ fadeTimer' \in [Players -> TimerIds \cup {NoTimer}]
        /\ FadeScreenIteration' \in [Players -> -1 .. LAST - 1]
        /\ box' \in [Players -> 0 .. LAST] /\ globalShown' \subseteq Players
        /\ timers' \subseteq FadeRecords
    BY LastAssumption DEF PlayerDisconnect, ResetPlayerFadeData, KillTimer, IInv, TypeOK
  <2>2. /\ textdraws' \in [Players -> [TextdrawIds -> Owners]]
        /\ FadeTD' \in [Players -> Handles] /\ yourTime' \in [Players -> Handles]
    BY NoTextdrawsFacts DEF PlayerDisconnect, IInv, TypeOK, Handles
  <2> QED
    BY <2>1, <2>2 DEF PlayerDisconnect, IInv, TypeOK
<1>2. FadeInv' /\ ScreenIsAsAsked'
  BY ResetKeeps DEF PlayerDisconnect
<1>3. GoneInv'
  BY DEF PlayerDisconnect, IInv, TypeOK, GoneInv
<1>4. TextdrawInv'
  BY NoTextdrawsFacts DEF PlayerDisconnect, IInv, TypeOK, TextdrawInv
<1>5. MessageInv'
  BY NoTextdrawsFacts DEF PlayerDisconnect, IInv, TypeOK, MessageInv
<1> QED
  BY <1>1, <1>2, <1>3, <1>4, <1>5 DEF IInv

\* PlayerDeath: the new message is the only one, and not in the fade's place.
LEMMA DeathKeeps ==
  ASSUME IInv, NEW p \in Players, PlayerDeath(p)
  PROVE  IInv'
<1> DEFINE cleared == Destroyed(textdraws[p], TDEditor_PTD[p])
<1>1. p \in connected /\ wasted' = wasted \cup {p} /\ UNCHANGED <<connected, fades, runaway>>
  BY DEF PlayerDeath
<1>2. FadeInv' /\ ScreenIsAsAsked'
  BY <1>1, FadesUntouched
<1>3. /\ textdraws[p] \in [TextdrawIds -> Owners] /\ textdraws[p][0] = "fade"
      /\ TDEditor_PTD[p] \in Handles /\ TDEditor_PTD[p] # 0
  BY <1>1 DEF IInv, TypeOK, TextdrawInv
<1>4. CASE UNCHANGED <<TDEditor_PTD, textdraws>>
  <2>1. FadeTD' = FadeTD
    BY <1>1 DEF fades
  <2> QED
    BY <1>1, <1>2, <1>4, <2>1 DEF IInv, TypeOK, GoneInv, TextdrawInv, MessageInv, fades, runaway
<1>5. CASE WastedMessage(p, textdraws[p])
  <2>1. /\ cleared \in [TextdrawIds -> Owners] /\ cleared[0] = "fade"
        /\ \A i \in TextdrawIds : cleared[i] # "wasted"
    BY <1>3, DestroyKeeps DEF IInv, MessageInv
  <2>2. /\ NewTextdraw(cleared) \in Handles /\ NewTextdraw(cleared) # 0
        /\ Created(cleared, "wasted") \in [TextdrawIds -> Owners]
        /\ \A i \in TextdrawIds : Created(cleared, "wasted")[i] =
              IF i = NewTextdraw(cleared) THEN "wasted" ELSE cleared[i]
    <3> HIDE DEF cleared
    <3>1. INVALID_TEXT_DRAW \in Handles /\ "wasted" \in Owners
      BY DEF Handles, Owners
    <3> QED
      BY <2>1, <3>1, NewTextdrawFacts, TextdrawTyping
  <2>3. /\ TDEditor_PTD' = [TDEditor_PTD EXCEPT ![p] = NewTextdraw(cleared)]
        /\ textdraws' = [textdraws EXCEPT ![p] = Created(cleared, "wasted")]
    BY <1>5 DEF WastedMessage
  <2> HIDE DEF cleared
  <2>4. TypeOK'
    BY <1>1, <2>2, <2>3 DEF IInv, TypeOK, fades, runaway
  <2>5. GoneInv'
    BY <1>1, <2>3 DEF IInv, TypeOK, GoneInv, fades, runaway
  <2>6. TextdrawInv'
    BY <1>1, <2>1, <2>2, <2>3, NoTextdrawsFacts DEF IInv, TypeOK, TextdrawInv, fades, runaway
  <2>7. MessageInv'
    BY <1>1, <2>1, <2>2, <2>3 DEF IInv, TypeOK, MessageInv
  <2> QED
    BY <1>2, <2>4, <2>5, <2>6, <2>7 DEF IInv
<1> QED
  BY <1>4, <1>5 DEF PlayerDeath

\* PlayerStateChange: the message of the player goes with the death.
LEMMA StateChangeKeeps ==
  ASSUME IInv, NEW p \in Players, PlayerStateChange(p)
  PROVE  IInv'
<1> DEFINE cleared == Destroyed(textdraws[p], TDEditor_PTD[p])
<1>1. /\ p \in wasted /\ wasted' = wasted \ {p} /\ UNCHANGED <<connected, fades, runaway>>
      /\ TDEditor_PTD' = [TDEditor_PTD EXCEPT ![p] = INVALID_TEXT_DRAW]
      /\ textdraws' = [textdraws EXCEPT ![p] = cleared]
  BY DEF PlayerStateChange, HideWastedTextdraw
<1>2. p \in connected /\ TDEditor_PTD[p] \in Handles /\ TDEditor_PTD[p] # 0
  BY <1>1 DEF IInv, TypeOK, TextdrawInv
<1>3. /\ cleared \in [TextdrawIds -> Owners] /\ cleared[0] = textdraws[p][0]
      /\ \A i \in TextdrawIds : cleared[i] # "wasted"
  BY <1>2, DestroyKeeps DEF IInv, MessageInv
<1> HIDE DEF cleared
<1>4. FadeInv' /\ ScreenIsAsAsked'
  BY <1>1, FadesUntouched
<1>5. TypeOK'
  BY <1>1, <1>3 DEF IInv, TypeOK, fades, Handles, runaway
<1>6. GoneInv' /\ TextdrawInv'
  BY <1>1, <1>2, <1>3, NoTextdrawsFacts DEF IInv, TypeOK, GoneInv, TextdrawInv, fades, runaway
<1>7. MessageInv'
  BY <1>1, <1>3 DEF IInv, TypeOK, MessageInv
<1> QED
  BY <1>4, <1>5, <1>6, <1>7 DEF IInv

\* What a race does to the textdraws of a player: some are made, some destroyed,
\* but neither the fade nor the death message is touched.
RaceStep(p, T, time, place) ==
  /\ T \in [TextdrawIds -> Owners] /\ T[0] = "fade"
  /\ \A i \in TextdrawIds : T[i] = "wasted" => textdraws[p][i] = "wasted"
  /\ time \in Handles \ {0} /\ place \in Handles \ {0}
  /\ yourTime' = [yourTime EXCEPT ![p] = time]
  /\ endInfo' = [endInfo EXCEPT ![p] = place]
  /\ textdraws' = [textdraws EXCEPT ![p] = T]

LEMMA RaceStepKeeps ==
  ASSUME IInv, NEW p \in connected, UNCHANGED <<connected, fades, deaths>>,
         NEW T, NEW time, NEW place, RaceStep(p, T, time, place)
  PROVE  IInv'
<1>1. FadeInv' /\ ScreenIsAsAsked'
  BY FadesUntouched
<1>2. TypeOK'
  BY DEF RaceStep, IInv, TypeOK, fades, deaths, runaway
<1>3. GoneInv' /\ TextdrawInv' /\ MessageInv'
  BY NoTextdrawsFacts
     DEF RaceStep, IInv, TypeOK, GoneInv, TextdrawInv, MessageInv, fades, deaths, runaway
<1> QED
  BY <1>1, <1>2, <1>3 DEF IInv

\* A new textdraw of the race goes where nothing else is.
LEMMA RaceTextdraw ==
  ASSUME NEW T \in [TextdrawIds -> Owners], T[0] = "fade"
  PROVE  /\ NewTextdraw(T) \in Handles \ {0}
         /\ Created(T, "race") \in [TextdrawIds -> Owners] /\ Created(T, "race")[0] = "fade"
         /\ \A i \in TextdrawIds : Created(T, "race")[i] = "wasted" => T[i] = "wasted"
<1>1. INVALID_TEXT_DRAW \in Handles /\ "race" \in Owners
  BY DEF Handles, Owners
<1>2. NewTextdraw(T) \in Handles \ {0}
  BY NewTextdrawFacts
<1>3. /\ Created(T, "race") \in [TextdrawIds -> Owners]
      /\ \A i \in TextdrawIds :
           Created(T, "race")[i] = IF i = NewTextdraw(T) THEN "race" ELSE T[i]
  BY <1>1, TextdrawTyping
<1>4. Created(T, "race")[0] = "fade"
  BY <1>2, <1>3, NoTextdrawsFacts
<1>5. \A i \in TextdrawIds : Created(T, "race")[i] = "wasted" => T[i] = "wasted"
  BY <1>3
<1> QED
  BY <1>2, <1>3, <1>4, <1>5

LEMMA RaceTextdrawGone ==
  ASSUME NEW T \in [TextdrawIds -> Owners], T[0] = "fade", NEW h \in Handles, h # 0
  PROVE  /\ Destroyed(T, h) \in [TextdrawIds -> Owners] /\ Destroyed(T, h)[0] = "fade"
         /\ \A i \in TextdrawIds : Destroyed(T, h)[i] = "wasted" => T[i] = "wasted"
<1>1. "none" \in Owners
  BY DEF Owners
<1> QED
  <2>1. /\ Destroyed(T, h) \in [TextdrawIds -> Owners]
        /\ \A i \in TextdrawIds : Destroyed(T, h)[i] = IF i = h THEN "none" ELSE T[i]
    BY <1>1, TextdrawTyping
  <2> QED
    BY <2>1, NoTextdrawsFacts

\* RaceStarts, RaceFinishes and LeaveRace.
LEMMA RaceKeeps ==
  ASSUME IInv, NEW p \in Players, RaceStarts(p) \/ RaceFinishes(p) \/ LeaveRace(p)
  PROVE  IInv'
<1> DEFINE T == textdraws[p]
           placeless == Destroyed(T, endInfo[p])
           left == Destroyed(placeless, yourTime[p])
<1>1. p \in connected /\ UNCHANGED <<connected, fades, deaths>>
  BY DEF RaceStarts, RaceFinishes, LeaveRace
<1>2. /\ T \in [TextdrawIds -> Owners] /\ T[0] = "fade"
      /\ yourTime[p] \in Handles /\ yourTime[p] # 0
      /\ endInfo[p] \in Handles /\ endInfo[p] # 0
      /\ INVALID_TEXT_DRAW \in Handles \ {0}
  BY <1>1, NoTextdrawsFacts DEF IInv, TypeOK, TextdrawInv, Handles
<1>3. /\ placeless \in [TextdrawIds -> Owners] /\ placeless[0] = "fade"
      /\ \A i \in TextdrawIds : placeless[i] = "wasted" => T[i] = "wasted"
  <2> HIDE DEF T
  <2> QED
    BY <1>2, RaceTextdrawGone
<1>4. CASE RaceStarts(p)
  <2>1. RaceStep(p, Created(T, "race"), NewTextdraw(T), endInfo[p])
    BY <1>2, <1>4, RaceTextdraw DEF RaceStarts, RaceStep, IInv, TypeOK
  <2> QED
    BY <1>1, <2>1, RaceStepKeeps
<1>5. CASE RaceFinishes(p)
  <2>1. /\ NewTextdraw(placeless) \in Handles \ {0}
        /\ Created(placeless, "race") \in [TextdrawIds -> Owners]
        /\ Created(placeless, "race")[0] = "fade"
        /\ \A i \in TextdrawIds :
             Created(placeless, "race")[i] = "wasted" => placeless[i] = "wasted"
    <3> HIDE DEF placeless
    <3> QED
      BY <1>3, RaceTextdraw
  <2>2. RaceStep(p, Created(placeless, "race"), yourTime[p], NewTextdraw(placeless))
    <3>1. /\ endInfo' = [endInfo EXCEPT ![p] = NewTextdraw(placeless)]
          /\ textdraws' = [textdraws EXCEPT ![p] = Created(placeless, "race")]
          /\ yourTime' = [yourTime EXCEPT ![p] = yourTime[p]]
      BY <1>5 DEF RaceFinishes, IInv, TypeOK
    <3> HIDE DEF placeless
    <3> QED
      BY <1>2, <1>3, <2>1, <3>1 DEF RaceStep
  <2> QED
    BY <1>1, <2>2, RaceStepKeeps
<1>6. CASE LeaveRace(p)
  <2>1. /\ left \in [TextdrawIds -> Owners] /\ left[0] = "fade"
        /\ \A i \in TextdrawIds : left[i] = "wasted" => placeless[i] = "wasted"
    <3> HIDE DEF placeless
    <3> QED
      BY <1>2, <1>3, RaceTextdrawGone
  <2>2. RaceStep(p, left, INVALID_TEXT_DRAW, INVALID_TEXT_DRAW)
    <3>1. /\ endInfo' = [endInfo EXCEPT ![p] = INVALID_TEXT_DRAW]
          /\ yourTime' = [yourTime EXCEPT ![p] = INVALID_TEXT_DRAW]
          /\ textdraws' = [textdraws EXCEPT ![p] = left]
      BY <1>6 DEF LeaveRace
    <3> HIDE DEF placeless, left
    <3> QED
      BY <1>2, <1>3, <2>1, <3>1 DEF RaceStep
  <2> QED
    BY <1>1, <2>2, RaceStepKeeps
<1> QED
  BY <1>4, <1>5, <1>6

\* Every step keeps the invariant.
LEMMA StepIInv == IInv /\ [Next]_vars => IInv'
<1> SUFFICES ASSUME IInv, [Next]_vars PROVE IInv'
  OBVIOUS
<1>1. ASSUME NEW p \in Players, AskForFade(p) PROVE IInv'
  BY <1>1, AskingKeeps DEF AskForFade
<1>2. ASSUME NEW p \in Players, PlayerConnect(p) PROVE IInv'
  BY <1>2, ConnectKeeps
<1>3. ASSUME NEW p \in Players, PlayerDisconnect(p) PROVE IInv'
  BY <1>3, DisconnectKeeps
<1>4. ASSUME NEW p \in Players, PlayerDeath(p) PROVE IInv'
  BY <1>4, DeathKeeps
<1>5. ASSUME NEW p \in Players, PlayerStateChange(p) PROVE IInv'
  BY <1>5, StateChangeKeeps
<1>6. ASSUME NEW p \in Players, RaceStarts(p) \/ RaceFinishes(p) \/ LeaveRace(p) PROVE IInv'
  BY <1>6, RaceKeeps
<1>7. ASSUME NEW t \in timers, UpdateTextdrawFade(t) PROVE IInv'
  <2>1. t.player \in connected
    BY DEF IInv, FadeInv, OneFadeEach
  <2>2. UNCHANGED <<connected, FadeTD, textdraws, wanted, deaths, runaway>>
    BY <1>7, <2>1 DEF UpdateTextdrawFade
  <2>3. CASE FadeScreenIteration[t.player] + 1 = LAST
    BY <1>7, <2>1, <2>2, <2>3, FinishKeeps DEF UpdateTextdrawFade, IsLast
  <2>4. CASE FadeScreenIteration[t.player] + 1 # LAST
    BY <1>7, <2>1, <2>2, <2>4, PaintKeeps DEF UpdateTextdrawFade, IsLast
  <2> QED
    BY <2>3, <2>4
<1>8. CASE UNCHANGED vars
  <2>1. TypeOK'
    BY <1>8 DEF vars, fades, deaths, IInv, TypeOK, runaway
  <2>2. GoneInv' /\ TextdrawInv' /\ MessageInv'
    BY <1>8, TextdrawsUntouched DEF vars, fades, runaway
  <2>3. FadeInv' /\ ScreenIsAsAsked'
    BY <1>8, FadesUntouched DEF vars
  <2> QED
    BY <2>1, <2>2, <2>3 DEF IInv
<1> QED
  BY <1>1, <1>2, <1>3, <1>4, <1>5, <1>6, <1>7, <1>8 DEF Next

LEMMA Inductive == Spec => []IInv
<1> QED
  BY InitIInv, StepIInv, PTL DEF Spec

-----------------------------------------------------------------------------
(* The theorems.                                                           *)

\* Every handle and every shade stays within its type, for any number of
\* players, timers, shades and textdraw ids.
THEOREM TypeCorrect == Spec => []TypeOK
<1>1. IInv => TypeOK
  BY DEF IInv
<1> QED
  BY <1>1, Inductive, PTL

\* FadePlayerScreen, ResetPlayerFadeData and the timer's own end leave at most
\* one fade a player, the one the handle names, and none without its player.
THEOREM FadesAreOnesOwn == Spec => []OneFadeEach
<1>1. IInv => OneFadeEach
  BY DEF IInv, FadeInv
<1> QED
  BY <1>1, Inductive, PTL

\* Between fades the screen is black or clear as the last FadePlayerScreen asked.
THEOREM ScreenFollowsRequests == Spec => []ScreenIsAsAsked
<1>1. IInv => ScreenIsAsAsked
  BY DEF IInv
<1> QED
  BY <1>1, Inductive, PTL

\* The stale id death.pwn may hold is never that of the fade textdraw.
THEOREM FadeTextdrawStays == Spec => []FadeTextdrawIsSafe
<1>1. IInv => FadeTextdrawIsSafe
  BY NoTextdrawsFacts DEF IInv, TextdrawInv, FadeTextdrawIsSafe
<1> QED
  BY <1>1, Inductive, PTL

\* OnPlayerStateChange takes the message away that OnPlayerDeath has shown.
THEOREM MessageGoesWithDeath == Spec => []MessageOnlyForTheDead
<1>1. IInv => MessageOnlyForTheDead
  BY DEF IInv, MessageInv, MessageOnlyForTheDead
<1> QED
  BY <1>1, Inductive, PTL

-----------------------------------------------------------------------------
(* The pace of a fade.                                                     *)

\* Once a fade has begun, its textdraw has the shade of its iteration, and the
\* black one is gone from the second iteration of a fade to clear on.
Paced(p) ==
  FadeScreenIteration[p] >= 0 =>
    /\ box[p] = Shade(wanted[p], FadeScreenIteration[p])
    /\ wanted[p] = "clear" /\ FadeScreenIteration[p] >= 1 => p \notin globalShown

PaceInv == \A p \in connected : Paced(p)

\* What a step may do to the screen of a player whose fade has begun.
Smooth(p) ==
  FadeScreenIteration[p] >= 0 /\ fadeTimer'[p] \in {fadeTimer[p], NoTimer} =>
    \/ Darkness(p)' = Darkness(p)
    \/ Darkness(p)' = Darkness(p) + (IF wanted[p] = "black" THEN 1 ELSE -1)

\* Nothing changes for a player whose fade no step is about.
Unmoved(p) ==
  /\ FadeScreenIteration'[p] = FadeScreenIteration[p]
  /\ box'[p] = box[p] /\ wanted'[p] = wanted[p]
  /\ p \in globalShown' <=> p \in globalShown

LEMMA UnmovedIsSmooth ==
  ASSUME NEW p, Unmoved(p)
  PROVE  Smooth(p) /\ (Paced(p) => Paced(p)')
BY DEF Unmoved, Smooth, Paced, Darkness

\* The timer of the player's own fade.
LEMMA UpdateIsSmooth ==
  ASSUME IInv, NEW t \in timers, UpdateTextdrawFade(t), Paced(t.player)
  PROVE  Smooth(t.player) /\ Paced(t.player)'
<1> DEFINE p == t.player
           i == FadeScreenIteration[p]
<1>1. /\ p \in Players /\ p \in connected /\ t.kind = wanted[p] /\ t.kind \in Kinds
      /\ i \in -1 .. LAST - 1 /\ wanted' = wanted
  BY DEF IInv, TypeOK, FadeInv, OneFadeEach, FadeRecords, UpdateTextdrawFade
<1>2. CASE i + 1 = LAST
  <2>1. /\ FadeScreenIteration'[p] = -1 /\ box'[p] = 0
        /\ p \in globalShown' <=> t.kind = "black"
    BY <1>1, <1>2 DEF UpdateTextdrawFade, IsLast, Finish, IInv, TypeOK
  <2>2. Paced(p)'
    BY <2>1 DEF Paced
  <2>3. Smooth(p)
    <3> SUFFICES ASSUME i >= 0
                 PROVE  \/ Darkness(p)' = Darkness(p)
                        \/ Darkness(p)' = Darkness(p) + (IF wanted[p] = "black" THEN 1 ELSE -1)
      BY DEF Smooth
    <3>1. Darkness(p)' = IF t.kind = "black" THEN LAST ELSE 0
      BY <2>1 DEF Darkness
    <3>2. CASE t.kind = "black"
      <4>1. Darkness(p) = IF p \in globalShown THEN LAST ELSE i
        BY <1>1, <3>2 DEF Darkness, Paced, Shade
      <4> HIDE DEF i, p
      <4> QED
        BY <1>1, <1>2, <3>1, <3>2, <4>1, LastAssumption
    <3>3. CASE t.kind = "clear"
      <4>1. Darkness(p) = IF p \in globalShown THEN LAST ELSE LAST - i
        BY <1>1, <3>3 DEF Darkness, Paced, Shade
      <4>2. p \in globalShown => i = 0
        BY <1>1, <3>3 DEF Paced
      <4> HIDE DEF i, p
      <4> QED
        BY <1>1, <1>2, <3>1, <3>3, <4>1, <4>2, LastAssumption
    <3> QED
      BY <1>1, <3>2, <3>3 DEF Kinds
  <2> QED
    BY <2>2, <2>3
<1>3. CASE i + 1 # LAST
  <2>1. /\ FadeScreenIteration'[p] = i + 1 /\ box'[p] = Shade(t.kind, i + 1)
        /\ p \in globalShown' <=> p \in globalShown /\ ~(i + 1 = 1 /\ t.kind = "clear")
    BY <1>1, <1>3 DEF UpdateTextdrawFade, IsLast, Paint, IInv, TypeOK
  <2>2. p \in globalShown /\ t.kind = "clear" => i \in {-1, 0}
    <3>1. Paced(p) /\ i \in Int
      BY <1>1, LastAssumption
    <3> QED
      BY <1>1, LastAssumption DEF Paced
  <2>3. p \in globalShown' /\ t.kind = "clear" => i + 1 = 0
    BY <1>1, <2>1, <2>2, LastAssumption
  <2>4. Paced(p)'
    <3> SUFFICES ASSUME i + 1 >= 0
                 PROVE  /\ box'[p] = Shade(wanted'[p], i + 1)
                        /\ wanted'[p] = "clear" /\ i + 1 >= 1 => p \notin globalShown'
      BY <2>1 DEF Paced
    <3> QED
      BY <1>1, <2>1, <2>3
  <2>5. Smooth(p)
    <3> SUFFICES ASSUME i >= 0
                 PROVE  \/ Darkness(p)' = Darkness(p)
                        \/ Darkness(p)' = Darkness(p) + (IF wanted[p] = "black" THEN 1 ELSE -1)
      BY DEF Smooth
    <3>2. CASE t.kind = "black"
      <4>1. /\ Darkness(p) = IF p \in globalShown THEN LAST ELSE i
            /\ Darkness(p)' = IF p \in globalShown THEN LAST ELSE i + 1
        BY <1>1, <2>1, <3>2 DEF Darkness, Paced, Shade
      <4> HIDE DEF i, p
      <4> QED
        BY <1>1, <3>2, <4>1
    <3>3. CASE t.kind = "clear"
      <4>1. /\ Darkness(p) = IF p \in globalShown THEN LAST ELSE LAST - i
            /\ Darkness(p)' = LAST - (i + 1)
        BY <1>1, <2>1, <2>2, <2>3, <3>3 DEF Darkness, Paced, Shade
      <4> HIDE DEF i, p
      <4> QED
        BY <1>1, <2>2, <3>3, <4>1, LastAssumption
    <3> QED
      BY <1>1, <3>2, <3>3 DEF Kinds
  <2> QED
    BY <2>4, <2>5
<1> QED
  BY <1>2, <1>3

\* A step is smooth for every player who stays.
LEMMA StepIsSmooth ==
  ASSUME IInv, PaceInv, [Next]_vars, NEW p \in connected'
  PROVE  (p \in connected => Smooth(p)) /\ Paced(p)'
<1>1. p \in connected => Paced(p)
  BY DEF PaceInv
<1>2. CASE p \in connected /\ Unmoved(p)
  BY <1>1, <1>2, UnmovedIsSmooth
<1>3. ASSUME NEW q \in Players, AskForFade(q) PROVE (p \in connected => Smooth(p)) /\ Paced(p)'
  <2>1. PICK kind \in Kinds, h \in TimerIds : FadePlayerScreen(q, kind, h)
    BY <1>3 DEF AskForFade
  <2>2. p \in connected /\ p \in Players
    BY <2>1 DEF FadePlayerScreen, IInv, TypeOK
  <2>3. CASE p # q
    <3>1. Unmoved(p)
      BY <2>1, <2>2, <2>3 DEF FadePlayerScreen, Unmoved, IInv, TypeOK
    <3> QED
      BY <1>2, <2>2, <3>1
  <2>4. CASE p = q
    <3>1. fadeTimer'[p] = h /\ h # NoTimer /\ fadeTimer[p] # h /\ FadeScreenIteration'[p] = -1
      BY <2>1, <2>2, <2>4, IdsAssumption DEF FadePlayerScreen, IsFresh, IInv, TypeOK
    <3> QED
      BY <3>1 DEF Smooth, Paced
  <2> QED
    BY <2>3, <2>4
<1>4. ASSUME NEW q \in Players, PlayerConnect(q) PROVE (p \in connected => Smooth(p)) /\ Paced(p)'
  <2>1. CASE p # q
    <3>1. p \in connected /\ p \in Players
      BY <1>4, <2>1 DEF PlayerConnect, IInv, TypeOK
    <3>2. Unmoved(p)
      BY <1>4, <2>1, <3>1 DEF PlayerConnect, ResetPlayerFadeData, Unmoved, IInv, TypeOK
    <3> QED
      BY <1>2, <3>1, <3>2
  <2>2. CASE p = q
    <3>1. p \notin connected /\ FadeScreenIteration'[p] = -1
      BY <1>4, <2>2 DEF PlayerConnect, ResetPlayerFadeData, IInv, TypeOK
    <3> QED
      BY <3>1 DEF Paced
  <2> QED
    BY <2>1, <2>2
<1>5. ASSUME NEW q \in Players, PlayerDisconnect(q) PROVE (p \in connected => Smooth(p)) /\ Paced(p)'
  <2>1. p \in connected /\ p \in Players /\ p # q
    BY <1>5 DEF PlayerDisconnect, IInv, TypeOK
  <2>2. Unmoved(p)
    BY <1>5, <2>1 DEF PlayerDisconnect, ResetPlayerFadeData, Unmoved, IInv, TypeOK
  <2> QED
    BY <1>2, <2>1, <2>2
<1>6. CASE UNCHANGED <<connected, fades>>
  BY <1>2, <1>6 DEF Unmoved, fades
<1>7. ASSUME NEW q \in Players,
             PlayerDeath(q) \/ PlayerStateChange(q) \/ RaceStarts(q) \/ RaceFinishes(q) \/ LeaveRace(q)
      PROVE  (p \in connected => Smooth(p)) /\ Paced(p)'
  BY <1>6, <1>7 DEF PlayerDeath, PlayerStateChange, RaceStarts, RaceFinishes, LeaveRace
<1>8. ASSUME NEW t \in timers, UpdateTextdrawFade(t) PROVE (p \in connected => Smooth(p)) /\ Paced(p)'
  <2>1. /\ p \in connected /\ p \in Players /\ t.player \in connected /\ t.player \in Players
        /\ t.id = fadeTimer[t.player]
    BY <1>8 DEF UpdateTextdrawFade, IInv, TypeOK, FadeInv, OneFadeEach
  <2>2. CASE p # t.player
    <3>1. Unmoved(p)
      BY <1>8, <2>1, <2>2 DEF UpdateTextdrawFade, Finish, Paint, Unmoved, IInv, TypeOK
    <3> QED
      BY <1>2, <2>1, <3>1
  <2>3. CASE p = t.player
    BY <1>1, <1>8, <2>1, <2>3, UpdateIsSmooth
  <2> QED
    BY <2>2, <2>3
<1>9. CASE UNCHANGED vars
  BY <1>6, <1>9 DEF vars
<1> QED
  BY <1>3, <1>4, <1>5, <1>7, <1>8, <1>9 DEF Next

\* Whatever interrupts it, a fade that has begun goes one shade at a time, in
\* its own direction, until another replaces it or its player leaves.
THEOREM FadesGoSmoothly == Spec => FadesAreSmooth
<1>1. Init => PaceInv
  BY DEF Init, PaceInv, Paced
<1>2. IInv /\ PaceInv /\ [Next]_vars => PaceInv'
  BY StepIsSmooth DEF PaceInv
<1>3. IInv /\ PaceInv /\ [Next]_vars =>
        [\A p \in connected \cap connected' :
           /\ FadeScreenIteration[p] >= 0
           /\ fadeTimer'[p] \in {fadeTimer[p], NoTimer}
           => \/ Darkness(p)' = Darkness(p)
              \/ Darkness(p)' = Darkness(p) + (IF wanted[p] = "black" THEN 1 ELSE -1)]_vars
  BY StepIsSmooth DEF Smooth
<1> QED
  BY <1>1, <1>2, <1>3, Inductive, PTL DEF Spec, FadesAreSmooth
===============================================================================
