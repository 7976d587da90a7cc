------------------------------- MODULE SscanfProofs -------------------------------
(***************************************************************************)
(* The sscanf plugin.  First SscanfPlayers, for any number of players,     *)
(* names and scripts, which may start at any time: how many scripts the    *)
(* plugin counts for a player, in the middle of a round of callbacks too,  *)
(* and whom a lookup gives.  Then Sscanf, for every call, format, text and *)
(* number of destinations: what sscanf never writes, that it ends, that    *)
(* every variable keeps its type; and last what it reads from the fields   *)
(* of a text cut by a delimiter.                                           *)
(***************************************************************************)
EXTENDS Sscanf, FoldProofs, FiniteSetTheorems, SequenceTheorems, TLAPS

-----------------------------------------------------------------------------
(* Types.                                                                  *)

(* A callback under way has scripts left to call, and a player to speak of *)
CallbackOk ==
  /\ pending.todo \subseteq scripts
  /\ pending # Quiet =>
       /\ pending.kind \in {"OnPlayerConnect", "OnPlayerDisconnect"}
       /\ pending.todo # {} /\ online[pending.id] # NoName

Typing == PlayersTypeOK /\ CallbackOk

Records == [kind : {"none", "OnPlayerConnect", "OnPlayerDisconnect"}, id : Ids, todo : SUBSET Scripts]

LEMMA QuietTyping == Quiet \in Records /\ 0 \in Ids
BY PlayersAssumption DEF Quiet, Records, Ids

LEMMA JoinTyping ==
  ASSUME NEW ids, PlayersTypeOK, online' \in [Ids -> Names \cup {NoName}],
         \A id \in ids : id \in Ids => online'[id] # NoName, Join(ids)
  PROVE  /\ g_iConnected' \in [Ids -> Int]
         /\ g_szPlayerNames' \in [Ids -> Names \cup Garbage]
         /\ g_iNPC' \in [Ids -> BOOLEAN]
<1>1. g_iConnected' \in [Ids -> Int]
  BY DEF Join, PlayersTypeOK
<1>2. g_szPlayerNames' \in [Ids -> Names \cup Garbage]
  BY DEF Join, PlayersTypeOK
<1>3. ASSUME NEW id \in Ids
      PROVE  (IF id \in ids THEN online'[id] \in Bots ELSE g_iNPC[id]) \in BOOLEAN
  <2>1. g_iNPC[id] \in BOOLEAN
    BY DEF PlayersTypeOK
  <2>2. CASE id \in ids
    BY <2>2
  <2>3. CASE id \notin ids
    BY <2>1, <2>3
  <2> QED
    BY <2>2, <2>3
<1>5. g_iNPC' \in [Ids -> BOOLEAN]
  BY <1>3, Zenon DEF Join
<1> QED
  BY <1>1, <1>2, <1>5

LEMMA LeaveTyping ==
  ASSUME NEW ids, PlayersTypeOK, Leave(ids)
  PROVE  /\ g_iConnected' \in [Ids -> Int]
         /\ g_szPlayerNames' \in [Ids -> Names \cup Garbage]
         /\ g_iNPC' \in [Ids -> BOOLEAN]
<1>1. g_iConnected' \in [Ids -> Int]
  BY DEF Leave, PlayersTypeOK
<1> QED
  BY <1>1 DEF Leave, PlayersTypeOK

LEMMA PlayersInitTyping == PlayersInit => Typing
<1> SUFFICES ASSUME PlayersInit PROVE Typing
  OBVIOUS
<1>1. pending \in Records
  BY QuietTyping DEF PlayersInit
<1>2. g_iConnected \in [Ids -> Int] /\ g_szPlayerNames \in [Ids -> Names \cup Garbage]
  BY DEF PlayersInit
<1>3. CallbackOk
  BY DEF PlayersInit, CallbackOk, Quiet
<1> QED
  BY <1>1, <1>2, <1>3 DEF PlayersInit, Typing, PlayersTypeOK, Records

LEMMA PlayersTypingStep == Typing /\ [PlayersNext]_playersVars => Typing'
<1> SUFFICES ASSUME Typing, [PlayersNext]_playersVars PROVE Typing'
  OBVIOUS
<1> USE DEF Typing
<1>1. ASSUME NEW sc \in Scripts, StartScript(sc) PROVE Typing'
  <2>5. uncounted' \in [Ids -> Nat]
    BY <1>1 DEF StartScript, PlayersTypeOK
  <2>1. online' \in [Ids -> Names \cup {NoName}]
    BY <1>1 DEF StartScript, PlayersTypeOK
  <2>2. \A id \in Here : online'[id] # NoName
    BY <1>1 DEF StartScript, Here
  <2>3. /\ g_iConnected' \in [Ids -> Int]
        /\ g_szPlayerNames' \in [Ids -> Names \cup Garbage]
        /\ g_iNPC' \in [Ids -> BOOLEAN]
    BY <1>1, <2>1, <2>2, JoinTyping, Zenon DEF StartScript
  <2>4. CallbackOk'
    BY <1>1 DEF StartScript, CallbackOk, Quiet
  <2> QED
    BY <1>1, <2>1, <2>3, <2>4, <2>5 DEF StartScript, PlayersTypeOK
<1>2. ASSUME NEW sc \in Scripts, StopScript(sc) PROVE Typing'
  <2>1. CallbackOk'
    BY <1>2 DEF StopScript, CallbackOk, Quiet
  <2> QED
    BY <1>2, <2>1, LeaveTyping DEF StopScript, PlayersTypeOK
<1>3. ASSUME NEW sc \in Scripts, Callback(sc) PROVE Typing'
  <2>1. pending # Quiet /\ pending \in Records /\ pending.id \in Ids
    BY <1>3 DEF Callback, PlayersTypeOK, Records, Quiet
  <2>2. pending' \in Records
    BY <1>3, <2>1, QuietTyping DEF Callback, Records
  <2>3. online' \in [Ids -> Names \cup {NoName}]
    BY <1>3 DEF Callback, PlayersTypeOK
  <2>4. CASE pending.kind = "OnPlayerConnect"
    <3>1. online' = online /\ online'[pending.id] # NoName
      BY <1>3, <2>1, <2>4 DEF Callback, CallbackOk
    <3>2. Join({pending.id})
      BY <1>3, <2>4 DEF Callback
    <3>3. \A id \in {pending.id} : id \in Ids => online'[id] # NoName
      BY <3>1
    <3>4. /\ g_iConnected' \in [Ids -> Int]
          /\ g_szPlayerNames' \in [Ids -> Names \cup Garbage]
          /\ g_iNPC' \in [Ids -> BOOLEAN]
      BY <2>3, <3>2, <3>3, JoinTyping
    <3>5. CallbackOk'
      BY <1>3, <2>1, <3>1 DEF Callback, CallbackOk, Quiet, Records
    <3> QED
      BY <1>3, <2>2, <2>3, <3>4, <3>5 DEF Callback, PlayersTypeOK, Records
  <2>5. CASE pending.kind = "OnPlayerDisconnect"
    <3>1. Leave({pending.id})
      BY <1>3, <2>5 DEF Callback
    <3>2. /\ g_iConnected' \in [Ids -> Int]
          /\ g_szPlayerNames' \in [Ids -> Names \cup Garbage]
          /\ g_iNPC' \in [Ids -> BOOLEAN]
      BY <3>1, LeaveTyping
    <3>3. CallbackOk'
      BY <1>3, <2>1, <2>5 DEF Callback, CallbackOk, Quiet, Records
    <3> QED
      BY <1>3, <2>2, <2>3, <3>2, <3>3 DEF Callback, PlayersTypeOK, Records
  <2> QED
    BY <2>1, <2>4, <2>5 DEF CallbackOk
<1>4. ASSUME NEW id \in Ids, NEW name \in Names, Connect(id, name) PROVE Typing'
  <2>1. pending' \in Records
    BY <1>4, QuietTyping DEF Connect, Records, PlayersTypeOK
  <2>2. name # NoName
    BY PlayersAssumption
  <2>3. online' \in [Ids -> Names \cup {NoName}] /\ online'[id] # NoName
    BY <1>4, <2>2 DEF Connect, PlayersTypeOK
  <2>4. CallbackOk'
    BY <1>4, <2>3 DEF Connect, CallbackOk, Quiet
  <2> QED
    BY <1>4, <2>1, <2>3, <2>4 DEF Connect, PlayersTypeOK, Records
<1>5. ASSUME NEW id \in Ids, Disconnect(id) PROVE Typing'
  <2>1. pending' \in Records
    BY <1>5, QuietTyping DEF Disconnect, Records, PlayersTypeOK
  <2>2. online' \in [Ids -> Names \cup {NoName}]
    BY <1>5 DEF Disconnect, PlayersTypeOK
  <2>3. CallbackOk'
    BY <1>5 DEF Disconnect, CallbackOk, Quiet
  <2> QED
    BY <1>5, <2>1, <2>2, <2>3 DEF Disconnect, PlayersTypeOK, Records
<1>6. ASSUME NEW id \in Ids, NEW name \in Names, SetPlayerName(id, name) PROVE Typing'
  <2>1. online' \in [Ids -> Names \cup {NoName}]
    BY <1>6 DEF SetPlayerName, PlayersTypeOK
  <2>2. \A j \in Ids : online[j] # NoName => online'[j] # NoName
    BY <1>6, PlayersAssumption DEF SetPlayerName, PlayersTypeOK
  <2>3. CallbackOk'
    BY <1>6, <2>2 DEF SetPlayerName, CallbackOk, PlayersTypeOK
  <2> QED
    BY <1>6, <2>1, <2>3 DEF SetPlayerName, PlayersTypeOK
<1>7. ASSUME NEW name \in Settable, NEW on \in BOOLEAN, SSCANF_Option(name, on) PROVE Typing'
  <2>1. gOptions' \subseteq Options
    BY <1>7, PlayersAssumption DEF SSCANF_Option, WithOption, PlayersTypeOK
  <2> QED
    BY <1>7, <2>1 DEF SSCANF_Option, players, PlayersTypeOK, CallbackOk
<1>8. CASE UNCHANGED playersVars
  BY <1>8 DEF playersVars, players, PlayersTypeOK, CallbackOk
<1> QED
  BY <1>1, <1>2, <1>3, <1>4, <1>5, <1>6, <1>7, <1>8 DEF PlayersNext

\* Every variable has its type, and no callback is left without a script to
\* call, for any number of players and scripts.
THEOREM PlayersTypesHold == PlayersSpec => []PlayersTypeOK
<1>1. Typing => PlayersTypeOK
  BY DEF Typing
<1> QED
  BY PlayersInitTyping, PlayersTypingStep, <1>1, PTL DEF PlayersSpec

-----------------------------------------------------------------------------
(* The counters.                                                           *)

(* Each call counts one script, and a start that finds the player known    *)
(* adds to what is told and to what is uncounted                           *)
Exact == Typing /\ CountIsExact

LEMMA ScriptsAreFinite ==
  ASSUME Typing
  PROVE  /\ IsFiniteSet(scripts) /\ IsFiniteSet(pending.todo)
         /\ \A id \in Ids : IsFiniteSet(Told(id)) /\ Told(id) \subseteq scripts
<1>1. IsFiniteSet(scripts)
  BY FS_Subset, PlayersAssumption DEF Typing, PlayersTypeOK
<1>2. pending.todo \subseteq scripts
  BY DEF Typing, CallbackOk
<1>3. IsFiniteSet(pending.todo)
  BY <1>1, <1>2, FS_Subset
<1>4. \A id \in Ids : Told(id) \subseteq scripts
  BY <1>2 DEF Told
<1> QED
  BY <1>1, <1>3, <1>4, FS_Subset

LEMMA PlayersInitExact == PlayersInit => Exact
<1> SUFFICES ASSUME PlayersInit PROVE CountIsExact
  BY PlayersInitTyping DEF Exact
<1>1. \A id \in Ids : Told(id) = {} /\ g_iConnected[id] = 0 /\ uncounted[id] = 0
  BY DEF PlayersInit, Told
<1> QED
  BY <1>1, FS_EmptySet DEF CountIsExact

Balances(id) == g_iConnected[id] = Cardinality(Told(id)) - uncounted[id]

\* A step that changes neither what is told of a player nor the counter.
LEMMA BalanceStays ==
  ASSUME NEW i, Balances(i), Told(i)' = Told(i), g_iConnected'[i] = g_iConnected[i], uncounted'[i] = uncounted[i]
  PROVE  Balances(i)'
BY DEF Balances

LEMMA CountStep ==
  ASSUME Exact, [PlayersNext]_playersVars
  PROVE  Exact'
<1> USE DEF Exact
<1>0. Typing'
  BY PlayersTypingStep
<1> SUFFICES ASSUME NEW i \in Ids PROVE Balances(i)'
  BY <1>0 DEF CountIsExact, Balances
<1>f. /\ g_iConnected[i] = Cardinality(Told(i)) - uncounted[i] /\ g_iConnected[i] \in Int
      /\ uncounted[i] \in Nat
  BY DEF CountIsExact, Typing, PlayersTypeOK
<1>b. Balances(i)
  BY <1>f DEF Balances
<1>g. IsFiniteSet(Told(i)) /\ Cardinality(Told(i)) \in Int
  BY ScriptsAreFinite, FS_CardinalityType
<1>1. ASSUME NEW sc \in Scripts, StartScript(sc) PROVE Balances(i)'
  <2> DEFINE known == {id \in Here : IsPlayerConnected(id)}
  <2>1. /\ online' = online /\ scripts' = scripts \cup {sc} /\ sc \notin scripts
        /\ pending.kind = "none" /\ pending' = pending
    BY <1>1 DEF StartScript, Quiet
  <2>2. /\ g_iConnected'[i] = g_iConnected[i] + IF i \in Here \ known THEN 1 ELSE 0
        /\ uncounted'[i] = uncounted[i] + IF i \in known THEN 1 ELSE 0
    BY <1>1 DEF StartScript, Join
  <2>3. CASE i \in Here
    <3>1. Told(i) = scripts /\ Told(i)' = scripts \cup {sc}
      BY <2>1, <2>3 DEF Told, Here
    <3>2. Cardinality(Told(i)') = Cardinality(Told(i)) + 1
      BY <1>g, <2>1, <3>1, FS_AddElement
    <3> HIDE DEF known
    <3> QED
      BY <1>f, <1>g, <2>2, <2>3, <3>2 DEF Balances
  <2>4. CASE i \notin Here
    <3>1. Told(i) = {} /\ Told(i)' = {}
      BY <2>1, <2>4 DEF Told, Here
    <3>2. g_iConnected'[i] = g_iConnected[i] /\ uncounted'[i] = uncounted[i]
      BY <1>f, <2>2, <2>4
    <3> QED
      BY <1>b, <3>1, <3>2, BalanceStays
  <2> QED
    BY <2>3, <2>4
<1>2. ASSUME NEW sc \in Scripts, StopScript(sc) PROVE Balances(i)'
  <2>1. CASE i \in Here
    <3>1. /\ online[i] # NoName /\ online' = online /\ pending.kind = "none" /\ pending' = pending
          /\ scripts' = scripts \ {sc}
      BY <1>2, <2>1 DEF StopScript, Here, Quiet
    <3>3. Told(i) = scripts /\ Told(i)' = scripts \ {sc}
      BY <3>1 DEF Told
    <3>2. g_iConnected'[i] = g_iConnected[i] - 1
      BY <1>2, <2>1 DEF StopScript, Leave
    <3>4. Cardinality(Told(i)') = Cardinality(Told(i)) - 1 /\ uncounted' = uncounted
      BY <1>2, <1>g, <3>3, FS_RemoveElement DEF StopScript
    <3> QED
      BY <1>f, <1>g, <3>2, <3>4 DEF Balances
  <2>2. CASE i \notin Here
    <3>1. Told(i) = {} /\ Told(i)' = {}
      BY <1>2, <2>2 DEF StopScript, Told, Here
    <3>2. g_iConnected'[i] = g_iConnected[i] /\ uncounted' = uncounted
      BY <1>2, <2>2, <1>f DEF StopScript, Leave
    <3> QED
      BY <1>b, <3>1, <3>2, BalanceStays
  <2> QED
    BY <2>1, <2>2
<1>3. ASSUME NEW sc \in Scripts, Callback(sc) PROVE Balances(i)'
  <2>1. /\ pending # Quiet /\ sc \in pending.todo /\ sc \in scripts /\ pending.todo \subseteq scripts
        /\ pending.id \in Ids /\ online[pending.id] # NoName /\ scripts' = scripts
    BY <1>3 DEF Callback, Quiet, Typing, CallbackOk, PlayersTypeOK
  <2>5. uncounted' = uncounted
    BY <1>3 DEF Callback
  <2>2. CASE i # pending.id
    <3>1. online'[i] = online[i]
      BY <1>3, <2>2 DEF Callback, Typing, PlayersTypeOK
    <3>2. pending'.kind # "none" => pending'.id # i
      BY <1>3, <2>2 DEF Callback, Typing, PlayersTypeOK, Quiet
    <3>5. pending.kind # "none" => pending.id # i
      BY <2>2
    <3>3. Told(i)' = Told(i)
      BY <2>1, <3>1, <3>2, <3>5 DEF Told
    <3>4. g_iConnected'[i] = g_iConnected[i]
      BY <1>3, <2>2, <1>f DEF Callback, Join, Leave
    <3> QED
      BY <1>b, <2>5, <3>3, <3>4, BalanceStays
  <2>3. CASE i = pending.id /\ pending.kind = "OnPlayerConnect"
    <3>1. Told(i) = scripts \ pending.todo
      BY <2>1, <2>3 DEF Told
    <3>2. online' = online
      BY <1>3, <2>3 DEF Callback
    <3>3. Told(i)' = Told(i) \cup {sc}
      <4>1. CASE pending.todo = {sc}
        <5>1. pending'.kind = "none"
          BY <1>3, <4>1 DEF Callback, Quiet
        <5>2. Told(i)' = scripts
          BY <2>1, <2>3, <3>2, <5>1 DEF Told
        <5> QED
          BY <2>1, <3>1, <4>1, <5>2
      <4>2. CASE pending.todo # {sc}
        <5>1. pending' = [pending EXCEPT !.todo = @ \ {sc}]
          BY <1>3, <4>2 DEF Callback
        <5>2. pending'.todo = pending.todo \ {sc} /\ pending'.id = i /\ pending'.kind = "OnPlayerConnect"
          BY <5>1, <2>3 DEF Typing, PlayersTypeOK
        <5>4. Told(i)' = scripts \ (pending.todo \ {sc})
          BY <2>1, <2>3, <3>2, <5>2 DEF Told
        <5> QED
          BY <2>1, <3>1, <5>4
      <4> QED
        BY <4>1, <4>2
    <3>4. g_iConnected'[i] = g_iConnected[i] + 1
      BY <1>3, <2>3 DEF Callback, Join
    <3>5. sc \notin Told(i)
      BY <2>1, <3>1
    <3>6. Cardinality(Told(i) \cup {sc}) = Cardinality(Told(i)) + 1
      BY <1>g, <3>5, FS_AddElement
    <3> QED
      BY <1>f, <1>g, <2>5, <3>3, <3>4, <3>6 DEF Balances
  <2>4. CASE i = pending.id /\ pending.kind = "OnPlayerDisconnect"
    <3>1. Told(i) = pending.todo
      BY <2>1, <2>4 DEF Told
    <3>2. Told(i)' = Told(i) \ {sc}
      <4>1. CASE pending.todo = {sc}
        <5>1. online'[i] = NoName
          BY <1>3, <2>4, <4>1 DEF Callback, Typing, PlayersTypeOK
        <5> QED
          BY <3>1, <4>1, <5>1 DEF Told
      <4>2. CASE pending.todo # {sc}
        <5>1. pending' = [pending EXCEPT !.todo = @ \ {sc}] /\ online' = online
          BY <1>3, <4>2 DEF Callback
        <5>2. pending'.todo = pending.todo \ {sc} /\ pending'.id = i /\ pending'.kind = "OnPlayerDisconnect"
          BY <5>1, <2>4 DEF Typing, PlayersTypeOK
        <5> QED
          BY <2>1, <2>4, <3>1, <5>1, <5>2 DEF Told
      <4> QED
        BY <4>1, <4>2
    <3>3. g_iConnected'[i] = g_iConnected[i] - 1
      BY <1>3, <2>4 DEF Callback, Leave
    <3>5. sc \in Told(i)
      BY <2>1, <3>1
    <3>4. Cardinality(Told(i) \ {sc}) = Cardinality(Told(i)) - 1
      BY <1>g, <3>5, FS_RemoveElement
    <3> QED
      BY <1>f, <1>g, <2>5, <3>2, <3>3, <3>4 DEF Balances
  <2> QED
    BY <2>1, <2>2, <2>3, <2>4 DEF Typing, CallbackOk
<1>4. ASSUME NEW id \in Ids, NEW name \in Names, Connect(id, name)
      PROVE Balances(i)'
  <2>1. g_iConnected' = g_iConnected /\ uncounted' = uncounted
    BY <1>4 DEF Connect
  <2>2. Told(i)' = Told(i)
    <3>1. CASE i = id
      BY <1>4, <3>1 DEF Connect, Told, Quiet, Typing, PlayersTypeOK
    <3>2. CASE i # id
      BY <1>4, <3>2 DEF Connect, Told, Quiet, Typing, PlayersTypeOK
    <3> QED
      BY <3>1, <3>2
  <2> QED
    BY <1>b, <2>1, <2>2, BalanceStays
<1>5. ASSUME NEW id \in Ids, Disconnect(id) PROVE Balances(i)'
  <2>1. g_iConnected' = g_iConnected /\ uncounted' = uncounted
    BY <1>5 DEF Disconnect
  <2>2. Told(i)' = Told(i)
    <3>1. CASE i = id
      BY <1>5, <3>1 DEF Disconnect, Told, Quiet, Typing, PlayersTypeOK
    <3>2. CASE i # id
      BY <1>5, <3>2 DEF Disconnect, Told, Quiet, Typing, PlayersTypeOK
    <3> QED
      BY <3>1, <3>2
  <2> QED
    BY <1>b, <2>1, <2>2, BalanceStays
<1>6. ASSUME NEW id \in Ids, NEW name \in Names, SetPlayerName(id, name)
      PROVE Balances(i)'
  <2>1. online[i] = NoName <=> online'[i] = NoName
    BY <1>6, PlayersAssumption DEF SetPlayerName, Typing, PlayersTypeOK
  <2>2. Told(i)' = Told(i)
    BY <1>6, <2>1 DEF SetPlayerName, Told
  <2> QED
    BY <1>6, <1>b, <2>2, BalanceStays DEF SetPlayerName
<1>7. ASSUME NEW name \in Settable, NEW on \in BOOLEAN, SSCANF_Option(name, on)
      PROVE Balances(i)'
  BY <1>7, <1>b DEF SSCANF_Option, players, Told, Balances
<1>8. CASE UNCHANGED playersVars
  BY <1>8, <1>b DEF playersVars, players, Told, Balances
<1> QED
  BY <1>1, <1>2, <1>3, <1>4, <1>5, <1>6, <1>7, <1>8 DEF PlayersNext

LEMMA ConnectedAreTold ==
  ASSUME Exact, NEW id \in Ids, uncounted[id] = 0
  PROVE  IsPlayerConnected(id) <=> Told(id) # {}
<1>1. IsFiniteSet(Told(id)) /\ Cardinality(Told(id)) \in Nat
  BY ScriptsAreFinite, FS_CardinalityType DEF Exact
<1>2. g_iConnected[id] = Cardinality(Told(id))
  BY <1>1 DEF Exact, CountIsExact
<1> QED
  BY <1>1, <1>2, FS_EmptySet DEF IsPlayerConnected

LEMMA CountedAreKnown ==
  ASSUME Exact
  PROVE  KnowsTheCounted
<1> SUFFICES ASSUME pending = Quiet, scripts # {}, NEW id \in Ids, uncounted[id] = 0
             PROVE  IsPlayerConnected(id) <=> online[id] # NoName
  BY DEF KnowsTheCounted, Known
<1>1. Told(id) # {} <=> online[id] # NoName
  BY DEF Told, Quiet
<1> QED
  BY <1>1, ConnectedAreTold

\* Whatever scripts start and end, on an empty server or while players are online:
\* the counter of a player is at every point of the callbacks the number of running
\* scripts that will say goodbye to the player, less the starts that found the player
\* known and did not count; and in the slots without such a start the plugin knows,
\* between callbacks, exactly those who are online.
THEOREM CountsAreExact == PlayersSpec => []PlayersAreKnown
<1>1. PlayersInit => Exact
  BY PlayersInitExact
<1>2. Exact /\ [PlayersNext]_playersVars => Exact'
  BY CountStep
<1>3. Exact => PlayersAreKnown
  BY CountedAreKnown DEF Exact, PlayersAreKnown
<1> QED
  BY <1>1, <1>2, <1>3, PTL DEF PlayersSpec

-----------------------------------------------------------------------------
(* Lookups.                                                                *)

(* The kind of those who are connected is known *)
KindsAreKnown == \A id \in Ids : uncounted[id] = 0 /\ Told(id) # {} => (g_iNPC[id] <=> online[id] \in Bots)

LEMMA ToldAreOnline == \A id : Told(id) # {} => online[id] # NoName
BY DEF Told

LEMMA JoinedKinds ==
  ASSUME NEW ids, Typing, Join(ids), NEW id \in Ids
  PROVE  g_iNPC'[id] = IF id \in ids THEN online'[id] \in Bots ELSE g_iNPC[id]
BY DEF Join

LEMMA KindsStep ==
  ASSUME Typing, KindsAreKnown, [PlayersNext]_playersVars
  PROVE  KindsAreKnown'
<1> SUFFICES ASSUME NEW i \in Ids, uncounted'[i] = 0, Told(i)' # {}
             PROVE  (g_iNPC[i] <=> online[i] \in Bots)'
  BY DEF KindsAreKnown
<1>o. online'[i] # NoName
  BY DEF Told
<1>k. uncounted[i] = 0 /\ Told(i) # {} => (g_iNPC[i] <=> online[i] \in Bots)
  BY DEF KindsAreKnown
<1>1. ASSUME NEW sc \in Scripts, StartScript(sc) PROVE (g_iNPC[i] <=> online[i] \in Bots)'
  <2> DEFINE known == {id \in Here : IsPlayerConnected(id)}
  <2>1. online' = online /\ i \in Here
    BY <1>1, <1>o DEF StartScript, Here
  <2>2. uncounted[i] \in Nat /\ uncounted'[i] = uncounted[i] + IF i \in known THEN 1 ELSE 0
    BY <1>1 DEF StartScript, Typing, PlayersTypeOK
  <2>3. i \notin known
    <3> HIDE DEF known
    <3> QED
      BY <2>2
  <2>4. Join(Here \ known)
    BY <1>1, Zenon DEF StartScript
  <2> HIDE DEF known
  <2> QED
    BY <2>1, <2>3, <2>4 DEF Join
<1>2. ASSUME NEW sc \in Scripts, StopScript(sc) PROVE (g_iNPC[i] <=> online[i] \in Bots)'
  <2>u. uncounted' = uncounted
    BY <1>2 DEF StopScript
  <2>1. online' = online /\ g_iNPC' = g_iNPC /\ pending' = pending /\ scripts' \subseteq scripts
    BY <1>2 DEF StopScript, Leave
  <2>2. Told(i)' \subseteq Told(i)
    BY <2>1 DEF Told
  <2> QED
    BY <1>k, <2>u, <2>1, <2>2
<1>3. ASSUME NEW sc \in Scripts, Callback(sc) PROVE (g_iNPC[i] <=> online[i] \in Bots)'
  <2>u. uncounted' = uncounted
    BY <1>3 DEF Callback
  <2>1. /\ pending # Quiet /\ sc \in pending.todo /\ scripts' = scripts
        /\ pending.kind \in {"OnPlayerConnect", "OnPlayerDisconnect"}
        /\ pending.id \in Ids
    BY <1>3 DEF Callback, Quiet, Typing, CallbackOk, PlayersTypeOK
  <2>2. online'[i] = online[i]
    BY <1>3, <1>o DEF Callback, Typing, PlayersTypeOK
  <2>3. CASE i = pending.id /\ pending.kind = "OnPlayerConnect"
    <3>1. Join({pending.id})
      BY <1>3, <2>3 DEF Callback
    <3> QED
      BY <2>3, <3>1 DEF Join
  <2>4. CASE i # pending.id
    <3>1. g_iNPC'[i] = g_iNPC[i]
      BY <1>3, <2>4 DEF Callback, Join, Leave
    <3>2. pending'.kind # "none" => pending'.id # i
      BY <1>3, <2>4 DEF Callback, Typing, PlayersTypeOK, Quiet
    <3>3. Told(i)' = Told(i)
      BY <2>1, <2>2, <2>4, <3>2 DEF Told
    <3> QED
      BY <1>k, <2>u, <2>2, <3>1, <3>3
  <2>5. CASE i = pending.id /\ pending.kind = "OnPlayerDisconnect"
    <3>1. g_iNPC'[i] = g_iNPC[i]
      BY <1>3, <2>5 DEF Callback, Leave
    <3>2. Told(i) # {}
      <4>1. sc \in scripts /\ online[i] # NoName
        BY <1>o, <2>1, <2>2 DEF Typing, CallbackOk
      <4> QED
        BY <2>1, <2>5, <4>1 DEF Told
    <3> QED
      BY <1>k, <2>u, <2>2, <3>1, <3>2
  <2> QED
    BY <2>1, <2>3, <2>4, <2>5
<1>4. ASSUME NEW id \in Ids, NEW name \in Names, Connect(id, name)
      PROVE  (g_iNPC[i] <=> online[i] \in Bots)'
  <2>1. CASE i = id
    <3>1. Told(i)' = {}
      BY <1>4, <2>1 DEF Connect, Told, Quiet
    <3> QED
      BY <3>1
  <2>2. CASE i # id
    <3>1. /\ online'[i] = online[i] /\ g_iNPC'[i] = g_iNPC[i] /\ pending.kind = "none"
          /\ pending'.kind # "none" => pending'.id # i
          /\ scripts' = scripts /\ uncounted' = uncounted
      BY <1>4, <2>2 DEF Connect, Quiet, Typing, PlayersTypeOK
    <3>2. Told(i)' = Told(i)
      BY <3>1 DEF Told
    <3> QED
      BY <1>k, <3>1, <3>2
  <2> QED
    BY <2>1, <2>2
<1>5. ASSUME NEW id \in Ids, Disconnect(id) PROVE (g_iNPC[i] <=> online[i] \in Bots)'
  <2>1. /\ online'[i] = online[i] /\ g_iNPC'[i] = g_iNPC[i] /\ pending.kind = "none" /\ scripts' = scripts
        /\ uncounted' = uncounted
    BY <1>5, <1>o DEF Disconnect, Quiet, Typing, PlayersTypeOK
  <2>2. Told(i) # {}
    BY <1>o, <2>1 DEF Told
  <2> QED
    BY <1>k, <2>1, <2>2
<1>6. ASSUME NEW id \in Ids, NEW name \in Names, SetPlayerName(id, name)
      PROVE  (g_iNPC[i] <=> online[i] \in Bots)'
  <2>1. /\ online[i] # NoName /\ g_iNPC'[i] = g_iNPC[i] /\ pending' = pending /\ scripts' = scripts
        /\ online'[i] \in Bots <=> online[i] \in Bots
        /\ uncounted' = uncounted
    BY <1>6, <1>o DEF SetPlayerName, Typing, PlayersTypeOK
  <2>2. Told(i)' = Told(i)
    BY <1>o, <2>1 DEF Told
  <2> QED
    BY <1>k, <2>1, <2>2
<1>7. CASE UNCHANGED players
  BY <1>7, <1>k DEF players, Told
<1>8. ASSUME NEW name \in Settable, NEW on \in BOOLEAN, SSCANF_Option(name, on) PROVE UNCHANGED players
  BY <1>8 DEF SSCANF_Option
<1> QED
  BY <1>1, <1>2, <1>3, <1>4, <1>5, <1>6, <1>7, <1>8 DEF PlayersNext, playersVars

(* A player whom a search may give *)
Found(sp, id) == id \in Ids /\ Eligible(sp, id)
ByNumber(sp, user) == user.v < g_iTrueMax /\ user.v \in Ids /\ Eligible(sp, user.v)

\* A search gives the player of the number, or one from start on, or none; several
\* only where the option asks for that.
LEMMA UserIsFound ==
  ASSUME Typing, NEW sp, NEW options, NEW user, NEW start \in Nat
  PROVE  LET d == DoUser(sp, options, user, start)
         IN  /\ d.by \in BOOLEAN /\ (d.by <=> ~ByNumber(sp, user))
             /\ \/ Found(sp, d.v) /\ (d.by => start <= d.v)
                \/ d.v = INVALID
                \/ d.v = CELLMIN /\ "CELLMIN_ON_MATCHES" \in options
<1> DEFINE d == DoUser(sp, options, user, start)
           hits == Hits(sp, options, user.word, start)
           first == CHOOSE id \in hits : \A j \in hits : id <= j
<1>1. CASE ByNumber(sp, user)
  <2>1. d = [by |-> FALSE, v |-> user.v]
    BY <1>1 DEF DoUser, ByNumber
  <2> QED
    BY <1>1, <2>1 DEF ByNumber, Found
<1>2. CASE ~ByNumber(sp, user)
  <2>1. d = [by |-> TRUE,
             v |-> CASE hits = {} -> INVALID
                     [] "CELLMIN_ON_MATCHES" \in options /\ Cardinality(hits) > 1 -> CELLMIN
                     [] OTHER -> first]
    BY <1>2 DEF DoUser, ByNumber
  <2>2. \A id \in hits : Found(sp, id) /\ start <= id
    BY PlayersAssumption DEF Hits, Found, Ids, Typing, PlayersTypeOK
  <2>3. hits # {} => first \in hits
    <3>1. hits \in SUBSET Nat
      BY PlayersAssumption, <2>2 DEF Found, Ids
    <3> HIDE DEF hits
    <3> QED
      BY <3>1, Least
  <2> HIDE DEF hits, first
  <2> QED
    BY <1>2, <2>1, <2>2, <2>3
<1> QED
  BY <1>1, <1>2

\* Between two callbacks or in the middle of them: whom a lookup gives is online.
LEMMA FoundAreOnline ==
  ASSUME Exact, KindsAreKnown, NEW sp, NEW id \in Ids, Eligible(sp, id), uncounted[id] = 0
  PROVE  /\ online[id] # NoName
         /\ sp = "q" => online[id] \in Bots
         /\ sp = "r" => online[id] \notin Bots
<1>1. IsPlayerConnected(id) /\ Told(id) # {}
  BY ConnectedAreTold DEF Eligible
<1> QED
  BY <1>1, ToldAreOnline DEF Eligible, KindsAreKnown

LEMMA LookupsFind == ASSUME Exact, KindsAreKnown PROVE FoundIsOnline
<1> SUFFICES ASSUME NEW sp \in {"u", "q", "r"}, NEW user,
                    DoUser(sp, gOptions, user, 0).v \in Ids,
                    uncounted[DoUser(sp, gOptions, user, 0).v] = 0
             PROVE  LET v == DoUser(sp, gOptions, user, 0).v
                    IN  /\ online[v] # NoName
                        /\ sp = "q" => online[v] \in Bots
                        /\ sp = "r" => online[v] \notin Bots
  BY Zenon DEF FoundIsOnline
<1>1. DoUser(sp, gOptions, user, 0).v \notin {INVALID, CELLMIN} /\ 0 \in Nat
  BY PlayersAssumption
<1>2. Found(sp, DoUser(sp, gOptions, user, 0).v)
  BY <1>1, UserIsFound DEF Exact
<1> QED
  BY <1>2, FoundAreOnline DEF Found

(***************************************************************************)
(* Lists.  What the loop of u[len] does in its turn k, and what it has     *)
(* gathered after k turns: each match was found after the one before it,   *)
(* and it ends early only with INVALID.                                    *)
(***************************************************************************)
Search(options) == options \ {"CELLMIN_ON_MATCHES"}

Gathering == [b : Ids \cup {-1, INVALID}, ids : Seq(Ids)]

Turn(sp, options, user, a) ==
  LET r == DoUser(sp, Search(options), user, a.b + 1)
  IN  IF a.b = INVALID THEN a
      ELSE IF ~r.by THEN [b |-> INVALID, ids |-> Append(a.ids, r.v)]
      ELSE IF r.v = INVALID THEN [a EXCEPT !.b = INVALID]
      ELSE [b |-> r.v, ids |-> Append(a.ids, r.v)]

InOrder(sp, ids) ==
  \A i \in 1..Len(ids) : Found(sp, ids[i]) /\ \A j \in 1..i - 1 : ids[j] < ids[i]

Gathered(sp, user, k, a) ==
  /\ Len(a.ids) <= k /\ InOrder(sp, a.ids)
  /\ a.b # INVALID =>
       /\ Len(a.ids) = k
       /\ k = 0 => a.b = -1
       /\ k > 0 => a.b = a.ids[k] /\ ~ByNumber(sp, user)

\* One more match, after all the others, keeps them in order.
LEMMA OneMore ==
  ASSUME NEW sp, NEW ids \in Seq(Ids), InOrder(sp, ids), NEW v, Found(sp, v),
         Len(ids) > 0 => ids[Len(ids)] < v
  PROVE  Append(ids, v) \in Seq(Ids) /\ Len(Append(ids, v)) = Len(ids) + 1 /\ InOrder(sp, Append(ids, v))
<1> DEFINE more == Append(ids, v)
<1>1. /\ v \in Ids /\ Len(ids) \in Nat /\ \A i \in 1..Len(ids) : ids[i] \in Ids
      /\ \A i \in Ids : i \in Nat
  BY PlayersAssumption DEF Found, Ids
<1>2. /\ more \in Seq(Ids) /\ Len(more) = Len(ids) + 1 /\ more[Len(ids) + 1] = v
      /\ \A i \in 1..Len(ids) : more[i] = ids[i]
  BY <1>1
<1> HIDE DEF more
<1>3. ASSUME NEW i \in 1..Len(more) PROVE Found(sp, more[i]) /\ \A j \in 1..i - 1 : more[j] < more[i]
  <2>1. CASE i = Len(ids) + 1
    <3>1. ASSUME NEW j \in 1..i - 1 PROVE more[j] < v
      <4>1. j \in 1..Len(ids) /\ more[j] = ids[j] /\ Len(ids) \in 1..Len(ids)
        BY <1>1, <1>2, <2>1
      <4>2. ids[j] \in Nat /\ ids[Len(ids)] \in Nat /\ v \in Nat
        BY <1>1, <4>1
      <4>3. ids[j] <= ids[Len(ids)]
        <5>1. CASE j = Len(ids)
          BY <4>2, <5>1
        <5>2. CASE j # Len(ids)
          <6>1. j \in 1..Len(ids) - 1
            BY <1>1, <4>1, <5>2
          <6>2. ids[j] < ids[Len(ids)]
            BY <4>1, <6>1 DEF InOrder
          <6> QED
            BY <4>2, <6>2
        <5> QED
          BY <5>1, <5>2
      <4>4. ids[Len(ids)] < v
        BY <1>1, <4>1
      <4> QED
        BY <4>1, <4>2, <4>3, <4>4
    <3> QED
      BY <1>2, <2>1, <3>1
  <2>2. CASE i # Len(ids) + 1
    <3>1. i \in 1..Len(ids) /\ \A j \in 1..i - 1 : j \in 1..Len(ids)
      BY <1>1, <1>2, <2>2
    <3> QED
      BY <1>2, <3>1 DEF InOrder
  <2> QED
    BY <2>1, <2>2
<1>4. InOrder(sp, more)
  BY <1>3 DEF InOrder
<1> QED
  BY <1>2, <1>4 DEF more

LEMMA TurnTyped ==
  ASSUME Typing, NEW sp, NEW options, NEW user, NEW a \in Gathering
  PROVE  Turn(sp, options, user, a) \in Gathering
<1>1. a.b \in Ids \cup {-1, INVALID} /\ a.ids \in Seq(Ids) /\ a = [b |-> a.b, ids |-> a.ids]
  BY DEF Gathering
<1>2. CASE a.b = INVALID
  BY <1>2 DEF Turn
<1>3. CASE a.b # INVALID
  <2>1. a.b + 1 \in Nat
    BY <1>1, <1>3, PlayersAssumption DEF Ids
  <2>2. PICK r : r = DoUser(sp, Search(options), user, a.b + 1)
    OBVIOUS
  <2>3. Found(sp, r.v) \/ r.v = INVALID
    BY <2>1, <2>2, UserIsFound DEF Search
  <2>4. ~r.by => Found(sp, r.v)
    BY <2>1, <2>2, UserIsFound DEF ByNumber, Found, DoUser
  <2>5. Found(sp, r.v) => Append(a.ids, r.v) \in Seq(Ids)
    BY <1>1 DEF Found
  <2>6. Turn(sp, options, user, a) =
          IF ~r.by THEN [b |-> INVALID, ids |-> Append(a.ids, r.v)]
          ELSE IF r.v = INVALID THEN [a EXCEPT !.b = INVALID]
          ELSE [b |-> r.v, ids |-> Append(a.ids, r.v)]
    BY <1>3, <2>2 DEF Turn
  <2>7. Found(sp, r.v) => r.v \in Ids
    BY DEF Found
  <2> QED
    BY <1>1, <2>3, <2>4, <2>5, <2>6, <2>7 DEF Gathering
<1> QED
  BY <1>2, <1>3

LEMMA TurnGathers ==
  ASSUME Typing, NEW sp, NEW options, NEW user, NEW k \in Nat, NEW a \in Gathering,
         Gathered(sp, user, k, a)
  PROVE  Gathered(sp, user, k + 1, Turn(sp, options, user, a))
<1> DEFINE c == Turn(sp, options, user, a)
<1>1. a.b \in Ids \cup {-1, INVALID} /\ a.ids \in Seq(Ids) /\ Len(a.ids) \in Nat
  BY DEF Gathering
<1>2. CASE a.b = INVALID
  <2>1. c = a
    BY <1>2 DEF Turn
  <2> QED
    BY <1>1, <1>2, <2>1 DEF Gathered
<1>3. CASE a.b # INVALID
  <2>1. a.b + 1 \in Nat /\ a.b \in Int
    BY <1>1, <1>3, PlayersAssumption DEF Ids
  <2>2. PICK r : r = DoUser(sp, Search(options), user, a.b + 1)
    OBVIOUS
  <2>3. /\ r.by <=> ~ByNumber(sp, user)
        /\ (Found(sp, r.v) /\ (r.by => a.b + 1 <= r.v)) \/ r.v = INVALID
    BY <2>1, <2>2, UserIsFound DEF Search
  <2>4. ~r.by => Found(sp, r.v)
    BY <2>1, <2>2, UserIsFound DEF ByNumber, Found, DoUser
  <2>5. /\ Len(a.ids) = k /\ InOrder(sp, a.ids)
        /\ k = 0 => a.b = -1
        /\ k > 0 => a.b = a.ids[k] /\ ~ByNumber(sp, user)
    BY <1>3 DEF Gathered
  <2>6. c = IF ~r.by THEN [b |-> INVALID, ids |-> Append(a.ids, r.v)]
            ELSE IF r.v = INVALID THEN [a EXCEPT !.b = INVALID]
            ELSE [b |-> r.v, ids |-> Append(a.ids, r.v)]
    BY <1>3, <2>2 DEF Turn
  <2>7. \A i \in Ids : i \in Nat /\ i # INVALID
    BY PlayersAssumption DEF Ids
  <2> HIDE DEF c
  <2>8. ASSUME ~r.by \/ r.v # INVALID
        PROVE  /\ Append(a.ids, r.v) \in Seq(Ids) /\ Len(Append(a.ids, r.v)) = k + 1
               /\ InOrder(sp, Append(a.ids, r.v)) /\ Append(a.ids, r.v)[k + 1] = r.v
    <3>1. Found(sp, r.v) /\ r.v \in Ids
      BY <2>3, <2>4, <2>8 DEF Found
    <3>2. Len(a.ids) > 0 => a.ids[Len(a.ids)] < r.v
      <4> SUFFICES ASSUME k > 0 PROVE a.ids[k] < r.v
        BY <2>5
      <4>1. r.by /\ a.b + 1 <= r.v /\ a.b = a.ids[k]
        BY <2>3, <2>5, <2>7, <3>1
      <4> QED
        BY <2>1, <2>7, <3>1, <4>1
    <3>3. Append(a.ids, r.v)[k + 1] = r.v
      BY <1>1, <2>5, <3>1
    <3> QED
      BY <1>1, <2>5, <3>1, <3>2, <3>3, OneMore
  <2>9. CASE ~r.by
    <3>1. c.b = INVALID /\ c.ids = Append(a.ids, r.v)
      BY <2>6, <2>9
    <3>2. Len(c.ids) <= k + 1 /\ InOrder(sp, c.ids)
      BY <2>8, <2>9, <3>1
    <3> QED
      BY <3>1, <3>2 DEF Gathered, c
  <2>10. CASE r.by /\ r.v = INVALID
    <3>1. c.b = INVALID /\ c.ids = a.ids
      BY <2>6, <2>10 DEF Gathering
    <3>2. Len(c.ids) <= k + 1 /\ InOrder(sp, c.ids)
      BY <2>5, <3>1
    <3> QED
      BY <3>1, <3>2 DEF Gathered, c
  <2>11. CASE r.by /\ r.v # INVALID
    <3>1. c.b = r.v /\ c.ids = Append(a.ids, r.v)
      BY <2>6, <2>11
    <3>2. Len(c.ids) = k + 1 /\ InOrder(sp, c.ids) /\ c.ids[k + 1] = r.v
      BY <2>8, <2>11, <3>1
    <3>3. k + 1 > 0 /\ k + 1 # 0 /\ ~ByNumber(sp, user) /\ k + 1 <= k + 1
      BY <2>3, <2>11
    <3> QED
      BY <3>1, <3>2, <3>3 DEF Gathered, c
  <2> QED
    BY <2>9, <2>10, <2>11
<1> QED
  BY <1>2, <1>3

\* What the loop comes to.
LEMMA LoopGathers ==
  ASSUME Typing, NEW sp, NEW options, NEW user, NEW len \in Nat, len >= 2
  PROVE  \E a \in Gathering :
           /\ Gathered(sp, user, len - 1, a)
           /\ UserList(sp, options, user, len) =
                Append(a.ids, IF a.b # INVALID /\ DoUser(sp, Search(options), user, a.b + 1).v # INVALID
                              THEN CELLMIN ELSE INVALID)
<1> DEFINE n == len - 1
           base == [b |-> -1, ids |-> <<>>]
           seq == [k \in 1..n |-> k]
           indices == 1..n
           op == [p \in Gathering \X indices |-> Turn(sp, options, user, p[1])]
           Solves(iter) ==
             iter = [ks \in SUBSET (1..n) |->
                       IF ks = {} THEN base ELSE Turn(sp, options, user, iter[ks \ {Max(ks)}])]
           fold == CHOOSE iter : Solves(iter)
<1>0. n \in Nat
  OBVIOUS
<1>1. UserList(sp, options, user, len) =
        Append(fold[1..n].ids, IF fold[1..n].b # INVALID
                                  /\ DoUser(sp, Search(options), user, fold[1..n].b + 1).v # INVALID
                               THEN CELLMIN ELSE INVALID)
  <2>1. DOMAIN seq = 1..n
    OBVIOUS
  <2> QED
    BY <2>1 DEF UserList, FoldLeft, MapThenFoldSet, Turn, Search
<1>2. base \in Gathering /\ \A k \in 1..n : seq[k] \in indices
  BY DEF Gathering
<1> HIDE DEF base
<1>3. \A a \in Gathering, i \in indices : op[<<a, i>>] = Turn(sp, options, user, a)
  OBVIOUS
<1>4. \A a \in Gathering, i \in indices : op[<<a, i>>] \in Gathering
  BY <1>3, TurnTyped
<1> HIDE DEF n, seq, op, indices
<1>6. PICK g \in [SUBSET (1..n) -> Gathering] : Folds(g, base, op, seq, n)
  BY <1>0, <1>2, <1>4, FoldExists
<1>7. Solves(g)
  <2>1. ASSUME NEW ks \in SUBSET (1..n), ks # {}
        PROVE  op[<<g[ks \ {Max(ks)}], seq[Max(ks)]>>] = Turn(sp, options, user, g[ks \ {Max(ks)}])
    <3>1. Max(ks) \in 1..n
      BY <1>0, <2>1, Largest
    <3>2. seq[Max(ks)] \in indices /\ g[ks \ {Max(ks)}] \in Gathering
      BY <1>2, <1>6, <3>1
    <3> QED
      BY <1>3, <3>2
  <2>2. \A ks \in SUBSET (1..n) :
          g[ks] = IF ks = {} THEN base ELSE Turn(sp, options, user, g[ks \ {Max(ks)}])
    BY <1>6, <2>1 DEF Folds
  <2> QED
    BY <2>2
<1>8. Solves(fold)
  <2> HIDE DEF Solves
  <2> QED
    BY <1>7
<1> HIDE DEF fold
<1>9. fold[{}] = base
  BY <1>8
<1>10. ASSUME NEW k \in 1..n PROVE fold[1..k] = Turn(sp, options, user, fold[1..(k - 1)])
  <2>1. 1..k \in SUBSET (1..n) /\ 1..k # {} /\ Max(1..k) = k /\ (1..k) \ {k} = 1..(k - 1)
    BY <1>0, UpTo
  <2> QED
    BY <1>8, <2>1
<1> HIDE DEF Solves
<1> DEFINE Good == {k \in Nat : k <= n => fold[1..k] \in Gathering /\ Gathered(sp, user, k, fold[1..k])}
<1>11. Good = Nat
  <2>1. 0 \in Good
    <3>1. 1..0 = {}
      OBVIOUS
    <3>2. fold[1..0] \in Gathering
      BY <1>2, <1>9, <3>1
    <3>3. Gathered(sp, user, 0, base)
      BY DEF Gathered, InOrder, base
    <3> QED
      BY <1>9, <3>1, <3>2, <3>3
  <2>2. ASSUME NEW k \in Good PROVE k + 1 \in Good
    <3> SUFFICES ASSUME k + 1 <= n
                 PROVE  fold[1..(k + 1)] \in Gathering /\ Gathered(sp, user, k + 1, fold[1..(k + 1)])
      OBVIOUS
    <3>1. k \in Nat /\ k + 1 \in 1..n /\ (k + 1) - 1 = k /\ k <= n
      BY <1>0
    <3>2. fold[1..k] \in Gathering /\ Gathered(sp, user, k, fold[1..k])
      BY <3>1
    <3>3. fold[1..(k + 1)] = Turn(sp, options, user, fold[1..k])
      BY <1>10, <3>1
    <3> HIDE DEF Good
    <3> QED
      BY <3>1, <3>2, <3>3, TurnTyped, TurnGathers
  <2>3. Good \in SUBSET Nat
    OBVIOUS
  <2>4. \A k \in Good : k + 1 \in Good
    BY <2>2
  <2> HIDE DEF Good
  <2> QED
    BY <2>1, <2>3, <2>4, Induct
<1>12. fold[1..n] \in Gathering /\ Gathered(sp, user, n, fold[1..n])
  BY <1>0, <1>11
<1> QED
  BY <1>1, <1>12 DEF n

LEMMA ListsAreSound ==
  ASSUME Typing, NEW sp, NEW options, NEW user, NEW len \in 2..MaxPlayers + 1
  PROVE  LET list == UserList(sp, options, user, len)
             last == Len(list)
         IN  /\ last \in 1..len /\ list[last] \in {INVALID, CELLMIN}
             /\ \A i \in 1..last - 1 : /\ list[i] \in Ids /\ Eligible(sp, list[i])
                                      /\ \A j \in 1..i - 1 : list[j] < list[i]
             /\ list[last] = CELLMIN => last = len
<1> DEFINE list == UserList(sp, options, user, len)
<1>0. len \in Nat /\ len >= 2
  BY PlayersAssumption
<1>1. PICK a \in Gathering :
        /\ Gathered(sp, user, len - 1, a)
        /\ list = Append(a.ids, IF a.b # INVALID /\ DoUser(sp, Search(options), user, a.b + 1).v # INVALID
                                THEN CELLMIN ELSE INVALID)
  BY <1>0, LoopGathers
<1>2. PICK end : /\ list = Append(a.ids, end) /\ end \in {INVALID, CELLMIN}
                 /\ end = CELLMIN => a.b # INVALID
  BY <1>1, PlayersAssumption
<1> HIDE DEF list
<1>3. a.ids \in Seq(Ids) /\ Len(a.ids) \in Nat /\ Len(a.ids) <= len - 1
  BY <1>1 DEF Gathering, Gathered
<1>4. /\ Len(list) = Len(a.ids) + 1 /\ list[Len(list)] = end
      /\ \A i \in 1..Len(a.ids) : list[i] = a.ids[i]
  BY <1>2, <1>3
<1>5. \A i \in 1..Len(a.ids) : Found(sp, a.ids[i]) /\ \A j \in 1..i - 1 : a.ids[j] < a.ids[i]
  BY <1>1 DEF Gathered, InOrder
<1>6. \A i \in 1..Len(list) - 1 : /\ list[i] \in Ids /\ Eligible(sp, list[i])
                                 /\ \A j \in 1..i - 1 : list[j] < list[i]
  <2> SUFFICES ASSUME NEW i \in 1..Len(list) - 1
               PROVE  Found(sp, list[i]) /\ \A j \in 1..i - 1 : list[j] < list[i]
    BY DEF Found
  <2>1. i \in 1..Len(a.ids) /\ \A j \in 1..i - 1 : j \in 1..Len(a.ids)
    BY <1>3, <1>4
  <2> QED
    BY <1>4, <1>5, <2>1
<1>7. end = CELLMIN => Len(list) = len
  BY <1>0, <1>1, <1>2, <1>4 DEF Gathered
<1>8. Len(list) \in 1..len
  BY <1>0, <1>3, <1>4
<1> QED
  BY <1>2, <1>4, <1>6, <1>7, <1>8 DEF list

\* At every point of the callbacks, whatever scripts start and end: whoever a lookup
\* gives from a slot where no start went uncounted is online and of the kind that was
\* asked for; and a list never overflows, has each match once and in order, and says
\* at its end whether there are more.
THEOREM LookupsHold == PlayersSpec => []LookupsAreSound
<1>1. PlayersInit => Exact /\ KindsAreKnown
  <2>1. PlayersInit => KindsAreKnown
    BY DEF PlayersInit, KindsAreKnown, Told
  <2> QED
    BY <2>1, PlayersInitExact
<1>2. Exact /\ KindsAreKnown /\ [PlayersNext]_playersVars => Exact' /\ KindsAreKnown'
  BY CountStep, KindsStep DEF Exact
<1>3. Exact /\ KindsAreKnown => LookupsAreSound
  <2> SUFFICES ASSUME Exact, KindsAreKnown PROVE LookupsAreSound
    OBVIOUS
  <2>1. ListIsSound
    BY ListsAreSound, Zenon DEF Exact, ListIsSound
  <2> QED
    BY <2>1, LookupsFind DEF LookupsAreSound
<1> QED
  BY <1>1, <1>2, <1>3, PTL DEF PlayersSpec

-----------------------------------------------------------------------------
(***************************************************************************)
(* NeverPastTheDestinations is not inductive: what it says of the saved    *)
(* values is only kept by a step that finds them a sequence, and of the    *)
(* call by one that finds it one of Calls.                                 *)
(***************************************************************************)
Bounded ==
  /\ \E S : saved \in Seq(S)
  /\ phase \in {"idle", "main", "defaults", "ended"}
  /\ phase # "idle" => call \in Calls
  /\ NeverPastTheDestinations

Kept == UNCHANGED saved

\* Nothing but a reading specifier saves, and that one saves a value at most,
\* into a destination that is there.
Saves ==
  /\ phase \in {"main", "defaults"}
  /\ Len(saved) < call.params \/ ~doSave
  /\ phase' = phase
  /\ \E v : Save(v)

LEMMA ReadSaves ==
  ASSUME NEW v, NEW nf, NEW q, Read(v, nf, q), phase \in {"main", "defaults"}, More
  PROVE  Saves
BY DEF Read, Saves, More

LEMMA ReadEnumSaves ==
  ASSUME NEW v, NEW nf, NEW d, NEW q, ReadEnum(v, nf, d, q), phase \in {"main", "defaults"}, More
  PROVE  Saves
BY DEF ReadEnum, Saves, More

\* The others save nothing, and end the call or go on with it.
Ends ==
  /\ phase \in {"main", "defaults"} /\ Kept
  /\ \/ phase' \in {"main", "defaults"}
     \/ phase' = "ended"

LEMMA CellsSaveOrEnd ==
  ASSUME NEW type, NEW size, NEW length, NEW defaulted, NEW old,
         ArrayCells(type, size, length, defaulted, old), phase \in {"main", "defaults"}, More
  PROVE  Saves \/ Ends
BY ReadSaves DEF ArrayCells, Ends, Kept, Return

LEMMA ArraySavesOrEnds == Array => Saves \/ Ends
<1>1. SUFFICES ASSUME Array PROVE Saves \/ Ends
  OBVIOUS
<1>2. phase \in {"main", "defaults"} /\ More
  BY <1>1 DEF Array, Reading, Defaulting
<1>3. Return("FAIL") \/ \E type, size, length, defaulted, old : ArrayCells(type, size, length, defaulted, old)
  BY <1>1, ZenonT(60) DEF Array
<1>4. CASE Return("FAIL")
  BY <1>2, <1>4 DEF Return, Ends, Kept
<1>5. CASE \E type, size, length, defaulted, old : ArrayCells(type, size, length, defaulted, old)
  BY <1>2, <1>5, CellsSaveOrEnd
<1> QED
  BY <1>3, <1>4, <1>5

LEMMA EnumSavesOrEnds == Enum => Saves \/ Ends
<1>1. SUFFICES ASSUME Enum PROVE Saves \/ Ends
  OBVIOUS
<1>2. phase \in {"main", "defaults"} /\ More
  BY <1>1 DEF Enum, Reading, Defaulting
<1>3. Return("FAIL") \/ \E cells, nf, d, q : ReadEnum(cells, nf, d, q)
  BY <1>1, ZenonT(60) DEF Enum
<1>4. CASE Return("FAIL")
  BY <1>2, <1>4 DEF Return, Ends, Kept
<1>5. CASE \E cells, nf, d, q : ReadEnum(cells, nf, d, q)
  BY <1>2, <1>5, ReadEnumSaves
<1> QED
  BY <1>3, <1>4, <1>5

LEMMA WorkSavesOrEnds == Work => Saves \/ Ends
<1> USE DEF Ends, Kept, Return, ReturnAtOnce, Pass, Reading, Defaulting
<1>1. FormatEnds => Ends
  BY DEF FormatEnds
<1>2. Required => Saves \/ Ends
  BY ReadSaves DEF Required
<1>3. Optional => Saves \/ Ends
  BY ReadSaves DEF Optional
<1>4. QuietSection \/ Delimiters \/ Delimiter => Ends
  BY DEF QuietSection, Delimiters, Delimiter
<1>5. StringDefault => Saves \/ Ends
  BY ReadSaves DEF StringDefault
<1>6. String => Saves
  BY ReadSaves DEF String
<1>7. UserAbsent => Saves \/ Ends
  BY ReadSaves DEF UserAbsent
<1>8. User => Saves \/ Ends
  BY ReadSaves DEF User
<1>9. Array => Saves \/ Ends
  BY ArraySavesOrEnds
<1>10. Enum => Saves \/ Ends
  BY EnumSavesOrEnds
<1>11. Kustom => Saves \/ Ends
  BY ReadSaves DEF Kustom
<1>12. SearchLiteral \/ Option \/ Ignored => Ends
  BY DEF SearchLiteral, Option, Ignored
<1>13. InputEnds \/ FormatEndsEarly => Ends
  BY DEF InputEnds, FormatEndsEarly
<1>14. Default \/ DefaultPlayer => Saves
  BY ReadSaves DEF Default, DefaultPlayer
<1>15. DefaultString => Saves \/ Ends
  BY ReadSaves DEF DefaultString
<1>16. Discarded \/ LiteralPassed \/ Missing \/ Finished => Ends
  BY DEF Discarded, LiteralPassed, Missing, Finished
<1> QED
  BY <1>1, <1>2, <1>3, <1>4, <1>5, <1>6, <1>7, <1>8, <1>9, <1>10, <1>11, <1>12,
     <1>13, <1>14, <1>15, <1>16 DEF Work

LEMMA AppendToSeq ==
  ASSUME NEW S, NEW q \in Seq(S), NEW v
  PROVE  Append(q, v) \in Seq(S \cup {v}) /\ Len(Append(q, v)) = Len(q) + 1
<1>1. q \in Seq(S \cup {v})
  OBVIOUS
<1> QED
  BY <1>1

LEMMA EmptyIsASeq == <<>> \in Seq({}) /\ Len(<<>>) = 0
OBVIOUS

\* A step of a call keeps Bounded.
LEMMA WorkKeepsBounded == Bounded /\ WorkStep => Bounded'
<1> SUFFICES ASSUME Bounded, WorkStep PROVE Bounded'
  OBVIOUS
<1>1. Saves \/ Ends
  BY WorkSavesOrEnds DEF WorkStep
<1>2. phase # "idle" /\ call' = call /\ call \in Calls /\ call.params \in Nat
  BY <1>1, CallsAssumption DEF Saves, Ends, WorkStep, Bounded
<1>3. PICK S : saved \in Seq(S)
  BY DEF Bounded
<1>4. Len(saved) \in Nat /\ Len(saved) <= call.params
  BY <1>2, <1>3 DEF Bounded, NeverPastTheDestinations
<1>5. CASE Ends
  BY <1>2, <1>3, <1>4, <1>5 DEF Ends, Kept, Bounded, NeverPastTheDestinations
<1>6. CASE Saves
  <2>1. PICK v : saved' = IF doSave THEN Append(saved, v) ELSE saved
    BY <1>6 DEF Saves, Save
  <2>2. (\E T : saved' \in Seq(T)) /\ (doSave => Len(saved') = Len(saved) + 1) /\ (~doSave => saved' = saved)
    BY <2>1, <1>3, AppendToSeq
  <2>3. Len(saved') <= call'.params
    BY <2>2, <1>2, <1>4, <1>6 DEF Saves
  <2> QED
    BY <2>2, <2>3, <1>2, <1>6 DEF Saves, Bounded, NeverPastTheDestinations
<1> QED
  BY <1>1, <1>5, <1>6

LEMMA NextKeepsBounded == Bounded /\ [Next]_vars => Bounded'
<1> SUFFICES ASSUME Bounded, [Next]_vars PROVE Bounded'
  OBVIOUS
<1>1. ASSUME NEW c \in Calls, Call(c) PROVE Bounded'
  <2>1. saved' = <<>> /\ phase' = "main" /\ call' = c
    BY <1>1 DEF Call
  <2>2. c.params \in Nat
    BY CallsAssumption
  <2> QED
    BY <2>1, <2>2, EmptyIsASeq DEF Bounded, NeverPastTheDestinations
<1>2. CASE WorkStep
  BY <1>2, WorkKeepsBounded
<1>3. CASE Returned
  <2>1. saved' = <<>> /\ phase' = "idle"
    BY <1>3 DEF Returned
  <2> QED
    BY <2>1, EmptyIsASeq DEF Bounded, NeverPastTheDestinations
<1>4. CASE UNCHANGED callVars
  BY <1>4 DEF callVars, Bounded, NeverPastTheDestinations
<1>5. CASE UNCHANGED vars
  BY <1>5, <1>4 DEF vars, callVars
<1> QED
  BY <1>1, <1>2, <1>3, <1>4, <1>5 DEF Next

(***************************************************************************)
(* However many specifiers a format has, quiet or optional, in a group or  *)
(* with defaults: sscanf saves into the destinations it was given only.    *)
(***************************************************************************)
THEOREM DestinationsAreEnough == Spec => []NeverPastTheDestinations
<1>1. Init => Bounded
  BY EmptyIsASeq DEF Init, Bounded, NeverPastTheDestinations
<1>2. Bounded /\ [Next]_vars => Bounded'
  BY NextKeepsBounded
<1>3. Bounded => NeverPastTheDestinations
  BY DEF Bounded
<1> QED
  BY <1>1, <1>2, <1>3, PTL DEF Spec

(***************************************************************************)
(* The readers of a format go on: the position that each returns is one of *)
(* the format, and not before the one it was given.                        *)
(***************************************************************************)
(* A position that is not before p *)
Past(p, q) == q \in Nat /\ p <= q

(* and not after the end of n characters, unless p is *)
Onward(p, n, q) == Past(p, q) /\ (p <= n + 1 => q <= n + 1)

\* FirstAt and FirstUnescaped choose the least of some positions, or the end.
LEMMA FirstHit ==
  ASSUME NEW p \in Nat, NEW n \in Nat, NEW hits \in SUBSET (p..n)
  PROVE  Onward(p, n, IF hits # {} THEN CHOOSE q \in hits : \A r \in hits : q <= r
                      ELSE IF p > n THEN p ELSE n + 1)
<1>1. CASE hits # {}
  <2>1. hits \in SUBSET Nat
    OBVIOUS
  <2>2. \E q \in hits : \A r \in hits : q <= r
    BY <1>1, <2>1, Least, Zenon
  <2>3. (CHOOSE q \in hits : \A r \in hits : q <= r) \in hits
    BY <2>2, Zenon
  <2>4. \A q \in hits : Onward(p, n, q)
    BY DEF Past, Onward
  <2> QED
    BY <1>1, <2>3, <2>4, Zenon
<1>2. CASE hits = {}
  BY <1>2 DEF Past, Onward
<1> QED
  BY <1>1, <1>2

\* The readers that search, each with its own hits.
LEMMA SkipWhitespaceGoesOn ==
  ASSUME NEW t, Len(t) \in Nat, NEW p \in Nat
  PROVE  Onward(p, Len(t), SkipWhitespace(t, p))
<1> DEFINE hits == {q \in p..Len(t) : ~IsWhitespace(t[q])}
<1>1. hits \in SUBSET (p..Len(t))
  OBVIOUS
<1>2. SkipWhitespace(t, p) = IF hits # {} THEN CHOOSE q \in hits : \A r \in hits : q <= r
                             ELSE IF p > Len(t) THEN p ELSE Len(t) + 1
  BY Zenon DEF SkipWhitespace, FirstAt
<1> HIDE DEF hits
<1> QED
  BY <1>1, <1>2, FirstHit, Zenon

LEMMA FirstOfGoesOn ==
  ASSUME NEW t, Len(t) \in Nat, NEW p \in Nat, NEW d
  PROVE  Past(p, FirstAt(t, p, LAMBDA c : c = d))
<1> DEFINE hits == {q \in p..Len(t) : t[q] = d}
<1>1. hits \in SUBSET (p..Len(t))
  OBVIOUS
<1>2. FirstAt(t, p, LAMBDA c : c = d) =
        IF hits # {} THEN CHOOSE q \in hits : \A r \in hits : q <= r
        ELSE IF p > Len(t) THEN p ELSE Len(t) + 1
  BY Zenon DEF FirstAt
<1> HIDE DEF hits
<1>3. Onward(p, Len(t), FirstAt(t, p, LAMBDA c : c = d))
  BY <1>1, <1>2, FirstHit, Zenon
<1> QED
  BY <1>3 DEF Onward

LEMMA FindSpacerGoesOn ==
  ASSUME NEW t, Len(t) \in Nat, NEW p \in Nat, NEW d
  PROVE  Past(p, FindSpacer(d, t, p))
<1> DEFINE hits == {q \in p..Len(t) : IsSpacer(d, t[q])}
<1>1. hits \in SUBSET (p..Len(t))
  OBVIOUS
<1>2. FindSpacer(d, t, p) = IF hits # {} THEN CHOOSE q \in hits : \A r \in hits : q <= r
                            ELSE IF p > Len(t) THEN p ELSE Len(t) + 1
  BY Zenon DEF FindSpacer, FirstAt
<1> HIDE DEF hits
<1>3. Onward(p, Len(t), FindSpacer(d, t, p))
  BY <1>1, <1>2, FirstHit, Zenon
<1> QED
  BY <1>3 DEF Onward

LEMMA DigitsGoOn ==
  ASSUME NEW t, Len(t) \in Nat, NEW p \in Nat, NEW digits, NEW base, NEW sign
  PROVE  Past(p, Digits(t, p, digits, base, sign).p)
<1> DEFINE hits == {q \in p..Len(t) : t[q] \notin digits}
<1>1. hits \in SUBSET (p..Len(t))
  OBVIOUS
<1>2. Digits(t, p, digits, base, sign).p =
        IF hits # {} THEN CHOOSE q \in hits : \A r \in hits : q <= r
        ELSE IF p > Len(t) THEN p ELSE Len(t) + 1
  BY Zenon DEF Digits, FirstAt
<1> HIDE DEF hits
<1>3. Onward(p, Len(t), Digits(t, p, digits, base, sign).p)
  BY <1>1, <1>2, FirstHit, Zenon
<1> QED
  BY <1>3 DEF Onward

LEMMA FirstUnescapedGoesOn ==
  ASSUME NEW t, Len(t) \in Nat, NEW p \in Nat, p <= Len(t) + 1, NEW c
  PROVE  Past(p, FirstUnescaped(t, p, c)) /\ FirstUnescaped(t, p, c) <= Len(t) + 1
<1> DEFINE hits == {q \in p..Len(t) : t[q] = c /\ ~EscapedAt(t, p, q)}
<1>1. hits \in SUBSET (p..Len(t))
  OBVIOUS
<1>2. FirstUnescaped(t, p, c) = IF hits = {} THEN Len(t) + 1
                                ELSE CHOOSE q \in hits : \A r \in hits : q <= r
  BY Zenon DEF FirstUnescaped
<1>3. Past(p, Len(t) + 1) /\ Len(t) + 1 <= Len(t) + 1
  BY DEF Past
<1> HIDE DEF hits
<1>4. CASE hits = {}
  BY <1>2, <1>3, <1>4, Zenon
<1>5. CASE hits # {}
  <2>1. FirstUnescaped(t, p, c) = IF hits # {} THEN CHOOSE q \in hits : \A r \in hits : q <= r
                                  ELSE IF p > Len(t) THEN p ELSE Len(t) + 1
    BY <1>2, <1>5, Zenon
  <2>2. Onward(p, Len(t), IF hits # {} THEN CHOOSE q \in hits : \A r \in hits : q <= r
                          ELSE IF p > Len(t) THEN p ELSE Len(t) + 1)
    BY <1>1, FirstHit, Zenon
  <2>3. Onward(p, Len(t), FirstUnescaped(t, p, c))
    BY <2>1, <2>2, Zenon
  <2> QED
    BY <2>3 DEF Onward
<1> QED
  BY <1>4, <1>5

\* The readers of what is in brackets.
LEMMA FoundDefaultStart ==
  ASSUME NEW t, Len(t) \in Nat, NEW p \in Nat
  PROVE  Past(p, FindDefaultStart(t, p).p)
<1>1. Past(p + 1, SkipWhitespace(t, p + 1))
  BY SkipWhitespaceGoesOn DEF Onward
<1> QED
  BY <1>1 DEF FindDefaultStart, Past

LEMMA PastIfAnyGoesOn ==
  ASSUME NEW t, NEW p \in Nat, NEW q, Past(p, q)
  PROVE  Past(p, PastIfAny(t, q))
BY DEF PastIfAny, Past

LEMMA SkipDefaultGoesOn ==
  ASSUME NEW t, Len(t) \in Nat, NEW p \in Nat
  PROVE  Past(p, SkipDefault(t, p))
<1> DEFINE start == FindDefaultStart(t, p)
           close == FirstAt(t, start.p + 1, LAMBDA c : c = ")")
<1>1. Past(p, start.p)
  BY FoundDefaultStart
<1>2. Past(start.p + 1, close)
  <2>1. start.p + 1 \in Nat
    BY <1>1 DEF Past
  <2> QED
    BY <2>1, FirstOfGoesOn DEF FirstAt
<1>3. SkipDefault(t, p) = IF start.ok THEN PastIfAny(t, close) ELSE p
  BY Zenon DEF SkipDefault
<1> HIDE DEF start, close
<1>4. Past(p, close) /\ Past(p, p)
  BY <1>1, <1>2 DEF Past
<1> QED
  BY <1>3, <1>4, PastIfAnyGoesOn

LEMMA SkipDefaultExGoesOn ==
  ASSUME NEW t, Len(t) \in Nat, NEW p \in Nat
  PROVE  Past(p, SkipDefaultEx(t, p))
<1>1. CASE Ch(t, p) = "("
  <2>1. p <= Len(t) + 1
    BY <1>1 DEF Ch, NUL
  <2> QED
    BY <1>1, <2>1, FirstUnescapedGoesOn, PastIfAnyGoesOn DEF SkipDefaultEx
<1>2. CASE Ch(t, p) # "("
  BY <1>2 DEF SkipDefaultEx, Past
<1> QED
  BY <1>1, <1>2

\* The readers of single values.
LEMMA SignSkipped ==
  ASSUME NEW t, NEW p \in Nat
  PROVE  Past(p, Unsigned(t, p)) /\ Past(p, p)
BY DEF Unsigned, Past

\* One reader after the other.
LEMMA PastTwice ==
  ASSUME NEW p \in Nat, NEW q, NEW r, Past(p, q), Past(q, r)
  PROVE  Past(p, r)
BY DEF Past

\* Whatever the specifier.
LEMMA GetGoesOn ==
  ASSUME NEW t, Len(t) \in Nat, NEW p \in Nat, NEW d, NEW sp \in Simple
  PROVE  Past(p, Get(sp, d, t, p).p)
<1> DEFINE q == Unsigned(t, p)
<1>1. q \in Nat /\ q >= p
  BY SignSkipped DEF Past
<1> HIDE DEF q
<1>2. \A a \in Nat : a >= p => \A digits, base, sign : Past(p, Digits(t, a, digits, base, sign).p)
  BY DigitsGoOn DEF Past
<1>3. \A a \in Nat : a >= p => Past(p, Nothing(a).p)
  BY DEF Nothing, Past
<1>4. Past(p, GetDec(t, p).p) /\ Past(p, GetOct(t, p).p) /\ Past(p, StrToD(t, p).p)
  BY <1>1, <1>2, <1>3 DEF GetDec, GetOct, StrToD, q
<1>5. Past(p, GetHex(t, p).p)
  BY <1>1, <1>2, <1>3 DEF GetHex, q
<1>6. Past(p, GetBool(t, p).p)
  BY <1>1, <1>2, <1>3 DEF GetBool, q
<1>7. Past(p, GetNumber(t, p).p)
  BY <1>1, <1>2, <1>3 DEF GetNumber, q
<1>8. Past(p, GetLogical(d, t, p).p)
  BY FindSpacerGoesOn DEF GetLogical, Past
<1>9. Past(p, GetChar(d, t, p).p)
  BY DEF GetChar, Past
<1>10. Past(p, GetSpecial(t, p).p)
  BY <1>4 DEF GetSpecial, Past
<1> QED
  BY <1>4, <1>5, <1>6, <1>7, <1>8, <1>9, <1>10 DEF Get, Simple, SimpleRequired, SimpleOptional

\* The defaults of single values, their types and lengths.
LEMMA GetReturnDefaultGoesOn ==
  ASSUME NEW t, Len(t) \in Nat, NEW p \in Nat, NEW d
  PROVE  Past(p, GetReturnDefault(d, t, p))
<1> DEFINE q == SkipWhitespace(t, p)
<1>1. Past(p, q)
  BY SkipWhitespaceGoesOn DEF Onward
<1> HIDE DEF q
<1> QED
  BY <1>1 DEF GetReturnDefault, Past, q

LEMMA GetSingleTypeGoesOn ==
  ASSUME NEW t, NEW p \in Nat
  PROVE  Past(p, GetSingleType(t, p).p)
BY DEF GetSingleType, Past

LEMMA GetLengthGoesOn ==
  ASSUME NEW t, Len(t) \in Nat, NEW p \in Nat, NEW error
  PROVE  Past(p, GetLength(t, p, error).p)
<1>1. CASE Ch(t, p) # "["
  BY <1>1 DEF GetLength, Past
<1>2. CASE Ch(t, p) = "["
  <2> DEFINE a == GetDec(t, p + 1).p
             close == FirstAt(t, a, LAMBDA c : c = "]")
  <2>1. GetDec(t, p + 1) = Get("i", {}, t, p + 1) /\ "i" \in Simple
    BY DEF Get, Simple, SimpleRequired
  <2>2. Past(p + 1, a)
    BY <2>1, GetGoesOn
  <2>3. GetLength(t, p, error).p = PastIfAny(t, close)
    BY <1>2 DEF GetLength
  <2> HIDE DEF a
  <2>4. a \in Nat /\ a >= p
    BY <2>2 DEF Past
  <2>5. Past(a, close)
    BY <2>4, FirstOfGoesOn DEF FirstAt
  <2> HIDE DEF close
  <2>6. Past(p, close)
    BY <2>4, <2>5 DEF Past
  <2> QED
    BY <2>3, <2>6, PastIfAnyGoesOn
<1> QED
  BY <1>1, <1>2

LEMMA DoDefaultGoesOn ==
  ASSUME NEW t, Len(t) \in Nat, NEW p \in Nat, NEW d, NEW sp \in Simple
  PROVE  Past(p, DoDefault(sp, d, t, p).p)
<1> DEFINE start == FindDefaultStart(t, p)
           r == Get(sp, d, t, start.p)
<1>1. Past(p, start.p)
  BY FoundDefaultStart
<1>2. DoDefault(sp, d, t, p).p = IF start.ok THEN GetReturnDefault(d, t, r.p) ELSE p
  BY DEF DoDefault, Nothing
<1> HIDE DEF start
<1>3. start.p \in Nat
  BY <1>1 DEF Past
<1>4. Past(start.p, r.p)
  BY <1>3, GetGoesOn
<1> HIDE DEF r
<1>5. Past(r.p, GetReturnDefault(d, t, r.p))
  BY <1>4, GetReturnDefaultGoesOn DEF Past
<1> QED
  BY <1>1, <1>2, <1>4, <1>5 DEF Past

\* The defaults of a group.
LEMMA DefaultsGoOn ==
  ASSUME NEW t, Len(t) \in Nat, NEW p \in Nat
  PROVE  Past(p, Defaults(t, p).p) /\ Past(p, NoDefaults(p).p)
<1>1. Past(p, NoDefaults(p).p)
  BY DEF NoDefaults, Past
<1>2. CASE Ch(t, p) # "("
  BY <1>1, <1>2 DEF Defaults
<1>3. CASE Ch(t, p) = "("
  <2> DEFINE start == SkipWhitespace(t, p + 1)
             close == FirstUnescaped(t, start, ")")
  <2>1. p + 1 <= Len(t) + 1
    BY <1>3 DEF Ch, NUL
  <2>2. Onward(p + 1, Len(t), start)
    BY SkipWhitespaceGoesOn
  <2>3. Defaults(t, p).p = PastIfAny(t, close)
    BY <1>3 DEF Defaults
  <2> HIDE DEF start
  <2>4. start \in Nat /\ p <= start /\ start <= Len(t) + 1
    BY <2>1, <2>2 DEF Onward, Past
  <2>5. Past(start, close)
    BY <2>4, FirstUnescapedGoesOn
  <2> HIDE DEF close
  <2>6. Past(p, close)
    BY <2>4, <2>5 DEF Past
  <2> QED
    BY <1>1, <2>3, <2>6, PastIfAnyGoesOn
<1> QED
  BY <1>2, <1>3

\* The default of a player: a name, or a number.
LEMMA UserDefaultGoesOn ==
  ASSUME Len(format) \in Nat, NEW p \in Nat, NEW sp \in DOMAIN Kind, NEW options, NEW d
  PROVE  Past(p, UserDefault(sp, options, d, p).p)
<1> DEFINE start == FindDefaultStart(format, p).p
           r == DefaultUser(sp, "n", options, d, format, start)
<1>1. Past(p, start)
  BY FoundDefaultStart
<1>2. UserDefault(sp, options, d, p).p = GetReturnDefault(d, format, r.p)
  BY DEF UserDefault
<1> HIDE DEF start
<1>3. start \in Nat
  BY <1>1 DEF Past
<1>4. Past(start, r.p)
  <2>1. Past(start, GetUserString(d, format, start, g_iTrueMax).p)
    BY <1>3, FindSpacerGoesOn DEF GetUserString
  <2>2. Past(start, ReadUser(sp, options, d, format, start).p)
    BY <2>1 DEF ReadUser
  <2>3. "n" \in Simple
    BY DEF Simple, SimpleRequired
  <2>4. Past(start, Do("n", d, format, start).p)
    BY <1>3, <2>3, GetGoesOn DEF Do
  <2>5. [Do("n", d, format, start) EXCEPT !.ok = TRUE].p = Do("n", d, format, start).p
    BY DEF Do
  <2> QED
    BY <2>2, <2>4, <2>5 DEF DefaultUser
<1> HIDE DEF r
<1>5. Past(r.p, GetReturnDefault(d, format, r.p))
  BY <1>4, GetReturnDefaultGoesOn DEF Past
<1> QED
  BY <1>1, <1>2, <1>4, <1>5 DEF Past

\* A literal, which the format ends or a quote.
LEMMA LiteralGoesOn ==
  ASSUME NEW t, Len(t) \in Nat, NEW p \in Nat, p <= Len(t) + 1
  PROVE  Past(p, Literal(t, p).p)
<1> DEFINE end == FirstUnescaped(t, p, "'")
<1>1. Past(p, end)
  BY FirstUnescapedGoesOn
<1>2. Literal(t, p).p = IF Ch(t, end) = "'" THEN end + 1 ELSE end
  BY DEF Literal
<1> HIDE DEF end
<1> QED
  BY <1>1, <1>2 DEF Past

(* GetMultiType, one character of the type further *)
TypeStep(t, a) ==
  LET escape == Ch(t, a.p) = "\\" /\ ~a.escape
      q == a.p + 1
      next == IF escape THEN [a EXCEPT !.p = q]
              ELSE IF a.nested /\ Ch(t, q) = ">" THEN [a EXCEPT !.p = q + 1, !.nested = FALSE]
              ELSE IF ~a.nested /\ Ch(t, q) = "<" THEN [a EXCEPT !.p = q + 1, !.nested = TRUE]
              ELSE [a EXCEPT !.p = q]
  IN  IF a.done THEN a
      ELSE [next EXCEPT !.escape = escape,
              !.done = \/ Ch(t, next.p) = NUL
                       \/ ~next.nested /\ ~escape /\ Ch(t, next.p) = ">"]

(* What GetMultiType keeps, of a type that begins at p *)
Scan(p) == [p : {q \in Nat : p <= q}, escape : BOOLEAN, nested : BOOLEAN, done : BOOLEAN]

\* A turn of the loop of GetMultiType goes on.
LEMMA TypeStepTyped ==
  ASSUME NEW t, NEW p \in Nat, NEW a \in Scan(p)
  PROVE  TypeStep(t, a) \in Scan(p)
<1> DEFINE escape == Ch(t, a.p) = "\\" /\ ~a.escape
           next == IF escape THEN [a EXCEPT !.p = a.p + 1]
                   ELSE IF a.nested /\ Ch(t, a.p + 1) = ">" THEN [a EXCEPT !.p = a.p + 1 + 1, !.nested = FALSE]
                   ELSE IF ~a.nested /\ Ch(t, a.p + 1) = "<" THEN [a EXCEPT !.p = a.p + 1 + 1, !.nested = TRUE]
                   ELSE [a EXCEPT !.p = a.p + 1]
           done == \/ Ch(t, next.p) = NUL
                   \/ ~next.nested /\ ~escape /\ Ch(t, next.p) = ">"
<1>1. TypeStep(t, a) = IF a.done THEN a ELSE [next EXCEPT !.escape = escape, !.done = done]
  BY DEF TypeStep
<1>2. escape \in BOOLEAN /\ done \in BOOLEAN
  OBVIOUS
<1>3. next \in Scan(p)
  <2>1. \A m \in Nat : p <= m => [a EXCEPT !.p = m] \in Scan(p)
    BY DEF Scan
  <2>2. \A m \in Nat, b \in BOOLEAN : p <= m => [a EXCEPT !.p = m, !.nested = b] \in Scan(p)
    BY DEF Scan
  <2>3. a.p + 1 \in Nat /\ p <= a.p + 1 /\ a.p + 1 + 1 \in Nat /\ p <= a.p + 1 + 1
    BY DEF Scan
  <2> QED
    BY <2>1, <2>2, <2>3
<1> HIDE DEF escape, next, done
<1> QED
  BY <1>1, <1>2, <1>3 DEF Scan

\* And so does the loop.
LEMMA GetMultiTypeGoesOn ==
  ASSUME NEW t, Len(t) \in Nat, NEW p \in Nat
  PROVE  Past(p, GetMultiType(t, p).p)
<1> DEFINE n == Len(t)
           base == [p |-> p, escape |-> FALSE, nested |-> FALSE, done |-> FALSE]
           seq == [k \in 1..Len(t) |-> k]
           op == [x \in Scan(p) \X (1..n) |-> TypeStep(t, x[1])]
           indices == DOMAIN seq
           Solves(iter) ==
             iter = [u \in SUBSET indices |-> IF u = {} THEN base ELSE TypeStep(t, iter[u \ {Max(u)}])]
           fold == CHOOSE iter : Solves(iter)
           q == fold[indices].p
           Between(e) == IF Ch(t, e) = NUL THEN [ok |-> FALSE, v |-> <<>>, p |-> e]
                         ELSE [ok |-> TRUE, v |-> SubSeq(t, p + 1, e - 1), p |-> e + 1]
<1>0. n \in Nat
  OBVIOUS
<1>1. GetMultiType(t, p) = IF Ch(t, p) # "<" THEN [ok |-> FALSE, v |-> <<>>, p |-> p] ELSE Between(q)
  BY Zenon DEF GetMultiType, FoldLeft, MapThenFoldSet, TypeStep
<1>12. indices = 1..n
  OBVIOUS
<1> HIDE DEF indices
<1>2. base \in Scan(p) /\ \A k \in 1..n : seq[k] \in 1..n
  BY DEF Scan
<1> HIDE DEF base
<1>3. \A a \in Scan(p), i \in 1..n : op[<<a, i>>] = TypeStep(t, a)
  OBVIOUS
<1>4. \A a \in Scan(p), i \in 1..n : op[<<a, i>>] \in Scan(p)
  BY <1>3, TypeStepTyped
<1> HIDE DEF n, seq, op
<1>5. PICK g \in [SUBSET (1..n) -> Scan(p)] : Folds(g, base, op, seq, n)
  BY <1>0, <1>2, <1>4, FoldExists
<1>6. Solves(g)
  <2>1. ASSUME NEW u \in SUBSET (1..n), u # {}
        PROVE  op[<<g[u \ {Max(u)}], seq[Max(u)]>>] = TypeStep(t, g[u \ {Max(u)}])
    <3>1. Max(u) \in 1..n
      BY <1>0, <2>1, Largest
    <3>2. seq[Max(u)] \in 1..n /\ g[u \ {Max(u)}] \in Scan(p)
      BY <1>2, <1>5, <3>1
    <3> QED
      BY <1>3, <3>2
  <2>2. \A u \in SUBSET (1..n) : g[u] = IF u = {} THEN base ELSE TypeStep(t, g[u \ {Max(u)}])
    BY <1>5, <2>1 DEF Folds
  <2> QED
    BY <1>12, <2>2
<1>7. Solves(fold)
  <2> HIDE DEF Solves
  <2> QED
    BY <1>6
<1> HIDE DEF fold
<1>8. fold[{}] = base
  BY <1>7, <1>12
<1>9. ASSUME NEW k \in 1..n PROVE fold[1..k] = TypeStep(t, fold[1..(k - 1)])
  <2>1. 1..k \in SUBSET (1..n) /\ 1..k # {} /\ Max(1..k) = k /\ (1..k) \ {k} = 1..(k - 1)
    BY <1>0, UpTo
  <2> QED
    BY <1>7, <1>12, <2>1
<1> HIDE DEF Solves
<1>10. fold[1..n] \in Scan(p)
  <2>1. fold[{}] \in Scan(p)
    BY <1>2, <1>8
  <2>2. \A k \in 1..n : fold[1..(k - 1)] \in Scan(p) => fold[1..k] \in Scan(p)
    BY <1>9, TypeStepTyped
  <2> QED
    BY <1>0, <2>1, <2>2, FoldKeeps
<1>11. q \in Nat /\ p <= q
  BY <1>10, <1>12 DEF Scan
<1> HIDE DEF q
<1> QED
  BY <1>1, <1>11 DEF Past

(* DoS, one character of the string further *)
StringStep(d, t, length, all, a, q) ==
  IF a.end # 0 THEN a
  ELSE IF a.literal THEN [a EXCEPT !.literal = FALSE, !.out = Append(@, t[q])]
  ELSE IF EndsString(d, all, t[q]) THEN [a EXCEPT !.end = q]
  ELSE IF a.i + 1 >= length THEN [a EXCEPT !.i = @ + 1]
  ELSE IF t[q] = "\\" /\ Ch(t, q + 1) = NUL THEN [a EXCEPT !.end = q + 1]
  ELSE IF t[q] = "\\" /\ Escapable(d, all, Ch(t, q + 1)) THEN
         [a EXCEPT !.i = @ + 1, !.literal = TRUE]
  ELSE [a EXCEPT !.i = @ + 1, !.out = Append(@, t[q])]

(* What DoS keeps, of a string that begins at p *)
Copying(t, p) ==
  [i : Nat, out : Seq({t[q] : q \in 1..Len(t)}), literal : BOOLEAN, end : {0} \cup {q \in Nat : p <= q}]

\* A turn of the loop of DoS goes on.
LEMMA StringStepTyped ==
  ASSUME NEW d, NEW t, NEW p \in Nat, NEW length, NEW all, NEW a \in Copying(t, p), NEW q \in 1..Len(t),
         p <= q, Len(t) \in Nat
  PROVE  StringStep(d, t, length, all, a, q) \in Copying(t, p)
<1> DEFINE S == {t[k] : k \in 1..Len(t)}
<1>1. t[q] \in S /\ q \in Nat /\ q + 1 \in Nat /\ p <= q + 1
  OBVIOUS
<1>2. a \in [i : Nat, out : Seq(S), literal : BOOLEAN, end : {0} \cup {k \in Nat : p <= k}]
  BY DEF Copying
<1> HIDE DEF S
<1> DEFINE C == [i : Nat, out : Seq(S), literal : BOOLEAN, end : {0} \cup {k \in Nat : p <= k}]
<1>3. Append(a.out, t[q]) \in Seq(S) /\ a.i + 1 \in Nat
  BY <1>1, <1>2
<1>4. [a EXCEPT !.literal = FALSE, !.out = Append(@, t[q])] \in C
  BY <1>2, <1>3
<1>5. [a EXCEPT !.end = q] \in C /\ [a EXCEPT !.end = q + 1] \in C
  BY <1>1, <1>2
<1>6. [a EXCEPT !.i = @ + 1] \in C /\ [a EXCEPT !.i = @ + 1, !.literal = TRUE] \in C
  BY <1>2, <1>3
<1>7. [a EXCEPT !.i = @ + 1, !.out = Append(@, t[q])] \in C
  BY <1>2, <1>3
<1>9. a \in C
  BY <1>2
<1>8. StringStep(d, t, length, all, a, q) \in C
  <2> HIDE DEF C
  <2> QED
    BY <1>4, <1>5, <1>6, <1>7, <1>9, Zenon DEF StringStep
<1> QED
  BY <1>8 DEF Copying, S

(* What DoS has read before the first character *)
NoString == [i |-> 0, out |-> <<>>, literal |-> FALSE, end |-> 0]

(* What it returns at the end e *)
StringEnds(t, out, e) == [v |-> out, e |-> e, p |-> IF Ch(t, e) = NUL THEN e ELSE e + 1]

(* The loop of DoS, turn by turn: h[k] is what it has after k characters *)
StringRun(h, d, t, p, length, all) ==
  LET n == Len(t) - p + 1
  IN  /\ h[0] = NoString
      /\ \A k \in 1..n : h[k] = StringStep(d, t, length, all, h[k - 1], p + k - 1)
      /\ \A k \in 0..n : h[k] \in Copying(t, p)
      /\ DoS(d, t, p, length, all) = StringEnds(t, h[n].out, IF h[n].end = 0 THEN Len(t) + 1 ELSE h[n].end)

LEMMA StringRuns ==
  ASSUME NEW t, Len(t) \in Nat, NEW p \in 1..(Len(t) + 1), NEW d, NEW length, NEW all
  PROVE  \E h : StringRun(h, d, t, p, length, all)
<1> DEFINE n == Len(t) - p + 1
           base == NoString
           seq == [k \in 1..Len(t) - p + 1 |-> p + k - 1]
           T == Copying(t, p)
           E == {q \in 1..Len(t) : p <= q}
           op == [x \in T \X E |-> StringStep(d, t, length, all, x[1], x[2])]
           indices == DOMAIN seq
           Solves(iter) ==
             iter = [u \in SUBSET indices |->
                       IF u = {} THEN base
                       ELSE StringStep(d, t, length, all, iter[u \ {Max(u)}], seq[Max(u)])]
           fold == CHOOSE iter : Solves(iter)
           a == fold[indices]
<1>1. DoS(d, t, p, length, all) = StringEnds(t, a.out, IF a.end = 0 THEN Len(t) + 1 ELSE a.end)
  BY Zenon DEF DoS, FoldLeft, MapThenFoldSet, StringStep, NoString, StringEnds
<1>2. n \in Nat /\ indices = 1..n /\ \A k \in 1..n : seq[k] = p + k - 1
  OBVIOUS
<1>3. base \in T /\ \A k \in 1..n : seq[k] \in E
  <2>1. ASSUME NEW k \in 1..n PROVE seq[k] \in E
    <3>1. p + k - 1 \in 1..Len(t) /\ p <= p + k - 1
      OBVIOUS
    <3> QED
      BY <3>1
  <2>2. \A S : [i |-> 0, out |-> <<>>, literal |-> FALSE, end |-> 0] \in
                  [i : Nat, out : Seq(S), literal : BOOLEAN, end : {0} \cup {q \in Nat : p <= q}]
    OBVIOUS
  <2>3. base \in T
    BY <2>2, Zenon DEF Copying, NoString
  <2> QED
    BY <2>1, <2>3
<1> HIDE DEF base, n, seq, indices
<1>4. \A c \in T, q \in E : op[<<c, q>>] = StringStep(d, t, length, all, c, q)
  OBVIOUS
<1>5. \A c \in T, q \in E : StringStep(d, t, length, all, c, q) \in T
  BY StringStepTyped
<1>13. \A c \in T, q \in E : op[<<c, q>>] \in T
  BY <1>4, <1>5
<1> HIDE DEF op, E, T
<1>6. PICK g \in [SUBSET (1..n) -> T] : Folds(g, base, op, seq, n)
  BY <1>2, <1>3, <1>13, FoldExists
<1>7. Solves(g)
  <2>1. ASSUME NEW u \in SUBSET (1..n), u # {}
        PROVE  op[<<g[u \ {Max(u)}], seq[Max(u)]>>] =
                 StringStep(d, t, length, all, g[u \ {Max(u)}], seq[Max(u)])
    <3>1. Max(u) \in 1..n
      BY <1>2, <2>1, Largest
    <3>2. seq[Max(u)] \in E /\ g[u \ {Max(u)}] \in T
      BY <1>3, <1>6, <3>1
    <3> QED
      BY <1>4, <3>2
  <2>2. \A u \in SUBSET (1..n) :
          g[u] = IF u = {} THEN base
                 ELSE StringStep(d, t, length, all, g[u \ {Max(u)}], seq[Max(u)])
    BY <1>6, <2>1 DEF Folds
  <2> QED
    BY <1>2, <2>2
<1>8. Solves(fold)
  <2> HIDE DEF Solves
  <2> QED
    BY <1>7
<1> HIDE DEF fold
<1>9. fold[{}] = base
  BY <1>2, <1>8
<1>10. ASSUME NEW k \in 1..n
       PROVE  fold[1..k] = StringStep(d, t, length, all, fold[1..(k - 1)], seq[k])
  <2>1. 1..k \in SUBSET (1..n) /\ 1..k # {} /\ Max(1..k) = k /\ (1..k) \ {k} = 1..(k - 1)
    BY <1>2, UpTo
  <2> QED
    BY <1>2, <1>8, <2>1
<1> HIDE DEF Solves
<1>11. \A k \in 0..n : fold[1..k] \in T
  <2> SUFFICES ASSUME NEW k \in 0..n PROVE fold[1..k] \in T
    OBVIOUS
  <2>1. fold[{}] \in T
    BY <1>3, <1>9
  <2>3. \A j \in 1..n : fold[1..(j - 1)] \in T => fold[1..j] \in T
    BY <1>3, <1>5, <1>10
  <2>4. \A j \in 1..k : j \in 1..n
    BY <1>2
  <2>2. \A j \in 1..k : fold[1..(j - 1)] \in T => fold[1..j] \in T
    BY <2>3, <2>4, Zenon
  <2> QED
    BY <1>2, <2>1, <2>2, FoldKeeps
<1> DEFINE h == [k \in 0..n |-> fold[1..k]]
<1>12. \A k \in 0..n : h[k] = fold[1..k]
  OBVIOUS
<1> HIDE DEF h
<1>14. h[0] = NoString
  <2>1. (1..0) = {} /\ 0 \in 0..n
    BY <1>2
  <2> QED
    BY <1>9, <1>12, <2>1 DEF base
<1>15. \A k \in 1..n : h[k] = StringStep(d, t, length, all, h[k - 1], p + k - 1)
  <2> SUFFICES ASSUME NEW k \in 1..n PROVE h[k] = StringStep(d, t, length, all, h[k - 1], p + k - 1)
    OBVIOUS
  <2>1. k \in 0..n /\ k - 1 \in 0..n /\ seq[k] = p + k - 1
    BY <1>2
  <2>2. h[k] = fold[1..k] /\ h[k - 1] = fold[1..(k - 1)]
    BY <1>12, <2>1
  <2> QED
    BY <1>10, <2>1, <2>2, Zenon
<1>16. DoS(d, t, p, length, all) = StringEnds(t, h[n].out, IF h[n].end = 0 THEN Len(t) + 1 ELSE h[n].end)
  <2>1. n \in 0..n /\ h[n] = a
    BY <1>2, <1>12
  <2> QED
    BY <1>1, <2>1, Zenon
<1>17. \A k \in 0..n : h[k] \in Copying(t, p)
  BY <1>11, <1>12 DEF T
<1> QED
  BY <1>14, <1>15, <1>16, <1>17, Zenon DEF n, StringRun

\* And so does the loop.
LEMMA DoSGoesOn ==
  ASSUME NEW t, Len(t) \in Nat, NEW p \in 1..(Len(t) + 1), NEW d, NEW length, NEW all
  PROVE  Past(p, DoS(d, t, p, length, all).p) /\ Past(p, DoS(d, t, p, length, all).e)
<1> DEFINE n == Len(t) - p + 1
<1>1. PICK h : StringRun(h, d, t, p, length, all)
  BY StringRuns, Zenon
<1>4. /\ \A k \in 0..n : h[k] \in Copying(t, p)
      /\ DoS(d, t, p, length, all) = StringEnds(t, h[n].out, IF h[n].end = 0 THEN Len(t) + 1 ELSE h[n].end)
  BY <1>1, Zenon DEF StringRun
<1>2. n \in 0..n
  OBVIOUS
<1>3. h[n].end = 0 \/ (h[n].end \in Nat /\ p <= h[n].end)
  BY <1>2, <1>4 DEF Copying
<1> HIDE DEF n
<1> QED
  BY <1>3, <1>4 DEF Past, StringEnds

\* The default of a string, and the length after it.
LEMMA DoSDGoesOn ==
  ASSUME NEW t, Len(t) \in Nat, NEW p \in Nat, NEW d
  PROVE  Past(p, DoSD(d, t, p).p)
<1>1. CASE Ch(t, p) # "("
  BY <1>1 DEF DoSD, FindDefaultStart, Past
<1>2. CASE Ch(t, p) = "("
  <2> DEFINE start == SkipWhitespace(t, p + 1)
             r == DoS(d, t, start, Len(t) + 2, FALSE)
  <2>1. p + 1 <= Len(t) + 1
    BY <1>2 DEF Ch, NUL
  <2>2. Onward(p + 1, Len(t), start)
    BY SkipWhitespaceGoesOn
  <2>3. DoSD(d, t, p).p = IF IsDelimiter(d, Ch(t, r.e)) THEN GetLength(t, r.p, FALSE).p ELSE r.p
    BY <1>2 DEF DoSD, FindDefaultStart
  <2> HIDE DEF start
  <2>4. start \in 1..(Len(t) + 1) /\ start \in Nat /\ p <= start
    BY <2>1, <2>2 DEF Onward, Past
  <2>5. Past(start, r.p)
    BY <2>4, DoSGoesOn
  <2> HIDE DEF r
  <2>6. Past(p, r.p) /\ r.p \in Nat
    BY <2>4, <2>5 DEF Past
  <2>7. Past(r.p, GetLength(t, r.p, FALSE).p)
    BY <2>6, GetLengthGoesOn
  <2>8. Past(p, GetLength(t, r.p, FALSE).p) /\ Past(p, r.p)
    BY <2>6, <2>7, PastTwice
  <2> QED
    BY <2>3, <2>8
<1> QED
  BY <1>1, <1>2

\* The name of a type of the script, and the default after it.
LEMMA DoKGoesOn ==
  ASSUME NEW t, Len(t) \in Nat, NEW p \in Nat, NEW options, NEW d, NEW x, NEW q, NEW optional \in BOOLEAN
  PROVE  Past(p, DoK(options, d, t, p, x, q, optional).fp)
<1> DEFINE multi == GetMultiType(t, p)
           opts == IF optional THEN Defaults(t, multi.p) ELSE NoDefaults(multi.p)
<1>1. DoK(options, d, t, p, x, q, optional).fp \in {multi.p, opts.p}
  BY DEF DoK
<1>2. Past(p, multi.p)
  BY GetMultiTypeGoesOn
<1> HIDE DEF multi
<1>3. multi.p \in Nat /\ p <= multi.p
  BY <1>2 DEF Past
<1>4. Past(multi.p, opts.p)
  BY <1>3, DefaultsGoOn
<1> QED
  BY <1>1, <1>3, <1>4 DEF Past

(***************************************************************************)
(* EndsInTime is not inductive: the turns are bounded by the place in the  *)
(* format, which every turn moves on, and while the call goes on that is   *)
(* in front of the end of it.                                              *)
(***************************************************************************)
Timely ==
  /\ phase \in {"idle", "main", "defaults", "ended"}
  /\ phase # "idle" => call \in Calls /\ f \in Nat /\ turns \in Nat
  /\ phase = "main" => turns + 1 <= f /\ turns <= Len(format)
  /\ phase = "defaults" => turns <= f /\ turns <= Len(format) + 1
  /\ EndsInTime

\* A turn ends the call, or the input, or goes on behind a letter of the format.
Concludes == phase \in {"main", "defaults"} /\ phase' = "ended" /\ f' = f

GoesOn ==
  /\ phase \in {"main", "defaults"} /\ phase' = phase
  /\ Letter # NUL /\ Past(f + 1, f')

LEMMA ReadGoesOn ==
  ASSUME NEW v, NEW nf, NEW q, Read(v, nf, q), phase \in {"main", "defaults"}, Letter # NUL, Past(f + 1, nf)
  PROVE  GoesOn
BY DEF Read, Move, GoesOn

LEMMA PassGoesOn ==
  ASSUME NEW nf, Pass(nf), phase \in {"main", "defaults"}, Letter # NUL, Past(f + 1, nf)
  PROVE  GoesOn
BY DEF Pass, GoesOn

LEMMA ReturnConcludes ==
  ASSUME NEW r, Return(r) \/ ReturnAtOnce, phase \in {"main", "defaults"}
  PROVE  Concludes
BY DEF Return, ReturnAtOnce, Concludes

\* What a script calls with has a length.
LEMMA FormatsAreTexts ==
  ASSUME call \in Calls
  PROVE  Len(format) \in Nat
BY CallsAssumption DEF format

\* So does every turn of the two loops that does not end one of them.
LEMMA WorkGoesOn ==
  ASSUME Timely, Work
  PROVE  Concludes \/ GoesOn \/ InputEnds
<1>1. phase \in {"main", "defaults"}
  BY DEF Work, FormatEnds, Required, Optional, QuietSection, Delimiters, Delimiter, StringDefault, String,
         UserAbsent, User, Array, Enum, Kustom, SearchLiteral, Option, Ignored, InputEnds, FormatEndsEarly,
         Default, DefaultString, DefaultPlayer, Discarded, LiteralPassed, Missing, Finished, Reading, Defaulting
<1>2. Len(format) \in Nat /\ f \in Nat /\ f + 1 \in Nat
  BY <1>1, FormatsAreTexts DEF Timely
<1> USE DEF Reading, Defaulting
<1>3. ASSUME NEW q, Past(f + 1, q) PROVE q \in Nat
  BY <1>3 DEF Past
<1>4. Past(f + 1, f + 1)
  BY <1>2 DEF Past
<1>5. FormatEnds \/ FormatEndsEarly \/ Missing \/ Finished => Concludes
  BY <1>1, ReturnConcludes DEF FormatEnds, FormatEndsEarly, Missing, Finished
<1>6. Required => Concludes \/ GoesOn
  BY <1>1, <1>4, ReturnConcludes, ReadGoesOn DEF Required, SimpleRequired, NUL
<1>7. Optional => Concludes \/ GoesOn
  <2>1. SUFFICES ASSUME Optional PROVE Concludes \/ GoesOn
    OBVIOUS
  <2>2. Letter \in SimpleOptional /\ Letter \in Simple /\ Letter # NUL
    BY <2>1 DEF Optional, Simple, SimpleOptional, NUL
  <2>3. Past(f + 1, SkipDefault(format, f + 1))
    BY <1>2, SkipDefaultGoesOn
  <2>4. Past(f + 1, DoDefault(Letter, delim, format, f + 1).p)
    BY <1>2, <2>2, DoDefaultGoesOn
  <2> QED
    BY <1>1, <2>1, <2>2, <2>3, <2>4, ReturnConcludes, ReadGoesOn DEF Optional
<1>8. QuietSection => GoesOn
  BY <1>1, <1>2, <1>4 DEF QuietSection, GoesOn, NUL
<1>9. Delimiters \/ Delimiter => Concludes \/ GoesOn
  <2>1. Past(f + 1, GetMultiType(format, f + 1).p) /\ Past(f + 1, GetSingleType(format, f + 1).p)
    BY <1>2, GetMultiTypeGoesOn, GetSingleTypeGoesOn
  <2> QED
    BY <1>1, <2>1, ReturnConcludes DEF Delimiters, Delimiter, GoesOn, NUL
<1>10. StringDefault \/ DefaultString => GoesOn
  <2>1. Past(f + 1, DoSD(delim, format, f + 1).p)
    BY <1>2, DoSDGoesOn
  <2> QED
    BY <1>1, <2>1, ReadGoesOn, PassGoesOn DEF StringDefault, DefaultString, Strings, Move, GoesOn, NUL
<1>11. String => GoesOn
  <2>1. SUFFICES ASSUME String PROVE GoesOn
    OBVIOUS
  <2> DEFINE next == IF Letter = "s" THEN f + 1 ELSE SkipDefaultEx(format, f + 1)
  <2>2. Past(f + 1, next)
    BY <1>2, <1>4, SkipDefaultExGoesOn
  <2>3. PICK v, q : Read(v, GetLength(format, next, FALSE).p, q)
    BY <2>1 DEF String
  <2> HIDE DEF next
  <2>4. Past(next, GetLength(format, next, FALSE).p)
    BY <1>2, <1>3, <2>2, GetLengthGoesOn
  <2>5. Past(f + 1, GetLength(format, next, FALSE).p)
    BY <1>2, <2>2, <2>4, PastTwice
  <2>6. Letter # NUL
    BY <2>1 DEF String, Strings, NUL
  <2> QED
    BY <1>1, <2>3, <2>5, <2>6, ReadGoesOn
<1>12. UserAbsent => Concludes \/ GoesOn
  <2>1. SUFFICES ASSUME UserAbsent PROVE Concludes \/ GoesOn
    OBVIOUS
  <2> DEFINE next == UserDefault(Letter, gOptions, delim, f + 1).p
  <2>2. Letter \in DOMAIN Kind /\ Letter # NUL
    BY <2>1 DEF UserAbsent, Kind, NUL
  <2>3. Past(f + 1, next)
    BY <1>2, <2>2, UserDefaultGoesOn
  <2>4. \/ ReturnAtOnce
        \/ \E v : Read(v, next, s)
        \/ \E v : Read(v, GetLength(format, next, TRUE).p, s)
    BY <2>1, Zenon DEF UserAbsent
  <2> HIDE DEF next
  <2>5. Past(next, GetLength(format, next, TRUE).p)
    BY <1>2, <1>3, <2>3, GetLengthGoesOn
  <2>6. Past(f + 1, GetLength(format, next, TRUE).p)
    BY <1>2, <2>3, <2>5, PastTwice
  <2> QED
    BY <1>1, <2>2, <2>3, <2>4, <2>6, ReturnConcludes, ReadGoesOn
<1>13. User => Concludes \/ GoesOn
  <2>1. SUFFICES ASSUME User PROVE Concludes \/ GoesOn
    OBVIOUS
  <2> DEFINE next == IF Letter = Kind[Letter] THEN f + 1 ELSE SkipDefault(format, f + 1)
  <2>2. Letter # NUL
    BY <2>1 DEF User, Kind, NUL
  <2>3. Past(f + 1, next)
    BY <1>2, <1>4, SkipDefaultGoesOn
  <2>4. \/ ReturnAtOnce
        \/ \E v, q : Read(v, next, q)
        \/ \E v, q : Read(v, GetLength(format, next, TRUE).p, q)
    BY <2>1, Zenon DEF User
  <2> HIDE DEF next
  <2>5. Past(next, GetLength(format, next, TRUE).p)
    BY <1>2, <1>3, <2>3, GetLengthGoesOn
  <2>6. Past(f + 1, GetLength(format, next, TRUE).p)
    BY <1>2, <2>3, <2>5, PastTwice
  <2> QED
    BY <1>1, <2>2, <2>3, <2>4, <2>6, ReturnConcludes, ReadGoesOn
<1>14. ASSUME NEW p, Past(f + 1, p)
       PROVE  Past(f + 1, GroupDefaults(p).p)
  <2>1. Past(p, Defaults(format, p).p) /\ Past(p, NoDefaults(p).p)
    BY <1>2, <1>3, <1>14, DefaultsGoOn
  <2>2. Past(f + 1, Defaults(format, p).p) /\ Past(f + 1, NoDefaults(p).p)
    BY <1>2, <1>14, <2>1, PastTwice
  <2> QED
    BY <2>2 DEF GroupDefaults
<1>15. Past(f + 1, GetMultiType(format, f + 1).p)
  BY <1>2, GetMultiTypeGoesOn
<1>16. Array => Concludes \/ GoesOn
  <2>1. SUFFICES ASSUME Array PROVE Concludes \/ GoesOn
    OBVIOUS
  <2> DEFINE opts == GroupDefaults(GetMultiType(format, f + 1).p)
             length == GetLength(format, opts.p, TRUE)
  <2>2. Letter # NUL
    BY <2>1 DEF Array, NUL
  <2>3. Past(f + 1, opts.p)
    BY <1>14, <1>15
  <2>4. \/ Return("FAIL")
        \/ \E type, size, defaulted, old : ArrayCells(type, size, length, defaulted, old)
    BY <2>1, ZenonT(60) DEF Array
  <2> HIDE DEF opts
  <2>5. Past(opts.p, length.p)
    BY <1>2, <1>3, <2>3, GetLengthGoesOn
  <2> HIDE DEF length
  <2>6. Past(f + 1, length.p)
    BY <1>2, <2>3, <2>5, PastTwice
  <2>7. Return("FAIL") \/ \E v, q : Read(v, length.p, q)
    BY <2>4 DEF ArrayCells
  <2> QED
    BY <1>1, <2>2, <2>6, <2>7, ReturnConcludes, ReadGoesOn
<1>17. Enum => Concludes \/ GoesOn
  <2>1. SUFFICES ASSUME Enum PROVE Concludes \/ GoesOn
    OBVIOUS
  <2> DEFINE opts == GroupDefaults(GetMultiType(format, f + 1).p)
  <2>2. Letter # NUL
    BY <2>1 DEF Enum, NUL
  <2>3. Past(f + 1, opts.p)
    BY <1>14, <1>15
  <2>4. Return("FAIL") \/ \E cells, d, q : ReadEnum(cells, opts.p, d, q)
    BY <2>1, ZenonT(60) DEF Enum
  <2>5. CASE Return("FAIL")
    BY <1>1, <2>5, ReturnConcludes
  <2>6. CASE \E cells, d, q : ReadEnum(cells, opts.p, d, q)
    <3> HIDE DEF opts
    <3> QED
      BY <1>1, <2>2, <2>3, <2>6 DEF ReadEnum, Move, GoesOn
  <2> QED
    BY <2>4, <2>5, <2>6
<1>18. Kustom => Concludes \/ GoesOn
  <2>1. SUFFICES ASSUME Kustom PROVE Concludes \/ GoesOn
    OBVIOUS
  <2> DEFINE r == DoK(gOptions, delim, format, f + 1, IF phase = "main" THEN string ELSE <<>>, s, Letter = "K")
  <2>2. Letter # NUL
    BY <2>1 DEF Kustom, NUL
  <2>3. Past(f + 1, r.fp)
    <3>1. (Letter = "K") \in BOOLEAN
      OBVIOUS
    <3> QED
      BY <1>2, <3>1, DoKGoesOn
  <2>4. Return("FAIL") \/ Read(r.v, r.fp, r.p)
    BY <2>1 DEF Kustom
  <2> HIDE DEF r
  <2> QED
    BY <1>1, <2>2, <2>3, <2>4, ReturnConcludes, ReadGoesOn
<1>19. SearchLiteral => Concludes \/ GoesOn
  <2>1. SUFFICES ASSUME SearchLiteral PROVE Concludes \/ GoesOn
    OBVIOUS
  <2>2. Letter # NUL
    BY <2>1 DEF SearchLiteral, NUL
  <2>3. f + 1 <= Len(format) + 1
    BY <1>2, <2>2 DEF Letter, Ch
  <2>4. Past(f + 1, Literal(format, f + 1).p)
    BY <1>2, <2>3, LiteralGoesOn
  <2>5. Return("FAIL") \/ (phase' = phase /\ f' = Literal(format, f + 1).p)
    BY <2>1, Zenon DEF SearchLiteral, Move
  <2> QED
    BY <1>1, <2>2, <2>4, <2>5, ReturnConcludes DEF GoesOn
<1>20. Option => Concludes \/ GoesOn
  BY <1>1, <1>15, ReturnConcludes DEF Option, GoesOn, NUL
<1>21. Ignored => GoesOn
  BY <1>1, <1>4, PassGoesOn DEF Ignored, Specifiers
<1>22. Default => GoesOn
  <2>1. SUFFICES ASSUME Default PROVE GoesOn
    OBVIOUS
  <2>2. Letter \in SimpleOptional /\ Letter \in Simple /\ Letter # NUL
    BY <2>1 DEF Default, Simple, SimpleOptional, NUL
  <2>3. Past(f + 1, DoDefault(Letter, delim, format, f + 1).p)
    BY <1>2, <2>2, DoDefaultGoesOn
  <2> QED
    BY <1>1, <2>1, <2>2, <2>3, ReadGoesOn DEF Default
<1>23. DefaultPlayer => GoesOn
  <2>1. SUFFICES ASSUME DefaultPlayer PROVE GoesOn
    OBVIOUS
  <2>2. Letter \in DOMAIN Kind /\ Letter # NUL
    BY <2>1 DEF DefaultPlayer, Kind, NUL
  <2>3. Past(f + 1, UserDefault(Letter, gOptions, delim, f + 1).p)
    BY <1>2, <2>2, UserDefaultGoesOn
  <2> QED
    BY <1>1, <2>1, <2>2, <2>3, ReadGoesOn DEF DefaultPlayer
<1>24. Discarded => GoesOn
  <2>1. Past(f + 1, GetSingleType(format, f + 1).p)
    BY <1>2, GetSingleTypeGoesOn
  <2> QED
    BY <1>1, <1>15, <2>1, PassGoesOn DEF Discarded, NUL
<1>25. LiteralPassed => GoesOn
  <2>1. SUFFICES ASSUME LiteralPassed PROVE GoesOn
    OBVIOUS
  <2>2. Letter # NUL
    BY <2>1 DEF LiteralPassed, NUL
  <2>3. f + 1 <= Len(format) + 1
    BY <1>2, <2>2 DEF Letter, Ch
  <2>4. Past(f + 1, PastIfAny(format, FirstUnescaped(format, f + 1, "'")))
    BY <1>2, <2>3, FirstUnescapedGoesOn, PastIfAnyGoesOn
  <2> QED
    BY <1>1, <2>1, <2>2, <2>4, PassGoesOn DEF LiteralPassed
<1> QED
  BY <1>5, <1>6, <1>7, <1>8, <1>9, <1>10, <1>11, <1>12, <1>13, <1>16, <1>17, <1>18, <1>19, <1>20, <1>21,
     <1>22, <1>23, <1>24, <1>25 DEF Work

\* A step of a call keeps Timely.
LEMMA WorkKeepsTimely == Timely /\ WorkStep => Timely'
<1> SUFFICES ASSUME Timely, WorkStep PROVE Timely'
  OBVIOUS
<1>1. Concludes \/ GoesOn \/ InputEnds
  BY WorkGoesOn DEF WorkStep
<1>2. phase \in {"main", "defaults"} /\ call' = call /\ call \in Calls /\ turns' = turns + 1
  BY <1>1 DEF Concludes, GoesOn, InputEnds, WorkStep, Timely
<1>3. Len(format) \in Nat /\ f \in Nat /\ turns \in Nat /\ format' = format
  BY <1>2, FormatsAreTexts DEF Timely, format
<1>4. CASE Concludes
  <2>1. turns' <= Len(format') + 2 /\ turns' \in Nat
    BY <1>2, <1>3 DEF Timely
  <2>2. f' \in Nat
    BY <1>3, <1>4 DEF Concludes
  <2> QED
    BY <1>2, <1>4, <2>1, <2>2 DEF Concludes, Timely, EndsInTime
<1>5. CASE GoesOn
  <2>1. f \in 1..Len(format)
    BY <1>3, <1>5 DEF GoesOn, Letter, Ch
  <2>2. f' \in Nat /\ f + 1 <= f' /\ phase' = phase
    BY <1>5 DEF GoesOn, Past
  <2> QED
    BY <1>2, <1>3, <2>1, <2>2 DEF Timely, EndsInTime
<1>6. CASE InputEnds
  <2>1. phase = "main" /\ phase' = "defaults" /\ f' = f
    BY <1>6 DEF InputEnds
  <2> QED
    BY <1>2, <1>3, <2>1 DEF Timely, EndsInTime
<1> QED
  BY <1>1, <1>4, <1>5, <1>6

(***************************************************************************)
(* Whatever the format and the text, and whatever the readers make of      *)
(* them: a call takes no more turns of the two loops than the format has   *)
(* characters, and two.                                                    *)
(***************************************************************************)
THEOREM CallsEndInTime == Spec => []EndsInTime
<1>1. Init => Timely
  BY DEF Init, Timely, EndsInTime
<1>2. Timely /\ [Next]_vars => Timely'
  <2> SUFFICES ASSUME Timely, [Next]_vars PROVE Timely'
    OBVIOUS
  <2>1. ASSUME NEW c \in Calls, Call(c) PROVE Timely'
    <3>1. phase' = "main" /\ call' = c /\ turns' = 0 /\ (f' = 2 \/ f' = 1)
      BY <2>1 DEF Call
    <3>2. Len(format') \in Nat
      BY <3>1, CallsAssumption DEF format
    <3> QED
      BY <3>1, <3>2 DEF Timely, EndsInTime
  <2>2. CASE WorkStep
    BY <2>2, WorkKeepsTimely
  <2>3. CASE Returned
    BY <2>3 DEF Returned, Timely, EndsInTime
  <2>4. CASE UNCHANGED callVars
    BY <2>4 DEF callVars, Timely, EndsInTime, format
  <2>5. CASE UNCHANGED vars
    BY <2>5, <2>4 DEF vars, callVars
  <2> QED
    BY <2>1, <2>2, <2>3, <2>4, <2>5 DEF Next
<1>3. Timely => EndsInTime
  BY DEF Timely
<1> QED
  BY <1>1, <1>2, <1>3, PTL DEF Spec

(***************************************************************************)
(* The readers of the text, and what they read: a length is a number, a    *)
(* piece of the format is characters of it, and the position that each     *)
(* returns is not before the one it was given.                             *)
(***************************************************************************)
\* The characters that are digits have a number.
LEMMA DigitsAreNumbers == \A c \in Dec : DigitOf(c) \in Int
<1>1. ASSUME NEW i \in 1..Len(Ascii) PROVE Code[Ascii[i]] \in Int
  <2> DEFINE c == Ascii[i]
             j == CHOOSE k \in 1..Len(Ascii) : Ascii[k] = c
  <2>1. j \in 1..Len(Ascii)
    BY Zenon
  <2>2. c \in {Ascii[k] : k \in 1..Len(Ascii)} \cup {NUL}
    OBVIOUS
  <2>3. Code[c] = IF c = NUL THEN 0 ELSE 31 + j
    BY <2>2, Zenon DEF Code
  <2>4. Len(Ascii) \in Nat
    BY DEF Ascii
  <2> HIDE DEF c, j
  <2>5. j \in Int
    BY <2>1, <2>4
  <2> QED
    BY <2>3, <2>5 DEF c
<1>2. Len(Ascii) = 95
  BY DEF Ascii
<1>3. Dec = {Ascii[17], Ascii[18], Ascii[19], Ascii[20], Ascii[21], Ascii[22], Ascii[23], Ascii[24], Ascii[25], Ascii[26]}
  BY DEF Ascii, Dec, Oct, Bin
<1>4. \A c \in Dec : Code[c] \in Int
  BY <1>1, <1>2, <1>3
<1> QED
  BY <1>4 DEF DigitOf

\* A cell holds an integer.
LEMMA WrapIsAnInteger == \A n \in Int : Wrap(n) \in Int
BY HalfAssumption DEF Wrap

\* Digits are read up to a place of the text.
LEMMA DigitsAreFound ==
  ASSUME NEW S, NEW t \in Seq(S), NEW p \in 1..(Len(t) + 1), NEW digits
  PROVE  /\ FirstAt(t, p, LAMBDA c : c \notin digits) \in p..(Len(t) + 1)
         /\ \A q \in p..(FirstAt(t, p, LAMBDA c : c \notin digits) - 1) : t[q] \in digits
<1> DEFINE hits == {q \in p..Len(t) : t[q] \notin digits}
           e == FirstAt(t, p, LAMBDA c : c \notin digits)
<1>1. hits \in SUBSET (p..Len(t)) /\ hits \in SUBSET Nat
  OBVIOUS
<1>2. e = IF hits # {} THEN CHOOSE q \in hits : \A r \in hits : q <= r
          ELSE IF p > Len(t) THEN p ELSE Len(t) + 1
  BY Zenon DEF FirstAt
<1>3. \A q \in p..Len(t) : q \in hits \/ t[q] \in digits
  OBVIOUS
<1> HIDE DEF hits
<1>4. CASE hits = {}
  <2>1. e = Len(t) + 1
    BY <1>2, <1>4
  <2> HIDE DEF e
  <2>2. e \in p..(Len(t) + 1) /\ \A q \in p..(e - 1) : t[q] \in digits
    BY <1>3, <1>4, <2>1
  <2> QED
    BY <2>2 DEF e
<1>5. CASE hits # {}
  <2>1. \E q \in hits : \A r \in hits : q <= r
    BY <1>1, <1>5, Least, Zenon
  <2>2. e \in hits /\ \A r \in hits : e <= r
    BY <1>2, <1>5, <2>1, Zenon
  <2> HIDE DEF e
  <2>3. e \in p..Len(t)
    BY <1>1, <2>2
  <2>4. e \in p..(Len(t) + 1) /\ \A q \in p..(e - 1) : t[q] \in digits
    BY <1>3, <2>2, <2>3
  <2> QED
    BY <2>4 DEF e
<1> QED
  BY <1>4, <1>5

(* A number with one digit more *)
NextDigit(a, c) == Wrap(a * 10 + DigitOf(c))

\* A number with one more decimal digit is a number.
LEMMA NextDigitIsANumber == \A a \in Int, c \in Dec : NextDigit(a, c) \in Int
BY DigitsAreNumbers, WrapIsAnInteger DEF NextDigit

\* So that they make a number.
LEMMA DigitsMakeANumber ==
  ASSUME NEW S, NEW t \in Seq(S), NEW p \in 1..(Len(t) + 1), NEW sign \in Int
  PROVE  Digits(t, p, Dec, 10, sign).v \in Int
<1> DEFINE e == FirstAt(t, p, LAMBDA c : c \notin Dec)
           seq == SubSeq(t, p, e - 1)
           n == e - p
           T == Int
           none == 0
           op == [x \in T \X Dec |-> NextDigit(x[1], x[2])]
           indices == DOMAIN seq
           Solves(iter) ==
             iter = [u \in SUBSET indices |->
                       IF u = {} THEN none ELSE NextDigit(iter[u \ {Max(u)}], seq[Max(u)])]
           fold == CHOOSE iter : Solves(iter)
<1>1. Digits(t, p, Dec, 10, sign).v = Wrap(sign * fold[indices])
  BY Zenon DEF Digits, FoldLeft, MapThenFoldSet, NextDigit
<1>2. e \in p..(Len(t) + 1) /\ \A q \in p..(e - 1) : t[q] \in Dec
  BY DigitsAreFound
<1> HIDE DEF e
<1>3. n \in Nat /\ indices = 1..n /\ \A k \in 1..n : seq[k] \in Dec
  BY <1>2
<1> HIDE DEF n, seq, indices
<1>4. \A a \in T, c \in Dec : op[<<a, c>>] = NextDigit(a, c) /\ op[<<a, c>>] \in T
  BY NextDigitIsANumber
<1>14. \A a \in T, c \in Dec : NextDigit(a, c) \in T
  BY NextDigitIsANumber
<1>11. none \in T
  OBVIOUS
<1> HIDE DEF op, T, none
<1>5. PICK g \in [SUBSET (1..n) -> T] : Folds(g, none, op, seq, n)
  BY <1>3, <1>4, <1>11, FoldExists
<1>6. Solves(g)
  <2>1. ASSUME NEW u \in SUBSET (1..n), u # {}
        PROVE  op[<<g[u \ {Max(u)}], seq[Max(u)]>>] = NextDigit(g[u \ {Max(u)}], seq[Max(u)])
    <3>1. Max(u) \in 1..n
      BY <1>3, <2>1, Largest
    <3>2. seq[Max(u)] \in Dec /\ g[u \ {Max(u)}] \in T
      BY <1>3, <1>5, <3>1
    <3> QED
      BY <1>4, <3>2
  <2>2. \A u \in SUBSET (1..n) :
          g[u] = IF u = {} THEN none ELSE NextDigit(g[u \ {Max(u)}], seq[Max(u)])
    BY <1>5, <2>1 DEF Folds
  <2> QED
    BY <1>3, <2>2
<1>7. Solves(fold)
  <2> HIDE DEF Solves
  <2> QED
    BY <1>6
<1> HIDE DEF fold
<1>8. fold[{}] = none
  BY <1>7, <1>3
<1>9. ASSUME NEW k \in 1..n PROVE fold[1..k] = NextDigit(fold[1..(k - 1)], seq[k])
  <2>1. 1..k \in SUBSET (1..n) /\ 1..k # {} /\ Max(1..k) = k /\ (1..k) \ {k} = 1..(k - 1)
    BY <1>3, UpTo
  <2> QED
    BY <1>7, <1>3, <2>1
<1> HIDE DEF Solves
<1>10. fold[1..n] \in T
  <2>1. \A k \in 1..n : fold[1..(k - 1)] \in T => fold[1..k] \in T
    BY <1>3, <1>9, <1>14
  <2> QED
    BY <1>3, <1>8, <1>11, <2>1, FoldKeeps
<1>12. fold[indices] \in Int
  BY <1>3, <1>10 DEF T
<1>13. sign * fold[indices] \in Int
  BY <1>12
<1> QED
  BY <1>1, <1>13, WrapIsAnInteger

\* A length is a natural number, 0 only where that is an error.
LEMMA LengthsAreNumbers ==
  ASSUME NEW S, NEW t \in Seq(S), NEW p \in Nat, NEW error \in BOOLEAN
  PROVE  GetLength(t, p, error).v \in Nat
<1>1. CASE Ch(t, p) # "["
  BY <1>1 DEF GetLength, SSCANF_MAX_LENGTH
<1>2. CASE Ch(t, p) = "["
  <2>1. p \in 1..Len(t) /\ p + 1 \in 1..(Len(t) + 1)
    BY <1>2 DEF Ch, NUL
  <2>2. Unsigned(t, p + 1) \in 1..(Len(t) + 1)
    BY <2>1 DEF Unsigned, Ch, NUL
  <2>3. Digits(t, Unsigned(t, p + 1), Dec, 10, Sign(t, p + 1)).v \in Int
    <3>1. Sign(t, p + 1) \in Int
      BY DEF Sign
    <3> QED
      BY <2>2, <3>1, DigitsMakeANumber
  <2>4. GetDec(t, p + 1).v \in Int
    BY <2>3 DEF GetDec, Nothing
  <2>5. GetLength(t, p, error).v =
          IF GetDec(t, p + 1).v <= 0 THEN (IF error THEN 0 ELSE SSCANF_MAX_LENGTH) ELSE GetDec(t, p + 1).v
    BY <1>2 DEF GetLength
  <2> QED
    BY <2>4, <2>5 DEF SSCANF_MAX_LENGTH
<1> QED
  BY <1>1, <1>2

(* A literal without its escapes, one character further *)
BareStep(t, p, end, a, q) ==
  IF t[q] = "\\" /\ (q + 1 < end /\ t[q + 1] \in {"\\", "'"}) /\ ~EscapedAt(t, p, q) THEN a
  ELSE Append(a, t[q])

\* A literal is characters of the format, and so is what the plugin leaves of that.
LEMMA LiteralsAreTexts ==
  ASSUME NEW S, NEW t \in Seq(S), NEW p \in 1..(Len(t) + 1)
  PROVE  Literal(t, p).size \in Nat /\ Literal(t, p).rest \in Seq(S)
<1> DEFINE end == FirstUnescaped(t, p, "'")
           n == end - p
           E == p..(end - 1)
           seq == [k \in 1..end - p |-> p + k - 1]
           T == Seq(S)
           none == <<>>
           op == [x \in T \X E |-> BareStep(t, p, end, x[1], x[2])]
           indices == DOMAIN seq
           Solves(iter) ==
             iter = [u \in SUBSET indices |->
                       IF u = {} THEN none ELSE BareStep(t, p, end, iter[u \ {Max(u)}], seq[Max(u)])]
           fold == CHOOSE iter : Solves(iter)
           lit == fold[indices]
           Sought(x) ==
             IF Ch(t, end) = "'"
             THEN [needle |-> x, size |-> Len(x), p |-> end + 1, rest |-> SubSeq(t, 1, p - 1) \o x]
             ELSE [needle |-> x \o SubSeq(t, p + Len(x), Len(t)), size |-> Len(x), p |-> end, rest |-> t]
<1>1. Literal(t, p) = Sought(lit)
  BY Zenon DEF Literal, FoldLeft, MapThenFoldSet, BareStep
<1>2. end \in p..(Len(t) + 1)
  BY FirstUnescapedGoesOn DEF Past
<1> HIDE DEF end
<1>3. n \in Nat /\ indices = 1..n /\ \A k \in 1..n : seq[k] \in E
  BY <1>2
<1>4. \A q \in E : t[q] \in S
  BY <1>2
<1> HIDE DEF n, seq, indices
<1>5. \A a \in T, q \in E : BareStep(t, p, end, a, q) \in T
  BY <1>4 DEF BareStep
<1>6. \A a \in T, q \in E : op[<<a, q>>] = BareStep(t, p, end, a, q)
  OBVIOUS
<1>7. \A a \in T, q \in E : op[<<a, q>>] \in T
  BY <1>5, <1>6
<1>8. none \in T
  OBVIOUS
<1> HIDE DEF op, T, none, E
<1>9. PICK g \in [SUBSET (1..n) -> T] : Folds(g, none, op, seq, n)
  BY <1>3, <1>7, <1>8, FoldExists
<1>10. Solves(g)
  <2>1. ASSUME NEW u \in SUBSET (1..n), u # {}
        PROVE  op[<<g[u \ {Max(u)}], seq[Max(u)]>>] = BareStep(t, p, end, g[u \ {Max(u)}], seq[Max(u)])
    <3>1. Max(u) \in 1..n
      BY <1>3, <2>1, Largest
    <3>2. seq[Max(u)] \in E /\ g[u \ {Max(u)}] \in T
      BY <1>3, <1>9, <3>1
    <3> QED
      BY <1>6, <3>2
  <2>2. \A u \in SUBSET (1..n) :
          g[u] = IF u = {} THEN none ELSE BareStep(t, p, end, g[u \ {Max(u)}], seq[Max(u)])
    BY <1>9, <2>1 DEF Folds
  <2> QED
    BY <1>3, <2>2
<1>11. Solves(fold)
  <2> HIDE DEF Solves
  <2> QED
    BY <1>10
<1> HIDE DEF fold
<1>12. fold[{}] = none
  BY <1>3, <1>11
<1>13. ASSUME NEW k \in 1..n PROVE fold[1..k] = BareStep(t, p, end, fold[1..(k - 1)], seq[k])
  <2>1. 1..k \in SUBSET (1..n) /\ 1..k # {} /\ Max(1..k) = k /\ (1..k) \ {k} = 1..(k - 1)
    BY <1>3, UpTo
  <2> QED
    BY <1>3, <1>11, <2>1
<1> HIDE DEF Solves
<1>14. fold[1..n] \in T
  <2>1. \A k \in 1..n : fold[1..(k - 1)] \in T => fold[1..k] \in T
    BY <1>3, <1>5, <1>13
  <2> QED
    BY <1>3, <1>8, <1>12, <2>1, FoldKeeps
<1>15. lit \in Seq(S)
  BY <1>3, <1>14 DEF T
<1> HIDE DEF lit
<1>16. SubSeq(t, 1, p - 1) \in Seq(S)
  OBVIOUS
<1>17. SubSeq(t, 1, p - 1) \o lit \in Seq(S)
  BY <1>15, <1>16
<1> QED
  BY <1>1, <1>15, <1>17

\* It is found in the text from p on, or not at all.
LEMMA FoundIsPast ==
  ASSUME NEW t, Len(t) \in Nat, NEW p \in Nat, NEW needle
  PROVE  Find(t, p, needle) = 0 \/ Past(p, Find(t, p, needle))
<1> DEFINE hits == {q \in p..Len(t) + 1 : /\ q + Len(needle) - 1 <= Len(t)
                                          /\ SubSeq(t, q, q + Len(needle) - 1) = needle}
<1>1. Find(t, p, needle) = IF hits = {} THEN 0 ELSE CHOOSE q \in hits : \A r \in hits : q <= r
  BY Zenon DEF Find
<1>2. hits \in SUBSET Nat /\ \A q \in hits : p <= q
  OBVIOUS
<1> HIDE DEF hits
<1>3. CASE hits # {}
  <2>1. \E q \in hits : \A r \in hits : q <= r
    BY <1>2, <1>3, Least, Zenon
  <2>2. Find(t, p, needle) \in hits
    BY <1>1, <1>3, <2>1, Zenon
  <2> QED
    BY <1>2, <2>2 DEF Past
<1> QED
  BY <1>1, <1>3

\* The readers of the text go on too.
LEMMA SkipOneSpacerGoesOn ==
  ASSUME NEW t, Len(t) \in Nat, NEW p \in Nat, NEW q, Past(p, q), NEW d
  PROVE  Past(p, SkipOneSpacer(d, t, q))
<1> DEFINE a == SkipWhitespace(t, q)
<1>1. q \in Nat
  BY DEF Past
<1>2. Past(q, a)
  BY <1>1, SkipWhitespaceGoesOn DEF Onward
<1>3. a + 1 \in Nat /\ q <= a + 1
  BY <1>1, <1>2 DEF Past
<1>4. Past(a + 1, SkipWhitespace(t, a + 1))
  BY <1>3, SkipWhitespaceGoesOn DEF Onward
<1>5. SkipOneSpacer(d, t, q) = IF IsDelimiter(d, Ch(t, a)) THEN SkipWhitespace(t, a + 1) ELSE a
  BY DEF SkipOneSpacer
<1> HIDE DEF a
<1> QED
  BY <1>1, <1>2, <1>3, <1>4, <1>5 DEF Past

\* A single value is read onward in the text.
LEMMA DoGoesOn ==
  ASSUME NEW t, Len(t) \in Nat, NEW p \in Nat, NEW d, NEW sp \in Simple
  PROVE  Past(p, Do(sp, d, t, p).p)
BY GetGoesOn DEF Do

\* So is one in a group, a player included.
LEMMA ReadValueGoesOn ==
  ASSUME NEW t, Len(t) \in Nat, NEW p \in Nat, NEW d, NEW sp, NEW defaults, NEW options
  PROVE  Past(p, ReadValue(sp, defaults, options, d, t, p).p)
<1>1. sp \in Simple => Past(p, Do(sp, d, t, p).p)
  BY DoGoesOn
<1>2. Past(p, ReadUser(sp, options, d, t, p).p)
  BY FindSpacerGoesOn DEF ReadUser, GetUserString
<1>3. "i" \in Simple
  BY DEF Simple, SimpleRequired
<1>4. Past(p, Do("i", d, t, p).p)
  BY <1>3, DoGoesOn
<1>5. [Do("i", d, t, p) EXCEPT !.ok = TRUE].p = Do("i", d, t, p).p
  BY DEF Do
<1> QED
  BY <1>1, <1>2, <1>4, <1>5 DEF ReadValue, DefaultUser

\* A character that does not end a string is one of the text.
LEMMA WithinTheText ==
  ASSUME NEW t, Len(t) \in Nat, NEW p, Ch(t, p) # NUL
  PROVE  p \in 1..Len(t) /\ p \in Nat /\ p \in 1..(Len(t) + 1)
BY DEF Ch

\* A type of the script moves on in the format and in the text.
LEMMA DoKReadsOn ==
  ASSUME NEW t, Len(t) \in Nat, NEW p \in Nat, NEW type, NEW n, NEW options, NEW d, NEW optional \in BOOLEAN
  PROVE  Past(p, DoK(options, d, type, n, t, p, optional).p)
<1> DEFINE word == DoS(d, t, p, Len(t) + 2, FALSE)
<1>1. \/ DoK(options, d, type, n, t, p, optional).p = p
      \/ ~IsStringEnd(d, Ch(t, p)) /\ DoK(options, d, type, n, t, p, optional).p = word.p
  BY DEF DoK
<1>2. IsStringEnd(d, NUL)
  BY DEF IsStringEnd, IsWhitespace, NUL
<1>3. ~IsStringEnd(d, Ch(t, p)) => Past(p, word.p)
  BY <1>2, WithinTheText, DoSGoesOn
<1> HIDE DEF word
<1> QED
  BY <1>1, <1>3 DEF Past

(***************************************************************************)
(* Arrays and enumerations are folds over their values: what is true of    *)
(* the place in the text after each of them is true after them all.        *)
(***************************************************************************)
\* A length that may be left out is above zero in any case.
LEMMA PositiveLengths ==
  ASSUME NEW S, NEW t \in Seq(S), NEW p \in Nat
  PROVE  GetLength(t, p, FALSE).v \in Nat \ {0}
<1> DEFINE v == GetLength(t, p, FALSE).v
<1>1. v \in Nat
  BY LengthsAreNumbers
<1>2. v = SSCANF_MAX_LENGTH \/ ~(v <= 0)
  BY DEF GetLength
<1> HIDE DEF v
<1>3. v # 0
  BY <1>1, <1>2 DEF SSCANF_MAX_LENGTH
<1> QED
  BY <1>1, <1>3 DEF v

\* A string takes its cells.
LEMMA StringCellsTyped ==
  ASSUME NEW V, Untouched \in V, NEW v, NEW size \in Nat \ {0}, CutTo(v, size) \in V
  PROVE  StringCells(v, size) \in Seq(V)
<1>1. Times(Untouched, size - 1) \in Seq(V)
  BY DEF Times
<1>2. <<CutTo(v, size)>> \in Seq(V)
  OBVIOUS
<1> QED
  BY <1>1, <1>2 DEF StringCells

(* ArrayStrings, one string further *)
StringRead(size, d, t, length, saves, whole, q, k) ==
  DoS(d, t, q, IF saves THEN SlotLength(length, size, k) ELSE Len(t) + 2, whole /\ k = length)

StringsStep(size, d, t, length, saves, whole, a, k) ==
  LET Note(r) == [a EXCEPT !.cells = @ \o StringCells(r.v, size), !.p = SkipOneSpacer(d, t, r.p)]
  IN  IF Ch(t, a.p) = NUL THEN a ELSE Note(StringRead(size, d, t, length, saves, whole, a.p, k))

StringsCells(size, d, t, length, saves, whole) ==
  {Untouched} \cup
  {CutTo(StringRead(size, d, t, length, saves, whole, q, k).v, size) : q \in Nat, k \in 1..length}

StringsRead(size, d, t, p, length, saves, whole) ==
  [cells : Seq(StringsCells(size, d, t, length, saves, whole)), p : {q \in Nat : p <= q}]

\* One string further in an array of strings.
LEMMA StringsStepTyped ==
  ASSUME NEW size \in Nat \ {0}, NEW d, NEW t, Len(t) \in Nat, NEW p \in Nat, NEW length \in Nat, NEW saves, NEW whole,
         NEW a \in StringsRead(size, d, t, p, length, saves, whole), NEW k \in 1..length
  PROVE  StringsStep(size, d, t, length, saves, whole, a, k) \in StringsRead(size, d, t, p, length, saves, whole)
<1> DEFINE V == StringsCells(size, d, t, length, saves, whole)
           T == [cells : Seq(V), p : {q \in Nat : p <= q}]
           r == StringRead(size, d, t, length, saves, whole, a.p, k)
<1>1. a \in T /\ a.p \in Nat /\ p <= a.p /\ a.cells \in Seq(V)
  BY DEF StringsRead
<1>2. CutTo(r.v, size) \in V /\ Untouched \in V
  BY <1>1 DEF StringsCells
<1>3. Ch(t, a.p) # NUL => Past(a.p, SkipOneSpacer(d, t, r.p))
  BY <1>1, WithinTheText, DoSGoesOn, SkipOneSpacerGoesOn DEF StringRead
<1>4. StringsStep(size, d, t, length, saves, whole, a, k) =
        IF Ch(t, a.p) = NUL THEN a
        ELSE [a EXCEPT !.cells = @ \o StringCells(r.v, size), !.p = SkipOneSpacer(d, t, r.p)]
  BY DEF StringsStep
<1>5. T = StringsRead(size, d, t, p, length, saves, whole)
  BY DEF StringsRead
<1> HIDE DEF r, V
<1>6. StringCells(r.v, size) \in Seq(V)
  BY <1>2, StringCellsTyped
<1>7. a.cells \o StringCells(r.v, size) \in Seq(V)
  BY <1>1, <1>6
<1> DEFINE P == {q \in Nat : p <= q}
           Q == Seq(V)
<1>8. ASSUME NEW cells \in Seq(V), NEW q, Past(a.p, q)
      PROVE  [a EXCEPT !.cells = cells, !.p = q] \in T
  <2>1. q \in P
    BY <1>1, <1>8 DEF Past
  <2>2. T = [cells : Q, p : P] /\ cells \in Q
    OBVIOUS
  <2> HIDE DEF P, Q, T
  <2> QED
    BY <1>1, <2>1, <2>2
<1> HIDE DEF T
<1>9. CASE Ch(t, a.p) = NUL
  BY <1>1, <1>4, <1>5, <1>9
<1>10. CASE Ch(t, a.p) # NUL
  BY <1>3, <1>4, <1>5, <1>7, <1>8, <1>10, Zenon
<1> QED
  BY <1>9, <1>10

\* Strings are read on.
LEMMA StringsGoOn ==
  ASSUME NEW size \in Nat \ {0}, NEW d, NEW t, Len(t) \in Nat, NEW p \in Nat, NEW length \in Nat,
         NEW saves, NEW whole
  PROVE  Past(p, ArrayStrings(size, d, t, p, length, saves, whole).p)
<1> DEFINE n == length
           T == StringsRead(size, d, t, p, length, saves, whole)
           none == [cells |-> <<>>, p |-> p]
           E == 1..length
           seq == [k \in 1..length |-> k]
           Step(a, k) == StringsStep(size, d, t, length, saves, whole, a, k)
           op == [x \in T \X E |-> Step(x[1], x[2])]
           indices == DOMAIN seq
           Solves(iter) ==
             iter = [u \in SUBSET indices |->
                       IF u = {} THEN none ELSE Step(iter[u \ {Max(u)}], seq[Max(u)])]
           fold == CHOOSE iter : Solves(iter)
<1>1. ArrayStrings(size, d, t, p, length, saves, whole) = fold[indices]
  BY Zenon DEF ArrayStrings, FoldLeft, MapThenFoldSet, StringsStep, StringRead
<1>2. n \in Nat /\ indices = 1..n /\ \A k \in 1..n : seq[k] \in E
  OBVIOUS
<1>3. \A a \in T, k \in E : Step(a, k) \in T
  BY StringsStepTyped
<1>4. none \in T
  <2>1. <<>> \in Seq(StringsCells(size, d, t, length, saves, whole))
    OBVIOUS
  <2>2. p \in {q \in Nat : p <= q}
    OBVIOUS
  <2> QED
    BY <2>1, <2>2 DEF StringsRead
<1>5. \A a \in T : Past(p, a.p)
  BY DEF StringsRead, Past
<1> HIDE DEF n, seq, indices, T, none, E, Step
<1>6. \A a \in T, k \in E : op[<<a, k>>] = Step(a, k)
  OBVIOUS
<1>7. \A a \in T, k \in E : op[<<a, k>>] \in T
  BY <1>3, <1>6
<1> HIDE DEF op
<1>8. PICK g \in [SUBSET (1..n) -> T] : Folds(g, none, op, seq, n)
  BY <1>2, <1>4, <1>7, FoldExists
<1>9. Solves(g)
  <2>1. ASSUME NEW u \in SUBSET (1..n), u # {}
        PROVE  op[<<g[u \ {Max(u)}], seq[Max(u)]>>] = Step(g[u \ {Max(u)}], seq[Max(u)])
    <3>1. Max(u) \in 1..n
      BY <1>2, <2>1, Largest
    <3>2. seq[Max(u)] \in E /\ g[u \ {Max(u)}] \in T
      BY <1>2, <1>8, <3>1
    <3> QED
      BY <1>6, <3>2
  <2>2. \A u \in SUBSET (1..n) :
          g[u] = IF u = {} THEN none ELSE Step(g[u \ {Max(u)}], seq[Max(u)])
    BY <1>8, <2>1 DEF Folds
  <2> QED
    BY <1>2, <2>2
<1>10. Solves(fold)
  <2> HIDE DEF Solves
  <2> QED
    BY <1>9
<1> HIDE DEF fold
<1>11. fold[{}] = none
  BY <1>2, <1>10
<1>12. ASSUME NEW k \in 1..n PROVE fold[1..k] = Step(fold[1..(k - 1)], seq[k])
  <2>1. 1..k \in SUBSET (1..n) /\ 1..k # {} /\ Max(1..k) = k /\ (1..k) \ {k} = 1..(k - 1)
    BY <1>2, UpTo
  <2> QED
    BY <1>2, <1>10, <2>1
<1> HIDE DEF Solves
<1>13. fold[1..n] \in T
  <2>1. \A k \in 1..n : fold[1..(k - 1)] \in T => fold[1..k] \in T
    BY <1>2, <1>3, <1>12
  <2> QED
    BY <1>2, <1>4, <1>11, <2>1, FoldKeeps
<1> QED
  BY <1>1, <1>2, <1>5, <1>13

(* Values of the input, one further *)
CellRead(type, options, d, t, q) ==
  IF type[1] \in {"k", "K"} THEN DoK(options, d, type, 2, t, q, FALSE)
  ELSE ReadValue(type[1], FALSE, options, d, t, q)

CellsStep(type, options, d, t, a) ==
  LET Note(r) ==
        IF ~r.ok THEN [a EXCEPT !.stop = TRUE, !.p = r.p]
        ELSE [a EXCEPT !.cells = Append(@, r.v), !.p = SkipOneSpacer(d, t, r.p),
                       !.diff = Difference(type[1], a.cells, r.v)]
  IN  IF a.stop \/ Ch(t, a.p) = NUL THEN a ELSE Note(CellRead(type, options, d, t, a.p))

CellValues(type, options, d, t) == {CellRead(type, options, d, t, q).v : q \in Nat}

CellsRead(type, options, d, t, p) ==
  [stop : BOOLEAN, cells : Seq(CellValues(type, options, d, t)), p : {q \in Nat : p <= q},
   diff : {0} \cup {Difference(type[1], cells, v) : cells \in Seq(CellValues(type, options, d, t)),
                                                    v \in CellValues(type, options, d, t)}]

\* What reads one cell of an array, whichever type it has.
LEMMA CellReadGoesOn ==
  ASSUME NEW type, NEW options, NEW d, NEW t, Len(t) \in Nat, NEW p \in Nat
  PROVE  Past(p, CellRead(type, options, d, t, p).p)
<1>1. FALSE \in BOOLEAN
  OBVIOUS
<1>2. Past(p, DoK(options, d, type, 2, t, p, FALSE).p)
  BY <1>1, DoKReadsOn
<1>3. Past(p, ReadValue(type[1], FALSE, options, d, t, p).p)
  BY ReadValueGoesOn
<1> QED
  BY <1>2, <1>3 DEF CellRead

\* One value further in an array.
LEMMA CellsStepTyped ==
  ASSUME NEW type, NEW options, NEW d, NEW t, Len(t) \in Nat, NEW p \in Nat,
         NEW a \in CellsRead(type, options, d, t, p)
  PROVE  CellsStep(type, options, d, t, a) \in CellsRead(type, options, d, t, p)
<1> DEFINE V == CellValues(type, options, d, t)
           Q == Seq(V)
           P == {q \in Nat : p <= q}
           D == {0} \cup {Difference(type[1], cells, v) : cells \in Q, v \in V}
           T == [stop : BOOLEAN, cells : Q, p : P, diff : D]
           r == CellRead(type, options, d, t, a.p)
           next == SkipOneSpacer(d, t, r.p)
           diff == Difference(type[1], a.cells, r.v)
<1>1. T = CellsRead(type, options, d, t, p)
  BY DEF CellsRead
<1> HIDE DEF T
<1>2. a \in T
  BY <1>1
<1>3. a.p \in Nat /\ p <= a.p /\ a.cells \in Q
  BY <1>2 DEF T
<1>4. r.v \in V
  BY <1>3 DEF CellValues
<1>5. Past(a.p, r.p)
  BY <1>3, CellReadGoesOn
<1>6. CellsStep(type, options, d, t, a) =
        IF a.stop \/ Ch(t, a.p) = NUL THEN a
        ELSE IF ~r.ok THEN [a EXCEPT !.stop = TRUE, !.p = r.p]
        ELSE [a EXCEPT !.cells = Append(@, r.v), !.p = next, !.diff = diff]
  BY DEF CellsStep
<1> HIDE DEF r
<1>7. Past(a.p, next)
  BY <1>3, <1>5, SkipOneSpacerGoesOn
<1> HIDE DEF next, V
<1>8. Append(a.cells, r.v) \in Q
  BY <1>3, <1>4
<1>9. diff \in D
  BY <1>3, <1>4
<1>10. r.p \in P /\ next \in P
  BY <1>3, <1>5, <1>7 DEF Past
<1> HIDE DEF P, Q, D, diff
<1>11. [a EXCEPT !.stop = TRUE, !.p = r.p] \in T
  BY <1>2, <1>10 DEF T
<1>12. [a EXCEPT !.cells = Append(@, r.v), !.p = next, !.diff = diff] \in T
  BY <1>2, <1>8, <1>9, <1>10 DEF T
<1> QED
  BY <1>1, <1>2, <1>6, <1>11, <1>12

\* Values are read on.
LEMMA ValuesGoOn ==
  ASSUME NEW type, NEW options, NEW d, NEW t, Len(t) \in Nat, NEW p \in Nat, NEW length \in Nat,
         NEW size, NEW saves, NEW whole, type[1] # "s"
  PROVE  Past(p, ArrayInput(type, size, options, d, t, p, length, saves, whole).p)
<1> DEFINE n == length
           T == CellsRead(type, options, d, t, p)
           none == [stop |-> FALSE, cells |-> <<>>, p |-> p, diff |-> 0]
           E == {0}
           seq == [k \in 1..length |-> 0]
           Step(a) == CellsStep(type, options, d, t, a)
           op == [x \in T \X E |-> Step(x[1])]
           indices == DOMAIN seq
           Solves(iter) ==
             iter = [u \in SUBSET indices |-> IF u = {} THEN none ELSE Step(iter[u \ {Max(u)}])]
           fold == CHOOSE iter : Solves(iter)
<1>1. ArrayInput(type, size, options, d, t, p, length, saves, whole).p = fold[indices].p
  BY Zenon DEF ArrayInput, CellRead, Values, FoldLeft, MapThenFoldSet, CellsStep, Times
<1>2. n \in Nat /\ indices = 1..n /\ \A k \in 1..n : seq[k] \in E
  OBVIOUS
<1>3. \A a \in T : Step(a) \in T
  BY CellsStepTyped
<1>4. none \in T
  <2>1. <<>> \in Seq(CellValues(type, options, d, t))
    OBVIOUS
  <2>2. p \in {q \in Nat : p <= q}
    OBVIOUS
  <2> QED
    BY <2>1, <2>2 DEF CellsRead
<1>5. \A a \in T : Past(p, a.p)
  BY DEF CellsRead, Past
<1> HIDE DEF n, seq, indices, T, none, E, Step
<1>6. \A a \in T, k \in E : op[<<a, k>>] = Step(a)
  OBVIOUS
<1>7. \A a \in T, k \in E : op[<<a, k>>] \in T
  BY <1>3, <1>6
<1> HIDE DEF op
<1>8. PICK g \in [SUBSET (1..n) -> T] : Folds(g, none, op, seq, n)
  BY <1>2, <1>4, <1>7, FoldExists
<1>9. Solves(g)
  <2>1. ASSUME NEW u \in SUBSET (1..n), u # {}
        PROVE  op[<<g[u \ {Max(u)}], seq[Max(u)]>>] = Step(g[u \ {Max(u)}])
    <3>1. Max(u) \in 1..n
      BY <1>2, <2>1, Largest
    <3>2. seq[Max(u)] \in E /\ g[u \ {Max(u)}] \in T
      BY <1>2, <1>8, <3>1
    <3> QED
      BY <1>6, <3>2
  <2>2. \A u \in SUBSET (1..n) :
          g[u] = IF u = {} THEN none ELSE Step(g[u \ {Max(u)}])
    BY <1>8, <2>1 DEF Folds
  <2> QED
    BY <1>2, <2>2
<1>10. Solves(fold)
  <2> HIDE DEF Solves
  <2> QED
    BY <1>9
<1> HIDE DEF fold
<1>11. fold[{}] = none
  BY <1>2, <1>10
<1>12. ASSUME NEW k \in 1..n PROVE fold[1..k] = Step(fold[1..(k - 1)])
  <2>1. 1..k \in SUBSET (1..n) /\ 1..k # {} /\ Max(1..k) = k /\ (1..k) \ {k} = 1..(k - 1)
    BY <1>2, UpTo
  <2> QED
    BY <1>2, <1>10, <2>1
<1> HIDE DEF Solves
<1>13. fold[1..n] \in T
  <2>1. \A k \in 1..n : fold[1..(k - 1)] \in T => fold[1..k] \in T
    BY <1>2, <1>3, <1>12
  <2> QED
    BY <1>2, <1>4, <1>11, <2>1, FoldKeeps
<1> QED
  BY <1>1, <1>2, <1>5, <1>13

\* An array of whatever type goes on in the text.
LEMMA ArrayInputGoesOn ==
  ASSUME NEW type, NEW size \in Nat \ {0}, NEW options, NEW d, NEW t, Len(t) \in Nat, NEW p \in Nat,
         NEW length \in Nat, NEW saves, NEW whole
  PROVE  Past(p, ArrayInput(type, size, options, d, t, p, length, saves, whole).p)
<1>1. CASE type[1] = "s"
  BY <1>1, StringsGoOn DEF ArrayInput
<1>2. CASE type[1] # "s"
  BY <1>2, ValuesGoOn
<1> QED
  BY <1>1, <1>2

\* What is in brackets is characters of the format.
LEMMA TypesAreTexts ==
  ASSUME NEW S, NEW t \in Seq(S), NEW p \in Nat
  PROVE  GetMultiType(t, p).v \in Seq(S) /\ CutAt(t, GetMultiType(t, p)) \in Seq(S)
<1> DEFINE multi == GetMultiType(t, p)
<1>1. Past(p, multi.p)
  BY GetMultiTypeGoesOn
<1>2. \/ ~multi.ok /\ multi.v = <<>>
      \/ \E q : Ch(t, q) # NUL /\ multi.p = q + 1 /\ multi.v = SubSeq(t, p + 1, q - 1) /\ Ch(t, p) # NUL
  <2> DEFINE Between(e) == IF Ch(t, e) = NUL THEN [ok |-> FALSE, v |-> <<>>, p |-> e]
                           ELSE [ok |-> TRUE, v |-> SubSeq(t, p + 1, e - 1), p |-> e + 1]
  <2>1. PICK q : multi = IF Ch(t, p) # "<" THEN [ok |-> FALSE, v |-> <<>>, p |-> p] ELSE Between(q)
    BY Zenon DEF GetMultiType
  <2> HIDE DEF multi
  <2>2. CASE Ch(t, p) # "<" \/ Ch(t, q) = NUL
    BY <2>1, <2>2
  <2>3. CASE Ch(t, p) = "<" /\ Ch(t, q) # NUL
    <3>1. multi = [ok |-> TRUE, v |-> SubSeq(t, p + 1, q - 1), p |-> q + 1]
      BY <2>1, <2>3
    <3>2. multi.p = q + 1 /\ multi.v = SubSeq(t, p + 1, q - 1)
      BY <3>1
    <3>3. Ch(t, p) # NUL
      BY <2>3 DEF NUL
    <3> QED
      BY <2>3, <3>2, <3>3
  <2> QED
    BY <2>2, <2>3
<1> HIDE DEF multi
<1>3. CASE ~multi.ok /\ multi.v = <<>>
  BY <1>3 DEF multi, CutAt
<1>4. ASSUME NEW q, Ch(t, q) # NUL, multi.p = q + 1, multi.v = SubSeq(t, p + 1, q - 1), Ch(t, p) # NUL
      PROVE  multi.v \in Seq(S) /\ CutAt(t, multi) \in Seq(S)
  <2>1. q \in 1..Len(t) /\ p \in 1..Len(t)
    BY <1>4, WithinTheText
  <2>2. p + 1 \in Nat /\ q - 1 \in Nat /\ multi.p - 2 = q - 1 /\ q - 1 <= Len(t)
    BY <1>4, <2>1
  <2>3. \A i \in (p + 1)..(q - 1) : t[i] \in S
    BY <2>1
  <2>4. SubSeq(t, p + 1, q - 1) \in Seq(S)
    BY <2>2, <2>3, SubSeqProperties
  <2>5. SubSeq(t, 1, q - 1) \in Seq(S)
    <3>1. \A i \in 1..(q - 1) : t[i] \in S
      BY <2>1
    <3> QED
      BY <2>2, <3>1, SubSeqProperties
  <2> QED
    BY <1>4, <2>2, <2>4, <2>5 DEF CutAt
<1> QED
  BY <1>2, <1>3, <1>4 DEF multi

\* The defaults of a group are a text themselves.
LEMMA DefaultsAreTexts ==
  ASSUME NEW S, NEW t \in Seq(S), NEW p \in Nat
  PROVE  Defaults(t, p).text \in Seq(S) /\ NoDefaults(p).text \in Seq(S)
<1>1. NoDefaults(p).text \in Seq(S)
  BY DEF NoDefaults
<1>2. CASE Ch(t, p) # "("
  BY <1>1, <1>2 DEF Defaults
<1>3. CASE Ch(t, p) = "("
  <2> DEFINE start == SkipWhitespace(t, p + 1)
             close == FirstUnescaped(t, start, ")")
  <2>1. p + 1 \in Nat /\ p + 1 <= Len(t) + 1 /\ 1 <= p
    BY <1>3, WithinTheText DEF NUL
  <2>2. start \in Nat /\ p + 1 <= start /\ start <= Len(t) + 1
    BY <2>1, SkipWhitespaceGoesOn DEF Onward, Past
  <2> HIDE DEF start
  <2>3. close \in Nat /\ close <= Len(t) + 1
    BY <2>2, FirstUnescapedGoesOn DEF Past
  <2>4. Defaults(t, p).text = SubSeq(t, start, close - 1)
    BY <1>3 DEF Defaults, start
  <2> HIDE DEF close
  <2>5. \A i \in start..(close - 1) : t[i] \in S
    BY <2>1, <2>2, <2>3
  <2>6. SubSeq(t, start, close - 1) \in Seq(S)
    <3>1. start \in Int /\ close - 1 \in Int
      BY <2>2, <2>3
    <3> QED
      BY <2>5, <3>1, SubSeqProperties
  <2> QED
    BY <1>1, <2>4, <2>6
<1> QED
  BY <1>2, <1>3

\* A length that is not wanted is passed over.
LEMMA SkipLengthGoesOn ==
  ASSUME NEW t, Len(t) \in Nat, NEW p \in Nat
  PROVE  Past(p, SkipLength(t, p))
<1> DEFINE close == FirstAt(t, p + 1, LAMBDA c : c = "]")
<1>1. Past(p + 1, close)
  <2>1. p + 1 \in Nat
    OBVIOUS
  <2> QED
    BY <2>1, FirstOfGoesOn DEF FirstAt
<1>2. SkipLength(t, p) = IF Ch(t, p) = "[" THEN PastIfAny(t, close) ELSE p
  BY Zenon DEF SkipLength
<1> HIDE DEF close
<1>3. Past(p, close) /\ Past(p, p)
  BY <1>1 DEF Past
<1> QED
  BY <1>2, <1>3, PastIfAnyGoesOn

(* A reading of an enumeration with values V and delimiters D, of a format *)
(* of characters S, that began at p                                        *)
Readings(V, D, S, p) ==
  [f : Nat, p : {q \in Nat : p <= q}, ret : {"run", "TRUE", "CONT", "FAIL"}, cells : Seq(V),
   doSave : BOOLEAN, delim : D, outer : D, rest : Seq(S)]

\* What an entry does to a reading, part by part.
LEMMA ReadingIs ==
  ASSUME NEW V, NEW D, NEW S, NEW p \in Nat, NEW a \in Readings(V, D, S, p)
  PROVE  /\ a.f \in Nat /\ a.f + 1 \in Nat /\ a.p \in Nat /\ p <= a.p
         /\ a.cells \in Seq(V) /\ a.delim \in D /\ a.rest \in Seq(S)
BY DEF Readings

\* The parts of EnumStep, each of which leads from a reading to a reading.
LEMMA FailTyped ==
  ASSUME NEW V, NEW D, NEW S, NEW p \in Nat, NEW a \in Readings(V, D, S, p)
  PROVE  /\ Fail(a) \in Readings(V, D, S, p)
         /\ \A ret \in {"TRUE", "CONT", "FAIL"} : [a EXCEPT !.ret = ret] \in Readings(V, D, S, p)
<1> DEFINE P == {q \in Nat : p <= q}
           Q == Seq(V)
           R == Seq(S)
<1>1. Readings(V, D, S, p) = [f : Nat, p : P, ret : {"run", "TRUE", "CONT", "FAIL"}, cells : Q,
                              doSave : BOOLEAN, delim : D, outer : D, rest : R]
  BY DEF Readings
<1> HIDE DEF P, Q, R
<1> QED
  BY <1>1 DEF Fail

LEMMA KeepTyped ==
  ASSUME NEW V, NEW D, NEW S, NEW p \in Nat, NEW a \in Readings(V, D, S, p), NEW cells \in Seq(V)
  PROVE  /\ Keep(a, cells) \in Readings(V, D, S, p)
         /\ Keep(a, cells).p = a.p /\ Keep(a, cells).delim = a.delim
<1> DEFINE P == {q \in Nat : p <= q}
           Q == Seq(V)
           R == Seq(S)
           kept == a.cells \o cells
<1>1. Readings(V, D, S, p) = [f : Nat, p : P, ret : {"run", "TRUE", "CONT", "FAIL"}, cells : Q,
                              doSave : BOOLEAN, delim : D, outer : D, rest : R]
  BY DEF Readings
<1>2. kept \in Q
  BY ReadingIs
<1>3. Keep(a, cells) = IF a.doSave THEN [a EXCEPT !.cells = kept] ELSE a
  BY DEF Keep
<1> HIDE DEF P, Q, R, kept
<1> QED
  BY <1>1, <1>2, <1>3

LEMMA GoToTyped ==
  ASSUME NEW V, NEW D, NEW S, NEW p \in Nat, NEW a \in Readings(V, D, S, p),
         NEW t, Len(t) \in Nat, NEW g \in Nat, NEW q, Past(a.p, q)
  PROVE  GoTo(a, t, g, q) \in Readings(V, D, S, p)
<1> DEFINE P == {r \in Nat : p <= r}
           Q == Seq(V)
           R == Seq(S)
           next == SkipOneSpacer(a.delim, t, q)
<1>1. Readings(V, D, S, p) = [f : Nat, p : P, ret : {"run", "TRUE", "CONT", "FAIL"}, cells : Q,
                              doSave : BOOLEAN, delim : D, outer : D, rest : R]
  BY DEF Readings
<1>2. Past(a.p, next)
  BY ReadingIs, SkipOneSpacerGoesOn
<1>3. GoTo(a, t, g, q) = [a EXCEPT !.f = g, !.p = next]
  BY DEF GoTo
<1> HIDE DEF next
<1>4. next \in P
  BY <1>2, ReadingIs DEF Past
<1> HIDE DEF P, Q, R
<1> QED
  BY <1>1, <1>3, <1>4

LEMMA CutTyped ==
  ASSUME NEW V, NEW D, NEW S, NEW p \in Nat, NEW a \in Readings(V, D, S, p),
         NEW types, NEW text \in Seq(S)
  PROVE  Cut(a, types, text) \in Readings(V, D, S, p)
<1> DEFINE P == {q \in Nat : p <= q}
           Q == Seq(V)
           R == Seq(S)
<1>1. Readings(V, D, S, p) = [f : Nat, p : P, ret : {"run", "TRUE", "CONT", "FAIL"}, cells : Q,
                              doSave : BOOLEAN, delim : D, outer : D, rest : R]
  BY DEF Readings
<1> HIDE DEF P, Q
<1>2. text \in R
  OBVIOUS
<1> HIDE DEF R
<1> QED
  BY <1>1, <1>2 DEF Cut

LEMMA DelimitedTyped ==
  ASSUME NEW V, NEW D, NEW S, NEW p \in Nat, NEW a \in Readings(V, D, S, p),
         NEW g \in Nat, NEW d \in D, NEW defaults \in BOOLEAN
  PROVE  Delimited(a, g, d, defaults) \in Readings(V, D, S, p)
<1> DEFINE P == {q \in Nat : p <= q}
           Q == Seq(V)
           R == Seq(S)
<1>1. Readings(V, D, S, p) = [f : Nat, p : P, ret : {"run", "TRUE", "CONT", "FAIL"}, cells : Q,
                              doSave : BOOLEAN, delim : D, outer : D, rest : R]
  BY DEF Readings
<1> HIDE DEF P, Q, R
<1> DEFINE T == Readings(V, D, S, p)
<1>2. ASSUME NEW b \in T PROVE [b EXCEPT !.f = g] \in T
  BY <1>1
<1>3. ASSUME NEW b \in T PROVE [b EXCEPT !.outer = d] \in T
  BY <1>1
<1>4. ASSUME NEW b \in T PROVE [b EXCEPT !.delim = d] \in T
  BY <1>1
<1>5. [[[a EXCEPT !.f = g] EXCEPT !.outer = d] EXCEPT !.delim = IF defaults THEN @ ELSE d] \in T
  <2> DEFINE b == [[a EXCEPT !.f = g] EXCEPT !.outer = d]
  <2>1. b \in T
    BY <1>2, <1>3
  <2> HIDE DEF b
  <2>2. [b EXCEPT !.delim = b.delim] = b
    BY <1>1, <2>1
  <2> QED
    BY <1>4, <2>1, <2>2 DEF b
<1>6. Delimited(a, g, d, defaults) =
        [[[a EXCEPT !.f = g] EXCEPT !.outer = d] EXCEPT !.delim = IF defaults THEN @ ELSE d]
  BY <1>1 DEF Delimited
<1> QED
  BY <1>5, <1>6

LEMMA EntryTyped ==
  ASSUME NEW V, NEW D, NEW S, NEW p \in Nat, NEW a \in Readings(V, D, S, p),
         NEW t, Len(t) \in Nat, NEW g \in Nat, NEW r, r.v \in V, Past(a.p, r.p)
  PROVE  Entry(a, t, g, r) \in Readings(V, D, S, p)
<1>1. Fail(a) \in Readings(V, D, S, p)
  BY FailTyped
<1> DEFINE cells == <<r.v>>
           kept == Keep(a, cells)
<1>2. cells \in Seq(V)
  OBVIOUS
<1> HIDE DEF cells
<1>3. kept \in Readings(V, D, S, p) /\ kept.p = a.p
  BY <1>2, KeepTyped
<1> HIDE DEF kept
<1>4. GoTo(kept, t, g, r.p) \in Readings(V, D, S, p)
  BY <1>3, GoToTyped
<1> QED
  BY <1>1, <1>4 DEF Entry, kept, cells

\* The cells of an enumeration, and the delimiters in force for them.
EnumDelims(t, d, o) ==
  {d, o} \cup {ToSet(GetMultiType(t, g).v) : g \in Nat} \cup {{GetSingleType(t, g).v} : g \in Nat}

KustomRead(options, d, types, g, t, q) == DoK(options, d, types, g, t, q, FALSE)

EnumValues(types, options, t, D, defaults) ==
  {Untouched}
  \cup {ReadValue(c, defaults, options, d, t, q).v : c \in Simple \cup DOMAIN Kind, d \in D, q \in Nat}
  \cup {Do("i", d, t, q).v : d \in D, q \in Nat}
  \cup {KustomRead(options, d, types, g, t, q).v : d \in D, g \in Nat, q \in Nat}
  \cup {CutTo(DoS(d, t, q, m, all).v, m) : d \in D, q \in Nat, m \in Nat, all \in BOOLEAN}

LEMMA EnumValueIn ==
  ASSUME NEW types, NEW options, NEW t, NEW D, NEW defaults, NEW d \in D, NEW q \in Nat
  PROVE  LET V == EnumValues(types, options, t, D, defaults)
         IN  /\ Untouched \in V
             /\ \A c \in Simple \cup DOMAIN Kind : ReadValue(c, defaults, options, d, t, q).v \in V
             /\ Do("i", d, t, q).v \in V
             /\ \A g \in Nat : KustomRead(options, d, types, g, t, q).v \in V
             /\ \A m \in Nat, all \in BOOLEAN : CutTo(DoS(d, t, q, m, all).v, m) \in V
<1> DEFINE V == EnumValues(types, options, t, D, defaults)
           W1 == {ReadValue(c, defaults, options, e, t, r).v : c \in Simple \cup DOMAIN Kind, e \in D, r \in Nat}
           W2 == {Do("i", e, t, r).v : e \in D, r \in Nat}
           W3 == {KustomRead(options, e, types, g, t, r).v : e \in D, g \in Nat, r \in Nat}
           W4 == {CutTo(DoS(e, t, r, m, all).v, m) : e \in D, r \in Nat, m \in Nat, all \in BOOLEAN}
<1>1. V = {Untouched} \cup W1 \cup W2 \cup W3 \cup W4
  BY DEF EnumValues
<1>2. \A c \in Simple \cup DOMAIN Kind : ReadValue(c, defaults, options, d, t, q).v \in W1
  OBVIOUS
<1>3. Do("i", d, t, q).v \in W2
  OBVIOUS
<1>4. \A g \in Nat : KustomRead(options, d, types, g, t, q).v \in W3
  OBVIOUS
<1>5. \A m \in Nat, all \in BOOLEAN : CutTo(DoS(d, t, q, m, all).v, m) \in W4
  OBVIOUS
<1> HIDE DEF V, W1, W2, W3, W4
<1> QED
  BY <1>1, <1>2, <1>3, <1>4, <1>5 DEF V

\* The entries, each where there is text left.
LEMMA StringEntryTyped ==
  ASSUME NEW S, NEW types \in Seq(S), NEW options, NEW t, Len(t) \in Nat, NEW D, NEW defaults,
         NEW p \in Nat, NEW V, V = EnumValues(types, options, t, D, defaults),
         NEW a \in Readings(V, D, S, p), Ch(t, a.p) # NUL, NEW g \in Nat
  PROVE  StringEntry(a, t, types, GetLength(types, g, TRUE)) \in Readings(V, D, S, p)
<1> DEFINE length == GetLength(types, g, TRUE)
           all == Ch(types, length.p) = NUL
           r == DoS(a.delim, t, a.p, length.v, all)
           kept == Keep(a, StringCells(r.v, length.v))
<1>1. length.v \in Nat
  <2>1. TRUE \in BOOLEAN
    OBVIOUS
  <2> QED
    BY <2>1, LengthsAreNumbers
<1>2. length.p \in Nat
  <2>1. Len(types) \in Nat
    OBVIOUS
  <2>2. Past(g, length.p)
    BY <2>1, GetLengthGoesOn
  <2> QED
    BY <2>2 DEF Past
<1>3. all \in BOOLEAN
  OBVIOUS
<1>4. StringEntry(a, t, types, length) =
        IF length.v = 0 THEN Fail(a) ELSE GoTo(kept, t, length.p, r.p)
  BY DEF StringEntry
<1> HIDE DEF length, all
<1>5. a.p \in 1..(Len(t) + 1) /\ a.p \in Nat /\ a.delim \in D
  BY WithinTheText, ReadingIs
<1>6. Past(a.p, r.p)
  BY <1>5, DoSGoesOn
<1>7. Untouched \in V /\ CutTo(r.v, length.v) \in V
  BY <1>1, <1>3, <1>5, EnumValueIn
<1> HIDE DEF r
<1>8. CASE length.v = 0
  BY <1>4, <1>8, FailTyped DEF length
<1>9. CASE length.v # 0
  <2>1. StringCells(r.v, length.v) \in Seq(V)
    BY <1>1, <1>7, <1>9, StringCellsTyped
  <2>2. kept \in Readings(V, D, S, p) /\ kept.p = a.p
    BY <2>1, KeepTyped
  <2> HIDE DEF kept
  <2>3. GoTo(kept, t, length.p, r.p) \in Readings(V, D, S, p)
    BY <1>2, <1>6, <2>2, GoToTyped
  <2> QED
    BY <1>4, <1>9, <2>3 DEF length
<1> QED
  BY <1>8, <1>9

LEMMA LiteralEntryTyped ==
  ASSUME NEW S, NEW types \in Seq(S), NEW t, Len(t) \in Nat, NEW D, NEW V, NEW p \in Nat,
         NEW a \in Readings(V, D, S, p), NEW g \in 1..(Len(types) + 1)
  PROVE  LiteralEntry(a, t, types, Literal(types, g)) \in Readings(V, D, S, p)
<1> DEFINE lit == Literal(types, g)
           q == Find(t, a.p, lit.needle)
           moved == GoTo(a, t, lit.p, q + lit.size)
<1>1. lit.size \in Nat /\ lit.rest \in Seq(S)
  BY LiteralsAreTexts
<1>2. lit.p \in Nat
  <2>1. g \in Nat /\ g <= Len(types) + 1 /\ Len(types) \in Nat
    OBVIOUS
  <2>2. Past(g, lit.p)
    BY <2>1, LiteralGoesOn
  <2> QED
    BY <2>2 DEF Past
<1>3. LiteralEntry(a, t, types, lit) = IF q = 0 THEN Fail(a) ELSE Cut(moved, types, lit.rest)
  BY DEF LiteralEntry
<1> HIDE DEF lit
<1>4. q = 0 \/ Past(a.p, q)
  BY ReadingIs, FoundIsPast
<1> HIDE DEF q
<1>5. CASE q = 0
  BY <1>3, <1>5, FailTyped DEF lit
<1>6. CASE q # 0
  <2>1. Past(a.p, q + lit.size)
    BY <1>1, <1>4, <1>6, ReadingIs DEF Past
  <2>2. moved \in Readings(V, D, S, p)
    BY <1>2, <2>1, GoToTyped
  <2> HIDE DEF moved
  <2>3. Cut(moved, types, lit.rest) \in Readings(V, D, S, p)
    BY <1>1, <2>2, CutTyped
  <2> QED
    BY <1>3, <1>6, <2>3 DEF lit
<1> QED
  BY <1>5, <1>6

LEMMA SkipEntryTyped ==
  ASSUME NEW S, NEW types \in Seq(S), NEW t, Len(t) \in Nat, NEW D, NEW V, Untouched \in V, NEW p \in Nat,
         NEW a \in Readings(V, D, S, p), NEW c, NEW g \in Nat
  PROVE  SkipEntry(a, t, types, c, g) \in Readings(V, D, S, p)
<1> DEFINE T == Readings(V, D, S, p)
           length == GetLength(types, g, TRUE)
           multi == GetMultiType(types, g)
<1>1. length.v \in Nat
  <2>1. TRUE \in BOOLEAN
    OBVIOUS
  <2> QED
    BY <2>1, LengthsAreNumbers
<1>2. length.p \in Nat /\ multi.p \in Nat
  <2>1. Len(types) \in Nat
    OBVIOUS
  <2>2. Past(g, length.p) /\ Past(g, multi.p)
    BY <2>1, GetLengthGoesOn, GetMultiTypeGoesOn
  <2> QED
    BY <2>2 DEF Past
<1>3. CutAt(types, multi) \in Seq(S)
  BY TypesAreTexts
<1>4. Past(a.p, a.p)
  BY ReadingIs DEF Past
<1>5. \/ SkipEntry(a, t, types, c, g) = Fail(a)
      \/ SkipEntry(a, t, types, c, g) = GoTo(Keep(a, Times(Untouched, length.v)), t, length.p, a.p)
      \/ SkipEntry(a, t, types, c, g) = Cut(GoTo(Keep(a, <<Untouched>>), t, multi.p, a.p), types, CutAt(types, multi))
      \/ SkipEntry(a, t, types, c, g) = GoTo(Keep(a, <<Untouched>>), t, g, a.p)
      \/ SkipEntry(a, t, types, c, g) = GoTo(a, t, g, a.p)
  BY Zenon DEF SkipEntry
<1> HIDE DEF length, multi
<1>6. ASSUME NEW cells \in Seq(V), NEW q \in Nat PROVE GoTo(Keep(a, cells), t, q, a.p) \in T
  <2> DEFINE kept == Keep(a, cells)
  <2>1. kept \in T /\ kept.p = a.p
    BY KeepTyped
  <2> HIDE DEF kept
  <2>2. GoTo(kept, t, q, a.p) \in T
    BY <1>4, <2>1, GoToTyped
  <2> QED
    BY <2>2 DEF kept
<1>7. Times(Untouched, length.v) \in Seq(V) /\ <<Untouched>> \in Seq(V)
  BY <1>1 DEF Times
<1>8. Fail(a) \in T
  BY FailTyped
<1>9. GoTo(a, t, g, a.p) \in T
  BY <1>4, GoToTyped
<1>10. \A b \in T : Cut(b, types, CutAt(types, multi)) \in T
  BY <1>3, CutTyped
<1> HIDE DEF T
<1>11. /\ GoTo(Keep(a, Times(Untouched, length.v)), t, length.p, a.p) \in T
       /\ GoTo(Keep(a, <<Untouched>>), t, g, a.p) \in T
       /\ GoTo(Keep(a, <<Untouched>>), t, multi.p, a.p) \in T
  BY <1>2, <1>6, <1>7, Zenon
<1>12. SkipEntry(a, t, types, c, g) \in T
  BY <1>5, <1>8, <1>9, <1>10, <1>11, Zenon
<1> QED
  BY <1>12 DEF T

LEMMA MovedTyped ==
  ASSUME NEW V, NEW D, NEW S, NEW p \in Nat, NEW a \in Readings(V, D, S, p), NEW g \in Nat, NEW saves \in BOOLEAN
  PROVE  /\ [a EXCEPT !.f = g] \in Readings(V, D, S, p)
         /\ [a EXCEPT !.f = g, !.doSave = saves] \in Readings(V, D, S, p)
<1> DEFINE P == {q \in Nat : p <= q}
           Q == Seq(V)
           R == Seq(S)
<1>1. Readings(V, D, S, p) = [f : Nat, p : P, ret : {"run", "TRUE", "CONT", "FAIL"}, cells : Q,
                              doSave : BOOLEAN, delim : D, outer : D, rest : R]
  BY DEF Readings
<1> HIDE DEF P, Q, R
<1>2. [a EXCEPT !.f = g] \in Readings(V, D, S, p)
  BY <1>1
<1>3. \A b \in Readings(V, D, S, p) : [b EXCEPT !.doSave = saves] \in Readings(V, D, S, p)
  BY <1>1
<1>4. [a EXCEPT !.f = g, !.doSave = saves] = [[a EXCEPT !.f = g] EXCEPT !.doSave = saves]
  BY <1>1
<1> QED
  BY <1>2, <1>3, <1>4

\* One entry further.
LEMMA EnumStepTyped ==
  ASSUME NEW S, NEW types \in Seq(S), NEW options, NEW t, Len(t) \in Nat, NEW D,
         NEW saves \in BOOLEAN, NEW defaults \in BOOLEAN,
         \A q \in Nat : ToSet(GetMultiType(types, q).v) \in D /\ {GetSingleType(types, q).v} \in D,
         NEW p \in Nat, NEW V, V = EnumValues(types, options, t, D, defaults),
         NEW a \in Readings(V, D, S, p)
  PROVE  EnumStep(types, options, t, saves, defaults, a) \in Readings(V, D, S, p)
<1> DEFINE T == Readings(V, D, S, p)
           step == EnumStep(types, options, t, saves, defaults, a)
           g == a.f + 1
           c == Ch(types, a.f)
           next == Ch(types, a.f + 1)
           multi == GetMultiType(types, g)
           single == GetSingleType(types, g)
           k == DoK(options, a.delim, types, g, t, a.p, FALSE)
           i == Do("i", a.delim, t, a.p)
           number == [ok |-> TRUE, v |-> i.v, p |-> i.p, fp |-> multi.p]
           after == IF c \in DOMAIN Kind THEN SkipLength(types, g) ELSE g
           value == ReadValue(c, defaults, options, a.delim, t, a.p)
           Step(entry, kustom, written, literal, skip, section, delimiters, delimiter, other) ==
             IF a.ret # "run" THEN a
             ELSE IF Ch(t, a.p) = NUL THEN
                    [a EXCEPT !.ret = IF c = NUL \/ (c = "}" /\ next = NUL) THEN "TRUE" ELSE "CONT"]
             ELSE CASE c = NUL -> [a EXCEPT !.ret = "TRUE"]
               [] c \in Simple \cup DOMAIN Kind -> entry
               [] c \in {"k", "K"} -> kustom
               [] c \in {"s", "S", "z", "Z"} -> written
               [] c = "'" -> literal
               [] c = "-" -> skip
               [] c \in {"{", "}"} -> section
               [] c = "P" -> delimiters
               [] c = "p" -> delimiter
               [] c \in NoSuchEntry -> Fail(a)
               [] OTHER -> other
           e1 == Entry(a, t, after, value)
           e2 == KustomEntry(a, t, IF defaults /\ "OLD_DEFAULT_KUSTOM" \notin options THEN number ELSE k)
           e3 == StringEntry(a, t, types, GetLength(types, g, TRUE))
           e4 == LiteralEntry(a, t, types, Literal(types, g))
           e5 == SkipEntry(a, t, types, next, g + 1)
           e6 == [a EXCEPT !.f = g, !.doSave = saves /\ c = "}"]
           e7 == Multi(a, types, multi, defaults)
           e8 == Single(a, single, defaults)
           e9 == [a EXCEPT !.f = g]
<1>1. step = Step(e1, e2, e3, e4, e5, e6, e7, e8, e9)
  BY Zenon DEF EnumStep
<1> HIDE DEF e1, e2, e3, e4, e5, e6, e7, e8, e9, step
<1>2. ASSUME e1 \in T \/ Ch(t, a.p) = NUL \/ c \notin Simple \cup DOMAIN Kind,
             e2 \in T \/ Ch(t, a.p) = NUL, e3 \in T \/ Ch(t, a.p) = NUL,
             e4 \in T \/ Ch(t, a.p) = NUL \/ c # "'", e5 \in T, e6 \in T, e7 \in T, e8 \in T, e9 \in T
      PROVE  step \in T
  <2>1. a \in T /\ Fail(a) \in T
    BY FailTyped
  <2>2. [a EXCEPT !.ret = "TRUE"] \in T /\ [a EXCEPT !.ret = "CONT"] \in T
    BY FailTyped
  <2>3. [a EXCEPT !.ret = IF c = NUL \/ (c = "}" /\ next = NUL) THEN "TRUE" ELSE "CONT"] \in T
    <3>1. (IF c = NUL \/ (c = "}" /\ next = NUL) THEN "TRUE" ELSE "CONT") \in {"TRUE", "CONT", "FAIL"}
      OBVIOUS
    <3> QED
      BY <3>1, FailTyped
  <2> DEFINE o1 == [a EXCEPT !.ret = "TRUE"]
             o2 == [a EXCEPT !.ret = IF c = NUL \/ (c = "}" /\ next = NUL) THEN "TRUE" ELSE "CONT"]
             o3 == Fail(a)
  <2>5. o1 \in T /\ o2 \in T /\ o3 \in T
    BY <2>1, <2>2, <2>3
  <2> HIDE DEF T, o1, o2, o3, c, next
  <2>4. step = IF a.ret # "run" THEN a
               ELSE IF Ch(t, a.p) = NUL THEN o2
               ELSE CASE c = NUL -> o1
               [] c \in Simple \cup DOMAIN Kind -> e1
               [] c \in {"k", "K"} -> e2
               [] c \in {"s", "S", "z", "Z"} -> e3
               [] c = "'" -> e4
               [] c = "-" -> e5
               [] c \in {"{", "}"} -> e6
               [] c = "P" -> e7
               [] c = "p" -> e8
               [] c \in NoSuchEntry -> o3
               [] OTHER -> e9
    BY <1>1, Zenon DEF o1, o2, o3
  <2> QED
    BY <1>2, <2>1, <2>5, <2>4
<1>3. Len(types) \in Nat /\ a.f \in Nat /\ g \in Nat /\ g + 1 \in Nat /\ a.p \in Nat /\ a.delim \in D
  BY ReadingIs
<1>4. multi.p \in Nat /\ single.p \in Nat /\ after \in Nat
  <2>1. Past(g, multi.p) /\ Past(g, single.p) /\ Past(g, SkipLength(types, g))
    BY <1>3, GetMultiTypeGoesOn, GetSingleTypeGoesOn, SkipLengthGoesOn
  <2> QED
    BY <1>3, <2>1 DEF Past
<1>5. /\ Untouched \in V /\ i.v \in V /\ k.v \in V
      /\ c \in Simple \cup DOMAIN Kind => value.v \in V
  <2>1. k = KustomRead(options, a.delim, types, g, t, a.p)
    BY DEF KustomRead
  <2> QED
    BY <1>3, <2>1, EnumValueIn
<1>6. Past(a.p, value.p)
  BY <1>3, ReadValueGoesOn
<1>7. Past(a.p, i.p)
  <2>1. "i" \in Simple
    BY DEF Simple, SimpleRequired
  <2> QED
    BY <1>3, <2>1, DoGoesOn
<1>8. Past(a.p, k.p) /\ k.fp \in Nat
  <2>1. FALSE \in BOOLEAN
    OBVIOUS
  <2>2. Past(a.p, k.p)
    BY <1>3, <2>1, DoKReadsOn
  <2>3. Past(g, k.fp)
    BY <1>3, <2>1, DoKGoesOn
  <2> QED
    BY <2>2, <2>3 DEF Past
<1>9. c \in Simple \cup DOMAIN Kind => e1 \in T
  <2> HIDE DEF value, after, g, c
  <2> QED
    BY <1>4, <1>5, <1>6, EntryTyped DEF e1
<1>10. e2 \in T
  <2> DEFINE r == IF defaults /\ "OLD_DEFAULT_KUSTOM" \notin options THEN number ELSE k
  <2>1. number.v = i.v /\ number.p = i.p /\ number.fp = multi.p
    OBVIOUS
  <2> HIDE DEF number, k, i, multi
  <2>2. r.v \in V /\ Past(a.p, r.p) /\ r.fp \in Nat
    BY <1>4, <1>5, <1>7, <1>8, <2>1
  <2>3. e2 = Entry(a, t, r.fp, r)
    BY DEF e2, KustomEntry
  <2> HIDE DEF r
  <2> QED
    BY <2>2, <2>3, EntryTyped
<1>11. Ch(t, a.p) # NUL => e3 \in T
  <2> HIDE DEF g
  <2> QED
    BY <1>3, StringEntryTyped DEF e3
<1>12. c = "'" => e4 \in T
  <2>1. ASSUME c = "'" PROVE g \in 1..(Len(types) + 1)
    <3>1. Ch(types, a.f) # NUL
      BY <2>1 DEF NUL
    <3>2. a.f \in 1..Len(types)
      BY <1>3, <3>1, WithinTheText
    <3> QED
      BY <1>3, <3>2
  <2> HIDE DEF g, c
  <2> QED
    BY <2>1, LiteralEntryTyped DEF e4
<1>13. e5 \in T
  <2> DEFINE h == g + 1
  <2>1. h \in Nat
    BY <1>3
  <2>2. e5 = SkipEntry(a, t, types, next, h)
    BY DEF e5
  <2> HIDE DEF h, next
  <2> QED
    BY <1>5, <2>1, <2>2, SkipEntryTyped
<1>14. e6 \in T /\ e9 \in T
  <2> HIDE DEF g
  <2> DEFINE b == saves /\ c = "}"
  <2>1. b \in BOOLEAN
    OBVIOUS
  <2>2. e6 = [a EXCEPT !.f = g, !.doSave = b] /\ e9 = [a EXCEPT !.f = g]
    BY DEF e6, e9
  <2> HIDE DEF b
  <2> QED
    BY <1>3, <2>1, <2>2, MovedTyped
<1>15. e7 \in T
  <2> DEFINE d == ToSet(multi.v)
             text == CutAt(types, multi)
             b == Delimited(a, multi.p, d, defaults)
  <2>1. d \in D /\ text \in Seq(S)
    BY <1>3, TypesAreTexts
  <2>2. e7 = IF multi.ok THEN Cut(b, types, text) ELSE Fail(a)
    BY DEF e7, Multi
  <2> HIDE DEF d, text, multi
  <2>3. b \in T
    BY <1>4, <2>1, DelimitedTyped
  <2> HIDE DEF b
  <2>4. Cut(b, types, text) \in T /\ Fail(a) \in T
    BY <2>1, <2>3, CutTyped, FailTyped
  <2> QED
    BY <2>2, <2>4
<1>16. e8 \in T
  <2> DEFINE d == {single.v}
  <2>1. d \in D
    BY <1>3
  <2>2. e8 = Delimited(a, single.p, d, defaults)
    BY DEF e8, Single
  <2> HIDE DEF d, single
  <2> QED
    BY <1>4, <2>1, <2>2, DelimitedTyped
<1>17. step \in T
  <2> HIDE DEF c, T
  <2> QED
    BY <1>2, <1>9, <1>10, <1>11, <1>12, <1>13, <1>14, <1>15, <1>16
<1> QED
  BY <1>17 DEF step

\* The readings of an enumeration go on in the text, and leave a format.
LEMMA EnumGoesOn ==
  ASSUME NEW S, NEW types \in Seq(S), NEW options, NEW d, NEW o, NEW t, Len(t) \in Nat, NEW p \in Nat,
         NEW saves \in BOOLEAN, NEW defaults \in BOOLEAN
  PROVE  /\ Past(p, DoEnumValues(types, options, d, o, t, p, saves, defaults).p)
         /\ DoEnumValues(types, options, d, o, t, p, saves, defaults).rest \in Seq(S)
<1> DEFINE n == Len(types) + 2
           D == EnumDelims(types, d, o)
           V == EnumValues(types, options, t, D, defaults)
           T == Readings(V, D, S, p)
           none == [f |-> 1, p |-> p, ret |-> "run", cells |-> <<>>, doSave |-> saves,
                    delim |-> d, outer |-> o, rest |-> types]
           E == {0}
           seq == [k \in 1..n |-> 0]
           Step(a) == EnumStep(types, options, t, saves, defaults, a)
           op == [x \in T \X E |-> Step(x[1])]
           indices == DOMAIN seq
           Solves(iter) ==
             iter = [u \in SUBSET indices |-> IF u = {} THEN none ELSE Step(iter[u \ {Max(u)}])]
           fold == CHOOSE iter : Solves(iter)
<1>1. DoEnumValues(types, options, d, o, t, p, saves, defaults) = fold[indices]
  BY Zenon DEF DoEnumValues, FoldLeft, MapThenFoldSet, Times
<1>2. n \in Nat
  OBVIOUS
<1> HIDE DEF n
<1>3. indices = 1..n /\ \A k \in 1..n : seq[k] \in E
  BY <1>2
<1>4. \A a \in T : Step(a) \in T
  <2>1. \A q \in Nat : ToSet(GetMultiType(types, q).v) \in D /\ {GetSingleType(types, q).v} \in D
    BY DEF EnumDelims
  <2> HIDE DEF D
  <2> QED
    BY <2>1, EnumStepTyped
<1>5. none \in T
  <2>1. <<>> \in Seq(V)
    OBVIOUS
  <2>2. p \in {q \in Nat : p <= q}
    OBVIOUS
  <2>3. d \in D /\ o \in D
    BY DEF EnumDelims
  <2> HIDE DEF V, D
  <2> QED
    BY <2>1, <2>2, <2>3 DEF Readings
<1>6. \A a \in T : Past(p, a.p) /\ a.rest \in Seq(S)
  BY DEF Readings, Past
<1> HIDE DEF seq, indices, T, none, E, Step
<1>7. \A a \in T, k \in E : op[<<a, k>>] = Step(a)
  OBVIOUS
<1>8. \A a \in T, k \in E : op[<<a, k>>] \in T
  BY <1>4, <1>7
<1> HIDE DEF op
<1>9. PICK g \in [SUBSET (1..n) -> T] : Folds(g, none, op, seq, n)
  BY <1>2, <1>3, <1>5, <1>8, FoldExists
<1>10. Solves(g)
  <2>1. ASSUME NEW u \in SUBSET (1..n), u # {}
        PROVE  op[<<g[u \ {Max(u)}], seq[Max(u)]>>] = Step(g[u \ {Max(u)}])
    <3>1. Max(u) \in 1..n
      BY <1>2, <2>1, Largest
    <3>2. seq[Max(u)] \in E /\ g[u \ {Max(u)}] \in T
      BY <1>3, <1>9, <3>1
    <3> QED
      BY <1>7, <3>2
  <2>2. \A u \in SUBSET (1..n) :
          g[u] = IF u = {} THEN none ELSE Step(g[u \ {Max(u)}])
    BY <1>9, <2>1 DEF Folds
  <2> QED
    BY <1>3, <2>2
<1>11. Solves(fold)
  <2> HIDE DEF Solves
  <2> QED
    BY <1>10
<1> HIDE DEF fold
<1>12. fold[{}] = none
  BY <1>3, <1>11
<1>13. ASSUME NEW k \in 1..n PROVE fold[1..k] = Step(fold[1..(k - 1)])
  <2>1. 1..k \in SUBSET (1..n) /\ 1..k # {} /\ Max(1..k) = k /\ (1..k) \ {k} = 1..(k - 1)
    BY <1>2, UpTo
  <2> QED
    BY <1>3, <1>11, <2>1
<1> HIDE DEF Solves
<1>14. fold[1..n] \in T
  <2>1. \A k \in 1..n : fold[1..(k - 1)] \in T => fold[1..k] \in T
    BY <1>4, <1>13
  <2> QED
    BY <1>2, <1>5, <1>12, <2>1, FoldKeeps
<1> QED
  BY <1>1, <1>3, <1>6, <1>14

(***************************************************************************)
(* So no turn of a call goes back in the text.                             *)
(***************************************************************************)
\* What the rest of a text is read from.
Reads == call \in Calls /\ phase \in {"main", "defaults"} /\ s \in Nat /\ f \in Nat /\ doSave \in BOOLEAN

Advances == Past(s, s')

\* What CallsAssumption gives of the call under way.
LEMMA CallsHoldTexts ==
  ASSUME call \in Calls
  PROVE  /\ format \in Seq(ToSet(format)) /\ Len(format) \in Nat
         /\ \E S : string \in Seq(S)
         /\ Len(string) \in Nat
<1>1. format \in Seq(ToSet(format))
  BY CallsAssumption DEF format
<1>2. \E S : string \in Seq(S)
  <2>1. call.text \in Seq(ToSet(call.text))
    BY CallsAssumption
  <2>2. string = <<>> \/ string = call.text
    BY DEF string, Corrected
  <2> QED
    BY <2>1, <2>2, EmptyIsASeq
<1> HIDE DEF format, string
<1> QED
  BY <1>1, <1>2

\* What the specifiers do to the place in the text, s.
LEMMA MoveAdvances ==
  ASSUME Reads, NEW nf, NEW q, Move(nf, q), phase = "main" => Past(s, q)
  PROVE  Advances
<1>1. CASE phase = "main"
  <2>1. s' = SkipOneSpacer(delim', string, q)
    BY <1>1 DEF Move
  <2>2. Past(s, SkipOneSpacer(delim', string, q))
    BY <1>1, CallsHoldTexts, SkipOneSpacerGoesOn DEF Reads
  <2> QED
    BY <2>1, <2>2 DEF Advances
<1>2. CASE phase # "main"
  BY <1>2 DEF Move, Advances, Past, Reads
<1> QED
  BY <1>1, <1>2

LEMMA ReadAdvances ==
  ASSUME Reads, NEW v, NEW nf, NEW q, Read(v, nf, q), phase = "main" => Past(s, q)
  PROVE  Advances
BY MoveAdvances DEF Read

LEMMA StaysAdvances == Reads /\ s' = s => Advances
BY DEF Reads, Advances, Past

\* A type as an array reads it.
LEMMA PlainTypes ==
  ASSUME NEW S, NEW type \in Seq(S)
  PROVE  Plain(type) \in Seq(S \cup {"s"})
<1>1. type \in Seq(S \cup {"s"})
  OBVIOUS
<1>2. CASE Ch(type, 1) \in {"S", "z", "Z"}
  <2>1. 1 \in 1..Len(type)
    BY <1>2 DEF Ch, NUL
  <2>2. Tail(type) \in Seq(S \cup {"s"})
    BY <1>1, <2>1
  <2>3. <<"s">> \in Seq(S \cup {"s"})
    OBVIOUS
  <2>4. <<"s">> \o Tail(type) \in Seq(S \cup {"s"})
    BY <2>2, <2>3
  <2> QED
    BY <1>2, <2>4 DEF Plain
<1>3. CASE Ch(type, 1) \notin {"S", "z", "Z"}
  BY <1>1, <1>3 DEF Plain
<1> QED
  BY <1>2, <1>3

LEMMA ArrayAdvances == Reads /\ Array => Advances
<1> SUFFICES ASSUME Reads, Array PROVE Advances
  OBVIOUS
<1> DEFINE multi == GetMultiType(format, f + 1)
           opts == GroupDefaults(multi.p)
           type == Plain(multi.v)
           length == GetLength(format, opts.p, TRUE)
           size == GetLength(type, 2, FALSE).v
<1>1. Return("FAIL") \/ \E defaulted, old : ArrayCells(type, size, length, defaulted, old)
  BY ZenonT(60) DEF Array
<1>2. f + 1 \in Nat /\ format \in Seq(ToSet(format)) /\ Len(format) \in Nat /\ Len(string) \in Nat
  BY CallsHoldTexts DEF Reads
<1>3. multi.p \in Nat /\ opts.p \in Nat
  <2>1. Past(f + 1, multi.p)
    BY <1>2, GetMultiTypeGoesOn
  <2> HIDE DEF multi
  <2>2. multi.p \in Nat
    BY <2>1 DEF Past
  <2>3. Past(multi.p, opts.p)
    BY <1>2, <2>2, DefaultsGoOn DEF GroupDefaults
  <2> QED
    BY <2>2, <2>3 DEF Past
<1>4. size \in Nat \ {0}
  <2>1. multi.v \in Seq(ToSet(format))
    BY <1>2, TypesAreTexts
  <2>2. type \in Seq(ToSet(format) \cup {"s"})
    BY <2>1, PlainTypes
  <2> HIDE DEF type
  <2> QED
    BY <2>2, PositiveLengths
<1>5. length.v \in Nat
  <2>1. TRUE \in BOOLEAN
    OBVIOUS
  <2> HIDE DEF opts
  <2> QED
    BY <1>2, <1>3, <2>1, LengthsAreNumbers
<1> HIDE DEF multi, opts, type, length, size
<1>6. CASE Return("FAIL")
  BY <1>6, StaysAdvances DEF Return
<1>7. ASSUME NEW defaulted, NEW old, ArrayCells(type, size, length, defaulted, old) PROVE Advances
  <2> DEFINE last == \/ Ch(format, length.p) = NUL
                     \/ ~doSave /\ Ch(format, length.p) = "}" /\ Ch(format, length.p + 1) = NUL
             after == IF defaulted /\ type[1] \in {"k", "K"} THEN CutAt(type, GetMultiType(type, 2)) ELSE type
             new == ArrayInput(after, size, gOptions, delim, string, s, length.v, doSave, last)
  <2>1. \/ phase = "defaults" /\ Read(old, length.p, s)
        \/ \E cells : Read(cells, length.p, new.p)
        \/ Return("FAIL")
    BY <1>7, ZenonT(60) DEF ArrayCells
  <2> HIDE DEF after, last
  <2>2. Past(s, new.p)
    BY <1>2, <1>4, <1>5, ArrayInputGoesOn DEF Reads
  <2> HIDE DEF new
  <2> QED
    BY <2>1, <2>2, ReadAdvances, StaysAdvances DEF Return
<1> QED
  BY <1>1, <1>6, <1>7

LEMMA EnumAdvances == Reads /\ Enum => Advances
<1> SUFFICES ASSUME Reads, Enum PROVE Advances
  OBVIOUS
<1> DEFINE S == ToSet(format)
           multi == GetMultiType(format, f + 1)
           opts == GroupDefaults(multi.p)
           first == DoEnumValues(multi.v, gOptions, {",", ")"}, delim, opts.text, 1, doSave, TRUE)
           none == [ret |-> "TRUE", cells |-> <<>>, outer |-> delim, rest |-> multi.v]
           New(old) == DoEnumValues(old.rest, gOptions, old.outer, old.outer, string, s, doSave, FALSE)
<1>1. \/ Return("FAIL")
      \/ \E old \in {first, none} : \E cells, d :
           \/ phase = "defaults" /\ ReadEnum(cells, opts.p, d, s)
           \/ ReadEnum(cells, opts.p, d, New(old).p)
  BY ZenonT(60) DEF Enum
<1>2. f + 1 \in Nat /\ format \in Seq(S) /\ Len(format) \in Nat /\ Len(string) \in Nat
  BY CallsHoldTexts DEF Reads
<1>3. multi.p \in Nat /\ multi.v \in Seq(S)
  <2>1. Past(f + 1, multi.p)
    BY <1>2, GetMultiTypeGoesOn
  <2>2. multi.v \in Seq(S)
    BY <1>2, TypesAreTexts
  <2> QED
    BY <2>1, <2>2 DEF Past
<1>4. opts.text \in Seq(S) /\ Len(opts.text) \in Nat
  <2> HIDE DEF S, multi
  <2>1. opts.text \in Seq(S)
    BY <1>2, <1>3, DefaultsAreTexts DEF GroupDefaults
  <2> QED
    BY <2>1
<1> HIDE DEF S, multi, opts
<1>5. TRUE \in BOOLEAN /\ FALSE \in BOOLEAN /\ 1 \in Nat /\ doSave \in BOOLEAN /\ s \in Nat
  BY DEF Reads
<1>6. first.rest \in Seq(S)
  BY <1>3, <1>4, <1>5, EnumGoesOn
<1>7. none.rest \in Seq(S)
  BY <1>3
<1> HIDE DEF first, none
<1>8. ASSUME NEW old \in {first, none} PROVE Past(s, New(old).p)
  <2>1. old.rest \in Seq(S)
    BY <1>6, <1>7
  <2> QED
    BY <1>2, <1>5, <2>1, EnumGoesOn
<1>9. ASSUME NEW cells, NEW d, NEW q, ReadEnum(cells, opts.p, d, q), phase = "main" => Past(s, q)
      PROVE  Advances
  BY <1>9, MoveAdvances DEF ReadEnum
<1>10. CASE Return("FAIL")
  BY <1>10, StaysAdvances DEF Return
<1>11. ASSUME NEW old \in {first, none}, NEW cells, NEW d,
              \/ phase = "defaults" /\ ReadEnum(cells, opts.p, d, s)
              \/ ReadEnum(cells, opts.p, d, New(old).p)
       PROVE  Advances
  <2>1. Past(s, New(old).p)
    BY <1>8
  <2> HIDE DEF New
  <2> QED
    BY <1>9, <1>11, <2>1
<1> QED
  BY <1>1, <1>10, <1>11

\* No turn goes back in the text.
LEMMA WorkAdvances == Reads /\ Work => Advances
<1> SUFFICES ASSUME Reads, Work PROVE Advances
  OBVIOUS
<1> USE DEF Reading, Defaulting
<1>1. Len(string) \in Nat /\ s \in Nat
  BY CallsHoldTexts DEF Reads
<1>2. ASSUME NEW r, Return(r) \/ ReturnAtOnce PROVE Advances
  BY <1>2, StaysAdvances DEF Return, ReturnAtOnce
<1>3. ASSUME NEW q, Pass(q) PROVE Advances
  BY <1>3, StaysAdvances DEF Pass
<1>4. Past(s, s)
  BY <1>1 DEF Past
<1>5. ASSUME NEW v, NEW q, Read(v, q, s) PROVE Advances
  BY <1>4, <1>5, ReadAdvances
<1>6. FormatEnds \/ FormatEndsEarly \/ Missing \/ Finished => Advances
  BY <1>2 DEF FormatEnds, FormatEndsEarly, Missing, Finished
<1>7. QuietSection \/ Delimiters \/ Delimiter \/ Option \/ InputEnds => Advances
  BY <1>2, StaysAdvances DEF QuietSection, Delimiters, Delimiter, Option, InputEnds
<1>8. Ignored \/ Discarded \/ LiteralPassed => Advances
  BY <1>3 DEF Ignored, Discarded, LiteralPassed
<1>9. Required => Advances
  <2>1. SUFFICES ASSUME Required PROVE Advances
    OBVIOUS
  <2>2. Letter \in Simple
    BY <2>1 DEF Required, Simple
  <2>3. Past(s, Do(Letter, delim, string, s).p)
    BY <1>1, <2>2, DoGoesOn
  <2> QED
    BY <1>2, <2>1, <2>3, ReadAdvances DEF Required
<1>10. Optional => Advances
  <2>1. SUFFICES ASSUME Optional PROVE Advances
    OBVIOUS
  <2>2. Letter \in Simple
    BY <2>1 DEF Optional, Simple
  <2>3. Past(s, Do(Letter, delim, string, s).p)
    BY <1>1, <2>2, DoGoesOn
  <2> QED
    BY <1>2, <1>5, <2>1, <2>3, ReadAdvances DEF Optional
<1>11. StringDefault => Advances
  <2>1. SUFFICES ASSUME StringDefault PROVE Advances
    OBVIOUS
  <2>2. (\E v, q : Read(v, q, s)) \/ \E q : Move(q, s)
    BY <2>1, Zenon DEF StringDefault
  <2> QED
    BY <1>4, <1>5, <2>2, MoveAdvances
<1>12. String => Advances
  <2>1. SUFFICES ASSUME String PROVE Advances
    OBVIOUS
  <2>2. s \in 1..(Len(string) + 1)
    BY <1>1, <2>1, WithinTheText DEF String
  <2>3. \A length, all : Past(s, DoS(delim, string, s, length, all).p)
    BY <1>1, <2>2, DoSGoesOn
  <2>4. \E v, nf, length, all : Read(v, nf, DoS(delim, string, s, length, all).p)
    BY <2>1, Zenon DEF String
  <2> QED
    BY <2>3, <2>4, ReadAdvances
<1>13. UserAbsent => Advances
  <2>1. SUFFICES ASSUME UserAbsent PROVE Advances
    OBVIOUS
  <2>2. ReturnAtOnce \/ \E v, q : Read(v, q, s)
    BY <2>1, Zenon DEF UserAbsent
  <2> QED
    BY <1>2, <1>5, <2>2
<1>14. User => Advances
  <2>1. SUFFICES ASSUME User PROVE Advances
    OBVIOUS
  <2> DEFINE q == GetUserString(delim, string, s, g_iTrueMax).p
  <2>2. ReturnAtOnce \/ \E v, nf : Read(v, nf, q)
    BY <2>1, Zenon DEF User
  <2>3. Past(s, q)
    BY <1>1, FindSpacerGoesOn DEF GetUserString
  <2> HIDE DEF q
  <2> QED
    BY <1>2, <2>2, <2>3, ReadAdvances
<1>15. Array => Advances
  BY ArrayAdvances
<1>16. Enum => Advances
  BY EnumAdvances
<1>17. Kustom => Advances
  <2>1. SUFFICES ASSUME Kustom PROVE Advances
    OBVIOUS
  <2> DEFINE text == IF phase = "main" THEN string ELSE <<>>
             r == DoK(gOptions, delim, format, f + 1, text, s, Letter = "K")
  <2>2. Return("FAIL") \/ Read(r.v, r.fp, r.p)
    BY <2>1 DEF Kustom
  <2>3. phase = "main" => Past(s, r.p)
    <3>1. (Letter = "K") \in BOOLEAN
      OBVIOUS
    <3>2. phase = "main" => text = string
      OBVIOUS
    <3> HIDE DEF text
    <3> QED
      BY <1>1, <3>1, <3>2, DoKReadsOn
  <2> HIDE DEF r
  <2> QED
    BY <1>2, <2>2, <2>3, ReadAdvances
<1>18. SearchLiteral => Advances
  <2>1. SUFFICES ASSUME SearchLiteral PROVE Advances
    OBVIOUS
  <2> DEFINE lit == Literal(format, f + 1)
             hit == Find(string, s, lit.needle)
  <2>2. \/ Return("FAIL")
        \/ hit # 0 /\ Move(lit.p, hit + lit.size)
    BY <2>1, Zenon DEF SearchLiteral
  <2>3. lit.size \in Nat
    <3>1. Letter # NUL
      BY <2>1 DEF SearchLiteral, NUL
    <3>2. f + 1 \in 1..(Len(format) + 1) /\ format \in Seq(ToSet(format))
      BY <3>1, CallsHoldTexts DEF Letter, Ch, Reads
    <3> QED
      BY <3>2, LiteralsAreTexts
  <2> HIDE DEF lit
  <2>4. hit = 0 \/ Past(s, hit)
    BY <1>1, FoundIsPast
  <2> HIDE DEF hit
  <2>5. hit # 0 => Past(s, hit + lit.size)
    BY <1>1, <2>3, <2>4 DEF Past
  <2> QED
    BY <1>2, <2>2, <2>5, MoveAdvances
<1>19. Default \/ DefaultPlayer => Advances
  BY <1>5 DEF Default, DefaultPlayer
<1>20. DefaultString => Advances
  BY <1>3, <1>5 DEF DefaultString
<1> QED
  BY <1>6, <1>7, <1>8, <1>9, <1>10, <1>11, <1>12, <1>13, <1>14, <1>15, <1>16, <1>17, <1>18, <1>19,
     <1>20 DEF Work

(***************************************************************************)
(* TypeOK is not inductive: what is saved is only a sequence if it was     *)
(* one, a place in the format only a number behind another one while the   *)
(* call is one of Calls, and the players only typed with their callback.   *)
(***************************************************************************)
Typed ==
  /\ Typing /\ Timely
  /\ \E S : saved \in Seq(S)
  /\ f \in Nat \ {0} /\ s \in Nat \ {0}
  /\ doSave \in BOOLEAN /\ turns \in Nat
  /\ defaultOpts \subseteq Options
  /\ result \in {"none", "TRUE", "FAIL"}
  /\ phase = "idle" <=> call = NoCall
  /\ phase = "ended" <=> result # "none"

\* What a turn does besides.
Answer == phase' = "ended" /\ result' \in {"TRUE", "FAIL"} /\ gOptions' \in {gOptions, defaultOpts}

Continues == phase' # "ended" /\ result' = result /\ gOptions' = gOptions

Chooses ==
  /\ phase' # "ended" /\ result' = result
  /\ \E name \in Options, on \in BOOLEAN : gOptions' = WithOption(gOptions, name, on)

Besides == (doSave' = doSave \/ doSave' \in BOOLEAN) /\ (Answer \/ Continues \/ Chooses)

\* Besides, for each of the specifiers and the ways to end.
LEMMA ReadBesides ==
  ASSUME NEW v, NEW nf, NEW q, Read(v, nf, q), phase \in {"main", "defaults"}
  PROVE  Besides
BY DEF Read, Besides, Continues

LEMMA PassBesides ==
  ASSUME NEW nf, Pass(nf), phase \in {"main", "defaults"}
  PROVE  Besides
BY DEF Pass, Besides, Continues

LEMMA ReturnBesides ==
  ASSUME NEW r \in {"TRUE", "FAIL"}, Return(r) \/ ReturnAtOnce
  PROVE  Besides
BY DEF Return, ReturnAtOnce, Besides, Answer

LEMMA WorkBesides == Work => Besides
<1> SUFFICES ASSUME Work PROVE Besides
  OBVIOUS
<1> USE DEF Reading, Defaulting
<1>1. phase \in {"main", "defaults"}
  BY WorkSavesOrEnds DEF Saves, Ends
<1>2. ASSUME Return("TRUE") \/ Return("FAIL") \/ ReturnAtOnce PROVE Besides
  BY <1>2, ReturnBesides
<1>3. ASSUME NEW v, NEW nf, NEW q, Read(v, nf, q) PROVE Besides
  BY <1>1, <1>3, ReadBesides
<1>4. ASSUME NEW nf, Pass(nf) PROVE Besides
  BY <1>1, <1>4, PassBesides
<1>5. FormatEnds \/ FormatEndsEarly \/ Missing \/ Finished => Besides
  BY <1>2 DEF FormatEnds, FormatEndsEarly, Missing, Finished
<1>6. Required => Besides
  BY <1>2, <1>3 DEF Required
<1>7. Optional => Besides
  BY <1>2, <1>3 DEF Optional
<1>8. QuietSection => Besides
  BY <1>1 DEF QuietSection, Besides, Continues
<1>9. Delimiters \/ Delimiter => Besides
  BY <1>1, <1>2 DEF Delimiters, Delimiter, Besides, Continues
<1>10. StringDefault => Besides
  BY <1>1, <1>3 DEF StringDefault, Besides, Continues
<1>11. String => Besides
  BY <1>3, Zenon DEF String
<1>12. UserAbsent => Besides
  BY <1>2, <1>3, Zenon DEF UserAbsent
<1>13. User => Besides
  BY <1>2, <1>3, Zenon DEF User
<1>14. Array => Besides
  <2>1. Array => Return("FAIL") \/ \E type, size, length, defaulted, old : ArrayCells(type, size, length, defaulted, old)
    BY ZenonT(60) DEF Array
  <2>2. ASSUME NEW type, NEW size, NEW length, NEW defaulted, NEW old, ArrayCells(type, size, length, defaulted, old)
        PROVE  Besides
    BY <1>2, <1>3, <2>2 DEF ArrayCells
  <2> QED
    BY <1>2, <2>1, <2>2
<1>15. Enum => Besides
  <2>1. Enum => Return("FAIL") \/ \E cells, nf, d, q : ReadEnum(cells, nf, d, q)
    BY ZenonT(60) DEF Enum
  <2> QED
    BY <1>1, <1>2, <2>1 DEF ReadEnum, Besides, Continues
<1>16. Kustom => Besides
  BY <1>2, <1>3 DEF Kustom
<1>17. SearchLiteral => Besides
  BY <1>1, <1>2 DEF SearchLiteral, Besides, Continues
<1>18. Option => Besides
  <2>1. SUFFICES ASSUME Option PROVE Besides
    OBVIOUS
  <2> DEFINE t == GetMultiType(format, f + 1)
  <2>2. \/ ReturnAtOnce
        \/ /\ phase' = phase /\ result' = result /\ doSave' = doSave
           /\ \/ gOptions' = gOptions
              \/ t.v[1] \in Options /\ gOptions' = WithOption(gOptions, t.v[1], Ch(t.v, 3) # "0")
    <3>1. Ch(t.v, 1) \in Options /\ Ch(t.v, 2) = "=" => t.v[1] \in Options
      BY DEF Ch, Options, NUL
    <3> QED
      BY <2>1, <3>1 DEF Option
  <2> DEFINE on == Ch(t.v, 3) # "0"
             name == t.v[1]
  <2>3. on \in BOOLEAN
    OBVIOUS
  <2> HIDE DEF t, on, name
  <2> QED
    BY <1>1, <1>2, <2>2, <2>3 DEF Besides, Continues, Chooses, t, on, name
<1>19. Ignored \/ Discarded \/ LiteralPassed => Besides
  BY <1>4 DEF Ignored, Discarded, LiteralPassed
<1>20. InputEnds => Besides
  BY DEF InputEnds, Besides, Continues
<1>21. Default \/ DefaultPlayer => Besides
  BY <1>3 DEF Default, DefaultPlayer
<1>22. DefaultString => Besides
  BY <1>3, <1>4 DEF DefaultString
<1> QED
  BY <1>5, <1>6, <1>7, <1>8, <1>9, <1>10, <1>11, <1>12, <1>13, <1>14, <1>15, <1>16, <1>17, <1>18, <1>19,
     <1>20, <1>21, <1>22 DEF Work

\* No turn of the loops leaves Typed.
LEMMA WorkTyped == Typed /\ WorkStep => Typed'
<1> SUFFICES ASSUME Typed, WorkStep PROVE Typed'
  OBVIOUS
<1>1. Besides /\ (Concludes \/ GoesOn \/ InputEnds) /\ (Saves \/ Ends)
  BY WorkBesides, WorkGoesOn, WorkSavesOrEnds DEF Typed, WorkStep
<1>2. phase \in {"main", "defaults"} /\ phase' \in {"main", "defaults", "ended"}
  BY <1>1 DEF Saves, Ends, Besides, Answer
<1>3. call' = call /\ call \in Calls /\ turns' = turns + 1 /\ defaultOpts' = defaultOpts /\ players' = players
  BY <1>2 DEF WorkStep, Typed, Timely
<1>4. Timely'
  BY WorkKeepsTimely DEF Typed
<1>5. f' \in Nat \ {0}
  BY <1>1 DEF Concludes, GoesOn, InputEnds, Past, Typed
<1>6. s' \in Nat \ {0}
  <2>1. Reads
    BY <1>2, <1>3 DEF Reads, Typed
  <2>2. Past(s, s')
    BY <2>1, WorkAdvances DEF WorkStep, Advances
  <2> QED
    BY <2>2 DEF Past, Typed
<1>7. \E S : saved' \in Seq(S)
  <2>1. PICK S : saved \in Seq(S)
    BY DEF Typed
  <2>2. CASE Ends
    BY <2>1, <2>2 DEF Ends, Kept
  <2>3. CASE Saves
    <3>1. PICK v : saved' = IF doSave THEN Append(saved, v) ELSE saved
      BY <2>3 DEF Saves, Save
    <3>2. Append(saved, v) \in Seq(S \cup {v})
      BY <2>1, AppendToSeq
    <3> QED
      BY <2>1, <3>1, <3>2
  <2> QED
    BY <1>1, <2>2, <2>3
<1>8. doSave' \in BOOLEAN /\ turns' \in Nat
  BY <1>1, <1>3 DEF Besides, Typed
<1>9. gOptions' \subseteq Options
  BY <1>1 DEF Besides, Answer, Continues, Chooses, WithOption, Typed, Typing, PlayersTypeOK
<1>10. Typing'
  BY <1>3, <1>9 DEF players, Typed, Typing, PlayersTypeOK, CallbackOk, Ids, Options
<1>11. result' \in {"none", "TRUE", "FAIL"} /\ (phase' = "ended" <=> result' # "none")
  BY <1>1, <1>2 DEF Besides, Answer, Continues, Chooses, Typed
<1>12. phase' = "idle" <=> call' = NoCall
  BY <1>2, <1>3, CallsAssumption
<1> QED
  BY <1>3, <1>4, <1>5, <1>6, <1>7, <1>8, <1>10, <1>11, <1>12 DEF Typed

(***************************************************************************)
(* Every variable has its type at every step of every call, the places in  *)
(* the format and in the text are places however the readers, arrays and   *)
(* enumerations move them, and a call has an answer when it has ended and  *)
(* not before.                                                             *)
(***************************************************************************)
THEOREM CallsAreTyped == Spec => []TypeOK
<1>1. Init => Typed
  <2> SUFFICES ASSUME Init PROVE Typed
    OBVIOUS
  <2>1. Typing
    BY PlayersInitTyping DEF Init
  <2>2. Timely
    BY DEF Init, Timely, EndsInTime
  <2>3. \E S : saved \in Seq(S)
    BY EmptyIsASeq DEF Init
  <2>4. /\ phase = "idle" /\ call = NoCall /\ f = 1 /\ s = 1 /\ defaultOpts = {} /\ result = "none" /\ turns = 0
        /\ doSave = TRUE
    BY DEF Init
  <2>5. doSave \in BOOLEAN
    BY <2>4
  <2> QED
    BY <2>1, <2>2, <2>3, <2>4, <2>5 DEF Typed
<1>2. Typed /\ [Next]_vars => Typed'
  <2> SUFFICES ASSUME Typed, [Next]_vars PROVE Typed'
    OBVIOUS
  <2>1. ASSUME NEW c \in Calls, Call(c) PROVE Typed'
    <3>1. Typing'
      BY <2>1, PlayersTypingStep DEF Call, playersVars, Typed
    <3>2. Timely'
      <4>1. phase' = "main" /\ call' = c /\ turns' = 0 /\ (f' = 2 \/ f' = 1)
        BY <2>1 DEF Call
      <4>2. Len(format') \in Nat
        BY <4>1, CallsAssumption DEF format
      <4> QED
        BY <4>1, <4>2 DEF Timely, EndsInTime
    <3>3. s' \in Nat \ {0}
      <4>1. Len(Corrected(c.text)) \in Nat
        <5>1. c.text \in Seq(ToSet(c.text))
          BY CallsAssumption
        <5> QED
          BY <5>1 DEF Corrected
      <4>2. Past(1, SkipWhitespace(Corrected(c.text), 1))
        BY <4>1, SkipWhitespaceGoesOn DEF Onward
      <4>3. s' = SkipWhitespace(Corrected(c.text), 1)
        BY <2>1 DEF Call
      <4> QED
        BY <4>2, <4>3 DEF Past
    <3>4. /\ phase' = "main" /\ call' = c /\ c # NoCall /\ f' \in {1, 2} /\ doSave' \in BOOLEAN /\ saved' = <<>>
          /\ defaultOpts' = gOptions /\ result' = "none" /\ turns' = 0
      BY <2>1, CallsAssumption DEF Call
    <3>5. gOptions \subseteq Options
      BY DEF Typed, Typing, PlayersTypeOK
    <3>6. \E S : saved' \in Seq(S)
      BY <3>4, EmptyIsASeq
    <3> QED
      BY <3>1, <3>2, <3>3, <3>4, <3>5, <3>6 DEF Typed
  <2>2. CASE WorkStep
    BY <2>2, WorkTyped
  <2>3. CASE Returned
    <3>1. Typing'
      BY <2>3, PlayersTypingStep DEF Returned, playersVars, Typed
    <3>2. Timely'
      BY <2>3 DEF Returned, Timely, EndsInTime
    <3>3. \E S : saved' \in Seq(S)
      BY <2>3, EmptyIsASeq DEF Returned
    <3>4. /\ phase' = "idle" /\ call' = NoCall /\ f' = 1 /\ s' = 1 /\ defaultOpts' = {} /\ result' = "none"
          /\ turns' = 0 /\ doSave' = TRUE
      BY <2>3 DEF Returned
    <3>5. doSave' \in BOOLEAN
      BY <3>4
    <3> QED
      BY <3>1, <3>2, <3>3, <3>4, <3>5 DEF Typed
  <2>4. ASSUME UNCHANGED callVars, [PlayersNext]_playersVars PROVE Typed'
    <3>1. Typing'
      BY <2>4, PlayersTypingStep DEF Typed
    <3>2. Timely'
      BY <2>4 DEF callVars, Timely, EndsInTime, format, Typed
    <3> QED
      BY <2>4, <3>1, <3>2 DEF callVars, Typed
  <2>5. CASE UNCHANGED vars
    BY <2>4, <2>5 DEF vars, playersVars
  <2> QED
    BY <2>1, <2>2, <2>3, <2>4, <2>5 DEF Next
<1>3. Typed => TypeOK
  <2> SUFFICES ASSUME Typed PROVE TypeOK
    OBVIOUS
  <2>1. DOMAIN saved = 1..Len(saved)
    BY DEF Typed
  <2> QED
    BY <2>1 DEF Typed, Typing, Timely, TypeOK
<1> QED
  BY <1>1, <1>2, <1>3, PTL DEF Spec

-----------------------------------------------------------------------------
(***************************************************************************)
(* What wraps to the same cell differs by a multiple of the cells.         *)
(***************************************************************************)
LEMMA Rest ==
  ASSUME NEW M \in Nat \ {0}, NEW x \in Int, NEW q \in Int, NEW r \in 0..(M - 1), x = M * q + r
  PROVE  x % M = r
<1>1. x % M \in 0..(M - 1) /\ x \div M \in Int /\ x = M * (x \div M) + (x % M)
  OBVIOUS
<1> DEFINE z == (x \div M) - q
           d == r - (x % M)
<1>2. d = M * z
  BY <1>1
<1>3. z \in Int /\ d \in Int /\ d < M /\ -M < d
  BY <1>1
<1> HIDE DEF z, d
<1>4. z >= 1 => M * z >= M
  BY <1>3
<1>5. z <= -1 => M * z <= -M
  BY <1>3
<1>6. z = 0
  BY <1>2, <1>3, <1>4, <1>5
<1>7. d = 0
  BY <1>2, <1>6
<1> QED
  BY <1>1, <1>7 DEF d

LEMMA Wraps ==
  ASSUME NEW n \in Int
  PROVE  Wrap(n) \in Int /\ \E q \in Int : n = Wrap(n) + (2 * Half) * q
<1> DEFINE M == 2 * Half
           x == n + Half
<1>1. M \in Nat \ {0} /\ x \in Int
  BY HalfAssumption
<1> HIDE DEF M
<1>2. x % M \in 0..(M - 1) /\ x \div M \in Int /\ x = M * (x \div M) + (x % M)
  BY <1>1
<1>3. Wrap(n) = (x % M) - Half
  BY DEF Wrap, M
<1>4. n = Wrap(n) + M * (x \div M) /\ Wrap(n) \in Int
  <2> DEFINE y == M * (x \div M)
             r == x % M
  <2>1. y \in Int /\ r \in Int /\ n + Half = y + r /\ Wrap(n) = r - Half /\ Half \in Int
    BY <1>1, <1>2, <1>3, HalfAssumption
  <2> HIDE DEF y, r, x
  <2> QED
    BY <2>1 DEF y
<1> QED
  BY <1>2, <1>4 DEF M

LEMMA WrapsAlike ==
  ASSUME NEW a \in Int, NEW b \in Int, NEW q \in Int, a = b + (2 * Half) * q
  PROVE  Wrap(a) = Wrap(b)
<1> DEFINE M == 2 * Half
           x == b + Half
<1>1. M \in Nat \ {0} /\ x \in Int
  BY HalfAssumption
<1> HIDE DEF M
<1>2. x % M \in 0..(M - 1) /\ x \div M \in Int /\ x = M * (x \div M) + (x % M)
  BY <1>1
<1>3. a + Half = M * ((x \div M) + q) + (x % M)
  <2>1. a = b + M * q
    BY DEF M
  <2> QED
    BY <1>1, <1>2, <2>1, HalfAssumption
<1>4. a + Half \in Int /\ (x \div M) + q \in Int
  BY <1>2, HalfAssumption
<1>5. (a + Half) % M = x % M
  BY <1>1, <1>2, <1>3, <1>4, Rest
<1> QED
  BY <1>5 DEF Wrap, M

\* So that sums and multiples may be wrapped at the end, or on the way.
LEMMA WrapsOnTheWay ==
  ASSUME NEW a \in Int, NEW b \in Int, Wrap(a) = Wrap(b), NEW m \in Int, NEW d \in Int
  PROVE  Wrap(m * a + d) = Wrap(m * b + d)
<1>1. PICK q \in Int : a = Wrap(a) + (2 * Half) * q
  BY Wraps
<1>2. PICK r \in Int : b = Wrap(b) + (2 * Half) * r
  BY Wraps
<1> DEFINE M == 2 * Half
<1>3. M \in Int
  BY HalfAssumption
<1>4. a = b + M * (q - r)
  <2>1. Wrap(a) \in Int /\ a = Wrap(a) + M * q /\ b = Wrap(a) + M * r
    BY <1>1, <1>2, Wraps
  <2> HIDE DEF M
  <2> QED
    BY <1>3, <2>1
<1> HIDE DEF M
<1>5. m * a + d = (m * b + d) + M * (m * (q - r))
  <2>1. m * (M * (q - r)) = M * (m * (q - r))
    BY <1>3
  <2>2. m * a = m * b + m * (M * (q - r))
    BY <1>3, <1>4
  <2> QED
    BY <1>3, <2>1, <2>2
<1>6. m * a + d \in Int /\ m * b + d \in Int /\ m * (q - r) \in Int
  OBVIOUS
<1> QED
  BY <1>5, <1>6, WrapsAlike DEF M

LEMMA WrapTwice == \A n \in Int : Wrap(Wrap(n)) = Wrap(n)
<1> SUFFICES ASSUME NEW n \in Int PROVE Wrap(Wrap(n)) = Wrap(n)
  OBVIOUS
<1>1. PICK q \in Int : n = Wrap(n) + (2 * Half) * q
  BY Wraps
<1>2. Wrap(n) \in Int
  BY Wraps
<1> QED
  BY <1>1, <1>2, WrapsAlike

(***************************************************************************)
(* Numerals.  GetDec wraps after every digit, Number at the end.           *)
(***************************************************************************)
(* A number with one digit more, not wrapped *)
WithDigit(a, c) == 10 * a + (Code[c] - 48)

\* A digit's number is the number of its character, less 48.
LEMMA DecDigits == \A c \in Dec : Code[c] - 48 \in Int /\ DigitOf(c) = Code[c] - 48
<1>1. \A c \in Dec : DigitOf(c) \in Int /\ DigitOf(c) = Code[c] - 48
  <2>1. \A c \in Dec : DigitOf(c) = Code[c] - 48
    BY DEF DigitOf
  <2> QED
    BY <2>1, DigitsAreNumbers
<1> QED
  BY <1>1

(* Where the digits from p on end *)
DigitsEnd(t, p) == FirstAt(t, p, LAMBDA c : c \notin Dec)

LEMMA DigitsEndThere ==
  ASSUME NEW S, NEW t \in Seq(S), NEW p \in 1..(Len(t) + 1)
  PROVE  /\ DigitsEnd(t, p) \in p..(Len(t) + 1)
         /\ \A q \in p..(DigitsEnd(t, p) - 1) : t[q] \in Dec
<1>1. /\ FirstAt(t, p, LAMBDA c : c \notin Dec) \in p..(Len(t) + 1)
      /\ \A q \in p..(FirstAt(t, p, LAMBDA c : c \notin Dec) - 1) : t[q] \in Dec
  BY DigitsAreFound
<1> QED
  BY <1>1, Zenon DEF DigitsEnd

\* The loop in Number, turn by turn.
LEMMA NumberRuns ==
  ASSUME NEW seq \in Seq(Dec)
  PROVE  \E h : /\ h[0] = 0
                /\ \A k \in 1..Len(seq) : h[k - 1] \in Int => h[k] = WithDigit(h[k - 1], seq[k])
                /\ Number(seq) = Wrap(h[Len(seq)])
<1> DEFINE n == Len(seq)
           T == Int
           none == 0
           op == [x \in T \X Dec |-> WithDigit(x[1], x[2])]
           indices == DOMAIN seq
           Solves(iter) ==
             iter = [u \in SUBSET indices |->
                       IF u = {} THEN none ELSE WithDigit(iter[u \ {Max(u)}], seq[Max(u)])]
           fold == CHOOSE iter : Solves(iter)
<1>1. Number(seq) = Wrap(fold[indices])
  BY Zenon DEF Number, FoldLeft, MapThenFoldSet, WithDigit
<1>3. n \in Nat /\ indices = 1..n /\ \A k \in 1..n : seq[k] \in Dec
  OBVIOUS
<1> HIDE DEF n, indices
<1>4. \A a \in T, c \in Dec : op[<<a, c>>] = WithDigit(a, c) /\ op[<<a, c>>] \in T
  BY DecDigits DEF WithDigit
<1>11. none \in T
  OBVIOUS
<1> HIDE DEF op, T, none
<1>5. PICK g \in [SUBSET (1..n) -> T] : Folds(g, none, op, seq, n)
  BY <1>3, <1>4, <1>11, FoldExists
<1>6. Solves(g)
  <2>1. ASSUME NEW u \in SUBSET (1..n), u # {}
        PROVE  op[<<g[u \ {Max(u)}], seq[Max(u)]>>] = WithDigit(g[u \ {Max(u)}], seq[Max(u)])
    <3>1. Max(u) \in 1..n
      BY <1>3, <2>1, Largest
    <3>2. seq[Max(u)] \in Dec /\ g[u \ {Max(u)}] \in T
      BY <1>3, <1>5, <3>1
    <3> QED
      BY <1>4, <3>2
  <2>2. \A u \in SUBSET (1..n) :
          g[u] = IF u = {} THEN none ELSE WithDigit(g[u \ {Max(u)}], seq[Max(u)])
    BY <1>5, <2>1 DEF Folds
  <2> QED
    BY <1>3, <2>2
<1>7. Solves(fold)
  <2> HIDE DEF Solves
  <2> QED
    BY <1>6
<1> HIDE DEF fold
<1>8. fold[{}] = none
  BY <1>7, <1>3
<1>9. ASSUME NEW k \in 1..n PROVE fold[1..k] = WithDigit(fold[1..(k - 1)], seq[k])
  <2>1. 1..k \in SUBSET (1..n) /\ 1..k # {} /\ Max(1..k) = k /\ (1..k) \ {k} = 1..(k - 1)
    BY <1>3, UpTo
  <2> QED
    BY <1>7, <1>3, <2>1
<1> HIDE DEF Solves
<1> DEFINE h == [k \in 0..n |-> fold[1..k]]
<1>10. h[0] = 0 /\ h[n] = fold[indices]
  <2>1. 1..0 = {} /\ 0 \in 0..n /\ n \in 0..n
    BY <1>3
  <2> QED
    BY <1>3, <1>8, <2>1 DEF none
<1>12. ASSUME NEW k \in 1..n PROVE h[k] = WithDigit(h[k - 1], seq[k])
  BY <1>3, <1>9
<1> HIDE DEF h
<1> QED
  BY <1>1, <1>10, <1>12 DEF n

(* The digits from p on *)
DigitsAt(t, p) == SubSeq(t, p, DigitsEnd(t, p) - 1)

\* The loop in Digits, turn by turn.
LEMMA DigitsRuns ==
  ASSUME NEW S, NEW t \in Seq(S), NEW p \in 1..(Len(t) + 1)
  PROVE  \E h : /\ h[0] = 0
                /\ \A k \in 1..(DigitsEnd(t, p) - p) : h[k] = NextDigit(h[k - 1], DigitsAt(t, p)[k])
                /\ Digits(t, p, Dec, 10, 1) = [v |-> Wrap(1 * h[DigitsEnd(t, p) - p]), p |-> DigitsEnd(t, p)]
<1> DEFINE e == DigitsEnd(t, p)
           seq == SubSeq(t, p, e - 1)
           n == e - p
           T == Int
           none == 0
           op == [x \in T \X Dec |-> NextDigit(x[1], x[2])]
           indices == DOMAIN seq
           Solves(iter) ==
             iter = [u \in SUBSET indices |->
                       IF u = {} THEN none ELSE NextDigit(iter[u \ {Max(u)}], seq[Max(u)])]
           fold == CHOOSE iter : Solves(iter)
<1>1. Digits(t, p, Dec, 10, 1) = [v |-> Wrap(1 * fold[indices]), p |-> e]
  BY Zenon DEF Digits, DigitsEnd, FoldLeft, MapThenFoldSet, NextDigit
<1>2. e \in p..(Len(t) + 1) /\ \A q \in p..(e - 1) : t[q] \in Dec
  BY DigitsEndThere
<1>0. seq = DigitsAt(t, p)
  BY DEF DigitsAt
<1> HIDE DEF e
<1>3. n \in Nat /\ indices = 1..n /\ \A k \in 1..n : seq[k] \in Dec
  BY <1>2
<1> HIDE DEF n, seq, indices
<1>4. \A a \in T, c \in Dec : op[<<a, c>>] = NextDigit(a, c) /\ op[<<a, c>>] \in T
  BY NextDigitIsANumber
<1>11. none \in T
  OBVIOUS
<1> HIDE DEF op, T, none
<1>5. PICK g \in [SUBSET (1..n) -> T] : Folds(g, none, op, seq, n)
  BY <1>3, <1>4, <1>11, FoldExists
<1>6. Solves(g)
  <2>1. ASSUME NEW u \in SUBSET (1..n), u # {}
        PROVE  op[<<g[u \ {Max(u)}], seq[Max(u)]>>] = NextDigit(g[u \ {Max(u)}], seq[Max(u)])
    <3>1. Max(u) \in 1..n
      BY <1>3, <2>1, Largest
    <3>2. seq[Max(u)] \in Dec /\ g[u \ {Max(u)}] \in T
      BY <1>3, <1>5, <3>1
    <3> QED
      BY <1>4, <3>2
  <2>2. \A u \in SUBSET (1..n) :
          g[u] = IF u = {} THEN none ELSE NextDigit(g[u \ {Max(u)}], seq[Max(u)])
    BY <1>5, <2>1 DEF Folds
  <2> QED
    BY <1>3, <2>2
<1>7. Solves(fold)
  <2> HIDE DEF Solves
  <2> QED
    BY <1>6
<1> HIDE DEF fold
<1>8. fold[{}] = none
  BY <1>7, <1>3
<1>9. ASSUME NEW k \in 1..n PROVE fold[1..k] = NextDigit(fold[1..(k - 1)], seq[k])
  <2>1. 1..k \in SUBSET (1..n) /\ 1..k # {} /\ Max(1..k) = k /\ (1..k) \ {k} = 1..(k - 1)
    BY <1>3, UpTo
  <2> QED
    BY <1>7, <1>3, <2>1
<1> HIDE DEF Solves
<1> DEFINE h == [k \in 0..n |-> fold[1..k]]
<1>10. h[0] = 0 /\ h[n] = fold[indices]
  <2>1. 1..0 = {} /\ 0 \in 0..n /\ n \in 0..n
    BY <1>3
  <2> QED
    BY <1>3, <1>8, <2>1 DEF none
<1>12. ASSUME NEW k \in 1..n PROVE h[k] = NextDigit(h[k - 1], seq[k])
  BY <1>3, <1>9
<1> HIDE DEF h
<1> QED
  BY <1>0, <1>1, <1>10, <1>12 DEF n, e

\* The digits at p are the numeral, and its number is read.
LEMMA DigitsRead ==
  ASSUME NEW S, NEW t \in Seq(S), NEW p \in 1..(Len(t) + 1)
  PROVE  Digits(t, p, Dec, 10, 1) = [v |-> Number(DigitsAt(t, p)), p |-> DigitsEnd(t, p)]
<1> DEFINE seq == DigitsAt(t, p)
           e == DigitsEnd(t, p)
           n == e - p
<1>1. e \in p..(Len(t) + 1) /\ \A q \in p..(e - 1) : t[q] \in Dec
  BY DigitsEndThere
<1>2. seq \in Seq(Dec) /\ Len(seq) = n /\ n \in Nat
  <2>1. seq = [k \in 1..n |-> t[p + k - 1]] /\ n \in Nat
    BY <1>1 DEF DigitsAt
  <2>2. \A k \in 1..n : t[p + k - 1] \in Dec
    BY <1>1
  <2> HIDE DEF seq, n
  <2> QED
    BY <2>1, <2>2
<1>3. PICK g : /\ g[0] = 0
               /\ \A k \in 1..n : g[k] = NextDigit(g[k - 1], seq[k])
               /\ Digits(t, p, Dec, 10, 1) = [v |-> Wrap(1 * g[n]), p |-> e]
  BY DigitsRuns
<1> HIDE DEF seq, n, e
<1>4. PICK h : /\ h[0] = 0
               /\ \A k \in 1..n : h[k - 1] \in Int => h[k] = WithDigit(h[k - 1], seq[k])
               /\ Number(seq) = Wrap(h[n])
  BY <1>2, NumberRuns
<1> DEFINE Alike(k) == g[k] \in Int /\ h[k] \in Int /\ Wrap(g[k]) = Wrap(h[k])
           Good == {k \in Nat : k <= n => Alike(k)}
<1>5. 0 \in Good
  BY <1>3, <1>4
<1>6. ASSUME NEW k \in Good PROVE k + 1 \in Good
  <2> SUFFICES ASSUME k + 1 <= n PROVE Alike(k + 1)
    OBVIOUS
  <2>1. k + 1 \in 1..n /\ (k + 1) - 1 = k /\ g[k] \in Int /\ h[k] \in Int /\ Wrap(g[k]) = Wrap(h[k])
    BY <1>2
  <2> DEFINE c == seq[k + 1]
             d == Code[c] - 48
  <2>2. c \in Dec
    BY <1>2, <2>1
  <2>3. d \in Int /\ DigitOf(c) = d
    BY <2>2, DecDigits
  <2>4. g[k + 1] = NextDigit(g[k], c) /\ h[k + 1] = WithDigit(h[k], c)
    BY <1>3, <1>4, <2>1
  <2> HIDE DEF Good, Alike, c, d
  <2>5. g[k + 1] = Wrap(10 * g[k] + d) /\ h[k + 1] = 10 * h[k] + d
    BY <2>1, <2>3, <2>4 DEF NextDigit, WithDigit, d
  <2>6. Wrap(10 * g[k] + d) = Wrap(10 * h[k] + d)
    <3>1. 10 \in Int /\ g[k] \in Int /\ h[k] \in Int /\ d \in Int /\ Wrap(g[k]) = Wrap(h[k])
      BY <2>1, <2>3
    <3>2. \A m, x \in Int : Wrap(m * g[k] + x) = Wrap(m * h[k] + x)
      <4> DEFINE a == g[k]
                 b == h[k]
      <4>1. a \in Int /\ b \in Int /\ Wrap(a) = Wrap(b)
        BY <3>1
      <4> HIDE DEF a, b
      <4>2. \A m, x \in Int : Wrap(m * a + x) = Wrap(m * b + x)
        BY <4>1, WrapsOnTheWay, Zenon
      <4> QED
        BY <4>2 DEF a, b
    <3> QED
      BY <3>1, <3>2, Zenon
  <2>7. 10 * g[k] + d \in Int /\ 10 * h[k] + d \in Int
    BY <2>1, <2>3
  <2> QED
    BY <2>5, <2>6, <2>7, WrapTwice, WrapIsAnInteger DEF Alike
<1>7. Good \in SUBSET Nat /\ \A k \in Good : k + 1 \in Good
  BY <1>6
<1> HIDE DEF Good
<1>8. n \in Good
  BY <1>2, <1>5, <1>7, Induct
<1>9. g[n] \in Int /\ Wrap(g[n]) = Wrap(h[n])
  BY <1>2, <1>8 DEF Good
<1> QED
  BY <1>3, <1>4, <1>9 DEF seq, e

(***************************************************************************)
(* The fields of a text, and where one begins.                             *)
(***************************************************************************)
Spaces == {" "}
Commas == {","}
Blanks == {" ", ","}

(* The separators in front of q *)
Before(t, q) == Cardinality({r \in Separators(t) : r < q})

(* At p the field k begins, or the text is at its end and has no field k *)
Begins(t, p, k) ==
  IF p <= Len(t)
  THEN /\ t[p] # " " /\ Before(t, p) = k - 1
       /\ \A q \in 1..p - 1 : t[q] \notin Blanks => Before(t, q) < k - 1
  ELSE /\ Cardinality(Separators(t)) < k
       /\ Cardinality(Separators(t)) = k - 1 => InField(t, k) = {}

Of(c, k) == FieldOf(c.specs[k], c.text, k)
ToSave(c) == Wanted(c.specs)
Place(c, k) == Cardinality({m \in ToSave(c) : m <= k})

(* The specifiers up to k are done, and had their fields *)
Done(c, out, k) ==
  /\ \A j \in 1..k : Of(c, j).ok
  /\ Len(out) = Place(c, k)
  /\ \A j \in ToSave(c) : j <= k => out[Place(c, j)] = Of(c, j).v

(* Where the specifiers in front of k are done: at k, in its quiet section *)
(* before and after its letter, or at the end of its default               *)
AtField(k) == f = call.at[k] /\ doSave /\ Done(call, saved, k - 1) /\ Begins(call.text, s, k)

InQuiet(k) ==
  /\ call.specs[k] = "q" /\ f = call.at[k] + 1 /\ ~doSave
  /\ Done(call, saved, k - 1) /\ Len(saved) < call.params /\ Begins(call.text, s, k)

PastQuiet(k) ==
  /\ call.specs[k] = "q" /\ f = call.at[k] + 2 /\ ~doSave
  /\ Done(call, saved, k - 1) /\ Of(call, k).ok /\ Begins(call.text, s, k + 1)

AtClose(k) ==
  /\ call.specs[k] = "I" /\ f = call.at[k] + 3 /\ doSave
  /\ Done(call, saved, k) /\ Begins(call.text, s, k + 1)

AmongFields ==
  /\ s \in 1..Len(call.text) + 1
  /\ phase = "defaults" => delim = {")"} /\ (s = Len(call.text) + 1 \/ ~More)
  /\ \/ f = 1 /\ doSave /\ Done(call, saved, 0) /\ Begins(call.text, s, 1)
     \/ /\ phase = "main" => delim = Commas
        /\ \/ \E k \in 1..Len(call.specs) + 1 : AtField(k)
           \/ \E k \in 1..Len(call.specs) : InQuiet(k) \/ PastQuiet(k) \/ AtClose(k)

(***************************************************************************)
(* A text without a sign, a NUL or a null string.                          *)
(***************************************************************************)
Signless(t) == \A q \in 1..Len(t) : t[q] \notin {"+", "-", "SOH", NUL}

\* Up to the first character that is no whitespace, or to the end.
LEMMA Skipped ==
  ASSUME NEW S, NEW t \in Seq(S), NEW p \in 1..(Len(t) + 1)
  PROVE  /\ SkipWhitespace(t, p) \in p..(Len(t) + 1)
         /\ \A q \in p..(SkipWhitespace(t, p) - 1) : IsWhitespace(t[q])
         /\ SkipWhitespace(t, p) <= Len(t) => ~IsWhitespace(t[SkipWhitespace(t, p)])
<1> DEFINE hits == {q \in p..Len(t) : ~IsWhitespace(t[q])}
           e == SkipWhitespace(t, p)
<1>1. hits \in SUBSET (p..Len(t)) /\ hits \in SUBSET Nat
  OBVIOUS
<1>2. e = IF hits # {} THEN CHOOSE q \in hits : \A r \in hits : q <= r
          ELSE IF p > Len(t) THEN p ELSE Len(t) + 1
  BY Zenon DEF SkipWhitespace, FirstAt
<1>3. \A q \in p..Len(t) : q \in hits \/ IsWhitespace(t[q])
  OBVIOUS
<1>6. \A q \in hits : ~IsWhitespace(t[q])
  OBVIOUS
<1> HIDE DEF hits
<1>4. CASE hits = {}
  <2>1. e = Len(t) + 1
    BY <1>2, <1>4
  <2> HIDE DEF e
  <2>2. e \in p..(Len(t) + 1) /\ (\A q \in p..(e - 1) : IsWhitespace(t[q])) /\ ~(e <= Len(t))
    BY <1>3, <1>4, <2>1
  <2> QED
    BY <2>2 DEF e
<1>5. CASE hits # {}
  <2>1. \E q \in hits : \A r \in hits : q <= r
    BY <1>1, <1>5, Least, Zenon
  <2>2. e \in hits /\ \A r \in hits : e <= r
    BY <1>2, <1>5, <2>1, Zenon
  <2> HIDE DEF e
  <2>3. e \in p..Len(t)
    BY <1>1, <2>2
  <2>4. e \in p..(Len(t) + 1) /\ (\A q \in p..(e - 1) : IsWhitespace(t[q])) /\ ~IsWhitespace(t[e])
    BY <1>3, <1>6, <2>2, <2>3
  <2> QED
    BY <2>4 DEF e
<1> QED
  BY <1>4, <1>5

(* A space that separates, because no comma is next to it or to the spaces *)
(* after it                                                                *)
Alone(t, q) == /\ t[q] \in Spaces /\ q > 1 /\ t[q - 1] \notin Blanks
               /\ \E b \in q + 1..Len(t) : t[b] \notin Blanks /\ \A m \in q..b - 1 : t[m] \in Spaces

LEMMA SeparatorsAre ==
  ASSUME NEW t
  PROVE  \A q : q \in Separators(t) <=> q \in 1..Len(t) /\ (t[q] \in Commas \/ Alone(t, q))
<1>1. \A x : (x \in Spaces <=> x = " ") /\ (x \in Commas <=> x = ",")
  BY Zenon DEF Spaces, Commas
<1> SUFFICES ASSUME NEW q PROVE q \in Separators(t) <=> q \in 1..Len(t) /\ (t[q] \in Commas \/ Alone(t, q))
  OBVIOUS
<1> DEFINE Following(b) == /\ t[b] \notin {" ", ","}
                           /\ \A m \in q..b - 1 : t[m] = " "
<1>2. \A b : Following(b) <=> t[b] \notin Blanks /\ \A m \in q..b - 1 : t[m] \in Spaces
  BY <1>1, Zenon DEF Blanks
<1> HIDE DEF Following
<1>3. Alone(t, q) <=> t[q] = " " /\ q > 1 /\ t[q - 1] \notin {" ", ","} /\ \E b \in q + 1..Len(t) : Following(b)
  BY <1>1, <1>2, Zenon DEF Alone, Blanks
<1> QED
  BY <1>1, <1>3, Zenon DEF Separators, Following

\* The count of the separators in front of a place.
LEMMA Counted ==
  ASSUME NEW t, Len(t) \in Nat
  PROVE  /\ IsFiniteSet(Separators(t)) /\ Cardinality(Separators(t)) \in Nat
         /\ \A q \in Nat : Before(t, q) \in Nat /\ Before(t, q) <= Cardinality(Separators(t))
         /\ \A q, r \in Nat : q <= r => Before(t, q) <= Before(t, r)
         /\ \A q, r \in Nat : q <= r /\ (\A m \in q..r - 1 : m \notin Separators(t)) => Before(t, q) = Before(t, r)
         /\ \A q \in Separators(t) : Before(t, q + 1) = Before(t, q) + 1
         /\ Before(t, Len(t) + 1) = Cardinality(Separators(t))
<1> DEFINE S == Separators(t)
           Ahead(q) == {r \in S : r < q}
<1>1. S \subseteq 1..Len(t) /\ \A x \in S : x \in Nat /\ x <= Len(t)
  <2>1. \A x \in S : x \in 1..Len(t)
    BY SeparatorsAre, Zenon
  <2> HIDE DEF S
  <2> QED
    BY <2>1
<1>2. IsFiniteSet(S)
  <2>1. 1 \in Int /\ Len(t) \in Int
    OBVIOUS
  <2>2. IsFiniteSet(1..Len(t))
    BY <2>1, FS_Interval, Zenon
  <2> QED
    BY <1>1, <2>2, FS_Subset, Zenon
<1>3. \A q : Before(t, q) = Cardinality(Ahead(q))
  BY DEF Before
<1> HIDE DEF S
<1>12. \A q \in Nat : Ahead(q) \subseteq S /\ \A x \in S : x \in Nat /\ (x \in Ahead(q) <=> x < q)
  BY <1>1
<1> HIDE DEF Ahead
<1>4. \A q \in Nat : Ahead(q) \subseteq S /\ IsFiniteSet(Ahead(q))
  BY <1>2, <1>12, FS_Subset
<1>5. \A q, r \in Nat : q <= r => Ahead(q) \subseteq Ahead(r)
  <2> SUFFICES ASSUME NEW q \in Nat, NEW r \in Nat, q <= r, NEW x \in Ahead(q) PROVE x \in Ahead(r)
    OBVIOUS
  <2>1. x \in S /\ x \in Nat /\ x < q
    BY <1>12
  <2>2. x < r
    BY <2>1
  <2> QED
    BY <1>12, <2>1, <2>2
<1>6. \A q, r \in Nat : q <= r /\ (\A m \in q..r - 1 : m \notin S) => Ahead(q) = Ahead(r)
  <2> SUFFICES ASSUME NEW q \in Nat, NEW r \in Nat, q <= r, \A m \in q..r - 1 : m \notin S
               PROVE  Ahead(r) = Ahead(q)
    OBVIOUS
  <2>1. ASSUME NEW x \in Ahead(r) PROVE x \in Ahead(q)
    <3>1. x \in S /\ x \in Nat /\ x < r
      BY <1>12
    <3>2. x < q
      BY <3>1
    <3> QED
      BY <1>12, <3>1, <3>2
  <2>2. Ahead(q) \subseteq Ahead(r)
    BY <1>5
  <2> QED
    BY <2>1, <2>2, Zenon
<1>7. ASSUME NEW q \in S PROVE Ahead(q + 1) = Ahead(q) \cup {q} /\ q \notin Ahead(q) /\ q \in Nat /\ q + 1 \in Nat
  <2>1. q \in Nat /\ q + 1 \in Nat /\ ~(q < q) /\ q < q + 1
    BY <1>1
  <2>2. q \notin Ahead(q) /\ q \in Ahead(q + 1)
    BY <1>12, <2>1
  <2>3. ASSUME NEW x \in Ahead(q + 1) PROVE x \in Ahead(q) \cup {q}
    <3>1. x \in S /\ x \in Nat /\ x < q + 1
      BY <1>12, <2>1
    <3>2. x < q \/ x = q
      BY <2>1, <3>1
    <3> QED
      BY <1>12, <2>1, <3>1, <3>2
  <2>4. Ahead(q) \subseteq Ahead(q + 1)
    <3>1. q <= q + 1
      BY <2>1
    <3> QED
      BY <1>5, <2>1, <3>1
  <2>5. Ahead(q + 1) = Ahead(q) \cup {q}
    BY <2>2, <2>3, <2>4, Zenon
  <2> QED
    BY <2>1, <2>2, <2>5
<1>8. Ahead(Len(t) + 1) = S
  <2>1. Len(t) + 1 \in Nat
    OBVIOUS
  <2>2. ASSUME NEW x \in S PROVE x \in Ahead(Len(t) + 1)
    <3>1. x \in Nat /\ x < Len(t) + 1
      BY <1>1
    <3> QED
      BY <1>12, <2>1, <3>1
  <2> QED
    BY <1>12, <2>1, <2>2, Zenon
<1>9. \A q \in Nat : Before(t, q) \in Nat /\ Before(t, q) <= Cardinality(S)
  BY <1>2, <1>3, <1>4, FS_Subset, FS_CardinalityType
<1>10. \A q, r \in Nat : q <= r => Before(t, q) <= Before(t, r)
  BY <1>3, <1>4, <1>5, FS_Subset
<1>11. ASSUME NEW q \in S PROVE Before(t, q + 1) = Before(t, q) + 1
  <2>1. Cardinality(Ahead(q) \cup {q}) = Cardinality(Ahead(q)) + 1
    BY <1>4, <1>7, FS_AddElement
  <2> QED
    BY <1>3, <1>7, <2>1
<1> QED
  BY <1>2, <1>3, <1>6, <1>8, <1>9, <1>10, <1>11, FS_CardinalityType DEF S

\* Of what a text is made.
LEMMA Characters ==
  ASSUME NEW S, NEW t \in Seq(S), Signless(t), NEW q \in 1..Len(t)
  PROVE  /\ IsWhitespace(t[q]) <=> t[q] \in Spaces
         /\ t[q] \in Blanks <=> t[q] \in Spaces \/ t[q] \in Commas
         /\ Ch(t, q) = t[q] /\ t[q] # NUL /\ Ch(t, Len(t) + 1) = NUL
<1>1. t[q] # NUL
  BY DEF Signless
<1>2. IsWhitespace(t[q]) <=> t[q] \in Spaces
  BY <1>1 DEF IsWhitespace, Spaces
<1>3. t[q] \in Blanks <=> t[q] \in Spaces \/ t[q] \in Commas
  BY DEF Spaces, Blanks, Commas
<1>4. Ch(t, q) = t[q]
  BY DEF Ch
<1>5. Ch(t, Len(t) + 1) = NUL
  BY DEF Ch
<1> QED
  BY <1>1, <1>2, <1>3, <1>4, <1>5

\* Spaces that follow a blank, or that only spaces and then a comma or the end
\* follow, separate nothing.
LEMMA SpacesInside ==
  ASSUME NEW S, NEW t \in Seq(S), NEW p \in Nat, NEW w \in 1..(Len(t) + 1),
         \A r \in p..w - 1 : r \in 1..Len(t) /\ t[r] \in Spaces,
         (p > 1 /\ t[p - 1] \in Blanks) \/ p = 1 \/ (w <= Len(t) => t[w] \in Commas)
  PROVE  \A r \in p..w - 1 : r \notin Separators(t)
<1> SUFFICES ASSUME NEW r \in p..w - 1, r \in Separators(t) PROVE FALSE
  OBVIOUS
<1>0. r \in 1..Len(t) /\ r \in Nat /\ r < w /\ p <= r /\ t[r] \in Spaces
  OBVIOUS
<1>1. Alone(t, r)
  <2>1. t[r] \notin Commas
    BY <1>0 DEF Spaces, Commas
  <2> QED
    BY <2>1, SeparatorsAre, Zenon
<1>3. r > 1 /\ t[r - 1] \notin Blanks
  BY <1>1 DEF Alone
<1>4. r = p
  <2> SUFFICES ASSUME r # p PROVE FALSE
    OBVIOUS
  <2>1. r - 1 \in p..w - 1
    BY <1>0
  <2>2. t[r - 1] \in Spaces
    BY <2>1
  <2> QED
    BY <1>3, <2>2 DEF Blanks, Spaces
<1>5. w <= Len(t) => t[w] \in Commas
  BY <1>3, <1>4
<1>6. PICK b \in r + 1..Len(t) : t[b] \notin Blanks /\ \A m \in r..b - 1 : t[m] \in Spaces
  BY <1>1 DEF Alone
<1>7. b \in Nat /\ b <= Len(t) /\ r < b
  BY <1>0, <1>6
<1>8. CASE b < w
  <2>1. b \in p..w - 1
    BY <1>0, <1>7, <1>8
  <2>2. t[b] \in Spaces
    BY <2>1
  <2> QED
    BY <1>6, <2>2 DEF Blanks, Spaces
<1>9. CASE b = w
  <2>1. t[b] \in Commas
    BY <1>5, <1>7, <1>9
  <2> QED
    BY <1>6, <2>1 DEF Blanks, Commas
<1>10. CASE w < b
  <2>1. w \in r..b - 1 /\ w <= Len(t)
    BY <1>0, <1>7, <1>10
  <2>2. t[w] \in Spaces /\ t[w] \in Commas
    BY <1>5, <1>6, <2>1
  <2> QED
    BY <2>2 DEF Spaces, Commas
<1>11. w \in Nat
  OBVIOUS
<1> QED
  BY <1>7, <1>8, <1>9, <1>10, <1>11

\* No separator is in front of the first place.
LEMMA NoneBefore ==
  ASSUME NEW t
  PROVE  Before(t, 1) = 0
<1>1. \A x \in Separators(t) : x \in 1..Len(t)
  BY SeparatorsAre, Zenon
<1>2. {r \in Separators(t) : r < 1} = {}
  <2> SUFFICES ASSUME NEW x \in Separators(t) PROVE ~(x < 1)
    OBVIOUS
  <2>1. x \in 1..Len(t)
    BY <1>1
  <2> QED
    BY <2>1
<1> QED
  BY <1>2, FS_EmptySet DEF Before

(* At the end of the text *)
AtEnd(t, p, k) ==
  /\ p = Len(t) + 1 /\ Cardinality(Separators(t)) < k
  /\ Cardinality(Separators(t)) = k - 1 => InField(t, k) = {}

\* The two ways to be where a field begins.
LEMMA BeginsInside ==
  ASSUME NEW t, Len(t) \in Nat, NEW k, NEW p \in 1..Len(t)
  PROVE  Begins(t, p, k) <=> /\ t[p] \notin Spaces /\ Before(t, p) = k - 1
                             /\ \A q \in 1..p - 1 : t[q] \in Blanks \/ Before(t, q) < k - 1
<1>1. p <= Len(t)
  OBVIOUS
<1>2. t[p] \notin Spaces <=> t[p] # " "
  BY DEF Spaces
<1> QED
  BY <1>1, <1>2, Zenon DEF Begins

LEMMA BeginsAtEnd ==
  ASSUME NEW t, Len(t) \in Nat, NEW k
  PROVE  Begins(t, Len(t) + 1, k) <=> AtEnd(t, Len(t) + 1, k)
<1>1. ~(Len(t) + 1 <= Len(t))
  OBVIOUS
<1> QED
  BY <1>1, Zenon DEF Begins, AtEnd

\* The characters of a field.
LEMMA InFieldIs ==
  ASSUME NEW t, NEW k
  PROVE  \A q : q \in InField(t, k) <=> q \in 1..Len(t) /\ t[q] \notin Blanks /\ Before(t, q) = k - 1
BY Zenon DEF InField, Before, Blanks

\* The first field of a text begins after the spaces in front of it.
LEMMA FirstBegins ==
  ASSUME NEW S, NEW t \in Seq(S), Signless(t)
  PROVE  SkipWhitespace(t, 1) \in 1..(Len(t) + 1) /\ Begins(t, SkipWhitespace(t, 1), 1)
<1> DEFINE w == SkipWhitespace(t, 1)
           n == Len(t)
<1>1. 1 \in 1..(n + 1) /\ n \in Nat
  OBVIOUS
<1>2. w \in 1..(n + 1) /\ (\A q \in 1..(w - 1) : IsWhitespace(t[q])) /\ (w <= n => ~IsWhitespace(t[w]))
  BY <1>1, Skipped
<1> HIDE DEF w
<1>3. \A q \in 1..w - 1 : q \in 1..n /\ t[q] \in Spaces /\ t[q] \in Blanks
  <2> SUFFICES ASSUME NEW q \in 1..(w - 1) PROVE q \in 1..n /\ t[q] \in Spaces /\ t[q] \in Blanks
    OBVIOUS
  <2>1. q \in 1..n
    BY <1>2
  <2>2. IsWhitespace(t[q])
    BY <1>2
  <2> QED
    BY <2>1, <2>2, Characters
<1>4. w <= n => t[w] \notin Spaces /\ w \in 1..n
  <2> SUFFICES ASSUME w <= n PROVE t[w] \notin Spaces /\ w \in 1..n
    OBVIOUS
  <2>1. w \in 1..n
    BY <1>2
  <2> QED
    BY <1>2, <2>1, Characters
<1>5. \A q \in 1..w - 1 : q \notin Separators(t)
  <2>1. 1 \in Nat /\ (\A r \in 1..w - 1 : r \in 1..Len(t) /\ t[r] \in Spaces) /\ w \in 1..(Len(t) + 1)
    BY <1>2, <1>3
  <2> QED
    BY <2>1, SpacesInside
<1>7. Before(t, w) = 0
  <2>1. 1 \in Nat /\ w \in Nat /\ 1 <= w
    BY <1>2
  <2>2. Before(t, 1) = Before(t, w)
    BY <1>1, <1>5, <2>1, Counted
  <2> QED
    BY <2>2, NoneBefore
<1>8. CASE w <= n
  <2>1. w \in 1..Len(t)
    BY <1>4, <1>8
  <2>2. Begins(t, w, 1) <=> /\ t[w] \notin Spaces /\ Before(t, w) = 1 - 1
                            /\ \A q \in 1..w - 1 : t[q] \in Blanks \/ Before(t, q) < 1 - 1
    BY <1>1, <2>1, BeginsInside
  <2>3. Begins(t, w, 1)
    BY <1>3, <1>4, <1>7, <1>8, <2>2
  <2> QED
    BY <1>2, <2>3 DEF w
<1>9. CASE w = n + 1
  <2>1. Cardinality(Separators(t)) = 0
    BY <1>1, <1>7, <1>9, Counted
  <2>2. InField(t, 1) = {}
    <3> SUFFICES ASSUME NEW q \in InField(t, 1) PROVE FALSE
      OBVIOUS
    <3>1. q \in 1..n /\ t[q] \notin Blanks
      BY InFieldIs, Zenon
    <3>2. q \in 1..w - 1
      BY <1>9, <3>1
    <3> QED
      BY <1>3, <3>1, <3>2
  <2>3. AtEnd(t, Len(t) + 1, 1)
    BY <2>1, <2>2 DEF AtEnd
  <2>4. Begins(t, Len(t) + 1, 1)
    BY <1>1, <2>3, BeginsAtEnd
  <2> QED
    BY <1>2, <1>9, <2>4 DEF w
<1> QED
  BY <1>2, <1>8, <1>9

\* From where a field ends, over the spacer after it, to where the next one begins.
LEMMA NextBegins ==
  ASSUME NEW S, NEW t \in Seq(S), Signless(t), NEW k \in Nat \ {0}, NEW q \in 1..(Len(t) + 1),
         Before(t, q) = k - 1,
         q <= Len(t) => t[q] \in Blanks /\ (t[q] \in Spaces => q > 1 /\ t[q - 1] \notin Blanks)
  PROVE  /\ SkipOneSpacer({","}, t, q) \in 1..(Len(t) + 1)
         /\ Begins(t, SkipOneSpacer({","}, t, q), k + 1)
<1> DEFINE n == Len(t)
           w == SkipWhitespace(t, q)
           v == SkipWhitespace(t, w + 1)
           e == SkipOneSpacer({","}, t, q)
<1> SUFFICES e \in 1..(n + 1) /\ Begins(t, e, k + 1)
  OBVIOUS
<1>1. n \in Nat /\ q \in Nat
  OBVIOUS
<1>2. w \in q..(n + 1) /\ (\A r \in q..(w - 1) : IsWhitespace(t[r])) /\ (w <= n => ~IsWhitespace(t[w]))
  BY Skipped
<1>3. e = IF Ch(t, w) = "," THEN v ELSE w
  BY DEF SkipOneSpacer, IsDelimiter
<1>4. w <= n => w + 1 \in 1..(n + 1)
  BY <1>1, <1>2
<1>5. w <= n => v \in w + 1..(n + 1) /\ (\A r \in w + 1..(v - 1) : IsWhitespace(t[r])) /\ (v <= n => ~IsWhitespace(t[v]))
  BY <1>4, Skipped
<1> HIDE DEF w, v, e
<1>6. \A r \in q..w - 1 : r \in 1..n /\ t[r] \in Spaces /\ t[r] \in Blanks
  <2> SUFFICES ASSUME NEW r \in q..(w - 1) PROVE r \in 1..n /\ t[r] \in Spaces /\ t[r] \in Blanks
    OBVIOUS
  <2>1. r \in 1..n /\ IsWhitespace(t[r])
    BY <1>1, <1>2
  <2> QED
    BY <2>1, Characters
<1>7. w <= n => t[w] \notin Spaces /\ w \in 1..n /\ Ch(t, w) = t[w] /\ (t[w] \in Blanks <=> t[w] \in Commas)
  <2> SUFFICES ASSUME w <= n
               PROVE  t[w] \notin Spaces /\ w \in 1..n /\ Ch(t, w) = t[w] /\ (t[w] \in Blanks <=> t[w] \in Commas)
    OBVIOUS
  <2>1. w \in 1..n
    BY <1>1, <1>2
  <2> QED
    BY <1>2, <2>1, Characters
<1>8. \A r \in 1..w - 1 : t[r] \in Blanks \/ (r < q /\ r \in Nat)
  <2> SUFFICES ASSUME NEW r \in 1..(w - 1), ~(r < q) PROVE t[r] \in Blanks
    OBVIOUS
  <2>1. r \in q..w - 1
    BY <1>1
  <2> QED
    BY <1>6, <2>1
<1>9. \A r \in Nat : r <= q => Before(t, r) < k
  <2>1. \A r \in Nat : Before(t, r) \in Nat
    BY <1>1, Counted
  <2>2. \A r \in Nat : r <= q => Before(t, r) <= Before(t, q)
    BY <1>1, Counted
  <2> QED
    BY <1>1, <2>1, <2>2
<1>10. CASE w = n + 1
  <2>1. Ch(t, w) = NUL
    BY <1>1, <1>10 DEF Ch
  <2>2. e = Len(t) + 1
    BY <1>3, <1>10, <2>1 DEF NUL
  <2>3. \A r \in q..w - 1 : r \notin Separators(t)
    <3>1. ~(w <= Len(t)) /\ w \in 1..(Len(t) + 1)
      BY <1>1, <1>10
    <3> QED
      BY <1>1, <1>6, <3>1, SpacesInside
  <2>4. Before(t, w) = k - 1
    <3>1. w \in Nat /\ q <= w
      BY <1>1, <1>2
    <3> QED
      BY <1>1, <2>3, <3>1, Counted
  <2>5. Cardinality(Separators(t)) = k - 1
    BY <1>1, <1>10, <2>4, Counted
  <2>6. AtEnd(t, Len(t) + 1, k + 1)
    BY <2>5 DEF AtEnd
  <2>7. Begins(t, Len(t) + 1, k + 1)
    BY <1>1, <2>6, BeginsAtEnd
  <2> QED
    BY <1>1, <2>2, <2>7
<1>11. CASE w <= n /\ t[w] \in Commas
  <2>1. e = v
    BY <1>3, <1>7, <1>11 DEF Commas
  <2>2. w \in Nat /\ w + 1 \in Nat /\ v \in Nat /\ v \in 1..(n + 1) /\ q <= w /\ w + 1 <= v /\ w \in 1..n
    BY <1>1, <1>2, <1>5, <1>11
  <2>3. Before(t, w) = k - 1
    <3>1. \A r \in q..w - 1 : r \notin Separators(t)
      BY <1>1, <1>6, <1>11, <2>2, SpacesInside
    <3> QED
      BY <1>1, <2>2, <3>1, Counted
  <2>4. Before(t, w + 1) = k
    <3>1. w \in Separators(t)
      BY <1>11, <2>2, SeparatorsAre
    <3>2. Before(t, w + 1) = Before(t, w) + 1
      BY <1>1, <3>1, Counted
    <3> QED
      BY <2>3, <3>2
  <2>5. \A r \in w + 1..v - 1 : r \in 1..n /\ t[r] \in Spaces /\ t[r] \in Blanks
    <3> SUFFICES ASSUME NEW r \in (w + 1)..(v - 1) PROVE r \in 1..n /\ t[r] \in Spaces /\ t[r] \in Blanks
      OBVIOUS
    <3>1. r \in 1..n /\ IsWhitespace(t[r])
      BY <1>5, <1>11, <2>2
    <3> QED
      BY <3>1, Characters
  <2>6. Before(t, v) = k
    <3>1. t[(w + 1) - 1] \in Blanks
      <4>1. (w + 1) - 1 = w
        BY <2>2
      <4> QED
        BY <1>7, <1>11, <4>1
    <3>2. w + 1 > 1
      BY <2>2
    <3>3. \A r \in w + 1..v - 1 : r \notin Separators(t)
      BY <2>2, <2>5, <3>1, <3>2, SpacesInside
    <3> QED
      BY <1>1, <2>2, <2>4, <3>3, Counted
  <2>7. \A r \in 1..v - 1 : t[r] \in Blanks \/ (r < q /\ r \in Nat)
    <3> SUFFICES ASSUME NEW r \in 1..(v - 1), ~(r < q) PROVE t[r] \in Blanks
      OBVIOUS
    <3>1. r \in 1..(w - 1) \/ r = w \/ r \in w + 1..v - 1
      BY <2>2
    <3> QED
      BY <1>7, <1>8, <1>11, <2>5, <3>1
  <2>8. CASE v <= n
    <3>1. v \in 1..Len(t)
      BY <2>2, <2>8
    <3>2. t[v] \notin Spaces
      BY <1>5, <1>11, <2>8, <3>1, Characters
    <3>3. \A r \in 1..v - 1 : t[r] \in Blanks \/ Before(t, r) < (k + 1) - 1
      <4> SUFFICES ASSUME NEW r \in 1..(v - 1), t[r] \notin Blanks PROVE Before(t, r) < (k + 1) - 1
        OBVIOUS
      <4>1. r \in Nat /\ r <= q
        BY <1>1, <2>7
      <4>2. Before(t, r) < k
        BY <1>9, <4>1
      <4> QED
        BY <4>2
    <3>4. Before(t, v) = (k + 1) - 1
      BY <2>6
    <3>5. Begins(t, v, k + 1)
      BY <1>1, <3>1, <3>2, <3>3, <3>4, BeginsInside
    <3> QED
      BY <2>1, <2>2, <3>5
  <2>9. CASE v = n + 1
    <3>1. Cardinality(Separators(t)) = k
      BY <1>1, <2>6, <2>9, Counted
    <3>2. InField(t, k + 1) = {}
      <4> SUFFICES ASSUME NEW r \in InField(t, k + 1) PROVE FALSE
        OBVIOUS
      <4>1. r \in 1..n /\ t[r] \notin Blanks /\ Before(t, r) = (k + 1) - 1
        BY InFieldIs, Zenon
      <4>2. r \in 1..(v - 1)
        BY <2>9, <4>1
      <4>3. r \in Nat /\ r <= q
        BY <1>1, <2>7, <4>1, <4>2
      <4>4. Before(t, r) < k
        BY <1>9, <4>3
      <4> QED
        BY <4>1, <4>4
    <3>3. AtEnd(t, Len(t) + 1, k + 1)
      BY <3>1, <3>2 DEF AtEnd
    <3>4. Begins(t, Len(t) + 1, k + 1)
      BY <1>1, <3>3, BeginsAtEnd
    <3> QED
      BY <2>1, <2>2, <2>9, <3>4
  <2> QED
    BY <2>2, <2>8, <2>9
<1>12. CASE w <= n /\ t[w] \notin Commas
  <2>1. e = w
    BY <1>3, <1>7, <1>12 DEF Commas
  <2>2. w \in Nat /\ w \in 1..n /\ q <= w /\ t[w] \notin Blanks
    BY <1>1, <1>2, <1>7, <1>12
  <2>3. q < w /\ q <= n /\ q \in 1..n /\ q \in q..w - 1 /\ q + 1 \in Nat /\ q + 1 <= w
    <3>1. q # w
      BY <2>2
    <3> QED
      BY <1>1, <2>2, <3>1
  <2>4. t[q] \in Spaces /\ q > 1 /\ t[q - 1] \notin Blanks
    BY <1>6, <2>3
  <2>5. Alone(t, q)
    <3>1. w \in q + 1..Len(t)
      BY <2>2, <2>3
    <3>2. \A m \in q..w - 1 : t[m] \in Spaces
      BY <1>6
    <3> QED
      BY <2>2, <2>4, <3>1, <3>2 DEF Alone
  <2>6. Before(t, q + 1) = k
    <3>1. q \in Separators(t)
      BY <2>3, <2>5, SeparatorsAre
    <3>2. Before(t, q + 1) = Before(t, q) + 1
      BY <1>1, <3>1, Counted
    <3> QED
      BY <3>2
  <2>7. Before(t, w) = k
    <3>1. \A r \in q + 1..w - 1 : r \in 1..Len(t) /\ t[r] \in Spaces
      <4> SUFFICES ASSUME NEW r \in (q + 1)..(w - 1) PROVE r \in 1..Len(t) /\ t[r] \in Spaces
        OBVIOUS
      <4>1. r \in q..w - 1
        BY <1>1, <2>2
      <4> QED
        BY <1>6, <4>1
    <3>2. q + 1 > 1 /\ t[(q + 1) - 1] \in Blanks
      <4>1. (q + 1) - 1 = q
        BY <1>1
      <4> QED
        BY <1>1, <1>6, <2>3, <4>1
    <3>3. w \in 1..(Len(t) + 1)
      BY <2>2
    <3>4. \A r \in q + 1..w - 1 : r \notin Separators(t)
      BY <2>3, <3>1, <3>2, <3>3, SpacesInside
    <3> QED
      BY <1>1, <2>2, <2>3, <2>6, <3>4, Counted
  <2>8. \A r \in 1..w - 1 : t[r] \in Blanks \/ Before(t, r) < (k + 1) - 1
    <3> SUFFICES ASSUME NEW r \in 1..(w - 1), t[r] \notin Blanks PROVE Before(t, r) < (k + 1) - 1
      OBVIOUS
    <3>1. r \in Nat /\ r <= q
      BY <1>1, <1>8
    <3>2. Before(t, r) < k
      BY <1>9, <3>1
    <3> QED
      BY <3>2
  <2>9. Before(t, w) = (k + 1) - 1
    BY <2>7
  <2>10. Begins(t, w, k + 1)
    BY <1>1, <1>7, <1>12, <2>2, <2>8, <2>9, BeginsInside
  <2> QED
    BY <2>1, <2>2, <2>10
<1> QED
  BY <1>1, <1>2, <1>10, <1>11, <1>12

\* A comma where a field begins: it is empty, and not the last.
LEMMA EmptyField ==
  ASSUME NEW t, Len(t) \in Nat, NEW k \in Nat \ {0}, NEW p \in 1..Len(t), t[p] \in Commas, Begins(t, p, k)
  PROVE  InField(t, k) = {} /\ k <= Cardinality(Separators(t)) /\ Before(t, p) = k - 1
<1>1. Before(t, p) = k - 1 /\ \A q \in 1..p - 1 : t[q] \in Blanks \/ Before(t, q) < k - 1
  BY BeginsInside
<1>2. p \in Separators(t) /\ p \in Nat /\ p + 1 \in Nat
  BY SeparatorsAre
<1>3. Before(t, p + 1) = k
  <2>1. Before(t, p + 1) = Before(t, p) + 1
    BY <1>2, Counted
  <2> QED
    BY <1>1, <2>1
<1>4. k <= Cardinality(Separators(t))
  BY <1>2, <1>3, Counted
<1>5. InField(t, k) = {}
  <2> SUFFICES ASSUME NEW q \in InField(t, k) PROVE FALSE
    OBVIOUS
  <2>1. q \in 1..Len(t) /\ t[q] \notin Blanks /\ Before(t, q) = k - 1
    BY InFieldIs, Zenon
  <2>2. q # p
    BY <2>1 DEF Blanks, Commas
  <2>3. ~(q < p)
    <3> SUFFICES ASSUME q < p PROVE FALSE
      OBVIOUS
    <3>1. q \in 1..p - 1
      BY <2>1
    <3>2. Before(t, q) < k - 1
      BY <1>1, <2>1, <3>1
    <3> QED
      BY <2>1, <3>2
  <2>4. p + 1 <= q /\ q \in Nat
    BY <2>1, <2>2, <2>3
  <2>5. Before(t, p + 1) <= Before(t, q)
    BY <1>2, <2>4, Counted
  <2> QED
    BY <1>3, <2>1, <2>5
<1> QED
  BY <1>1, <1>4, <1>5

\* A character where a field begins: the field is all up to the next blank.
LEMMA FieldFound ==
  ASSUME NEW S, NEW t \in Seq(S), NEW k \in Nat \ {0}, NEW p \in 1..Len(t), t[p] \notin Blanks, Begins(t, p, k)
  PROVE  \E e \in p + 1..Len(t) + 1 :
           /\ \A q \in p..e - 1 : t[q] \notin Blanks
           /\ e <= Len(t) => t[e] \in Blanks
           /\ Before(t, e) = k - 1
           /\ Field(t, k) = SubSeq(t, p, e - 1)
           /\ k <= Cardinality(Separators(t)) + 1
<1> DEFINE n == Len(t)
           ends == {q \in p..n + 1 : q = n + 1 \/ t[q] \in Blanks}
<1>1. n \in Nat /\ p \in Nat
  OBVIOUS
<1>2. ends \in SUBSET Nat /\ n + 1 \in ends
  OBVIOUS
<1>3. PICK e \in ends : \A q \in ends : e <= q
  BY <1>2, Least
<1>4. e \in p..n + 1 /\ (e <= n => t[e] \in Blanks)
  BY <1>1, <1>3
<1>5. \A q \in p..e - 1 : t[q] \notin Blanks /\ q \in 1..n
  <2> SUFFICES ASSUME NEW q \in p..(e - 1) PROVE t[q] \notin Blanks /\ q \in 1..n
    OBVIOUS
  <2>1. q \in p..n + 1 /\ q \in 1..n /\ ~(e <= q)
    BY <1>1, <1>4
  <2> QED
    BY <1>3, <2>1
<1> HIDE DEF ends
<1>6. e \in p + 1..n + 1 /\ e \in Nat /\ p <= e /\ p < e
  <2>1. e # p
    BY <1>4
  <2> QED
    BY <1>1, <1>4, <2>1
<1>7. Before(t, p) = k - 1 /\ \A q \in 1..p - 1 : t[q] \in Blanks \/ Before(t, q) < k - 1
  BY <1>1, BeginsInside
<1>8. \A q \in p..e - 1 : q \notin Separators(t)
  <2> SUFFICES ASSUME NEW q \in p..(e - 1), q \in Separators(t) PROVE FALSE
    OBVIOUS
  <2>1. t[q] \in Commas \/ t[q] \in Spaces
    BY SeparatorsAre DEF Alone
  <2>2. t[q] \notin Blanks
    BY <1>5
  <2> QED
    BY <2>1, <2>2 DEF Blanks, Commas, Spaces
<1>9. \A r \in Nat : p <= r /\ r <= e => Before(t, r) = k - 1
  <2> SUFFICES ASSUME NEW r \in Nat, p <= r, r <= e PROVE Before(t, r) = k - 1
    OBVIOUS
  <2>1. \A q \in p..r - 1 : q \notin Separators(t)
    BY <1>1, <1>6, <1>8
  <2> QED
    BY <1>1, <1>7, <2>1, Counted
<1>10. Before(t, e) = k - 1
  BY <1>6, <1>9
<1>11. k <= Cardinality(Separators(t)) + 1
  BY <1>1, <1>6, <1>10, Counted
<1>13. ASSUME NEW q \in InField(t, k) PROVE q \in p..e - 1
  <2>1. q \in 1..n /\ t[q] \notin Blanks /\ Before(t, q) = k - 1
    BY InFieldIs, Zenon
  <2>2. ~(q < p)
    <3> SUFFICES ASSUME q < p PROVE FALSE
      OBVIOUS
    <3>1. q \in 1..p - 1
      BY <2>1
    <3>2. Before(t, q) < k - 1
      BY <1>7, <2>1, <3>1
    <3> QED
      BY <2>1, <3>2
  <2>3. ~(e <= q)
    <3> SUFFICES ASSUME e <= q PROVE FALSE
      OBVIOUS
    <3>1. e \in 1..n /\ q \in Nat
      BY <1>6, <2>1
    <3>2. t[e] \in Blanks /\ e # q
      BY <1>4, <2>1, <3>1
    <3> DEFINE others == {m \in e..q : t[m] \notin Spaces}
    <3>3. others \in SUBSET Nat /\ q \in others
      <4>1. t[q] \notin Spaces
        BY <2>1 DEF Spaces, Blanks
      <4>2. q \in e..q
        BY <1>6, <3>1
      <4> QED
        BY <1>6, <4>1, <4>2
    <3>4. PICK m \in others : \A x \in others : m <= x
      BY <3>3, Least
    <3>5. m \in e..q /\ m \in Nat /\ t[m] \notin Spaces /\ m \in 1..n
      BY <1>6, <2>1, <3>4
    <3>6. \A x \in e..m - 1 : t[x] \in Spaces
      <4> SUFFICES ASSUME NEW x \in e..(m - 1) PROVE t[x] \in Spaces
        OBVIOUS
      <4>1. x \in e..q /\ ~(m <= x)
        BY <1>6, <3>1, <3>5
      <4> QED
        BY <3>4, <4>1
    <3> HIDE DEF others
    <3>7. CASE t[m] \in Blanks
      <4>1. m \in Separators(t)
        <5>1. t[m] \in Commas
          BY <3>5, <3>7 DEF Spaces, Commas, Blanks
        <5> QED
          BY <3>5, <5>1, SeparatorsAre
      <4>2. m + 1 <= q /\ m + 1 \in Nat /\ e <= m
        <5>1. m # q
          BY <2>1, <3>7
        <5> QED
          BY <3>1, <3>5, <5>1
      <4>3. Before(t, m + 1) = Before(t, m) + 1 /\ Before(t, e) <= Before(t, m) /\ Before(t, m + 1) <= Before(t, q)
        BY <1>1, <1>6, <3>1, <3>5, <4>1, <4>2, Counted
      <4>4. Before(t, m) \in Nat /\ Before(t, q) \in Nat
        BY <1>1, <3>1, <3>5, Counted
      <4> QED
        BY <1>10, <2>1, <4>3, <4>4
    <3>8. CASE t[m] \notin Blanks
      <4>1. e < m
        <5>1. e # m
          BY <3>2, <3>8
        <5> QED
          BY <1>6, <3>5, <5>1
      <4>2. Alone(t, e)
        <5>1. t[e] \in Spaces
          <6>1. e \in e..m - 1
            BY <1>6, <3>5, <4>1
          <6> QED
            BY <3>6, <6>1
        <5>2. e > 1 /\ t[e - 1] \notin Blanks
          <6>1. e - 1 \in p..e - 1
            BY <1>1, <1>6
          <6> QED
            BY <1>1, <1>5, <1>6, <6>1
        <5>3. m \in e + 1..Len(t)
          BY <1>6, <3>5, <4>1
        <5> QED
          BY <3>6, <3>8, <5>1, <5>2, <5>3 DEF Alone
      <4>3. e \in Separators(t)
        BY <3>1, <4>2, SeparatorsAre
      <4>4. e + 1 <= q /\ e + 1 \in Nat
        BY <1>6, <3>5, <3>1, <4>1
      <4>5. Before(t, e + 1) = Before(t, e) + 1 /\ Before(t, e + 1) <= Before(t, q)
        BY <1>1, <3>1, <4>3, <4>4, Counted
      <4>6. Before(t, q) \in Nat
        BY <1>1, <3>1, Counted
      <4> QED
        BY <1>1, <1>10, <2>1, <4>5, <4>6
    <3> QED
      BY <3>7, <3>8
  <2> QED
    BY <1>1, <1>6, <2>1, <2>2, <2>3
<1>14. ASSUME NEW q \in p..e - 1 PROVE q \in InField(t, k)
  <2>1. q \in Nat /\ p <= q /\ q <= e /\ q \in 1..n /\ t[q] \notin Blanks
    BY <1>1, <1>5, <1>6
  <2>2. Before(t, q) = k - 1
    BY <1>9, <2>1
  <2> QED
    BY <2>1, <2>2, InFieldIs
<1>15. InField(t, k) = p..e - 1
  BY <1>13, <1>14, Zenon
<1>16. p \in p..e - 1 /\ e - 1 \in p..e - 1 /\ \A x \in p..e - 1 : p <= x /\ x <= e - 1 /\ x \in Nat
  BY <1>1, <1>6
<1>17. Min(p..e - 1) = p
  <2> DEFINE R == p..e - 1
             x == Min(R)
  <2>1. x \in R /\ \A y \in R : x <= y
    <3>1. \E z \in R : \A y \in R : z <= y
      BY <1>16
    <3> HIDE DEF R
    <3> QED
      BY <3>1, Zenon DEF Min
  <2>2. x <= p /\ p <= x /\ x \in Nat
    BY <1>16, <2>1
  <2> HIDE DEF x
  <2>3. x = p
    BY <1>1, <2>2
  <2> QED
    BY <2>3 DEF x
<1>18. Max(p..e - 1) = e - 1
  <2> DEFINE R == p..e - 1
             x == Max(R)
  <2>1. x \in R /\ \A y \in R : x >= y
    <3>1. \E z \in R : \A y \in R : z >= y
      BY <1>16
    <3> HIDE DEF R
    <3> QED
      BY <3>1, Zenon DEF Max
  <2>2. x <= e - 1 /\ e - 1 <= x /\ x \in Nat
    BY <1>16, <2>1
  <2> HIDE DEF x
  <2>3. x = e - 1
    BY <1>6, <2>2
  <2> QED
    BY <2>3 DEF x
<1>19. Field(t, k) = SubSeq(t, p, e - 1)
  <2>1. InField(t, k) # {}
    BY <1>15, <1>16
  <2> QED
    BY <1>15, <1>17, <1>18, <2>1, Zenon DEF Field
<1> QED
  BY <1>4, <1>5, <1>6, <1>10, <1>11, <1>19

\* Behind the digits there is none.
LEMMA DigitsStop ==
  ASSUME NEW S, NEW t \in Seq(S), NEW p \in 1..(Len(t) + 1), DigitsEnd(t, p) <= Len(t)
  PROVE  t[DigitsEnd(t, p)] \notin Dec
<1> DEFINE hits == {q \in p..Len(t) : t[q] \notin Dec}
           e == DigitsEnd(t, p)
<1>1. hits \in SUBSET Nat
  OBVIOUS
<1>2. e = IF hits # {} THEN CHOOSE q \in hits : \A r \in hits : q <= r
          ELSE IF p > Len(t) THEN p ELSE Len(t) + 1
  BY Zenon DEF DigitsEnd, FirstAt
<1>3. \A q \in hits : t[q] \notin Dec
  OBVIOUS
<1>4. ~(Len(t) + 1 <= Len(t)) /\ (p > Len(t) => ~(p <= Len(t)))
  OBVIOUS
<1> HIDE DEF hits
<1>5. hits # {}
  <2> SUFFICES ASSUME hits = {} PROVE FALSE
    OBVIOUS
  <2>1. e = IF p > Len(t) THEN p ELSE Len(t) + 1
    BY <1>2
  <2>2. e <= Len(t)
    OBVIOUS
  <2> HIDE DEF e
  <2> QED
    BY <1>4, <2>1, <2>2
<1>6. \E q \in hits : \A r \in hits : q <= r
  BY <1>1, <1>5, Least, Zenon
<1> QED
  BY <1>2, <1>3, <1>5, <1>6, Zenon

\* Without a sign, a decimal number is its digits.
LEMMA GetDecIs ==
  ASSUME NEW S, NEW t \in Seq(S), NEW p \in 1..(Len(t) + 1), Ch(t, p) \notin {"-", "+"}
  PROVE  GetDec(t, p) = [v |-> Number(DigitsAt(t, p)), p |-> DigitsEnd(t, p)]
<1>1. GetDec(t, p) = Digits(t, p, Dec, 10, 1)
  <2>1. ~BareSign(t, p, Dec)
    BY DEF BareSign
  <2>2. Unsigned(t, p) = p
    BY DEF Unsigned
  <2>3. Sign(t, p) = 1
    BY DEF Sign
  <2> QED
    BY <2>1, <2>2, <2>3, Zenon DEF GetDec
<1>2. Digits(t, p, Dec, 10, 1) = [v |-> Number(DigitsAt(t, p)), p |-> DigitsEnd(t, p)]
  BY DigitsRead
<1> QED
  BY <1>1, <1>2, Zenon

LEMMA GetNumberIs ==
  ASSUME NEW d, NEW t, NEW p, NEW sp \in {"d", "I", "i"}
  PROVE  Get(sp, d, t, p) = GetDec(t, p)
BY DEF Get

LEMMA DoNumber ==
  ASSUME NEW S, NEW t \in Seq(S), NEW p \in 1..(Len(t) + 1), Ch(t, p) \notin {"-", "+"}, NEW d, NEW sp \in {"d", "I", "i"}
  PROVE  Do(sp, d, t, p) = [ok |-> GetReturn(d, t, DigitsEnd(t, p)), v |-> Number(DigitsAt(t, p)), p |-> DigitsEnd(t, p)]
<1>1. Get(sp, d, t, p) = [v |-> Number(DigitsAt(t, p)), p |-> DigitsEnd(t, p)]
  <2>1. Get(sp, d, t, p) = GetDec(t, p)
    BY GetNumberIs, Zenon
  <2>2. GetDec(t, p) = [v |-> Number(DigitsAt(t, p)), p |-> DigitsEnd(t, p)]
    BY GetDecIs, Zenon
  <2> QED
    BY <2>1, <2>2, Zenon
<1>2. sp \notin {"l", "L"}
  OBVIOUS
<1> HIDE DEF Get
<1>3. Get(sp, d, t, p).p = DigitsEnd(t, p) /\ Get(sp, d, t, p).v = Number(DigitsAt(t, p))
  BY <1>1
<1>4. Do(sp, d, t, p) = [ok |-> sp \in {"l", "L"} \/ GetReturn(d, t, Get(sp, d, t, p).p), v |-> Get(sp, d, t, p).v, p |-> Get(sp, d, t, p).p]
  BY Zenon DEF Do
<1>5. (sp \in {"l", "L"} \/ GetReturn(d, t, Get(sp, d, t, p).p)) = GetReturn(d, t, DigitsEnd(t, p))
  BY <1>2, <1>3, Zenon DEF GetReturn, IsSpacer
<1> QED
  BY <1>3, <1>4, <1>5, Zenon

\* No digits make 0.
LEMMA NumberOfNothing == Number(<<>>) = 0
<1>1. <<>> \in Seq(Dec) /\ Len(<<>>) = 0
  OBVIOUS
<1>2. Number(<<>>) = Wrap(0)
  <2>1. PICK h : h[0] = 0 /\ Number(<<>>) = Wrap(h[Len(<<>>)])
    BY <1>1, NumberRuns
  <2> QED
    BY <1>1, <2>1
<1>3. Wrap(0) = 0
  <2>1. (0 + Half) % (2 * Half) = Half
    <3>1. 2 * Half \in Nat \ {0} /\ 0 + Half \in Int /\ 0 \in Int /\ Half \in 0..(2 * Half - 1) /\ 0 + Half = (2 * Half) * 0 + Half
      BY HalfAssumption
    <3> QED
      BY <3>1, Rest
  <2> QED
    BY <2>1, HalfAssumption DEF Wrap
<1> QED
  BY <1>2, <1>3

\* What is a digit is no blank, and no spacer.
LEMMA DigitsAreNoSpacers ==
  /\ \A c \in Dec : c \notin Blanks
  /\ \A c : IsSpacer({","}, c) <=> c \in Blanks \/ c = NUL
<1>1. \A c \in Dec : c \notin Blanks
  BY DEF Dec, Oct, Bin, Blanks
<1>2. \A c : IsSpacer({","}, c) <=> c \in Blanks \/ c = NUL
  BY Zenon DEF IsSpacer, IsWhitespace, IsDelimiter, Blanks
<1> QED
  BY <1>1, <1>2

DefaultNumber == Number(<<"7">>)

(* Is the field k there? *)
There(t, k) ==
  /\ k <= Cardinality(Separators(t)) + 1
  /\ ~(k = Cardinality(Separators(t)) + 1 /\ Field(t, k) = <<>>)

LEMMA FieldOfIs ==
  ASSUME NEW spec, NEW t, NEW k
  PROVE  FieldOf(spec, t, k) =
           IF ~There(t, k) THEN [ok |-> spec = "I", v |-> DefaultNumber]
           ELSE IF Field(t, k) = <<>> THEN [ok |-> TRUE, v |-> IF spec = "I" THEN DefaultNumber ELSE 0]
           ELSE [ok |-> \A m \in 1..Len(Field(t, k)) : Field(t, k)[m] \in Dec, v |-> Number(Field(t, k))]
BY Zenon DEF FieldOf, There, DefaultNumber

\* An empty field is the default of an optional number, and 0 for any other.
LEMMA EmptyFieldOf ==
  ASSUME NEW t, Len(t) \in Nat, NEW k \in Nat \ {0}, NEW p \in 1..Len(t), t[p] \in Commas, Begins(t, p, k), NEW spec
  PROVE  FieldOf(spec, t, k) = [ok |-> TRUE, v |-> IF spec = "I" THEN DefaultNumber ELSE 0]
<1>1. InField(t, k) = {} /\ k <= Cardinality(Separators(t))
  BY EmptyField
<1>2. Field(t, k) = <<>>
  BY <1>1, Zenon DEF Field
<1>3. Cardinality(Separators(t)) \in Nat
  BY Counted
<1>4. k <= Cardinality(Separators(t)) + 1 /\ k # Cardinality(Separators(t)) + 1
  BY <1>1, <1>3
<1>5. There(t, k)
  BY <1>4, Zenon DEF There
<1> QED
  BY <1>2, <1>5, FieldOfIs, Zenon

\* A field that is not there is the default of an optional number, and fails any other.
LEMMA NoFieldOf ==
  ASSUME NEW t, Len(t) \in Nat, NEW k \in Nat \ {0}, Begins(t, Len(t) + 1, k), NEW spec
  PROVE  FieldOf(spec, t, k) = [ok |-> spec = "I", v |-> DefaultNumber]
<1>1. AtEnd(t, Len(t) + 1, k)
  BY BeginsAtEnd
<1>2. Cardinality(Separators(t)) \in Nat
  BY Counted
<1>3. k <= Cardinality(Separators(t)) + 1 => k = Cardinality(Separators(t)) + 1 /\ InField(t, k) = {}
  BY <1>1, <1>2 DEF AtEnd
<1>4. InField(t, k) = {} => Field(t, k) = <<>>
  BY Zenon DEF Field
<1>5. ~There(t, k)
  BY <1>3, <1>4, Zenon DEF There
<1> QED
  BY <1>5, FieldOfIs, Zenon

\* The digits of a field are all of it, or it is not a number.
LEMMA FieldRead ==
  ASSUME NEW S, NEW t \in Seq(S), Signless(t), NEW k \in Nat \ {0}, NEW p \in 1..Len(t), t[p] \notin Blanks,
         Begins(t, p, k), NEW spec
  PROVE  LET d == DigitsEnd(t, p)
             of == FieldOf(spec, t, k)
         IN  /\ GetReturn({","}, t, d) = of.ok
             /\ of.ok => /\ of.v = Number(DigitsAt(t, p)) /\ d \in 1..(Len(t) + 1) /\ Before(t, d) = k - 1
                         /\ d <= Len(t) => t[d] \in Blanks /\ (t[d] \in Spaces => d > 1 /\ t[d - 1] \notin Blanks)
<1> DEFINE n == Len(t)
           d == DigitsEnd(t, p)
           F == Field(t, k)
           of == FieldOf(spec, t, k)
           all == \A m \in 1..Len(F) : F[m] \in Dec
<1>1. n \in Nat /\ p \in 1..(n + 1) /\ p \in Nat
  OBVIOUS
<1>2. PICK e \in p + 1..n + 1 :
        /\ \A q \in p..e - 1 : t[q] \notin Blanks
        /\ e <= n => t[e] \in Blanks
        /\ Before(t, e) = k - 1
        /\ F = SubSeq(t, p, e - 1)
        /\ k <= Cardinality(Separators(t)) + 1
  BY FieldFound
<1>3. d \in p..(n + 1) /\ \A q \in p..(d - 1) : t[q] \in Dec
  BY <1>1, DigitsEndThere
<1>4. d <= n => t[d] \notin Dec
  BY <1>1, DigitsStop
<1>5. DigitsAt(t, p) = SubSeq(t, p, d - 1)
  BY DEF DigitsAt
<1>6. of = IF ~There(t, k) THEN [ok |-> spec = "I", v |-> DefaultNumber]
           ELSE IF F = <<>> THEN [ok |-> TRUE, v |-> IF spec = "I" THEN DefaultNumber ELSE 0]
           ELSE [ok |-> all, v |-> Number(F)]
  BY FieldOfIs
<1>7. F # <<>> => There(t, k)
  BY <1>2 DEF There
<1> HIDE DEF d, F, of
<1>8. Len(F) = e - p /\ Len(F) \in Nat /\ (\A m \in 1..Len(F) : F[m] = t[p + m - 1]) /\ F # <<>>
  <2>1. e \in Nat /\ e - 1 \in 1..n /\ p < e
    BY <1>1, <1>2
  <2>2. F = [m \in 1..(e - p) |-> t[p + m - 1]] /\ e - p \in Nat
    BY <1>1, <1>2, <2>1
  <2>3. F # <<>>
    BY <2>1, <2>2
  <2> QED
    BY <2>2, <2>3
<1>9. of = [ok |-> all, v |-> Number(F)]
  BY <1>6, <1>7, <1>8
<1>10. e \in Nat /\ p < e /\ e <= n + 1
  BY <1>1, <1>2
<1> DEFINE Goal == /\ GetReturn({","}, t, d) = of.ok
                   /\ of.ok => /\ of.v = Number(DigitsAt(t, p)) /\ d \in 1..(Len(t) + 1) /\ Before(t, d) = k - 1
                               /\ d <= Len(t) => t[d] \in Blanks /\ (t[d] \in Spaces => d > 1 /\ t[d - 1] \notin Blanks)
<1> SUFFICES Goal
  BY Zenon DEF d, of
<1>11. d <= e
  <2> SUFFICES ASSUME e < d PROVE FALSE
    BY <1>1, <1>3, <1>10
  <2>1. e \in p..(d - 1) /\ e <= n
    BY <1>1, <1>3, <1>10
  <2>2. t[e] \in Dec /\ t[e] \in Blanks
    BY <1>2, <1>3, <2>1
  <2> QED
    BY <2>2, DigitsAreNoSpacers
<1>12. CASE d = e
  <2>1. Number(F) = Number(DigitsAt(t, p))
    BY <1>2, <1>5, <1>12
  <2>2. all
    <3> SUFFICES ASSUME NEW m \in 1..Len(F) PROVE F[m] \in Dec
      OBVIOUS
    <3>1. p + m - 1 \in p..(d - 1)
      BY <1>1, <1>8, <1>10, <1>12
    <3> QED
      BY <1>3, <1>8, <3>1
  <2>3. GetReturn({","}, t, d)
    <3>1. Ch(t, d) \in Blanks \/ Ch(t, d) = NUL
      BY <1>2, <1>12 DEF Ch
    <3> QED
      BY <3>1, DigitsAreNoSpacers, Zenon DEF GetReturn
  <2>4. Before(t, d) = k - 1 /\ d \in 1..(n + 1)
    BY <1>1, <1>2, <1>3, <1>12
  <2>5. d <= n => t[d] \in Blanks /\ (t[d] \in Spaces => d > 1 /\ t[d - 1] \notin Blanks)
    <3>1. d - 1 \in p..(e - 1) /\ d > 1
      BY <1>1, <1>10, <1>12
    <3> QED
      BY <1>2, <1>12, <3>1
  <2>6. of.ok = all /\ of.v = Number(F)
    BY <1>9
  <2>7. GetReturn({","}, t, d) = of.ok
    BY <2>2, <2>3, <2>6, Zenon DEF GetReturn, IsSpacer
  <2> QED
    BY <2>1, <2>4, <2>5, <2>6, <2>7, Zenon
<1>13. CASE d < e
  <2>1. d \in p..(e - 1) /\ d <= n /\ d \in 1..n
    BY <1>1, <1>3, <1>10, <1>13
  <2>2. t[d] \notin Blanks /\ t[d] \notin Dec /\ t[d] # NUL /\ Ch(t, d) = t[d]
    BY <1>2, <1>4, <2>1, Characters
  <2>3. ~GetReturn({","}, t, d)
    BY <2>2, DigitsAreNoSpacers, Zenon DEF GetReturn
  <2>4. ~all
    <3>1. d - p + 1 \in 1..Len(F) /\ p + (d - p + 1) - 1 = d
      BY <1>1, <1>3, <1>8, <1>10, <1>13
    <3>2. F[d - p + 1] = t[d]
      BY <1>8, <3>1
    <3> QED
      BY <2>2, <3>1, <3>2
  <2>5. of.ok = all
    BY <1>9
  <2>6. ~of.ok
    BY <2>4, <2>5, Zenon
  <2>7. GetReturn({","}, t, d) = of.ok
    BY <2>3, <2>4, <2>5, Zenon DEF GetReturn, IsSpacer
  <2> QED
    BY <2>6, <2>7, Zenon
<1>14. d = e \/ d < e
  BY <1>1, <1>3, <1>10, <1>11
<1> QED
  BY <1>12, <1>13, <1>14, Zenon

(***************************************************************************)
(* A call with fields, and what its format holds.                          *)
(***************************************************************************)
\* What is within a text, and what a part is made of, character by character.
LEMMA WithinFour ==
  ASSUME NEW t, NEW x, NEW y, NEW z, NEW u, Within(t, 1, <<x, y, z, u>>)
  PROVE  Ch(t, 1) = x /\ Ch(t, 2) = y /\ Ch(t, 3) = z /\ Ch(t, 4) = u
<1>1. \A j \in 1..4 : Ch(t, 1 + j - 1) = <<x, y, z, u>>[j]
  BY DEF Within
<1> QED
  BY <1>1

LEMMA PartOfThree ==
  ASSUME NEW t, NEW p \in Nat, NEW x, NEW y, NEW z, Within(t, p, <<x, y, z>>)
  PROVE  Ch(t, p) = x /\ Ch(t, p + 1) = y /\ Ch(t, p + 2) = z /\ Len(<<x, y, z>>) = 3
<1>1. Ch(t, p + 1 - 1) = x /\ Ch(t, p + 2 - 1) = y /\ Ch(t, p + 3 - 1) = z
  BY DEF Within
<1>2. p + 1 - 1 = p /\ p + 2 - 1 = p + 1 /\ p + 3 - 1 = p + 2
  OBVIOUS
<1> QED
  BY <1>1, <1>2

HasFields(c) == c \in Calls /\ c.kind = "fields"

\* The text, which is the input.
LEMMA FieldsText ==
  ASSUME NEW c, HasFields(c)
  PROVE  /\ \E S : c.text \in Seq(S)
         /\ Signless(c.text)
         /\ Corrected(c.text) = c.text
         /\ Len(c.text) \in Nat
<1>1. c \in Calls /\ c.kind = "fields"
  BY DEF HasFields
<1>2. c.text \in Seq(ToSet(c.text))
  BY <1>1, CallsAssumption
<1>3. Signless(c.text)
  BY <1>1, FieldsAssumption DEF Signless
<1>4. c.text # <<"SOH">>
  <2> SUFFICES ASSUME c.text = <<"SOH">> PROVE FALSE
    OBVIOUS
  <2>1. 1 \in 1..Len(c.text) /\ c.text[1] = "SOH"
    OBVIOUS
  <2> QED
    BY <1>3, <2>1 DEF Signless
<1> QED
  BY <1>2, <1>3, <1>4 DEF Corrected

\* The specifiers.
LEMMA FieldsSpecs ==
  ASSUME NEW c, HasFields(c)
  PROVE  /\ c.specs \in Seq({"d", "q", "I"}) /\ Len(c.specs) \in Nat
         /\ \A k \in 1..Len(c.specs) : c.specs[k] \in {"d", "q", "I"}
         /\ c.params = Cardinality(Wanted(c.specs))
         /\ Wanted(c.specs) \in SUBSET (1..Len(c.specs))
<1>1. DOMAIN FieldFormat = {"d", "q", "I"}
  BY DEF FieldFormat
<1>2. c.specs \in Seq(DOMAIN FieldFormat) /\ c.params = Cardinality({k \in 1..Len(c.specs) : c.specs[k] # "q"})
  BY FieldsAssumption DEF HasFields
<1> QED
  BY <1>1, <1>2 DEF Wanted

\* The format begins with its delimiter.
LEMMA FieldsBegin ==
  ASSUME NEW c, HasFields(c)
  PROVE  /\ Ch(c.format, 1) = "p" /\ Ch(c.format, 2) = "<" /\ Ch(c.format, 3) = "," /\ Ch(c.format, 4) = ">"
         /\ c.at[1] = 5 /\ Len(c.format) \in Nat /\ c.at[Len(c.specs) + 1] = Len(c.format) + 1
         /\ \E S : c.format \in Seq(S)
<1>1. c \in Calls /\ c.kind = "fields"
  BY DEF HasFields
<1>2. Within(c.format, 1, <<"p", "<", ",", ">">>) /\ c.at[1] = 5 /\ c.at[Len(c.specs) + 1] = Len(c.format) + 1
  BY <1>1, FieldsAssumption
<1>3. c.format \in Seq(ToSet(c.format))
  BY <1>1, CallsAssumption
<1>4. Ch(c.format, 1) = "p" /\ Ch(c.format, 2) = "<" /\ Ch(c.format, 3) = "," /\ Ch(c.format, 4) = ">"
  BY <1>2, WithinFour, Zenon
<1>5. Len(c.format) \in Nat
  BY <1>3
<1> QED
  BY <1>2, <1>3, <1>4, <1>5, Zenon

\* Then the specifiers stand one after the other.
LEMMA FieldsFormats ==
  ASSUME NEW c, HasFields(c), NEW k \in 1..Len(c.specs), c.at[k] \in Nat
  PROVE  LET p == c.at[k]
         IN  /\ c.specs[k] = "d" => Ch(c.format, p) = "d" /\ c.at[k + 1] = p + 1
             /\ c.specs[k] = "q" => /\ Ch(c.format, p) = "{" /\ Ch(c.format, p + 1) = "d" /\ Ch(c.format, p + 2) = "}"
                                    /\ c.at[k + 1] = p + 3
             /\ c.specs[k] = "I" => /\ Ch(c.format, p) = "I" /\ Ch(c.format, p + 1) = "("
                                    /\ Ch(c.format, p + 2) = "7" /\ Ch(c.format, p + 3) = ")"
                                    /\ c.at[k + 1] = p + 4
<1> DEFINE p == c.at[k]
           parts == [i \in 1..Len(c.specs) |-> FieldFormat[c.specs[i]]]
<1>1. Parts(c.format, c.at, parts)
  BY FieldsAssumption DEF HasFields
<1>2. Len(c.specs) \in Nat /\ c.specs[k] \in {"d", "q", "I"}
  BY FieldsSpecs
<1>3. Len(parts) = Len(c.specs) /\ parts[k] = FieldFormat[c.specs[k]]
  BY <1>2
<1> HIDE DEF parts
<1>4. /\ c.at[k + 1] = p + Len(parts[k])
      /\ \A j \in 1..Len(parts[k]) : Ch(c.format, p + j - 1) = parts[k][j]
  BY <1>1, <1>3 DEF Parts
<1>5. CASE c.specs[k] = "d"
  <2>1. parts[k] = <<"d">>
    BY <1>3, <1>5 DEF FieldFormat
  <2>2. Ch(c.format, p + 1 - 1) = "d" /\ c.at[k + 1] = p + 1
    BY <1>4, <2>1
  <2>3. p + 1 - 1 = p
    OBVIOUS
  <2> QED
    BY <1>5, <2>2, <2>3
<1>6. CASE c.specs[k] = "q"
  <2>1. parts[k] = <<"{", "d", "}">>
    <3>1. FieldFormat.q = <<"{", "d", "}">> /\ FieldFormat["q"] = FieldFormat.q
      BY Zenon DEF FieldFormat
    <3> QED
      BY <1>3, <1>6, <3>1, Zenon
  <2>2. Within(c.format, p, <<"{", "d", "}">>)
    BY <1>4, <2>1, Zenon DEF Within
  <2> DEFINE three == <<"{", "d", "}">>
  <2>3. Ch(c.format, p) = "{" /\ Ch(c.format, p + 1) = "d" /\ Ch(c.format, p + 2) = "}" /\ Len(three) = 3
    BY <2>2, PartOfThree, Zenon
  <2>4. three = parts[k]
    BY <2>1
  <2> HIDE DEF three
  <2>5. c.at[k + 1] = p + 3
    <3>1. Len(parts[k]) = 3
      BY <2>3, <2>4, Zenon
    <3> QED
      BY <1>4, <3>1, Zenon
  <2> QED
    BY <1>6, <2>3, <2>5, Zenon
<1>7. CASE c.specs[k] = "I"
  <2>1. parts[k] = <<"I", "(", "7", ")">>
    BY <1>3, <1>7 DEF FieldFormat
  <2>2. /\ Ch(c.format, p + 1 - 1) = "I" /\ Ch(c.format, p + 2 - 1) = "("
        /\ Ch(c.format, p + 3 - 1) = "7" /\ Ch(c.format, p + 4 - 1) = ")"
        /\ c.at[k + 1] = p + 4
    BY <1>4, <2>1
  <2>3. p + 1 - 1 = p /\ p + 2 - 1 = p + 1 /\ p + 3 - 1 = p + 2 /\ p + 4 - 1 = p + 3
    OBVIOUS
  <2> QED
    BY <1>7, <2>2, <2>3
<1> QED
  BY <1>2, <1>5, <1>6, <1>7

\* And the places where they do are behind the delimiter.
LEMMA FieldsPlaces ==
  ASSUME NEW c, HasFields(c)
  PROVE  \A k \in 1..Len(c.specs) + 1 : c.at[k] \in Nat /\ c.at[k] >= 5
<1> DEFINE m == Len(c.specs)
           Good == {k \in Nat : k + 1 \in 1..m + 1 => c.at[k + 1] \in Nat /\ c.at[k + 1] >= 5}
<1>0. m \in Nat
  BY FieldsSpecs
<1>1. 0 \in Good
  <2>1. c.at[1] = 5
    BY FieldsBegin, Zenon
  <2> QED
    BY <2>1
<1>2. ASSUME NEW k \in Good PROVE k + 1 \in Good
  <2>1. k \in Nat /\ k + 1 \in Nat
    OBVIOUS
  <2> SUFFICES ASSUME (k + 1) + 1 \in 1..m + 1
               PROVE  c.at[(k + 1) + 1] \in Nat /\ c.at[(k + 1) + 1] >= 5
    BY <2>1
  <2>2. k + 1 \in 1..m /\ k + 1 \in 1..m + 1
    BY <1>0, <2>1
  <2>3. c.at[k + 1] \in Nat /\ c.at[k + 1] >= 5
    BY <2>2
  <2>4. c.specs[k + 1] \in {"d", "q", "I"}
    BY <2>2, FieldsSpecs
  <2>5. c.at[(k + 1) + 1] \in {c.at[k + 1] + 1, c.at[k + 1] + 3, c.at[k + 1] + 4}
    BY <2>2, <2>3, <2>4, FieldsFormats
  <2> DEFINE x == c.at[k + 1]
             y == c.at[(k + 1) + 1]
  <2>6. x \in Nat /\ x >= 5 /\ y \in {x + 1, x + 3, x + 4}
    BY <2>3, <2>5
  <2> HIDE DEF x, y
  <2>7. y \in Nat /\ y >= 5
    BY <2>6
  <2> QED
    BY <2>7 DEF y
<1> HIDE DEF Good
<1>3. Good = Nat
  <2>1. Good \in SUBSET Nat
    BY DEF Good
  <2> QED
    BY <1>1, <1>2, <2>1, Induct
<1> SUFFICES ASSUME NEW k \in 1..m + 1 PROVE c.at[k] \in Nat /\ c.at[k] >= 5
  OBVIOUS
<1>4. k - 1 \in Nat /\ (k - 1) + 1 = k
  BY <1>0
<1>5. k - 1 \in Good
  BY <1>3, <1>4
<1> QED
  BY <1>4, <1>5 DEF Good

\* The first hit is the one that no other is in front of.
LEMMA ChosenHit ==
  ASSUME NEW hits \in SUBSET Nat, NEW e \in hits, \A q \in hits : e <= q
  PROVE  hits # {} /\ (CHOOSE q \in hits : \A r \in hits : q <= r) = e
<1> DEFINE x == CHOOSE q \in hits : \A r \in hits : q <= r
<1>1. x \in hits /\ \A r \in hits : x <= r
  <2>1. \E q \in hits : \A r \in hits : q <= r
    OBVIOUS
  <2> QED
    BY <2>1, Zenon
<1>2. x <= e /\ e <= x /\ x \in Nat /\ e \in Nat
  BY <1>1
<1> HIDE DEF x
<1>3. x = e
  BY <1>2
<1> QED
  BY <1>3 DEF x

\* What is no whitespace is not skipped.
LEMMA NothingToSkip ==
  ASSUME NEW S, NEW t \in Seq(S), NEW p \in 1..Len(t), ~IsWhitespace(t[p])
  PROVE  SkipWhitespace(t, p) = p
<1> DEFINE e == SkipWhitespace(t, p)
<1>1. p \in 1..(Len(t) + 1)
  OBVIOUS
<1>2. e \in p..(Len(t) + 1) /\ \A q \in p..(e - 1) : IsWhitespace(t[q])
  BY <1>1, Skipped
<1> HIDE DEF e
<1>3. e = p
  <2> SUFFICES ASSUME e # p PROVE FALSE
    OBVIOUS
  <2>1. p \in p..(e - 1)
    BY <1>2
  <2> QED
    BY <1>2, <2>1
<1> QED
  BY <1>3 DEF e

\* The search for a bracket stops at the first one.
LEMMA FirstOfIs ==
  ASSUME NEW t, Len(t) \in Nat, NEW p \in Nat \ {0}, NEW d, NEW e \in p..Len(t), t[e] = d,
         \A q \in p..(e - 1) : t[q] # d
  PROVE  FirstAt(t, p, LAMBDA c : c = d) = e
<1> DEFINE hits == {q \in p..Len(t) : t[q] = d}
<1>1. hits \in SUBSET Nat /\ e \in hits
  OBVIOUS
<1>2. \A q \in hits : e <= q
  <2> SUFFICES ASSUME NEW q \in p..Len(t), t[q] = d, ~(e <= q) PROVE FALSE
    OBVIOUS
  <2>1. q \in p..(e - 1)
    OBVIOUS
  <2> QED
    BY <2>1
<1>3. FirstAt(t, p, LAMBDA c : c = d) =
        IF hits # {} THEN CHOOSE q \in hits : \A r \in hits : q <= r
        ELSE IF p > Len(t) THEN p ELSE Len(t) + 1
  BY Zenon DEF FirstAt
<1> HIDE DEF hits
<1>4. hits # {} /\ (CHOOSE q \in hits : \A r \in hits : q <= r) = e
  BY <1>1, <1>2, ChosenHit
<1> QED
  BY <1>3, <1>4

\* A place with a character is inside.
LEMMA Inside ==
  ASSUME NEW t, NEW p, Ch(t, p) # NUL
  PROVE  p \in 1..Len(t) /\ Ch(t, p) = t[p]
BY DEF Ch

\* One digit, and then none.
LEMMA OneDigit ==
  ASSUME NEW S, NEW t \in Seq(S), NEW p \in 1..Len(t), t[p] \in Dec, p + 1 \in 1..Len(t), t[p + 1] \notin Dec
  PROVE  DigitsEnd(t, p) = p + 1 /\ DigitsAt(t, p) = <<t[p]>>
<1> DEFINE e == DigitsEnd(t, p)
<1>1. p \in 1..(Len(t) + 1)
  OBVIOUS
<1>2. e \in p..(Len(t) + 1) /\ \A q \in p..(e - 1) : t[q] \in Dec
  BY <1>1, DigitsEndThere
<1>3. e <= Len(t) => t[e] \notin Dec
  BY <1>1, DigitsStop
<1> HIDE DEF e
<1>4. e # p
  BY <1>3
<1>5. ~(p + 1 < e)
  <2> SUFFICES ASSUME p + 1 < e PROVE FALSE
    OBVIOUS
  <2>1. p + 1 \in p..(e - 1)
    BY <1>2
  <2> QED
    BY <1>2, <2>1
<1>6. e = p + 1
  BY <1>2, <1>4, <1>5
<1>7. SubSeq(t, p, e - 1) = <<t[p]>>
  <2>1. e - 1 = p
    BY <1>6
  <2>2. SubSeq(t, p, p) = <<t[p]>>
    <3> DEFINE x == SubSeq(t, p, p)
    <3>1. x = [m \in 1..1 |-> t[p]]
      <4>1. x = [m \in 1..1 |-> t[p + m - 1]]
        OBVIOUS
      <4>2. \A m \in 1..1 : p + m - 1 = p
        OBVIOUS
      <4> QED
        BY <4>1, <4>2, Zenon
    <3> HIDE DEF x
    <3>2. x = <<t[p]>>
      BY <3>1
    <3> QED
      BY <3>2 DEF x
  <2> QED
    BY <2>1, <2>2, Zenon
<1> QED
  BY <1>6, <1>7 DEF e, DigitsAt

(* Where the default is passed: behind its bracket if that delimits *)
PastSeven(d, p) == IF ")" \in d THEN p + 3 ELSE p + 2

Seven(t, p) == Ch(t, p) = "(" /\ Ch(t, p + 1) = "7" /\ Ch(t, p + 2) = ")"

\* The default of a field is read, and its bracket is passed where it delimits.
LEMMA DefaultSeven ==
  ASSUME NEW S, NEW t \in Seq(S), NEW p \in Nat \ {0}, Seven(t, p), NEW d
  PROVE  /\ DoDefault("I", d, t, p) = [v |-> DefaultNumber, p |-> PastSeven(d, p)]
         /\ SkipDefault(t, p) = p + 3
<1>1. /\ p \in 1..Len(t) /\ p + 1 \in 1..Len(t) /\ p + 2 \in 1..Len(t)
      /\ t[p] = "(" /\ t[p + 1] = "7" /\ t[p + 2] = ")"
      /\ Ch(t, p) = "(" /\ Ch(t, p + 2) = ")" /\ Ch(t, p + 1) = "7"
  BY DEF Seven, Ch, NUL
<1>2. SkipWhitespace(t, p + 1) = p + 1 /\ SkipWhitespace(t, p + 2) = p + 2
  <2>1. ~IsWhitespace(t[p + 1]) /\ ~IsWhitespace(t[p + 2])
    <3>1. \A x : x = "7" \/ x = ")" => ~IsWhitespace(x)
      BY Zenon DEF IsWhitespace, NUL
    <3> QED
      BY <1>1, <3>1, Zenon
  <2> QED
    BY <1>1, <2>1, NothingToSkip
<1>3. FindDefaultStart(t, p) = [ok |-> TRUE, p |-> p + 1]
  BY <1>1, <1>2, Zenon DEF FindDefaultStart
<1>4. DigitsEnd(t, p + 1) = p + 2 /\ DigitsAt(t, p + 1) = <<"7">>
  <2>1. t[p + 1] \in Dec /\ t[p + 2] \notin Dec
    <3>1. "7" \in Dec /\ ")" \notin Dec
      BY DEF Dec, Oct, Bin
    <3> QED
      BY <1>1, <3>1
  <2>2. (p + 1) + 1 = p + 2
    OBVIOUS
  <2>3. DigitsEnd(t, p + 1) = (p + 1) + 1 /\ DigitsAt(t, p + 1) = <<t[p + 1]>>
    BY <1>1, <2>1, <2>2, OneDigit
  <2> QED
    BY <1>1, <2>2, <2>3
<1>5. Get("I", d, t, p + 1) = [v |-> DefaultNumber, p |-> p + 2]
  <2>1. Get("I", d, t, p + 1) = GetDec(t, p + 1)
    BY GetNumberIs
  <2>2. Ch(t, p + 1) \notin {"-", "+"} /\ p + 1 \in 1..(Len(t) + 1)
    BY <1>1
  <2>3. GetDec(t, p + 1) = [v |-> Number(DigitsAt(t, p + 1)), p |-> DigitsEnd(t, p + 1)]
    BY <2>2, GetDecIs
  <2> QED
    BY <1>4, <2>1, <2>3, Zenon DEF DefaultNumber
<1>6. GetReturnDefault(d, t, p + 2) = IF ")" \in d THEN p + 3 ELSE p + 2
  <2>1. (p + 2) + 1 = p + 3
    OBVIOUS
  <2> QED
    BY <1>1, <1>2, <2>1, Zenon DEF GetReturnDefault, IsDelimiter
<1> HIDE DEF Get
<1>7. DoDefault("I", d, t, p) = [v |-> DefaultNumber, p |-> IF ")" \in d THEN p + 3 ELSE p + 2]
  <2> DEFINE r == Get("I", d, t, p + 1)
  <2>1. r.v = DefaultNumber /\ r.p = p + 2
    BY <1>5
  <2>2. DoDefault("I", d, t, p) = [v |-> r.v, p |-> GetReturnDefault(d, t, r.p)]
    <3>1. FindDefaultStart(t, p).ok /\ FindDefaultStart(t, p).p = p + 1
      BY <1>3
    <3> HIDE DEF r
    <3> QED
      BY <3>1, Zenon DEF DoDefault, r
  <2> HIDE DEF r
  <2> QED
    BY <1>6, <2>1, <2>2, Zenon
<1>8. SkipDefault(t, p) = p + 3
  <2>1. FirstAt(t, p + 2, LAMBDA c : c = ")") = p + 2
    <3>1. p + 2 \in (p + 2)..Len(t) /\ \A q \in (p + 2)..((p + 2) - 1) : t[q] # ")"
      BY <1>1
    <3>2. p + 2 \in Nat \ {0} /\ Len(t) \in Nat
      OBVIOUS
    <3> QED
      BY <1>1, <3>1, <3>2, FirstOfIs
  <2>2. FindDefaultStart(t, p).ok /\ FindDefaultStart(t, p).p + 1 = p + 2
    BY <1>3
  <2>3. PastIfAny(t, p + 2) = p + 3
    BY <1>1 DEF PastIfAny, NUL
  <2> DEFINE q == FindDefaultStart(t, p).p + 1
  <2>4. SkipDefault(t, p) = PastIfAny(t, FirstAt(t, q, LAMBDA c : c = ")"))
    BY <2>2, Zenon DEF SkipDefault
  <2>5. q = p + 2
    BY <2>2
  <2> HIDE DEF q
  <2> QED
    BY <2>1, <2>3, <2>4, <2>5, Zenon DEF FirstAt
<1> QED
  BY <1>7, <1>8, Zenon DEF PastSeven

(***************************************************************************)
(* Which destination is whose.                                             *)
(***************************************************************************)
(* How many of W there are up to k *)
CountTo(W, k) == Cardinality({j \in W : j <= k})

\* One more where k is one of them, and none otherwise.
LEMMA CountedTo ==
  ASSUME NEW m \in Nat, NEW W \in SUBSET (1..m)
  PROVE  /\ \A k \in Nat : CountTo(W, k) \in Nat /\ CountTo(W, k) <= Cardinality(W)
         /\ \A k \in Nat : k + 1 \notin W => CountTo(W, k + 1) = CountTo(W, k)
         /\ \A k \in Nat : k + 1 \in W => CountTo(W, k + 1) = CountTo(W, k) + 1
         /\ \A j, k \in Nat : j <= k => CountTo(W, j) <= CountTo(W, k)
         /\ CountTo(W, 0) = 0 /\ CountTo(W, m) = Cardinality(W) /\ Cardinality(W) \in Nat
<1> DEFINE Upto(k) == {j \in W : j <= k}
<1>1. IsFiniteSet(W)
  <2>1. 1 \in Int /\ m \in Int
    OBVIOUS
  <2>2. IsFiniteSet(1..m)
    BY <2>1, FS_Interval, Zenon
  <2> QED
    BY <2>2, FS_Subset, Zenon
<1>2. \A k : CountTo(W, k) = Cardinality(Upto(k))
  BY DEF CountTo
<1>3. \A x \in W : x \in Nat /\ 1 <= x /\ x <= m
  OBVIOUS
<1>4. \A k, x : x \in Upto(k) <=> x \in W /\ x <= k
  OBVIOUS
<1> HIDE DEF Upto
<1>5. \A k : Upto(k) \subseteq W /\ IsFiniteSet(Upto(k))
  <2>1. \A k : Upto(k) \subseteq W
    BY <1>4, Zenon
  <2> QED
    BY <1>1, <2>1, FS_Subset
<1>6. \A k \in Nat : CountTo(W, k) \in Nat /\ CountTo(W, k) <= Cardinality(W)
  BY <1>1, <1>2, <1>5, FS_Subset, FS_CardinalityType
<1>7. ASSUME NEW k \in Nat, k + 1 \notin W PROVE CountTo(W, k + 1) = CountTo(W, k)
  <2>1. \A x \in W : x <= k + 1 <=> x <= k
    <3> SUFFICES ASSUME NEW x \in W PROVE x <= k + 1 <=> x <= k
      OBVIOUS
    <3>1. x # k + 1 /\ x \in Nat
      BY <1>3, <1>7
    <3> QED
      BY <3>1
  <2>2. Upto(k + 1) = Upto(k)
    <3>1. \A x \in Upto(k + 1) : x \in Upto(k)
      BY <1>4, <2>1, Zenon
    <3>2. \A x \in Upto(k) : x \in Upto(k + 1)
      BY <1>4, <2>1, Zenon
    <3> QED
      BY <3>1, <3>2
  <2> QED
    BY <1>2, <2>2
<1>8. ASSUME NEW k \in Nat, k + 1 \in W PROVE CountTo(W, k + 1) = CountTo(W, k) + 1
  <2>1. \A x \in W : x <= k + 1 <=> x <= k \/ x = k + 1
    <3> SUFFICES ASSUME NEW x \in W PROVE x <= k + 1 <=> x <= k \/ x = k + 1
      OBVIOUS
    <3> QED
      BY <1>3
  <2>2. ~(k + 1 <= k)
    OBVIOUS
  <2>3. Upto(k + 1) = Upto(k) \cup {k + 1} /\ k + 1 \notin Upto(k)
    BY <1>4, <1>8, <2>1, <2>2, Zenon
  <2>4. Cardinality(Upto(k) \cup {k + 1}) = Cardinality(Upto(k)) + 1
    BY <1>5, <2>3, FS_AddElement
  <2> QED
    BY <1>2, <2>3, <2>4
<1>9. ASSUME NEW j \in Nat, NEW k \in Nat, j <= k PROVE CountTo(W, j) <= CountTo(W, k)
  <2>1. \A x \in W : x <= j => x <= k
    <3> SUFFICES ASSUME NEW x \in W, x <= j PROVE x <= k
      OBVIOUS
    <3> QED
      BY <1>3, <1>9
  <2>2. Upto(j) \subseteq Upto(k)
    BY <1>4, <2>1, Zenon
  <2>3. Cardinality(Upto(j)) <= Cardinality(Upto(k))
    BY <1>5, <2>2, FS_Subset
  <2> QED
    BY <1>2, <2>3
<1>10. CountTo(W, 0) = 0
  <2>1. \A x \in W : ~(x <= 0)
    <3> SUFFICES ASSUME NEW x \in W PROVE ~(x <= 0)
      OBVIOUS
    <3> QED
      BY <1>3
  <2>2. Upto(0) = {}
    BY <1>4, <2>1, Zenon
  <2> QED
    BY <1>2, <2>2, FS_EmptySet
<1>11. CountTo(W, m) = Cardinality(W)
  <2>1. Upto(m) = W
    BY <1>3, <1>4, Zenon
  <2> QED
    BY <1>2, <2>1
<1> QED
  BY <1>1, <1>6, <1>7, <1>8, <1>9, <1>10, <1>11, FS_CardinalityType

\* The same of the fields of a call.
LEMMA FieldsPlaced ==
  ASSUME NEW c, HasFields(c)
  PROVE  /\ \A k \in Nat : /\ Place(c, k) \in Nat /\ Place(c, k) <= c.params
                           /\ k + 1 \notin ToSave(c) => Place(c, k + 1) = Place(c, k)
                           /\ k + 1 \in ToSave(c) => Place(c, k + 1) = Place(c, k) + 1
         /\ \A j, k \in Nat : j <= k => Place(c, j) <= Place(c, k)
         /\ Place(c, 0) = 0 /\ Place(c, Len(c.specs)) = c.params /\ c.params \in Nat
         /\ ToSave(c) \subseteq 1..Len(c.specs)
         /\ \A k \in 1..Len(c.specs) : k \in ToSave(c) <=> c.specs[k] # "q"
<1> DEFINE m == Len(c.specs)
           W == ToSave(c)
<1>1. m \in Nat /\ W \in SUBSET (1..m) /\ c.params = Cardinality(W)
  BY FieldsSpecs DEF ToSave
<1>2. \A k : Place(c, k) = CountTo(W, k)
  BY Zenon DEF Place, CountTo
<1>3. \A k \in 1..m : k \in W <=> c.specs[k] # "q"
  BY DEF ToSave, Wanted
<1> HIDE DEF W
<1>4. /\ \A k \in Nat : CountTo(W, k) \in Nat /\ CountTo(W, k) <= Cardinality(W)
      /\ \A k \in Nat : k + 1 \notin W => CountTo(W, k + 1) = CountTo(W, k)
      /\ \A k \in Nat : k + 1 \in W => CountTo(W, k + 1) = CountTo(W, k) + 1
      /\ \A j, k \in Nat : j <= k => CountTo(W, j) <= CountTo(W, k)
      /\ CountTo(W, 0) = 0 /\ CountTo(W, m) = Cardinality(W) /\ Cardinality(W) \in Nat
  BY <1>1, CountedTo
<1> QED
  BY <1>1, <1>2, <1>3, <1>4, Zenon DEF W

\* A value saved is the value of its specifier.
LEMMA DoneAndSaved ==
  ASSUME NEW c, HasFields(c), NEW T, NEW out \in Seq(T), NEW k \in 1..Len(c.specs), Done(c, out, k - 1),
         c.specs[k] # "q", Of(c, k).ok
  PROVE  Done(c, Append(out, Of(c, k).v), k)
<1> DEFINE v == Of(c, k).v
           new == Append(out, v)
           n == Len(out)
<1>1. k \in Nat /\ k - 1 \in Nat /\ (k - 1) + 1 = k /\ k - 1 <= k /\ n \in Nat
  BY FieldsSpecs
<1>2. Len(new) = n + 1 /\ new[n + 1] = v /\ \A j \in 1..n : new[j] = out[j]
  BY <1>1
<1>3. k \in ToSave(c)
  BY FieldsPlaced
<1>4. Place(c, k) = n + 1 /\ n = Place(c, k - 1)
  <2>1. n = Place(c, k - 1)
    BY Zenon DEF Done
  <2>2. Place(c, (k - 1) + 1) = Place(c, k - 1) + 1
    BY <1>1, <1>3, FieldsPlaced
  <2> QED
    BY <1>1, <2>1, <2>2
<1>5. ASSUME NEW j \in 1..k PROVE Of(c, j).ok
  <2>1. j = k \/ j \in 1..k - 1
    BY <1>1
  <2>2. \A i \in 1..k - 1 : Of(c, i).ok
    BY Zenon DEF Done
  <2> QED
    BY <2>1, <2>2
<1>6. ASSUME NEW j \in ToSave(c), j <= k PROVE new[Place(c, j)] = Of(c, j).v
  <2>1. CASE j = k
    BY <1>2, <1>4, <2>1
  <2>2. CASE j # k
    <3>1. j \in Nat /\ j - 1 \in Nat /\ (j - 1) + 1 = j /\ j <= k - 1
      <4>1. j \in 1..Len(c.specs)
        BY <1>6, FieldsPlaced
      <4> QED
        BY <1>1, <1>6, <2>2, <4>1
    <3>2. Place(c, j) = Place(c, j - 1) + 1 /\ Place(c, j - 1) \in Nat /\ Place(c, j) <= Place(c, k - 1)
      <4>1. Place(c, j - 1) \in Nat
        BY <3>1, FieldsPlaced
      <4>2. Place(c, (j - 1) + 1) = Place(c, j - 1) + 1
        BY <1>6, <3>1, FieldsPlaced
      <4>3. Place(c, j) <= Place(c, k - 1)
        BY <1>1, <3>1, FieldsPlaced
      <4> QED
        BY <3>1, <4>1, <4>2, <4>3
    <3>3. Place(c, j) \in 1..n
      BY <1>1, <1>4, <3>2
    <3>4. out[Place(c, j)] = Of(c, j).v
      BY <1>6, <3>1, Zenon DEF Done
    <3> QED
      BY <1>2, <3>3, <3>4
  <2> QED
    BY <2>1, <2>2
<1> HIDE DEF v, new
<1>7. Done(c, new, k)
  BY <1>2, <1>4, <1>5, <1>6, Zenon DEF Done
<1> QED
  BY <1>7 DEF new, v

\* Neither is one that is not.
LEMMA DoneNotSaved ==
  ASSUME NEW c, HasFields(c), NEW out, NEW k \in 1..Len(c.specs), Done(c, out, k - 1),
         c.specs[k] = "q", Of(c, k).ok
  PROVE  Done(c, out, k)
<1>1. k \in Nat /\ k - 1 \in Nat /\ (k - 1) + 1 = k
  BY FieldsSpecs
<1>2. k \notin ToSave(c)
  BY FieldsPlaced
<1>3. Len(out) = Place(c, k)
  <2>1. Len(out) = Place(c, k - 1)
    BY Zenon DEF Done
  <2>2. Place(c, (k - 1) + 1) = Place(c, k - 1)
    BY <1>1, <1>2, FieldsPlaced
  <2> QED
    BY <1>1, <2>1, <2>2
<1>4. ASSUME NEW j \in 1..k PROVE Of(c, j).ok
  <2>1. j = k \/ j \in 1..k - 1
    BY <1>1
  <2>2. \A i \in 1..k - 1 : Of(c, i).ok
    BY Zenon DEF Done
  <2> QED
    BY <2>1, <2>2
<1>5. ASSUME NEW j \in ToSave(c), j <= k PROVE out[Place(c, j)] = Of(c, j).v
  <2>1. j <= k - 1
    <3>1. j \in 1..Len(c.specs) /\ j # k
      BY <1>2, <1>5, FieldsPlaced
    <3> QED
      BY <1>1, <1>5, <3>1
  <2> QED
    BY <1>5, <2>1, Zenon DEF Done
<1> QED
  BY <1>3, <1>4, <1>5, Zenon DEF Done

(* What a call with fields should give *)
FieldsAnswer(c, r, out) ==
  IF \A k \in Checked(c.specs) : Of(c, k).ok
  THEN r = "TRUE" /\ Len(out) = Cardinality(ToSave(c)) /\ \A k \in ToSave(c) : out[Place(c, k)] = Of(c, k).v
  ELSE r = "FAIL"

LEMMA FieldsAnswered ==
  ASSUME phase = "ended" => (call.kind = "fields" => FieldsAnswer(call, result, saved))
  PROVE  FieldsAreRead
BY Zenon DEF FieldsAreRead, FieldsAnswer, Of, ToSave, Place

\* Once every destination is filled, every specifier that counts has its field.
LEMMA AllDone ==
  ASSUME NEW c, HasFields(c), NEW out, NEW k \in 0..Len(c.specs), Done(c, out, k), Len(out) >= c.params
  PROVE  FieldsAnswer(c, "TRUE", out)
<1>1. k \in Nat /\ Len(c.specs) \in Nat
  BY FieldsSpecs
<1>2. Len(out) = Place(c, k) /\ Place(c, k) \in Nat /\ Place(c, k) <= c.params /\ c.params \in Nat
  <2>1. Len(out) = Place(c, k)
    BY Zenon DEF Done
  <2> QED
    BY <1>1, <2>1, FieldsPlaced
<1>3. Place(c, k) = c.params
  BY <1>2
<1>4. ASSUME NEW j \in ToSave(c) PROVE j \in 1..k /\ j <= k
  <2>1. j \in 1..Len(c.specs) /\ j - 1 \in Nat /\ (j - 1) + 1 = j /\ j \in Nat
    BY <1>4, FieldsPlaced
  <2>2. Place(c, j) = Place(c, j - 1) + 1 /\ Place(c, j) <= c.params /\ Place(c, j - 1) \in Nat
    BY <1>4, <2>1, FieldsPlaced
  <2>3. k <= j - 1 => Place(c, k) <= Place(c, j - 1)
    BY <1>1, <2>1, FieldsPlaced
  <2> QED
    BY <1>1, <1>2, <1>3, <2>1, <2>2, <2>3
<1>5. ASSUME NEW j \in Checked(c.specs) PROVE Of(c, j).ok
  <2>1. j \in 1..Len(c.specs) /\ \E m \in ToSave(c) : j <= m
    BY DEF Checked, ToSave
  <2>2. j \in 1..k
    BY <1>1, <1>4, <2>1
  <2> QED
    BY <2>2, Zenon DEF Done
<1>6. Len(out) = Cardinality(ToSave(c))
  BY <1>2, <1>3, FieldsSpecs DEF ToSave
<1>7. \A j \in ToSave(c) : out[Place(c, j)] = Of(c, j).v
  BY <1>4, Zenon DEF Done
<1> QED
  BY <1>5, <1>6, <1>7, Zenon DEF FieldsAnswer

\* A specifier that is reached with a destination to fill counts.
LEMMA Reached ==
  ASSUME NEW c, HasFields(c), NEW out, NEW k \in 1..Len(c.specs), Done(c, out, k - 1), Len(out) < c.params
  PROVE  k \in Checked(c.specs)
<1>1. k \in Nat /\ k - 1 \in Nat /\ Len(c.specs) \in Nat
  BY FieldsSpecs
<1>2. Place(c, k - 1) < c.params
  <2>1. Len(out) = Place(c, k - 1)
    BY Zenon DEF Done
  <2> QED
    BY <2>1
<1> SUFFICES ASSUME \A m \in ToSave(c) : ~(k <= m) PROVE FALSE
  BY DEF Checked, ToSave
<1> DEFINE Same == {j \in Nat : k - 1 + j <= Len(c.specs) => Place(c, k - 1 + j) = Place(c, k - 1)}
<1>3. 0 \in Same
  BY <1>1
<1>4. ASSUME NEW j \in Same PROVE j + 1 \in Same
  <2>1. j \in Nat /\ j + 1 \in Nat /\ k - 1 + j \in Nat /\ (k - 1 + j) + 1 = k - 1 + (j + 1)
    BY <1>1
  <2> SUFFICES ASSUME k - 1 + (j + 1) <= Len(c.specs) PROVE Place(c, k - 1 + (j + 1)) = Place(c, k - 1)
    BY <2>1
  <2>2. Place(c, k - 1 + j) = Place(c, k - 1)
    BY <1>1, <2>1
  <2>3. k - 1 + (j + 1) \notin ToSave(c)
    BY <1>1, <2>1
  <2> QED
    BY <2>1, <2>2, <2>3, FieldsPlaced
<1>5. Same \in SUBSET Nat
  OBVIOUS
<1> HIDE DEF Same
<1>6. Same = Nat
  BY <1>3, <1>4, <1>5, Induct
<1> DEFINE j == Len(c.specs) - (k - 1)
<1>7. j \in Nat /\ k - 1 + j = Len(c.specs)
  BY <1>1
<1> HIDE DEF j
<1>8. Place(c, Len(c.specs)) = Place(c, k - 1)
  <2>1. j \in Same
    BY <1>6, <1>7
  <2> QED
    BY <1>1, <1>7, <2>1 DEF Same
<1> QED
  BY <1>1, <1>2, <1>8, FieldsPlaced

\* So that the call fails if that one does.
LEMMA ReachedAndFailed ==
  ASSUME NEW c, HasFields(c), NEW out, NEW k \in 1..Len(c.specs), Done(c, out, k - 1), Len(out) < c.params,
         ~Of(c, k).ok
  PROVE  FieldsAnswer(c, "FAIL", out)
BY Reached, Zenon DEF FieldsAnswer

(***************************************************************************)
(* A field, read at the place where it begins.                             *)
(***************************************************************************)
LEMMA NextIs ==
  ASSUME NEW S, NEW t \in Seq(S), Signless(t), NEW k \in Nat \ {0}, NEW q \in 1..(Len(t) + 1),
         Before(t, q) = k - 1,
         q <= Len(t) => t[q] \in Blanks /\ (t[q] \in Spaces => q > 1 /\ t[q - 1] \notin Blanks)
  PROVE  /\ SkipOneSpacer(Commas, t, q) \in 1..(Len(t) + 1)
         /\ Begins(t, SkipOneSpacer(Commas, t, q), k + 1)
<1>1. /\ SkipOneSpacer({","}, t, q) \in 1..(Len(t) + 1)
      /\ Begins(t, SkipOneSpacer({","}, t, q), k + 1)
  BY NextBegins, Zenon
<1> QED
  BY <1>1, Zenon DEF Commas

\* Behind a comma the next one begins.
LEMMA NextIfAbsent ==
  ASSUME NEW S, NEW t \in Seq(S), Signless(t), NEW k \in Nat \ {0}, NEW p \in 1..Len(t), t[p] \in Commas,
         Begins(t, p, k)
  PROVE  /\ SkipOneSpacer(Commas, t, p) \in 1..(Len(t) + 1)
         /\ Begins(t, SkipOneSpacer(Commas, t, p), k + 1)
<1>1. Before(t, p) = k - 1
  BY EmptyField
<1>2. t[p] \in Blanks /\ t[p] \notin Spaces
  BY DEF Commas, Blanks, Spaces
<1>3. p \in 1..(Len(t) + 1)
  OBVIOUS
<1> QED
  BY <1>1, <1>2, <1>3, NextIs

\* At the end of the text all that are left do.
LEMMA NextAtEnd ==
  ASSUME NEW t, Len(t) \in Nat, NEW k \in Nat \ {0}, Begins(t, Len(t) + 1, k)
  PROVE  Begins(t, Len(t) + 1, k + 1)
<1>1. AtEnd(t, Len(t) + 1, k)
  BY BeginsAtEnd
<1>2. Cardinality(Separators(t)) \in Nat
  BY Counted
<1>3. AtEnd(t, Len(t) + 1, k + 1)
  BY <1>1, <1>2 DEF AtEnd
<1> QED
  BY <1>3, BeginsAtEnd

(* What reading a number at p as sp gives the field k, wanted as spec *)
ReadAs(r, t, k, spec) ==
  /\ r.ok = FieldOf(spec, t, k).ok
  /\ r.ok => /\ r.v = FieldOf(spec, t, k).v
             /\ SkipOneSpacer(Commas, t, r.p) \in 1..(Len(t) + 1)
             /\ Begins(t, SkipOneSpacer(Commas, t, r.p), k + 1)

LEMMA NumberStep ==
  ASSUME NEW S, NEW t \in Seq(S), Signless(t), NEW k \in Nat \ {0}, NEW p \in 1..Len(t), Begins(t, p, k),
         NEW sp \in {"d", "I"}, NEW spec, t[p] \in Commas => spec # "I"
  PROVE  ReadAs(Do(sp, Commas, t, p), t, k, spec)
<1> DEFINE d == DigitsEnd(t, p)
           r == Do(sp, Commas, t, p)
           of == FieldOf(spec, t, k)
<1>1. p \in 1..(Len(t) + 1) /\ Len(t) \in Nat /\ t[p] \notin {"+", "-"}
  BY DEF Signless
<1>2. Ch(t, p) = t[p] /\ Ch(t, p) \notin {"-", "+"}
  BY <1>1 DEF Ch
<1>3. r = [ok |-> GetReturn(Commas, t, d), v |-> Number(DigitsAt(t, p)), p |-> d]
  <2>1. sp \in {"d", "I", "i"}
    OBVIOUS
  <2> QED
    BY <1>1, <1>2, <2>1, DoNumber, Zenon
<1> HIDE DEF r
<1>4. r.v = Number(DigitsAt(t, p)) /\ r.p = d /\ r.ok = GetReturn(Commas, t, d)
  BY <1>3
<1> DEFINE next == SkipOneSpacer(Commas, t, d)
<1> SUFFICES /\ r.ok = of.ok
             /\ r.ok => r.v = of.v /\ next \in 1..(Len(t) + 1) /\ Begins(t, next, k + 1)
  BY <1>4, Zenon DEF ReadAs, r
<1>5. CASE t[p] \in Commas
  <2>1. t[p] \notin Dec
    BY <1>5 DEF Commas, Dec, Oct, Bin
  <2>2. d = p
    <3>1. d \in p..(Len(t) + 1) /\ \A q \in p..(d - 1) : t[q] \in Dec
      BY <1>1, DigitsEndThere
    <3> HIDE DEF d
    <3> SUFFICES ASSUME d # p PROVE FALSE
      OBVIOUS
    <3>2. p \in p..(d - 1)
      BY <3>1
    <3> QED
      BY <2>1, <3>1, <3>2
  <2>3. DigitsAt(t, p) = <<>>
    <3>1. SubSeq(t, p, p - 1) = <<>>
      OBVIOUS
    <3> QED
      BY <2>2, <3>1, Zenon DEF DigitsAt
  <2>4. r.v = 0
    BY <1>4, <2>3, NumberOfNothing
  <2>5. r.ok = TRUE
    <3>1. GetReturn({","}, t, p)
      <4>1. t[p] \in Blanks
        BY <1>5 DEF Commas, Blanks
      <4> QED
        BY <1>2, <4>1, DigitsAreNoSpacers, Zenon DEF GetReturn
    <3>2. GetReturn(Commas, t, p) \in BOOLEAN
      BY Zenon DEF GetReturn, IsSpacer
    <3> QED
      BY <1>4, <2>2, <3>1, <3>2, Zenon DEF Commas
  <2>6. of = [ok |-> TRUE, v |-> 0]
    BY <1>1, <1>5, EmptyFieldOf
  <2>7. next \in 1..(Len(t) + 1) /\ Begins(t, next, k + 1)
    BY <1>5, <2>2, NextIfAbsent
  <2>8. of.ok = TRUE /\ of.v = 0
    BY <2>6
  <2> HIDE DEF of, next
  <2> QED
    BY <2>4, <2>5, <2>7, <2>8, Zenon
<1>6. CASE t[p] \notin Commas
  <2>1. t[p] \notin Blanks
    <3>1. t[p] \notin Spaces
      BY <1>1, BeginsInside
    <3> QED
      BY <1>6, <3>1 DEF Spaces, Commas, Blanks
  <2>2. /\ GetReturn({","}, t, d) = of.ok
        /\ of.ok => /\ of.v = Number(DigitsAt(t, p)) /\ d \in 1..(Len(t) + 1) /\ Before(t, d) = k - 1
                    /\ d <= Len(t) => t[d] \in Blanks /\ (t[d] \in Spaces => d > 1 /\ t[d - 1] \notin Blanks)
    BY <2>1, FieldRead, Zenon
  <2>3. GetReturn(Commas, t, d) = of.ok
    BY <2>2, Zenon DEF Commas
  <2>4. ASSUME of.ok PROVE next \in 1..(Len(t) + 1) /\ Begins(t, next, k + 1)
    <3>1. /\ d \in 1..(Len(t) + 1) /\ Before(t, d) = k - 1
          /\ d <= Len(t) => t[d] \in Blanks /\ (t[d] \in Spaces => d > 1 /\ t[d - 1] \notin Blanks)
      BY <2>2, <2>4, Zenon
    <3> HIDE DEF d
    <3> QED
      BY <3>1, NextIs
  <2>5. of.ok => of.v = Number(DigitsAt(t, p))
    BY <2>2, Zenon
  <2> HIDE DEF of, next
  <2> QED
    BY <1>4, <2>3, <2>4, <2>5, Zenon
<1> QED
  BY <1>5, <1>6, Zenon

(***************************************************************************)
(* Whose turn it is.                                                       *)
(***************************************************************************)
Quieters == {"{", "}"}
Others == {"'", "?", "P", "k", "K"}

\* Which letters an action reads, and when.
LEMMA Guards ==
  /\ FormatEnds => Reading({NUL})
  /\ Required => Reading(SimpleRequired)
  /\ Optional => Reading(SimpleOptional)
  /\ QuietSection => Reading(Quieters) \/ Defaulting(Quieters)
  /\ Delimiters \/ SearchLiteral \/ Option => Reading(Others)
  /\ Delimiter => Reading({"p"})
  /\ StringDefault => Reading(Strings \ {"s"})
  /\ String => Reading(Strings)
  /\ UserAbsent \/ User => Reading(DOMAIN Kind)
  /\ Array => Reading({"A", "a"}) \/ Defaulting({"A"})
  /\ Enum => Reading({"E", "e"}) \/ Defaulting({"E"})
  /\ Kustom => Reading(Others) \/ Defaulting(Others)
  /\ Ignored => /\ phase \in {"main", "defaults"} /\ Letter \notin Specifiers
                 /\ More /\ (phase = "main" => Ch(string, s) # NUL)
  /\ InputEnds => phase = "main"
  /\ FormatEndsEarly => Defaulting({NUL})
  /\ Default => Defaulting(SimpleOptional)
  /\ DefaultString => Defaulting({"S", "z", "Z"})
  /\ DefaultPlayer => Defaulting(DOMAIN Kind)
  /\ Discarded => Defaulting(Others \cup {"p"})
  /\ LiteralPassed => Defaulting(Others)
  /\ Missing => Defaulting(SimpleRequired \cup {"a", "e", "k", "q", "r", "s", "u"})
  /\ Finished => phase = "defaults" /\ ~More
<1> USE DEF Reading, Defaulting
<1>1. FormatEnds => Reading({NUL})
  BY Zenon DEF FormatEnds
<1>2. Required => Reading(SimpleRequired)
  BY Zenon DEF Required
<1>3. Optional => Reading(SimpleOptional)
  BY Zenon DEF Optional
<1>4. QuietSection => Reading(Quieters) \/ Defaulting(Quieters)
  BY Zenon DEF QuietSection, Quieters
<1>5. Delimiters \/ SearchLiteral \/ Option => Reading(Others)
  BY Zenon DEF Delimiters, SearchLiteral, Option, Others
<1>6. Delimiter => Reading({"p"})
  BY Zenon DEF Delimiter
<1>7. StringDefault => Reading(Strings \ {"s"})
  BY Zenon DEF StringDefault
<1>8. String => Reading(Strings)
  BY Zenon DEF String
<1>9. UserAbsent \/ User => Reading(DOMAIN Kind)
  <2>1. {"U", "Q", "R"} \subseteq DOMAIN Kind
    BY DEF Kind
  <2> QED
    BY <2>1, Zenon DEF UserAbsent, User
<1>10. Array => Reading({"A", "a"}) \/ Defaulting({"A"})
  BY Zenon DEF Array
<1>11. Enum => Reading({"E", "e"}) \/ Defaulting({"E"})
  BY Zenon DEF Enum
<1>12. Kustom => Reading(Others) \/ Defaulting(Others)
  BY Zenon DEF Kustom, Others
<1>13. Ignored => /\ phase \in {"main", "defaults"} /\ Letter \notin Specifiers
                  /\ More /\ (phase = "main" => Ch(string, s) # NUL)
  BY Zenon DEF Ignored
<1>14. InputEnds => phase = "main"
  BY Zenon DEF InputEnds
<1>15. FormatEndsEarly => Defaulting({NUL})
  BY Zenon DEF FormatEndsEarly
<1>16. Default => Defaulting(SimpleOptional)
  BY Zenon DEF Default
<1>17. DefaultString => Defaulting({"S", "z", "Z"})
  BY Zenon DEF DefaultString
<1>18. DefaultPlayer => Defaulting(DOMAIN Kind)
  <2>1. {"U", "Q", "R"} \subseteq DOMAIN Kind
    BY DEF Kind
  <2> QED
    BY <2>1, Zenon DEF DefaultPlayer
<1>19. Discarded => Defaulting(Others \cup {"p"})
  BY Zenon DEF Discarded, Others
<1>20. LiteralPassed => Defaulting(Others)
  BY Zenon DEF LiteralPassed, Others
<1>21. Missing => Defaulting(SimpleRequired \cup {"a", "e", "k", "q", "r", "s", "u"})
  BY Zenon DEF Missing
<1>22. Finished => phase = "defaults" /\ ~More
  BY Zenon DEF Finished
<1> QED
  BY <1>1, <1>2, <1>3, <1>4, <1>5, <1>6, <1>7, <1>8, <1>9, <1>10, <1>11, <1>12, <1>13, <1>14, <1>15, <1>16,
     <1>17, <1>18, <1>19, <1>20, <1>21, <1>22, Zenon

(* The letters that the calls of the properties below are written with *)
LettersUsed == Quieters \cup {"d", "I", ")", "p", "s", "A", "E", NUL}

\* Which sets of letters these are in.
LEMMA Letters ==
  ASSUME NEW x \in LettersUsed
  PROVE  /\ x \in SimpleRequired <=> x = "d"
         /\ x \in SimpleOptional <=> x = "I"
         /\ x \notin Others /\ x \notin DOMAIN Kind /\ x \notin {"S", "z", "Z"}
         /\ x \in Strings <=> x = "s"
         /\ x \notin Specifiers <=> x = ")"
         /\ x \in Quieters => x \notin {"d", "I", ")", "p", "s", "A", "E", NUL, "a", "e", "k", "q", "r", "u"}
<1> USE DEF SimpleRequired, SimpleOptional, Others, Strings, Quieters, NUL
<1>1. DOMAIN Kind = {"u", "U", "q", "Q", "r", "R"}
  BY DEF Kind
<1>2. x \in {"d", "I", ")", "p", "s", "A", "E", "NUL", "{", "}"}
  BY Zenon DEF LettersUsed
<1>3. x \in SimpleRequired <=> x = "d"
  BY <1>2, Zenon
<1>4. x \in SimpleOptional <=> x = "I"
  BY <1>2, Zenon
<1>5. x \notin Others /\ x \notin DOMAIN Kind /\ x \notin {"S", "z", "Z"}
  BY <1>1, <1>2, Zenon
<1>6. x \in Strings <=> x = "s"
  BY <1>2, Zenon
<1>7. x \notin Specifiers <=> x = ")"
  BY <1>1, <1>2, Zenon DEF Specifiers, Simple
<1>8. x \in Quieters => x \notin {"d", "I", ")", "p", "s", "A", "E", NUL, "a", "e", "k", "q", "r", "u"}
  BY <1>2, Zenon
<1> QED
  BY <1>3, <1>4, <1>5, <1>6, <1>7, <1>8

\* Before the input ends an action reads with the letter that it is for.
LEMMA MainTurn ==
  ASSUME Work, phase = "main", Letter \in LettersUsed
  PROVE  \/ InputEnds
         \/ /\ More /\ Ch(string, s) # NUL
            /\ \/ FormatEnds /\ Letter = NUL
               \/ Required /\ Letter = "d"
               \/ Optional /\ Letter = "I"
               \/ QuietSection /\ Letter \in Quieters
               \/ Delimiter /\ Letter = "p"
               \/ String /\ Letter = "s"
               \/ Array /\ Letter = "A"
               \/ Enum /\ Letter = "E"
               \/ Ignored /\ Letter = ")"
<1> DEFINE x == Letter
<1>1. /\ x \in SimpleRequired <=> x = "d"
      /\ x \in SimpleOptional <=> x = "I"
      /\ x \notin Others /\ x \notin DOMAIN Kind /\ x \notin {"S", "z", "Z"}
      /\ x \in Strings <=> x = "s"
      /\ x \notin Specifiers <=> x = ")"
      /\ x \in Quieters => x \notin {"d", "I", ")", "p", "s", "A", "E", NUL, "a", "e", "k", "q", "r", "u"}
      /\ x \notin {"a", "e"}
  <2>1. x \notin {"a", "e"}
    BY Zenon DEF LettersUsed, Quieters, NUL
  <2> QED
    BY <2>1, Letters
<1>2. phase # "defaults"
  OBVIOUS
<1>3. /\ ~FormatEndsEarly /\ ~Default /\ ~DefaultString /\ ~DefaultPlayer /\ ~Discarded /\ ~LiteralPassed
      /\ ~Missing /\ ~Finished
  BY <1>2, Guards, Zenon DEF Defaulting
<1>4. ~Delimiters /\ ~SearchLiteral /\ ~Option /\ ~UserAbsent /\ ~User /\ ~Kustom /\ ~StringDefault
  BY <1>1, <1>2, Guards, Zenon DEF Defaulting, Reading
<1>5. ASSUME FormatEnds PROVE More /\ Ch(string, s) # NUL /\ x = NUL
  BY <1>5, Guards, Zenon DEF Reading
<1>6. ASSUME Required PROVE More /\ Ch(string, s) # NUL /\ x = "d"
  BY <1>1, <1>6, Guards, Zenon DEF Reading
<1>7. ASSUME Optional PROVE More /\ Ch(string, s) # NUL /\ x = "I"
  BY <1>1, <1>7, Guards, Zenon DEF Reading
<1>8. ASSUME QuietSection PROVE More /\ Ch(string, s) # NUL /\ x \in Quieters
  BY <1>2, <1>8, Guards, Zenon DEF Reading, Defaulting
<1>9. ASSUME Delimiter PROVE More /\ Ch(string, s) # NUL /\ x = "p"
  BY <1>9, Guards, Zenon DEF Reading
<1>10. ASSUME String PROVE More /\ Ch(string, s) # NUL /\ x = "s"
  BY <1>1, <1>10, Guards, Zenon DEF Reading
<1>11. ASSUME Array PROVE More /\ Ch(string, s) # NUL /\ x = "A"
  BY <1>1, <1>2, <1>11, Guards, Zenon DEF Reading, Defaulting
<1>12. ASSUME Enum PROVE More /\ Ch(string, s) # NUL /\ x = "E"
  BY <1>1, <1>2, <1>12, Guards, Zenon DEF Reading, Defaulting
<1>13. ASSUME Ignored PROVE More /\ Ch(string, s) # NUL /\ x = ")"
  BY <1>1, <1>13, Guards, Zenon
<1> QED
  BY <1>3, <1>4, <1>5, <1>6, <1>7, <1>8, <1>9, <1>10, <1>11, <1>12, <1>13, Zenon DEF Work

\* And after it.
LEMMA DefaultTurn ==
  ASSUME Work, phase = "defaults", Letter \in LettersUsed
  PROVE  \/ Finished
         \/ /\ More
            /\ \/ FormatEndsEarly /\ Letter = NUL
               \/ Missing /\ Letter \in {"d", "s"}
               \/ Default /\ Letter = "I"
               \/ QuietSection /\ Letter \in Quieters
               \/ Discarded /\ Letter = "p"
               \/ Array /\ Letter = "A"
               \/ Enum /\ Letter = "E"
               \/ Ignored /\ Letter = ")"
<1> DEFINE x == Letter
<1>1. /\ x \in SimpleRequired <=> x = "d"
      /\ x \in SimpleOptional <=> x = "I"
      /\ x \notin Others /\ x \notin DOMAIN Kind /\ x \notin {"S", "z", "Z"}
      /\ x \in Strings <=> x = "s"
      /\ x \notin Specifiers <=> x = ")"
      /\ x \in Quieters => x \notin {"d", "I", ")", "p", "s", "A", "E", NUL, "a", "e", "k", "q", "r", "u"}
      /\ x \notin {"a", "e", "k", "q", "r", "u"}
  <2>1. x \notin {"a", "e", "k", "q", "r", "u"}
    BY Zenon DEF LettersUsed, Quieters, NUL
  <2> QED
    BY <2>1, Letters
<1>2. phase # "main"
  OBVIOUS
<1>3. /\ ~FormatEnds /\ ~Required /\ ~Optional /\ ~Delimiters /\ ~SearchLiteral /\ ~Option /\ ~Delimiter
      /\ ~StringDefault /\ ~String /\ ~UserAbsent /\ ~User /\ ~InputEnds
  BY <1>2, Guards, Zenon DEF Reading
<1>4. ~Kustom /\ ~DefaultString /\ ~DefaultPlayer /\ ~LiteralPassed
  BY <1>1, <1>2, Guards, Zenon DEF Defaulting, Reading
<1>5. ASSUME FormatEndsEarly PROVE More /\ x = NUL
  BY <1>5, Guards, Zenon DEF Defaulting
<1>6. ASSUME Missing PROVE More /\ x \in {"d", "s"}
  <2>1. Defaulting(SimpleRequired \cup {"a", "e", "k", "q", "r", "s", "u"})
    BY <1>6, Guards, Zenon
  <2> QED
    BY <1>1, <2>1, Zenon DEF Defaulting
<1>7. ASSUME Default PROVE More /\ x = "I"
  BY <1>1, <1>7, Guards, Zenon DEF Defaulting
<1>8. ASSUME QuietSection PROVE More /\ x \in Quieters
  BY <1>2, <1>8, Guards, Zenon DEF Reading, Defaulting
<1>9. ASSUME Discarded PROVE More /\ x = "p"
  BY <1>1, <1>9, Guards, Zenon DEF Defaulting
<1>10. ASSUME Array PROVE More /\ x = "A"
  BY <1>1, <1>2, <1>10, Guards, Zenon DEF Reading, Defaulting
<1>11. ASSUME Enum PROVE More /\ x = "E"
  BY <1>1, <1>2, <1>11, Guards, Zenon DEF Reading, Defaulting
<1>12. ASSUME Ignored PROVE More /\ x = ")"
  BY <1>1, <1>12, Guards, Zenon
<1> QED
  BY <1>3, <1>4, <1>5, <1>6, <1>7, <1>8, <1>9, <1>10, <1>11, <1>12, Zenon DEF Work

\* A delimiter stands between angle brackets.
LEMMA SingleType ==
  ASSUME NEW t, NEW p \in Nat, Ch(t, p) = "<", Ch(t, p + 1) # NUL, Ch(t, p + 2) = ">"
  PROVE  GetSingleType(t, p).v = t[p + 1] /\ GetSingleType(t, p).p = p + 3
<1>1. Ch(t, p) # NUL
  BY Zenon DEF NUL
<1>2. GetSingleType(t, p) = [v |-> t[p + 1], p |-> p + 3]
  BY <1>1, Zenon DEF GetSingleType
<1> QED
  BY <1>2

(***************************************************************************)
(* A turn of a call with fields.                                           *)
(***************************************************************************)
(* The call goes on among its fields, or ends with the right answer *)
FieldsTurned ==
  \/ phase' \in {"main", "defaults"} /\ AmongFields'
  \/ phase' = "ended" /\ FieldsAnswer(call, result', saved')

\* The input of the call is its text, and ends where that does.
LEMMA FieldsInput ==
  ASSUME HasFields(call), s \in 1..Len(call.text) + 1
  PROVE  /\ string = call.text
         /\ Ch(string, s) # NUL <=> s \in 1..Len(call.text)
         /\ Ch(string, s) = NUL => s = Len(call.text) + 1
         /\ s \in 1..Len(call.text) => Ch(string, s) = call.text[s]
<1>1. string = call.text /\ Signless(call.text) /\ Len(call.text) \in Nat
  BY FieldsText DEF string
<1>2. s \in 1..Len(call.text) => call.text[s] # NUL
  BY <1>1 DEF Signless
<1>3. s \in 1..Len(call.text) \/ s = Len(call.text) + 1
  BY <1>1
<1>4. Ch(call.text, s) = IF s \in 1..Len(call.text) THEN call.text[s] ELSE NUL
  BY Zenon DEF Ch
<1>5. s = Len(call.text) + 1 => s \notin 1..Len(call.text)
  BY <1>1
<1> QED
  BY <1>1, <1>2, <1>3, <1>4, <1>5, Zenon

\* With a destination to fill, the call is not saturated.
LEMMA MoreToFill ==
  ASSUME HasFields(call), doSave
  PROVE  /\ More <=> Len(saved) < call.params
BY DEF More

\* When the input ends the call stays where it is.
LEMMA FieldsInputEnds ==
  ASSUME HasFields(call), AmongFields, InputEnds, call' = call
  PROVE  FieldsTurned
<1>1. phase' = "defaults" /\ delim' = {")"} /\ f' = f /\ s' = s /\ doSave' = doSave /\ saved' = saved
  BY DEF InputEnds
<1>2. s = Len(call.text) + 1 \/ ~More
  BY FieldsInput DEF InputEnds, AmongFields
<1>3. More' <=> More
  BY <1>1 DEF More
<1>4. AmongFields'
  BY <1>1, <1>2, <1>3 DEF AmongFields, AtField, InQuiet, PastQuiet, AtClose
<1> QED
  BY <1>1, <1>4 DEF FieldsTurned

\* With every destination filled the call succeeds.
LEMMA FieldsFinish ==
  ASSUME HasFields(call), NEW k \in 0..Len(call.specs), Done(call, saved, k), Finished \/ (~More /\ Return("TRUE"))
  PROVE  FieldsTurned
<1>1. ~More /\ Return("TRUE")
  BY DEF Finished
<1>2. phase' = "ended" /\ result' = "TRUE" /\ saved' = saved
  BY <1>1 DEF Return
<1>3. Len(saved) >= call.params
  <2>1. Len(saved) = Place(call, k) /\ k \in Nat
    <3>1. Len(saved) = Place(call, k)
      BY Zenon DEF Done
    <3>2. k \in Nat
      BY FieldsSpecs
    <3> QED
      BY <3>1, <3>2
  <2>2. Len(saved) \in Nat /\ call.params \in Nat
    BY <2>1, FieldsPlaced
  <2>3. ~(Len(saved) < call.params)
    BY <1>1 DEF More
  <2> QED
    BY <2>2, <2>3
<1>4. FieldsAnswer(call, "TRUE", saved)
  BY <1>3, AllDone
<1> QED
  BY <1>2, <1>4 DEF FieldsTurned

\* A required field that is not there, or not a number, fails the call.
LEMMA FieldsFail ==
  ASSUME HasFields(call), NEW k \in 1..Len(call.specs), Done(call, saved, k - 1), Len(saved) < call.params,
         ~Of(call, k).ok, Return("FAIL")
  PROVE  FieldsTurned
<1>1. phase' = "ended" /\ result' = "FAIL" /\ saved' = saved
  BY DEF Return
<1>2. FieldsAnswer(call, "FAIL", saved)
  BY ReachedAndFailed
<1> QED
  BY <1>1, <1>2 DEF FieldsTurned

(* The place s is one where the field k may begin *)
Ready(p, k) == p \in 1..Len(call.text) + 1 /\ Begins(call.text, p, k)

\* A value that is saved is that of the field, and the call goes on behind it.
LEMMA FieldSaved ==
  ASSUME HasFields(call), call' = call, phase \in {"main", "defaults"}, \E T : saved \in Seq(T),
         NEW k \in 1..Len(call.specs), AtField(k), call.specs[k] # "q",
         NEW v, NEW nf, NEW q, Read(v, nf, q), Of(call, k).ok, v = Of(call, k).v,
         phase = "main" => delim = Commas /\ Ready(SkipOneSpacer(Commas, call.text, q), k + 1),
         phase = "defaults" => delim = {")"} /\ s = Len(call.text) + 1 /\ Ready(s, k + 1),
         \/ nf = call.at[k + 1]
         \/ call.specs[k] = "I" /\ nf = call.at[k] + 3
  PROVE  FieldsTurned
<1>0. string = call.text /\ string' = call.text
  BY FieldsText, Zenon DEF string
<1>1. /\ phase' = phase /\ doSave' = doSave /\ delim' = delim /\ f' = nf /\ doSave
      /\ s' = IF phase = "main" THEN SkipOneSpacer(delim', string, q) ELSE s
      /\ saved' = Append(saved, v)
  BY Zenon DEF Read, Save, Move, AtField
<1>2. Ready(s', k + 1) /\ s' \in 1..Len(call.text) + 1 /\ Begins(call.text, s', k + 1)
  <2>1. Ready(s', k + 1)
    BY <1>0, <1>1, Zenon
  <2> QED
    BY <2>1 DEF Ready
<1>3. Done(call, saved', k)
  <2>1. PICK T : saved \in Seq(T)
    OBVIOUS
  <2>2. Done(call, saved, k - 1)
    BY DEF AtField
  <2> QED
    BY <1>1, <2>1, <2>2, DoneAndSaved
<1>4. phase' = "defaults" => delim' = {")"} /\ s' = Len(call.text) + 1
  BY <1>1
<1>5. phase' = "main" => delim' = Commas
  BY <1>1
<1>6. k \in Nat /\ Len(call.specs) \in Nat /\ k + 1 \in 1..Len(call.specs) + 1 /\ (k + 1) - 1 = k
  BY FieldsSpecs
<1>7. CASE nf = call.at[k + 1]
  <2>1. AtField(k + 1)'
    BY <1>1, <1>2, <1>3, <1>6, <1>7 DEF AtField
  <2>2. \E j \in 1..Len(call'.specs) + 1 : AtField(j)'
    BY <1>6, <2>1
  <2> QED
    BY <1>1, <1>2, <1>4, <1>5, <2>2, Zenon DEF FieldsTurned, AmongFields
<1>8. CASE call.specs[k] = "I" /\ nf = call.at[k] + 3
  <2>1. AtClose(k)'
    BY <1>1, <1>2, <1>3, <1>6, <1>8 DEF AtClose
  <2>2. \E j \in 1..Len(call'.specs) : AtClose(j)'
    BY <2>1
  <2> QED
    BY <1>1, <1>2, <1>4, <1>5, <2>2, Zenon DEF FieldsTurned, AmongFields
<1> QED
  BY <1>7, <1>8

(***************************************************************************)
(* Where the call is, by letter.                                           *)
(***************************************************************************)
\* At its beginning: to the first field.
LEMMA FieldsFromStart ==
  ASSUME HasFields(call), call' = call, phase \in {"main", "defaults"}, AmongFields, Work,
         f = 1, doSave, Done(call, saved, 0), Begins(call.text, s, 1)
  PROVE  FieldsTurned
<1>1. Letter = "p" /\ Ch(format, 2) = "<" /\ Ch(format, 3) = "," /\ Ch(format, 4) = ">" /\ call.at[1] = 5
  BY FieldsBegin, Zenon DEF format, Letter
<1>2. Letter \in LettersUsed /\ Letter \notin Quieters /\ Letter # NUL
  BY <1>1, Zenon DEF LettersUsed, Quieters, NUL
<1>3. GetSingleType(format, f + 1).v = "," /\ GetSingleType(format, f + 1).p = 5
  <2>1. Ch(format, 3) # NUL
    BY <1>1, Zenon DEF NUL
  <2>2. 3 \in 1..Len(format) /\ Ch(format, 3) = format[3]
    BY <2>1, Inside, Zenon
  <2>3. f + 1 = 2 /\ 2 \in Nat
    OBVIOUS
  <2>4. GetSingleType(format, 2).v = format[3] /\ GetSingleType(format, 2).p = 5
    <3>1. 2 + 1 = 3 /\ 2 + 2 = 4 /\ 2 + 3 = 5
      OBVIOUS
    <3>2. Ch(format, 2) = "<" /\ Ch(format, 2 + 1) # NUL /\ Ch(format, 2 + 2) = ">"
      BY <1>1, <2>1, <3>1, Zenon
    <3>3. GetSingleType(format, 2).v = format[2 + 1] /\ GetSingleType(format, 2).p = 2 + 3
      BY <2>3, <3>2, SingleType, Zenon
    <3> QED
      BY <3>1, <3>3, Zenon
  <2> QED
    BY <1>1, <2>2, <2>3, <2>4, Zenon
<1>4. 1 \in 1..Len(call.specs) + 1 /\ 1 - 1 = 0
  BY FieldsSpecs
<1>5. ASSUME f' = 5, UNCHANGED <<phase, s, doSave, saved>>,
             phase = "main" => delim' = Commas, phase = "defaults" => delim' = delim,
             phase = "defaults" => s = Len(call.text) + 1
      PROVE  FieldsTurned
  <2>1. AtField(1)'
    BY <1>1, <1>4, <1>5 DEF AtField
  <2>2. \E j \in 1..Len(call'.specs) + 1 : AtField(j)'
    BY <1>4, <2>1
  <2>3. s' \in 1..Len(call'.text) + 1 /\ (phase' = "defaults" => delim' = {")"} /\ s' = Len(call'.text) + 1)
        /\ (phase' = "main" => delim' = Commas) /\ phase' \in {"main", "defaults"}
    BY <1>5 DEF AmongFields
  <2> QED
    BY <2>2, <2>3, Zenon DEF FieldsTurned, AmongFields
<1>6. CASE phase = "main"
  <2>1. InputEnds \/ Delimiter
    BY <1>1, <1>2, <1>6, MainTurn, Zenon
  <2>2. ASSUME Delimiter PROVE FieldsTurned
    <3>1. f' = 5 /\ delim' = {","} /\ UNCHANGED <<phase, s, doSave, saved>>
      <4>1. \E t \in {GetSingleType(format, f + 1)} :
              delim' = {t.v} /\ f' = t.p /\ UNCHANGED <<phase, s, doSave, saved, result, gOptions>>
        BY <2>2, Zenon DEF Delimiter
      <4> DEFINE r == GetSingleType(format, f + 1)
      <4>2. delim' = {r.v} /\ f' = r.p /\ UNCHANGED <<phase, s, doSave, saved>>
        BY <4>1, Zenon
      <4> QED
        BY <1>3, <4>2, Zenon
    <3>2. delim' = Commas /\ phase # "defaults"
      BY <1>6, <3>1, Zenon DEF Commas
    <3> QED
      BY <1>5, <3>1, <3>2, Zenon
  <2> QED
    BY <2>1, <2>2, FieldsInputEnds, Zenon
<1>7. CASE phase = "defaults"
  <2>1. Finished \/ (More /\ Discarded)
    BY <1>1, <1>2, <1>7, DefaultTurn, Zenon
  <2>2. ASSUME Finished PROVE FieldsTurned
    <3>1. 0 \in 0..Len(call.specs)
      BY FieldsSpecs
    <3> QED
      BY <2>2, <3>1, FieldsFinish, Zenon
  <2>3. ASSUME More, Discarded PROVE FieldsTurned
    <3>1. Pass(GetSingleType(format, f + 1).p)
      BY <1>1, <2>3, Zenon DEF Discarded
    <3>2. GetSingleType(format, f + 1).p = 5
      BY <1>3, Zenon
    <3>3. f' = 5 /\ UNCHANGED <<phase, s, doSave, saved, delim>>
      BY <3>1, <3>2, Zenon DEF Pass
    <3>4. s = Len(call.text) + 1 /\ phase # "main"
      BY <1>7, <2>3 DEF AmongFields
    <3> QED
      BY <1>5, <3>3, <3>4, Zenon
  <2> QED
    BY <2>1, <2>2, <2>3, Zenon
<1> QED
  BY <1>6, <1>7

\* At the end of the format every destination is filled.
LEMMA FieldsAtEnd ==
  ASSUME HasFields(call), call' = call, phase \in {"main", "defaults"}, AmongFields, Work,
         AtField(Len(call.specs) + 1)
  PROVE  FieldsTurned
<1> DEFINE m == Len(call.specs)
<1>0. m \in Nat /\ m \in 0..m /\ (m + 1) - 1 = m
  BY FieldsSpecs
<1>1. f = Len(call.format) + 1 /\ doSave /\ Done(call, saved, m)
  BY <1>0, FieldsBegin DEF AtField
<1>2. Letter = NUL
  <2>1. Len(call.format) \in Nat
    BY FieldsBegin
  <2>2. Len(call.format) + 1 \notin 1..Len(call.format)
    BY <2>1
  <2> QED
    BY <1>1, <2>2, Zenon DEF Ch, format, Letter
<1>3. Letter \in LettersUsed /\ Letter \notin Quieters /\ Letter \notin {"d", "I", "p", "s", "A", "E", ")"}
  BY <1>2, Zenon DEF LettersUsed, Quieters, NUL
<1>4. ~More
  <2>1. Len(saved) = Place(call, m)
    BY <1>1, Zenon DEF Done
  <2>2. Len(saved) = call.params /\ call.params \in Nat
    BY <2>1, FieldsPlaced
  <2> QED
    BY <1>1, <2>2 DEF More
<1>5. CASE phase = "main"
  <2>1. InputEnds
    BY <1>3, <1>4, <1>5, MainTurn, Zenon
  <2> QED
    BY <2>1, FieldsInputEnds, Zenon
<1>6. CASE phase = "defaults"
  <2>1. Finished
    BY <1>3, <1>4, <1>6, DefaultTurn, Zenon
  <2> QED
    BY <1>0, <1>1, <2>1, FieldsFinish, Zenon
<1> QED
  BY <1>5, <1>6

\* The letter that a field of each kind begins with.
LEMMA FieldsLetters ==
  ASSUME HasFields(call), NEW k \in 1..Len(call.specs)
  PROVE  /\ call.at[k] \in Nat \ {0} /\ k \in Nat \ {0} /\ k + 1 \in 1..Len(call.specs) + 1 /\ (k + 1) - 1 = k
         /\ call.specs[k] \in {"d", "q", "I"}
         /\ call.specs[k] = "d" => Ch(format, call.at[k]) = "d" /\ call.at[k + 1] = call.at[k] + 1
         /\ call.specs[k] = "q" => /\ Ch(format, call.at[k]) = "{" /\ Ch(format, call.at[k] + 1) = "d"
                                   /\ Ch(format, call.at[k] + 2) = "}" /\ call.at[k + 1] = call.at[k] + 3
         /\ call.specs[k] = "I" => /\ Ch(format, call.at[k]) = "I" /\ Seven(format, call.at[k] + 1)
                                   /\ Ch(format, call.at[k] + 3) = ")" /\ call.at[k + 1] = call.at[k] + 4
<1>1. Len(call.specs) \in Nat /\ call.specs[k] \in {"d", "q", "I"}
  BY FieldsSpecs
<1>2. k \in 1..Len(call.specs) + 1 /\ k \in Nat \ {0} /\ k + 1 \in 1..Len(call.specs) + 1 /\ (k + 1) - 1 = k
  BY <1>1
<1>3. call.at[k] \in Nat \ {0}
  <2>1. call.at[k] \in Nat /\ call.at[k] >= 5
    BY <1>2, FieldsPlaces
  <2> QED
    BY <2>1
<1> DEFINE p == call.at[k]
<1>4. /\ call.specs[k] = "d" => Ch(format, p) = "d" /\ call.at[k + 1] = p + 1
      /\ call.specs[k] = "q" => /\ Ch(format, p) = "{" /\ Ch(format, p + 1) = "d" /\ Ch(format, p + 2) = "}"
                                /\ call.at[k + 1] = p + 3
      /\ call.specs[k] = "I" => /\ Ch(format, p) = "I" /\ Ch(format, p + 1) = "("
                                /\ Ch(format, p + 2) = "7" /\ Ch(format, p + 3) = ")"
                                /\ call.at[k + 1] = p + 4
  BY <1>3, FieldsFormats, Zenon DEF format
<1>5. (p + 1) + 1 = p + 2 /\ (p + 1) + 2 = p + 3
  BY <1>3
<1> QED
  BY <1>1, <1>2, <1>3, <1>4, <1>5, Zenon DEF Seven

\* A field at which there is input.
LEMMA FieldsText1 ==
  ASSUME HasFields(call), s \in 1..Len(call.text) + 1, NEW k \in Nat \ {0}, Begins(call.text, s, k),
         Ch(string, s) # NUL
  PROVE  /\ s \in 1..Len(call.text) /\ Ch(string, s) = call.text[s] /\ string = call.text
         /\ \A sp \in {"d", "I"}, spec \in {"d", "q", "I"} :
              (call.text[s] \in Commas => spec # "I") => ReadAs(Do(sp, Commas, call.text, s), call.text, k, spec)
<1>1. s \in 1..Len(call.text) /\ Ch(string, s) = call.text[s] /\ string = call.text
  BY FieldsInput
<1>2. Signless(call.text)
  BY FieldsText
<1>3. PICK S : call.text \in Seq(S)
  BY FieldsText
<1> SUFFICES ASSUME NEW sp \in {"d", "I"}, NEW spec \in {"d", "q", "I"}, call.text[s] \in Commas => spec # "I"
             PROVE  ReadAs(Do(sp, Commas, call.text, s), call.text, k, spec)
  BY <1>1
<1> QED
  BY <1>1, <1>2, <1>3, NumberStep

\* A field that is not there.
LEMMA NoneThere ==
  ASSUME HasFields(call), NEW k \in 1..Len(call.specs), Begins(call.text, Len(call.text) + 1, k)
  PROVE  /\ Of(call, k).ok <=> call.specs[k] = "I"
         /\ Of(call, k).v = DefaultNumber
         /\ Begins(call.text, Len(call.text) + 1, k + 1)
<1> DEFINE spec == call.specs[k]
           t == call.text
<1>1. Len(t) \in Nat /\ k \in Nat \ {0}
  BY FieldsText, FieldsLetters
<1> HIDE DEF spec, t
<1>2. FieldOf(spec, t, k) = [ok |-> spec = "I", v |-> DefaultNumber]
  BY <1>1, NoFieldOf DEF t
<1>3. FieldOf(spec, t, k).v = DefaultNumber /\ (FieldOf(spec, t, k).ok <=> spec = "I")
  <2> DEFINE x == FieldOf(spec, t, k)
             b == spec = "I"
  <2>1. x = [ok |-> b, v |-> DefaultNumber]
    BY <1>2
  <2> HIDE DEF x, b
  <2>2. x.ok = b /\ x.v = DefaultNumber
    BY <2>1
  <2> QED
    BY <2>2, Zenon DEF x, b
<1>4. Begins(t, Len(t) + 1, k + 1)
  BY <1>1, NextAtEnd DEF t
<1> QED
  BY <1>3, <1>4, Zenon DEF Of, spec, t

\* At a required field.
LEMMA AtRequired ==
  ASSUME HasFields(call), call' = call, phase \in {"main", "defaults"}, AmongFields, Work,
         \E T : saved \in Seq(T), NEW k \in 1..Len(call.specs), AtField(k), call.specs[k] = "d",
         phase = "main" => delim = Commas
  PROVE  FieldsTurned
<1> DEFINE t == call.text
           n == Len(t)
<1>1. /\ k \in Nat \ {0} /\ Letter = "d" /\ call.at[k + 1] = f + 1
      /\ f = call.at[k] /\ doSave /\ Done(call, saved, k - 1) /\ Begins(t, s, k)
      /\ s \in 1..n + 1 /\ n \in Nat /\ f \in Nat
  <2>1. f = call.at[k] /\ doSave /\ Done(call, saved, k - 1) /\ Begins(t, s, k) /\ s \in 1..n + 1
    BY Zenon DEF AtField, AmongFields
  <2>2. k \in Nat \ {0} /\ call.at[k] \in Nat /\ Ch(format, call.at[k]) = "d" /\ call.at[k + 1] = call.at[k] + 1
    BY FieldsLetters
  <2>3. n \in Nat
    BY FieldsText
  <2> QED
    BY <2>1, <2>2, <2>3, Zenon DEF Letter
<1>2. Letter \in LettersUsed /\ Letter \notin Quieters /\ Letter \notin {"I", "p", "s", "A", "E", ")", NUL}
  BY <1>1, Zenon DEF LettersUsed, Quieters, NUL
<1>3. CASE phase = "main"
  <2>1. InputEnds \/ (More /\ Ch(string, s) # NUL /\ Required)
    BY <1>2, <1>3, MainTurn, Zenon
  <2>2. ASSUME More, Ch(string, s) # NUL, Required PROVE FieldsTurned
    <3> DEFINE r == Do("d", Commas, t, s)
    <3>1. s \in 1..n /\ string = t /\ ReadAs(r, t, k, "d")
      <4>1. "d" \in {"d", "I"} /\ "d" \in {"d", "q", "I"} /\ (t[s] \in Commas => "d" # "I")
        OBVIOUS
      <4> QED
        BY <1>1, <2>2, <4>1, FieldsText1
    <3>2. IF r.ok THEN Read(r.v, f + 1, r.p) ELSE Return("FAIL")
      <4>1. \E x \in {Do(Letter, delim, string, s)} : IF x.ok THEN Read(x.v, f + 1, x.p) ELSE Return("FAIL")
        BY <2>2, Zenon DEF Required
      <4>2. Do(Letter, delim, string, s) = r
        BY <1>1, <1>3, <3>1, Zenon
      <4> HIDE DEF r
      <4> QED
        BY <4>1, <4>2, Zenon
    <3> HIDE DEF r
    <3>3. Len(saved) < call.params
      BY <1>1, <2>2, MoreToFill
    <3>4. r.ok = Of(call, k).ok /\ (r.ok => r.v = Of(call, k).v)
      BY <3>1, Zenon DEF ReadAs, Of
    <3>5. CASE r.ok
      <4>1. Of(call, k).ok
        BY <3>4, <3>5, Zenon
      <4>2. Ready(SkipOneSpacer(Commas, t, r.p), k + 1)
        BY <3>1, <3>5, Zenon DEF ReadAs, Ready
      <4>3. Read(r.v, f + 1, r.p) /\ r.v = Of(call, k).v
        BY <3>2, <3>4, <3>5, Zenon
      <4>4. call.specs[k] # "q" /\ phase # "defaults" /\ f + 1 = call.at[k + 1]
        BY <1>1, <1>3
      <4> QED
        BY <4>1, <4>2, <4>3, <4>4, FieldSaved
    <3>6. CASE ~r.ok
      <4>1. ~Of(call, k).ok
        BY <3>4, <3>6, Zenon
      <4>2. Return("FAIL")
        BY <3>2, <3>6, Zenon
      <4> QED
        BY <1>1, <3>3, <4>1, <4>2, FieldsFail
    <3> QED
      BY <3>5, <3>6
  <2> QED
    BY <2>1, <2>2, FieldsInputEnds, Zenon
<1>4. CASE phase = "defaults"
  <2>1. Finished \/ (More /\ Missing)
    BY <1>2, <1>4, DefaultTurn, Zenon
  <2>2. ASSUME Finished PROVE FieldsTurned
    <3>1. k - 1 \in 0..Len(call.specs)
      BY FieldsSpecs
    <3> QED
      BY <1>1, <2>2, <3>1, FieldsFinish
  <2>3. ASSUME More, Missing PROVE FieldsTurned
    <3>1. Return("FAIL")
      BY <2>3, Zenon DEF Missing
    <3>2. s = n + 1
      BY <1>4, <2>3, Zenon DEF AmongFields
    <3>3. Of(call, k).ok <=> call.specs[k] = "I"
      BY <1>1, <3>2, NoneThere
    <3>4. ~Of(call, k).ok
      BY <3>3
    <3>5. Len(saved) < call.params
      BY <1>1, <2>3, MoreToFill
    <3> QED
      BY <1>1, <3>1, <3>4, <3>5, FieldsFail
  <2> QED
    BY <2>1, <2>2, <2>3, Zenon
<1> QED
  BY <1>3, <1>4

\* At an optional field.
LEMMA AtOptional ==
  ASSUME HasFields(call), call' = call, phase \in {"main", "defaults"}, AmongFields, Work,
         \E T : saved \in Seq(T), NEW k \in 1..Len(call.specs), AtField(k), call.specs[k] = "I",
         phase = "main" => delim = Commas
  PROVE  FieldsTurned
<1> DEFINE t == call.text
           n == Len(t)
<1>1. /\ k \in Nat \ {0} /\ Letter = "I" /\ call.at[k + 1] = f + 4 /\ Seven(format, f + 1)
      /\ f = call.at[k] /\ doSave /\ Done(call, saved, k - 1) /\ Begins(t, s, k)
      /\ s \in 1..n + 1 /\ n \in Nat /\ f \in Nat
  <2>1. f = call.at[k] /\ doSave /\ Done(call, saved, k - 1) /\ Begins(t, s, k) /\ s \in 1..n + 1
    BY Zenon DEF AtField, AmongFields
  <2>2. /\ k \in Nat \ {0} /\ call.at[k] \in Nat /\ Ch(format, call.at[k]) = "I" /\ call.at[k + 1] = call.at[k] + 4
        /\ Seven(format, call.at[k] + 1)
    BY FieldsLetters
  <2>3. n \in Nat
    BY FieldsText
  <2> QED
    BY <2>1, <2>2, <2>3, Zenon DEF Letter
<1>2. Letter \in LettersUsed /\ Letter \notin Quieters /\ Letter \notin {"d", "p", "s", "A", "E", ")", NUL}
  BY <1>1, Zenon DEF LettersUsed, Quieters, NUL
<1>11. f \in Nat /\ Seven(format, f + 1)
  BY <1>1, Zenon
<1>3. /\ \A d : ")" \notin d => DoDefault("I", d, format, f + 1) = [v |-> DefaultNumber, p |-> f + 3]
      /\ \A d : ")" \in d => DoDefault("I", d, format, f + 1) = [v |-> DefaultNumber, p |-> f + 4]
      /\ SkipDefault(format, f + 1) = f + 4
  <2>1. PICK S : format \in Seq(S)
    BY FieldsBegin DEF format
  <2>2. f + 1 \in Nat \ {0} /\ (f + 1) + 2 = f + 3 /\ (f + 1) + 3 = f + 4
    BY <1>11
  <2> HIDE DEF DoDefault, SkipDefault
  <2>3. ASSUME NEW d
        PROVE  /\ DoDefault("I", d, format, f + 1) = [v |-> DefaultNumber, p |-> PastSeven(d, f + 1)]
               /\ SkipDefault(format, f + 1) = (f + 1) + 3
    BY <1>11, <2>1, <2>2, DefaultSeven, Zenon
  <2> QED
    BY <2>2, <2>3, Zenon DEF PastSeven
<1>4. CASE phase = "main"
  <2>1. InputEnds \/ (More /\ Ch(string, s) # NUL /\ Optional)
    BY <1>2, <1>4, MainTurn, Zenon
  <2>2. ASSUME More, Ch(string, s) # NUL, Optional PROVE FieldsTurned
    <3>1. /\ s \in 1..n /\ string = t /\ Ch(string, s) = t[s]
          /\ t[s] \notin Commas => ReadAs(Do("I", Commas, t, s), t, k, "I")
      BY <1>1, <2>2, FieldsText1
    <3>2. Len(saved) < call.params
      BY <1>1, <2>2, MoreToFill
    <3>3. Absent <=> t[s] \in Commas
      BY <1>4, <3>1, Zenon DEF Absent, IsDelimiter
    <3>4. CASE t[s] \in Commas
      <4>1. Read(DefaultNumber, f + 3, s)
        <5> DEFINE r == DoDefault("I", Commas, format, f + 1)
        <5>1. \E x \in {r} : Read(x.v, x.p, s)
          BY <1>1, <1>4, <2>2, <3>3, <3>4, Zenon DEF Optional
        <5>2. r.v = DefaultNumber /\ r.p = f + 3
          <6>1. ")" \notin Commas
            BY Zenon DEF Commas
          <6>2. r = [v |-> DefaultNumber, p |-> f + 3]
            BY <1>3, <6>1, Zenon
          <6> HIDE DEF r
          <6> QED
            BY <6>2
        <5> HIDE DEF r
        <5> QED
          BY <5>1, <5>2, Zenon
      <4>2. Ready(SkipOneSpacer(Commas, t, s), k + 1)
        <5>1. PICK S : t \in Seq(S)
          BY FieldsText
        <5>2. Signless(t)
          BY FieldsText
        <5> QED
          BY <1>1, <3>1, <3>4, <5>1, <5>2, NextIfAbsent DEF Ready
      <4>3. Of(call, k).ok /\ Of(call, k).v = DefaultNumber
        <5> DEFINE x == FieldOf("I", t, k)
        <5>1. x = [ok |-> TRUE, v |-> DefaultNumber]
          BY <1>1, <3>1, <3>4, EmptyFieldOf
        <5> HIDE DEF x
        <5>2. x.ok /\ x.v = DefaultNumber
          BY <5>1
        <5> QED
          BY <5>2, Zenon DEF Of, x
      <4>4. call.specs[k] # "q" /\ phase # "defaults" /\ f + 3 = call.at[k] + 3
        BY <1>1, <1>4
      <4> QED
        BY <4>1, <4>2, <4>3, <4>4, FieldSaved
    <3>5. CASE t[s] \notin Commas
      <4> DEFINE r == Do("I", Commas, t, s)
      <4>1. ReadAs(r, t, k, "I")
        BY <3>1, <3>5
      <4>2. IF r.ok THEN Read(r.v, f + 4, r.p) ELSE Return("FAIL")
        <5>1. \E x \in {Do(Letter, delim, string, s)} :
                IF x.ok THEN Read(x.v, SkipDefault(format, f + 1), x.p) ELSE Return("FAIL")
          BY <2>2, <3>3, <3>5, Zenon DEF Optional
        <5>2. Do(Letter, delim, string, s) = r
          BY <1>1, <1>4, <3>1, Zenon
        <5> HIDE DEF r
        <5> QED
          BY <1>3, <5>1, <5>2, Zenon
      <4> HIDE DEF r
      <4>3. r.ok = Of(call, k).ok /\ (r.ok => r.v = Of(call, k).v)
        BY <4>1, Zenon DEF ReadAs, Of
      <4>4. CASE r.ok
        <5>1. Of(call, k).ok /\ r.v = Of(call, k).v /\ Read(r.v, f + 4, r.p)
          BY <4>2, <4>3, <4>4, Zenon
        <5>2. Ready(SkipOneSpacer(Commas, t, r.p), k + 1)
          BY <4>1, <4>4, Zenon DEF ReadAs, Ready
        <5>3. call.specs[k] # "q" /\ phase # "defaults" /\ f + 4 = call.at[k + 1]
          BY <1>1, <1>4
        <5> QED
          BY <5>1, <5>2, <5>3, FieldSaved
      <4>5. CASE ~r.ok
        <5>1. ~Of(call, k).ok /\ Return("FAIL")
          BY <4>2, <4>3, <4>5, Zenon
        <5> QED
          BY <1>1, <3>2, <5>1, FieldsFail
      <4> QED
        BY <4>4, <4>5
    <3> QED
      BY <3>4, <3>5
  <2> QED
    BY <2>1, <2>2, FieldsInputEnds, Zenon
<1>5. CASE phase = "defaults"
  <2>1. Finished \/ (More /\ Default)
    BY <1>2, <1>5, DefaultTurn, Zenon
  <2>2. ASSUME Finished PROVE FieldsTurned
    <3>1. k - 1 \in 0..Len(call.specs)
      BY FieldsSpecs
    <3> QED
      BY <1>1, <2>2, <3>1, FieldsFinish
  <2>3. ASSUME More, Default PROVE FieldsTurned
    <3>1. delim = {")"} /\ s = n + 1
      BY <1>5, <2>3, Zenon DEF AmongFields
    <3>2. Read(DefaultNumber, f + 4, s)
      <4> DEFINE r == DoDefault("I", delim, format, f + 1)
      <4>1. \E x \in {r} : Read(x.v, x.p, s)
        BY <1>1, <2>3, Zenon DEF Default
      <4>2. r.v = DefaultNumber /\ r.p = f + 4
        <5>1. ")" \in delim
          BY <3>1
        <5>2. r = [v |-> DefaultNumber, p |-> f + 4]
          BY <1>3, <5>1, Zenon
        <5> HIDE DEF r
        <5> QED
          BY <5>2
      <4> HIDE DEF r
      <4> QED
        BY <4>1, <4>2, Zenon
    <3>3. Of(call, k).ok /\ Of(call, k).v = DefaultNumber /\ Begins(t, n + 1, k + 1)
      BY <1>1, <3>1, NoneThere
    <3>4. Ready(s, k + 1)
      BY <1>1, <3>1, <3>3, Zenon DEF Ready
    <3>5. call.specs[k] # "q" /\ phase # "main" /\ f + 4 = call.at[k + 1]
      BY <1>1, <1>5
    <3> QED
      BY <3>1, <3>2, <3>3, <3>4, <3>5, FieldSaved
  <2> QED
    BY <2>1, <2>2, <2>3, Zenon
<1> QED
  BY <1>4, <1>5

\* What is left as it was of where a call is.
LEMMA FieldsKept ==
  ASSUME HasFields(call), call' = call, phase \in {"main", "defaults"}, AmongFields,
         UNCHANGED <<phase, s, delim>>, phase = "defaults" => s = Len(call.text) + 1,
         phase = "main" => delim = Commas,
         \/ \E k \in 1..Len(call.specs) + 1 : AtField(k)'
         \/ \E k \in 1..Len(call.specs) : InQuiet(k)' \/ PastQuiet(k)' \/ AtClose(k)'
  PROVE  FieldsTurned
<1>1. /\ s' \in 1..Len(call'.text) + 1
      /\ phase' = "defaults" => delim' = {")"} /\ s' = Len(call'.text) + 1
      /\ phase' = "main" => delim' = Commas
      /\ phase' \in {"main", "defaults"}
  BY DEF AmongFields
<1> QED
  BY <1>1, Zenon DEF FieldsTurned, AmongFields

\* With more to do in the defaults, there is no more input.
LEMMA FieldsOver ==
  ASSUME HasFields(call), AmongFields, phase = "defaults", More
  PROVE  s = Len(call.text) + 1
BY Zenon DEF AmongFields

\* At a field that is not saved: its quiet section opens.
LEMMA AtQuiet ==
  ASSUME HasFields(call), call' = call, phase \in {"main", "defaults"}, AmongFields, Work,
         NEW k \in 1..Len(call.specs), AtField(k), call.specs[k] = "q",
         phase = "main" => delim = Commas
  PROVE  FieldsTurned
<1>1. /\ Letter = "{" /\ f = call.at[k] /\ doSave /\ Done(call, saved, k - 1) /\ Begins(call.text, s, k)
  BY FieldsLetters, Zenon DEF AtField, Letter
<1>2. Letter \in LettersUsed /\ Letter \in Quieters /\ Letter \notin {"d", "I", "p", "s", "A", "E", ")", NUL} /\ Letter # "}"
  BY <1>1, Zenon DEF LettersUsed, Quieters, NUL
<1>3. ASSUME More, QuietSection, phase = "defaults" => s = Len(call.text) + 1 PROVE FieldsTurned
  <2>1. ~doSave' /\ f' = f + 1 /\ UNCHANGED <<phase, s, saved, delim>>
    BY <1>2, <1>3, Zenon DEF QuietSection
  <2>2. Len(saved) < call.params
    BY <1>1, <1>3, MoreToFill
  <2> HIDE DEF QuietSection
  <2>3. call'.specs[k] = "q" /\ f' = call'.at[k] + 1 /\ Done(call', saved', k - 1) /\ Len(saved') < call'.params
        /\ Begins(call'.text, s', k)
    BY <1>1, <2>1, <2>2, Zenon
  <2>4. InQuiet(k)'
    BY <2>1, <2>3, Zenon DEF InQuiet
  <2> QED
    BY <1>3, <2>1, <2>4, FieldsKept, Zenon
<1>4. CASE phase = "main"
  <2>1. InputEnds \/ (More /\ QuietSection)
    BY <1>2, <1>4, MainTurn, Zenon
  <2>2. phase # "defaults"
    BY <1>4
  <2> QED
    BY <1>3, <2>1, <2>2, FieldsInputEnds, Zenon
<1>5. CASE phase = "defaults"
  <2>1. Finished \/ (More /\ QuietSection)
    BY <1>2, <1>5, DefaultTurn, Zenon
  <2>2. k - 1 \in 0..Len(call.specs)
    BY FieldsSpecs
  <2> QED
    BY <1>1, <1>3, <1>5, <2>1, <2>2, FieldsFinish, FieldsOver, Zenon
<1> QED
  BY <1>4, <1>5

\* In it, the field is read and not saved.
LEMMA WithinQuiet ==
  ASSUME HasFields(call), call' = call, phase \in {"main", "defaults"}, AmongFields, Work,
         NEW k \in 1..Len(call.specs), InQuiet(k), phase = "main" => delim = Commas
  PROVE  FieldsTurned
<1> DEFINE t == call.text
           n == Len(t)
<1>1. /\ f = call.at[k] + 1 /\ ~doSave /\ Done(call, saved, k - 1) /\ Begins(t, s, k) /\ call.specs[k] = "q"
      /\ s \in 1..n + 1 /\ Len(saved) < call.params
  BY Zenon DEF InQuiet, AmongFields
<1>2. Letter = "d" /\ k \in Nat \ {0} /\ call.at[k] \in Nat
  BY <1>1, FieldsLetters, Zenon DEF Letter
<1>3. Letter \in LettersUsed /\ Letter \notin Quieters /\ Letter \notin {"I", "p", "s", "A", "E", ")", NUL}
  BY <1>2, Zenon DEF LettersUsed, Quieters, NUL
<1>4. More
  BY <1>1, Zenon DEF More
<1>5. CASE phase = "main"
  <2>1. InputEnds \/ (Ch(string, s) # NUL /\ Required)
    BY <1>3, <1>5, MainTurn, Zenon
  <2>2. ASSUME Ch(string, s) # NUL, Required PROVE FieldsTurned
    <3> DEFINE r == Do("d", Commas, t, s)
    <3>1. s \in 1..n /\ string = t /\ ReadAs(r, t, k, "q")
      <4>1. "d" \in {"d", "I"} /\ "q" \in {"d", "q", "I"} /\ (t[s] \in Commas => "q" # "I")
        OBVIOUS
      <4> QED
        BY <1>1, <1>2, <2>2, <4>1, FieldsText1
    <3>2. IF r.ok THEN Read(r.v, f + 1, r.p) ELSE Return("FAIL")
      <4>1. \E x \in {Do(Letter, delim, string, s)} : IF x.ok THEN Read(x.v, f + 1, x.p) ELSE Return("FAIL")
        BY <2>2, Zenon DEF Required
      <4>2. Do(Letter, delim, string, s) = r
        BY <1>2, <1>5, <3>1, Zenon
      <4> HIDE DEF r
      <4> QED
        BY <4>1, <4>2, Zenon
    <3> HIDE DEF r
    <3>3. r.ok = Of(call, k).ok
      BY <1>1, <3>1, Zenon DEF ReadAs, Of
    <3>4. CASE r.ok
      <4> DEFINE e == SkipOneSpacer(Commas, t, r.p)
      <4>1. e \in 1..n + 1 /\ Begins(t, e, k + 1)
        BY <3>1, <3>4, Zenon DEF ReadAs
      <4>2. /\ phase' = phase /\ doSave' = doSave /\ delim' = delim /\ f' = f + 1
            /\ saved' = saved
            /\ s' = SkipOneSpacer(delim', string, r.p)
        BY <1>1, <1>5, <3>2, <3>4, Zenon DEF Read, Save, Move
      <4>3. s' = e
        BY <1>5, <3>1, <4>2, Zenon
      <4> HIDE DEF e
      <4>4. f' = call.at[k] + 2
        BY <1>1, <1>2, <4>2
      <4>5. Of(call, k).ok
        BY <3>3, <3>4, Zenon
      <4>6. PastQuiet(k)'
        BY <1>1, <4>1, <4>2, <4>3, <4>4, <4>5, Zenon DEF PastQuiet
      <4>7. /\ s' \in 1..Len(call'.text) + 1 /\ delim' = Commas /\ phase' = "main"
        BY <1>5, <4>1, <4>2, <4>3, Zenon
      <4>8. phase' # "defaults" /\ phase' \in {"main", "defaults"}
        BY <4>7
      <4>9. \E j \in 1..Len(call'.specs) : InQuiet(j)' \/ PastQuiet(j)' \/ AtClose(j)'
        BY <4>6, Zenon
      <4> QED
        BY <4>7, <4>8, <4>9, Zenon DEF FieldsTurned, AmongFields
    <3>5. CASE ~r.ok
      <4>1. ~Of(call, k).ok /\ Return("FAIL")
        BY <3>2, <3>3, <3>5, Zenon
      <4> QED
        BY <1>1, <4>1, FieldsFail
    <3> QED
      BY <3>4, <3>5
  <2> QED
    BY <2>1, <2>2, FieldsInputEnds, Zenon
<1>6. CASE phase = "defaults"
  <2>1. Finished \/ Missing
    BY <1>3, <1>6, DefaultTurn, Zenon
  <2>2. Return("FAIL")
    BY <1>4, <2>1, Zenon DEF Missing, Finished
  <2>3. s = n + 1
    BY <1>4, <1>6, FieldsOver
  <2>4. ~Of(call, k).ok
    <3>1. Of(call, k).ok <=> call.specs[k] = "I"
      BY <1>1, <2>3, NoneThere
    <3> QED
      BY <1>1, <3>1
  <2> QED
    BY <1>1, <2>2, <2>4, FieldsFail
<1> QED
  BY <1>5, <1>6

\* Behind it, its quiet section closes.
LEMMA BehindQuiet ==
  ASSUME HasFields(call), call' = call, phase \in {"main", "defaults"}, AmongFields, Work,
         NEW k \in 1..Len(call.specs), PastQuiet(k), phase = "main" => delim = Commas
  PROVE  FieldsTurned
<1>1. /\ f = call.at[k] + 2 /\ ~doSave /\ Done(call, saved, k - 1) /\ Begins(call.text, s, k + 1)
      /\ call.specs[k] = "q" /\ Of(call, k).ok
  BY Zenon DEF PastQuiet
<1>2. Letter = "}" /\ call.at[k] \in Nat /\ call.at[k + 1] = call.at[k] + 3
      /\ k + 1 \in 1..Len(call.specs) + 1 /\ (k + 1) - 1 = k
  BY <1>1, FieldsLetters, Zenon DEF Letter
<1>3. Letter \in LettersUsed /\ Letter \in Quieters /\ Letter \notin {"d", "I", "p", "s", "A", "E", ")", NUL}
  BY <1>2, Zenon DEF LettersUsed, Quieters, NUL
<1>4. More
  BY <1>1, Zenon DEF More
<1>5. InputEnds \/ QuietSection
  BY <1>3, <1>4, MainTurn, DefaultTurn, Zenon DEF Finished
<1>6. ASSUME QuietSection PROVE FieldsTurned
  <2>1. doSave' /\ f' = f + 1 /\ UNCHANGED <<phase, s, saved, delim>>
    BY <1>2, <1>6, Zenon DEF QuietSection
  <2>2. f' = call.at[k + 1]
    <3>1. (call.at[k] + 2) + 1 = call.at[k] + 3
      <4> DEFINE p == call.at[k]
      <4>1. p \in Nat
        BY <1>2, Zenon
      <4> HIDE DEF p
      <4>2. (p + 2) + 1 = p + 3
        BY <4>1
      <4> QED
        BY <4>2, Zenon DEF p
    <3> QED
      BY <1>1, <1>2, <2>1, <3>1, Zenon
  <2>3. Done(call, saved, k)
    BY <1>1, DoneNotSaved
  <2>4. AtField(k + 1)'
    BY <1>1, <1>2, <2>1, <2>2, <2>3, Zenon DEF AtField
  <2>5. phase = "defaults" => s = Len(call.text) + 1
    BY <1>4, FieldsOver
  <2>6. \E j \in 1..Len(call.specs) + 1 : AtField(j)'
    BY <1>2, <2>4, Zenon
  <2> QED
    BY <2>1, <2>5, <2>6, FieldsKept, Zenon
<1> QED
  BY <1>5, <1>6, FieldsInputEnds, Zenon

\* And the closing bracket of a default is passed over.
LEMMA AtBracket ==
  ASSUME HasFields(call), call' = call, phase \in {"main", "defaults"}, AmongFields, Work,
         NEW k \in 1..Len(call.specs), AtClose(k), phase = "main" => delim = Commas
  PROVE  FieldsTurned
<1>1. /\ f = call.at[k] + 3 /\ doSave /\ Done(call, saved, k) /\ Begins(call.text, s, k + 1)
      /\ call.specs[k] = "I"
  BY Zenon DEF AtClose
<1>2. Letter = ")" /\ call.at[k] \in Nat /\ call.at[k + 1] = call.at[k] + 4
      /\ k + 1 \in 1..Len(call.specs) + 1 /\ (k + 1) - 1 = k
  BY <1>1, FieldsLetters, Zenon DEF Letter
<1>3. Letter \in LettersUsed /\ Letter \notin Quieters /\ Letter \notin {"d", "I", "p", "s", "A", "E", NUL}
  BY <1>2, Zenon DEF LettersUsed, Quieters, NUL
<1>4. \/ InputEnds \/ Finished
      \/ More /\ Ignored
  BY <1>3, MainTurn, DefaultTurn, Zenon
<1>5. ASSUME More, Ignored PROVE FieldsTurned
  <2>1. f' = f + 1 /\ UNCHANGED <<phase, s, doSave, saved, delim>>
    BY <1>5, Zenon DEF Ignored, Pass
  <2>2. f' = call.at[k + 1]
    BY <1>1, <1>2, <2>1
  <2>3. AtField(k + 1)'
    BY <1>1, <1>2, <2>1, <2>2, Zenon DEF AtField
  <2>4. phase = "defaults" => s = Len(call.text) + 1
    BY <1>5, FieldsOver
  <2>5. \E j \in 1..Len(call.specs) + 1 : AtField(j)'
    BY <1>2, <2>3, Zenon
  <2> QED
    BY <2>1, <2>4, <2>5, FieldsKept, Zenon
<1>6. k \in 0..Len(call.specs)
  BY FieldsSpecs
<1> QED
  BY <1>1, <1>4, <1>5, <1>6, FieldsInputEnds, FieldsFinish, Zenon

\* A turn at any place among the fields.
LEMMA WorkTurnsFields ==
  ASSUME HasFields(call), call' = call, phase \in {"main", "defaults"}, AmongFields, Work, \E T : saved \in Seq(T)
  PROVE  FieldsTurned
<1>1. CASE f = 1 /\ doSave /\ Done(call, saved, 0) /\ Begins(call.text, s, 1)
  BY <1>1, FieldsFromStart
<1>2. ASSUME phase = "main" => delim = Commas, NEW k \in 1..Len(call.specs) + 1, AtField(k)
      PROVE  FieldsTurned
  <2>1. CASE k = Len(call.specs) + 1
    BY <1>2, <2>1, FieldsAtEnd
  <2>2. CASE k # Len(call.specs) + 1
    <3>1. k \in 1..Len(call.specs)
      <4>1. Len(call.specs) \in Nat
        BY FieldsSpecs
      <4> QED
        BY <2>2, <4>1
    <3>2. call.specs[k] = "d" \/ call.specs[k] = "q" \/ call.specs[k] = "I"
      BY <3>1, FieldsLetters
    <3>3. CASE call.specs[k] = "d"
      BY <1>2, <3>1, <3>3, AtRequired
    <3>4. CASE call.specs[k] = "q"
      BY <1>2, <3>1, <3>4, AtQuiet
    <3>5. CASE call.specs[k] = "I"
      BY <1>2, <3>1, <3>5, AtOptional
    <3> QED
      BY <3>2, <3>3, <3>4, <3>5
  <2> QED
    BY <2>1, <2>2
<1>3. ASSUME phase = "main" => delim = Commas, NEW k \in 1..Len(call.specs), InQuiet(k)
      PROVE  FieldsTurned
  BY <1>3, WithinQuiet
<1>4. ASSUME phase = "main" => delim = Commas, NEW k \in 1..Len(call.specs), PastQuiet(k)
      PROVE  FieldsTurned
  BY <1>4, BehindQuiet
<1>5. ASSUME phase = "main" => delim = Commas, NEW k \in 1..Len(call.specs), AtClose(k)
      PROVE  FieldsTurned
  BY <1>5, AtBracket
<1> QED
  BY <1>1, <1>2, <1>3, <1>4, <1>5, Zenon DEF AmongFields

\* Where a call with fields begins.
LEMMA FieldsAtCall ==
  ASSUME NEW c \in Calls, Call(c), c.kind = "fields"
  PROVE  AmongFields'
<1>1. HasFields(c)
  BY DEF HasFields
<1>2. call' = c /\ phase' = "main" /\ saved' = <<>> /\ s' = SkipWhitespace(Corrected(c.text), 1)
  BY Zenon DEF Call
<1>3. Ch(c.format, 1) = "p"
  BY <1>1, FieldsBegin, Zenon
<1>4. f' = 1 /\ doSave'
  BY <1>3, Zenon DEF Call
<1>5. s' \in 1..Len(c.text) + 1 /\ Begins(c.text, s', 1)
  <2>1. Corrected(c.text) = c.text /\ Signless(c.text)
    BY <1>1, FieldsText
  <2>2. PICK S : c.text \in Seq(S)
    BY <1>1, FieldsText
  <2> QED
    BY <1>2, <2>1, <2>2, FirstBegins, Zenon
<1>6. Done(c, <<>>, 0)
  <2>1. Place(c, 0) = 0 /\ ToSave(c) \subseteq 1..Len(c.specs)
    BY <1>1, FieldsPlaced
  <2>2. Len(<<>>) = 0
    OBVIOUS
  <2>3. \A j \in ToSave(c) : j <= 0 => FALSE
    BY <2>1
  <2>4. \A j \in 1..0 : FALSE
    OBVIOUS
  <2> QED
    BY <2>1, <2>2, <2>3, <2>4, Zenon DEF Done
<1>7. f' = 1 /\ doSave' /\ Done(call', saved', 0) /\ Begins(call'.text, s', 1)
  BY <1>2, <1>4, <1>5, <1>6, Zenon
<1>8. s' \in 1..Len(call'.text) + 1 /\ phase' # "defaults"
  BY <1>2, <1>5
<1> QED
  BY <1>7, <1>8, Zenon DEF AmongFields

(***************************************************************************)
(* Among its fields while it works, and answered right once it has ended.  *)
(***************************************************************************)
FieldsSoFar ==
  /\ phase \in {"main", "defaults"} => (call.kind = "fields" => AmongFields)
  /\ phase = "ended" => (call.kind = "fields" => FieldsAnswer(call, result, saved))

\* A step of the plugin keeps it so.
LEMMA NextKeepsFields == Bounded /\ FieldsSoFar /\ [Next]_vars => FieldsSoFar'
<1> SUFFICES ASSUME Bounded, FieldsSoFar, [Next]_vars PROVE FieldsSoFar'
  OBVIOUS
<1>1. ASSUME NEW c \in Calls, Call(c) PROVE FieldsSoFar'
  <2>1. phase' = "main" /\ call' = c
    BY <1>1 DEF Call
  <2>2. c.kind = "fields" => AmongFields'
    BY <1>1, FieldsAtCall
  <2> QED
    BY <2>1, <2>2, Zenon DEF FieldsSoFar
<1>2. CASE WorkStep
  <2>1. Work /\ call' = call
    BY <1>2, Zenon DEF WorkStep
  <2>2. phase \in {"main", "defaults"} /\ phase' \in {"main", "defaults", "ended"}
    <3>1. Saves \/ Ends
      BY <2>1, WorkSavesOrEnds
    <3> QED
      BY <3>1 DEF Saves, Ends
  <2>3. CASE call.kind # "fields"
    BY <2>1, <2>3, Zenon DEF FieldsSoFar
  <2>4. CASE call.kind = "fields"
    <3>1. HasFields(call) /\ \E T : saved \in Seq(T)
      BY <2>2, <2>4 DEF HasFields, Bounded
    <3>2. AmongFields
      BY <2>2, <2>4, Zenon DEF FieldsSoFar
    <3>3. FieldsTurned
      BY <2>1, <2>2, <3>1, <3>2, WorkTurnsFields
    <3> QED
      BY <2>1, <3>3 DEF FieldsTurned, FieldsSoFar
  <2> QED
    BY <2>3, <2>4
<1>3. CASE Returned
  BY <1>3 DEF Returned, FieldsSoFar
<1>4. CASE UNCHANGED callVars
  <2>1. /\ phase' = phase /\ call' = call /\ f' = f /\ s' = s /\ doSave' = doSave
        /\ saved' = saved /\ delim' = delim /\ result' = result
    BY <1>4 DEF callVars
  <2>2. AmongFields' <=> AmongFields
    BY <2>1 DEF AmongFields, AtField, InQuiet, PastQuiet, AtClose, More
  <2> QED
    BY <2>1, <2>2, Zenon DEF FieldsSoFar
<1>5. CASE UNCHANGED vars
  BY <1>4, <1>5 DEF vars, callVars
<1> QED
  BY <1>1, <1>2, <1>3, <1>4, <1>5, Zenon DEF Next

(***************************************************************************)
(* However many fields a text has, empty ones and missing ones, saved or   *)
(* read in a quiet section, and however few destinations: each destination *)
(* gets the number of its own field, or the default of its own specifier,  *)
(* and the call fails exactly when one that counts is no number.           *)
(***************************************************************************)
THEOREM FieldsAreReadRight == Spec => []FieldsAreRead
<1>1. Init => Bounded /\ FieldsSoFar
  BY EmptyIsASeq DEF Init, Bounded, NeverPastTheDestinations, FieldsSoFar
<1>2. Bounded /\ [Next]_vars => Bounded'
  BY NextKeepsBounded
<1>3. Bounded /\ FieldsSoFar /\ [Next]_vars => FieldsSoFar'
  BY NextKeepsFields
<1>4. FieldsSoFar => FieldsAreRead
  BY FieldsAnswered, Zenon DEF FieldsSoFar
<1> QED
  BY <1>1, <1>2, <1>3, <1>4, PTL DEF Spec
===================================================================================
