----------------------------- MODULE SessionProofs -----------------------------
(***************************************************************************)
(* Proofs about Session, for any number of slots, names and queries.       *)
(***************************************************************************)
EXTENDS Session, TLAPS

-----------------------------------------------------------------------------
(* Types.                                                                  *)

\* What is added to the queue and what is taken from it.
LEMMA QueueFacts ==
  ASSUME NEW Q \in Seq(QueryRecords)
  PROVE  /\ \A q \in QueryRecords :
              /\ Append(Q, q) \in Seq(QueryRecords)
              /\ Len(Append(Q, q)) = Len(Q) + 1
              /\ Append(Q, q)[Len(Q) + 1] = q
              /\ \A i \in 1 .. Len(Q) : Append(Q, q)[i] = Q[i]
         /\ Q # <<>> =>
              /\ Head(Q) \in QueryRecords /\ Head(Q) = Q[1]
              /\ Tail(Q) \in Seq(QueryRecords)
              /\ Len(Q) > 0 /\ Len(Tail(Q)) = Len(Q) - 1
              /\ \A i \in 1 .. Len(Q) - 1 : Tail(Q)[i] = Q[i + 1]
OBVIOUS

LEMMA QueryTyping ==
  ASSUME NEW k \in QueryKinds, NEW s \in Slots, NEW n \in Names
  PROVE  /\ Query(k, s, n) \in QueryRecords
         /\ Query(k, s, n).kind = k /\ Query(k, s, n).slot = s /\ Query(k, s, n).name = n
BY DEF Query, QueryRecords

\* The dialogs the actions show are dialogs.
LEMMA DialogTyping ==
  /\ {"none", "login", "registered", "welcome"} \subseteq Dialogs
  /\ \A m \in Moves : m[2] \in Dialogs
<1>1. /\ <<"login", "help">> \in Moves /\ <<"registered", "none">> \in Moves
      /\ <<"welcome", "email">> \in Moves
  BY DEF Moves
<1>2. {"none", "login", "registered", "welcome"} \subseteq Dialogs
  BY <1>1 DEF Dialogs
<1>3. /\ <<"help", "none">> \in Moves /\ <<"email", "none">> \in Moves
      /\ <<"repeatEmail", "email">> \in Moves /\ <<"invalidEmail", "email">> \in Moves
      /\ <<"otherEmail", "email">> \in Moves /\ <<"password", "email">> \in Moves
      /\ <<"repeatPassword", "password">> \in Moves
      /\ <<"otherPassword", "password">> \in Moves
      /\ <<"confirm", "repeatPassword">> \in Moves
  BY DEF Moves
<1>4. {"help", "email", "repeatEmail", "invalidEmail", "otherEmail", "password",
       "repeatPassword", "otherPassword", "confirm"} \subseteq Dialogs
  BY <1>3 DEF Dialogs
<1>5. ASSUME NEW m \in Moves PROVE m[2] \in Dialogs
  BY <1>2, <1>4 DEF Moves
<1> QED
  BY <1>2, <1>5

LEMMA InitTyping == Init => TypeOK
<1> SUFFICES ASSUME Init PROVE TypeOK
  OBVIOUS
<1>1. Present = {}
  BY DEF Init, Present
<1>2. queries \in Seq(QueryRecords)
  BY DEF Init
<1> QED
  BY <1>1, <1>2, DialogTyping DEF Init, TypeOK

LEMMA TypingStep == TypeOK /\ [Next]_vars => TypeOK'
<1> SUFFICES ASSUME TypeOK, [Next]_vars PROVE TypeOK'
  OBVIOUS
<1> USE NoNameAssumption
<1>1. CASE Answer
  <2> DEFINE q == Head(queries)
  <2>1. q \in QueryRecords /\ Tail(queries) \in Seq(QueryRecords)
    BY <1>1, QueueFacts DEF Answer, TypeOK
  <2>2. q.slot \in Slots /\ q.name \in Names
    BY <2>1 DEF QueryRecords
  <2>3. queries' \in Seq(QueryRecords) /\ Present' = Present /\ UNCHANGED occupant
    BY <1>1, <2>1 DEF Answer, Present
  <2>4. CASE OnAccountDataReceived(q)
    BY <2>2, <2>3, <2>4 DEF OnAccountDataReceived, TypeOK
  <2>5. CASE OnRegisterComplete(q)
    <3>1. dialog' \in [Slots -> Dialogs] /\ \A s \in Slots \ Present : dialog'[s] = "none"
      BY <2>2, <2>5, DialogTyping DEF OnRegisterComplete, TypeOK
    <3> QED
      BY <2>2, <2>3, <2>5, <3>1 DEF OnRegisterComplete, TypeOK
  <2>6. CASE InsertFails
    BY <2>3, <2>6 DEF InsertFails, flags, TypeOK
  <2> QED
    BY <1>1, <2>4, <2>5, <2>6 DEF Answer
<1>2. CASE RestartGameMode
  <2>1. Present' = {} /\ Unanswered \subseteq Names
    BY <1>2 DEF RestartGameMode, Present, Unanswered
  <2>2. queries' \in Seq(QueryRecords)
    BY <1>2 DEF RestartGameMode
  <2> QED
    BY <1>2, <2>1, <2>2, DialogTyping DEF RestartGameMode, TypeOK
<1>3. ASSUME NEW s \in Slots, NEW n \in Names, PlayerConnect(s, n) PROVE TypeOK'
  <2>1. queries' \in Seq(QueryRecords)
    BY <1>3, QueueFacts, QueryTyping DEF PlayerConnect, Ask, QueryKinds, TypeOK
  <2>2. Present' = Present \cup {s}
    BY <1>3 DEF PlayerConnect, Present, TypeOK
  <2>3. \A t, u \in Present' : t # u => occupant'[t] # occupant'[u]
    BY <1>3, <2>2 DEF PlayerConnect, Present, TypeOK
  <2> QED
    BY <1>3, <2>1, <2>2, <2>3 DEF PlayerConnect, TypeOK
<1>4. ASSUME NEW s \in Slots, PlayerDisconnect(s) PROVE TypeOK'
  <2>1. Present' = Present \ {s}
    BY <1>4 DEF PlayerDisconnect, Present, TypeOK
  <2> QED
    BY <1>4, <2>1, DialogTyping DEF PlayerDisconnect, flags, TypeOK
<1>5. ASSUME NEW s \in Slots, OnPlayerSpawn(s) PROVE TypeOK'
  <2>1. Present' = Present /\ s \in Present
    BY <1>5 DEF OnPlayerSpawn, Present
  <2> QED
    BY <1>5, <2>1, DialogTyping DEF OnPlayerSpawn, flags, TypeOK
<1>6. ASSUME NEW s \in Slots, Respond(s) \/ Register(s) \/ ConfirmRegistration(s) \/ Login(s)
      PROVE TypeOK'
  <2>1. Present' = Present
    BY <1>6 DEF Respond, Register, ConfirmRegistration, Login, Present
  <2>2. s \in Present
    <3>1. CASE Register(s)
      BY <3>1 DEF Register
    <3>2. CASE Respond(s) \/ ConfirmRegistration(s) \/ Login(s)
      <4>1. \A m \in Moves : m[1] # "none"
        BY DEF Moves
      <4>2. dialog[s] # "none"
        BY <3>2, <4>1 DEF Respond, ConfirmRegistration, Login
      <4> QED
        BY <4>2 DEF TypeOK
    <3> QED
      BY <1>6, <3>1, <3>2
  <2>3. queries' \in Seq(QueryRecords)
    <3>1. CASE ConfirmRegistration(s)
      <4>1. occupant[s] \in Names
        BY <2>2 DEF Present, TypeOK
      <4> QED
        BY <3>1, <4>1, QueueFacts, QueryTyping DEF ConfirmRegistration, Ask, QueryKinds, TypeOK
    <3>2. CASE UNCHANGED queries
      BY <3>2 DEF TypeOK
    <3> QED
      BY <1>6, <3>1, <3>2 DEF Respond, Register, Login
  <2>4. /\ dialog' \in [Slots -> Dialogs]
        /\ \A t \in Slots \ Present : dialog'[t] = "none"
    BY <1>6, <2>2, DialogTyping DEF Respond, Register, ConfirmRegistration, Login, TypeOK
  <2>5. bPlayerLoggedIn' \in [Slots -> BOOLEAN]
    <3>1. CASE Login(s)
      BY <3>1 DEF Login, TypeOK
    <3>2. CASE UNCHANGED bPlayerLoggedIn
      BY <3>2 DEF TypeOK
    <3> QED
      BY <1>6, <3>1, <3>2 DEF Respond, Register, ConfirmRegistration, flags
  <2>6. UNCHANGED <<occupant, isPlayerRegistered, userData, accounts>>
    BY <1>6 DEF Respond, Register, ConfirmRegistration, Login, flags
  <2> QED
    BY <2>1, <2>3, <2>4, <2>5, <2>6 DEF TypeOK
<1>7. CASE UNCHANGED vars
  BY <1>7 DEF vars, flags, TypeOK, Present
<1> QED
  BY <1>1, <1>2, <1>3, <1>4, <1>5, <1>6, <1>7 DEF Next

\* Every variable keeps its type, names stay in one slot each and empty slots
\* without a dialog, for any slots, names and number of queries.
THEOREM TypeCorrect == Spec => []TypeOK
<1> QED
  BY InitTyping, TypingStep, PTL DEF Spec

-----------------------------------------------------------------------------
(* Login dialogs.                                                          *)

\* What is registered has its data, or has just been registered from here.
LoginInv ==
  \A s \in Slots : isPlayerRegistered[s] => userData[s] # NoName \/ bPlayerLoggedIn[s]

LEMMA LoginInit == Init => LoginInv /\ LoginHasAPassword
BY DEF Init, LoginInv, LoginHasAPassword

LEMMA LoginStep ==
  TypeOK /\ LoginInv /\ LoginHasAPassword /\ [Next]_vars => LoginInv' /\ LoginHasAPassword'
<1> SUFFICES ASSUME TypeOK, LoginInv, LoginHasAPassword, [Next]_vars
             PROVE  LoginInv' /\ LoginHasAPassword'
  OBVIOUS
<1> USE NoNameAssumption
<1>1. CASE Answer
  <2> DEFINE q == Head(queries)
  <2>1. q.slot \in Slots /\ q.name \in Names
    BY <1>1, QueueFacts DEF Answer, TypeOK, QueryRecords
  <2>2. CASE OnAccountDataReceived(q)
    BY <2>1, <2>2 DEF OnAccountDataReceived, TypeOK, LoginInv, LoginHasAPassword
  <2>3. CASE OnRegisterComplete(q)
    BY <2>1, <2>3 DEF OnRegisterComplete, TypeOK, LoginInv, LoginHasAPassword
  <2>4. CASE InsertFails
    BY <2>4 DEF InsertFails, flags, LoginInv, LoginHasAPassword
  <2> QED
    BY <1>1, <2>2, <2>3, <2>4 DEF Answer
<1>2. CASE RestartGameMode
  BY <1>2 DEF RestartGameMode, LoginInv, LoginHasAPassword
<1>3. ASSUME NEW s \in Slots, NEW n \in Names, PlayerConnect(s, n)
      PROVE  LoginInv' /\ LoginHasAPassword'
  <2>1. dialog[s] = "none"
    BY <1>3 DEF PlayerConnect, TypeOK
  <2> QED
    BY <1>3, <2>1 DEF PlayerConnect, TypeOK, LoginInv, LoginHasAPassword
<1>4. ASSUME NEW s \in Slots, PlayerDisconnect(s) PROVE LoginInv' /\ LoginHasAPassword'
  BY <1>4 DEF PlayerDisconnect, flags, TypeOK, LoginInv, LoginHasAPassword
<1>5. ASSUME NEW s \in Slots, OnPlayerSpawn(s) PROVE LoginInv' /\ LoginHasAPassword'
  BY <1>5 DEF OnPlayerSpawn, flags, TypeOK, LoginInv, LoginHasAPassword
<1>6. ASSUME NEW s \in Slots, Respond(s) PROVE LoginInv' /\ LoginHasAPassword'
  <2>1. \A m \in Moves : m[2] # "login"
    BY DEF Moves
  <2> QED
    BY <1>6, <2>1 DEF Respond, flags, TypeOK, LoginInv, LoginHasAPassword
<1>7. ASSUME NEW s \in Slots, Register(s) \/ ConfirmRegistration(s)
      PROVE  LoginInv' /\ LoginHasAPassword'
  BY <1>7 DEF Register, ConfirmRegistration, flags, TypeOK, LoginInv, LoginHasAPassword
<1>8. ASSUME NEW s \in Slots, Login(s) PROVE LoginInv' /\ LoginHasAPassword'
  BY <1>8 DEF Login, TypeOK, LoginInv, LoginHasAPassword
<1>9. CASE UNCHANGED vars
  BY <1>9 DEF vars, flags, LoginInv, LoginHasAPassword
<1> QED
  BY <1>1, <1>2, <1>3, <1>4, <1>5, <1>6, <1>7, <1>8, <1>9 DEF Next

\* No login dialog is ever shown over data that was not loaded: whatever answers
\* arrive for a slot and however late, an empty password hash is never asked for.
THEOREM LoginNeedsData == Spec => []LoginHasAPassword
<1> QED
  BY InitTyping, TypingStep, LoginInit, LoginStep, PTL DEF Spec

-----------------------------------------------------------------------------
(* The flag.                                                               *)

\* Answer i of those to come is the last one to decide what is known of the
\* player in s, namely the lookup of that player; after it come only answers
\* that concern both the slot and the name of this player, or neither.  0 stands
\* for a lookup that is answered already.
LastWord(s, i) ==
  /\ i \in 0 .. Len(queries)
  /\ i > 0 => queries[i] = Query("select", s, occupant[s])
  /\ \A j \in i + 1 .. Len(queries) :
       queries[j].slot = s <=> queries[j].name = occupant[s]

\* What is known of the player in s is right.
Known(s) ==
  /\ isPlayerRegistered[s] <=> occupant[s] \in accounts
  /\ isPlayerRegistered[s] /\ ~bPlayerLoggedIn[s] => userData[s] = occupant[s]

WordInv == \A s \in Present : \E i \in 0 .. Len(queries) : LastWord(s, i) /\ (i = 0 => Known(s))

LEMMA WordInit == Init => WordInv
BY DEF Init, WordInv, Present

\* A step that leaves the queries, the database and a player alone, and does not
\* log the player out, leaves what is known of the player.
LEMMA WordStays ==
  ASSUME WordInv, NEW s \in Present, UNCHANGED <<occupant, accounts, queries>>,
         isPlayerRegistered'[s] = isPlayerRegistered[s],
         bPlayerLoggedIn[s] => bPlayerLoggedIn'[s], userData'[s] = userData[s]
  PROVE  \E i \in 0 .. Len(queries') : LastWord(s, i)' /\ (i = 0 => Known(s)')
<1>1. PICK i \in 0 .. Len(queries) : LastWord(s, i) /\ (i = 0 => Known(s))
  BY DEF WordInv
<1>2. LastWord(s, i)'
  BY <1>1 DEF LastWord
<1>3. Known(s) => Known(s)'
  BY DEF Known
<1> QED
  BY <1>1, <1>2, <1>3

\* An answer that is not the last word brings the last word one place nearer; the
\* last word makes the flag right; and an answer after it concerns the player
\* wholly, and is right too, or not at all.
LEMMA WordAnswer == TypeOK /\ WordInv /\ Answer => WordInv'
<1> SUFFICES ASSUME TypeOK, WordInv, Answer, NEW s \in Present'
             PROVE  \E i \in 0 .. Len(queries') : LastWord(s, i)' /\ (i = 0 => Known(s)')
  BY DEF WordInv
<1> USE NoNameAssumption
<1> DEFINE q == Head(queries)
<1>1. /\ q \in QueryRecords /\ q = queries[1] /\ queries' = Tail(queries)
      /\ queries' \in Seq(QueryRecords)
      /\ Len(queries) \in Nat \ {0} /\ Len(queries') = Len(queries) - 1
      /\ \A j \in 1 .. Len(queries) - 1 : queries'[j] = queries[j + 1]
  BY QueueFacts DEF Answer, TypeOK
<1>2. q.slot \in Slots /\ q.name \in Names
  BY <1>1 DEF QueryRecords
<1>3. UNCHANGED occupant /\ s \in Present /\ s \in Slots /\ occupant[s] \in Names
  BY DEF Answer, Present, TypeOK
<1>4. PICK i \in 0 .. Len(queries) : LastWord(s, i) /\ (i = 0 => Known(s))
  BY <1>3 DEF WordInv
<1>5. CASE i > 1
  <2>1. LastWord(s, i - 1)'
    BY <1>1, <1>3, <1>4, <1>5 DEF LastWord
  <2> QED
    BY <1>1, <1>4, <1>5, <2>1
<1>6. CASE i \in {0, 1}
  <2>1. LastWord(s, 0)'
    BY <1>1, <1>3, <1>4, <1>6 DEF LastWord
  <2>2. ASSUME i = 1 PROVE Known(s)'
    <3>1. q = Query("select", s, occupant[s])
      BY <1>1, <1>4, <2>2 DEF LastWord
    <3>2. q.kind = "select" /\ q.slot = s /\ q.name = occupant[s]
      BY <1>3, <3>1, QueryTyping DEF QueryKinds
    <3>3. OnAccountDataReceived(q)
      BY <3>2 DEF Answer
    <3> QED
      BY <1>3, <3>2, <3>3 DEF OnAccountDataReceived, Known, TypeOK
  <2>3. ASSUME i = 0 PROVE Known(s)'
    <3>1. Known(s) /\ (q.slot = s <=> q.name = occupant[s])
      BY <1>1, <1>4, <2>3 DEF LastWord
    <3>2. CASE OnAccountDataReceived(q)
      BY <1>2, <1>3, <3>1, <3>2 DEF OnAccountDataReceived, Known, TypeOK
    <3>3. CASE OnRegisterComplete(q)
      BY <1>2, <1>3, <3>1, <3>3 DEF OnRegisterComplete, Known, TypeOK
    <3>4. CASE InsertFails
      BY <1>3, <3>1, <3>4 DEF InsertFails, flags, Known
    <3> QED
      BY <3>2, <3>3, <3>4 DEF Answer
  <2> QED
    BY <1>1, <1>6, <2>1, <2>2, <2>3
<1> QED
  BY <1>4, <1>5, <1>6

\* Who connects has asked last; nobody else has the slot or the name.
LEMMA WordConnect ==
  ASSUME TypeOK, WordInv, NEW t \in Slots, NEW n \in Names, PlayerConnect(t, n)
  PROVE  WordInv'
<1> SUFFICES ASSUME NEW s \in Present'
             PROVE  \E i \in 0 .. Len(queries') : LastWord(s, i)' /\ (i = 0 => Known(s)')
  BY DEF WordInv
<1> USE NoNameAssumption
<1> DEFINE q == Query("select", t, n)
<1>1. /\ queries' = Append(queries, q) /\ q \in QueryRecords
      /\ Len(queries) \in Nat /\ Len(queries') = Len(queries) + 1
      /\ queries'[Len(queries) + 1] = q
      /\ \A j \in 1 .. Len(queries) : queries'[j] = queries[j]
  BY QueueFacts, QueryTyping DEF PlayerConnect, Ask, QueryKinds, TypeOK
<1>2. q.slot = t /\ q.name = n
  BY QueryTyping DEF QueryKinds
<1>3. CASE s = t
  <2>1. occupant'[t] = n
    BY DEF PlayerConnect, TypeOK
  <2>2. PICK m \in Nat : m = Len(queries')
    BY <1>1
  <2>3. LastWord(s, m)'
    BY <1>1, <1>3, <2>1, <2>2 DEF LastWord
  <2> QED
    BY <1>1, <2>2, <2>3
<1>4. CASE s # t
  <2>1. s \in Slots /\ s \in Present /\ occupant'[s] = occupant[s] /\ occupant[s] # n
    BY <1>4 DEF PlayerConnect, Present, TypeOK
  <2>2. PICK i \in 0 .. Len(queries) : LastWord(s, i) /\ (i = 0 => Known(s))
    BY <2>1 DEF WordInv
  <2>3. LastWord(s, i)'
    BY <1>1, <1>2, <1>4, <2>1, <2>2 DEF LastWord
  <2>4. Known(s) => Known(s)'
    BY <1>4, <2>1 DEF PlayerConnect, Known, TypeOK
  <2> QED
    BY <1>1, <2>2, <2>3, <2>4
<1> QED
  BY <1>3, <1>4

\* A registration comes after the player's own last word, and concerns nobody else.
LEMMA WordConfirm ==
  ASSUME TypeOK, WordInv, NEW t \in Slots, t \in Present, ConfirmRegistration(t)
  PROVE  WordInv'
<1> SUFFICES ASSUME NEW s \in Present'
             PROVE  \E i \in 0 .. Len(queries') : LastWord(s, i)' /\ (i = 0 => Known(s)')
  BY DEF WordInv
<1> DEFINE q == Query("insert", t, occupant[t])
<1>1. occupant[t] \in Names
  BY DEF Present, TypeOK
<1>2. /\ queries' = Append(queries, q) /\ q \in QueryRecords
      /\ Len(queries) \in Nat /\ Len(queries') = Len(queries) + 1
      /\ queries'[Len(queries) + 1] = q
      /\ \A j \in 1 .. Len(queries) : queries'[j] = queries[j]
      /\ q.slot = t /\ q.name = occupant[t]
  BY <1>1, QueueFacts, QueryTyping DEF ConfirmRegistration, Ask, QueryKinds, TypeOK
<1>3. s \in Slots /\ s \in Present /\ UNCHANGED <<occupant, flags, userData, accounts>>
  BY DEF ConfirmRegistration, Present
<1>4. s # t => occupant[s] # occupant[t]
  BY <1>3 DEF TypeOK
<1>5. PICK i \in 0 .. Len(queries) : LastWord(s, i) /\ (i = 0 => Known(s))
  BY <1>3 DEF WordInv
<1>6. LastWord(s, i)'
  BY <1>2, <1>3, <1>4, <1>5 DEF LastWord
<1>7. Known(s) => Known(s)'
  BY <1>3 DEF Known, flags
<1> QED
  BY <1>2, <1>5, <1>6, <1>7

LEMMA WordStep == TypeOK /\ WordInv /\ [Next]_vars => WordInv'
<1> SUFFICES ASSUME TypeOK, WordInv, [Next]_vars PROVE WordInv'
  OBVIOUS
<1>1. CASE Answer
  BY <1>1, WordAnswer
<1>2. CASE RestartGameMode
  BY <1>2 DEF RestartGameMode, WordInv, Present
<1>3. ASSUME NEW s \in Slots, NEW n \in Names, PlayerConnect(s, n) PROVE WordInv'
  BY <1>3, WordConnect
<1>4. ASSUME NEW t \in Slots, PlayerDisconnect(t) PROVE WordInv'
  <2>1. UNCHANGED <<flags, userData, queries, accounts>>
    BY <1>4 DEF PlayerDisconnect
  <2>2. ASSUME NEW s \in Present'
        PROVE  \E i \in 0 .. Len(queries') : LastWord(s, i)' /\ (i = 0 => Known(s)')
    <3>1. s \in Present /\ occupant'[s] = occupant[s]
      BY <1>4, <2>2 DEF PlayerDisconnect, Present, TypeOK
    <3>2. PICK i \in 0 .. Len(queries) : LastWord(s, i) /\ (i = 0 => Known(s))
      BY <3>1 DEF WordInv
    <3>3. LastWord(s, i)'
      BY <2>1, <3>1, <3>2 DEF LastWord
    <3>4. Known(s) => Known(s)'
      BY <2>1, <3>1 DEF Known, flags
    <3> QED
      BY <2>1, <3>2, <3>3, <3>4
  <2> QED
    BY <2>2 DEF WordInv
<1>5. ASSUME NEW t \in Slots, ConfirmRegistration(t) PROVE WordInv'
  <2>1. dialog[t] # "none"
    BY <1>5 DEF ConfirmRegistration
  <2> QED
    BY <1>5, <2>1, WordConfirm DEF TypeOK
<1>6. CASE /\ UNCHANGED <<occupant, isPlayerRegistered, userData, queries, accounts>>
           /\ \A s \in Slots : bPlayerLoggedIn[s] => bPlayerLoggedIn'[s]
  BY <1>6, WordStays DEF WordInv, Present
<1>7. ASSUME NEW s \in Slots, OnPlayerSpawn(s) \/ Respond(s) \/ Register(s) PROVE WordInv'
  BY <1>6, <1>7 DEF OnPlayerSpawn, Respond, Register, flags
<1>8. ASSUME NEW s \in Slots, Login(s) PROVE WordInv'
  BY <1>6, <1>8 DEF Login, TypeOK
<1>9. CASE UNCHANGED vars
  BY <1>6, <1>9 DEF vars, flags
<1> QED
  BY <1>1, <1>2, <1>3, <1>4, <1>5, <1>7, <1>8, <1>9 DEF Next

\* When nothing is asked the last word has been spoken.
LEMMA QuietIsKnown == WordInv /\ Quiet => \A s \in Present : Known(s)
BY DEF WordInv, Quiet

\* Once all queries are answered the registered flag is right for every player,
\* in whatever order players came, went and registered before.
THEOREM RegisteredWhenAnswered == Spec => []RegisteredWhenQuiet
<1>1. TypeOK /\ WordInv => RegisteredWhenQuiet
  BY QuietIsKnown DEF RegisteredWhenQuiet, Known
<1> QED
  BY <1>1, InitTyping, TypingStep, WordInit, WordStep, PTL DEF Spec

\* Then also a registered player who has not logged in is asked for no password
\* but the player's own.
THEOREM OwnPassword == Spec => []PasswordIsOnesOwn
<1>1. TypeOK /\ WordInv => PasswordIsOnesOwn
  BY QuietIsKnown DEF PasswordIsOnesOwn, Known
<1> QED
  BY <1>1, InitTyping, TypingStep, WordInit, WordStep, PTL DEF Spec
================================================================================
