-------------------------------- MODULE Session --------------------------------
(***************************************************************************)
(* Accounts: what the gamemode knows of the player in a slot, the login    *)
(* dialog, the registration wizard, and the database queries between them. *)
(*                                                                         *)
(* A query is sent in one callback and answered in a later one.  The       *)
(* plugin runs the queries of a connection one after the other and answers *)
(* them in that order, so they are a queue whose head is executed and      *)
(* answered in one step: nothing but a query reads or writes the database. *)
(* An answer carries the slot number it was asked for, whoever has the     *)
(* slot by then.  The database stays reachable: a lookup is always         *)
(* answered; an INSERT may fail, and is then never answered.               *)
(***************************************************************************)
EXTENDS Integers, Sequences

CONSTANTS
  Slots,
  Names,      \* player names; an account has the name of its player
  NoName,     \* no player in a slot, no account behind its data
  MaxQueries  \* bound: nothing is asked with this many queries in flight

ASSUME NoNameAssumption == NoName \notin Names

VARIABLES
  occupant,            \* the name of the player in each slot
  isPlayerRegistered,  \* IsPlayerRegistered.pwn
  bPlayerLoggedIn,     \* IsPlayerLoggedIn.pwn
  userData,            \* Account.pwn: the account whose password, salt, ... are held
  dialog,              \* the dialog the player is looking at
  queries,             \* the queries in flight
  accounts             \* the names in the table "players"

flags == <<isPlayerRegistered, bPlayerLoggedIn>>
vars == <<occupant, flags, userData, dialog, queries, accounts>>

Present == {s \in Slots : occupant[s] # NoName}

-----------------------------------------------------------------------------
(* Queries.                                                                *)

QueryKinds == {"select", "insert"}
Query(k, s, n) == [kind |-> k, slot |-> s, name |-> n]
QueryRecords == [kind : QueryKinds, slot : Slots, name : Names]

MayAsk == Len(queries) < MaxQueries
Ask(k, s, n) == queries' = Append(queries, Query(k, s, n))

\* Mutant: the flag is not cleared when there is no such account.
OnAccountDataReceivedOnlySets(q) ==
  /\ isPlayerRegistered' =
       [isPlayerRegistered EXCEPT ![q.slot] = @ \/ q.name \in accounts]
  /\ userData' = IF q.name \in accounts THEN [userData EXCEPT ![q.slot] = q.name] ELSE userData
  /\ UNCHANGED <<bPlayerLoggedIn, dialog, accounts>>

\* Mutant: data that is there already is not loaded again.
OnAccountDataReceivedOnce(q) ==
  /\ isPlayerRegistered' = [isPlayerRegistered EXCEPT ![q.slot] = q.name \in accounts]
  /\ userData' = IF q.name \in accounts /\ userData[q.slot] = NoName
                 THEN [userData EXCEPT ![q.slot] = q.name] ELSE userData
  /\ UNCHANGED <<bPlayerLoggedIn, dialog, accounts>>

\* The answer to the lookup of retrieveData.construct.
OnAccountDataReceived(q) ==
  /\ isPlayerRegistered' = [isPlayerRegistered EXCEPT ![q.slot] = q.name \in accounts]
  /\ userData' = IF q.name \in accounts THEN [userData EXCEPT ![q.slot] = q.name] ELSE userData
  /\ UNCHANGED <<bPlayerLoggedIn, dialog, accounts>>

\* The INSERT worked.  A dialog can only be shown to somebody.
OnRegisterComplete(q) ==
  /\ accounts' = accounts \cup {q.name}
  /\ isPlayerRegistered' = [isPlayerRegistered EXCEPT ![q.slot] = TRUE]
  /\ bPlayerLoggedIn' = [bPlayerLoggedIn EXCEPT ![q.slot] = TRUE]
  /\ dialog' = IF q.slot \in Present THEN [dialog EXCEPT ![q.slot] = "registered"] ELSE dialog
  /\ UNCHANGED userData

\* Names are unique in the table, and so are e-mail addresses: an INSERT for a
\* name that is taken fails, any other fails if its address is taken.
InsertFails == UNCHANGED <<flags, userData, dialog, accounts>>

Answer ==
  /\ queries # <<>>
  /\ queries' = Tail(queries)
  /\ LET q == Head(queries) IN
       \/ q.kind = "select" /\ OnAccountDataReceived(q)
       \/ q.kind = "insert" /\ q.name \notin accounts /\ OnRegisterComplete(q)
       \/ q.kind = "insert" /\ InsertFails
  /\ UNCHANGED occupant

-----------------------------------------------------------------------------
(* Players come, spawn and go.                                             *)

\* Mutant: the registered flag of the slot is left as it is.
PlayerConnectKeepsFlag(s, n) ==
  /\ s \notin Present /\ \A t \in Slots : occupant[t] # n
  /\ MayAsk /\ Ask("select", s, n)
  /\ occupant' = [occupant EXCEPT ![s] = n]
  /\ bPlayerLoggedIn' = [bPlayerLoggedIn EXCEPT ![s] = FALSE]
  /\ userData' = [userData EXCEPT ![s] = NoName]
  /\ UNCHANGED <<isPlayerRegistered, dialog, accounts>>

\* OnPlayerConnect: look the account up, reset what the slot holds.  The server
\* refuses a name that is in use.
PlayerConnect(s, n) ==
  /\ s \notin Present /\ \A t \in Slots : occupant[t] # n
  /\ MayAsk /\ Ask("select", s, n)
  /\ occupant' = [occupant EXCEPT ![s] = n]
  /\ isPlayerRegistered' = [isPlayerRegistered EXCEPT ![s] = FALSE]
  /\ bPlayerLoggedIn' = [bPlayerLoggedIn EXCEPT ![s] = FALSE]
  /\ userData' = [userData EXCEPT ![s] = NoName]
  /\ UNCHANGED <<dialog, accounts>>

\* Mutant: the dialog of a player who leaves is kept for the next one.
PlayerDisconnectKeepsDialog(s) ==
  /\ s \in Present
  /\ occupant' = [occupant EXCEPT ![s] = NoName]
  /\ UNCHANGED <<flags, userData, dialog, queries, accounts>>

\* Neither the flags nor the data are touched when a player leaves.
PlayerDisconnect(s) ==
  /\ s \in Present
  /\ occupant' = [occupant EXCEPT ![s] = NoName]
  /\ dialog' = [dialog EXCEPT ![s] = "none"]
  /\ UNCHANGED <<flags, userData, queries, accounts>>

\* playerAccountCheckLogin.main, whenever a player spawns: five seconds after
\* the connect, sooner by a timer of an earlier player of the slot or by a game
\* change, and after a death.
OnPlayerSpawn(s) ==
  /\ s \in Present /\ ~bPlayerLoggedIn[s]
  /\ IF isPlayerRegistered[s]
     THEN dialog' = [dialog EXCEPT ![s] = "login"]
     ELSE UNCHANGED dialog
  /\ UNCHANGED <<occupant, flags, userData, queries, accounts>>

-----------------------------------------------------------------------------
(* Dialogs.                                                                *)

\* Where a response leads that does nothing but show the next dialog.
Moves ==
  {<<"login", "help">>, <<"help", "none">>,
   <<"welcome", "email">>, <<"welcome", "none">>,
   <<"email", "repeatEmail">>, <<"email", "invalidEmail">>, <<"email", "none">>,
   <<"invalidEmail", "email">>, <<"invalidEmail", "none">>,
   <<"repeatEmail", "email">>, <<"repeatEmail", "otherEmail">>, <<"repeatEmail", "password">>,
   <<"otherEmail", "email">>, <<"otherEmail", "none">>,
   <<"password", "email">>, <<"password", "repeatPassword">>,
   <<"repeatPassword", "password">>, <<"repeatPassword", "otherPassword">>,
   <<"repeatPassword", "confirm">>,
   <<"otherPassword", "repeatPassword">>, <<"otherPassword", "password">>,
   <<"confirm", "repeatPassword">>,
   <<"registered", "none">>}

Dialogs == {m[1] : m \in Moves} \cup {"none"}

Respond(s) ==
  /\ \E m \in Moves : dialog[s] = m[1] /\ dialog' = [dialog EXCEPT ![s] = m[2]]
  /\ UNCHANGED <<occupant, flags, userData, queries, accounts>>

\* The command /register.
Register(s) ==
  /\ s \in Present /\ ~isPlayerRegistered[s]
  /\ dialog' = [dialog EXCEPT ![s] = "welcome"]
  /\ UNCHANGED <<occupant, flags, userData, queries, accounts>>

\* Response_Step6: send the INSERT.
ConfirmRegistration(s) ==
  /\ dialog[s] = "confirm"
  /\ MayAsk /\ Ask("insert", s, occupant[s])
  /\ dialog' = [dialog EXCEPT ![s] = "none"]
  /\ UNCHANGED <<occupant, flags, userData, accounts>>

\* AccountPassword.validate for the password of the account typed: players come
\* back under other names and may have one password for several.  A hash that was
\* never loaded is the empty string, which strcmp takes for equal to any.
Validates(s, typed) == userData[s] \in {typed, NoName}

\* Response_Step1 of the login dialog; a wrong password shows it again.
Login(s) ==
  /\ dialog[s] = "login"
  /\ \E typed \in Names : Validates(s, typed)
  /\ bPlayerLoggedIn' = [bPlayerLoggedIn EXCEPT ![s] = TRUE]
  /\ dialog' = [dialog EXCEPT ![s] = "none"]
  /\ UNCHANGED <<occupant, isPlayerRegistered, userData, queries, accounts>>

-----------------------------------------------------------------------------

Init ==
  /\ occupant = [s \in Slots |-> NoName]
  /\ isPlayerRegistered = [s \in Slots |-> FALSE]
  /\ bPlayerLoggedIn = [s \in Slots |-> FALSE]
  /\ userData = [s \in Slots |-> NoName]
  /\ dialog = [s \in Slots |-> "none"]
  /\ queries = <<>>
  /\ accounts \in SUBSET Names

\* The names of the INSERTs in flight.
Unanswered == {n \in Names : \E i \in DOMAIN queries :
                 queries[i].kind = "insert" /\ queries[i].name = n}

\* The gamemode ends and starts again: its variables are new, everybody joins
\* again, and mysql_close drops the answers, with or without the INSERTs.
RestartGameMode ==
  /\ occupant' = [s \in Slots |-> NoName]
  /\ isPlayerRegistered' = [s \in Slots |-> FALSE]
  /\ bPlayerLoggedIn' = [s \in Slots |-> FALSE]
  /\ userData' = [s \in Slots |-> NoName]
  /\ dialog' = [s \in Slots |-> "none"]
  /\ queries' = <<>>
  /\ \E done \in SUBSET Unanswered : accounts' = accounts \cup done

Next ==
  \/ Answer \/ RestartGameMode
  \/ \E s \in Slots :
       \/ \E n \in Names : PlayerConnect(s, n)
       \/ PlayerDisconnect(s) \/ OnPlayerSpawn(s)
       \/ Respond(s) \/ Register(s) \/ ConfirmRegistration(s) \/ Login(s)

Spec == Init /\ [][Next]_vars

-----------------------------------------------------------------------------
(* Properties.                                                             *)

\* Every variable has its type; a name is in one slot at most, and nobody looks
\* at the dialogs of an empty slot.
TypeOK ==
  /\ occupant \in [Slots -> Names \cup {NoName}]
  /\ \A s, t \in Present : s # t => occupant[s] # occupant[t]
  /\ isPlayerRegistered \in [Slots -> BOOLEAN]
  /\ bPlayerLoggedIn \in [Slots -> BOOLEAN]
  /\ userData \in [Slots -> Names \cup {NoName}]
  /\ dialog \in [Slots -> Dialogs]
  /\ \A s \in Slots \ Present : dialog[s] = "none"
  /\ queries \in Seq(QueryRecords)
  /\ accounts \subseteq Names

Quiet == queries = <<>>

\* Once every query is answered the flag is right for whoever is in the slot,
\* although answers for earlier players of the slot arrive in between and
\* registrations complete for players who have moved to another slot.
RegisteredWhenQuiet ==
  Quiet => \A s \in Present : isPlayerRegistered[s] <=> occupant[s] \in accounts

\* Then also, the password a player is asked for is the player's own: the data
\* of an earlier player of the slot has been replaced by the time it matters.
PasswordIsOnesOwn ==
  Quiet => \A s \in Present :
             isPlayerRegistered[s] /\ ~bPlayerLoggedIn[s] => userData[s] = occupant[s]

\* A login dialog never stands over data that was not loaded, against which
\* every password would be right.
LoginHasAPassword == \A s \in Slots : dialog[s] = "login" => userData[s] # NoName

\* Only registered players see the login dialog (loginPlayer.pwn line 9: if the
\* player isn't registered don't show the dialog).
LoginIsForTheRegistered ==
  \A s \in Slots : dialog[s] = "login" => occupant[s] \in accounts

================================================================================
