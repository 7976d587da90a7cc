------------------------------ MODULE SscanfPlayers ------------------------------
(***************************************************************************)
(* What the sscanf plugin knows of the players, and how it looks one up    *)
(* (src/plugins/sscanf-2.8.2/sscanf: the natives at the end of sscanf.cpp, *)
(* the arrays of utils.cpp, DoOptions of data.cpp, DoU, DoQ and DoR of     *)
(* specifiers.cpp).  The plugin is told of the players by every script     *)
(* that includes sscanf2.inc, each through callbacks of its own, and it    *)
(* counts for each player the scripts that reported them: nonzero is       *)
(* connected.                                                              *)
(*                                                                         *)
(* The server is external: it runs a callback in one script after the      *)
(* other (pending holds the scripts still to be called), and a lookup may  *)
(* come from the callback of a script that was already called.             *)
(***************************************************************************)
EXTENDS SscanfText

CONSTANTS
  MaxPlayers,     \* ids are 0 .. MaxPlayers - 1
  INVALID,        \* INVALID_PLAYER_ID
  CELLMIN,        \* 0x80000000: several players match
  Names,          \* the names players may have, sequences of characters
  NoName,         \* nobody has this id
  Bots,           \* the names that are those of NPCs
  Scripts,        \* the scripts that include sscanf2.inc
  Garbage,        \* the names that memory never written may hold
  Settable,       \* the options that scripts set
  MostUncounted   \* a bound on uncounted

VARIABLES
  online,         \* id -> the name the server has for the player, or NoName
  scripts,        \* the running scripts
  pending,        \* the callback under way: its kind, player and scripts left
  g_iTrueMax,     \* 0 until SSCANF_Init
  g_iConnected, g_szPlayerNames, g_iNPC,
  gOptions,       \* the names of the options that are on
  uncounted       \* for the properties: id -> the starts that found a player there
                  \* who was known already, and whom the script did not report

Ids == 0..MaxPlayers - 1

Options == {"OLD_DEFAULT_NAME", "MATCH_NAME_PARTIAL", "CELLMIN_ON_MATCHES",
            "SSCANF_QUIET", "OLD_DEFAULT_KUSTOM"}

ASSUME PlayersAssumption ==
  /\ MaxPlayers \in Nat \ {0}
  /\ INVALID \notin Ids /\ CELLMIN \notin Ids /\ INVALID # CELLMIN
  /\ NoName \notin Names /\ Bots \subseteq Names
  /\ MostUncounted \in Nat /\ Settable \subseteq Options
  /\ IsFiniteSet(Scripts)

players == <<online, scripts, pending, g_iTrueMax, g_iConnected, g_szPlayerNames, g_iNPC, uncounted>>

Quiet == [kind |-> "none", id |-> 0, todo |-> {}]

(***************************************************************************)
(* Looking a player up.                                                    *)
(***************************************************************************)
Shorter(m, n) == IF m <= n THEN m ELSE n

(* strincmp is content when either text ends, so that a short name is like *)
(* every longer word that begins with it                                   *)
StartsAlike(name, word) ==
  \A k \in 1..Shorter(Len(name), Len(word)) : name[k] = word[k]

(* strstrin: the same anywhere in the name *)
AlikeInside(name, word) ==
  \E k \in 1..Len(name) : /\ word # <<>> /\ name[k] = word[1]
                          /\ StartsAlike(SubSeq(name, k, Len(name)), word)

Matches(options, name, word) ==
  IF "MATCH_NAME_PARTIAL" \in options THEN AlikeInside(name, word) ELSE StartsAlike(name, word)

IsPlayerConnected(id) == g_iConnected[id] # 0

(* u looks for anybody, q for NPCs, r for people *)
Eligible(sp, id) ==
  /\ IsPlayerConnected(id)
  /\ sp = "q" => g_iNPC[id]
  /\ sp = "r" => ~g_iNPC[id]

(* The ids from start on whose entry matches.  The search moves the array  *)
(* of connections on to start, but not that of the names.                  *)
Hits(sp, options, word, start) ==
  {id \in start..g_iTrueMax - 1 :
     Eligible(sp, id) /\ Matches(options, g_szPlayerNames[id - start], word)}

(* DoU, DoQ and DoR: a number that is the id of such a player, or else a   *)
(* name.  by is FALSE when there can be no other match.                    *)
DoUser(sp, options, user, start) ==
  LET Among(hits) ==
        CASE hits = {} -> INVALID
          [] "CELLMIN_ON_MATCHES" \in options /\ Cardinality(hits) > 1 -> CELLMIN
          [] OTHER -> CHOOSE id \in hits : \A j \in hits : id <= j
  IN  IF user.v < g_iTrueMax /\ user.v \in Ids /\ Eligible(sp, user.v) THEN [by |-> FALSE, v |-> user.v]
      ELSE [by |-> TRUE, v |-> Among(Hits(sp, options, user.word, start))]

(* u[len], q[len], r[len]: up to len - 1 matches in a row, and INVALID or,  *)
(* when there would be more, CELLMIN                                       *)
UserList(sp, options, user, len) ==
  LET search == options \ {"CELLMIN_ON_MATCHES"}
      Note(a, r) == IF ~r.by THEN [b |-> INVALID, ids |-> Append(a.ids, r.v)]
                    ELSE IF r.v = INVALID THEN [a EXCEPT !.b = INVALID]
                    ELSE [b |-> r.v, ids |-> Append(a.ids, r.v)]
      Step(a, k) == IF a.b = INVALID THEN a ELSE Note(a, DoUser(sp, search, user, a.b + 1))
      Terminator(a) == IF a.b # INVALID /\ DoUser(sp, search, user, a.b + 1).v # INVALID
                 THEN CELLMIN ELSE INVALID
      Ended(a) == Append(a.ids, Terminator(a))
  IN  Ended(FoldLeft(Step, [b |-> -1, ids |-> <<>>], [k \in 1..len - 1 |-> k]))

(***************************************************************************)
(* The natives.                                                            *)
(***************************************************************************)
(* SSCANF_Option, and the option in a format: on or off *)
WithOption(options, name, on) == IF on THEN options \cup {name} ELSE options \ {name}

SSCANF_Option(name, on) ==
  /\ name \in Settable
  /\ gOptions' = WithOption(gOptions, name, on)
  /\ UNCHANGED players

\* Mutant: the slot keeps the NPC flag of whoever had it before.
JoinKeepsNPC(ids) ==
  /\ g_iConnected' = [id \in Ids |-> g_iConnected[id] + IF id \in ids THEN 1 ELSE 0]
  /\ g_szPlayerNames' = [id \in Ids |-> IF id \in ids THEN online'[id] ELSE g_szPlayerNames[id]]
  /\ UNCHANGED g_iNPC

\* Mutant: the first script that says goodbye speaks for all of them.
LeaveForAll(ids) ==
  /\ g_iConnected' = [id \in Ids |-> IF id \in ids THEN 0 ELSE g_iConnected[id]]
  /\ UNCHANGED <<g_szPlayerNames, g_iNPC>>

(* SSCANF_Join and SSCANF_Leave, called in order for the given ids *)
Join(ids) ==
  /\ g_iConnected' = [id \in Ids |-> g_iConnected[id] + IF id \in ids THEN 1 ELSE 0]
  /\ g_szPlayerNames' = [id \in Ids |-> IF id \in ids THEN online'[id] ELSE g_szPlayerNames[id]]
  /\ g_iNPC' = [id \in Ids |-> IF id \in ids THEN online'[id] \in Bots ELSE g_iNPC[id]]

Leave(ids) ==
  /\ g_iConnected' = [id \in Ids |-> g_iConnected[id] - IF id \in ids THEN 1 ELSE 0]
  /\ UNCHANGED <<g_szPlayerNames, g_iNPC>>

Here == {id \in Ids : online[id] # NoName}

(* OnGameModeInit and OnFilterScriptInit of sscanf2.inc: SSCANF_Init, then *)
(* those who are online and whom the plugin does not know yet join         *)
StartScript(s) ==
  LET known == {id \in Here : IsPlayerConnected(id)}
  IN  /\ pending = Quiet /\ s \notin scripts
      /\ \A id \in known : uncounted[id] < MostUncounted
      /\ scripts' = scripts \cup {s}
      /\ g_iTrueMax' = MaxPlayers
      /\ UNCHANGED <<online, pending, gOptions>>
      /\ Join(Here \ known)
      /\ uncounted' = [id \in Ids |-> uncounted[id] + IF id \in known THEN 1 ELSE 0]

(* The end of a script calls its OnPlayerDisconnect for everybody online *)
StopScript(s) ==
  /\ pending = Quiet /\ s \in scripts
  /\ scripts' = scripts \ {s}
  /\ Leave(Here)
  /\ UNCHANGED <<online, pending, g_iTrueMax, gOptions, uncounted>>

(* A player comes or goes: every script is called, and a player who goes  *)
(* is online until the last was                                            *)
Connect(id, name) ==
  /\ pending = Quiet /\ online[id] = NoName
  /\ \A other \in Ids : online[other] # name
  /\ online' = [online EXCEPT ![id] = name]
  /\ pending' = IF scripts = {} THEN Quiet
                ELSE [kind |-> "OnPlayerConnect", id |-> id, todo |-> scripts]
  /\ UNCHANGED <<scripts, g_iTrueMax, g_iConnected, g_szPlayerNames, g_iNPC, gOptions, uncounted>>

Disconnect(id) ==
  /\ pending = Quiet /\ online[id] # NoName
  /\ online' = IF scripts = {} THEN [online EXCEPT ![id] = NoName] ELSE online
  /\ pending' = IF scripts = {} THEN Quiet
                ELSE [kind |-> "OnPlayerDisconnect", id |-> id, todo |-> scripts]
  /\ UNCHANGED <<scripts, g_iTrueMax, g_iConnected, g_szPlayerNames, g_iNPC, gOptions, uncounted>>

(* The hooks of sscanf2.inc in the next script; after the last of them the *)
(* player is in, or gone                                                   *)
Callback(s) ==
  /\ s \in pending.todo
  /\ pending' = IF pending.todo = {s} THEN Quiet ELSE [pending EXCEPT !.todo = @ \ {s}]
  /\ online' = IF pending.kind = "OnPlayerDisconnect" /\ pending.todo = {s}
               THEN [online EXCEPT ![pending.id] = NoName] ELSE online
  /\ IF pending.kind = "OnPlayerConnect" THEN Join({pending.id}) ELSE Leave({pending.id})
  /\ UNCHANGED <<scripts, g_iTrueMax, gOptions, uncounted>>

(* SetPlayerName goes through the plugin, which notes the name before the  *)
(* server has accepted it; the server refuses a name that is taken.  Any   *)
(* script may call it, also one that does not know sscanf.  Before the     *)
(* first SSCANF_Init there is no array, and the native would write through *)
(* a null pointer: it is not called then.                                  *)
SetPlayerName(id, name) ==
  /\ g_iTrueMax # 0 /\ online[id] # NoName /\ (name \in Bots <=> online[id] \in Bots)
  /\ g_szPlayerNames' = [g_szPlayerNames EXCEPT ![id] = name]
  /\ online' = IF \E other \in Ids \ {id} : online[other] = name THEN online
               ELSE [online EXCEPT ![id] = name]
  /\ UNCHANGED <<scripts, pending, g_iTrueMax, g_iConnected, g_iNPC, gOptions, uncounted>>

PlayersInit ==
  /\ online = [id \in Ids |-> NoName]
  /\ scripts = {}
  /\ pending = Quiet
  /\ g_iTrueMax = 0
  /\ g_iConnected = [id \in Ids |-> 0]
  /\ g_szPlayerNames \in [Ids -> Garbage]
  /\ g_iNPC = [id \in Ids |-> FALSE]
  /\ gOptions = {}
  /\ uncounted = [id \in Ids |-> 0]

PlayersNext ==
  \/ \E s \in Scripts : StartScript(s) \/ StopScript(s) \/ Callback(s)
  \/ \E id \in Ids, name \in Names : Connect(id, name) \/ SetPlayerName(id, name)
  \/ \E id \in Ids : Disconnect(id)
  \/ \E name \in Settable, on \in BOOLEAN : SSCANF_Option(name, on)

playersVars == <<players, gOptions>>
PlayersSpec == PlayersInit /\ [][PlayersNext]_playersVars

(***************************************************************************)
(* Properties.                                                             *)
(***************************************************************************)
PlayersTypeOK ==
  /\ online \in [Ids -> Names \cup {NoName}]
  /\ scripts \subseteq Scripts
  /\ pending \in [kind : {"none", "OnPlayerConnect", "OnPlayerDisconnect"}, id : Ids, todo : SUBSET Scripts]
  /\ g_iTrueMax \in {0, MaxPlayers}
  /\ g_iConnected \in [Ids -> Int]
  /\ g_szPlayerNames \in [Ids -> Names \cup Garbage]
  /\ g_iNPC \in [Ids -> BOOLEAN]
  /\ gOptions \subseteq Options
  /\ uncounted \in [Ids -> Nat]

(* The scripts that have told the plugin of the player, and not yet that   *)
(* the player goes                                                         *)
Told(id) ==
  {s \in scripts :
     /\ online[id] # NoName
     /\ pending.kind # "none" /\ pending.id = id =>
          (s \in pending.todo <=> pending.kind = "OnPlayerDisconnect")}

(* The counter of a player is the number of the running scripts that will  *)
(* say goodbye to the player (StopScript, Disconnect), less one for every  *)
(* start that found the player known and did not count: at every point of  *)
(* the callbacks, whatever scripts start and end meanwhile.  Such a start  *)
(* is never made up for: the slot stays one short for every later player.  *)
CountIsExact == \A id \in Ids : g_iConnected[id] = Cardinality(Told(id)) - uncounted[id]

Known(id) == IsPlayerConnected(id) <=> online[id] # NoName

(* When no callback is under way the plugin takes for connected exactly    *)
(* those who are online, in every slot where no start went uncounted, as   *)
(* long as any script runs that tells it: a player whom an earlier script  *)
(* reported is not forgotten when that one ends.  Of the other slots it is *)
(* not so: a script that is loaded while a player is known does not count, *)
(* but is counted out when it ends.                                        *)
KnowsTheCounted ==
  pending = Quiet /\ scripts # {} => \A id \in Ids : uncounted[id] = 0 => Known(id)

(* The counters are exact in the middle of callbacks, and say who is       *)
(* online when there are none.                                             *)
PlayersAreKnown == CountIsExact /\ KnowsTheCounted

(* What a lookup for one of the words makes of it *)
Users(words) == {GetUserString({" "}, word, 1, g_iTrueMax) : word \in words}

(* A lookup never gives a player who is not online, nor one of the other   *)
(* kind, from a slot where no start went uncounted: not between the        *)
(* callbacks of two scripts, not after a restart, and not by a number      *)
(* either.                                                                 *)
FoundIsOnline ==
  \A sp \in {"u", "q", "r"}, user \in Users(Names \cup {<<>>, <<"0">>, <<"1">>}) :
    LET v == DoUser(sp, gOptions, user, 0).v
    IN  v \in Ids /\ uncounted[v] = 0 =>
                     /\ online[v] # NoName
                     /\ sp = "q" => online[v] \in Bots
                     /\ sp = "r" => online[v] \notin Bots

(* The array of u[len] never overflows, holds players that are connected,  *)
(* each once, and ends in INVALID or CELLMIN.                              *)
ListIsSound ==
  \A sp \in {"u", "q", "r"}, user \in Users(Names), len \in 2..MaxPlayers + 1 :
    LET list == UserList(sp, gOptions, user, len)
        last == Len(list)
    IN  /\ last \in 1..len /\ list[last] \in {INVALID, CELLMIN}
        /\ \A i \in 1..last - 1 : /\ list[i] \in Ids /\ Eligible(sp, list[i])
                                 /\ \A j \in 1..i - 1 : list[j] < list[i]
        /\ list[last] = CELLMIN => last = len

(* What is looked up is there, by number, by name and in lists, at every   *)
(* point of the callbacks.                                                 *)
LookupsAreSound == FoundIsOnline /\ ListIsSound
==================================================================================
