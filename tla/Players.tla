------------------------------ MODULE Players ------------------------------
(***************************************************************************)
(* Who is on a channel: the sessions of the game loop, the table of the    *)
(* PlayerManager, and what a log-in loads and a stat packet changes, in    *)
(* memory and in the rows of MySQL.                                        *)
(*                                                                         *)
(* A log-in writes the character to Redis under "characterID<id>" and      *)
(* looks for it under "characterID:<id>", which nobody writes: it always   *)
(* reads the rows, and it is refused when Redis does not answer although   *)
(* it has them by then.  A stat packet raises a column of the row and then *)
(* a field of the Player, which it finds by another name; an error of the  *)
(* statement keeps it from the Player, also when the row was raised.       *)
(***************************************************************************)
EXTENDS Naturals

CONSTANTS
  Sessions,     \* connections of clients
  Chars,        \* characters, as the client names them in PKT_CHANNEL_AUTH
  MaxRaises,    \* bound: the raises of each character
  Closed, NoPlayer,        \* a session that is not there; one without m_player
  NoEntry

VARIABLES
  session,   \* m_sessions and m_player of each
  players,   \* m_players: the session a Player belongs to and its CharacterStat, and
             \* (history) how many raises of the row it has missed since it was loaded
  rows,      \* character_stat
  cached,    \* the stats Redis has of each character under the name HSetAll writes or,
             \* when it has none, those of the row
  ghosts,    \* history: characters whose session logged in again as somebody else
  link       \* RedisClient's m_ctx works

pvars == <<session, players, rows, cached, ghosts>>

-----------------------------------------------------------------------------
Columns == {"str", "luk"}     \* what Update accepts and character_stat has
Fields == {"str", "luck"}     \* of BaseStat

\* LoadPlayerStat: the fields a row gives.
Loaded(row) == [str |-> row.str, luck |-> row.luk]

\* Mutant: a name that no field has raises nothing.
UpNamedOnly(stat, type) == IF type \in Fields THEN [stat EXCEPT ![type] = @ + 1] ELSE stat

\* CharacterStat::Up: a name that no field has stands for the first field.
Up(stat, type) == LET field == IF type \in Fields THEN type ELSE "str"
                  IN [stat EXCEPT ![field] = @ + 1]

\* The name a character has in Redis, before its number, for HSetAll and for HGetAll.
WrittenName == "characterID"

\* Mutant: the key that is written is the one that is read.
SameName == "characterID"

ReadName == "characterID:"

\* LoadPlayer: HGETALL finds a character under no name but the one that is written; when it
\* finds none, the row counts.
LoadPlayer(c) == IF ReadName = WrittenName THEN cached[c] ELSE Loaded(rows[c])

IsOpen(s) == session[s] # Closed
OpenSessions == {s \in Sessions : IsOpen(s)}

Init == /\ session = [s \in Sessions |-> Closed]
        /\ players = [c \in Chars |-> NoEntry]
        /\ rows = [c \in Chars |-> [str |-> 0, luk |-> 0]]
        /\ cached = [c \in Chars |-> Loaded(rows[c])]
        /\ ghosts = {}
        /\ link = TRUE

-----------------------------------------------------------------------------
OnAccept(s) == /\ session[s] = Closed
               /\ session' = [session EXCEPT ![s] = NoPlayer]
               /\ UNCHANGED <<players, rows, cached, ghosts>>

\* Mutant: the last one to log in has the character.
AddAlways(c) == TRUE

\* AddPlayer: a character that is in the table is refused.
CanAdd(c) == players[c] = NoEntry

\* HandleChannelAuth: LoadPlayer, with HSetAll at its end, and AddPlayer.  What the session
\* was before is forgotten, and its old Player stays in the table.  Without Redis the
\* log-in is refused with the rows in hand, and nothing changes.
ChannelAuth(s, c) ==
  /\ IsOpen(s) /\ link
  /\ CanAdd(c)
  /\ cached' = [cached EXCEPT ![c] = Loaded(rows[c])]
  /\ players' = [players EXCEPT ![c] = [session |-> s, stat |-> LoadPlayer(c), missed |-> 0]]
  /\ session' = [session EXCEPT ![s] = c]
  /\ ghosts' = IF session[s] \in Chars THEN ghosts \cup {session[s]} ELSE ghosts
  /\ UNCHANGED rows

\* The character is there already: it has been loaded, and written to Redis, for nothing.
AlreadyThere(s, c) == /\ IsOpen(s) /\ link
                      /\ ~CanAdd(c)
                      /\ cached' = [cached EXCEPT ![c] = Loaded(rows[c])]
                      /\ UNCHANGED <<session, players, rows, ghosts>>

Raises(c) == rows[c].str + rows[c].luk

\* UpStat: the row and then the object.  When mysql_stmt_execute reports an error the
\* object is left alone, although the row was raised if only the answer was lost.  (When
\* the row was not raised either, nothing happens.)
UpStat(s, type) ==
  /\ session[s] \in Chars /\ type \in Columns
  /\ LET c == session[s]
     IN /\ Raises(c) < MaxRaises[c]
        /\ rows' = [rows EXCEPT ![c][type] = @ + 1]
        /\ \/ players' = [players EXCEPT ![c].stat = Up(@, type)]
           \/ players' = [players EXCEPT ![c].missed = @ + 1]
  /\ UNCHANGED <<session, cached, ghosts>>

\* Mutant: the destructor leaves the table alone.
LeavesTable(c) == players

\* RemovePlayer of the session's character.
RemovePlayer(c) == IF c \in Chars THEN [players EXCEPT ![c] = NoEntry] ELSE players

\* OnDisconnect and ~ChannelSession.
OnDisconnect(s) == /\ IsOpen(s)
                   /\ players' = RemovePlayer(session[s])
                   /\ session' = [session EXCEPT ![s] = Closed]
                   /\ UNCHANGED <<rows, cached, ghosts>>

\* The 600 seconds of the key are over.
Forget(c) == /\ cached' = [cached EXCEPT ![c] = Loaded(rows[c])]
             /\ UNCHANGED <<session, players, rows, ghosts>>

\* The process dies: the tables are gone, the rows and Redis stay.
Dies == /\ session' = [s \in Sessions |-> Closed]
        /\ players' = [c \in Chars |-> NoEntry]
        /\ ghosts' = {}
        /\ UNCHANGED <<rows, cached>>

SessionStep(s) == \/ OnAccept(s) \/ OnDisconnect(s)
                  \/ \E c \in Chars : ChannelAuth(s, c) \/ AlreadyThere(s, c)
                  \/ \E type \in Columns : UpStat(s, type)

\* What happens while the connection to Redis, which is another module's, stays as it is.
PlayersStep == \/ \E s \in Sessions : SessionStep(s)
               \/ \E c \in Chars : Forget(c)

Next == \/ PlayersStep /\ UNCHANGED link
        \/ Dies /\ link' = TRUE
        \/ link' \in BOOLEAN /\ UNCHANGED pvars

Spec == Init /\ [][Next]_<<pvars, link>>

-----------------------------------------------------------------------------
(* Properties                                                              *)

Stat == [str : Nat, luck : Nat]
Entry == [session : Sessions, stat : Stat, missed : Nat]

\* The types of the variables.
TypeOK == /\ session \in [Sessions -> Chars \cup {Closed, NoPlayer}]
          /\ players \in [Chars -> Entry \cup {NoEntry}]
          /\ rows \in [Chars -> [Columns -> Nat]]
          /\ cached \in [Chars -> Stat]
          /\ ghosts \subseteq Chars
          /\ link \in BOOLEAN

\* A session's Player is in the table under its id and is the session's own: no other
\* session has it, and its disconnect frees it under nobody.
SessionHasItsPlayer == \A s \in Sessions : session[s] \in Chars =>
                          /\ players[session[s]] # NoEntry
                          /\ players[session[s]].session = s

\* A character can log in again as soon as its session has gone, unless that session
\* logged in as another character: then its entry refuses it as long as the server runs.
EntryHasItsSession == \A c \in Chars : players[c] # NoEntry /\ c \notin ghosts =>
                          session[players[c].session] = c

\* A log-in never finds less than what was raised before: the stats of a new Player are
\* those of the row, although an earlier log-in has left older ones in Redis.
LoginLoadsTheRow == [][\A c \in Chars : players[c] = NoEntry /\ players'[c] # NoEntry =>
                           players'[c].stat = Loaded(rows[c])]_<<pvars, link>>

\* A Player is never ahead of its row, and behind it only by the raises whose statement
\* reported an error since it was loaded: any other raise is in both, once each, although
\* not, after a "luk", in the same stat.  The next log-in makes up for what was missed.
RaisesAgree == \A c \in Chars : players[c] # NoEntry =>
                   players[c].stat.str + players[c].stat.luck + players[c].missed
                     = Raises(c)
=============================================================================
