---------------------------- MODULE MapLifecycle ----------------------------
(***************************************************************************)
(* The life of a MapInstance: created by the portal packet, entered and    *)
(* left by players, updated by the pool, deleted by MapManager.            *)
(*                                                                         *)
(* Threads: the GameLoop of ChannelServer (packets, disconnects), the      *)
(* thread of MapManager, and the workers of the pool.  Steps lie between   *)
(* two accesses to what they share without a lock.  An access to a freed   *)
(* MapInstance or Player is undefined: the model stops there.  The two     *)
(* containers that are touched without a lock (m_maps, m_destroyQueue) are *)
(* taken to survive it.                                                    *)
(***************************************************************************)
EXTENDS Naturals, Sequences, FiniteSets

CONSTANTS
  Players,
  MapIds,       \* the maps that have a data file
  Instances,    \* addresses of MapInstance objects; a freed one may be used again
  Workers,      \* worker threads of the pool
  None,
  MaxPending,   \* bound: tasks waiting in the pool for one map
  MaxQueue      \* bound: length of m_destroyQueue

ASSUME MapAssumption == /\ MapIds \subseteq Nat /\ None \notin Instances \cup Players
                        /\ MaxPending \in Nat /\ MaxQueue \in Nat

VARIABLES
  maps,      \* MapManager::m_maps
  destroyQ,  \* MapManager::m_destroyQueue
  inst,      \* the MapInstance objects; None when freed
  current,   \* Player::m_currentMap
  online,    \* the players that have a session and an entry in PlayerManager
  game,      \* where the GameLoop is in HandlePortalUse, for whom and with which map
  mgr,       \* where MapManager::Update is
  worker,    \* where each worker is in MapInstance::Update
  pending,   \* MapUpdateTasks in the pool
  evicted,   \* history: a map that a player was in has been deleted
  alive      \* no undefined access has happened

vars == <<maps, destroyQ, inst, current, online, game, mgr, worker, pending, evicted, alive>>

-----------------------------------------------------------------------------
\* m_mapID is a uint16_t.
MapIdOf(m) == m % 65536

Instance == [id : Nat, listed : SUBSET Players, dangling : SUBSET Players, count : Nat,
             hasPlayer : BOOLEAN, destroyRequested : BOOLEAN, expired : BOOLEAN,
             callback : BOOLEAN]

ASSUME FreedAssumption == None \notin Instance

Live(i) == inst[i] # None
IdleGame == [pc |-> "Idle", player |-> None, map |-> None]
IdleWorker == [pc |-> "Idle", map |-> None]

Init == /\ maps = [m \in MapIds |-> None]
        /\ destroyQ = <<>>
        /\ inst = [i \in Instances |-> None]
        /\ current = [p \in Players |-> None]
        /\ online = {}
        /\ game = IdleGame
        /\ mgr = [pc |-> "Submit", id |-> 0]
        /\ worker = [w \in Workers |-> IdleWorker]
        /\ pending = [i \in Instances |-> 0]
        /\ evicted = FALSE
        /\ alive = TRUE

Undefined == alive' = FALSE /\ UNCHANGED <<maps, destroyQ, inst, current, online, game, mgr,
                                           worker, pending, evicted>>

-----------------------------------------------------------------------------
(* The GameLoop                                                            *)

Login(p) == /\ alive /\ game.pc = "Idle"
            /\ p \notin online
            /\ online' = online \cup {p}
            /\ UNCHANGED <<maps, destroyQ, inst, current, game, mgr, worker, pending, evicted, alive>>

\* Mutant: SetCurrentMap before the map is entered, in a step of its own.
FindMapSetsCurrent(p, m) ==
  /\ alive /\ game.pc = "Idle"
  /\ p \in online
  /\ maps[m] # None
  /\ game' = [pc |-> "Enter", player |-> p, map |-> maps[m]]
  /\ current' = [current EXCEPT ![p] = maps[m]]
  /\ UNCHANGED <<maps, destroyQ, inst, online, mgr, worker, pending, evicted, alive>>

\* HandlePortalUse, GetOrCreate: the map is in the table.
FindMap(p, m) == /\ alive /\ game.pc = "Idle"
                 /\ p \in online
                 /\ maps[m] # None
                 /\ game' = [pc |-> "Enter", player |-> p, map |-> maps[m]]
                 /\ UNCHANGED <<maps, destroyQ, inst, current, online, mgr, worker, pending, evicted, alive>>

\* GetOrCreate: a new map.  The constructor leaves m_has_player and
\* m_destroyRequested uninitialised, and m_emptyTime at the epoch of the clock.
CreateMap(p, m, i) ==
  /\ alive /\ game.pc = "Idle"
  /\ p \in online
  /\ maps[m] = None /\ ~Live(i)
  /\ \E h, d \in BOOLEAN :
       inst' = [inst EXCEPT ![i] = [id |-> MapIdOf(m), listed |-> {}, dangling |-> {}, count |-> 0,
                                    hasPlayer |-> h, destroyRequested |-> d, expired |-> TRUE,
                                    callback |-> FALSE]]
  /\ maps' = [maps EXCEPT ![m] = i]
  /\ game' = [pc |-> "Callback", player |-> p, map |-> i]
  /\ UNCHANGED <<destroyQ, current, online, mgr, worker, pending, evicted, alive>>

\* A map without a data file: GetOrCreate answers nullptr and OnEnter runs on it.
EnterNoMap(p) == alive /\ game.pc = "Idle" /\ p \in online /\ Undefined

\* SetDestroyCallback, when the map is already in the table.
SetCallback ==
  /\ alive /\ game.pc = "Callback"
  /\ IF Live(game.map)
     THEN /\ inst' = [inst EXCEPT ![game.map].callback = TRUE]
          /\ game' = [game EXCEPT !.pc = "Enter"]
          /\ UNCHANGED <<maps, destroyQ, current, online, mgr, worker, pending, evicted, alive>>
     ELSE Undefined

\* OnEnter under m_playerMutex, as the instance after it.
Entered(r, p) ==
  LET more == [r EXCEPT !.listed = @ \cup {p}, !.count = @ + 1]
  IN IF r.count > 0 THEN more
     ELSE [more EXCEPT !.hasPlayer = TRUE, !.destroyRequested = FALSE, !.expired = TRUE]

\* SetCurrentMap and OnEnter.  The greeting goes through every listed Player.
OnEnter ==
  LET p == game.player
      i == game.map
  IN /\ alive /\ game.pc = "Enter"
     /\ IF ~Live(i) \/ (p \notin inst[i].listed /\ inst[i].dangling # {})
        THEN Undefined
        ELSE /\ current' = [current EXCEPT ![p] = i]
             /\ inst' = IF p \in inst[i].listed THEN inst
                                                ELSE [inst EXCEPT ![i] = Entered(@, p)]
             /\ game' = IdleGame
             /\ UNCHANGED <<maps, destroyQ, online, mgr, worker, pending, evicted, alive>>

\* Mutant: m_has_player is not reset.
LeftKeepsFlag(r, p) ==
  IF p \notin r.listed THEN r
  ELSE [r EXCEPT !.listed = @ \ {p}, !.dangling = @ \ {p}, !.count = @ - 1]

\* OnLeave under m_playerMutex, as the instance after it.
Left(r, p) ==
  LET rest == [r EXCEPT !.listed = @ \ {p}, !.dangling = @ \ {p}, !.count = @ - 1]
  IN IF p \notin r.listed THEN r
     ELSE IF r.count > 1 THEN rest
     ELSE [rest EXCEPT !.hasPlayer = FALSE, !.destroyRequested = FALSE, !.expired = FALSE]

\* The Player object of p is destroyed: what still lists it points to nothing.
Forgotten(r, p) == IF r # None /\ p \in r.listed THEN [r EXCEPT !.dangling = @ \cup {p}] ELSE r

\* ~ChannelSession: OnLeave of the current map, then RemovePlayer.
Disconnect(p) ==
  LET left == IF current[p] = None THEN inst ELSE [inst EXCEPT ![current[p]] = Left(@, p)]
  IN /\ alive /\ game.pc = "Idle"
     /\ p \in online
     /\ IF current[p] # None /\ ~Live(current[p])
        THEN Undefined
        ELSE /\ inst' = [i \in Instances |-> Forgotten(left[i], p)]
             /\ current' = [current EXCEPT ![p] = None]
             /\ online' = online \ {p}
             /\ UNCHANGED <<maps, destroyQ, game, mgr, worker, pending, evicted, alive>>

-----------------------------------------------------------------------------
(* MapManager::Update                                                      *)

Mapped == {i \in Instances : \E m \in MapIds : maps[m] = i}

\* A task for every map of the table.
SubmitUpdates ==
  /\ alive /\ mgr.pc = "Submit"
  /\ \A i \in Mapped : pending[i] < MaxPending
  /\ pending' = [i \in Instances |-> IF i \in Mapped THEN pending[i] + 1 ELSE pending[i]]
  /\ mgr' = [mgr EXCEPT !.pc = "Remove"]
  /\ UNCHANGED <<maps, destroyQ, inst, current, online, game, worker, evicted, alive>>

\* RemoveMap: one turn of its loop, up to the delete; then the sleep of Update.
RemoveMap ==
  /\ alive /\ mgr.pc = "Remove"
  /\ destroyQ # <<>>
  /\ LET m == Head(destroyQ) IN
     IF m \in MapIds /\ maps[m] # None
     THEN /\ inst' = [inst EXCEPT ![maps[m]] = None]
          /\ evicted' = (evicted \/ \E p \in Players : current[p] = maps[m])
          /\ mgr' = [pc |-> "Erase", id |-> m]
     ELSE UNCHANGED <<inst, mgr, evicted>>
  /\ destroyQ' = Tail(destroyQ)
  /\ UNCHANGED <<maps, current, online, game, worker, pending, alive>>

\* Mutant: the entry stays in the table.
EraseNothing == /\ alive /\ mgr.pc = "Erase"
                /\ mgr' = [pc |-> "Remove", id |-> 0]
                /\ UNCHANGED <<maps, destroyQ, inst, current, online, game, worker, pending, evicted, alive>>

EraseMap == /\ alive /\ mgr.pc = "Erase"
            /\ maps' = [maps EXCEPT ![mgr.id] = None]
            /\ mgr' = [pc |-> "Remove", id |-> 0]
            /\ UNCHANGED <<destroyQ, inst, current, online, game, worker, pending, evicted, alive>>

Sleep == /\ alive /\ mgr.pc = "Remove"
         /\ destroyQ = <<>>
         /\ mgr' = [mgr EXCEPT !.pc = "Submit"]
         /\ UNCHANGED <<maps, destroyQ, inst, current, online, game, worker, pending, evicted, alive>>

ManagerStep == SubmitUpdates \/ RemoveMap \/ EraseMap \/ Sleep

-----------------------------------------------------------------------------
(* The workers: MapInstance::Update without m_playerMutex                  *)

RunTask(w, i) == /\ alive /\ worker[w].pc = "Idle"
                 /\ pending[i] > 0
                 /\ pending' = [pending EXCEPT ![i] = @ - 1]
                 /\ worker' = [worker EXCEPT ![w] = [pc |-> "Update", map |-> i]]
                 /\ UNCHANGED <<maps, destroyQ, inst, current, online, game, mgr, evicted, alive>>

\* if (!m_has_player)
Update(w) ==
  /\ alive /\ worker[w].pc = "Update"
  /\ IF Live(worker[w].map)
     THEN /\ worker' = [worker EXCEPT ![w].pc = IF inst[worker[w].map].hasPlayer
                                                THEN "Send" ELSE "Request"]
          /\ UNCHANGED <<maps, destroyQ, inst, current, online, game, mgr, pending, evicted, alive>>
     ELSE Undefined

\* SpawnMonster, UpdateMonster, SendMapInfo, ProcessContactDamage: every listed Player.
SendMapInfo(w) ==
  LET i == worker[w].map IN
  /\ alive /\ worker[w].pc = "Send"
  /\ IF Live(i) /\ inst[i].dangling = {}
     THEN /\ worker' = [worker EXCEPT ![w] = IdleWorker]
          /\ UNCHANGED <<maps, destroyQ, inst, current, online, game, mgr, pending, evicted, alive>>
     ELSE Undefined

\* MapInstance::RemoveMap: the test ...
TestRequest(w) ==
  LET i == worker[w].map IN
  /\ alive /\ worker[w].pc = "Request"
  /\ IF Live(i)
     THEN /\ worker' = [worker EXCEPT ![w] =
                          IF ~inst[i].destroyRequested /\ inst[i].expired
                          THEN [@ EXCEPT !.pc = "Push"] ELSE IdleWorker]
          /\ UNCHANGED <<maps, destroyQ, inst, current, online, game, mgr, pending, evicted, alive>>
     ELSE Undefined

\* ... the assignment and the callback, if it is set by now.
RequestDestroy(w) ==
  LET i == worker[w].map IN
  /\ alive /\ worker[w].pc = "Push"
  /\ Len(destroyQ) < MaxQueue
  /\ IF Live(i)
     THEN /\ inst' = [inst EXCEPT ![i].destroyRequested = TRUE]
          /\ destroyQ' = IF inst[i].callback THEN Append(destroyQ, inst[i].id) ELSE destroyQ
          /\ worker' = [worker EXCEPT ![w] = IdleWorker]
          /\ UNCHANGED <<maps, current, online, game, mgr, pending, evicted, alive>>
     ELSE Undefined

WorkerStep(w) == \/ \E i \in Instances : RunTask(w, i)
                 \/ Update(w) \/ SendMapInfo(w) \/ TestRequest(w) \/ RequestDestroy(w)

\* MAPDELETELIMIT minutes have passed since the last player left.
Elapse(i) == /\ alive /\ Live(i) /\ ~inst[i].expired
             /\ inst' = [inst EXCEPT ![i].expired = TRUE]
             /\ UNCHANGED <<maps, destroyQ, current, online, game, mgr, worker, pending, evicted, alive>>

-----------------------------------------------------------------------------
GameStep == SetCallback \/ OnEnter

Next == \/ \E p \in Players : Login(p) \/ Disconnect(p) \/ EnterNoMap(p)
        \/ \E p \in Players, m \in MapIds :
              FindMap(p, m) \/ \E i \in Instances : CreateMap(p, m, i)
        \/ GameStep
        \/ ManagerStep
        \/ \E w \in Workers : WorkerStep(w)
        \/ \E i \in Instances : Elapse(i)

Spec == Init /\ [][Next]_vars

\* A packet is handled to its end, the manager and the workers loop, time passes.
\* No player has to log in, to use a portal or to disconnect.
Fairness == /\ WF_vars(GameStep)
            /\ WF_vars(ManagerStep)
            /\ \A w \in Workers : WF_vars(WorkerStep(w))
            /\ \A i \in Instances : WF_vars(Elapse(i))

FairSpec == Spec /\ Fairness

-----------------------------------------------------------------------------
(* Properties                                                              *)

\* The types of the variables.
TypeOK == /\ maps \in [MapIds -> Instances \cup {None}]
          /\ destroyQ \in Seq(Nat)
          /\ inst \in [Instances -> Instance \cup {None}]
          /\ current \in [Players -> Instances \cup {None}]
          /\ online \subseteq Players
          /\ game \in [pc : {"Idle", "Callback", "Enter"}, player : Players \cup {None},
                       map : Instances \cup {None}]
          /\ mgr \in [pc : {"Submit", "Remove", "Erase"}, id : Nat]
          /\ worker \in [Workers -> [pc : {"Idle", "Update", "Send", "Request", "Push"},
                                     map : Instances \cup {None}]]
          /\ pending \in [Instances -> Nat]
          /\ evicted \in BOOLEAN /\ alive \in BOOLEAN

\* OnEnter and OnLeave: m_playerCount is the size of m_playerList, and a map with a
\* player in it never looks empty to Update.
CountIsSize == \A i \in Instances : Live(i) =>
                  /\ inst[i].count = Cardinality(inst[i].listed)
                  /\ inst[i].listed # {} => inst[i].hasPlayer

\* The entry of m is about to be erased.
Erasing(m) == mgr.pc = "Erase" /\ mgr.id = m

\* GetOrCreate and RemoveMap: an entry of m_maps is a live map made for that id,
\* except between the delete and the erase; and every live map is in the table.
TableSound ==
  /\ \A m \in MapIds : maps[m] # None /\ ~Erasing(m) =>
        Live(maps[m]) /\ inst[maps[m]].id = MapIdOf(m)
  /\ \A i \in Instances : Live(i) => \E m \in MapIds : maps[m] = i

\* RemoveMap frees a map before it erases its entry, and the address may be used again:
\* two entries lead to one address only while one of them is being erased, and a live map
\* has an entry that is not.
EntriesApart ==
  /\ \A m, n \in MapIds : m # n /\ maps[m] = maps[n] /\ maps[m] # None => Erasing(m) \/ Erasing(n)
  /\ \A i \in Instances : Live(i) => \E m \in MapIds : maps[m] = i /\ ~Erasing(m)

\* HandlePortalUse and ~ChannelSession: as long as no map is deleted under a player, a
\* player's current map is live and lists it, so that OnLeave finds it at the disconnect.
CurrentMapLists ==
  ~evicted => \A p \in Players : current[p] # None =>
                 Live(current[p]) /\ p \in inst[current[p]].listed

Empty(i) == Live(i) /\ inst[i].listed = {}

\* A map that stays empty is deleted, when its id fits in m_mapID: the requests are
\* not lost between the workers that make them and the manager that serves them.
EmptyMapGoes ==
  \A m \in MapIds : m = MapIdOf(m) =>
     \A i \in Instances : (maps[m] = i /\ Empty(i)) ~> (maps[m] # i \/ ~Empty(i) \/ ~alive)

-----------------------------------------------------------------------------
(* The inductive invariant                                                 *)

\* A thread that is inside a handler, an update or a deletion has a map at hand.
ThreadsHold ==
  /\ game.pc # "Idle" => game.player \in Players /\ game.map \in Instances
  /\ \A w \in Workers : worker[w].pc # "Idle" => worker[w].map \in Instances
  /\ mgr.pc = "Erase" => mgr.id \in MapIds /\ maps[mgr.id] # None

ListsFinite == \A i \in Instances : Live(i) => IsFiniteSet(inst[i].listed)

\* What the theorems of MapLifecycle_proofs rest on.
IInv == /\ TypeOK /\ ThreadsHold /\ ListsFinite
        /\ CountIsSize /\ TableSound /\ EntriesApart /\ CurrentMapLists

-----------------------------------------------------------------------------
(* What the comments of the code say, and the code does not do             *)

\* "A reservation for deletion ... so that the map can be deleted when no player is in
\* it": a map with a player in it is not deleted.
OccupiedMapKept == [][\A i \in Instances : Live(i) /\ inst[i].listed # {} => inst'[i] # None]_vars
=============================================================================
