# Verification of the LL2Games RPG server

TLA+ models of the game server in `src/SERVER`, the TLC runs that check them on
small instances, and TLAPS proofs of the properties that matter most. Paths
below are relative to `src/SERVER/src` unless they begin otherwise; `file:n`
is a line.

    tlc -workers 2 -config pool_threads.cfg MCThreadPool     (any run, see "Runs")
    tlapm ThreadPool_proofs.tla                              (any *_proofs module)

## 1. The system

The server is five daemons in C++17. MAIN starts the others and starts them again
when they die. LOGIN compares a name and a password with a row. WORLD shows
the characters and the channels. CHANNEL runs the game. CHAT sends the messages of
players. MySQL holds what lasts; Redis holds cached characters and the
state of the channels, with a time to live (`src/docs/ttl.md`).

A player's client talks to LOGIN, then to WORLD, then to one CHANNEL (and CHAT).
The daemons talk to each other through Redis and, for operator commands, through
POSIX message queues.

Nearly all of the state and all of the concurrency is in CHANNEL. Its threads:

| thread | runs | shares |
|---|---|---|
| GameLoop (`CHANNEL/app/ChannelServer.cpp:234`) | epoll: accept, one packet handler at a time, flush of send queues, disconnect | everything |
| MapManager (`CHANNEL/map/MapManager.cpp:40`) | every 2 s: submits a task per map, then deletes the maps in `m_destroyQueue` | `m_maps`, `m_destroyQueue`, `ThreadPool` |
| workers of the ThreadPool (`COMMON/thread/WorkerThread.cpp:40`) | `MapUpdateTask` (monsters, contact damage, map info to players, request of deletion), `ChannelStateUpdateTask` | maps, players, send queues, Redis |
| channel state (`CHANNEL/app/ChannelServer.cpp:424`, detached) | every 3 s: submits a `ChannelStateUpdateTask` with a time to live of 10 s | `ThreadPool` |
| CommandReceiver (`CHANNEL/ipc/CommandReceiver.cpp`) | reads the message queue and drops what it reads | nothing |

The pool's queues have mutexes and the list of players of a map has one for entering
and leaving. The other shared state is used without a lock.

### Inventory of components

| component | state | operations | what is hard | what makes it correct | status |
|---|---|---|---|---|---|
| Item trade (`CHANNEL/service/TradeService.cpp`, `packet/HandleTrade.cpp`) | `m_sessions`: id -> TradeSession with two Player pointers, ids, items, ready flags; rows of `character_inventory` | request, accept, add item, ready, cancel; the SQL transaction | pointers kept over disconnects; a sequence of UPDATEs that may fail at any point; COMMIT unchecked | exchange is atomic, agreed by both, rows stay keyed | modelled, proved |
| MySQL connection pool (`COMMON/db/MySqlConnectionPool.cpp`) | queue of connections | Get, Return | leaks, two threads on the queue | a connection is returned | partly, inside trades |
| ThreadPool, WorkerThread (`COMMON/thread`) | a queue, mutex, condition and flag per worker; `m_nextIndex` | Submit, PushTask, Run, Stop | lost wake-ups, stop against sleep, unlocked round robin | an accepted task runs once, in order; Stop ends | modelled, proved |
| Map lifecycle (`CHANNEL/map`, `service/MapService.cpp`) | `m_maps`, `m_destroyQueue`, player list, count and flags of a map; `m_currentMap` of a player | GetOrCreate, OnEnter, OnLeave, Update, RemoveMap | three threads, a deletion requested and served at different times, raw pointers, a 16-bit id | no map is deleted under a player; an empty map goes | partly (not its content), proved |
| Send queue (`CHANNEL/app/ChannelSession.cpp`) | `m_sendQueue`, `m_sendOffset`, EPOLLOUT | EnqueueSend, OnSend, FlushSend, Enable/DisableWriteEvent | partial sends; workers push beside the loop | whole packets, once, in order; none is left behind | modelled, proved |
| Inventory and drops (`CHANNEL/domain/Inventory.cpp`, `UseItemPacket`, `InventoryPacketHandler`, `MapInstance::PickupDropItem`) | slots of a player, drops of a map | AddItem, RemoveItemBySlot, MoveItemSlot, use, pickup, spawn | partial success; slots that vanish; owners that log out | bags of items, client in step with server | partly (one type), proved |
| Event loop (`CHANNEL/app/ChannelServer.cpp`) | sessions, receive buffers, user count | accept, receive, dispatch, send, disconnect | partial reads, close with data left, several sockets in one round | each packet handled once, in order, and answered | partly (the set-up of sockets is left out), proved |
| Players and log-in (`PlayerManager`, `ChannelInitHandler`, `PlayerService::LoadPlayer`) | `m_players`, `m_player` of a session, the rows, the character in Redis | accept, channel auth, log-out | two log-ins of one id or of one session, old copies in Redis, rows against memory | one Player per id, which is its session's | partly (skills, quick slots and the messages of a log-in are left out), proved |
| Monsters and combat (`CHANNEL/domain/Monster.cpp`, `service/CombatService.cpp`, `map/MapInstance.cpp`) | points, life, request and time of death of a monster; level, experience, points, time of grace of a player | attack, OnDamaged, Dead, Reset, AddExp, potion, move, contact | game loop against worker on the same monsters and players without a lock | paid once per death; a dead monster comes back, and not early | partly (not where a monster walks), proved |
| Channel state and selection (`ChannelServer.cpp:424`, `WORLD/app/ChannelManager.cpp`) | the key of the channel with its time to live, the user count | publish, read, decide | the value read is old, two commands for one write, updates that wait in the pool | a live channel stays seen, a dead one disappears, what is told becomes true | modelled, proved but for liveness |
| Process monitor (`MAIN`) | `m_pid` of each daemon, the watched pids | start, poll, restart, signal | every fork and pipe may fail, pids are reused, a signal at any point | a dead daemon comes back, one of each, a stop ends all | modelled, proved |
| Packet framing (`COMMON/packet/PacketParser.cpp`, the receive loop of each daemon) | receive buffer of a session, what is left of a round of select or epoll | receive, TryParse, Parse, disconnect | cut and joined packets (`src/partial_packet_test.py`), several chunks, clients that leave in the middle of a round | what was framed is what is parsed; nobody waits on a whole packet | partly (not the fields of a payload), proved |
| Quick slots (`CHANNEL/manager/QuickSlotManager.cpp`) | a table in the Player | SetSlot, RemoveSlot, ClearSlot | | | not modelled: one packet writes it, nobody reads it again and nothing writes it back |
| Statistics and experience (`CHANNEL/stat/CharacterStat.cpp`, `packet/HandleStat.cpp`) | level, exp, AP, the four stats and their row | AddExp, Up | the level loop at the end of its table; row and object know a stat by two names | levels as the table says, as many raises in the object as in the row | partly: AddExp is in Combat, Up in Players, proved |
| World server (`WORLD/app`) | sessions, cached characters | receive, list, select | one Parse per readiness, sockets that block | as for framing | partly: its loop is in Receive, CanEnterChannel in ChannelState; the cached SELECT behind the list is left out |
| Login server (`LOGIN/app`) | sessions | receive, log in | as for the world server; keeps the last chunk only | as for framing | partly: its loop is in Receive; the handler compares a password with a row |
| Chat server (`CHAT`) | a vector of clients | connect, message, whisper | erased while it is walked | as for framing | partly: its loop is in Receive up to the first undefined access; who gets a message is left out |
| Operator commands (`CHANNEL/ipc`) | | | | | not modelled: the receiver drops what it receives |
| Static data managers | tables read at start | | | | not modelled: nothing is written after start-up |
| Configuration, log, Redis client | | | | | partly: HSetAll as two commands and a connection that is never mended, in ChannelState |

`PROJECT.json` has the same list with the sources of each component, and the list of
hazards with the line where each bites and the properties that cover it.

## 2. Modules

    AtomicExchange <---refines--- TradeService --extends--> TradeRows
    TaskPool       <---refines--- ThreadPool
    ItemBag        <---refines--- Inventory
                                  MapLifecycle
                                  Combat
                                  ProcessMonitor
    Receive, SendQueue   <--instances-- SessionIO
    ChannelState, Players <--instances-- ChannelEntry
    X_proofs extends X;  MCX extends X and gives its constants small values

SendConstants declares what SendQueue and SessionIO have in common. SessionIO is the
two halves of a session in one loop, and every behaviour of it is one of SendQueue
(`ImplementsSendQueue`); ChannelEntry is the process, the connection to Redis and the user
count that ChannelState and Players share. The actions of a composed module call those of
its parts, and its properties name theirs.

Operators that begin with a comment "Mutant:" are wrong variants of the operator
that follows them, and no specification uses them. `PROJECT.json` pairs each property
with one of them: put in the place of the right operator it makes the run fail, which
shows that the property says something about that piece of code.

Everything the compiler leaves undefined and the code can reach (a freed Player, a
freed map, a null session) ends a behaviour: a variable (`alive`, `proc`) records that it
happened and no action follows. This is why the runs do not check for deadlock.
The standard containers that are touched by two threads without a lock are
taken to survive it; a torn container has no outcomes to choose from.

### TradeRows, TradeService (trade)

| in the model | in the code |
|---|---|
| `sessions`, `heap` | `m_sessions`, and the objects it points to; entry `Null` is what `m_sessions[id]` inserts |
| `online`, `Addrs` | `PlayerManager::m_players`; addresses are used again, as an allocator does |
| `db`, `txn.rows` | committed rows, and the rows the open transaction sees |
| `inv` | the slots in the Player object |
| `freeConns` | what is left in the connection pool |
| `hist` | history: who pressed Ready and offered what in a session, and whether a member has disconnected since it began |
| `TradeAccept`, `TradeAddItem(Null)`, `TradeReady`, `TradeCancel`, `NoSession` | the five handlers of `HandleTrade.cpp` with the calls they make (`NoSession`: Ready or Cancel without a session); the request handler only forwards a message |
| `ExecTransfer`, `ExecRollback`, `ExecCommit` | `TradeService::Execute`: one DecreaseItem/IncreaseItem pair; `goto err`; COMMIT (result unread) with the reload and the deletion after it |
| `Login`, `Disconnect`, `Restart` | `HandleChannelAuth`, `~ChannelSession`, the death of the process and the monitor's restart |
| `TradeRows` operators | the SQL statements, each as the set of row sets it can leave; empty when the code returns -1 |

A Player is known by its address because the code compares pointers to tell the sides
apart. The checks of `Start` (same map, both alive) depend on things a trade does
not change, so each outcome is possible at each time. Amounts are positive and one
character has one row per item at the start; that the statements keep it so is proved.
The rows come to the model through `InitialRows` (in `src/docs/db/schema.sql`
the key is character, type and slot).

### ThreadPool, TaskPool

A step is what a thread does between two accesses to shared state. `pc[w]` is where
worker w is in `Run`: Loop, Lock, Check (the predicate of `m_cv.wait`), Block (give the mutex up
and sleep), Waiting, Take, Execute, Done. `sub[s]` is where a submitting thread is in
`Submit`/`PushTask`, `stopper` where the destructor is in `ThreadPool::Stop`. The mutex is not a
variable: it is held in the program points of `HoldsMutex`, and by a submitter in "Pushing".
`m_nextIndex` is read and written in two steps (Load, Store) because two threads
do it without a lock. `accepted` and `executed` are history.
The release of the mutex and the sleep are one step of
`m_cv.wait`, as the standard promises, and a wait may end without a notification (`WakeUp`).

### MapLifecycle

`maps`, `destroyQ`, `inst` are `m_maps`, `m_destroyQueue` and the MapInstance objects
(an address may be used again); `current` is `Player::m_currentMap`. `game`, `mgr`, `worker`
are the positions of the three kinds of thread in `HandlePortalUse`, `MapManager::Update`
and `MapInstance::Update`. `dangling` holds the listed players whose object was freed.
The constructor leaves `m_has_player` and `m_destroyRequested` uninitialised, so `CreateMap`
chooses them. `expired` stands for the clock (`MAPDELETELIMIT` minutes since the last
leave). `evicted` is history: a map was deleted under a player. The content of a map
(monsters, drops, positions) is not in this module.

### SendQueue

One session. The GameLoop's `EnqueueSend`, `OnSend`, `FlushSend` and a worker's
`EnqueueSend` are cut at each access to the queue or to epoll. `send` takes any number
of bytes that fits the socket's buffer; `Drain` is the peer. A byte is
`<<packet, number>>`. `stranded` is history: EPOLLOUT went off while the queue held a
packet that no worker was about to announce.

In SessionIO the pushes of the GameLoop are the answers of the handlers, and OnSend comes
between two events. Alone, SendQueue is the module of `send_stuck`.

### Receive, SessionIO

| in the model | in the code |
|---|---|
| `daemon` | CHANNEL (epoll, `ChannelServer.cpp`), WORLD, LOGIN and CHAT (select): one module, since they are the same loop with four differences, each a test of `daemon` |
| `script`, `coming`, `cut`, `polite` | what each client is going to send, and whether it waits for a packet to be handled before it sends the next |
| `net`, `closed` | the receive buffer of a socket, and the peer's shutdown |
| `clients`, `round` | `m_sessions` or `m_clients`, and what is left of the events of one epoll_wait or of the set of one select |
| `at`, `parsing`, `buf` | where OnReceive is: the socket, whether the chunks are in the buffer of the session, and the local `buf` |
| `recvBuf`, `handled` | `m_recvBuf`; history: what reached a handler |
| `RecvSome`, `RecvAgain`, `RecvEnd` | recv with a chunk, with EAGAIN (only the channel's sockets do not block), with 0 |
| `Handle`, `NeedMoreData`, `InvalidPacket`, `ParseThrows` | what TryParse and Parse make of the front of the buffer |
| `Disconnect`, `RestAfterErase` | OnDisconnect; the element a loop by index skips, and the range-for of CHAT over the vector it erases from |
| `Handling`, `Receiving`, `OnSend`, `SendFails` of SessionIO | the order of one event in `GameLoop`: EPOLLRDHUP alone, or EPOLLIN and then EPOLLOUT |

A byte is the number of its packet and its place in it; the only content is the length in the
header. Bytes arrive one at a time, so every cut of the stream is possible. The fields
inside a payload are left out.

### ChannelState, Players, ChannelEntry

| in the model | in the code |
|---|---|
| `sleep`, `waiting`, `work` | UpdateChannelState (submit, sleep 3 s), the tasks in the pool and in its workers, with their age |
| `ReadCount`, `HSet`, `Expire`, `UpdateFails` | UpdateChannelStateToRedis: the state of `m_current_user_count`, and HSetAll, which is two commands |
| `key`, `Tick` | `channel:<id>:status` in Redis, and time |
| `CanEnterChannel` | what WORLD tells a client of the key, or of its absence |
| `session`, `players` | `m_sessions` with `m_player` of each, and PlayerManager's `m_players` |
| `rows`, `cached`, `WrittenName`, `ReadName` | `character_stat`; the character in Redis, the name of the key it is written under and of the one it is looked for |
| `ChannelAuth`, `AlreadyThere`, `UpStat`, `OnDisconnect` | HandleChannelAuth with LoadPlayer and AddPlayer, HandleStatUp, ~ChannelSession |
| `Accepting`, `Leaving` | OnAccept and OnDisconnect with the user count |
| `Crash`, `LinkBreaks`, `Start` | the process ends; hiredis loses its connection, which nothing mends; the monitor starts the process again |
| `served`, `halfDone`, `ghosts` | history: an update was completed since the start; the server was cut off between HSET and EXPIRE of a new key; characters whose session logged in again as another |

Time counts intervals rather than seconds: what matters of 3 and 10 is that one is less than the
other. A tick waits for the thread to submit but for no worker, so an update may be late by any
number of ticks. `HandleChannelAuth` takes the character that a client names,
and so does the model. Of the four stats two are modelled, the one that both sides
name alike and the one they do not. `cached` gives what a reader of that key would end up with, so that
a key that is gone and a key that says what the row says are one state.

### ProcessMonitor

A step lies between two calls of the kernel. `proc` is the process table: which daemon, or which
other process, runs under each pid. `phase` and `cur` are where MAIN is in StartDaemons, in the
AddWatch calls and in `Loop`; `stage` is where `BaseDaemon::Run` is, and its child goes on when
MAIN is gone. `pid` is `m_pid` until the daemon is watched and `WatchItem::pid` after, as nothing
reads `m_pid` then. Every failure that Run looks for is an action (`ForkFails`, `SecondForkFails`,
`WriteFails`, `ReadFails`); an exec that fails is a process that ends. Two of them end in a
read of 0 bytes, which the code takes for a pid: `pid2` was never written, and any pid is possible.
A number that is nobody's pid behaves as a pid without a process; 0 and the numbers below -1,
which `kill` takes for process groups, are left out. `CleanChildren` signals what is
in the list at that moment; a -1 in it reaches every process. Bounds: `MaxOthers`, `MaxLost`.

### Combat

One map that always has a player, so that the update of the map never asks for its deletion
(MapLifecycle is about that). `hp`, `alive`, `deadRequest`, `deadTime` are the members of a
Monster that two threads use, `level`, `exp`, `ap`, `curHp` the CharacterStat of a Player,
`nextHit` its `m_nextContactDamageAllowedMs`, and `dead` tells whether its state is DEAD.
`game` is where the GameLoop is in an attack (Check, Damage, Request, Stamp, Die in
`OnDamaged` and `Dead`; Reward, Level in `ResolveSkillHit` and `AddExp`) or in a potion (Add,
Cut, Fill in `AddHP`); `worker` is where the update is in `SpawnMonster` (Spawn), `Reset`
(Heal, Revive, Clear) or `ProcessContactDamage` (Players, Touch, Read, Fall, Write). Each
step makes one access to what both threads use; the order of the stores is that of the program,
which the compiler need not keep. `HandleMove` waits for the mutex that the worker holds
from the first player to the last; nothing else does. Which monsters an attack reaches and which
touch a player, what a hit deals and whether CanAttack lets the attack through are choices.
Updates of one map do not overlap here: with a period of 2 s and one task per period two
workers meet only when an update outlasts the period. `blow` and `deaths` are history.

### Inventory, ItemBag

`slots[p]` is `Inventory::m_slots`, a function whose domain may lack positions
(`RemoveItemBySlot` erases) or go beyond `MaxSlot` (`SetSlotItem` of a row). `AddItem` is
the two loops of the code, one position after the other: `Turn` is one pass through a loop's body
(`Fill` in the first loop, `Open` in the second), and `after[n]` what `n` turns leave. `End` is past every position
of a slot, those of the rows too. A row holds at least one of its item and may hold more than a stack, because a trade adds to
a row without looking (TradeService.cpp:463). `drops` and `dropId` are those of
MapInstance; `view` is what a client knows from the messages it was sent. Everything runs in
the GameLoop, so an action is a whole packet. Left out: the effect of an item
on HP and MP, the distance to a drop, several inventory types side by side.

## 3. Runs

Between them the runs of a module take all of its actions. The instance that each cfg gives:

| run | instance | shows |
|---|---|---|
| `trade_items` | 2 players, 1 session object at a time, 2 items, amounts to 2, 1 offer a side, 2 slots | `SessionTableSound`: Accept overwrites entries and Cancel erases both ids whatever they map to by now, and still no entry leads to a freed session or to one of other players (a third player, who trades with one of a pair while the first session is on the heap, is left to the proofs, which hold for any number). `RowsSound`, `ConsentedTrade`; `TradeIsAtomicExchange`: SQL errors, an unread COMMIT and process death only ever leave a complete exchange or none. Two slots make the slot number overflow its column. |
| `pool_threads` | 2 workers, 2 tasks, 2 submitters, destructor | `NoLostWakeup`, `RunsInOrder`; `ImplementsTaskPool`; `AcceptedIsRun` under fairness. Two submitters race for `m_nextIndex` and for one queue. |
| `map_lifecycle` | maps 57600 and 100000000, 1 player, 1 worker, 2 addresses | `TableSound`, `CurrentMapLists`; `EmptyMapGoes` under fairness: the request to delete a map that stays empty is never lost. Two addresses let an object be used again for the other map; 57600 is what 16 bits keep of 100000000, the id of the repository's map, so the request of one map deletes the other. Any number of players and workers is in the proofs. |
| `session_io` | each daemon; up to 3 clients, packets of 3 and 2 bytes and a malformed one, a chunk of 3, a header of 2; answers of 2 and 1 bytes, a socket that takes 1, a worker | What is received: `HandledAsSent`, `BlocksOnlyOnFullChunk`, `NothingWhollyKept`, `EveryPacketHandled`. What is sent: `StreamIntact`, `PendingIsAttended`, `GoesQuiet`. From one socket to the other: `EveryRequestAnswered`. A packet of exactly a chunk makes recv be called again; two packets of a client are cut and joined in every way; two clients that leave in one round make the loops that erase skip and run over. |
| `channel_entry` | 2 clients, 2 characters, 1 raise, 1 worker, an interval of 1 and a time to live of 2, 2 users at most | `UsersAreSessions`, `SessionHasItsPlayer`, `EntryHasItsSession`, `RaisesAgree`, `LoginLoadsTheRow`; `SeenWhileAlive`; `DeadDisappears`, `StateCatchesUp` under fairness. Two clients ask for one character, one client for two; the server and its connection to Redis fail at any point. A time to live of two intervals is the shortest that lets an update be late and the key live; more workers, which carry updates out in any order, are in the proof of `SeenWhileAlive`. |
| `inventory` | 2 players, a stackable (2) and a plain item, 3 positions of which 2 are enabled, 2 drops | `SlotsSound`, `ClientSeesSlots`, `FillsInOrder`, `FailsOnlyWhenFull`; `ImplementsItemBag`. One player begins with a row beyond the last position, or with one in a position that is not enabled and one of more than a stack. |
| `combat` | 2 monsters that one or two hits kill, 1 player, 4 levels, clock to 3 with a respawn after 1 and a grace of 2 | `ExpIsEarned`, `LifeAndHpAgree`, `NoEarlyRespawn`, `GraceKept`; `DeadMonsterReturns` under fairness. An attack may name a monster that dies, comes back or is being brought back while the other is hit; the first death pays for two levels at once, the second for the last of the table. The clock leaves time for a second life of each monster. |
| `monitor` | 2 daemons, 4 pids, 1 other process, 1 lost report | `OneProcess`, `StopLeavesNone`; `ComesBack` under fairness. Two daemons let the pid of one be given to the other, a lost report makes a third process of daemons, and with another process beside them one pid is left for every start. |

Bounds are constants with a comment where they are declared: `MaxOffers`, `MaxAmount`,
`MaxPending` (tasks waiting for one map), `MaxQueue` (length of `m_destroyQueue`), `MaxTime`, `MaxDrops`,
`MaxCount`, `MaxRaises`, `MaxWaiting` (updates of the channel state in the pool's queue: two, so that one can
be overtaken by time while another waits behind it). `Packets` and `Tasks` are each used once.

### Disagreements between the code and its comments

Four runs are expected to fail; the trace of each is the finding.

| run | the code says | the model shows |
|---|---|---|
| `trade_consent` | TradeService.cpp:154: the exchange runs after the other side's Ready was confirmed | A member that reconnects is a new object; Ready compares pointers (:149), so its Ready sets the *other* side's flag and the test at :155 is true at once. |
| `pool_stop` | WorkerThread.cpp:54: after Stop the worker ends | `m_running = false` and `notify_all` (:20, :21) are outside the mutex and may fall between the predicate and the sleep: the worker sleeps for ever and `join` with it. |
| `map_occupied` | MapManager.cpp:97: a map is deleted when no player is in it | A worker asks for the deletion, a player enters, the manager serves the request (:203): nobody looks at the list again. |
| `send_stuck` | ChannelServer.cpp:486: data in the queue are watched by EPOLLOUT | A worker pushes and enables between `HasPendingSend` and `DisableWriteEvent` (:73, :75): its packet waits until somebody sends to the session again. |

The properties of the passing runs are stated around them, and say where: `ConsentedTrade` while no
member has disconnected, `AcceptedIsRun` unless the worker was stopped, `CurrentMapLists` while no map
was deleted under a player, `PendingIsAttended` unless `stranded`,
`EveryRequestAnswered` unless the same.

### What the models do that no run states

The code does the following and the models do it too, but the repository says nothing
to the contrary that a run could check against:

- Ready or Cancel without a session inserts a null entry (TradeService.cpp:109, :350);
  an upload after it dereferences it (`TradeAddItemNull`).
- `Execute` takes a connection (TradeService.cpp:166) and never returns it (`freeConns`).
- After a trade the inventory in memory keeps a slot whose row was traded away
  (HandleTrade.cpp:351, `LoadInventory`), and the receiver's room is not looked at
  (TradeService.cpp:463).
- A worker that is stopped before it waits leaves its queue unserved (WorkerThread.cpp:42),
  and a task pushed after Stop is destroyed (:31).
- `m_mapID` is 16 bits (MapInstance.h:92, assigned at MapInstance.cpp:31). The request of map 100000000
  names map 57600, which RemoveMap does not find, and is not repeated: the only map of the repository
  is never deleted (`MapIdOf`). `EmptyMapGoes` is about ids that fit.
- A portal enters the new map without leaving the old one (MapService.cpp:25): the old
  map lists the player and, after a disconnect, a freed object (`dangling`).
- The inventory is never written back: a log-in has the rows of the table again (`Login`).
- A slot that is used up is erased (Inventory.cpp:160) and its position takes nothing until the
  next log-in; one position more than `m_current_slot_size` is enabled (:19).
- A pickup that fits only in part keeps the part, and leaves the whole drop on the ground
  (MapInstance.cpp:474): `TakePart` of ItemBag.
- The owner of a drop is never cleared (`CheckDropItem` has no caller), so a drop of a player who
  left can be neither taken nor asked about (`OwnerIsGone`).

- A player is tested once before the loop over the monsters (MapInstance.cpp:350), so every monster
  that touches it in one pass hits it, also when it is dead already, against the "1 second of grace" of
  OnDamagedPacket.cpp:16 as one might read it. `GraceKept` is about two passes.
- A potion and a contact read and write `m_cur_hp` without a lock: one may undo the other, and the points
  may stay above the maximum (`AddHp`, `WriteHp`).
- A move sets the state of a dead player to MOVE (MapInstance.cpp:234): it is alive again with no points.
- Beside the models: SendMonsterMove (MapInstance.cpp:273) puts every monster that is alive into
  E_Move at each update, so the chase that Monster.cpp:328 starts lasts one update at most; projectiles are added
  (Monster.cpp:182) and neither moved nor removed, as their update is commented out (MapInstance.cpp:62).

- A session that logs in a second time gets another Player, and the first stays in `m_players` with nobody to
  remove it (ChannelInitHandler.cpp:96): its character is refused until the server ends (`ghosts`).
- LoadPlayer writes "characterID<id>" and reads "characterID:<id>" (PlayerService.cpp:98, :38), so Redis never
  serves a log-in, and a log-in without Redis fails with the rows in hand. `LoginLoadsTheRow` holds because of it.
- A raise of "luk" raises str in memory: BaseStat calls it "luck", and a name that no field has stands for the
  first field (CharacterStat.cpp:54). The row has it right, and the next log-in with it (`Up`).
- A channel that is cut off between HSET and EXPIRE of a new key leaves the key for ever (RedisClient.cpp:172,
  `halfDone`): WORLD goes on to offer the channel.
- LOGIN keeps only the last of several chunks (`Kept`, `dropped`). A daemon on select parses one packet per
  readiness, so a packet that came with another waits for the next bytes; and it is left standing in recv after a
  chunk that was full (`Blocked`). CHAT erases from the vector it walks (`VisitDeleted`).
- A negative length ends WORLD, LOGIN and CHAT with an exception (`ParseThrows`).
- Bytes that arrived before an EPOLLRDHUP or before a recv of 0 in the same round are lost with the session.

- A signal during Run leaves the daemon that is being started, and one before the first AddWatch
  leaves all (main.cpp:11); MAIN itself exits when the read of a pid fails (BaseDaemon.cpp:83).
- A daemon whose pid was given to another process before the loop looks stays dead as long as that
  process lives (`Hidden`), and a stop signals that process (ProcessMonitor.cpp:24, main.cpp:13).
- A daemon whose report is lost runs unwatched beside the one that is started next (`lost`).

## 4. Fairness

Only liveness uses it, and each assumption is a loop of the code:

- ThreadPool: every worker, every submission in progress and the destructor go on when
  they can (OS threads; tasks end). A spurious wake-up, a Submit or a Stop never has to
  happen. Weak fairness per thread is enough: the step of a thread that waits for the
  mutex is offered again, and tasks are finite.
- MapLifecycle: a packet is handled to its end, the manager and the workers loop, time
  passes. Nobody has to log in, use a portal or leave.
- SessionIO (and SendQueue): epoll and select are level-triggered, so the loop serves a ready socket
  again and again (`LoopStep`, one thread); what a client has begun to send arrives; a worker ends its
  EnqueueSend; the peer reads. Nobody has to close, send need not fail, and workers need not push.
- ChannelEntry: time passes, the detached thread wakes up and the worker works. Nobody has to connect,
  log in or leave, and nobody has to start the server again.

- Combat: the pool runs the update of the map again and again, and time passes. Nobody has to attack.

- ProcessMonitor: MAIN and the child of Run go on. The forks may fail again and again but not for
  ever for one daemon (strong fairness): the loop tries every two seconds, and a shortage of processes
  passes. Nothing has to crash, and no signal has to come.

TradeService and Inventory have no liveness property: each of their steps waits for a client.

## 5. Proofs

For every value of the constants, from the ASSUMEs of the modules alone:

| theorem (module) | says |
|---|---|
| `TypeCorrect`, `TableCorrect`, `TxnCorrect`, `RowsCorrect`, `TradeConsented` (TradeService_proofs) | `Spec => []P` for TypeOK, SessionTableSound, TxnSound, RowsSound, ConsentedTrade |
| `ImplementsExchange` (TradeService_proofs) | `Spec => TradeIsAtomicExchange`: in the eyes of the database every step is an exchange between two characters, or nothing |
| `TypeCorrect`, `PopCorrect`, `WakeupCorrect`, `OrderCorrect` (ThreadPool_proofs) | the same for TypeOK, PopsSomething, NoLostWakeup, RunsInOrder |
| `Implements` (ThreadPool_proofs) | `Spec => ImplementsTaskPool`: every step of the threads is a step or a stutter of TaskPool |
| `TypeCorrect`, `CountCorrect`, `TableCorrect`, `EntriesCorrect`, `CurrentCorrect` (MapLifecycle_proofs) | `Spec => []P` for TypeOK, CountIsSize, TableSound, EntriesApart, CurrentMapLists |
| `QueueCorrect` (SessionIO_proofs) | `Q!Spec => []P` for TypeOK, StreamIntact and PendingIsAttended of a send queue by itself |
| `HandledCorrect`, `BlocksCorrect`, `KeptCorrect` (SessionIO_proofs) | the same for HandledAsSent, BlocksOnlyOnFullChunk, NothingWhollyKept, for any clients, packets, header and chunk |
| `ImplementsSendQueue`, `StreamCorrect`, `AttendedCorrect` (SessionIO_proofs) | `Spec => Q!Spec`: the loop that receives and the loop that sends are one, and the queue notices nothing; so StreamIntact and PendingIsAttended hold there too |
| `TypeCorrect` (SessionIO_proofs, ChannelEntry_proofs) | `Spec => []TypeOK`, of both parts |
| `UsersCorrect`, `SessionCorrect`, `EntryCorrect`, `RaisesCorrect` (ChannelEntry_proofs) | `Spec => []P` for UsersAreSessions, SessionHasItsPlayer, EntryHasItsSession, RaisesAgree |
| `LoginCorrect`, `SeenCorrect` (ChannelEntry_proofs) | `Spec => P` for LoginLoadsTheRow, SeenWhileAlive, for any number of workers and any interval less than the time to live |
| `TypeCorrect`, `LifeCorrect`, `ExpCorrect` (Combat_proofs) | `Spec => []P` for TypeOK, LifeAndHpAgree, ExpIsEarned |
| `NoneReturnsEarly`, `GraceCorrect` (Combat_proofs) | `Spec => P` for NoEarlyRespawn, GraceKept |
| `SlotsCorrect`, `ViewCorrect` (Inventory_proofs) | `Spec => []P` for SlotsSound, ClientSeesSlots, for any players, items, rows and number of positions |
| `OrderCorrect`, `FailsCorrect` (Inventory_proofs) | `Spec => P` for FillsInOrder, FailsOnlyWhenFull |
| `ImplementsBags` (Inventory_proofs) | `Spec => ImplementsItemBag`: every packet is a step or a stutter of ItemBag |
| `TypeCorrect`, `OneProcessCorrect`, `StopCorrect` (ProcessMonitor_proofs) | `Spec => []P` for TypeOK and OneProcess, `Spec => StopLeavesNone` |

Assumptions: a non-empty pool of threads; rows keyed and one per item before the first
log-in; sentinels differ from the values they stand beside; packets are not empty and the socket buffer
holds a byte; pids are positive and there is a daemon; monsters have points and experience, hits take points; a row of an inventory holds at least one of its item, a stack has room for
one, and positions lie before `End`; a packet says in its
header how long it is, or says less than a header; the sessions are finitely many and the interval is less than the time to live.
Each is evaluated by TLC in every run of its module.

Arguments:

- **Trades.** None of the four invariants is inductive. `IInv` adds `OnlineDistinct` (two players
  online are two objects, without which the pointer comparison says nothing), `SidesSound`
  (in a session without a disconnect the pointers are those of the ids, a flag that is set was set by its owner, an
  item was put up by its owner) and `TxnConsent`. The first lemmas are about single statements: what
  each leaves is a set of rows of the right type, one row per item, one item per slot.
  The slot of an INSERT is above every slot of its type, which is what keeps the key. For the refinement of
  AtomicExchange the same statements are counted (`DecreaseItemCounts`, `IncreaseItemCounts`: with one row per item
  an UPDATE of "every row of the item" is an update of one), so that one transfer moves pieces between its two ends (`MovedConserves`);
  `TxnConserves`, the last conjunct of `IInv`, adds the transfers up: at every point of Execute the two characters together own in
  its rows what they own in the committed ones. COMMIT is then an exchange, or, in a trade with oneself, nothing.
- **Pool.** `IInv` adds where a task can be: with one submitter or in one queue
  (`InFlight`, `AcceptedSubmitted`, `AcceptedOnce`), and what a worker about to sleep knows (`BlocksOnEmpty`,
  `MutualExclusion`). NoLostWakeup then follows from the mutex alone: a push happens
  before the lock of the worker or after its sleep. `m_nextIndex` stays in range because each
  write is `% N` of some earlier value, lost updates or not.
- **Maps.** `IInv` adds what a thread inside a handler has at hand (`ThreadsHold`) and that lists are finite. The
  table needs `EntriesApart`: when RemoveMap frees a map no other entry may lead to it, and when EraseMap drops the
  entry its address may already be a new map, which then has an entry of its own. The lemmas about `Entered`,
  `Left` and `Forgotten` are about one object; every step then falls under `Calm` (no object is made, freed or left) or
  one of five others (`StepKinds`).
- **Send queue** (first part of SessionIO_proofs, as `Q!`). `StreamIntact` is inductive together with the types and `LoopWatches`; it describes the stream by its
  neighbours (each byte follows the one before in the pushed packets, the last is the one before the offset), so that
  it needs no recursive definition. The long step is FlushSome at the end of a packet.

- **Session.** HandledAsSent speaks of packets and the buffers hold bytes, cut anywhere. `Stream` joins what is
  left of a client on its way (buffer of the session, chunks at hand, socket); `InOrder` says of it that it begins with the first
  byte of the first packet not handled, goes through whole packets and ends at the last byte that arrived
  (`Follows`), in terms of neighbours, so that no induction over the stream is needed. `TakePacket` is Handle and `AddByte`
  is an arrival; every other step moves bytes within the stream. The answers go through `ImplementsSendQueue`, for
  which each action is a step of SendQueue or leaves the queue alone.
- **Channel entry.** `Renewal` is why the key of a live channel stays: it has the time to the next
  update and what the time to live leaves over the interval, or an update is under way that was submitted early enough; that the
  workers may finish in any order does not matter, as EXPIRE never shortens a time. UsersAreSessions is about a
  cardinality and takes one lemma for each session that opens or closes. SessionHasItsPlayer and EntryHasItsSession
  hold each other up: a disconnect removes the entry of a character only because the entry is its own.

- **Combat.** LifeAndHpAgree alone does not tell why the two threads keep out of each other's way on one
  monster. `GameKnows` and `WorkerKnows` do: whoever is dying is alive with no points, whoever comes back has
  a request and is dead (Heal, Revive) or has all its points (Clear), so the two are never the same monster.
  `Times` puts the blow before the stamp and both before the clock; only Revive raises `alive`, from a stamp that old. ExpIsEarned needs a fact about a
  recursive function, that `Spent` of a level more is `Spent` and the cost of the level (`SpentStep`); with it, each
  turn of AddExp's loop takes from `exp` what it adds to `Spent`, and a level that could still be paid for is there only while the loop runs.
- **Inventory.** What AddItem's two loops do is proved turn by turn. `Fill` and `Open` each do nothing, because
  the position has no room, or put some pieces there (`Places`); `LoopInv` says what n turns leave: every position passed over is full or
  nothing remains (`FullBefore`), what was put is in order (`InOrder`), what is gone from the hand is in the slots and no other item
  moved (`Conserves`), no stack is too high. It is carried from turn to turn by induction (`AddItemKeeps`), and FillsInOrder,
  FailsOnlyWhenFull and the step of ItemBag are read off its end. `SlotsInv` adds to SlotsSound that whoever is not there holds nothing.
  How much a bag holds is a sum over the positions, of which one lemma is needed: slots that differ in one position have sums that
  differ by what that position does (`TotalDiffers`).
- **Induction over numbers.** The provers do not instantiate the induction schemes of the library, which take a
  predicate as a parameter. `AllNaturals` gets the same from well-foundedness, which is stated about sets (`WFMin`): a set with 0 and with
  n + 1 for each of its n has all numbers. `Recursion` then says that a function defined by
  f[0] and f[n + 1] from f[n] exists, whatever the step; Sum, AddItem and Spent are such functions. Both modules that need it state it.
- **Process monitor.** OneProcess does not follow from itself: `KnowsDaemons` says that the process of a daemon is
  the one whose pid MAIN has at hand, in `pid` or, inside Run, in `pid2`, and that Run is never entered for a daemon that
  runs. A free watched pid then means no process, which is why `stat` is enough.

Checked by TLC only, not proved: the liveness properties (`AcceptedIsRun`, `EmptyMapGoes`, `EveryPacketHandled`, `GoesQuiet`,
`EveryRequestAnswered`, `DeadDisappears`, `StateCatchesUp`, `DeadMonsterReturns`, `ComesBack`), because fairness speaks of
ENABLED, which the prover does not handle. Every other property of a passing run is a theorem.

## 6. Not modelled

What the models leave out, and why:

- `src/SERVER/json.hpp` and the two copies of `slog` are libraries, and more than half of the lines of the
  repository. They are not this system's logic.
- Quick slots: a table of the Player that one packet writes, no other code reads and nothing writes back.
- The list of characters of WORLD (a SELECT behind a key of 300 seconds), the handlers of LOGIN (a comparison
  with a row) and of CHAT (a message to others): each reads, answers and keeps nothing.
- The managers of static data, and DropManager's choice of what a monster drops: tables read at start, and a random
  draw from them; what is drawn is a choice in Inventory.
- The operator commands, whose receiver drops what it reads. Configuration and log.
- The fields of a payload (ParseLengthPrefixedString) and MakePacket.
- Geometry: where a monster walks, which monsters an attack reaches (Collider.h) and how much it takes are choices in Combat.
  The last attacker that a monster follows is a pointer which a disconnect leaves behind
  (Monster.cpp:204); following it is undefined in the code and there is nothing after it to check.
- A connection taken by two threads from the pool's queue, which has no lock, and two commands at once on
  the one hiredis context (RedisClient.cpp): undefined in the libraries. The models take each as one access.
- A setsockopt that fails closes the listening socket (ChannelServer.cpp:323): a failure of the kernel's that leaves a server without clients.
- What a submission finds when `ThreadPool`'s destructor has freed the workers (ThreadPool.cpp:20): ThreadPool ends with
  the last join, and what comes after it in the code is undefined.
