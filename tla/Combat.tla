-------------------------------- MODULE Combat --------------------------------
(***************************************************************************)
(* Monsters and players on one map that always has a player.               *)
(*                                                                         *)
(* Two threads: the GameLoop handles the packets of attacks, potions and   *)
(* moves, and a worker of the pool runs MapInstance::Update.  They share   *)
(* the monsters and the players without a lock, except that HandleMove and *)
(* ProcessContactDamage hold m_playerMutex.  Steps lie between two shared  *)
(* accesses, and a store is seen in program order.  Updates of the map do  *)
(* not overlap.                                                            *)
(*                                                                         *)
(* Where things are is a choice: which monsters an attack reaches, which   *)
(* touch a player.  So is whether CanAttack allows the attack.  Left out:  *)
(* movement and m_state of a monster, which decide only where it walks,    *)
(* projectiles, whose update the code has disabled, and drops.             *)
(***************************************************************************)
EXTENDS Integers, Sequences, Functions

CONSTANTS
  NumMonsters,    \* size of m_monsterList
  Players,
  None,
  MonsterHp,      \* m_maxhp
  MonsterExp,     \* m_exp
  Damages,        \* what a skill may deal
  MaxTargets,     \* hit.max_targets of the skill
  RespawnDelay,   \* m_respawnDelay, in ticks of the clock
  NeedExp,        \* m_needExpTable, from level 1
  MaxHp,          \* m_derived.maxHp of a player
  ContactDamage,
  PotionHp,       \* hp_restore
  Cooldown,       \* m_contactDamageCooldownMs, in ticks
  MaxTime         \* bound: the clock stops there

ASSUME CombatAssumption ==
  /\ NumMonsters \in Nat /\ None \notin Players
  /\ MonsterHp \in Nat \ {0} /\ MonsterExp \in Nat \ {0} /\ Damages \subseteq Nat \ {0}
  /\ MaxTargets \in Nat /\ RespawnDelay \in Nat
  /\ NeedExp \in Seq(Nat) /\ MaxHp \in Nat \ {0} /\ ContactDamage \in Nat \ {0}
  /\ PotionHp \in Nat /\ Cooldown \in Nat /\ MaxTime \in Nat

VARIABLES
  hp, alive, deadRequest, deadTime,  \* of each Monster of m_monsterList
  level, exp, ap,                    \* of each Player: its CharacterStat
  curHp, dead, nextHit,              \* of each Player: m_cur_hp, DEAD, m_nextContactDamageAllowedMs
  game, attacker, hits, read,        \* where the GameLoop is, for whom, whom it hits, what it read
  worker, index, now, left,          \* where MapInstance::Update is, in which list
  victim, seen,                      \* the player it hits, what it read
  clock,                             \* steady_clock
  blow,                              \* history: when each monster was struck down
  deaths,                            \* history: the deaths each player has caused
  struckAt, struckBy                 \* history: the time of the last pass that hit each player,
                                     \* and the monsters that have hit the victim in this pass

monsterVars == <<hp, alive, deadRequest, deadTime>>
statVars == <<level, exp, ap>>
healthVars == <<curHp, dead, nextHit>>
gameVars == <<game, attacker, hits, read>>
workerVars == <<worker, index, now, left, victim, seen>>
contact == <<struckAt, struckBy>>
history == <<blow, deaths, contact>>
vars == <<monsterVars, statVars, healthVars, gameVars, workerVars, clock, history>>

Monsters == 1 .. NumMonsters

\* A monster that never died has an m_deadTime at the epoch, long before.  The
\* constructor of Player leaves m_CurrentState uninitialised.
Init == /\ hp = [m \in Monsters |-> MonsterHp]
        /\ alive = [m \in Monsters |-> TRUE]
        /\ deadRequest = [m \in Monsters |-> FALSE]
        /\ deadTime = [m \in Monsters |-> 0]
        /\ level = [p \in Players |-> 1]
        /\ exp = [p \in Players |-> 0]
        /\ ap = [p \in Players |-> 0]
        /\ curHp = [p \in Players |-> MaxHp]
        /\ dead \in [Players -> BOOLEAN]
        /\ nextHit = [p \in Players |-> -1]
        /\ game = "Idle" /\ attacker = None /\ hits = <<>> /\ read = 0
        /\ worker = "Idle" /\ index = 1 /\ now = 0 /\ left = {} /\ victim = None /\ seen = 0
        /\ clock = RespawnDelay
        /\ blow = [m \in Monsters |-> 0]
        /\ deaths = [p \in Players |-> 0]
        /\ struckAt = [p \in Players |-> -Cooldown] /\ struckBy = {}

Tick == /\ clock < MaxTime
        /\ clock' = clock + 1
        /\ UNCHANGED <<monsterVars, statVars, healthVars, gameVars, workerVars, history>>

-----------------------------------------------------------------------------
(* The GameLoop: an attack                                                 *)

Target == Head(hits)

NextTarget == /\ hits' = Tail(hits)
              /\ game' = IF Len(hits) = 1 THEN "Idle" ELSE "Check"
              /\ attacker' = IF Len(hits) = 1 THEN None ELSE attacker
              /\ UNCHANGED read

Goto(pc) == game' = pc /\ UNCHANGED <<attacker, hits, read>>

\* HandleAttack and ComputeHitMonsters: some monsters that are alive, the nearest first.
Attack(p) ==
  /\ game = "Idle"
  /\ \E n \in 1 .. MaxTargets : \E near \in [1 .. n -> {m \in Monsters : alive[m]}] :
       IsInjective(near) /\ hits' = near
  /\ game' = "Check" /\ attacker' = p
  /\ UNCHANGED <<monsterVars, statVars, healthVars, read, workerVars, clock, history>>

\* Mutant: a monster whose death is requested can be hit.
CheckAliveOnly ==
  /\ game = "Check"
  /\ IF ~alive[Target] THEN NextTarget ELSE Goto("Damage")
  /\ UNCHANGED <<monsterVars, statVars, healthVars, workerVars, clock, history>>

\* OnDamaged: a monster that is dead or dying is not hit.
CheckTarget ==
  /\ game = "Check"
  /\ IF ~alive[Target] \/ deadRequest[Target] THEN NextTarget ELSE Goto("Damage")
  /\ UNCHANGED <<monsterVars, statVars, healthVars, workerVars, clock, history>>

\* OnDamaged: the points are taken.
DamageTarget ==
  /\ game = "Damage"
  /\ \E d \in Damages :
       IF hp[Target] <= d
       THEN /\ hp' = [hp EXCEPT ![Target] = 0]
            /\ blow' = [blow EXCEPT ![Target] = clock]
            /\ Goto("Request")
       ELSE /\ hp' = [hp EXCEPT ![Target] = @ - d]
            /\ NextTarget
            /\ UNCHANGED blow
  /\ UNCHANGED <<alive, deadRequest, deadTime, statVars, healthVars, workerVars, clock, deaths, contact>>

\* Mutant: m_deadRequest is not set.
RequestForgotten ==
  /\ game = "Request"
  /\ Goto(IF alive[Target] /\ ~deadRequest[Target] THEN "Stamp" ELSE "Reward")
  /\ UNCHANGED <<monsterVars, statVars, healthVars, workerVars, clock, history>>

\* Dead: m_deadRequest, if the monster is alive and has none.
RequestDeath ==
  /\ game = "Request"
  /\ IF alive[Target] /\ ~deadRequest[Target]
     THEN deadRequest' = [deadRequest EXCEPT ![Target] = TRUE] /\ Goto("Stamp")
     ELSE UNCHANGED deadRequest /\ Goto("Reward")
  /\ UNCHANGED <<hp, alive, deadTime, statVars, healthVars, workerVars, clock, history>>

\* Mutant: m_isAlive is cleared before m_deadTime is set.
StampLast ==
  /\ game = "Stamp"
  /\ alive' = [alive EXCEPT ![Target] = FALSE]
  /\ Goto("Die")
  /\ UNCHANGED <<hp, deadRequest, deadTime, statVars, healthVars, workerVars, clock, history>>

\* Dead: m_deadTime.
StampDeath ==
  /\ game = "Stamp"
  /\ deadTime' = [deadTime EXCEPT ![Target] = clock]
  /\ Goto("Die")
  /\ UNCHANGED <<hp, alive, deadRequest, statVars, healthVars, workerVars, clock, history>>

\* Dead: m_isAlive.
Die ==
  /\ game = "Die"
  /\ alive' = [alive EXCEPT ![Target] = FALSE]
  /\ deaths' = [deaths EXCEPT ![attacker] = @ + 1]
  /\ Goto("Reward")
  /\ UNCHANGED <<hp, deadRequest, deadTime, statVars, healthVars, workerVars, clock, blow,
                 contact>>

\* ResolveSkillHit: the attacker is paid, whatever the state of the monster by now.
Reward ==
  /\ game = "Reward"
  /\ exp' = [exp EXCEPT ![attacker] = @ + MonsterExp]
  /\ Goto("Level")
  /\ UNCHANGED <<monsterVars, level, ap, healthVars, workerVars, clock, history>>

\* LevelManager::GetNeedExp: 0 for a level that is not in the table.
GetNeedExp(l) == IF l \in DOMAIN NeedExp THEN NeedExp[l] ELSE 0

CanLevelUp(p) == GetNeedExp(level[p]) > 0 /\ exp[p] >= GetNeedExp(level[p])

\* CharacterStat::AddExp, one turn of its loop; the points of the player come back.
LevelUp ==
  /\ game = "Level"
  /\ IF CanLevelUp(attacker)
     THEN /\ exp' = [exp EXCEPT ![attacker] = @ - GetNeedExp(level[attacker])]
          /\ level' = [level EXCEPT ![attacker] = @ + 1]
          /\ ap' = [ap EXCEPT ![attacker] = @ + 5]
          /\ curHp' = [curHp EXCEPT ![attacker] = MaxHp]
          /\ UNCHANGED gameVars
     ELSE NextTarget /\ UNCHANGED <<statVars, curHp>>
  /\ UNCHANGED <<monsterVars, dead, nextHit, workerVars, clock, history>>

-----------------------------------------------------------------------------
(* The GameLoop: a potion and a move                                       *)

\* AddHP reads m_cur_hp, adds to it, then compares it with the maximum and cuts it.
DrinkPotion(p) ==
  /\ game = "Idle"
  /\ game' = "Add" /\ attacker' = p /\ read' = curHp[p]
  /\ UNCHANGED <<monsterVars, statVars, healthVars, hits, workerVars, clock, history>>

AddHp ==
  /\ game = "Add"
  /\ curHp' = [curHp EXCEPT ![attacker] = read + PotionHp]
  /\ game' = "Cut" /\ read' = 0
  /\ UNCHANGED <<monsterVars, statVars, dead, nextHit, attacker, hits, workerVars, clock,
                 history>>

CutHp ==
  /\ game = "Cut"
  /\ IF curHp[attacker] > MaxHp THEN game' = "Fill" /\ UNCHANGED attacker
                                ELSE game' = "Idle" /\ attacker' = None
  /\ UNCHANGED <<monsterVars, statVars, healthVars, hits, read, workerVars, clock, history>>

FillHp ==
  /\ game = "Fill"
  /\ curHp' = [curHp EXCEPT ![attacker] = MaxHp]
  /\ game' = "Idle" /\ attacker' = None
  /\ UNCHANGED <<monsterVars, statVars, dead, nextHit, hits, read, workerVars, clock, history>>

\* The worker holds m_playerMutex from the first player to the last.
InContact == worker \in {"Players", "Touch", "Read", "Fall", "Write"}

\* HandleMove sets the state to MOVE, also of a player that is dead.
HandleMove(p) ==
  /\ game = "Idle" /\ ~InContact
  /\ dead' = [dead EXCEPT ![p] = FALSE]
  /\ UNCHANGED <<monsterVars, statVars, curHp, nextHit, gameVars, workerVars, clock, history>>

-----------------------------------------------------------------------------
(* The worker: SpawnMonster                                                *)

StartUpdate ==
  /\ worker = "Idle"
  /\ worker' = "Spawn" /\ now' = clock /\ index' = 1
  /\ UNCHANGED <<monsterVars, statVars, healthVars, gameVars, left, victim, seen, clock, history>>

\* IsAlive and CheckRespawnTime.
RespawnDue(m) == ~alive[m] /\ deadRequest[m] /\ now - deadTime[m] >= RespawnDelay

SpawnMonster ==
  /\ worker = "Spawn" /\ index \in Monsters
  /\ IF RespawnDue(index) THEN worker' = "Heal" /\ UNCHANGED index
                          ELSE index' = index + 1 /\ UNCHANGED worker
  /\ UNCHANGED <<monsterVars, statVars, healthVars, gameVars,
                 now, left, victim, seen, clock, history>>

\* Mutant: the points come back last.
ReviveFirst ==
  /\ worker = "Heal"
  /\ alive' = [alive EXCEPT ![index] = TRUE]
  /\ worker' = "Revive"
  /\ UNCHANGED <<hp, deadRequest, deadTime, statVars, healthVars, gameVars,
                 index, now, left, victim, seen, clock, history>>

\* Reset, the three members that the GameLoop looks at: m_hp, m_isAlive, m_deadRequest.
Heal ==
  /\ worker = "Heal"
  /\ hp' = [hp EXCEPT ![index] = MonsterHp]
  /\ worker' = "Revive"
  /\ UNCHANGED <<alive, deadRequest, deadTime, statVars, healthVars, gameVars,
                 index, now, left, victim, seen, clock, history>>

Revive ==
  /\ worker = "Revive"
  /\ alive' = [alive EXCEPT ![index] = TRUE]
  /\ worker' = "Clear"
  /\ UNCHANGED <<hp, deadRequest, deadTime, statVars, healthVars, gameVars,
                 index, now, left, victim, seen, clock, history>>

ClearRequest ==
  /\ worker = "Clear"
  /\ deadRequest' = [deadRequest EXCEPT ![index] = FALSE]
  /\ worker' = "Spawn" /\ index' = index + 1
  /\ UNCHANGED <<hp, alive, deadTime, statVars, healthVars, gameVars,
                 now, left, victim, seen, clock, history>>

-----------------------------------------------------------------------------
(* The worker: ProcessContactDamage                                        *)

StartContact ==
  /\ worker = "Spawn" /\ index \notin Monsters
  /\ worker' = "Players" /\ now' = clock /\ left' = Players
  /\ UNCHANGED <<monsterVars, statVars, healthVars, gameVars,
                 index, victim, seen, clock, history>>

\* Mutant: m_nextContactDamageAllowedMs is not looked at.
CanAlwaysBeHit(p) == ~dead[p]

\* A player that is alive and not in its time of grace.
CanBeHit(p) == ~dead[p] /\ nextHit[p] <= now

NextPlayer(p) ==
  /\ worker = "Players" /\ p \in left
  /\ left' = left \ {p}
  /\ worker' = (IF CanBeHit(p) THEN "Touch" ELSE "Players") /\ victim' = p /\ index' = 1
  /\ struckBy' = {}
  /\ UNCHANGED <<monsterVars, statVars, healthVars, gameVars, now, seen, clock,
                 blow, deaths, struckAt>>

EndUpdate ==
  /\ worker = "Players" /\ left = {}
  /\ worker' = "Idle" /\ victim' = None /\ index' = 1
  /\ struckBy' = {}
  /\ UNCHANGED <<monsterVars, statVars, healthVars, gameVars, now, left, seen, clock,
                 blow, deaths, struckAt>>

\* A monster that is alive may touch the player.
TouchMonster ==
  /\ worker = "Touch"
  /\ \/ index \in Monsters /\ alive[index] /\ worker' = "Read" /\ UNCHANGED index
     \/ index \in Monsters /\ index' = index + 1 /\ UNCHANGED worker
     \/ index \notin Monsters /\ worker' = "Players" /\ UNCHANGED index
  /\ UNCHANGED <<monsterVars, statVars, healthVars, gameVars,
                 now, left, victim, seen, clock, history>>

\* Player::OnDamaged: m_cur_hp is read, Dead sets the state, m_cur_hp is written.
ReadHp ==
  /\ worker = "Read"
  /\ worker' = "Fall" /\ seen' = curHp[victim]
  /\ UNCHANGED <<monsterVars, statVars, healthVars, gameVars,
                 index, now, left, victim, clock, history>>

Fall ==
  /\ worker = "Fall"
  /\ dead' = [dead EXCEPT ![victim] = @ \/ seen <= ContactDamage]
  /\ seen' = IF seen <= ContactDamage THEN 0 ELSE seen - ContactDamage
  /\ worker' = "Write"
  /\ UNCHANGED <<monsterVars, statVars, curHp, nextHit, gameVars,
                 index, now, left, victim, clock, history>>

WriteHp ==
  /\ worker = "Write"
  /\ curHp' = [curHp EXCEPT ![victim] = seen]
  /\ nextHit' = [nextHit EXCEPT ![victim] = now + Cooldown]
  /\ worker' = "Touch" /\ index' = index + 1 /\ seen' = 0
  /\ struckAt' = [struckAt EXCEPT ![victim] = now] /\ struckBy' = struckBy \cup {index}
  /\ UNCHANGED <<monsterVars, statVars, dead, gameVars, now, left, victim, clock, blow, deaths>>

-----------------------------------------------------------------------------
GameStep == \/ \E p \in Players : Attack(p) \/ DrinkPotion(p) \/ HandleMove(p)
            \/ CheckTarget \/ DamageTarget \/ RequestDeath \/ StampDeath \/ Die \/ Reward
            \/ LevelUp \/ AddHp \/ CutHp \/ FillHp

WorkerStep == \/ StartUpdate \/ SpawnMonster \/ Heal \/ Revive \/ ClearRequest
              \/ StartContact \/ (\E p \in Players : NextPlayer(p)) \/ EndUpdate
              \/ TouchMonster \/ ReadHp \/ Fall \/ WriteHp

Next == Tick \/ GameStep \/ WorkerStep

Spec == Init /\ [][Next]_vars

\* The pool runs the update of every tick of MapManager, and time passes.
FairSpec == Spec /\ WF_vars(WorkerStep) /\ WF_vars(Tick)

-----------------------------------------------------------------------------
(* Properties                                                              *)

MonsterType == /\ hp \in [Monsters -> Nat] /\ alive \in [Monsters -> BOOLEAN]
               /\ deadRequest \in [Monsters -> BOOLEAN] /\ deadTime \in [Monsters -> Nat]

PlayerType == /\ level \in [Players -> Nat] /\ exp \in [Players -> Nat] /\ ap \in [Players -> Nat]
              /\ curHp \in [Players -> Nat] /\ dead \in [Players -> BOOLEAN]
              /\ nextHit \in [Players -> Int]

\* Where the GameLoop is when it has nobody to hit.
NoTarget == {"Idle", "Add", "Cut", "Fill"}

GameType ==
  /\ game \in {"Idle", "Check", "Damage", "Request", "Stamp",
               "Die", "Reward", "Level", "Add", "Cut", "Fill"}
  /\ attacker \in Players \cup {None} /\ (game = "Idle" <=> attacker = None)
  /\ hits \in Seq(Monsters) /\ (game \in NoTarget <=> hits = <<>>)
  /\ read \in Nat

WorkerType ==
  /\ worker \in {"Idle", "Spawn", "Heal", "Revive", "Clear",
                 "Players", "Touch", "Read", "Fall", "Write"}
  /\ index \in 1 .. NumMonsters + 1 /\ now \in Nat /\ left \subseteq Players /\ seen \in Nat
  /\ worker \in {"Heal", "Revive", "Clear", "Read", "Fall", "Write"} => index \in Monsters
  /\ victim \in Players \cup {None}
  /\ worker \in {"Touch", "Read", "Fall", "Write"} => victim \in Players

TimeType == /\ clock \in Nat /\ blow \in [Monsters -> Nat] /\ deaths \in [Players -> Nat]
            /\ struckAt \in [Players -> Int] /\ struckBy \subseteq Monsters

\* Every variable has its type, and where a thread is tells what it has at hand.
TypeOK == MonsterType /\ PlayerType /\ GameType /\ WorkerType /\ TimeType

\* What levels 1 to l - 1 have cost.
Spent[l \in Nat] == IF l <= 1 THEN 0 ELSE Spent[l - 1] + GetNeedExp(l - 1)

\* A player has been paid once for every death it caused, although the monsters
\* come back meanwhile in another thread; every point is either in exp or was
\* spent on a level, each level with its five ability points, and after an attack
\* no level is left that could be paid for (ResolveSkillHit, CharacterStat::AddExp).
ExpIsEarned ==
  \A p \in Players :
    LET unpaid == IF game = "Reward" /\ attacker = p THEN 1 ELSE 0
    IN /\ Spent[level[p]] + exp[p] = MonsterExp * (deaths[p] - unpaid)
       /\ ap[p] = 5 * (level[p] - 1)
       /\ CanLevelUp(p) => game = "Level" /\ attacker = p

Dying(m) == game \in {"Request", "Stamp", "Die"} /\ Target = m
Returning(m) == worker \in {"Revive", "Clear"} /\ index = m

\* Whoever finds a monster that is alive and not dying finds points to take, and
\* a dead one has none and waits for its respawn (OnDamaged, Dead, Reset): the
\* three members agree, but for the steps of the thread that is changing them.
LifeAndHpAgree ==
  \A m \in Monsters :
    /\ alive[m] /\ ~Dying(m) => hp[m] > 0
    /\ ~alive[m] => deadRequest[m]
    /\ ~alive[m] /\ ~Returning(m) => hp[m] = 0
    /\ alive[m] /\ deadRequest[m] => Dying(m) \/ Returning(m)

\* A monster is not back before its delay has passed since it was struck down
\* (Dead, CheckRespawnTime).
NoEarlyRespawn ==
  [][\A m \in Monsters : ~alive[m] /\ alive'[m] => clock - blow[m] >= RespawnDelay]_vars

\* A dead monster comes back (SpawnMonster), if the clock has the time.
DeadMonsterReturns ==
  \A m \in Monsters :
    ~alive[m] /\ deadTime[m] + RespawnDelay <= MaxTime ~> alive[m]

\* Hits keep their distance: the first of a pass comes a cooldown after the last pass
\* that hit this player (CanTakeAnyContactDamage, Player.h:107), and after it only
\* monsters that have not hit in this pass may follow.  These follow at once: the
\* "1 second of grace" of OnDamagedPacket.cpp:16 does not hold inside a pass, since
\* MapInstance.cpp:350 looks at it before the loop over the monsters.
GraceKept ==
  worker \in {"Read", "Fall", "Write"} =>
    IF struckBy = {} THEN now - struckAt[victim] >= Cooldown ELSE index \notin struckBy

-----------------------------------------------------------------------------
(* The inductive invariant                                                 *)

\* Where the GameLoop is tells what it knows of its target, ...
GameKnows ==
  /\ game \in {"Damage", "Request"} => alive[Target] /\ ~deadRequest[Target]
  /\ game \in {"Stamp", "Die"} => alive[Target] /\ deadRequest[Target]
  /\ game \in {"Request", "Stamp", "Die"} => hp[Target] = 0
  /\ game = "Die" => deadTime[Target] >= blow[Target]

\* ... and where the worker is what it knows of the monster it brings back.
WorkerKnows ==
  /\ worker \in {"Heal", "Revive"} =>
       ~alive[index] /\ deadRequest[index] /\ now - deadTime[index] >= RespawnDelay
  /\ worker = "Clear" => alive[index] /\ deadRequest[index]
  /\ worker \in {"Revive", "Clear"} => hp[index] = MonsterHp

\* The time of grace ends a cooldown after the last hit, which may be this pass's.
GraceSet == \A p \in Players : struckAt[p] + Cooldown <= 0 \/ struckAt[p] + Cooldown <= nextHit[p]

\* Whom it may hit: one out of its time of grace when the pass came to it, and hit by
\* none but earlier monsters since.
VictimKnown == worker \in {"Touch", "Read", "Fall", "Write"} =>
                 IF struckBy = {} THEN now - struckAt[victim] >= Cooldown
                                  ELSE \A m \in struckBy : m < index

\* No time is later than the clock, and no death earlier than its blow.
Times == /\ now <= clock
         /\ \A m \in Monsters : /\ blow[m] <= clock
                                /\ ~alive[m] => deadTime[m] >= blow[m]

IInv == TypeOK /\ LifeAndHpAgree /\ GameKnows /\ WorkerKnows /\ GraceSet
        /\ VictimKnown /\ Times
=============================================================================
