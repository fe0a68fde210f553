---------------------------- MODULE Combat_proofs ----------------------------
(* Proofs about Combat, for any number of monsters and players. *)
EXTENDS Combat, SequenceTheorems, WellFoundedInduction, TLAPS

-----------------------------------------------------------------------------
(* Types                                                                   *)

\* A list that is not empty has a head and a tail.
LEMMA HeadAndTail ==
  ASSUME NEW S, NEW s \in Seq(S), s # <<>>
  PROVE  Head(s) \in S /\ Tail(s) \in Seq(S) /\ (Len(s) = 1 <=> Tail(s) = <<>>)
<1>1. Head(s) \in S /\ Tail(s) \in Seq(S) /\ Len(Tail(s)) = Len(s) - 1
  BY HeadTailProperties
<1>2. Len(s) \in Nat
  BY LenProperties
<1>3. Tail(s) = <<>> <=> Len(Tail(s)) = 0
  BY <1>1, EmptySeq
<1>. QED
  BY <1>1, <1>2, <1>3

\* There is a monster to be hit, and somebody who hits.
LEMMA Targets ==
  ASSUME GameType, game \notin NoTarget
  PROVE  /\ Target \in Monsters /\ attacker \in Players
         /\ Tail(hits) \in Seq(Monsters) /\ (Len(hits) = 1 <=> Tail(hits) = <<>>)
<1>1. hits \in Seq(Monsters) /\ hits # <<>>
  BY DEF GameType, NoTarget
<1>2. attacker \in Players
  BY DEF GameType, NoTarget
<1>. QED
  BY <1>1, <1>2, HeadAndTail DEF Target

\* The GameLoop goes on to the next target, or stays with this one.
LEMMA NextTargetType ==
  ASSUME GameType, game \notin NoTarget, NextTarget
  PROVE  GameType'
BY Targets, CombatAssumption DEF NextTarget, GameType, NoTarget

\* Where a worker goes on is a place of the program.
LEMMA GotoType ==
  ASSUME GameType, game \notin NoTarget,
         NEW pc \in {"Check", "Damage", "Request", "Stamp", "Die", "Reward", "Level"}, Goto(pc)
  PROVE  GameType'
BY DEF Goto, GameType, NoTarget

\* The index of a monster can be raised by one.
LEMMA NextIndex ==
  /\ 1 \in 1 .. NumMonsters + 1
  /\ \A i \in Monsters : i \in 1 .. NumMonsters + 1 /\ i + 1 \in 1 .. NumMonsters + 1
BY CombatAssumption DEF Monsters

\* A level needs a number of experience.
LEMMA NeedExpType == \A l : GetNeedExp(l) \in Nat
BY CombatAssumption DEF GetNeedExp

\* What a step leaves alone keeps its type.
LEMMA SameMonsters == MonsterType /\ UNCHANGED monsterVars => MonsterType'
BY DEF MonsterType, monsterVars

\* Steps that leave a part of the state alone keep its type.
LEMMA SamePlayers == PlayerType /\ UNCHANGED <<statVars, healthVars>> => PlayerType'
BY DEF PlayerType, statVars, healthVars

LEMMA SameGame == GameType /\ UNCHANGED gameVars => GameType'
BY DEF GameType, gameVars

LEMMA SameWorker == WorkerType /\ UNCHANGED workerVars => WorkerType'
BY DEF WorkerType, workerVars

LEMMA SameTime == TimeType /\ UNCHANGED <<clock, history>> => TimeType'
BY DEF TimeType, history, contact

\* The start is well-typed.
LEMMA InitType == Init => TypeOK
<1>. SUFFICES ASSUME Init PROVE TypeOK
  OBVIOUS
<1>1. MonsterType
  BY CombatAssumption DEF Init, MonsterType
<1>2. PlayerType
  BY CombatAssumption DEF Init, PlayerType
<1>3. GameType
  BY CombatAssumption DEF Init, GameType, NoTarget
<1>4. WorkerType
  BY CombatAssumption, NextIndex DEF Init, WorkerType
<1>5. TimeType
  BY CombatAssumption DEF Init, TimeType
<1>. QED
  BY <1>1, <1>2, <1>3, <1>4, <1>5 DEF TypeOK

\* The type invariant is inductive: for each action, the parts it changes.
LEMMA StepType == TypeOK /\ [Next]_vars => TypeOK'
<1>. SUFFICES ASSUME MonsterType, PlayerType, GameType, WorkerType, TimeType, [Next]_vars
              PROVE  TypeOK'
  BY DEF TypeOK
<1>. USE DEF NoTarget
<1>1. CASE Tick
  <2>1. TimeType'
    BY <1>1 DEF Tick, TimeType, history, contact
  <2>. QED
    BY <1>1, <2>1, SameMonsters, SamePlayers, SameGame, SameWorker DEF Tick, TypeOK
<1>2. ASSUME NEW p \in Players, Attack(p) PROVE TypeOK'
  <2>1. GameType'
    <3>1. PICK n \in 1 .. MaxTargets : hits' \in [1 .. n -> {m \in Monsters : alive[m]}]
      BY <1>2 DEF Attack
    <3>2. hits' \in [1 .. n -> Monsters] /\ n \in Nat \ {0}
      BY <3>1, CombatAssumption
    <3>3. hits' \in Seq(Monsters) /\ hits' # <<>>
      BY <3>2
    <3>. QED
      BY <1>2, <3>3, CombatAssumption DEF Attack, GameType
  <2>. QED
    BY <1>2, <2>1, SameMonsters, SamePlayers, SameWorker, SameTime DEF Attack, TypeOK
<1>3. ASSUME NEW p \in Players, DrinkPotion(p) PROVE TypeOK'
  <2>1. GameType'
    BY <1>3, CombatAssumption DEF DrinkPotion, GameType, PlayerType
  <2>. QED
    BY <1>3, <2>1, SameMonsters, SamePlayers, SameWorker, SameTime DEF DrinkPotion, TypeOK
<1>4. ASSUME NEW p \in Players, HandleMove(p) PROVE TypeOK'
  <2>1. PlayerType'
    BY <1>4 DEF HandleMove, PlayerType, statVars
  <2>. QED
    BY <1>4, <2>1, SameMonsters, SameGame, SameWorker, SameTime DEF HandleMove, TypeOK
<1>5. CASE CheckTarget
  <2>1. GameType'
    BY <1>5, NextTargetType, GotoType DEF CheckTarget
  <2>. QED
    BY <1>5, <2>1, SameMonsters, SamePlayers, SameWorker, SameTime DEF CheckTarget, TypeOK
<1>6. CASE DamageTarget
  <2>1. MonsterType'
    <3>1. hp' \in [Monsters -> Nat]
      <4>1. PICK d \in Damages :
             hp' = [hp EXCEPT ![Target] = IF hp[Target] <= d THEN 0 ELSE hp[Target] - d]
        BY <1>6 DEF DamageTarget
      <4>2. Target \in Monsters /\ hp[Target] \in Nat /\ d \in Nat
        BY <1>6, Targets, CombatAssumption DEF DamageTarget, MonsterType
      <4>. QED
        BY <4>1, <4>2 DEF MonsterType
    <3>. QED
      BY <1>6, <3>1 DEF DamageTarget, MonsterType
  <2>2. GameType'
    BY <1>6, NextTargetType, GotoType DEF DamageTarget
  <2>3. TimeType'
    BY <1>6, Targets DEF DamageTarget, TimeType, contact
  <2>. QED
    BY <1>6, <2>1, <2>2, <2>3, SamePlayers, SameWorker DEF DamageTarget, TypeOK
<1>7. CASE RequestDeath
  <2>1. MonsterType'
    BY <1>7, Targets DEF RequestDeath, MonsterType
  <2>2. GameType'
    BY <1>7, GotoType DEF RequestDeath
  <2>. QED
    BY <1>7, <2>1, <2>2, SamePlayers, SameWorker, SameTime DEF RequestDeath, TypeOK
<1>8. CASE StampDeath
  <2>1. MonsterType'
    BY <1>8, Targets DEF StampDeath, MonsterType, TimeType
  <2>2. GameType'
    BY <1>8, GotoType DEF StampDeath
  <2>. QED
    BY <1>8, <2>1, <2>2, SamePlayers, SameWorker, SameTime DEF StampDeath, TypeOK
<1>9. CASE Die
  <2>1. MonsterType'
    BY <1>9, Targets DEF Die, MonsterType
  <2>2. GameType'
    BY <1>9, GotoType DEF Die
  <2>3. TimeType'
    BY <1>9, Targets DEF Die, TimeType, contact
  <2>. QED
    BY <1>9, <2>1, <2>2, <2>3, SamePlayers, SameWorker DEF Die, TypeOK
<1>10. CASE Reward
  <2>1. PlayerType'
    BY <1>10, Targets, CombatAssumption DEF Reward, PlayerType, healthVars
  <2>2. GameType'
    BY <1>10, GotoType DEF Reward
  <2>. QED
    BY <1>10, <2>1, <2>2, SameMonsters, SameWorker, SameTime DEF Reward, TypeOK
<1>11. CASE LevelUp
  <2>1. PlayerType'
    <3>1. CASE CanLevelUp(attacker)
      <4>1. /\ attacker \in Players /\ GetNeedExp(level[attacker]) \in Nat
            /\ exp[attacker] >= GetNeedExp(level[attacker])
        BY <1>11, <3>1, Targets, NeedExpType DEF LevelUp, CanLevelUp
      <4>2. exp' = [exp EXCEPT ![attacker] = exp[attacker] - GetNeedExp(level[attacker])]
        BY <1>11, <3>1 DEF LevelUp
      <4>3. exp' \in [Players -> Nat]
        BY <4>1, <4>2 DEF PlayerType
      <4>4. level' \in [Players -> Nat] /\ ap' \in [Players -> Nat]
        BY <1>11, <3>1, <4>1 DEF LevelUp, PlayerType
      <4>5. curHp' = [curHp EXCEPT ![attacker] = MaxHp] /\ UNCHANGED <<dead, nextHit>>
        BY <1>11, <3>1 DEF LevelUp
      <4>. QED
        BY <4>3, <4>4, <4>5, CombatAssumption DEF PlayerType
    <3>2. CASE ~CanLevelUp(attacker)
      BY <1>11, <3>2 DEF LevelUp, PlayerType, statVars
    <3>. QED
      BY <3>1, <3>2
  <2>2. GameType'
    BY <1>11, NextTargetType, SameGame DEF LevelUp
  <2>. QED
    BY <1>11, <2>1, <2>2, SameMonsters, SameWorker, SameTime DEF LevelUp, TypeOK
<1>12. CASE AddHp
  <2>1. PlayerType'
    BY <1>12, CombatAssumption DEF AddHp, PlayerType, GameType, statVars
  <2>2. GameType'
    BY <1>12 DEF AddHp, GameType
  <2>. QED
    BY <1>12, <2>1, <2>2, SameMonsters, SameWorker, SameTime DEF AddHp, TypeOK
<1>13. CASE CutHp
  <2>1. GameType'
    BY <1>13 DEF CutHp, GameType
  <2>. QED
    BY <1>13, <2>1, SameMonsters, SamePlayers, SameWorker, SameTime DEF CutHp, TypeOK
<1>14. CASE FillHp
  <2>1. PlayerType'
    BY <1>14, CombatAssumption DEF FillHp, PlayerType, GameType, statVars
  <2>2. GameType'
    BY <1>14 DEF FillHp, GameType
  <2>. QED
    BY <1>14, <2>1, <2>2, SameMonsters, SameWorker, SameTime DEF FillHp, TypeOK
<1>15. CASE StartUpdate
  <2>1. WorkerType'
    BY <1>15, NextIndex DEF StartUpdate, WorkerType, TimeType
  <2>. QED
    BY <1>15, <2>1, SameMonsters, SamePlayers, SameGame, SameTime DEF StartUpdate, TypeOK
<1>16. CASE SpawnMonster
  <2>1. WorkerType'
    BY <1>16, NextIndex DEF SpawnMonster, WorkerType
  <2>. QED
    BY <1>16, <2>1, SameMonsters, SamePlayers, SameGame, SameTime DEF SpawnMonster, TypeOK
<1>17. CASE Heal
  <2>1. MonsterType'
    BY <1>17, CombatAssumption DEF Heal, MonsterType, WorkerType
  <2>2. WorkerType'
    BY <1>17 DEF Heal, WorkerType
  <2>. QED
    BY <1>17, <2>1, <2>2, SamePlayers, SameGame, SameTime DEF Heal, TypeOK
<1>18. CASE Revive
  <2>1. MonsterType'
    BY <1>18 DEF Revive, MonsterType, WorkerType
  <2>2. WorkerType'
    BY <1>18 DEF Revive, WorkerType
  <2>. QED
    BY <1>18, <2>1, <2>2, SamePlayers, SameGame, SameTime DEF Revive, TypeOK
<1>19. CASE ClearRequest
  <2>1. MonsterType'
    BY <1>19 DEF ClearRequest, MonsterType, WorkerType
  <2>2. WorkerType'
    BY <1>19, NextIndex DEF ClearRequest, WorkerType
  <2>. QED
    BY <1>19, <2>1, <2>2, SamePlayers, SameGame, SameTime DEF ClearRequest, TypeOK
<1>20. CASE StartContact
  <2>1. WorkerType'
    BY <1>20 DEF StartContact, WorkerType, TimeType
  <2>. QED
    BY <1>20, <2>1, SameMonsters, SamePlayers, SameGame, SameTime DEF StartContact, TypeOK
<1>21. ASSUME NEW p \in Players, NextPlayer(p) PROVE TypeOK'
  <2>1. WorkerType'
    BY <1>21, NextIndex DEF NextPlayer, WorkerType
  <2>2. TimeType'
    BY <1>21 DEF NextPlayer, TimeType
  <2>. QED
    BY <1>21, <2>1, <2>2, SameMonsters, SamePlayers, SameGame DEF NextPlayer, TypeOK
<1>22. CASE EndUpdate
  <2>1. WorkerType'
    BY <1>22, NextIndex DEF EndUpdate, WorkerType
  <2>2. TimeType'
    BY <1>22 DEF EndUpdate, TimeType
  <2>. QED
    BY <1>22, <2>1, <2>2, SameMonsters, SamePlayers, SameGame DEF EndUpdate, TypeOK
<1>23. CASE TouchMonster
  <2>1. WorkerType'
    BY <1>23, NextIndex DEF TouchMonster, WorkerType
  <2>. QED
    BY <1>23, <2>1, SameMonsters, SamePlayers, SameGame, SameTime DEF TouchMonster, TypeOK
<1>24. CASE ReadHp
  <2>1. WorkerType'
    BY <1>24 DEF ReadHp, WorkerType, PlayerType
  <2>. QED
    BY <1>24, <2>1, SameMonsters, SamePlayers, SameGame, SameTime DEF ReadHp, TypeOK
<1>25. CASE Fall
  <2>1. PlayerType'
    BY <1>25 DEF Fall, PlayerType, WorkerType, statVars
  <2>2. WorkerType'
    BY <1>25, CombatAssumption DEF Fall, WorkerType
  <2>. QED
    BY <1>25, <2>1, <2>2, SameMonsters, SameGame, SameTime DEF Fall, TypeOK
<1>26. CASE WriteHp
  <2>1. PlayerType'
    BY <1>26, CombatAssumption DEF WriteHp, PlayerType, WorkerType, statVars
  <2>2. WorkerType'
    BY <1>26, NextIndex DEF WriteHp, WorkerType
  <2>3. TimeType'
    BY <1>26 DEF WriteHp, TimeType, WorkerType
  <2>. QED
    BY <1>26, <2>1, <2>2, <2>3, SameMonsters, SameGame DEF WriteHp, TypeOK
<1>27. CASE UNCHANGED vars
  BY <1>27, SameMonsters, SamePlayers, SameGame, SameWorker, SameTime DEF vars, TypeOK
<1>. QED
  BY <1>1, <1>2, <1>3, <1>4, <1>5, <1>6, <1>7, <1>8, <1>9, <1>10, <1>11, <1>12, <1>13, <1>14, <1>15,
     <1>16, <1>17, <1>18, <1>19, <1>20, <1>21, <1>22, <1>23, <1>24, <1>25, <1>26, <1>27
  DEF Next, GameStep, WorkerStep

\* The variables keep their types, whatever the sizes.
THEOREM TypeCorrect == Spec => []TypeOK
BY InitType, StepType, PTL DEF Spec

-----------------------------------------------------------------------------
(* Life and death of a monster                                             *)

\* The invariant holds at the start.
LEMMA InitInv == Init => IInv
<1>. SUFFICES ASSUME Init PROVE IInv
  OBVIOUS
<1>1. LifeAndHpAgree
  BY CombatAssumption DEF Init, LifeAndHpAgree
<1>2. GameKnows /\ WorkerKnows
  BY DEF Init, GameKnows, WorkerKnows
<1>3. GraceSet /\ VictimKnown /\ Times
  BY CombatAssumption DEF Init, GraceSet, VictimKnown, Times
<1>. QED
  BY <1>1, <1>2, <1>3, InitType DEF IInv

\* Only NextPlayer chooses a victim, and only WriteHp changes what is known of it.
LEMMA StepVictim == IInv /\ [Next]_vars => GraceSet' /\ VictimKnown'
<1>. SUFFICES ASSUME TypeOK, GraceSet, VictimKnown, [Next]_vars PROVE GraceSet' /\ VictimKnown'
  BY DEF IInv
<1>0. /\ index \in Nat /\ now \in Nat /\ struckBy \subseteq Nat /\ Cooldown \in Nat
      /\ nextHit \in [Players -> Int] /\ struckAt \in [Players -> Int]
  BY CombatAssumption DEF TypeOK, WorkerType, PlayerType, TimeType, Monsters
<1>1. ASSUME NEW p \in Players, NextPlayer(p) PROVE GraceSet' /\ VictimKnown'
  <2>1. UNCHANGED <<now, nextHit, struckAt>> /\ victim' = p /\ struckBy' = {}
    BY <1>1 DEF NextPlayer, healthVars
  <2>2. worker' = "Touch" => nextHit[p] <= now
    BY <1>1 DEF NextPlayer, CanBeHit
  <2>3. worker' = "Touch" => now - struckAt[p] >= Cooldown
    BY <1>0, <2>2 DEF GraceSet
  <2>4. worker' \in {"Touch", "Players"}
    BY <1>1 DEF NextPlayer
  <2>. QED
    BY <2>1, <2>3, <2>4 DEF GraceSet, VictimKnown
<1>2. CASE WriteHp
  <2>1. /\ victim \in Players /\ UNCHANGED <<now, victim>> /\ index' = index + 1
        /\ nextHit' = [nextHit EXCEPT ![victim] = now + Cooldown]
        /\ struckAt' = [struckAt EXCEPT ![victim] = now] /\ struckBy' = struckBy \cup {index}
    BY <1>2 DEF WriteHp, TypeOK, WorkerType
  <2>2. GraceSet'
    BY <1>0, <2>1 DEF GraceSet
  <2>3. \A m \in struckBy : m < index
    BY <1>2 DEF WriteHp, VictimKnown
  <2>. QED
    BY <1>0, <2>1, <2>2, <2>3 DEF VictimKnown
<1>3. CASE \/ StartUpdate \/ SpawnMonster \/ Heal \/ Revive \/ ClearRequest \/ StartContact
            \/ EndUpdate
  <2>1. worker' \notin {"Touch", "Read", "Fall", "Write"} /\ UNCHANGED <<nextHit, struckAt>>
    BY <1>3 DEF StartUpdate, SpawnMonster, Heal, Revive, ClearRequest, StartContact, EndUpdate,
       healthVars, history, contact
  <2>. QED
    BY <2>1 DEF GraceSet, VictimKnown
<1>4. CASE TouchMonster \/ ReadHp \/ Fall
  <2>1. /\ UNCHANGED <<now, victim, nextHit, struckAt, struckBy>> /\ index' \in {index, index + 1}
        /\ worker \in {"Touch", "Read", "Fall"}
    BY <1>4 DEF TouchMonster, ReadHp, Fall, healthVars, history, contact
  <2>. QED
    BY <1>0, <2>1 DEF GraceSet, VictimKnown
<1>5. CASE Tick \/ GameStep \/ UNCHANGED vars
  <2>1. UNCHANGED <<workerVars, nextHit, contact>>
    BY <1>5 DEF Tick, GameStep, Attack, DrinkPotion, HandleMove, CheckTarget, DamageTarget,
       RequestDeath, StampDeath, Die, Reward, LevelUp, AddHp, CutHp, FillHp, healthVars, history, vars
  <2>. QED
    BY <2>1 DEF workerVars, contact, GraceSet, VictimKnown
<1>. QED
  BY <1>1, <1>2, <1>3, <1>4, <1>5 DEF Next, WorkerStep

\* The invariant is inductive: for each action, the things it says.
LEMMA StepInv == IInv /\ [Next]_vars => IInv'
<1>. SUFFICES ASSUME IInv, [Next]_vars
              PROVE  LifeAndHpAgree' /\ GameKnows' /\ WorkerKnows' /\ Times'
  BY StepType, StepVictim DEF IInv
<1>. USE DEF IInv, TypeOK, MonsterType, GameType, WorkerType, TimeType, Target, NoTarget,
             monsterVars, gameVars, workerVars, history
<1>1. CASE Tick
  BY <1>1 DEF Tick,
     LifeAndHpAgree, Dying, Returning, GameKnows, WorkerKnows, Times
<1>2. ASSUME NEW p \in Players, Attack(p)
       PROVE  LifeAndHpAgree' /\ GameKnows' /\ WorkerKnows' /\ Times'
  BY <1>2 DEF Attack,
     LifeAndHpAgree, Dying, Returning, GameKnows, WorkerKnows, Times
<1>3. ASSUME NEW p \in Players, DrinkPotion(p)
       PROVE  LifeAndHpAgree' /\ GameKnows' /\ WorkerKnows' /\ Times'
  BY <1>3 DEF DrinkPotion,
     LifeAndHpAgree, Dying, Returning, GameKnows, WorkerKnows, Times
<1>4. ASSUME NEW p \in Players, HandleMove(p)
       PROVE  LifeAndHpAgree' /\ GameKnows' /\ WorkerKnows' /\ Times'
  BY <1>4 DEF HandleMove,
     LifeAndHpAgree, Dying, Returning, GameKnows, WorkerKnows, Times
<1>5. CASE CheckTarget
  BY <1>5, Targets DEF CheckTarget, Goto, NextTarget,
     LifeAndHpAgree, Dying, Returning, GameKnows, WorkerKnows, Times
<1>6. CASE DamageTarget
  <2>1. PICK d \in Damages :
          IF hp[Target] <= d
          THEN /\ hp' = [hp EXCEPT ![Target] = 0] /\ Goto("Request")
               /\ blow' = [blow EXCEPT ![Target] = clock]
          ELSE hp' = [hp EXCEPT ![Target] = hp[Target] - d] /\ NextTarget /\ UNCHANGED blow
    BY <1>6 DEF DamageTarget
  <2>2. /\ Target \in Monsters /\ alive[Target] /\ ~deadRequest[Target] /\ d \in Nat
        /\ game = "Damage" /\ UNCHANGED <<alive, deadRequest, deadTime, workerVars, clock>>
    BY <1>6, Targets, CombatAssumption DEF DamageTarget, GameKnows
  <2>3. CASE hp[Target] <= d
    <3>1. /\ hp' = [hp EXCEPT ![Target] = 0] /\ blow' = [blow EXCEPT ![Target] = clock]
          /\ game' = "Request" /\ hits' = hits
      BY <2>1, <2>3 DEF Goto
    <3>2. LifeAndHpAgree'
      BY <2>2, <3>1 DEF LifeAndHpAgree, Dying, Returning
    <3>3. GameKnows'
      BY <2>2, <3>1 DEF GameKnows
    <3>4. WorkerKnows'
      BY <2>2, <3>1 DEF WorkerKnows
    <3>5. Times'
      <4>1. now' <= clock'
        BY <2>2 DEF Times, workerVars
      <4>2. ASSUME NEW m \in Monsters
            PROVE  blow'[m] <= clock' /\ (~alive'[m] => deadTime'[m] >= blow'[m])
        <5>1. CASE m = Target
          BY <2>2, <3>1, <5>1
        <5>2. CASE m # Target
          BY <2>2, <3>1, <5>2 DEF Times
        <5>. QED
          BY <5>1, <5>2
      <4>. QED
        BY <4>1, <4>2 DEF Times
    <3>. QED
      BY <3>2, <3>3, <3>4, <3>5
  <2>4. CASE hp[Target] > d
    <3>0. hp[Target] \in Nat /\ hp[Target] - d > 0 /\ ~(hp[Target] <= d)
      BY <2>2, <2>4
    <3>1. /\ hp' = [hp EXCEPT ![Target] = hp[Target] - d] /\ UNCHANGED blow
          /\ game' \in {"Idle", "Check"}
      BY <2>1, <3>0 DEF NextTarget
    <3>2. LifeAndHpAgree'
      BY <2>2, <3>0, <3>1 DEF LifeAndHpAgree, Dying, Returning
    <3>3. WorkerKnows'
      BY <2>2, <3>1 DEF WorkerKnows
    <3>4. GameKnows' /\ Times'
      BY <2>2, <3>1 DEF GameKnows, Times
    <3>. QED
      BY <3>2, <3>3, <3>4
  <2>. QED
    BY <2>2, <2>3, <2>4
<1>7. CASE RequestDeath
  <2>1. /\ Target \in Monsters /\ alive[Target] /\ hp[Target] = 0 /\ game = "Request"
        /\ deadRequest' = [deadRequest EXCEPT ![Target] = TRUE] /\ game' = "Stamp" /\ hits' = hits
        /\ UNCHANGED <<hp, alive, deadTime, workerVars, clock, blow>>
    BY <1>7, Targets DEF RequestDeath, Goto, GameKnows
  <2>2. LifeAndHpAgree'
    BY <2>1 DEF LifeAndHpAgree, Dying, Returning
  <2>3. GameKnows'
    BY <2>1 DEF GameKnows
  <2>4. WorkerKnows'
    BY <2>1 DEF WorkerKnows
  <2>5. Times'
    BY <2>1 DEF Times
  <2>. QED
    BY <2>2, <2>3, <2>4, <2>5
<1>8. CASE StampDeath
  <2>1. /\ Target \in Monsters /\ alive[Target] /\ hp[Target] = 0 /\ game = "Stamp"
        /\ deadTime' = [deadTime EXCEPT ![Target] = clock] /\ game' = "Die" /\ hits' = hits
        /\ UNCHANGED <<hp, alive, deadRequest, workerVars, clock, blow>>
    BY <1>8, Targets DEF StampDeath, Goto, GameKnows
  <2>2. LifeAndHpAgree'
    BY <2>1 DEF LifeAndHpAgree, Dying, Returning
  <2>3. GameKnows'
    BY <2>1 DEF GameKnows, Times
  <2>4. WorkerKnows'
    BY <2>1, CombatAssumption DEF WorkerKnows
  <2>5. Times'
    BY <2>1 DEF Times
  <2>. QED
    BY <2>2, <2>3, <2>4, <2>5
<1>9. CASE Die
  <2>1. /\ Target \in Monsters /\ deadRequest[Target] /\ hp[Target] = 0
        /\ deadTime[Target] >= blow[Target] /\ game = "Die"
        /\ alive' = [alive EXCEPT ![Target] = FALSE] /\ game' = "Reward"
        /\ UNCHANGED <<hp, deadRequest, deadTime, workerVars, clock, blow>>
    BY <1>9, Targets DEF Die, Goto, GameKnows
  <2>2. LifeAndHpAgree'
    BY <2>1 DEF LifeAndHpAgree, Dying, Returning
  <2>3. GameKnows'
    BY <2>1 DEF GameKnows
  <2>4. WorkerKnows'
    BY <2>1, CombatAssumption DEF WorkerKnows
  <2>5. Times'
    BY <2>1 DEF Times
  <2>. QED
    BY <2>2, <2>3, <2>4, <2>5
<1>10. CASE Reward
  BY <1>10 DEF Reward, Goto,
     LifeAndHpAgree, Dying, Returning, GameKnows, WorkerKnows, Times
<1>11. CASE LevelUp
  BY <1>11 DEF LevelUp, NextTarget,
     LifeAndHpAgree, Dying, Returning, GameKnows, WorkerKnows, Times
<1>12. CASE AddHp
  BY <1>12 DEF AddHp,
     LifeAndHpAgree, Dying, Returning, GameKnows, WorkerKnows, Times
<1>13. CASE CutHp
  BY <1>13 DEF CutHp,
     LifeAndHpAgree, Dying, Returning, GameKnows, WorkerKnows, Times
<1>14. CASE FillHp
  BY <1>14 DEF FillHp,
     LifeAndHpAgree, Dying, Returning, GameKnows, WorkerKnows, Times
<1>15. CASE StartUpdate
  BY <1>15 DEF StartUpdate,
     LifeAndHpAgree, Dying, Returning, GameKnows, WorkerKnows, Times
<1>16. CASE SpawnMonster
  BY <1>16 DEF SpawnMonster, RespawnDue,
     LifeAndHpAgree, Dying, Returning, GameKnows, WorkerKnows, Times
<1>17. CASE Heal
  <2>1. /\ index \in Monsters /\ ~alive[index] /\ deadRequest[index] /\ worker = "Heal"
        /\ hp' = [hp EXCEPT ![index] = MonsterHp] /\ MonsterHp > 0 /\ worker' = "Revive"
        /\ UNCHANGED <<alive, deadRequest, deadTime, gameVars, index, now, clock, blow>>
    BY <1>17, CombatAssumption DEF Heal, WorkerKnows
  <2>2. LifeAndHpAgree'
    BY <2>1 DEF LifeAndHpAgree, Dying, Returning
  <2>3. GameKnows'
    BY <2>1, Targets DEF GameKnows
  <2>4. WorkerKnows' /\ Times'
    BY <2>1 DEF WorkerKnows, Times
  <2>. QED
    BY <2>2, <2>3, <2>4
<1>18. CASE Revive
  <2>1. /\ index \in Monsters /\ ~alive[index] /\ deadRequest[index] /\ hp[index] = MonsterHp
        /\ alive' = [alive EXCEPT ![index] = TRUE] /\ MonsterHp > 0
        /\ worker = "Revive" /\ worker' = "Clear"
        /\ UNCHANGED <<hp, deadRequest, deadTime, gameVars, index, now, clock, blow>>
    BY <1>18, CombatAssumption DEF Revive, WorkerKnows
  <2>2. LifeAndHpAgree'
    BY <2>1 DEF LifeAndHpAgree, Dying, Returning
  <2>3. GameKnows'
    BY <2>1, Targets DEF GameKnows
  <2>4. WorkerKnows' /\ Times'
    BY <2>1 DEF WorkerKnows, Times
  <2>. QED
    BY <2>2, <2>3, <2>4
<1>19. CASE ClearRequest
  <2>1. /\ index \in Monsters /\ alive[index] /\ deadRequest[index] /\ hp[index] = MonsterHp
        /\ deadRequest' = [deadRequest EXCEPT ![index] = FALSE] /\ MonsterHp > 0
        /\ worker = "Clear" /\ worker' = "Spawn"
        /\ UNCHANGED <<hp, alive, deadTime, gameVars, now, clock, blow>>
    BY <1>19, CombatAssumption DEF ClearRequest, WorkerKnows
  <2>2. LifeAndHpAgree'
    BY <2>1 DEF LifeAndHpAgree, Dying, Returning
  <2>3. GameKnows'
    BY <2>1, Targets DEF GameKnows
  <2>4. WorkerKnows' /\ Times'
    BY <2>1 DEF WorkerKnows, Times
  <2>. QED
    BY <2>2, <2>3, <2>4
<1>20. CASE StartContact
  BY <1>20 DEF StartContact,
     LifeAndHpAgree, Dying, Returning, GameKnows, WorkerKnows, Times
<1>21. ASSUME NEW p \in Players, NextPlayer(p)
       PROVE  LifeAndHpAgree' /\ GameKnows' /\ WorkerKnows' /\ Times'
  BY <1>21 DEF NextPlayer,
     LifeAndHpAgree, Dying, Returning, GameKnows, WorkerKnows, Times
<1>22. CASE EndUpdate
  BY <1>22 DEF EndUpdate,
     LifeAndHpAgree, Dying, Returning, GameKnows, WorkerKnows, Times
<1>23. CASE TouchMonster
  BY <1>23 DEF TouchMonster,
     LifeAndHpAgree, Dying, Returning, GameKnows, WorkerKnows, Times
<1>24. CASE ReadHp
  BY <1>24 DEF ReadHp,
     LifeAndHpAgree, Dying, Returning, GameKnows, WorkerKnows, Times
<1>25. CASE Fall
  BY <1>25 DEF Fall,
     LifeAndHpAgree, Dying, Returning, GameKnows, WorkerKnows, Times
<1>26. CASE WriteHp
  BY <1>26 DEF WriteHp,
     LifeAndHpAgree, Dying, Returning, GameKnows, WorkerKnows, Times
<1>27. CASE UNCHANGED vars
  BY <1>27 DEF vars, LifeAndHpAgree, Dying, Returning, GameKnows, WorkerKnows, Times
<1>. QED
  BY <1>1, <1>2, <1>3, <1>4, <1>5, <1>6, <1>7, <1>8, <1>9, <1>10, <1>11, <1>12, <1>13, <1>14, <1>15,
     <1>16, <1>17, <1>18, <1>19, <1>20, <1>21, <1>22, <1>23, <1>24, <1>25, <1>26, <1>27
  DEF Next, GameStep, WorkerStep

\* The invariant holds in every reachable state.
LEMMA Invariant == Spec => []IInv
BY InitInv, StepInv, PTL DEF Spec

\* Life, points and request of a monster agree (OnDamaged, Dead, Reset), for any
\* number of monsters, players and attacks.
THEOREM LifeCorrect == Spec => []LifeAndHpAgree
<1>1. IInv => LifeAndHpAgree
  BY DEF IInv
<1>. QED
  BY <1>1, Invariant, PTL

\* No monster is back before its delay is over (Dead, CheckRespawnTime): only
\* Revive brings one back, and the time it stands on is not later than the clock.
THEOREM NoneReturnsEarly == Spec => NoEarlyRespawn
<1>1. IInv /\ [Next]_vars =>
        [\A m \in Monsters : ~alive[m] /\ alive'[m] => clock - blow[m] >= RespawnDelay]_vars
  <2>. SUFFICES ASSUME IInv, [Next]_vars, NEW m \in Monsters, ~alive[m], alive'[m]
                PROVE  clock - blow[m] >= RespawnDelay
    OBVIOUS
  <2>1. CASE Revive
    <3>1. m = index
      BY <2>1 DEF Revive, IInv, TypeOK, MonsterType
    <3>2. now - deadTime[m] >= RespawnDelay /\ now <= clock /\ deadTime[m] >= blow[m]
      BY <2>1, <3>1 DEF Revive, IInv, WorkerKnows, Times
    <3>3. /\ now \in Nat /\ deadTime[m] \in Nat /\ clock \in Nat /\ blow[m] \in Nat
          /\ RespawnDelay \in Nat
      BY CombatAssumption DEF IInv, TypeOK, MonsterType, WorkerType, TimeType
    <3>. QED
      BY <3>2, <3>3
  <2>2. CASE Die
    BY <2>2, Targets DEF Die, IInv, TypeOK, MonsterType, NoTarget
  <2>3. CASE ~Revive /\ ~Die
    <3>1. UNCHANGED alive
      BY <2>3 DEF Next, GameStep, WorkerStep, vars, monsterVars, Tick, Attack, DrinkPotion,
         HandleMove, CheckTarget, DamageTarget, RequestDeath, StampDeath, Reward, LevelUp, AddHp,
         CutHp, FillHp, StartUpdate, SpawnMonster, Heal, ClearRequest, StartContact, NextPlayer, EndUpdate,
         TouchMonster, ReadHp, Fall, WriteHp
    <3>. QED
      BY <3>1
  <2>. QED
    BY <2>1, <2>2, <2>3
<1>. QED
  BY <1>1, Invariant, PTL DEF Spec, NoEarlyRespawn

\* The hits of two passes on one player are a cooldown apart, and in one pass no monster
\* hits twice (CanTakeAnyContactDamage, OnDamaged): for any number of monsters and
\* players, and any cooldown.
THEOREM GraceCorrect == Spec => []GraceKept
<1>1. IInv => GraceKept
  <2>. SUFFICES ASSUME IInv, worker \in {"Read", "Fall", "Write"}, struckBy # {}
                PROVE  index \notin struckBy
    BY DEF IInv, VictimKnown, GraceKept
  <2>1. \A m \in struckBy : m < index /\ m \in Nat
    BY CombatAssumption DEF IInv, VictimKnown, TypeOK, TimeType, Monsters
  <2>. QED
    BY <2>1
<1>. QED
  BY <1>1, Invariant, PTL

-----------------------------------------------------------------------------
(* Experience                                                              *)

\* Induction: a set that holds 0 and the successor of each of its numbers holds them all.
LEMMA AllNaturals ==
  ASSUME NEW S, 0 \in S, \A n \in Nat : n \in S => n + 1 \in S
  PROVE  \A n \in Nat : n \in S
<1>. DEFINE Missing == {n \in Nat : n \notin S}
<1>. SUFFICES ASSUME Missing # {} PROVE FALSE
  OBVIOUS
<1>1. \E m \in Missing : \A k \in Missing : <<k, m>> \notin OpToRel(<, Nat)
  BY NatLessThanWellFounded, WFMin
<1>2. PICK m \in Missing : \A k \in Missing : ~ (k < m)
  BY <1>1 DEF OpToRel
<1>3. m # 0 /\ m - 1 \in Nat /\ m - 1 < m
  BY <1>2
<1>4. m - 1 + 1 \in S
  BY <1>2, <1>3
<1>. QED
  BY <1>2, <1>4

\* RecursiveFunction: a step that leads from S to S can be repeated for ever.
Runs(S, first, step, n) ==
  {g \in [0 .. n -> S] : g[0] = first /\ \A i \in 0 .. n - 1 : g[i + 1] = step[i][g[i]]}

\* By induction, there are n steps for every n.
LEMMA RunsExist ==
  ASSUME NEW S, NEW first \in S, NEW step \in [Nat -> [S -> S]]
  PROVE  \A n \in Nat : Runs(S, first, step, n) # {}
<1>. DEFINE Reached == {n \in Nat : Runs(S, first, step, n) # {}}
<1>1. 0 \in Reached
  <2>1. [i \in 0 .. 0 |-> first] \in Runs(S, first, step, 0)
    BY DEF Runs
  <2>. QED
    BY <2>1
<1>2. ASSUME NEW n \in Nat, n \in Reached PROVE n + 1 \in Reached
  <2>1. PICK g : g \in Runs(S, first, step, n)
    BY <1>2
  <2>2. g[n] \in S /\ step[n][g[n]] \in S
    BY <2>1 DEF Runs
  <2>. DEFINE h == [i \in 0 .. n + 1 |-> IF i = n + 1 THEN step[n][g[n]] ELSE g[i]]
  <2>3. h \in [0 .. n + 1 -> S]
    BY <2>1, <2>2 DEF Runs
  <2>4. h[0] = first /\ h[n + 1] = step[n][g[n]]
    BY <2>1 DEF Runs
  <2>5. \A i \in 0 .. n : h[i] = g[i]
    OBVIOUS
  <2>. HIDE DEF h
  <2>6. ASSUME NEW i \in 0 .. n + 1 - 1 PROVE h[i + 1] = step[i][h[i]]
    <3>1. CASE i = n
      BY <3>1, <2>4, <2>5
    <3>2. CASE i # n
      <4>1. i \in 0 .. n - 1 /\ i \in 0 .. n /\ i + 1 \in 0 .. n
        BY <3>2
      <4>2. g[i + 1] = step[i][g[i]]
        BY <2>1, <4>1 DEF Runs
      <4>. QED
        BY <4>1, <4>2, <2>5
    <3>. QED
      BY <3>1, <3>2
  <2>7. h \in Runs(S, first, step, n + 1)
    BY <2>3, <2>4, <2>6 DEF Runs
  <2>. QED
    BY <2>7
<1>. HIDE DEF Reached
<1>3. \A n \in Nat : n \in Reached
  BY <1>1, <1>2, AllNaturals
<1>. QED
  BY <1>3 DEF Reached

\* Longer runs begin with the shorter ones.
LEMMA RunsAgree ==
  ASSUME NEW S, NEW first, NEW step, NEW n \in Nat,
         NEW g \in Runs(S, first, step, n), NEW h \in Runs(S, first, step, n + 1)
  PROVE  g[n] = h[n]
<1>. DEFINE Same == {i \in Nat : i <= n => g[i] = h[i]}
<1>1. 0 \in Same
  BY DEF Runs
<1>2. ASSUME NEW i \in Nat, i \in Same PROVE i + 1 \in Same
  <2>. SUFFICES ASSUME i + 1 <= n PROVE g[i + 1] = h[i + 1]
    OBVIOUS
  <2>1. i \in 0 .. n - 1 /\ i \in 0 .. n + 1 - 1 /\ g[i] = h[i]
    BY <1>2
  <2>. QED
    BY <2>1 DEF Runs
<1>. HIDE DEF Same
<1>3. n \in Same
  BY <1>1, <1>2, AllNaturals
<1>. QED
  BY <1>3 DEF Same

Repeats(S, first, step) ==
  {f \in [Nat -> S] : f[0] = first /\ \A n \in Nat : f[n + 1] = step[n][f[n]]}

\* Every step function from S to S repeats: the runs, put together, are one function.
LEMMA Recursion ==
  ASSUME NEW S, NEW first \in S, NEW step \in [Nat -> [S -> S]]
  PROVE  \E f : f \in Repeats(S, first, step)
<1>. DEFINE Run(n) == CHOOSE g : g \in Runs(S, first, step, n)
            f == [n \in Nat |-> Run(n)[n]]
<1>1. \A n \in Nat : Run(n) \in Runs(S, first, step, n)
  BY RunsExist
<1>. HIDE DEF Run
<1>2. f \in [Nat -> S]
  BY <1>1 DEF Runs
<1>3. f[0] = first
  BY <1>1 DEF Runs
<1>4. ASSUME NEW n \in Nat PROVE f[n + 1] = step[n][f[n]]
  <2>1. Run(n) \in Runs(S, first, step, n) /\ Run(n + 1) \in Runs(S, first, step, n + 1)
    BY <1>1
  <2>2. Run(n)[n] = Run(n + 1)[n]
    BY <2>1, RunsAgree
  <2>3. Run(n + 1)[n + 1] = step[n][Run(n + 1)[n]]
    BY <2>1 DEF Runs
  <2>. QED
    BY <2>2, <2>3
<1>5. f \in Repeats(S, first, step)
  <2>. HIDE DEF f
  <2>. QED
    BY <1>2, <1>3, <1>4 DEF Repeats
<1>. QED
  BY <1>5

\* What a level costs is added to what the levels before it have cost.
LEMMA SpentStep ==
  /\ Spent \in [Nat -> Nat] /\ Spent[0] = 0 /\ Spent[1] = 0
  /\ \A l \in Nat \ {0} : Spent[l + 1] = Spent[l] + GetNeedExp(l)
<1>. DEFINE step == [n \in Nat |-> [v \in Nat |-> IF n = 0 THEN 0 ELSE v + GetNeedExp(n)]]
<1>1. step \in [Nat -> [Nat -> Nat]]
  BY NeedExpType
<1>. HIDE DEF step
<1>2. PICK f : f \in Repeats(Nat, 0, step)
  BY <1>1, Recursion
<1>3. \A n \in Nat : f[n + 1] = IF n = 0 THEN 0 ELSE f[n] + GetNeedExp(n)
  BY <1>2 DEF step, Repeats
<1>4. ASSUME NEW l \in Nat PROVE f[l] = IF l <= 1 THEN 0 ELSE f[l - 1] + GetNeedExp(l - 1)
  <2>1. CASE l = 0
    BY <2>1, <1>2 DEF Repeats
  <2>2. CASE l # 0
    <3>1. l - 1 \in Nat /\ l - 1 + 1 = l
      BY <2>2
    <3>. QED
      BY <3>1, <1>3
  <2>. QED
    BY <2>1, <2>2
<1>5. f = [l \in Nat |-> IF l <= 1 THEN 0 ELSE f[l - 1] + GetNeedExp(l - 1)]
  BY <1>2, <1>4 DEF Repeats
<1>6. Spent = [l \in Nat |-> IF l <= 1 THEN 0 ELSE Spent[l - 1] + GetNeedExp(l - 1)]
  BY <1>5 DEF Spent
<1>7. Spent[0] = 0 /\ Spent[1] = 0 /\ \A l \in Nat \ {0} : Spent[l + 1] = Spent[l] + GetNeedExp(l)
  BY <1>6
<1>8. \A n \in Nat : Spent[n] \in Nat
  <2>. DEFINE Typed == {k \in Nat : Spent[k] \in Nat}
  <2>1. 0 \in Typed
    BY <1>7
  <2>2. ASSUME NEW n \in Nat, n \in Typed PROVE n + 1 \in Typed
    BY <2>2, <1>7, NeedExpType
  <2>. HIDE DEF Typed
  <2>3. \A n \in Nat : n \in Typed
    BY <2>1, <2>2, AllNaturals
  <2>. QED
    BY <2>3 DEF Typed
<1>9. Spent \in [Nat -> Nat]
  <2>1. DOMAIN Spent = Nat /\ Spent = [l \in Nat |-> Spent[l]]
    BY <1>6
  <2>. QED
    BY <1>8, <2>1
<1>. QED
  BY <1>7, <1>9

\* One death more is the experience of one monster more.
LEMMA OneMore == \A k \in Int : MonsterExp * (k + 1) = MonsterExp * k + MonsterExp
BY CombatAssumption

Unpaid(p) == IF game = "Reward" /\ attacker = p THEN 1 ELSE 0

\* ExpIsEarned, for one player.
Earned(p) == /\ Spent[level[p]] + exp[p] = MonsterExp * (deaths[p] - Unpaid(p))
             /\ ap[p] = 5 * (level[p] - 1)
             /\ CanLevelUp(p) => game = "Level" /\ attacker = p

\* ExpIsEarned, player by player.
LEMMA EarnedByAll == ExpIsEarned <=> \A p \in Players : Earned(p)
BY DEF ExpIsEarned, Earned, Unpaid

\* Only a reward, a level and a death change what a player has earned.
LEMMA EarnedStays ==
  ASSUME NEW p \in Players, Earned(p), UNCHANGED <<level, exp, ap, deaths>>,
         Unpaid(p)' = Unpaid(p), game # "Level" \/ attacker # p
  PROVE  Earned(p)'
BY DEF Earned, CanLevelUp, Unpaid

\* Every step keeps what was paid equal to what was earned.
LEMMA EarnedNext ==
  ASSUME IInv, [Next]_vars, NEW p \in Players, Earned(p)
  PROVE  Earned(p)'
<1>1. PlayerType /\ GameType /\ TimeType /\ level[p] \in Nat /\ exp[p] \in Nat /\ deaths[p] \in Nat
  BY DEF IInv, TypeOK, PlayerType, TimeType
<1>2. level[p] >= 1 /\ ap[p] \in Nat
  BY <1>1 DEF Earned, PlayerType
<1>3. CASE Die
  <2>1. attacker \in Players /\ game = "Die" /\ game' = "Reward" /\ attacker' = attacker
    BY <1>1, <1>3, Targets DEF Die, Goto, NoTarget
  <2>2. UNCHANGED <<level, exp, ap>> /\ deaths' = [deaths EXCEPT ![attacker] = @ + 1]
    BY <1>3 DEF Die, statVars
  <2>3. deaths'[p] - Unpaid(p)' = deaths[p] - Unpaid(p)
    BY <1>1, <2>1, <2>2 DEF Unpaid, TimeType
  <2>4. ~CanLevelUp(p)' /\ GetNeedExp(level[p])' = GetNeedExp(level[p])
    BY <2>1, <2>2 DEF Earned, CanLevelUp, GetNeedExp
  <2>. QED
    BY <2>2, <2>3, <2>4 DEF Earned
<1>4. CASE Reward
  <2>1. attacker \in Players /\ game = "Reward" /\ game' = "Level" /\ attacker' = attacker
    BY <1>1, <1>4, Targets DEF Reward, Goto, NoTarget
  <2>2. UNCHANGED <<level, ap, deaths>> /\ exp' = [exp EXCEPT ![attacker] = @ + MonsterExp]
    BY <1>4 DEF Reward, history
  <2>3. CASE p = attacker
    <3>1. exp'[p] = exp[p] + MonsterExp /\ Unpaid(p) = 1 /\ Unpaid(p)' = 0
      BY <1>1, <2>1, <2>2, <2>3 DEF Unpaid, PlayerType
    <3>2. MonsterExp * deaths[p] = MonsterExp * (deaths[p] - 1) + MonsterExp
      <4>1. deaths[p] - 1 \in Int /\ deaths[p] - 1 + 1 = deaths[p]
        BY <1>1
      <4>. QED
        BY <4>1, OneMore
    <3>3. Spent[level[p]] \in Nat /\ Spent[level[p]] + exp[p] = MonsterExp * (deaths[p] - 1)
      BY <1>1, <3>1, SpentStep DEF Earned
    <3>4. Spent[level[p]] + exp'[p] = MonsterExp * deaths[p]
      BY <1>1, <3>1, <3>2, <3>3, CombatAssumption
    <3>. QED
      BY <2>1, <2>2, <2>3, <3>1, <3>4, <1>1 DEF Earned
  <2>4. CASE p # attacker
    <3>1. exp'[p] = exp[p]
      BY <1>1, <2>2, <2>4 DEF PlayerType
    <3>2. ~CanLevelUp(p)'
      BY <2>1, <2>2, <2>4, <3>1 DEF Earned, CanLevelUp, GetNeedExp
    <3>. QED
      BY <2>1, <2>2, <2>4, <3>1, <3>2 DEF Earned, Unpaid
  <2>. QED
    BY <2>3, <2>4
<1>5. CASE LevelUp
  <2>1. attacker \in Players /\ game = "Level"
    BY <1>1, <1>5, Targets DEF LevelUp, NoTarget
  <2>2. UNCHANGED deaths
    BY <1>5 DEF LevelUp, history
  <2>3. CASE CanLevelUp(attacker)
    <3>1. /\ exp' = [exp EXCEPT ![attacker] = @ - GetNeedExp(level[attacker])]
          /\ level' = [level EXCEPT ![attacker] = @ + 1]
          /\ ap' = [ap EXCEPT ![attacker] = @ + 5]
          /\ UNCHANGED <<game, attacker>>
      BY <1>5, <2>3 DEF LevelUp, gameVars
    <3>2. CASE p = attacker
      <4>1. exp'[p] = exp[p] - GetNeedExp(level[p]) /\ level'[p] = level[p] + 1 /\ ap'[p] = ap[p] + 5
        BY <1>1, <3>1, <3>2 DEF PlayerType
      <4>2. Spent[level[p] + 1] = Spent[level[p]] + GetNeedExp(level[p])
        BY <1>1, <1>2, SpentStep
      <4>3. Spent[level[p]] \in Nat /\ GetNeedExp(level[p]) \in Nat
        BY <1>1, SpentStep, NeedExpType
      <4>4. Unpaid(p)' = Unpaid(p)
        BY <3>1 DEF Unpaid
      <4>5. Spent[level'[p]] + exp'[p] = Spent[level[p]] + exp[p]
        BY <1>1, <4>1, <4>2, <4>3
      <4>6. ap'[p] = 5 * (level'[p] - 1)
        BY <1>1, <4>1 DEF Earned
      <4>. QED
        BY <2>1, <2>2, <3>1, <3>2, <4>4, <4>5, <4>6 DEF Earned
    <3>3. CASE p # attacker
      <4>1. exp'[p] = exp[p] /\ level'[p] = level[p] /\ ap'[p] = ap[p] /\ Unpaid(p)' = Unpaid(p)
        BY <1>1, <3>1, <3>3 DEF PlayerType, Unpaid
      <4>2. ~CanLevelUp(p)'
        BY <3>3, <4>1 DEF Earned, CanLevelUp, GetNeedExp
      <4>. QED
        BY <2>2, <4>1, <4>2 DEF Earned
    <3>. QED
      BY <3>2, <3>3
  <2>4. CASE ~CanLevelUp(attacker)
    <3>1. NextTarget /\ UNCHANGED <<level, exp, ap>>
      BY <1>5, <2>4 DEF LevelUp, statVars
    <3>2. Unpaid(p)' = 0 /\ Unpaid(p) = 0
      BY <2>1, <3>1 DEF NextTarget, Unpaid
    <3>3. ~CanLevelUp(p)'
      BY <2>4, <3>1 DEF Earned, CanLevelUp, GetNeedExp
    <3>. QED
      BY <2>2, <3>1, <3>2, <3>3 DEF Earned
  <2>. QED
    BY <2>3, <2>4
<1>6. CASE CheckTarget \/ DamageTarget \/ RequestDeath \/ StampDeath
  <2>1. UNCHANGED <<level, exp, ap, deaths>>
    BY <1>6 DEF CheckTarget, DamageTarget, RequestDeath, StampDeath, statVars, history
  <2>2. game' # "Reward" /\ game \notin {"Reward", "Level"}
    BY <1>6 DEF CheckTarget, DamageTarget, RequestDeath, StampDeath, NextTarget, Goto, IInv, GameKnows
  <2>. QED
    BY <2>1, <2>2, EarnedStays DEF Unpaid
<1>7. CASE \E q \in Players : Attack(q) \/ DrinkPotion(q) \/ HandleMove(q)
  <2>1. UNCHANGED <<level, exp, ap, deaths>>
    BY <1>7 DEF Attack, DrinkPotion, HandleMove, statVars, history
  <2>2. game' # "Reward" /\ game \notin {"Reward", "Level"}
    BY <1>7 DEF Attack, DrinkPotion, HandleMove, gameVars
  <2>. QED
    BY <2>1, <2>2, EarnedStays DEF Unpaid
<1>8. CASE AddHp \/ CutHp \/ FillHp
  <2>1. UNCHANGED <<level, exp, ap, deaths>>
    BY <1>8 DEF AddHp, CutHp, FillHp, statVars, history
  <2>2. game' # "Reward" /\ game \notin {"Reward", "Level"}
    BY <1>8 DEF AddHp, CutHp, FillHp
  <2>. QED
    BY <2>1, <2>2, EarnedStays DEF Unpaid
<1>9. CASE Tick \/ WorkerStep \/ UNCHANGED vars
  <2>1. UNCHANGED <<level, exp, ap, deaths, game, attacker>>
    BY <1>9 DEF Tick, WorkerStep, vars, gameVars, statVars, history, StartUpdate, SpawnMonster, Heal,
       Revive, ClearRequest, StartContact, NextPlayer, EndUpdate, TouchMonster, ReadHp, Fall, WriteHp
  <2>. QED
    BY <2>1 DEF Earned, CanLevelUp, GetNeedExp, Unpaid
<1>. QED
  BY <1>3, <1>4, <1>5, <1>6, <1>7, <1>8, <1>9 DEF Next, GameStep

\* Nobody has earned anything at the start.
LEMMA EarnedInit == Init => \A p \in Players : Earned(p)
<1>. SUFFICES ASSUME Init, NEW p \in Players PROVE Earned(p)
  OBVIOUS
<1>1. /\ level[p] = 1 /\ exp[p] = 0 /\ ap[p] = 0 /\ deaths[p] = 0 /\ Unpaid(p) = 0
  BY DEF Init, Unpaid
<1>2. MonsterExp * (0 - 0) = 0
  BY CombatAssumption
<1>3. ~CanLevelUp(p)
  BY <1>1, NeedExpType DEF CanLevelUp
<1>. QED
  BY <1>1, <1>2, <1>3, SpentStep DEF Earned

\* Every player is paid once for each death it caused, and every point is either in exp
\* or was spent on a level (ResolveSkillHit, CharacterStat::AddExp): for any table of
\* prices, and however the worker brings the monsters back meanwhile.
THEOREM ExpCorrect == Spec => []ExpIsEarned
<1>1. Init => ExpIsEarned
  BY EarnedInit, EarnedByAll
<1>2. IInv /\ ExpIsEarned /\ [Next]_vars => ExpIsEarned'
  <2>. SUFFICES ASSUME IInv, ExpIsEarned, [Next]_vars PROVE ExpIsEarned'
    OBVIOUS
  <2>1. \A p \in Players : Earned(p)'
    BY EarnedByAll, EarnedNext
  <2>. QED
    BY <2>1 DEF ExpIsEarned, Earned, Unpaid
<1>. QED
  BY <1>1, <1>2, Invariant, PTL DEF Spec
=============================================================================
