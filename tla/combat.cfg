\* Two monsters that one or two hits kill, one player.
SPECIFICATION FairSpec
CONSTANTS
  NumMonsters = 2
  Players = {p1}
  None = None
  MonsterHp = 2
  MonsterExp = 4
  Damages = {1, 2}
  MaxTargets = 2
  RespawnDelay = 1
  NeedExp <- Prices
  MaxHp = 1
  ContactDamage = 1
  PotionHp = 1
  Cooldown = 2
  MaxTime = 3
INVARIANTS
  ExpIsEarned
  LifeAndHpAgree
  GraceKept
PROPERTIES
  NoEarlyRespawn
  DeadMonsterReturns
CHECK_DEADLOCK FALSE
