--------------------------------- MODULE Combat ---------------------------------
(***************************************************************************)
(* The characters of one realm: attacks, experience and levels, healing    *)
(* over time, death, and the spawner that replaces what has been killed    *)
(* (server/src/RealmServer_EntityActionAttack.cpp, gamelogic/*.cpp, the    *)
(* observers of the character sheet and of the collision world).           *)
(*                                                                         *)
(* An epoch first executes the commands of players and then the events     *)
(* that are due.  Time is kept relative to the present tick: `due` counts  *)
(* down to an event, `regenAge`, `attackAge` and `spawnAge` are the ticks  *)
(* since a time stamp.  The realm can so run for ever.                     *)
(***************************************************************************)
EXTENDS Integers, Sequences, FiniteSets, FiniteSetsExt

CONSTANTS
  Players,           \* characters with a ComponentPlayerConnectionPeer
  Mobs,              \* low halves of the entity ids that mobs may get
  AttackCooldown,    \* baseCooldown
  AttackIds,         \* the attacks that a player's frontend asks for (0 to 3)
  RegenCooldown,     \* ComponentCharacterSheet_HealthRegen of players
  RegenAmount,
  MinWait,           \* 10: the shortest wait of a regeneration event
  SpawnCooldown,     \* ComponentSpawner
  MaxAmount,
  XpStep,            \* 10: the step of the requirement of a level
  PlayerHealth, MobHealth, MobLevel,   \* of new characters
  MaxLevel,          \* bound: no experience is counted beyond it
  MaxRequests        \* bound: commands that wait for an epoch

ASSUME CombatAssumption ==
  /\ IsFiniteSet(Players) /\ IsFiniteSet(Mobs) /\ Players \cap Mobs = {}
  /\ {RegenCooldown, RegenAmount, MinWait, SpawnCooldown, XpStep,
      PlayerHealth, MobHealth} \subseteq Nat \ {0}
  /\ AttackIds \subseteq Nat /\ 0 \in AttackIds
  /\ {AttackCooldown, MaxAmount, MobLevel, MaxLevel, MaxRequests} \subseteq Nat

Characters == Players \cup Mobs

\* Who has sent a command when the realm does not know the peer (any more).
Stranger == "stranger"
ASSUME StrangerAssumption == Stranger \notin Characters

VARIABLES
  alive,        \* living characters
  generation,   \* the upper half of the id of each mob's latest entity, one bit
  sheet,        \* health, strength, armour, level and experience
  attackAge,    \* ticks since AttackCooldown::lastTimestamp
  regenAge,     \* ticks since HealthRegen::lastTimestamp
  regenDue,     \* ticks until the event HealthRegenerate
  inside,       \* mobs within the radius that the spawner looks at
  solid,        \* broad phase: where it holds each key to be, if it has it
  spawnAge,     \* ticks since ComponentSpawner::lastSpawnedTimestamp
  spawnDue,     \* ticks until the event Spawner
  requests,     \* executionQueue: attacks that players have asked for
  phase,        \* what the realm's thread is at
  earned,       \* history: experience each character has been given
  crashed       \* a player has died, which ends the server

sheetVars == <<sheet, attackAge, earned>>
regenVars == <<regenAge, regenDue>>
worldVars == <<alive, generation, inside, solid>>
spawnVars == <<spawnAge, spawnDue>>
vars == <<sheetVars, regenVars, worldVars, spawnVars, requests, phase, crashed>>

\* Entities, as clients name them.  A player that comes back has another id:
\* Leave marks the commands at the entity that it leaves behind.
Ids == Characters \X {0, 1}
Id(c) == <<c, IF c \in Mobs THEN generation[c] ELSE 0>>

\* How old a stamp may get before more makes no difference: enough to heal
\* anybody, with the remainder that decides on the next event preserved.
MaxHealth == PlayerHealth + 2 * ((MaxLevel + 1) \div 2)
AgeCap == RegenCooldown * (MaxHealth \div RegenAmount + 1) - 1
Older(age) == IF age = AgeCap THEN AgeCap - RegenCooldown + 1 ELSE age + 1

Larger(a, b) == IF a > b THEN a ELSE b
Smaller(a, b) == IF a < b THEN a ELSE b

-------------------------------------------------------------------------------
(* The character sheet. *)

NewSheet(c) ==
  IF c \in Players
    THEN [hp |-> PlayerHealth, maxHP |-> PlayerHealth, strength |-> 0, armor |-> 0,
          level |-> 0, xp |-> 0]
    ELSE [hp |-> MobHealth, maxHP |-> MobHealth, strength |-> 0, armor |-> 0,
          level |-> MobLevel, xp |-> 0]

\* xpReq of LevelUp.
XpRequired(level) == (level + 1) * level * XpStep + XpStep

\* Mutant: the experience that a level has cost is kept.
GainLevel_Free(s) ==
  LET l == s.level + 1
      raised == [s EXCEPT !.level = l]
  IN  CASE (l - 1) % 4 \in {0, 3} -> [raised EXCEPT !.maxHP = @ + 2]
        [] (l - 1) % 4 = 1 -> [raised EXCEPT !.strength = @ + 1]
        [] (l - 1) % 4 = 2 -> [raised EXCEPT !.armor = @ + 1]

\* One turn of the loop of LevelUp.
GainLevel(s) ==
  LET l == s.level + 1
      raised == [s EXCEPT !.level = l, !.xp = @ - XpRequired(s.level)]
  IN  CASE (l - 1) % 4 \in {0, 3} -> [raised EXCEPT !.maxHP = @ + 2]
        [] (l - 1) % 4 = 1 -> [raised EXCEPT !.strength = @ + 1]
        [] (l - 1) % 4 = 2 -> [raised EXCEPT !.armor = @ + 1]

\* LevelUp, the observer of every component that it writes: it runs until the
\* experience does not suffice (at most MaxLevel times, the bound).
LevelUp(s) ==
  LET after[n \in 0..MaxLevel] ==
        IF n = 0 THEN s
        ELSE IF /\ after[n - 1].xp >= XpRequired(after[n - 1].level)
                /\ after[n - 1].level < MaxLevel
               THEN GainLevel(after[n - 1])
               ELSE after[n - 1]
  IN  after[MaxLevel]

\* What the victim's level is worth.
Reward(victim) == Larger(1, victim.level * (victim.level - 1))
Damage(attacker, victim, attackId) ==
  Larger(1, attackId + attacker.strength - victim.armor)

\* No mob is worth more than the last level that the bound leaves to be reached.
ASSUME RewardAssumption == Larger(1, MobLevel * (MobLevel - 1)) <= XpRequired(MaxLevel)

\* Experience is counted while the bound lets the level rise.
Counted(s, xp) == IF s.level < MaxLevel THEN xp ELSE 0

-------------------------------------------------------------------------------
(* Attacks. *)

\* Health observers: with no health left, the entity is announced as dead and
\* destroyed, and the observers of the collision world remove its key.  The
\* observer of a player's connection then goes through a null userPointer.
Destroyed(c) ==
  /\ alive' = alive \ {c}
  /\ inside' = inside \ {c}
  /\ solid' = [solid EXCEPT ![c] = "absent"]
  /\ crashed' = (c \in Players)
  /\ UNCHANGED generation

Ready(c) == attackAge[c] > AttackCooldown

\* A hit within range.  The experience of the attacker is set, and its level
\* raised, before the victim is destroyed with its sheet.
Hit(a, v, attackId) ==
  LET left == sheet[v].hp - Damage(sheet[a], sheet[v], attackId)
      xp == Counted(sheet[a], Reward(sheet[v]))
      winner == LevelUp([sheet[a] EXCEPT !.xp = @ + xp])
  IN  IF left > 0
        THEN /\ sheet' = [sheet EXCEPT ![v].hp = left]
             /\ UNCHANGED <<worldVars, earned, crashed>>
        ELSE /\ sheet' = [sheet EXCEPT ![a] = winner, ![v] = NewSheet(v)]
             /\ earned' = [earned EXCEPT ![a] = @ + xp]
             /\ Destroyed(v)

\* RealmServer::Attack: an attack within the cooldown is dropped; one that is
\* out of range, or at an entity that is gone, uses the cooldown up.
Attack(a, v, living, attackId) ==
  IF a \in alive /\ Ready(a)
    THEN /\ attackAge' = [attackAge EXCEPT ![a] = 0]
         /\ \/ living /\ Hit(a, v, attackId)
            \/ UNCHANGED <<sheet, worldVars, earned, crashed>>
    ELSE UNCHANGED <<sheetVars, worldVars, crashed>>

\* ServerCore::Attack: a player's client names an entity that its ray test has
\* found, a mob or another player, which may be gone by the time the realm
\* executes the command.
RequestAttack(p, target) ==
  /\ phase = "events"
  /\ p \in alive /\ target[1] # p /\ Len(requests) < MaxRequests
  /\ requests' = Append(requests, <<p, target>>)
  /\ UNCHANGED <<sheetVars, regenVars, worldVars, spawnVars, phase, crashed>>

\* The realm executes the commands in its queue, one after the other.  Which
\* attack has been asked for only shows in the damage.
ExecuteCommand ==
  /\ phase = "commands" /\ requests # <<>>
  /\ LET attacker == Head(requests)[1]
         target == Head(requests)[2]
         living == target[1] \in alive /\ target = Id(target[1])
     IN  \E attackId \in AttackIds : Attack(attacker, target[1], living, attackId)
  /\ requests' = Tail(requests)
  /\ UNCHANGED <<regenVars, spawnVars, phase>>

BeginEvents ==
  /\ phase = "commands" /\ requests = <<>>
  /\ phase' = "events"
  /\ UNCHANGED <<sheetVars, regenVars, worldVars, spawnVars, requests, crashed>>

\* AiBehaviorTick_RandomWalk: a mob attacks the player that it follows.  When
\* its event comes and what it finds in range is left open.
MobAttacks(m, p) ==
  /\ phase = "events"
  /\ m \in alive /\ p \in alive
  /\ Ready(m)
  /\ Attack(m, p, TRUE, 0)
  /\ UNCHANGED <<regenVars, spawnVars, requests, phase>>

\* A mob walks into or out of the sphere around the spawner.  The observer of
\* its movement state updates the broad phase.
MobMoves(m) ==
  /\ phase = "events" /\ m \in alive
  /\ inside' = IF m \in inside THEN inside \ {m} ELSE inside \cup {m}
  /\ solid' = [solid EXCEPT ![m] = IF m \in inside THEN "outside" ELSE "inside"]
  /\ UNCHANGED <<sheetVars, regenVars, alive, generation, spawnVars, requests,
                 phase, crashed>>

-------------------------------------------------------------------------------
(* Healing. *)

\* Mutant: the stamp is moved on at full health too, and past a heal to now.
HealthRegenerate_Late(p) ==
  LET s == sheet[p]
      count == regenAge[p] \div RegenCooldown
  IN  /\ phase = "events" /\ p \in alive /\ regenDue[p] = 0
      /\ sheet' = [sheet EXCEPT ![p].hp =
                      IF s.hp < s.maxHP THEN Smaller(s.maxHP, s.hp + count * RegenAmount) ELSE @]
      /\ regenAge' = [regenAge EXCEPT ![p] = 0]
      /\ regenDue' = [regenDue EXCEPT ![p] = MinWait]
      /\ UNCHANGED <<attackAge, earned, worldVars, spawnVars, requests, phase, crashed>>

\* The event HealthRegenerate.  At full health the stamp stays where it is, so
\* that the time spent at full health counts for the next wound.
HealthRegenerate(p) ==
  LET s == sheet[p]
      count == regenAge[p] \div RegenCooldown
      rest == regenAge[p] % RegenCooldown
  IN  /\ phase = "events" /\ p \in alive /\ regenDue[p] = 0
      /\ IF s.hp < s.maxHP
           THEN /\ sheet' = [sheet EXCEPT ![p].hp =
                               Smaller(s.maxHP, s.hp + count * RegenAmount)]
                /\ regenAge' = [regenAge EXCEPT ![p] = rest]
           ELSE UNCHANGED <<sheet, regenAge>>
      /\ regenDue' = [regenDue EXCEPT ![p] = Larger(MinWait, RegenCooldown - rest)]
      /\ UNCHANGED <<attackAge, earned, worldVars, spawnVars, requests, phase, crashed>>

-------------------------------------------------------------------------------
(* The spawner. *)

\* TestForEntitiesSphere: keys that the broad phase holds in the sphere, of
\* characters that live now; the spawner counts those with a ComponentAITick.
FoundInSphere == {c \in Characters : solid[c] = "inside" /\ c \in alive}
Counter == Cardinality(FoundInSphere \cap Mobs)

\* Mutant: the broad phase does not learn of a spawned entity.
Born_NotSolid(m) ==
  /\ alive' = alive \cup {m}
  /\ generation' = [generation EXCEPT ![m] = 1 - @]
  /\ sheet' = [sheet EXCEPT ![m] = NewSheet(m)]
  /\ attackAge' = [attackAge EXCEPT ![m] = AttackCooldown + 1]
  /\ inside' = inside \cup {m}
  /\ UNCHANGED solid

\* NewEntity, with the components of a prefab: observers add its key to the
\* broad phase and move it to where the spawner puts it.
Born(m) ==
  /\ alive' = alive \cup {m}
  /\ generation' = [generation EXCEPT ![m] = 1 - @]
  /\ sheet' = [sheet EXCEPT ![m] = NewSheet(m)]
  /\ attackAge' = [attackAge EXCEPT ![m] = AttackCooldown + 1]
  /\ inside' = inside \cup {m}
  /\ solid' = [solid EXCEPT ![m] = "inside"]

\* Mutant: the stamp is advanced by an event that comes too early, too.
Spawner_Restamp ==
  /\ phase = "events" /\ spawnDue = 0
  /\ spawnDue' = SpawnCooldown
  /\ spawnAge' = 0
  /\ IF spawnAge > SpawnCooldown /\ Counter < MaxAmount /\ Mobs \ alive # {}
       THEN \E m \in Mobs \ alive : Born(m)
       ELSE UNCHANGED <<worldVars, sheet, attackAge>>
  /\ UNCHANGED <<regenVars, earned, requests, phase, crashed>>

\* The event Spawner.  The stamp is advanced whether something is spawned or
\* not; an event that comes exactly at the end of the cooldown is too early.
\* The id is one that is free (none may be, within the bound).
Spawner ==
  /\ phase = "events" /\ spawnDue = 0
  /\ spawnDue' = SpawnCooldown
  /\ IF spawnAge <= SpawnCooldown
       THEN UNCHANGED <<spawnAge, worldVars, sheet, attackAge>>
       ELSE /\ spawnAge' = 0
            /\ IF Counter < MaxAmount /\ Mobs \ alive # {}
                 THEN \E m \in Mobs \ alive : Born(m)
                 ELSE UNCHANGED <<worldVars, sheet, attackAge>>
  /\ UNCHANGED <<regenVars, earned, requests, phase, crashed>>

-------------------------------------------------------------------------------
(* The realm. *)

\* A player arrives, with a new character or with what it left with (ConnectPeer
\* and PlayerStorage).  HealthRegenerateSchedule sees the components as they are
\* added: with the stamp they will have, or still with that of a new one.
Enter(p) ==
  /\ phase = "commands" /\ p \notin alive
  /\ alive' = alive \cup {p}
  /\ solid' = [solid EXCEPT ![p] = "inside"]
  /\ \E due \in {0, Larger(0, RegenCooldown - regenAge[p])} :
       regenDue' = [regenDue EXCEPT ![p] = due]
  /\ UNCHANGED <<sheetVars, regenAge, generation, inside, spawnVars, requests, phase, crashed>>

\* DisconnectPeer: the character is stored and removed.  Its time stands still,
\* what it still has asked for is from a peer that the realm does not know, and
\* what is asked of others is at an entity that is gone.
Leave(p) ==
  /\ phase = "commands" /\ p \in alive
  /\ alive' = alive \ {p}
  /\ solid' = [solid EXCEPT ![p] = "absent"]
  /\ requests' = [i \in DOMAIN requests |->
                    <<IF requests[i][1] = p THEN Stranger ELSE requests[i][1],
                      IF requests[i][2] = Id(p) THEN <<p, 1>> ELSE requests[i][2]>>]
  /\ UNCHANGED <<sheetVars, regenVars, generation, inside, spawnVars, phase, crashed>>

\* The next epoch begins when every event that was due has been executed.
Tick ==
  /\ phase = "events"
  /\ spawnDue > 0
  /\ \A p \in alive \cap Players : regenDue[p] > 0
  /\ phase' = "commands"
  /\ regenAge' = [p \in Players |-> IF p \in alive THEN Older(regenAge[p]) ELSE regenAge[p]]
  /\ regenDue' = [p \in Players |-> IF p \in alive THEN regenDue[p] - 1 ELSE regenDue[p]]
  /\ attackAge' = [c \in Characters |-> IF c \in alive \cup Mobs
                     THEN Smaller(attackAge[c] + 1, AttackCooldown + 1) ELSE attackAge[c]]
  /\ spawnDue' = spawnDue - 1
  /\ spawnAge' = Smaller(spawnAge + 1, 2 * SpawnCooldown + 1)
  /\ UNCHANGED <<sheet, earned, worldVars, requests, crashed>>

\* The realm has been loaded, young or old, which is the first stamp of its new
\* characters; its spawner has last spawned at any time, and
\* SpawnerSchedule has it wait for one cooldown.
Init ==
  /\ alive = {}
  /\ generation = [m \in Mobs |-> 0]
  /\ sheet = [c \in Characters |-> NewSheet(c)]
  /\ attackAge = [c \in Characters |-> AttackCooldown + 1]
  /\ regenAge \in [Players -> {0, AgeCap}]
  /\ regenDue = [p \in Players |-> RegenCooldown]
  /\ inside = {}
  /\ solid = [c \in Characters |-> "absent"]
  /\ spawnAge \in {0, SpawnCooldown + 1}
  /\ spawnDue = SpawnCooldown
  /\ requests = <<>>
  /\ phase = "commands"
  /\ earned = [c \in Characters |-> 0]
  /\ crashed = FALSE

RealmStep ==
  \/ ExecuteCommand \/ BeginEvents \/ Spawner \/ Tick
  \/ \E p \in Players : HealthRegenerate(p)

Next ==
  /\ ~crashed
  /\ \/ RealmStep
     \/ \E p \in Players :
          Enter(p) \/ Leave(p) \/ \E target \in Ids : RequestAttack(p, target)
     \/ \E m \in Mobs : MobMoves(m) \/ \E p \in Players : MobAttacks(m, p)

\* A worker runs the realm's epochs for ever (RealmManager).
FairSpec == Init /\ [][Next]_vars /\ WF_vars(~crashed /\ RealmStep)
Spec == Init /\ [][Next]_vars

-------------------------------------------------------------------------------
(* Properties. *)

TypeOK ==
  /\ alive \subseteq Characters
  /\ generation \in [Mobs -> {0, 1}]
  /\ DOMAIN sheet = Characters
  /\ \A c \in Characters : attackAge[c] \in 0..AttackCooldown + 1
  /\ regenAge \in [Players -> 0..AgeCap]
  /\ \A p \in Players : regenDue[p] \in 0..Larger(MinWait, RegenCooldown)
  /\ inside \subseteq Mobs
  /\ solid \in [Characters -> {"absent", "inside", "outside"}]
  /\ spawnAge \in 0..(2 * SpawnCooldown + 1)
  /\ spawnDue \in 0..SpawnCooldown
  /\ Len(requests) <= MaxRequests
  /\ phase \in {"commands", "events"}
  /\ crashed \in BOOLEAN

\* Whoever lives has health left, and no more than the maximum.
HealthInBounds == \A c \in alive : 0 < sheet[c].hp /\ sheet[c].hp <= sheet[c].maxHP

\* The broad phase holds exactly the living characters, where they are.
SolidAreAlive ==
  \A c \in Characters :
    /\ (solid[c] # "absent") = (c \in alive)
    /\ c \in alive \cap Mobs => (solid[c] = "inside") = (c \in inside)

\* No experience is lost or counted twice by the loop of LevelUp: what the
\* levels have cost and what is left is what the kills were worth.
Cost[level \in 0..MaxLevel] ==
  IF level = 0 THEN 0 ELSE Cost[level - 1] + XpRequired(level - 1)
ExperienceConserved ==
  \A p \in alive \cap Players : Cost[sheet[p].level] + sheet[p].xp = earned[p]

\* A living player never has a level to come, and has the bonus of each level
\* it has reached exactly once, though every component that LevelUp writes
\* triggers it again.
LevelSettled ==
  \A p \in alive \cap Players :
    LET s == sheet[p]
        reached(r) == Cardinality({l \in 1..s.level : (l - 1) % 4 \in r})
    IN  /\ s.xp < XpRequired(s.level)
        /\ s.maxHP = PlayerHealth + 2 * reached({0, 3})
        /\ s.strength = reached({1})
        /\ s.armor = reached({2})

Inv ==
  /\ TypeOK /\ HealthInBounds /\ SolidAreAlive
  /\ ExperienceConserved /\ LevelSettled

\* A spawner adds nobody while as many as it may keep live in its sphere,
\* whatever of them has been killed, has walked away or has come back, and
\* whoever has been given the id of a dead one (Spawner, which counts what the
\* broad phase has in the sphere).
SpawnsWithinLimit ==
  [][\A m \in Mobs : m \in alive' \ alive
       => Cardinality(alive \cap inside) < MaxAmount]_vars

\* A spawner that may keep somebody never stays without: again and again there
\* is somebody in its sphere, or nobody left to be born (Spawner, which is too
\* early exactly one cooldown after its last turn and so has every other one).
SpawnerRefills ==
  MaxAmount > 0 => []<>(alive \cap inside # {} \/ Mobs \subseteq alive \/ crashed)

\* A wounded player heals, unless struck again and again (HealthRegenerate,
\* which leaves the time stamp behind at full health and never waits less than
\* MinWait for the next event).
WoundsHeal ==
  \A p \in Players :
    \/ []<>(p \in alive /\ ~crashed => sheet[p].hp = sheet[p].maxHP)
    \/ []<><<p \in alive /\ sheet'[p].hp < sheet[p].hp>>_vars
=============================================================================
