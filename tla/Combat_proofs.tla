----------------------------- MODULE Combat_proofs ------------------------------
(***************************************************************************)
(* Why the characters of a realm are sound, for every number of them and   *)
(* every cooldown.                                                         *)
(*                                                                         *)
(* The world: the broad phase, in which the spawner counts, holds exactly  *)
(* who is alive, where they are, whatever has been killed, spawned with a  *)
(* reused id, moved, has entered or has left.                              *)
(*                                                                         *)
(* The sheets: LevelUp is a loop, so what it makes of a sheet is shown by  *)
(* induction on its turns (Induction, which rests on the well-foundedness  *)
(* of finite sets), and so is what the levels cost.                        *)
(***************************************************************************)
EXTENDS Combat, FiniteSetTheorems, WellFoundedInduction, TLAPS

USE DEF sheetVars, regenVars, worldVars, spawnVars

WorldOK ==
  /\ alive \subseteq Characters
  /\ inside \subseteq Mobs
  /\ solid \in [Characters -> {"absent", "inside", "outside"}]

IInv == WorldOK /\ SolidAreAlive

-------------------------------------------------------------------------------

LEMMA InitEstablishes == Init => IInv
  BY DEF Init, IInv, WorldOK, SolidAreAlive, Characters

\* Whoever dies leaves the world and the broad phase in one step.
LEMMA DestroyedKeeps ==
  ASSUME IInv, NEW c \in alive, Destroyed(c)
  PROVE  IInv' /\ alive' \subseteq alive
<1>1. /\ alive' = alive \ {c} /\ inside' = inside \ {c}
      /\ solid' = [solid EXCEPT ![c] = "absent"]
  BY DEF Destroyed
<1> QED
  BY <1>1 DEF IInv, WorldOK, SolidAreAlive

LEMMA AttackKeeps ==
  ASSUME IInv, NEW a, NEW v, NEW living \in BOOLEAN, living => v \in alive,
         NEW attackId, Attack(a, v, living, attackId)
  PROVE  IInv' /\ alive' \subseteq alive
<1>1. CASE UNCHANGED worldVars
  BY <1>1 DEF IInv, WorldOK, SolidAreAlive
<1>2. CASE living /\ Destroyed(v)
  BY <1>2, DestroyedKeeps
<1>3. UNCHANGED worldVars \/ (living /\ Destroyed(v))
  BY DEF Attack, Hit
<1> QED
  BY <1>1, <1>2, <1>3

\* The commands of players and the attacks of mobs kill, but bring nobody to life.
LEMMA AttacksKeep ==
  ASSUME IInv,
         ExecuteCommand \/ \E m \in Mobs, p \in Players : MobAttacks(m, p)
  PROVE  IInv' /\ alive' \subseteq alive
<1>1. CASE ExecuteCommand
  <2> DEFINE target == Head(requests)[2]
             living == target[1] \in alive /\ target = Id(target[1])
  <2>1. PICK attackId \in AttackIds : Attack(Head(requests)[1], target[1], living, attackId)
    BY <1>1 DEF ExecuteCommand
  <2>2. living \in BOOLEAN /\ (living => target[1] \in alive)
    OBVIOUS
  <2> HIDE DEF living, target
  <2> QED
    BY <2>1, <2>2, AttackKeeps
<1>2. ASSUME NEW m \in Mobs, NEW p \in Players, MobAttacks(m, p)
      PROVE  IInv' /\ alive' \subseteq alive
  BY <1>2, AttackKeeps DEF MobAttacks
<1> QED
  BY <1>1, <1>2

\* Who is born is in the broad phase at once, where the spawner has put it.
LEMMA BornKeeps ==
  ASSUME IInv, NEW m \in Mobs \ alive, Born(m)
  PROVE  IInv'
<1>1. /\ alive' = alive \cup {m} /\ inside' = inside \cup {m}
      /\ solid' = [solid EXCEPT ![m] = "inside"]
  BY DEF Born
<1>2. m \in Characters
  BY DEF Characters
<1> QED
  BY <1>1, <1>2 DEF IInv, WorldOK, SolidAreAlive, Characters

\* What the spawner counts are the mobs that live in its sphere.
LEMMA CounterIsExact == IInv => Counter = Cardinality(alive \cap inside)
<1>1. IInv => FoundInSphere \cap Mobs = alive \cap inside
  BY DEF IInv, WorldOK, SolidAreAlive, FoundInSphere
<1> QED
  BY <1>1 DEF Counter

LEMMA SpawnerKeeps ==
  ASSUME IInv, Spawner
  PROVE  /\ IInv'
         /\ alive' # alive => Cardinality(alive \cap inside) < MaxAmount
<1>1. CASE UNCHANGED worldVars
  BY <1>1 DEF IInv, WorldOK, SolidAreAlive
<1>2. ASSUME NEW m \in Mobs \ alive, Counter < MaxAmount, Born(m)
      PROVE  IInv' /\ Cardinality(alive \cap inside) < MaxAmount
  BY <1>2, BornKeeps, CounterIsExact
<1>3. \/ UNCHANGED worldVars
      \/ Counter < MaxAmount /\ \E m \in Mobs \ alive : Born(m)
  BY DEF Spawner
<1> QED
  BY <1>1, <1>2, <1>3

LEMMA MobMovesKeeps ==
  ASSUME IInv, NEW m \in Mobs, MobMoves(m)
  PROVE  IInv' /\ alive' = alive
<1>1. /\ m \in alive /\ UNCHANGED alive
      /\ inside' = IF m \in inside THEN inside \ {m} ELSE inside \cup {m}
      /\ solid' = [solid EXCEPT ![m] = IF m \in inside THEN "outside" ELSE "inside"]
  BY DEF MobMoves
<1> QED
  BY <1>1 DEF IInv, WorldOK, SolidAreAlive, Characters

\* Players come and go; no mob does.
LEMMA PlayersKeep ==
  ASSUME IInv, NEW p \in Players, Enter(p) \/ Leave(p)
  PROVE  IInv' /\ alive' \subseteq alive \cup Players
<1>1. p \in Characters /\ p \notin Mobs
  BY CombatAssumption DEF Characters
<1>2. CASE Enter(p)
  <2>1. alive' = alive \cup {p} /\ inside' = inside /\ solid' = [solid EXCEPT ![p] = "inside"]
    BY <1>2 DEF Enter
  <2> QED
    BY <1>1, <2>1 DEF IInv, WorldOK, SolidAreAlive
<1>3. CASE Leave(p)
  <2>1. alive' = alive \ {p} /\ inside' = inside /\ solid' = [solid EXCEPT ![p] = "absent"]
    BY <1>3 DEF Leave
  <2> QED
    BY <1>1, <2>1 DEF IInv, WorldOK, SolidAreAlive
<1> QED
  BY <1>2, <1>3

\* Steps that move nobody.
LEMMA OthersKeep ==
  ASSUME IInv,
         \/ BeginEvents \/ Tick \/ UNCHANGED vars
         \/ \E p \in Players : HealthRegenerate(p) \/ \E target \in Ids : RequestAttack(p, target)
  PROVE  IInv' /\ alive' = alive
<1>1. UNCHANGED worldVars
  BY DEF BeginEvents, Tick, HealthRegenerate, RequestAttack, vars
<1> QED
  BY <1>1 DEF IInv, WorldOK, SolidAreAlive

-------------------------------------------------------------------------------

WithinLimit ==
  \A m \in Mobs : m \in alive' \ alive => Cardinality(alive \cap inside) < MaxAmount

LEMMA StepKeeps == IInv /\ [Next]_vars => IInv' /\ WithinLimit
<1> SUFFICES ASSUME IInv, [Next]_vars PROVE IInv' /\ WithinLimit
  OBVIOUS
<1>1. CASE ExecuteCommand \/ \E m \in Mobs, p \in Players : MobAttacks(m, p)
  BY <1>1, AttacksKeep DEF WithinLimit
<1>2. CASE Spawner
  BY <1>2, SpawnerKeeps DEF WithinLimit
<1>3. CASE \E m \in Mobs : MobMoves(m)
  BY <1>3, MobMovesKeeps DEF WithinLimit
<1>4. CASE \E p \in Players : Enter(p) \/ Leave(p)
  BY <1>4, PlayersKeep, CombatAssumption DEF WithinLimit
<1>5. CASE \/ BeginEvents \/ Tick \/ UNCHANGED vars
           \/ \E p \in Players : HealthRegenerate(p) \/ \E target \in Ids : RequestAttack(p, target)
  BY <1>5, OthersKeep DEF WithinLimit
<1> QED
  BY <1>1, <1>2, <1>3, <1>4, <1>5 DEF Next, RealmStep

\* A spawner never adds a mob to as many as it may keep (GameLogic::Spawner).
THEOREM SpawnerKeepsItsLimit == Spec => SpawnsWithinLimit
<1>1. IInv /\ [Next]_vars => IInv'
  BY StepKeeps
<1>2. IInv /\ [Next]_vars =>
        [\A m \in Mobs : m \in alive' \ alive
           => Cardinality(alive \cap inside) < MaxAmount]_vars
  BY StepKeeps DEF WithinLimit
<1> QED
  BY <1>1, <1>2, InitEstablishes, PTL DEF Spec, SpawnsWithinLimit

-------------------------------------------------------------------------------
(* Induction, and functions that are defined by recursion. *)

\* What holds of 0, and of n + 1 when of n, holds of every number up to M.
LEMMA Induction ==
  ASSUME NEW M \in Nat, NEW T, 0 \in T, \A n \in 0..(M - 1) : n \in T => n + 1 \in T
  PROVE  \A n \in 0..M : n \in T
<1> DEFINE Bad == {n \in 0..M : n \notin T}
           Initial == {0..n : n \in Bad}
           R == StrictSubsetOrdering(Nat)
<1>1. SUFFICES ASSUME NEW b \in Bad PROVE FALSE
  OBVIOUS
<1>2. Initial \subseteq FiniteSubsetsOf(Nat)
  <2>1. ASSUME NEW n \in Bad PROVE 0..n \in FiniteSubsetsOf(Nat)
    <3>1. n \in Int /\ 0 \in Int
      OBVIOUS
    <3>2. IsFiniteSet(0..n)
      BY <3>1, FS_Interval
    <3>3. 0..n \in SUBSET Nat
      BY <3>1
    <3> QED
      BY <3>2, <3>3 DEF FiniteSubsetsOf
  <2> QED
    BY <2>1
<1>3. IsWellFoundedOn(R, FiniteSubsetsOf(Nat))
  BY FS_StrictSubsetOrderingWellFounded
<1>4. Initial # {}
  BY <1>1
<1> HIDE DEF R
<1>5. \E x \in Initial : \A y \in Initial : <<y, x>> \notin R
  <2> HIDE DEF Initial
  <2> QED
    BY <1>2, <1>3, <1>4, WFMin
<1>6. PICK k \in Bad : \A n \in Bad : <<0..n, 0..k>> \notin R
  BY <1>5
<1>7. k # 0 /\ k \in 0..M /\ k - 1 \in 0..(M - 1)
  OBVIOUS
<1>8. k - 1 \in Bad
  <2>1. k - 1 \notin T
    <3>1. k - 1 \in T => (k - 1) + 1 \in T
      BY <1>7
    <3>2. (k - 1) + 1 = k
      BY <1>7
    <3> QED
      BY <3>1, <3>2
  <2> QED
    BY <1>7, <2>1
<1>9. <<0..(k - 1), 0..k>> \in R
  <2>1. 0..(k - 1) \in SUBSET Nat /\ 0..k \in SUBSET Nat
    BY <1>7
  <2>2. 0..(k - 1) \subseteq 0..k
    BY <1>7
  <2>3. k \in 0..k /\ k \notin 0..(k - 1)
    BY <1>7
  <2> QED
    BY <2>1, <2>2, <2>3 DEF R, StrictSubsetOrdering
<1> QED
  BY <1>6, <1>8, <1>9

\* What each value determines from the one before it exists as a function: the
\* recursive functions of Combat are well defined.
Iterates(F, M, V, x) ==
  \E f \in [0..M -> V] : f[0] = x /\ \A n \in 1..M : f[n] = F[n][f[n - 1]]

LEMMA Iteration ==
  ASSUME NEW M \in Nat, NEW V, NEW x \in V, NEW F \in [1..M -> [V -> V]]
  PROVE  Iterates(F, M, V, x)
<1> DEFINE Upto(n) == {f \in [0..n -> V] : f[0] = x /\ \A k \in 1..n : f[k] = F[k][f[k - 1]]}
           T == {n \in 0..M : Upto(n) # {}}
<1>1. 0 \in T
  <2>1. [k \in 0..0 |-> x] \in Upto(0)
    OBVIOUS
  <2> QED
    BY <2>1
<1>2. ASSUME NEW n \in 0..(M - 1), n \in T PROVE n + 1 \in T
  <2>1. PICK f \in Upto(n) : TRUE
    BY <1>2
  <2> DEFINE g == [k \in 0..(n + 1) |-> IF k <= n THEN f[k] ELSE F[n + 1][f[n]]]
  <2>2. f \in [0..n -> V] /\ f[0] = x /\ \A k \in 1..n : f[k] = F[k][f[k - 1]]
    OBVIOUS
  <2>3. n \in Nat /\ n + 1 \in 1..M /\ n + 1 \in 0..M
    OBVIOUS
  <2>4. F[n + 1] \in [V -> V] /\ f[n] \in V
    BY <2>2, <2>3
  <2>5. g \in [0..(n + 1) -> V]
    BY <2>2, <2>3, <2>4
  <2>6. g[0] = x
    BY <2>2, <2>3
  <2>7. ASSUME NEW k \in 1..(n + 1) PROVE g[k] = F[k][g[k - 1]]
    <3>1. k - 1 \in 0..n /\ g[k - 1] = f[k - 1]
      BY <2>3
    <3>2. CASE k <= n
      <4>1. k \in 1..n /\ g[k] = f[k]
        BY <3>2, <2>3
      <4> QED
        BY <3>1, <4>1, <2>2
    <3>3. CASE k = n + 1
      BY <3>1, <3>3, <2>3
    <3> QED
      BY <3>2, <3>3, <2>3
  <2>8. g \in Upto(n + 1)
    BY <2>5, <2>6, <2>7
  <2> QED
    BY <2>3, <2>8
<1>3. M \in T
  <2> HIDE DEF T
  <2>1. \A n \in 0..M : n \in T
    BY <1>1, <1>2, Induction
  <2> QED
    BY <2>1
<1> QED
  BY <1>3 DEF Iterates

-------------------------------------------------------------------------------
(* Levels. *)

LEMMA Products == \A a, b \in Nat : a * b \in Nat
  OBVIOUS

LEMMA RequirementType == \A level \in Nat : XpRequired(level) \in Nat \ {0}
<1> SUFFICES ASSUME NEW level \in Nat PROVE XpRequired(level) \in Nat \ {0}
  OBVIOUS
<1>1. XpStep \in Nat \ {0}
  BY CombatAssumption
<1>2. (level + 1) * level \in Nat
  BY Products
<1> DEFINE p == (level + 1) * level
<1>3. p * XpStep \in Nat
  BY <1>1, <1>2, Products
<1> QED
  BY <1>1, <1>3 DEF XpRequired

\* What the levels cost, step by step.
LEMMA CostSteps ==
  /\ Cost \in [0..MaxLevel -> Nat]
  /\ Cost[0] = 0
  /\ \A level \in 1..MaxLevel : Cost[level] = Cost[level - 1] + XpRequired(level - 1)
<1> DEFINE F == [n \in 1..MaxLevel |-> [c \in Nat |-> c + XpRequired(n - 1)]]
           Eq(f) == f = [level \in 0..MaxLevel |->
                            IF level = 0 THEN 0 ELSE f[level - 1] + XpRequired(level - 1)]
<1>1. MaxLevel \in Nat
  BY CombatAssumption
<1>2. F \in [1..MaxLevel -> [Nat -> Nat]]
  <2>1. ASSUME NEW n \in 1..MaxLevel, NEW c \in Nat PROVE c + XpRequired(n - 1) \in Nat
    BY <1>1, RequirementType
  <2> QED
    BY <2>1
<1>3. PICK f \in [0..MaxLevel -> Nat] :
        f[0] = 0 /\ \A n \in 1..MaxLevel : f[n] = F[n][f[n - 1]]
  <2> DEFINE V == Nat
  <2>1. F \in [1..MaxLevel -> [V -> V]] /\ 0 \in V
    BY <1>2
  <2> HIDE DEF F, V
  <2>2. Iterates(F, MaxLevel, V, 0)
    BY <1>1, <2>1, Iteration
  <2> QED
    BY <2>2 DEF V, Iterates
<1>4. ASSUME NEW n \in 1..MaxLevel PROVE f[n] = f[n - 1] + XpRequired(n - 1)
  <2>1. f[n - 1] \in Nat
    BY <1>1
  <2>2. F[n][f[n - 1]] = f[n - 1] + XpRequired(n - 1)
    BY <2>1
  <2> QED
    BY <1>3, <2>2
<1>5. Eq(f)
  BY <1>1, <1>3, <1>4
<1>6. Eq(Cost)
  BY <1>5 DEF Cost
<1>7. Cost = f
  <2> DEFINE T == {n \in 0..MaxLevel : Cost[n] = f[n]}
  <2>1. 0 \in T
    BY <1>1, <1>6, <1>3
  <2>2. ASSUME NEW n \in 0..(MaxLevel - 1), n \in T PROVE n + 1 \in T
    <3>1. n + 1 \in 1..MaxLevel /\ n + 1 \in 0..MaxLevel /\ (n + 1) - 1 = n /\ n + 1 # 0
      BY <1>1
    <3>2. Cost[n + 1] = Cost[n] + XpRequired(n)
      BY <3>1, <1>6
    <3>3. f[n + 1] = f[n] + XpRequired(n)
      BY <3>1, <1>4
    <3> QED
      BY <3>1, <3>2, <3>3, <2>2
  <2>3. \A n \in 0..MaxLevel : n \in T
    <3> HIDE DEF T
    <3> QED
      BY <2>1, <2>2, <1>1, Induction
  <2>4. DOMAIN Cost = 0..MaxLevel /\ Cost = [n \in 0..MaxLevel |-> Cost[n]]
    BY <1>6
  <2> QED
    BY <2>3, <2>4
<1> QED
  BY <1>3, <1>4, <1>7

Sheets == [hp : Nat \ {0}, maxHP : Nat \ {0}, strength : Nat, armor : Nat, level : Nat, xp : Nat]

CanGain(s) == s.xp >= XpRequired(s.level) /\ s.level < MaxLevel
Turn(s) == IF CanGain(s) THEN GainLevel(s) ELSE s

\* How many of the levels up to the given one have given a bonus of a kind.
Reached(level, kinds) == Cardinality({l \in 1..level : (l - 1) % 4 \in kinds})

LEMMA ReachedSteps ==
  ASSUME NEW kinds
  PROVE  /\ \A level \in Nat : Reached(level, kinds) \in Nat
         /\ Reached(0, kinds) = 0
         /\ \A level \in Nat : Reached(level + 1, kinds)
              = Reached(level, kinds) + (IF level % 4 \in kinds THEN 1 ELSE 0)
<1> DEFINE S(level) == {l \in 1..level : (l - 1) % 4 \in kinds}
<1>1. ASSUME NEW level \in Nat PROVE IsFiniteSet(S(level)) /\ Reached(level, kinds) \in Nat
  <2>1. IsFiniteSet(1..level)
    BY FS_Interval
  <2>2. S(level) \in SUBSET (1..level)
    OBVIOUS
  <2> HIDE DEF S
  <2>3. IsFiniteSet(S(level))
    BY <2>1, <2>2, FS_Subset
  <2>4. Cardinality(S(level)) \in Nat
    BY <2>3, FS_CardinalityType
  <2> QED
    BY <2>3, <2>4 DEF S, Reached
<1>2. Reached(0, kinds) = 0
  <2>1. S(0) = {}
    OBVIOUS
  <2> QED
    BY <2>1, FS_EmptySet DEF Reached
<1>3. ASSUME NEW level \in Nat
      PROVE  Reached(level + 1, kinds)
               = Reached(level, kinds) + (IF level % 4 \in kinds THEN 1 ELSE 0)
  <2>1. 1..(level + 1) = 1..level \cup {level + 1} /\ level + 1 \notin 1..level
    OBVIOUS
  <2>2. (level + 1) - 1 = level
    OBVIOUS
  <2>3. CASE level % 4 \in kinds
    <3>1. S(level + 1) = S(level) \cup {level + 1} /\ level + 1 \notin S(level)
      BY <2>1, <2>2, <2>3
    <3>2. IsFiniteSet(S(level))
      BY <1>1
    <3> HIDE DEF S
    <3>3. Cardinality(S(level) \cup {level + 1}) = Cardinality(S(level)) + 1
      BY <3>1, <3>2, FS_AddElement
    <3> QED
      BY <2>3, <3>1, <3>3 DEF Reached, S
  <2>4. CASE level % 4 \notin kinds
    <3>1. S(level + 1) = S(level)
      BY <2>1, <2>2, <2>4
    <3>2. Reached(level, kinds) \in Nat
      BY <1>1
    <3>3. Reached(level + 1, kinds) = Reached(level, kinds)
      BY <3>1 DEF Reached
    <3> QED
      BY <2>4, <3>2, <3>3
  <2> QED
    BY <2>3, <2>4
<1> QED
  BY <1>1, <1>2, <1>3

\* A level raises one of three values, and is paid for.
LEMMA GainLevelFields ==
  ASSUME NEW s \in Sheets, CanGain(s)
  PROVE  /\ GainLevel(s) \in Sheets
         /\ GainLevel(s).hp = s.hp
         /\ GainLevel(s).maxHP = s.maxHP + 2 * (IF s.level % 4 \in {0, 3} THEN 1 ELSE 0)
         /\ GainLevel(s).strength = s.strength + (IF s.level % 4 \in {1} THEN 1 ELSE 0)
         /\ GainLevel(s).armor = s.armor + (IF s.level % 4 \in {2} THEN 1 ELSE 0)
         /\ GainLevel(s).level = s.level + 1
         /\ GainLevel(s).xp = s.xp - XpRequired(s.level)
<1> DEFINE l == s.level
           left == s.xp - XpRequired(s.level)
           raised == [s EXCEPT !.level = l + 1, !.xp = left]
<1>1. l \in Nat /\ l + 1 \in Nat /\ (l + 1) - 1 = l /\ l % 4 \in 0..3
  BY DEF Sheets
<1>2. left \in Nat
  <2>1. XpRequired(s.level) \in Nat /\ s.xp \in Nat
    BY RequirementType DEF Sheets
  <2> QED
    BY <2>1 DEF CanGain
<1> HIDE DEF left
<1>3. raised \in Sheets
  BY <1>1, <1>2 DEF Sheets
<1>4. /\ raised.hp = s.hp /\ raised.maxHP = s.maxHP /\ raised.strength = s.strength
      /\ raised.armor = s.armor /\ raised.level = l + 1 /\ raised.xp = left
  BY DEF Sheets
<1>5. GainLevel(s) = CASE l % 4 \in {0, 3} -> [raised EXCEPT !.maxHP = @ + 2]
                       [] l % 4 = 1 -> [raised EXCEPT !.strength = @ + 1]
                       [] l % 4 = 2 -> [raised EXCEPT !.armor = @ + 1]
  BY <1>1 DEF GainLevel, left
<1> HIDE DEF raised
<1> DEFINE up == GainLevel(s)
<1>6. CASE l % 4 \in {0, 3}
  <2>1. up = [raised EXCEPT !.maxHP = @ + 2]
    BY <1>5, <1>6
  <2>2. up \in Sheets /\ up.hp = s.hp /\ up.maxHP = s.maxHP + 2 /\ up.strength = s.strength
        /\ up.armor = s.armor /\ up.level = l + 1 /\ up.xp = left
    BY <2>1, <1>3, <1>4 DEF Sheets
  <2>3. l % 4 \notin {1} /\ l % 4 \notin {2}
    BY <1>6
  <2>4. s.strength \in Nat /\ s.armor \in Nat
    BY DEF Sheets
  <2> QED
    BY <2>2, <2>3, <2>4, <1>6 DEF left
<1>7. CASE l % 4 = 1
  <2>1. up = [raised EXCEPT !.strength = @ + 1]
    BY <1>5, <1>7
  <2>2. up \in Sheets /\ up.hp = s.hp /\ up.maxHP = s.maxHP /\ up.strength = s.strength + 1
        /\ up.armor = s.armor /\ up.level = l + 1 /\ up.xp = left
    BY <2>1, <1>3, <1>4 DEF Sheets
  <2>3. l % 4 \notin {0, 3} /\ l % 4 \notin {2}
    BY <1>7
  <2>4. s.maxHP \in Nat /\ s.armor \in Nat
    BY DEF Sheets
  <2> QED
    BY <2>2, <2>3, <2>4, <1>7 DEF left
<1>8. CASE l % 4 = 2
  <2>1. up = [raised EXCEPT !.armor = @ + 1]
    BY <1>5, <1>8
  <2>2. up \in Sheets /\ up.hp = s.hp /\ up.maxHP = s.maxHP /\ up.strength = s.strength
        /\ up.armor = s.armor + 1 /\ up.level = l + 1 /\ up.xp = left
    BY <2>1, <1>3, <1>4 DEF Sheets
  <2>3. l % 4 \notin {0, 3} /\ l % 4 \notin {1}
    BY <1>8
  <2>4. s.maxHP \in Nat /\ s.strength \in Nat
    BY DEF Sheets
  <2> QED
    BY <2>2, <2>3, <2>4, <1>8 DEF left
<1> QED
  BY <1>1, <1>6, <1>7, <1>8

LEMMA TurnType == \A s \in Sheets : Turn(s) \in Sheets
  BY GainLevelFields DEF Turn

\* LevelUp takes MaxLevel turns.
LEMMA LevelUpTurns ==
  ASSUME NEW s \in Sheets
  PROVE  \E after \in [0..MaxLevel -> Sheets] :
           /\ after[0] = s /\ after[MaxLevel] = LevelUp(s)
           /\ \A n \in 1..MaxLevel : after[n] = Turn(after[n - 1])
<1> DEFINE F == [n \in 1..MaxLevel |-> [t \in Sheets |-> Turn(t)]]
           Eq(f) == f = [n \in 0..MaxLevel |->
                           IF n = 0 THEN s
                           ELSE IF /\ f[n - 1].xp >= XpRequired(f[n - 1].level)
                                   /\ f[n - 1].level < MaxLevel
                                  THEN GainLevel(f[n - 1])
                                  ELSE f[n - 1]]
           chosen == CHOOSE f : Eq(f)
<1>1. MaxLevel \in Nat
  BY CombatAssumption
<1>2. F \in [1..MaxLevel -> [Sheets -> Sheets]]
  BY TurnType
<1>3. PICK f \in [0..MaxLevel -> Sheets] :
        f[0] = s /\ \A n \in 1..MaxLevel : f[n] = F[n][f[n - 1]]
  <2> HIDE DEF F
  <2>1. Iterates(F, MaxLevel, Sheets, s)
    BY <1>1, <1>2, Iteration
  <2> QED
    BY <2>1 DEF Iterates
<1>4. ASSUME NEW n \in 1..MaxLevel PROVE f[n] = Turn(f[n - 1])
  <2>1. n - 1 \in 0..MaxLevel
    BY <1>1
  <2>2. f[n - 1] \in Sheets
    BY <2>1
  <2>3. F[n][f[n - 1]] = Turn(f[n - 1])
    BY <2>2
  <2> QED
    BY <1>3, <2>3
<1>5. Eq(f)
  <2>1. f = [n \in 0..MaxLevel |-> f[n]]
    OBVIOUS
  <2>2. ASSUME NEW n \in 0..MaxLevel, n # 0
        PROVE  f[n] = IF /\ f[n - 1].xp >= XpRequired(f[n - 1].level)
                         /\ f[n - 1].level < MaxLevel
                        THEN GainLevel(f[n - 1])
                        ELSE f[n - 1]
    <3>1. n \in 1..MaxLevel
      BY <1>1, <2>2
    <3> QED
      BY <1>4, <3>1 DEF Turn, CanGain
  <2> QED
    BY <1>3, <2>1, <2>2
<1>6. Eq(chosen)
  BY <1>5
<1>7. LevelUp(s) = chosen[MaxLevel]
  BY DEF LevelUp
<1>8. chosen = f
  <2> HIDE DEF chosen
  <2> DEFINE T == {n \in 0..MaxLevel : chosen[n] = f[n]}
  <2>1. 0 \in T
    BY <1>1, <1>3, <1>6
  <2>2. ASSUME NEW n \in 0..(MaxLevel - 1), n \in T PROVE n + 1 \in T
    <3>1. n + 1 \in 1..MaxLevel /\ n + 1 \in 0..MaxLevel /\ (n + 1) - 1 = n /\ n + 1 # 0
      BY <1>1
    <3>2. chosen[n + 1] = Turn(chosen[n])
      BY <3>1, <1>6 DEF Turn, CanGain
    <3>3. f[n + 1] = Turn(f[n])
      BY <3>1, <1>4
    <3> QED
      BY <3>1, <3>2, <3>3, <2>2
  <2>3. \A n \in 0..MaxLevel : n \in T
    <3> HIDE DEF T
    <3> QED
      BY <2>1, <2>2, <1>1, Induction
  <2>4. chosen = [n \in 0..MaxLevel |-> chosen[n]]
    BY <1>6
  <2> QED
    BY <2>3, <2>4
<1>9. f[MaxLevel] = LevelUp(s)
  BY <1>7, <1>8
<1> HIDE DEF Eq, chosen, F
<1> QED
  BY <1>3, <1>4, <1>9

\* What n turns make of a sheet: nothing is healed, every bonus and every price is
\* that of a level, and only what has no level to come has stopped early.
Raised(s, n, t) ==
  /\ t \in Sheets /\ t.hp = s.hp /\ t.maxHP >= s.maxHP
  /\ s.level <= MaxLevel => /\ t.level <= MaxLevel
                            /\ Cost[t.level] + t.xp = Cost[s.level] + s.xp
  /\ t.maxHP - 2 * Reached(t.level, {0, 3}) = s.maxHP - 2 * Reached(s.level, {0, 3})
  /\ t.strength - Reached(t.level, {1}) = s.strength - Reached(s.level, {1})
  /\ t.armor - Reached(t.level, {2}) = s.armor - Reached(s.level, {2})
  /\ t = s \/ t.xp + XpRequired(s.level) <= s.xp
  /\ t.xp < XpRequired(t.level) \/ t.level >= MaxLevel \/ t.level = s.level + n

LEMMA TurnRaises ==
  ASSUME NEW s \in Sheets, NEW n \in Nat, NEW t, Raised(s, n, t)
  PROVE  Raised(s, n + 1, Turn(t))
<1>1. /\ t \in Sheets /\ s.level \in Nat /\ s.maxHP \in Nat /\ s.strength \in Nat
      /\ s.armor \in Nat /\ s.xp \in Nat /\ MaxLevel \in Nat
  BY CombatAssumption DEF Raised, Sheets
<1>2. /\ t.level \in Nat /\ t.maxHP \in Nat /\ t.strength \in Nat /\ t.armor \in Nat /\ t.xp \in Nat
  BY <1>1 DEF Sheets
<1>3. XpRequired(t.level) \in Nat /\ XpRequired(s.level) \in Nat
  BY <1>1, <1>2, RequirementType
<1>4. CASE CanGain(t)
  <2> DEFINE u == GainLevel(t)
  <2>1. /\ u \in Sheets /\ u.hp = t.hp
        /\ u.maxHP = t.maxHP + 2 * (IF t.level % 4 \in {0, 3} THEN 1 ELSE 0)
        /\ u.strength = t.strength + (IF t.level % 4 \in {1} THEN 1 ELSE 0)
        /\ u.armor = t.armor + (IF t.level % 4 \in {2} THEN 1 ELSE 0)
        /\ u.level = t.level + 1 /\ u.xp = t.xp - XpRequired(t.level)
    BY <1>1, <1>4, GainLevelFields
  <2>2. Turn(t) = u
    BY <1>4 DEF Turn
  <2>3. t.xp >= XpRequired(t.level) /\ t.level < MaxLevel
    BY <1>4 DEF CanGain
  <2> HIDE DEF u
  <2>4. u.hp = s.hp /\ u.maxHP >= s.maxHP
    BY <1>1, <1>2, <2>1 DEF Raised
  <2>5. ASSUME s.level <= MaxLevel
        PROVE  u.level <= MaxLevel /\ Cost[u.level] + u.xp = Cost[s.level] + s.xp
    <3>1. u.level \in 1..MaxLevel /\ u.level - 1 = t.level /\ t.level \in 0..MaxLevel
      BY <1>1, <1>2, <2>1, <2>3
    <3>2. Cost[u.level] = Cost[t.level] + XpRequired(t.level) /\ Cost[t.level] \in Nat
      BY <3>1, CostSteps
    <3>3. Cost[t.level] + t.xp = Cost[s.level] + s.xp
      BY <2>5 DEF Raised
    <3>4. Cost[u.level] + u.xp = Cost[t.level] + t.xp
      BY <3>2, <2>1, <1>2, <1>3
    <3> QED
      BY <3>1, <3>3, <3>4
  <2>6. ASSUME NEW kinds
        PROVE  /\ Reached(t.level, kinds) \in Nat /\ Reached(s.level, kinds) \in Nat
               /\ Reached(u.level, kinds)
                    = Reached(t.level, kinds) + (IF t.level % 4 \in kinds THEN 1 ELSE 0)
    BY <1>1, <1>2, <2>1, ReachedSteps
  <2>7. u.maxHP - 2 * Reached(u.level, {0, 3}) = s.maxHP - 2 * Reached(s.level, {0, 3})
    <3>1. t.maxHP - 2 * Reached(t.level, {0, 3}) = s.maxHP - 2 * Reached(s.level, {0, 3})
      BY DEF Raised
    <3>2. CASE t.level % 4 \in {0, 3}
      <4>1. Reached(u.level, {0, 3}) = Reached(t.level, {0, 3}) + 1 /\ u.maxHP = t.maxHP + 2
        BY <2>1, <2>6, <3>2
      <4> QED
        BY <3>1, <4>1, <2>6, <1>1, <1>2
    <3>3. CASE t.level % 4 \notin {0, 3}
      <4>1. Reached(u.level, {0, 3}) = Reached(t.level, {0, 3}) /\ u.maxHP = t.maxHP
        BY <2>1, <2>6, <3>3, <1>2
      <4> QED
        BY <3>1, <4>1
    <3> QED
      BY <3>2, <3>3
  <2>8. u.strength - Reached(u.level, {1}) = s.strength - Reached(s.level, {1})
    <3>1. t.strength - Reached(t.level, {1}) = s.strength - Reached(s.level, {1})
      BY DEF Raised
    <3> QED
      BY <3>1, <2>1, <2>6, <1>1, <1>2
  <2>9. u.armor - Reached(u.level, {2}) = s.armor - Reached(s.level, {2})
    <3>1. t.armor - Reached(t.level, {2}) = s.armor - Reached(s.level, {2})
      BY DEF Raised
    <3> QED
      BY <3>1, <2>1, <2>6, <1>1, <1>2
  <2>10. u.xp + XpRequired(s.level) <= s.xp
    <3>1. t = s \/ t.xp + XpRequired(s.level) <= s.xp
      BY DEF Raised
    <3>2. u.xp \in Nat /\ u.xp <= t.xp
      BY <2>1, <1>2, <1>3, <2>3
    <3> QED
      BY <3>1, <3>2, <2>1, <1>1, <1>2, <1>3
  <2>11. u.level >= MaxLevel \/ u.level = s.level + (n + 1)
    <3>1. t.level = s.level + n
      BY <2>3, <1>1, <1>2, <1>3 DEF Raised
    <3> QED
      BY <3>1, <2>1, <1>1
  <2> QED
    BY <2>1, <2>2, <2>4, <2>5, <2>7, <2>8, <2>9, <2>10, <2>11 DEF Raised
<1>5. CASE ~CanGain(t)
  <2>1. Turn(t) = t
    BY <1>5 DEF Turn
  <2>2. t.xp < XpRequired(t.level) \/ t.level >= MaxLevel
    BY <1>1, <1>2, <1>3, <1>5 DEF CanGain
  <2> QED
    BY <2>1, <2>2 DEF Raised
<1> QED
  BY <1>4, <1>5

LEMMA LevelUpRaises ==
  ASSUME NEW s \in Sheets
  PROVE  Raised(s, MaxLevel, LevelUp(s))
<1>1. MaxLevel \in Nat
  BY CombatAssumption
<1>2. PICK after \in [0..MaxLevel -> Sheets] :
        /\ after[0] = s /\ after[MaxLevel] = LevelUp(s)
        /\ \A n \in 1..MaxLevel : after[n] = Turn(after[n - 1])
  BY LevelUpTurns
<1> DEFINE T == {n \in 0..MaxLevel : Raised(s, n, after[n])}
<1>3. 0 \in T
  <2>1. s.level \in Nat /\ s.maxHP \in Nat /\ s.level + 0 = s.level
    BY DEF Sheets
  <2> QED
    BY <1>1, <1>2, <2>1 DEF Raised
<1>4. ASSUME NEW n \in 0..(MaxLevel - 1), n \in T PROVE n + 1 \in T
  <2>1. n \in Nat /\ n + 1 \in 1..MaxLevel /\ n + 1 \in 0..MaxLevel /\ (n + 1) - 1 = n
    BY <1>1
  <2>2. after[n + 1] = Turn(after[n])
    BY <1>2, <2>1
  <2>3. Raised(s, n + 1, Turn(after[n]))
    BY <1>4, <2>1, TurnRaises
  <2> QED
    BY <2>1, <2>2, <2>3
<1>5. \A n \in 0..MaxLevel : n \in T
  <2> HIDE DEF T
  <2> QED
    BY <1>1, <1>3, <1>4, Induction
<1> QED
  BY <1>1, <1>2, <1>5

-------------------------------------------------------------------------------
(* The sheets. *)

\* What a player's levels have cost and brought.
PlayerSheet(s, given) ==
  /\ s.level <= MaxLevel
  /\ Cost[s.level] + s.xp = given
  /\ s.xp < XpRequired(s.level)
  /\ s.maxHP = PlayerHealth + 2 * Reached(s.level, {0, 3})
  /\ s.strength = Reached(s.level, {1})
  /\ s.armor = Reached(s.level, {2})

\* The death of a player leaves the server no step to take: a mob that has killed
\* one may rise a level, and the sheet of the dead is nobody's.
SheetsOK ==
  /\ sheet \in [Characters -> Sheets] /\ earned \in [Characters -> Nat]
  /\ \A c \in Characters : sheet[c].hp <= sheet[c].maxHP
  /\ ~crashed => \A m \in Mobs : sheet[m].level = MobLevel
  /\ \A p \in Players : ~crashed \/ p \in alive => PlayerSheet(sheet[p], earned[p])

LEMMA NewSheetOK ==
  ASSUME NEW c \in Characters
  PROVE  /\ NewSheet(c) \in Sheets /\ NewSheet(c).hp <= NewSheet(c).maxHP
         /\ c \in Mobs => NewSheet(c).level = MobLevel
         /\ c \in Players => PlayerSheet(NewSheet(c), 0)
<1>1. /\ PlayerHealth \in Nat \ {0} /\ MobHealth \in Nat \ {0} /\ MobLevel \in Nat
      /\ MaxLevel \in Nat /\ Players \cap Mobs = {}
  BY CombatAssumption
<1>2. NewSheet(c) \in Sheets /\ NewSheet(c).hp <= NewSheet(c).maxHP
  BY <1>1 DEF NewSheet, Sheets
<1>3. c \in Mobs => NewSheet(c).level = MobLevel
  BY <1>1 DEF NewSheet
<1>4. ASSUME c \in Players PROVE PlayerSheet(NewSheet(c), 0)
  <2>1. /\ NewSheet(c).maxHP = PlayerHealth /\ NewSheet(c).strength = 0
        /\ NewSheet(c).armor = 0 /\ NewSheet(c).level = 0 /\ NewSheet(c).xp = 0
    BY <1>4 DEF NewSheet
  <2>2. Cost[0] = 0 /\ XpRequired(0) > 0
    BY CostSteps, RequirementType
  <2>3. \A kinds : Reached(0, kinds) = 0
    BY ReachedSteps
  <2> QED
    BY <1>1, <2>1, <2>2, <2>3 DEF PlayerSheet
<1> QED
  BY <1>2, <1>3, <1>4

\* A wound or a heal that leaves somebody alive.
LEMMA HealthKeeps ==
  ASSUME SheetsOK, NEW c \in Characters, NEW n \in Nat \ {0}, n <= sheet[c].maxHP,
         sheet' = [sheet EXCEPT ![c].hp = n], UNCHANGED <<alive, earned, crashed>>
  PROVE  SheetsOK'
<1> DEFINE t == [sheet[c] EXCEPT !.hp = n]
<1>1. sheet[c] \in Sheets
  BY DEF SheetsOK
<1>2. /\ t \in Sheets /\ t.hp = n /\ t.maxHP = sheet[c].maxHP /\ t.strength = sheet[c].strength
      /\ t.armor = sheet[c].armor /\ t.level = sheet[c].level /\ t.xp = sheet[c].xp
  BY <1>1 DEF Sheets
<1>3. sheet' = [sheet EXCEPT ![c] = t]
  OBVIOUS
<1> HIDE DEF t
<1>4. sheet' \in [Characters -> Sheets] /\ earned' \in [Characters -> Nat]
  BY <1>2, <1>3 DEF SheetsOK
<1>5. sheet'[c] = t /\ \A d \in Characters \ {c} : sheet'[d] = sheet[d]
  BY <1>3 DEF SheetsOK
<1>6. \A d \in Characters : sheet'[d].hp <= sheet'[d].maxHP
  BY <1>2, <1>5 DEF SheetsOK
<1>7. ~crashed' => \A m \in Mobs : sheet'[m].level = MobLevel
  BY <1>2, <1>5 DEF SheetsOK, Characters
<1>8. ASSUME NEW p \in Players, ~crashed' \/ p \in alive'
      PROVE  PlayerSheet(sheet'[p], earned'[p])
  <2>1. PlayerSheet(sheet[p], earned[p]) /\ earned'[p] = earned[p]
    BY <1>8 DEF SheetsOK
  <2>2. p \in Characters
    BY DEF Characters
  <2>3. PlayerSheet(t, earned[c]) <=> PlayerSheet(sheet[c], earned[c])
    BY <1>2 DEF PlayerSheet
  <2> QED
    BY <1>5, <2>1, <2>2, <2>3
<1> QED
  BY <1>4, <1>6, <1>7, <1>8 DEF SheetsOK

LEMMA RewardType ==
  ASSUME NEW v \in Sheets
  PROVE  Reward(v) \in Nat \ {0}
<1>1. v.level \in Nat
  BY DEF Sheets
<1>2. v.level * (v.level - 1) \in Int
  BY <1>1
<1> DEFINE worth == v.level * (v.level - 1)
<1>3. worth \in Int
  BY <1>2
<1> HIDE DEF worth
<1>4. Larger(1, worth) \in Nat \ {0}
  BY <1>3 DEF Larger
<1> QED
  BY <1>4 DEF Reward, worth

\* Nor is a player worth more than the last level that the bound leaves.
LEMMA RewardBound ==
  ASSUME NEW v \in Sheets, v.level = MobLevel \/ v.level <= MaxLevel
  PROVE  Reward(v) <= XpRequired(MaxLevel)
<1>1. CASE v.level = MobLevel
  BY <1>1, RewardAssumption DEF Reward
<1>2. CASE v.level <= MaxLevel
  <2>1. /\ MaxLevel \in Nat /\ XpStep \in Nat \ {0}
        /\ v.level \in Nat /\ v.level - 1 <= MaxLevel + 1
    BY <1>2, CombatAssumption DEF Sheets
  <2> DEFINE worth == v.level * (v.level - 1)
             top == (MaxLevel + 1) * MaxLevel
  <2>2. worth \in Int /\ top \in Nat /\ worth <= top
    <3>1. CASE v.level = 0
      BY <3>1, <2>1
    <3>2. CASE v.level # 0
      <4>1. PICK less \in Nat : v.level = less + 1
        <5>1. v.level - 1 \in Nat /\ v.level = (v.level - 1) + 1
          BY <2>1, <3>2
        <5> QED
          BY <5>1
      <4>2. less <= MaxLevel /\ less + 1 <= MaxLevel + 1
        BY <4>1, <1>2, <2>1
      <4>3. (less + 1) * less <= (MaxLevel + 1) * MaxLevel
        BY <4>2, <2>1
      <4>4. worth = (less + 1) * less
        BY <4>1
      <4> QED
        BY <4>3, <4>4, <2>1
    <3> QED
      BY <3>1, <3>2
  <2> HIDE DEF worth, top
  <2>3. top <= top * XpStep /\ top * XpStep \in Nat
    BY <2>1, <2>2
  <2>4. XpRequired(MaxLevel) = top * XpStep + XpStep
    BY DEF XpRequired, top
  <2>5. Reward(v) = Larger(1, worth)
    BY DEF Reward, worth
  <2> QED
    BY <2>1, <2>2, <2>3, <2>4, <2>5 DEF Larger
<1> QED
  BY <1>1, <1>2

\* The sheet of a player that has killed somebody.
LEMMA WinnerOK ==
  ASSUME NEW s \in Sheets, NEW given \in Nat, PlayerSheet(s, given),
         NEW v \in Sheets, v.level = MobLevel \/ v.level <= MaxLevel
  PROVE  PlayerSheet(LevelUp([s EXCEPT !.xp = @ + Counted(s, Reward(v))]),
                     given + Counted(s, Reward(v)))
<1> DEFINE xp == Counted(s, Reward(v))
           rich == [s EXCEPT !.xp = @ + xp]
           w == LevelUp(rich)
<1>1. /\ MaxLevel \in Nat /\ s.level \in Nat /\ s.xp \in Nat /\ s.maxHP \in Nat
      /\ s.strength \in Nat /\ s.armor \in Nat
  BY CombatAssumption DEF Sheets
<1>2. xp \in Nat /\ xp <= XpRequired(MaxLevel) /\ (s.level = MaxLevel => xp = 0)
  <2>1. Reward(v) \in Nat
    BY RewardType
  <2>2. Reward(v) <= XpRequired(MaxLevel)
    BY RewardBound
  <2>3. XpRequired(MaxLevel) \in Nat
    BY <1>1, RequirementType
  <2> QED
    BY <1>1, <2>1, <2>2, <2>3 DEF Counted
<1> HIDE DEF xp
<1>3. /\ rich \in Sheets /\ rich.maxHP = s.maxHP /\ rich.strength = s.strength
      /\ rich.armor = s.armor /\ rich.level = s.level /\ rich.xp = s.xp + xp
  BY <1>1, <1>2 DEF Sheets
<1> HIDE DEF rich
<1>4. Raised(rich, MaxLevel, w)
  BY <1>3, LevelUpRaises
<1> HIDE DEF w
<1>5. /\ w \in Sheets /\ w.level \in Nat /\ w.xp \in Nat /\ w.maxHP \in Nat
      /\ w.strength \in Nat /\ w.armor \in Nat
  BY <1>4 DEF Raised, Sheets
<1>6. s.level <= MaxLevel /\ Cost[s.level] + s.xp = given /\ s.xp < XpRequired(s.level)
  BY DEF PlayerSheet
<1>7. w.level <= MaxLevel /\ Cost[w.level] + w.xp = Cost[s.level] + (s.xp + xp)
  BY <1>3, <1>4, <1>6 DEF Raised
<1>8. Cost[w.level] + w.xp = given + xp
  <2>1. Cost[s.level] \in Nat
    BY <1>1, <1>6, CostSteps
  <2> QED
    BY <1>1, <1>2, <1>6, <1>7, <2>1
<1>9. w.xp < XpRequired(w.level)
  <2>1. XpRequired(s.level) \in Nat /\ XpRequired(MaxLevel) \in Nat
    BY <1>1, RequirementType
  <2>2. w = rich \/ w.xp + XpRequired(s.level) <= s.xp + xp
    BY <1>3, <1>4 DEF Raised
  <2>3. w.xp < XpRequired(w.level) \/ w.level = MaxLevel
    <3>1. w.xp < XpRequired(w.level) \/ w.level >= MaxLevel \/ w.level = s.level + MaxLevel
      BY <1>3, <1>4 DEF Raised
    <3> QED
      BY <3>1, <1>1, <1>5, <1>7
  <2>4. CASE w = rich /\ w.level = MaxLevel
    BY <2>4, <1>1, <1>2, <1>3, <1>6
  <2>5. CASE w.xp + XpRequired(s.level) <= s.xp + xp /\ w.level = MaxLevel
    <3>1. w.xp < xp
      BY <2>5, <2>1, <1>1, <1>2, <1>5, <1>6
    <3> QED
      BY <3>1, <2>5, <2>1, <1>2, <1>5
  <2> QED
    BY <2>2, <2>3, <2>4, <2>5
<1>10. \A kinds : \A level \in Nat : Reached(level, kinds) \in Nat
  BY ReachedSteps
<1>11. w.maxHP = PlayerHealth + 2 * Reached(w.level, {0, 3})
  <2>1. w.maxHP - 2 * Reached(w.level, {0, 3}) = s.maxHP - 2 * Reached(s.level, {0, 3})
    BY <1>3, <1>4 DEF Raised
  <2>2. s.maxHP = PlayerHealth + 2 * Reached(s.level, {0, 3}) /\ PlayerHealth \in Nat
    BY CombatAssumption DEF PlayerSheet
  <2>3. Reached(w.level, {0, 3}) \in Nat /\ Reached(s.level, {0, 3}) \in Nat
    BY <1>1, <1>5, <1>10
  <2> QED
    BY <1>1, <1>5, <2>1, <2>2, <2>3
<1>12. w.strength = Reached(w.level, {1}) /\ w.armor = Reached(w.level, {2})
  <2>1. /\ w.strength - Reached(w.level, {1}) = s.strength - Reached(s.level, {1})
        /\ w.armor - Reached(w.level, {2}) = s.armor - Reached(s.level, {2})
    BY <1>3, <1>4 DEF Raised
  <2>2. s.strength = Reached(s.level, {1}) /\ s.armor = Reached(s.level, {2})
    BY DEF PlayerSheet
  <2>3. /\ Reached(w.level, {1}) \in Nat /\ Reached(s.level, {1}) \in Nat
        /\ Reached(w.level, {2}) \in Nat /\ Reached(s.level, {2}) \in Nat
    BY <1>1, <1>5, <1>10
  <2> QED
    BY <1>1, <1>5, <2>1, <2>2, <2>3
<1>13. PlayerSheet(w, given + xp)
  BY <1>7, <1>8, <1>9, <1>11, <1>12 DEF PlayerSheet
<1> QED
  BY <1>13 DEF w, rich, xp

\* A kill: the winner is paid once, and what is killed leaves a sheet as good as new.
LEMMA KillKeeps ==
  ASSUME SheetsOK, ~crashed, NEW a \in Characters, NEW v \in Characters,
         a \in Players \/ v \in Players, NEW attackId \in Nat,
         sheet[v].hp - Damage(sheet[a], sheet[v], attackId) <= 0,
         Hit(a, v, attackId)
  PROVE  SheetsOK'
<1> DEFINE xp == Counted(sheet[a], Reward(sheet[v]))
           rich == [sheet[a] EXCEPT !.xp = @ + xp]
           w == LevelUp(rich)
           new == NewSheet(v)
<1>1. /\ sheet[a] \in Sheets /\ sheet[v] \in Sheets /\ earned[a] \in Nat
      /\ sheet[a].hp <= sheet[a].maxHP /\ Players \cap Mobs = {}
  BY CombatAssumption DEF SheetsOK
<1>2. xp \in Nat
  BY <1>1, RewardType DEF Counted
<1>3. rich \in Sheets /\ rich.hp = sheet[a].hp /\ rich.maxHP = sheet[a].maxHP
  <2> HIDE DEF xp
  <2> QED
    BY <1>1, <1>2 DEF Sheets
<1>4. w \in Sheets /\ w.hp <= w.maxHP
  <2> HIDE DEF rich
  <2>1. Raised(rich, MaxLevel, w)
    BY <1>3, LevelUpRaises
  <2>2. w \in Sheets /\ w.hp = rich.hp /\ w.maxHP >= rich.maxHP
    BY <2>1 DEF Raised
  <2> HIDE DEF w
  <2>3. w.hp \in Nat /\ w.maxHP \in Nat /\ rich.hp \in Nat /\ rich.maxHP \in Nat
    BY <1>3, <2>2 DEF Sheets
  <2> QED
    BY <1>1, <1>3, <2>2, <2>3
<1>5. /\ sheet' = [sheet EXCEPT ![a] = w, ![v] = new]
      /\ earned' = [earned EXCEPT ![a] = @ + xp]
      /\ alive' = alive \ {v} /\ crashed' = (v \in Players)
  <2>1. sheet[v].hp \in Int /\ Damage(sheet[a], sheet[v], attackId) \in Int
    BY <1>1 DEF Sheets, Damage, Larger
  <2>2. ~(sheet[v].hp - Damage(sheet[a], sheet[v], attackId) > 0)
    BY <2>1
  <2> QED
    BY <2>2 DEF Hit, Destroyed
<1>6. new \in Sheets /\ new.hp <= new.maxHP /\ (v \in Mobs => new.level = MobLevel)
  BY NewSheetOK
<1>7. ASSUME a \in Players PROVE PlayerSheet(w, earned[a] + xp)
  <2>1. PlayerSheet(sheet[a], earned[a])
    BY <1>7 DEF SheetsOK
  <2>2. sheet[v].level = MobLevel \/ sheet[v].level <= MaxLevel
    BY DEF SheetsOK, PlayerSheet, Characters
  <2> QED
    BY <1>1, <2>1, <2>2, WinnerOK
<1> HIDE DEF xp, rich, w, new
<1>8. sheet' \in [Characters -> Sheets] /\ earned' \in [Characters -> Nat]
  BY <1>1, <1>2, <1>4, <1>5, <1>6 DEF SheetsOK
<1>9. /\ (a # v => sheet'[a] = w) /\ sheet'[v] = new /\ earned'[a] = earned[a] + xp
      /\ \A d \in Characters \ {a, v} : sheet'[d] = sheet[d]
      /\ \A d \in Characters \ {a} : earned'[d] = earned[d]
  BY <1>1, <1>5 DEF SheetsOK
<1>10. \A d \in Characters : sheet'[d].hp <= sheet'[d].maxHP
  BY <1>4, <1>6, <1>9 DEF SheetsOK
<1>11. ASSUME ~crashed', NEW m \in Mobs PROVE sheet'[m].level = MobLevel
  <2>1. v \in Mobs /\ m # a /\ m \in Characters
    BY <1>11, <1>5, <1>1 DEF Characters
  <2> QED
    BY <2>1, <1>6, <1>9 DEF SheetsOK
<1>12. ASSUME NEW p \in Players, ~crashed' \/ p \in alive'
       PROVE  PlayerSheet(sheet'[p], earned'[p])
  <2>1. p # v /\ p \in Characters
    BY <1>12, <1>5, <1>1 DEF Characters
  <2>2. CASE p = a
    BY <2>1, <2>2, <1>7, <1>9
  <2>3. CASE p # a
    <3>1. PlayerSheet(sheet[p], earned[p])
      BY DEF SheetsOK
    <3> QED
      BY <2>1, <2>3, <3>1, <1>9
  <2> QED
    BY <2>2, <2>3
<1> QED
  BY <1>8, <1>10, <1>11, <1>12 DEF SheetsOK

\* Who is in the world does not matter to the sheets while the server runs.
LEMMA SheetsUntouched ==
  ASSUME SheetsOK, ~crashed, UNCHANGED <<sheet, earned, crashed>>
  PROVE  SheetsOK'
  BY DEF SheetsOK

LEMMA AttackSheets ==
  ASSUME SheetsOK, ~crashed, alive \subseteq Characters, NEW a, NEW v,
         a \in Players \cup {Stranger} \/ (a \in Mobs /\ v \in Players),
         NEW living \in BOOLEAN, living => v \in alive,
         NEW attackId \in Nat, Attack(a, v, living, attackId)
  PROVE  SheetsOK'
<1>1. CASE UNCHANGED <<sheet, earned, crashed>>
  BY <1>1, SheetsUntouched
<1>2. CASE a \in alive /\ v \in alive /\ Hit(a, v, attackId)
  <2>1. a \in Characters /\ v \in Characters /\ a # Stranger
    BY <1>2, StrangerAssumption
  <2> DEFINE left == sheet[v].hp - Damage(sheet[a], sheet[v], attackId)
  <2>2. sheet[a] \in Sheets /\ sheet[v] \in Sheets
    BY <2>1 DEF SheetsOK
  <2>3. Damage(sheet[a], sheet[v], attackId) \in Nat \ {0} /\ sheet[v].hp \in Nat /\ sheet[v].maxHP \in Nat
    BY <2>2 DEF Sheets, Damage, Larger
  <2>4. CASE left > 0
    <3>1. sheet' = [sheet EXCEPT ![v].hp = left] /\ UNCHANGED <<alive, earned, crashed>>
      BY <1>2, <2>4 DEF Hit
    <3>2. left \in Nat \ {0} /\ left <= sheet[v].maxHP
      <4>1. sheet[v].hp <= sheet[v].maxHP
        BY <2>1 DEF SheetsOK
      <4> QED
        BY <4>1, <2>3, <2>4
    <3> HIDE DEF left
    <3> QED
      BY <2>1, <3>1, <3>2, HealthKeeps
  <2>5. CASE left <= 0
    <3>1. a \in Players \/ v \in Players
      BY <2>1
    <3> QED
      BY <1>2, <2>1, <2>5, <3>1, KillKeeps
  <2> QED
    BY <2>3, <2>4, <2>5
<1>3. UNCHANGED <<sheet, earned, crashed>> \/ (a \in alive /\ living /\ Hit(a, v, attackId))
  BY DEF Attack
<1> QED
  BY <1>1, <1>2, <1>3

-------------------------------------------------------------------------------
(* The times, and what waits. *)

TimesOK ==
  /\ generation \in [Mobs -> {0, 1}]
  /\ attackAge \in [Characters -> 0..AttackCooldown + 1]
  /\ regenAge \in [Players -> 0..AgeCap]
  /\ regenDue \in [Players -> 0..Larger(MinWait, RegenCooldown)]
  /\ spawnAge \in 0..(2 * SpawnCooldown + 1)
  /\ spawnDue \in 0..SpawnCooldown
  /\ requests \in Seq((Players \cup {Stranger}) \X Ids) /\ Len(requests) <= MaxRequests
  /\ phase \in {"commands", "events"}
  /\ crashed \in BOOLEAN

LEMMA Division ==
  ASSUME NEW a \in Nat, NEW b \in Nat \ {0}
  PROVE  a \div b \in Nat /\ a % b \in 0..(b - 1)
<1>1. a \div b \in Int
  OBVIOUS
<1>2. a \div b >= 0
  OBVIOUS
<1>3. a % b \in 0..(b - 1)
  OBVIOUS
<1> QED
  BY <1>1, <1>2, <1>3

\* The cap keeps at least one remainder apart from the next.
LEMMA CapType == AgeCap \in Nat /\ AgeCap >= RegenCooldown - 1
<1>1. /\ RegenCooldown \in Nat \ {0} /\ RegenAmount \in Nat \ {0}
      /\ PlayerHealth \in Nat /\ MaxLevel \in Nat
  BY CombatAssumption
<1>2. (MaxLevel + 1) \div 2 \in Nat
  BY <1>1, Division
<1>3. MaxHealth \in Nat
  BY <1>1, <1>2 DEF MaxHealth
<1>4. MaxHealth \div RegenAmount \in Nat
  BY <1>1, <1>3, Division
<1> DEFINE q == MaxHealth \div RegenAmount
<1>5. q \in Nat /\ RegenCooldown * q \in Nat
  <2> HIDE DEF q
  <2>1. q \in Nat
    BY <1>4 DEF q
  <2> QED
    BY <1>1, <2>1, Products
<1> HIDE DEF q
<1>6. RegenCooldown * (q + 1) = RegenCooldown * q + RegenCooldown
  BY <1>1, <1>5
<1>7. AgeCap = RegenCooldown * (q + 1) - 1
  BY DEF AgeCap, q
<1> QED
  BY <1>1, <1>5, <1>6, <1>7

LEMMA CooldownTypes ==
  /\ AttackCooldown \in Nat /\ MaxRequests \in Nat
  /\ RegenCooldown \in Nat \ {0} /\ RegenAmount \in Nat \ {0} /\ SpawnCooldown \in Nat \ {0}
  /\ Larger(MinWait, RegenCooldown) \in Nat \ {0}
  /\ MinWait \in 0..Larger(MinWait, RegenCooldown)
  /\ RegenCooldown \in 0..Larger(MinWait, RegenCooldown)
  BY CombatAssumption DEF Larger

Sound == IInv /\ SheetsOK /\ TimesOK

LEMMA InitSound == Init => Sound
<1> SUFFICES ASSUME Init PROVE Sound
  OBVIOUS
<1>1. SheetsOK
  <2>1. sheet = [c \in Characters |-> NewSheet(c)] /\ earned = [c \in Characters |-> 0]
    BY DEF Init
  <2>2. Mobs \subseteq Characters /\ Players \subseteq Characters
    BY DEF Characters
  <2> QED
    BY <2>1, <2>2, NewSheetOK DEF SheetsOK
<1>2. TimesOK
  <2>1. requests = <<>> /\ Len(requests) = 0 /\ requests \in Seq((Players \cup {Stranger}) \X Ids)
    BY DEF Init
  <2>2. regenAge \in [Players -> 0..AgeCap]
    BY CapType DEF Init
  <2>3. attackAge \in [Characters -> 0..AttackCooldown + 1]
    BY CooldownTypes DEF Init
  <2>4. regenDue \in [Players -> 0..Larger(MinWait, RegenCooldown)]
    BY CooldownTypes DEF Init
  <2>5. spawnAge \in 0..(2 * SpawnCooldown + 1) /\ spawnDue \in 0..SpawnCooldown
    BY CooldownTypes DEF Init
  <2>6. generation \in [Mobs -> {0, 1}] /\ phase \in {"commands", "events"} /\ crashed \in BOOLEAN
    BY DEF Init
  <2> QED
    BY <2>1, <2>2, <2>3, <2>4, <2>5, <2>6, CooldownTypes DEF TimesOK
<1> QED
  BY <1>1, <1>2, InitEstablishes DEF Sound

LEMMA AttackTimes ==
  ASSUME TimesOK, alive \subseteq Characters, NEW a, NEW v, NEW living,
         NEW attackId, Attack(a, v, living, attackId)
  PROVE  /\ generation' \in [Mobs -> {0, 1}]
         /\ attackAge' \in [Characters -> 0..AttackCooldown + 1]
         /\ crashed' \in BOOLEAN
<1>1. generation' = generation /\ crashed' \in BOOLEAN
  <2>1. crashed' = crashed \/ crashed' = (v \in Players)
    BY DEF Attack, Hit, Destroyed
  <2>2. crashed \in BOOLEAN
    BY DEF TimesOK
  <2>3. generation' = generation
    BY DEF Attack, Hit, Destroyed
  <2>4. CASE crashed' = crashed
    BY <2>2, <2>3, <2>4
  <2>5. CASE crashed' = (v \in Players)
    <3> DEFINE dead == v \in Players
    <3>1. crashed' \in BOOLEAN
      <4>1. dead \in BOOLEAN /\ crashed' = dead
        BY <2>5
      <4> HIDE DEF dead
      <4> QED
        BY <4>1
    <3> QED
      BY <2>3, <3>1
  <2> QED
    BY <2>1, <2>4, <2>5
<1>2. attackAge' = attackAge \/ (a \in alive /\ attackAge' = [attackAge EXCEPT ![a] = 0])
  BY DEF Attack
<1>3. 0 \in 0..AttackCooldown + 1
  BY CooldownTypes
<1> QED
  BY <1>1, <1>2, <1>3 DEF TimesOK

LEMMA ExecuteCommandSound ==
  ASSUME Sound, ~crashed, ExecuteCommand
  PROVE  SheetsOK' /\ TimesOK'
<1> DEFINE attacker == Head(requests)[1]
           target == Head(requests)[2]
           living == target[1] \in alive /\ target = Id(target[1])
<1>1. /\ alive \subseteq Characters /\ requests # <<>> /\ Len(requests) <= MaxRequests
      /\ requests \in Seq((Players \cup {Stranger}) \X Ids)
  BY DEF Sound, IInv, WorldOK, TimesOK, ExecuteCommand
<1>2. Head(requests) \in (Players \cup {Stranger}) \X Ids
  BY <1>1
<1>3. attacker \in Players \cup {Stranger}
  BY <1>2
<1>4. PICK attackId \in AttackIds : Attack(attacker, target[1], living, attackId)
  BY DEF ExecuteCommand
<1>5. living \in BOOLEAN /\ (living => target[1] \in alive)
  OBVIOUS
<1>6. requests' \in Seq((Players \cup {Stranger}) \X Ids) /\ Len(requests') <= MaxRequests
  <2>1. requests' = Tail(requests)
    BY DEF ExecuteCommand
  <2>2. Tail(requests) \in Seq((Players \cup {Stranger}) \X Ids)
    BY <1>1
  <2>3. Len(Tail(requests)) <= MaxRequests
    <3>1. Len(requests) \in Nat \ {0} /\ Len(Tail(requests)) = Len(requests) - 1
      BY <1>1
    <3> QED
      BY <1>1, <3>1, CooldownTypes
  <2> QED
    BY <2>1, <2>2, <2>3
<1>7. UNCHANGED <<regenVars, spawnVars, phase>>
  BY DEF ExecuteCommand
<1> HIDE DEF attacker, target, living
<1>8. SheetsOK'
  <2>1. attackId \in Nat
    BY CombatAssumption
  <2> QED
    BY <1>1, <1>3, <1>4, <1>5, <2>1, AttackSheets DEF Sound
<1>9. TimesOK'
  <2>1. /\ generation' \in [Mobs -> {0, 1}] /\ crashed' \in BOOLEAN
        /\ attackAge' \in [Characters -> 0..AttackCooldown + 1]
    BY <1>1, <1>4, AttackTimes DEF Sound
  <2> QED
    BY <1>6, <1>7, <2>1 DEF Sound, TimesOK
<1> QED
  BY <1>8, <1>9

LEMMA MobAttacksSound ==
  ASSUME Sound, ~crashed, NEW m \in Mobs, NEW p \in Players, MobAttacks(m, p)
  PROVE  SheetsOK' /\ TimesOK'
<1>1. alive \subseteq Characters /\ p \in alive /\ Attack(m, p, TRUE, 0)
  BY DEF Sound, IInv, WorldOK, MobAttacks
<1>2. SheetsOK'
  <2>1. 0 \in Nat
    OBVIOUS
  <2> QED
    BY <1>1, <2>1, AttackSheets DEF Sound
<1>3. /\ generation' \in [Mobs -> {0, 1}] /\ crashed' \in BOOLEAN
      /\ attackAge' \in [Characters -> 0..AttackCooldown + 1]
  BY <1>1, AttackTimes DEF Sound
<1>4. UNCHANGED <<regenVars, spawnVars, requests, phase>>
  BY DEF MobAttacks
<1> QED
  BY <1>2, <1>3, <1>4 DEF Sound, TimesOK

\* A heal gives no more than the maximum, and the remainder of the time is kept.
LEMMA HealthRegenerateSound ==
  ASSUME Sound, ~crashed, NEW p \in Players, HealthRegenerate(p)
  PROVE  SheetsOK' /\ TimesOK'
<1> DEFINE s == sheet[p]
           count == regenAge[p] \div RegenCooldown
           rest == regenAge[p] % RegenCooldown
           healed == Smaller(s.maxHP, s.hp + count * RegenAmount)
<1>1. /\ p \in Characters /\ s \in Sheets /\ s.hp \in Nat \ {0} /\ s.maxHP \in Nat \ {0}
  <2>1. p \in Characters
    BY DEF Characters
  <2>2. s \in Sheets
    BY <2>1 DEF Sound, SheetsOK
  <2> QED
    BY <2>1, <2>2 DEF Sheets
<1>2. count \in Nat /\ rest \in 0..(RegenCooldown - 1)
  <2>1. regenAge[p] \in Nat
    BY CapType DEF Sound, TimesOK
  <2> QED
    BY <2>1, CooldownTypes, Division
<1>3. healed \in Nat \ {0} /\ healed <= s.maxHP
  <2>1. count * RegenAmount \in Nat
    <3> HIDE DEF count
    <3> QED
      BY <1>2, CooldownTypes, Products
  <2> DEFINE gain == count * RegenAmount
  <2>2. gain \in Nat /\ healed = Smaller(s.maxHP, s.hp + gain)
    BY <2>1
  <2> HIDE DEF gain, healed
  <2> QED
    BY <1>1, <2>2 DEF Smaller
<1>4. /\ regenDue' = [regenDue EXCEPT ![p] = Larger(MinWait, RegenCooldown - rest)]
      /\ UNCHANGED <<attackAge, earned, worldVars, spawnVars, requests, phase, crashed>>
      /\ \/ sheet' = [sheet EXCEPT ![p].hp = healed] /\ regenAge' = [regenAge EXCEPT ![p] = rest]
         \/ UNCHANGED <<sheet, regenAge>>
  BY DEF HealthRegenerate
<1>5. Larger(MinWait, RegenCooldown - rest) \in 0..Larger(MinWait, RegenCooldown)
  <2> HIDE DEF rest
  <2>1. MinWait \in Nat /\ RegenCooldown \in Nat
    BY CombatAssumption
  <2> QED
    BY <1>2, <2>1 DEF Larger
<1>6. rest \in 0..AgeCap
  <2> HIDE DEF rest
  <2> QED
    BY <1>2, CapType, CooldownTypes
<1> HIDE DEF healed, rest, count
<1>7. SheetsOK'
  <2>1. CASE sheet' = [sheet EXCEPT ![p].hp = healed]
    BY <2>1, <1>1, <1>3, <1>4, HealthKeeps DEF Sound
  <2>2. CASE UNCHANGED sheet
    BY <2>2, <1>4, SheetsUntouched DEF Sound
  <2> QED
    BY <2>1, <2>2, <1>4
<1>8. TimesOK'
  <2>1. regenDue' \in [Players -> 0..Larger(MinWait, RegenCooldown)]
    BY <1>4, <1>5 DEF Sound, TimesOK
  <2>2. regenAge' \in [Players -> 0..AgeCap]
    BY <1>4, <1>6 DEF Sound, TimesOK
  <2> QED
    BY <1>4, <2>1, <2>2 DEF Sound, TimesOK
<1> QED
  BY <1>7, <1>8

LEMMA SpawnerSound ==
  ASSUME Sound, ~crashed, Spawner
  PROVE  SheetsOK' /\ TimesOK'
<1>1. /\ UNCHANGED <<regenVars, earned, requests, phase, crashed>>
      /\ spawnDue' = SpawnCooldown /\ (spawnAge' = spawnAge \/ spawnAge' = 0)
      /\ UNCHANGED <<worldVars, sheet, attackAge>> \/ \E m \in Mobs \ alive : Born(m)
  BY DEF Spawner
<1>2. spawnAge' \in 0..(2 * SpawnCooldown + 1) /\ spawnDue' \in 0..SpawnCooldown
  BY <1>1, CooldownTypes DEF Sound, TimesOK
<1>3. CASE UNCHANGED <<worldVars, sheet, attackAge>>
  <2>1. SheetsOK'
    BY <1>1, <1>3, SheetsUntouched DEF Sound
  <2> QED
    BY <1>1, <1>2, <1>3, <2>1 DEF Sound, TimesOK
<1>4. ASSUME NEW m \in Mobs \ alive, Born(m)
      PROVE  SheetsOK' /\ TimesOK'
  <2> DEFINE new == NewSheet(m)
  <2>1. /\ sheet' = [sheet EXCEPT ![m] = new] /\ generation' = [generation EXCEPT ![m] = 1 - @]
        /\ attackAge' = [attackAge EXCEPT ![m] = AttackCooldown + 1] /\ alive' = alive \cup {m}
    BY <1>4 DEF Born
  <2>2. m \in Characters /\ m \notin Players
    BY CombatAssumption DEF Characters
  <2>3. new \in Sheets /\ new.hp <= new.maxHP /\ new.level = MobLevel
    BY <2>2, NewSheetOK
  <2> HIDE DEF new
  <2>4. sheet' \in [Characters -> Sheets] /\ earned' = earned
    BY <1>1, <2>1, <2>3 DEF Sound, SheetsOK
  <2>5. sheet'[m] = new /\ \A d \in Characters \ {m} : sheet'[d] = sheet[d]
    BY <2>1, <2>2 DEF Sound, SheetsOK
  <2>6. Mobs \subseteq Characters /\ Players \subseteq Characters
    BY DEF Characters
  <2>7. SheetsOK'
    BY <1>1, <2>2, <2>3, <2>4, <2>5, <2>6 DEF Sound, SheetsOK
  <2>8. generation' \in [Mobs -> {0, 1}]
    BY <2>1 DEF Sound, TimesOK
  <2>9. attackAge' \in [Characters -> 0..AttackCooldown + 1]
    <3>1. AttackCooldown + 1 \in 0..AttackCooldown + 1
      BY CooldownTypes
    <3> QED
      BY <2>1, <3>1 DEF Sound, TimesOK
  <2> QED
    BY <1>1, <1>2, <2>7, <2>8, <2>9 DEF Sound, TimesOK
<1> QED
  BY <1>1, <1>3, <1>4

\* Time passes: no stamp grows beyond what is told apart.
LEMMA TickSound ==
  ASSUME Sound, ~crashed, Tick
  PROVE  SheetsOK' /\ TimesOK'
<1>1. SheetsOK'
  BY SheetsUntouched DEF Tick, Sound
<1>2. ASSUME NEW age \in 0..AgeCap PROVE Older(age) \in 0..AgeCap
  BY CapType, CooldownTypes DEF Older
<1>3. regenAge' \in [Players -> 0..AgeCap]
  BY <1>2 DEF Tick, Sound, TimesOK
<1>4. regenDue' \in [Players -> 0..Larger(MinWait, RegenCooldown)]
  <2>1. ASSUME NEW p \in Players, p \in alive
        PROVE  regenDue[p] - 1 \in 0..Larger(MinWait, RegenCooldown)
    <3>1. regenDue[p] > 0 /\ regenDue[p] \in 0..Larger(MinWait, RegenCooldown)
      BY <2>1 DEF Tick, Sound, TimesOK
    <3> QED
      BY <3>1, CooldownTypes
  <2> QED
    BY <2>1 DEF Tick, Sound, TimesOK
<1>5. attackAge' \in [Characters -> 0..AttackCooldown + 1]
  <2>1. ASSUME NEW age \in 0..AttackCooldown + 1
        PROVE  Smaller(age + 1, AttackCooldown + 1) \in 0..AttackCooldown + 1
    BY CooldownTypes DEF Smaller
  <2> QED
    BY <2>1 DEF Tick, Sound, TimesOK
<1>6. spawnDue' \in 0..SpawnCooldown /\ spawnAge' \in 0..(2 * SpawnCooldown + 1)
  <2>1. /\ spawnDue' = spawnDue - 1 /\ spawnDue > 0 /\ spawnDue \in 0..SpawnCooldown
        /\ spawnAge' = Smaller(spawnAge + 1, 2 * SpawnCooldown + 1)
        /\ spawnAge \in 0..(2 * SpawnCooldown + 1)
    BY DEF Tick, Sound, TimesOK
  <2> QED
    BY <2>1, CooldownTypes DEF Smaller
<1> QED
  BY <1>1, <1>3, <1>4, <1>5, <1>6 DEF Tick, Sound, TimesOK

LEMMA EnterSound ==
  ASSUME Sound, ~crashed, NEW p \in Players, Enter(p)
  PROVE  SheetsOK' /\ TimesOK'
<1>1. SheetsOK'
  BY SheetsUntouched DEF Enter, Sound
<1>2. regenDue' \in [Players -> 0..Larger(MinWait, RegenCooldown)]
  <2>1. PICK due \in {0, Larger(0, RegenCooldown - regenAge[p])} :
          regenDue' = [regenDue EXCEPT ![p] = due]
    BY DEF Enter
  <2>2. regenAge[p] \in Nat
    BY CapType DEF Sound, TimesOK
  <2>3. due \in 0..Larger(MinWait, RegenCooldown)
    BY <2>1, <2>2, CooldownTypes DEF Larger
  <2> QED
    BY <2>1, <2>3 DEF Sound, TimesOK
<1> QED
  BY <1>1, <1>2 DEF Enter, Sound, TimesOK

LEMMA LeaveSound ==
  ASSUME Sound, ~crashed, NEW p \in Players, Leave(p)
  PROVE  SheetsOK' /\ TimesOK'
<1> DEFINE Item == (Players \cup {Stranger}) \X Ids
<1>1. SheetsOK'
  BY SheetsUntouched DEF Leave, Sound
<1>2. requests \in Seq(Item) /\ Len(requests) <= MaxRequests
  BY DEF Sound, TimesOK
<1>3. requests' = [i \in 1..Len(requests) |->
                     <<IF requests[i][1] = p THEN Stranger ELSE requests[i][1],
                       IF requests[i][2] = Id(p) THEN <<p, 1>> ELSE requests[i][2]>>]
  BY <1>2 DEF Leave
<1>4. \A i \in 1..Len(requests) :
        <<IF requests[i][1] = p THEN Stranger ELSE requests[i][1],
          IF requests[i][2] = Id(p) THEN <<p, 1>> ELSE requests[i][2]>> \in Item
  BY <1>2 DEF Ids, Characters
<1>5. requests' \in Seq(Item) /\ Len(requests') = Len(requests)
  <2> HIDE DEF Item
  <2>1. Len(requests) \in Nat
    BY <1>2
  <2> QED
    BY <1>3, <1>4, <2>1
<1> QED
  BY <1>1, <1>2, <1>5 DEF Leave, Sound, TimesOK

LEMMA RequestAttackSound ==
  ASSUME Sound, ~crashed, NEW p \in Players, NEW target \in Ids, RequestAttack(p, target)
  PROVE  SheetsOK' /\ TimesOK'
<1> DEFINE Item == (Players \cup {Stranger}) \X Ids
<1>1. SheetsOK'
  BY SheetsUntouched DEF RequestAttack, Sound
<1>2. requests \in Seq(Item) /\ <<p, target>> \in Item /\ Len(requests) < MaxRequests
  BY DEF Sound, TimesOK, RequestAttack
<1>3. requests' = Append(requests, <<p, target>>)
  BY DEF RequestAttack
<1>4. requests' \in Seq(Item) /\ Len(requests') <= MaxRequests
  <2> HIDE DEF Item
  <2>1. requests' \in Seq(Item) /\ Len(requests') = Len(requests) + 1 /\ Len(requests) \in Nat
    BY <1>2, <1>3
  <2> QED
    BY <1>2, <2>1, CooldownTypes
<1> QED
  BY <1>1, <1>4 DEF RequestAttack, Sound, TimesOK

\* Steps that touch neither a sheet nor a time.
LEMMA RestSound ==
  ASSUME Sound, ~crashed, BeginEvents \/ \E m \in Mobs : MobMoves(m)
  PROVE  SheetsOK' /\ TimesOK'
<1>1. UNCHANGED <<sheetVars, regenVars, generation, spawnVars, requests, crashed>>
  BY DEF BeginEvents, MobMoves
<1>2. phase' \in {"commands", "events"}
  BY DEF BeginEvents, MobMoves, Sound, TimesOK
<1>3. SheetsOK'
  BY <1>1, SheetsUntouched DEF Sound
<1> QED
  BY <1>1, <1>2, <1>3 DEF Sound, TimesOK

LEMMA StepSound == Sound /\ [Next]_vars => Sound'
<1> SUFFICES ASSUME Sound, [Next]_vars PROVE Sound'
  OBVIOUS
<1>1. IInv'
  BY StepKeeps DEF Sound
<1>2. CASE UNCHANGED vars
  BY <1>1, <1>2 DEF vars, Sound, SheetsOK, TimesOK
<1>3. CASE Next
  <2>1. ~crashed
    BY <1>3 DEF Next
  <2>2. CASE RealmStep
    BY <2>1, <2>2, <1>1, ExecuteCommandSound, RestSound, SpawnerSound, TickSound,
       HealthRegenerateSound DEF RealmStep, Sound
  <2>3. CASE \E p \in Players :
               Enter(p) \/ Leave(p) \/ \E target \in Ids : RequestAttack(p, target)
    BY <2>1, <2>3, <1>1, EnterSound, LeaveSound, RequestAttackSound DEF Sound
  <2>4. CASE \E m \in Mobs : MobMoves(m) \/ \E p \in Players : MobAttacks(m, p)
    BY <2>1, <2>4, <1>1, RestSound, MobAttacksSound DEF Sound
  <2> QED
    BY <1>3, <2>2, <2>3, <2>4 DEF Next
<1> QED
  BY <1>2, <1>3

LEMMA SoundSuffices == Sound => Inv
<1> SUFFICES ASSUME Sound PROVE Inv
  OBVIOUS
<1>1. TypeOK
  BY DEF Sound, IInv, WorldOK, SolidAreAlive, SheetsOK, TimesOK, TypeOK
<1>2. HealthInBounds
  <2>1. ASSUME NEW c \in alive PROVE 0 < sheet[c].hp /\ sheet[c].hp <= sheet[c].maxHP
    <3>1. c \in Characters
      BY DEF Sound, IInv, WorldOK
    <3>2. sheet[c] \in Sheets /\ sheet[c].hp <= sheet[c].maxHP
      BY <3>1 DEF Sound, SheetsOK
    <3> QED
      BY <3>2 DEF Sheets
  <2> QED
    BY <2>1 DEF HealthInBounds
<1>3. \A p \in alive \cap Players : PlayerSheet(sheet[p], earned[p])
  BY DEF Sound, SheetsOK
<1>4. ExperienceConserved
  BY <1>3 DEF PlayerSheet, ExperienceConserved
<1>5. LevelSettled
  BY <1>3 DEF PlayerSheet, Reached, LevelSettled
<1> QED
  BY <1>1, <1>2, <1>4, <1>5 DEF Inv, Sound, IInv

\* Whoever lives has health left and no more than the maximum, and a player's
\* levels have each been paid for and have each given their bonus once, whatever
\* attacks, heals, deaths and births come in between (RealmServer_EntityActionAttack.cpp,
\* RealmServer_Observers_CharacterSheet.cpp).
THEOREM CharactersSound == Spec => []Inv
  BY InitSound, StepSound, SoundSuffices, PTL DEF Spec
===============================================================================
