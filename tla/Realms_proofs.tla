----------------------------- MODULE Realms_proofs -----------------------------
(***************************************************************************)
(* Proofs about what goes on in a realm and about who drives it.           *)
(*                                                                         *)
(* EntityEvents, for every set of entities, every finite set of at most    *)
(* Limit events and every horizon: no wake-up is lost, events run on time, *)
(* and the queues implement EventTimer.                                    *)
(*                                                                         *)
(* RealmManager, for all workers, realms and names: no realm has two       *)
(* workers or is lost, and the manager implements RealmOwnership.          *)
(***************************************************************************)
EXTENDS EntityEvents, RealmManager, FiniteSetTheorems, TLAPS

-------------------------------------------------------------------------------
(* The events of a realm. *)

\* A root of a heap is one of its events with the least due tick.
LEMMA RootsType ==
  ASSUME NEW S \in SUBSET Events, due \in [Events -> Ticks], NEW top \in Roots(S)
  PROVE  /\ S = {} => top = NoEvent
         /\ S # {} => top \in S /\ \A y \in S : due[top] <= due[y]
BY DEF Roots

\* ScheduleEvent on the rest of a queue keeps the types.
LEMMA ScheduleEventType ==
  ASSUME TypeOK, NEW e \in Entities, NEW rest \in SUBSET Events,
         NEW top \in Events \cup {NoEvent}, NEW x \in Events, NEW t \in Ticks,
         ScheduleEvent(e, rest, top, x, t)
  PROVE  /\ queue' \in [Entities -> SUBSET Events]
         /\ front' \in [Entities -> Events \cup {NoEvent}]
         /\ due' \in [Events -> Ticks]
         /\ scheduledInRealm' \subseteq Events
         /\ realmQueue' \in [Entities \X Ticks -> Nat]
BY DEF TypeOK, ScheduleEvent, InsertIntoRealmSchedule, Insert

\* A realm without entities satisfies the invariant.
LEMMA InitInv == Init => Inv
BY ConstantsAssumption
   DEF Init, Inv, TypeOK, HeapOK, OwnersOK, PhaseOK, FlagIsTruthful, UpdateOK, Ticks

-------------------------------------------------------------------------------
\* Scheduling an event on an entity that is not being updated: used by the
\* commands and by callbacks that create another entity.
LEMMA ScheduleKeepsInv ==
  ASSUME Inv, NEW e \in Entities, NEW x \in Events, NEW t \in Ticks,
         Unscheduled(x), updated # e, entityState'[e] = "alive",
         entityState' \in [Entities -> {"unborn", "alive", "dead"}],
         \A f \in Entities : f # e => entityState'[f] = entityState[f],
         ScheduleEvent(e, queue[e], front[e], x, t),
         spawned' \in SUBSET (Entities \ {updated}), phase # "update" => spawned' = {},
         UNCHANGED <<currentTick, phase, updated, iteration>>
  PROVE  Inv'
<1> USE ConstantsAssumption
<1> DEFINE first == queue[e] = {} \/ t < due[front[e]]
<1>1. /\ queue[e] \in SUBSET Events
      /\ front[e] \in Events \cup {NoEvent}
      /\ x \notin queue[e]
  BY DEF Inv, TypeOK, Unscheduled
<1>2. TypeOK'
  BY <1>1, ScheduleEventType DEF Inv, TypeOK
<1>3. /\ queue'[e] = queue[e] \cup {x}
      /\ front'[e] = IF first THEN x ELSE front[e]
      /\ \A f \in Entities : f # e => queue'[f] = queue[f] /\ front'[f] = front[f]
      /\ due'[x] = t
      /\ \A y \in Events : y # x => due'[y] = due[y]
  BY DEF Inv, TypeOK, ScheduleEvent
<1>4. /\ \A y \in Events : y # x => (y \in scheduledInRealm' <=> y \in scheduledInRealm)
      /\ x \in scheduledInRealm' <=> (first \/ t = due[front[e]])
  BY DEF Inv, TypeOK, ScheduleEvent
<1>5. /\ first => realmQueue'[<<e, t>>] > 0
      /\ \A f \in Entities, u \in Ticks :
           realmQueue[<<f, u>>] > 0 => realmQueue'[<<f, u>>] > 0
  BY DEF Inv, TypeOK, ScheduleEvent, InsertIntoRealmSchedule, Insert
<1>6. HeapOK'
  <2> SUFFICES ASSUME NEW f \in Entities
               PROVE  /\ queue'[f] = {} => front'[f] = NoEvent
                      /\ queue'[f] # {} =>
                           /\ front'[f] \in queue'[f]
                           /\ \A y \in queue'[f] : due'[front'[f]] <= due'[y]
    BY DEF HeapOK
  <2>1. CASE f # e
    <3>1. x \notin queue[f]
      BY DEF Unscheduled
    <3> QED
      BY <2>1, <3>1, <1>3 DEF Inv, HeapOK, TypeOK, Ticks
  <2>2. CASE f = e
    <3>1. CASE first
      BY <2>2, <3>1, <1>1, <1>3 DEF Inv, HeapOK, TypeOK, Ticks
    <3>2. CASE ~first
      BY <2>2, <3>2, <1>1, <1>3 DEF Inv, HeapOK, TypeOK, Ticks
    <3> QED
      BY <3>1, <3>2
  <2> QED
    BY <2>1, <2>2
<1>7. OwnersOK'
  BY <1>3 DEF Inv, OwnersOK, Unscheduled
<1>8. PhaseOK'
  BY DEF Inv, PhaseOK, TypeOK
<1>9. FlagIsTruthful'
  <2> SUFFICES ASSUME NEW f \in Entities, updated # f
               PROVE  /\ \A y \in queue'[f] \cap scheduledInRealm' :
                           realmQueue'[<<f, due'[y]>>] > 0
                      /\ queue'[f] # {} => front'[f] \in scheduledInRealm'
    BY DEF FlagIsTruthful
  <2>1. CASE f # e
    <3>1. x \notin queue[f] /\ queue'[f] = queue[f] /\ front'[f] = front[f]
      BY <2>1, <1>3 DEF Unscheduled
    <3>2. queue[f] \subseteq Events
      BY DEF Inv, TypeOK
    <3>3. ASSUME NEW y \in queue'[f] \cap scheduledInRealm'
          PROVE  realmQueue'[<<f, due'[y]>>] > 0
      <4>1. y \in queue[f] \cap scheduledInRealm /\ due'[y] = due[y] /\ due[y] \in Ticks
        BY <3>1, <3>2, <3>3, <1>3, <1>4 DEF Inv, TypeOK
      <4> QED
        BY <4>1, <1>5 DEF Inv, FlagIsTruthful
    <3>4. queue'[f] # {} => front'[f] \in scheduledInRealm'
      BY <3>1, <3>2, <1>4 DEF Inv, FlagIsTruthful, HeapOK
    <3> QED
      BY <3>3, <3>4
  <2>2. CASE f = e
    <3>1. ASSUME NEW y \in queue'[e] \cap scheduledInRealm', y # x
          PROVE  realmQueue'[<<e, due'[y]>>] > 0
      <4>1. y \in queue[e] \cap scheduledInRealm /\ due'[y] = due[y] /\ due[y] \in Ticks
        BY <3>1, <1>1, <1>3, <1>4 DEF Inv, TypeOK
      <4> QED
        BY <4>1, <1>5, <2>2 DEF Inv, FlagIsTruthful
    <3>2. x \in scheduledInRealm' => realmQueue'[<<e, due'[x]>>] > 0
      <4>1. CASE first
        BY <4>1, <1>3, <1>5
      <4>2. CASE ~first /\ t = due[front[e]]
        <5>1. front[e] \in queue[e] \cap scheduledInRealm
          BY <4>2, <2>2 DEF Inv, FlagIsTruthful, HeapOK
        <5> QED
          BY <5>1, <4>2, <1>3, <1>5, <2>2 DEF Inv, FlagIsTruthful
      <4> QED
        BY <4>1, <4>2, <1>4
    <3>3. queue'[e] # {} => front'[e] \in scheduledInRealm'
      <4>1. CASE first
        BY <4>1, <1>3, <1>4
      <4>2. CASE ~first
        BY <4>2, <1>1, <1>3, <1>4, <2>2 DEF Inv, FlagIsTruthful, HeapOK
      <4> QED
        BY <4>1, <4>2
    <3> QED
      BY <3>1, <3>2, <3>3, <2>2
  <2> QED
    BY <2>1, <2>2
<1>10. UpdateOK'
  <2> SUFFICES ASSUME updated # NoEntity
               PROVE  UpdateOK'
    BY DEF UpdateOK
  <2>1. /\ updated \in Entities /\ updated # e
        /\ queue'[updated] = queue[updated]
        /\ front'[updated] = front[updated]
        /\ x \notin queue[updated]
        /\ queue[updated] \subseteq Events
    BY <1>3 DEF Inv, TypeOK, Unscheduled
  <2>2. \A y \in queue[updated] : due'[y] = due[y] /\ due[y] \in Ticks
    BY <2>1, <1>3 DEF Inv, TypeOK
  <2>3. DueSet(updated)' = DueSet(updated)
    BY <2>1, <2>2 DEF DueSet
  <2>4. ASSUME NEW y \in queue'[updated] \cap scheduledInRealm', due'[y] > currentTick
        PROVE  \/ realmQueue'[<<updated, due'[y]>>] > 0
               \/ /\ front'[updated] \notin scheduledInRealm'
                  /\ due'[y] = due'[front'[updated]]
    <3>1. y \in queue[updated] \cap scheduledInRealm /\ due[y] > currentTick
      BY <2>1, <2>2, <2>4, <1>4
    <3>2. front[updated] \in queue[updated]
      BY <3>1, <2>1 DEF Inv, HeapOK
    <3>3. front[updated] \in scheduledInRealm' <=> front[updated] \in scheduledInRealm
      BY <3>2, <2>1, <1>4
    <3> QED
      BY <3>1, <3>2, <3>3, <2>1, <2>2, <1>5 DEF Inv, UpdateOK
  <2> QED
    BY <2>3, <2>4 DEF Inv, UpdateOK
<1> QED
  BY <1>2, <1>6, <1>7, <1>8, <1>9, <1>10 DEF Inv

\* A new entity has no events and no entries of its own.
LEMMA NewEntityInv == ASSUME Inv, NEW e \in Entities, NewEntity(e) PROVE Inv'
BY ConstantsAssumption
   DEF NewEntity, Inv, TypeOK, HeapOK, OwnersOK, PhaseOK, FlagIsTruthful, UpdateOK, DueSet

\* Realm::ScheduleEntityEvent keeps the invariant.
LEMMA ScheduleEntityEventInv ==
  ASSUME Inv, NEW e \in Entities, NEW x \in Events, NEW t \in Ticks,
         ScheduleEntityEvent(e, x, t)
  PROVE  Inv'
<1>1. updated # e
  BY ConstantsAssumption DEF ScheduleEntityEvent, Inv, PhaseOK
<1>2. spawned' \in SUBSET (Entities \ {updated}) /\ spawned' = {}
  BY DEF ScheduleEntityEvent, Inv, TypeOK, PhaseOK
<1> QED
  BY <1>1, <1>2, ScheduleKeepsInv DEF ScheduleEntityEvent, Inv, TypeOK

\* So does a callback that creates an entity and schedules an event for it.
LEMMA SpawnFromCallbackInv ==
  ASSUME Inv, NEW e \in Entities, NEW x \in Events, NEW t \in Ticks,
         SpawnFromCallback(e, x, t)
  PROVE  Inv'
<1>1. updated # e
  BY ConstantsAssumption DEF SpawnFromCallback, Inv, PhaseOK
<1>2. /\ entityState' \in [Entities -> {"unborn", "alive", "dead"}]
      /\ entityState'[e] = "alive"
      /\ \A f \in Entities : f # e => entityState'[f] = entityState[f]
  BY DEF SpawnFromCallback, Inv, TypeOK
<1>3. spawned' \in SUBSET (Entities \ {updated}) /\ phase = "update"
  BY <1>1 DEF SpawnFromCallback, Inv, TypeOK, PhaseOK
<1> QED
  BY <1>1, <1>2, <1>3, ScheduleKeepsInv DEF SpawnFromCallback

\* And the next event of an entity that the callback has created.
LEMMA ScheduleFromCallbackInv ==
  ASSUME Inv, NEW e \in Entities, NEW x \in Events, NEW t \in Ticks,
         ScheduleFromCallback(e, x, t)
  PROVE  Inv'
<1>1. updated # e /\ spawned' \in SUBSET (Entities \ {updated}) /\ phase = "update"
  BY DEF ScheduleFromCallback, Inv, TypeOK, PhaseOK
<1> QED
  BY <1>1, ScheduleKeepsInv DEF ScheduleFromCallback, Inv, TypeOK

\* An entity that is removed leaves only stale entries behind.
LEMMA RemoveEntityInv == ASSUME Inv, NEW e \in Entities, RemoveEntity(e) PROVE Inv'
<1>1. updated # e
  BY ConstantsAssumption DEF RemoveEntity, Inv, PhaseOK
<1>2. /\ queue'[e] = {} /\ front'[e] = NoEvent
      /\ \A f \in Entities : f # e => /\ queue'[f] = queue[f]
                                      /\ front'[f] = front[f]
                                      /\ entityState'[f] = entityState[f]
      /\ UNCHANGED <<currentTick, phase, due, scheduledInRealm, realmQueue, updated,
                     iteration, spawned>>
  BY DEF RemoveEntity, Inv, TypeOK
<1>3. TypeOK'
  BY DEF RemoveEntity, Inv, TypeOK
<1>4. HeapOK' /\ OwnersOK'
  BY <1>2 DEF Inv, HeapOK, OwnersOK
<1>5. PhaseOK'
  BY <1>1, <1>2 DEF Inv, PhaseOK, TypeOK
<1>6. FlagIsTruthful'
  BY <1>2 DEF Inv, FlagIsTruthful
<1>7. UpdateOK'
  BY <1>1, <1>2 DEF Inv, UpdateOK, DueSet, TypeOK
<1> QED
  BY <1>3, <1>4, <1>5, <1>6, <1>7 DEF Inv

\* The tick that opens an epoch keeps the invariant.
LEMMA BeginEpochInv == ASSUME Inv, BeginEpoch PROVE Inv'
BY ConstantsAssumption
   DEF BeginEpoch, Inv, TypeOK, HeapOK, OwnersOK, PhaseOK, FlagIsTruthful, UpdateOK, Ticks

\* So does the end of the drain.
LEMMA EndEpochInv == ASSUME Inv, EndEpoch PROVE Inv'
BY ConstantsAssumption
   DEF EndEpoch, Inv, TypeOK, HeapOK, OwnersOK, PhaseOK, FlagIsTruthful, UpdateOK

-------------------------------------------------------------------------------
\* Update pops the entry and goes on with the entity's due events.
LEMMA WakeEntityInv ==
  ASSUME Inv, NEW e \in Entities, NEW t \in Ticks, WakeEntity(e, t) PROVE Inv'
<1> USE ConstantsAssumption
<1>1. /\ t <= currentTick /\ realmQueue[<<e, t>>] > 0
      /\ updated = NoEntity
      /\ \A f \in Entities : updated # f
      /\ UNCHANGED <<currentTick, entityState, queue, front, due, spawned>>
      /\ spawned = {}
  BY DEF WakeEntity, DueEntry, Inv, PhaseOK
<1>2. \A f \in Entities : \A x \in queue[f] : x \in Events /\ due[x] \in Ticks
  BY DEF Inv, TypeOK
<1>3. CASE /\ entityState[e] # "alive" \/ queue[e] = {}
           /\ realmQueue' = [realmQueue EXCEPT ![<<e, t>>] = @ - 1]
           /\ UNCHANGED <<scheduledInRealm, phase, updated, iteration>>
  <2>1. queue[e] = {}
    BY <1>3 DEF Inv, OwnersOK
  <2>2. TypeOK'
    BY <1>1, <1>3 DEF Inv, TypeOK
  <2>3. \A f \in Entities, u \in Ticks : f # e => realmQueue'[<<f, u>>] = realmQueue[<<f, u>>]
    BY <1>3 DEF Inv, TypeOK
  <2>4. FlagIsTruthful'
    BY <1>1, <1>2, <1>3, <2>1, <2>3 DEF Inv, FlagIsTruthful
  <2> QED
    BY <1>1, <1>3, <2>2, <2>4 DEF Inv, HeapOK, OwnersOK, PhaseOK, UpdateOK
<1>4. CASE /\ entityState[e] = "alive" /\ queue[e] # {}
           /\ due[front[e]] > currentTick
           /\ realmQueue' = [[realmQueue EXCEPT ![<<e, t>>] = @ - 1]
                               EXCEPT ![<<e, due[front[e]]>>] = @ + 1]
           /\ scheduledInRealm' = scheduledInRealm \cup {front[e]}
           /\ UNCHANGED <<phase, updated, iteration>>
  <2>1. /\ front[e] \in queue[e]
        /\ \A x \in queue[e] : due[front[e]] <= due[x]
    BY <1>4 DEF Inv, HeapOK
  <2>2. front[e] \in Events /\ due[front[e]] \in Ticks /\ t # due[front[e]]
    BY <1>1, <1>2, <1>4, <2>1 DEF Inv, TypeOK, Ticks
  <2>3. TypeOK'
    <3> DEFINE popped == [realmQueue EXCEPT ![<<e, t>>] = @ - 1]
    <3>1. popped \in [Entities \X Ticks -> Nat]
      BY <1>1 DEF Inv, TypeOK
    <3> HIDE DEF popped
    <3>2. [popped EXCEPT ![<<e, due[front[e]]>>] = @ + 1] \in [Entities \X Ticks -> Nat]
      BY <3>1, <2>2
    <3>3. realmQueue' \in [Entities \X Ticks -> Nat]
      BY <1>4, <3>2 DEF popped
    <3> QED
      BY <1>1, <1>4, <2>2, <3>3 DEF Inv, TypeOK
  <2>4. /\ \A f \in Entities, u \in Ticks :
             f # e => realmQueue'[<<f, u>>] = realmQueue[<<f, u>>]
        /\ \A u \in Ticks : u # t /\ realmQueue[<<e, u>>] > 0 => realmQueue'[<<e, u>>] > 0
        /\ realmQueue'[<<e, due[front[e]]>>] > 0
    BY <1>4, <2>2 DEF Inv, TypeOK
  <2>5. \A x \in queue[e] : due[x] # t
    BY <1>1, <1>2, <1>4, <2>1, <2>2 DEF Inv, TypeOK, Ticks
  <2>6. \A f \in Entities : f # e => front[e] \notin queue[f]
    BY <2>1 DEF Inv, OwnersOK
  <2>7. FlagIsTruthful'
    <3> SUFFICES ASSUME NEW f \in Entities
                 PROVE  /\ \A x \in queue'[f] \cap scheduledInRealm' :
                             realmQueue'[<<f, due'[x]>>] > 0
                        /\ queue'[f] # {} => front'[f] \in scheduledInRealm'
      BY DEF FlagIsTruthful
    <3>1. CASE f # e
      <4>1. \A x \in queue[f] : x \in scheduledInRealm' <=> x \in scheduledInRealm
        BY <3>1, <1>4, <2>6
      <4>2. \A x \in queue[f] : realmQueue'[<<f, due[x]>>] = realmQueue[<<f, due[x]>>]
        BY <3>1, <1>2, <2>4
      <4>3. queue[f] # {} => front[f] \in queue[f]
        BY DEF Inv, HeapOK
      <4> QED
        BY <1>1, <4>1, <4>2, <4>3 DEF Inv, FlagIsTruthful
    <3>2. CASE f = e
      BY <3>2, <1>1, <1>2, <1>4, <2>4, <2>5 DEF Inv, FlagIsTruthful
    <3> QED
      BY <3>1, <3>2
  <2> QED
    BY <1>1, <1>4, <2>3, <2>7 DEF Inv, HeapOK, OwnersOK, PhaseOK, UpdateOK
<1>5. CASE /\ entityState[e] = "alive" /\ queue[e] # {}
           /\ due[front[e]] <= currentTick
           /\ realmQueue' = [realmQueue EXCEPT ![<<e, t>>] = @ - 1]
           /\ phase' = "update"
           /\ updated' = e
           /\ iteration' = 0
           /\ UNCHANGED scheduledInRealm
  <2>1. TypeOK'
    BY <1>1, <1>5 DEF Inv, TypeOK
  <2>2. \A f \in Entities, u \in Ticks :
          f # e \/ u # t => realmQueue'[<<f, u>>] = realmQueue[<<f, u>>]
    BY <1>5 DEF Inv, TypeOK
  <2>3. FlagIsTruthful'
    BY <1>1, <1>2, <1>5, <2>2 DEF Inv, FlagIsTruthful
  <2>4. Cardinality(DueSet(e)) <= Limit
    <3>1. /\ Cardinality(DueSet(e)) <= Cardinality(Events)
          /\ Cardinality(DueSet(e)) \in Nat
          /\ Cardinality(Events) \in Nat
      BY FS_Subset, FS_CardinalityType DEF DueSet, Inv, TypeOK
    <3> QED
      BY <3>1, FewEventsAssumption
  <2>5. UpdateOK'
    <3>1. DueSet(updated)' = DueSet(e)
      BY <1>1, <1>5 DEF DueSet
    <3>2. ASSUME NEW x \in queue[e] \cap scheduledInRealm, due[x] > currentTick
          PROVE  realmQueue'[<<e, due[x]>>] > 0
      BY <3>2, <1>1, <1>2, <2>2 DEF Inv, FlagIsTruthful, TypeOK, Ticks
    <3>3. Limit - iteration' = Limit
      BY <1>5
    <3> QED
      BY <1>1, <1>5, <2>4, <3>1, <3>2, <3>3 DEF UpdateOK
  <2>6. PhaseOK'
    BY <1>1, <1>5 DEF PhaseOK
  <2> QED
    BY <1>1, <2>1, <2>3, <2>5, <2>6 DEF Inv, HeapOK, OwnersOK
<1> QED
  BY <1>3, <1>4, <1>5 DEF WakeEntity

-------------------------------------------------------------------------------
\* What is due can be run: the loop of Update ends because nothing is due any
\* more, never because of its iteration limit.
LEMMA LoopRunsAllDue ==
  ASSUME Inv, updated # NoEntity, ~MoreToRun(updated)
  PROVE  \A x \in queue[updated] : due[x] > currentTick
<1>1. /\ updated \in Entities
      /\ \A x \in queue[updated] : x \in Events /\ due[x] \in Int
      /\ currentTick \in Int /\ iteration \in 0 .. Limit
      /\ IsFiniteSet(Events)
  BY ConstantsAssumption DEF Inv, TypeOK, Ticks
<1>2. CASE iteration = Limit
  <2>1. DueSet(updated) \subseteq Events
    BY <1>1 DEF DueSet
  <2>2. IsFiniteSet(DueSet(updated))
    BY <1>1, <2>1, FS_Subset
  <2>3. Cardinality(DueSet(updated)) = 0
    <3>1. Cardinality(DueSet(updated)) <= Limit - iteration
      BY DEF Inv, UpdateOK
    <3>2. Limit - iteration = 0
      BY <1>2, ConstantsAssumption
    <3>3. Cardinality(DueSet(updated)) \in Nat
      BY <2>2, FS_CardinalityType
    <3> QED
      BY <3>1, <3>2, <3>3
  <2>4. DueSet(updated) = {}
    BY <2>2, <2>3, FS_EmptySet
  <2> QED
    BY <1>1, <2>4 DEF DueSet
<1>3. CASE iteration # Limit
  <2>1. queue[updated] # {} => due[front[updated]] > currentTick
    BY <1>1, <1>3, ConstantsAssumption DEF MoreToRun, Inv, HeapOK
  <2> QED
    BY <1>1, <2>1 DEF Inv, HeapOK
<1> QED
  BY <1>2, <1>3

\* The end of Update leaves an entry for the root that remains.
LEMMA FinishUpdateInv == ASSUME Inv, FinishUpdate PROVE Inv'
<1> USE ConstantsAssumption
<1> DEFINE e == updated
           x == front[updated]
<1>1. /\ e \in Entities /\ e # NoEntity
      /\ UNCHANGED <<currentTick, entityState, queue, front, due>>
      /\ updated' = NoEntity /\ phase' = "drain" /\ iteration' = 0
      /\ spawned' = {}
  BY DEF FinishUpdate, Inv, PhaseOK, TypeOK
<1>2. \A y \in queue[e] : y \in Events /\ due[y] \in Ticks /\ due[y] > currentTick
  BY <1>1, LoopRunsAllDue DEF FinishUpdate, Inv, TypeOK
<1>3. queue[e] # {} => x \in queue[e] /\ x \in Events /\ due[x] \in Ticks
  BY <1>1, <1>2 DEF Inv, HeapOK
<1>4. TypeOK'
  BY <1>1, <1>3 DEF FinishUpdate, Inv, TypeOK, InsertIntoRealmSchedule, Insert
<1>5. /\ \A f \in Entities, u \in Ticks :
           realmQueue[<<f, u>>] > 0 => realmQueue'[<<f, u>>] > 0
      /\ queue[e] # {} /\ x \notin scheduledInRealm => realmQueue'[<<e, due[x]>>] > 0
      /\ queue[e] # {} => x \in scheduledInRealm'
      /\ \A y \in Events : y # x => (y \in scheduledInRealm' <=> y \in scheduledInRealm)
      /\ queue[e] = {} => scheduledInRealm' = scheduledInRealm
  BY <1>1, <1>3 DEF FinishUpdate, Inv, TypeOK, InsertIntoRealmSchedule, Insert
<1>6. FlagIsTruthful'
  <2> SUFFICES ASSUME NEW f \in Entities
               PROVE  /\ \A y \in queue[f] \cap scheduledInRealm' :
                           realmQueue'[<<f, due[y]>>] > 0
                      /\ queue[f] # {} => front[f] \in scheduledInRealm'
    BY <1>1 DEF FlagIsTruthful
  <2>1. CASE f # e
    <3>1. \A y \in queue[f] : y \in Events /\ due[y] \in Ticks
      BY DEF Inv, TypeOK
    <3>2. \A y \in queue[f] : y \in scheduledInRealm' <=> y \in scheduledInRealm
      <4>1. queue[e] # {} => x \notin queue[f]
        BY <1>1, <1>3, <2>1 DEF Inv, OwnersOK
      <4> QED
        BY <4>1, <3>1, <1>5
    <3>3. queue[f] # {} => front[f] \in queue[f]
      BY DEF Inv, HeapOK
    <3> QED
      BY <2>1, <3>1, <3>2, <3>3, <1>5 DEF Inv, FlagIsTruthful
  <2>2. CASE f = e
    <3> SUFFICES ASSUME NEW y \in queue[e], y \in scheduledInRealm'
                 PROVE  realmQueue'[<<e, due[y]>>] > 0
      BY <2>2, <1>5
    <3>1. CASE y \in scheduledInRealm
      <4>1. \/ realmQueue[<<e, due[y]>>] > 0
            \/ x \notin scheduledInRealm /\ due[y] = due[x]
        BY <3>1, <1>1, <1>2 DEF Inv, UpdateOK
      <4> QED
        BY <4>1, <1>1, <1>2, <1>5
    <3>2. CASE y \notin scheduledInRealm
      BY <3>2, <1>2, <1>5
    <3> QED
      BY <3>1, <3>2
  <2> QED
    BY <2>1, <2>2
<1>7. PhaseOK' /\ UpdateOK'
  BY <1>1 DEF PhaseOK, UpdateOK
<1> QED
  BY <1>1, <1>4, <1>6, <1>7 DEF Inv, HeapOK, OwnersOK

\* An event that runs is popped, and rescheduled if its callback says so.
LEMMA RunEventInv == ASSUME Inv, RunEvent PROVE Inv'
<1> USE ConstantsAssumption
<1> DEFINE e    == updated
           x    == front[updated]
           rest == queue[updated] \ {x}
<1>1. /\ e \in Entities /\ e # NoEntity
      /\ UNCHANGED <<currentTick, phase, entityState, updated>>
      /\ spawned' = {}
      /\ iteration' = iteration + 1 /\ iteration \in 0 .. Limit /\ iteration < Limit
      /\ x \in queue[e] /\ x \in Events
      /\ due[x] <= currentTick
      /\ rest \in SUBSET Events
      /\ due \in [Events -> Ticks]
  BY DEF RunEvent, MoreToRun, Inv, PhaseOK, TypeOK, HeapOK
<1>2. PICK top \in Roots(rest) :
        \/ \E t \in Ticks : t > currentTick /\ ScheduleEvent(e, rest, top, x, t)
        \/ /\ queue' = [queue EXCEPT ![e] = rest]
           /\ front' = [front EXCEPT ![e] = top]
           /\ UNCHANGED <<due, scheduledInRealm, realmQueue>>
  BY DEF RunEvent
<1>3. /\ rest = {} => top = NoEvent
      /\ rest # {} => top \in rest /\ \A y \in rest : due[top] <= due[y]
      /\ top \in Events \cup {NoEvent}
  BY <1>1, <1>2, RootsType
\* While the old root was due, set flags of later events are backed by entries.
<1>4. \A y \in rest \cap scheduledInRealm :
        due[y] > currentTick => realmQueue[<<e, due[y]>>] > 0
  <2> SUFFICES ASSUME NEW y \in rest \cap scheduledInRealm, due[y] > currentTick
               PROVE  realmQueue[<<e, due[y]>>] > 0
    OBVIOUS
  <2>1. due[y] # due[x]
    BY <1>1 DEF Inv, TypeOK, Ticks
  <2> QED
    BY <2>1, <1>1 DEF Inv, UpdateOK
<1>5. /\ \A f \in Entities : f # e => x \notin queue[f] /\ queue[f] \cap rest = {}
      /\ \A f \in Entities : queue[f] \subseteq Events
      /\ entityState[e] = "alive"
  BY <1>1 DEF Inv, OwnersOK, TypeOK, PhaseOK
\* In both outcomes: the queue loses or keeps x, the events that are due lose x.
<1>6. /\ TypeOK'
      /\ queue'[e] \in {rest, rest \cup {x}}
      /\ \A f \in Entities : f # e => queue'[f] = queue[f] /\ front'[f] = front[f]
      /\ \A y \in Events : y # x => /\ due'[y] = due[y]
                                    /\ y \in scheduledInRealm' <=> y \in scheduledInRealm
      /\ \A f \in Entities, u \in Ticks :
           realmQueue[<<f, u>>] > 0 => realmQueue'[<<f, u>>] > 0
      /\ x \in queue'[e] => due'[x] > currentTick
  <2>1. CASE \E t \in Ticks : t > currentTick /\ ScheduleEvent(e, rest, top, x, t)
    <3>1. PICK t \in Ticks : t > currentTick /\ ScheduleEvent(e, rest, top, x, t)
      BY <2>1
    <3>2. TypeOK'
      <4>1. /\ queue' \in [Entities -> SUBSET Events]
            /\ front' \in [Entities -> Events \cup {NoEvent}]
            /\ due' \in [Events -> Ticks]
            /\ scheduledInRealm' \subseteq Events
            /\ realmQueue' \in [Entities \X Ticks -> Nat]
        <5>1. ScheduleEvent(e, rest, top, x, t) /\ TypeOK
          BY <3>1 DEF Inv
        <5> QED
          BY <1>1, <1>3, <5>1, ScheduleEventType
      <4>2. iteration' \in 0 .. Limit
        BY <1>1
      <4> QED
        BY <1>1, <4>1, <4>2 DEF Inv, TypeOK
    <3>3. /\ queue'[e] = rest \cup {x}
          /\ \A f \in Entities : f # e => queue'[f] = queue[f] /\ front'[f] = front[f]
          /\ due'[x] = t
          /\ \A y \in Events : y # x => due'[y] = due[y]
          /\ \A y \in Events : y # x => (y \in scheduledInRealm' <=> y \in scheduledInRealm)
      BY <1>1, <3>1 DEF Inv, TypeOK, ScheduleEvent
    <3>4. \A f \in Entities, u \in Ticks :
            realmQueue[<<f, u>>] > 0 => realmQueue'[<<f, u>>] > 0
      BY <1>1, <3>1 DEF Inv, TypeOK, ScheduleEvent, InsertIntoRealmSchedule, Insert
    <3> QED
      BY <3>1, <3>2, <3>3, <3>4
  <2>2. CASE /\ queue' = [queue EXCEPT ![e] = rest]
             /\ front' = [front EXCEPT ![e] = top]
             /\ UNCHANGED <<due, scheduledInRealm, realmQueue>>
    <3>1. TypeOK'
      BY <1>1, <1>3, <2>2 DEF Inv, TypeOK
    <3>2. x \notin queue'[e]
      BY <1>1, <2>2 DEF Inv, TypeOK
    <3> QED
      BY <1>1, <2>2, <3>1, <3>2 DEF Inv, TypeOK
  <2> QED
    BY <1>2, <2>1, <2>2
<1>7. OwnersOK'
  BY <1>1, <1>5, <1>6 DEF Inv, OwnersOK
<1>8. PhaseOK'
  BY <1>1 DEF Inv, PhaseOK
<1>9. FlagIsTruthful'
  <2> SUFFICES ASSUME NEW f \in Entities, f # e
               PROVE  /\ \A y \in queue'[f] \cap scheduledInRealm' :
                           realmQueue'[<<f, due'[y]>>] > 0
                      /\ queue'[f] # {} => front'[f] \in scheduledInRealm'
    BY <1>1 DEF FlagIsTruthful
  <2>1. /\ queue'[f] = queue[f] /\ front'[f] = front[f]
        /\ \A y \in queue[f] : /\ due'[y] = due[y] /\ due[y] \in Ticks
                               /\ y \in scheduledInRealm' <=> y \in scheduledInRealm
    BY <1>1, <1>5, <1>6
  <2>2. queue[f] # {} => front[f] \in queue[f]
    BY DEF Inv, HeapOK
  <2> QED
    BY <2>1, <2>2, <1>6 DEF Inv, FlagIsTruthful
\* The part of the invariant that is about the queue of e.
<1>10. /\ queue'[e] = {} => front'[e] = NoEvent
       /\ queue'[e] # {} => /\ front'[e] \in queue'[e]
                            /\ \A y \in queue'[e] : due'[front'[e]] <= due'[y]
  <2>1. CASE \E t \in Ticks : t > currentTick /\ ScheduleEvent(e, rest, top, x, t)
    <3>1. PICK t \in Ticks : t > currentTick /\ ScheduleEvent(e, rest, top, x, t)
      BY <2>1
    <3>2. /\ queue'[e] = rest \cup {x}
          /\ front'[e] = IF rest = {} \/ t < due[top] THEN x ELSE top
          /\ due'[x] = t
          /\ \A y \in rest : due'[y] = due[y] /\ due[y] \in Ticks
      BY <1>1, <3>1 DEF Inv, TypeOK, ScheduleEvent
    <3>3. CASE rest = {} \/ t < due[top]
      BY <3>2, <3>3, <1>3 DEF Ticks
    <3>4. CASE ~(rest = {} \/ t < due[top])
      BY <3>2, <3>4, <1>3 DEF Ticks
    <3> QED
      BY <3>3, <3>4
  <2>2. CASE /\ queue' = [queue EXCEPT ![e] = rest]
             /\ front' = [front EXCEPT ![e] = top]
             /\ UNCHANGED <<due, scheduledInRealm, realmQueue>>
    BY <1>1, <1>3, <2>2 DEF Inv, TypeOK
  <2> QED
    BY <1>2, <2>1, <2>2
<1>11. HeapOK'
  <2> SUFFICES ASSUME NEW f \in Entities, f # e
               PROVE  /\ queue'[f] = {} => front'[f] = NoEvent
                      /\ queue'[f] # {} =>
                           /\ front'[f] \in queue'[f]
                           /\ \A y \in queue'[f] : due'[front'[f]] <= due'[y]
    BY <1>10 DEF HeapOK
  <2>1. /\ queue'[f] = queue[f] /\ front'[f] = front[f]
        /\ \A y \in queue[f] : due'[y] = due[y]
    BY <1>5, <1>6
  <2> QED
    BY <2>1 DEF Inv, HeapOK
<1>12. UpdateOK'
  <2>1. ASSUME NEW y \in queue'[e] \cap scheduledInRealm', due'[y] > currentTick
        PROVE  \/ realmQueue'[<<e, due'[y]>>] > 0
               \/ front'[e] \notin scheduledInRealm' /\ due'[y] = due'[front'[e]]
    <3>1. CASE y # x
      <4>1. y \in rest \cap scheduledInRealm /\ due'[y] = due[y] /\ due[y] \in Ticks
        BY <3>1, <2>1, <1>1, <1>6
      <4> QED
        BY <4>1, <2>1, <1>1, <1>4, <1>6
    <3>2. CASE y = x
      <4>1. x \in queue'[e]
        BY <2>1, <3>2
      <4>2. PICK t \in Ticks : t > currentTick /\ ScheduleEvent(e, rest, top, x, t)
        <5>1. queue' # [queue EXCEPT ![e] = rest]
          BY <4>1, <1>1 DEF Inv, TypeOK
        <5> QED
          BY <5>1, <1>2
      <4>3. /\ due'[x] = t
            /\ front'[e] = IF rest = {} \/ t < due[top] THEN x ELSE top
        BY <1>1, <4>2 DEF Inv, TypeOK, ScheduleEvent
      <4>4. CASE rest = {} \/ t < due[top]
        <5>1. realmQueue'[<<e, t>>] > 0
          BY <1>1, <4>2, <4>4 DEF Inv, TypeOK, ScheduleEvent, InsertIntoRealmSchedule, Insert
        <5> QED
          BY <5>1, <4>3, <3>2
      <4>5. CASE ~(rest = {} \/ t < due[top])
        <5>1. t = due[top]
          BY <2>1, <3>2, <4>2, <4>5, <1>1 DEF ScheduleEvent
        <5>2. top \in rest /\ top # x /\ top \in Events
          BY <4>5, <1>3, <1>1
        <5>3. due'[top] = due[top] /\ (top \in scheduledInRealm' <=> top \in scheduledInRealm)
          BY <5>2, <1>6
        <5>4. CASE top \in scheduledInRealm
          BY <5>1, <5>2, <5>4, <4>2, <4>3, <3>2, <1>1, <1>4, <1>6
        <5>5. CASE top \notin scheduledInRealm
          BY <5>1, <5>3, <5>5, <4>3, <4>5, <3>2
        <5> QED
          BY <5>4, <5>5
      <4> QED
        BY <4>4, <4>5
    <3> QED
      BY <3>1, <3>2
  <2>2. Cardinality(DueSet(e)') <= Limit - iteration'
    <3>1. DueSet(e)' = DueSet(e) \ {x}
      <4>1. \A y \in rest : y \in Events /\ y # x /\ due'[y] = due[y]
        BY <1>1, <1>6
      <4>2. x \in queue'[e] => ~(due'[x] <= currentTick)
        BY <1>1, <1>6 DEF TypeOK, Ticks
      <4> QED
        BY <4>1, <4>2, <1>1, <1>6 DEF DueSet
    <3>2. x \in DueSet(e) /\ IsFiniteSet(DueSet(e))
      BY <1>1, <1>5, FS_Subset DEF DueSet
    <3>3. Cardinality(DueSet(e) \ {x}) = Cardinality(DueSet(e)) - 1
      BY <3>2, FS_RemoveElement
    <3>4. Cardinality(DueSet(e)) \in Nat
      BY <3>2, FS_CardinalityType
    <3>5. Cardinality(DueSet(e)) <= Limit - iteration
      BY <1>1 DEF Inv, UpdateOK
    <3> QED
      BY <3>1, <3>3, <3>4, <3>5, <1>1
  <2> QED
    BY <2>1, <2>2, <1>1 DEF UpdateOK
<1> QED
  BY <1>6, <1>7, <1>8, <1>9, <1>11, <1>12 DEF Inv

-------------------------------------------------------------------------------
\* Every step keeps the invariant.
LEMMA NextInv == Inv /\ [Next]_vars => Inv'
<1> SUFFICES ASSUME Inv, [Next]_vars PROVE Inv'
  OBVIOUS
<1>1. CASE BeginEpoch
  BY <1>1, BeginEpochInv
<1>2. ASSUME NEW e \in Entities, NEW t \in Ticks, WakeEntity(e, t) PROVE Inv'
  BY <1>2, WakeEntityInv
<1>3. CASE RunEvent
  BY <1>3, RunEventInv
<1>4. CASE FinishUpdate
  BY <1>4, FinishUpdateInv
<1>5. CASE EndEpoch
  BY <1>5, EndEpochInv
<1>6. ASSUME NEW e \in Entities, NewEntity(e) PROVE Inv'
  BY <1>6, NewEntityInv
<1>7. ASSUME NEW e \in Entities, RemoveEntity(e) PROVE Inv'
  BY <1>7, RemoveEntityInv
<1>8. ASSUME NEW e \in Entities, NEW x \in Events, NEW t \in Ticks,
             ScheduleEntityEvent(e, x, t)
      PROVE  Inv'
  BY <1>8, ScheduleEntityEventInv
<1>9. ASSUME NEW e \in Entities, NEW x \in Events, NEW t \in Ticks,
             SpawnFromCallback(e, x, t)
      PROVE  Inv'
  BY <1>9, SpawnFromCallbackInv
<1>11. ASSUME NEW e \in Entities, NEW x \in Events, NEW t \in Ticks,
              ScheduleFromCallback(e, x, t)
       PROVE  Inv'
  BY <1>11, ScheduleFromCallbackInv
<1>10. CASE UNCHANGED vars
  BY <1>10 DEF vars, Inv, TypeOK, HeapOK, OwnersOK, PhaseOK, FlagIsTruthful, UpdateOK,
               DueSet
<1> QED
  BY <1>1, <1>2, <1>3, <1>4, <1>5, <1>6, <1>7, <1>8, <1>9, <1>10, <1>11
     DEF Next, Epoch, Environment

\* The inductive invariant holds: in particular scheduledInRealm is truthful
\* whatever the heaps do with ties and whatever the callbacks schedule.
THEOREM InductiveInvariant == Spec => []Inv
<1> QED
  BY InitInv, NextInv, PTL DEF Spec

\* Type correctness of the event queues of a realm.
THEOREM TypeCorrect == Spec => []TypeOK
<1>1. Inv => TypeOK
  BY DEF Inv
<1> QED
  BY <1>1, InductiveInvariant, PTL

\* An entity with events always has an entry in the realm's queue that looks at
\* it in time.
THEOREM WakeupsAreNeverLost == Spec => []NoLostWakeup
<1>1. Inv => NoLostWakeup
  <2> SUFFICES ASSUME Inv, NEW e \in Entities, updated # e, NEW x \in queue[e]
               PROVE  \E t \in Ticks : t <= due[x] /\ realmQueue[<<e, t>>] > 0
    BY DEF NoLostWakeup
  <2>1. /\ front[e] \in queue[e] \cap scheduledInRealm
        /\ due[front[e]] <= due[x]
        /\ due[front[e]] \in Ticks
    BY DEF Inv, FlagIsTruthful, HeapOK, TypeOK
  <2> QED
    BY <2>1 DEF Inv, FlagIsTruthful
<1> QED
  BY <1>1, InductiveInvariant, PTL

\* The drain ends only when no entity has a due event.
LEMMA NothingDueAtEndEpoch ==
  ASSUME Inv, EndEpoch
  PROVE  \A e \in Entities : \A x \in queue[e] : due[x] > currentTick
<1> SUFFICES ASSUME NEW e \in Entities, NEW x \in queue[e]
             PROVE  due[x] > currentTick
  OBVIOUS
<1>1. updated # e
  BY ConstantsAssumption DEF EndEpoch, Inv, PhaseOK
<1>2. /\ front[e] \in queue[e] \cap scheduledInRealm
      /\ due[front[e]] <= due[x]
      /\ due[front[e]] \in Ticks /\ due[x] \in Ticks
      /\ realmQueue[<<e, due[front[e]]>>] > 0
  BY <1>1 DEF Inv, FlagIsTruthful, HeapOK, TypeOK
<1>3. due[front[e]] > currentTick
  BY <1>2 DEF EndEpoch, DueEntry, Inv, TypeOK, Ticks
<1> QED
  BY <1>2, <1>3 DEF Inv, TypeOK, Ticks

\* No epoch closes with an event left that was due at its tick.
THEOREM EventsAreOnTime == Spec => EventsOnTime
<1>1. Inv /\ [Next]_vars =>
        [phase = "drain" /\ phase' = "commands" =>
           \A e \in Entities : \A x \in queue[e] : due[x] > currentTick]_vars
  <2> SUFFICES ASSUME Inv, Next, phase = "drain", phase' = "commands"
               PROVE  \A e \in Entities : \A x \in queue[e] : due[x] > currentTick
    OBVIOUS
  <2>1. EndEpoch
    BY DEF Next, Epoch, Environment, BeginEpoch, WakeEntity, RunEvent, FinishUpdate,
           NewEntity, RemoveEntity, ScheduleEntityEvent, SpawnFromCallback,
           ScheduleFromCallback
  <2> QED
    BY <2>1, NothingDueAtEndEpoch
<1> QED
  BY <1>1, InductiveInvariant, PTL DEF Spec, EventsOnTime

-------------------------------------------------------------------------------
Pending == UNION {queue[e] : e \in Entities}

\* Scheduling adds one pending event and takes none away.
LEMMA ScheduleRefines ==
  ASSUME Inv, NEW e \in Entities, NEW x \in Events, NEW t \in Ticks,
         Unscheduled(x), phase' = phase, currentTick' = currentTick,
         ScheduleEvent(e, queue[e], front[e], x, t)
  PROVE  Timer!Schedule(x, t)
<1>1. queue' = [queue EXCEPT ![e] = queue[e] \cup {x}] /\ due' = [due EXCEPT ![x] = t]
  BY DEF ScheduleEvent
<1>2. Pending' = Pending \cup {x}
  BY <1>1 DEF Pending, Inv, TypeOK
<1>3. x \notin Pending
  BY DEF Pending, Unscheduled
<1> QED
  BY <1>1, <1>2, <1>3 DEF Timer!Schedule, Pending

\* The queues with their flags and wake-up entries implement the abstract
\* timer: events run only when due, and never later than the epoch of their tick.
THEOREM QueuesImplementTimer == Spec => ImplementsTimer
<1>1. Init => Timer!Init
  BY ConstantsAssumption DEF Init, Timer!Init, Ticks, Timer!Ticks
<1>2. Inv /\ [Next]_vars => [Timer!Next]_Timer!timerVars
  <2> SUFFICES ASSUME Inv, [Next]_vars
               PROVE  Timer!Next \/ UNCHANGED Timer!timerVars
    OBVIOUS
  <2> USE DEF Timer!Ticks, Ticks
  <2>1. CASE BeginEpoch
    BY <2>1 DEF BeginEpoch, Timer!Next, Timer!Open
  <2>2. ASSUME NEW e \in Entities, NEW t \in Ticks, WakeEntity(e, t)
        PROVE  UNCHANGED Timer!timerVars
    BY <2>2 DEF WakeEntity, Timer!timerVars
  <2>3. CASE RunEvent
    <3> DEFINE e    == updated
               x    == front[updated]
               rest == queue[updated] \ {x}
    <3>1. /\ e \in Entities /\ x \in queue[e] /\ x \in Events
          /\ due[x] <= currentTick /\ x \in Pending
          /\ phase = "update" /\ UNCHANGED <<currentTick, phase>>
          /\ \A f \in Entities : f # e => x \notin queue[f]
      BY <2>3, ConstantsAssumption
         DEF RunEvent, MoreToRun, Inv, PhaseOK, TypeOK, HeapOK, OwnersOK, Pending
    <3>2. CASE \E top \in Roots(rest), t \in Ticks :
                 t > currentTick /\ ScheduleEvent(e, rest, top, x, t)
      <4>1. PICK t \in Ticks : /\ t > currentTick
                               /\ queue' = [queue EXCEPT ![e] = rest \cup {x}]
                               /\ due' = [due EXCEPT ![x] = t]
        BY <3>2 DEF ScheduleEvent
      <4>2. Pending' = Pending
        BY <3>1, <4>1 DEF Pending, Inv, TypeOK
      <4> QED
        BY <3>1, <4>1, <4>2 DEF Timer!Next, Timer!Run, Timer!Overdue, Pending
    <3>3. CASE queue' = [queue EXCEPT ![e] = rest] /\ due' = due
      <4>1. Pending' = Pending \ {x}
        BY <3>1, <3>3 DEF Pending, Inv, TypeOK
      <4> QED
        BY <3>1, <3>3, <4>1 DEF Timer!Next, Timer!Run, Timer!Overdue, Pending
    <3> QED
      BY <2>3, <3>2, <3>3 DEF RunEvent
  <2>4. CASE FinishUpdate
    BY <2>4 DEF FinishUpdate, Timer!timerVars
  <2>5. CASE EndEpoch
    <3>1. Timer!Overdue = {}
      BY <2>5, NothingDueAtEndEpoch DEF Timer!Overdue, Inv, TypeOK
    <3> QED
      BY <2>5, <3>1 DEF EndEpoch, Timer!Next, Timer!Close
  <2>6. ASSUME NEW e \in Entities, NewEntity(e) PROVE UNCHANGED Timer!timerVars
    BY <2>6 DEF NewEntity, Timer!timerVars
  <2>7. ASSUME NEW e \in Entities, RemoveEntity(e) PROVE Timer!Next
    <3>1. /\ queue' = [queue EXCEPT ![e] = {}]
          /\ UNCHANGED <<currentTick, due>>
          /\ phase' = phase
      BY <2>7 DEF RemoveEntity
    <3>2. Pending' = Pending \ queue[e]
      BY <3>1 DEF Pending, Inv, TypeOK, OwnersOK
    <3>3. queue[e] \in SUBSET Pending
      BY DEF Pending
    <3>4. \E S \in SUBSET Pending : Timer!Cancel(S)
      BY <3>1, <3>2, <3>3 DEF Timer!Cancel, Pending
    <3> QED
      BY <3>4 DEF Timer!Next, Pending
  <2>8. ASSUME NEW e \in Entities, NEW x \in Events, NEW t \in Ticks,
               \/ ScheduleEntityEvent(e, x, t)
               \/ SpawnFromCallback(e, x, t)
               \/ ScheduleFromCallback(e, x, t)
        PROVE  Timer!Next
    <3>1. Timer!Schedule(x, t)
      BY <2>8, ScheduleRefines DEF ScheduleEntityEvent, SpawnFromCallback,
         ScheduleFromCallback
    <3> QED
      BY <3>1 DEF Timer!Next
  <2>9. CASE UNCHANGED vars
    BY <2>9 DEF vars, Timer!timerVars
  <2> QED
    BY <2>1, <2>2, <2>3, <2>4, <2>5, <2>6, <2>7, <2>8, <2>9 DEF Next, Epoch, Environment
<1> QED
  BY <1>1, <1>2, InductiveInvariant, PTL DEF Spec, ImplementsTimer, Timer!Spec

-------------------------------------------------------------------------------
(* The realms of a server. *)

(***************************************************************************)
(* The queue as a sequence without repetitions.                            *)
(***************************************************************************)

\* Pushing a realm that is not queued: the queue stays free of repetitions and
\* gains that realm.
LEMMA PushFacts ==
  ASSUME NEW S, NEW q \in Seq(S), NEW r \in S
  PROVE  /\ Append(q, r) \in Seq(S)
         /\ Range(Append(q, r)) = Range(q) \cup {r}
         /\ IsInjective(q) /\ r \notin Range(q) => IsInjective(Append(q, r))
<1>1. Append(q, r) \in Seq(S) OBVIOUS
<1>2. Range(Append(q, r)) = Range(q) \cup {r}
  <2>1. /\ DOMAIN q = 1 .. Len(q) /\ Len(q) \in Nat
        /\ DOMAIN Append(q, r) = 1 .. (Len(q) + 1)
        /\ \A i \in 1 .. Len(q) : Append(q, r)[i] = q[i]
        /\ Append(q, r)[Len(q) + 1] = r
    OBVIOUS
  <2>2. ASSUME NEW x \in Range(Append(q, r)) PROVE x \in Range(q) \cup {r}
    BY <2>1 DEF Range
  <2>3. ASSUME NEW x \in Range(q) PROVE x \in Range(Append(q, r))
    BY <2>1 DEF Range
  <2>4. r \in Range(Append(q, r))
    BY <2>1 DEF Range
  <2> QED BY <2>2, <2>3, <2>4
<1>3. IsInjective(q) /\ r \notin Range(q) => IsInjective(Append(q, r))
  BY DEF Range, IsInjective
<1> QED BY <1>1, <1>2, <1>3

\* Popping the front of a queue without repetitions: exactly that realm is gone.
LEMMA PopFacts ==
  ASSUME NEW S, NEW q \in Seq(S), q # <<>>
  PROVE  /\ Head(q) \in S /\ Head(q) \in Range(q)
         /\ Tail(q) \in Seq(S)
         /\ IsInjective(q) => /\ IsInjective(Tail(q))
                              /\ Range(Tail(q)) = Range(q) \ {Head(q)}
<1>1. Len(q) \in Nat /\ Len(q) > 0 /\ DOMAIN q = 1 .. Len(q)
  OBVIOUS
<1>2. Head(q) \in S /\ Head(q) \in Range(q) /\ Tail(q) \in Seq(S)
  BY <1>1 DEF Range
<1>3. /\ Head(q) = q[1]
      /\ DOMAIN Tail(q) = 1 .. (Len(q) - 1)
      /\ \A i \in 1 .. (Len(q) - 1) : Tail(q)[i] = q[i + 1]
  BY <1>1
<1>4. ASSUME IsInjective(q) PROVE IsInjective(Tail(q))
  BY <1>1, <1>3, <1>4 DEF IsInjective
<1>5. ASSUME IsInjective(q) PROVE Range(Tail(q)) = Range(q) \ {Head(q)}
  <2>1. ASSUME NEW x \in Range(Tail(q)) PROVE x \in Range(q) \ {Head(q)}
    BY <1>1, <1>3, <1>5 DEF Range, IsInjective
  <2>2. ASSUME NEW x \in Range(q), x # Head(q) PROVE x \in Range(Tail(q))
    <3>1. PICK i \in 1 .. Len(q) : x = q[i]
      BY <1>1 DEF Range
    <3>2. i # 1 /\ i - 1 \in 1 .. (Len(q) - 1)
      BY <1>1, <1>3, <2>2, <3>1
    <3>3. Tail(q)[i - 1] = x
      BY <1>1, <1>3, <3>1, <3>2
    <3> QED BY <1>3, <3>2, <3>3 DEF Range
  <2> QED BY <2>1, <2>2
<1> QED BY <1>2, <1>4, <1>5

\* The empty queue.
LEMMA EmptyFacts == Range(<<>>) = {} /\ IsInjective(<<>>) /\ \A S : <<>> \in Seq(S)
  BY DEF Range, IsInjective

-------------------------------------------------------------------------------
(***************************************************************************)
(* The inductive invariant.                                                *)
(***************************************************************************)

USE DEF WorkerStates, MainStates

\* Before any realm is created the invariant holds.
LEMMA ManagerInitInv == ManagerInit => ManagerInv
  BY ManagerAssumption, EmptyFacts, SMT
     DEF ManagerInit, ManagerInv, ManagerTypeOK, QueueOK, OneWorkerPerRealm, NamesOK, LifeOK,
         NoRealmLost, CreatedOK, WorkersOK, StoppedOK, Queued, Holding, Registered

\* Every step of the workers and of the main thread keeps the invariant.
LEMMA ManagerStepInv == ManagerInv /\ [ManagerNext]_managerVars => ManagerInv'
<1> SUFFICES ASSUME ManagerInv, [ManagerNext]_managerVars PROVE ManagerInv'
  OBVIOUS
<1> USE ManagerAssumption
<1> USE DEF ManagerInv, ManagerTypeOK
<1>1. ASSUME NEW r \in Realms, CreateRealm(r) PROVE ManagerInv'
  <2> USE <1>1 DEF CreateRealm
  <2>1. CASE realms[RealmName[r]] # NoRealm
    BY <2>1, SMT DEF QueueOK, OneWorkerPerRealm, NamesOK, LifeOK,
         NoRealmLost, CreatedOK, WorkersOK, StoppedOK, Queued, Holding, Registered
  <2>2. CASE realms[RealmName[r]] = NoRealm
    <3>1. /\ realmsQueue' \in Seq(Realms)
          /\ Queued' = Queued \cup {r}
          /\ r \notin Queued => IsInjective(realmsQueue')
      <4>1. realmsQueue \in Seq(Realms) /\ realmsQueue' = Append(realmsQueue, r)
        BY <2>2
      <4>2. IsInjective(realmsQueue) BY DEF QueueOK
      <4> QED BY <4>1, <4>2, PushFacts DEF Queued
    <3>2. r \notin Queued /\ \A t \in Threads : ~Holding(t, r)
      BY DEF LifeOK, NamesOK
    <3>3. ManagerTypeOK' BY <2>2, <3>1
    <3>4. QueueOK' BY <3>1, <3>2, <2>2, SMT DEF QueueOK, Holding
    <3>5. OneWorkerPerRealm' BY <2>2 DEF OneWorkerPerRealm, Holding
    <3>6. NamesOK' BY <2>2, <3>1, <3>2, SMT DEF NamesOK, Registered, Holding
    <3>7. LifeOK' BY <2>2, <3>2, SMT DEF LifeOK, Registered, Holding, CreatedOK
    <3>8. NoRealmLost' BY <2>2, <3>2, SMT DEF NoRealmLost, Registered, Holding
    <3>9. CreatedOK' BY <2>2 DEF CreatedOK
    <3>10. WorkersOK' /\ StoppedOK' BY <2>2 DEF WorkersOK, StoppedOK
    <3> QED BY <3>3, <3>4, <3>5, <3>6, <3>7, <3>8, <3>9, <3>10
  <2> QED BY <2>1, <2>2
<1>2. ASSUME NEW n \in Names, DestroyRealm(n) PROVE ManagerInv'
  BY <1>2, SMT DEF DestroyRealm, QueueOK, OneWorkerPerRealm, NamesOK, LifeOK,
         NoRealmLost, CreatedOK, WorkersOK, StoppedOK, Queued, Holding, Registered
<1>3. CASE RunAsync
  <2>1. /\ mainPc' = "serving" /\ \A t \in Threads : pc[t] = "none" /\ held[t] = NoRealm
        /\ pc' = [t \in Threads |-> "created"]
        /\ UNCHANGED <<created, refused, realms, realmsQueue, queueDestroy,
                       destroyed, runningThreads, held>>
        /\ requestStopRunning' \in BOOLEAN
    BY <1>3 DEF RunAsync, sharedVars, WorkersOK
  <2>2. ManagerTypeOK' BY <2>1
  <2>3. QueueOK' /\ OneWorkerPerRealm' BY <2>1 DEF QueueOK, OneWorkerPerRealm, Queued, Holding
  <2>4. NamesOK' BY <2>1 DEF NamesOK, Queued, Registered
  <2>5. LifeOK' /\ NoRealmLost' BY <2>1 DEF LifeOK, NoRealmLost, Holding, Registered
  <2>6. CreatedOK' /\ WorkersOK' /\ StoppedOK' BY <2>1 DEF CreatedOK, WorkersOK, StoppedOK
  <2> QED BY <2>2, <2>3, <2>4, <2>5, <2>6
<1>4. CASE RequestStop
  BY <1>4, SMT DEF RequestStop, sharedVars, QueueOK, OneWorkerPerRealm, NamesOK, LifeOK,
         NoRealmLost, CreatedOK, WorkersOK, StoppedOK, Queued, Holding, Registered
<1>5. CASE Joined
  BY <1>5, SMT DEF Joined, sharedVars, QueueOK, OneWorkerPerRealm, NamesOK, LifeOK,
         NoRealmLost, CreatedOK, WorkersOK, StoppedOK, Queued, Holding, Registered
<1>6. CASE ClearRealms
  <2>1. Queued' = {} /\ IsInjective(realmsQueue') /\ realmsQueue' \in Seq(Realms)
    BY <1>6, EmptyFacts DEF ClearRealms, Queued
  <2> QED
  BY <1>6, <2>1, SMT DEF ClearRealms, QueueOK, OneWorkerPerRealm, NamesOK, LifeOK,
         NoRealmLost, CreatedOK, WorkersOK, StoppedOK, Holding, Registered
<1>7. ASSUME NEW t \in Threads, Worker(t) PROVE ManagerInv'
  <2>1. CASE Start(t)
    BY <2>1, SMT DEF Start, Goto, sharedVars, QueueOK, OneWorkerPerRealm, NamesOK, LifeOK,
         NoRealmLost, CreatedOK, WorkersOK, StoppedOK, Queued, Holding, Registered
  <2>2. CASE PopRealm(t)
    <3>1. CASE realmsQueue = <<>>
      BY <2>2, <3>1, SMT DEF PopRealm, Goto, QueueOK, OneWorkerPerRealm, NamesOK, LifeOK,
         NoRealmLost, CreatedOK, WorkersOK, StoppedOK, Queued, Holding, Registered
    <3>2. CASE realmsQueue # <<>>
      <4> DEFINE r == Head(realmsQueue)
      <4>1. /\ r \in Realms /\ r \in Queued
            /\ realmsQueue' \in Seq(Realms) /\ IsInjective(realmsQueue')
            /\ Queued' = Queued \ {r}
        <5>1. realmsQueue \in Seq(Realms) /\ realmsQueue' = Tail(realmsQueue)
          BY <2>2, <3>2 DEF PopRealm
        <5>2. IsInjective(realmsQueue) BY DEF QueueOK
        <5> QED BY <3>2, <5>1, <5>2, PopFacts DEF Queued
      <4>2. /\ held' = [held EXCEPT ![t] = r] /\ pc' = [pc EXCEPT ![t] = "decide"]
            /\ pc[t] = "pop"
            /\ UNCHANGED <<created, refused, realms, queueDestroy, destroyed,
                           requestStopRunning, runningThreads, mainPc>>
        BY <2>2, <3>2 DEF PopRealm, Goto
      <4> HIDE DEF r
      <4>3. ManagerTypeOK' BY <4>1, <4>2
      <4>4. QueueOK' BY <4>1, <4>2, SMT DEF QueueOK, Holding
      <4>5. OneWorkerPerRealm' BY <4>1, <4>2, SMT DEF OneWorkerPerRealm, QueueOK, Holding
      <4>6. NamesOK' BY <4>1, <4>2, SMT DEF NamesOK, Registered, WorkersOK
      <4>7. LifeOK' BY <4>1, <4>2, SMT DEF LifeOK, NamesOK, Registered, Holding
      <4>8. NoRealmLost' BY <4>1, <4>2, SMT DEF NoRealmLost, Registered, Holding
      <4>9. CreatedOK' BY <4>2 DEF CreatedOK
      <4>10. WorkersOK' /\ StoppedOK' BY <4>1, <4>2, SMT DEF WorkersOK, StoppedOK
      <4> QED BY <4>3, <4>4, <4>5, <4>6, <4>7, <4>8, <4>9, <4>10
    <3> QED BY <3>1, <3>2
  <2>3. CASE DecideWithoutRealm(t)
    BY <2>3, SMT DEF DecideWithoutRealm, Goto, sharedVars, QueueOK, OneWorkerPerRealm, NamesOK, LifeOK,
         NoRealmLost, CreatedOK, WorkersOK, StoppedOK, Queued, Holding, Registered
  <2>4. CASE DecideToDestroy(t)
    BY <2>4, SMT DEF DecideToDestroy, Goto, QueueOK, OneWorkerPerRealm, NamesOK, LifeOK,
         NoRealmLost, CreatedOK, WorkersOK, StoppedOK, Queued, Holding, Registered
  <2>5. CASE DecideToRun(t)
    BY <2>5, SMT DEF DecideToRun, Goto, sharedVars, QueueOK, OneWorkerPerRealm, NamesOK, LifeOK,
         NoRealmLost, CreatedOK, WorkersOK, StoppedOK, Queued, Holding, Registered
  <2>6. CASE FinishEpoch(t)
    <3> DEFINE r == held[t]
    <3>1. r \in Realms /\ r \notin Queued /\ Holding(t, r)
      BY <2>6, SMT DEF FinishEpoch, WorkersOK, QueueOK, Holding
    <3>2. /\ realmsQueue' \in Seq(Realms)
          /\ Queued' = Queued \cup {r}
          /\ IsInjective(realmsQueue')
      BY <2>6, <3>1, PushFacts DEF FinishEpoch, Queued, QueueOK
    <3>3. /\ held' = [held EXCEPT ![t] = NoRealm] /\ pc' = [pc EXCEPT ![t] = "pop"]
          /\ held[t] = r /\ pc[t] = "epoch"
          /\ UNCHANGED <<created, refused, realms, queueDestroy, destroyed,
                         requestStopRunning, runningThreads, mainPc>>
      BY <2>6 DEF FinishEpoch, Goto
    <3> HIDE DEF r
    <3>4. ManagerTypeOK' BY <3>2, <3>3
    <3>5. QueueOK' BY <3>1, <3>2, <3>3, SMT DEF QueueOK, OneWorkerPerRealm, Holding
    <3>6. OneWorkerPerRealm' BY <3>3, SMT DEF OneWorkerPerRealm, Holding
    <3>7. NamesOK' BY <3>1, <3>2, <3>3, SMT DEF NamesOK, Registered, OneWorkerPerRealm, Holding
    <3>8. LifeOK' BY <3>3, SMT DEF LifeOK, Registered, Holding
    <3>9. NoRealmLost' BY <3>1, <3>3, SMT DEF NoRealmLost, NamesOK, Registered, Holding
    <3>10. CreatedOK' BY <3>3 DEF CreatedOK
    <3>11. WorkersOK' /\ StoppedOK' BY <3>2, <3>3, SMT DEF WorkersOK, StoppedOK
    <3> QED BY <3>4, <3>5, <3>6, <3>7, <3>8, <3>9, <3>10, <3>11
  <2>7. CASE FinishDestroy(t)
    BY <2>7, SMT DEF FinishDestroy, Goto, sharedVars, QueueOK, OneWorkerPerRealm, NamesOK, LifeOK,
         NoRealmLost, CreatedOK, WorkersOK, StoppedOK, Queued, Holding, Registered
  <2>8. CASE Leave(t)
    BY <2>8, SMT DEF Leave, Goto, sharedVars, QueueOK, OneWorkerPerRealm, NamesOK, LifeOK,
         NoRealmLost, CreatedOK, WorkersOK, StoppedOK, Queued, Holding, Registered
  <2>9. CASE ResetRequest(t)
    <3>1. /\ pc' = [pc EXCEPT ![t] = "done"] /\ pc[t] = "reset"
          /\ UNCHANGED <<created, refused, realms, realmsQueue, queueDestroy,
                         destroyed, runningThreads, held, mainPc>>
          /\ requestStopRunning' \in BOOLEAN
      BY <2>9 DEF ResetRequest, Goto, sharedVars
    <3>2. \A u \in Threads, r \in Realms :
            /\ Holding(u, r)' <=> Holding(u, r)
            /\ pc'[u] \in {"decide", "epoch"} <=> pc[u] \in {"decide", "epoch"}
      BY <3>1, SMT DEF Holding
    <3>3. ManagerTypeOK' /\ WorkersOK' BY <3>1, SMT DEF WorkersOK
    <3>4. QueueOK' /\ OneWorkerPerRealm'
      BY <3>1, <3>2 DEF QueueOK, OneWorkerPerRealm, Queued
    <3>5. NamesOK' BY <3>1, <3>2, SMT DEF NamesOK, Queued, Registered
    <3>6. LifeOK' /\ NoRealmLost' BY <3>1, <3>2 DEF LifeOK, NoRealmLost, Registered
    <3>7. CreatedOK' /\ StoppedOK' BY <3>1 DEF CreatedOK, StoppedOK
    <3> QED BY <3>3, <3>4, <3>5, <3>6, <3>7
  <2> QED BY <1>7, <2>1, <2>2, <2>3, <2>4, <2>5, <2>6, <2>7, <2>8, <2>9 DEF Worker
<1>8. CASE UNCHANGED managerVars
  BY <1>8, SMT DEF managerVars, QueueOK, OneWorkerPerRealm, NamesOK, LifeOK,
         NoRealmLost, CreatedOK, WorkersOK, StoppedOK, Queued, Holding, Registered
<1> QED BY <1>1, <1>2, <1>3, <1>4, <1>5, <1>6, <1>7, <1>8 DEF ManagerNext, MainSteps

\* The invariant of the worker threads holds for every number of threads and
\* realms.
THEOREM ManagerInvariant == ManagerSpec => []ManagerInv
  BY ManagerInitInv, ManagerStepInv, PTL DEF ManagerSpec

\* No two workers ever hold one realm (SingleRunner pops a realm before it runs
\* it and pushes it only afterwards).
THEOREM MutualExclusion == ManagerSpec => []OneWorkerPerRealm
<1>1. ManagerInv => OneWorkerPerRealm BY DEF ManagerInv
<1> QED BY <1>1, ManagerInvariant, PTL

\* No realm the manager accepted is ever lost, whatever is stopped or destroyed.
THEOREM RealmsAreNeverLost == ManagerSpec => []NoRealmLost
<1>1. ManagerInv => NoRealmLost BY DEF ManagerInv
<1> QED BY <1>1, ManagerInvariant, PTL

-------------------------------------------------------------------------------
(***************************************************************************)
(* The manager implements RealmOwnership.                                  *)
(***************************************************************************)

\* The runner of a realm is the worker that holds it.
LEMMA RunnerFacts ==
  ASSUME OneWorkerPerRealm, NEW r \in Realms
  PROVE  /\ \A t \in Threads : Holding(t, r) => Runner(r) = t
         /\ (\A t \in Threads : ~Holding(t, r)) => Runner(r) = NoThread
         /\ Runner(r) # NoThread => Holding(Runner(r), r) /\ Runner(r) \in Threads
  BY DEF Runner, OneWorkerPerRealm

\* The same in the next state.
LEMMA RunnerFactsNext ==
  ASSUME OneWorkerPerRealm', NEW r \in Realms
  PROVE  /\ \A t \in Threads : Holding(t, r)' => Runner(r)' = t
         /\ (\A t \in Threads : ~Holding(t, r)') => Runner(r)' = NoThread
  BY DEF Runner, OneWorkerPerRealm

\* If nobody picks up or drops a realm, its runner stays.
LEMMA RunnerStays ==
  ASSUME OneWorkerPerRealm, OneWorkerPerRealm', NEW r \in Realms,
         \A t \in Threads : Holding(t, r)' <=> Holding(t, r)
  PROVE  Runner(r)' = Runner(r)
<1>1. CASE \E t \in Threads : Holding(t, r)
  BY <1>1, RunnerFacts, RunnerFactsNext
<1>2. CASE \A t \in Threads : ~Holding(t, r)
  BY <1>2, RunnerFacts, RunnerFactsNext
<1> QED BY <1>1, <1>2

\* At first every realm is outside the manager and nobody runs it.
LEMMA InitOwnership == ManagerInit => Ownership!Init
<1> SUFFICES ASSUME ManagerInit PROVE Ownership!Init
  OBVIOUS
<1>1. \A r \in Realms : Stage(r) = "outside" /\ Runner(r) = NoThread
  BY EmptyFacts DEF ManagerInit, Stage, Runner, Holding, Queued
<1> QED BY <1>1 DEF Ownership!Init

\* A single realm moves from one stage to another.
LEMMA StageMoves ==
  ASSUME NEW r \in Realms, NEW from, NEW to, Stage(r) = from, Stage(r)' = to,
         \A s \in Realms : s # r => Stage(s)' = Stage(s)
  PROVE  Ownership!Move(r, from, to)
<1>1. [s \in Realms |-> Stage(s)]' = [[s \in Realms |-> Stage(s)] EXCEPT ![r] = to]
  OBVIOUS
<1> QED BY <1>1 DEF Ownership!Move

\* Only the runner of r changes.
LEMMA RunnerMoves ==
  ASSUME OneWorkerPerRealm, OneWorkerPerRealm', NEW r \in Realms, NEW x, Runner(r)' = x,
         \A s \in Realms, t \in Threads : s # r => (Holding(t, s)' <=> Holding(t, s))
  PROVE  [s \in Realms |-> Runner(s)]' = [[s \in Realms |-> Runner(s)] EXCEPT ![r] = x]
<1>1. ASSUME NEW s \in Realms, s # r PROVE Runner(s)' = Runner(s)
  BY <1>1, RunnerStays
<1> QED BY <1>1

\* Steps that leave what realms, queue and workers' hands tell of a realm alone.
LEMMA StutterOwnership ==
  ASSUME ManagerInv, ManagerInv',
         \A r \in Realms : Stage(r)' = Stage(r),
         \A r \in Realms, t \in Threads : Holding(t, r)' <=> Holding(t, r)
  PROVE  UNCHANGED Ownership!ownershipVars
<1>1. \A r \in Realms : Runner(r)' = Runner(r)
  BY RunnerStays DEF ManagerInv
<1> QED BY <1>1 DEF Ownership!ownershipVars

\* Every step is one that RealmOwnership allows.
LEMMA StepOwnership ==
  ManagerInv /\ ManagerInv' /\ [ManagerNext]_managerVars => [Ownership!Next]_(Ownership!ownershipVars)
<1> SUFFICES ASSUME ManagerInv, ManagerInv', [ManagerNext]_managerVars
             PROVE  Ownership!Next \/ UNCHANGED Ownership!ownershipVars
  OBVIOUS
<1> USE ManagerAssumption
<1>0. /\ pc \in [Threads -> WorkerStates] /\ held \in [Threads -> Realms \cup {NoRealm}]
      /\ OneWorkerPerRealm /\ OneWorkerPerRealm'
  BY DEF ManagerInv, ManagerTypeOK
<1>1. ASSUME NEW r \in Realms, CreateRealm(r)
      PROVE  Ownership!Next \/ UNCHANGED Ownership!ownershipVars
  <2>1. /\ \A s \in Realms, t \in Threads : Holding(t, s)' <=> Holding(t, s)
        /\ pc' = pc /\ held' = held /\ destroyed' = destroyed
    BY <1>1 DEF CreateRealm, Holding
  <2>2. CASE realms[RealmName[r]] # NoRealm
    <3>1. Queued' = Queued BY <1>1, <2>2 DEF CreateRealm, Queued
    <3>2. \A s \in Realms : Stage(s)' = Stage(s) BY <2>1, <3>1 DEF Stage
    <3> QED BY <2>1, <3>2, StutterOwnership
  <2>3. CASE realms[RealmName[r]] = NoRealm
    <3>1. Queued' = Queued \cup {r}
      <4>1. realmsQueue \in Seq(Realms) /\ realmsQueue' = Append(realmsQueue, r)
        BY <1>1, <2>3 DEF CreateRealm, ManagerInv, ManagerTypeOK
      <4> QED BY <4>1, PushFacts DEF Queued
    <3>2. r \notin Queued /\ r \notin destroyed
      BY <1>1, <2>3, SMT DEF CreateRealm, ManagerInv, LifeOK, NamesOK, CreatedOK, ManagerTypeOK
    <3>3. \A t \in Threads : ~Holding(t, r)
      BY <1>1 DEF CreateRealm, ManagerInv, LifeOK
    <3>4. Stage(r) = "outside" /\ Stage(r)' = "ready"
      BY <2>1, <3>1, <3>2, <3>3 DEF Stage, Holding
    <3>5. \A s \in Realms : s # r => Stage(s)' = Stage(s)
      BY <2>1, <3>1 DEF Stage
    <3>6. \A s \in Realms : RealmName[s] = RealmName[r] => Stage(s) \notin {"ready", "running"}
      BY <2>3 DEF Stage, ManagerInv, NamesOK, Registered
    <3>7. \A s \in Realms : Runner(s)' = Runner(s)
      BY <2>1, RunnerStays DEF ManagerInv
    <3>8. Ownership!Admit(r)
      BY <3>4, <3>5, <3>6, <3>7 DEF Ownership!Admit, Ownership!Move
    <3> QED BY <3>8 DEF Ownership!Next
  <2> QED BY <2>2, <2>3
<1>2. CASE \/ \E n \in Names : DestroyRealm(n)
           \/ RunAsync \/ RequestStop \/ Joined
           \/ UNCHANGED managerVars
  <2>1. /\ held' = held /\ destroyed' = destroyed /\ Queued' = Queued
        /\ \A t \in Threads :
             /\ pc'[t] = "destroy" <=> pc[t] = "destroy"
             /\ pc'[t] = "decide" <=> pc[t] = "decide"
             /\ pc'[t] = "epoch" <=> pc[t] = "epoch"
    BY <1>2 DEF DestroyRealm, RunAsync, RequestStop, Joined, managerVars, sharedVars,
                Queued, ManagerInv, WorkersOK, ManagerTypeOK
  <2>2. \A s \in Realms, t \in Threads : Holding(t, s)' <=> Holding(t, s)
    BY <2>1 DEF Holding
  <2>3. \A s \in Realms : Stage(s)' = Stage(s) BY <2>1 DEF Stage
  <2> QED BY <2>2, <2>3, StutterOwnership
<1>3. CASE ClearRealms
  <2>1. \A t \in Threads : pc[t] = "none" /\ pc'[t] = "none"
    BY <1>3 DEF ClearRealms, ManagerInv, WorkersOK
  <2>2. \A r \in Realms : Runner(r) = NoThread /\ Runner(r)' = NoThread
    BY <2>1 DEF Runner, Holding
  <2>3. /\ Queued' = {} /\ \A r \in Realms : r \in Queued <=> Registered(r)
    BY <1>3, <2>1, EmptyFacts DEF ClearRealms, Queued, ManagerInv, NamesOK
  <2>4. destroyed' = destroyed \cup {r \in Realms : Registered(r)}
    BY <1>3 DEF ClearRealms
  <2>5. \A r \in Realms : Stage(r)' = IF Stage(r) = "ready" THEN "gone" ELSE Stage(r)
    BY <2>1, <2>3, <2>4 DEF Stage
  <2>6. Ownership!Shutdown
    BY <2>2, <2>5 DEF Ownership!Shutdown
  <2> QED BY <2>6 DEF Ownership!Next
<1>4. ASSUME NEW t \in Threads, Worker(t)
      PROVE  Ownership!Next \/ UNCHANGED Ownership!ownershipVars
  <2>1. CASE \/ Start(t) \/ DecideWithoutRealm(t) \/ DecideToRun(t)
             \/ Leave(t) \/ ResetRequest(t)
             \/ PopRealm(t) /\ realmsQueue = <<>>
    <3>1. /\ \A s \in Realms, u \in Threads : held'[u] = s <=> held[u] = s
          /\ destroyed' = destroyed /\ Queued' = Queued
      BY <2>1, SMT DEF Start, DecideWithoutRealm, DecideToRun, Leave, ResetRequest, PopRealm,
                sharedVars, Queued, ManagerInv, WorkersOK, ManagerTypeOK
    <3>2. \A s \in Realms, u \in Threads : held[u] = s =>
             /\ pc'[u] = "destroy" <=> pc[u] = "destroy"
             /\ pc'[u] \in {"decide", "epoch"} <=> pc[u] \in {"decide", "epoch"}
      BY <2>1, SMT DEF Start, DecideWithoutRealm, DecideToRun, Leave, ResetRequest, PopRealm,
                Goto, ManagerInv, WorkersOK, ManagerTypeOK
    <3>3. \A s \in Realms, u \in Threads : Holding(u, s)' <=> Holding(u, s)
      BY <3>1, <3>2 DEF Holding
    <3>4. \A s \in Realms : Stage(s)' = Stage(s) BY <3>1, <3>2 DEF Stage
    <3> QED BY <3>3, <3>4, StutterOwnership
  <2>2. CASE PopRealm(t) /\ realmsQueue # <<>>
    <3>0. PICK r \in Realms : r = Head(realmsQueue)
      BY <2>2, PopFacts DEF ManagerInv, ManagerTypeOK
    <3>1. r \in Queued /\ Queued' = Queued \ {r}
      BY <2>2, <3>0, PopFacts DEF PopRealm, Queued, ManagerInv, QueueOK, ManagerTypeOK
    <3>2. /\ held' = [held EXCEPT ![t] = r] /\ pc' = [pc EXCEPT ![t] = "decide"]
          /\ pc[t] = "pop" /\ destroyed' = destroyed
      BY <2>2, <3>0 DEF PopRealm, Goto
    <3>3. r \notin destroyed /\ \A u \in Threads : ~Holding(u, r)
      BY <3>1 DEF ManagerInv, QueueOK, NamesOK, LifeOK
    <3>4. Holding(t, r)' /\ \A s \in Realms, u \in Threads :
             s # r => (Holding(u, s)' <=> Holding(u, s))
      BY <1>0, <3>1, <3>2 DEF Holding
    <3>5. Stage(r) = "ready"
      BY <3>1, <3>3 DEF Stage, Holding
    <3>6. Stage(r)' = "running"
      <4>1. pc'[t] = "decide" /\ held'[t] = r
        BY <1>0, <3>2
      <4>2. ~\E u \in Threads : held'[u] = r /\ pc'[u] = "destroy"
        BY <4>1, <3>2, <3>3, <1>0 DEF Holding
      <4>3. r \notin destroyed'
        BY <3>2, <3>3
      <4>4. \E u \in Threads : held'[u] = r /\ pc'[u] \in {"decide", "epoch"}
        BY <4>1
      <4> QED BY <4>2, <4>3, <4>4 DEF Stage
    <3>7. \A s \in Realms : s # r => Stage(s)' = Stage(s)
      BY <3>1, <3>2, <1>0, SMT DEF Stage
    <3>8. \A s \in Realms : Runner(s) # t
      BY <1>0, <3>2, RunnerFacts DEF Holding
    <3>9. Runner(r)' = t
      BY <1>0, <3>1, <3>4, RunnerFactsNext
    <3>10. Ownership!Move(r, "ready", "running")
      BY <3>1, <3>5, <3>6, <3>7, StageMoves
    <3>11. [s \in Realms |-> Runner(s)]' = [[s \in Realms |-> Runner(s)] EXCEPT ![r] = t]
      BY <1>0, <3>1, <3>4, <3>9, RunnerMoves
    <3>12. Ownership!Begin(r, t)
      BY <3>8, <3>10, <3>11 DEF Ownership!Begin
    <3> QED BY <3>1, <3>12 DEF Ownership!Next
  <2>3. CASE DecideToDestroy(t)
    <3>0. PICK r \in Realms : r = held[t]
      BY <1>0, <2>3 DEF DecideToDestroy
    <3>1. /\ Holding(t, r) /\ held' = held /\ destroyed' = destroyed
          /\ pc[t] = "decide" /\ pc' = [pc EXCEPT ![t] = "destroy"] /\ Queued' = Queued
      BY <2>3, <3>0 DEF DecideToDestroy, Goto, Holding, Queued
    <3>2. r = held[t] BY <3>0
    <3>3. r \notin destroyed /\ \A u \in Threads : Holding(u, r) => u = t
      BY <3>1 DEF ManagerInv, LifeOK, OneWorkerPerRealm
    <3>4. Stage(r) = "running"
      BY <3>1, <3>2, <3>3 DEF Stage, Holding
    <3>5. Stage(r)' = "retiring"
      BY <1>0, <3>1, <3>2, <3>3 DEF Stage
    <3>6. \A s \in Realms : s # r => Stage(s)' = Stage(s)
      BY <1>0, <3>1, <3>2, SMT DEF Stage
    <3>7. \A s \in Realms, u \in Threads : Holding(u, s)' <=> Holding(u, s)
      BY <1>0, <3>1, <3>2 DEF Holding
    <3>8. \A s \in Realms : Runner(s)' = Runner(s)
      BY <1>0, <3>7, RunnerStays
    <3>9. Ownership!Move(r, "running", "retiring")
      BY <3>1, <3>4, <3>5, <3>6, StageMoves
    <3>10. Ownership!Retire(r)
      BY <3>8, <3>9 DEF Ownership!Retire
    <3> QED BY <3>1, <3>10 DEF Ownership!Next
  <2>4. CASE FinishEpoch(t)
    <3>0. PICK r \in Realms : r = held[t]
      BY <1>0, <2>4 DEF FinishEpoch, ManagerInv, WorkersOK
    <3>1. /\ Holding(t, r) /\ held' = [held EXCEPT ![t] = NoRealm]
          /\ destroyed' = destroyed /\ pc[t] = "epoch" /\ pc' = [pc EXCEPT ![t] = "pop"]
      BY <2>4, <3>0 DEF FinishEpoch, Goto, Holding
    <3>2. Queued' = Queued \cup {r}
      BY <2>4, <3>0, PushFacts DEF FinishEpoch, Queued, ManagerInv, ManagerTypeOK
    <3>3. r = held[t] BY <3>0
    <3>4. r \notin destroyed /\ \A u \in Threads : Holding(u, r) => u = t
      BY <3>1 DEF ManagerInv, LifeOK, OneWorkerPerRealm
    <3>5. \A u \in Threads : ~Holding(u, r)'
      BY <1>0, <3>1, <3>4 DEF Holding
    <3>6. Stage(r) = "running"
      BY <3>1, <3>3, <3>4 DEF Stage, Holding
    <3>7. Stage(r)' = "ready"
      <4>1. r \in Queued' /\ r \notin destroyed'
        BY <3>1, <3>2, <3>4
      <4>2. \A u \in Threads : ~(held'[u] = r /\ pc'[u] \in {"decide", "epoch", "destroy"})
        BY <3>5 DEF Holding
      <4> QED BY <4>1, <4>2 DEF Stage
    <3>8. \A s \in Realms : s # r => Stage(s)' = Stage(s)
      BY <1>0, <3>1, <3>2, <3>3, SMT DEF Stage
    <3>9. \A s \in Realms, u \in Threads : s # r => (Holding(u, s)' <=> Holding(u, s))
      BY <1>0, <3>1, <3>3, SMT DEF Holding
    <3>10. Runner(r)' = NoThread
      BY <1>0, <3>1, <3>5, RunnerFactsNext
    <3>11. Ownership!Move(r, "running", "ready")
      BY <3>1, <3>6, <3>7, <3>8, StageMoves
    <3>12. [s \in Realms |-> Runner(s)]' = [[s \in Realms |-> Runner(s)] EXCEPT ![r] = NoThread]
      BY <1>0, <3>1, <3>9, <3>10, RunnerMoves
    <3>13. Ownership!Yield(r)
      BY <3>11, <3>12 DEF Ownership!Yield
    <3> QED BY <3>1, <3>13 DEF Ownership!Next
  <2>5. CASE FinishDestroy(t)
    <3>0. PICK r \in Realms : r = held[t]
      BY <1>0, <2>5 DEF FinishDestroy, ManagerInv, WorkersOK
    <3>1. /\ Holding(t, r) /\ held' = [held EXCEPT ![t] = NoRealm]
          /\ destroyed' = destroyed \cup {r} /\ Queued' = Queued
          /\ pc[t] = "destroy" /\ pc' = [pc EXCEPT ![t] = "pop"]
      BY <2>5, <3>0 DEF FinishDestroy, sharedVars, Goto, Holding, Queued
    <3>2. r = held[t] BY <3>0
    <3>3. r \notin destroyed /\ \A u \in Threads : Holding(u, r) => u = t
      BY <3>1 DEF ManagerInv, LifeOK, OneWorkerPerRealm
    <3>4. \A u \in Threads : ~Holding(u, r)'
      BY <1>0, <3>1, <3>3 DEF Holding
    <3>5. Stage(r) = "retiring" /\ Stage(r)' = "gone"
      <4>1. r \in destroyed' BY <3>1
      <4>2. held[t] = r /\ pc[t] = "destroy" BY <3>1, <3>2
      <4> QED BY <4>1, <4>2, <3>3 DEF Stage
    <3>6. \A s \in Realms : s # r => Stage(s)' = Stage(s)
      BY <1>0, <3>1, <3>2, SMT DEF Stage
    <3>7. \A s \in Realms, u \in Threads : s # r => (Holding(u, s)' <=> Holding(u, s))
      BY <1>0, <3>1, <3>2, SMT DEF Holding
    <3>8. Runner(r)' = NoThread
      BY <1>0, <3>1, <3>4, RunnerFactsNext
    <3>9. Ownership!Move(r, "retiring", "gone")
      BY <3>1, <3>5, <3>6, StageMoves
    <3>10. [s \in Realms |-> Runner(s)]' = [[s \in Realms |-> Runner(s)] EXCEPT ![r] = NoThread]
      BY <1>0, <3>1, <3>7, <3>8, RunnerMoves
    <3>11. Ownership!Finish(r)
      BY <3>9, <3>10 DEF Ownership!Finish
    <3> QED BY <3>1, <3>11 DEF Ownership!Next
  <2> QED BY <1>4, <2>1, <2>2, <2>3, <2>4, <2>5 DEF Worker
<1> QED BY <1>1, <1>2, <1>3, <1>4 DEF ManagerNext, MainSteps

\* Queue, map, flags and threads together implement what RealmOwnership promises:
\* a realm is driven by one thread at a time, names are not shared, and a realm
\* is disconnected and saved once, after its last epoch.
THEOREM ManagerImplementsOwnership == ManagerSpec => ImplementsOwnership
  BY InitOwnership, StepOwnership, ManagerInvariant, PTL
     DEF ManagerSpec, Ownership!Spec, ImplementsOwnership
===============================================================================
