----------------------------- MODULE EntityEvents -----------------------------
(***************************************************************************)
(* Entity events of a Realm (common/src/EntityEvent.cpp and the event loop *)
(* of Realm::OneEpoch in common/src/Realm.cpp).                            *)
(*                                                                         *)
(* Every entity owns a priority queue of EntityEvents.  The realm owns one *)
(* priority queue of {dueTick, entityId} entries that only says when to    *)
(* look at an entity.  An event whose scheduledInRealm flag is set is      *)
(* believed to have an entry of its own; the realm never looks at a queue  *)
(* for which no entry is left, so a flag that lies loses events for good.  *)
(*                                                                         *)
(* A realm runs on one thread: commands between epochs, then an epoch, in  *)
(* which entries are drained one after another and each runs the callbacks *)
(* of the events that are due.  Callbacks may create and destroy entities. *)
(***************************************************************************)
EXTENDS Integers, FiniteSets

CONSTANTS
  Entities,     \* entity ids; an id is never reused (flecs generations)
  Events,       \* EntityEvent objects
  NoEntity,     \* "no entity is being updated"
  NoEvent,      \* front of an empty queue
  Limit,        \* events one Update runs at most (128)
  MaxTick       \* bound on the tick counter and on due ticks

Ticks == 0 .. MaxTick

ASSUME ConstantsAssumption ==
  /\ IsFiniteSet(Events)
  /\ NoEvent \notin Events
  /\ NoEntity \notin Entities
  /\ Limit \in Nat \ {0}
  /\ MaxTick \in Nat

\* No entity ever has more events than one Update may run: the game registers
\* three templates (AI tick, HealthRegenerate, Spawner), the loop allows 128.
ASSUME FewEventsAssumption == Cardinality(Events) <= Limit

VARIABLES
  currentTick,       \* Realm::timer.currentTick
  phase,             \* "commands", "drain" or "update"
  entityState,       \* "unborn", "alive" or "dead" in the ECS
  queue,             \* ComponentEventsQueue::events of each entity, as a set
  front,             \* root of each entity's binary heap
  due,               \* EntityEvent::dueTick
  scheduledInRealm,  \* events whose flag scheduledInRealm is true
  realmQueue,        \* multiplicity of {dueTick, entityId} in eventsPriorityQueue
  updated,           \* the entity ComponentEventsQueue::Update is running for
  iteration,         \* its loop counter
  spawned            \* the entities the running callback has created

vars == <<currentTick, phase, entityState, queue, front, due,
          scheduledInRealm, realmQueue, updated, iteration, spawned>>

TypeOK ==
  /\ currentTick \in Ticks
  /\ phase \in {"commands", "drain", "update"}
  /\ entityState \in [Entities -> {"unborn", "alive", "dead"}]
  /\ queue \in [Entities -> SUBSET Events]
  /\ front \in [Entities -> Events \cup {NoEvent}]
  /\ due \in [Events -> Ticks]
  /\ scheduledInRealm \subseteq Events
  /\ realmQueue \in [Entities \X Ticks -> Nat]
  /\ updated \in Entities \cup {NoEntity}
  /\ iteration \in 0 .. Limit
  /\ spawned \subseteq Entities

Init ==
  /\ currentTick = 0
  /\ phase = "commands"
  /\ entityState = [e \in Entities |-> "unborn"]
  /\ queue = [e \in Entities |-> {}]
  /\ front = [e \in Entities |-> NoEvent]
  /\ due = [x \in Events |-> 0]
  /\ scheduledInRealm = {}
  /\ realmQueue = [entry \in Entities \X Ticks |-> 0]
  /\ updated = NoEntity
  /\ iteration = 0
  /\ spawned = {}

-------------------------------------------------------------------------------
\* The event x is in no queue: it was never scheduled, finished, or died
\* with its entity.
Unscheduled(x) == \A e \in Entities : x \notin queue[e]

\* The elements a binary heap over the set S may have at its root: ties are
\* broken by the layout of the heap.
Roots(S) ==
  IF S = {} THEN {NoEvent} ELSE {x \in S : \A y \in S : due[x] <= due[y]}

Insert(e, t) == [realmQueue EXCEPT ![<<e, t>>] = @ + 1]
InsertIntoRealmSchedule(e, t) == realmQueue' = Insert(e, t)

\* Mutants of ScheduleEvent: the flag of a later event is not cleared; an equal
\* event moves to the root of the heap.
ScheduleEvent_FlagKept(e, rest, top, x, t) ==
  LET first == rest = {} \/ t < due[top]
  IN  /\ queue' = [queue EXCEPT ![e] = rest \cup {x}]
      /\ front' = [front EXCEPT ![e] = IF first THEN x ELSE top]
      /\ due' = [due EXCEPT ![x] = t]
      /\ scheduledInRealm' = scheduledInRealm \cup {x}
      /\ IF first THEN InsertIntoRealmSchedule(e, t) ELSE UNCHANGED realmQueue

ScheduleEvent_EqualToRoot(e, rest, top, x, t) ==
  LET first == rest = {} \/ t < due[top]
  IN  /\ queue' = [queue EXCEPT ![e] = rest \cup {x}]
      /\ front' = [front EXCEPT ![e] = IF first \/ t = due[top] THEN x ELSE top]
      /\ due' = [due EXCEPT ![x] = t]
      /\ scheduledInRealm' = IF first \/ t = due[top]
                             THEN scheduledInRealm \cup {x}
                             ELSE scheduledInRealm \ {x}
      /\ IF first THEN InsertIntoRealmSchedule(e, t) ELSE UNCHANGED realmQueue

\* ComponentEventsQueue::ScheduleEvent on a queue that holds `rest` with `top`
\* at its root.  push_heap does not move an element above an equal one, so the
\* root changes only for a strictly earlier event.
ScheduleEvent(e, rest, top, x, t) ==
  LET first == rest = {} \/ t < due[top]
  IN  /\ queue' = [queue EXCEPT ![e] = rest \cup {x}]
      /\ front' = [front EXCEPT ![e] = IF first THEN x ELSE top]
      /\ due' = [due EXCEPT ![x] = t]
      /\ scheduledInRealm' = IF first \/ t = due[top]
                             THEN scheduledInRealm \cup {x}
                             ELSE scheduledInRealm \ {x}
      /\ IF first THEN InsertIntoRealmSchedule(e, t) ELSE UNCHANGED realmQueue

\* Realm::NewEntity, with an empty events queue.
NewEntity(e) ==
  /\ phase = "commands"
  /\ entityState[e] = "unborn"
  /\ entityState' = [entityState EXCEPT ![e] = "alive"]
  /\ UNCHANGED <<currentTick, phase, queue, front, due, scheduledInRealm,
                 realmQueue, updated, iteration, spawned>>

\* Realm::ScheduleEntityEvent called by a command.  The due tick may lie in
\* the past: HealthRegenerateSchedule computes it from a saved timestamp.
\* Commands after the last explored epoch are left out: nothing follows them.
ScheduleEntityEvent(e, x, t) ==
  /\ phase = "commands"
  /\ currentTick < MaxTick
  /\ entityState[e] = "alive"
  /\ Unscheduled(x)
  /\ ScheduleEvent(e, queue[e], front[e], x, t)
  /\ UNCHANGED <<currentTick, phase, entityState, updated, iteration, spawned>>

\* The callback of the entity being updated creates another entity (Spawner),
\* whose observers schedule its first event.
SpawnFromCallback(e, x, t) ==
  /\ phase = "update"
  /\ entityState[e] = "unborn"
  /\ Unscheduled(x)
  /\ entityState' = [entityState EXCEPT ![e] = "alive"]
  /\ spawned' = spawned \cup {e}
  /\ ScheduleEvent(e, queue[e], front[e], x, t)
  /\ UNCHANGED <<currentTick, phase, updated, iteration>>

\* The observers of an entity the callback has created schedule another event
\* for it: the AI tick and HealthRegenerate have an observer each.
ScheduleFromCallback(e, x, t) ==
  /\ e \in spawned
  /\ entityState[e] = "alive"
  /\ Unscheduled(x)
  /\ ScheduleEvent(e, queue[e], front[e], x, t)
  /\ UNCHANGED <<currentTick, phase, entityState, updated, iteration, spawned>>

\* Realm::RemoveEntity, by a command or by the callback of another entity (an
\* AI attack kills its target).  The queue dies with the component; the
\* entries of the entity stay in the realm's queue.
RemoveEntity(e) ==
  /\ phase = "commands" \/ (phase = "update" /\ e # updated)
  /\ entityState[e] = "alive"
  /\ entityState' = [entityState EXCEPT ![e] = "dead"]
  /\ queue' = [queue EXCEPT ![e] = {}]
  /\ front' = [front EXCEPT ![e] = NoEvent]
  /\ UNCHANGED <<currentTick, phase, due, scheduledInRealm, realmQueue,
                 updated, iteration, spawned>>

-------------------------------------------------------------------------------
\* Realm::OneEpoch up to its event loop: TickTimer::Update advances the tick.
BeginEpoch ==
  /\ phase = "commands"
  /\ currentTick < MaxTick
  /\ currentTick' = currentTick + 1
  /\ phase' = "drain"
  /\ UNCHANGED <<entityState, queue, front, due, scheduledInRealm, realmQueue,
                 updated, iteration, spawned>>

DueEntry(e, t) == realmQueue[<<e, t>>] > 0 /\ t <= currentTick

\* Mutant: a stale wake-up is put back as it was, not for the next event.
WakeEntity_PutBack(e, t) ==
  /\ phase = "drain"
  /\ DueEntry(e, t)
  /\ \A f \in Entities, u \in Ticks : realmQueue[<<f, u>>] > 0 => t <= u
  /\ IF queue[e] # {} /\ due[front[e]] > currentTick
       THEN UNCHANGED <<realmQueue, phase, updated, iteration>>
     ELSE /\ realmQueue' = [realmQueue EXCEPT ![<<e, t>>] = @ - 1]
          /\ IF queue[e] # {}
               THEN phase' = "update" /\ updated' = e /\ iteration' = 0
               ELSE UNCHANGED <<phase, updated, iteration>>
  /\ UNCHANGED <<currentTick, entityState, queue, front, due, scheduledInRealm, spawned>>

\* One round of the loop: the earliest entry is popped and, if its entity is
\* alive, ComponentEventsQueue::Update starts: nothing to do on an empty
\* queue, a new entry when the wake-up was stale, otherwise its loop.
WakeEntity(e, t) ==
  LET popped == [realmQueue EXCEPT ![<<e, t>>] = @ - 1]
  IN
  /\ phase = "drain"
  /\ DueEntry(e, t)
  /\ \A f \in Entities, u \in Ticks : realmQueue[<<f, u>>] > 0 => t <= u
  /\ \/ /\ entityState[e] # "alive" \/ queue[e] = {}
        /\ realmQueue' = popped
        /\ UNCHANGED <<scheduledInRealm, phase, updated, iteration>>
     \/ /\ entityState[e] = "alive" /\ queue[e] # {}
        /\ due[front[e]] > currentTick
        /\ realmQueue' = [popped EXCEPT ![<<e, due[front[e]]>>] = @ + 1]
        /\ scheduledInRealm' = scheduledInRealm \cup {front[e]}
        /\ UNCHANGED <<phase, updated, iteration>>
     \/ /\ entityState[e] = "alive" /\ queue[e] # {}
        /\ due[front[e]] <= currentTick
        /\ realmQueue' = popped
        /\ phase' = "update"
        /\ updated' = e
        /\ iteration' = 0
        /\ UNCHANGED scheduledInRealm
  /\ UNCHANGED <<currentTick, entityState, queue, front, due, spawned>>

\* Mutant: events of the next tick are run, too.
MoreToRun_Early(e) ==
  /\ iteration < Limit
  /\ queue[e] # {}
  /\ due[front[e]] <= currentTick + 1

MoreToRun(e) ==
  /\ iteration < Limit
  /\ queue[e] # {}
  /\ due[front[e]] <= currentTick

\* One iteration of Update's loop: the root is popped and its callback run.
\* The callback returns the delay to its next run, or nothing (dt <= 0); a
\* next run beyond the horizon is not explored.
RunEvent ==
  /\ phase = "update"
  /\ MoreToRun(updated)
  /\ LET x    == front[updated]
         rest == queue[updated] \ {x}
     IN \E top \in Roots(rest) :
          \/ \E t \in Ticks :
               /\ t > currentTick
               /\ ScheduleEvent(updated, rest, top, x, t)
          \/ /\ queue' = [queue EXCEPT ![updated] = rest]
             /\ front' = [front EXCEPT ![updated] = top]
             /\ UNCHANGED <<due, scheduledInRealm, realmQueue>>
  /\ iteration' = iteration + 1
  /\ spawned' = {}
  /\ UNCHANGED <<currentTick, phase, entityState, updated>>

\* Mutant: Update does not look at the new root when its loop ends.
FinishUpdate_NoReinsert ==
  /\ phase = "update"
  /\ ~MoreToRun(updated)
  /\ phase' = "drain"
  /\ updated' = NoEntity
  /\ iteration' = 0
  /\ spawned' = {}
  /\ UNCHANGED <<currentTick, entityState, queue, front, due, realmQueue,
                 scheduledInRealm>>

\* The end of Update: the new root gets an entry unless its flag says that it
\* already has one.
FinishUpdate ==
  LET x == front[updated]
  IN
  /\ phase = "update"
  /\ ~MoreToRun(updated)
  /\ IF queue[updated] # {} /\ x \notin scheduledInRealm
       THEN /\ InsertIntoRealmSchedule(updated, due[x])
            /\ scheduledInRealm' = scheduledInRealm \cup {x}
       ELSE UNCHANGED <<realmQueue, scheduledInRealm>>
  /\ phase' = "drain"
  /\ updated' = NoEntity
  /\ iteration' = 0
  /\ spawned' = {}
  /\ UNCHANGED <<currentTick, entityState, queue, front, due>>

\* The loop ends when no entry is due; movement and networking follow.
EndEpoch ==
  /\ phase = "drain"
  /\ \A e \in Entities, t \in Ticks : ~DueEntry(e, t)
  /\ phase' = "commands"
  /\ UNCHANGED <<currentTick, entityState, queue, front, due,
                 scheduledInRealm, realmQueue, updated, iteration, spawned>>

Epoch ==
  \/ BeginEpoch
  \/ \E e \in Entities, t \in Ticks : WakeEntity(e, t)
  \/ RunEvent
  \/ FinishUpdate
  \/ EndEpoch

Environment ==
  \/ \E e \in Entities : NewEntity(e) \/ RemoveEntity(e)
  \/ \E e \in Entities, x \in Events, t \in Ticks :
       \/ ScheduleEntityEvent(e, x, t)
       \/ SpawnFromCallback(e, x, t)
       \/ ScheduleFromCallback(e, x, t)

Next == Epoch \/ Environment

Spec == Init /\ [][Next]_vars

\* The worker thread keeps running the realm's epochs.
FairSpec == Spec /\ WF_vars(Epoch)

-------------------------------------------------------------------------------
(***************************************************************************)
(* Properties.                                                             *)
(***************************************************************************)

\* The flag tells the truth: outside Update, an event whose scheduledInRealm
\* is set has an entry for exactly its due tick, and the root of a non-empty
\* queue is such an event.  Update and ScheduleEvent decide by that flag alone
\* whether to insert an entry, and each entry is consumed when it is popped.
FlagIsTruthful ==
  \A e \in Entities : updated # e =>
    /\ \A x \in queue[e] \cap scheduledInRealm : realmQueue[<<e, due[x]>>] > 0
    /\ queue[e] # {} => front[e] \in scheduledInRealm

\* The root of every heap is an earliest element.
HeapOK ==
  \A e \in Entities :
    /\ queue[e] = {} => front[e] = NoEvent
    /\ queue[e] # {} => /\ front[e] \in queue[e]
                        /\ \A x \in queue[e] : due[front[e]] <= due[x]

\* An event is in one queue at most, and only entities that are alive have one.
OwnersOK ==
  /\ \A e, f \in Entities : e # f => queue[e] \cap queue[f] = {}
  /\ \A e \in Entities : entityState[e] # "alive" => queue[e] = {}

\* Exactly the update phase has an entity that is being updated, and only its
\* callback has others that it created.
PhaseOK ==
  /\ phase = "update" <=> updated # NoEntity
  /\ updated # NoEntity => entityState[updated] = "alive"
  /\ updated \notin spawned
  /\ phase # "update" => spawned = {}

DueSet(e) == {x \in queue[e] : due[x] <= currentTick}

\* While an entity is updated its entry is consumed already: a set flag is
\* trusted only for later ticks, where an entry exists or is about to be
\* inserted for the root, and the rest of the loop can run all that is due.
UpdateOK ==
  updated # NoEntity =>
    /\ \A x \in queue[updated] \cap scheduledInRealm :
         due[x] > currentTick =>
           \/ realmQueue[<<updated, due[x]>>] > 0
           \/ /\ front[updated] \notin scheduledInRealm
              /\ due[x] = due[front[updated]]
    /\ Cardinality(DueSet(updated)) <= Limit - iteration

\* The inductive invariant behind NoLostWakeup and EventsOnTime.
Inv == /\ TypeOK
       /\ HeapOK
       /\ OwnersOK
       /\ PhaseOK
       /\ FlagIsTruthful
       /\ UpdateOK

\* No lost wake-up: whenever an entity has events and is not being updated,
\* the realm's queue holds an entry that looks at it no later than its
\* earliest event is due.
NoLostWakeup ==
  \A e \in Entities : updated # e =>
    \A x \in queue[e] : \E t \in Ticks : t <= due[x] /\ realmQueue[<<e, t>>] > 0

\* When an epoch closes, no event of any entity is left that was due at its
\* tick: each event runs in the first epoch that reaches its due tick.
EventsOnTime ==
  [][phase = "drain" /\ phase' = "commands" =>
       \A e \in Entities : \A x \in queue[e] : due[x] > currentTick]_vars

\* What game logic is promised: the queues implement the abstract timer.
Timer == INSTANCE EventTimer WITH
           inEpoch <- phase # "commands",
           pending <- UNION {queue[e] : e \in Entities}

ImplementsTimer == Timer!Spec

\* Every drain ends: stale and re-inserted entries never keep an epoch busy.
EpochEnds == phase = "drain" ~> phase = "commands"

\* Every scheduled event leaves its due tick behind: it is run (and possibly
\* rescheduled) or its entity is removed.
EventEventuallyRuns ==
  \A e \in Entities, x \in Events, t \in Ticks :
    (x \in queue[e] /\ due[x] = t) ~> ~(x \in queue[e] /\ due[x] = t)
===============================================================================
