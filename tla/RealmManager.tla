----------------------------- MODULE RealmManager -----------------------------
(***************************************************************************)
(* RealmWorkThreadedManager (server/src/RealmWorkThreadedManager.cpp): the *)
(* worker threads that run the epochs of all realms, and the main thread   *)
(* that creates realms, starts the workers and stops them.                 *)
(*                                                                         *)
(* Every section under the manager's mutex is one action; what a worker    *)
(* does between two sections (reading requestStopRunning, running an       *)
(* epoch, disconnecting a realm) is an action of its own, so that the      *)
(* other threads can come in between.                                      *)
(***************************************************************************)
EXTENDS Integers, FiniteSets, Sequences, Functions

CONSTANTS
  Threads,    \* worker threads
  Realms,     \* RealmServer objects
  Names,      \* realm names
  RealmName,  \* RealmServer::realmName of each object
  NoRealm,    \* nullptr
  NoThread    \* a realm that no worker holds (refinement mapping only)

ASSUME ManagerAssumption ==
  /\ IsFiniteSet(Threads)
  /\ RealmName \in [Realms -> Names]
  /\ NoRealm \notin Realms
  /\ NoThread \notin Threads

VARIABLES
  created,             \* realms that CreateRealm has made so far
  refused,             \* those of them that AddNewRealm did not take
  realms,              \* the map from names to realms
  realmsQueue,         \* the FIFO queue of realms waiting for a worker
  queueDestroy,        \* realms whose queueDestroy flag is set
  destroyed,           \* realms that DisconnectAllAndDestroy has finished with
  requestStopRunning,  \* the atomic flags and counters of the manager
  runningThreads,
  pc,                  \* where each worker stands in SingleRunner
  held,                \* its local variable `realm`
  mainPc               \* where the main thread stands

managerVars == <<created, refused, realms, realmsQueue, queueDestroy, destroyed,
                 requestStopRunning, runningThreads, pc, held, mainPc>>

sharedVars == <<created, refused, realms, realmsQueue, queueDestroy>>

WorkerStates == {"none", "created", "pop", "decide", "epoch", "destroy",
                 "exit", "reset", "done"}
MainStates == {"boot", "serving", "joining", "clearing", "stopped"}

ManagerTypeOK ==
  /\ created \subseteq Realms
  /\ refused \subseteq Realms
  /\ realms \in [Names -> Realms \cup {NoRealm}]
  /\ realmsQueue \in Seq(Realms)
  /\ queueDestroy \subseteq Realms
  /\ destroyed \subseteq Realms
  /\ requestStopRunning \in BOOLEAN
  /\ runningThreads \in Int
  /\ pc \in [Threads -> WorkerStates]
  /\ held \in [Threads -> Realms \cup {NoRealm}]
  /\ mainPc \in MainStates

ManagerInit ==
  /\ created = {}
  /\ refused = {}
  /\ realms = [n \in Names |-> NoRealm]
  /\ realmsQueue = <<>>
  /\ queueDestroy = {}
  /\ destroyed = {}
  /\ requestStopRunning \in BOOLEAN  \* not initialised by the constructor
  /\ runningThreads = 0
  /\ pc = [t \in Threads |-> "none"]
  /\ held = [t \in Threads |-> NoRealm]
  /\ mainPc = "boot"

Queued == Range(realmsQueue)
Holding(t, r) == held[t] = r /\ pc[t] \in {"decide", "epoch", "destroy"}
Registered(r) == realms[RealmName[r]] = r

-------------------------------------------------------------------------------
(* The main thread. *)

\* Mutant: AddNewRealm does not look whether the name is taken.
CreateRealm_Overwrite(r) ==
  /\ mainPc \in {"boot", "serving"}
  /\ r \notin created
  /\ created' = created \cup {r}
  /\ realms' = [realms EXCEPT ![RealmName[r]] = r]
  /\ realmsQueue' = Append(realmsQueue, r)
  /\ UNCHANGED <<refused, queueDestroy, destroyed, requestStopRunning, runningThreads,
                 pc, held, mainPc>>

\* ServerCore::CreateRealm: a new realm loads itself and is handed to
\* AddNewRealm, which refuses a name that is taken.  The result is ignored:
\* a refused realm stays in memory, outside the manager.
CreateRealm(r) ==
  /\ mainPc \in {"boot", "serving"}
  /\ r \notin created
  /\ created' = created \cup {r}
  /\ IF realms[RealmName[r]] = NoRealm
       THEN /\ realms' = [realms EXCEPT ![RealmName[r]] = r]
            /\ realmsQueue' = Append(realmsQueue, r)
            /\ UNCHANGED refused
       ELSE refused' = refused \cup {r} /\ UNCHANGED <<realms, realmsQueue>>
  /\ UNCHANGED <<queueDestroy, destroyed, requestStopRunning, runningThreads,
                 pc, held, mainPc>>

\* DestroyRealm, from any thread: the flag of a registered realm is set.  (No
\* code of the repository calls it; the workers honour it.)
DestroyRealm(n) ==
  /\ realms[n] # NoRealm
  /\ queueDestroy' = queueDestroy \cup {realms[n]}
  /\ UNCHANGED <<created, refused, realms, realmsQueue, destroyed, requestStopRunning,
                 runningThreads, pc, held, mainPc>>

\* RunAsync clears the flag and constructs the threads.  A thread that exists
\* but has not run yet differs from one that does not exist only for join.
RunAsync ==
  /\ mainPc = "boot"
  /\ requestStopRunning' = FALSE
  /\ pc' = [t \in Threads |-> "created"]
  /\ mainPc' = "serving"
  /\ UNCHANGED <<sharedVars, destroyed, runningThreads, held>>

\* DestroyAllRealmsAndStop begins: RequestStopRunning.  The main loop calls it
\* when it ends, and the destructors once more each.
RequestStop ==
  /\ mainPc \in {"serving", "stopped"}
  /\ requestStopRunning' = TRUE
  /\ mainPc' = "joining"
  /\ UNCHANGED <<sharedVars, destroyed, runningThreads, pc, held>>

\* WaitStopRunning has joined every thread and forgets them.
Joined ==
  /\ mainPc = "joining"
  /\ \A t \in Threads : pc[t] \in {"none", "done"}
  /\ pc' = [t \in Threads |-> "none"]
  /\ mainPc' = "clearing"
  /\ UNCHANGED <<sharedVars, destroyed, requestStopRunning, runningThreads, held>>

\* The rest of DestroyAllRealmsAndStop, under the mutex.
ClearRealms ==
  /\ mainPc = "clearing"
  /\ realmsQueue' = <<>>
  /\ destroyed' = destroyed \cup {r \in Realms : Registered(r)}
  /\ realms' = [n \in Names |-> NoRealm]
  /\ mainPc' = "stopped"
  /\ UNCHANGED <<created, refused, queueDestroy, requestStopRunning,
                 runningThreads, pc, held>>

-------------------------------------------------------------------------------
(* A worker thread: SingleRunner. *)

Goto(t, label) == pc' = [pc EXCEPT ![t] = label]

Start(t) ==
  /\ pc[t] = "created"
  /\ runningThreads' = runningThreads + 1
  /\ held' = [held EXCEPT ![t] = NoRealm]
  /\ Goto(t, "pop")
  /\ UNCHANGED <<sharedVars, destroyed, requestStopRunning, mainPc>>

\* Mutant: the front of the queue is read but not removed.
PopRealm_Peek(t) ==
  /\ pc[t] = "pop"
  /\ held' = [held EXCEPT ![t] = IF realmsQueue = <<>> THEN NoRealm
                                 ELSE Head(realmsQueue)]
  /\ Goto(t, "decide")
  /\ UNCHANGED <<sharedVars, destroyed, requestStopRunning, runningThreads, mainPc>>

PopRealm(t) ==
  /\ pc[t] = "pop"
  /\ \/ realmsQueue = <<>> /\ held' = [held EXCEPT ![t] = NoRealm]
                           /\ UNCHANGED realmsQueue
     \/ realmsQueue # <<>> /\ held' = [held EXCEPT ![t] = Head(realmsQueue)]
                           /\ realmsQueue' = Tail(realmsQueue)
  /\ Goto(t, "decide")
  /\ UNCHANGED <<created, refused, realms, queueDestroy, destroyed, requestStopRunning,
                 runningThreads, mainPc>>

\* With no realm in hand: leave the loop when asked to, otherwise sleep and
\* try again.
DecideWithoutRealm(t) ==
  /\ pc[t] = "decide"
  /\ held[t] = NoRealm
  /\ Goto(t, IF requestStopRunning THEN "exit" ELSE "pop")
  /\ UNCHANGED <<sharedVars, destroyed, requestStopRunning, runningThreads,
                 held, mainPc>>

\* Mutant: only the stop of the server retires a realm.
MustGo_StopOnly(t) == requestStopRunning

MustGo(t) == held[t] \in queueDestroy \/ requestStopRunning

\* Mutant: a stop makes the worker leave at once, with the name erased.
DecideToDestroy_LeaveAtOnce(t) ==
  /\ pc[t] = "decide"
  /\ held[t] # NoRealm
  /\ MustGo(t)
  /\ realms' = [realms EXCEPT ![RealmName[held[t]]] = NoRealm]
  /\ IF requestStopRunning
       THEN Goto(t, "exit") /\ held' = [held EXCEPT ![t] = NoRealm]
       ELSE Goto(t, "destroy") /\ UNCHANGED held
  /\ UNCHANGED <<created, refused, realmsQueue, queueDestroy, destroyed,
                 requestStopRunning, runningThreads, mainPc>>

\* The realm in hand is to go: its name is erased, under the mutex.
DecideToDestroy(t) ==
  /\ pc[t] = "decide"
  /\ held[t] # NoRealm
  /\ MustGo(t)
  /\ realms' = [realms EXCEPT ![RealmName[held[t]]] = NoRealm]
  /\ Goto(t, "destroy")
  /\ UNCHANGED <<created, refused, realmsQueue, queueDestroy, destroyed,
                 requestStopRunning, runningThreads, held, mainPc>>

DecideToRun(t) ==
  /\ pc[t] = "decide"
  /\ held[t] # NoRealm
  /\ ~MustGo(t)
  /\ Goto(t, "epoch")
  /\ UNCHANGED <<sharedVars, destroyed, requestStopRunning, runningThreads,
                 held, mainPc>>

\* Mutant: the realm is put back at the front, as on a stack.
FinishEpoch_Lifo(t) ==
  /\ pc[t] = "epoch"
  /\ realmsQueue' = <<held[t]>> \o realmsQueue
  /\ held' = [held EXCEPT ![t] = NoRealm]
  /\ Goto(t, "pop")
  /\ UNCHANGED <<created, refused, realms, queueDestroy, destroyed, requestStopRunning,
                 runningThreads, mainPc>>

\* RunOneEpoch has returned; the realm goes to the back of the queue.
FinishEpoch(t) ==
  /\ pc[t] = "epoch"
  /\ realmsQueue' = Append(realmsQueue, held[t])
  /\ held' = [held EXCEPT ![t] = NoRealm]
  /\ Goto(t, "pop")
  /\ UNCHANGED <<created, refused, realms, queueDestroy, destroyed, requestStopRunning,
                 runningThreads, mainPc>>

\* DisconnectAllAndDestroy has returned; the thread lets go of the realm.
FinishDestroy(t) ==
  /\ pc[t] = "destroy"
  /\ destroyed' = destroyed \cup {held[t]}
  /\ held' = [held EXCEPT ![t] = NoRealm]
  /\ Goto(t, "pop")
  /\ UNCHANGED <<sharedVars, requestStopRunning, runningThreads, mainPc>>

\* Mutant: any thread that leaves clears the request, not only the last one.
Leave_AlwaysReset(t) ==
  /\ pc[t] = "exit"
  /\ runningThreads' = runningThreads - 1
  /\ Goto(t, "reset")
  /\ UNCHANGED <<sharedVars, destroyed, requestStopRunning, held, mainPc>>

\* The atomic decrement; only the thread that reaches zero clears the flag...
Leave(t) ==
  /\ pc[t] = "exit"
  /\ runningThreads' = runningThreads - 1
  /\ Goto(t, IF runningThreads = 1 THEN "reset" ELSE "done")
  /\ UNCHANGED <<sharedVars, destroyed, requestStopRunning, held, mainPc>>

\* ... in a separate store, which other threads may precede.
ResetRequest(t) ==
  /\ pc[t] = "reset"
  /\ requestStopRunning' = FALSE
  /\ Goto(t, "done")
  /\ UNCHANGED <<sharedVars, destroyed, runningThreads, held, mainPc>>

Worker(t) ==
  \/ Start(t)
  \/ PopRealm(t)
  \/ DecideWithoutRealm(t) \/ DecideToDestroy(t) \/ DecideToRun(t)
  \/ FinishEpoch(t)
  \/ FinishDestroy(t)
  \/ Leave(t)
  \/ ResetRequest(t)

MainSteps == RunAsync \/ Joined \/ ClearRealms

ManagerNext ==
  \/ \E t \in Threads : Worker(t)
  \/ MainSteps
  \/ RequestStop
  \/ \E r \in Realms : CreateRealm(r)
  \/ \E n \in Names : DestroyRealm(n)

ManagerSpec == ManagerInit /\ [][ManagerNext]_managerVars

\* Every worker keeps taking steps, and the main thread starts the workers and
\* finishes a stop it has begun.  Nobody has to create, destroy or stop.
FairManagerSpec ==
  /\ ManagerSpec
  /\ \A t \in Threads : WF_managerVars(Worker(t))
  /\ WF_managerVars(MainSteps)

-------------------------------------------------------------------------------
(***************************************************************************)
(* Properties.                                                             *)
(***************************************************************************)

\* No two workers hold the same realm: epochs of a realm never overlap each
\* other or its destruction.  RealmServer, its ECS and its collision world have
\* no locks of their own and rely on this.
OneWorkerPerRealm ==
  \A t, u \in Threads, r \in Realms : Holding(t, r) /\ Holding(u, r) => t = u

\* The queue holds no realm twice, and none that a worker holds.
QueueOK ==
  /\ IsInjective(realmsQueue)
  /\ \A t \in Threads, r \in Realms : Holding(t, r) => r \notin Queued

\* A name leads to a realm exactly as long as that realm is waiting in the queue
\* or in the hands of a worker that has not erased it.  Hence erasing by name
\* erases the realm itself, and no realm that GetRealm returns is forgotten by
\* the workers.
NamesOK ==
  /\ \A n \in Names : realms[n] # NoRealm => RealmName[realms[n]] = n
  /\ \A r \in Realms :
       Registered(r) <=>
         \/ r \in Queued
         \/ \E t \in Threads : held[t] = r /\ pc[t] \in {"decide", "epoch"}

\* A realm that is registered or held was created and is not destroyed.
LifeOK ==
  \A r \in Realms :
    (Registered(r) \/ \E t \in Threads : Holding(t, r)) =>
      r \in created \ (refused \cup destroyed)

\* No realm gets lost: whatever the manager accepted can be found by its name, is
\* in the hands of a worker, or has been disconnected and saved.
NoRealmLost ==
  \A r \in created \ refused :
    Registered(r) \/ r \in destroyed \/ \E t \in Threads : Holding(t, r)

\* Refused and destroyed realms are different ones, all of them created.
CreatedOK == refused \subseteq created /\ destroyed \subseteq created \ refused

\* Where a worker stands and what it has in hand fit together, and workers exist
\* only between RunAsync and the end of WaitStopRunning.
WorkersOK ==
  /\ \A t \in Threads :
       /\ pc[t] \in {"epoch", "destroy"} => held[t] # NoRealm
       /\ pc[t] \notin {"decide", "epoch", "destroy"} => held[t] = NoRealm
  /\ mainPc \in {"boot", "clearing", "stopped"} => \A t \in Threads : pc[t] = "none"

\* After DestroyAllRealmsAndStop nothing is left in the manager; with NoRealmLost,
\* every realm it ever accepted has been disconnected and saved.
StoppedOK ==
  mainPc = "stopped" =>
    /\ realmsQueue = <<>>
    /\ \A n \in Names : realms[n] = NoRealm
    /\ created \ refused \subseteq destroyed

\* The inductive invariant.
ManagerInv ==
  /\ ManagerTypeOK
  /\ QueueOK
  /\ OneWorkerPerRealm
  /\ NamesOK
  /\ LifeOK
  /\ NoRealmLost
  /\ CreatedOK
  /\ WorkersOK
  /\ StoppedOK

\* Who drives a realm, and the refinement of RealmOwnership.
Stage(r) ==
  IF r \in destroyed THEN "gone"
  ELSE IF \E t \in Threads : held[t] = r /\ pc[t] = "destroy" THEN "retiring"
  ELSE IF \E t \in Threads : held[t] = r /\ pc[t] \in {"decide", "epoch"} THEN "running"
  ELSE IF r \in Queued THEN "ready"
  ELSE "outside"

Runner(r) ==
  IF \E t \in Threads : Holding(t, r)
    THEN CHOOSE t \in Threads : Holding(t, r)
    ELSE NoThread

\* What game logic is promised: every realm is driven by one thread at a time
\* and is disconnected once, after its last epoch.
Ownership == INSTANCE RealmOwnership WITH
               stage <- [r \in Realms |-> Stage(r)],
               runner <- [r \in Realms |-> Runner(r)]

ImplementsOwnership == Ownership!Spec

\* No realm starves: a registered realm is run again and again, until it is
\* unregistered.  The queue is first in, first out, whatever an epoch takes.
EveryRealmRuns ==
  \A r \in Realms :
    Registered(r) ~> (~Registered(r) \/ \E t \in Threads : held[t] = r /\ pc[t] = "epoch")

\* A stop that finds every worker under way ends: all workers leave and join
\* returns.  A worker that has been constructed but has not yet counted itself
\* is excluded: if the others leave first, the last of them clears the request
\* that the late one would have to see (see the hazard in the README).
StopEnds ==
  (/\ mainPc = "joining"
   /\ requestStopRunning
   /\ \A t \in Threads : pc[t] \notin {"created", "reset"}) ~> mainPc = "stopped"

\* A realm whose destruction was queued is disconnected and saved in the end.
DestroyedInTheEnd ==
  \A r \in Realms :
    (Registered(r) /\ r \in queueDestroy) ~> r \in destroyed
===============================================================================
