---------------------------- MODULE RealmOwnership ----------------------------
(***************************************************************************)
(* What the worker threads promise to a RealmServer, without queues, maps  *)
(* or flags: a realm is driven by one thread at a time, its name is not    *)
(* shared with another realm in service, and it is disconnected and saved  *)
(* exactly once, after its last epoch.                                     *)
(***************************************************************************)
CONSTANTS
  Realms,     \* RealmServer objects
  Threads,    \* worker threads
  NoThread,   \* runner of a realm nobody is driving
  RealmName   \* the name of each realm

VARIABLES
  stage,      \* "outside", "ready", "running", "retiring" or "gone"
  runner      \* the thread that drives the realm

ownershipVars == <<stage, runner>>

Move(r, from, to) == stage[r] = from /\ stage' = [stage EXCEPT ![r] = to]

Init ==
  /\ stage = [r \in Realms |-> "outside"]
  /\ runner = [r \in Realms |-> NoThread]

Admit(r) ==
  /\ \A s \in Realms :
       RealmName[s] = RealmName[r] => stage[s] \notin {"ready", "running"}
  /\ Move(r, "outside", "ready")
  /\ UNCHANGED runner

Begin(r, t) ==
  /\ \A s \in Realms : runner[s] # t
  /\ Move(r, "ready", "running")
  /\ runner' = [runner EXCEPT ![r] = t]

Yield(r) ==
  /\ Move(r, "running", "ready")
  /\ runner' = [runner EXCEPT ![r] = NoThread]

Retire(r) ==
  /\ Move(r, "running", "retiring")
  /\ UNCHANGED runner

Finish(r) ==
  /\ Move(r, "retiring", "gone")
  /\ runner' = [runner EXCEPT ![r] = NoThread]

\* The server stops: no thread drives a realm any more and those that are
\* still in service are disconnected and saved where they are.
Shutdown ==
  /\ \A r \in Realms : runner[r] = NoThread
  /\ stage' = [r \in Realms |-> IF stage[r] = "ready" THEN "gone" ELSE stage[r]]
  /\ UNCHANGED runner

Next ==
  \/ \E r \in Realms : Admit(r) \/ Yield(r) \/ Retire(r) \/ Finish(r)
  \/ \E r \in Realms, t \in Threads : Begin(r, t)
  \/ Shutdown

Spec == Init /\ [][Next]_ownershipVars
===============================================================================
