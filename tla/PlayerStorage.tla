----------------------------- MODULE PlayerStorage ----------------------------
(***************************************************************************)
(* Characters and realms on disk (RealmServer_Serialization.cpp,           *)
(* FileOperations.cpp, StorePlayerDataInPeerAndFile, OnReceivedLogin):     *)
(* login, transfer, autosave, shutdown, writes that fail, crash, restart.  *)
(*                                                                         *)
(* FileOperations::WriteFile truncates a file when it opens it and gets    *)
(* the data out when it closes it; in between the process may crash, and   *)
(* the other threads go on.  Each realm has one thread, which has one file *)
(* open at a time; logins are read on the network thread.                  *)
(*                                                                         *)
(* A character is its progress and the tick of its last attack, which      *)
(* stands for all ticks kept in components: absolute in memory, relative   *)
(* to the realm's tick in files and in storedEntityData.  Of a realm's     *)
(* file the tick is kept.  What a failed write leaves behind reads as an   *)
(* empty file.                                                             *)
(*                                                                         *)
(* Who may log in, orders that overtake each other and connections lost    *)
(* between realms are the subject of PlayerSession; here a name is used by *)
(* one connection at a time, which has one transfer under way.             *)
(***************************************************************************)
EXTENDS Integers

CONSTANTS
  Names,         \* usernames, each with a player file
  Realms,        \* realm names, each with a file of its saved state
  SpawnRealm,    \* ServerCore::spawnRealm
  NoRealm, NoFile,
  Missing,       \* content of a file that does not exist
  Empty,         \* content of a file or buffer without data
  Away,          \* of CharacterStore
  Cooldown,      \* AttackCooldown::baseCooldown, in ticks
  SaveInterval,  \* "config.milliseconds_between_saving_all_data_to_database"
  MaxTick, MaxProgress, MaxFaults, MaxRestarts  \* bounds on what is explored

Files == Names \cup Realms

ASSUME StorageAssumption ==
  /\ Names \cap Realms = {}
  /\ SpawnRealm \in Realms
  /\ NoRealm \notin Realms /\ NoFile \notin Files /\ Away \notin Nat
  /\ Cooldown \in Nat /\ SaveInterval \in Nat \ {0}
  /\ MaxTick \in Nat /\ MaxProgress \in Nat /\ MaxFaults \in Nat /\ MaxRestarts \in Nat

\* storedEntityData: the realm to enter and the components of the entity.
Saved == [realm : Realms, progress : Nat, stamp : Int]

\* The saved state of a realm.
SavedRealm == [tick : Nat]

ASSUME ContentAssumption ==
  /\ Missing \notin Saved \cup SavedRealm
  /\ Empty \notin Saved \cup SavedRealm

VARIABLES
  process,      \* "up", "stopping", "exited" or "crashed"
  disk,         \* the content of each file
  tick,         \* TickTimer::currentTick of each realm
  nextSave,     \* nextTickToSaveAllDataToFiles of each realm
  job,          \* what the thread of each realm is at, see Jobs
  todo,         \* the files it still has to write for that
  writing,      \* the file it has open
  queued,       \* players on their way to PeerData::nextRealm
  realm,        \* PeerData::realm
  nextRealm,    \* PeerData::nextRealm
  stored,       \* PeerData::storedEntityData
  character,    \* the components of the player's entity
  damaged,      \* history: players whose last write failed or was cut off
  faults, restarts   \* writes that failed and processes that ended, so far

vars == <<process, disk, tick, nextSave, job, todo, writing, queued,
          realm, nextRealm, stored, character, damaged, faults, restarts>>

clocks == <<tick, nextSave>>
threads == <<job, todo, writing>>
peers == <<queued, realm, nextRealm, stored, character>>
history == <<damaged, faults, restarts>>

\* A realm's thread is idle between commands, saves all data to files, lets a
\* player go (for another realm, or because it disconnected), or destroys the
\* realm, which is gone then.
Jobs == {"idle", "save", "transfer", "disconnect", "destroy", "gone"}

TypeOK ==
  /\ process \in {"up", "stopping", "exited", "crashed"}
  /\ disk \in [Files -> Saved \cup SavedRealm \cup {Missing, Empty}]
  /\ \A r \in Realms : disk[r] \in SavedRealm \cup {Missing, Empty}
  /\ \A n \in Names : disk[n] \in Saved \cup {Missing, Empty}
  /\ tick \in [Realms -> Nat]
  /\ nextSave \in [Realms -> Nat]
  /\ job \in [Realms -> Jobs]
  /\ todo \in [Realms -> SUBSET Files]
  /\ writing \in [Realms -> Files \cup {NoFile}]
  /\ queued \subseteq Names
  /\ realm \in [Names -> Realms \cup {NoRealm}]
  /\ nextRealm \in [Names -> Realms]
  /\ stored \in [Names -> Saved \cup {Empty}]
  /\ character \in [Names -> [progress : Nat, stamp : Int]]
  /\ damaged \subseteq Names
  /\ faults \in Nat /\ restarts \in Nat

HasData(content) == content \notin {Missing, Empty}

NewCharacter == [progress |-> 0, stamp |-> 0]

\* The first start: nothing has been saved yet.
Init ==
  /\ process = "up"
  /\ disk = [f \in Files |-> Missing]
  /\ tick = [r \in Realms |-> 0]
  /\ nextSave = [r \in Realms |-> 0]
  /\ job = [r \in Realms |-> "idle"]
  /\ todo = [r \in Realms |-> {}]
  /\ writing = [r \in Realms |-> NoFile]
  /\ queued = {}
  /\ realm = [n \in Names |-> NoRealm]
  /\ nextRealm = [n \in Names |-> SpawnRealm]
  /\ stored = [n \in Names |-> Empty]
  /\ character = [n \in Names |-> NewCharacter]
  /\ damaged = {}
  /\ faults = 0 /\ restarts = 0

Running == process \in {"up", "stopping"}
Idle(r) == Running /\ job[r] = "idle"
PlayersIn(r) == {n \in Names : realm[n] = r}

-------------------------------------------------------------------------------
(* Players, between the commands of their realm. *)

\* OnReceivedLogin reads the player's file; a file without data is no character.
Login(n) ==
  /\ Running
  /\ realm[n] = NoRealm /\ n \notin queued
  /\ queued' = queued \cup {n}
  /\ stored' = [stored EXCEPT ![n] = IF HasData(disk[n]) THEN disk[n] ELSE Empty]
  /\ nextRealm' = [nextRealm EXCEPT ![n] =
                     IF HasData(disk[n]) THEN disk[n].realm ELSE SpawnRealm]
  /\ UNCHANGED <<process, disk, clocks, threads, realm, character, history>>

\* The character that enters r with the given data, and back: only relative
\* ticks leave the realm.
Deserialize(data, r) ==
  IF data = Empty THEN NewCharacter
  ELSE [progress |-> data.progress, stamp |-> data.stamp + tick[r]]

\* Mutant: the tick of the last attack is stored as it is.
Serialize_Absolute(n, r) ==
  [realm |-> nextRealm[n], progress |-> character[n].progress, stamp |-> character[n].stamp]

Serialize(n, r) ==
  [realm |-> nextRealm[n], progress |-> character[n].progress,
   stamp |-> character[n].stamp - tick[r]]

\* RealmServer::ConnectPeer.
ConnectPeer(n) ==
  LET r == nextRealm[n]
  IN
  /\ Idle(r)
  /\ n \in queued
  /\ queued' = queued \ {n}
  /\ realm' = [realm EXCEPT ![n] = r]
  /\ character' = [character EXCEPT ![n] = Deserialize(stored[n], r)]
  /\ UNCHANGED <<process, disk, clocks, threads, nextRealm, stored, history>>

\* An attack, when the cooldown of the last one is over.
Attack(n) ==
  LET r == realm[n]
  IN
  /\ r # NoRealm /\ Idle(r)
  /\ character[n].stamp + Cooldown < tick[r]
  /\ character[n].progress < MaxProgress
  /\ character' = [character EXCEPT ![n].progress = @ + 1, ![n].stamp = tick[r]]
  /\ UNCHANGED <<process, disk, clocks, threads, queued, realm, nextRealm, stored, history>>

\* A teleport is ordered; the realm's thread follows it later.
Teleport(n, d) ==
  /\ Running
  /\ realm[n] # NoRealm /\ nextRealm[n] = realm[n]
  /\ nextRealm' = [nextRealm EXCEPT ![n] = d]
  /\ UNCHANGED <<process, disk, clocks, threads, queued, realm, stored, character, history>>

\* Connections that are gone, with their PeerData and entities.
Forget(S) ==
  /\ queued' = queued \ S
  /\ realm' = [n \in Names |-> IF n \in S THEN NoRealm ELSE realm[n]]
  /\ nextRealm' = [n \in Names |-> IF n \in S THEN SpawnRealm ELSE nextRealm[n]]
  /\ stored' = [n \in Names |-> IF n \in S THEN Empty ELSE stored[n]]
  /\ character' = [n \in Names |-> IF n \in S THEN NewCharacter ELSE character[n]]

-------------------------------------------------------------------------------
(* The threads of the realms. *)

Begin(r, what, which) ==
  /\ Idle(r)
  /\ job' = [job EXCEPT ![r] = what]
  /\ todo' = [todo EXCEPT ![r] = which]
  /\ UNCHANGED <<process, disk, writing, peers, history>>

\* RealmServer::OneEpoch: the tick, and all data to files when it is time.
Epoch(r) ==
  /\ tick[r] < MaxTick
  /\ tick' = [tick EXCEPT ![r] = @ + 1]
  /\ UNCHANGED nextSave
  /\ IF nextSave[r] <= tick'[r]
       THEN Begin(r, "save", PlayersIn(r) \cup {r})
       ELSE Idle(r) /\ UNCHANGED <<process, disk, threads, peers, history>>

\* RealmServer::DisconnectPeer, for the coroutine of a transfer or because the
\* connection was lost.
BeginTransfer(n) ==
  /\ realm[n] # NoRealm /\ nextRealm[n] # realm[n]
  /\ Begin(realm[n], "transfer", {n})
  /\ UNCHANGED clocks

\* Mutant: the player's name and place are free before it has been stored.
BeginDisconnect_FreeFirst(n) ==
  /\ realm[n] # NoRealm /\ Idle(realm[n])
  /\ job' = [job EXCEPT ![realm[n]] = "disconnect"]
  /\ todo' = [todo EXCEPT ![realm[n]] = {n}]
  /\ realm' = [realm EXCEPT ![n] = NoRealm]
  /\ UNCHANGED <<process, disk, clocks, writing, queued, nextRealm, stored, character, history>>

BeginDisconnect(n) ==
  /\ realm[n] # NoRealm
  /\ Begin(realm[n], "disconnect", {n})
  /\ UNCHANGED clocks

\* Mutant: only the realm itself is saved when it is destroyed.
BeginDestroy_RealmOnly(r) ==
  /\ process = "stopping"
  /\ Begin(r, "destroy", {r})
  /\ UNCHANGED clocks

\* RealmServer::DisconnectAllAndDestroy, by the worker that sees the stop.  (The
\* destructor calls it again, which writes the same realm file once more.)
BeginDestroy(r) ==
  /\ process = "stopping"
  /\ Begin(r, "destroy", PlayersIn(r) \cup {r})
  /\ UNCHANGED clocks

\* Saving starts with the realm's file, destroying ends with it.
Turn(r, f) ==
  /\ f \in todo[r]
  /\ job[r] = "save" /\ r \in todo[r] => f = r
  /\ job[r] = "destroy" /\ f = r => todo[r] = {r}

\* What becomes of the peers when the thread is done with a file and
\* storedEntityData holds `data`: a player that was to go is removed, and its
\* PeerData too if it is not on a transfer.
Release(r, f, data) ==
  CASE f \notin Names ->
         UNCHANGED peers
    [] f \in Names /\ job[r] = "save" ->
         /\ stored' = [stored EXCEPT ![f] = data]
         /\ UNCHANGED <<queued, realm, nextRealm, character>>
    [] f \in Names /\ job[r] = "transfer" ->
         /\ stored' = [stored EXCEPT ![f] = data]
         /\ queued' = queued \cup {f}
         /\ realm' = [realm EXCEPT ![f] = NoRealm]
         /\ character' = [character EXCEPT ![f] = NewCharacter]
         /\ UNCHANGED nextRealm
    [] OTHER ->
         Forget({f})

\* With its last file the job ends; SetNextTickFotSavingData ends a save.
EndJob(r) ==
  /\ job' = [job EXCEPT ![r] = IF @ = "destroy" THEN "gone" ELSE "idle"]
  /\ nextSave' = IF job[r] = "save"
                   THEN [nextSave EXCEPT ![r] = tick[r] + SaveInterval] ELSE nextSave

Done(r, f, data) ==
  /\ todo' = [todo EXCEPT ![r] = @ \ {f}]
  /\ writing' = [writing EXCEPT ![r] = NoFile]
  /\ Release(r, f, data)
  /\ IF todo[r] = {f} THEN EndJob(r) ELSE UNCHANGED <<job, nextSave>>

Fault(f) ==
  /\ faults < MaxFaults
  /\ faults' = faults + 1
  /\ damaged' = damaged \cup ({f} \cap Names)

\* fopen of WriteFile: the file is truncated and storedEntityData is what is to be
\* written, or it cannot be opened and storedEntityData is cleared.
OpenFile(r, f) ==
  /\ Running
  /\ writing[r] = NoFile
  /\ Turn(r, f)
  /\ \/ /\ disk' = [disk EXCEPT ![f] = Empty]
        /\ writing' = [writing EXCEPT ![r] = f]
        /\ stored' = IF f \in Names THEN [stored EXCEPT ![f] = Serialize(f, r)] ELSE stored
        /\ UNCHANGED <<job, todo, nextSave, queued, realm, nextRealm, character, damaged, faults>>
     \/ Fault(f) /\ Done(r, f, Empty) /\ UNCHANGED disk
  /\ UNCHANGED <<process, tick, restarts>>

\* fwrite and fclose of WriteFile: the data are written, or fwrite fails, which
\* clears storedEntityData, or the data are lost when fclose flushes them, which
\* nobody checks.
CloseFile(r) ==
  LET f == writing[r]
      Written == IF f \in Names THEN stored[f] ELSE [tick |-> tick[r]]
  IN
  /\ Running
  /\ f # NoFile
  /\ \/ /\ disk' = [disk EXCEPT ![f] = Written]
        /\ damaged' = damaged \ {f}
        /\ Done(r, f, Written)
        /\ UNCHANGED faults
     \/ Fault(f) /\ Done(r, f, Empty) /\ UNCHANGED disk
     \/ Fault(f) /\ Done(r, f, Written) /\ UNCHANGED disk
  /\ UNCHANGED <<process, tick, restarts>>

-------------------------------------------------------------------------------
(* The process. *)

RequestStop ==
  /\ process = "up"
  /\ process' = "stopping"
  /\ UNCHANGED <<disk, clocks, threads, peers, history>>

\* The process ends: connections and realms are no more.
EndProcess(how) ==
  /\ restarts < MaxRestarts
  /\ restarts' = restarts + 1
  /\ process' = how
  /\ job' = [r \in Realms |-> "gone"]
  /\ todo' = [r \in Realms |-> {}]
  /\ writing' = [r \in Realms |-> NoFile]
  /\ tick' = [r \in Realms |-> 0]
  /\ nextSave' = [r \in Realms |-> 0]
  /\ Forget(Names)
  /\ UNCHANGED <<disk, faults>>

\* main returns when the workers have destroyed all realms.
Exit ==
  /\ process = "stopping"
  /\ \A r \in Realms : job[r] = "gone"
  /\ EndProcess("exited")
  /\ UNCHANGED damaged

Crash ==
  /\ Running
  /\ EndProcess("crashed")
  /\ damaged' = damaged \cup {n \in Names : \E r \in Realms : writing[r] = n}

\* RealmServer::LoadFromFile of every realm: a saved state names its tick.  It
\* returns before SetNextTickFotSavingData, so the first epoch saves.
Restart ==
  /\ process \in {"exited", "crashed"}
  /\ process' = "up"
  /\ tick' = [r \in Realms |-> IF HasData(disk[r]) THEN disk[r].tick ELSE 0]
  /\ job' = [r \in Realms |-> "idle"]
  /\ UNCHANGED <<disk, nextSave, todo, writing, peers, history>>

-------------------------------------------------------------------------------
Next ==
  \/ \E n \in Names : Login(n) \/ ConnectPeer(n) \/ Attack(n)
  \/ \E n \in Names, d \in Realms : Teleport(n, d)
  \/ \E n \in Names : BeginTransfer(n) \/ BeginDisconnect(n)
  \/ \E r \in Realms : Epoch(r) \/ BeginDestroy(r) \/ CloseFile(r)
  \/ \E r \in Realms, f \in Files : OpenFile(r, f)
  \/ RequestStop \/ Exit \/ Crash \/ Restart

Spec == Init /\ [][Next]_vars

-------------------------------------------------------------------------------
(***************************************************************************)
(* Properties.                                                             *)
(***************************************************************************)

\* What a thread has to write and has open fits what it is at.
JobsOK ==
  \A r \in Realms :
    /\ job[r] \in {"idle", "gone"} => todo[r] = {}
    /\ job[r] \in {"transfer", "disconnect"} => todo[r] \subseteq Names
    /\ writing[r] # NoFile => writing[r] \in todo[r]

\* Players on their way are in no realm, and nobody is when the process is not.
WhereaboutsOK ==
  /\ \A n \in queued : realm[n] = NoRealm
  /\ ~Running => /\ queued = {}
                 /\ \A n \in Names : realm[n] = NoRealm
                 /\ \A r \in Realms : job[r] = "gone"

\* Who is in a realm that is being destroyed is going to be stored.
NobodyIsLeftBehind ==
  \A r \in Realms : job[r] \in {"destroy", "gone"} => PlayersIn(r) \subseteq todo[r]

\* A thread writes only the file of its realm and of players it has, so no file
\* has two writers and no login reads a player's file while it is truncated.
WritersOwnTheirFiles ==
  \A r \in Realms : \A f \in todo[r] : f = r \/ (f \in Names /\ realm[f] = r)

\* No last attack lies in the future of the realm where the character is, however
\* the clocks of the realms it came through compare and wherever they were set
\* back by a restart: nobody is kept from attacking longer than the cooldown.
NoFutureStamps ==
  \A n \in Names : realm[n] # NoRealm => character[n].stamp <= tick[realm[n]]

\* What leaves a realm is relative.
StoredStampsArePast ==
  \A n \in Names : /\ HasData(disk[n]) => disk[n].stamp <= 0
                   /\ stored[n] # Empty => stored[n].stamp <= 0

IsWritten(n) == \E r \in Realms : writing[r] = n

\* While a player is between realms, or its file is open, storedEntityData is the
\* only copy, and it is up to date.
BufferIsCurrent ==
  \A n \in Names :
    /\ n \in queued \ damaged => stored[n] = IF HasData(disk[n]) THEN disk[n] ELSE Empty
    /\ IsWritten(n) => /\ stored[n] # Empty
                       /\ stored[n].progress = character[n].progress

Inv ==
  /\ TypeOK
  /\ JobsOK
  /\ WhereaboutsOK
  /\ NobodyIsLeftBehind
  /\ WritersOwnTheirFiles
  /\ NoFutureStamps
  /\ StoredStampsArePast
  /\ BufferIsCurrent

\* What players are promised.  A file that is being written counts as saved: if
\* the write fails or is cut off, its player joins `damaged`.
ProgressOf(content) == IF HasData(content) THEN content.progress ELSE 0
SavedProgress(n) == ProgressOf(IF IsWritten(n) THEN stored[n] ELSE disk[n])
PlayedProgress(n) == IF realm[n] = NoRealm THEN Away ELSE character[n].progress

Store == INSTANCE CharacterStore WITH
  process <- IF Running THEN "up" ELSE process,
  saved <- [n \in Names |-> SavedProgress(n)],
  playing <- [n \in Names |-> PlayedProgress(n)]

\* Players get back what was saved, are saved whenever they leave a realm and
\* before the server exits, and a crash costs no more than what came after the
\* last save.
ImplementsStore == Store!Spec
===============================================================================
