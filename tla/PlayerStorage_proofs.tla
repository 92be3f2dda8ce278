------------------------- MODULE PlayerStorage_proofs -------------------------
(***************************************************************************)
(* Proofs about PlayerStorage: its invariant holds for any number of       *)
(* players and realms, whatever writes fail and whenever the process dies. *)
(***************************************************************************)
EXTENDS PlayerStorage, TLAPS

USE StorageAssumption, ContentAssumption
    DEF Files, Jobs, Saved, SavedRealm, NobodyIsLeftBehind, PlayersIn

\* Before anything was saved nothing is stored, queued or under way.
LEMMA InitInv == Init => Inv
BY DEF Init, Inv, TypeOK, JobsOK, WhereaboutsOK, WritersOwnTheirFiles, NoFutureStamps,
       StoredStampsArePast, BufferIsCurrent, IsWritten, HasData, NewCharacter, Running

\* A player whose file is open is in the realm whose thread writes it.
LEMMA WrittenIsIn ==
  ASSUME Inv, NEW n \in Names, NEW r \in Realms, writing[r] = n
  PROVE  n \in todo[r] /\ realm[n] = r
<1>1. n # r /\ n # NoFile
  OBVIOUS
<1> QED BY <1>1 DEF Inv, JobsOK, WritersOwnTheirFiles

\* A player in no realm, or in one whose thread is idle, has no file open.
LEMMA NotWritten ==
  ASSUME Inv, NEW n \in Names, realm[n] \in Realms => Idle(realm[n])
  PROVE  ~IsWritten(n)
<1> SUFFICES ASSUME NEW r \in Realms, writing[r] = n PROVE FALSE
  BY DEF IsWritten
<1>1. n \in todo[r] /\ realm[n] = r
  BY WrittenIsIn
<1> QED BY <1>1 DEF Inv, JobsOK, Idle

\* What a login reads is past, and its file is not open.
LEMMA LoginInv == ASSUME Inv, NEW n \in Names, Login(n) PROVE Inv'
<1> USE DEF Login, Inv, clocks, threads, history
<1>1. TypeOK'
  BY DEF TypeOK, HasData, Running
<1>2. JobsOK' /\ WhereaboutsOK' /\ WritersOwnTheirFiles' /\ NoFutureStamps'
  BY DEF TypeOK, JobsOK, WhereaboutsOK, WritersOwnTheirFiles, NoFutureStamps, Running
<1>3. StoredStampsArePast'
  BY DEF TypeOK, StoredStampsArePast, HasData
<1>4. ~IsWritten(n)
  BY NotWritten
<1>5. BufferIsCurrent'
  BY <1>4 DEF TypeOK, BufferIsCurrent, HasData, IsWritten
<1> QED BY <1>1, <1>2, <1>3, <1>5

\* An entity is made of past stamps, in a realm that is writing nothing.
LEMMA ConnectPeerInv == ASSUME Inv, NEW n \in Names, ConnectPeer(n) PROVE Inv'
<1> USE DEF ConnectPeer, Inv, clocks, threads, history
<1>1. TypeOK'
  BY DEF TypeOK, Deserialize, NewCharacter
<1>2. JobsOK' /\ WhereaboutsOK' /\ WritersOwnTheirFiles' /\ StoredStampsArePast'
  BY DEF TypeOK, JobsOK, WhereaboutsOK, WritersOwnTheirFiles, StoredStampsArePast,
         Running, Idle
<1>3. NoFutureStamps'
  BY DEF TypeOK, NoFutureStamps, StoredStampsArePast, Deserialize, NewCharacter
<1>4. ~IsWritten(n)
  BY NotWritten DEF WhereaboutsOK
<1>5. BufferIsCurrent'
  BY <1>4 DEF TypeOK, BufferIsCurrent, IsWritten
<1>6. NobodyIsLeftBehind'
  BY DEF TypeOK, Idle
<1> QED BY <1>1, <1>2, <1>3, <1>5, <1>6

\* An attack happens now, while the character's realm writes nothing.
LEMMA AttackInv == ASSUME Inv, NEW n \in Names, Attack(n) PROVE Inv'
<1> USE DEF Attack, Inv, clocks, threads, history
<1>1. TypeOK'
  BY DEF TypeOK
<1>2. JobsOK' /\ WhereaboutsOK' /\ WritersOwnTheirFiles' /\ StoredStampsArePast'
  BY DEF TypeOK, JobsOK, WhereaboutsOK, WritersOwnTheirFiles, StoredStampsArePast, Running
<1>3. NoFutureStamps'
  BY DEF TypeOK, NoFutureStamps
<1>4. ~IsWritten(n)
  BY NotWritten
<1>5. BufferIsCurrent'
  BY <1>4 DEF TypeOK, BufferIsCurrent, IsWritten
<1> QED BY <1>1, <1>2, <1>3, <1>5

\* A teleport order changes only where the player goes next.
LEMMA TeleportInv == ASSUME Inv, NEW n \in Names, NEW d \in Realms, Teleport(n, d) PROVE Inv'
BY DEF Teleport, Inv, TypeOK, JobsOK, WhereaboutsOK, WritersOwnTheirFiles, NoFutureStamps,
       StoredStampsArePast, BufferIsCurrent, IsWritten, Running, clocks, threads, history

\* A thread begins to write files of its own.
LEMMA BeginInv ==
  ASSUME Inv, NEW r \in Realms, NEW what \in Jobs \ {"idle", "gone"}, NEW which \in SUBSET Files,
         Begin(r, what, which), nextSave' = nextSave,
         tick' \in [Realms -> Nat], \A s \in Realms : tick[s] <= tick'[s],
         \A f \in which : f = r \/ (f \in Names /\ realm[f] = r),
         what \in {"transfer", "disconnect"} => which \subseteq Names,
         what = "destroy" => PlayersIn(r) \subseteq which
  PROVE  Inv'
<1> USE DEF Begin, Inv, peers, history
<1>1. TypeOK'
  BY DEF TypeOK
<1>2. JobsOK' /\ WritersOwnTheirFiles'
  BY DEF TypeOK, JobsOK, WritersOwnTheirFiles, Idle
<1>3. WhereaboutsOK' /\ StoredStampsArePast'
  BY DEF TypeOK, WhereaboutsOK, StoredStampsArePast, Idle, Running
<1>4. BufferIsCurrent'
  BY DEF BufferIsCurrent, IsWritten
<1>5. NoFutureStamps'
  <2> SUFFICES ASSUME NEW n \in Names, realm[n] # NoRealm
               PROVE  character[n].stamp <= tick'[realm[n]]
    BY DEF NoFutureStamps
  <2>1. realm[n] \in Realms /\ character[n].stamp \in Int
    BY DEF TypeOK
  <2>2. /\ character[n].stamp <= tick[realm[n]]
        /\ tick[realm[n]] \in Nat /\ tick'[realm[n]] \in Nat
    BY <2>1 DEF NoFutureStamps, TypeOK
  <2> QED BY <2>1, <2>2
<1>6. NobodyIsLeftBehind'
  BY DEF TypeOK
<1> QED BY <1>1, <1>2, <1>3, <1>4, <1>5, <1>6

\* Time only makes stamps older.
LEMMA EpochInv == ASSUME Inv, NEW r \in Realms, Epoch(r) PROVE Inv'
<1>1. /\ tick' \in [Realms -> Nat] /\ \A s \in Realms : tick[s] <= tick'[s]
      /\ nextSave' = nextSave
  BY DEF Epoch, Inv, TypeOK
<1>2. CASE Begin(r, "save", PlayersIn(r) \cup {r})
  BY <1>1, <1>2, BeginInv DEF PlayersIn
<1>3. CASE Idle(r) /\ UNCHANGED <<process, disk, threads, peers, history>>
  BY <1>1, <1>3 DEF Inv, TypeOK, JobsOK, WhereaboutsOK, WritersOwnTheirFiles, NoFutureStamps,
     StoredStampsArePast, BufferIsCurrent, IsWritten, Running, threads, peers, history
<1> QED BY <1>2, <1>3 DEF Epoch

\* The jobs that begin without a tick.
LEMMA BeginJobInv ==
  ASSUME Inv,
         \/ \E n \in Names : BeginTransfer(n) \/ BeginDisconnect(n)
         \/ \E r \in Realms : BeginDestroy(r)
  PROVE  Inv'
<1>1. tick \in [Realms -> Nat] /\ \A s \in Realms : tick[s] <= tick[s]
  BY DEF Inv, TypeOK
<1>2. CASE \E n \in Names : BeginTransfer(n) \/ BeginDisconnect(n)
  <2>1. PICK n \in Names : BeginTransfer(n) \/ BeginDisconnect(n)
    BY <1>2
  <2>2. realm[n] \in Realms
    BY <2>1 DEF BeginTransfer, BeginDisconnect, Inv, TypeOK
  <2> QED BY <1>1, <2>1, <2>2, BeginInv DEF BeginTransfer, BeginDisconnect, clocks
<1>3. CASE \E r \in Realms : BeginDestroy(r)
  BY <1>1, <1>3, BeginInv DEF BeginDestroy, clocks, PlayersIn
<1> QED BY <1>2, <1>3

-------------------------------------------------------------------------------
(* Writing files. *)

\* A player that Forget(S) takes away, and one that it leaves.
LEMMA ForgetFacts ==
  ASSUME Inv, NEW S \in SUBSET Names, Forget(S), NEW n \in Names
  PROVE  /\ n \in S => /\ n \notin queued' /\ realm'[n] = NoRealm
                       /\ stored'[n] = Empty /\ character'[n] = NewCharacter
         /\ n \notin S => /\ n \in queued' <=> n \in queued
                          /\ realm'[n] = realm[n] /\ stored'[n] = stored[n]
                          /\ character'[n] = character[n]
BY DEF Forget

\* What Release(r, f, data) leaves of players other than f, and makes of f.
LEMMA ReleaseFacts ==
  ASSUME Inv, NEW r \in Realms, NEW f \in todo[r], NEW data, Release(r, f, data),
         NEW n \in Names
  PROVE  /\ n # f => /\ n \in queued' <=> n \in queued
                     /\ realm'[n] = realm[n] /\ stored'[n] = stored[n]
                     /\ character'[n] = character[n]
         /\ n = f => /\ stored'[n] \in {data, Empty}
                     /\ n \in queued' => stored'[n] = data /\ realm'[n] = NoRealm
                     /\ \/ realm'[n] = NoRealm
                        \/ job[r] = "save" /\ realm'[n] = realm[n]
                                           /\ character'[n] = character[n]
<1>1. CASE f \notin Names
  BY <1>1 DEF Release, peers
<1>2. CASE f \in Names /\ job[r] = "save"
  <2>1. f \notin queued
    BY <1>2 DEF Inv, WritersOwnTheirFiles, WhereaboutsOK
  <2> QED BY <1>2, <2>1 DEF Release, Inv, TypeOK
<1>3. CASE f \in Names /\ job[r] = "transfer"
  BY <1>3 DEF Release, Inv, TypeOK
<1>4. CASE f \in Names /\ job[r] \notin {"save", "transfer"}
  <2>1. Forget({f})
    BY <1>4 DEF Release
  <2> QED BY <1>4, <2>1, ForgetFacts
<1> QED BY <1>1, <1>2, <1>3, <1>4

\* Forget keeps the types of what is known of players.
LEMMA ForgetType ==
  ASSUME TypeOK, NEW S \in SUBSET Names, Forget(S)
  PROVE  /\ queued' \subseteq Names
         /\ realm' \in [Names -> Realms \cup {NoRealm}]
         /\ nextRealm' \in [Names -> Realms]
         /\ stored' \in [Names -> Saved \cup {Empty}]
         /\ character' \in [Names -> [progress : Nat, stamp : Int]]
<1>1. NewCharacter \in [progress : Nat, stamp : Int]
  BY DEF NewCharacter
<1>2. queued' \subseteq Names /\ realm' \in [Names -> Realms \cup {NoRealm}]
  BY DEF TypeOK, Forget
<1>3. nextRealm' \in [Names -> Realms] /\ stored' \in [Names -> Saved \cup {Empty}]
  BY DEF TypeOK, Forget
<1>4. character' \in [Names -> [progress : Nat, stamp : Int]]
  BY <1>1 DEF TypeOK, Forget
<1> QED BY <1>2, <1>3, <1>4

\* Release keeps the types, too.
LEMMA ReleaseType ==
  ASSUME TypeOK, NEW r \in Realms, NEW f \in Files, NEW data,
         f \in Names => data \in Saved \cup {Empty}, Release(r, f, data)
  PROVE  /\ queued' \subseteq Names
         /\ realm' \in [Names -> Realms \cup {NoRealm}]
         /\ nextRealm' \in [Names -> Realms]
         /\ stored' \in [Names -> Saved \cup {Empty}]
         /\ character' \in [Names -> [progress : Nat, stamp : Int]]
<1>1. NewCharacter \in [progress : Nat, stamp : Int]
  BY DEF NewCharacter
<1>2. CASE f \notin Names
  <2>1. UNCHANGED <<queued, realm, nextRealm, stored, character>>
    BY <1>2 DEF Release, peers
  <2> QED BY <2>1 DEF TypeOK
<1>3. CASE f \in Names /\ job[r] = "save"
  <2>1. UNCHANGED <<queued, realm, nextRealm, character>>
    BY <1>3 DEF Release
  <2>2. stored' = [stored EXCEPT ![f] = data]
    BY <1>3 DEF Release
  <2>3. stored' \in [Names -> Saved \cup {Empty}]
    BY <1>3, <2>2 DEF TypeOK
  <2> QED BY <2>1, <2>3 DEF TypeOK
<1>4. CASE f \in Names /\ job[r] = "transfer"
  <2>1. UNCHANGED nextRealm /\ queued' = queued \cup {f}
    BY <1>4 DEF Release
  <2>2. realm' = [realm EXCEPT ![f] = NoRealm] /\ stored' = [stored EXCEPT ![f] = data]
    BY <1>4 DEF Release
  <2>3. character' = [character EXCEPT ![f] = NewCharacter]
    BY <1>4 DEF Release
  <2>4. queued' \subseteq Names /\ nextRealm' \in [Names -> Realms]
    BY <1>4, <2>1 DEF TypeOK
  <2>5. realm' \in [Names -> Realms \cup {NoRealm}]
    BY <1>4, <2>2 DEF TypeOK
  <2>6. stored' \in [Names -> Saved \cup {Empty}]
    BY <1>4, <2>2 DEF TypeOK
  <2>7. character' \in [Names -> [progress : Nat, stamp : Int]]
    BY <1>1, <1>4, <2>3 DEF TypeOK
  <2> QED BY <2>4, <2>5, <2>6, <2>7
<1>5. CASE f \in Names /\ job[r] \notin {"save", "transfer"}
  <2>1. Forget({f})
    BY <1>5 DEF Release
  <2> QED BY <1>5, <2>1, ForgetType
<1> QED BY <1>2, <1>3, <1>4, <1>5

\* So does the end of a job.
LEMMA EndJobType ==
  ASSUME TypeOK, NEW r \in Realms, EndJob(r)
  PROVE  job' \in [Realms -> Jobs] /\ nextSave' \in [Realms -> Nat]
<1>1. job' \in [Realms -> Jobs]
  BY DEF EndJob, TypeOK
<1>2. tick[r] + SaveInterval \in Nat
  BY DEF TypeOK
<1>3. nextSave' \in [Realms -> Nat]
  BY <1>2 DEF EndJob, TypeOK
<1> QED BY <1>1, <1>3

\* Done keeps the invariant's parts that speak of the threads.
LEMMA DoneThreads ==
  ASSUME Inv, NEW r \in Realms, NEW f \in todo[r], NEW data, Done(r, f, data)
  PROVE  JobsOK' /\ WritersOwnTheirFiles'
<1>1. /\ todo'[r] = todo[r] \ {f} /\ writing'[r] = NoFile
      /\ \A s \in Realms \ {r} : todo'[s] = todo[s] /\ writing'[s] = writing[s]
  BY DEF Done, Inv, TypeOK
<1>2. /\ job'[r] = job[r] \/ todo'[r] = {}
      /\ \A s \in Realms \ {r} : job'[s] = job[s]
  BY <1>1 DEF Done, EndJob, Inv, TypeOK
<1>3. JobsOK'
  BY <1>1, <1>2 DEF Inv, JobsOK
<1>4. ASSUME NEW s \in Realms, NEW g \in todo'[s], g # s
      PROVE  g \in Names /\ realm'[g] = s
  <2>1. (g \in todo[s] /\ g # f) \/ s # r
    BY <1>1, <1>4
  <2>2. g \in todo[s]
    BY <1>1, <1>4
  <2>3. g \in Names /\ realm[g] = s
    BY <1>4, <2>2 DEF Inv, WritersOwnTheirFiles
  <2>4. g # f
    BY <1>1, <1>4, <2>3 DEF Inv, WritersOwnTheirFiles
  <2> QED BY <2>3, <2>4, ReleaseFacts DEF Done
<1> QED BY <1>3, <1>4 DEF WritersOwnTheirFiles

\* Whatever became of the write of a file, once the thread is done with it the
\* invariant holds: the file has the data, or its player is damaged.
LEMMA DoneInv ==
  ASSUME Inv, Running, NEW r \in Realms, NEW f \in todo[r], NEW data, Done(r, f, data),
         UNCHANGED <<process, tick, restarts>>, faults' \in Nat,
         f \in Names => data \in Saved \cup {Empty} /\ (data # Empty => data.stamp <= 0),
         disk' \in [Files -> Saved \cup SavedRealm \cup {Missing, Empty}],
         \A s \in Realms : disk'[s] \in SavedRealm \cup {Missing, Empty},
         \A n \in Names : /\ disk'[n] \in Saved \cup {Missing, Empty}
                          /\ HasData(disk'[n]) => disk'[n].stamp <= 0,
         damaged' \subseteq Names,
         \A n \in Names \ {f} : disk'[n] = disk[n] /\ (n \in damaged' <=> n \in damaged),
         f \in Names => f \in damaged' \/ (HasData(data) /\ disk'[f] = data)
  PROVE  Inv'
<1>1. TypeOK /\ f \in Files
  BY DEF Inv, TypeOK
<1>2. TypeOK'
  <2>1. /\ todo' \in [Realms -> SUBSET Files]
        /\ writing' \in [Realms -> Files \cup {NoFile}]
    BY <1>1 DEF Done, TypeOK
  <2>2. job' \in [Realms -> Jobs] /\ nextSave' \in [Realms -> Nat]
    BY <1>1, EndJobType DEF Done, TypeOK
  <2>3. /\ queued' \subseteq Names
        /\ realm' \in [Names -> Realms \cup {NoRealm}]
        /\ nextRealm' \in [Names -> Realms]
        /\ stored' \in [Names -> Saved \cup {Empty}]
        /\ character' \in [Names -> [progress : Nat, stamp : Int]]
    BY <1>1, ReleaseType DEF Done
  <2> QED BY <2>1, <2>2, <2>3 DEF Inv, TypeOK
<1>3. Release(r, f, data)
  BY DEF Done
<1>4. WhereaboutsOK'
  <2>1. Running' /\ queued' \subseteq Names
    BY <1>2 DEF Running, TypeOK
  <2>2. ASSUME NEW n \in queued' PROVE realm'[n] = NoRealm
    BY <1>3, <2>1, <2>2, ReleaseFacts DEF Inv, WhereaboutsOK
  <2> QED BY <2>1, <2>2 DEF WhereaboutsOK
<1>5. NoFutureStamps'
  BY <1>3, ReleaseFacts DEF Inv, NoFutureStamps
<1>6. StoredStampsArePast'
  BY <1>3, ReleaseFacts DEF Inv, StoredStampsArePast
<1>7. \A s \in Realms \ {r} : writing'[s] = writing[s]
  BY DEF Done, Inv, TypeOK
<1>8. writing'[r] = NoFile
  BY DEF Done, Inv, TypeOK
<1>9. ASSUME NEW n \in Names, IsWritten(n)' PROVE n # f /\ IsWritten(n)
  <2>1. PICK s \in Realms : writing'[s] = n
    BY <1>9 DEF IsWritten
  <2>2. s # r
    BY <1>8, <2>1
  <2>3. writing[s] = n
    BY <1>7, <2>1, <2>2
  <2>4. realm[n] = s
    BY <2>3, WrittenIsIn
  <2>5. n # f
    BY <2>2, <2>4 DEF Inv, WritersOwnTheirFiles
  <2> QED BY <2>3, <2>5 DEF IsWritten
<1>10. BufferIsCurrent'
  <2>1. ASSUME NEW n \in Names, n \in queued' \ damaged'
        PROVE  stored'[n] = IF HasData(disk'[n]) THEN disk'[n] ELSE Empty
    BY <1>3, <2>1, ReleaseFacts DEF Inv, BufferIsCurrent
  <2>2. ASSUME NEW n \in Names, IsWritten(n)'
        PROVE  stored'[n] # Empty /\ stored'[n].progress = character'[n].progress
    BY <1>3, <1>9, <2>2, ReleaseFacts DEF Inv, BufferIsCurrent
  <2> QED BY <2>1, <2>2 DEF BufferIsCurrent
<1>11. NobodyIsLeftBehind'
  <2> SUFFICES ASSUME NEW s \in Realms, job'[s] \in {"destroy", "gone"},
                      NEW n \in Names, realm'[n] = s
               PROVE  n \in todo'[s]
    OBVIOUS
  <2>1. realm[n] = s /\ (n = f => job[r] = "save")
    BY <1>3, ReleaseFacts
  <2>2. CASE s # r
    BY <2>1, <2>2 DEF Done, EndJob, Inv, TypeOK
  <2>3. CASE s = r
    <3>1. job[r] \in {"destroy", "gone"}
      BY <2>3 DEF Done, EndJob, Inv, TypeOK
    <3>2. n \in todo[r] /\ n # f
      BY <2>1, <2>3, <3>1 DEF Inv
    <3> QED BY <2>3, <3>2 DEF Done, Inv, TypeOK
  <2> QED BY <2>2, <2>3
<1> QED BY <1>2, <1>4, <1>5, <1>6, <1>10, <1>11, DoneThreads DEF Inv

\* A write that fails leaves the file as it is and damages its player.
LEMMA FaultInv ==
  ASSUME Inv, Running, NEW r \in Realms, NEW f \in todo[r], NEW data, Done(r, f, data),
         UNCHANGED <<process, tick, restarts, disk>>, Fault(f),
         f \in Names => data \in Saved \cup {Empty} /\ (data # Empty => data.stamp <= 0)
  PROVE  Inv'
<1>1. faults' \in Nat /\ damaged' \subseteq Names
  BY DEF Fault, Inv, TypeOK
<1>2. /\ \A n \in Names \ {f} : n \in damaged' <=> n \in damaged
      /\ f \in Names => f \in damaged'
  BY DEF Fault
<1> QED BY <1>1, <1>2, DoneInv DEF Inv, TypeOK, StoredStampsArePast

\* Opening a file: what is to be written is relative to the realm's tick.
LEMMA OpenFileInv == ASSUME Inv, NEW r \in Realms, NEW f \in Files, OpenFile(r, f) PROVE Inv'
<1>1. Running /\ f \in todo[r] /\ writing[r] = NoFile /\ UNCHANGED <<process, tick, restarts>>
  BY DEF OpenFile, Turn
<1>2. CASE Fault(f) /\ Done(r, f, Empty) /\ UNCHANGED disk
  BY <1>1, <1>2, FaultInv
<1>3. CASE /\ disk' = [disk EXCEPT ![f] = Empty]
           /\ writing' = [writing EXCEPT ![r] = f]
           /\ stored' = IF f \in Names THEN [stored EXCEPT ![f] = Serialize(f, r)] ELSE stored
           /\ UNCHANGED <<job, todo, nextSave, queued, realm, nextRealm, character, damaged, faults>>
  <2> USE <1>1, <1>3
  <2>1. f \in Names => /\ realm[f] = r /\ f \notin queued
                       /\ Serialize(f, r) \in Saved
                       /\ Serialize(f, r).stamp <= 0
                       /\ Serialize(f, r).progress = character[f].progress
    <3> SUFFICES ASSUME f \in Names
                 PROVE  /\ realm[f] = r /\ f \notin queued
                        /\ Serialize(f, r) \in Saved
                        /\ Serialize(f, r).stamp <= 0
                        /\ Serialize(f, r).progress = character[f].progress
      OBVIOUS
    <3>1. realm[f] = r /\ f \notin queued
      BY DEF Inv, WritersOwnTheirFiles, WhereaboutsOK
    <3>2. /\ nextRealm[f] \in Realms /\ character[f].progress \in Nat
          /\ character[f].stamp \in Int /\ tick[r] \in Nat
      BY DEF Inv, TypeOK
    <3>3. character[f].stamp <= tick[r]
      BY <3>1 DEF Inv, NoFutureStamps
    <3> QED BY <3>1, <3>2, <3>3 DEF Serialize
  <2>2. TypeOK'
    <3>1. stored' \in [Names -> Saved \cup {Empty}]
      BY <2>1 DEF Inv, TypeOK
    <3>2. /\ disk' \in [Files -> Saved \cup SavedRealm \cup {Missing, Empty}]
          /\ \A s \in Realms : disk'[s] \in SavedRealm \cup {Missing, Empty}
          /\ \A n \in Names : disk'[n] \in Saved \cup {Missing, Empty}
      BY DEF Inv, TypeOK
    <3> QED BY <3>1, <3>2 DEF Inv, TypeOK
  <2>3. JobsOK' /\ WritersOwnTheirFiles' /\ WhereaboutsOK' /\ NoFutureStamps'
    BY DEF Inv, TypeOK, JobsOK, WritersOwnTheirFiles, WhereaboutsOK, NoFutureStamps, Running
  <2>4. StoredStampsArePast'
    BY <2>1 DEF Inv, TypeOK, StoredStampsArePast, HasData
  <2>5. ASSUME NEW n \in Names, IsWritten(n)' PROVE n = f \/ IsWritten(n)
    BY <2>5 DEF Inv, TypeOK, IsWritten
  <2>6. BufferIsCurrent'
    <3>1. ASSUME NEW n \in Names, n # f
          PROVE  /\ n \in queued' \ damaged' =>
                      stored'[n] = IF HasData(disk'[n]) THEN disk'[n] ELSE Empty
                 /\ IsWritten(n)' => /\ stored'[n] # Empty
                                     /\ stored'[n].progress = character'[n].progress
      <4>1. stored'[n] = stored[n] /\ disk'[n] = disk[n]
        BY <3>1 DEF Inv, TypeOK
      <4> QED BY <2>5, <3>1, <4>1 DEF Inv, BufferIsCurrent
    <3>2. f \in Names => /\ f \notin queued'
                         /\ stored'[f] = Serialize(f, r)
                         /\ stored'[f] # Empty
                         /\ stored'[f].progress = character'[f].progress
      BY <2>1 DEF Inv, TypeOK
    <3> QED BY <3>1, <3>2 DEF BufferIsCurrent
  <2> QED BY <2>2, <2>3, <2>4, <2>6 DEF Inv
<1> QED BY <1>2, <1>3 DEF OpenFile

\* Closing a file, with each of its outcomes.
LEMMA CloseFileInv == ASSUME Inv, NEW r \in Realms, CloseFile(r) PROVE Inv'
<1> DEFINE f == writing[r]
           Written == IF f \in Names THEN stored[f] ELSE [tick |-> tick[r]]
<1>1. Running /\ f # NoFile /\ UNCHANGED <<process, tick, restarts>>
  BY DEF CloseFile
<1>2. f \in todo[r] /\ (f \in Names \/ f = r) /\ f \in Files
  BY <1>1 DEF Inv, JobsOK, WritersOwnTheirFiles
<1>3. f \in Names => /\ stored[f] \in Saved /\ stored[f].stamp <= 0
                     /\ HasData(stored[f])
  <2> SUFFICES ASSUME f \in Names
               PROVE  stored[f] \in Saved /\ stored[f].stamp <= 0 /\ HasData(stored[f])
    OBVIOUS
  <2>1. stored[f] # Empty
    BY DEF Inv, BufferIsCurrent, IsWritten
  <2>2. stored[f] \in Saved
    BY <2>1 DEF Inv, TypeOK
  <2> QED BY <2>1, <2>2 DEF Inv, StoredStampsArePast, HasData
<1>4. CASE Fault(f) /\ Done(r, f, Empty) /\ UNCHANGED disk
  BY <1>1, <1>2, <1>4, FaultInv
<1>5. CASE Fault(f) /\ Done(r, f, Written) /\ UNCHANGED disk
  BY <1>1, <1>2, <1>3, <1>5, FaultInv
<1>6. CASE /\ disk' = [disk EXCEPT ![f] = Written]
           /\ damaged' = damaged \ {f}
           /\ Done(r, f, Written)
           /\ UNCHANGED faults
  <2>1. tick[r] \in Nat /\ faults' \in Nat /\ damaged' \subseteq Names
    BY <1>6 DEF Inv, TypeOK
  <2>2. f = r => Written \in SavedRealm
    BY <2>1
  <2>3. f \in Names => Written = stored[f]
    OBVIOUS
  <2>4. disk' \in [Files -> Saved \cup SavedRealm \cup {Missing, Empty}]
    BY <1>2, <1>3, <1>6, <2>2, <2>3 DEF Inv, TypeOK
  <2>5. \A s \in Realms : disk'[s] \in SavedRealm \cup {Missing, Empty}
    BY <1>2, <1>6, <2>2 DEF Inv, TypeOK
  <2>6. \A n \in Names : n # f => disk'[n] = disk[n] /\ (n \in damaged' <=> n \in damaged)
    BY <1>6 DEF Inv, TypeOK
  <2>7. f \in Names => disk'[f] = Written
    BY <1>6 DEF Inv, TypeOK
  <2>8. \A n \in Names : /\ disk'[n] \in Saved \cup {Missing, Empty}
                         /\ HasData(disk'[n]) => disk'[n].stamp <= 0
    BY <1>3, <2>3, <2>6, <2>7 DEF Inv, TypeOK, StoredStampsArePast
  <2> HIDE DEF Written
  <2> QED BY <1>1, <1>2, <1>3, <1>6, <2>1, <2>3, <2>4, <2>5, <2>6, <2>7, <2>8, DoneInv
<1> QED BY <1>4, <1>5, <1>6 DEF CloseFile

-------------------------------------------------------------------------------
(* The process. *)

\* The stop request changes nothing on disk or in the realms.
LEMMA RequestStopInv == ASSUME Inv, RequestStop PROVE Inv'
BY DEF RequestStop, Inv, TypeOK, JobsOK, WhereaboutsOK, WritersOwnTheirFiles, NoFutureStamps,
       StoredStampsArePast, BufferIsCurrent, IsWritten, Running, clocks, threads, peers, history

\* However the process ends, nothing is left but the files.
LEMMA EndProcessInv ==
  ASSUME Inv, NEW how \in {"exited", "crashed"}, EndProcess(how), damaged' \subseteq Names
  PROVE  Inv'
<1> USE DEF EndProcess, Inv
<1>1. Forget(Names) /\ Names \in SUBSET Names
  OBVIOUS
<1>2. TypeOK'
  BY <1>1, ForgetType DEF TypeOK
<1>3. \A n \in Names : /\ n \notin queued' /\ realm'[n] = NoRealm
                       /\ stored'[n] = Empty /\ ~IsWritten(n)'
  BY <1>1, ForgetFacts DEF IsWritten
<1>4. JobsOK' /\ WhereaboutsOK' /\ WritersOwnTheirFiles'
  BY <1>2, <1>3 DEF TypeOK, JobsOK, WhereaboutsOK, WritersOwnTheirFiles
<1>5. NoFutureStamps' /\ StoredStampsArePast' /\ BufferIsCurrent'
  BY <1>3 DEF NoFutureStamps, StoredStampsArePast, BufferIsCurrent
<1>6. NobodyIsLeftBehind'
  BY <1>3
<1> QED BY <1>2, <1>4, <1>5, <1>6

\* The clocks are set back while nobody is in a realm.
LEMMA RestartInv == ASSUME Inv, Restart PROVE Inv'
<1> USE DEF Restart, Inv, peers, history
<1>1. TypeOK'
  <2>1. \A r \in Realms : HasData(disk[r]) => disk[r].tick \in Nat
    BY DEF TypeOK, HasData
  <2>2. tick' \in [Realms -> Nat] /\ job' \in [Realms -> Jobs]
    BY <2>1
  <2> QED BY <2>2 DEF TypeOK
<1>2. ~Running
  BY DEF Running
<1>3. \A r \in Realms : todo[r] = {} /\ writing[r] = NoFile
  BY <1>2 DEF JobsOK, WhereaboutsOK
<1>4. JobsOK' /\ WritersOwnTheirFiles'
  BY <1>3 DEF JobsOK, WritersOwnTheirFiles
<1>5. WhereaboutsOK'
  BY <1>2 DEF WhereaboutsOK, Running
<1>6. NoFutureStamps' /\ StoredStampsArePast' /\ BufferIsCurrent'
  BY <1>2 DEF WhereaboutsOK, NoFutureStamps, StoredStampsArePast, BufferIsCurrent, IsWritten
<1> QED BY <1>1, <1>4, <1>5, <1>6

\* Every step keeps the invariant.
LEMMA NextInv == Inv /\ [Next]_vars => Inv'
<1> SUFFICES ASSUME Inv, [Next]_vars PROVE Inv'
  OBVIOUS
<1>1. CASE UNCHANGED vars
  BY <1>1 DEF vars, Inv, TypeOK, JobsOK, WhereaboutsOK, WritersOwnTheirFiles, NoFutureStamps,
     StoredStampsArePast, BufferIsCurrent, IsWritten, Running
<1>2. CASE \E n \in Names : Login(n) \/ ConnectPeer(n) \/ Attack(n)
  BY <1>2, LoginInv, ConnectPeerInv, AttackInv
<1>3. CASE \E n \in Names, d \in Realms : Teleport(n, d)
  BY <1>3, TeleportInv
<1>4. CASE \/ \E n \in Names : BeginTransfer(n) \/ BeginDisconnect(n)
           \/ \E r \in Realms : BeginDestroy(r)
  BY <1>4, BeginJobInv
<1>5. CASE \E r \in Realms : Epoch(r) \/ CloseFile(r)
  BY <1>5, EpochInv, CloseFileInv
<1>6. CASE \E r \in Realms, f \in Files : OpenFile(r, f)
  BY <1>6, OpenFileInv
<1>7. CASE Exit \/ Crash
  <2>1. damaged' \subseteq Names
    BY <1>7 DEF Exit, Crash, Inv, TypeOK
  <2> QED BY <1>7, <2>1, EndProcessInv DEF Exit, Crash
<1>8. CASE RequestStop \/ Restart
  BY <1>8, RequestStopInv, RestartInv
<1> QED BY <1>1, <1>2, <1>3, <1>4, <1>5, <1>6, <1>7, <1>8 DEF Next

\* The files, the buffers and the threads agree in every reachable state, for any
\* number of players, realms, failing writes and restarts.
THEOREM InductiveInvariant == Spec => []Inv
<1> QED BY InitInv, NextInv, PTL DEF Spec

\* Type correctness of files, buffers and threads.
THEOREM TypeCorrect == Spec => []TypeOK
<1>1. Inv => TypeOK
  BY DEF Inv
<1> QED BY <1>1, InductiveInvariant, PTL

\* Wherever a character came from and whichever clock was set back, its last
\* attack is not in the future: the cooldown is never longer than configured.
THEOREM StampsAreNeverAhead == Spec => []NoFutureStamps
<1>1. Inv => NoFutureStamps
  BY DEF Inv
<1> QED BY <1>1, InductiveInvariant, PTL

-------------------------------------------------------------------------------
(* PlayerStorage implements CharacterStore. *)

\* The first start has nothing saved and nobody playing.
LEMMA InitStore == Init => Store!Init
BY DEF Init, Store!Init, Running, SavedProgress, PlayedProgress, ProgressOf, HasData, IsWritten

\* Steps of the running process are steps of Run if every undamaged player enters,
\* advances, is saved, departs or rests, and is damaged no longer only when saved.
LEMMA RunStep ==
  ASSUME Running, Running',
         \A n \in damaged \ damaged' : SavedProgress(n) = PlayedProgress(n),
         damaged \subseteq Names,
         \A n \in Names \ damaged' :
           \/ /\ PlayedProgress(n) = Away /\ PlayedProgress(n)' = SavedProgress(n)
              /\ SavedProgress(n)' = SavedProgress(n)
           \/ /\ PlayedProgress(n) # Away /\ PlayedProgress(n)' = PlayedProgress(n) + 1
              /\ SavedProgress(n)' = SavedProgress(n)
           \/ /\ PlayedProgress(n) # Away /\ PlayedProgress(n)' = PlayedProgress(n)
              /\ SavedProgress(n)' = PlayedProgress(n)
           \/ /\ PlayedProgress(n) = SavedProgress(n) /\ PlayedProgress(n)' = Away
              /\ SavedProgress(n)' = SavedProgress(n)
           \/ /\ PlayedProgress(n)' = PlayedProgress(n)
              /\ SavedProgress(n)' = SavedProgress(n)
  PROVE  Store!Next
BY DEF Store!Next, Store!Run, Store!Regained, Store!Enter, Store!Advance, Store!Save,
       Store!Depart, Store!Rest

\* A player of whom nothing changes rests.
LEMMA Rests ==
  ASSUME NEW n \in Names, disk'[n] = disk[n], stored'[n] = stored[n], realm'[n] = realm[n],
         character'[n] = character[n], IsWritten(n)' <=> IsWritten(n)
  PROVE  PlayedProgress(n)' = PlayedProgress(n) /\ SavedProgress(n)' = SavedProgress(n)
BY DEF PlayedProgress, SavedProgress

\* Whoever is in a realm has a number for its progress.
LEMMA Playing ==
  ASSUME Inv, NEW n \in Names, realm[n] # NoRealm
  PROVE  PlayedProgress(n) = character[n].progress /\ PlayedProgress(n) \in Nat
BY DEF Inv, TypeOK, PlayedProgress

\* What the commands of players do, to them and to the others.
LEMMA PlayerStore ==
  ASSUME Inv, NEW n \in Names,
         Login(n) \/ ConnectPeer(n) \/ Attack(n) \/ \E d \in Realms : Teleport(n, d)
  PROVE  Store!Next
<1>1. /\ Running /\ Running' /\ damaged' = damaged /\ disk' = disk /\ damaged \subseteq Names
      /\ \A k \in Names : IsWritten(k)' <=> IsWritten(k)
  BY DEF Login, ConnectPeer, Attack, Teleport, Idle, Running, IsWritten, threads, history,
         Inv, TypeOK
<1>2. \A k \in Names \ {n} : PlayedProgress(k)' = PlayedProgress(k) /\ SavedProgress(k)' = SavedProgress(k)
  <2> SUFFICES ASSUME NEW k \in Names \ {n}
               PROVE  PlayedProgress(k)' = PlayedProgress(k) /\ SavedProgress(k)' = SavedProgress(k)
    OBVIOUS
  <2>1. stored'[k] = stored[k] /\ realm'[k] = realm[k] /\ character'[k] = character[k]
    BY DEF Login, ConnectPeer, Attack, Teleport, Inv, TypeOK
  <2> QED BY <1>1, <2>1, Rests
<1>3. CASE Login(n)
  <2>1. ~IsWritten(n)
    BY <1>3, NotWritten DEF Login
  <2>2. PlayedProgress(n)' = PlayedProgress(n) /\ SavedProgress(n)' = SavedProgress(n)
    BY <1>1, <1>3, <2>1 DEF Login, PlayedProgress, SavedProgress
  <2> QED BY <1>1, <1>2, <2>2, RunStep
<1>4. CASE ConnectPeer(n)
  <2>1. realm[n] = NoRealm /\ realm'[n] # NoRealm
    BY <1>4 DEF ConnectPeer, Inv, TypeOK, WhereaboutsOK
  <2>2. ~IsWritten(n)
    BY <2>1, NotWritten
  <2>3. PlayedProgress(n) = Away /\ SavedProgress(n)' = SavedProgress(n)
    BY <1>1, <2>1, <2>2 DEF PlayedProgress, SavedProgress
  <2>4. n \notin damaged => stored[n] = IF HasData(disk[n]) THEN disk[n] ELSE Empty
    BY <1>4 DEF ConnectPeer, Inv, BufferIsCurrent
  <2>5. PlayedProgress(n)' = character'[n].progress
    BY <2>1 DEF PlayedProgress
  <2>6. character'[n] = Deserialize(stored[n], nextRealm[n])
    BY <1>4 DEF ConnectPeer, Inv, TypeOK
  <2>7. n \notin damaged => PlayedProgress(n)' = SavedProgress(n)
    BY <2>2, <2>4, <2>5, <2>6
       DEF SavedProgress, ProgressOf, Deserialize, NewCharacter, HasData
  <2> QED BY <1>1, <1>2, <2>3, <2>7, RunStep
<1>5. CASE Attack(n)
  <2>1. realm[n] # NoRealm /\ realm'[n] = realm[n]
    BY <1>5 DEF Attack
  <2>2. ~IsWritten(n)
    BY <1>5, NotWritten DEF Attack
  <2>3. SavedProgress(n)' = SavedProgress(n)
    BY <1>1, <2>2 DEF SavedProgress
  <2>4. character'[n].progress = character[n].progress + 1
    BY <1>5 DEF Attack, Inv, TypeOK
  <2>5. PlayedProgress(n) # Away /\ PlayedProgress(n)' = PlayedProgress(n) + 1
    BY <2>1, <2>4, Playing DEF PlayedProgress
  <2> QED BY <1>1, <1>2, <2>3, <2>5, RunStep
<1>6. CASE \E d \in Realms : Teleport(n, d)
  <2>1. PlayedProgress(n)' = PlayedProgress(n) /\ SavedProgress(n)' = SavedProgress(n)
    BY <1>1, <1>6, Rests DEF Teleport
  <2> QED BY <1>1, <1>2, <2>1, RunStep
<1> QED BY <1>3, <1>4, <1>5, <1>6

\* Ticks, the beginning of jobs and the stop request touch no character.
LEMMA IdleStore ==
  ASSUME Inv, Running, Running', UNCHANGED <<disk, writing, peers, history>>
  PROVE  Store!Next
<1>1. damaged' = damaged /\ damaged \subseteq Names
  BY DEF history, Inv, TypeOK
<1>2. ASSUME NEW n \in Names
      PROVE  PlayedProgress(n)' = PlayedProgress(n) /\ SavedProgress(n)' = SavedProgress(n)
  BY Rests DEF IsWritten, peers
<1> QED BY <1>1, <1>2, RunStep

\* Players whose file the thread of r is not concerned with rest while it opens or
\* closes the file f.
LEMMA OthersRest ==
  ASSUME Inv, NEW r \in Realms, NEW f \in todo[r], NEW n \in Names, n # f,
         writing' \in [Realms -> Files \cup {NoFile}],
         \A s \in Realms \ {r} : writing'[s] = writing[s],
         writing[r] \in {f, NoFile}, writing'[r] \in {f, NoFile},
         disk'[n] = disk[n], stored'[n] = stored[n], realm'[n] = realm[n],
         character'[n] = character[n]
  PROVE  PlayedProgress(n)' = PlayedProgress(n) /\ SavedProgress(n)' = SavedProgress(n)
<1>1. n # NoFile
  OBVIOUS
<1>2. IsWritten(n)' <=> IsWritten(n)
  BY <1>1 DEF IsWritten
<1> QED BY <1>2, Rests

\* The thread is done with a file: all other players rest.
LEMMA DoneOthers ==
  ASSUME Inv, NEW r \in Realms, NEW f \in todo[r], NEW data, Done(r, f, data),
         writing[r] \in {f, NoFile},
         NEW n \in Names, n # f, disk'[n] = disk[n]
  PROVE  PlayedProgress(n)' = PlayedProgress(n) /\ SavedProgress(n)' = SavedProgress(n)
<1>1. /\ stored'[n] = stored[n] /\ realm'[n] = realm[n] /\ character'[n] = character[n]
  BY ReleaseFacts DEF Done
<1>2. /\ writing' \in [Realms -> Files \cup {NoFile}] /\ writing'[r] = NoFile
      /\ \A s \in Realms \ {r} : writing'[s] = writing[s]
  BY DEF Done, Inv, TypeOK
<1> QED BY <1>1, <1>2, OthersRest

\* A failing write concerns only the player it damages.
LEMMA FaultStore ==
  ASSUME Inv, Running, NEW r \in Realms, NEW f \in todo[r], NEW data, Done(r, f, data),
         writing[r] \in {f, NoFile}, UNCHANGED <<process, disk>>, Fault(f)
  PROVE  Store!Next
<1>1. Running' /\ damaged \subseteq Names
  BY DEF Running, Inv, TypeOK
<1>2. damaged \ damaged' = {} /\ (f \in Names => f \in damaged')
  BY DEF Fault
<1>3. ASSUME NEW n \in Names \ damaged'
      PROVE  PlayedProgress(n)' = PlayedProgress(n) /\ SavedProgress(n)' = SavedProgress(n)
  BY <1>2, DoneOthers
<1> QED BY <1>1, <1>2, <1>3, RunStep

\* Opening a player's file saves the character.
LEMMA OpenFileStore ==
  ASSUME Inv, NEW r \in Realms, NEW f \in Files, OpenFile(r, f) PROVE Store!Next
<1>1. Running /\ f \in todo[r] /\ writing[r] = NoFile /\ UNCHANGED <<process, tick, restarts>>
  BY DEF OpenFile, Turn
<1>2. CASE Fault(f) /\ Done(r, f, Empty) /\ UNCHANGED disk
  BY <1>1, <1>2, FaultStore
<1>3. CASE /\ disk' = [disk EXCEPT ![f] = Empty]
           /\ writing' = [writing EXCEPT ![r] = f]
           /\ stored' = IF f \in Names THEN [stored EXCEPT ![f] = Serialize(f, r)] ELSE stored
           /\ UNCHANGED <<job, todo, nextSave, queued, realm, nextRealm, character, damaged, faults>>
  <2>1. Running' /\ damaged' = damaged /\ damaged \subseteq Names
    BY <1>1, <1>3 DEF Running, Inv, TypeOK
  <2>2. /\ writing' \in [Realms -> Files \cup {NoFile}] /\ writing'[r] = f
        /\ \A s \in Realms \ {r} : writing'[s] = writing[s]
    BY <1>3 DEF Inv, TypeOK
  <2>3. ASSUME NEW n \in Names, n # f
        PROVE  PlayedProgress(n)' = PlayedProgress(n) /\ SavedProgress(n)' = SavedProgress(n)
    <3>1. /\ disk'[n] = disk[n] /\ stored'[n] = stored[n] /\ realm'[n] = realm[n]
          /\ character'[n] = character[n]
      BY <1>3, <2>3 DEF Inv, TypeOK
    <3> QED BY <1>1, <2>2, <2>3, <3>1, OthersRest
  <2>4. ASSUME f \in Names
        PROVE  /\ PlayedProgress(f) # Away /\ PlayedProgress(f)' = PlayedProgress(f)
               /\ SavedProgress(f)' = PlayedProgress(f)
    <3>1. realm[f] = r
      BY <1>1, <2>4 DEF Inv, WritersOwnTheirFiles
    <3>2. PlayedProgress(f) = character[f].progress /\ PlayedProgress(f) # Away
      BY <2>4, <3>1, Playing
    <3>3. PlayedProgress(f)' = PlayedProgress(f)
      BY <1>3 DEF PlayedProgress
    <3>4. IsWritten(f)' /\ stored'[f] = Serialize(f, r)
      BY <1>3, <2>2, <2>4 DEF IsWritten, Inv, TypeOK
    <3>5. Serialize(f, r) \in Saved
      BY <2>4 DEF Serialize, Inv, TypeOK
    <3>6. SavedProgress(f)' = Serialize(f, r).progress
      BY <3>4, <3>5 DEF SavedProgress, ProgressOf, HasData
    <3> QED BY <3>2, <3>3, <3>6 DEF Serialize
  <2> QED BY <1>1, <2>1, <2>3, <2>4, RunStep
<1> QED BY <1>2, <1>3 DEF OpenFile

\* A write that succeeds changes nothing for a player that stays and lets go one
\* that was to leave.
LEMMA WrittenStore ==
  ASSUME Inv, Running, NEW r \in Realms, NEW f \in todo[r], writing[r] = f, NEW data,
         f \in Names => data = stored[f], disk' = [disk EXCEPT ![f] = data],
         damaged' = damaged \ {f}, Done(r, f, data), process' = process
  PROVE  Store!Next
<1>1. Running' /\ damaged \subseteq Names
  BY DEF Running, Inv, TypeOK
<1>2. ASSUME NEW n \in Names, n # f
      PROVE  PlayedProgress(n)' = PlayedProgress(n) /\ SavedProgress(n)' = SavedProgress(n)
  <2>1. disk'[n] = disk[n]
    BY <1>2 DEF Inv, TypeOK
  <2> QED BY <1>2, <2>1, DoneOthers
<1>3. ASSUME f \in Names
      PROVE  /\ SavedProgress(f) = PlayedProgress(f)
             /\ SavedProgress(f)' = SavedProgress(f)
             /\ PlayedProgress(f)' \in {PlayedProgress(f), Away}
  <2>1. IsWritten(f) /\ realm[f] = r
    BY <1>3, WrittenIsIn DEF IsWritten
  <2>2. stored[f] \in Saved /\ stored[f].progress = character[f].progress
    BY <1>3, <2>1 DEF Inv, TypeOK, BufferIsCurrent
  <2>3. SavedProgress(f) = stored[f].progress
    BY <2>1, <2>2 DEF SavedProgress, ProgressOf, HasData
  <2>4. PlayedProgress(f) = character[f].progress
    BY <1>3, <2>1, Playing
  <2>5. disk'[f] = stored[f] /\ stored'[f] \in {stored[f], Empty}
    BY <1>3, ReleaseFacts DEF Done, Inv, TypeOK
  <2>6. ~IsWritten(f)'
    <3> SUFFICES ASSUME NEW s \in Realms, writing'[s] = f PROVE FALSE
      BY DEF IsWritten
    <3>1. writing'[r] = NoFile /\ (s # r => writing'[s] = writing[s])
      BY DEF Done, Inv, TypeOK
    <3>2. s # r /\ writing[s] = f
      BY <1>3, <3>1
    <3> QED BY <1>3, <2>1, <3>2, WrittenIsIn
  <2>7. SavedProgress(f)' = stored[f].progress
    BY <2>2, <2>5, <2>6 DEF SavedProgress, ProgressOf, HasData
  <2>8. \/ realm'[f] = NoRealm
        \/ realm'[f] = realm[f] /\ character'[f] = character[f]
    BY <1>3, ReleaseFacts DEF Done
  <2>9. PlayedProgress(f)' \in {PlayedProgress(f), Away}
    BY <2>8 DEF PlayedProgress
  <2> QED BY <2>2, <2>3, <2>4, <2>7, <2>9
<1>4. \A n \in damaged \ damaged' : SavedProgress(n) = PlayedProgress(n)
  BY <1>1, <1>3
<1> QED BY <1>1, <1>2, <1>3, <1>4, RunStep

\* Closing a file, with each of its outcomes.
LEMMA CloseFileStore == ASSUME Inv, NEW r \in Realms, CloseFile(r) PROVE Store!Next
<1> DEFINE f == writing[r]
           Written == IF f \in Names THEN stored[f] ELSE [tick |-> tick[r]]
<1>1. Running /\ f # NoFile /\ UNCHANGED <<process, tick, restarts>>
  BY DEF CloseFile
<1>2. f \in todo[r] /\ (f \in Names => Written = stored[f])
  BY <1>1 DEF Inv, JobsOK
<1>3. CASE Fault(f) /\ Done(r, f, Empty) /\ UNCHANGED disk
  BY <1>1, <1>2, <1>3, FaultStore
<1>4. CASE Fault(f) /\ Done(r, f, Written) /\ UNCHANGED disk
  BY <1>1, <1>2, <1>4, FaultStore
<1>5. CASE /\ disk' = [disk EXCEPT ![f] = Written]
           /\ damaged' = damaged \ {f}
           /\ Done(r, f, Written)
           /\ UNCHANGED faults
  <2> HIDE DEF Written
  <2> QED BY <1>1, <1>2, <1>5, WrittenStore
<1> QED BY <1>3, <1>4, <1>5 DEF CloseFile

\* A process that ends keeps what was saved; one that exits has let everybody go.
LEMMA EndStore == ASSUME Inv, Exit \/ Crash PROVE Store!Next
<1>1. /\ Running /\ ~Running' /\ process' \in {"exited", "crashed"}
      /\ damaged \ damaged' = {} /\ disk' = disk
  BY DEF Exit, Crash, EndProcess, Running
<1>2. ASSUME NEW n \in Names PROVE PlayedProgress(n)' = Away /\ ~IsWritten(n)'
  BY DEF Exit, Crash, EndProcess, Forget, PlayedProgress, IsWritten
<1>3. ASSUME NEW n \in Names, ~IsWritten(n) PROVE SavedProgress(n)' = SavedProgress(n)
  BY <1>1, <1>2, <1>3 DEF SavedProgress
<1>4. CASE Exit
  <2>1. ASSUME NEW n \in Names PROVE realm[n] = NoRealm
    <3> SUFFICES ASSUME realm[n] \in Realms PROVE FALSE
      BY DEF Inv, TypeOK
    <3>1. job[realm[n]] = "gone" /\ todo[realm[n]] = {}
      BY <1>4 DEF Exit, Inv, JobsOK
    <3> QED BY <3>1 DEF Inv
  <2>2. ASSUME NEW n \in Names
        PROVE  /\ PlayedProgress(n) = Away /\ PlayedProgress(n)' = PlayedProgress(n)
               /\ SavedProgress(n)' = SavedProgress(n)
    BY <1>2, <1>3, <2>1, NotWritten DEF PlayedProgress
  <2>3. process' = "exited"
    BY <1>4 DEF Exit, EndProcess
  <2> QED BY <1>1, <2>2, <2>3 DEF Store!Next, Store!Regained, Store!Exit, Store!Rest
<1>5. CASE Crash
  <2>1. process' = "crashed"
    BY <1>5 DEF Crash, EndProcess
  <2>2. ASSUME NEW n \in Names \ damaged' PROVE ~IsWritten(n)
    BY <1>5, <2>2 DEF Crash, IsWritten
  <2> QED BY <1>1, <1>2, <1>3, <2>1, <2>2 DEF Store!Next, Store!Regained, Store!Crash
<1> QED BY <1>4, <1>5

\* A restart finds what was saved.
LEMMA RestartStore == ASSUME Inv, Restart PROVE Store!Next
<1>1. ~Running /\ Running' /\ process # "up" /\ damaged' = damaged
  BY DEF Restart, Running, history
<1>2. ASSUME NEW n \in Names
      PROVE  PlayedProgress(n)' = PlayedProgress(n) /\ SavedProgress(n)' = SavedProgress(n)
  BY Rests DEF Restart, IsWritten, peers
<1> QED BY <1>1, <1>2 DEF Store!Next, Store!Regained, Store!Restart, Store!Rest

\* Every step is one that CharacterStore allows.
LEMMA NextStore == Inv /\ [Next]_vars => [Store!Next]_(Store!storeVars)
<1> SUFFICES ASSUME Inv, [Next]_vars PROVE Store!Next \/ UNCHANGED Store!storeVars
  OBVIOUS
<1>1. CASE UNCHANGED vars
  BY <1>1 DEF vars, Store!storeVars, Running, SavedProgress, PlayedProgress, IsWritten
<1>2. CASE \E n \in Names : Login(n) \/ ConnectPeer(n) \/ Attack(n)
  BY <1>2, PlayerStore
<1>3. CASE \E n \in Names, d \in Realms : Teleport(n, d)
  BY <1>3, PlayerStore
<1>4. CASE \/ \E n \in Names : BeginTransfer(n) \/ BeginDisconnect(n)
           \/ \E r \in Realms : BeginDestroy(r) \/ Epoch(r)
           \/ RequestStop
  <2>1. Running /\ Running' /\ UNCHANGED <<disk, writing, peers, history>>
    BY <1>4 DEF BeginTransfer, BeginDisconnect, BeginDestroy, Epoch, RequestStop, Begin, Idle,
       Running, threads
  <2> QED BY <2>1, IdleStore
<1>5. CASE \E r \in Realms : CloseFile(r)
  BY <1>5, CloseFileStore
<1>6. CASE \E r \in Realms, f \in Files : OpenFile(r, f)
  BY <1>6, OpenFileStore
<1>7. CASE Exit \/ Crash \/ Restart
  BY <1>7, EndStore, RestartStore
<1> QED BY <1>1, <1>2, <1>3, <1>4, <1>5, <1>6, <1>7 DEF Next

\* Files, buffers and threads together keep what CharacterStore promises players:
\* what was saved comes back, whoever leaves a realm and everybody at a clean exit
\* is saved first, and a crash costs what came after the last save.
THEOREM StorageImplementsStore == Spec => ImplementsStore
<1> QED BY InitStore, NextStore, InductiveInvariant, PTL DEF Spec, Store!Spec, ImplementsStore

===============================================================================
