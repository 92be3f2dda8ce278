----------------------------- MODULE Console_proofs -----------------------------
(***************************************************************************)
(* What Console promises, for every number of threads, settings, files and *)
(* typed lines: accesses to a map exclude each other, what a command has   *)
(* set is not overwritten by a default, an orderly exit leaves nothing     *)
(* running and the file, if it could be written, with every setting, and   *)
(* the next boot reads back those that their text does not garble.         *)
(*                                                                         *)
(* IInv speaks of accesses and commands, Process of the life of the main   *)
(* thread and of the file, BootOK of what is still to be restored.         *)
(***************************************************************************)
EXTENDS Console, FiniteSetTheorems, TLAPS

USE DEF commandVars, storageVars, parserVars, serverVars, historyVars, fileVars

\* A command that sets something is being executed.
Setting == cmd # NoCommand /\ cmd.op = "set"

\* The main thread reads settings for main and for new realms only, when no
\* command can begin.
MainReads ==
  \/ todo # {}
  \/ pc[Main] \in {"reading", "missed"}
  \/ pc[Main] = "writing" /\ ~Setting

NoCommandBegins ==
  \/ cmd # NoCommand /\ cmd.op = "load_map"
  \/ cmd = NoCommand /\ stack = <<>> /\ mainPc \in {"settings", "dead"}

\* Each thread has at most one access, of readers to settings that are no booleans.
Accesses ==
  /\ pc = [t \in Threads |-> pc[t]]
  /\ access = [t \in Threads |-> access[t]]
  /\ config = [k \in Keys |-> config[k]]
  /\ explicit = [k \in Keys |-> explicit[k]]
  /\ todo \subseteq StartKeys \cup RealmKeys
  /\ \A t \in Threads : pc[t] = "reading" => Type[access[t].key] # "bool"

\* Whose value a command has set, nobody is about to overwrite.
Settled(k) ==
  /\ config[k] = explicit[k]
  /\ \A t \in Threads :
       (pc[t] \in {"missed", "writing"} /\ access[t].key = k)
         => t = Main /\ pc[t] = "writing" /\ Setting

NoneOverwritten == \A k \in Keys \ raced : explicit[k] # Absent => Settled(k)

IInv ==
  /\ Accesses
  /\ NoDataRace
  /\ MainReads => NoCommandBegins
  /\ NoneOverwritten

-------------------------------------------------------------------------------
(* Steps that have nothing to do with the storage. *)

LEMMA ThreadsHaveMain == Main \in Threads
  BY DEF Threads

\* Whatever leaves the storage alone, and does not let a command begin while the
\* main thread reads, keeps the invariant.
LEMMA ElsewhereKeeps ==
  ASSUME IInv, UNCHANGED storageVars,
         todo' \subseteq StartKeys \cup RealmKeys,
         MainReads' => NoCommandBegins',
         (pc[Main] = "writing" /\ Setting) => Setting'
  PROVE  IInv'
<1>1. Accesses'
  BY DEF IInv, Accesses
<1>2. NoDataRace'
  BY DEF IInv, NoDataRace
<1>3. NoneOverwritten'
  BY DEF IInv, NoneOverwritten, Settled
<1> QED
  BY <1>1, <1>2, <1>3 DEF IInv


-------------------------------------------------------------------------------
(* Steps of an access. *)

\* An access begins to read a setting that is no boolean.
LEMMA ReadingBegins ==
  ASSUME IInv, NEW t \in Threads, NEW k, Type[k] # "bool", BeginGet(t, k),
         UNCHANGED <<config, explicit, raced, cmd>>
  PROVE  NoDataRace' /\ NoneOverwritten'
         /\ pc' = [u \in Threads |-> pc'[u]]
         /\ access' = [u \in Threads |-> access'[u]]
         /\ \A u \in Threads : pc'[u] = "reading" => Type[access'[u].key] # "bool"
<1>1. /\ pc'[t] = "reading" /\ access'[t].key = k
      /\ \A u \in Threads \ {t} : pc'[u] = pc[u] /\ access'[u] = access[u]
  BY DEF IInv, Accesses, BeginGet
<1>2. \A u \in Threads : ~(pc[u] = "writing" /\ Type[access[u].key] = Type[k])
  BY DEF BeginGet, CanShare, Writing, GetMutex
<1>3. NoDataRace'
  BY <1>1, <1>2 DEF IInv, NoDataRace
<1>4. NoneOverwritten'
  BY <1>1 DEF IInv, NoneOverwritten, Settled, Setting
<1> QED
  BY <1>1, <1>3, <1>4 DEF IInv, Accesses, BeginGet

LEMMA ThreadGetsKeeps ==
  ASSUME IInv, NEW t \in Threads \ {Main}, NEW k \in ReadKeys[t], ThreadGets(t, k)
  PROVE  IInv'
<1>1. Type[k] # "bool"
  BY ReadersAssumption
<1>2. /\ BeginGet(t, k)
      /\ UNCHANGED <<config, explicit, raced, cmd, stack, mainPc, todo>>
  BY DEF ThreadGets
<1>3. pc'[Main] = pc[Main]
  BY <1>2, ThreadsHaveMain DEF BeginGet, IInv, Accesses
<1>4. MainReads' => NoCommandBegins'
  BY <1>2, <1>3 DEF IInv, MainReads, NoCommandBegins, Setting
<1> QED
  BY <1>1, <1>2, <1>4, ReadingBegins DEF IInv, Accesses

LEMMA MainGetsKeeps ==
  ASSUME IInv, NEW k, MainGets(k)
  PROVE  IInv'
<1>1. k \in todo /\ Type[k] # "bool"
  BY ReadersAssumption DEF MainGets, IInv, Accesses
<1>2. /\ BeginGet(Main, k) /\ todo' = todo \ {k}
      /\ UNCHANGED <<config, explicit, raced, cmd, stack, mainPc>>
  BY DEF MainGets
<1>3. NoCommandBegins'
  BY <1>1, <1>2 DEF IInv, MainReads, NoCommandBegins
<1> QED
  BY <1>1, <1>2, <1>3, ReadingBegins, ThreadsHaveMain DEF IInv, Accesses

LEMMA EndGetKeeps ==
  ASSUME IInv, NEW t \in Threads, EndGet(t)
  PROVE  IInv'
<1>1. /\ UNCHANGED <<config, explicit, raced, cmd, stack, mainPc, todo>>
      /\ pc[t] = "reading" /\ pc'[t] \in {"missed", "idle"}
      /\ pc'[t] = "missed" => access' = access /\ config[access[t].key] = Absent
      /\ pc' = [u \in Threads |-> pc'[u]]
      /\ access' = [u \in Threads |-> access'[u]]
      /\ \A u \in Threads \ {t} : pc'[u] = pc[u] /\ access'[u] = access[u]
  BY DEF EndGet, IInv, Accesses
<1>2. Accesses'
  BY <1>1 DEF IInv, Accesses
<1>3. NoDataRace'
  BY <1>1 DEF IInv, NoDataRace
<1>4. MainReads' => NoCommandBegins'
  BY <1>1, ThreadsHaveMain DEF IInv, MainReads, NoCommandBegins, Setting
<1>5. NoneOverwritten'
  BY <1>1 DEF IInv, NoneOverwritten, Settled, Setting
<1> QED
  BY <1>2, <1>3, <1>4, <1>5 DEF IInv

LEMMA BeginSetKeeps ==
  ASSUME IInv, NEW t \in Threads, BeginSet(t)
  PROVE  IInv'
<1>1. /\ UNCHANGED <<config, explicit, raced, access, cmd, stack, mainPc, todo>>
      /\ pc[t] = "missed" /\ pc'[t] = "writing"
      /\ pc' = [u \in Threads |-> pc'[u]]
      /\ \A u \in Threads \ {t} : pc'[u] = pc[u]
  BY DEF BeginSet, IInv, Accesses
<1>2. \A u \in Threads : pc[u] \in {"reading", "writing"}
                           => Type[access[u].key] # Type[access[t].key]
  BY DEF BeginSet, CanLock, Writing, Reading, GetMutex, IInv, Accesses
<1>3. Accesses'
  BY <1>1 DEF IInv, Accesses
<1>4. NoDataRace'
  BY <1>1, <1>2 DEF IInv, NoDataRace
<1>5. MainReads' => NoCommandBegins'
  BY <1>1, ThreadsHaveMain DEF IInv, MainReads, NoCommandBegins, Setting
<1>6. NoneOverwritten'
  BY <1>1 DEF IInv, NoneOverwritten, Settled, Setting
<1> QED
  BY <1>3, <1>4, <1>5, <1>6 DEF IInv

LEMMA SetCommandKeeps ==
  ASSUME IInv, SetCommand
  PROVE  IInv'
<1>1. /\ UNCHANGED <<config, explicit, raced, cmd, stack, mainPc, todo>>
      /\ Setting /\ pc[Main] = "idle" /\ pc'[Main] = "writing"
      /\ access'[Main].key = cmd.key
      /\ pc' = [u \in Threads |-> pc'[u]] /\ access' = [u \in Threads |-> access'[u]]
      /\ \A u \in Threads \ {Main} : pc'[u] = pc[u] /\ access'[u] = access[u]
  BY ThreadsHaveMain DEF SetCommand, Executing, Setting, IInv, Accesses
<1>2. \A u \in Threads : pc[u] \in {"reading", "writing"}
                           => Type[access[u].key] # Type[cmd.key]
  BY DEF SetCommand, CanLock, Writing, Reading, GetMutex, IInv, Accesses
<1>3. Accesses'
  BY <1>1 DEF IInv, Accesses
<1>4. NoDataRace'
  BY <1>1, <1>2 DEF IInv, NoDataRace
<1>5. ~MainReads'
  BY <1>1 DEF IInv, MainReads, NoCommandBegins, Setting
<1>6. NoneOverwritten'
  BY <1>1 DEF IInv, NoneOverwritten, Settled, Setting
<1> QED
  BY <1>3, <1>4, <1>5, <1>6 DEF IInv

\* A default is stored only for a setting that no command has set, or whose
\* command has come in between.
LEMMA EndSetKeeps ==
  ASSUME IInv, NEW t \in Threads, EndSet(t)
  PROVE  IInv'
<1> DEFINE k == access[t].key
           command == t = Main /\ Setting
           meets == \E u \in Threads : pc[u] = "missed" /\ access[u].key = k
<1>1. /\ UNCHANGED <<stack, mainPc, todo>>
      /\ pc[t] = "writing" /\ pc'[t] = "idle"
      /\ config' = [config EXCEPT ![k] = access[t].val]
      /\ explicit' = IF command THEN [explicit EXCEPT ![k] = access[t].val] ELSE explicit
      /\ command => raced' = IF meets THEN raced \cup {k} ELSE raced \ {k}
      /\ ~command => raced' = raced /\ cmd' = cmd
      /\ pc' = [u \in Threads |-> pc'[u]] /\ access' = [u \in Threads |-> access'[u]]
      /\ \A u \in Threads \ {t} : pc'[u] = pc[u] /\ access'[u] = access[u]
  <2>1. CASE command /\ meets
    BY <2>1 DEF EndSet, Setting, IInv, Accesses
  <2>2. CASE command /\ ~meets
    BY <2>2 DEF EndSet, Setting, IInv, Accesses
  <2>3. CASE ~command
    BY <2>3 DEF EndSet, Setting, IInv, Accesses
  <2> QED BY <2>1, <2>2, <2>3
<1>2. \A u \in Threads \ {t} : pc[u] = "writing" => access[u].key # k
  BY <1>1 DEF IInv, NoDataRace
<1> HIDE DEF k, command, meets
<1>3. Accesses'
  <2>1. config' = [j \in Keys |-> config'[j]] /\ explicit' = [j \in Keys |-> explicit'[j]]
    BY <1>1 DEF IInv, Accesses
  <2> QED BY <1>1, <2>1 DEF IInv, Accesses
<1>4. NoDataRace'
  BY <1>1 DEF IInv, NoDataRace
<1>5. MainReads' => NoCommandBegins'
  BY <1>1, ThreadsHaveMain DEF IInv, MainReads, NoCommandBegins, Setting, command
<1>6. ASSUME NEW j \in Keys \ raced', explicit'[j] # Absent
      PROVE  Settled(j)'
  <2>1. CASE command /\ j = k
    <3>1. ~meets
      BY <1>1, <1>6, <2>1
    <3>2. config'[j] = explicit'[j]
      BY <1>1, <2>1 DEF IInv, Accesses
    <3>3. \A u \in Threads : access'[u].key = j => pc'[u] \notin {"missed", "writing"}
      BY <1>1, <1>2, <2>1, <3>1 DEF meets
    <3> QED BY <3>2, <3>3 DEF Settled
  <2>2. CASE command /\ j # k
    <3>1. j \notin raced /\ explicit'[j] = explicit[j] /\ config'[j] = config[j]
      BY <1>1, <1>6, <2>2 DEF IInv, Accesses
    <3>2. Settled(j)
      BY <1>6, <3>1 DEF IInv, NoneOverwritten
    <3> QED BY <1>1, <2>2, <3>1, <3>2 DEF Settled, command
  <2>3. CASE ~command
    <3>1. Settled(j) /\ j \notin raced
      BY <1>1, <1>6, <2>3 DEF IInv, NoneOverwritten
    <3>2. j # k
      BY <1>1, <2>3, <3>1 DEF Settled, k, command
    <3>3. config'[j] = config[j]
      BY <1>1, <3>2 DEF IInv, Accesses
    <3> QED BY <1>1, <2>3, <3>1, <3>3 DEF Settled, Setting
  <2> QED BY <2>1, <2>2, <2>3
<1>7. NoneOverwritten'
  BY <1>6 DEF NoneOverwritten
<1> QED
  BY <1>3, <1>4, <1>5, <1>7 DEF IInv

-------------------------------------------------------------------------------
(* Steps that start and end threads. *)

LEMMA ThreadsChange ==
  ASSUME IInv, UNCHANGED <<config, explicit, raced, access, todo>>,
         pc' = [t \in Threads |-> pc'[t]],
         \A t \in Threads : pc'[t] \in {"off", "starting", "idle", "leaving"} \/ pc'[t] = pc[t],
         MainReads' => NoCommandBegins',
         (pc[Main] = "writing" /\ Setting) => Setting'
  PROVE  IInv'
<1>1. Accesses'
  BY DEF IInv, Accesses
<1>2. NoDataRace'
  BY DEF IInv, NoDataRace
<1>3. NoneOverwritten'
  BY DEF IInv, NoneOverwritten, Settled
<1> QED
  BY <1>1, <1>2, <1>3 DEF IInv

LEMMA InitEstablishes == Init => IInv
<1> SUFFICES ASSUME Init PROVE IInv
  OBVIOUS
<1>1. Accesses
  BY DEF Init, Accesses, Nothing
<1>2. NoDataRace
  BY DEF Init, NoDataRace
<1>3. ~MainReads
  BY ThreadsHaveMain DEF Init, MainReads
<1>4. NoneOverwritten
  BY DEF Init, NoneOverwritten, Nothing
<1> QED
  BY <1>1, <1>2, <1>3, <1>4 DEF IInv

LEMMA RestartEstablishes ==
  ASSUME Restart
  PROVE  IInv'
<1>1. Accesses'
  BY DEF Restart, Accesses, Nothing
<1>2. NoDataRace'
  BY DEF Restart, NoDataRace
<1>3. ~MainReads'
  BY ThreadsHaveMain DEF Restart, MainReads
<1>4. NoneOverwritten'
  BY DEF Restart, NoneOverwritten, Nothing
<1> QED
  BY <1>1, <1>2, <1>3, <1>4 DEF IInv

LEMMA WorkerStepKeeps ==
  ASSUME IInv, NEW t \in Workers, WorkerStep(t)
  PROVE  IInv'
<1>1. /\ UNCHANGED <<config, explicit, raced, access, cmd, stack, mainPc, todo>>
      /\ pc' = [u \in Threads |-> pc'[u]]
      /\ pc[t] \in {"starting", "idle", "leaving"} /\ pc'[t] \in {"idle", "leaving", "off"}
      /\ \A u \in Threads \ {t} : pc'[u] = pc[u]
  BY DEF WorkerStep, StartWorker, StopWorker, ResetRequest, Threads, IInv, Accesses
<1>2. MainReads' => NoCommandBegins'
  BY <1>1, ThreadsHaveMain DEF IInv, MainReads, NoCommandBegins, Setting
<1> QED
  BY <1>1, <1>2, ThreadsChange DEF Setting

LEMMA RunAsyncKeeps ==
  ASSUME IInv, RunAsync
  PROVE  IInv'
<1>1. /\ UNCHANGED <<config, explicit, raced, access, cmd, stack, todo>>
      /\ todo = {} /\ pc[Main] = "idle"
      /\ pc' = [t \in Threads |-> IF t \in Workers THEN "starting" ELSE pc[t]]
  BY DEF RunAsync
<1>2. ~MainReads'
  BY <1>1, ThreadsHaveMain DEF MainReads
<1> QED
  BY <1>1, <1>2, ThreadsChange

\* Destroy, of the destructor or of a quit, and the start of the network's loop.
LEMMA NetworkKeeps ==
  ASSUME IInv, RunNetworkLoopAsync \/ QuitDestroysLoop \/ Destroy
  PROVE  IInv'
<1>1. CASE RunNetworkLoopAsync /\ host
  <2>1. /\ UNCHANGED <<config, explicit, raced, access, cmd, stack, todo>>
        /\ mainPc = "network"
        /\ pc' = [pc EXCEPT ![Network] = "idle"]
    BY <1>1 DEF RunNetworkLoopAsync
  <2>2. MainReads' => NoCommandBegins'
    BY <2>1, ThreadsHaveMain DEF IInv, Accesses, MainReads, NoCommandBegins, Setting
  <2> QED
    BY <2>1, <2>2, ThreadsChange DEF IInv, Accesses, Setting
<1>2. CASE RunNetworkLoopAsync /\ ~host
  <2>1. UNCHANGED <<storageVars, cmd, stack, todo>> /\ mainPc' = "dead"
    BY <1>2 DEF RunNetworkLoopAsync, Dies
  <2>2. MainReads' => NoCommandBegins'
    BY <2>1 DEF IInv, MainReads, NoCommandBegins, Setting
  <2> QED
    BY <2>1, <2>2, ElsewhereKeeps DEF IInv, Accesses, Setting
<1>3. CASE QuitDestroysLoop
  <2>1. /\ UNCHANGED <<config, explicit, raced, access, todo>>
        /\ pc[Main] = "idle" /\ cmd # NoCommand /\ cmd.op = "quit"
        /\ pc' = [pc EXCEPT ![Network] = "off"]
    BY <1>3 DEF QuitDestroysLoop, Executing
  <2>2. ~MainReads'
    BY <2>1, ThreadsHaveMain DEF IInv, Accesses, MainReads, NoCommandBegins
  <2> QED
    BY <2>1, <2>2, ThreadsChange DEF IInv, Accesses
<1>4. CASE Destroy
  <2>1. /\ UNCHANGED <<config, explicit, raced, access, cmd, stack, todo>>
        /\ mainPc = "destructor"
        /\ pc' = [pc EXCEPT ![Network] = "off"]
    BY <1>4 DEF Destroy
  <2>2. MainReads' => NoCommandBegins'
    BY <2>1, ThreadsHaveMain DEF IInv, Accesses, MainReads, NoCommandBegins, Setting
  <2> QED
    BY <2>1, <2>2, ThreadsChange DEF IInv, Accesses, Setting
<1> QED
  BY <1>1, <1>2, <1>3, <1>4

-------------------------------------------------------------------------------
(* The steps of commands and of main. *)

\* A command that ends or goes on, while the main thread has no access.
LEMMA CommandsKeep ==
  ASSUME IInv,
         \/ TooFewArguments \/ SourceCommand \/ TooDeep \/ OtherCommand \/ HostCommand
         \/ QuitCommand \/ QuitDestroysRealms \/ SaveCommand
  PROVE  IInv'
<1>1. cmd # NoCommand /\ pc[Main] = "idle" /\ cmd.op # "load_map"
  BY DEF TooFewArguments, SourceCommand, TooDeep, OtherCommand, HostCommand, QuitCommand,
         QuitDestroysRealms, SaveCommand, Executing, Needed
<1>2. ~MainReads
  BY <1>1 DEF IInv, NoCommandBegins
<1>3. UNCHANGED <<storageVars, todo>>
  BY DEF TooFewArguments, SourceCommand, TooDeep, OtherCommand, HostCommand, QuitCommand,
         QuitDestroysRealms, SaveCommand, Dies, Done, Continue
<1>4. ~MainReads'
  BY <1>1, <1>2, <1>3 DEF MainReads
<1> QED
  BY <1>1, <1>3, <1>4, ElsewhereKeeps DEF IInv, Accesses

LEMMA LinesKeep ==
  ASSUME IInv, NextLine \/ \E c \in ConsoleLines : TypeLine(c)
  PROVE  IInv'
<1>1. /\ cmd = NoCommand /\ UNCHANGED <<storageVars, todo>>
      /\ stack # <<>> \/ mainPc = "console"
  BY DEF NextLine, TypeLine, Start
<1>2. ~MainReads
  BY <1>1 DEF IInv, NoCommandBegins
<1>3. ~MainReads'
  BY <1>1, <1>2 DEF MainReads, Setting
<1> QED
  BY <1>1, <1>3, ElsewhereKeeps DEF IInv, Accesses, Setting

LEMMA LoadMapKeeps ==
  ASSUME IInv, LoadMap \/ AddNewRealm
  PROVE  IInv'
<1>1. /\ cmd # NoCommand /\ cmd.op = "load_map" /\ pc[Main] = "idle"
      /\ UNCHANGED storageVars
  BY DEF LoadMap, AddNewRealm, Executing
<1>2. CASE LoadMap
  <2>1. todo' = RealmKeys /\ cmd' = cmd
    BY <1>2 DEF LoadMap, Continue
  <2> QED
    BY <1>1, <2>1, ElsewhereKeeps DEF NoCommandBegins, Setting
<1>3. CASE AddNewRealm
  <2>1. todo = {} /\ todo' = {}
    BY <1>3 DEF AddNewRealm
  <2>2. ~MainReads'
    BY <1>1, <2>1 DEF MainReads
  <2> QED
    BY <1>1, <2>1, <2>2, ElsewhereKeeps
<1> QED
  BY <1>2, <1>3

\* Steps that leave the commands alone and are not taken while settings are read
\* for main.
LEMMA MainKeeps ==
  ASSUME IInv,
         \/ StartService \/ RequestStop \/ DestroyAllRealmsAndStop \/ SaveOnExit
         \/ DumpType \/ Crash
  PROVE  IInv'
<1>1. UNCHANGED <<storageVars, cmd, todo>>
  BY DEF StartService, RequestStop, DestroyAllRealmsAndStop, SaveOnExit, DumpType, Crash, Dies
<1>2. \/ mainPc' = "dead" /\ stack' = stack
      \/ mainPc # "settings" /\ mainPc # "dead"
      \/ UNCHANGED <<stack, mainPc>>
  BY DEF StartService, RequestStop, DestroyAllRealmsAndStop, SaveOnExit, DumpType, Crash, Dies
<1>3. MainReads' => NoCommandBegins'
  BY <1>1, <1>2 DEF IInv, MainReads, NoCommandBegins, Setting
<1> QED
  BY <1>1, <1>3, ElsewhereKeeps DEF IInv, Accesses, Setting

LEMMA CloseFileKeeps ==
  ASSUME IInv, CloseFile
  PROVE  IInv'
<1>1. UNCHANGED <<storageVars, stack, todo>>
  BY DEF CloseFile
<1>2. CASE mainPc = "dumping"
  <2>1. cmd' = cmd
    BY <1>2 DEF CloseFile
  <2>2. MainReads' => NoCommandBegins'
    BY <1>1, <1>2, <2>1 DEF IInv, MainReads, NoCommandBegins, Setting
  <2> QED
    BY <1>1, <2>1, <2>2, ElsewhereKeeps DEF IInv, Accesses, Setting
<1>3. CASE mainPc # "dumping"
  <2>1. cmd # NoCommand /\ cmd.op = "save" /\ pc[Main] = "idle"
    BY <1>3 DEF CloseFile, Dumping, Executing
  <2>2. ~MainReads'
    BY <1>1, <2>1 DEF IInv, MainReads, NoCommandBegins
  <2> QED
    BY <1>1, <2>1, <2>2, ElsewhereKeeps DEF IInv, Accesses
<1> QED
  BY <1>2, <1>3

LEMMA ConfigLoadedKeeps ==
  ASSUME IInv, ConfigLoaded
  PROVE  IInv'
<1>1. /\ UNCHANGED <<storageVars, cmd, stack>> /\ todo' = StartKeys
      /\ mainPc' = "settings" /\ cmd = NoCommand /\ stack = <<>> /\ pc[Main] = "idle"
  BY DEF ConfigLoaded, Between
<1> QED
  BY <1>1, ElsewhereKeeps DEF NoCommandBegins

LEMMA InvariantKept == IInv /\ [Next]_vars => IInv'
<1> SUFFICES ASSUME IInv, [Next]_vars PROVE IInv'
  OBVIOUS
<1>1. CASE MainStep
  BY <1>1, ThreadsHaveMain, MainGetsKeeps, EndGetKeeps, BeginSetKeeps, EndSetKeeps, LinesKeep,
     CommandsKeep, SetCommandKeeps, LoadMapKeeps, NetworkKeeps, MainKeeps, CloseFileKeeps,
     ConfigLoadedKeeps, RunAsyncKeeps DEF MainStep
<1>2. ASSUME NEW t \in Threads \ {Main},
             ThreadStep(t) \/ \E k \in ReadKeys[t] : ThreadGets(t, k)
      PROVE  IInv'
  BY <1>2, EndGetKeeps, BeginSetKeeps, EndSetKeeps, WorkerStepKeeps, ThreadGetsKeeps
     DEF ThreadStep
<1>3. CASE (\E c \in ConsoleLines : TypeLine(c)) \/ Crash \/ Restart
  BY <1>3, LinesKeep, MainKeeps, RestartEstablishes
<1>4. CASE UNCHANGED vars
  <2>1. MainReads' => NoCommandBegins'
    BY <1>4 DEF vars, IInv, MainReads, NoCommandBegins, Setting
  <2> QED
    BY <1>4, <2>1, ElsewhereKeeps DEF vars, IInv, Accesses, Setting
<1> QED
  BY <1>1, <1>2, <1>3, <1>4 DEF Next

-------------------------------------------------------------------------------
(* Files as sequences of lines, and the nested files of the parser. *)

IsSeq(s) == s \in Seq({s[i] : i \in DOMAIN s})

LEMMA SeqIsSeq ==
  ASSUME NEW S, NEW s \in Seq(S)
  PROVE  IsSeq(s)
<1> DEFINE R == {s[i] : i \in DOMAIN s}
<1>1. Len(s) \in Nat /\ DOMAIN s = 1..Len(s) /\ s = [i \in 1..Len(s) |-> s[i]]
  OBVIOUS
<1>2. s \in [1..Len(s) -> R]
  BY <1>1
<1>3. s \in Seq(R)
  BY <1>1, <1>2
<1> QED
  BY <1>3 DEF IsSeq

LEMMA Popped ==
  ASSUME NEW s, IsSeq(s), s # <<>>
  PROVE  /\ IsSeq(Tail(s))
         /\ Len(s) \in Nat \ {0} /\ Len(Tail(s)) = Len(s) - 1
         /\ DOMAIN s \subseteq Nat
         /\ 1 \in DOMAIN s /\ Head(s) = s[1]
         /\ \A i \in DOMAIN Tail(s) : i + 1 \in DOMAIN s /\ Tail(s)[i] = s[i + 1]
         /\ \A i \in DOMAIN s : i = 1 \/ (i - 1 \in DOMAIN Tail(s) /\ Tail(s)[i - 1] = s[i])
<1> DEFINE R == {s[i] : i \in DOMAIN s}
<1>1. s \in Seq(R)
  BY DEF IsSeq
<1> HIDE DEF R
<1>2. Tail(s) \in Seq(R) /\ Len(Tail(s)) = Len(s) - 1 /\ Len(s) \in Nat \ {0}
  BY <1>1
<1>3. IsSeq(Tail(s))
  BY <1>2, SeqIsSeq
<1> QED
  BY <1>1, <1>2, <1>3

LEMMA Pushed ==
  ASSUME NEW x, NEW s, IsSeq(s)
  PROVE  LET t == <<x>> \o s
         IN  /\ IsSeq(t) /\ t # <<>>
             /\ Len(s) \in Nat /\ Len(t) = Len(s) + 1
             /\ 1 \in DOMAIN t /\ t[1] = x
             /\ \A i \in DOMAIN t : i = 1 \/ (i - 1 \in DOMAIN s /\ t[i] = s[i - 1])
             /\ \A i \in DOMAIN s : i + 1 \in DOMAIN t /\ t[i + 1] = s[i]
<1> DEFINE R == {s[i] : i \in DOMAIN s} \cup {x}
           t == <<x>> \o s
<1>1. s \in Seq(R) /\ <<x>> \in Seq(R)
  <2>1. s \in Seq({s[i] : i \in DOMAIN s})
    BY DEF IsSeq
  <2> QED
    BY <2>1
<1> HIDE DEF R
<1>2. t \in Seq(R)
  BY <1>1
<1>3. IsSeq(t)
  BY <1>2, SeqIsSeq
<1>4. /\ Len(s) \in Nat /\ Len(t) = Len(s) + 1
      /\ \A i \in 1..Len(t) : t[i] = IF i = 1 THEN x ELSE s[i - 1]
  BY <1>1
<1> QED
  BY <1>1, <1>2, <1>3, <1>4

\* SetToSeq goes through a finite set.
LEMMA SetToSeqIsOnto ==
  ASSUME NEW S, IsFiniteSet(S)
  PROVE  /\ Cardinality(S) \in Nat
         /\ SetToSeq(S) \in [1..Cardinality(S) -> S]
         /\ \A x \in S : \E i \in 1..Cardinality(S) : SetToSeq(S)[i] = x
<1> DEFINE n == Cardinality(S)
<1>1. n \in Nat /\ ExistsBijection(1..n, S)
  BY FS_CardinalityType
<1>2. PICK g : g \in Bijection(1..n, S)
  BY <1>1 DEF ExistsBijection
<1>3. g \in [1..n -> S] /\ IsInjective(g)
  BY <1>2 DEF Bijection, Injection
<1>4. SetToSeq(S) \in [1..n -> S] /\ IsInjective(SetToSeq(S))
  BY <1>3 DEF SetToSeq
<1>5. SetToSeq(S) \in Injection(1..n, S)
  BY <1>4 DEF Injection
<1>6. IsFiniteSet(1..n) /\ Cardinality(1..n) = n
  BY <1>1, FS_Interval
<1>7. SetToSeq(S) \in Surjection(1..n, S)
  BY <1>5, <1>6, FS_Injection
<1> QED
  BY <1>1, <1>4, <1>7 DEF Surjection

\* Lines of the stored file.
PendingLine(k) == [op |-> "set", key |-> k, val |-> stored[k], args |-> 6]

LEMMA StoredLines ==
  /\ IsSeq(Lines(StoreFile))
  /\ \A i \in DOMAIN Lines(StoreFile) :
       \E k \in Keys : stored[k] # Absent /\ Lines(StoreFile)[i] = PendingLine(k)
  /\ \A k \in Keys : stored[k] # Absent =>
       \E i \in DOMAIN Lines(StoreFile) : Lines(StoreFile)[i] = PendingLine(k)
<1> DEFINE saved == {k \in Keys : stored[k] # Absent}
           n == Cardinality(saved)
           q == SetToSeq(saved)
<1>1. IsFiniteSet(saved)
  BY FS_Subset, BoundsAssumption
<1>2. n \in Nat /\ q \in [1..n -> saved] /\ \A k \in saved : \E i \in 1..n : q[i] = k
  BY <1>1, SetToSeqIsOnto
<1>3. Lines(StoreFile) = [i \in 1..n |-> PendingLine(q[i])]
  BY DEF Lines, PendingLine
<1> HIDE DEF n, q
<1>4. DOMAIN Lines(StoreFile) = 1..n /\ \A i \in 1..n : Lines(StoreFile)[i] = PendingLine(q[i])
  BY <1>3
<1>5. Lines(StoreFile) \in Seq({PendingLine(q[i]) : i \in 1..n})
  BY <1>2, <1>3
<1>6. IsSeq(Lines(StoreFile))
  BY <1>5, SeqIsSeq
<1> QED
  BY <1>2, <1>4, <1>6

LEMMA FilesHaveLines ==
  ASSUME NEW f \in Scripts \cup {StoreFile}
  PROVE  IsSeq(Lines(f)) /\ \A i \in DOMAIN Lines(f) : IsLine(Lines(f)[i])
<1>1. CASE f = StoreFile
  <2>1. \A k \in Keys : IsLine(PendingLine(k))
    BY DEF IsLine, PendingLine
  <2> QED
    BY <1>1, <2>1, StoredLines
<1>2. CASE f # StoreFile
  <2>1. Lines(f) = Script[f] /\ f \in Scripts
    BY <1>2 DEF Lines
  <2> QED
    BY <2>1, LinesAssumption DEF IsSeq
<1> QED
  BY <1>1, <1>2

-------------------------------------------------------------------------------
(* Shapes: the accesses of the threads, and what the parser executes. *)

StorageTypes ==
  /\ raced \subseteq Keys
  /\ pc \in [Threads -> PCs]
  /\ \A t \in Threads : access[t].key \in Keys

LinesOK ==
  /\ cmd # NoCommand => IsLine(cmd)
  /\ IsSeq(stack)
  /\ \A i \in DOMAIN stack : IsSeq(stack[i])
  /\ \A i \in DOMAIN stack : \A j \in DOMAIN stack[i] : IsLine(stack[i][j])
  /\ Len(stack) <= MaxDepth

LEMMA StorageTypesKept ==
  ASSUME IInv, StorageTypes, LinesOK, [Next]_vars
  PROVE  StorageTypes'
<1> USE DEF StorageTypes, PCs
<1>1. ASSUME NEW t \in Threads, NEW k \in Keys, BeginGet(t, k), raced' = raced
      PROVE  StorageTypes'
  BY <1>1 DEF BeginGet, IInv, Accesses
<1>2. ASSUME NEW t \in Threads, EndGet(t) \/ BeginSet(t) \/ WorkerStep(t)
      PROVE  StorageTypes'
  BY <1>2, ConsoleAssumption DEF EndGet, BeginSet, WorkerStep, StartWorker, StopWorker, ResetRequest, IInv, Accesses, NoAccess
<1>3. ASSUME NEW t \in Threads, EndSet(t)
      PROVE  StorageTypes'
  <2>1. access[t].key \in Keys /\ StoreKey \in Keys
    BY ConsoleAssumption
  <2>2. raced' \subseteq Keys
    BY <1>3, <2>1 DEF EndSet
  <2>3. pc' = [pc EXCEPT ![t] = "idle"] /\ access' = [access EXCEPT ![t] = NoAccess]
    BY <1>3 DEF EndSet
  <2> QED
    BY <2>1, <2>2, <2>3 DEF NoAccess, IInv, Accesses
<1>4. CASE SetCommand
  <2>1. cmd.key \in Keys
    BY <1>4 DEF SetCommand, Executing, LinesOK, IsLine
  <2> QED
    BY <1>4, <2>1, ThreadsHaveMain DEF SetCommand, IInv, Accesses
<1>5. CASE QuitDestroysLoop \/ RunAsync \/ RunNetworkLoopAsync \/ Destroy
  BY <1>5 DEF QuitDestroysLoop, RunAsync, RunNetworkLoopAsync, Destroy, Dies, Threads
<1>6. CASE Restart
  BY <1>6, ConsoleAssumption DEF Restart, NoAccess
<1>7. CASE UNCHANGED storageVars
  BY <1>7
<1>8. ASSUME NEW k \in Keys, MainGets(k)
      PROVE  StorageTypes'
  BY <1>8, <1>1, ThreadsHaveMain DEF MainGets
<1>9. ASSUME NEW t \in Threads \ {Main}, NEW k \in ReadKeys[t], ThreadGets(t, k)
      PROVE  StorageTypes'
  BY <1>9, <1>1, BoundsAssumption DEF ThreadGets
<1>10. CASE MainStep
  <2>1. CASE \/ NextLine \/ TooFewArguments \/ SourceCommand \/ TooDeep \/ OtherCommand
             \/ HostCommand \/ LoadMap \/ AddNewRealm \/ QuitCommand \/ QuitDestroysRealms
             \/ SaveCommand \/ DumpType \/ CloseFile \/ StartService \/ ConfigLoaded
             \/ RequestStop \/ DestroyAllRealmsAndStop \/ SaveOnExit
    BY <2>1, <1>7 DEF NextLine, TooFewArguments, SourceCommand, TooDeep, OtherCommand,
       HostCommand, LoadMap, AddNewRealm, QuitCommand, QuitDestroysRealms, SaveCommand, DumpType,
       CloseFile, StartService, ConfigLoaded, RequestStop, DestroyAllRealmsAndStop, SaveOnExit, Dies
  <2> QED
    BY <1>10, <2>1, <1>2, <1>3, <1>4, <1>5, <1>8, ThreadsHaveMain DEF MainStep
<1>11. CASE UNCHANGED vars \/ Crash \/ \E c \in ConsoleLines : TypeLine(c)
  BY <1>11, <1>7 DEF vars, Crash, Dies, TypeLine
<1> QED
  BY <1>2, <1>3, <1>6, <1>9, <1>10, <1>11 DEF Next, ThreadStep

LEMMA LinesKept ==
  ASSUME IInv, StorageTypes, LinesOK, [Next]_vars
  PROVE  LinesOK'
<1> USE DEF LinesOK
<1>1. CASE UNCHANGED <<cmd, stack>>
  BY <1>1 DEF IsLine
<1>2. ASSUME stack' = stack, cmd' = NoCommand \/ IsLine(cmd')
      PROVE  LinesOK'
  BY <1>2 DEF IsLine
<1>3. CASE NextLine
  <2>1. /\ IsSeq(Tail(stack)) /\ Len(stack) \in Nat \ {0} /\ Len(Tail(stack)) = Len(stack) - 1
        /\ 1 \in DOMAIN stack /\ Head(stack) = stack[1]
        /\ \A i \in DOMAIN Tail(stack) : i + 1 \in DOMAIN stack /\ Tail(stack)[i] = stack[i + 1]
    BY <1>3, Popped DEF NextLine
  <2>2. MaxDepth \in Nat
    BY BoundsAssumption
  <2>3. CASE Head(stack) = <<>>
    <3>1. stack' = Tail(stack) /\ cmd' = cmd
      BY <1>3, <2>3 DEF NextLine
    <3>2. Len(stack') <= MaxDepth
      BY <2>1, <2>2, <3>1
    <3>3. \A i \in DOMAIN stack' : /\ IsSeq(stack'[i])
                                   /\ \A j \in DOMAIN stack'[i] : IsLine(stack'[i][j])
      BY <2>1, <3>1
    <3> QED
      BY <2>1, <3>1, <3>2, <3>3 DEF IsLine
  <2>4. CASE Head(stack) # <<>>
    <3> DEFINE f == Head(stack)
    <3>1. /\ IsSeq(Tail(f)) /\ 1 \in DOMAIN f /\ Head(f) = f[1]
          /\ \A i \in DOMAIN Tail(f) : i + 1 \in DOMAIN f /\ Tail(f)[i] = f[i + 1]
      BY <2>1, <2>4, Popped
    <3>2. cmd' = Head(f) /\ stack' = <<Tail(f)>> \o Tail(stack)
      BY <1>3, <2>4 DEF NextLine, Start
    <3>3. /\ IsSeq(stack') /\ Len(stack') = Len(stack)
          /\ \A i \in DOMAIN stack' :
               \/ stack'[i] = Tail(f)
               \/ i - 1 \in DOMAIN Tail(stack) /\ stack'[i] = Tail(stack)[i - 1]
      BY <2>1, <3>2, Pushed
    <3>4. IsLine(cmd')
      BY <2>1, <3>1, <3>2 DEF IsLine
    <3>5. \A i \in DOMAIN Tail(f) : IsLine(Tail(f)[i])
      BY <2>1, <3>1
    <3>6. ASSUME NEW i \in DOMAIN stack'
          PROVE  IsSeq(stack'[i]) /\ \A j \in DOMAIN stack'[i] : IsLine(stack'[i][j])
      <4>1. CASE stack'[i] = Tail(f)
        BY <3>1, <3>5, <4>1
      <4>2. CASE i - 1 \in DOMAIN Tail(stack) /\ stack'[i] = Tail(stack)[i - 1]
        BY <2>1, <4>2
      <4> QED
        BY <3>3, <4>1, <4>2
    <3> QED
      BY <3>3, <3>4, <3>6 DEF IsLine
  <2> QED
    BY <2>3, <2>4
<1>4. ASSUME NEW f \in Scripts \cup {StoreFile}, stack' = <<Lines(f)>> \o stack,
             Len(stack) < MaxDepth, cmd' = NoCommand
      PROVE  LinesOK'
  <2>1. /\ IsSeq(stack') /\ Len(stack) \in Nat /\ Len(stack') = Len(stack) + 1
        /\ \A i \in DOMAIN stack' :
             \/ stack'[i] = Lines(f)
             \/ i - 1 \in DOMAIN stack /\ stack'[i] = stack[i - 1]
    BY <1>4, Pushed
  <2>2. MaxDepth \in Nat
    BY BoundsAssumption
  <2>3. IsSeq(Lines(f)) /\ \A i \in DOMAIN Lines(f) : IsLine(Lines(f)[i])
    BY FilesHaveLines
  <2>4. ASSUME NEW i \in DOMAIN stack'
        PROVE  IsSeq(stack'[i]) /\ \A j \in DOMAIN stack'[i] : IsLine(stack'[i][j])
    <3>1. CASE stack'[i] = Lines(f)
      BY <2>3, <3>1
    <3>2. CASE i - 1 \in DOMAIN stack /\ stack'[i] = stack[i - 1]
      BY <3>2
    <3> QED
      BY <2>1, <3>1, <3>2
  <2> QED
    BY <1>4, <2>1, <2>2, <2>4 DEF IsLine
<1>5. CASE SourceCommand
  <2>1. cmd.op = "source" /\ Needed(cmd) = 2
    BY <1>5 DEF SourceCommand, Executing, Needed
  <2>2. cmd.file \in Scripts \cup {StoreFile}
    BY <1>5, <2>1 DEF SourceCommand, Executing, Complete, IsLine
  <2> QED
    BY <1>4, <1>5, <2>2 DEF SourceCommand, Done
<1>6. CASE StartService
  <2>1. CASE UNCHANGED stack
    BY <1>1, <1>6, <2>1 DEF StartService
  <2>2. ASSUME NEW f \in BootFiles, stack' = <<Lines(f)>>
        PROVE  LinesOK'
    <3>1. IsSeq(Lines(f)) /\ \A i \in DOMAIN Lines(f) : IsLine(Lines(f)[i])
      BY FilesHaveLines, ConsoleAssumption
    <3>2. stack' \in Seq({Lines(f)}) /\ Len(stack') = 1
      BY <2>2
    <3>3. IsSeq(stack')
      BY <3>2, SeqIsSeq
    <3>4. Len(stack') <= MaxDepth
      BY <3>2, BoundsAssumption
    <3>5. cmd' = cmd
      BY <1>6 DEF StartService
    <3> QED
      BY <2>2, <3>1, <3>3, <3>4, <3>5 DEF IsLine
  <2> QED
    BY <1>6, <2>1, <2>2 DEF StartService
<1>7. CASE Restart
  <2>1. stack' = <<>> /\ cmd' = NoCommand
    BY <1>7 DEF Restart
  <2>2. IsSeq(<<>>)
    BY DEF IsSeq
  <2>3. Len(<<>>) = 0 /\ 0 <= MaxDepth
    BY BoundsAssumption
  <2> QED
    BY <2>1, <2>2, <2>3 DEF IsLine
<1>8. CASE \E c \in ConsoleLines : TypeLine(c)
  BY <1>2, <1>8, LinesAssumption DEF TypeLine, Start
<1>9. ASSUME NEW t \in Threads, EndGet(t) \/ BeginSet(t) \/ EndSet(t) \/ WorkerStep(t)
      PROVE  LinesOK'
  BY <1>1, <1>2, <1>9 DEF EndGet, BeginSet, EndSet, WorkerStep, StartWorker, StopWorker, ResetRequest, Done
<1>10. ASSUME NEW t \in Threads, NEW k, ThreadGets(t, k) \/ MainGets(k)
      PROVE  LinesOK'
  BY <1>1, <1>10 DEF ThreadGets, MainGets
<1>11. CASE \/ TooFewArguments \/ TooDeep \/ OtherCommand \/ HostCommand \/ LoadMap
            \/ AddNewRealm \/ QuitCommand \/ QuitDestroysRealms \/ QuitDestroysLoop \/ SaveCommand
  BY <1>1, <1>2, <1>11 DEF TooFewArguments, TooDeep, OtherCommand, HostCommand, LoadMap,
     AddNewRealm, QuitCommand, QuitDestroysRealms, QuitDestroysLoop, SaveCommand, Dies, Done, Continue
<1>12. CASE \/ SetCommand \/ DumpType \/ ConfigLoaded \/ RunAsync \/ RunNetworkLoopAsync
            \/ RequestStop \/ DestroyAllRealmsAndStop \/ Destroy \/ SaveOnExit \/ Crash
            \/ UNCHANGED vars
  BY <1>1, <1>12 DEF SetCommand, DumpType, ConfigLoaded, RunAsync, RunNetworkLoopAsync,
     RequestStop, DestroyAllRealmsAndStop, Destroy, SaveOnExit, Crash, Dies, vars
<1>13. CASE CloseFile
  BY <1>1, <1>2, <1>13 DEF CloseFile, Done
<1>14. CASE MainStep
  BY <1>3, <1>5, <1>6, <1>9, <1>10, <1>11, <1>12, <1>13, <1>14, ThreadsHaveMain DEF MainStep
<1> QED
  BY <1>7, <1>8, <1>9, <1>10, <1>12, <1>14 DEF Next, ThreadStep

-------------------------------------------------------------------------------
(* The life of the process: where commands are executed, and until when there  *)
(* are a host, threads and realms.                                             *)

\* Nothing of the server is left.
Gone == {"saving", "dumping", "exited", "unsaved"}

\* The main thread executes no command any more.
Ending == {"ending", "destructor"} \cup Gone

ControlTypes ==
  /\ mainPc \in MainStates
  /\ step \in {"first", "add", "join", "loop", "dump"}
  /\ host \in BOOLEAN /\ stopping \in BOOLEAN /\ requestStop \in BOOLEAN
  /\ scriptedQuit \in BOOLEAN /\ sourced \in BOOLEAN
  /\ fault \in {"none", "arguments", "network", "stack", "killed"}
  /\ (mainPc = "dead") = (fault # "none")
  /\ typed \in 0..MaxLines /\ boots \in 1..MaxBoots

\* While the lines of files last, the stack is not empty.
WhereCommandsRun ==
  /\ (cmd # NoCommand \/ stack # <<>>) => mainPc \in {"config", "console", "dead"}
  /\ (cmd # NoCommand /\ stack = <<>>) => mainPc \in {"console", "dead"}

\* The host goes with a quit of a file, or with one that is the last command.
HostGone ==
  /\ (cmd # NoCommand /\ cmd.op = "quit" /\ step # "first")
       => requestStop /\ (scriptedQuit \/ stack = <<>>)
  /\ \/ host \/ scriptedQuit
     \/ mainPc \in {"boot", "dead"} \cup Ending
     \/ mainPc = "console" /\ requestStop /\ stack = <<>> /\ cmd = NoCommand
  /\ NetworkOutlivesUse

NothingRuns ==
  mainPc \in Gone =>
    /\ realms = {} /\ ~host
    /\ \A t \in Workers \cup {Network} : pc[t] = "off"

Control == ControlTypes /\ WhereCommandsRun /\ HostGone /\ NothingRuns

LEMMA AccessesLeaveControl ==
  ASSUME IInv, StorageTypes, Control, NEW t \in Threads,
         \/ EndGet(t) \/ BeginSet(t) \/ EndSet(t) \/ WorkerStep(t) \/ SetCommand
         \/ \E k \in Keys : MainGets(k) \/ ThreadGets(t, k)
  PROVE  Control'
<1>1. /\ UNCHANGED <<mainPc, host, realms, requestStop, scriptedQuit, sourced, fault,
                     typed, boots, stack>>
      /\ stopping' \in {stopping, FALSE}
      /\ UNCHANGED <<cmd, step>> \/ (cmd' = NoCommand /\ step' = "first" /\ cmd # NoCommand /\ cmd.op = "set")
  BY DEF EndGet, BeginSet, EndSet, WorkerStep, StartWorker, StopWorker, ResetRequest, SetCommand, MainGets, ThreadGets, Done
<1>2. ControlTypes'
  BY <1>1 DEF Control, ControlTypes
<1>3. WhereCommandsRun'
  BY <1>1 DEF Control, WhereCommandsRun
<1>4. HostGone'
  BY <1>1 DEF Control, HostGone, NetworkOutlivesUse
<1>5. NothingRuns'
  <2>1. CASE SetCommand
    BY <2>1, <1>1 DEF SetCommand, Executing, Control, WhereCommandsRun, NothingRuns, Gone
  <2>2. CASE ~SetCommand
    <3>1. \A u \in Threads : pc[u] = "off" => pc'[u] = "off"
      BY <2>2, ThreadsHaveMain DEF EndGet, BeginSet, EndSet, WorkerStep, StartWorker, StopWorker, ResetRequest, MainGets, ThreadGets, BeginGet,
         StorageTypes
    <3> QED
      BY <1>1, <3>1 DEF Control, NothingRuns, Threads
  <2> QED
    BY <2>1, <2>2
<1> QED
  BY <1>2, <1>3, <1>4, <1>5 DEF Control

LEMMA CommandsKeepControl ==
  ASSUME Control, StorageTypes, LinesOK,
         \/ NextLine \/ TooFewArguments \/ SourceCommand \/ TooDeep \/ OtherCommand
         \/ HostCommand \/ LoadMap \/ AddNewRealm \/ QuitCommand \/ QuitDestroysRealms
         \/ QuitDestroysLoop \/ SaveCommand \/ \E c \in ConsoleLines : TypeLine(c)
  PROVE  Control'
<1> USE DEF ControlTypes, MainStates, Alive
<1>1. mainPc \notin Gone /\ mainPc # "dead"
  BY DEF NextLine, TooFewArguments, SourceCommand, TooDeep, OtherCommand, HostCommand, LoadMap,
     AddNewRealm, QuitCommand, QuitDestroysRealms, QuitDestroysLoop, SaveCommand, TypeLine,
     Executing, Control, WhereCommandsRun, Gone
<1>2. mainPc' \in {mainPc, "dead"}
  BY DEF NextLine, TooFewArguments, SourceCommand, TooDeep, OtherCommand, HostCommand, LoadMap,
     AddNewRealm, QuitCommand, QuitDestroysRealms, QuitDestroysLoop, SaveCommand, TypeLine, Dies
<1>3. NothingRuns'
  BY <1>1, <1>2 DEF NothingRuns, Gone
<1>4. CASE NextLine
  <2>1. mainPc \in {"config", "console"} /\ cmd = NoCommand /\ stack # <<>>
    BY <1>4 DEF NextLine, Control, WhereCommandsRun
  <2>2. UNCHANGED <<mainPc, host, requestStop, scriptedQuit, stopping, sourced, fault, typed, boots>>
    BY <1>4 DEF NextLine
  <2>3. /\ cmd' = NoCommand \/ stack' # <<>>
        /\ UNCHANGED step \/ step' = "first"
        /\ cmd' = NoCommand \/ step' = "first"
    <3>1. CASE Head(stack) = <<>>
      BY <1>4, <2>1, <3>1 DEF NextLine
    <3>2. CASE Head(stack) # <<>>
      <4>1. IsSeq(Tail(stack))
        BY <2>1, Popped DEF LinesOK
      <4>2. stack' = <<Tail(Head(stack))>> \o Tail(stack) /\ step' = "first"
        BY <1>4, <3>2 DEF NextLine, Start
      <4> QED
        BY <4>1, <4>2, Pushed
    <3> QED
      BY <3>1, <3>2
  <2>4. ControlTypes'
    BY <2>2, <2>3 DEF Control
  <2>5. WhereCommandsRun'
    BY <2>1, <2>2, <2>3 DEF WhereCommandsRun
  <2>6. HostGone'
    BY <2>1, <2>2, <2>3 DEF Control, HostGone, NetworkOutlivesUse, Ending, Gone
  <2> QED
    BY <1>3, <2>4, <2>5, <2>6 DEF Control
<1>5. CASE \E c \in ConsoleLines : TypeLine(c)
  <2>1. /\ mainPc = "console" /\ ~requestStop /\ stack = <<>>
        /\ UNCHANGED <<mainPc, host, requestStop, scriptedQuit, stopping, sourced, fault, boots, stack>>
        /\ step' = "first" /\ typed' = typed + 1 /\ typed < MaxLines
    BY <1>5 DEF TypeLine, Start
  <2>2. ControlTypes'
    BY <2>1, BoundsAssumption DEF Control
  <2> QED
    BY <1>3, <2>1, <2>2 DEF Control, WhereCommandsRun, HostGone, NetworkOutlivesUse, Ending, Gone
<1>6. CASE TooDeep \/ (TooFewArguments /\ ~(cmd.args < Checked(cmd))) \/ (HostCommand /\ ~host)
  <2>1. /\ mainPc' = "dead" /\ fault' \in {"stack", "arguments", "network"}
        /\ UNCHANGED <<parserVars, serverVars, historyVars, fileVars, typed>>
        /\ fault' = "network" => HostCommand /\ ~host
    BY <1>6 DEF TooDeep, TooFewArguments, HostCommand, Dies
  <2>2. ControlTypes'
    BY <2>1 DEF Control
  <2>3. WhereCommandsRun'
    BY <2>1 DEF WhereCommandsRun
  <2>4. fault' = "network" => scriptedQuit
    BY <2>1, <1>1 DEF HostCommand, Executing, Control, HostGone, WhereCommandsRun, Ending, Gone
  <2> QED
    BY <1>3, <2>1, <2>2, <2>3, <2>4 DEF Control, HostGone, NetworkOutlivesUse
<1>7. CASE \/ TooFewArguments /\ cmd.args < Checked(cmd)
           \/ HostCommand /\ host
           \/ OtherCommand \/ LoadMap \/ AddNewRealm \/ SaveCommand
  <2>1. /\ UNCHANGED <<mainPc, host, stopping, requestStop, historyVars, fault, typed, boots, stack>>
        /\ \/ cmd' = NoCommand /\ step' = "first"
           \/ cmd' = cmd /\ cmd.op # "quit" /\ step' \in {"add", "dump"}
        /\ cmd # NoCommand
    BY <1>7 DEF TooFewArguments, HostCommand, OtherCommand, LoadMap, AddNewRealm, SaveCommand,
       Executing, Done, Continue
  <2> QED
    BY <1>3, <2>1 DEF Control, WhereCommandsRun, HostGone, NetworkOutlivesUse
<1>8. CASE SourceCommand
  <2>1. /\ UNCHANGED <<mainPc, host, stopping, requestStop, scriptedQuit, fault, typed, boots>>
        /\ cmd' = NoCommand /\ step' = "first" /\ sourced' \in BOOLEAN
        /\ cmd # NoCommand /\ stack' = <<Lines(cmd.file)>> \o stack
    BY <1>8 DEF SourceCommand, Executing, Done
  <2> QED
    BY <1>3, <2>1, <1>1 DEF Control, WhereCommandsRun, HostGone, NetworkOutlivesUse, Ending, Gone
<1>9. CASE QuitCommand \/ QuitDestroysRealms \/ QuitDestroysLoop
  <2>1. /\ UNCHANGED <<mainPc, sourced, fault, typed, boots, stack>>
        /\ cmd # NoCommand /\ cmd.op = "quit"
        /\ host' \in BOOLEAN /\ stopping' \in BOOLEAN /\ requestStop' \in BOOLEAN /\ scriptedQuit' \in BOOLEAN
        /\ requestStop' /\ (scriptedQuit' \/ stack = <<>>)
        /\ scriptedQuit => scriptedQuit'
        /\ \/ cmd' = cmd /\ step' \in {"join", "loop"} /\ host' = host
           \/ cmd' = NoCommand /\ step' = "first"
    BY <1>9 DEF QuitCommand, QuitDestroysRealms, QuitDestroysLoop, Executing, Done, Continue,
       Control, HostGone
  <2> QED
    BY <1>1, <1>3, <2>1 DEF Control, WhereCommandsRun, HostGone, NetworkOutlivesUse
<1> QED
  BY <1>4, <1>5, <1>6, <1>7, <1>8, <1>9

LEMMA MainKeepsControl ==
  ASSUME IInv, StorageTypes, LinesOK, Control,
         \/ StartService \/ ConfigLoaded \/ RunAsync \/ RunNetworkLoopAsync \/ RequestStop
         \/ DestroyAllRealmsAndStop \/ Destroy \/ SaveOnExit \/ DumpType \/ CloseFile \/ Crash
         \/ Restart \/ UNCHANGED vars
  PROVE  Control'
<1> USE DEF ControlTypes, MainStates, Control, WhereCommandsRun, HostGone, NetworkOutlivesUse,
            NothingRuns, Ending, Gone
<1>1. CASE StartService
  BY <1>1 DEF StartService
<1>2. CASE ConfigLoaded \/ RequestStop
  BY <1>2 DEF ConfigLoaded, RequestStop, Between
<1>3. CASE RunAsync
  BY <1>3 DEF RunAsync
<1>4. CASE RunNetworkLoopAsync
  BY <1>4 DEF RunNetworkLoopAsync, Dies
<1>5. CASE DestroyAllRealmsAndStop
  BY <1>5 DEF DestroyAllRealmsAndStop
<1>6. CASE Destroy
  <2>1. \A t \in Workers \cup {Network} : pc'[t] = "off"
    BY <1>6 DEF Destroy, WorkersGone, StorageTypes, Threads
  <2> QED
    BY <1>6, <2>1 DEF Destroy
<1>7. CASE SaveOnExit \/ DumpType
  BY <1>7 DEF SaveOnExit, DumpType
<1>8. CASE CloseFile
  BY <1>8 DEF CloseFile, Dumping, Executing, Done
<1>9. CASE Crash
  BY <1>9 DEF Crash, Dies, Alive
<1>10. CASE Restart
  <2>1. typed' \in 0..MaxLines /\ boots' \in 1..MaxBoots
    BY <1>10, BoundsAssumption DEF Restart
  <2> QED
    BY <1>10, <2>1 DEF Restart
<1>11. CASE UNCHANGED vars
  BY <1>11 DEF vars
<1> QED
  BY <1>1, <1>2, <1>3, <1>4, <1>5, <1>6, <1>7, <1>8, <1>9, <1>10, <1>11

LEMMA ControlKept ==
  ASSUME IInv, StorageTypes, LinesOK, Control, [Next]_vars
  PROVE  Control'
<1>1. CASE MainStep
  BY <1>1, ThreadsHaveMain, AccessesLeaveControl, CommandsKeepControl, MainKeepsControl DEF MainStep
<1>2. ASSUME NEW t \in Threads \ {Main},
             ThreadStep(t) \/ \E k \in ReadKeys[t] : ThreadGets(t, k)
      PROVE  Control'
  BY <1>2, BoundsAssumption, AccessesLeaveControl DEF ThreadStep
<1> QED
  BY <1>1, <1>2, CommandsKeepControl, MainKeepsControl DEF Next

-------------------------------------------------------------------------------
(* The text of the settings, and the file. *)

\* The settings of some types, as text.
Texts(types) ==
  [k \in Keys |-> IF Type[k] \in types /\ config[k] # Absent THEN Text(Type[k], config[k])
                                                             ELSE Absent]

\* What AllConfigsCommand has been through.
Passed == {TypeOrder[i] : i \in 1..dumped}

SavingByCommand == cmd # NoCommand /\ cmd.op = "save" /\ step = "dump"

\* The text is empty unless somebody writes it; ~ConfigStorage writes it when
\* nobody sets anything any more.
FileOK ==
  /\ DOMAIN dump = Keys /\ DOMAIN stored = Keys /\ dumped \in 0..Len(TypeOrder)
  /\ SavingByCommand => cmd.args >= 2
  /\ \/ dumped = 0 /\ dump = Nothing
     \/ mainPc \in {"dumping", "dead"}
     \/ SavingByCommand
  /\ mainPc = "dumping" => dump = Texts(Passed)
  /\ mainPc = "exited" => stored = Texts(Types)

\* Whatever does not touch the text.
LEMMA FileElsewhere ==
  ASSUME FileOK, UNCHANGED <<stored, dump, dumped>>,
         SavingByCommand => SavingByCommand' \/ mainPc' = "dead",
         SavingByCommand' => SavingByCommand /\ cmd' = cmd,
         mainPc \notin {"dumping", "exited"} => mainPc' \notin {"dumping", "exited"},
         mainPc \in {"dumping", "exited"} => mainPc' \in {mainPc, "dead"} /\ config' = config,
         mainPc # "dead" \/ mainPc' = mainPc
  PROVE  FileOK'
<1>1. /\ DOMAIN dump' = Keys /\ DOMAIN stored' = Keys /\ dumped' \in 0..Len(TypeOrder)
  BY DEF FileOK
<1>2. SavingByCommand' => cmd'.args >= 2
  BY DEF FileOK
<1>3. \/ dumped' = 0 /\ dump' = Nothing
      \/ mainPc' \in {"dumping", "dead"}
      \/ SavingByCommand'
  <2>1. CASE dumped = 0 /\ dump = Nothing
    BY <2>1
  <2>2. CASE mainPc \in {"dumping", "dead"}
    BY <2>2
  <2>3. CASE SavingByCommand
    BY <2>3
  <2> QED
    BY <2>1, <2>2, <2>3 DEF FileOK
<1>4. mainPc' = "dumping" => dump' = Texts(Passed)'
  BY DEF FileOK, Texts, Passed
<1>5. mainPc' = "exited" => stored' = Texts(Types)'
  BY DEF FileOK, Texts
<1> QED
  BY <1>1, <1>2, <1>3, <1>4, <1>5 DEF FileOK

LEMMA FileKept ==
  ASSUME IInv, StorageTypes, LinesOK, Control, FileOK, [Next]_vars
  PROVE  FileOK'
<1> DEFINE Late == mainPc \in {"dumping", "exited"}
<1>1. Late => cmd = NoCommand /\ stack = <<>> /\ pc[Main] \notin {"reading", "missed", "writing"} /\ todo = {}
              /\ \A t \in Workers \cup {Network} : pc[t] = "off"
  BY DEF Control, WhereCommandsRun, NothingRuns, Gone, IInv, MainReads, NoCommandBegins, Setting
<1>2. ASSUME NEW t \in Threads,
             \/ EndGet(t) \/ BeginSet(t) \/ EndSet(t) \/ WorkerStep(t)
             \/ \E k : MainGets(k) \/ ThreadGets(t, k)
      PROVE  FileOK'
  <2>1. Late => config' = config
    BY <1>1, <1>2 DEF EndGet, BeginSet, EndSet, WorkerStep, StartWorker, StopWorker, ResetRequest, MainGets, ThreadGets, Threads
  <2>2. /\ UNCHANGED <<mainPc, stored, dump, dumped>> 
        /\ UNCHANGED <<cmd, step>> \/ (cmd.op = "set" /\ cmd' = NoCommand)
    BY <1>2 DEF EndGet, BeginSet, EndSet, WorkerStep, StartWorker, StopWorker, ResetRequest, MainGets, ThreadGets, Done
  <2> QED
    BY <2>1, <2>2, FileElsewhere DEF SavingByCommand
<1>3. CASE NextLine \/ \E c \in ConsoleLines : TypeLine(c)
  <2>1. /\ UNCHANGED <<mainPc, stored, dump, dumped, config>>
        /\ cmd = NoCommand
        /\ UNCHANGED cmd \/ step' = "first"
    BY <1>3 DEF NextLine, TypeLine, Start
  <2> QED
    BY <2>1, FileElsewhere DEF SavingByCommand
<1>4. CASE TooFewArguments
  <2>1. cmd # NoCommand /\ ~SavingByCommand
    <3>1. SavingByCommand => cmd.args >= 2 /\ cmd.args \in Nat /\ Needed(cmd) = 2
      BY DEF FileOK, LinesOK, IsLine, Needed, SavingByCommand
    <3> QED
      BY <1>4, <3>1 DEF TooFewArguments
  <2>2. /\ UNCHANGED <<stored, dump, dumped, config>> /\ mainPc' \in {mainPc, "dead"} 
        /\ cmd' \in {cmd, NoCommand} /\ mainPc # "dead"
        /\ cmd' = cmd => step' = step
    BY <1>4 DEF TooFewArguments, Dies, Done, Executing, Alive
  <2> QED
    BY <2>1, <2>2, FileElsewhere DEF SavingByCommand
<1>5. CASE \/ SourceCommand \/ TooDeep \/ OtherCommand
           \/ HostCommand \/ LoadMap \/ AddNewRealm \/ QuitCommand \/ QuitDestroysRealms
           \/ QuitDestroysLoop \/ SetCommand
  <2>1. /\ UNCHANGED <<stored, dump, dumped, config>> /\ mainPc' \in {mainPc, "dead"} /\ mainPc # "dead"
        /\ cmd # NoCommand /\ cmd.op # "save" /\ cmd' \in {cmd, NoCommand}
    BY <1>5 DEF SourceCommand, TooDeep, OtherCommand, HostCommand, LoadMap, AddNewRealm, QuitCommand,
       QuitDestroysRealms, QuitDestroysLoop, SetCommand, Dies, Done, Continue, Executing, Alive
  <2> QED
    BY <2>1, FileElsewhere DEF SavingByCommand
<1>6. CASE \/ StartService \/ ConfigLoaded \/ RunAsync \/ RunNetworkLoopAsync \/ RequestStop
           \/ DestroyAllRealmsAndStop \/ Destroy \/ Crash \/ UNCHANGED vars
  <2>1. /\ UNCHANGED <<stored, dump, dumped, config, cmd, step>>
        /\ \/ mainPc' = mainPc
           \/ mainPc' \notin {"dumping", "exited"} /\ mainPc \notin {"dumping", "exited", "dead"}
           \/ mainPc' = "dead"
    BY <1>6 DEF StartService, ConfigLoaded, RunAsync, RunNetworkLoopAsync, RequestStop,
       DestroyAllRealmsAndStop, Destroy, Crash, Dies, vars
  <2> QED
    BY <2>1, FileElsewhere DEF SavingByCommand
<1>7. CASE SaveCommand
  <2>1. /\ UNCHANGED <<dump, dumped, mainPc, config>> /\ ~Late /\ mainPc # "dead"
        /\ cmd # NoCommand /\ cmd.op = "save" /\ step = "first" /\ stored' \in {stored, Nothing}
        /\ cmd' = NoCommand \/ (cmd' = cmd /\ step' = "dump")
    BY <1>7, <1>1 DEF SaveCommand, Executing, Alive, Continue, Done
  <2>2. cmd.args >= 2
    BY <1>7, <2>1 DEF SaveCommand, Complete, Needed
  <2>3. dumped' = 0 /\ dump' = Nothing /\ DOMAIN stored' = Keys
    BY <2>1 DEF FileOK, SavingByCommand, Nothing
  <2> QED
    BY <2>1, <2>2, <2>3 DEF FileOK, SavingByCommand
<1>8. CASE SaveOnExit
  <2>1. dumped = 0 /\ dump = Nothing /\ cmd = NoCommand
    BY <1>8 DEF SaveOnExit, FileOK, SavingByCommand, Control, WhereCommandsRun
  <2>2. /\ UNCHANGED <<dump, dumped, cmd>> /\ mainPc' \in {"dumping", "unsaved"}
        /\ stored' \in {stored, Nothing}
    BY <1>8 DEF SaveOnExit
  <2>3. Texts(Passed)' = Nothing
    BY <2>1, <2>2 DEF Texts, Passed, Nothing
  <2> QED
    BY <2>1, <2>2, <2>3 DEF FileOK, SavingByCommand, Nothing
<1>9. CASE DumpType
  <2> DEFINE type == TypeOrder[dumped + 1]
  <2>1. /\ UNCHANGED <<mainPc, cmd, step, stored, config>>
        /\ dumped' = dumped + 1 /\ dumped \in 0..6
        /\ mainPc # "exited" /\ (mainPc = "dumping" \/ SavingByCommand)
        /\ dump' = [k \in Keys |-> IF Type[k] = type /\ config[k] # Absent
                                     THEN Text(type, config[k]) ELSE dump[k]]
    BY <1>9 DEF DumpType, Dumping, Executing, SavingByCommand, FileOK, TypeOrder,
       Alive
  <2>2. Passed' = Passed \cup {type}
    BY <2>1 DEF Passed, TypeOrder
  <2>3. mainPc = "dumping" => dump' = Texts(Passed)'
    BY <2>1, <2>2 DEF FileOK, Texts
  <2> QED
    BY <2>1, <2>3 DEF FileOK, SavingByCommand, TypeOrder
<1>10. CASE CloseFile
  <2>1. /\ config' = config /\ dumped = 7 /\ dumped' = 0 /\ dump' = Nothing
        /\ DOMAIN stored' = Keys
        /\ mainPc = "dumping" => /\ mainPc' = "unsaved" \/ (mainPc' = "exited" /\ stored' = dump)
                                 /\ cmd' = cmd /\ cmd = NoCommand
        /\ mainPc # "dumping" => mainPc' = mainPc /\ mainPc # "exited" /\ cmd' = NoCommand
    <3>1. PICK written \in SUBSET Keys :
            /\ stored' = [k \in Keys |-> IF k \in written THEN dump[k] ELSE Absent]
            /\ IF mainPc = "dumping"
                 THEN /\ mainPc' = IF written = Keys THEN "exited" ELSE "unsaved"
                      /\ UNCHANGED commandVars
                 ELSE Done /\ UNCHANGED mainPc
      BY <1>10 DEF CloseFile
    <3>2. mainPc = "dumping" => dump = [k \in Keys |-> dump[k]]
      BY DEF FileOK, Texts
    <3>3. (mainPc = "dumping" /\ written = Keys) => stored' = dump
      BY <3>1, <3>2
    <3>4. config' = config /\ dumped = 7 /\ dumped' = 0 /\ dump' = Nothing /\ mainPc # "exited"
      BY <1>10 DEF CloseFile, TypeOrder, Alive
    <3> QED
      BY <1>1, <3>1, <3>3, <3>4 DEF Done
  <2>2. Passed = Types
    BY <2>1 DEF Passed, TypeOrder, Types
  <2>3. (mainPc = "dumping" /\ mainPc' = "exited") => stored' = Texts(Types)'
    BY <2>1, <2>2 DEF FileOK, Texts
  <2> QED
    BY <2>1, <2>3 DEF FileOK, SavingByCommand, Nothing, TypeOrder
<1>11. CASE Restart
  BY <1>11 DEF Restart, FileOK, SavingByCommand, Nothing
<1>12. CASE MainStep
  BY <1>2, <1>3, <1>4, <1>5, <1>6, <1>7, <1>8, <1>9, <1>10, <1>12, ThreadsHaveMain DEF MainStep
<1> QED
  BY <1>2, <1>3, <1>6, <1>11, <1>12 DEF Next, ThreadStep

-------------------------------------------------------------------------------
(* Loading the configuration. *)

\* What the proof needs to know of the constants: the markers for nothing are
\* neither lines nor values, and no file that the server brings along saves.
MarkersAreNoData ==
  /\ \A k \in Keys : \A v : [op |-> "set", key |-> k, val |-> v, args |-> 6] # NoCommand
  /\ \A k \in Keys : \A v : v # Absent => Parsed(Type[k], v) # Absent

ScriptsDoNotSave == \A f \in Scripts : \A i \in DOMAIN Script[f] : Script[f][i].op # "save"

\* A line that may be executed while the configuration is loaded: nothing but the
\* stored file sets what no script sets.
BootLine(c) ==
  /\ c.op # "save"
  /\ (c.op = "set" /\ c.key \notin SetByScripts) => c = PendingLine(c.key)

Restored(k) == config[k] = Parsed(Type[k], stored[k])

Pending(k) ==
  \/ cmd = PendingLine(k)
  \/ \E i \in DOMAIN stack : \E j \in DOMAIN stack[i] : stack[i][j] = PendingLine(k)

BootLines ==
  /\ cmd # NoCommand => BootLine(cmd)
  /\ \A i \in DOMAIN stack : \A j \in DOMAIN stack[i] : BootLine(stack[i][j])

\* A set command writes what is in its line, a GetOrSet only where nothing is.
BootAccess ==
  /\ (pc[Main] = "writing" /\ Setting)
       => access[Main] = [key |-> cmd.key, val |-> Parsed(Type[cmd.key], cmd.val)]
  /\ (pc[Main] = "missed" \/ (pc[Main] = "writing" /\ ~Setting))
       => config[access[Main].key] = Absent

\* What the stored file says has been set, or is still to be.
RestoredOrPending ==
  sourced => \A k \in Keys \ SetByScripts : stored[k] # Absent => Restored(k) \/ Pending(k)

BootOK ==
  /\ mainPc = "boot" => ~sourced
  /\ mainPc \in {"boot", "config", "settings"} => \A t \in Threads \ {Main} : pc[t] = "off"
  /\ mainPc = "config" => BootLines /\ BootAccess /\ RestoredOrPending
  /\ mainPc = "settings" =>
       /\ todo \subseteq StartKeys
       /\ todo = StartKeys => pc[Main] \notin {"reading", "missed", "writing"}
       /\ (todo = StartKeys /\ sourced)
            => \A k \in Keys \ SetByScripts : stored[k] # Absent => Restored(k)

\* Lines of all files may be executed while the configuration is loaded.
LEMMA BootFilesLines ==
  ASSUME ScriptsDoNotSave, NEW f \in Scripts \cup {StoreFile}, NEW i \in DOMAIN Lines(f)
  PROVE  BootLine(Lines(f)[i])
<1>1. CASE f = StoreFile
  <2>1. PICK k \in Keys : Lines(f)[i] = PendingLine(k)
    BY <1>1, StoredLines
  <2> QED
    BY <2>1 DEF BootLine, PendingLine
<1>2. CASE f # StoreFile
  <2>1. f \in Scripts /\ Lines(f) = Script[f]
    BY <1>2 DEF Lines
  <2>2. IsLine(Script[f][i]) /\ Script[f][i].op # "save"
    BY <2>1, LinesAssumption DEF ScriptsDoNotSave
  <2>3. Script[f][i].op = "set" => Script[f][i].key \in SetByScripts
    BY <2>1, <2>2 DEF IsLine, SetByScripts
  <2> QED
    BY <2>1, <2>2, <2>3 DEF BootLine
<1> QED
  BY <1>1, <1>2

\* ParseCommands takes a line: the pending ones are that line and those left.
LEMMA BootNextLine ==
  ASSUME MarkersAreNoData, LinesOK, BootLines, BootAccess, RestoredOrPending,
         pc[Main] \notin {"missed", "writing"}, NextLine
  PROVE  BootLines' /\ BootAccess' /\ RestoredOrPending'
<1>1. cmd = NoCommand /\ UNCHANGED <<storageVars, stored, sourced>>
  BY DEF NextLine
<1>2. BootAccess'
  BY <1>1 DEF BootAccess
<1>3. /\ IsSeq(Tail(stack)) /\ 1 \in DOMAIN stack /\ Head(stack) = stack[1]
      /\ DOMAIN stack \subseteq Nat
      /\ \A i \in DOMAIN Tail(stack) : i + 1 \in DOMAIN stack /\ Tail(stack)[i] = stack[i + 1]
      /\ \A i \in DOMAIN stack : i = 1 \/ (i - 1 \in DOMAIN Tail(stack) /\ Tail(stack)[i - 1] = stack[i])
  BY Popped DEF NextLine, LinesOK
<1>4. \A k \in Keys : cmd # PendingLine(k)
  BY <1>1 DEF MarkersAreNoData, PendingLine
<1>5. \A k : PendingLine(k)' = PendingLine(k) /\ Restored(k)' = Restored(k)
  BY <1>1 DEF PendingLine, Restored
<1>6. \A c : BootLine(c)' <=> BootLine(c)
  BY <1>1 DEF BootLine, PendingLine
<1>7. CASE Head(stack) = <<>>
  <2>1. stack' = Tail(stack) /\ cmd' = cmd
    BY <1>7 DEF NextLine
  <2>2. BootLines'
    BY <1>1, <1>3, <1>6, <2>1 DEF BootLines
  <2>3. ASSUME NEW k \in Keys, Pending(k)
        PROVE  Pending(k)'
    <3>1. PICK i \in DOMAIN stack : \E j \in DOMAIN stack[i] : stack[i][j] = PendingLine(k)
      BY <1>4, <2>3 DEF Pending
    <3>2. i # 1
      BY <1>3, <1>7, <3>1
    <3>3. i - 1 \in DOMAIN stack' /\ stack'[i - 1] = stack[i]
      BY <1>3, <2>1, <3>2
    <3> QED
      BY <1>5, <3>1, <3>3 DEF Pending
  <2>4. RestoredOrPending'
    BY <1>1, <1>5, <2>3 DEF RestoredOrPending
  <2> QED
    BY <1>2, <2>2, <2>4
<1>8. CASE Head(stack) # <<>>
  <2> DEFINE f == Head(stack)
  <2>1. IsSeq(f)
    BY <1>3 DEF LinesOK
  <2>2. /\ 1 \in DOMAIN f /\ Head(f) = f[1]
        /\ \A i \in DOMAIN Tail(f) : i + 1 \in DOMAIN f /\ Tail(f)[i] = f[i + 1]
        /\ \A i \in DOMAIN f : i = 1 \/ (i - 1 \in DOMAIN Tail(f) /\ Tail(f)[i - 1] = f[i])
    BY <1>8, <2>1, Popped
  <2>3. cmd' = Head(f) /\ stack' = <<Tail(f)>> \o Tail(stack)
    BY <1>8 DEF NextLine, Start
  <2>4. /\ 1 \in DOMAIN stack' /\ stack'[1] = Tail(f)
        /\ \A i \in DOMAIN stack' : i = 1 \/ (i - 1 \in DOMAIN Tail(stack) /\ stack'[i] = Tail(stack)[i - 1])
        /\ \A i \in DOMAIN Tail(stack) : i + 1 \in DOMAIN stack' /\ stack'[i + 1] = Tail(stack)[i]
    BY <1>3, <2>3, Pushed
  <2> HIDE DEF f
  <2>5. BootLine(cmd')
    BY <1>3, <2>2, <2>3 DEF BootLines, f
  <2>6. ASSUME NEW i \in DOMAIN stack', NEW j \in DOMAIN stack'[i]
        PROVE  BootLine(stack'[i][j])
    <3>1. CASE i = 1
      BY <1>3, <2>2, <2>4, <2>6, <3>1 DEF BootLines, f
    <3>2. CASE i # 1
      BY <1>3, <2>4, <2>6, <3>2 DEF BootLines
    <3> QED
      BY <3>1, <3>2
  <2>7. BootLines'
    BY <1>6, <2>5, <2>6 DEF BootLines
  <2>8. ASSUME NEW k \in Keys, Pending(k)
        PROVE  Pending(k)'
    <3>1. PICK i \in DOMAIN stack : \E j \in DOMAIN stack[i] : stack[i][j] = PendingLine(k)
      BY <1>4, <2>8 DEF Pending
    <3>2. PICK j \in DOMAIN stack[i] : stack[i][j] = PendingLine(k)
      BY <3>1
    <3>3. CASE i = 1 /\ j = 1
      BY <1>3, <1>5, <2>2, <2>3, <3>2, <3>3 DEF Pending, f
    <3>4. CASE i = 1 /\ j # 1
      <4>1. j - 1 \in DOMAIN stack'[1] /\ stack'[1][j - 1] = PendingLine(k)
        BY <1>3, <2>2, <2>4, <3>2, <3>4 DEF f
      <4> QED
        BY <1>5, <2>4, <4>1 DEF Pending
    <3>5. CASE i # 1
      <4>1. i - 1 \in DOMAIN Tail(stack) /\ Tail(stack)[i - 1] = stack[i] /\ (i - 1) + 1 = i
        BY <1>3, <3>5
      <4>2. i \in DOMAIN stack' /\ stack'[i] = stack[i]
        BY <2>4, <4>1
      <4> QED
        BY <1>5, <3>2, <4>2 DEF Pending
    <3> QED
      BY <3>3, <3>4, <3>5
  <2>9. RestoredOrPending'
    BY <1>1, <1>5, <2>8 DEF RestoredOrPending
  <2> QED
    BY <1>2, <2>7, <2>9
<1> QED
  BY <1>7, <1>8

\* source puts the lines of a file in front; of the stored file, all that it has.
LEMMA BootSource ==
  ASSUME MarkersAreNoData, ScriptsDoNotSave, LinesOK, BootLines, BootAccess, RestoredOrPending,
         SourceCommand
  PROVE  BootLines' /\ BootAccess' /\ RestoredOrPending'
<1> DEFINE f == cmd.file
<1>1. /\ cmd # NoCommand /\ cmd.op = "source" /\ pc[Main] = "idle" /\ cmd' = NoCommand
      /\ stack' = <<Lines(f)>> \o stack
      /\ UNCHANGED <<storageVars, stored>>
      /\ sourced' = (sourced \/ f = StoreFile)
  BY DEF SourceCommand, Executing, Done
<1>2. f \in Scripts \cup {StoreFile}
  <2>1. Needed(cmd) = 2 /\ cmd.args >= 2
    BY <1>1 DEF SourceCommand, Complete, Needed
  <2> QED
    BY <1>1, <2>1 DEF LinesOK, IsLine
<1>3. /\ 1 \in DOMAIN stack' /\ stack'[1] = Lines(f)
      /\ \A i \in DOMAIN stack' : i = 1 \/ (i - 1 \in DOMAIN stack /\ stack'[i] = stack[i - 1])
      /\ \A i \in DOMAIN stack : i + 1 \in DOMAIN stack' /\ stack'[i + 1] = stack[i]
  BY <1>1, Pushed DEF LinesOK
<1> HIDE DEF f
<1>4. \A k : PendingLine(k)' = PendingLine(k) /\ Restored(k)' = Restored(k)
  BY <1>1 DEF PendingLine, Restored
<1>5. \A c : BootLine(c)' <=> BootLine(c)
  BY <1>1 DEF BootLine, PendingLine
<1>6. BootLines'
  <2>1. ASSUME NEW i \in DOMAIN stack', NEW j \in DOMAIN stack'[i]
        PROVE  BootLine(stack'[i][j])
    <3>1. CASE i = 1
      BY <1>2, <1>3, <2>1, <3>1, BootFilesLines
    <3>2. CASE i # 1
      BY <1>3, <2>1, <3>2 DEF BootLines
    <3> QED
      BY <3>1, <3>2
  <2> QED
    BY <1>1, <1>5, <2>1 DEF BootLines
<1>7. BootAccess'
  BY <1>1 DEF BootAccess
<1>8. ASSUME NEW k \in Keys \ SetByScripts, sourced', stored[k] # Absent
      PROVE  Restored(k) \/ Pending(k)'
  <2>1. CASE f = StoreFile
    <3>1. PICK j \in DOMAIN Lines(f) : Lines(f)[j] = PendingLine(k)
      BY <1>8, <2>1, StoredLines
    <3> QED
      BY <1>3, <1>4, <3>1 DEF Pending
  <2>2. CASE f # StoreFile /\ ~Restored(k)
    <3>1. Pending(k)
      BY <1>1, <1>8, <2>2 DEF RestoredOrPending
    <3>2. cmd # PendingLine(k)
      BY <1>1 DEF PendingLine
    <3>3. PICK i \in DOMAIN stack : \E j \in DOMAIN stack[i] : stack[i][j] = PendingLine(k)
      BY <3>1, <3>2 DEF Pending
    <3>4. i + 1 \in DOMAIN stack' /\ stack'[i + 1] = stack[i]
      BY <1>3
    <3> QED
      BY <1>4, <3>3, <3>4 DEF Pending
  <2> QED
    BY <2>1, <2>2
<1>9. RestoredOrPending'
  BY <1>1, <1>4, <1>8 DEF RestoredOrPending
<1> QED
  BY <1>6, <1>7, <1>9

\* A command that sets nothing ends, or goes on, and the settings stay.
LEMMA BootElsewhere ==
  ASSUME BootLines, RestoredOrPending, UNCHANGED <<config, stored, sourced, stack>>,
         \/ cmd' = cmd
         \/ cmd' = NoCommand /\ \A k \in Keys \ SetByScripts : cmd # PendingLine(k)
  PROVE  BootLines' /\ RestoredOrPending'
<1>1. \A k : PendingLine(k)' = PendingLine(k) /\ Restored(k)' = Restored(k)
  BY DEF PendingLine, Restored
<1>2. \A c : BootLine(c)' <=> BootLine(c)
  BY DEF BootLine, PendingLine
<1>3. BootLines'
  BY <1>2 DEF BootLines
<1>4. \A k \in Keys \ SetByScripts : Pending(k) => Pending(k)'
  BY <1>1 DEF Pending
<1>5. RestoredOrPending'
  BY <1>1, <1>4 DEF RestoredOrPending
<1> QED
  BY <1>3, <1>5

\* The main thread sets a variable: by the command that is in the stored file, or
\* a default where no value has been restored yet.
LEMMA BootEndSet ==
  ASSUME MarkersAreNoData, IInv, StorageTypes, LinesOK, BootLines, BootAccess, RestoredOrPending,
         EndSet(Main)
  PROVE  BootLines' /\ BootAccess' /\ RestoredOrPending'
<1> DEFINE k == access[Main].key
<1>1. /\ pc[Main] = "writing" /\ pc'[Main] = "idle"
      /\ UNCHANGED <<stack, stored, sourced>> /\ k \in Keys
      /\ config' = [config EXCEPT ![k] = access[Main].val]
      /\ Setting => cmd' = NoCommand
      /\ ~Setting => cmd' = cmd
  BY ThreadsHaveMain DEF EndSet, StorageTypes, Setting, Done
<1>2. config'[k] = access[Main].val /\ \A j \in Keys \ {k} : config'[j] = config[j]
  BY <1>1 DEF IInv, Accesses
<1>3. BootAccess'
  BY <1>1 DEF BootAccess
<1>4. \A j : PendingLine(j)' = PendingLine(j)
  BY <1>1 DEF PendingLine
<1>5. \A c : BootLine(c)' <=> BootLine(c)
  BY <1>1 DEF BootLine, PendingLine
<1>6. BootLines'
  BY <1>1, <1>5 DEF BootLines
<1>7. ASSUME NEW j \in Keys \ SetByScripts, stored[j] # Absent, Restored(j) \/ Pending(j)
      PROVE  Restored(j)' \/ Pending(j)'
  <2>1. CASE Setting
    <3>1. access[Main] = [key |-> cmd.key, val |-> Parsed(Type[cmd.key], cmd.val)]
      BY <1>1, <2>1 DEF BootAccess
    <3>2. CASE j = k
      <4>1. cmd = PendingLine(j)
        BY <2>1, <3>1, <3>2 DEF BootLines, BootLine, Setting
      <4>2. cmd.val = stored[j] /\ cmd.key = j
        BY <4>1 DEF PendingLine
      <4>3. config'[j] = Parsed(Type[j], stored[j])
        BY <1>2, <3>1, <3>2, <4>2
      <4> QED
        BY <1>1, <4>3 DEF Restored
    <3>3. CASE j # k
      <4>1. cmd # PendingLine(j)
        BY <3>1, <3>3 DEF PendingLine
      <4>2. Pending(j) => Pending(j)'
        BY <1>1, <1>4, <4>1 DEF Pending
      <4>3. Restored(j)' <=> Restored(j)
        BY <1>1, <1>2, <3>3 DEF Restored
      <4> QED
        BY <1>7, <4>2, <4>3
    <3> QED
      BY <3>2, <3>3
  <2>2. CASE ~Setting
    <3>1. Pending(j)' <=> Pending(j)
      BY <1>1, <1>4, <2>2 DEF Pending
    <3>2. CASE j = k
      <4>1. config[j] = Absent
        BY <1>1, <2>2, <3>2 DEF BootAccess
      <4>2. ~Restored(j)
        BY <1>7, <4>1 DEF Restored, MarkersAreNoData
      <4> QED
        BY <1>7, <3>1, <4>2
    <3>3. CASE j # k
      BY <1>1, <1>2, <1>7, <3>1, <3>3 DEF Restored
    <3> QED
      BY <3>2, <3>3
  <2> QED
    BY <2>1, <2>2
<1>8. RestoredOrPending'
  BY <1>1, <1>7 DEF RestoredOrPending
<1> QED
  BY <1>3, <1>6, <1>8

\* The accesses of the main thread.
LEMMA BootAccessesKept ==
  ASSUME MarkersAreNoData, IInv, StorageTypes, LinesOK, Control, BootOK,
         \/ EndGet(Main) \/ BeginSet(Main) \/ EndSet(Main) \/ SetCommand
         \/ \E k \in Keys : MainGets(k)
  PROVE  BootOK'
<1>1. UNCHANGED <<mainPc, sourced, stored>>
  BY DEF EndGet, BeginSet, EndSet, SetCommand, MainGets
<1>2. \A t \in Threads \ {Main} : pc'[t] = pc[t]
  BY ThreadsHaveMain DEF EndGet, BeginSet, EndSet, SetCommand, MainGets, BeginGet, StorageTypes
<1>3. CASE mainPc \notin {"config", "settings"}
  BY <1>1, <1>2, <1>3 DEF BootOK
<1>4. CASE mainPc = "settings"
  <2>1. cmd = NoCommand /\ StartKeys \subseteq Keys
    BY <1>4, ConsoleAssumption DEF Control, WhereCommandsRun
  <2>2. CASE \E k \in Keys : MainGets(k)
    <3>1. todo \subseteq StartKeys /\ todo' \subseteq StartKeys /\ todo' # StartKeys
      BY <1>4, <2>2 DEF BootOK, MainGets
    <3> QED
      BY <1>1, <1>2, <1>4, <3>1 DEF BootOK
  <2>3. CASE EndGet(Main) \/ BeginSet(Main) \/ EndSet(Main)
    <3>1. todo' = todo /\ pc[Main] \in {"reading", "missed", "writing"}
      BY <2>3 DEF EndGet, BeginSet, EndSet
    <3> QED
      BY <1>1, <1>2, <1>4, <3>1 DEF BootOK
  <2> QED
    BY <2>1, <2>2, <2>3 DEF SetCommand, Executing
<1>5. CASE mainPc = "config"
  <2>1. BootLines /\ BootAccess /\ RestoredOrPending
    BY <1>5 DEF BootOK
  <2>2. CASE EndSet(Main)
    BY <1>1, <1>2, <1>5, <2>1, <2>2, BootEndSet DEF BootOK
  <2>3. CASE ~EndSet(Main)
    <3>1. UNCHANGED <<config, cmd, stack>>
      BY <2>3 DEF EndGet, BeginSet, SetCommand, MainGets
    <3>2. BootLines' /\ RestoredOrPending'
      BY <1>1, <2>1, <3>1, BootElsewhere
    <3>3. BootAccess'
      <4>1. CASE EndGet(Main)
        BY <3>1, <4>1, ThreadsHaveMain DEF EndGet, BootAccess, StorageTypes, Setting
      <4>2. CASE BeginSet(Main)
        <5>1. ~Setting
          BY <1>5, <4>2 DEF BeginSet, IInv, MainReads, NoCommandBegins, Setting
        <5> QED
          BY <2>1, <3>1, <4>2, <5>1, ThreadsHaveMain DEF BeginSet, BootAccess, StorageTypes, Setting
      <4>3. CASE SetCommand
        <5>1. /\ Setting /\ pc'[Main] = "writing"
              /\ access'[Main] = [key |-> cmd.key, val |-> Parsed(Type[cmd.key], cmd.val)]
          BY <4>3, ThreadsHaveMain DEF SetCommand, Executing, Setting, IInv, Accesses
        <5>2. cmd' = cmd /\ Setting'
          BY <3>1, <5>1 DEF Setting
        <5>3. access'[Main] = [key |-> cmd'.key, val |-> Parsed(Type[cmd'.key], cmd'.val)]
          BY <5>1, <5>2
        <5> QED
          BY <5>1, <5>2, <5>3 DEF BootAccess
      <4>4. CASE \E k \in Keys : MainGets(k)
        <5>1. pc'[Main] = "reading"
          BY <4>4, ThreadsHaveMain DEF MainGets, BeginGet, StorageTypes
        <5> QED
          BY <5>1 DEF BootAccess
      <4> QED
        BY <2>3, <4>1, <4>2, <4>3, <4>4
    <3> QED
      BY <1>1, <1>2, <1>5, <3>2, <3>3 DEF BootOK
  <2> QED
    BY <2>2, <2>3
<1> QED
  BY <1>3, <1>4, <1>5

\* The parser and the commands.
LEMMA BootCommandsKept ==
  ASSUME MarkersAreNoData, ScriptsDoNotSave, IInv, StorageTypes, LinesOK, Control, BootOK,
         \/ NextLine \/ TooFewArguments \/ SourceCommand \/ TooDeep \/ OtherCommand
         \/ HostCommand \/ LoadMap \/ AddNewRealm \/ QuitCommand \/ QuitDestroysRealms
         \/ QuitDestroysLoop \/ SaveCommand \/ \E c \in ConsoleLines : TypeLine(c)
  PROVE  BootOK'
<1>1. mainPc \in {"config", "console"} /\ mainPc' \in {mainPc, "dead"}
  BY DEF NextLine, TooFewArguments, SourceCommand, TooDeep, OtherCommand, HostCommand, LoadMap,
     AddNewRealm, QuitCommand, QuitDestroysRealms, QuitDestroysLoop, SaveCommand, TypeLine, Dies,
     Executing, Alive, Control, WhereCommandsRun
<1>2. CASE mainPc' # "config"
  BY <1>1, <1>2 DEF BootOK
<1>3. CASE mainPc' = "config"
  <2>1. mainPc = "config" /\ BootLines /\ BootAccess /\ RestoredOrPending
        /\ \A t \in Threads \ {Main} : pc[t] = "off"
    BY <1>1, <1>3 DEF BootOK
  <2>2. \A t \in Threads \ {Main} : pc'[t] = "off"
    <3>1. CASE QuitDestroysLoop
      BY <2>1, <3>1 DEF QuitDestroysLoop, StorageTypes
    <3>2. CASE ~QuitDestroysLoop
      <4>1. pc' = pc
        BY <3>2 DEF NextLine, TooFewArguments, SourceCommand, TooDeep, OtherCommand, HostCommand,
           LoadMap, AddNewRealm, QuitCommand, QuitDestroysRealms, SaveCommand, TypeLine, Dies
      <4> QED
        BY <2>1, <4>1
    <3> QED
      BY <3>1, <3>2
  <2>3. CASE NextLine
    <3>1. pc[Main] \notin {"missed", "writing"}
      BY <2>1, <2>3 DEF NextLine, IInv, MainReads, NoCommandBegins, Setting
    <3> QED
      BY <1>3, <2>1, <2>2, <2>3, <3>1, BootNextLine DEF BootOK
  <2>4. CASE SourceCommand
    BY <1>3, <2>1, <2>2, <2>4, BootSource DEF BootOK
  <2>5. CASE TooFewArguments
    <3>1. /\ cmd # NoCommand /\ pc[Main] = "idle" /\ cmd.args < Needed(cmd)
          /\ UNCHANGED <<storageVars, stored, sourced, stack>> /\ cmd' = NoCommand
      BY <1>3, <2>5 DEF TooFewArguments, Executing, Done, Dies
    <3>2. \A k \in Keys : cmd # PendingLine(k)
      <4>1. ASSUME NEW k \in Keys, cmd = PendingLine(k)
            PROVE  Needed(cmd) <= 6 /\ cmd.args = 6 /\ Needed(cmd) \in Nat
        <5>1. cmd.op = "set" /\ cmd.args = 6
          BY <4>1 DEF PendingLine
        <5> QED
          BY <5>1 DEF Needed
      <4> QED
        BY <3>1, <4>1
    <3>3. BootAccess'
      BY <3>1 DEF BootAccess
    <3> QED
      BY <1>3, <2>1, <2>2, <3>1, <3>2, <3>3, BootElsewhere DEF BootOK
  <2>6. CASE \/ TooDeep \/ OtherCommand \/ HostCommand \/ LoadMap \/ AddNewRealm
             \/ QuitCommand \/ QuitDestroysRealms \/ QuitDestroysLoop \/ SaveCommand
    <3>1. /\ cmd # NoCommand /\ cmd.op # "set" /\ pc[Main] = "idle"
          /\ UNCHANGED <<config, sourced, stack>> /\ cmd' \in {cmd, NoCommand}
          /\ pc'[Main] \in {"idle", "off"}
      BY <1>3, <2>6, ThreadsHaveMain DEF TooDeep, OtherCommand, HostCommand, LoadMap, AddNewRealm,
         QuitCommand, QuitDestroysRealms, QuitDestroysLoop, SaveCommand, Executing, Done, Continue,
         Dies, StorageTypes
    <3>2. ~SaveCommand
      BY <2>1, <3>1 DEF SaveCommand, Executing, BootLines, BootLine
    <3>3. stored' = stored
      BY <1>3, <2>6, <3>2 DEF TooDeep, OtherCommand, HostCommand, LoadMap, AddNewRealm,
         QuitCommand, QuitDestroysRealms, QuitDestroysLoop, Dies
    <3>4. \A k \in Keys : cmd # PendingLine(k)
      BY <3>1 DEF PendingLine
    <3>5. BootAccess'
      BY <3>1 DEF BootAccess
    <3> QED
      BY <1>3, <2>1, <2>2, <3>1, <3>3, <3>4, <3>5, BootElsewhere DEF BootOK
  <2> QED
    BY <2>1, <2>3, <2>4, <2>5, <2>6 DEF TypeLine
<1> QED
  BY <1>2, <1>3

LEMMA BootKept ==
  ASSUME MarkersAreNoData, ScriptsDoNotSave, IInv, StorageTypes, LinesOK, Control, BootOK,
         [Next]_vars
  PROVE  BootOK'
<1>1. ASSUME NEW t \in Threads \ {Main},
             ThreadStep(t) \/ \E k \in ReadKeys[t] : ThreadGets(t, k)
      PROVE  BootOK'
  <2>1. mainPc' = mainPc /\ pc[t] # "off"
    BY <1>1 DEF ThreadStep, ThreadGets, EndGet, BeginSet, EndSet, WorkerStep, StartWorker, StopWorker, ResetRequest, BeginGet
  <2> QED
    BY <2>1 DEF BootOK
<1>2. CASE StartService
  <2>1. /\ mainPc = "boot" /\ mainPc' = "config" /\ ~sourced' /\ stack = <<>> /\ cmd' = NoCommand
        /\ UNCHANGED <<storageVars, stored>> /\ \A t \in Threads \ {Main} : pc[t] = "off"
    BY <1>2 DEF StartService, BootOK, Control, WhereCommandsRun
  <2>2. BootAccess'
    BY <2>1 DEF BootAccess, IInv, MainReads, NoCommandBegins, Control, WhereCommandsRun, Setting
  <2>3. BootLines'
    <3>1. CASE stack' = stack
      BY <2>1, <3>1 DEF BootLines
    <3>2. ASSUME NEW f \in BootFiles, stack' = <<Lines(f)>>
          PROVE  BootLines'
      <4>1. \A j \in DOMAIN Lines(f) : BootLine(Lines(f)[j])
        BY BootFilesLines, ConsoleAssumption
      <4>2. \A c : BootLine(c)' <=> BootLine(c)
        BY <2>1 DEF BootLine, PendingLine
      <4>3. \A i \in DOMAIN stack' : stack'[i] = Lines(f)
        BY <3>2
      <4> QED
        BY <2>1, <4>1, <4>2, <4>3 DEF BootLines
    <3> QED
      BY <1>2, <3>1, <3>2 DEF StartService
  <2> QED
    BY <2>1, <2>2, <2>3 DEF BootOK, RestoredOrPending
<1>3. CASE ConfigLoaded
  <2>1. /\ mainPc = "config" /\ mainPc' = "settings" /\ todo' = StartKeys /\ pc[Main] = "idle"
        /\ UNCHANGED <<config, pc, stored, sourced>> /\ cmd = NoCommand /\ stack = <<>>
    BY <1>3 DEF ConfigLoaded, Between
  <2>2. \A k \in Keys : ~Pending(k)
    BY <2>1 DEF Pending, PendingLine, MarkersAreNoData
  <2>3. sourced => \A k \in Keys \ SetByScripts : stored[k] # Absent => Restored(k)
    BY <2>1, <2>2 DEF BootOK, RestoredOrPending
  <2> QED
    BY <2>1, <2>3 DEF BootOK, Restored
<1>4. CASE CloseFile \/ DumpType
  <2>1. mainPc' \in {mainPc, "exited", "unsaved"} /\ (mainPc = "dumping" \/ (cmd # NoCommand /\ cmd.op = "save"))
    BY <1>4 DEF CloseFile, DumpType, Dumping, Executing
  <2>2. mainPc \notin {"boot", "config", "settings"}
    BY <2>1 DEF Control, WhereCommandsRun, BootOK, BootLines, BootLine
  <2> QED
    BY <2>1, <2>2 DEF BootOK
<1>5. CASE \/ RunAsync \/ RunNetworkLoopAsync \/ RequestStop
           \/ DestroyAllRealmsAndStop \/ Destroy \/ SaveOnExit \/ Crash
  <2>1. mainPc' \notin {"boot", "config", "settings"}
    BY <1>5 DEF RunAsync, RunNetworkLoopAsync, RequestStop, DestroyAllRealmsAndStop, Destroy,
       SaveOnExit, Crash, Dies
  <2> QED
    BY <2>1 DEF BootOK
<1>6. CASE Restart
  BY <1>6 DEF Restart, BootOK
<1>7. CASE UNCHANGED vars
  BY <1>7 DEF vars, BootOK, BootLines, BootLine, BootAccess, RestoredOrPending, Pending, PendingLine,
     Restored, Setting
<1>8. CASE MainStep
  BY <1>2, <1>3, <1>4, <1>5, <1>8, BootAccessesKept, BootCommandsKept DEF MainStep
<1> QED
  BY <1>1, <1>5, <1>6, <1>7, <1>8, BootCommandsKept DEF Next

-------------------------------------------------------------------------------
(* Theorems. *)

\* The strengthened invariant of the accesses of all threads.
THEOREM InductiveInvariant == Spec => []IInv
<1> QED
  BY InitEstablishes, InvariantKept, PTL DEF Spec

\* Only workers are late.
LEMMA LateKept == late \subseteq Workers /\ [Next]_vars => late' \subseteq Workers
<1> SUFFICES ASSUME late \subseteq Workers, [Next]_vars PROVE late' \subseteq Workers
  OBVIOUS
<1>1. ASSUME NEW t \in Threads, EndGet(t) \/ BeginSet(t) \/ EndSet(t) \/ WorkerStep(t)
      PROVE  late' \subseteq Workers
  BY <1>1 DEF EndGet, BeginSet, EndSet, WorkerStep, StartWorker, StopWorker, ResetRequest
<1>2. ASSUME NEW t, NEW k, MainGets(k) \/ ThreadGets(t, k)
      PROVE  late' \subseteq Workers
  BY <1>2 DEF MainGets, ThreadGets
<1>3. CASE \/ NextLine \/ TooFewArguments \/ SetCommand \/ SourceCommand \/ TooDeep
           \/ OtherCommand \/ HostCommand \/ LoadMap \/ AddNewRealm
           \/ QuitCommand \/ QuitDestroysRealms \/ QuitDestroysLoop
  BY <1>3 DEF NextLine, TooFewArguments, SetCommand, SourceCommand, TooDeep, OtherCommand,
     HostCommand, LoadMap, AddNewRealm, QuitCommand, QuitDestroysRealms, QuitDestroysLoop, Dies
<1>4. CASE \/ SaveCommand \/ DumpType \/ CloseFile \/ StartService \/ ConfigLoaded \/ RunAsync
           \/ RunNetworkLoopAsync \/ RequestStop \/ DestroyAllRealmsAndStop \/ Destroy \/ SaveOnExit
  BY <1>4 DEF SaveCommand, DumpType, CloseFile, StartService, ConfigLoaded, RunAsync,
     RunNetworkLoopAsync, RequestStop, DestroyAllRealmsAndStop, Destroy, SaveOnExit, Dies
<1>5. CASE UNCHANGED vars \/ Crash \/ Restart \/ \E c \in ConsoleLines : TypeLine(c)
  BY <1>5 DEF vars, Crash, Dies, Restart, TypeLine
<1>6. CASE MainStep
  BY <1>1, <1>2, <1>3, <1>4, <1>6, ThreadsHaveMain DEF MainStep
<1> QED
  BY <1>1, <1>2, <1>5, <1>6 DEF Next, ThreadStep

\* The strengthened invariant of the life of the process.
Process == StorageTypes /\ LinesOK /\ Control /\ FileOK /\ late \subseteq Workers

LEMMA InitProcess == Init => Process
<1> SUFFICES ASSUME Init PROVE Process
  OBVIOUS
<1>1. StorageTypes
  BY ConsoleAssumption DEF Init, StorageTypes, NoAccess, PCs
<1>2. LinesOK
  <2>1. IsSeq(<<>>)
    BY DEF IsSeq
  <2>2. Len(<<>>) = 0 /\ 0 <= MaxDepth
    BY BoundsAssumption
  <2> QED
    BY <2>1, <2>2 DEF Init, LinesOK
<1>3. Control
  <2>1. typed \in 0..MaxLines /\ boots \in 1..MaxBoots
    BY BoundsAssumption DEF Init
  <2> QED
    BY <2>1 DEF Init, Control, ControlTypes, MainStates, WhereCommandsRun, HostGone,
       NetworkOutlivesUse, NothingRuns, Gone
<1>4. FileOK
  BY DEF Init, FileOK, SavingByCommand, Nothing, TypeOrder
<1>5. late \subseteq Workers
  BY DEF Init
<1> QED
  BY <1>1, <1>2, <1>3, <1>4, <1>5 DEF Process

LEMMA ProcessKept == IInv /\ Process /\ [Next]_vars => Process'
  BY StorageTypesKept, LinesKept, ControlKept, FileKept, LateKept DEF Process

THEOREM ProcessInvariant == Spec => []Process
<1> QED
  BY InitProcess, ProcessKept, InductiveInvariant, PTL DEF Spec

\* Nobody is in the map of a type while a setting of that type is written, for
\* every number of threads and settings, though each map has its own mutex and
\* one of them is mistaken (ConfigStorage::Get..., Set..., GetOrSet...).
THEOREM AccessesExclude == Spec => []NoDataRace
<1>1. IInv => NoDataRace
  BY DEF IInv
<1> QED
  BY <1>1, InductiveInvariant, PTL

\* What a command has set stays until the next command, unless the command has
\* come between the two halves of a GetOrSet.
THEOREM CommandsWin == Spec => []ExplicitWins
<1>1. IInv => ExplicitWins
  BY DEF IInv, NoneOverwritten, Settled, ExplicitWins
<1> QED
  BY <1>1, InductiveInvariant, PTL

\* What holds of every state of the process, for all files and typed lines: shapes
\* and control states, nesting that stops at MaxDepth, and that the main thread
\* uses the network's host after Destroy only if a quit stood in a file
\* (CommandParser::ParseCommands, CommandParser_Commands quit, ServerMain main).
THEOREM ProcessSafe == Spec => []Inv
<1>1. IInv /\ Process => Inv
  <2> SUFFICES ASSUME IInv, Process PROVE Inv
    OBVIOUS
  <2>1. DOMAIN config = Keys /\ DOMAIN explicit = Keys
    BY DEF IInv, Accesses
  <2>2. todo \subseteq Keys
    BY ConsoleAssumption DEF IInv, Accesses
  <2>3. TypeOK
    BY <2>1, <2>2 DEF Process, StorageTypes, LinesOK, Control, ControlTypes, FileOK, TypeOK
  <2> QED
    BY <2>3 DEF Inv, Process, Control, HostGone
<1> QED
  BY <1>1, InductiveInvariant, ProcessInvariant, PTL

\* An orderly exit leaves no realm, no host and no thread behind, and every
\* setting as it was at the end, as text, in the file: ~ConfigStorage runs after
\* all that could still change one (~ServerCore, ServerCore::Destroy).
THEOREM OrderlyExitSaves == Spec => []ExitSavesConfig
<1>1. Process => ExitSavesConfig
  <2> SUFFICES ASSUME Process, mainPc = "exited"
               PROVE  /\ \A k \in Keys : stored[k] = IF config[k] = Absent THEN Absent
                                                      ELSE Text(Type[k], config[k])
                      /\ realms = {} /\ ~host
                      /\ \A t \in Workers \cup {Network} : pc[t] = "off"
    BY DEF ExitSavesConfig
  <2>1. stored = Texts(Types)
    BY DEF Process, FileOK
  <2>2. \A k \in Keys : Type[k] \in Types
    BY ConsoleAssumption
  <2>3. \A k \in Keys : stored[k] = IF config[k] = Absent THEN Absent
                                     ELSE Text(Type[k], config[k])
    BY <2>1, <2>2 DEF Texts
  <2> QED
    BY <2>3 DEF Process, Control, NothingRuns, Gone
<1> QED
  BY <1>1, ProcessInvariant, PTL

\* Files that do not save bring back what the stored file says of every setting but
\* vectors of four and strings with a quote, whatever they set before and after they
\* source it and whatever defaults the realms that they load fill in
\* (ServerCore::LoadDefaultConfig, CommandParser::ParseCommands).
THEOREM StoredSettingsReturn ==
  ASSUME MarkersAreNoData, ScriptsDoNotSave
  PROVE  Spec => []RestoredOnBoot
<1>1. Init => BootOK
  BY DEF Init, BootOK
<1>2. IInv /\ Process /\ BootOK /\ [Next]_vars => BootOK'
  BY BootKept DEF Process
<1>3. BootOK => RestoredOnBoot
  <2>1. ASSUME NEW k \in Keys, Restored(k), ~Garbled(k) PROVE config[k] = stored[k]
    BY <2>1 DEF Restored, Garbled, Parsed, CutAtQuote
  <2> QED
    BY <2>1 DEF BootOK, RestoredOnBoot
<1> QED
  BY <1>1, <1>2, <1>3, InductiveInvariant, ProcessInvariant, PTL DEF Spec

=============================================================================
