-------------------------------- MODULE Console --------------------------------
(***************************************************************************)
(* The settings of the server and the main thread that executes console    *)
(* commands: ConfigStorage, CommandParser and the life of the process from *)
(* main (server/ServerMain.cpp) to ~ServerCore.                            *)
(*                                                                         *)
(* Settings are kept per type in a map of its own under a mutex of its own.*)
(* Threads of realms and of the network read them, and fill in defaults,   *)
(* while the main thread sets them from files and from the console.  The   *)
(* accesses to a map are two steps (lock, unlock), so that it shows when   *)
(* two of them meet.                                                       *)
(***************************************************************************)
EXTENDS Integers, Sequences, FiniteSets, SequencesExt

CONSTANTS
  Main, Workers, Network,  \* the threads
  Keys, Type,              \* settings and the type of each
  Absent,                  \* a setting that is not stored
  Default,                 \* what GetOrSet stores, Absent where only Get is used
  ReadKeys,                \* settings that each thread but Main reads
  StartKeys, RealmKeys,    \* settings read by main before RunAsync, by a new realm
  StoreKey,                \* "config.store_config.file_path"
  StoreFile,               \* the file that it names
  Scripts, Script,         \* other files with commands, and their lines
  BootFiles,               \* those that LoadDefaultConfig may find first
  ConsoleLines,            \* what may be typed
  NoCommand,
  MaxDepth,                \* how deep ParseCommands may nest on the thread's stack
  MaxLines, MaxBoots       \* bounds: typed lines per run of the process, runs

Threads == {Main, Network} \cup Workers
Types == {"bool", "string", "int", "float", "vec2", "vec3", "vec4"}

ASSUME ConsoleAssumption ==
  /\ Type \in [Keys -> Types]
  /\ StartKeys \cup RealmKeys \cup {StoreKey} \subseteq Keys
  /\ DOMAIN ReadKeys = Threads \ {Main}
  /\ BootFiles \subseteq Scripts
  /\ StoreFile \notin Scripts

\* Nothing in the repository reads a boolean setting.
ASSUME ReadersAssumption ==
  \A k \in StartKeys \cup RealmKeys \cup UNION {ReadKeys[t] : t \in Threads \ {Main}} :
    Type[k] # "bool"

\* A line of a file or of the console: a set command names a setting, a source
\* command that has an argument a file.
IsLine(c) ==
  /\ c.args \in Nat
  /\ c.op = "set" => c.key \in Keys
  /\ c.op = "source" /\ c.args >= 2 => c.file \in Scripts \cup {StoreFile}

ASSUME LinesAssumption ==
  /\ \A c \in ConsoleLines : IsLine(c)
  /\ \A f \in Scripts : Script[f] \in Seq({Script[f][i] : i \in DOMAIN Script[f]})
  /\ \A f \in Scripts : \A i \in DOMAIN Script[f] : IsLine(Script[f][i])

ASSUME BoundsAssumption ==
  /\ IsFiniteSet(Keys)
  /\ \A t \in Threads \ {Main} : ReadKeys[t] \subseteq Keys
  /\ MaxDepth \in Nat \ {0} /\ MaxLines \in Nat /\ MaxBoots \in Nat \ {0}

VARIABLES
  config,        \* the maps of ConfigStorage
  explicit,      \* history: what a command set last
  raced,         \* history: settings that a command set during a GetOrSet of them
  pc, access,    \* of each thread: its access to the storage
  mainPc,        \* where the main thread stands in main()
  stack,         \* nested ParseCommands: the lines each still has to execute
  cmd, step,     \* the command being executed, and which of its steps is next
  todo,          \* settings that the main thread still has to read
  dump, dumped,  \* AllConfigsCommand: the text so far, the types it has passed
  host,          \* ServerCore::host and loop exist
  realms,        \* realms of the manager
  stopping,      \* RealmWorkThreadedManager::requestStopRunning
  requestStop,   \* ServerCore::requestStop
  scriptedQuit,  \* history: "quit" was a line of a file
  sourced,       \* history: StoreFile has been sourced
  late,          \* history: workers that had not started when the last other one left
  stored,        \* content of StoreFile: the text of each setting
  fault,         \* how the process died
  typed, boots   \* counted for the bounds

storageVars == <<config, explicit, raced, pc, access>>
commandVars == <<cmd, step>>
parserVars == <<stack, commandVars, todo, dump, dumped>>
serverVars == <<host, realms, stopping, requestStop>>
historyVars == <<scriptedQuit, sourced, late>>
fileVars == <<stored, boots>>
vars == <<storageVars, mainPc, parserVars, serverVars, historyVars, fileVars,
          fault, typed>>

MainStates == {"boot", "config", "settings", "network", "console", "ending",
               "destructor", "saving", "dumping", "exited", "unsaved", "dead"}
Alive == mainPc \notin {"exited", "unsaved", "dead"}
NoAccess == [key |-> StoreKey, val |-> Absent]
Nothing == [k \in Keys |-> Absent]

\* How far the main thread is with a command.
Start(c) == cmd' = c /\ step' = "first"
Continue(next) == step' = next /\ UNCHANGED cmd
Done == cmd' = NoCommand /\ step' = "first"

-------------------------------------------------------------------------------
(* Locks and single accesses. *)

\* Mutant: GetInteger takes the mutex of another map.
GetMutex_Wrong(type) == IF type = "int" THEN "float" ELSE type

\* The mutex that protects a map carries the map's type; GetBool takes the
\* one of the strings.
GetMutex(type) == IF type = "bool" THEN "string" ELSE type

Reading(t, m) == pc[t] = "reading" /\ GetMutex(Type[access[t].key]) = m
Writing(t, m) == pc[t] = "writing" /\ Type[access[t].key] = m
CanShare(m) == \A t \in Threads : ~Writing(t, m)
CanLock(m) == \A t \in Threads : ~Writing(t, m) /\ ~Reading(t, m)

\* GetInteger, GetString, ...: the lock is taken.
BeginGet(t, k) ==
  /\ pc[t] = "idle"
  /\ CanShare(GetMutex(Type[k]))
  /\ pc' = [pc EXCEPT ![t] = "reading"]
  /\ access' = [access EXCEPT ![t] = [key |-> k, val |-> Default[k]]]

\* Mutant: GetOrSet stores its default without looking.
EndGet_Blind(t) ==
  /\ Alive /\ pc[t] = "reading"
  /\ LET missed == access[t].val # Absent
     IN  /\ pc' = [pc EXCEPT ![t] = IF missed THEN "missed" ELSE "idle"]
         /\ access' = IF missed THEN access ELSE [access EXCEPT ![t] = NoAccess]
  /\ UNCHANGED <<config, explicit, raced, mainPc, parserVars, serverVars,
                 historyVars, fileVars, fault, typed>>

\* The lookup, and the unlock.  A GetOrSet that missed goes on to set.
EndGet(t) ==
  /\ Alive /\ pc[t] = "reading"
  /\ LET missed == config[access[t].key] = Absent /\ access[t].val # Absent
     IN  /\ pc' = [pc EXCEPT ![t] = IF missed THEN "missed" ELSE "idle"]
         /\ access' = IF missed THEN access ELSE [access EXCEPT ![t] = NoAccess]
  /\ UNCHANGED <<config, explicit, raced, mainPc, parserVars, serverVars,
                 historyVars, fileVars, fault, typed>>

\* SetInteger, ...: the lock is taken, by a GetOrSet or by a command.
BeginSet(t) ==
  /\ Alive /\ pc[t] = "missed"
  /\ CanLock(Type[access[t].key])
  /\ pc' = [pc EXCEPT ![t] = "writing"]
  /\ UNCHANGED <<config, explicit, raced, access, mainPc, parserVars, serverVars,
                 historyVars, fileVars, fault, typed>>

\* The assignment, and the unlock.
EndSet(t) ==
  /\ Alive /\ pc[t] = "writing"
  /\ LET k == access[t].key
         command == t = Main /\ cmd # NoCommand /\ cmd.op = "set"
         meets == \E u \in Threads : pc[u] = "missed" /\ access[u].key = k
     IN  /\ config' = [config EXCEPT ![k] = access[t].val]
         /\ explicit' = IF command THEN [explicit EXCEPT ![k] = access[t].val]
                                   ELSE explicit
         /\ raced' = IF ~command THEN raced
                      ELSE IF meets THEN raced \cup {k} ELSE raced \ {k}
         /\ IF command THEN Done ELSE UNCHANGED commandVars
  /\ pc' = [pc EXCEPT ![t] = "idle"]
  /\ access' = [access EXCEPT ![t] = NoAccess]
  /\ UNCHANGED <<mainPc, stack, todo, dump, dumped, serverVars, historyVars, fileVars, fault, typed>>

\* Any other thread reads one of its settings.
ThreadGets(t, k) ==
  /\ Alive
  /\ BeginGet(t, k)
  /\ UNCHANGED <<config, explicit, raced, mainPc, parserVars, serverVars,
                 historyVars, fileVars, fault, typed>>

\* The main thread reads a setting for what it is doing.
MainGets(k) ==
  /\ Alive /\ k \in todo
  /\ BeginGet(Main, k)
  /\ todo' = todo \ {k}
  /\ UNCHANGED <<config, explicit, raced, mainPc, stack, commandVars, dump, dumped,
                 serverVars, historyVars, fileVars, fault, typed>>

-------------------------------------------------------------------------------
(* Settings as text. *)

\* Where a double quote cuts a string short, in convert_to_args_list.
CutAtQuote(s) ==
  LET cuts == {i \in DOMAIN s : s[i] = "quote"}
  IN  IF cuts = {} THEN s
      ELSE SubSeq(s, 1, (CHOOSE i \in cuts : \A j \in cuts : i <= j) - 1)

\* The arguments that AllConfigsCommand writes after the name.  A floating-point
\* value, here in ten-millionths, has six decimals; a vec4 <<x, y, z, w>> is
\* written w first.
Text(type, v) ==
  CASE type = "float" -> ((v + 5) \div 10) * 10
    [] type = "vec4" -> <<v[4], v[1], v[2], v[3]>>
    [] OTHER -> v

\* What the set commands make of the arguments: setv4 takes the first for x,
\* although its help, too, lists w first.
Parsed(type, text) ==
  IF type = "string" THEN CutAtQuote(text) ELSE text

-------------------------------------------------------------------------------
(* Commands.  `args` is the number of tokens of a line, its name included. *)

\* How many tokens a command's function reads.
Needed(c) ==
  CASE c.op = "set" -> (CASE Type[c.key] = "vec2" -> 4
                          [] Type[c.key] = "vec3" -> 5
                          [] Type[c.key] = "vec4" -> 6
                          [] OTHER -> 3)
    [] c.op = "listen" -> 4
    [] c.op = "teleport" -> 6
    [] c.op \in {"source", "save"} -> 2
    [] c.op = "load_symbols" -> 3
    [] OTHER -> 1

\* Below how many it returns: listen and teleport only report the mistake,
\* source does not look, and setv3 and setv4 compare with the size of setv2.
Checked(c) ==
  CASE c.op = "set" -> IF Type[c.key] \in {"vec2", "vec3", "vec4"} THEN 4 ELSE 3
    [] c.op = "load_symbols" -> 3
    [] c.op = "save" -> 2
    [] OTHER -> 1

\* Mutant: the last line of the stored file is not executed.
Lines_AllButLast(f) ==
  IF f # StoreFile THEN Script[f]
  ELSE LET saved == {k \in Keys : stored[k] # Absent}
           line(k) == [op |-> "set", key |-> k, val |-> stored[k], args |-> 6]
       IN  [i \in 1..Cardinality(saved) - 1 |-> line(SetToSeq(saved)[i])]

\* The lines of a file.  StoreFile has one set command for each setting.
Lines(f) ==
  IF f # StoreFile THEN Script[f]
  ELSE LET saved == {k \in Keys : stored[k] # Absent}
           line(k) == [op |-> "set", key |-> k, val |-> stored[k], args |-> 6]
       IN  [i \in 1..Cardinality(saved) |-> line(SetToSeq(saved)[i])]

Dies(reason) ==
  /\ mainPc' = "dead"
  /\ fault' = reason
  /\ UNCHANGED <<storageVars, parserVars, serverVars, historyVars, fileVars, typed>>

\* ParseCommands takes the next line of the file it is in, or finds its end.
NextLine ==
  /\ Alive /\ cmd = NoCommand /\ stack # <<>>
  /\ IF Head(stack) = <<>>
       THEN stack' = Tail(stack) /\ UNCHANGED commandVars
       ELSE /\ Start(Head(Head(stack)))
            /\ stack' = <<Tail(Head(stack))>> \o Tail(stack)
  /\ UNCHANGED <<storageVars, mainPc, todo, dump, dumped, serverVars, historyVars, fileVars,
                 fault, typed>>

\* Mutant: the loop does not look at requestStop.
TypeLine_Regardless(c) ==
  /\ mainPc = "console"
  /\ cmd = NoCommand /\ stack = <<>>
  /\ typed < MaxLines
  /\ typed' = typed + 1
  /\ Start(c)
  /\ UNCHANGED <<storageVars, mainPc, stack, todo, dump, dumped, serverVars,
                 historyVars, fileVars, fault>>

\* RunMainThreadInteractive reads a line and hands it to ParseSingleCommand.
TypeLine(c) ==
  /\ mainPc = "console" /\ ~requestStop
  /\ cmd = NoCommand /\ stack = <<>>
  /\ typed < MaxLines
  /\ typed' = typed + 1
  /\ Start(c)
  /\ UNCHANGED <<storageVars, mainPc, stack, todo, dump, dumped, serverVars,
                 historyVars, fileVars, fault>>

Executing(op) == Alive /\ cmd # NoCommand /\ cmd.op = op /\ pc[Main] = "idle"
Complete == Executing(cmd.op) /\ cmd.args >= Needed(cmd)

\* Too few arguments: the command reports it, or reads past its vector.
TooFewArguments ==
  /\ cmd # NoCommand /\ Executing(cmd.op)
  /\ 1 < Needed(cmd) /\ cmd.args < Needed(cmd)
  /\ IF cmd.args < Checked(cmd)
       THEN /\ Done
            /\ UNCHANGED <<storageVars, mainPc, stack, todo, dump, dumped,
                           serverVars, historyVars, fileVars, fault, typed>>
       ELSE Dies("arguments")

\* setb, sets, seti, setf, setv2, setv3, setv4: the lock is taken; EndSet
\* completes the command.
SetCommand ==
  /\ Executing("set") /\ Complete
  /\ CanLock(Type[cmd.key])
  /\ pc' = [pc EXCEPT ![Main] = "writing"]
  /\ access' = [access EXCEPT ![Main] =
                  [key |-> cmd.key, val |-> Parsed(Type[cmd.key], cmd.val)]]
  /\ UNCHANGED <<config, explicit, raced, mainPc, parserVars, serverVars,
                 historyVars, fileVars, fault, typed>>

\* source: the lines of the file come before the rest of the present one.
SourceCommand ==
  /\ Executing("source") /\ Complete /\ Len(stack) < MaxDepth
  /\ stack' = <<Lines(cmd.file)>> \o stack
  /\ Done
  /\ sourced' = (sourced \/ cmd.file = StoreFile)
  /\ UNCHANGED <<storageVars, mainPc, todo, dump, dumped, serverVars, scriptedQuit,
                 late, fileVars, fault, typed>>

\* Files that source each other without end.
TooDeep == Executing("source") /\ Complete /\ Len(stack) = MaxDepth /\ Dies("stack")

\* help, list_commands, list_realms, realm_stats, load_symbols, unknown names.
OtherCommand ==
  /\ Executing("other") \/ Executing("load_symbols")
  /\ Complete
  /\ Done
  /\ UNCHANGED <<storageVars, mainPc, stack, todo, dump, dumped, serverVars,
                 historyVars, fileVars, fault, typed>>

\* listen and teleport hand something to the network's host.
HostCommand ==
  /\ Executing("listen") \/ Executing("teleport")
  /\ Complete
  /\ IF host
       THEN /\ Done
            /\ UNCHANGED <<storageVars, mainPc, stack, todo, dump, dumped,
                           serverVars, historyVars, fileVars, fault, typed>>
       ELSE Dies("network")

\* load_map: CreateRealm reads its settings (Init), then AddNewRealm.
LoadMap ==
  /\ Executing("load_map")
  /\ step = "first"
  /\ Continue("add")
  /\ todo' = RealmKeys
  /\ UNCHANGED <<storageVars, mainPc, stack, dump, dumped, serverVars, historyVars, fileVars,
                 fault, typed>>

AddNewRealm ==
  /\ Executing("load_map")
  /\ step = "add" /\ todo = {}
  /\ realms' = realms \cup {cmd.realm}
  /\ Done
  /\ UNCHANGED <<storageVars, mainPc, stack, todo, dump, dumped, host, stopping,
                 requestStop, historyVars, fileVars, fault, typed>>

-------------------------------------------------------------------------------
(* Stopping: Destroy, DestroyAllRealmsAndStop. *)

\* The workers that have counted themselves and have not left: runningThreads.
Running == {t \in Workers : pc[t] \notin {"off", "starting", "leaving"}}

\* Mutant: the workers are not joined.
WorkersGone_Detached == TRUE

\* WaitStopRunning: every worker has left.
WorkersGone == \A t \in Workers : pc[t] = "off"

\* Mutant: the workers are not told.
QuitCommand_NoRequest ==
  /\ Executing("quit") /\ step = "first"
  /\ requestStop' = TRUE
  /\ UNCHANGED stopping
  /\ scriptedQuit' = (scriptedQuit \/ stack # <<>>)
  /\ Continue("join")
  /\ UNCHANGED <<storageVars, mainPc, stack, todo, dump, dumped, host, realms,
                 sourced, late, fileVars, fault, typed>>

\* quit: requestStop, and Destroy begins with the request to the workers.
QuitCommand ==
  /\ Executing("quit") /\ step = "first"
  /\ requestStop' = TRUE
  /\ stopping' = TRUE
  /\ scriptedQuit' = (scriptedQuit \/ stack # <<>>)
  /\ Continue("join")
  /\ UNCHANGED <<storageVars, mainPc, stack, todo, dump, dumped, host, realms,
                 sourced, late, fileVars, fault, typed>>

\* SingleRunner: the thread has started and counts itself.
StartWorker(t) ==
  /\ Alive /\ pc[t] = "starting"
  /\ pc' = [pc EXCEPT ![t] = "idle"]
  /\ UNCHANGED <<config, explicit, raced, access, mainPc, parserVars, serverVars,
                 historyVars, fileVars, fault, typed>>

\* A worker sees the request between two epochs and leaves.
StopWorker(t) ==
  /\ Alive /\ stopping /\ pc[t] = "idle"
  /\ IF Running = {t}
       THEN /\ pc' = [pc EXCEPT ![t] = "leaving"]
            /\ late' = late \cup {u \in Workers : pc[u] = "starting"}
       ELSE pc' = [pc EXCEPT ![t] = "off"] /\ UNCHANGED late
  /\ UNCHANGED <<config, explicit, raced, access, mainPc, parserVars, serverVars,
                 scriptedQuit, sourced, fileVars, fault, typed>>

\* The last one that is counted takes the request back.  A worker that starts
\* later does not find it.
ResetRequest(t) ==
  /\ Alive /\ pc[t] = "leaving"
  /\ stopping' = FALSE
  /\ pc' = [pc EXCEPT ![t] = "off"]
  /\ UNCHANGED <<config, explicit, raced, access, mainPc, parserVars, host, realms,
                 requestStop, historyVars, fileVars, fault, typed>>

\* The workers have been joined: the realms are disconnected and forgotten.
QuitDestroysRealms ==
  /\ Executing("quit") /\ step = "join" /\ WorkersGone
  /\ realms' = {}
  /\ Continue("loop")
  /\ UNCHANGED <<storageVars, mainPc, stack, todo, dump, dumped, host, stopping,
                 requestStop, historyVars, fileVars, fault, typed>>

\* loop->Destroy ends the network thread, if there still is a loop.
QuitDestroysLoop ==
  /\ Executing("quit") /\ step = "loop"
  /\ pc[Network] \in {"off", "idle"}
  /\ pc' = [pc EXCEPT ![Network] = "off"]
  /\ host' = FALSE
  /\ Done
  /\ UNCHANGED <<config, explicit, raced, access, mainPc, stack, todo, dump, dumped,
                 realms, stopping, requestStop, historyVars, fileVars, fault, typed>>

-------------------------------------------------------------------------------
(* AllConfigsCommand, and the files it is written to. *)

TypeOrder == <<"bool", "string", "int", "float", "vec2", "vec3", "vec4">>

Before(k, l) ==
  \E i, j \in DOMAIN TypeOrder : i < j /\ Type[k] = TypeOrder[i] /\ Type[l] = TypeOrder[j]

Dumping == mainPc = "dumping" \/ (Executing("save") /\ step = "dump")

\* save_variables_to_file opens the file, which truncates it, or fails to.
SaveCommand ==
  /\ Executing("save") /\ Complete /\ step = "first"
  /\ \/ Continue("dump") /\ stored' = Nothing
     \/ Done /\ UNCHANGED stored
  /\ UNCHANGED <<storageVars, mainPc, stack, todo, dump, dumped, serverVars,
                 historyVars, boots, fault, typed>>

\* One type after the other, each under its own lock.
DumpType ==
  /\ Alive /\ Dumping /\ dumped < Len(TypeOrder)
  /\ LET type == TypeOrder[dumped + 1]
     IN  /\ CanLock(type)
         /\ dump' = [k \in Keys |->
                       IF Type[k] = type /\ config[k] # Absent
                         THEN Text(type, config[k]) ELSE dump[k]]
  /\ dumped' = dumped + 1
  /\ UNCHANGED <<storageVars, mainPc, stack, commandVars, todo, serverVars, historyVars,
                 fileVars, fault, typed>>

\* The text is written and the file closed, by the command or by ~ConfigStorage.
\* Nobody looks whether that succeeds: only the first of the lines may get there.
CloseFile ==
  /\ Alive /\ Dumping /\ dumped = Len(TypeOrder)
  /\ \E written \in SUBSET Keys :
       /\ \A k \in written : {l \in Keys : Before(l, k)} \subseteq written
       /\ stored' = [k \in Keys |-> IF k \in written THEN dump[k] ELSE Absent]
       /\ IF mainPc = "dumping"
            THEN /\ mainPc' = IF written = Keys THEN "exited" ELSE "unsaved"
                 /\ UNCHANGED commandVars
            ELSE Done /\ UNCHANGED mainPc
  /\ dump' = Nothing
  /\ dumped' = 0
  /\ UNCHANGED <<storageVars, stack, todo, serverVars, historyVars, boots, fault, typed>>

-------------------------------------------------------------------------------
(* main *)

Between == cmd = NoCommand /\ stack = <<>> /\ pc[Main] = "idle"

\* StartService, InitializeCommands, LoadDefaultConfig: the first file that
\* exists is sourced, or there is none.
StartService ==
  /\ mainPc = "boot"
  /\ host' = TRUE
  /\ \/ \E f \in BootFiles : stack' = <<Lines(f)>>
     \/ UNCHANGED stack
  /\ mainPc' = "config"
  /\ UNCHANGED <<storageVars, commandVars, todo, dump, dumped, realms, stopping, requestStop,
                 historyVars, fileVars, fault, typed>>

\* The settings that main and RunAsync read.
ConfigLoaded ==
  /\ mainPc = "config" /\ Between
  /\ todo' = StartKeys
  /\ mainPc' = "settings"
  /\ UNCHANGED <<storageVars, stack, commandVars, dump, dumped, serverVars, historyVars,
                 fileVars, fault, typed>>

\* RunAsync creates the workers, which start in their own time.
RunAsync ==
  /\ mainPc = "settings" /\ todo = {} /\ pc[Main] = "idle"
  /\ stopping' = FALSE
  /\ pc' = [t \in Threads |-> IF t \in Workers THEN "starting" ELSE pc[t]]
  /\ mainPc' = "network"
  /\ UNCHANGED <<config, explicit, raced, access, parserVars, host, realms,
                 requestStop, historyVars, fileVars, fault, typed>>

\* RunNetworkLoopAsync starts the loop, which quit in a file has destroyed.
RunNetworkLoopAsync ==
  /\ mainPc = "network"
  /\ IF host
       THEN /\ pc' = [pc EXCEPT ![Network] = "idle"]
            /\ mainPc' = "console"
            /\ UNCHANGED <<config, explicit, raced, access, parserVars, serverVars,
                           historyVars, fileVars, fault, typed>>
       ELSE Dies("network")

\* The loop of RunMainThreadInteractive ends.
RequestStop ==
  /\ mainPc = "console" /\ requestStop /\ Between
  /\ stopping' = TRUE
  /\ mainPc' = "ending"
  /\ UNCHANGED <<storageVars, parserVars, host, realms, requestStop, historyVars,
                 fileVars, fault, typed>>

\* DestroyAllRealmsAndStop after the loop; then ~ServerCore calls Destroy.
DestroyAllRealmsAndStop ==
  /\ mainPc = "ending" /\ WorkersGone
  /\ realms' = {}
  /\ mainPc' = "destructor"
  /\ UNCHANGED <<storageVars, parserVars, host, stopping, requestStop, historyVars,
                 fileVars, fault, typed>>

Destroy ==
  /\ mainPc = "destructor" /\ WorkersGone
  /\ pc[Network] \in {"off", "idle"}
  /\ pc' = [pc EXCEPT ![Network] = "off"]
  /\ realms' = {}
  /\ host' = FALSE
  /\ mainPc' = "saving"
  /\ UNCHANGED <<config, explicit, raced, access, parserVars, stopping, requestStop,
                 historyVars, fileVars, fault, typed>>

\* ~ConfigStorage, if it is told where to.
SaveOnExit ==
  /\ mainPc = "saving"
  /\ \/ /\ config[StoreKey] # Absent
        /\ mainPc' = "dumping"
        /\ stored' = Nothing
     \/ mainPc' = "unsaved" /\ UNCHANGED stored
  /\ UNCHANGED <<storageVars, parserVars, serverVars, historyVars, boots, fault, typed>>

\* The process is killed.
Crash == Alive /\ mainPc # "boot" /\ Dies("killed")

Init ==
  /\ config = Nothing
  /\ explicit = Nothing
  /\ raced = {}
  /\ pc = [t \in Threads |-> IF t = Main THEN "idle" ELSE "off"]
  /\ access = [t \in Threads |-> NoAccess]
  /\ mainPc = "boot"
  /\ stack = <<>> /\ cmd = NoCommand /\ step = "first" /\ todo = {}
  /\ dump = Nothing /\ dumped = 0
  /\ host = FALSE /\ realms = {} /\ stopping = FALSE /\ requestStop = FALSE
  /\ scriptedQuit = FALSE /\ sourced = FALSE /\ late = {}
  /\ fault = "none"
  /\ typed = 0
  /\ stored = Nothing /\ boots = 1

\* The server is started again: a fresh process that finds the stored file.
Restart ==
  /\ ~Alive /\ boots < MaxBoots
  /\ boots' = boots + 1
  /\ config' = Nothing
  /\ explicit' = Nothing
  /\ raced' = {}
  /\ pc' = [t \in Threads |-> IF t = Main THEN "idle" ELSE "off"]
  /\ access' = [t \in Threads |-> NoAccess]
  /\ mainPc' = "boot"
  /\ stack' = <<>> /\ cmd' = NoCommand /\ step' = "first" /\ todo' = {}
  /\ dump' = Nothing /\ dumped' = 0
  /\ host' = FALSE /\ realms' = {} /\ stopping' = FALSE /\ requestStop' = FALSE
  /\ scriptedQuit' = FALSE /\ sourced' = FALSE /\ late' = {}
  /\ fault' = "none"
  /\ typed' = 0
  /\ UNCHANGED stored

MainStep ==
  \/ \E k \in Keys : MainGets(k)
  \/ EndGet(Main) \/ BeginSet(Main) \/ EndSet(Main)
  \/ NextLine \/ TooFewArguments \/ SetCommand \/ SourceCommand \/ TooDeep \/ OtherCommand
  \/ HostCommand \/ LoadMap \/ AddNewRealm
  \/ QuitCommand \/ QuitDestroysRealms \/ QuitDestroysLoop
  \/ SaveCommand \/ DumpType \/ CloseFile
  \/ StartService \/ ConfigLoaded \/ RunAsync \/ RunNetworkLoopAsync
  \/ RequestStop \/ DestroyAllRealmsAndStop \/ Destroy \/ SaveOnExit

WorkerStep(t) == StartWorker(t) \/ StopWorker(t) \/ ResetRequest(t)
ThreadStep(t) == EndGet(t) \/ BeginSet(t) \/ EndSet(t) \/ (t \in Workers /\ WorkerStep(t))

Next ==
  \/ MainStep
  \/ \E c \in ConsoleLines : TypeLine(c)
  \/ \E t \in Threads \ {Main} :
       ThreadStep(t) \/ \E k \in ReadKeys[t] : ThreadGets(t, k)
  \/ Crash
  \/ Restart

Spec == Init /\ [][Next]_vars

\* Threads finish what they have begun and workers look at the request to stop
\* in every epoch; the lock of a map is given to whoever waits for it.  Nothing
\* is assumed about what is typed.
FairSpec ==
  /\ Spec
  /\ SF_vars(MainStep)
  /\ \A t \in Workers \cup {Network} : SF_vars(ThreadStep(t))
  /\ \A t \in Workers : SF_vars(WorkerStep(t))

-------------------------------------------------------------------------------
(* Properties. *)

PCs == {"off", "starting", "idle", "reading", "missed", "writing", "leaving"}

\* The shapes of all variables, and how the control states of the main thread
\* relate to its command and its files.
TypeOK ==
  /\ DOMAIN config = Keys /\ DOMAIN explicit = Keys
  /\ DOMAIN dump = Keys /\ DOMAIN stored = Keys
  /\ raced \subseteq Keys /\ todo \subseteq Keys
  /\ pc \in [Threads -> PCs]
  /\ \A t \in Threads : access[t].key \in Keys
  /\ mainPc \in MainStates
  /\ Len(stack) <= MaxDepth
  /\ step \in {"first", "add", "join", "loop", "dump"}
  /\ dumped \in 0..Len(TypeOrder)
  /\ host \in BOOLEAN /\ stopping \in BOOLEAN /\ requestStop \in BOOLEAN
  /\ scriptedQuit \in BOOLEAN /\ sourced \in BOOLEAN /\ late \subseteq Workers
  /\ fault \in {"none", "arguments", "network", "stack", "killed"}
  /\ (mainPc = "dead") = (fault # "none")
  /\ typed \in 0..MaxLines /\ boots \in 1..MaxBoots

\* The maps are plain unordered_maps: nobody else is in the map of a type while
\* a setting of that type is being written, whatever mutexes the accesses take.
\* (It would not hold of booleans: GetBool takes the mutex of the strings.)
NoDataRace ==
  \A t, u \in Threads :
    (t # u /\ pc[t] = "writing" /\ pc[u] \in {"reading", "writing"})
      => Type[access[t].key] # Type[access[u].key]

\* A setting that a command has set keeps that value: the defaults of GetOrSet
\* fill gaps only.  The one exception is a command that comes between the two
\* halves of a GetOrSet, which has seen the gap and overwrites the command's
\* value.
ExplicitWins ==
  \A k \in Keys \ raced : explicit[k] # Absent => config[k] = explicit[k]

\* An orderly exit leaves nothing running and the settings as they were at the
\* end in the file: nobody sets one after ~ConfigStorage has read it, and no
\* realm that was loaded after a quit is left behind.
ExitSavesConfig ==
  mainPc = "exited" =>
    /\ \A k \in Keys : stored[k] = IF config[k] = Absent THEN Absent
                                    ELSE Text(Type[k], config[k])
    /\ realms = {} /\ ~host
    /\ \A t \in Workers \cup {Network} : pc[t] = "off"

\* Settings that no file but the stored one sets.
SetByScripts ==
  {k \in Keys : \E f \in Scripts : \E i \in DOMAIN Script[f] :
     Script[f][i].op = "set" /\ Script[f][i].key = k}

\* Settings that do not come back from their text: setv4 takes x first where
\* AllConfigsCommand and the help put w (ConfigStorage.cpp:369-382), and a quote
\* within a string ends it.
Garbled(k) ==
  \/ Type[k] = "vec4"
  \/ Type[k] = "string" /\ \E i \in DOMAIN stored[k] : stored[k][i] = "quote"

\* After the configuration has been loaded, the settings have the values that the
\* stored file has for them, but for those that are garbled: no default of a realm
\* that the files load has come in between, and no line is lost or executed twice.
RestoredOnBoot ==
  (mainPc = "settings" /\ todo = StartKeys /\ pc[Main] = "idle" /\ sourced) =>
    \A k \in Keys \ SetByScripts :
      stored[k] # Absent /\ ~Garbled(k) => config[k] = stored[k]

\* The main thread uses the network's host and loop after Destroy only if the
\* quit stood in a file: at the console nothing is executed after it.
NetworkOutlivesUse == fault = "network" => scriptedQuit

\* What holds of every state of the process.
Inv == TypeOK /\ NetworkOutlivesUse

\* quit ends the process, whatever holds a lock when the stop is requested: no
\* thread waits for another one forever.  The one exception is a worker that had
\* not started when the last of the others left, which took the request back; the
\* main thread waits for it in vain (RealmWorkThreadedManager.cpp:205-207).
QuitEnds == requestStop ~> (~Alive \/ \E t \in late : pc[t] # "off")
===============================================================================
