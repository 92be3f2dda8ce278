\* Two workers, the network thread and the console, over two runs of the process.
CONSTANTS
  main = main
  network = network
  w1 = w1
  w2 = w2
  absent = absent
  nocommand = nocommand
  Main = main
  Network = network
  Workers <- MCWorkers
  Keys <- MCKeys
  Type <- MCType
  Absent = absent
  Default <- MCDefault
  ReadKeys <- MCReadKeys
  StartKeys <- MCRealmKeys
  RealmKeys <- MCRealmKeys
  StoreKey <- Path
  StoreFile = "store"
  Scripts = {"default.cfg", "stop.cfg", "again.cfg"}
  Script <- MCScript
  BootFiles = {"default.cfg", "stop.cfg"}
  ConsoleLines <- MCConsoleLines
  NoCommand = nocommand
  MaxDepth = 3
  MaxLines = 2
  MaxBoots = 2
SPECIFICATION FairSpec
INVARIANTS Inv NoDataRace ExplicitWins ExitSavesConfig RestoredOnBoot
PROPERTIES QuitEnds
\* The process may stop for good, and nobody has to type anything.
CHECK_DEADLOCK FALSE
