------------------------------- MODULE MCConsole -------------------------------
\* Console on a small instance: two workers, three settings of different kinds.
EXTENDS Console

CONSTANTS main, network, w1, w2, absent, nocommand

Stats == "metrics.realm.milliseconds_between_stats_report"
Path == "config.store_config.file_path"
Colour == "colour"

MCWorkers == {w1, w2}
MCKeys == {Stats, Path, Colour}
MCType == (Stats :> "int") @@ (Path :> "string") @@ (Colour :> "vec4")
MCRealmKeys == {Stats}
MCDefault == (Stats :> 60) @@ (Path :> absent) @@ (Colour :> absent)
MCReadKeys == (w1 :> {Stats}) @@ (w2 :> {Stats}) @@ (network :> {Path})
MCScript ==
  ("default.cfg" :> << [op |-> "source", file |-> "store", args |-> 2],
                       [op |-> "set", key |-> Path, val |-> <<"store">>, args |-> 3],
                       [op |-> "load_map", realm |-> "Forest", args |-> 2],
                       [op |-> "listen", args |-> 4] >>)
  @@ ("stop.cfg" :> << [op |-> "quit", args |-> 1],
                       [op |-> "load_map", realm |-> "Forest", args |-> 2],
                       [op |-> "teleport", args |-> 6] >>)
  @@ ("again.cfg" :> << [op |-> "source", file |-> "again.cfg", args |-> 2] >>)
MCConsoleLines ==
  { [op |-> "set", key |-> Stats, val |-> 1, args |-> 3],
    [op |-> "set", key |-> Colour, val |-> <<1, 2, 3, 4>>, args |-> 6],
    [op |-> "set", key |-> Colour, val |-> <<1, 2, 3, 4>>, args |-> 5],
    [op |-> "set", key |-> Path, val |-> <<"store", "quote">>, args |-> 3],
    [op |-> "set", key |-> Stats, val |-> 1, args |-> 2],
    [op |-> "source", file |-> "stop.cfg", args |-> 2],
    [op |-> "source", file |-> "again.cfg", args |-> 2],
    [op |-> "source", file |-> "store", args |-> 2],
    [op |-> "source", args |-> 1],
    [op |-> "load_map", realm |-> "Castle", args |-> 2],
    [op |-> "load_symbols", args |-> 3],
    [op |-> "other", args |-> 1],
    [op |-> "listen", args |-> 4],
    [op |-> "teleport", args |-> 5],
    [op |-> "save", args |-> 2],
    [op |-> "quit", args |-> 1] }
===============================================================================
