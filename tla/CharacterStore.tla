---------------------------- MODULE CharacterStore ----------------------------
(***************************************************************************)
(* What players are promised about their characters, without files,        *)
(* buffers or realms: a character comes back as it was saved, it is saved  *)
(* when it leaves a realm and before the server exits, and a crash costs   *)
(* what came after the last save.  Nothing is promised of a character      *)
(* from a write that failed or was cut off until the next good save.       *)
(***************************************************************************)
EXTENDS Naturals

CONSTANTS
  Names,    \* players
  Away      \* the progress of a character that is in no realm

VARIABLES
  process,  \* "up", "crashed" or "exited"
  saved,    \* progress of each character in the store
  playing,  \* its progress in the realm where it is, or Away
  damaged   \* characters without the promise

storeVars == <<process, saved, playing, damaged>>

Init ==
  /\ process = "up"
  /\ saved = [n \in Names |-> 0]
  /\ playing = [n \in Names |-> Away]
  /\ damaged = {}

Enter(n)   == playing[n] = Away /\ playing'[n] = saved[n] /\ saved'[n] = saved[n]
Advance(n) == playing[n] # Away /\ playing'[n] = playing[n] + 1 /\ saved'[n] = saved[n]
Save(n)    == playing[n] # Away /\ playing'[n] = playing[n] /\ saved'[n] = playing[n]
Depart(n)  == playing[n] = saved[n] /\ playing'[n] = Away /\ saved'[n] = saved[n]
Rest(n)    == playing'[n] = playing[n] /\ saved'[n] = saved[n]

\* The server runs.
Run ==
  /\ process = "up" /\ process' = "up"
  /\ \A n \in Names \ damaged' : Enter(n) \/ Advance(n) \/ Save(n) \/ Depart(n) \/ Rest(n)

\* The server exits only after every character has left its realm.
Exit ==
  /\ process = "up" /\ process' = "exited"
  /\ \A n \in Names \ damaged' : playing[n] = Away /\ Rest(n)

\* A crash keeps what was saved.
Crash ==
  /\ process = "up" /\ process' = "crashed"
  /\ \A n \in Names \ damaged' : playing'[n] = Away /\ saved'[n] = saved[n]

Restart ==
  /\ process # "up" /\ process' = "up"
  /\ \A n \in Names \ damaged' : Rest(n)

\* The promise is regained when what is played is also what is saved.
Regained == \A n \in damaged \ damaged' : saved[n] = playing[n]

Next == Regained /\ (Run \/ Exit \/ Crash \/ Restart)

Spec == Init /\ [][Next]_storeVars
===============================================================================
