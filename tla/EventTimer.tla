------------------------------ MODULE EventTimer ------------------------------
(***************************************************************************)
(* What the event scheduling of a Realm promises to game logic, without    *)
(* heaps, flags or wake-up entries: a set of pending events with due       *)
(* ticks, and epochs (one per tick) of which each runs every event that is *)
(* due before it closes.                                                   *)
(***************************************************************************)
EXTENDS Integers

CONSTANTS
  Events,    \* EntityEvent objects that may be pending
  MaxTick    \* the last tick of the horizon

Ticks == 0 .. MaxTick

VARIABLES
  currentTick,  \* TickTimer::currentTick
  inEpoch,      \* is Realm::OneEpoch executing events?
  pending,      \* events waiting to run
  due           \* due tick of each pending event

timerVars == <<currentTick, inEpoch, pending, due>>

Overdue == {x \in pending : due[x] <= currentTick}

Init ==
  /\ currentTick = 0
  /\ inEpoch = FALSE
  /\ pending = {}
  /\ due \in [Events -> Ticks]

\* An event that is not pending is scheduled for any tick, a past one included.
Schedule(x, t) ==
  /\ x \notin pending
  /\ pending' = pending \cup {x}
  /\ due' = [due EXCEPT ![x] = t]
  /\ UNCHANGED <<currentTick, inEpoch>>

\* The events of a removed entity are never run.
Cancel(S) ==
  /\ pending' = pending \ S
  /\ UNCHANGED <<currentTick, inEpoch, due>>

Open ==
  /\ ~inEpoch
  /\ currentTick < MaxTick
  /\ currentTick' = currentTick + 1
  /\ inEpoch' = TRUE
  /\ UNCHANGED <<pending, due>>

\* A due event runs; it is finished or asks to run again at a later tick.
Run(x) ==
  /\ inEpoch
  /\ x \in Overdue
  /\ \/ pending' = pending \ {x} /\ due' = due
     \/ \E t \in Ticks :
          /\ t > currentTick
          /\ due' = [due EXCEPT ![x] = t]
          /\ pending' = pending
  /\ UNCHANGED <<currentTick, inEpoch>>

\* An epoch closes only when nothing that is due is left.
Close ==
  /\ inEpoch
  /\ Overdue = {}
  /\ inEpoch' = FALSE
  /\ UNCHANGED <<currentTick, pending, due>>

Next ==
  \/ Open
  \/ Close
  \/ \E x \in Events : Run(x)
  \/ \E x \in Events, t \in Ticks : Schedule(x, t)
  \/ \E S \in SUBSET pending : Cancel(S)

Spec == Init /\ [][Next]_timerVars
===============================================================================
