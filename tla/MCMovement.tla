------------------------------ MODULE MCMovement ------------------------------
(* How characters move, how others are seen to move and what they run into, for *)
(* TLC.  The three share no state, so that each behaviour is one of a single    *)
(* part, while the others stay as they were in the beginning.                   *)
EXTENDS Movement, MovementHistory, CollisionQueries

VARIABLE part

\* A float has three digits here: up to 8 there are no gaps, up to 16 only the
\* even numbers, up to 32 those that can be divided by four.  Of two that are as
\* near the one that has an even last digit is taken.
MCFloat(v) ==
  LET size == IF v < 0 THEN -v ELSE v
      gap == CHOOSE g \in {1, 2, 4} : size <= 8 * g /\ (g = 1 \/ size > 4 * g)
      below == size \div gap
      over == 2 * (size - below * gap)
      rounded == IF over > gap \/ (over = gap /\ below % 2 = 1) THEN below + 1 ELSE below
  IN  IF v < 0 THEN -(rounded * gap) ELSE rounded * gap

mcVars == <<part, vars, historyVars, queryVars>>

MCInit ==
  /\ part \in {"player", "other", "query"}
  /\ Init /\ HistoryInit /\ QueryInit
  /\ part # "other" => currentTick = 0

MCNext ==
  /\ UNCHANGED part
  /\ \/ part = "player" /\ Next /\ UNCHANGED <<historyVars, queryVars>>
     \/ part = "other" /\ HistoryNext /\ UNCHANGED <<vars, queryVars>>
     \/ part = "query" /\ QueryNext /\ UNCHANGED <<vars, historyVars>>

\* Fairness is about the player; the other parts have invariants only.
MCSpec == MCInit /\ [][MCNext]_mcVars /\ Fairness
===============================================================================
