---------------------------- MODULE MCReplication -----------------------------
(***************************************************************************)
(* Replication for TLC.  Realms are alike and so are ids: the invariants   *)
(* are checked up to symmetry, liveness from one first realm.              *)
(***************************************************************************)
EXTENDS Replication, TLC

Symmetry == Permutations(Realms) \cup Permutations(Ids)

FirstRealm == CHOOSE r \in Realms : TRUE

LiveInit == Init /\ nextRealm = FirstRealm

LiveSpec == LiveInit /\ [][Next]_vars /\ Fairness
===============================================================================
