---------------------------- MODULE PlayerPresence ----------------------------
(***************************************************************************)
(* What the server promises about its players, without queues, coroutines  *)
(* or threads: a connection plays under a name that nobody else uses, and  *)
(* it is in one realm at a time, from a claim to the release of its name.  *)
(***************************************************************************)
CONSTANTS
  Peers, Names, Realms,
  NoPeer,     \* holder of a free name
  NoRealm     \* location of a peer outside all realms

VARIABLES
  holder,     \* the peer that plays under each name
  location    \* the realm each peer has its entity in

presenceVars == <<holder, location>>

Holds(p) == \E n \in Names : holder[n] = p

Init ==
  /\ holder = [n \in Names |-> NoPeer]
  /\ location = [p \in Peers |-> NoRealm]

Claim(p, n) ==
  /\ ~Holds(p)
  /\ holder[n] = NoPeer
  /\ holder' = [holder EXCEPT ![n] = p]
  /\ UNCHANGED location

Enter(p, r) ==
  /\ Holds(p)
  /\ location[p] = NoRealm
  /\ location' = [location EXCEPT ![p] = r]
  /\ UNCHANGED holder

Leave(p) ==
  /\ location[p] # NoRealm
  /\ location' = [location EXCEPT ![p] = NoRealm]
  /\ UNCHANGED holder

Release(p, n) ==
  /\ holder[n] = p
  /\ location[p] = NoRealm
  /\ holder' = [holder EXCEPT ![n] = NoPeer]
  /\ UNCHANGED location

Next ==
  \/ \E p \in Peers, n \in Names : Claim(p, n) \/ Release(p, n)
  \/ \E p \in Peers, r \in Realms : Enter(p, r)
  \/ \E p \in Peers : Leave(p)

Spec == Init /\ [][Next]_presenceVars
===============================================================================
