-------------------------- MODULE PlayerSession_proofs --------------------------
(***************************************************************************)
(* The invariant of the sessions for every number of connections, names,   *)
(* realms and teleports, that the assertion of ConnectPeer holds as long   *)
(* as teleports are ordered for players in a realm, and that the sessions  *)
(* keep the promise of PlayerPresence.                                     *)
(*                                                                         *)
(* What the invariant lacks is what may wait in the queues: a suspended    *)
(* arrival is the only one of its player, who is in no realm and, unless   *)
(* it has been forgotten, has a name; and a transfer leads elsewhere.      *)
(***************************************************************************)
EXTENDS PlayerSession, SequenceTheorems, FiniteSetTheorems, TLAPS

-------------------------------------------------------------------------------
(* Queues. *)

\* The command at a place of a queue is the arrival of p.
Arrives(q, r, i, p) == q[r][i].kind = "connect" /\ q[r][i].peer = p

HasArrival(q, p) == \E r \in Realms : \E i \in 1..Len(q[r]) : Arrives(q, r, i, p)

OneArrivalIn(q, p) ==
  \A r, s \in Realms : \A i \in 1..Len(q[r]), j \in 1..Len(q[s]) :
    Arrives(q, r, i, p) /\ Arrives(q, s, j, p) => r = s /\ i = j

\* A transfer leads elsewhere.
LeadsElsewhere(c) == c.kind = "transfer" => c.old # c.new

QueuesOK(q) ==
  /\ q \in [Realms -> Seq(Command)]
  /\ \A r \in Realms : \A i \in 1..Len(q[r]) : LeadsElsewhere(q[r][i])
  /\ \A p \in Peers : OneArrivalIn(q, p)

LEMMA CommandFacts ==
  /\ \A p \in Peers : \A k \in {"connect", "within", "disconnect"} :
       /\ [kind |-> k, peer |-> p] \in Command
       /\ [kind |-> k, peer |-> p].kind = k /\ [kind |-> k, peer |-> p].peer = p
  /\ \A p \in Peers, r \in Realms \cup {NoRealm}, d \in Destinations :
       [kind |-> "transfer", peer |-> p, old |-> r, new |-> d] \in Command
  /\ \A c \in Command :
       /\ c.peer \in Peers
       /\ c.kind \in {"connect", "within", "disconnect", "transfer"}
       /\ c.kind = "transfer" => c.old \in Realms \cup {NoRealm} /\ c.new \in Destinations
  BY DEF Command

LEMMA EnqueueOK ==
  ASSUME NEW q, QueuesOK(q), NEW r \in Realms, NEW c \in Command, LeadsElsewhere(c),
         c.kind = "connect" => ~HasArrival(q, c.peer)
  PROVE  /\ QueuesOK(Enqueue(q, r, c))
         /\ \A p \in Peers : HasArrival(Enqueue(q, r, c), p) =>
              HasArrival(q, p) \/ (c.kind = "connect" /\ c.peer = p)
<1> DEFINE new == Enqueue(q, r, c)
<1>1. /\ q \in [Realms -> Seq(Command)] /\ q[r] \in Seq(Command) /\ Len(q[r]) \in Nat
      /\ \A s \in Realms : Len(q[s]) \in Nat
  BY DEF QueuesOK
<1>2. /\ new \in [Realms -> Seq(Command)]
      /\ new[r] = Append(q[r], c)
      /\ \A s \in Realms : s # r => new[s] = q[s]
  BY <1>1 DEF Enqueue
<1>3. /\ Len(new[r]) = Len(q[r]) + 1
      /\ new[r][Len(q[r]) + 1] = c
      /\ \A i \in 1..Len(q[r]) : new[r][i] = q[r][i]
  BY <1>1, <1>2
<1> HIDE DEF new
<1>4. \A s \in Realms : \A i \in 1..Len(new[s]) :
        \/ i \in 1..Len(q[s]) /\ new[s][i] = q[s][i]
        \/ s = r /\ i = Len(q[r]) + 1 /\ new[s][i] = c
  BY <1>1, <1>2, <1>3
<1>5. \A s \in Realms : \A i \in 1..Len(new[s]) : LeadsElsewhere(new[s][i])
  BY <1>4 DEF QueuesOK
<1>6. ASSUME NEW p \in Peers, NEW s \in Realms, NEW i \in 1..Len(new[s]), Arrives(new, s, i, p)
      PROVE  \/ i \in 1..Len(q[s]) /\ Arrives(q, s, i, p)
             \/ /\ s = r /\ i = Len(q[r]) + 1
                /\ c.kind = "connect" /\ c.peer = p /\ ~HasArrival(q, p)
  BY <1>4, <1>6 DEF Arrives
<1>7. \A p \in Peers : OneArrivalIn(new, p)
  BY <1>6 DEF OneArrivalIn, QueuesOK, HasArrival
<1>8. \A p \in Peers : HasArrival(new, p) =>
        HasArrival(q, p) \/ (c.kind = "connect" /\ c.peer = p)
  BY <1>6 DEF HasArrival
<1> QED
  BY <1>2, <1>5, <1>7, <1>8 DEF QueuesOK, new

Pop(q, r) == [q EXCEPT ![r] = Tail(@)]

LEMMA PopOK ==
  ASSUME NEW q, QueuesOK(q), NEW r \in Realms, q[r] # <<>>
  PROVE  /\ Head(q[r]) \in Command /\ LeadsElsewhere(Head(q[r]))
         /\ QueuesOK(Pop(q, r))
         /\ \A p \in Peers : HasArrival(Pop(q, r), p) => HasArrival(q, p)
         /\ Head(q[r]).kind = "connect" =>
              HasArrival(q, Head(q[r]).peer) /\ ~HasArrival(Pop(q, r), Head(q[r]).peer)
<1> DEFINE new == Pop(q, r)
           c == Head(q[r])
<1>1. /\ q \in [Realms -> Seq(Command)] /\ q[r] \in Seq(Command) /\ Len(q[r]) \in Nat
      /\ \A s \in Realms : Len(q[s]) \in Nat
      /\ Len(q[r]) >= 1
  BY EmptySeq DEF QueuesOK
<1>2. /\ new \in [Realms -> Seq(Command)]
      /\ new[r] = Tail(q[r])
      /\ \A s \in Realms : s # r => new[s] = q[s]
  BY <1>1 DEF Pop
<1>3. /\ Len(new[r]) = Len(q[r]) - 1
      /\ \A i \in 1..Len(new[r]) : new[r][i] = q[r][i + 1]
      /\ c = q[r][1] /\ c \in Command
  BY <1>1, <1>2, HeadTailProperties
<1> HIDE DEF new, c
<1>4. \A s \in Realms : \A i \in 1..Len(new[s]) :
        \/ s # r /\ i \in 1..Len(q[s]) /\ new[s][i] = q[s][i]
        \/ s = r /\ i + 1 \in 1..Len(q[r]) /\ new[s][i] = q[r][i + 1]
  <2> TAKE s \in Realms
  <2> TAKE i \in 1..Len(new[s])
  <2>1. CASE s # r
    BY <1>2, <2>1
  <2>2. CASE s = r
    <3>1. i \in 1..Len(new[r])
      BY <2>2
    <3>2. i + 1 \in 1..Len(q[r])
      BY <1>1, <1>3, <3>1
    <3> QED
      BY <1>3, <2>2, <3>1, <3>2
  <2> QED
    BY <2>1, <2>2
<1>5. /\ \A s \in Realms : \A i \in 1..Len(new[s]) : LeadsElsewhere(new[s][i])
      /\ LeadsElsewhere(c)
  <2>1. \A s \in Realms : \A i \in 1..Len(q[s]) : LeadsElsewhere(q[s][i])
    BY DEF QueuesOK
  <2>2. LeadsElsewhere(c)
    <3>1. 1 \in 1..Len(q[r])
      BY <1>1
    <3>2. LeadsElsewhere(q[r][1])
      BY <2>1, <3>1
    <3> QED
      BY <1>3, <3>2
  <2> QED
    BY <1>4, <2>1, <2>2
<1>6. ASSUME NEW p \in Peers, NEW s \in Realms, NEW i \in 1..Len(new[s]), Arrives(new, s, i, p)
      PROVE  \/ s # r /\ i \in 1..Len(q[s]) /\ Arrives(q, s, i, p)
             \/ s = r /\ i + 1 \in 1..Len(q[r]) /\ Arrives(q, r, i + 1, p)
  BY <1>4, <1>6 DEF Arrives
<1>7. \A p \in Peers : OneArrivalIn(new, p)
  <2> SUFFICES ASSUME NEW p \in Peers, NEW s \in Realms, NEW t \in Realms,
                      NEW i \in 1..Len(new[s]), NEW j \in 1..Len(new[t]),
                      Arrives(new, s, i, p), Arrives(new, t, j, p)
               PROVE  s = t /\ i = j
    BY DEF OneArrivalIn
  <2>1. OneArrivalIn(q, p)
    BY DEF QueuesOK
  <2> QED
    BY <1>6, <2>1 DEF OneArrivalIn
<1>8. \A p \in Peers : HasArrival(new, p) => HasArrival(q, p)
  BY <1>6 DEF HasArrival
<1>9. ASSUME c.kind = "connect"
      PROVE  HasArrival(q, c.peer) /\ ~HasArrival(new, c.peer)
  <2>1. c.peer \in Peers /\ 1 \in 1..Len(q[r]) /\ Arrives(q, r, 1, c.peer)
    BY <1>1, <1>3, <1>9, CommandFacts DEF Arrives
  <2>2. ASSUME HasArrival(new, c.peer)
        PROVE  FALSE
    <3>1. PICK s \in Realms : \E i \in 1..Len(new[s]) : Arrives(new, s, i, c.peer)
      BY <2>2 DEF HasArrival
    <3>2. PICK i \in 1..Len(new[s]) : Arrives(new, s, i, c.peer)
      BY <3>1
    <3>3. OneArrivalIn(q, c.peer)
      BY <2>1 DEF QueuesOK
    <3>4. i + 1 # 1
      BY <1>1, <1>3, <1>2
    <3> QED
      BY <1>6, <2>1, <3>2, <3>3, <3>4 DEF OneArrivalIn
  <2> QED
    BY <2>1, <2>2 DEF HasArrival
<1> QED
  BY <1>2, <1>3, <1>5, <1>7, <1>8, <1>9 DEF QueuesOK, new, c

-------------------------------------------------------------------------------
(* The inductive invariant. *)

\* Types, with what is true of the queues at any time.
TypesAndQueues == TypeOK /\ QueuesOK(realmCommands)

\* Names and connections point at each other.
NamesOK ==
  /\ \A n \in Names : usernameToPeer[n] # NoPeer =>
       usernameToPeer[n] \in known /\ userName[usernameToPeer[n]] = n
  /\ \A p \in Peers : userName[p] # NoName =>
       usernameToPeer[userName[p]] = p /\ connection[p] # "new"

\* Who slipped is forgotten for good.
SlippedOK ==
  \A p \in slipped : p \notin known /\ connection[p] # "new"

\* Some realm is in the midst of connecting p.
Enters(p) == \E r \in Realms : entering[r] = p

\* Where p is, and what holds of it there and on its way.
PlaceOK(p) ==
  /\ \A r \in Realms : p \in peersData[r] <=> realm[p] = r \/ entering[r] = p
  /\ \A r, s \in Realms : entering[r] = p /\ entering[s] = p => r = s
  /\ Enters(p) => realm[p] = NoRealm /\ connection[p] # "new"
  /\ Enters(p) \/ realm[p] # NoRealm => userName[p] # NoName \/ p \in slipped
  /\ HasArrival(realmCommands, p) =>
       /\ realm[p] = NoRealm /\ ~Enters(p) /\ connection[p] # "new"
       /\ p \in known => userName[p] # NoName

IInv ==
  /\ TypesAndQueues
  /\ NamesOK
  /\ SlippedOK
  /\ fault # "assertion"
  /\ fault = "none" => \A p \in Peers : PlaceOK(p)

LEMMA InitIInv == Init => IInv
<1> SUFFICES ASSUME Init
             PROVE  IInv
  OBVIOUS
<1>1. TypeOK
  BY SessionAssumption DEF Init, TypeOK, Destinations
<1>2. \A r \in Realms : Len(realmCommands[r]) = 0
  BY DEF Init
<1>3. QueuesOK(realmCommands) /\ \A p \in Peers : ~HasArrival(realmCommands, p)
  BY <1>1, <1>2 DEF QueuesOK, OneArrivalIn, HasArrival, TypeOK
<1>4. NamesOK /\ SlippedOK /\ fault = "none"
  BY DEF Init, NamesOK, SlippedOK
<1>5. \A p \in Peers : PlaceOK(p)
  BY <1>3, SessionAssumption DEF Init, PlaceOK, Enters, Destinations
<1> QED
  BY <1>1, <1>3, <1>4, <1>5 DEF IInv, TypesAndQueues

\* The network thread gives a name back, or asks the realm first.
LEMMA HandleDisconnectOK ==
  ASSUME IInv, fault = "none", NEW p \in Peers, HandleDisconnect(p),
         UNCHANGED <<realm, nextRealm, nextPosition, peersData, entering, teleports,
                     fault>>,
         connection' \in [Peers -> {"new", "open", "closed"}],
         \A q \in Peers : connection[q] # "new" => connection'[q] # "new",
         coreCommands' \in Seq(Peers)
  PROVE  IInv'
<1>1. /\ TypeOK /\ QueuesOK(realmCommands) /\ NamesOK /\ SlippedOK
      /\ \A q \in Peers : PlaceOK(q)
  BY DEF IInv, TypesAndQueues
<1>2. CASE realm[p] # NoRealm
  <2> DEFINE c == [kind |-> "disconnect", peer |-> p]
  <2>1. c \in Command /\ c.kind = "disconnect"
    BY CommandFacts
  <2>2. realm[p] \in Realms
    BY <1>1, <1>2 DEF TypeOK
  <2>3. /\ realmCommands' = Enqueue(realmCommands, realm[p], c)
        /\ UNCHANGED <<known, userName, usernameToPeer, slipped>>
    BY <1>2 DEF HandleDisconnect
  <2> HIDE DEF c
  <2>4. /\ QueuesOK(realmCommands')
        /\ \A q \in Peers : HasArrival(realmCommands', q) => HasArrival(realmCommands, q)
    BY <1>1, <2>1, <2>2, <2>3, EnqueueOK DEF LeadsElsewhere
  <2>5. TypeOK'
    BY <1>1, <2>3, <2>4 DEF TypeOK, QueuesOK
  <2>6. NamesOK' /\ SlippedOK'
    BY <1>1, <2>3 DEF NamesOK, SlippedOK, TypeOK
  <2>7. \A q \in Peers : PlaceOK(q)'
    BY <1>1, <2>3, <2>4 DEF PlaceOK, Enters
  <2> QED
    BY <2>4, <2>5, <2>6, <2>7 DEF IInv, TypesAndQueues
<1>3. CASE realm[p] = NoRealm
  <2>1. /\ known' = known \ {p}
        /\ usernameToPeer' =
             [n \in Names |-> IF n = userName[p] THEN NoPeer ELSE usernameToPeer[n]]
        /\ userName' = [userName EXCEPT ![p] = NoName]
        /\ realmCommands' = realmCommands
        /\ slipped' = IF Enters(p) THEN slipped \cup {p} ELSE slipped
    BY <1>3 DEF HandleDisconnect, Enters
  <2>2. TypeOK'
    <3>1. /\ known \subseteq Peers /\ userName \in [Peers -> Names \cup {NoName}]
          /\ usernameToPeer \in [Names -> Peers \cup {NoPeer}] /\ slipped \subseteq Peers
      BY <1>1 DEF TypeOK
    <3>2. /\ known' \subseteq Peers /\ userName' \in [Peers -> Names \cup {NoName}]
          /\ slipped' \subseteq Peers
      BY <2>1, <3>1
    <3>3. usernameToPeer' \in [Names -> Peers \cup {NoPeer}]
      BY <2>1, <3>1
    <3> QED
      BY <1>1, <2>1, <3>2, <3>3 DEF TypeOK
  <2>3. /\ \A q \in Peers : userName'[q] = IF q = p THEN NoName ELSE userName[q]
        /\ \A n \in Names :
             usernameToPeer'[n] = IF n = userName[p] THEN NoPeer ELSE usernameToPeer[n]
        /\ \A q \in Peers : userName[q] # NoName => userName[q] \in Names
        /\ \A n \in Names : usernameToPeer[n] # NoPeer => usernameToPeer[n] \in Peers
    BY <1>1, <2>1 DEF TypeOK
  <2>4. NamesOK'
    BY <1>1, <2>1, <2>3 DEF NamesOK
  <2>5. SlippedOK'
    BY <1>1, <2>1 DEF SlippedOK, PlaceOK, TypeOK
  <2>6. \A q \in Peers : PlaceOK(q)'
    <3>1. /\ Enters(p) => p \in slipped'
          /\ \A q \in slipped : q \in slipped'
          /\ p \notin known' /\ \A q \in Peers : q \in known' => q \in known
      BY <2>1
    <3>2. \A q \in Peers : Enters(q)' <=> Enters(q)
      BY DEF Enters
    <3> QED
      BY <1>1, <1>3, <2>1, <2>3, <3>1, <3>2 DEF PlaceOK
  <2> QED
    BY <1>1, <2>1, <2>2, <2>4, <2>5, <2>6 DEF IInv, TypesAndQueues
<1> QED
  BY <1>2, <1>3

-------------------------------------------------------------------------------
(* The network thread preserves it. *)

LEMMA OnPeerConnectOK ==
  ASSUME IInv, fault = "none", NEW p \in Peers, OnPeerConnect(p)
  PROVE  IInv'
<1>1. /\ TypeOK /\ QueuesOK(realmCommands) /\ NamesOK /\ SlippedOK
      /\ \A q \in Peers : PlaceOK(q)
  BY DEF IInv, TypesAndQueues
<1>2. /\ connection[p] = "new"
      /\ connection' \in [Peers -> {"new", "open", "closed"}]
      /\ connection'[p] = "open"
      /\ \A q \in Peers : q # p => connection'[q] = connection[q]
      /\ known' = known \cup {p}
  BY <1>1 DEF OnPeerConnect, TypeOK
<1>3. TypeOK'
  BY <1>1, <1>2 DEF OnPeerConnect, TypeOK, peerData
<1>4. NamesOK' /\ SlippedOK'
  BY <1>1, <1>2 DEF OnPeerConnect, NamesOK, SlippedOK, TypeOK, peerData
<1>5. \A q \in Peers : PlaceOK(q)'
  BY <1>1, <1>2 DEF OnPeerConnect, PlaceOK, Enters, peerData
<1> QED
  BY <1>1, <1>3, <1>4, <1>5 DEF IInv, TypesAndQueues, OnPeerConnect

LEMMA OnPeerDisconnectOK ==
  ASSUME IInv, fault = "none", NEW p \in Peers, OnPeerDisconnect(p)
  PROVE  IInv'
<1>1. /\ connection' \in [Peers -> {"new", "open", "closed"}]
      /\ \A q \in Peers : connection[q] # "new" => connection'[q] # "new"
      /\ coreCommands' \in Seq(Peers)
  BY DEF IInv, TypesAndQueues, TypeOK, OnPeerDisconnect
<1> QED
  BY <1>1, HandleDisconnectOK DEF OnPeerDisconnect

LEMMA AfterDisconnectOK ==
  ASSUME IInv, fault = "none", AfterDisconnect
  PROVE  IInv'
<1>1. /\ connection \in [Peers -> {"new", "open", "closed"}]
      /\ coreCommands \in Seq(Peers)
  BY DEF IInv, TypesAndQueues, TypeOK
<1>2. Head(coreCommands) \in Peers /\ Tail(coreCommands) \in Seq(Peers)
  BY <1>1, HeadTailProperties DEF AfterDisconnect
<1> QED
  BY <1>1, <1>2, HandleDisconnectOK DEF AfterDisconnect

\* Who logs in has no name, so that no arrival of it waits.
LEMMA LoginOK ==
  ASSUME IInv, fault = "none", NEW p \in Peers, NEW n \in Names, NEW d \in Destinations,
         Login(p, n, d)
  PROVE  IInv'
<1>1. /\ TypeOK /\ QueuesOK(realmCommands) /\ NamesOK /\ SlippedOK
      /\ \A q \in Peers : PlaceOK(q)
  BY DEF IInv, TypesAndQueues
<1>2. /\ connection[p] = "open" /\ p \in known
      /\ realm[p] = NoRealm /\ userName[p] = NoName /\ usernameToPeer[n] = NoPeer
      /\ realmCommands' = Route(realmCommands, p, NoRealm, d, NoRealm)
      /\ UNCHANGED <<connection, known, realm, nextPosition, peersData, entering,
                     slipped, coreCommands, teleports, fault>>
  BY DEF Login
<1>3. /\ usernameToPeer' \in [Names -> Peers \cup {NoPeer}]
      /\ userName' \in [Peers -> Names \cup {NoName}]
      /\ nextRealm' \in [Peers -> Destinations \cup {NoRealm}]
  BY <1>1 DEF Login, TypeOK
<1>4. /\ usernameToPeer'[n] = p /\ userName'[p] = n
      /\ \A m \in Names : m # n => usernameToPeer'[m] = usernameToPeer[m]
      /\ \A q \in Peers : q # p => userName'[q] = userName[q]
      /\ \A q \in Peers : userName[q] # NoName => userName[q] \in Names
  BY <1>1 DEF Login, TypeOK
<1>5. ~HasArrival(realmCommands, p) /\ ~Enters(p)
  BY <1>1, <1>2 DEF PlaceOK, SlippedOK
<1>6. /\ QueuesOK(realmCommands')
      /\ \A q \in Peers : HasArrival(realmCommands', q) => HasArrival(realmCommands, q) \/ q = p
  <2> DEFINE c == [kind |-> "connect", peer |-> p]
  <2>1. c \in Command /\ c.kind = "connect" /\ c.peer = p
    BY CommandFacts
  <2> HIDE DEF c
  <2>2. CASE d \in Realms
    <3>1. realmCommands' = Enqueue(realmCommands, d, c)
      BY <1>2, <2>2, SessionAssumption DEF Route, c
    <3> QED
      BY <1>1, <1>5, <2>1, <2>2, <3>1, EnqueueOK DEF LeadsElsewhere
  <2>3. CASE d \notin Realms
    BY <1>1, <1>2, <2>3, SessionAssumption DEF Route
  <2> QED
    BY <2>2, <2>3
<1>7. TypeOK'
  BY <1>1, <1>2, <1>3, <1>6 DEF TypeOK, QueuesOK
<1>8. NamesOK'
  <2>1. ASSUME NEW m \in Names, usernameToPeer'[m] # NoPeer
        PROVE  usernameToPeer'[m] \in known' /\ userName'[usernameToPeer'[m]] = m
    <3>1. CASE m = n
      BY <1>2, <1>4, <3>1
    <3>2. CASE m # n
      <4>1. usernameToPeer'[m] = usernameToPeer[m] /\ usernameToPeer[m] # NoPeer
        BY <1>4, <2>1, <3>2
      <4>2. /\ usernameToPeer[m] \in Peers /\ usernameToPeer[m] \in known
            /\ userName[usernameToPeer[m]] = m
        BY <1>1, <4>1 DEF NamesOK, TypeOK
      <4>3. usernameToPeer[m] # p
        BY <1>2, <4>2, SessionAssumption
      <4> QED
        BY <1>2, <1>4, <4>1, <4>2, <4>3
    <3> QED
      BY <3>1, <3>2
  <2>2. ASSUME NEW q \in Peers, userName'[q] # NoName
        PROVE  usernameToPeer'[userName'[q]] = q /\ connection'[q] # "new"
    <3>1. CASE q = p
      BY <1>2, <1>4, <3>1
    <3>2. CASE q # p
      <4>1. userName'[q] = userName[q] /\ userName[q] \in Names
        BY <1>4, <2>2, <3>2
      <4>2. usernameToPeer[userName[q]] = q /\ connection[q] # "new"
        BY <1>1, <2>2, <4>1 DEF NamesOK
      <4>3. userName[q] # n
        BY <1>2, <4>2, SessionAssumption
      <4> QED
        BY <1>2, <1>4, <4>1, <4>2, <4>3
    <3> QED
      BY <3>1, <3>2
  <2> QED
    BY <2>1, <2>2 DEF NamesOK
<1>9. \A q \in Peers : PlaceOK(q)'
  <2>1. \A q \in Peers : Enters(q)' <=> Enters(q)
    BY <1>2 DEF Enters
  <2> QED
    BY <1>1, <1>2, <1>4, <1>5, <1>6, <2>1, SessionAssumption DEF PlaceOK
<1>10. SlippedOK'
  BY <1>1, <1>2 DEF SlippedOK
<1> QED
  BY <1>2, <1>6, <1>7, <1>8, <1>9, <1>10 DEF IInv, TypesAndQueues

\* A player in a realm is routed from there, within it or out of it.
LEMMA TeleportInRealmOK ==
  ASSUME IInv, fault = "none", NEW n \in Names, NEW d \in Destinations,
         TeleportInRealm(n, d)
  PROVE  IInv'
<1> DEFINE p == usernameToPeer[n]
<1>1. /\ TypeOK /\ QueuesOK(realmCommands) /\ NamesOK /\ SlippedOK
      /\ \A q \in Peers : PlaceOK(q)
  BY DEF IInv, TypesAndQueues
<1>2. p \in Peers /\ realm[p] \in Realms
  BY <1>1 DEF TeleportInRealm, Teleport, TypeOK
<1>3. /\ realmCommands' = Route(realmCommands, p, realm[p], d, realm[p])
      /\ UNCHANGED <<connection, known, userName, realm, usernameToPeer, peersData,
                     entering, slipped, coreCommands, fault>>
  BY DEF TeleportInRealm, Teleport
<1>4. /\ nextRealm' \in [Peers -> Destinations \cup {NoRealm}]
      /\ nextPosition' \subseteq Peers
      /\ teleports' \in 0 .. MaxTeleports
  <2>1. nextRealm' = [nextRealm EXCEPT ![p] = d] /\ nextPosition' = nextPosition \cup {p}
    BY DEF TeleportInRealm, Teleport
  <2>2. teleports' = teleports + 1 /\ teleports < MaxTeleports
    BY DEF TeleportInRealm, Teleport
  <2> QED
    BY <1>1, <1>2, <2>1, <2>2, SessionAssumption DEF TypeOK
<1> HIDE DEF p
<1>5. /\ QueuesOK(realmCommands')
      /\ \A q \in Peers : HasArrival(realmCommands', q) => HasArrival(realmCommands, q)
  <2>1. CASE realm[p] = d
    <3> DEFINE c == [kind |-> "within", peer |-> p]
    <3>1. c \in Command /\ c.kind = "within"
      BY <1>2, CommandFacts
    <3>2. realmCommands' = Enqueue(realmCommands, realm[p], c)
      BY <1>3, <2>1 DEF Route
    <3> HIDE DEF c
    <3> QED
      BY <1>1, <1>2, <3>1, <3>2, EnqueueOK DEF LeadsElsewhere
  <2>2. CASE realm[p] # d
    <3> DEFINE c == [kind |-> "transfer", peer |-> p, old |-> realm[p], new |-> d]
    <3>1. c \in Command /\ c.kind = "transfer" /\ c.old # c.new
      BY <1>2, <2>2, CommandFacts
    <3>2. realmCommands' = Enqueue(realmCommands, realm[p], c)
      BY <1>2, <1>3, <2>2, SessionAssumption DEF Route, Destinations
    <3> HIDE DEF c
    <3> QED
      BY <1>1, <1>2, <3>1, <3>2, EnqueueOK DEF LeadsElsewhere
  <2> QED
    BY <2>1, <2>2
<1>6. TypeOK'
  BY <1>1, <1>3, <1>4, <1>5 DEF TypeOK, QueuesOK
<1>7. NamesOK' /\ SlippedOK'
  BY <1>1, <1>3 DEF NamesOK, SlippedOK
<1>8. \A q \in Peers : PlaceOK(q)'
  BY <1>1, <1>3, <1>5 DEF PlaceOK, Enters
<1> QED
  BY <1>3, <1>5, <1>6, <1>7, <1>8 DEF IInv, TypesAndQueues

-------------------------------------------------------------------------------
(* The realms preserve it. *)

LEMMA PlayerDiesOK ==
  ASSUME IInv, fault = "none", NEW r \in Realms, NEW p \in Peers, PlayerDies(r, p)
  PROVE  IInv'
<1>1. TypeOK /\ QueuesOK(realmCommands) /\ NamesOK /\ SlippedOK
  BY DEF IInv, TypesAndQueues
<1>2. peersData' \in [Realms -> SUBSET Peers]
  BY <1>1 DEF PlayerDies, TypeOK
<1>3. TypeOK'
  BY <1>1, <1>2 DEF PlayerDies, TypeOK, peerData
<1>4. NamesOK' /\ SlippedOK'
  BY <1>1 DEF PlayerDies, NamesOK, SlippedOK, peerData
<1> QED
  BY <1>1, <1>3, <1>4 DEF IInv, TypesAndQueues, PlayerDies

\* What a realm takes from its queue.
LEMMA FrontFacts ==
  ASSUME QueuesOK(realmCommands), NEW r \in Realms, realmCommands[r] # <<>>
  PROVE  LET c == Head(realmCommands[r])
         IN  /\ Popped(r) = Pop(realmCommands, r)
             /\ c \in Command /\ c.peer \in Peers /\ LeadsElsewhere(c)
             /\ QueuesOK(Popped(r))
             /\ \A p \in Peers : HasArrival(Popped(r), p) => HasArrival(realmCommands, p)
             /\ c.kind = "connect" =>
                  /\ HasArrival(realmCommands, c.peer)
                  /\ ~HasArrival(Popped(r), c.peer)
<1>1. Popped(r) = Pop(realmCommands, r)
  BY DEF Popped, Pop
<1>2. Head(realmCommands[r]) \in Command
  BY PopOK
<1>3. Head(realmCommands[r]).peer \in Peers
  BY <1>2, CommandFacts
<1> QED
  BY <1>1, <1>2, <1>3, PopOK

\* A player arrives: it was the only arrival of this player, who was in no realm.
LEMMA ConnectPeerOK ==
  ASSUME IInv, fault = "none", NEW r \in Realms, ConnectPeer(r)
  PROVE  IInv'
<1> DEFINE p == Head(realmCommands[r]).peer
<1>1. /\ TypeOK /\ QueuesOK(realmCommands) /\ NamesOK /\ SlippedOK
      /\ \A q \in Peers : PlaceOK(q)
  BY DEF IInv, TypesAndQueues
<1>2. /\ realmCommands[r] # <<>> /\ Head(realmCommands[r]).kind = "connect"
      /\ entering[r] = NoPeer
  BY DEF ConnectPeer, FrontIs
<1>3. /\ p \in Peers /\ QueuesOK(Popped(r))
      /\ \A q \in Peers : HasArrival(Popped(r), q) => HasArrival(realmCommands, q)
      /\ HasArrival(realmCommands, p) /\ ~HasArrival(Popped(r), p)
  BY <1>1, <1>2, FrontFacts
<1>4. /\ realmCommands' = Popped(r)
      /\ UNCHANGED <<connection, known, userName, realm, nextRealm, nextPosition,
                     usernameToPeer, slipped, coreCommands, teleports>>
  BY DEF ConnectPeer
<1>5. /\ realm[p] = NoRealm /\ ~Enters(p) /\ connection[p] # "new"
      /\ p \in known => userName[p] # NoName
  BY <1>1, <1>3 DEF PlaceOK
<1>6. \A s \in Realms : p \notin peersData[s] /\ entering[s] # p
  BY <1>1, <1>3, <1>5, SessionAssumption DEF PlaceOK, Enters, Destinations
<1>7. /\ peersData' = [peersData EXCEPT ![r] = @ \cup {p}]
      /\ \/ p \notin known /\ fault' = "nullData" /\ entering' = entering
         \/ p \in known /\ fault' = fault /\ entering' = [entering EXCEPT ![r] = p]
  BY <1>6 DEF ConnectPeer
<1> HIDE DEF p
<1>8. /\ peersData' \in [Realms -> SUBSET Peers]
      /\ peersData'[r] = peersData[r] \cup {p}
      /\ \A s \in Realms : s # r => peersData'[s] = peersData[s]
      /\ entering' \in [Realms -> Peers \cup {NoPeer}]
      /\ \A s \in Realms : s # r => entering'[s] = entering[s]
      /\ fault' \in {"none", "nullData"}
      /\ fault' = "none" => entering'[r] = p /\ p \in known
  BY <1>1, <1>3, <1>7 DEF TypeOK
<1>9. TypeOK'
  BY <1>1, <1>3, <1>4, <1>8 DEF TypeOK, QueuesOK
<1>10. NamesOK' /\ SlippedOK'
  BY <1>1, <1>4 DEF NamesOK, SlippedOK
<1>11. ASSUME fault' = "none", NEW q \in Peers
       PROVE  PlaceOK(q)'
  <2>1. CASE q = p
    <3>1. /\ ~HasArrival(realmCommands', q) /\ realm'[q] = NoRealm
          /\ userName'[q] # NoName /\ connection'[q] # "new"
      BY <1>3, <1>4, <1>5, <1>8, <1>11, <2>1
    <3>2. \A s \in Realms : /\ q \in peersData'[s] <=> s = r
                            /\ entering'[s] = q <=> s = r
      BY <1>6, <1>8, <1>11, <2>1
    <3>3. \A s \in Realms : realm'[q] # s
      BY <3>1, SessionAssumption DEF Destinations
    <3> QED
      BY <3>1, <3>2, <3>3 DEF PlaceOK, Enters
  <2>2. CASE q # p
    <3>1. \A s \in Realms : /\ q \in peersData'[s] <=> q \in peersData[s]
                            /\ entering'[s] = q <=> entering[s] = q
      BY <1>2, <1>8, <1>11, <2>2, SessionAssumption
    <3>2. Enters(q)' <=> Enters(q)
      BY <3>1 DEF Enters
    <3> QED
      BY <1>1, <1>3, <1>4, <3>1, <3>2 DEF PlaceOK
  <2> QED
    BY <2>1, <2>2
<1> QED
  BY <1>3, <1>4, <1>8, <1>9, <1>10, <1>11 DEF IInv, TypesAndQueues

\* PeerData is told: the peer is where it was about to be.
LEMMA StoreRealmOK ==
  ASSUME IInv, fault = "none", NEW r \in Realms, StoreRealm(r)
  PROVE  IInv'
<1> DEFINE p == entering[r]
<1>1. /\ TypeOK /\ QueuesOK(realmCommands) /\ NamesOK /\ SlippedOK
      /\ \A q \in Peers : PlaceOK(q)
  BY DEF IInv, TypesAndQueues
<1>2. /\ p \in Peers /\ p # NoPeer
      /\ realm' = [realm EXCEPT ![p] = r]
      /\ entering' = [entering EXCEPT ![r] = NoPeer]
      /\ UNCHANGED <<connection, known, userName, nextRealm, nextPosition, usernameToPeer,
                     peersData, slipped, realmCommands, coreCommands, teleports, fault>>
  BY <1>1 DEF StoreRealm, TypeOK
<1>3. /\ Enters(p) /\ realm[p] = NoRealm /\ ~HasArrival(realmCommands, p)
      /\ userName[p] # NoName \/ p \in slipped
      /\ \A s \in Realms : entering[s] = p => s = r
  BY <1>1, <1>2 DEF PlaceOK, Enters
<1> HIDE DEF p
<1>4. /\ realm' \in [Peers -> Realms \cup {NoRealm}]
      /\ entering' \in [Realms -> Peers \cup {NoPeer}]
      /\ realm'[p] = r /\ \A q \in Peers : q # p => realm'[q] = realm[q]
      /\ entering'[r] = NoPeer
      /\ \A s \in Realms : s # r => entering'[s] = entering[s]
  BY <1>1, <1>2 DEF TypeOK
<1>5. TypeOK'
  BY <1>1, <1>2, <1>4 DEF TypeOK
<1>6. NamesOK' /\ SlippedOK'
  BY <1>1, <1>2 DEF NamesOK, SlippedOK
<1>7. ASSUME NEW q \in Peers
      PROVE  PlaceOK(q)'
  <2>1. CASE q = p
    <3>1. \A s \in Realms : entering'[s] # q /\ (q \in peersData'[s] <=> s = r)
      BY <1>1, <1>2, <1>3, <1>4, <2>1, SessionAssumption DEF PlaceOK, Destinations, p
    <3> QED
      BY <1>2, <1>3, <1>4, <2>1, <3>1 DEF PlaceOK, Enters
  <2>2. CASE q # p
    <3>1. \A s \in Realms : entering'[s] = q <=> entering[s] = q
      BY <1>4, <2>2, SessionAssumption DEF p
    <3>2. Enters(q)' <=> Enters(q)
      BY <3>1 DEF Enters
    <3> QED
      BY <1>1, <1>2, <1>4, <2>2, <3>1, <3>2 DEF PlaceOK
  <2> QED
    BY <2>1, <2>2
<1> QED
  BY <1>1, <1>2, <1>5, <1>6, <1>7 DEF IInv, TypesAndQueues

LEMMA MoveWithinOK ==
  ASSUME IInv, fault = "none", NEW r \in Realms, MoveWithin(r)
  PROVE  IInv'
<1>1. /\ TypeOK /\ QueuesOK(realmCommands) /\ NamesOK /\ SlippedOK
      /\ \A q \in Peers : PlaceOK(q)
  BY DEF IInv, TypesAndQueues
<1>2. /\ realmCommands' = Popped(r) /\ QueuesOK(Popped(r))
      /\ \A q \in Peers : HasArrival(Popped(r), q) => HasArrival(realmCommands, q)
  BY <1>1, FrontFacts DEF MoveWithin, FrontIs
<1>3. nextPosition' \subseteq Peers /\ fault' \in {"none", "nullUserPointer"}
  BY <1>1 DEF MoveWithin, TypeOK
<1>4. UNCHANGED <<connection, known, userName, realm, nextRealm, usernameToPeer,
                  peersData, entering, slipped, coreCommands, teleports>>
  BY DEF MoveWithin
<1>5. TypeOK'
  BY <1>1, <1>2, <1>3, <1>4 DEF TypeOK, QueuesOK
<1>6. NamesOK' /\ SlippedOK'
  BY <1>1, <1>4 DEF NamesOK, SlippedOK
<1>7. \A q \in Peers : PlaceOK(q)'
  BY <1>1, <1>2, <1>4 DEF PlaceOK, Enters
<1> QED
  BY <1>2, <1>3, <1>5, <1>6, <1>7 DEF IInv, TypesAndQueues

\* What DisconnectPeer does to a player of the realm, or to nobody.
LEMMA DisconnectPeerFacts ==
  ASSUME TypeOK, \A q \in Peers : PlaceOK(q), NEW r \in Realms, NEW p \in Peers,
         DisconnectPeer(r, p), entering[r] # p
  PROVE  /\ peersData' \in [Realms -> SUBSET Peers]
         /\ realm' \in [Peers -> Realms \cup {NoRealm}]
         /\ nextPosition' \subseteq Peers
         /\ \A q \in Peers, s \in Realms :
              q \in peersData'[s] <=> realm'[q] = s \/ entering[s] = q
         /\ \A q \in Peers : q # p => realm'[q] = realm[q]
         /\ realm'[p] = IF realm[p] = r THEN NoRealm ELSE realm[p]
<1>1. /\ peersData \in [Realms -> SUBSET Peers]
      /\ realm \in [Peers -> Realms \cup {NoRealm}]
      /\ nextPosition \subseteq Peers
      /\ \A q \in Peers, s \in Realms :
           q \in peersData[s] <=> realm[q] = s \/ entering[s] = q
      /\ \A s \in Realms : entering[s] = p => realm[p] = NoRealm
  BY DEF TypeOK, PlaceOK, Enters
<1>2. CASE p \in peersData[r]
  <2>1. /\ peersData' = [peersData EXCEPT ![r] = @ \ {p}]
        /\ nextPosition' = nextPosition \ {p}
        /\ realm' = [realm EXCEPT ![p] = NoRealm]
    BY <1>2 DEF DisconnectPeer
  <2>2. /\ peersData' \in [Realms -> SUBSET Peers]
        /\ realm' \in [Peers -> Realms \cup {NoRealm}]
        /\ peersData'[r] = peersData[r] \ {p}
        /\ \A s \in Realms : s # r => peersData'[s] = peersData[s]
        /\ realm'[p] = NoRealm
        /\ \A q \in Peers : q # p => realm'[q] = realm[q]
    BY <1>1, <2>1
  <2>3. realm[p] = r /\ \A s \in Realms : s # NoRealm /\ entering[s] # p
    BY <1>1, <1>2, SessionAssumption DEF Destinations
  <2>4. \A q \in Peers, s \in Realms :
          q \in peersData'[s] <=> realm'[q] = s \/ entering[s] = q
    BY <1>1, <2>2, <2>3
  <2> QED
    BY <1>1, <2>1, <2>2, <2>3, <2>4
<1>3. CASE p \notin peersData[r]
  BY <1>1, <1>3 DEF DisconnectPeer
<1> QED
  BY <1>2, <1>3

\* A player leaves: what PlaceOK says of players outlives it.
LEMMA LeavingOK ==
  ASSUME IInv, fault = "none", NEW r \in Realms, NEW p \in Peers, DisconnectPeer(r, p),
         entering[r] # p,
         UNCHANGED <<connection, known, userName, nextRealm, usernameToPeer, entering,
                     slipped, teleports, fault>>,
         coreCommands' \in Seq(Peers), QueuesOK(realmCommands'),
         \A q \in Peers : HasArrival(realmCommands', q) =>
           \/ HasArrival(realmCommands, q)
           \/ q = p /\ realm[p] = r
  PROVE  IInv'
<1>1. /\ TypeOK /\ NamesOK /\ SlippedOK
      /\ \A q \in Peers : PlaceOK(q)
  BY DEF IInv, TypesAndQueues
<1>2. /\ peersData' \in [Realms -> SUBSET Peers]
      /\ realm' \in [Peers -> Realms \cup {NoRealm}]
      /\ nextPosition' \subseteq Peers
      /\ \A q \in Peers, s \in Realms :
           q \in peersData'[s] <=> realm'[q] = s \/ entering[s] = q
      /\ \A q \in Peers : q # p => realm'[q] = realm[q]
      /\ realm'[p] = IF realm[p] = r THEN NoRealm ELSE realm[p]
  BY <1>1, DisconnectPeerFacts
<1>3. r # NoRealm
  BY SessionAssumption DEF Destinations
<1>4. TypeOK'
  BY <1>1, <1>2 DEF TypeOK, QueuesOK
<1>5. NamesOK' /\ SlippedOK'
  BY <1>1 DEF NamesOK, SlippedOK
<1>6. ASSUME NEW q \in Peers
      PROVE  PlaceOK(q)'
  <2>1. /\ Enters(q)' <=> Enters(q)
        /\ realm'[q] # NoRealm => realm[q] # NoRealm
        /\ realm[q] = NoRealm => realm'[q] = NoRealm
    BY <1>2 DEF Enters
  <2>2. ASSUME HasArrival(realmCommands', q)
        PROVE  /\ realm'[q] = NoRealm /\ ~Enters(q)' /\ connection'[q] # "new"
               /\ q \in known' => userName'[q] # NoName
    <3>1. CASE HasArrival(realmCommands, q)
      BY <1>1, <2>1, <3>1 DEF PlaceOK
    <3>2. CASE q = p /\ realm[p] = r
      <4>1. (userName[p] # NoName \/ p \in slipped) /\ ~Enters(p)
        BY <1>1, <1>3, <3>2 DEF PlaceOK
      <4>2. connection[p] # "new" /\ (p \in known => userName[p] # NoName)
        BY <1>1, <4>1 DEF NamesOK, SlippedOK
      <4> QED
        BY <1>2, <2>1, <3>2, <4>1, <4>2
    <3> QED
      BY <2>2, <3>1, <3>2
  <2>3. \A t, u \in Realms : entering'[t] = q /\ entering'[u] = q => t = u
    BY <1>1 DEF PlaceOK
  <2> QED
    BY <1>1, <1>2, <2>1, <2>2, <2>3 DEF PlaceOK
<1> QED
  BY <1>4, <1>5, <1>6 DEF IInv, TypesAndQueues

LEMMA DisconnectOnRealmOK ==
  ASSUME IInv, fault = "none", NEW r \in Realms, DisconnectOnRealm(r)
  PROVE  IInv'
<1> DEFINE p == Head(realmCommands[r]).peer
<1>1. TypeOK /\ QueuesOK(realmCommands)
  BY DEF IInv, TypesAndQueues
<1>2. /\ p \in Peers /\ QueuesOK(Popped(r)) /\ realmCommands' = Popped(r)
      /\ \A q \in Peers : HasArrival(Popped(r), q) => HasArrival(realmCommands, q)
  BY <1>1, FrontFacts DEF DisconnectOnRealm, FrontIs
<1>3. /\ DisconnectPeer(r, p) /\ coreCommands' = Append(coreCommands, p)
      /\ UNCHANGED <<connection, known, userName, nextRealm, usernameToPeer, entering,
                     slipped, teleports, fault>>
  BY DEF DisconnectOnRealm
<1> HIDE DEF p
<1>4. entering[r] # p
  BY <1>2, SessionAssumption DEF DisconnectOnRealm, FrontIs
<1>5. coreCommands' \in Seq(Peers)
  BY <1>1, <1>2, <1>3 DEF TypeOK
<1> QED
  BY <1>2, <1>3, <1>4, <1>5, LeavingOK

\* The player leaves the realm it is in, and its arrival elsewhere may be queued.
LEMMA TransferOK ==
  ASSUME IInv, fault = "none", NEW r \in Realms, Transfer(r)
  PROVE  IInv'
<1> DEFINE c == Head(realmCommands[r])
           p == c.peer
<1>1. /\ TypeOK /\ QueuesOK(realmCommands) /\ NamesOK /\ SlippedOK
      /\ \A q \in Peers : PlaceOK(q)
  BY DEF IInv, TypesAndQueues
<1>2. realmCommands[r] # <<>> /\ c.kind = "transfer"
  BY DEF Transfer, FrontIs
<1>3. /\ p \in Peers /\ QueuesOK(Popped(r)) /\ c.old # c.new
      /\ \A q \in Peers : HasArrival(Popped(r), q) => HasArrival(realmCommands, q)
  BY <1>1, <1>2, FrontFacts DEF LeadsElsewhere
<1>4. UNCHANGED <<connection, known, userName, nextRealm, usernameToPeer, entering,
                  slipped, coreCommands, teleports, fault>>
  BY DEF Transfer
<1>5. CASE realm[p] = NoRealm
  <2>1. realmCommands' = Popped(r) /\ UNCHANGED <<peersData, realm, nextPosition>>
    BY <1>5 DEF Transfer
  <2>2. TypeOK'
    BY <1>1, <1>3, <1>4, <2>1 DEF TypeOK, QueuesOK
  <2>3. NamesOK' /\ SlippedOK'
    BY <1>1, <1>4 DEF NamesOK, SlippedOK
  <2>4. \A q \in Peers : PlaceOK(q)'
    BY <1>1, <1>3, <1>4, <2>1 DEF PlaceOK, Enters
  <2> QED
    BY <1>3, <1>4, <2>1, <2>2, <2>3, <2>4 DEF IInv, TypesAndQueues
<1>6. CASE realm[p] # NoRealm
  <2>1. /\ DisconnectPeer(realm[p], p)
        /\ realmCommands' = Route(Popped(r), p, c.old, c.new, realm'[p])
    BY <1>6 DEF Transfer
  <2>2. realm[p] \in Realms /\ entering[realm[p]] # p
    BY <1>1, <1>3, <1>6 DEF TypeOK, PlaceOK, Enters
  <2>3. realm'[p] = NoRealm
    BY <1>1, <1>3, <2>1, <2>2, DisconnectPeerFacts
  <2>4. ~HasArrival(Popped(r), p)
    BY <1>1, <1>3, <1>6 DEF PlaceOK
  <2> DEFINE a == [kind |-> "connect", peer |-> p]
  <2>5. a \in Command /\ a.kind = "connect" /\ a.peer = p
    BY <1>3, CommandFacts
  <2>6. /\ c.new \in Realms => realmCommands' = Enqueue(Popped(r), c.new, a)
        /\ c.new \notin Realms => realmCommands' = Popped(r)
    BY <1>3, <2>1, <2>3 DEF Route
  <2> HIDE DEF p, a, c
  <2>7. /\ QueuesOK(realmCommands')
        /\ \A q \in Peers : HasArrival(realmCommands', q) => HasArrival(Popped(r), q) \/ q = p
    <3>1. CASE c.new \in Realms
      BY <1>3, <2>4, <2>5, <2>6, <3>1, EnqueueOK DEF LeadsElsewhere
    <3>2. CASE c.new \notin Realms
      BY <1>3, <2>6, <3>2
    <3> QED
      BY <3>1, <3>2
  <2>8. coreCommands' \in Seq(Peers)
    BY <1>1, <1>4 DEF TypeOK
  <2> QED
    BY <1>3, <1>4, <2>1, <2>2, <2>7, <2>8, LeavingOK
<1> QED
  BY <1>5, <1>6

-------------------------------------------------------------------------------
(* The invariant. *)

LEMMA NextIInv == IInv /\ [Next]_vars => IInv'
<1> SUFFICES ASSUME IInv, [Next]_vars
             PROVE  IInv'
  OBVIOUS
<1>1. CASE UNCHANGED vars
  <2>1. TypeOK' /\ QueuesOK(realmCommands)'
    BY <1>1 DEF vars, IInv, TypesAndQueues, TypeOK
  <2>2. NamesOK' /\ SlippedOK' /\ \A p \in Peers : fault' = "none" => PlaceOK(p)'
    BY <1>1 DEF vars, IInv, NamesOK, SlippedOK, PlaceOK, Enters
  <2> QED
    BY <1>1, <2>1, <2>2 DEF vars, IInv, TypesAndQueues
<1>2. CASE Next
  <2>1. fault = "none"
    BY <1>2 DEF Next
  <2>2. ASSUME NEW p \in Peers, OnPeerConnect(p) \/ OnPeerDisconnect(p)
        PROVE  IInv'
    BY <2>1, <2>2, OnPeerConnectOK, OnPeerDisconnectOK
  <2>3. ASSUME NEW r \in Realms, RealmStep(r)
        PROVE  IInv'
    BY <2>1, <2>3, ConnectPeerOK, StoreRealmOK, MoveWithinOK, TransferOK, DisconnectOnRealmOK
    DEF RealmStep
  <2> QED
    BY <1>2, <2>1, <2>2, <2>3, LoginOK, PlayerDiesOK, AfterDisconnectOK, TeleportInRealmOK
    DEF Next, Common
<1> QED
  BY <1>1, <1>2

\* The inductive invariant holds whenever teleports are ordered in realms only.
THEOREM SpecIInv == Spec => []IInv
<1> QED
  BY InitIInv, NextIInv, PTL DEF Spec

\* Places of a queue with the arrival of a player are counted by Pending.
LEMMA PendingIs ==
  ASSUME NEW p \in Peers, NEW x, TypesAndQueues
  PROVE  x \in Pending(p, {"connect"}) <=>
           \E r \in Realms : \E i \in 1..Len(realmCommands[r]) :
             x = <<r, i>> /\ Arrives(realmCommands, r, i, p)
<1>1. \A r \in Realms : DOMAIN realmCommands[r] = 1..Len(realmCommands[r])
  BY DEF TypesAndQueues, QueuesOK
<1> QED
  BY <1>1 DEF Pending, Arrives

LEMMA IInvInv == IInv => Inv /\ ConnectsOnlyOnce
<1> SUFFICES ASSUME IInv
             PROVE  Inv /\ ConnectsOnlyOnce
  OBVIOUS
<1>1. /\ TypesAndQueues /\ TypeOK /\ NamesOK /\ ConnectsOnlyOnce
      /\ fault = "none" => \A p \in Peers : PlaceOK(p)
  BY DEF IInv, TypesAndQueues, ConnectsOnlyOnce
<1>2. OneRealmAtATime
  <2> SUFFICES ASSUME fault = "none", NEW p \in Peers, NEW r \in Realms
               PROVE  /\ p \in peersData[r] <=> realm[p] = r \/ entering[r] = p
                      /\ \A s \in Realms : p \in peersData[r] /\ p \in peersData[s] => r = s
    BY DEF OneRealmAtATime
  <2> QED
    BY <1>1, SessionAssumption DEF PlaceOK, Enters, Destinations
<1>3. NamesAreNotLeaked
  BY <1>1 DEF NamesAreNotLeaked, NamesOK
<1>4. InGameOwnsName
  <2> SUFFICES ASSUME fault = "none", NEW r \in Realms, NEW p \in peersData[r] \ slipped
               PROVE  userName[p] # NoName /\ usernameToPeer[userName[p]] = p
    BY DEF InGameOwnsName
  <2>1. p \in Peers /\ r # NoRealm
    BY <1>1, SessionAssumption DEF TypeOK, Destinations
  <2>2. realm[p] # NoRealm \/ Enters(p)
    BY <1>1, <2>1 DEF PlaceOK, Enters
  <2> QED
    BY <1>1, <2>1, <2>2 DEF PlaceOK, NamesOK
<1>5. OneArrival
  <2> SUFFICES ASSUME fault = "none", NEW p \in Peers
               PROVE  /\ Cardinality(Pending(p, {"connect"})) <= 1
                      /\ Pending(p, {"connect"}) # {} =>
                           \A r \in Realms : p \notin peersData[r]
    BY DEF OneArrival
  <2> DEFINE P == Pending(p, {"connect"})
  <2>1. OneArrivalIn(realmCommands, p)
    BY <1>1 DEF TypesAndQueues, QueuesOK
  <2>2. \A x, y \in P : x = y
    BY <1>1, <2>1, PendingIs DEF OneArrivalIn
  <2>3. P # {} => HasArrival(realmCommands, p)
    BY <1>1, PendingIs DEF HasArrival
  <2>4. Cardinality(P) <= 1
    <3> HIDE DEF P
    <3>1. CASE P = {}
      BY <3>1, FS_EmptySet
    <3>2. CASE P # {}
      <4>1. PICK x \in P : TRUE
        BY <3>2
      <4>2. P = {x}
        BY <2>2, <4>1
      <4> QED
        BY <4>2, FS_Singleton
    <3> QED
      BY <3>1, <3>2
  <2> QED
    BY <1>1, <2>3, <2>4, SessionAssumption DEF PlaceOK, Enters, Destinations
<1> QED
  BY <1>1, <1>2, <1>3, <1>4, <1>5 DEF Inv

\* The sessions' invariant: PeerData and the realms agree where a player is, in at
\* most one realm; names belong to those who play under them and to connections
\* that are known; at most one arrival of a player waits.
THEOREM SessionsSafe == Spec => []Inv
<1> QED
  BY SpecIInv, IInvInv, PTL

\* RealmServer::ConnectPeer never finds the peer it is to insert.
THEOREM NeverConnectsTwice == Spec => []ConnectsOnlyOnce
<1> QED
  BY SpecIInv, IInvInv, PTL

-------------------------------------------------------------------------------
(* The sessions implement PlayerPresence. *)

\* PeerData::realm of each player that has not slipped.
Place == [p \in Peers |-> IF p \in slipped THEN NoRealm ELSE realm[p]]

\* While the process lives, that is where the players' entities are.
LEMMA WhereaboutsArePlace == IInv /\ fault = "none" => Whereabouts = Place
<1> SUFFICES ASSUME IInv, fault = "none"
             PROVE  Whereabouts = Place
  OBVIOUS
<1>1. /\ realm \in [Peers -> Realms \cup {NoRealm}] /\ NoRealm \notin Realms
      /\ \A p \in Peers, r \in Realms :
           p \in peersData[r] /\ entering[r] # p <=> realm[p] = r
  BY SessionAssumption DEF IInv, TypesAndQueues, TypeOK, PlaceOK, Enters, Destinations
<1>2. ASSUME NEW p \in Peers
      PROVE  Whereabouts[p] = Place[p]
  <2>1. CASE realm[p] = NoRealm \/ p \in slipped
    BY <1>1, <2>1 DEF Whereabouts, Place
  <2>2. CASE realm[p] # NoRealm /\ p \notin slipped
    <3>1. /\ realm[p] \in Realms
          /\ p \in peersData[realm[p]] /\ entering[realm[p]] # p
      BY <1>1, <2>2
    <3>2. \E r \in Realms : p \in peersData[r] /\ entering[r] # p
      BY <3>1
    <3>3. (CHOOSE r \in Realms : p \in peersData[r] /\ entering[r] # p) = realm[p]
      BY <1>1, <3>1
    <3> QED
      BY <2>2, <3>2, <3>3 DEF Whereabouts, Place
  <2> QED
    BY <2>1, <2>2
<1>3. /\ Whereabouts = [p \in Peers |-> Whereabouts[p]]
      /\ Place = [p \in Peers |-> Place[p]]
  BY DEF Whereabouts, Place
<1> QED
  BY <1>2, <1>3

\* Who logs in claims its name.
LEMMA LoginClaims ==
  ASSUME IInv, fault = "none", NEW p \in Peers, NEW n \in Names, NEW d \in Destinations,
         Login(p, n, d)
  PROVE  /\ Place' = Place /\ usernameToPeer[n] = NoPeer
         /\ \A m \in Names : usernameToPeer[m] # p
         /\ usernameToPeer' = [usernameToPeer EXCEPT ![n] = p]
<1>1. NamesOK /\ userName[p] = NoName /\ p # NoPeer
  BY SessionAssumption DEF IInv, Login
<1>2. \A m \in Names : usernameToPeer[m] # p
  BY <1>1, SessionAssumption DEF NamesOK
<1> QED
  BY <1>2 DEF Login, Place

\* A disconnect keeps the names, or releases that of a player outside all realms
\* (one that slips is in none as far as PeerData knows).
LEMMA DisconnectReleases ==
  ASSUME IInv, fault = "none", NEW p \in Peers, HandleDisconnect(p), realm' = realm
  PROVE  /\ Place' = Place
         /\ \/ usernameToPeer' = usernameToPeer
            \/ /\ userName[p] \in Names /\ usernameToPeer[userName[p]] = p
               /\ Place[p] = NoRealm
               /\ usernameToPeer' = [usernameToPeer EXCEPT ![userName[p]] = NoPeer]
<1>1. /\ NamesOK /\ usernameToPeer \in [Names -> Peers \cup {NoPeer}]
      /\ userName[p] \in Names \cup {NoName}
  BY DEF IInv, TypesAndQueues, TypeOK
<1>2. CASE realm[p] # NoRealm
  BY <1>2 DEF HandleDisconnect, Place
<1>3. CASE realm[p] = NoRealm
  <2>1. usernameToPeer' =
          [n \in Names |-> IF n = userName[p] THEN NoPeer ELSE usernameToPeer[n]]
    BY <1>3 DEF HandleDisconnect
  <2>2. Place' = Place /\ Place[p] = NoRealm
    BY <1>3 DEF HandleDisconnect, Place
  <2>3. CASE userName[p] = NoName
    <3>1. \A n \in Names : n # userName[p]
      BY <2>3, SessionAssumption
    <3>2. usernameToPeer' = [n \in Names |-> usernameToPeer[n]]
      BY <2>1, <3>1
    <3> QED
      BY <1>1, <2>2, <3>2
  <2>4. CASE userName[p] # NoName
    <3>1. usernameToPeer[userName[p]] = p /\ userName[p] \in Names
      BY <1>1, <2>4 DEF NamesOK
    <3>2. usernameToPeer' = [usernameToPeer EXCEPT ![userName[p]] = NoPeer]
      BY <1>1, <2>1
    <3> QED
      BY <2>2, <3>1, <3>2
  <2> QED
    BY <2>3, <2>4
<1> QED
  BY <1>2, <1>3

\* A player is put where it was not, under its name, or had slipped.
LEMMA ArrivalEnters ==
  ASSUME IInv, fault = "none", NEW r \in Realms, StoreRealm(r)
  PROVE  /\ usernameToPeer' = usernameToPeer
         /\ \/ Place' = Place
            \/ \E p \in Peers :
                 /\ \E n \in Names : usernameToPeer[n] = p
                 /\ Place[p] = NoRealm
                 /\ Place' = [Place EXCEPT ![p] = r]
<1> DEFINE p == entering[r]
<1>1. /\ TypeOK /\ NamesOK
      /\ \A q \in Peers : PlaceOK(q)
  BY DEF IInv, TypesAndQueues
<1>2. /\ p \in Peers /\ realm' = [realm EXCEPT ![p] = r]
      /\ UNCHANGED <<usernameToPeer, slipped>>
  BY <1>1 DEF StoreRealm, TypeOK
<1>3. realm[p] = NoRealm /\ (userName[p] # NoName \/ p \in slipped)
  BY <1>1, <1>2 DEF PlaceOK, Enters
<1> HIDE DEF p
<1>4. CASE p \in slipped
  <2>1. \A q \in Peers : (IF q \in slipped' THEN NoRealm ELSE realm'[q])
                           = (IF q \in slipped THEN NoRealm ELSE realm[q])
    BY <1>1, <1>2, <1>4 DEF TypeOK
  <2> QED
    BY <1>2, <2>1 DEF Place
<1>5. CASE p \notin slipped
  <2>1. userName[p] \in Names /\ usernameToPeer[userName[p]] = p
    BY <1>1, <1>2, <1>3, <1>5 DEF NamesOK, TypeOK
  <2>2. Place[p] = NoRealm
    BY <1>2, <1>3 DEF Place
  <2>3. Place' = [Place EXCEPT ![p] = r]
    BY <1>1, <1>2, <1>5 DEF Place, TypeOK
  <2> QED
    BY <1>2, <2>1, <2>2, <2>3
<1> QED
  BY <1>4, <1>5

\* A player leaves the realm it is in, or nothing happens to it.
LEMMA LeavingLeaves ==
  ASSUME IInv, fault = "none", NEW r \in Realms, NEW p \in Peers, DisconnectPeer(r, p),
         entering[r] # p, slipped' = slipped
  PROVE  \/ Place' = Place
         \/ Place[p] # NoRealm /\ Place' = [Place EXCEPT ![p] = NoRealm]
<1>1. p \in peersData[r] => realm[p] = r /\ r # NoRealm
  BY SessionAssumption DEF IInv, PlaceOK, Destinations
<1>2. realm \in [Peers -> Realms \cup {NoRealm}]
  BY DEF IInv, TypesAndQueues, TypeOK
<1>3. CASE p \in peersData[r]
  <2>1. realm' = [realm EXCEPT ![p] = NoRealm]
    BY <1>3 DEF DisconnectPeer
  <2>2. Place' = [Place EXCEPT ![p] = NoRealm]
    BY <1>2, <2>1 DEF Place
  <2>3. p \notin slipped => Place[p] # NoRealm
    BY <1>1, <1>3 DEF Place
  <2>4. p \in slipped => Place[p] = NoRealm
    BY DEF Place
  <2>5. p \in slipped => Place' = Place
    <3>1. Place = [q \in Peers |-> Place[q]]
      BY DEF Place
    <3> QED
      BY <2>2, <2>4, <3>1
  <2> QED
    BY <2>2, <2>3, <2>5
<1>4. CASE p \notin peersData[r]
  BY <1>4 DEF DisconnectPeer, Place
<1> QED
  BY <1>3, <1>4

\* What a step that the process survives does to names and places.
NamesAndPlacesStep ==
  \/ UNCHANGED <<usernameToPeer, Place>>
  \/ \E p \in Peers, n \in Names :
       /\ Place' = Place /\ usernameToPeer[n] = NoPeer
       /\ \A m \in Names : usernameToPeer[m] # p
       /\ usernameToPeer' = [usernameToPeer EXCEPT ![n] = p]
  \/ \E p \in Peers, n \in Names :
       /\ Place' = Place /\ Place[p] = NoRealm /\ usernameToPeer[n] = p
       /\ usernameToPeer' = [usernameToPeer EXCEPT ![n] = NoPeer]
  \/ \E p \in Peers, r \in Realms :
       /\ usernameToPeer' = usernameToPeer /\ Place[p] = NoRealm
       /\ \E n \in Names : usernameToPeer[n] = p
       /\ Place' = [Place EXCEPT ![p] = r]
  \/ \E p \in Peers :
       /\ usernameToPeer' = usernameToPeer /\ Place[p] # NoRealm
       /\ Place' = [Place EXCEPT ![p] = NoRealm]

LEMMA StepKinds ==
  ASSUME IInv, Next, fault' = "none"
  PROVE  NamesAndPlacesStep
<1>1. fault = "none" /\ TypesAndQueues
  BY DEF Next, IInv
<1>2. ASSUME NEW p \in Peers, OnPeerConnect(p)
      PROVE  NamesAndPlacesStep
  BY <1>2 DEF OnPeerConnect, peerData, NamesAndPlacesStep, Place
<1>3. ASSUME NEW p \in Peers, HandleDisconnect(p), realm' = realm
      PROVE  NamesAndPlacesStep
  BY <1>1, <1>3, DisconnectReleases DEF NamesAndPlacesStep
<1>4. ASSUME NEW p \in Peers, NEW n \in Names, NEW d \in Destinations, Login(p, n, d)
      PROVE  NamesAndPlacesStep
  BY <1>1, <1>4, LoginClaims DEF NamesAndPlacesStep
<1>5. ASSUME NEW r \in Realms, NEW p \in Peers, DisconnectPeer(r, p), entering[r] # p,
             slipped' = slipped, usernameToPeer' = usernameToPeer
      PROVE  NamesAndPlacesStep
  BY <1>1, <1>5, LeavingLeaves DEF NamesAndPlacesStep
<1>6. ASSUME NEW r \in Realms, RealmStep(r)
      PROVE  NamesAndPlacesStep
  <2>1. CASE ConnectPeer(r)
    BY <2>1 DEF ConnectPeer, NamesAndPlacesStep, Place
  <2>2. CASE MoveWithin(r)
    BY <2>2 DEF MoveWithin, NamesAndPlacesStep, Place
  <2>3. CASE Transfer(r)
    <3> DEFINE p == Head(realmCommands[r]).peer
    <3>1. p \in Peers /\ UNCHANGED <<usernameToPeer, slipped>>
      BY <1>1, <2>3, FrontFacts DEF Transfer, FrontIs, TypesAndQueues
    <3>2. CASE realm[p] = NoRealm
      BY <2>3, <3>1, <3>2 DEF Transfer, NamesAndPlacesStep, Place
    <3>3. CASE realm[p] # NoRealm
      <4>1. DisconnectPeer(realm[p], p)
        BY <2>3, <3>3 DEF Transfer
      <4>2. realm[p] \in Realms /\ entering[realm[p]] # p
        BY <1>1, <3>1, <3>3 DEF IInv, TypesAndQueues, TypeOK, PlaceOK, Enters
      <4> QED
        BY <1>5, <3>1, <4>1, <4>2
    <3> QED
      BY <3>2, <3>3
  <2>4. CASE DisconnectOnRealm(r)
    <3>1. /\ Head(realmCommands[r]).peer \in Peers
          /\ UNCHANGED <<usernameToPeer, slipped>> /\ entering[r] = NoPeer
      BY <1>1, <2>4, FrontFacts DEF DisconnectOnRealm, FrontIs, TypesAndQueues
    <3> QED
      BY <1>5, <2>4, <3>1, SessionAssumption DEF DisconnectOnRealm
  <2>5. CASE StoreRealm(r)
    BY <1>1, <2>5, ArrivalEnters DEF NamesAndPlacesStep
  <2> QED
    BY <1>6, <2>1, <2>2, <2>3, <2>4, <2>5 DEF RealmStep
<1>7. CASE AfterDisconnect
  <2>1. Head(coreCommands) \in Peers
    BY <1>1, <1>7, HeadTailProperties DEF AfterDisconnect, TypesAndQueues, TypeOK
  <2> QED
    BY <1>3, <1>7, <2>1 DEF AfterDisconnect
<1>8. ASSUME NEW p \in Peers, OnPeerDisconnect(p)
      PROVE  NamesAndPlacesStep
  BY <1>3, <1>8 DEF OnPeerDisconnect
<1>9. ASSUME NEW n \in Names, NEW d \in Destinations, TeleportInRealm(n, d)
      PROVE  NamesAndPlacesStep
  BY <1>9 DEF TeleportInRealm, Teleport, NamesAndPlacesStep, Place
<1>10. ASSUME NEW r \in Realms, NEW p \in Peers, PlayerDies(r, p)
       PROVE  NamesAndPlacesStep
  BY <1>10 DEF PlayerDies, peerData, NamesAndPlacesStep, Place
<1>11. ASSUME Common
       PROVE  NamesAndPlacesStep
  BY <1>2, <1>4, <1>6, <1>7, <1>8, <1>10, <1>11 DEF Common
<1> QED
  BY <1>9, <1>11 DEF Next

LEMMA StepsRefine ==
  ASSUME IInv, IInv', [Next]_vars, fault' = "none"
  PROVE  [Presence!Next]_(Presence!presenceVars)
<1>1. CASE UNCHANGED vars
  BY <1>1 DEF vars, Presence!presenceVars, Whereabouts
<1>2. CASE Next
  <2>1. Whereabouts = Place
    BY <1>2, WhereaboutsArePlace DEF Next
  <2>2. Whereabouts' = Place'
    <3>1. (IInv /\ fault = "none" => Whereabouts = Place)'
      BY WhereaboutsArePlace, PTL
    <3> QED
      BY <3>1
  <2>3. CASE UNCHANGED <<usernameToPeer, Place>>
    BY <2>1, <2>2, <2>3 DEF Presence!presenceVars
  <2>4. ASSUME NEW p \in Peers, NEW n \in Names,
               Place' = Place, usernameToPeer[n] = NoPeer,
               \A m \in Names : usernameToPeer[m] # p,
               usernameToPeer' = [usernameToPeer EXCEPT ![n] = p]
        PROVE  Presence!Claim(p, n)
    BY <2>1, <2>2, <2>4 DEF Presence!Claim, Presence!Holds
  <2>5. ASSUME NEW p \in Peers, NEW n \in Names,
               Place' = Place, Place[p] = NoRealm, usernameToPeer[n] = p,
               usernameToPeer' = [usernameToPeer EXCEPT ![n] = NoPeer]
        PROVE  Presence!Release(p, n)
    BY <2>1, <2>2, <2>5 DEF Presence!Release
  <2>6. ASSUME NEW p \in Peers, NEW r \in Realms,
               usernameToPeer' = usernameToPeer, Place[p] = NoRealm,
               \E n \in Names : usernameToPeer[n] = p,
               Place' = [Place EXCEPT ![p] = r]
        PROVE  Presence!Enter(p, r)
    BY <2>1, <2>2, <2>6 DEF Presence!Enter, Presence!Holds
  <2>7. ASSUME NEW p \in Peers,
               usernameToPeer' = usernameToPeer, Place[p] # NoRealm,
               Place' = [Place EXCEPT ![p] = NoRealm]
        PROVE  Presence!Leave(p)
    BY <2>1, <2>2, <2>7 DEF Presence!Leave
  <2> QED
    BY <1>2, <2>3, <2>4, <2>5, <2>6, <2>7, StepKinds DEF Presence!Next, NamesAndPlacesStep
<1> QED
  BY <1>1, <1>2

\* Logins, arrivals, departures and disconnects, spread over the network thread,
\* the realms and their queues, are to the rest of the server what PlayerPresence
\* says: claims and releases of names, and one realm at a time in between.
THEOREM SessionsImplementPresence == Spec => ImplementsPresence
<1>1. Init => Presence!Init
  <2>1. Init => IInv /\ Whereabouts = Place
    BY InitIInv, WhereaboutsArePlace DEF Init
  <2> QED
    BY <2>1 DEF Init, Presence!Init, Place
<1>2. IInv /\ IInv' /\ [Next]_vars =>
        [fault' = "none" => [Presence!Next]_(Presence!presenceVars)]_vars
  BY StepsRefine
<1> QED
  BY <1>1, <1>2, SpecIInv, PTL DEF Spec, ImplementsPresence

===============================================================================
