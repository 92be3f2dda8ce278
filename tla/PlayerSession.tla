---------------------------- MODULE PlayerSession -----------------------------
(***************************************************************************)
(* The life of a player's connection on the server: login, entering a      *)
(* realm, teleports between realms, disconnecting (ServerCore.cpp,         *)
(* ServerCore_rpc.cpp, PeerStateTransitions.cpp, RealmServer_networking).  *)
(*                                                                         *)
(* The network thread runs the callbacks of connections and the commands   *)
(* queued to it; each realm runs the commands queued to it on the thread   *)
(* that runs its epoch.  The coroutine ConnectPeerToRealm hops between     *)
(* these queues and reads PeerData again after each hop; meanwhile other   *)
(* coroutines and the network thread change it.  One command is one step,  *)
(* except that RealmServer::ConnectPeer reads sharedUserPointer in one     *)
(* step and stores PeerData::realm in the next: no lock is held between.   *)
(*                                                                         *)
(* The library ICon7 is not part of the repository.  Assumed of it: a      *)
(* connection has one disconnect callback, queues are first in first out,  *)
(* and a PeerHandle leads to its Peer as long as PeerData keeps it alive.  *)
(***************************************************************************)
EXTENDS Integers, Sequences, FiniteSets

CONSTANTS
  Peers,         \* connections, each with one PeerData
  Names,         \* usernames
  Realms,        \* realms that are loaded
  NotLoaded,     \* a realm name for which no realm is loaded
  NoPeer, NoName, NoRealm,
  MaxTeleports   \* bound on teleports that are ordered

Destinations == Realms \cup {NotLoaded}

ASSUME SessionAssumption ==
  /\ NoPeer \notin Peers
  /\ NoName \notin Names
  /\ NoRealm \notin Destinations
  /\ NotLoaded \notin Realms
  /\ MaxTeleports \in Nat

VARIABLES
  connection,      \* "new", "open" or "closed", as the network thread sees it
  known,           \* peers whose sharedUserPointer and peerHandleToData are set
  userName,        \* PeerData::userName
  realm,           \* PeerData::realm, a weak pointer
  nextRealm,       \* PeerData::nextRealm
  nextPosition,    \* peers whose PeerData::useNextRealmPosition is set
  usernameToPeer,  \* ServerCore::usernameToPeer
  peersData,       \* RealmServer::peersData_: peers with an entry in the realm
  entering,        \* the peer that a realm is connecting, in the midst of ConnectPeer
  slipped,         \* history: peers that were forgotten in the midst of ConnectPeer
  realmCommands,   \* executionQueue of each realm
  coreCommands,    \* the command queue of the network thread
  teleports,       \* teleports ordered so far
  fault            \* how the process died, or "none"

vars == <<connection, known, userName, realm, nextRealm, nextPosition,
          usernameToPeer, peersData, entering, slipped, realmCommands, coreCommands,
          teleports, fault>>

peerData == <<userName, realm, nextRealm, nextPosition>>

\* What waits in a realm's queue: a suspended ConnectPeerToRealm (about to
\* connect, to move the player within the realm, or to leave oldRealm for
\* newRealm), or the command of _OnPeerDisconnect.
Command ==
  [kind : {"connect", "within", "disconnect"}, peer : Peers]
    \cup [kind : {"transfer"}, peer : Peers, old : Realms \cup {NoRealm},
          new : Destinations]

TypeOK ==
  /\ connection \in [Peers -> {"new", "open", "closed"}]
  /\ known \subseteq Peers
  /\ userName \in [Peers -> Names \cup {NoName}]
  /\ realm \in [Peers -> Realms \cup {NoRealm}]
  /\ nextRealm \in [Peers -> Destinations \cup {NoRealm}]
  /\ nextPosition \subseteq Peers
  /\ usernameToPeer \in [Names -> Peers \cup {NoPeer}]
  /\ peersData \in [Realms -> SUBSET Peers]
  /\ entering \in [Realms -> Peers \cup {NoPeer}]
  /\ slipped \subseteq Peers
  /\ realmCommands \in [Realms -> Seq(Command)]
  /\ coreCommands \in Seq(Peers)
  /\ teleports \in 0 .. MaxTeleports
  /\ fault \in {"none", "assertion", "nullData", "nullUserPointer"}

Init ==
  /\ connection = [p \in Peers |-> "new"]
  /\ known = {}
  /\ userName = [p \in Peers |-> NoName]
  /\ realm = [p \in Peers |-> NoRealm]
  /\ nextRealm = [p \in Peers |-> NoRealm]
  /\ nextPosition = {}
  /\ usernameToPeer = [n \in Names |-> NoPeer]
  /\ peersData = [r \in Realms |-> {}]
  /\ entering = [r \in Realms |-> NoPeer]
  /\ slipped = {}
  /\ realmCommands = [r \in Realms |-> <<>>]
  /\ coreCommands = <<>>
  /\ teleports = 0
  /\ fault = "none"

-------------------------------------------------------------------------------
(* Queues, and ConnectPeerToRealm from its label to the next suspension. *)

Enqueue(queues, r, c) == [queues EXCEPT ![r] = Append(@, c)]

\* Mutant: the realm is chosen by the old name instead of PeerData::realm.
Route_Stale(queues, p, old, new, at) ==
  IF old = new
    THEN Enqueue(queues, at, [kind |-> "within", peer |-> p])
  ELSE IF new \in Realms
    THEN Enqueue(queues, new, [kind |-> "connect", peer |-> p])
  ELSE queues

\* The queues after the coroutine of p has decided where to go next: `old` and
\* `new` are its local variables (old is not refreshed when it loops), `at` is
\* what PeerData::realm is now.  Who is to stay (old = new) has been ordered to a
\* position; a destination that is not loaded ends the coroutine.
Route(queues, p, old, new, at) ==
  IF old = new
    THEN Enqueue(queues, at, [kind |-> "within", peer |-> p])
  ELSE IF at # NoRealm
    THEN Enqueue(queues, at, [kind |-> "transfer", peer |-> p, old |-> old, new |-> new])
  ELSE IF new \in Realms
    THEN Enqueue(queues, new, [kind |-> "connect", peer |-> p])
  ELSE queues

-------------------------------------------------------------------------------
(* The network thread. *)

OnPeerConnect(p) ==
  /\ connection[p] = "new"
  /\ connection' = [connection EXCEPT ![p] = "open"]
  /\ known' = known \cup {p}
  /\ UNCHANGED <<peerData, usernameToPeer, peersData, entering, slipped,
                 realmCommands, coreCommands, teleports, fault>>

\* Mutant: a login does not ask whether the name is taken.
Login_NameNotChecked(p, n, d) ==
  /\ connection[p] = "open"
  /\ p \in known
  /\ realm[p] = NoRealm /\ userName[p] = NoName
  /\ usernameToPeer' = [usernameToPeer EXCEPT ![n] = p]
  /\ userName' = [userName EXCEPT ![p] = n]
  /\ nextRealm' = [nextRealm EXCEPT ![p] = d]
  /\ realmCommands' = Route(realmCommands, p, NoRealm, d, NoRealm)
  /\ UNCHANGED <<connection, known, realm, nextPosition, peersData, entering,
                 slipped, coreCommands, teleports, fault>>

\* ServerCore::Login, peer_transitions::OnReceivedLogin: the name is claimed, the
\* realm of the stored player (or the spawn realm) becomes the next one, and
\* ConnectPeerToRealm starts.  Any other login is answered with a failure.
Login(p, n, d) ==
  /\ connection[p] = "open"
  /\ p \in known
  /\ realm[p] = NoRealm /\ userName[p] = NoName
  /\ usernameToPeer[n] = NoPeer
  /\ usernameToPeer' = [usernameToPeer EXCEPT ![n] = p]
  /\ userName' = [userName EXCEPT ![p] = n]
  /\ nextRealm' = [nextRealm EXCEPT ![p] = d]
  /\ realmCommands' = Route(realmCommands, p, NoRealm, d, NoRealm)
  /\ UNCHANGED <<connection, known, realm, nextPosition, peersData, entering,
                 slipped, coreCommands, teleports, fault>>

\* CommandTeleportPlayer, ordered on the console for a name that is in use.
Teleport(n, d) ==
  LET p == usernameToPeer[n]
  IN
  /\ p # NoPeer
  /\ teleports < MaxTeleports
  /\ teleports' = teleports + 1
  /\ nextRealm' = [nextRealm EXCEPT ![p] = d]
  /\ nextPosition' = nextPosition \cup {p}
  /\ realmCommands' = Route(realmCommands, p, realm[p], d, realm[p])
  /\ UNCHANGED <<connection, known, userName, realm, usernameToPeer, peersData,
                 entering, slipped, coreCommands, fault>>

\* A teleport that is ordered while the player is in a realm.
TeleportInRealm(n, d) ==
  /\ usernameToPeer[n] # NoPeer => realm[usernameToPeer[n]] # NoRealm
  /\ Teleport(n, d)

\* ServerCore::_OnPeerDisconnect: first out of the realm, if there is one, then
\* the name is given back and the connection's data are dropped.  It decides by
\* PeerData::realm, which a realm that is just connecting the peer has not set
\* yet: the peer slips.  (The code goes on using its reference into
\* peerHandleToData after removing the entry; what that reference means then is
\* up to ICon7's map and not modelled.)
HandleDisconnect(p) ==
  IF realm[p] # NoRealm
    THEN /\ realmCommands' =
              Enqueue(realmCommands, realm[p], [kind |-> "disconnect", peer |-> p])
         /\ UNCHANGED <<known, userName, usernameToPeer, slipped>>
    ELSE /\ known' = known \ {p}
         /\ usernameToPeer' =
              [n \in Names |-> IF n = userName[p] THEN NoPeer ELSE usernameToPeer[n]]
         /\ userName' = [userName EXCEPT ![p] = NoName]
         /\ slipped' = IF \E r \in Realms : entering[r] = p THEN slipped \cup {p} ELSE slipped
         /\ UNCHANGED realmCommands

\* The callback of a connection that went away.
OnPeerDisconnect(p) ==
  /\ connection[p] = "open"
  /\ connection' = [connection EXCEPT ![p] = "closed"]
  /\ HandleDisconnect(p)
  /\ UNCHANGED <<realm, nextRealm, nextPosition, peersData, entering,
                 coreCommands, teleports, fault>>

\* Once the realm has let the player go, the network thread comes back to it.
AfterDisconnect ==
  /\ coreCommands # <<>>
  /\ coreCommands' = Tail(coreCommands)
  /\ HandleDisconnect(Head(coreCommands))
  /\ UNCHANGED <<connection, realm, nextRealm, nextPosition, peersData, entering,
                 teleports, fault>>

-------------------------------------------------------------------------------
(* A realm's thread: one command of its queue. *)

\* The thread takes the next command once it is done with ConnectPeer.
FrontIs(r, kind) ==
  /\ entering[r] = NoPeer
  /\ realmCommands[r] # <<>>
  /\ Head(realmCommands[r]).kind = kind

Popped(r) == [realmCommands EXCEPT ![r] = Tail(@)]

\* Mutant: leaving a realm keeps PeerData::realm.
DisconnectPeer_KeepsRealm(r, p) ==
  IF p \in peersData[r]
    THEN /\ peersData' = [peersData EXCEPT ![r] = @ \ {p}]
         /\ nextPosition' = nextPosition \ {p}
         /\ UNCHANGED realm
    ELSE UNCHANGED <<peersData, realm, nextPosition>>

\* RealmServer::DisconnectPeer: nothing for a peer that is not in the realm.
DisconnectPeer(r, p) ==
  IF p \in peersData[r]
    THEN /\ peersData' = [peersData EXCEPT ![r] = @ \ {p}]
         /\ nextPosition' = nextPosition \ {p}
         /\ realm' = [realm EXCEPT ![p] = NoRealm]
    ELSE UNCHANGED <<peersData, realm, nextPosition>>

\* RealmServer::ConnectPeer up to its first use of PeerData.  It asserts that the
\* peer is not in the realm and reads Peer::sharedUserPointer, which
\* _OnPeerDisconnect may have cleared while the coroutine was waiting.
ConnectPeer(r) ==
  LET p == Head(realmCommands[r]).peer
  IN
  /\ FrontIs(r, "connect")
  /\ \/ /\ p \in peersData[r]
        /\ fault' = "assertion"
        /\ UNCHANGED <<peersData, entering>>
     \/ /\ p \notin peersData[r] /\ p \notin known
        /\ peersData' = [peersData EXCEPT ![r] = @ \cup {p}]
        /\ fault' = "nullData"
        /\ UNCHANGED entering
     \/ /\ p \notin peersData[r] /\ p \in known
        /\ peersData' = [peersData EXCEPT ![r] = @ \cup {p}]
        /\ entering' = [entering EXCEPT ![r] = p]
        /\ UNCHANGED fault
  /\ realmCommands' = Popped(r)
  /\ UNCHANGED <<connection, known, userName, realm, nextRealm, nextPosition,
                 usernameToPeer, slipped, coreCommands, teleports>>

\* The rest of ConnectPeer: PeerData::realm is stored and the entity is created,
\* whatever has become of the connection since its data were read.
StoreRealm(r) ==
  /\ entering[r] # NoPeer
  /\ realm' = [realm EXCEPT ![entering[r]] = r]
  /\ entering' = [entering EXCEPT ![r] = NoPeer]
  /\ UNCHANGED <<connection, known, userName, nextRealm, nextPosition, usernameToPeer,
                 peersData, slipped, realmCommands, coreCommands, teleports, fault>>

\* The coroutine resumes to move the player within its realm, wherever it is by
\* now.  If a position is still ordered and the player's entity exists (another
\* realm than r may not have created it yet), SpawnPlayerEntity_ForPlayer goes
\* through the raw Peer::userPointer, which nothing sets.
MoveWithin(r) ==
  LET p == Head(realmCommands[r]).peer
  IN
  /\ FrontIs(r, "within")
  /\ \E entityExists \in (IF realm[p] = r THEN {TRUE} ELSE BOOLEAN) :
       IF realm[p] # NoRealm /\ entityExists /\ p \in nextPosition
         THEN nextPosition' = nextPosition \ {p} /\ fault' = "nullUserPointer"
         ELSE UNCHANGED <<nextPosition, fault>>
  /\ realmCommands' = Popped(r)
  /\ UNCHANGED <<connection, known, userName, realm, nextRealm, usernameToPeer,
                 peersData, entering, slipped, coreCommands, teleports>>

\* The coroutine resumes to leave the realm the player is in by now (which need
\* not be r), and goes on to its destination.
Transfer(r) ==
  LET c == Head(realmCommands[r])
  IN
  /\ FrontIs(r, "transfer")
  /\ IF realm[c.peer] = NoRealm
       THEN realmCommands' = Popped(r) /\ UNCHANGED <<peersData, realm, nextPosition>>
       ELSE /\ DisconnectPeer(realm[c.peer], c.peer)
            /\ realmCommands' = Route(Popped(r), c.peer, c.old, c.new, realm'[c.peer])
  /\ UNCHANGED <<connection, known, userName, nextRealm, usernameToPeer, entering,
                 slipped, coreCommands, teleports, fault>>

\* Mutant: the network thread is told to continue only if the peer was here.
DisconnectOnRealm_OnlyIfPresent(r) ==
  LET p == Head(realmCommands[r]).peer
  IN
  /\ FrontIs(r, "disconnect")
  /\ DisconnectPeer(r, p)
  /\ realmCommands' = Popped(r)
  /\ coreCommands' = IF p \in peersData[r] THEN Append(coreCommands, p) ELSE coreCommands
  /\ UNCHANGED <<connection, known, userName, nextRealm, usernameToPeer, entering,
                 slipped, teleports, fault>>

\* The command of _OnPeerDisconnect: whether or not the peer was still in this
\* realm, the network thread is told to continue.
DisconnectOnRealm(r) ==
  LET p == Head(realmCommands[r]).peer
  IN
  /\ FrontIs(r, "disconnect")
  /\ DisconnectPeer(r, p)
  /\ realmCommands' = Popped(r)
  /\ coreCommands' = Append(coreCommands, p)
  /\ UNCHANGED <<connection, known, userName, nextRealm, usernameToPeer, entering,
                 slipped, teleports, fault>>

\* The health of a player's entity falls to zero.  Both observers take PeerData
\* from the raw Peer::userPointer, which nothing sets (PeerData is kept in
\* sharedUserPointer): the first one logs an error, the second, when the entity
\* is destroyed, removes the peer and writes through the null pointer.
PlayerDies(r, p) ==
  /\ entering[r] = NoPeer
  /\ p \in peersData[r]
  /\ peersData' = [peersData EXCEPT ![r] = @ \ {p}]
  /\ fault' = "nullUserPointer"
  /\ UNCHANGED <<connection, known, peerData, usernameToPeer, entering, slipped,
                 realmCommands, coreCommands, teleports>>

-------------------------------------------------------------------------------
RealmStep(r) ==
  \/ ConnectPeer(r) \/ StoreRealm(r)
  \/ MoveWithin(r) \/ Transfer(r) \/ DisconnectOnRealm(r)

Common ==
  \/ \E p \in Peers : OnPeerConnect(p) \/ OnPeerDisconnect(p)
  \/ \E p \in Peers, n \in Names, d \in Destinations : Login(p, n, d)
  \/ \E r \in Realms, p \in Peers : PlayerDies(r, p)
  \/ \E r \in Realms : RealmStep(r)
  \/ AfterDisconnect

\* Teleports are ordered for players that are in a realm.
Next ==
  /\ fault = "none"
  /\ Common \/ \E n \in Names, d \in Destinations : TeleportInRealm(n, d)

\* Teleports are ordered at any time.
NextAnyTeleport ==
  /\ fault = "none"
  /\ Common \/ \E n \in Names, d \in Destinations : Teleport(n, d)

Spec == Init /\ [][Next]_vars
SpecAnyTeleport == Init /\ [][NextAnyTeleport]_vars

\* Every realm keeps running its epochs, and so does the network thread.
FairSpec ==
  /\ Spec
  /\ \A r \in Realms : WF_vars(fault = "none" /\ RealmStep(r))
  /\ WF_vars(fault = "none" /\ AfterDisconnect)

-------------------------------------------------------------------------------
(***************************************************************************)
(* Properties.  A state with a fault is the last one of the process; the   *)
(* invariants speak of the process while it lives.                         *)
(***************************************************************************)

Pending(p, kinds) ==
  UNION {{<<r, i>> : i \in {j \in DOMAIN realmCommands[r] :
                              /\ realmCommands[r][j].peer = p
                              /\ realmCommands[r][j].kind \in kinds}} : r \in Realms}

\* PeerData and the realms agree where a player is, in at most one realm, but for
\* the realm that is just connecting it and has not told PeerData.  Each is
\* written by whichever thread runs the coroutine, and the other threads decide by
\* PeerData::realm alone.
OneRealmAtATime ==
  fault = "none" => \A p \in Peers, r \in Realms :
    /\ p \in peersData[r] <=> realm[p] = r \/ entering[r] = p
    /\ \A s \in Realms : p \in peersData[r] /\ p \in peersData[s] => r = s

\* Whoever has an entry in a realm owns a name: the name was not given to
\* somebody else while a transfer or a disconnect was under way.  Not so for a
\* peer that slipped: ConnectPeer had read its data and not yet stored the realm
\* when _OnPeerDisconnect looked; it stays in the realm without name or connection.
InGameOwnsName ==
  fault = "none" => \A r \in Realms : \A p \in peersData[r] \ slipped :
    userName[p] # NoName /\ usernameToPeer[userName[p]] = p

\* A name that is taken belongs to a connection that knows it and whose data
\* still exist: no name is locked by a connection that has been forgotten.
NamesAreNotLeaked ==
  \A n \in Names : usernameToPeer[n] # NoPeer =>
    usernameToPeer[n] \in known /\ userName[usernameToPeer[n]] = n

\* At most one suspended coroutine is about to enter a realm with a player, and
\* then the player is in none and none is connecting it.
OneArrival ==
  fault = "none" => \A p \in Peers :
    /\ Cardinality(Pending(p, {"connect"})) <= 1
    /\ Pending(p, {"connect"}) # {} => \A r \in Realms : p \notin peersData[r]

\* The invariant of the sessions.
Inv == TypeOK /\ OneRealmAtATime /\ InGameOwnsName /\ NamesAreNotLeaked /\ OneArrival

\* The realm with the entity of each player; who slipped is in none, as nothing
\* that goes by names or connections reaches its entity.
Whereabouts ==
  [p \in Peers |->
     IF p \notin slipped /\ \E r \in Realms : p \in peersData[r] /\ entering[r] # p
       THEN CHOOSE r \in Realms : p \in peersData[r] /\ entering[r] # p
       ELSE NoRealm]

\* What the rest of the server is promised.
Presence == INSTANCE PlayerPresence WITH
  holder <- usernameToPeer, location <- Whereabouts

\* Until the process dies, every step is one that PlayerPresence allows.
ImplementsPresence ==
  /\ Presence!Init
  /\ [][fault' = "none" => [Presence!Next]_(Presence!presenceVars)]_vars

\* A connection that went away is forgotten, with its name, whatever coroutines
\* were under way.
DisconnectedIsForgotten ==
  \A p \in Peers :
    connection[p] = "closed" ~> (p \notin known \/ fault # "none")

\* The assertion of RealmServer::ConnectPeer (RealmServer_networking.cpp:18).
ConnectsOnlyOnce == fault # "assertion"

\* "PeerEntryData->data is nullptr when shouldn't" (RealmServer_networking.cpp:111):
\* an entry of peersData_ has its PeerData.
EntriesHaveData == fault # "nullData"
===============================================================================
