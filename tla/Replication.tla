----------------------------- MODULE Replication ------------------------------
(***************************************************************************)
(* What one client sees of the realms its player visits (ClientRpcProxy,   *)
(* the observers of RealmServer and its ConnectPeer and DisconnectPeer;    *)
(* GameClientRpc, RealmClient::Clear, GameClient::RunOneEpoch).            *)
(*                                                                         *)
(* Realms number their entities independently, so that the same id means   *)
(* something else in the next realm, and messages carry ids only.  What    *)
(* shows or removes a character is sent reliably, which keeps the order.   *)
(* A client that hears of a character it does not know, or has not heard   *)
(* for two seconds of one it follows, asks the server; the request is      *)
(* answered by the realm its player was in when it came in, whenever that  *)
(* gets to it.                                                             *)
(*                                                                         *)
(* Time is left out: two seconds may have passed at any moment.  Messages  *)
(* of one handler that follow each other and repeat each other are one.    *)
(* The system is followed until the server or the client crashes.          *)
(* Characters of other players are characters like mobs, save that they    *)
(* leave without a message.  How transfers overlap, disconnects and the    *)
(* death of the player, which ends the server, belong to PlayerSession;    *)
(* static entities and what characters look like are left out.             *)
(***************************************************************************)
EXTENDS Naturals, Sequences, FiniteSets

CONSTANTS
  Realms,        \* realms, each with its own flecs world
  Ids,           \* entity ids, the same in every realm
  NoRealm, NoId,
  MaxMessages,   \* bound: messages and requests under way
  MaxEntities    \* bound: characters that ever live

ASSUME ReplicationAssumption ==
  /\ NoRealm \notin Realms
  /\ NoId \notin Ids
  /\ Realms \cap {"none", "bare"} = {}  \* what a view of an id may also be
  /\ MaxMessages \in Nat /\ MaxEntities \in Nat

VARIABLES
  (* the server *)
  life,          \* of each id in each realm, see Lives
  where,         \* PeerData::realm of the client, NoRealm between realms
  nextRealm,     \* PeerData::nextRealm
  me,            \* PeerData::entityId
  asked,         \* requests of the client in each realm's executionQueue
  crashed,       \* the server or the client used a null pointer
  (* the network *)
  down,          \* reliable messages to the client
  up,            \* requests to the server
  (* the client *)
  realm,         \* the realm it shows
  view,          \* of each id what is shown, see Looks
  tracked,       \* ids with a ComponentLastAuthoritativeStateUpdateTime
  serverPlayer,  \* serverPlayerEntityId
  localPlayer,   \* the id behind localPlayerEntityId
  (* history *)
  late           \* a realm has answered a client that had arrived in another

vars == <<life, where, nextRealm, me, asked, crashed, down, up,
          realm, view, tracked, serverPlayer, localPlayer, late>>

peer == <<where, nextRealm, me, late>>
network == <<down, up>>
client == <<realm, view, tracked, serverPlayer, localPlayer>>

\* Ids are not used twice.  Only a death is announced, see Vanish.
Lives == {"unborn", "alive", "killed", "gone"}

\* An id is not in mapServerEntityIdToLocalEntityId, has an entity without the
\* components of a character, or has the components it had in some realm.
Looks == {"none", "bare"} \cup Realms

\* "remove" is DeleteEntities and PlayDeathAndDestroyEntity.
Messages ==
  [type : {"join"}, realm : Realms, id : Ids]
    \cup [type : {"spawn"}, realm : Realms, ids : SUBSET Ids]
    \cup [type : {"generic", "remove"}, id : Ids]

Join(r, i) == [type |-> "join", realm |-> r, id |-> i]
Spawn(r, S) == [type |-> "spawn", realm |-> r, ids |-> S]
Generic(i) == [type |-> "generic", id |-> i]
Removal(i) == [type |-> "remove", id |-> i]

Alive(r) == {i \in Ids : life[r][i] = "alive"}
Shown == {i \in Ids : view[i] # "none"}
Pending == {down[k] : k \in DOMAIN down}

\* The client has taken note of the arrival in the realm it is in.
Joined == where # NoRealm /\ \A m \in Pending : m.type # "join"

TypeOK ==
  /\ life \in [Realms -> [Ids -> Lives]]
  /\ where \in Realms \cup {NoRealm}
  /\ nextRealm \in Realms
  /\ me \in Ids \cup {NoId}
  /\ asked \in [Realms -> Seq(Ids)]
  /\ crashed \in BOOLEAN
  /\ down \in Seq(Messages)
  /\ up \in Seq(Ids)
  /\ realm \in Realms \cup {NoRealm}
  /\ view \in [Ids -> Looks]
  /\ tracked \subseteq Ids
  /\ serverPlayer \in Ids \cup {NoId}
  /\ localPlayer \in Ids \cup {NoId}
  /\ late \in BOOLEAN

\* The player has logged in and is on its way to its first realm.
Init ==
  /\ life = [r \in Realms |-> [i \in Ids |-> "unborn"]]
  /\ where = NoRealm
  /\ nextRealm \in Realms
  /\ me = NoId
  /\ asked = [r \in Realms |-> <<>>]
  /\ crashed = FALSE
  /\ down = <<>> /\ up = <<>>
  /\ realm = NoRealm
  /\ view = [i \in Ids |-> "none"]
  /\ tracked = {}
  /\ serverPlayer = NoId /\ localPlayer = NoId
  /\ late = FALSE

-------------------------------------------------------------------------------
(* The realms. *)

\* What is under way; an answer takes the place of its request.
UnderWay ==
  Len(down) + Len(up) + Cardinality(UNION {{r} \X DOMAIN asked[r] : r \in Realms})

\* Send to this client.
Send(ms) ==
  /\ UnderWay + Len(ms) <= MaxMessages
  /\ down' = down \o ms

\* BroadcastReliable of realm r, as far as this client is concerned.
Broadcast(r, ms) == IF where = r THEN Send(ms) ELSE UNCHANGED down

Used == {x \in Realms \X Ids : life[x[1]][x[2]] # "unborn"}

Becomes(r, i, l) == life' = [life EXCEPT ![r][i] = l]

\* A character appears: a mob, or the character of another player.
Birth(r, i) ==
  /\ ~crashed
  /\ life[r][i] = "unborn" /\ Cardinality(Used) < MaxEntities
  /\ Becomes(r, i, "alive")
  /\ Broadcast(r, <<Spawn(r, {i})>>)
  /\ UNCHANGED <<peer, asked, crashed, up, client>>

\* Mutant: nobody is told.
Die_Silent(r, i) ==
  /\ ~crashed
  /\ life[r][i] = "alive"
  /\ where = r => i # me
  /\ Becomes(r, i, "killed")
  /\ UNCHANGED <<peer, asked, crashed, network, client>>

\* The health of a mob drops to zero.
Die(r, i) ==
  /\ ~crashed
  /\ life[r][i] = "alive"
  /\ where = r => i # me
  /\ Becomes(r, i, "killed")
  /\ Broadcast(r, <<Removal(i)>>)
  /\ UNCHANGED <<peer, asked, crashed, up, client>>

\* The character of another player leaves, and the client is not told.
Vanish(r, i) ==
  /\ ~crashed
  /\ life[r][i] = "alive"
  /\ where = r => i # me
  /\ Becomes(r, i, "gone")
  /\ UNCHANGED <<peer, asked, crashed, network, client>>

\* The server puts the player elsewhere in its realm, or corrects its position: the
\* observer sends the player to its client, and then SpawnPlayerEntity_ForPlayer
\* goes through Peer::userPointer, which nothing sets.
Reposition ==
  /\ ~crashed
  /\ where # NoRealm
  /\ Send(<<Spawn(where, {me})>>)
  /\ crashed' = TRUE
  /\ UNCHANGED <<life, peer, asked, up, client>>

\* A component of the player's character sheet is set.
SheetChanged ==
  /\ ~crashed
  /\ where # NoRealm
  /\ Generic(me) \notin Pending
  /\ Send(<<Generic(me)>>)
  /\ UNCHANGED <<life, peer, asked, crashed, up, client>>

\* DisconnectPeer at the begin of a transfer to r; with useNextRealmPosition it
\* sets the position first, and the observer sends the player to its client.
DisconnectPeer(r, useNextRealmPosition) ==
  /\ ~crashed
  /\ where # NoRealm /\ r # where
  /\ IF useNextRealmPosition THEN Send(<<Spawn(where, {me})>>) ELSE UNCHANGED down
  /\ Becomes(where, me, "gone")
  /\ where' = NoRealm
  /\ nextRealm' = r
  /\ UNCHANGED <<me, asked, crashed, up, client, late>>

\* Mutant: only the player itself is sent to its client.
ConnectPeer_OnlyPlayer(i) ==
  /\ ~crashed
  /\ where = NoRealm
  /\ life[nextRealm][i] = "unborn" /\ Cardinality(Used) < MaxEntities
  /\ where' = nextRealm
  /\ me' = i
  /\ Becomes(nextRealm, i, "alive")
  /\ Send(<<Join(nextRealm, i), Spawn(nextRealm, {i}), Generic(i)>>)
  /\ late' = FALSE
  /\ UNCHANGED <<nextRealm, asked, crashed, up, client>>

\* ConnectPeer: the player gets an entity i.  A stored character may send parts of
\* its sheet as it is read, before it is complete; the whole sheet comes last.
ConnectPeer(i) ==
  /\ ~crashed
  /\ where = NoRealm
  /\ life[nextRealm][i] = "unborn" /\ Cardinality(Used) < MaxEntities
  /\ where' = nextRealm
  /\ me' = i
  /\ Becomes(nextRealm, i, "alive")
  /\ \E sheet \in {<<>>, <<Generic(i)>>} :
       Send(<<Join(nextRealm, i)>> \o sheet
              \o <<Spawn(nextRealm, Alive(nextRealm) \cup {i}), Generic(i)>>)
  /\ late' = FALSE
  /\ UNCHANGED <<nextRealm, asked, crashed, up, client>>

-------------------------------------------------------------------------------
(* Requests. *)

\* SelectExecutionQueueByRealm on the network thread: the request is queued in
\* the player's realm, or executed at once with a null queue, which is used.
SelectExecutionQueueByRealm ==
  /\ ~crashed
  /\ up # <<>>
  /\ up' = Tail(up)
  /\ IF where = NoRealm
       THEN crashed' = TRUE /\ UNCHANGED asked
       ELSE /\ asked' = [asked EXCEPT ![where] = Append(@, Head(up))]
            /\ UNCHANGED crashed
  /\ UNCHANGED <<life, peer, down, client>>

\* Mutant: who is dead gets no answer.
RequestSpawnEntities_NoRemoval(r) ==
  /\ ~crashed
  /\ asked[r] # <<>>
  /\ asked' = [asked EXCEPT ![r] = Tail(@)]
  /\ LET i == Head(asked[r]) IN
       down' = IF i \in Alive(r) THEN Append(down, Spawn(r, {i})) ELSE down
  /\ late' = (late \/ where \notin {r, NoRealm})
  /\ UNCHANGED <<life, where, nextRealm, me, crashed, up, client>>

\* RequestSpawnEntities in realm r, wherever the player is by now.
RequestSpawnEntities(r) ==
  /\ ~crashed
  /\ asked[r] # <<>>
  /\ asked' = [asked EXCEPT ![r] = Tail(@)]
  /\ LET i == Head(asked[r]) IN
       down' = Append(down, IF i \in Alive(r) THEN Spawn(r, {i}) ELSE Removal(i))
  /\ late' = (late \/ where \notin {r, NoRealm})
  /\ UNCHANGED <<life, where, nextRealm, me, crashed, up, client>>

-------------------------------------------------------------------------------
(* The client. *)

RequestSpawnOf(i) == up' = Append(up, i)

Room == UnderWay < MaxMessages

Server == <<life, peer, asked, crashed>>

\* Messages that neither show nor remove a character are not kept: one about i
\* may come, late or again, since some realm had a character with that id.
HeardOf(i) == \E r \in Realms : life[r][i] # "unborn"

Receive(type) ==
  /\ ~crashed
  /\ down # <<>>
  /\ Head(down).type = type
  /\ down' = Tail(down)

\* Mutants: the realm is not cleared; the old entity stays under control.
JoinRealm_NoClear ==
  /\ Receive("join")
  /\ realm' = Head(down).realm
  /\ serverPlayer' = Head(down).id
  /\ localPlayer' = NoId
  /\ RequestSpawnOf(Head(down).id)
  /\ UNCHANGED <<Server, view, tracked>>
JoinRealm_KeepsPlayer ==
  /\ Receive("join")
  /\ realm' = Head(down).realm
  /\ view' = [i \in Ids |-> "none"]
  /\ tracked' = {}
  /\ serverPlayer' = Head(down).id
  /\ RequestSpawnOf(Head(down).id)
  /\ UNCHANGED <<Server, localPlayer>>

\* Everything is forgotten, so the player's own entity has to be asked for.
JoinRealm ==
  /\ Receive("join")
  /\ realm' = Head(down).realm
  /\ view' = [i \in Ids |-> "none"]
  /\ tracked' = {}
  /\ serverPlayer' = Head(down).id
  /\ localPlayer' = NoId
  /\ RequestSpawnOf(Head(down).id)
  /\ UNCHANGED Server

\* Mutant: the player's entity is not recognised.
SpawnEntities_NoPlayer ==
  /\ Receive("spawn")
  /\ LET m == Head(down) IN
       view' = [i \in Ids |-> IF i \in m.ids THEN m.realm ELSE view[i]]
  /\ UNCHANGED <<Server, up, realm, tracked, serverPlayer, localPlayer>>

\* Characters that are known already are set to what is sent.
SpawnEntities ==
  /\ Receive("spawn")
  /\ LET m == Head(down) IN
       /\ view' = [i \in Ids |-> IF i \in m.ids THEN m.realm ELSE view[i]]
       /\ localPlayer' = IF serverPlayer \in m.ids THEN serverPlayer ELSE localPlayer
  /\ UNCHANGED <<Server, up, realm, tracked, serverPlayer>>

\* Components of an unknown character start an entity that has nothing else.
GenericComponentUpdate ==
  /\ Receive("generic")
  /\ LET i == Head(down).id IN
       IF i \in Shown
         THEN UNCHANGED <<up, view>>
         ELSE /\ view' = [view EXCEPT ![i] = "bare"]
              /\ RequestSpawnOf(i)
  /\ UNCHANGED <<Server, realm, tracked, serverPlayer, localPlayer>>

\* Control of the player goes with its entity, for good.
RemoveEntity ==
  /\ Receive("remove")
  /\ LET i == Head(down).id IN
       IF i \in Shown
         THEN /\ view' = [view EXCEPT ![i] = "none"]
              /\ tracked' = tracked \ {i}
              /\ IF i = serverPlayer
                   THEN serverPlayer' = NoId /\ localPlayer' = NoId
                   ELSE UNCHANGED <<serverPlayer, localPlayer>>
         ELSE UNCHANGED client
  /\ UNCHANGED <<Server, up, realm>>


\* The part of UpdateEntities that is about i; the player moves its own entity.  A
\* bare entity has no ComponentMovementHistory for AddNewAuthoritativeMovementState
\* to write to, and the client goes through the null pointer.  (PlayAnimation does
\* the same to a bare entity, and nothing to the others that is followed here.)
UpdateEntity(i) ==
  /\ ~crashed
  /\ HeardOf(i)
  /\ IF i \in Shown
       THEN /\ tracked' = IF i = localPlayer THEN tracked ELSE tracked \cup {i}
            /\ crashed' = (i # localPlayer /\ view[i] = "bare")
            /\ UNCHANGED up
       ELSE Room /\ RequestSpawnOf(i) /\ UNCHANGED <<tracked, crashed>>
  /\ UNCHANGED <<life, peer, asked, down, realm, view, serverPlayer, localPlayer>>

\* SetModel follows or precedes the spawn and comes with every change of model.
SetModel(i) ==
  /\ ~crashed
  /\ HeardOf(i)
  /\ i \notin Shown
  /\ Room /\ RequestSpawnOf(i)
  /\ UNCHANGED <<Server, down, client>>

\* RunOneEpoch: nothing was heard of i for two seconds.
RequestAgain(i) ==
  /\ ~crashed
  /\ i \in tracked
  /\ Room /\ RequestSpawnOf(i)
  /\ UNCHANGED <<Server, down, client>>

ServerNext ==
  \/ \E r \in Realms, i \in Ids : Birth(r, i) \/ Die(r, i) \/ Vanish(r, i)
  \/ Reposition
  \/ SheetChanged
  \/ \E r \in Realms, useNextRealmPosition \in BOOLEAN :
       DisconnectPeer(r, useNextRealmPosition)
  \/ \E i \in Ids : ConnectPeer(i)
  \/ SelectExecutionQueueByRealm
  \/ \E r \in Realms : RequestSpawnEntities(r)

ReceiveReliable ==
  JoinRealm \/ SpawnEntities \/ GenericComponentUpdate \/ RemoveEntity

ClientNext ==
  \/ ReceiveReliable
  \/ \E i \in Ids : UpdateEntity(i) \/ SetModel(i) \/ RequestAgain(i)

Next == ServerNext \/ ClientNext

Spec == Init /\ [][Next]_vars

\* The network delivers and realms run; a realm sends updates on and on and not
\* all of them are lost; the client checks again and again what it follows.
Fairness ==
  /\ WF_vars(SelectExecutionQueueByRealm)
  /\ \A r \in Realms : WF_vars(RequestSpawnEntities(r))
  /\ WF_vars(ReceiveReliable)
  /\ \A i \in Ids : SF_vars(where # NoRealm /\ i \in Alive(where) /\ UpdateEntity(i))
                   /\ SF_vars(RequestAgain(i))

-------------------------------------------------------------------------------
(* Properties.  Only the answer of a realm the player has left can disturb     *)
(* what the client makes of the next realm; Undisturbed says there was none,   *)
(* and that the client knows of its arrival.                                   *)

Undisturbed == Joined /\ ~late /\ ~crashed

\* The client's ids and components agree: it controls at most the entity the
\* server gave it, and what it follows it can ask for by its id.
IdsAgree ==
  /\ localPlayer \in {serverPlayer, NoId}
  /\ localPlayer # NoId => localPlayer \in Shown
  /\ tracked \subseteq Shown

\* A client does not lose the player it is to control, unless by an answer of the
\* realm it has left.
NotDisowned == Undisturbed => serverPlayer = me

\* Ids agree on the client, it knows its player, and the server's idea of the
\* player is alive.
Inv ==
  /\ TypeOK
  /\ IdsAgree
  /\ NotDisowned
  /\ where # NoRealm => nextRealm = where /\ me \in Alive(where)

\* What a client shows is from the realm it shows, and that is the player's.
OwnRealmOnly ==
  Undisturbed => /\ realm = where
                 /\ \A i \in Shown : view[i] \in {where, "bare"}

\* Every character of the realm is shown, or its spawn is under way.
NothingMissing ==
  Undisturbed =>
    \A i \in Alive(where) :
      \/ view[i] = where
      \/ \E m \in Pending : m.type = "spawn" /\ i \in m.ids

\* Who was killed while the client was in the realm is not shown for long: its
\* removal is under way, and nothing that would show it again comes after it.
DeathIsFinal ==
  Undisturbed =>
    \A i \in Ids : life[where][i] = "killed" =>
      \/ i \notin Shown /\ \A m \in Pending : m.type = "spawn" => i \notin m.ids
      \/ \E k \in DOMAIN down :
           /\ down[k] = Removal(i)
           /\ \A l \in DOMAIN down : down[l].type = "spawn" /\ i \in down[l].ids => l < k

(* What comes to be, as long as neither the server crashes nor the client (at   *)
(* an update for an entity that is still bare).                                *)

InRealm == ~crashed /\ where # NoRealm


\* A character the client follows and the realm does not have is removed.
GhostsGo ==
  \A i \in Ids : (InRealm /\ i \in tracked \ Alive(where)) ~>
                 ~(InRealm /\ i \in Shown \ Alive(where))

\* The player comes to control its character.
ControlIsGained == InRealm ~> ~InRealm \/ late \/ localPlayer = me
===============================================================================
