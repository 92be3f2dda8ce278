-------------------------------- MODULE Movement --------------------------------
(***************************************************************************)
(* How a player's character moves: the client predicts it and tells the    *)
(* server now and then, the realm moves it on its own in between and tells *)
(* its triggers who comes and goes (GameClient::RunOneEpoch and its input, *)
(* ServerCore::UpdatePlayer, RealmServer::OneEpoch, ComponentTrigger).     *)
(*                                                                         *)
(* Space is a row of cells with a wall at either end; a velocity is -1, 0  *)
(* or 1 cells a tick; height is the number of ticks until the character    *)
(* lands.  The player may leave the realm and come back, or arrive in      *)
(* another one that looks the same; its client learns of it later, and     *)
(* what is under way by then is about the place it has left.               *)
(***************************************************************************)
EXTENDS Integers, Sequences

CONSTANTS
  Width,        \* the last cell
  Zone,         \* cells in the trigger's box
  Starts,       \* cells where a player may arrive
  Directions,   \* what the keys can ask for, of -1, 0 and 1
  Reach,        \* 5: an update from further away is refused
  SendDelay,    \* 200: ticks after which the client repeats its state
  JumpTicks,    \* from the jump to the landing
  MaxInFlight   \* bound: messages under way to the server

ASSUME MovementAssumption ==
  /\ {Width, Reach, SendDelay, MaxInFlight} \subseteq Nat \ {0}
  /\ JumpTicks \in Nat /\ JumpTicks > 1
  /\ Directions \subseteq {-1, 0, 1} /\ 0 \in Directions
  /\ Zone \subseteq 0..Width /\ Starts \subseteq 0..Width /\ Starts # {}

VARIABLES
  (* the realm *)
  present,    \* the player has an entity in the realm
  server,     \* ComponentMovementState of that entity
  inside,     \* that entity is in ComponentTrigger::entitiesInside
  ignoring,   \* currentTick <= tickUntilIgnore
  crashed,    \* the server has used a null pointer
  (* the network *)
  up,         \* UpdatePlayer messages of the client
  arrival,    \* JoinRealm and SpawnEntities of an arrival, <<>> or one state
  (* the client *)
  local,      \* localPlayerEntityId is set
  client,     \* ComponentMovementState of its player
  needSend,   \* needSendPlayerMovementInput
  sentAge,    \* ticks since lastTickAuthoritativeSent, Ahead of the clock or not
  keys,       \* the direction that is held
  jumping,    \* so is the key to jump
  (* history *)
  told,       \* what the entity's last callback of the trigger was
  spoken      \* the client has sent its state since it learned of its arrival

realmVars == <<present, server, inside, ignoring, crashed, told>>
clientVars == <<local, client, needSend, sentAge>>
input == <<keys, jumping>>
vars == <<realmVars, up, arrival, clientVars, input, spoken>>

States == [pos : 0..Width, vel : Directions, air : 0..JumpTicks]
Rest(cell) == [pos |-> cell, vel |-> 0, air |-> 0]

\* The stamp was taken by the clock of a realm that is further on than this one.
Ahead == -1

\* A character that has just jumped has its feet on the ground until the tick.
OnGround(s) == s.air \in {0, JumpTicks}

-------------------------------------------------------------------------------
(* Movement, the same on both sides. *)

Clip(cell) == IF cell < 0 THEN 0 ELSE IF cell > Width THEN Width ELSE cell

\* EntitySystems::UpdateMovement for a tick: walls stop who runs into them, but
\* only in the air do they take the velocity as well.
UpdateMovement(s) ==
  LET next == Clip(s.pos + s.vel)
      blocked == next # s.pos + s.vel
  IN  [ pos |-> next,
        vel |-> IF s.air > 0 /\ blocked THEN 0 ELSE s.vel,
        air |-> IF s.air > 0 THEN s.air - 1 ELSE 0 ]

-------------------------------------------------------------------------------
(* The client. *)

\* ProvideMovementInputDirection: keys have no effect in the air.
Steer(s, dir) == IF OnGround(s) THEN [s EXCEPT !.vel = dir] ELSE s

\* TryPerformJump.
Jump(s) == IF OnGround(s) THEN [s EXCEPT !.air = JumpTicks] ELSE s

\* PerformSendPlayerMovementInput sends when there is input or it is time.
Due(age, flag) == flag \/ age >= SendDelay

\* A frame of GameFrontendScript: RunOneEpoch, whose realm may have a tick to
\* do, and sends before and after it; then the keys, for every frame again.  A
\* stamp that is Ahead gets into the past again in the course of time.
Frame(tick) ==
  /\ UNCHANGED <<input, realmVars, arrival, local>>
  /\ local
  /\ \E moved \in {IF tick THEN UpdateMovement(client) ELSE client} :
     \E steered \in {Steer(IF jumping THEN Jump(moved) ELSE moved, keys)} :
       LET first == Due(sentAge, needSend)
           age0 == IF first THEN 0 ELSE sentAge
           second == tick /\ age0 # Ahead /\ age0 + 1 >= SendDelay
           updates == (IF first THEN <<client>> ELSE <<>>)
                      \o (IF second THEN <<moved>> ELSE <<>>)
       IN  /\ Len(up) + Len(updates) <= MaxInFlight
           /\ up' = up \o updates
           /\ client' = steered
           /\ needSend' = ((needSend /\ ~first) \/ steered # moved
                             \/ (jumping /\ OnGround(moved)))
           /\ \/ sentAge' = CASE second -> 0
                              [] age0 = Ahead \/ ~tick -> age0
                              [] OTHER -> age0 + 1
              \/ sentAge = Ahead /\ ~first /\ sentAge' = SendDelay
           /\ spoken' = (spoken \/ (updates # <<>> /\ present /\ arrival = <<>>))

\* EntityPrefabScript::_process of any entity on the screen calls RunOneEpoch,
\* too, which so may have its tick between the keys and the next message.
NodeProcess ==
  /\ local
  /\ client' = UpdateMovement(client)
  /\ sentAge' = IF sentAge \in {Ahead, SendDelay} THEN sentAge ELSE sentAge + 1
  /\ UNCHANGED <<realmVars, up, arrival, local, needSend, input, spoken>>

\* The player.
Press(direction, jump) ==
  /\ <<direction, jump>> # input
  /\ keys' = direction
  /\ jumping' = jump
  /\ UNCHANGED <<realmVars, up, arrival, clientVars, spoken>>

\* JoinRealm, which starts the clock anew but keeps the stamp, and SpawnEntity
\* of the player itself.
Joined ==
  /\ arrival # <<>>
  /\ arrival' = <<>>
  /\ local' = TRUE
  /\ client' = Head(arrival)
  /\ sentAge' \in {Ahead, 0, SendDelay}
  /\ spoken' = FALSE
  /\ UNCHANGED <<realmVars, up, needSend, input>>

-------------------------------------------------------------------------------
(* The realm. *)

Distance(a, b) == IF a < b THEN b - a ELSE a - b

\* Mutant: the server keeps its own position.
Updated_OwnPosition(n) ==
  [ state |-> IF present /\ n > 0 THEN [up[n] EXCEPT !.pos = server.pos] ELSE server,
    crashed |-> FALSE ]

\* The first n messages, ServerCore::UpdatePlayer each: the client is believed
\* unless it is far away.  In that case it would be sent the server's state, but
\* SpawnPlayerEntity_ForPlayer gets PeerData from userPointer, which nothing sets.
Updated(n) ==
  LET path == <<server>> \o SubSeq(up, 1, n)
  IN  [ state |-> IF present THEN path[n + 1] ELSE server,
        crashed |-> present /\ \E i \in 1..n : Distance(path[i].pos, path[i + 1].pos) >= Reach ]

\* Mutant: who has been inside once stays in entitiesInside.
Tick_Accumulates(found) ==
  /\ inside' = (inside \/ found)
  /\ ignoring' = FALSE
  /\ told' = CASE ~ignoring /\ found /\ ~inside -> "in"
               [] OTHER -> told

\* The characters in the broad phase whose axis meets the box of the trigger.
TriggerTestBoxForCharacters(s) == present /\ s.pos \in Zone

\* ComponentTrigger::Tick: callbacks for who has come and for who has gone, if
\* it is alive.  A trigger calls nobody in the first epoch of its realm.
Tick(found) ==
  /\ inside' = found
  /\ ignoring' = FALSE
  /\ told' = CASE ~ignoring /\ found /\ ~inside -> "in"
               [] ~ignoring /\ inside /\ ~found /\ present -> "out"
               [] OTHER -> told

\* RealmServer::OneEpoch: the messages that have come in by now, then movement,
\* then the triggers.
OneEpoch(n) ==
  /\ UNCHANGED <<input, clientVars, present, arrival, spoken>>
  /\ up' = SubSeq(up, n + 1, Len(up))
  /\ \E r \in {Updated(n)} :
       /\ crashed' = r.crashed
       /\ IF r.crashed
            THEN UNCHANGED <<server, inside, ignoring, told>>
            ELSE /\ server' = IF present THEN UpdateMovement(r.state) ELSE server
                 /\ Tick(TriggerTestBoxForCharacters(server'))

\* ConnectPeer: a new entity, with an id of its own, at the place that was
\* stored or asked for.
Arrive(cell) ==
  /\ ~present /\ arrival = <<>>
  /\ present' = TRUE
  /\ server' = Rest(cell)
  /\ arrival' = <<Rest(cell)>>
  /\ inside' = FALSE
  /\ told' = "none"
  /\ spoken' = FALSE
  /\ UNCHANGED <<ignoring, crashed, up, clientVars, input>>

\* DisconnectPeer removes the entity.
Depart ==
  /\ present
  /\ present' = FALSE
  /\ server' = Rest(0)
  /\ told' = "none"
  /\ spoken' = FALSE
  /\ UNCHANGED <<inside, ignoring, crashed, up, arrival, clientVars, input>>

Init ==
  /\ present = FALSE
  /\ server = Rest(0)
  /\ inside = FALSE
  /\ ignoring = TRUE
  /\ crashed = FALSE
  /\ up = <<>> /\ arrival = <<>>
  /\ local = FALSE
  /\ client = Rest(0)
  /\ needSend = FALSE
  /\ sentAge = SendDelay
  /\ keys = 0 /\ jumping = FALSE
  /\ told = "none"
  /\ spoken = FALSE

Next ==
  /\ ~crashed
  /\ \/ \E tick \in BOOLEAN : Frame(tick)
     \/ NodeProcess
     \/ \E direction \in Directions, jump \in BOOLEAN : Press(direction, jump)
     \/ Joined
     \/ \E n \in 0..Len(up) : OneEpoch(n)
     \/ \E cell \in Starts : Arrive(cell)
     \/ Depart

Spec == Init /\ [][Next]_vars

\* Frames and epochs go on, and what has been sent reliably arrives.  Of the
\* client's ticks some fall due before RunOneEpoch, which is first in a frame.
Fairness ==
  /\ WF_vars(~crashed /\ Frame(TRUE))
  /\ WF_vars(~crashed /\ OneEpoch(Len(up)))
  /\ WF_vars(~crashed /\ Joined)
FairSpec == Spec /\ Fairness

-------------------------------------------------------------------------------
(* Properties. *)

TypeOK ==
  /\ {present, ignoring, crashed, local, needSend, jumping, spoken, inside} \subseteq BOOLEAN
  /\ server \in States /\ client \in States
  /\ up \in Seq(States) /\ Len(up) <= MaxInFlight
  /\ arrival \in Seq(States) /\ Len(arrival) <= 1
  /\ sentAge \in Ahead..SendDelay /\ keys \in Directions
  /\ told \in {"none", "in", "out"}

\* What the trigger has told its callbacks about somebody alive is where that
\* one was in the last epoch (ComponentTrigger::Tick).
TriggerFollows ==
  ~crashed /\ present =>
    /\ told = "in" => inside
    /\ told = "out" => ~inside
    /\ inside => server.pos \in Zone

Inv == TypeOK /\ TriggerFollows

\* A player who stays in the realm and lets go of the keys comes to rest in the
\* same place on both sides, whatever delays there were, wherever it landed and
\* though updates from the place it has left may move it (UpdatePlayer and
\* PerformSendPlayerMovementInput).  Until it has sent something from its new
\* place the two may differ: the stamp of the last update is of another clock.
StopsTogether ==
  <>[](keys = 0 /\ ~jumping /\ present) => <>[](crashed \/ (spoken => server = client))
=============================================================================
