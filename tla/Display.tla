-------------------------------- MODULE Display --------------------------------
(***************************************************************************)
(* What the player sees (frontend/game_frontend): observers of the client  *)
(* realm keep a node in the scene tree for every entity that has a model,  *)
(* and loaders under the nodes replace themselves by what they have loaded *)
(* in the background.                                                      *)
(*                                                                         *)
(* The engine is external: it calls _process of every node in the tree in  *)
(* each frame, and its threads finish loading what was requested.  A       *)
(* message is handled as a whole, before the frame's other nodes; as these *)
(* do not see each other, frames need no bound of their own.               *)
(***************************************************************************)
EXTENDS Integers

CONSTANTS
  Characters,  \* server ids of entities that move
  Statics,     \* server ids of doors, buildings and terrain
  Animated,    \* models: scenes that have an AnimationTree and -Player,
  Plain,       \*   scenes that have neither,
  Meshes,      \*   meshes,
  Broken,      \*   and names for which nothing can be loaded
  Scenery,     \* bound: the models of static entities
  Absent,      \* the entity has no such component
  MaxShots     \* bound: animations which wait to be played

ASSUME DisplayAssumption ==
  /\ Characters \cap Statics = {}
  /\ Scenery \subseteq Animated \cup Plain \cup Meshes \cup Broken
  /\ MaxShots \in Nat \ {0}
  /\ Animated \cap (Plain \cup Meshes \cup Broken) = {}
  /\ Plain \cap (Meshes \cup Broken) = {}
  /\ Meshes \cap Broken = {}

Models == Animated \cup Plain \cup Meshes \cup Broken
Scenes == Animated \cup Plain
NoModel == "no model name"  \* ""
NoOne == "no one"           \* entity id 0
Null == "null"
Freed == "freed"            \* a pointer to what has been deleted

ASSUME NamesAssumption ==
  {NoModel, Absent, Null, Freed} \cap Models = {} /\ NoOne \notin Characters

Entities == Characters \cup Statics

VARIABLES
  known,         \* mapServerEntityIdToLocalEntityId
  moving,        \* who has a ComponentMovementState
  model,         \* ComponentModelName of each
  node,          \* Characters: ComponentGodotNode, Absent or an EntityPrefabScript
  scenery,       \* Statics: ComponentStaticGodotNode, Absent or the node's children
  loose,         \* whether other scenes are in the tree, which a timer will remove
  serverPlayer,  \* serverPlayerEntityId
  localPlayer,   \* localPlayerEntityId, given by its server id
  crashed        \* freed memory or a null pointer has been used: the process has ended

entities == <<known, moving, model>>
tree == <<node, scenery, loose>>
players == <<serverPlayer, localPlayer>>
vars == <<entities, tree, players, crashed>>

Children == [what : {"loader", "loaded", "instance"}, of : Models]

\* EntityPrefabScript: the children of nodeContainingModel, the two pointers that
\* loaders fill in, and oneShotAnimations.
Nodes == [ currentModel : Models \cup {NoModel}, children : SUBSET Children,
           modelNode3D : Models \cup {Null, Freed}, animationTree : Models \cup {Null, Freed},
           visible : BOOLEAN, shots : 0..MaxShots ]

ASSUME AbsentAssumption ==
  /\ Absent \notin Nodes /\ Absent # NoModel
  /\ Absent # {} /\ \A c \in Children : Absent # {c}

NewNode == [ currentModel |-> NoModel, children |-> {}, modelNode3D |-> Null,
             animationTree |-> Null, visible |-> TRUE, shots |-> 0 ]

Loader(m) == [what |-> "loader", of |-> m]

-------------------------------------------------------------------------------
(* Observers. *)

\* Mutant: the previous model's loader is left to finish.
ModelSet_LoaderStays(n, m) ==
  IF n.currentModel = m THEN n
  ELSE [ n EXCEPT !.currentModel = m,
                  !.children = {c \in @ : c.what = "loader"}
                                 \cup IF m = NoModel THEN {} ELSE {Loader(m)},
                  !.visible = TRUE,
                  !.modelNode3D = Null,
                  !.animationTree = IF @ = Null THEN Null ELSE Freed ]

\* Mutant: a model is loaded again if it is the same.
ModelSet_Again(n, m) ==
  [ n EXCEPT !.currentModel = m,
             !.children = IF m = NoModel THEN {} ELSE {Loader(m)},
             !.visible = TRUE,
             !.modelNode3D = Null,
             !.animationTree = IF @ = Null THEN Null ELSE Freed ]

\* SetModel frees what was shown or under way, and forgets the model's node, but
\* not its AnimationTree.  The instance that comes next is visible at first.
ModelSet(n, m) ==
  IF n.currentModel = m THEN n
  ELSE [ n EXCEPT !.currentModel = m,
                  !.children = IF m = NoModel THEN {} ELSE {Loader(m)},
                  !.visible = TRUE,
                  !.modelNode3D = Null,
                  !.animationTree = IF @ = Null THEN Null ELSE Freed ]

\* An entity that has both a state and a model gets a node, which the observer of
\* the model then tells the model.
ObserveModel(s, m) ==
  /\ model' = [model EXCEPT ![s] = m]
  /\ node' = [node EXCEPT ![s] =
       IF s \in moving' THEN ModelSet(IF @ = Absent THEN NewNode ELSE @, m) ELSE @]

\* The observers of removal take the node out of the tree and delete it.
Removed(S) ==
  /\ known' = known \ S
  /\ moving' = moving \ S
  /\ model' = [s \in Entities |-> IF s \in S THEN Absent ELSE model[s]]
  /\ node' = [s \in Characters |-> IF s \in S THEN Absent ELSE node[s]]
  /\ scenery' = [s \in Statics |-> IF s \in S THEN Absent ELSE scenery[s]]

\* Whose player is removed controls no one until the server names one again.
PlayerRemoved(S) ==
  IF serverPlayer \in S \/ localPlayer \in S
    THEN serverPlayer' = NoOne /\ localPlayer' = NoOne
    ELSE UNCHANGED players

-------------------------------------------------------------------------------
(* Messages from the server. *)

SpawnEntity(s, m) ==
  /\ known' = known \cup {s}
  /\ moving' = moving \cup {s}
  /\ ObserveModel(s, m)
  /\ localPlayer' = IF s = serverPlayer THEN s ELSE localPlayer
  /\ UNCHANGED <<scenery, loose, serverPlayer, crashed>>

\* The answer to an unknown id, RequestSpawnOf, changes nothing here.
SetModel(s, m) ==
  /\ s \in known
  /\ UNCHANGED <<known, moving, scenery, loose, players, crashed>>
  /\ ObserveModel(s, m)

\* The player's character sheet, which may precede the player.
GenericComponentUpdate ==
  /\ serverPlayer # NoOne
  /\ known' = known \cup {serverPlayer}
  /\ UNCHANGED <<moving, model, tree, players, crashed>>

\* Of a static entity that is known only the transform is taken.
SpawnStaticEntities(s, m) ==
  /\ IF s \in known
       THEN UNCHANGED <<known, model, scenery>>
       ELSE /\ known' = known \cup {s}
            /\ model' = [model EXCEPT ![s] = m]
            /\ scenery' = [scenery EXCEPT ![s] = {Loader(m)}]
  /\ UNCHANGED <<moving, node, loose, players, crashed>>

RemoveEntity(s) ==
  /\ s \in known
  /\ Removed({s}) /\ PlayerRemoved({s})
  /\ UNCHANGED <<loose, crashed>>

\* A body with an animation of its own is left for a while.
PlayDeathAndDestroyEntity(s, m) ==
  /\ Removed({s} \cap known) /\ PlayerRemoved({s} \cap known)
  /\ loose' = (loose \/ m \in Animated)
  /\ UNCHANGED crashed

\* Who has a node has a ComponentMovementHistory.  It is looked up for everyone
\* who is known, and used without a look at the result.
PlayAnimation(s) ==
  /\ s \in known
  /\ \/ /\ node[s] # Absent /\ node[s].shots < MaxShots
        /\ node' = [node EXCEPT ![s].shots = @ + 1]
        /\ UNCHANGED crashed
     \/ /\ node[s] = Absent
        /\ crashed' = TRUE
        /\ UNCHANGED node
  /\ UNCHANGED <<entities, scenery, loose, players>>

\* Left out: an effect that is attached to an entity, as a child of its node, and
\* one without an end, which stays until the next realm.
PlayFX(m, s) ==
  /\ m \in Scenes
  /\ ~(s \in Characters \cap known /\ node[s] # Absent)
  /\ ~(s \in Statics \cap known /\ scenery[s] # Absent)
  /\ loose' = TRUE
  /\ UNCHANGED <<entities, node, scenery, players, crashed>>

\* JoinRealm: all entities are removed, then what else there is in the tree.
JoinRealm(s) ==
  /\ Removed(known)
  /\ loose' = FALSE
  /\ serverPlayer' = s
  /\ localPlayer' = NoOne
  /\ UNCHANGED crashed

\* A client that has lost its peer clears the realm in each frame.
DisconnectRealmPeer ==
  /\ Removed(known)
  /\ serverPlayer' = NoOne /\ localPlayer' = NoOne
  /\ UNCHANGED <<loose, crashed>>

-------------------------------------------------------------------------------
(* The engine and its nodes. *)

\* External: a background load ends, well or not.
Ended(children) == {[c EXCEPT !.what = IF @ = "loader" THEN "loaded" ELSE @] : c \in children}

LoadEnds(s) ==
  /\ \/ /\ s \in Characters /\ node[s] # Absent
        /\ \E c \in node[s].children : c.what = "loader"
        /\ node' = [node EXCEPT ![s].children = Ended(@)]
        /\ UNCHANGED scenery
     \/ /\ s \in Statics /\ scenery[s] # Absent
        /\ \E c \in scenery[s] : c.what = "loader"
        /\ scenery' = [scenery EXCEPT ![s] = Ended(@)]
        /\ UNCHANGED node
  /\ UNCHANGED <<entities, loose, players, crashed>>

\* AsyncLoadedPlaceholder3D::_process: the loader is replaced by an instance of
\* what it has loaded, if anything.
Replaced(children, c) ==
  (children \ {c}) \cup IF c.of \in Broken THEN {} ELSE {[c EXCEPT !.what = "instance"]}

Delivered(n, c) ==
  [ n EXCEPT !.children = Replaced(@, c),
             !.modelNode3D = IF c.of \in Broken THEN @ ELSE c.of,
             !.animationTree = CASE c.of \in Animated -> c.of
                                 [] c.of \in Plain -> Null
                                 [] OTHER -> @ ]

Deliver(s) ==
  /\ node[s] # Absent
  /\ \E c \in node[s].children :
       /\ c.what = "loaded"
       /\ node' = [node EXCEPT ![s] = Delivered(@, c)]
  /\ UNCHANGED <<entities, scenery, loose, players, crashed>>

DeliverStatic(s) ==
  /\ scenery[s] # Absent
  /\ \E c \in scenery[s] :
       /\ c.what = "loaded"
       /\ scenery' = [scenery EXCEPT ![s] = Replaced(@, c)]
  /\ UNCHANGED <<entities, node, loose, players, crashed>>

IsPlayer(s) == s = localPlayer

\* MovingEntity._process: the animation tree is used, whatever the pointer points
\* to; the player's own model is hidden; one animation starts.
Process(s) ==
  /\ node[s] # Absent
  /\ crashed' \in IF node[s].animationTree = Freed THEN BOOLEAN ELSE {FALSE}
  /\ node' = [node EXCEPT
       ![s].visible = IF node[s].modelNode3D = Null THEN @ ELSE ~IsPlayer(s),
       ![s].shots = IF node[s].animationTree = Null \/ @ = 0 THEN @ ELSE @ - 1]
  /\ UNCHANGED <<entities, scenery, loose, players>>

\* NodeRemoverAfterTimer::_process
RemoverExpires ==
  /\ loose
  /\ loose' \in BOOLEAN
  /\ UNCHANGED <<entities, node, scenery, players, crashed>>

-------------------------------------------------------------------------------
Init ==
  /\ known = {} /\ moving = {}
  /\ model = [s \in Entities |-> Absent]
  /\ node = [s \in Characters |-> Absent]
  /\ scenery = [s \in Statics |-> Absent]
  /\ loose = FALSE
  /\ serverPlayer = NoOne /\ localPlayer = NoOne
  /\ crashed = FALSE

Message ==
  \/ \E s \in Characters, m \in Models \cup {NoModel} : SpawnEntity(s, m) \/ SetModel(s, m)
  \/ GenericComponentUpdate
  \/ \E s \in Statics, m \in Scenery : SpawnStaticEntities(s, m)
  \/ \E s \in Entities : RemoveEntity(s)
  \/ \E s \in Characters, m \in Models : PlayDeathAndDestroyEntity(s, m)
  \/ \E s \in Characters : PlayAnimation(s)
  \/ \E m \in Models, s \in Entities : PlayFX(m, s)
  \/ \E s \in Characters : JoinRealm(s)

Next ==
  /\ ~crashed
  /\ \/ Message
     \/ DisconnectRealmPeer
     \/ \E s \in Entities : LoadEnds(s)
     \/ \E s \in Characters : Deliver(s) \/ Process(s)
     \/ \E s \in Statics : DeliverStatic(s)
     \/ RemoverExpires

Spec == Init /\ [][Next]_vars

\* The engine runs every node in each frame, and loads end.
Fairness ==
  /\ \A s \in Entities : WF_vars(~crashed /\ LoadEnds(s))
  /\ \A s \in Characters : WF_vars(~crashed /\ Deliver(s)) /\ WF_vars(~crashed /\ Process(s))
  /\ \A s \in Statics : WF_vars(~crashed /\ DeliverStatic(s))

FairSpec == Spec /\ Fairness

-------------------------------------------------------------------------------
(* Properties. *)

TypeOK ==
  /\ known \subseteq Entities /\ moving \subseteq Characters
  /\ model \in [Entities -> Models \cup {NoModel, Absent}]
  /\ node \in [Characters -> Nodes \cup {Absent}]
  /\ scenery \in [Statics -> {Absent} \cup SUBSET Children]
  /\ loose \in BOOLEAN /\ crashed \in BOOLEAN
  /\ {serverPlayer, localPlayer} \subseteq Characters \cup {NoOne}

\* Who has a state and a model has a node, for that model, and no one else has.
NodesMirrorEntities ==
  /\ \A s \in Characters :
       /\ (node[s] # Absent) = (s \in known \cap moving /\ model[s] # Absent)
       /\ node[s] # Absent => node[s].currentModel = model[s]
  /\ \A s \in Statics : (scenery[s] # Absent) = (s \in known /\ model[s] # Absent)

\* One child at most, loaded or not, which is of the model.
OneOf(children, m) == \A c, d \in children : c = d /\ c.of = m

\* However late loads end, there is one model under a node or on its way, the
\* entity's latest.
OnlyTheLatestModel ==
  /\ \A s \in Characters : node[s] # Absent => OneOf(node[s].children, model[s])
  /\ \A s \in Statics : scenery[s] # Absent => OneOf(scenery[s], model[s])

\* The model's node is the one in the tree.  Its animation tree is not sure to be:
\* it outlives a change of the model until a scene takes its place.
PointersFollow ==
  \A s \in Characters : node[s] # Absent =>
    LET n == node[s]
        shown == {c.of : c \in {c \in n.children : c.what = "instance"}}
    IN  /\ IF shown = {} THEN n.modelNode3D = Null ELSE n.modelNode3D \in shown
        /\ n.animationTree \in Models => n.animationTree \in shown
        /\ n.animationTree = Freed => shown \cap Scenes = {}

\* The player one controls is there, and the one the server named.
PlayerIsPresent ==
  localPlayer # NoOne => localPlayer = serverPlayer /\ node[localPlayer] # Absent

\* The scene tree, the entities and the pointers between them agree after every
\* sequence of messages, with loads that end at any time (GameClientFrontend.cpp,
\* EntityPrefabScript.cpp, AsyncLoadedPlaceholder.cpp).
Inv ==
  TypeOK /\ NodesMirrorEntities /\ OnlyTheLatestModel /\ PointersFollow /\ PlayerIsPresent

Shown(s, m) ==
  IF s \in Statics
  THEN scenery[s] # Absent /\ [what |-> "instance", of |-> m] \in scenery[s]
  ELSE /\ node[s] # Absent
       /\ [what |-> "instance", of |-> m] \in node[s].children
       /\ node[s].visible = ~IsPlayer(s)

\* An entity's model appears, hidden if it is the player, unless the entity or the
\* model changes first.  Updates that repeat the model do not keep it from
\* appearing (SetModel, AsyncLoadedPlaceholder3D::_process).
ModelAppears ==
  \A s \in Entities, m \in Models \ Broken :
    (model[s] = m /\ (s \in Characters => s \in moving))
      ~> (model[s] # m \/ crashed \/ Shown(s, m))

===============================================================================
