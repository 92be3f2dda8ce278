----------------------------- MODULE Display_proofs -----------------------------
(***************************************************************************)
(* The invariant of Display for every number of entities and models: after *)
(* every sequence of messages, with loads that end in any order, the nodes *)
(* are those of the entities, and the pointers into them are what the      *)
(* invariant says.                                                         *)
(***************************************************************************)
EXTENDS Display, TLAPS

-------------------------------------------------------------------------------
(* One node. *)

ShownUnder(n) == {c.of : c \in {c \in n.children : c.what = "instance"}}

\* A character's node that belongs to the model m.
NodeOK(n, m) ==
  /\ n \in Nodes
  /\ n.currentModel = m
  /\ OneOf(n.children, m)
  /\ ShownUnder(n) = {} => n.modelNode3D = Null
  /\ ShownUnder(n) # {} => n.modelNode3D \in ShownUnder(n)
  /\ n.animationTree \in Models => n.animationTree \in ShownUnder(n)
  /\ n.animationTree = Freed => ShownUnder(n) \cap Scenes = {}

\* A static entity's children that belong to the model m.
ChildrenOK(children, m) == children \in SUBSET Children /\ OneOf(children, m)

LEMMA ModelTypes ==
  /\ Models \cap {NoModel, Absent, Null, Freed} = {}
  /\ Null # Freed /\ NoModel # Null /\ NoModel # Freed
  /\ \A m \in Models : Loader(m) \in Children
  /\ \A n \in Nodes : n # Absent
  BY NamesAssumption, AbsentAssumption DEF NoModel, Null, Freed, Loader, Children

LEMMA NewNodeOK == NodeOK(NewNode, NoModel)
<1>1. NewNode \in Nodes
  BY DisplayAssumption, ModelTypes DEF NewNode, Nodes
<1>2. ShownUnder(NewNode) = {}
  BY DEF ShownUnder, NewNode
<1> QED
  BY <1>1, <1>2, ModelTypes DEF NodeOK, NewNode, OneOf

\* SetModel leaves nothing of the model before.
LEMMA ModelSetOK ==
  ASSUME NEW n, NEW old, NodeOK(n, old), NEW m \in Models \cup {NoModel}
  PROVE  NodeOK(ModelSet(n, m), m)
<1>1. CASE n.currentModel = m
  BY <1>1 DEF ModelSet, NodeOK
<1>2. CASE n.currentModel # m
  <2> DEFINE new == ModelSet(n, m)
  <2>1. n \in Nodes
    BY DEF NodeOK
  <2>2. /\ new.currentModel = m
        /\ new.children = IF m = NoModel THEN {} ELSE {Loader(m)}
        /\ new.modelNode3D = Null
        /\ new.animationTree \in {Null, Freed}
        /\ new \in Nodes
    BY <1>2, <2>1, ModelTypes DEF ModelSet, Nodes
  <2> HIDE DEF new
  <2>3. \A c \in new.children : c.what = "loader" /\ c = Loader(m) /\ c.of = m
    BY <2>2 DEF Loader
  <2>4. ShownUnder(new) = {}
    BY <2>3 DEF ShownUnder
  <2>5. OneOf(new.children, m)
    BY <2>3 DEF OneOf
  <2> QED
    BY <2>2, <2>4, <2>5, ModelTypes DEF NodeOK, new
<1> QED
  BY <1>1, <1>2

\* A loader that ends well takes its own place; one that does not, goes.
LEMMA ReplacedOK ==
  ASSUME NEW children, NEW m, ChildrenOK(children, m), NEW c \in children
  PROVE  /\ ChildrenOK(Replaced(children, c), m)
         /\ Replaced(children, c) =
              IF m \in Broken THEN {} ELSE {[what |-> "instance", of |-> m]}
         /\ m \in Models
<1>1. children = {c} /\ c.of = m /\ c \in Children
  BY DEF ChildrenOK, OneOf
<1>2. m \in Models
  BY <1>1 DEF Children
<1>3. [c EXCEPT !.what = "instance"] = [what |-> "instance", of |-> m]
  BY <1>1 DEF Children
<1>4. Replaced(children, c) = IF m \in Broken THEN {} ELSE {[what |-> "instance", of |-> m]}
  BY <1>1, <1>3 DEF Replaced
<1> QED
  BY <1>2, <1>4 DEF ChildrenOK, OneOf, Children

\* What three fields of a node are changed to.
Updated(n, a, b, d) == [n EXCEPT !.children = a, !.modelNode3D = b, !.animationTree = d]

LEMMA NodeUpdated ==
  ASSUME NEW n \in Nodes, NEW a \in SUBSET Children,
         NEW b \in Models \cup {Null, Freed}, NEW d \in Models \cup {Null, Freed}
  PROVE  /\ Updated(n, a, b, d) \in Nodes
         /\ Updated(n, a, b, d).currentModel = n.currentModel
         /\ Updated(n, a, b, d).children = a
         /\ Updated(n, a, b, d).modelNode3D = b
         /\ Updated(n, a, b, d).animationTree = d
  BY DEF Nodes, Updated

LEMMA DeliveredOK ==
  ASSUME NEW n, NEW m, NodeOK(n, m), NEW c \in n.children, c.what = "loaded"
  PROVE  NodeOK(Delivered(n, c), m)
<1> DEFINE new == Delivered(n, c)
<1>1. /\ n \in Nodes /\ ChildrenOK(n.children, m)
      /\ n.children = {c} /\ c.of = m
  BY DEF NodeOK, ChildrenOK, OneOf, Nodes
<1>2. /\ m \in Models
      /\ ChildrenOK(Replaced(n.children, c), m)
      /\ Replaced(n.children, c) = IF m \in Broken THEN {} ELSE {[what |-> "instance", of |-> m]}
  <2> DEFINE children == n.children
  <2>1. ChildrenOK(children, m) /\ c \in children
    BY <1>1
  <2> HIDE DEF children
  <2>2. /\ m \in Models
        /\ ChildrenOK(Replaced(children, c), m)
        /\ Replaced(children, c) = IF m \in Broken THEN {} ELSE {[what |-> "instance", of |-> m]}
    BY <2>1, ReplacedOK
  <2> QED BY <2>2 DEF children
<1>3. ShownUnder(n) = {}
  BY <1>1 DEF ShownUnder
<1>4. n.modelNode3D = Null /\ n.animationTree \in {Null, Freed}
  BY <1>1, <1>3 DEF NodeOK, Nodes
<1> DEFINE anim == CASE c.of \in Animated -> c.of
                      [] c.of \in Plain -> Null
                      [] OTHER -> n.animationTree
<1>5. /\ m \in Animated => anim = m
      /\ m \notin Animated => anim \in {Null, Freed}
      /\ m \in Plain => anim = Null
  <2>1. CASE m \in Animated
    BY <1>1, <2>1, DisplayAssumption
  <2>2. CASE m \notin Animated /\ m \in Plain
    BY <1>1, <2>2
  <2>3. CASE m \notin Animated /\ m \notin Plain
    BY <1>1, <1>4, <2>3
  <2> QED BY <2>1, <2>2, <2>3, DisplayAssumption
<1>6. /\ new \in Nodes
      /\ new.currentModel = m
      /\ new.children = Replaced(n.children, c)
      /\ new.modelNode3D = IF m \in Broken THEN Null ELSE m
      /\ new.animationTree = anim
  <2> DEFINE a == Replaced(n.children, c)
             b == IF c.of \in Broken THEN n.modelNode3D ELSE c.of
  <2>1. new = Updated(n, a, b, anim)
    BY Zenon DEF Delivered, Updated
  <2>2. a \in SUBSET Children /\ b \in Models \cup {Null, Freed}
    BY <1>1, <1>2, <1>4 DEF ChildrenOK
  <2>3. anim \in Models \cup {Null, Freed}
    BY <1>2, <1>5
  <2>4. b = (IF m \in Broken THEN Null ELSE m) /\ n \in Nodes /\ n.currentModel = m
    BY <1>1, <1>4 DEF NodeOK
  <2> HIDE DEF a, b, anim, new
  <2>5. /\ new \in Nodes
        /\ new.currentModel = n.currentModel
        /\ new.children = a /\ new.modelNode3D = b /\ new.animationTree = anim
    BY <2>1, <2>2, <2>3, <2>4, NodeUpdated
  <2> QED
    BY <2>4, <2>5 DEF a
<1> HIDE DEF anim, new
<1>7. ShownUnder(new) = IF m \in Broken THEN {} ELSE {m}
  <2>1. CASE m \in Broken
    BY <1>2, <1>6, <2>1 DEF ShownUnder
  <2>2. CASE m \notin Broken
    <3>1. new.children = {[what |-> "instance", of |-> m]}
      BY <1>2, <1>6, <2>2
    <3>2. \A x : x \in ShownUnder(new) <=> x = m
      <4>1. \A x : x \in ShownUnder(new)
                     <=> \E d \in new.children : d.what = "instance" /\ d.of = x
        BY DEF ShownUnder
      <4> QED BY <3>1, <4>1
    <3> QED
      BY <2>2, <3>2
  <2> QED BY <2>1, <2>2
<1>8. OneOf(new.children, m)
  BY <1>2, <1>6 DEF ChildrenOK
<1>9. /\ new.animationTree \in Models => new.animationTree \in ShownUnder(new)
      /\ new.animationTree = Freed => ShownUnder(new) \cap Scenes = {}
  BY <1>2, <1>5, <1>6, <1>7, DisplayAssumption, ModelTypes DEF Scenes
<1>10. /\ ShownUnder(new) = {} => new.modelNode3D = Null
       /\ ShownUnder(new) # {} => new.modelNode3D \in ShownUnder(new)
  BY <1>6, <1>7
<1>11. NodeOK(new, m)
  BY <1>6, <1>8, <1>9, <1>10 DEF NodeOK
<1> QED
  BY <1>11 DEF new

Ending(c) == [c EXCEPT !.what = IF @ = "loader" THEN "loaded" ELSE @]

LEMMA EndedOK ==
  ASSUME NEW children, NEW m, ChildrenOK(children, m)
  PROVE  /\ ChildrenOK(Ended(children), m)
         /\ \A c \in Ended(children) : c.what = "instance" => c \in children
         /\ \A c \in children : c.what = "instance" => c \in Ended(children)
<1>1. \A c \in children :
        /\ Ending(c) \in Children /\ Ending(c).of = c.of
        /\ Ending(c).what = "instance" => Ending(c) = c
        /\ c.what = "instance" => Ending(c) = c
  BY DEF ChildrenOK, Children, Ending
<1>2. \A e \in Ended(children) : \E c \in children : e = Ending(c)
  BY Zenon DEF Ended, Ending
<1>3. \A c \in children : Ending(c) \in Ended(children)
  BY Zenon DEF Ended, Ending
<1>4. \A c, d \in children : c = d /\ c.of = m
  BY DEF ChildrenOK, OneOf
<1>5. \A c, d \in Ended(children) : c = d /\ c.of = m /\ c \in Children
  BY <1>1, <1>2, <1>4
<1> QED
  BY <1>1, <1>2, <1>3, <1>5 DEF ChildrenOK, OneOf

\* A load that ends changes nothing of what is shown.
LEMMA NodeEndedOK ==
  ASSUME NEW n, NEW m, NodeOK(n, m)
  PROVE  NodeOK([n EXCEPT !.children = Ended(@)], m)
<1> DEFINE children == n.children
           new == [n EXCEPT !.children = Ended(@)]
<1>1. n \in Nodes /\ ChildrenOK(children, m)
  BY DEF NodeOK, ChildrenOK, Nodes
<1> HIDE DEF children
<1>2. /\ ChildrenOK(Ended(children), m)
      /\ \A c \in Ended(children) : c.what = "instance" => c \in children
      /\ \A c \in children : c.what = "instance" => c \in Ended(children)
  BY <1>1, EndedOK
<1>3. /\ new \in Nodes
      /\ new.currentModel = n.currentModel
      /\ new.children = Ended(children)
      /\ new.modelNode3D = n.modelNode3D
      /\ new.animationTree = n.animationTree
  BY <1>1, <1>2 DEF Nodes, ChildrenOK, children
<1> HIDE DEF new
<1>4. ShownUnder(new) = ShownUnder(n)
  BY <1>2, <1>3 DEF ShownUnder, children
<1>5. NodeOK(new, m)
  BY <1>2, <1>3, <1>4 DEF NodeOK, ChildrenOK
<1> QED
  BY <1>5 DEF new

\* Nor does what a frame changes.
LEMMA NodeProcessedOK ==
  ASSUME NEW n, NEW m, NodeOK(n, m), NEW v \in BOOLEAN, NEW k \in 0..MaxShots
  PROVE  NodeOK([n EXCEPT !.visible = v, !.shots = k], m)
<1> DEFINE new == [n EXCEPT !.visible = v, !.shots = k]
<1>1. n \in Nodes
  BY DEF NodeOK
<1>2. /\ new \in Nodes
      /\ new.currentModel = n.currentModel /\ new.children = n.children
      /\ new.modelNode3D = n.modelNode3D /\ new.animationTree = n.animationTree
  BY <1>1 DEF Nodes
<1> HIDE DEF new
<1>3. ShownUnder(new) = ShownUnder(n)
  BY <1>2 DEF ShownUnder
<1>4. NodeOK(new, m)
  BY <1>2, <1>3 DEF NodeOK
<1> QED
  BY <1>4 DEF new

-------------------------------------------------------------------------------
(* The inductive invariant. *)

\* What has components is known: otherwise an id that becomes known again would
\* bring a model without a node.
KnownOK ==
  /\ known \subseteq Entities /\ moving \subseteq Characters \cap known
  /\ model \in [Entities -> Models \cup {NoModel, Absent}]
  /\ \A s \in Entities : model[s] # Absent => s \in known

CharactersOK ==
  /\ node \in [Characters -> Nodes \cup {Absent}]
  /\ \A s \in Characters :
       /\ (node[s] # Absent) <=> (s \in moving /\ model[s] # Absent)
       /\ node[s] # Absent => NodeOK(node[s], model[s])

SceneryOK ==
  /\ scenery \in [Statics -> {Absent} \cup SUBSET Children]
  /\ \A s \in Statics :
       /\ (scenery[s] # Absent) <=> (s \in known /\ model[s] # Absent)
       /\ scenery[s] # Absent => ChildrenOK(scenery[s], model[s])

PlayersOK ==
  /\ loose \in BOOLEAN /\ crashed \in BOOLEAN
  /\ serverPlayer \in Characters \cup {NoOne} /\ localPlayer \in Characters \cup {NoOne}
  /\ localPlayer # NoOne => localPlayer = serverPlayer /\ node[localPlayer] # Absent

IInv == KnownOK /\ CharactersOK /\ SceneryOK /\ PlayersOK

LEMMA ChildrenAreThere ==
  ASSUME NEW children, NEW m, ChildrenOK(children, m)
  PROVE  children # Absent
<1>1. CASE children = {}
  BY <1>1, AbsentAssumption
<1>2. CASE children # {}
  <2>1. PICK c \in children : TRUE
    BY <1>2
  <2>2. children = {c} /\ c \in Children
    BY <2>1 DEF ChildrenOK, OneOf
  <2> QED BY <2>2, AbsentAssumption
<1> QED BY <1>1, <1>2

LEMMA InitOK == Init => IInv
<1> SUFFICES ASSUME Init PROVE IInv
  OBVIOUS
<1>1. KnownOK
  BY DEF Init, KnownOK, Entities
<1>2. CharactersOK
  BY DEF Init, CharactersOK, Entities
<1>3. SceneryOK
  BY DEF Init, SceneryOK, Entities
<1>4. PlayersOK
  BY DEF Init, PlayersOK
<1> QED BY <1>1, <1>2, <1>3, <1>4 DEF IInv

LEMMA IInvImpliesInv == IInv => Inv
<1> SUFFICES ASSUME IInv PROVE Inv
  OBVIOUS
<1>1. TypeOK
  BY DEF IInv, KnownOK, CharactersOK, SceneryOK, PlayersOK, TypeOK
<1>2. NodesMirrorEntities
  BY DEF IInv, KnownOK, CharactersOK, SceneryOK, NodeOK, NodesMirrorEntities
<1>3. OnlyTheLatestModel
  BY DEF IInv, CharactersOK, SceneryOK, NodeOK, ChildrenOK, OnlyTheLatestModel
<1>4. PointersFollow
  <2>1. \A s \in Characters : node[s] # Absent => NodeOK(node[s], model[s])
    BY DEF IInv, CharactersOK
  <2> QED BY <2>1 DEF PointersFollow, NodeOK, ShownUnder
<1>5. PlayerIsPresent
  BY DEF IInv, PlayersOK, PlayerIsPresent
<1> QED BY <1>1, <1>2, <1>3, <1>4, <1>5 DEF Inv

\* Static entities and players are left alone by most steps.
LEMMA SceneryKept ==
  ASSUME SceneryOK, scenery' = scenery,
         \A s \in Statics : model'[s] = model[s] /\ (s \in known' <=> s \in known)
  PROVE  SceneryOK'
  BY DEF SceneryOK

LEMMA PlayersKept ==
  ASSUME PlayersOK, UNCHANGED <<serverPlayer, localPlayer>>, loose' \in BOOLEAN, crashed' \in BOOLEAN,
         \A s \in Characters : node[s] # Absent => node'[s] # Absent
  PROVE  PlayersOK'
  BY DEF PlayersOK

-------------------------------------------------------------------------------
(* Messages. *)

\* An observer of the model keeps the nodes in step, also the first time.
LEMMA Observed ==
  ASSUME IInv, NEW s \in Characters, NEW m \in Models \cup {NoModel}, ObserveModel(s, m),
         known' = known \cup {s}, moving' \in {moving, moving \cup {s}}
  PROVE  /\ KnownOK' /\ CharactersOK'
         /\ \A t \in Characters : node[t] # Absent => node'[t] # Absent
         /\ \A t \in Statics : model'[t] = model[t] /\ (t \in known' <=> t \in known)
         /\ s \in moving' => node'[s] # Absent
<1>1. /\ model' = [model EXCEPT ![s] = m] /\ model \in [Entities -> Models \cup {NoModel, Absent}]
      /\ s \in Entities /\ s \notin Statics /\ m # Absent
  BY DisplayAssumption, ModelTypes, AbsentAssumption DEF ObserveModel, IInv, KnownOK, Entities
<1>2. KnownOK'
  BY <1>1 DEF IInv, KnownOK, Entities
<1>3. /\ model'[s] = m /\ m # Absent
      /\ \A t \in Entities : t # s => model'[t] = model[t]
      /\ \A t \in Characters : t # s => (t \in moving' <=> t \in moving)
  BY <1>1
<1> DEFINE new == ModelSet(IF node[s] = Absent THEN NewNode ELSE node[s], m)
<1>4. NodeOK(new, m)
  <2>1. CASE node[s] = Absent
    BY <2>1, NewNodeOK, ModelSetOK
  <2>2. CASE node[s] # Absent
    BY <2>2, ModelSetOK DEF IInv, CharactersOK
  <2> QED BY <2>1, <2>2
<1>5. new \in Nodes /\ new # Absent
  BY <1>4, ModelTypes DEF NodeOK
<1>6. node' = [node EXCEPT ![s] = IF s \in moving' THEN new ELSE @]
  BY DEF ObserveModel
<1> HIDE DEF new
<1>7. /\ node' \in [Characters -> Nodes \cup {Absent}]
      /\ s \in moving' => node'[s] = new
      /\ s \notin moving' => node'[s] = node[s]
      /\ \A t \in Characters : t # s => node'[t] = node[t]
  BY <1>5, <1>6 DEF IInv, CharactersOK
<1>8. ASSUME NEW t \in Characters
      PROVE  /\ (node'[t] # Absent) <=> (t \in moving' /\ model'[t] # Absent)
             /\ node'[t] # Absent => NodeOK(node'[t], model'[t])
             /\ node[t] # Absent => node'[t] # Absent
  <2>1. /\ (node[t] # Absent) <=> (t \in moving /\ model[t] # Absent)
        /\ node[t] # Absent => NodeOK(node[t], model[t])
    BY DEF IInv, CharactersOK
  <2>2. CASE t # s
    BY <1>3, <1>7, <2>1, <2>2 DEF Entities
  <2>3. CASE t = s /\ s \in moving'
    BY <1>3, <1>4, <1>5, <1>7, <2>3
  <2>4. CASE t = s /\ s \notin moving'
    <3>1. s \notin moving
      BY <2>4
    <3> QED BY <1>7, <2>1, <2>4, <3>1
  <2> QED BY <2>2, <2>3, <2>4
<1>9. CharactersOK'
  BY <1>7, <1>8 DEF CharactersOK
<1>10. \A t \in Statics : model'[t] = model[t] /\ (t \in known' <=> t \in known)
  BY <1>1, <1>3 DEF Entities
<1> QED
  BY <1>2, <1>5, <1>7, <1>8, <1>9, <1>10

LEMMA SpawnEntityOK ==
  ASSUME IInv, NEW s \in Characters, NEW m \in Models \cup {NoModel}, SpawnEntity(s, m)
  PROVE  IInv'
<1>1. ObserveModel(s, m) /\ known' = known \cup {s} /\ moving' = moving \cup {s}
  BY DEF SpawnEntity
<1>2. /\ KnownOK' /\ CharactersOK'
      /\ \A t \in Characters : node[t] # Absent => node'[t] # Absent
      /\ \A t \in Statics : model'[t] = model[t] /\ (t \in known' <=> t \in known)
      /\ node'[s] # Absent
  BY <1>1, Observed
<1>3. SceneryOK'
  BY <1>2, SceneryKept DEF SpawnEntity, IInv
<1>4. PlayersOK'
  BY <1>2, NamesAssumption DEF SpawnEntity, IInv, PlayersOK
<1> QED BY <1>2, <1>3, <1>4 DEF IInv

LEMMA SetModelOK ==
  ASSUME IInv, NEW s \in Characters, NEW m \in Models \cup {NoModel}, SetModel(s, m)
  PROVE  IInv'
<1>1. ObserveModel(s, m) /\ known' = known \cup {s} /\ moving' = moving
  BY DEF SetModel
<1>2. /\ KnownOK' /\ CharactersOK'
      /\ \A t \in Characters : node[t] # Absent => node'[t] # Absent
      /\ \A t \in Statics : model'[t] = model[t] /\ (t \in known' <=> t \in known)
  BY <1>1, Observed
<1>3. SceneryOK'
  BY <1>2, SceneryKept DEF SetModel, IInv
<1>4. PlayersOK'
  BY <1>2, PlayersKept DEF SetModel, IInv, PlayersOK, players
<1> QED BY <1>2, <1>3, <1>4 DEF IInv

LEMMA GenericComponentUpdateOK ==
  ASSUME IInv, GenericComponentUpdate
  PROVE  IInv'
<1> USE DEF GenericComponentUpdate, tree, players
<1>1. serverPlayer \in Characters /\ serverPlayer \notin Statics
  BY DisplayAssumption DEF IInv, PlayersOK
<1>2. KnownOK'
  BY <1>1 DEF IInv, KnownOK, Entities
<1>3. CharactersOK'
  BY DEF IInv, CharactersOK
<1>4. SceneryOK'
  BY <1>1, SceneryKept DEF IInv
<1>5. PlayersOK'
  BY PlayersKept DEF IInv, PlayersOK
<1> QED BY <1>2, <1>3, <1>4, <1>5 DEF IInv

LEMMA SpawnStaticEntitiesOK ==
  ASSUME IInv, NEW s \in Statics, NEW m \in Scenery, SpawnStaticEntities(s, m)
  PROVE  IInv'
<1> USE DEF SpawnStaticEntities, players
<1>1. CASE s \in known
  <2>1. KnownOK' /\ CharactersOK'
    BY <1>1 DEF IInv, KnownOK, CharactersOK
  <2>2. SceneryOK'
    BY <1>1, SceneryKept DEF IInv
  <2>3. PlayersOK'
    BY PlayersKept DEF IInv, PlayersOK
  <2> QED BY <2>1, <2>2, <2>3 DEF IInv
<1>2. CASE s \notin known
  <2>1. /\ known' = known \cup {s} /\ moving' = moving /\ node' = node
        /\ model' = [model EXCEPT ![s] = m]
        /\ scenery' = [scenery EXCEPT ![s] = {Loader(m)}]
        /\ s \in Entities /\ s \notin Characters
        /\ m \in Models /\ m # Absent /\ Loader(m) \in Children /\ {Loader(m)} # Absent
    BY <1>2, DisplayAssumption, ModelTypes, AbsentAssumption DEF Entities, Models
  <2>2. KnownOK'
    BY <2>1 DEF IInv, KnownOK, Entities
  <2>3. \A t \in Characters : model'[t] = model[t]
    BY <2>1 DEF IInv, KnownOK, Entities
  <2>4. CharactersOK'
    BY <2>1, <2>3 DEF IInv, CharactersOK
  <2>5. ChildrenOK({Loader(m)}, m)
    BY <2>1 DEF ChildrenOK, OneOf, Loader
  <2>6. SceneryOK'
    BY <2>1, <2>5 DEF IInv, KnownOK, SceneryOK, Entities
  <2>7. PlayersOK'
    BY <2>1, PlayersKept DEF IInv, PlayersOK
  <2> QED BY <2>2, <2>4, <2>6, <2>7 DEF IInv
<1> QED BY <1>1, <1>2

\* Removal takes the node with the entity.
LEMMA RemovedOK ==
  ASSUME IInv, NEW S, Removed(S)
  PROVE  /\ KnownOK' /\ CharactersOK' /\ SceneryOK'
         /\ \A t \in Characters : t \notin S => node'[t] = node[t]
<1>1. KnownOK'
  BY DEF Removed, IInv, KnownOK, Entities
<1>2. \A t \in Entities : model'[t] = IF t \in S THEN Absent ELSE model[t]
  BY DEF Removed
<1>3. \A t \in Characters : node'[t] = IF t \in S THEN Absent ELSE node[t]
  BY DEF Removed
<1>4. CharactersOK'
  <2>1. node' \in [Characters -> Nodes \cup {Absent}]
    BY DEF Removed, IInv, CharactersOK
  <2>2. ASSUME NEW t \in Characters
        PROVE  /\ (node'[t] # Absent) <=> (t \in moving' /\ model'[t] # Absent)
               /\ node'[t] # Absent => NodeOK(node'[t], model'[t])
    BY <1>2, <1>3 DEF Removed, IInv, CharactersOK, Entities
  <2> QED BY <2>1, <2>2 DEF CharactersOK
<1>5. SceneryOK'
  <2>1. scenery' \in [Statics -> {Absent} \cup SUBSET Children]
    BY DEF Removed, IInv, SceneryOK
  <2>2. ASSUME NEW t \in Statics
        PROVE  /\ (scenery'[t] # Absent) <=> (t \in known' /\ model'[t] # Absent)
               /\ scenery'[t] # Absent => ChildrenOK(scenery'[t], model'[t])
    BY <1>2 DEF Removed, IInv, SceneryOK, Entities
  <2> QED BY <2>1, <2>2 DEF SceneryOK
<1> QED BY <1>1, <1>3, <1>4, <1>5

\* Who is removed is not controlled any more.
LEMMA PlayerRemovedOK ==
  ASSUME IInv, NEW S, Removed(S), PlayerRemoved(S), loose' \in BOOLEAN, crashed' \in BOOLEAN
  PROVE  IInv'
<1>1. /\ KnownOK' /\ CharactersOK' /\ SceneryOK'
      /\ \A t \in Characters : t \notin S => node'[t] = node[t]
  BY RemovedOK
<1>2. PlayersOK'
  BY <1>1 DEF PlayerRemoved, IInv, PlayersOK, players
<1> QED BY <1>1, <1>2 DEF IInv

LEMMA RemovalOK ==
  ASSUME IInv,
         \/ \E s \in Entities : RemoveEntity(s)
         \/ \E s \in Characters, m \in Models : PlayDeathAndDestroyEntity(s, m)
         \/ \E s \in Characters : JoinRealm(s)
         \/ DisconnectRealmPeer
  PROVE  IInv'
<1>0. loose \in BOOLEAN /\ crashed \in BOOLEAN
  BY DEF IInv, PlayersOK
<1>1. ASSUME NEW s \in Entities, RemoveEntity(s)
      PROVE  IInv'
  BY <1>0, <1>1, PlayerRemovedOK DEF RemoveEntity
<1>2. ASSUME NEW s \in Characters, NEW m \in Models, PlayDeathAndDestroyEntity(s, m)
      PROVE  IInv'
  <2>1. loose' \in BOOLEAN /\ crashed' \in BOOLEAN
    BY <1>0, <1>2 DEF PlayDeathAndDestroyEntity
  <2> QED BY <1>2, <2>1, PlayerRemovedOK DEF PlayDeathAndDestroyEntity
<1>3. ASSUME NEW s \in Characters, JoinRealm(s)
      PROVE  IInv'
  <2>1. PlayersOK'
    BY <1>0, <1>3 DEF JoinRealm, PlayersOK
  <2> QED BY <1>3, <2>1, RemovedOK DEF JoinRealm, IInv
<1>4. CASE DisconnectRealmPeer
  <2>1. PlayersOK'
    BY <1>0, <1>4 DEF DisconnectRealmPeer, PlayersOK
  <2> QED BY <1>4, <2>1, RemovedOK DEF DisconnectRealmPeer, IInv
<1> QED BY <1>1, <1>2, <1>3, <1>4

-------------------------------------------------------------------------------
(* Nodes. *)

\* One node is replaced by one that belongs to the same model.
LEMMA NodeReplaced ==
  ASSUME IInv, UNCHANGED <<entities, scenery, players>>, loose' \in BOOLEAN, crashed' \in BOOLEAN,
         NEW s \in Characters, node[s] # Absent,
         NEW new, node' = [node EXCEPT ![s] = new], NodeOK(new, model[s])
  PROVE  IInv'
<1> USE DEF entities, players
<1>1. new \in Nodes /\ new # Absent
  BY ModelTypes DEF NodeOK
<1>2. KnownOK' /\ SceneryOK'
  BY DEF IInv, KnownOK, SceneryOK
<1>3. CharactersOK'
  BY <1>1 DEF IInv, CharactersOK
<1>4. PlayersOK'
  <2>1. \A t \in Characters : node[t] # Absent => node'[t] # Absent
    BY <1>1 DEF IInv, CharactersOK
  <2> QED BY <2>1, PlayersKept DEF IInv
<1> QED BY <1>2, <1>3, <1>4 DEF IInv

\* One static entity's children, likewise.
LEMMA ChildrenReplaced ==
  ASSUME IInv, UNCHANGED <<entities, node, loose, players, crashed>>,
         NEW s \in Statics, scenery[s] # Absent,
         NEW new, scenery' = [scenery EXCEPT ![s] = new], ChildrenOK(new, model[s]), new # Absent
  PROVE  IInv'
<1> USE DEF entities, players
<1>1. KnownOK' /\ CharactersOK' /\ PlayersOK'
  BY DEF IInv, KnownOK, CharactersOK, PlayersOK
<1>2. SceneryOK'
  BY DEF IInv, SceneryOK, ChildrenOK
<1> QED BY <1>1, <1>2 DEF IInv

LEMMA PlayAnimationOK ==
  ASSUME IInv, NEW s \in Characters, PlayAnimation(s)
  PROVE  IInv'
<1>1. ASSUME node[s] # Absent, node[s].shots < MaxShots, UNCHANGED crashed,
             node' = [node EXCEPT ![s].shots = @ + 1]
      PROVE  IInv'
  <2> DEFINE n == node[s]
             new == [n EXCEPT !.shots = @ + 1]
  <2>1. n # Absent /\ NodeOK(n, model[s]) /\ n \in Nodes
    BY <1>1 DEF IInv, CharactersOK, NodeOK
  <2>2. n.shots + 1 \in 0..MaxShots /\ n.visible \in BOOLEAN
    BY <1>1, <2>1, DisplayAssumption DEF Nodes
  <2>3. node' = [node EXCEPT ![s] = new]
    BY <1>1
  <2> HIDE DEF n
  <2>4. new = [n EXCEPT !.visible = n.visible, !.shots = n.shots + 1]
    BY <2>1 DEF Nodes
  <2>5. NodeOK(new, model[s])
    BY <2>1, <2>2, <2>4, NodeProcessedOK
  <2> HIDE DEF new
  <2> QED
    BY <1>1, <2>1, <2>3, <2>5, NodeReplaced DEF PlayAnimation, IInv, PlayersOK, players, n
<1>2. ASSUME crashed' = TRUE, UNCHANGED node
      PROVE  IInv'
  <2> USE DEF entities, players
  <2>1. KnownOK' /\ CharactersOK' /\ SceneryOK'
    BY <1>2 DEF PlayAnimation, IInv, KnownOK, CharactersOK, SceneryOK
  <2>2. PlayersOK'
    BY <1>2 DEF PlayAnimation, IInv, PlayersOK
  <2> QED
    BY <1>2, <2>1, <2>2 DEF IInv, PlayAnimation
<1> QED
  BY <1>1, <1>2 DEF PlayAnimation

LEMMA LoadEndsOK ==
  ASSUME IInv, NEW s \in Entities, LoadEnds(s)
  PROVE  IInv'
<1>1. ASSUME s \in Characters, node[s] # Absent, UNCHANGED scenery,
             node' = [node EXCEPT ![s].children = Ended(@)]
      PROVE  IInv'
  <2> DEFINE new == [node[s] EXCEPT !.children = Ended(@)]
  <2>1. NodeOK(new, model[s])
    BY <1>1, NodeEndedOK DEF IInv, CharactersOK
  <2>2. node' = [node EXCEPT ![s] = new]
    BY <1>1
  <2> HIDE DEF new
  <2> QED
    BY <1>1, <2>1, <2>2, NodeReplaced DEF LoadEnds, IInv, PlayersOK, players
<1>2. ASSUME s \in Statics, scenery[s] # Absent, UNCHANGED node,
             scenery' = [scenery EXCEPT ![s] = Ended(@)]
      PROVE  IInv'
  <2> DEFINE new == Ended(scenery[s])
  <2>1. ChildrenOK(new, model[s])
    BY <1>2, EndedOK DEF IInv, SceneryOK
  <2>2. scenery' = [scenery EXCEPT ![s] = new]
    BY <1>2
  <2> HIDE DEF new
  <2>3. new # Absent
    BY <2>1, ChildrenAreThere
  <2> QED
    BY <1>2, <2>1, <2>2, <2>3, ChildrenReplaced DEF LoadEnds
<1> QED BY <1>1, <1>2 DEF LoadEnds

LEMMA DeliverOK ==
  ASSUME IInv, NEW s \in Characters, Deliver(s)
  PROVE  IInv'
<1>1. PICK c \in node[s].children :
        c.what = "loaded" /\ node' = [node EXCEPT ![s] = Delivered(@, c)]
  BY DEF Deliver
<1> DEFINE new == Delivered(node[s], c)
<1>2. node[s] # Absent /\ NodeOK(new, model[s])
  BY <1>1, DeliveredOK DEF Deliver, IInv, CharactersOK
<1>3. node' = [node EXCEPT ![s] = new]
  BY <1>1
<1> HIDE DEF new
<1> QED
  BY <1>2, <1>3, NodeReplaced DEF Deliver, IInv, PlayersOK, players

LEMMA DeliverStaticOK ==
  ASSUME IInv, NEW s \in Statics, DeliverStatic(s)
  PROVE  IInv'
<1>1. PICK c \in scenery[s] :
        c.what = "loaded" /\ scenery' = [scenery EXCEPT ![s] = Replaced(@, c)]
  BY DEF DeliverStatic
<1> DEFINE new == Replaced(scenery[s], c)
<1>2. scenery[s] # Absent /\ ChildrenOK(new, model[s])
  BY <1>1, ReplacedOK DEF DeliverStatic, IInv, SceneryOK
<1>3. scenery' = [scenery EXCEPT ![s] = new]
  BY <1>1
<1> HIDE DEF new
<1>4. new # Absent
  BY <1>2, ChildrenAreThere
<1> QED
  BY <1>2, <1>3, <1>4, ChildrenReplaced DEF DeliverStatic

LEMMA ProcessOK ==
  ASSUME IInv, NEW s \in Characters, Process(s)
  PROVE  IInv'
<1> DEFINE n == node[s]
           v == IF n.modelNode3D = Null THEN n.visible ELSE ~IsPlayer(s)
           k == IF n.animationTree = Null \/ n.shots = 0 THEN n.shots ELSE n.shots - 1
           new == [n EXCEPT !.visible = v, !.shots = k]
<1>1. n # Absent /\ NodeOK(n, model[s]) /\ n \in Nodes
  BY DEF Process, IInv, CharactersOK, NodeOK
<1>2. v \in BOOLEAN /\ k \in 0..MaxShots
  <2>1. n.visible \in BOOLEAN /\ n.shots \in 0..MaxShots /\ (~IsPlayer(s)) \in BOOLEAN
    BY <1>1 DEF Nodes, IsPlayer
  <2>2. v \in BOOLEAN
    BY <2>1, Zenon
  <2>3. MaxShots \in Nat
    BY DisplayAssumption
  <2> QED BY <2>1, <2>2, <2>3
<1>3. node' = [node EXCEPT ![s] = new]
  BY DEF Process
<1> HIDE DEF n, v, k
<1>4. NodeOK(new, model[s])
  BY <1>1, <1>2, NodeProcessedOK
<1> HIDE DEF new
<1>5. crashed' \in BOOLEAN
  BY DEF Process
<1> QED
  BY <1>1, <1>3, <1>4, <1>5, NodeReplaced DEF Process, IInv, PlayersOK, n

LEMMA LooseOK ==
  ASSUME IInv, UNCHANGED <<entities, node, scenery, players, crashed>>, loose' \in BOOLEAN
  PROVE  IInv'
BY DEF entities, players, IInv, KnownOK, CharactersOK, SceneryOK, PlayersOK

-------------------------------------------------------------------------------
\* The scene tree agrees with the entities, and the pointers into it with the tree,
\* after every sequence of messages, with loads that end at any time: the observers
\* of models and of removal keep NodesMirrorEntities, and the loaders
\* OnlyTheLatestModel and PointersFollow.
THEOREM NodesFollowEntities == Spec => []Inv
<1>1. Init => IInv
  BY InitOK
<1>2. IInv /\ [Next]_vars => IInv'
  <2> SUFFICES ASSUME IInv, [Next]_vars PROVE IInv'
    OBVIOUS
  <2>1. CASE UNCHANGED vars
    BY <2>1, LooseOK DEF vars, tree, IInv, PlayersOK
  <2>2. ASSUME NEW s \in Characters, NEW m \in Models \cup {NoModel},
               SpawnEntity(s, m) \/ SetModel(s, m)
        PROVE  IInv'
    BY <2>2, SpawnEntityOK, SetModelOK
  <2>3. CASE GenericComponentUpdate
    BY <2>3, GenericComponentUpdateOK
  <2>4. ASSUME NEW s \in Statics, NEW m \in Scenery, SpawnStaticEntities(s, m)
        PROVE  IInv'
    BY <2>4, SpawnStaticEntitiesOK
  <2>5. CASE \/ \E s \in Entities : RemoveEntity(s)
             \/ \E s \in Characters, m \in Models : PlayDeathAndDestroyEntity(s, m)
             \/ \E s \in Characters : JoinRealm(s)
             \/ DisconnectRealmPeer
    BY <2>5, RemovalOK
  <2>6. ASSUME NEW s \in Characters, PlayAnimation(s)
        PROVE  IInv'
    BY <2>6, PlayAnimationOK
  <2>7. ASSUME NEW m \in Models, NEW s \in Entities, PlayFX(m, s)
        PROVE  IInv'
    BY <2>7, LooseOK DEF PlayFX
  <2>8. ASSUME NEW s \in Entities, LoadEnds(s)
        PROVE  IInv'
    BY <2>8, LoadEndsOK
  <2>9. ASSUME NEW s \in Characters, Deliver(s) \/ Process(s)
        PROVE  IInv'
    BY <2>9, DeliverOK, ProcessOK
  <2>10. ASSUME NEW s \in Statics, DeliverStatic(s)
         PROVE  IInv'
    BY <2>10, DeliverStaticOK
  <2>11. CASE RemoverExpires
    BY <2>11, LooseOK DEF RemoverExpires
  <2> QED
    BY <2>1, <2>2, <2>3, <2>4, <2>5, <2>6, <2>7, <2>8, <2>9, <2>10, <2>11 DEF Next, Message
<1>3. IInv => Inv
  BY IInvImpliesInv
<1> QED
  BY <1>1, <1>2, <1>3, PTL DEF Spec
=============================================================================
