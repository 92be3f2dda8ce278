---------------------------- MODULE CollisionQueries ----------------------------
(***************************************************************************)
(* What the game asks of the collision world (CollisionWorld_spp): what a  *)
(* ray hits first, who is in a sphere, and how far a character gets        *)
(* (common/src/CollisionWorld.cpp, collision_tests).                       *)
(*                                                                         *)
(* The broad phase, a library, hands the keys of candidates to a callback  *)
(* in whatever order its tree has them.  Geometry is external, too, and    *)
(* given by what it answers for each body: a distance, a height, or        *)
(* membership.  What the loops make of the answers, and how much of it     *)
(* depends on the order, is what this module is about.                     *)
(***************************************************************************)
EXTENDS Integers, Sequences, FiniteSets, FiniteSetsExt, SequencesExt

CONSTANTS
  RayLength,  \* the end of a ray (travel factor 1), in units of distance
  Precision,  \* 0.000001: hits that are closer to each other count as equal
  Way,        \* the end of a movement (travel factor 1)
  StepHeight, \* how far a character steps up or down
  Slack,      \* 0.02: tolerance of a step down
  Bodies,     \* ids of the entities in the broad phase
  Statics     \* those that a movement may collide with: terrain and static objects

ASSUME CollisionAssumption ==
  /\ {RayLength, Precision, Way} \subseteq Nat \ {0}
  /\ {StepHeight, Slack} \subseteq Nat
  /\ Bodies \subseteq Nat \ {0} /\ IsFiniteSet(Bodies) /\ Statics \subseteq Bodies

VARIABLES
  at,      \* the loop that a query is in, "idle" if there is none
  asked,   \* what geometry answers for the query, and the rest of its parameters
  left,    \* keys that the broad phase has yet to hand to the callback of a ray
  cb,      \* what the callback of a ray has kept
  vector,  \* the entities that were found in a box
  index,   \* where the loop over them is
  count,   \* how many of them TestForEntitiesSphere will return
  moved    \* what TestCollisionMovement has of its result

queryVars == <<at, asked, left, cb, vector, index, count, moved>>

\* The orders in which the broad phase may hand out bodies.
Orders(S) == Bijection(1..Cardinality(S), S)

NoRayHit == [hit |-> FALSE, cut |-> RayLength, id |-> 0]
NotMoved == [way |-> Way, collision |-> FALSE, drop |-> 0, on |-> {}, onGround |-> FALSE]

-------------------------------------------------------------------------------
(* Rays. *)

\* `met` are the living whose shapes the ray meets, but for the one to be ignored:
\* the callback returns early for the others.
RayTestFirstHit(met, distance) ==
  /\ at' = "ray"
  /\ asked' = [met |-> met, distance |-> distance]
  /\ left' = Bodies
  /\ UNCHANGED <<cb, vector, index, count, moved>>

\* Mutant: of hits at the same distance the first one stays.
Nearer_First(id) == asked.distance[id] < cb.cut

\* A hit counts if it is nearer than the last one, or not much further away and of
\* a lower id.
Nearer(id) ==
  LET n == asked.distance[id]
  IN  n < cb.cut \/ (cb.hit /\ n - Precision < cb.cut /\ id < cb.id)

RayCallback(id) ==
  /\ at = "ray" /\ left' = left \ {id}
  /\ cb' = IF id \in asked.met /\ Nearer(id)
             THEN [hit |-> TRUE, cut |-> asked.distance[id], id |-> id] ELSE cb
  /\ UNCHANGED <<at, asked, vector, index, count, moved>>

\* External: the callback returns where the ray is cut, and the broad phase need
\* not hand out what is beyond.
RaySkip(id) ==
  /\ at = "ray" /\ left' = left \ {id}
  /\ id \in asked.met => asked.distance[id] > cb.cut
  /\ UNCHANGED <<at, asked, cb, vector, index, count, moved>>

-------------------------------------------------------------------------------
(* Spheres. *)

\* TestForEntitiesAABB appends the living that touch the box of the sphere to the
\* vector of the caller, which is empty for the spawner and for mobs.
TestForEntitiesSphere(touching, near, order) ==
  /\ at' = "sphere"
  /\ asked' = [touching |-> touching, near |-> near]
  /\ vector' = order /\ count' = Len(order) /\ index' = 1
  /\ UNCHANGED <<left, cb, moved>>

\* Mutant: the one that takes the place is not looked at.
RemoveFar_Skips ==
  /\ at = "sphere" /\ index <= count
  /\ index' = index + 1
  /\ IF vector[index] \in asked.near
       THEN UNCHANGED <<vector, count>>
       ELSE /\ vector' = Front([vector EXCEPT ![index] = Last(vector)])
            /\ count' = count - 1
  /\ UNCHANGED <<at, asked, left, cb, moved>>

\* Whose centre is too far away is overwritten with the last one, which is looked
\* at next.
RemoveFar ==
  /\ at = "sphere" /\ index <= count
  /\ IF vector[index] \in asked.near
       THEN index' = index + 1 /\ UNCHANGED <<vector, count>>
       ELSE /\ vector' = Front([vector EXCEPT ![index] = Last(vector)])
            /\ count' = count - 1 /\ UNCHANGED index
  /\ UNCHANGED <<at, asked, left, cb, moved>>

-------------------------------------------------------------------------------
(* Movement. *)

Magnitude(n) == IF n < 0 THEN -n ELSE n

\* `obstacle` says how far each body lets the character go, beyond the end if it is
\* not in the way; `drop`, how far below its feet the ground of the body is, out of
\* reach if there is none; `walkable`, whose ground is not too steep.
TestCollisionMovement(obstacle, drop, walkable, wasOnGround, direction, order) ==
  /\ at' = IF order = <<>> THEN "moved" ELSE "sweep"
  /\ asked' = [ obstacle |-> obstacle, drop |-> drop, walkable |-> walkable,
                wasOnGround |-> wasOnGround, direction |-> direction ]
  /\ vector' = order /\ index' = 1
  /\ UNCHANGED <<left, cb, count, moved>>

\* The first loop: as far as the nearest obstacle.
Sweep ==
  LET n == asked.obstacle[vector[index]]
  IN  /\ at = "sweep" /\ index <= Len(vector)
      /\ index' = index + 1
      /\ moved' = IF n <= moved.way THEN [moved EXCEPT !.way = n, !.collision = TRUE] ELSE moved
      /\ UNCHANGED <<at, asked, left, cb, vector, count>>

\* Nobody lands while rising.
TestOnGround ==
  /\ at = "sweep" /\ index > Len(vector)
  /\ IF asked.direction = "up" /\ ~asked.wasOnGround
       THEN at' = "moved" /\ UNCHANGED <<index, moved>>
       ELSE at' = "ground" /\ index' = 1 /\ moved' = [moved EXCEPT !.drop = StepHeight]
  /\ UNCHANGED <<asked, left, cb, vector, count>>

\* Mutant: the last ground within a step, however high.
Higher_Last(d) == Magnitude(d) <= StepHeight + Slack

\* The second loop: the highest ground within a step.
Higher(d) == Magnitude(d) <= StepHeight + Slack /\ d <= moved.drop

Ground ==
  LET id == vector[index]
  IN  /\ at = "ground" /\ index <= Len(vector)
      /\ index' = index + 1
      /\ moved' = IF Higher(asked.drop[id])
                    THEN [moved EXCEPT !.drop = asked.drop[id], !.on = {id}] ELSE moved
      /\ UNCHANGED <<at, asked, left, cb, vector, count>>

\* Nor on a slope that is too steep, nor, when falling, on what is still below.
Lands ==
  /\ moved.on # {} /\ moved.on \subseteq asked.walkable
  /\ asked.wasOnGround \/ asked.direction # "down" \/ moved.drop <= 0

Land ==
  /\ at = "ground" /\ index > Len(vector)
  /\ at' = "moved"
  /\ moved' = [moved EXCEPT !.collision = moved.collision \/ Lands, !.onGround = Lands,
                            !.drop = IF Lands THEN moved.drop ELSE 0]
  /\ UNCHANGED <<asked, left, cb, vector, index, count>>

-------------------------------------------------------------------------------
Answered ==
  \/ at = "ray" /\ left = {}
  \/ at = "sphere" /\ index > count
  \/ at = "moved"

Return ==
  /\ Answered
  /\ at' = "idle" /\ asked' = <<>> /\ left' = {} /\ cb' = NoRayHit
  /\ vector' = <<>> /\ index' = 1 /\ count' = 0 /\ moved' = NotMoved

Distances == 0..RayLength
Obstacles == 0..Way + 1
Heights == -(StepHeight + Slack)..(StepHeight + Slack + 1)

\* The realm asks one thing at a time.
Ask ==
  /\ at = "idle"
  /\ \/ \E met \in SUBSET Bodies, distance \in [Bodies -> Distances] :
          RayTestFirstHit(met, distance)
     \/ \E touching, near \in SUBSET Bodies : \E order \in Orders(touching) :
          TestForEntitiesSphere(touching, near, order)
     \/ \E found \in SUBSET Statics : \E order \in Orders(found) :
          \E obstacle \in [found -> Obstacles], drop \in [found -> Heights],
             walkable \in SUBSET found, wasOnGround \in BOOLEAN,
             direction \in {"up", "level", "down"} :
            TestCollisionMovement(obstacle, drop, walkable, wasOnGround, direction, order)

QueryInit ==
  /\ at = "idle" /\ asked = <<>> /\ left = {} /\ cb = NoRayHit
  /\ vector = <<>> /\ index = 1 /\ count = 0 /\ moved = NotMoved

QueryNext ==
  \/ Ask
  \/ \E id \in left : RayCallback(id) \/ RaySkip(id)
  \/ RemoveFar
  \/ Sweep \/ TestOnGround \/ Ground \/ Land
  \/ Return

QuerySpec == QueryInit /\ [][QueryNext]_queryVars

-------------------------------------------------------------------------------
(* Properties. *)

\* A ray hits something if there is something before its end.  What it hits is
\* almost the nearest, whatever the order: each exchange for a lower id costs
\* less than the precision.  Where distances are equal or clearly apart the order
\* does not matter at all: it is the nearest, of several the one with the lowest
\* id (RayTestFirstHit, by which players and mobs aim).
RaysHitTheNearest ==
  at = "ray" /\ left = {} =>
    LET met == asked.met
        distance == asked.distance
    IN  /\ cb.hit = (\E id \in met : distance[id] < RayLength)
        /\ cb.hit =>
             /\ cb.id \in met /\ cb.cut = distance[cb.id]
             /\ \A id \in met :
                  cb.cut <= distance[id] + (Cardinality(met) - 1) * (Precision - 1)
             /\ (\A a, b \in met : distance[a] = distance[b]
                                   \/ Magnitude(distance[a] - distance[b]) >= Precision)
                  => \A id \in met : \/ cb.cut < distance[id]
                                     \/ cb.cut = distance[id] /\ cb.id <= id

\* A sphere holds who is alive, touches its box and has its centre within the
\* radius, each once, however those who do not are removed on the way
\* (TestForEntitiesSphere, by which spawners count and mobs see).
SpheresHoldWhoIsNear ==
  at = "sphere" /\ index > count =>
    /\ Range(vector) = asked.touching \cap asked.near
    /\ IsInjective(vector) /\ Len(vector) = count

\* A character goes as far as nothing stops it, and is set on the highest ground
\* within a step: no order of the candidates takes it elsewhere, or off the ground,
\* unless two grounds of the same height differ in slope (TestCollisionMovement).
MovementIgnoresOrder ==
  at = "moved" =>
    LET found == Range(vector)
        way == Min({asked.obstacle[id] : id \in found} \cup {Way})
        within == {id \in found : asked.drop[id] \in -(StepHeight + Slack)..StepHeight}
        highest == {id \in within : \A other \in within : asked.drop[id] <= asked.drop[other]}
        landing == {id \in highest : \/ asked.wasOnGround \/ asked.direction = "level"
                                     \/ asked.direction = "down" /\ asked.drop[id] <= 0}
    IN  /\ moved.way = way
        /\ moved.onGround => \E id \in landing \cap asked.walkable : moved.drop = asked.drop[id]
        /\ landing # {} /\ landing \subseteq asked.walkable => moved.onGround
        /\ moved.collision = (moved.onGround \/ \E id \in found : asked.obstacle[id] <= Way)
        /\ ~moved.onGround => moved.drop = 0

\* No query depends on the order in which the broad phase has its bodies more than
\* its answer says (CollisionWorld_spp).
AnswersAreRight == RaysHitTheNearest /\ SpheresHoldWhoIsNear /\ MovementIgnoresOrder
=============================================================================
