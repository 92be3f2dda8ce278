-------------------------- MODULE Replication_proofs ---------------------------
(***************************************************************************)
(* What a client shows of the realm its player is in, for every number of  *)
(* realms, ids, characters and messages under way.                         *)
(*                                                                         *)
(* The properties speak of a client that has taken note of its arrival.    *)
(* They are not inductive: what the client will make of the messages that  *)
(* wait behind its last "join" has to be known while older messages are    *)
(* still in front of it.  The invariant therefore speaks of the messages   *)
(* since the last join, and of the view only when there is no join left.   *)
(***************************************************************************)
EXTENDS Replication, SequenceTheorems, TLAPS

-------------------------------------------------------------------------------
(* What waits for a client whose player p is in realm r, where the ids in A *)
(* are alive and those in K were killed: q is the queue, v the view.        *)

NoJoin(q) == \A k \in 1..Len(q) : q[k].type # "join"

\* The message at k was sent after the player came in.
Since(q, k) == \A l \in 1..Len(q) : k <= l => q[l].type # "join"

SpawnAt(q, k, i) == q[k].type = "spawn" /\ i \in q[k].ids
RemovalAt(q, k, i) == q[k].type = "remove" /\ q[k].id = i

\* The last join leads to r, for p.
LastJoin(q, r, p) ==
  \A k \in 1..Len(q) :
    q[k].type = "join" /\ Since(q, k + 1) => q[k].realm = r /\ q[k].id = p

\* Characters are sent by the player's own realm, and parts of a sheet are those
\* of the player, who is not removed; who is removed in spite of being alive was
\* born since, and will be shown.
Honest(q, r, p, A) ==
  \A k \in 1..Len(q) : Since(q, k) =>
    /\ q[k].type = "spawn" => q[k].realm = r
    /\ q[k].type = "generic" => q[k].id = p
    /\ q[k].type = "remove" =>
         /\ q[k].id # p
         /\ q[k].id \in A => \E l \in 1..Len(q) : k < l /\ SpawnAt(q, l, q[k].id)

WillShow(q, i) == \E k \in 1..Len(q) : Since(q, k) /\ SpawnAt(q, k, i)

Present(q, v, r, A) == \A i \in A : WillShow(q, i) \/ (NoJoin(q) /\ v[i] = r)

Final(q, v, K) ==
  \A i \in K :
    \/ ~WillShow(q, i) /\ (NoJoin(q) => v[i] = "none")
    \/ \E k \in 1..Len(q) :
         /\ Since(q, k) /\ RemovalAt(q, k, i)
         /\ \A l \in 1..Len(q) : SpawnAt(q, l, i) /\ Since(q, l) => l < k

OwnViews(q, v, r) == NoJoin(q) => \A i \in Ids : v[i] \in {"none", "bare", r}

Followed(q, v, r, p, A, K) ==
  /\ LastJoin(q, r, p) /\ Honest(q, r, p, A)
  /\ Present(q, v, r, A) /\ Final(q, v, K) /\ OwnViews(q, v, r)

Killed(r) == {i \in Ids : life[r][i] = "killed"}

PlayerAlive == where # NoRealm => nextRealm = where /\ me \in Alive(where)

Told ==
  where # NoRealm /\ ~late /\ ~crashed =>
    /\ Followed(down, view, where, me, Alive(where), Killed(where))
    /\ NoJoin(down) => realm = where /\ serverPlayer = me

IInv == TypeOK /\ IdsAgree /\ PlayerAlive /\ Told

-------------------------------------------------------------------------------
(* Messages. *)

LEMMA MessageFacts ==
  /\ \A m \in Messages :
       /\ m.type \in {"join", "spawn", "generic", "remove"}
       /\ m.type = "join" => m.realm \in Realms /\ m.id \in Ids
       /\ m.type = "spawn" => m.realm \in Realms /\ m.ids \subseteq Ids
       /\ m.type \in {"generic", "remove"} => m.id \in Ids
       /\ m.type = "remove" => m = Removal(m.id)
  /\ \A r \in Realms, i \in Ids :
       Join(r, i) \in Messages /\ Join(r, i).type = "join"
         /\ Join(r, i).realm = r /\ Join(r, i).id = i
  /\ \A r \in Realms : \A S \in SUBSET Ids :
       Spawn(r, S) \in Messages /\ Spawn(r, S).type = "spawn"
         /\ Spawn(r, S).realm = r /\ Spawn(r, S).ids = S
  /\ \A i \in Ids :
       /\ Generic(i) \in Messages /\ Generic(i).type = "generic" /\ Generic(i).id = i
       /\ Removal(i) \in Messages /\ Removal(i).type = "remove" /\ Removal(i).id = i
  BY DEF Messages, Join, Spawn, Generic, Removal

\* The places of a queue with a message more.
LEMMA AppendPlaces ==
  ASSUME NEW q \in Seq(Messages), NEW m \in Messages
  PROVE  LET n == Append(q, m)
         IN  /\ n \in Seq(Messages) /\ Len(q) \in Nat /\ Len(n) = Len(q) + 1
             /\ n[Len(q) + 1] = m
             /\ \A k \in 1..Len(q) : k \in 1..Len(n) /\ n[k] = q[k]
             /\ \A k \in 1..Len(n) : k \in 1..Len(q) \/ k = Len(q) + 1
<1> DEFINE n == Append(q, m)
<1>1. n \in Seq(Messages) /\ Len(q) \in Nat /\ Len(n) = Len(q) + 1
  OBVIOUS
<1>2. n[Len(q) + 1] = m /\ \A k \in 1..Len(q) : n[k] = q[k]
  OBVIOUS
<1> HIDE DEF n
<1> QED
  BY <1>1, <1>2 DEF n

\* A message that is no join does not change which are the latest.
LEMMA AppendSince ==
  ASSUME NEW q \in Seq(Messages), NEW m \in Messages, m.type # "join"
  PROVE  LET n == Append(q, m)
         IN  /\ NoJoin(n) <=> NoJoin(q)
             /\ \A k \in 1..Len(q) : Since(n, k) <=> Since(q, k)
             /\ Since(n, Len(q) + 1)
             /\ \A k \in 1..Len(q) : Since(n, k + 1) <=> Since(q, k + 1)
<1> DEFINE n == Append(q, m)
<1>1. /\ n \in Seq(Messages) /\ Len(q) \in Nat /\ Len(n) = Len(q) + 1
      /\ n[Len(q) + 1] = m
      /\ \A k \in 1..Len(q) : k \in 1..Len(n) /\ n[k] = q[k]
      /\ \A k \in 1..Len(n) : k \in 1..Len(q) \/ k = Len(q) + 1
  BY AppendPlaces
<1> HIDE DEF n
<1>2. NoJoin(n) <=> NoJoin(q)
  BY <1>1 DEF NoJoin
<1>3. \A k \in 1..Len(q) : (Since(n, k) <=> Since(q, k)) /\ (Since(n, k + 1) <=> Since(q, k + 1))
  BY <1>1 DEF Since
<1>4. Since(n, Len(q) + 1)
  BY <1>1 DEF Since
<1> QED
  BY <1>2, <1>3, <1>4 DEF n

\* A message about the realm is queued: a birth shows the new character, a death
\* removes it, and what is alive or killed changes by no more than that.
LEMMA AppendFollowed ==
  ASSUME NEW q \in Seq(Messages), NEW m \in Messages, NEW v, NEW r, NEW p,
         NEW A, NEW K, NEW B, NEW L,
         Followed(q, v, r, p, A, K),
         m.type # "join",
         m.type = "spawn" => m.realm = r /\ m.ids \cap L = {},
         m.type = "generic" => m.id = p,
         m.type = "remove" => m.id # p /\ m.id \notin B,
         \A i \in B : i \in A \/ (m.type = "spawn" /\ i \in m.ids),
         \A i \in L : i \in K \/ (m.type = "remove" /\ i = m.id)
  PROVE  Followed(Append(q, m), v, r, p, B, L)
<1> DEFINE n == Append(q, m)
           e == Len(q) + 1
<1>1. /\ Len(q) \in Nat /\ Len(n) = e /\ n[e] = m
      /\ \A k \in 1..Len(q) : k \in 1..Len(n) /\ n[k] = q[k]
      /\ \A k \in 1..Len(n) : k \in 1..Len(q) \/ k = e
      /\ e \in 1..Len(n) /\ \A k \in 1..Len(q) : k < e
  BY AppendPlaces
<1>2. /\ NoJoin(n) <=> NoJoin(q)
      /\ \A k \in 1..Len(q) : (Since(n, k) <=> Since(q, k)) /\ (Since(n, k + 1) <=> Since(q, k + 1))
      /\ Since(n, e)
  BY AppendSince
<1> HIDE DEF n, e
<1>3. \A i : \A k \in 1..Len(q) : SpawnAt(n, k, i) <=> SpawnAt(q, k, i)
  BY <1>1 DEF SpawnAt
<1>4. \A i : WillShow(n, i) <=> WillShow(q, i) \/ (m.type = "spawn" /\ i \in m.ids)
  <2>1. \A i : SpawnAt(n, e, i) <=> m.type = "spawn" /\ i \in m.ids
    BY <1>1 DEF SpawnAt
  <2> QED
    BY <1>1, <1>2, <1>3, <2>1 DEF WillShow
<1>5. LastJoin(n, r, p)
  <2> SUFFICES ASSUME NEW k \in 1..Len(n), n[k].type = "join", Since(n, k + 1)
               PROVE  n[k].realm = r /\ n[k].id = p
    BY DEF LastJoin
  <2>1. k \in 1..Len(q) /\ n[k] = q[k]
    BY <1>1
  <2> QED
    BY <1>2, <2>1 DEF LastJoin, Followed
<1>6. Honest(n, r, p, B)
  <2> SUFFICES ASSUME NEW k \in 1..Len(n), Since(n, k)
               PROVE  /\ n[k].type = "spawn" => n[k].realm = r
                      /\ n[k].type = "generic" => n[k].id = p
                      /\ n[k].type = "remove" =>
                           /\ n[k].id # p
                           /\ n[k].id \in B =>
                                \E l \in 1..Len(n) : k < l /\ SpawnAt(n, l, n[k].id)
    BY DEF Honest
  <2>1. CASE k = e
    BY <1>1, <2>1
  <2>2. CASE k \in 1..Len(q)
    <3>1. n[k] = q[k] /\ Since(q, k) /\ k < e
      BY <1>1, <1>2, <2>2
    <3>2. /\ q[k].type = "spawn" => q[k].realm = r
          /\ q[k].type = "generic" => q[k].id = p
          /\ q[k].type = "remove" =>
               /\ q[k].id # p
               /\ q[k].id \in A => \E l \in 1..Len(q) : k < l /\ SpawnAt(q, l, q[k].id)
      BY <2>2, <3>1 DEF Followed, Honest
    <3>3. ASSUME q[k].type = "remove", q[k].id \in B
          PROVE  \E l \in 1..Len(n) : k < l /\ SpawnAt(n, l, q[k].id)
      <4>1. CASE q[k].id \in A
        BY <1>1, <1>3, <3>2, <3>3, <4>1
      <4>2. CASE q[k].id \notin A
        <5>1. m.type = "spawn" /\ q[k].id \in m.ids
          BY <3>3, <4>2
        <5>2. SpawnAt(n, e, q[k].id)
          BY <1>1, <5>1 DEF SpawnAt
        <5> QED
          BY <1>1, <3>1, <5>2
      <4> QED
        BY <4>1, <4>2
    <3> QED
      BY <3>1, <3>2, <3>3
  <2> QED
    BY <1>1, <2>1, <2>2
<1>7. Present(n, v, r, B)
  BY <1>2, <1>4 DEF Present, Followed
<1>8. Final(n, v, L)
  <2> SUFFICES ASSUME NEW i \in L
               PROVE  \/ ~WillShow(n, i) /\ (NoJoin(n) => v[i] = "none")
                      \/ \E k \in 1..Len(n) :
                           /\ Since(n, k) /\ RemovalAt(n, k, i)
                           /\ \A l \in 1..Len(n) : SpawnAt(n, l, i) /\ Since(n, l) => l < k
    BY DEF Final
  <2>1. ~SpawnAt(n, e, i)
    BY <1>1 DEF SpawnAt
  <2>2. CASE m.type = "remove" /\ i = m.id
    <3>1. RemovalAt(n, e, i)
      BY <1>1, <2>2 DEF RemovalAt
    <3> QED
      BY <1>1, <1>2, <2>1, <3>1
  <2>3. CASE i \in K
    <3>1. CASE ~WillShow(q, i) /\ (NoJoin(q) => v[i] = "none")
      BY <1>2, <1>4, <3>1
    <3>2. CASE \E k \in 1..Len(q) :
                 /\ Since(q, k) /\ RemovalAt(q, k, i)
                 /\ \A l \in 1..Len(q) : SpawnAt(q, l, i) /\ Since(q, l) => l < k
      <4>1. PICK k \in 1..Len(q) :
                 /\ Since(q, k) /\ RemovalAt(q, k, i)
                 /\ \A l \in 1..Len(q) : SpawnAt(q, l, i) /\ Since(q, l) => l < k
        BY <3>2
      <4>2. k \in 1..Len(n) /\ Since(n, k) /\ RemovalAt(n, k, i)
        BY <1>1, <1>2, <4>1 DEF RemovalAt
      <4>3. \A l \in 1..Len(n) : SpawnAt(n, l, i) /\ Since(n, l) => l < k
        BY <1>1, <1>2, <1>3, <2>1, <4>1
      <4> QED
        BY <4>2, <4>3
    <3> QED
      BY <2>3, <3>1, <3>2 DEF Followed, Final
  <2> QED
    BY <2>2, <2>3
<1>9. OwnViews(n, v, r)
  BY <1>2 DEF OwnViews, Followed
<1> QED
  BY <1>5, <1>6, <1>7, <1>8, <1>9 DEF Followed, n

\* The client is told of an arrival, and nothing more yet.
LEMMA JoinFollowed ==
  ASSUME NEW q \in Seq(Messages), NEW v, NEW r \in Realms, NEW p \in Ids, NEW K
  PROVE  Followed(Append(q, Join(r, p)), v, r, p, {}, K) /\ ~NoJoin(Append(q, Join(r, p)))
<1> DEFINE m == Join(r, p)
           n == Append(q, m)
           e == Len(q) + 1
<1>1. m \in Messages /\ m.type = "join" /\ m.realm = r /\ m.id = p
  BY MessageFacts
<1>2. /\ Len(q) \in Nat /\ Len(n) = e /\ n[e] = m
      /\ \A k \in 1..Len(n) : k \in 1..Len(q) \/ k = e
      /\ e \in 1..Len(n)
  BY <1>1, AppendPlaces
<1> HIDE DEF m, n, e
<1>3. ~NoJoin(n) /\ \A k \in 1..Len(n) : ~Since(n, k)
  BY <1>1, <1>2 DEF NoJoin, Since
<1>4. \A k \in 1..Len(q) : k + 1 \in 1..Len(n)
  BY <1>2 DEF e
<1>5. LastJoin(n, r, p)
  <2> SUFFICES ASSUME NEW k \in 1..Len(n), n[k].type = "join", Since(n, k + 1)
               PROVE  n[k].realm = r /\ n[k].id = p
    BY DEF LastJoin
  <2>1. k \notin 1..Len(q)
    BY <1>3, <1>4
  <2> QED
    BY <1>1, <1>2, <2>1
<1>6. Honest(n, r, p, {}) /\ Present(n, v, r, {}) /\ Final(n, v, K) /\ OwnViews(n, v, r)
  BY <1>3 DEF Honest, Present, Final, WillShow, OwnViews
<1> QED
  BY <1>3, <1>5, <1>6 DEF Followed, n, m

\* A character leaves without a word.
LEMMA ShrinkFollowed ==
  ASSUME NEW q, NEW v, NEW r, NEW p, NEW A, NEW K, NEW B \in SUBSET A,
         Followed(q, v, r, p, A, K)
  PROVE  Followed(q, v, r, p, B, K)
<1>1. Honest(q, r, p, B) /\ Present(q, v, r, B)
  BY DEF Followed, Honest, Present
<1> QED
  BY <1>1 DEF Followed

-------------------------------------------------------------------------------
(* What the client takes from the queue. *)

LEMMA TailPlaces ==
  ASSUME NEW q \in Seq(Messages), q # <<>>
  PROVE  LET n == Tail(q)
         IN  /\ n \in Seq(Messages) /\ q[1] \in Messages /\ Head(q) = q[1]
             /\ Len(n) \in Nat /\ Len(q) = Len(n) + 1
             /\ 1 \in 1..Len(q)
             /\ \A k \in 1..Len(n) : k + 1 \in 1..Len(q) /\ n[k] = q[k + 1]
             /\ \A k \in 1..Len(q) : k = 1 \/ (k - 1 \in 1..Len(n) /\ n[k - 1] = q[k])
             /\ NoJoin(q) <=> NoJoin(n) /\ q[1].type # "join"
             /\ \A k \in 1..Len(n) : Since(n, k) <=> Since(q, k + 1)
             /\ \A k \in 1..Len(n) : Since(n, k + 1) <=> Since(q, k + 1 + 1)
             /\ Since(q, 1) <=> NoJoin(q)
             /\ Since(q, 1 + 1) <=> NoJoin(n)
<1> DEFINE n == Tail(q)
<1>1. /\ n \in Seq(Messages) /\ Len(n) \in Nat /\ Len(q) \in Nat /\ Len(q) = Len(n) + 1
      /\ Head(q) = q[1]
  BY EmptySeq, HeadTailProperties
<1>2. \A k \in 1..Len(n) : n[k] = q[k + 1]
  BY <1>1, HeadTailProperties
<1> HIDE DEF n
<1>3. /\ 1 \in 1..Len(q)
      /\ \A k \in 1..Len(n) : k + 1 \in 1..Len(q) /\ n[k] = q[k + 1]
  BY <1>1, <1>2
<1>4. q[1] \in Messages
  BY <1>3
<1>5. \A k \in 1..Len(q) : k = 1 \/ (k - 1 \in 1..Len(n) /\ n[k - 1] = q[k])
  <2> TAKE k \in 1..Len(q)
  <2>1. CASE k = 1
    BY <2>1
  <2>2. CASE k # 1
    <3>1. k - 1 \in 1..Len(n) /\ (k - 1) + 1 = k
      BY <1>1, <2>2
    <3> QED
      BY <1>3, <3>1
  <2> QED
    BY <2>1, <2>2
<1>6. NoJoin(q) <=> NoJoin(n) /\ q[1].type # "join"
  BY <1>3, <1>5 DEF NoJoin
<1>7. ASSUME NEW k \in Nat \ {0}
      PROVE  Since(n, k) <=> Since(q, k + 1)
  <2>1. ASSUME Since(n, k), NEW l \in 1..Len(q), k + 1 <= l
        PROVE  q[l].type # "join"
    <3>1. l - 1 \in 1..Len(n) /\ n[l - 1] = q[l] /\ k <= l - 1
      BY <1>1, <1>5, <2>1
    <3> QED
      BY <2>1, <3>1 DEF Since
  <2>2. ASSUME Since(q, k + 1), NEW l \in 1..Len(n), k <= l
        PROVE  n[l].type # "join"
    <3>1. l + 1 \in 1..Len(q) /\ n[l] = q[l + 1] /\ k + 1 <= l + 1
      BY <1>1, <1>3, <2>2
    <3> QED
      BY <2>2, <3>1 DEF Since
  <2> QED
    BY <2>1, <2>2 DEF Since
<1>8. Since(q, 1) <=> NoJoin(q)
  BY <1>1 DEF Since, NoJoin
<1>9. Since(n, 1) <=> NoJoin(n)
  BY <1>1 DEF Since, NoJoin
<1>10. \A k \in 1..Len(n) : k \in Nat \ {0} /\ k + 1 \in Nat \ {0}
  BY <1>1
<1>11. Since(q, 1 + 1) <=> NoJoin(n)
  BY <1>7, <1>9
<1> QED
  BY <1>1, <1>3, <1>4, <1>5, <1>6, <1>7, <1>8, <1>10, <1>11 DEF n

\* What does not depend on the view is kept by the rest of the queue.
LEMMA TailFollowed ==
  ASSUME NEW q \in Seq(Messages), q # <<>>, NEW v, NEW r, NEW p, NEW A, NEW K,
         Followed(q, v, r, p, A, K)
  PROVE  LET n == Tail(q)
         IN  /\ LastJoin(n, r, p) /\ Honest(n, r, p, A)
             /\ \A i : WillShow(n, i) => WillShow(q, i)
             /\ \A i : WillShow(q, i) => WillShow(n, i) \/ (NoJoin(q) /\ SpawnAt(q, 1, i))
             /\ NoJoin(n) /\ q[1].type = "join" => q[1].realm = r /\ q[1].id = p
             /\ NoJoin(q) =>
                  /\ q[1].type = "spawn" => q[1].realm = r
                  /\ q[1].type = "generic" => q[1].id = p
                  /\ q[1].type = "remove" =>
                       q[1].id # p /\ (q[1].id \in A => WillShow(n, q[1].id))
             /\ \A i \in K :
                  \/ ~WillShow(q, i) /\ (NoJoin(q) => v[i] = "none")
                  \/ ~WillShow(n, i) /\ NoJoin(q) /\ RemovalAt(q, 1, i)
                  \/ \E k \in 1..Len(n) :
                       /\ Since(n, k) /\ RemovalAt(n, k, i)
                       /\ \A l \in 1..Len(n) : SpawnAt(n, l, i) /\ Since(n, l) => l < k
<1> DEFINE n == Tail(q)
<1>1. /\ n \in Seq(Messages) /\ q[1] \in Messages
      /\ Len(n) \in Nat /\ Len(q) = Len(n) + 1
      /\ 1 \in 1..Len(q)
      /\ \A k \in 1..Len(n) : k + 1 \in 1..Len(q) /\ n[k] = q[k + 1]
      /\ \A k \in 1..Len(q) : k = 1 \/ (k - 1 \in 1..Len(n) /\ n[k - 1] = q[k])
      /\ NoJoin(q) <=> NoJoin(n) /\ q[1].type # "join"
      /\ \A k \in 1..Len(n) : Since(n, k) <=> Since(q, k + 1)
      /\ \A k \in 1..Len(n) : Since(n, k + 1) <=> Since(q, k + 1 + 1)
      /\ Since(q, 1) <=> NoJoin(q)
      /\ Since(q, 1 + 1) <=> NoJoin(n)
  BY TailPlaces
<1> HIDE DEF n
<1>2. LastJoin(q, r, p) /\ Honest(q, r, p, A) /\ Final(q, v, K)
  BY DEF Followed
<1>3. \A i : \A k \in 1..Len(n) :
        /\ SpawnAt(n, k, i) <=> SpawnAt(q, k + 1, i)
        /\ RemovalAt(n, k, i) <=> RemovalAt(q, k + 1, i)
  BY <1>1 DEF SpawnAt, RemovalAt
\* A place of q that is not its head is one of n.
<1>4. ASSUME NEW k \in 1..Len(q), k # 1
      PROVE  /\ k - 1 \in 1..Len(n) /\ n[k - 1] = q[k]
             /\ Since(n, k - 1) <=> Since(q, k)
             /\ \A i : SpawnAt(n, k - 1, i) <=> SpawnAt(q, k, i)
             /\ \A i : RemovalAt(n, k - 1, i) <=> RemovalAt(q, k, i)
  <2>1. k - 1 \in 1..Len(n) /\ n[k - 1] = q[k] /\ (k - 1) + 1 = k
    BY <1>1, <1>4
  <2> QED
    BY <1>1, <1>3, <2>1
<1>5. LastJoin(n, r, p)
  BY <1>1, <1>2 DEF LastJoin
<1>6. \A i : WillShow(n, i) => WillShow(q, i)
  BY <1>1, <1>3 DEF WillShow
<1>7. \A i : WillShow(q, i) => WillShow(n, i) \/ (NoJoin(q) /\ SpawnAt(q, 1, i))
  BY <1>1, <1>4 DEF WillShow
<1>8. ASSUME NEW k \in 1..Len(q), Since(q, k), q[k].type = "remove", q[k].id \in A
      PROVE  \E l \in 1..Len(n) : k < l + 1 /\ SpawnAt(n, l, q[k].id)
  <2>1. PICK l \in 1..Len(q) : k < l /\ SpawnAt(q, l, q[k].id)
    BY <1>2, <1>8 DEF Honest
  <2>2. l # 1 /\ k < (l - 1) + 1
    BY <1>1, <2>1
  <2> QED
    BY <1>4, <2>1, <2>2
<1>9. Honest(n, r, p, A)
  <2> SUFFICES ASSUME NEW k \in 1..Len(n), Since(n, k)
               PROVE  /\ n[k].type = "spawn" => n[k].realm = r
                      /\ n[k].type = "generic" => n[k].id = p
                      /\ n[k].type = "remove" =>
                           /\ n[k].id # p
                           /\ n[k].id \in A =>
                                \E l \in 1..Len(n) : k < l /\ SpawnAt(n, l, n[k].id)
    BY DEF Honest
  <2>1. k + 1 \in 1..Len(q) /\ n[k] = q[k + 1] /\ Since(q, k + 1)
    BY <1>1
  <2>2. /\ q[k + 1].type = "spawn" => q[k + 1].realm = r
        /\ q[k + 1].type = "generic" => q[k + 1].id = p
        /\ q[k + 1].type = "remove" => q[k + 1].id # p
    BY <1>2, <2>1 DEF Honest
  <2>3. ASSUME n[k].type = "remove", n[k].id \in A
        PROVE  \E l \in 1..Len(n) : k < l /\ SpawnAt(n, l, n[k].id)
    <3>1. PICK l \in 1..Len(n) : k + 1 < l + 1 /\ SpawnAt(n, l, n[k].id)
      BY <1>8, <2>1, <2>3
    <3> QED
      BY <1>1, <3>1
  <2> QED
    BY <2>1, <2>2, <2>3
<1>10. NoJoin(n) /\ q[1].type = "join" => q[1].realm = r /\ q[1].id = p
  BY <1>1, <1>2 DEF LastJoin
<1>11. ASSUME NoJoin(q)
       PROVE  /\ q[1].type = "spawn" => q[1].realm = r
              /\ q[1].type = "generic" => q[1].id = p
              /\ q[1].type = "remove" =>
                   q[1].id # p /\ (q[1].id \in A => WillShow(n, q[1].id))
  <2>1. Since(q, 1)
    BY <1>1, <1>11
  <2>2. \A l \in 1..Len(n) : Since(n, l)
    BY <1>1, <1>11 DEF Since, NoJoin
  <2>3. q[1].type = "remove" /\ q[1].id \in A => WillShow(n, q[1].id)
    BY <1>1, <1>8, <2>1, <2>2 DEF WillShow
  <2> QED
    BY <1>1, <1>2, <2>1, <2>3 DEF Honest
<1>12. ASSUME NEW i \in K
       PROVE  \/ ~WillShow(q, i) /\ (NoJoin(q) => v[i] = "none")
              \/ ~WillShow(n, i) /\ NoJoin(q) /\ RemovalAt(q, 1, i)
              \/ \E k \in 1..Len(n) :
                   /\ Since(n, k) /\ RemovalAt(n, k, i)
                   /\ \A l \in 1..Len(n) : SpawnAt(n, l, i) /\ Since(n, l) => l < k
  <2>1. CASE ~WillShow(q, i) /\ (NoJoin(q) => v[i] = "none")
    BY <2>1
  <2>2. ASSUME NEW k \in 1..Len(q), Since(q, k), RemovalAt(q, k, i),
               \A l \in 1..Len(q) : SpawnAt(q, l, i) /\ Since(q, l) => l < k
        PROVE  \/ ~WillShow(n, i) /\ NoJoin(q) /\ RemovalAt(q, 1, i)
               \/ \E j \in 1..Len(n) :
                    /\ Since(n, j) /\ RemovalAt(n, j, i)
                    /\ \A l \in 1..Len(n) : SpawnAt(n, l, i) /\ Since(n, l) => l < j
    <3>1. \A l \in 1..Len(n) : SpawnAt(n, l, i) /\ Since(n, l) => l + 1 < k
      BY <1>1, <1>3, <2>2
    <3>2. CASE k = 1
      <4>1. ~WillShow(n, i)
        BY <1>1, <3>1, <3>2 DEF WillShow
      <4> QED
        BY <1>1, <2>2, <3>2, <4>1
    <3>3. CASE k # 1
      <4>1. k - 1 \in 1..Len(n) /\ Since(n, k - 1) /\ RemovalAt(n, k - 1, i)
        BY <1>4, <2>2, <3>3
      <4>2. \A l \in 1..Len(n) : SpawnAt(n, l, i) /\ Since(n, l) => l < k - 1
        BY <1>1, <3>1
      <4> QED
        BY <4>1, <4>2
    <3> QED
      BY <3>2, <3>3
  <2> QED
    BY <1>2, <2>1, <2>2 DEF Final
<1> QED
  BY <1>5, <1>6, <1>7, <1>9, <1>10, <1>11, <1>12 DEF n

\* What the client makes of the view v when it receives m.
ViewAfter(m, v, w) ==
  /\ m.type = "join" => \A i \in Ids : w[i] = "none"
  /\ m.type = "spawn" => \A i \in Ids : w[i] = IF i \in m.ids THEN m.realm ELSE v[i]
  /\ m.type = "generic" =>
       \A i \in Ids : w[i] = IF i = m.id /\ v[i] = "none" THEN "bare" ELSE v[i]
  /\ m.type = "remove" => \A i \in Ids : w[i] = IF i = m.id THEN "none" ELSE v[i]

LEMMA ReceiveFollowed ==
  ASSUME NEW q \in Seq(Messages), q # <<>>, NEW v, NEW w, NEW r \in Realms, NEW p \in Ids,
         NEW A \in SUBSET Ids, NEW K \in SUBSET Ids, p \in A, A \cap K = {},
         Followed(q, v, r, p, A, K), ViewAfter(q[1], v, w)
  PROVE  /\ Followed(Tail(q), w, r, p, A, K)
         /\ NoJoin(Tail(q)) /\ q[1].type = "join" => q[1].realm = r /\ q[1].id = p
         /\ NoJoin(Tail(q)) /\ q[1].type # "join" => NoJoin(q)
         /\ NoJoin(q) /\ q[1].type = "remove" => q[1].id # p
<1> DEFINE n == Tail(q)
           m == q[1]
<1>1. /\ m \in Messages /\ 1 \in 1..Len(q)
      /\ NoJoin(q) <=> NoJoin(n) /\ m.type # "join"
      /\ Since(q, 1) <=> NoJoin(q)
  BY TailPlaces
<1>2. /\ LastJoin(n, r, p) /\ Honest(n, r, p, A)
      /\ \A i : WillShow(n, i) => WillShow(q, i)
      /\ \A i : WillShow(q, i) => WillShow(n, i) \/ (NoJoin(q) /\ SpawnAt(q, 1, i))
      /\ NoJoin(n) /\ m.type = "join" => m.realm = r /\ m.id = p
      /\ NoJoin(q) =>
           /\ m.type = "spawn" => m.realm = r
           /\ m.type = "generic" => m.id = p
           /\ m.type = "remove" => m.id # p /\ (m.id \in A => WillShow(n, m.id))
      /\ \A i \in K :
           \/ ~WillShow(q, i) /\ (NoJoin(q) => v[i] = "none")
           \/ ~WillShow(n, i) /\ NoJoin(q) /\ RemovalAt(q, 1, i)
           \/ \E k \in 1..Len(n) :
                /\ Since(n, k) /\ RemovalAt(n, k, i)
                /\ \A l \in 1..Len(n) : SpawnAt(n, l, i) /\ Since(n, l) => l < k
  BY TailFollowed
<1> HIDE DEF n
<1>3. m.type \in {"join", "spawn", "generic", "remove"}
  BY <1>1, MessageFacts
<1>4. r # "none" /\ r # "bare"
  BY ReplicationAssumption
<1>5. Present(n, w, r, A)
  <2> SUFFICES ASSUME NEW i \in A, ~WillShow(n, i)
               PROVE  NoJoin(n) /\ w[i] = r
    BY DEF Present
  <2>1. CASE NoJoin(q) /\ SpawnAt(q, 1, i)
    BY <1>1, <1>2, <2>1 DEF SpawnAt, ViewAfter
  <2>2. CASE NoJoin(q) /\ v[i] = r
    <3>1. NoJoin(n) /\ m.type # "join"
      BY <1>1, <2>2
    <3>2. CASE m.type = "spawn"
      BY <1>2, <2>2, <3>1, <3>2 DEF ViewAfter
    <3>3. CASE m.type = "generic"
      BY <1>4, <2>2, <3>1, <3>3 DEF ViewAfter
    <3>4. CASE m.type = "remove"
      BY <1>2, <2>2, <3>1, <3>4 DEF ViewAfter
    <3> QED
      BY <1>3, <3>1, <3>2, <3>3, <3>4
  <2> QED
    BY <1>2, <2>1, <2>2 DEF Followed, Present
<1>6. Final(n, w, K)
  <2> SUFFICES ASSUME NEW i \in K
               PROVE  \/ ~WillShow(n, i) /\ (NoJoin(n) => w[i] = "none")
                      \/ \E k \in 1..Len(n) :
                           /\ Since(n, k) /\ RemovalAt(n, k, i)
                           /\ \A l \in 1..Len(n) : SpawnAt(n, l, i) /\ Since(n, l) => l < k
    BY DEF Final
  <2>1. CASE ~WillShow(q, i) /\ (NoJoin(q) => v[i] = "none")
    <3> SUFFICES ASSUME NoJoin(n)
                 PROVE  w[i] = "none"
      BY <1>2, <2>1
    <3>1. CASE m.type = "join"
      BY <3>1 DEF ViewAfter
    <3>2. CASE m.type = "spawn"
      <4>1. v[i] = "none" /\ i \notin m.ids
        BY <1>1, <2>1, <3>2 DEF WillShow, SpawnAt
      <4> QED
        BY <3>2, <4>1 DEF ViewAfter
    <3>3. CASE m.type = "generic"
      <4>1. v[i] = "none" /\ i # m.id
        BY <1>1, <1>2, <2>1, <3>3
      <4> QED
        BY <3>3, <4>1 DEF ViewAfter
    <3>4. CASE m.type = "remove"
      BY <1>1, <2>1, <3>4 DEF ViewAfter
    <3> QED
      BY <1>3, <3>1, <3>2, <3>3, <3>4
  <2>2. CASE ~WillShow(n, i) /\ NoJoin(q) /\ RemovalAt(q, 1, i)
    BY <2>2 DEF RemovalAt, ViewAfter
  <2> QED
    BY <1>2, <2>1, <2>2
<1>7. OwnViews(n, w, r)
  <2> SUFFICES ASSUME NoJoin(n), NEW i \in Ids
               PROVE  w[i] \in {"none", "bare", r}
    BY DEF OwnViews
  <2>1. CASE m.type = "join"
    BY <2>1 DEF ViewAfter
  <2>2. CASE m.type # "join"
    <3>1. v[i] \in {"none", "bare", r}
      BY <1>1, <2>2 DEF Followed, OwnViews
    <3>2. NoJoin(q)
      BY <1>1, <2>2
    <3> QED
      BY <1>2, <1>3, <2>2, <3>1, <3>2 DEF ViewAfter
  <2> QED
    BY <2>1, <2>2
<1> QED
  BY <1>1, <1>2, <1>5, <1>6, <1>7 DEF Followed, n

-------------------------------------------------------------------------------
(* The server preserves the invariant. *)

LEMMA InitIInv == Init => IInv
<1> SUFFICES ASSUME Init
             PROVE  IInv
  OBVIOUS
<1>1. TypeOK
  <2>1. life \in [Realms -> [Ids -> Lives]] /\ view \in [Ids -> Looks]
    BY DEF Init, Lives, Looks
  <2>2. asked \in [Realms -> Seq(Ids)] /\ down \in Seq(Messages) /\ up \in Seq(Ids)
    BY DEF Init
  <2> QED
    BY <2>1, <2>2 DEF Init, TypeOK
<1>2. IdsAgree /\ PlayerAlive /\ Told
  BY DEF Init, IdsAgree, PlayerAlive, Told
<1> QED
  BY <1>1, <1>2 DEF IInv

\* What the fate of one character does to who is alive and who was killed.
LEMMA BecomesFacts ==
  ASSUME TypeOK, NEW r \in Realms, NEW i \in Ids, NEW l \in Lives, Becomes(r, i, l)
  PROVE  /\ life' \in [Realms -> [Ids -> Lives]]
         /\ \A s \in Realms, j \in Ids :
              life'[s][j] = IF s = r /\ j = i THEN l ELSE life[s][j]
         /\ \A s \in Realms : s # r => Alive(s)' = Alive(s) /\ Killed(s)' = Killed(s)
         /\ Alive(r)' = IF l = "alive" THEN Alive(r) \cup {i} ELSE Alive(r) \ {i}
         /\ Killed(r)' = IF l = "killed" THEN Killed(r) \cup {i} ELSE Killed(r) \ {i}
<1>1. /\ life \in [Realms -> [Ids -> Lives]]
      /\ life' = [life EXCEPT ![r] = [life[r] EXCEPT ![i] = l]]
  BY DEF TypeOK, Becomes
<1>2. life[r] \in [Ids -> Lives]
  BY <1>1
<1>3. DEFINE f == [life[r] EXCEPT ![i] = l]
<1>4. f \in [Ids -> Lives] /\ f[i] = l /\ \A j \in Ids : j # i => f[j] = life[r][j]
  BY <1>2
<1> HIDE DEF f
<1>5. /\ life' \in [Realms -> [Ids -> Lives]]
      /\ life'[r] = f /\ \A s \in Realms : s # r => life'[s] = life[s]
  BY <1>1, <1>4 DEF f
<1>6. \A s \in Realms, j \in Ids :
        life'[s][j] = IF s = r /\ j = i THEN l ELSE life[s][j]
  BY <1>4, <1>5
<1>7. \A s \in Realms : s # r => Alive(s)' = Alive(s) /\ Killed(s)' = Killed(s)
  BY <1>5 DEF Alive, Killed
<1>8. Alive(r)' = IF l = "alive" THEN Alive(r) \cup {i} ELSE Alive(r) \ {i}
  BY <1>6 DEF Alive
<1>9. Killed(r)' = IF l = "killed" THEN Killed(r) \cup {i} ELSE Killed(r) \ {i}
  BY <1>6 DEF Killed
<1> QED
  BY <1>5, <1>6, <1>7, <1>8, <1>9

LEMMA SendOne ==
  ASSUME down \in Seq(Messages), NEW m \in Messages, Send(<<m>>)
  PROVE  down' = Append(down, m) /\ down' \in Seq(Messages)
  BY DEF Send

\* Who is alive was not killed.
LEMMA AliveFacts ==
  ASSUME NEW r
  PROVE  /\ Alive(r) \in SUBSET Ids /\ Killed(r) \in SUBSET Ids
         /\ Alive(r) \cap Killed(r) = {}
  BY DEF Alive, Killed

\* What a server step may send to the client of a player that stays where it is.
Announced(m, B, L) ==
  /\ down' = Append(down, m) /\ m.type # "join"
  /\ m.type = "spawn" => m.realm = where /\ m.ids \cap L = {}
  /\ m.type = "generic" => m.id = me
  /\ m.type = "remove" => m.id # me /\ m.id \notin B
  /\ \A i \in B : i \in Alive(where) \/ (m.type = "spawn" /\ i \in m.ids)
  /\ \A i \in L : i \in Killed(where) \/ (m.type = "remove" /\ i = m.id)

LEMMA AnnouncedOK ==
  ASSUME IInv, UNCHANGED <<where, nextRealm, me, realm, view, serverPlayer>>,
         ~late' => ~late, ~crashed' => ~crashed,
         NEW B, NEW L, where # NoRealm => B = Alive(where)' /\ L = Killed(where)' /\ me \in B,
         where # NoRealm /\ ~late' /\ ~crashed' =>
           \/ down' = down /\ B \subseteq Alive(where) /\ L \subseteq Killed(where)
           \/ \E m \in Messages : Announced(m, B, L)
  PROVE  PlayerAlive' /\ Told'
<1>1. PlayerAlive /\ Told /\ down \in Seq(Messages)
  BY DEF IInv, TypeOK
<1>2. PlayerAlive'
  BY <1>1 DEF PlayerAlive
<1>3. ASSUME where # NoRealm, ~late', ~crashed'
      PROVE  /\ Followed(down', view, where, me, B, L)
             /\ NoJoin(down') => realm = where /\ serverPlayer = me
  <2>1. /\ Followed(down, view, where, me, Alive(where), Killed(where))
        /\ NoJoin(down) => realm = where /\ serverPlayer = me
    BY <1>1, <1>3 DEF Told
  <2>2. CASE down' = down /\ B \subseteq Alive(where) /\ L \subseteq Killed(where)
    <3>1. Followed(down, view, where, me, B, L)
      BY <2>1, <2>2 DEF Followed, Honest, Present, Final
    <3> QED
      BY <2>1, <2>2, <3>1
  <2>3. ASSUME NEW m \in Messages, Announced(m, B, L)
        PROVE  /\ Followed(down', view, where, me, B, L)
               /\ NoJoin(down') => realm = where /\ serverPlayer = me
    <3>1. down' = Append(down, m) /\ m.type # "join"
      BY <2>3 DEF Announced
    <3>2. Followed(Append(down, m), view, where, me, B, L)
      BY <1>1, <2>1, <2>3, AppendFollowed DEF Announced
    <3>3. NoJoin(Append(down, m)) => NoJoin(down)
      BY <1>1, <3>1, AppendSince
    <3> QED
      BY <2>1, <3>1, <3>2, <3>3
  <2> QED
    BY <1>3, <2>2, <2>3
<1>4. Told'
  <2>1. ASSUME where' # NoRealm, ~late', ~crashed'
        PROVE  /\ Followed(down', view', where', me', Alive(where)', Killed(where)')
               /\ NoJoin(down') => realm' = where' /\ serverPlayer' = me'
    BY <1>3, <2>1
  <2> QED
    BY <2>1 DEF Told
<1> QED
  BY <1>2, <1>4

LEMMA BirthOK ==
  ASSUME IInv, NEW r \in Realms, NEW i \in Ids, Birth(r, i)
  PROVE  IInv'
<1> DEFINE m == Spawn(r, {i})
<1>1. TypeOK /\ IdsAgree /\ PlayerAlive
  BY DEF IInv
<1>2. /\ life[r][i] = "unborn" /\ Becomes(r, i, "alive")
      /\ IF where = r THEN Send(<<m>>) ELSE UNCHANGED down
      /\ UNCHANGED <<where, nextRealm, me, late, asked, crashed, up, realm, view,
                     tracked, serverPlayer, localPlayer>>
  BY DEF Birth, Broadcast, peer, client
<1>3. "alive" \in Lives
  BY DEF Lives
<1>4. /\ life' \in [Realms -> [Ids -> Lives]]
      /\ \A s \in Realms : s # r => Alive(s)' = Alive(s) /\ Killed(s)' = Killed(s)
      /\ Alive(r)' = Alive(r) \cup {i} /\ Killed(r)' = Killed(r) \ {i}
  BY <1>1, <1>2, <1>3, BecomesFacts
<1>5. m \in Messages /\ m.type = "spawn" /\ m.realm = r /\ m.ids = {i}
  BY MessageFacts
<1> HIDE DEF m
<1>6. down' \in Seq(Messages) /\ (where = r => down' = Append(down, m))
  BY <1>1, <1>2, <1>5, SendOne DEF TypeOK
<1>7. TypeOK'
  BY <1>1, <1>2, <1>4, <1>6 DEF TypeOK
<1>8. IdsAgree'
  BY <1>1, <1>2 DEF IdsAgree, Shown
<1>9. PlayerAlive' /\ Told'
  <2> DEFINE B == Alive(where)'
             L == Killed(where)'
  <2>1. where # NoRealm => where \in Realms /\ me \in Alive(where)
    BY <1>1 DEF TypeOK, PlayerAlive
  <2>2. CASE where = r
    <3>1. i \notin Killed(r)
      BY <1>2 DEF Killed
    <3>2. B = Alive(where) \cup {i} /\ L = Killed(where) \ {i}
      BY <1>2, <1>4, <2>2
    <3>3. Announced(m, B, L) /\ (where # NoRealm => me \in B)
      BY <1>5, <1>6, <2>1, <2>2, <3>1, <3>2 DEF Announced
    <3> HIDE DEF B, L
    <3> QED
      BY <1>2, <1>5, <3>3, AnnouncedOK DEF B, L
  <2>3. CASE where # r
    <3>1. where # NoRealm => B = Alive(where) /\ L = Killed(where)
      BY <1>2, <1>4, <2>1, <2>3
    <3>2. down' = down
      BY <1>2, <2>3
    <3> QED
      BY <1>2, <2>1, <3>1, <3>2, AnnouncedOK
  <2> QED
    BY <2>2, <2>3
<1> QED
  BY <1>7, <1>8, <1>9 DEF IInv

LEMMA DieOK ==
  ASSUME IInv, NEW r \in Realms, NEW i \in Ids, Die(r, i)
  PROVE  IInv'
<1> DEFINE m == Removal(i)
<1>1. TypeOK /\ IdsAgree /\ PlayerAlive
  BY DEF IInv
<1>2. /\ where = r => i # me
      /\ Becomes(r, i, "killed")
      /\ IF where = r THEN Send(<<m>>) ELSE UNCHANGED down
      /\ UNCHANGED <<where, nextRealm, me, late, asked, crashed, up, realm, view,
                     tracked, serverPlayer, localPlayer>>
  BY DEF Die, Broadcast, peer, client
<1>3. "killed" \in Lives
  BY DEF Lives
<1>4. /\ life' \in [Realms -> [Ids -> Lives]]
      /\ \A s \in Realms : s # r => Alive(s)' = Alive(s) /\ Killed(s)' = Killed(s)
      /\ Alive(r)' = Alive(r) \ {i} /\ Killed(r)' = Killed(r) \cup {i}
  BY <1>1, <1>2, <1>3, BecomesFacts
<1>5. m \in Messages /\ m.type = "remove" /\ m.id = i
  BY MessageFacts
<1> HIDE DEF m
<1>6. down' \in Seq(Messages) /\ (where = r => down' = Append(down, m))
  BY <1>1, <1>2, <1>5, SendOne DEF TypeOK
<1>7. TypeOK'
  BY <1>1, <1>2, <1>4, <1>6 DEF TypeOK
<1>8. IdsAgree'
  BY <1>1, <1>2 DEF IdsAgree, Shown
<1>9. PlayerAlive' /\ Told'
  <2> DEFINE B == Alive(where)'
             L == Killed(where)'
  <2>1. where # NoRealm => where \in Realms /\ me \in Alive(where)
    BY <1>1 DEF TypeOK, PlayerAlive
  <2>2. CASE where = r
    <3>1. B = Alive(where) \ {i} /\ L = Killed(where) \cup {i}
      BY <1>2, <1>4, <2>2
    <3>2. Announced(m, B, L) /\ (where # NoRealm => me \in B)
      BY <1>2, <1>5, <1>6, <2>1, <2>2, <3>1 DEF Announced
    <3> HIDE DEF B, L
    <3> QED
      BY <1>2, <1>5, <3>2, AnnouncedOK DEF B, L
  <2>3. CASE where # r
    <3>1. where # NoRealm => B = Alive(where) /\ L = Killed(where)
      BY <1>2, <1>4, <2>1, <2>3
    <3>2. down' = down
      BY <1>2, <2>3
    <3> QED
      BY <1>2, <2>1, <3>1, <3>2, AnnouncedOK
  <2> QED
    BY <2>2, <2>3
<1> QED
  BY <1>7, <1>8, <1>9 DEF IInv

LEMMA VanishOK ==
  ASSUME IInv, NEW r \in Realms, NEW i \in Ids, Vanish(r, i)
  PROVE  IInv'
<1>1. TypeOK /\ IdsAgree /\ PlayerAlive
  BY DEF IInv
<1>2. /\ where = r => i # me
      /\ Becomes(r, i, "gone")
      /\ UNCHANGED <<where, nextRealm, me, late, asked, crashed, down, up, realm, view,
                     tracked, serverPlayer, localPlayer>>
  BY DEF Vanish, peer, client, network
<1>3. "gone" \in Lives
  BY DEF Lives
<1>4. /\ life' \in [Realms -> [Ids -> Lives]]
      /\ \A s \in Realms : s # r => Alive(s)' = Alive(s) /\ Killed(s)' = Killed(s)
      /\ Alive(r)' = Alive(r) \ {i} /\ Killed(r)' = Killed(r) \ {i}
  BY <1>1, <1>2, <1>3, BecomesFacts
<1>5. TypeOK'
  BY <1>1, <1>2, <1>4 DEF TypeOK
<1>6. IdsAgree'
  BY <1>1, <1>2 DEF IdsAgree, Shown
<1>7. PlayerAlive' /\ Told'
  <2> DEFINE B == Alive(where)'
             L == Killed(where)'
  <2>1. where # NoRealm => where \in Realms /\ me \in Alive(where)
    BY <1>1 DEF TypeOK, PlayerAlive
  <2>2. where # NoRealm => B \subseteq Alive(where) /\ L \subseteq Killed(where) /\ me \in B
    BY <1>2, <1>4, <2>1
  <2> QED
    BY <1>2, <2>2, AnnouncedOK
<1> QED
  BY <1>5, <1>6, <1>7 DEF IInv

\* The realm sends the player itself, or its sheet.
LEMMA AboutThePlayerOK ==
  ASSUME IInv, Reposition \/ SheetChanged
  PROVE  IInv'
<1>1. TypeOK /\ IdsAgree /\ PlayerAlive
  BY DEF IInv
<1>2. /\ where # NoRealm
      /\ Send(<<Spawn(where, {me})>>) \/ Send(<<Generic(me)>>)
      /\ ~crashed /\ crashed' \in BOOLEAN
      /\ UNCHANGED <<life, where, nextRealm, me, late, asked, up, realm, view,
                     tracked, serverPlayer, localPlayer>>
  BY <1>1 DEF Reposition, SheetChanged, peer, client, TypeOK
<1>3. where \in Realms /\ me \in Ids /\ me \in Alive(where)
  BY <1>1, <1>2 DEF TypeOK, PlayerAlive, Alive
<1>4. PICK m \in Messages :
        /\ down' = Append(down, m) /\ down' \in Seq(Messages)
        /\ \/ m.type = "spawn" /\ m.realm = where /\ m.ids = {me}
           \/ m.type = "generic" /\ m.id = me
  <2>1. CASE Send(<<Spawn(where, {me})>>)
    BY <1>1, <1>3, <2>1, MessageFacts, SendOne DEF TypeOK
  <2>2. CASE Send(<<Generic(me)>>)
    BY <1>1, <1>3, <2>2, MessageFacts, SendOne DEF TypeOK
  <2> QED
    BY <1>2, <2>1, <2>2
<1>5. TypeOK'
  BY <1>1, <1>2, <1>4 DEF TypeOK
<1>6. IdsAgree'
  BY <1>1, <1>2 DEF IdsAgree, Shown
<1>7. PlayerAlive' /\ Told'
  <2>1. Alive(where)' = Alive(where) /\ Killed(where)' = Killed(where)
    BY <1>2 DEF Alive, Killed
  <2>2. Announced(m, Alive(where), Killed(where))
    BY <1>3, <1>4, AliveFacts DEF Announced
  <2> QED
    BY <1>2, <1>3, <2>1, <2>2, AnnouncedOK
<1> QED
  BY <1>5, <1>6, <1>7 DEF IInv

\* The player leaves: nothing is promised of who is between realms.
LEMMA DisconnectPeerOK ==
  ASSUME IInv, NEW r \in Realms, NEW b \in BOOLEAN, DisconnectPeer(r, b)
  PROVE  IInv'
<1>1. TypeOK /\ IdsAgree /\ PlayerAlive
  BY DEF IInv
<1>2. /\ where # NoRealm
      /\ IF b THEN Send(<<Spawn(where, {me})>>) ELSE UNCHANGED down
      /\ Becomes(where, me, "gone")
      /\ where' = NoRealm /\ nextRealm' = r
      /\ UNCHANGED <<me, asked, crashed, up, realm, view, tracked, serverPlayer,
                     localPlayer, late>>
  BY DEF DisconnectPeer, client
<1>3. where \in Realms /\ me \in Ids
  BY <1>1, <1>2 DEF TypeOK, PlayerAlive, Alive
<1>4. life' \in [Realms -> [Ids -> Lives]]
  BY <1>1, <1>2, <1>3, BecomesFacts DEF Lives
<1>5. down' \in Seq(Messages)
  BY <1>1, <1>2, <1>3, MessageFacts, SendOne DEF TypeOK
<1>6. TypeOK'
  BY <1>1, <1>2, <1>4, <1>5 DEF TypeOK
<1>7. IdsAgree' /\ PlayerAlive' /\ Told'
  BY <1>1, <1>2 DEF IdsAgree, Shown, PlayerAlive, Told
<1> QED
  BY <1>6, <1>7 DEF IInv

\* The join, perhaps part of the sheet, everybody who is alive, and the sheet.
LEMMA ConnectPeerOK ==
  ASSUME IInv, NEW i \in Ids, ConnectPeer(i)
  PROVE  IInv'
<1> DEFINE r == nextRealm
           A == Alive(r) \cup {i}
           K == Killed(r) \ {i}
           d1 == Append(down, Join(r, i))
<1>1. TypeOK /\ IdsAgree /\ down \in Seq(Messages) /\ r \in Realms
  BY DEF IInv, TypeOK
<1>2. /\ life[r][i] = "unborn" /\ where' = r /\ me' = i /\ late' = FALSE
      /\ Becomes(r, i, "alive")
      /\ UNCHANGED <<nextRealm, asked, crashed, up, realm, view, tracked, serverPlayer,
                     localPlayer>>
  BY DEF ConnectPeer, client
<1>3. /\ life' \in [Realms -> [Ids -> Lives]]
      /\ Alive(r)' = A /\ Killed(r)' = K
  BY <1>1, <1>2, BecomesFacts DEF Lives
<1>4. A \in SUBSET Ids /\ A \cap K = {}
  BY AliveFacts DEF Alive
<1>5. PICK sheet \in {<<>>, <<Generic(i)>>} :
        Send(<<Join(r, i)>> \o sheet \o <<Spawn(r, A), Generic(i)>>)
  BY DEF ConnectPeer
<1> HIDE DEF A, K, d1
<1>6. /\ Join(r, i) \in Messages /\ Spawn(r, A) \in Messages /\ Generic(i) \in Messages
      /\ Spawn(r, A).type = "spawn" /\ Spawn(r, A).realm = r /\ Spawn(r, A).ids = A
      /\ Generic(i).type = "generic" /\ Generic(i).id = i
  BY <1>1, <1>4, MessageFacts
<1>7. d1 \in Seq(Messages) /\ Followed(d1, view, r, i, {}, K) /\ ~NoJoin(d1)
  BY <1>1, <1>6, JoinFollowed DEF d1
<1>8. PICK d2 \in Seq(Messages) :
        /\ d2 = d1 \o sheet
        /\ Followed(d2, view, r, i, {}, K) /\ ~NoJoin(d2)
  <2>1. CASE sheet = <<>>
    BY <1>7, <2>1
  <2>2. CASE sheet = <<Generic(i)>>
    <3>1. d1 \o sheet = Append(d1, Generic(i)) /\ Append(d1, Generic(i)) \in Seq(Messages)
      BY <1>6, <1>7, <2>2
    <3>2. Followed(Append(d1, Generic(i)), view, r, i, {}, K)
      BY <1>6, <1>7, AppendFollowed
    <3>3. ~NoJoin(Append(d1, Generic(i)))
      BY <1>6, <1>7, AppendSince
    <3> QED
      BY <3>1, <3>2, <3>3
  <2> QED
    BY <2>1, <2>2
<1> DEFINE d3 == Append(d2, Spawn(r, A))
           d4 == Append(d3, Generic(i))
<1>9. d3 \in Seq(Messages) /\ Followed(d3, view, r, i, A, K) /\ ~NoJoin(d3)
  <2>1. d3 \in Seq(Messages)
    BY <1>6, <1>8
  <2>2. Followed(d3, view, r, i, A, K)
    BY <1>4, <1>6, <1>8, AppendFollowed
  <2>3. ~NoJoin(d3)
    BY <1>6, <1>8, AppendSince
  <2> QED
    BY <2>1, <2>2, <2>3
<1> HIDE DEF d3
<1>10. d4 \in Seq(Messages) /\ Followed(d4, view, r, i, A, K) /\ ~NoJoin(d4)
  <2>1. d4 \in Seq(Messages)
    BY <1>6, <1>9
  <2>2. Followed(d4, view, r, i, A, K)
    BY <1>6, <1>9, AppendFollowed
  <2>3. ~NoJoin(d4)
    BY <1>6, <1>9, AppendSince
  <2> QED
    BY <2>1, <2>2, <2>3
<1>11. down' = d4
  <2>1. down' = down \o (<<Join(r, i)>> \o sheet \o <<Spawn(r, A), Generic(i)>>)
    BY <1>5 DEF Send
  <2>2. <<Join(r, i)>> \in Seq(Messages) /\ sheet \in Seq(Messages)
        /\ <<Spawn(r, A), Generic(i)>> \in Seq(Messages)
    <3>1. \A m, n \in Messages : <<m>> \in Seq(Messages) /\ <<m, n>> \in Seq(Messages)
      OBVIOUS
    <3>2. <<>> \in Seq(Messages)
      OBVIOUS
    <3>3. CASE sheet = <<>>
      BY <1>6, <3>1, <3>2, <3>3
    <3>4. CASE sheet = <<Generic(i)>>
      BY <1>6, <3>1, <3>4
    <3> QED
      BY <3>3, <3>4
  <2>3. down' = ((down \o <<Join(r, i)>>) \o sheet) \o <<Spawn(r, A), Generic(i)>>
    BY <1>1, <2>1, <2>2, ConcatAssociative, ConcatProperties
  <2>4. down \o <<Join(r, i)>> = d1
    BY <1>1, <1>6, AppendIsConcat DEF d1
  <2>5. d2 \o <<Spawn(r, A), Generic(i)>> = d4
    BY <1>6, <1>8 DEF d3
  <2> QED
    BY <1>8, <2>3, <2>4, <2>5
<1> HIDE DEF d4, r
<1>12. TypeOK'
  BY <1>1, <1>2, <1>3, <1>10, <1>11 DEF TypeOK
<1>13. IdsAgree'
  BY <1>1, <1>2 DEF IdsAgree, Shown
<1>14. /\ where' = r /\ nextRealm' = r /\ me' \in A
       /\ Alive(where)' = A /\ Killed(where)' = K
  <2>1. Alive(where)' = Alive(r)' /\ Killed(where)' = Killed(r)'
    BY <1>2 DEF Alive, Killed, r
  <2> QED
    BY <1>2, <1>3, <2>1 DEF A, r
<1>15. PlayerAlive' /\ Told'
  BY <1>2, <1>10, <1>11, <1>14 DEF PlayerAlive, Told
<1> QED
  BY <1>12, <1>13, <1>15 DEF IInv

LEMMA SelectExecutionQueueByRealmOK ==
  ASSUME IInv, SelectExecutionQueueByRealm
  PROVE  IInv'
<1>1. TypeOK /\ IdsAgree /\ PlayerAlive
  BY DEF IInv
<1>2. /\ up # <<>> /\ up' = Tail(up)
      /\ UNCHANGED <<life, where, nextRealm, me, late, down, realm, view, tracked,
                     serverPlayer, localPlayer>>
      /\ crashed' \in {TRUE, crashed}
  BY DEF SelectExecutionQueueByRealm, peer, client
<1>3. up' \in Seq(Ids) /\ Head(up) \in Ids
  BY <1>1, <1>2, HeadTailProperties DEF TypeOK
<1>4. asked' \in [Realms -> Seq(Ids)]
  <2>1. CASE where = NoRealm
    BY <1>1, <2>1 DEF SelectExecutionQueueByRealm, TypeOK
  <2>2. CASE where # NoRealm
    <3>1. where \in Realms /\ asked \in [Realms -> Seq(Ids)]
      BY <1>1, <2>2 DEF TypeOK
    <3>2. Append(asked[where], Head(up)) \in Seq(Ids)
      BY <1>3, <3>1
    <3>3. asked' = [asked EXCEPT ![where] = Append(asked[where], Head(up))]
      BY <2>2 DEF SelectExecutionQueueByRealm
    <3> QED
      BY <3>1, <3>2, <3>3
  <2> QED
    BY <2>1, <2>2
<1>5. crashed' \in BOOLEAN
  BY <1>1, <1>2 DEF TypeOK
<1>6. TypeOK'
  BY <1>1, <1>2, <1>3, <1>4, <1>5 DEF TypeOK
<1>7. IdsAgree'
  BY <1>1, <1>2 DEF IdsAgree, Shown
<1>8. PlayerAlive' /\ Told'
  <2>1. Alive(where)' = Alive(where) /\ Killed(where)' = Killed(where)
    BY <1>2 DEF Alive, Killed
  <2>2. where # NoRealm => me \in Alive(where)
    BY <1>1 DEF PlayerAlive
  <2>3. ~crashed' => ~crashed
    BY <1>2
  <2> QED
    BY <1>2, <2>1, <2>2, <2>3, AnnouncedOK
<1> QED
  BY <1>6, <1>7, <1>8 DEF IInv

\* Only the answer of the realm the player is in goes on being trusted.
LEMMA RequestSpawnEntitiesOK ==
  ASSUME IInv, NEW r \in Realms, RequestSpawnEntities(r)
  PROVE  IInv'
<1> DEFINE i == Head(asked[r])
           m == IF i \in Alive(r) THEN Spawn(r, {i}) ELSE Removal(i)
<1>1. TypeOK /\ IdsAgree /\ PlayerAlive
  BY DEF IInv
<1>2. /\ asked[r] # <<>> /\ asked' = [asked EXCEPT ![r] = Tail(asked[r])]
      /\ down' = Append(down, m)
      /\ late' = (late \/ where \notin {r, NoRealm})
      /\ UNCHANGED <<life, where, nextRealm, me, crashed, up, realm, view, tracked,
                     serverPlayer, localPlayer>>
  BY DEF RequestSpawnEntities, client
<1>3. i \in Ids /\ Tail(asked[r]) \in Seq(Ids) /\ asked \in [Realms -> Seq(Ids)]
  <2>1. asked[r] \in Seq(Ids) /\ asked \in [Realms -> Seq(Ids)]
    BY <1>1 DEF TypeOK
  <2> QED
    BY <1>2, <2>1, HeadTailProperties
<1>4. asked' \in [Realms -> Seq(Ids)]
  BY <1>2, <1>3
<1>5. /\ m \in Messages
      /\ \/ i \in Alive(r) /\ m.type = "spawn" /\ m.realm = r /\ m.ids = {i}
         \/ i \notin Alive(r) /\ m.type = "remove" /\ m.id = i
  BY <1>3, MessageFacts
<1> HIDE DEF i, m
<1>6. down' \in Seq(Messages) /\ late' \in BOOLEAN
  BY <1>1, <1>2, <1>5 DEF TypeOK
<1>7. TypeOK'
  BY <1>1, <1>2, <1>4, <1>6 DEF TypeOK
<1>8. IdsAgree'
  BY <1>1, <1>2 DEF IdsAgree, Shown
<1>9. PlayerAlive' /\ Told'
  <2>1. Alive(where)' = Alive(where) /\ Killed(where)' = Killed(where)
    BY <1>2 DEF Alive, Killed
  <2>2. where # NoRealm => me \in Alive(where)
    BY <1>1 DEF PlayerAlive
  <2>3. ~late' => ~late
    BY <1>2
  <2>4. ASSUME where # NoRealm, ~late'
        PROVE  Announced(m, Alive(where), Killed(where))
    <3>1. where = r
      BY <1>2, <2>4
    <3> QED
      BY <1>2, <1>5, <2>2, <2>4, <3>1, AliveFacts DEF Announced
  <2> QED
    BY <1>2, <1>5, <2>1, <2>2, <2>3, <2>4, AnnouncedOK
<1> QED
  BY <1>7, <1>8, <1>9 DEF IInv

-------------------------------------------------------------------------------
(* The client preserves it. *)

LEMMA ReceivedOK ==
  ASSUME IInv, UNCHANGED Server, down # <<>>, down' = Tail(down),
         ViewAfter(Head(down), view, view'),
         Head(down).type = "join" =>
           realm' = Head(down).realm /\ serverPlayer' = Head(down).id,
         Head(down).type # "join" =>
           /\ realm' = realm
           /\ serverPlayer' = serverPlayer \/
                (Head(down).type = "remove" /\ Head(down).id = serverPlayer)
  PROVE  PlayerAlive' /\ Told' /\ down' \in Seq(Messages) /\ Head(down) \in Messages
<1>1. PlayerAlive /\ Told /\ TypeOK /\ down \in Seq(Messages)
  BY DEF IInv, TypeOK
<1>2. UNCHANGED <<life, where, nextRealm, me, late, crashed>>
  BY DEF Server, peer
<1>3. down' \in Seq(Messages) /\ Head(down) \in Messages /\ Head(down) = down[1]
  BY <1>1, TailPlaces
<1>4. PlayerAlive'
  BY <1>1, <1>2 DEF PlayerAlive, Alive
<1>5. Told'
  <2> SUFFICES ASSUME where # NoRealm, ~late, ~crashed
               PROVE  /\ Followed(down', view', where, me, Alive(where), Killed(where))
                      /\ NoJoin(down') => realm' = where /\ serverPlayer' = me
    BY <1>2 DEF Told, Alive, Killed
  <2>1. /\ Followed(down, view, where, me, Alive(where), Killed(where))
        /\ NoJoin(down) => realm = where /\ serverPlayer = me
    BY <1>1 DEF Told
  <2>2. where \in Realms /\ me \in Alive(where) /\ me \in Ids
    BY <1>1 DEF TypeOK, PlayerAlive, Alive
  <2>3. /\ Followed(down', view', where, me, Alive(where), Killed(where))
        /\ NoJoin(down') /\ down[1].type = "join" => down[1].realm = where /\ down[1].id = me
        /\ NoJoin(down') /\ down[1].type # "join" => NoJoin(down)
        /\ NoJoin(down) /\ down[1].type = "remove" => down[1].id # me
    BY <1>1, <1>3, <2>1, <2>2, AliveFacts, ReceiveFollowed
  <2> QED
    BY <1>3, <2>1, <2>3
<1> QED
  BY <1>3, <1>4, <1>5

LEMMA JoinRealmOK ==
  ASSUME IInv, JoinRealm
  PROVE  IInv'
<1>1. TypeOK /\ IdsAgree
  BY DEF IInv
<1>2. /\ down # <<>> /\ Head(down).type = "join" /\ down' = Tail(down)
      /\ realm' = Head(down).realm /\ view' = [i \in Ids |-> "none"] /\ tracked' = {}
      /\ serverPlayer' = Head(down).id /\ localPlayer' = NoId
      /\ up' = Append(up, Head(down).id)
      /\ UNCHANGED Server
  BY DEF JoinRealm, Receive, RequestSpawnOf
<1>3. ViewAfter(Head(down), view, view')
  BY <1>2 DEF ViewAfter
<1>4. PlayerAlive' /\ Told' /\ down' \in Seq(Messages) /\ Head(down) \in Messages
  BY <1>2, <1>3, ReceivedOK
<1>5. Head(down).realm \in Realms /\ Head(down).id \in Ids
  BY <1>2, <1>4, MessageFacts
<1>6. TypeOK'
  <2>1. view' \in [Ids -> Looks] /\ up' \in Seq(Ids)
    BY <1>1, <1>2, <1>5 DEF TypeOK, Looks
  <2> QED
    BY <1>1, <1>2, <1>4, <1>5, <2>1 DEF TypeOK, Server, peer
<1>7. IdsAgree'
  BY <1>2 DEF IdsAgree
<1> QED
  BY <1>4, <1>6, <1>7 DEF IInv

LEMMA SpawnEntitiesOK ==
  ASSUME IInv, SpawnEntities
  PROVE  IInv'
<1> DEFINE m == Head(down)
<1>1. TypeOK /\ IdsAgree
  BY DEF IInv
<1>2. /\ down # <<>> /\ m.type = "spawn" /\ down' = Tail(down)
      /\ view' = [i \in Ids |-> IF i \in m.ids THEN m.realm ELSE view[i]]
      /\ localPlayer' = IF serverPlayer \in m.ids THEN serverPlayer ELSE localPlayer
      /\ UNCHANGED <<Server, up, realm, tracked, serverPlayer>>
  BY DEF SpawnEntities, Receive
<1>3. ViewAfter(m, view, view')
  BY <1>2 DEF ViewAfter
<1>4. PlayerAlive' /\ Told' /\ down' \in Seq(Messages) /\ m \in Messages
  BY <1>2, <1>3, ReceivedOK
<1>5. m.realm \in Realms /\ m.ids \subseteq Ids
  BY <1>2, <1>4, MessageFacts
<1> HIDE DEF m
<1>6. view' \in [Ids -> Looks] /\ localPlayer' \in Ids \cup {NoId}
  BY <1>1, <1>2, <1>5 DEF TypeOK, Looks
<1>7. TypeOK'
  BY <1>1, <1>2, <1>4, <1>6 DEF TypeOK, Server, peer
<1>8. \A i \in Ids : i \in Shown' <=> i \in m.ids \/ i \in Shown
  BY <1>2, <1>5, ReplicationAssumption DEF Shown
<1>9. IdsAgree'
  BY <1>1, <1>2, <1>5, <1>8 DEF IdsAgree, TypeOK, Shown
<1> QED
  BY <1>4, <1>7, <1>9 DEF IInv

LEMMA GenericComponentUpdateOK ==
  ASSUME IInv, GenericComponentUpdate
  PROVE  IInv'
<1> DEFINE m == Head(down)
<1>1. TypeOK /\ IdsAgree
  BY DEF IInv
<1>2. /\ down # <<>> /\ m.type = "generic" /\ down' = Tail(down)
      /\ IF m.id \in Shown
           THEN UNCHANGED <<up, view>>
           ELSE view' = [view EXCEPT ![m.id] = "bare"] /\ up' = Append(up, m.id)
      /\ UNCHANGED <<Server, realm, tracked, serverPlayer, localPlayer>>
  BY DEF GenericComponentUpdate, Receive, RequestSpawnOf
<1>3. m \in Messages
  BY <1>1, <1>2, TailPlaces DEF TypeOK
<1>4. m.id \in Ids
  BY <1>2, <1>3, MessageFacts
<1> HIDE DEF m
<1>5. /\ view' \in [Ids -> Looks] /\ up' \in Seq(Ids)
      /\ \A i \in Ids : view'[i] = IF i = m.id /\ view[i] = "none" THEN "bare" ELSE view[i]
  <2>1. view \in [Ids -> Looks] /\ up \in Seq(Ids) /\ "bare" \in Looks
    BY <1>1 DEF TypeOK, Looks
  <2>2. CASE m.id \in Shown
    BY <1>2, <2>1, <2>2 DEF Shown
  <2>3. CASE m.id \notin Shown
    <3>1. view[m.id] = "none"
      BY <1>4, <2>3 DEF Shown
    <3>2. view' = [view EXCEPT ![m.id] = "bare"] /\ up' = Append(up, m.id)
      BY <1>2, <2>3
    <3>3. up' \in Seq(Ids)
      BY <1>4, <2>1, <3>2
    <3> QED
      BY <1>4, <2>1, <3>1, <3>2, <3>3
  <2> QED
    BY <2>2, <2>3
<1>6. ViewAfter(m, view, view')
  BY <1>2, <1>5 DEF ViewAfter
<1>7. PlayerAlive' /\ Told' /\ down' \in Seq(Messages)
  BY <1>2, <1>6, ReceivedOK DEF m
<1>8. TypeOK'
  BY <1>1, <1>2, <1>5, <1>7 DEF TypeOK, Server, peer
<1>9. IdsAgree'
  BY <1>1, <1>2, <1>5 DEF IdsAgree, Shown
<1> QED
  BY <1>7, <1>8, <1>9 DEF IInv

LEMMA RemoveEntityOK ==
  ASSUME IInv, RemoveEntity
  PROVE  IInv'
<1> DEFINE m == Head(down)
<1>1. TypeOK /\ IdsAgree
  BY DEF IInv
<1>2. /\ down # <<>> /\ m.type = "remove" /\ down' = Tail(down)
      /\ IF m.id \in Shown
           THEN /\ view' = [view EXCEPT ![m.id] = "none"]
                /\ tracked' = tracked \ {m.id}
                /\ IF m.id = serverPlayer
                     THEN serverPlayer' = NoId /\ localPlayer' = NoId
                     ELSE UNCHANGED <<serverPlayer, localPlayer>>
           ELSE UNCHANGED <<view, tracked, serverPlayer, localPlayer>>
      /\ UNCHANGED <<Server, up, realm>>
  BY DEF RemoveEntity, Receive, client
<1>3. m \in Messages
  BY <1>1, <1>2, TailPlaces DEF TypeOK
<1>4. m.id \in Ids
  BY <1>2, <1>3, MessageFacts
<1> HIDE DEF m
<1>5. /\ view' \in [Ids -> Looks]
      /\ \A i \in Ids : view'[i] = IF i = m.id THEN "none" ELSE view[i]
  BY <1>1, <1>2, <1>4 DEF TypeOK, Looks, Shown
<1>6. ViewAfter(m, view, view')
  BY <1>2, <1>5 DEF ViewAfter
<1>7. PlayerAlive' /\ Told' /\ down' \in Seq(Messages)
  BY <1>2, <1>6, ReceivedOK DEF m
<1>8. tracked' \subseteq tracked /\ m.id \notin tracked'
  BY <1>1, <1>2 DEF IdsAgree
<1>9. \/ serverPlayer' = serverPlayer /\ localPlayer' = localPlayer
         /\ (m.id \in Shown => m.id # serverPlayer)
      \/ serverPlayer' = NoId /\ localPlayer' = NoId
  BY <1>2
<1>10. TypeOK'
  BY <1>1, <1>2, <1>5, <1>7, <1>8, <1>9 DEF TypeOK, Server, peer
<1>11. Shown' = Shown \ {m.id}
  BY <1>5 DEF Shown
<1>12. IdsAgree'
  BY <1>1, <1>4, <1>8, <1>9, <1>11, ReplicationAssumption DEF IdsAgree
<1> QED
  BY <1>7, <1>10, <1>12 DEF IInv

\* Updates only make the client ask, or follow a character that it shows.
LEMMA AskingOK ==
  ASSUME IInv, NEW i \in Ids, UpdateEntity(i) \/ SetModel(i) \/ RequestAgain(i)
  PROVE  IInv'
<1>1. TypeOK /\ IdsAgree /\ PlayerAlive
  BY DEF IInv
<1>2. /\ ~crashed /\ crashed' \in BOOLEAN
      /\ UNCHANGED <<life, where, nextRealm, me, late, asked, down, realm, view,
                     serverPlayer, localPlayer>>
      /\ tracked' = tracked \/ (tracked' = tracked \cup {i} /\ i \in Shown)
      /\ up' = up \/ up' = Append(up, i)
  BY <1>1 DEF UpdateEntity, SetModel, RequestAgain, RequestSpawnOf, Server, peer, client, TypeOK
<1>3. up' \in Seq(Ids)
  <2>1. up \in Seq(Ids)
    BY <1>1 DEF TypeOK
  <2>2. Append(up, i) \in Seq(Ids)
    BY <2>1
  <2> QED
    BY <1>2, <2>1, <2>2
<1>4. TypeOK'
  BY <1>1, <1>2, <1>3 DEF TypeOK
<1>5. IdsAgree'
  BY <1>1, <1>2 DEF IdsAgree, Shown
<1>6. PlayerAlive' /\ Told'
  <2>1. Alive(where)' = Alive(where) /\ Killed(where)' = Killed(where)
    BY <1>2 DEF Alive, Killed
  <2>2. where # NoRealm => me \in Alive(where)
    BY <1>1 DEF PlayerAlive
  <2> QED
    BY <1>2, <2>1, <2>2, AnnouncedOK
<1> QED
  BY <1>4, <1>5, <1>6 DEF IInv

-------------------------------------------------------------------------------
(* The invariant, and what the runs check. *)

LEMMA NextIInv == IInv /\ [Next]_vars => IInv'
<1> SUFFICES ASSUME IInv, [Next]_vars
             PROVE  IInv'
  OBVIOUS
<1>1. CASE UNCHANGED vars
  <2>1. TypeOK' /\ IdsAgree' /\ PlayerAlive'
    BY <1>1 DEF vars, IInv, TypeOK, IdsAgree, PlayerAlive, Shown, Alive
  <2>2. Told'
    BY <1>1 DEF vars, IInv, Told, Alive, Killed
  <2> QED
    BY <2>1, <2>2 DEF IInv
<1>2. CASE ServerNext
  BY <1>2, BirthOK, DieOK, VanishOK, AboutThePlayerOK, DisconnectPeerOK, ConnectPeerOK,
     SelectExecutionQueueByRealmOK, RequestSpawnEntitiesOK
  DEF ServerNext
<1>3. CASE ClientNext
  BY <1>3, JoinRealmOK, SpawnEntitiesOK, GenericComponentUpdateOK, RemoveEntityOK, AskingOK
  DEF ClientNext, ReceiveReliable
<1> QED
  BY <1>1, <1>2, <1>3 DEF Next

\* The inductive invariant holds.
THEOREM SpecIInv == Spec => []IInv
<1> QED
  BY InitIInv, NextIInv, PTL DEF Spec

\* A client that has taken note of its arrival has no join before it.
LEMMA UndisturbedFacts ==
  ASSUME IInv, Undisturbed
  PROVE  /\ where \in Realms /\ down \in Seq(Messages) /\ NoJoin(down)
         /\ \A k \in 1..Len(down) : Since(down, k)
         /\ Pending = {down[k] : k \in 1..Len(down)} /\ DOMAIN down = 1..Len(down)
         /\ Followed(down, view, where, me, Alive(where), Killed(where))
         /\ realm = where /\ serverPlayer = me
<1>1. where \in Realms /\ down \in Seq(Messages) /\ ~late /\ ~crashed /\ where # NoRealm
  BY DEF IInv, TypeOK, Undisturbed, Joined
<1>2. DOMAIN down = 1..Len(down) /\ Pending = {down[k] : k \in 1..Len(down)}
  BY <1>1 DEF Pending
<1>3. NoJoin(down) /\ \A k \in 1..Len(down) : Since(down, k)
  BY <1>2 DEF Undisturbed, Joined, NoJoin, Since
<1> QED
  BY <1>1, <1>2, <1>3 DEF IInv, Told

LEMMA IInvProperties == IInv => Inv /\ OwnRealmOnly /\ NothingMissing /\ DeathIsFinal
<1> SUFFICES ASSUME IInv
             PROVE  Inv /\ OwnRealmOnly /\ NothingMissing /\ DeathIsFinal
  OBVIOUS
<1>1. Inv
  BY UndisturbedFacts DEF IInv, Inv, PlayerAlive, NotDisowned
<1>2. OwnRealmOnly
  BY UndisturbedFacts DEF OwnRealmOnly, Followed, OwnViews, Shown
<1>3. NothingMissing
  <2> SUFFICES ASSUME Undisturbed, NEW i \in Alive(where)
               PROVE  \/ view[i] = where
                      \/ \E m \in Pending : m.type = "spawn" /\ i \in m.ids
    BY DEF NothingMissing
  <2> QED
    BY UndisturbedFacts DEF Followed, Present, WillShow, SpawnAt
<1>4. DeathIsFinal
  <2> SUFFICES ASSUME Undisturbed, NEW i \in Ids, life[where][i] = "killed"
               PROVE  \/ i \notin Shown /\ \A m \in Pending : m.type = "spawn" => i \notin m.ids
                      \/ \E k \in DOMAIN down :
                           /\ down[k] = Removal(i)
                           /\ \A l \in DOMAIN down :
                                down[l].type = "spawn" /\ i \in down[l].ids => l < k
    BY DEF DeathIsFinal
  <2>1. /\ down \in Seq(Messages) /\ NoJoin(down) /\ DOMAIN down = 1..Len(down)
        /\ Pending = {down[k] : k \in 1..Len(down)}
        /\ \A k \in 1..Len(down) : Since(down, k)
        /\ Final(down, view, Killed(where)) /\ i \in Killed(where)
    BY UndisturbedFacts DEF Followed, Killed
  <2>2. CASE ~WillShow(down, i) /\ (NoJoin(down) => view[i] = "none")
    BY <2>1, <2>2 DEF WillShow, SpawnAt, Shown
  <2>3. ASSUME NEW k \in 1..Len(down), RemovalAt(down, k, i),
               \A l \in 1..Len(down) : SpawnAt(down, l, i) /\ Since(down, l) => l < k
        PROVE  \E j \in DOMAIN down :
                 /\ down[j] = Removal(i)
                 /\ \A l \in DOMAIN down : down[l].type = "spawn" /\ i \in down[l].ids => l < j
    <3>1. down[k] = Removal(i)
      BY <2>1, <2>3, MessageFacts DEF RemovalAt
    <3> QED
      BY <2>1, <2>3, <3>1 DEF SpawnAt
  <2> QED
    BY <2>1, <2>2, <2>3 DEF Final
<1> QED
  BY <1>1, <1>2, <1>3, <1>4

\* Ids agree on the client, it knows the player that the server gave it, and that
\* one is alive in the realm it was sent to.
THEOREM ClientsKnowTheirPlayer == Spec => []Inv
<1> QED
  BY SpecIInv, IInvProperties, PTL

\* What an undisturbed client shows is from the realm its player is in: ids of the
\* last realm are never taken for those of this one.
THEOREM NothingFromOtherRealms == Spec => []OwnRealmOnly
<1> QED
  BY SpecIInv, IInvProperties, PTL

\* Every character of the realm is shown or about to be, through births, requests
\* and removals that cross each other.
THEOREM NobodyIsMissing == Spec => []NothingMissing
<1> QED
  BY SpecIInv, IInvProperties, PTL

\* Who was killed does not come back: nothing that would show it follows its removal.
THEOREM TheDeadStayDead == Spec => []DeathIsFinal
<1> QED
  BY SpecIInv, IInvProperties, PTL
===============================================================================
