---------------------------- MODULE Movement_proofs ----------------------------
(***************************************************************************)
(* How characters move and are seen to move, for rooms, delays and numbers *)
(* of messages of any size.                                                *)
(*                                                                         *)
(* Movement: what a trigger has told of somebody is where that one is.     *)
(* MovementHistory: another character is shown where all that has come     *)
(* puts it, in whatever order it came and whatever has been cut off.       *)
(* CollisionQueries: the answers do not depend on the order of candidates. *)
(***************************************************************************)
EXTENDS Movement, MovementHistory, CollisionQueries, FiniteSetTheorems,
        WellFoundedInduction, TLAPS

-------------------------------------------------------------------------------
(* One player and one trigger. *)

\* A trigger that has not had its first tick has told nobody anything.
SilentAtFirst == ignoring => told = "none"

IInv == Inv /\ SilentAtFirst

LEMMA RestOK == ASSUME NEW cell \in 0..Width PROVE Rest(cell) \in States
  BY MovementAssumption DEF Rest, States

LEMMA UpdateMovementOK == ASSUME NEW s \in States PROVE UpdateMovement(s) \in States
<1>1. Width \in Nat /\ JumpTicks \in Nat /\ 0 \in Directions /\ Directions \subseteq Int
  BY MovementAssumption
<1>2. s.pos \in Int /\ s.vel \in Directions /\ s.air \in 0..JumpTicks
  BY DEF States
<1> DEFINE next == Clip(s.pos + s.vel)
           vel == IF s.air > 0 /\ next # s.pos + s.vel THEN 0 ELSE s.vel
           air == IF s.air > 0 THEN s.air - 1 ELSE 0
<1>3. next \in 0..Width
  <2>1. s.vel \in Int
    BY <1>1, <1>2
  <2>2. s.pos + s.vel \in Int
    BY <1>2, <2>1
  <2> QED
    BY <1>1, <2>2 DEF Clip
<1>4. vel \in Directions /\ air \in 0..JumpTicks
  BY <1>1, <1>2
<1>5. UpdateMovement(s) = [pos |-> next, vel |-> vel, air |-> air]
  BY DEF UpdateMovement
<1> HIDE DEF next, vel, air
<1> QED
  BY <1>3, <1>4, <1>5 DEF States

LEMMA SteerOK ==
  ASSUME NEW s \in States, NEW dir \in Directions
  PROVE  Steer(s, dir) \in States /\ Jump(s) \in States
  BY MovementAssumption DEF Steer, Jump, States

LEMMA InitIInv == Init => IInv
<1> SUFFICES ASSUME Init PROVE IInv
  OBVIOUS
<1>1. Rest(0) \in States
  BY RestOK, MovementAssumption
<1>2. <<>> \in Seq(States) /\ Len(<<>>) = 0
  OBVIOUS
<1>3. SendDelay \in -1..SendDelay /\ MaxInFlight \in Nat /\ 0 \in Directions
  BY MovementAssumption
<1>4. TypeOK
  <2>1. {present, ignoring, crashed, local, needSend, jumping, spoken, inside} \subseteq BOOLEAN
    BY DEF Init
  <2>2. up \in Seq(States) /\ Len(up) <= MaxInFlight /\ arrival \in Seq(States) /\ Len(arrival) <= 1
    BY <1>2, <1>3 DEF Init
  <2>3. sentAge \in Ahead..SendDelay /\ keys \in Directions
    BY <1>3 DEF Init, Ahead
  <2>4. server \in States /\ client \in States /\ told \in {"none", "in", "out"}
    BY <1>1 DEF Init
  <2> QED
    BY <2>1, <2>2, <2>3, <2>4 DEF TypeOK
<1> QED
  BY <1>4 DEF Init, IInv, Inv, TriggerFollows, SilentAtFirst

-------------------------------------------------------------------------------
(* The client's steps leave the trigger alone. *)

LEMMA TriggerKept ==
  ASSUME IInv, UNCHANGED realmVars
  PROVE  TriggerFollows' /\ SilentAtFirst'
  BY DEF IInv, Inv, TriggerFollows, SilentAtFirst, realmVars

LEMMA FrameOK == ASSUME IInv, NEW tick \in BOOLEAN, Frame(tick) PROVE IInv'
<1>1. PICK stepped \in {IF tick THEN UpdateMovement(client) ELSE client} :
        \E steered \in {Steer(IF jumping THEN Jump(stepped) ELSE stepped, keys)} :
          LET first == Due(sentAge, needSend)
              age0 == IF first THEN 0 ELSE sentAge
              second == tick /\ age0 # Ahead /\ age0 + 1 >= SendDelay
              updates == (IF first THEN <<client>> ELSE <<>>)
                         \o (IF second THEN <<stepped>> ELSE <<>>)
          IN  /\ Len(up) + Len(updates) <= MaxInFlight
              /\ up' = up \o updates
              /\ client' = steered
              /\ needSend' = ((needSend /\ ~first) \/ steered # stepped
                                \/ (jumping /\ OnGround(stepped)))
              /\ \/ sentAge' = CASE second -> 0
                                 [] age0 = Ahead \/ ~tick -> age0
                                 [] OTHER -> age0 + 1
                 \/ sentAge = Ahead /\ ~first /\ sentAge' = SendDelay
              /\ spoken' = (spoken \/ (updates # <<>> /\ present /\ arrival = <<>>))
  BY DEF Frame
<1> DEFINE steered == Steer(IF jumping THEN Jump(stepped) ELSE stepped, keys)
           first == Due(sentAge, needSend)
           age0 == IF first THEN 0 ELSE sentAge
           second == tick /\ age0 # Ahead /\ age0 + 1 >= SendDelay
           updates == (IF first THEN <<client>> ELSE <<>>)
                      \o (IF second THEN <<stepped>> ELSE <<>>)
           needs == (needSend /\ ~first) \/ steered # stepped \/ (jumping /\ OnGround(stepped))
           speaks == spoken \/ (updates # <<>> /\ present /\ arrival = <<>>)
<1>2. TypeOK /\ client \in States /\ keys \in Directions
  BY DEF IInv, Inv, TypeOK
<1>3. stepped \in States
  BY <1>2, UpdateMovementOK
<1>4. steered \in States
  BY <1>2, <1>3, SteerOK
<1>5. updates \in Seq(States)
  BY <1>2, <1>3
<1>6. /\ Len(up) + Len(updates) <= MaxInFlight /\ up' = up \o updates
      /\ client' = steered /\ needSend' = needs /\ spoken' = speaks
  BY <1>1
<1>7. needs \in BOOLEAN /\ speaks \in BOOLEAN
  BY <1>2 DEF TypeOK
<1>8. sentAge' \in Ahead..SendDelay
  <2>1. SendDelay \in Nat \ {0} /\ sentAge \in -1..SendDelay /\ Ahead = -1
    BY <1>2, MovementAssumption DEF TypeOK, Ahead
  <2>2. age0 \in -1..SendDelay
    BY <2>1
  <2>3. \/ sentAge' = CASE second -> 0
                        [] age0 = Ahead \/ ~tick -> age0
                        [] OTHER -> age0 + 1
        \/ sentAge' = SendDelay
    BY <1>1
  <2>4. ~first => sentAge < SendDelay
    BY <2>1 DEF Due
  <2>5. first => age0 = 0
    OBVIOUS
  <2>6. ~first => age0 = sentAge
    OBVIOUS
  <2> HIDE DEF first, age0
  <2> QED
    BY <2>1, <2>2, <2>3, <2>4, <2>5, <2>6
<1> HIDE DEF needs, speaks, updates, steered
<1>9. up' \in Seq(States) /\ Len(up') <= MaxInFlight
  BY <1>2, <1>5, <1>6 DEF TypeOK
<1>10. UNCHANGED <<input, realmVars, arrival, local>>
  BY DEF Frame
<1>11. TypeOK'
  BY <1>2, <1>4, <1>6, <1>7, <1>8, <1>9, <1>10 DEF TypeOK, realmVars, input, Ahead
<1> QED
  BY <1>10, <1>11, TriggerKept DEF IInv, Inv

LEMMA ClientOK ==
  ASSUME IInv,
         NodeProcess \/ Joined
           \/ \E direction \in Directions, jump \in BOOLEAN : Press(direction, jump)
  PROVE  IInv'
<1>1. UNCHANGED realmVars
  BY DEF NodeProcess, Joined, Press
<1>2. TypeOK
  BY DEF IInv, Inv
<1>3. TypeOK'
  <2>1. CASE NodeProcess
    <3>1. client' \in States
      BY <1>2, <2>1, UpdateMovementOK DEF NodeProcess, TypeOK
    <3>2. sentAge' \in Ahead..SendDelay
      BY <1>2, <2>1, MovementAssumption DEF NodeProcess, TypeOK, Ahead
    <3> QED
      BY <1>2, <2>1, <3>1, <3>2 DEF NodeProcess, TypeOK, realmVars, input, Ahead
  <2>2. CASE Joined
    <3>1. client' \in States
      BY <1>2, <2>2 DEF Joined, TypeOK
    <3>2. sentAge' \in Ahead..SendDelay
      BY <1>2, <2>2, MovementAssumption DEF Joined, TypeOK, Ahead
    <3>3. arrival' \in Seq(States) /\ Len(arrival') <= 1
      BY <2>2 DEF Joined
    <3> QED
      BY <1>2, <2>2, <3>1, <3>2, <3>3 DEF Joined, TypeOK, realmVars, input, Ahead
  <2>3. CASE \E direction \in Directions, jump \in BOOLEAN : Press(direction, jump)
    BY <1>2, <2>3 DEF Press, TypeOK, realmVars, clientVars, Ahead
  <2> QED
    BY <2>1, <2>2, <2>3
<1> QED
  BY <1>1, <1>3, TriggerKept DEF IInv, Inv

-------------------------------------------------------------------------------
(* The realm's steps. *)

LEMMA UpdatedOK ==
  ASSUME TypeOK, NEW n \in 0..Len(up)
  PROVE  Updated(n).state \in States /\ Updated(n).crashed \in BOOLEAN
<1> DEFINE path == <<server>> \o SubSeq(up, 1, n)
           bad == present /\ \E i \in 1..n : Distance(path[i].pos, path[i + 1].pos) >= Reach
           new == IF present THEN path[n + 1] ELSE server
<1>1. up \in Seq(States) /\ server \in States /\ n \in Nat /\ Len(up) \in Nat
  BY DEF TypeOK
<1>2. SubSeq(up, 1, n) \in Seq(States) /\ Len(SubSeq(up, 1, n)) = n
  BY <1>1
<1>3. path \in Seq(States) /\ Len(path) = n + 1
  BY <1>1, <1>2
<1>4. new \in States
  <2> HIDE DEF path
  <2> QED
    BY <1>1, <1>3
<1>5. bad \in BOOLEAN
  <2>1. present \in BOOLEAN
    BY DEF TypeOK
  <2> HIDE DEF path
  <2> QED
    BY <2>1
<1>6. Updated(n) = [state |-> new, crashed |-> bad]
  BY DEF Updated
<1> HIDE DEF new, bad
<1> QED
  BY <1>4, <1>5, <1>6

LEMMA OneEpochOK == ASSUME IInv, ~crashed, NEW n \in 0..Len(up), OneEpoch(n) PROVE IInv'
<1>1. TypeOK
  BY DEF IInv, Inv
<1> DEFINE r == Updated(n)
<1>2. r.state \in States /\ r.crashed \in BOOLEAN
  BY <1>1, UpdatedOK
<1> HIDE DEF r
<1>3. /\ crashed' = r.crashed
      /\ IF r.crashed
           THEN UNCHANGED <<server, inside, ignoring, told>>
           ELSE /\ server' = IF present THEN UpdateMovement(r.state) ELSE server
                /\ Tick(present /\ server'.pos \in Zone)
      /\ up' = SubSeq(up, n + 1, Len(up))
      /\ UNCHANGED <<input, clientVars, present, arrival, spoken>>
  BY DEF OneEpoch, TriggerTestBoxForCharacters, r
<1>4. up' \in Seq(States) /\ Len(up') <= MaxInFlight
  <2>1. up \in Seq(States) /\ Len(up) \in Nat /\ Len(up) <= MaxInFlight /\ MaxInFlight \in Nat
    BY <1>1, MovementAssumption DEF TypeOK
  <2>2. SubSeq(up, n + 1, Len(up)) \in Seq(States)
    BY <2>1
  <2>3. Len(SubSeq(up, n + 1, Len(up))) <= Len(up)
    BY <2>1
  <2> QED
    BY <1>3, <2>1, <2>2, <2>3
<1>5. UNCHANGED <<client, local, needSend, sentAge, keys, jumping, present, arrival, spoken>>
  BY <1>3 DEF input, clientVars
<1>6. CASE r.crashed
  <2>1. TypeOK'
    BY <1>1, <1>2, <1>3, <1>4, <1>5, <1>6 DEF TypeOK, Ahead
  <2> QED
    BY <1>3, <1>6, <2>1 DEF IInv, Inv, TriggerFollows, SilentAtFirst
<1>7. CASE ~r.crashed
  <2> DEFINE found == present /\ server'.pos \in Zone
  <2>1. /\ server' = IF present THEN UpdateMovement(r.state) ELSE server
        /\ inside' = found /\ ignoring' = FALSE
        /\ told' = CASE ~ignoring /\ found /\ ~inside -> "in"
                     [] ~ignoring /\ inside /\ ~found /\ present -> "out"
                     [] OTHER -> told
    BY <1>3, <1>7 DEF Tick
  <2>2. server' \in States
    BY <1>1, <1>2, <2>1, UpdateMovementOK DEF TypeOK
  <2>3. found \in BOOLEAN
    BY <1>1 DEF TypeOK
  <2>4. found => server'.pos \in Zone
    OBVIOUS
  <2> HIDE DEF found
  <2>5. told' \in {"none", "in", "out"}
    BY <1>1, <2>1 DEF TypeOK
  <2>6. TypeOK'
    BY <1>1, <1>2, <1>3, <1>4, <1>5, <2>1, <2>2, <2>3, <2>5 DEF TypeOK, Ahead
  <2>7. TriggerFollows'
    <3>1. /\ present => (told = "in" => inside) /\ (told = "out" => ~inside)
          /\ ignoring => told = "none"
      BY DEF IInv, Inv, TriggerFollows, SilentAtFirst
    <3>2. ASSUME present
          PROVE  /\ told' = "in" => inside'
                 /\ told' = "out" => ~inside'
      BY <2>1, <3>1, <3>2
    <3>3. inside' => server'.pos \in Zone
      BY <2>1, <2>4
    <3> QED
      BY <1>5, <3>2, <3>3 DEF TriggerFollows
  <2>8. SilentAtFirst'
    BY <2>1 DEF SilentAtFirst
  <2> QED
    BY <2>6, <2>7, <2>8 DEF IInv, Inv
<1> QED
  BY <1>2, <1>6, <1>7

LEMMA ArriveOK == ASSUME IInv, NEW cell \in Starts, Arrive(cell) PROVE IInv'
<1>1. Rest(cell) \in States
  BY RestOK, MovementAssumption
<1>2. arrival' \in Seq(States) /\ Len(arrival') <= 1 /\ server' \in States
  BY <1>1 DEF Arrive
<1>3. TypeOK'
  BY <1>2 DEF IInv, Inv, TypeOK, Arrive, clientVars, input, Ahead
<1> QED
  BY <1>3 DEF IInv, Inv, TriggerFollows, SilentAtFirst, Arrive

LEMMA DepartOK == ASSUME IInv, Depart PROVE IInv'
<1>1. Rest(0) \in States
  BY RestOK, MovementAssumption
<1>2. TypeOK'
  BY <1>1 DEF IInv, Inv, TypeOK, Depart, clientVars, input, Ahead
<1> QED
  BY <1>2 DEF IInv, Inv, TriggerFollows, SilentAtFirst, Depart

\* What a trigger has told its callbacks of somebody alive is where that one was in
\* the last epoch (ComponentTrigger::Tick), in rooms of any size and with any
\* number of updates under way, which may be stale.
THEOREM TriggersTellWhoIsInside == Spec => []Inv
<1>1. IInv /\ [Next]_vars => IInv'
  <2> SUFFICES ASSUME IInv, [Next]_vars PROVE IInv'
    OBVIOUS
  <2>1. ASSUME NEW tick \in BOOLEAN, Frame(tick) PROVE IInv'
    BY <2>1, FrameOK
  <2>2. ASSUME NodeProcess \/ Joined
                 \/ \E direction \in Directions, jump \in BOOLEAN : Press(direction, jump)
        PROVE  IInv'
    BY <2>2, ClientOK
  <2>3. ASSUME ~crashed, NEW n \in 0..Len(up), OneEpoch(n) PROVE IInv'
    BY <2>3, OneEpochOK
  <2>4. ASSUME NEW cell \in Starts, Arrive(cell) PROVE IInv'
    BY <2>4, ArriveOK
  <2>5. CASE Depart
    BY <2>5, DepartOK
  <2>6. CASE UNCHANGED vars
    BY <2>6 DEF vars, realmVars, clientVars, input, IInv, Inv, TypeOK, TriggerFollows,
                SilentAtFirst
  <2> QED
    BY <2>1, <2>2, <2>3, <2>4, <2>5, <2>6 DEF Next
<1>2. IInv => Inv
  BY DEF IInv
<1> QED
  BY <1>1, <1>2, InitIInv, PTL DEF Spec
-------------------------------------------------------------------------------
(* The states of another character: facts about numbers and sequences. *)

\* A bounded set of numbers has a greatest element.
LEMMA Greatest ==
  ASSUME NEW N \in Nat, NEW S \in SUBSET (0..N), S # {}
  PROVE  \E m \in S : \A x \in S : x <= m
<1> DEFINE Above == {n \in 0..N : \A x \in S : x <= n}
           Initial == {0..n : n \in Above}
           R == StrictSubsetOrdering(Nat)
<1>1. Initial \subseteq FiniteSubsetsOf(Nat)
  <2>1. ASSUME NEW n \in Above PROVE 0..n \in FiniteSubsetsOf(Nat)
    <3>1. n \in Int /\ 0 \in Int
      OBVIOUS
    <3>2. IsFiniteSet(0..n)
      BY <3>1, FS_Interval
    <3>3. 0..n \in SUBSET Nat
      BY <3>1
    <3> QED
      BY <3>2, <3>3 DEF FiniteSubsetsOf
  <2> QED
    BY <2>1
<1>2. N \in Above
  OBVIOUS
<1>3. IsWellFoundedOn(R, FiniteSubsetsOf(Nat))
  BY FS_StrictSubsetOrderingWellFounded
<1>4. Initial # {}
  BY <1>2
<1> HIDE DEF R
<1>5. \E x \in Initial : \A y \in Initial : <<y, x>> \notin R
  <2> HIDE DEF Initial
  <2> QED
    BY <1>1, <1>3, <1>4, WFMin
<1>6. PICK m \in Above : \A n \in Above : <<0..n, 0..m>> \notin R
  BY <1>5
<1>7. ASSUME m \notin S PROVE FALSE
  <2>1. \A x \in S : x \in 0..N /\ x <= m /\ x # m
    BY <1>7
  <2>2. m \in 0..N /\ m # 0
    <3>1. m \in 0..N
      BY <1>6
    <3>2. PICK x \in S : TRUE
      OBVIOUS
    <3>3. x \in 0..N /\ x <= m /\ x # m
      BY <2>1
    <3> QED
      BY <3>1, <3>3
  <2>3. m - 1 \in Above
    BY <2>1, <2>2
  <2>4. 0..(m - 1) \in SUBSET Nat /\ 0..m \in SUBSET Nat /\ 0..(m - 1) \subseteq 0..m
    BY <2>2
  <2>5. m \in 0..m /\ m \notin 0..(m - 1)
    BY <2>2
  <2>6. <<0..(m - 1), 0..m>> \in R
    BY <2>4, <2>5 DEF R, StrictSubsetOrdering
  <2> QED
    BY <1>6, <2>3, <2>6
<1> QED
  BY <1>6, <1>7

LEMMA MaxIs ==
  ASSUME NEW S \in SUBSET Int, NEW m \in S, \A x \in S : x <= m
  PROVE  Max(S) = m
<1>1. Max(S) \in S /\ \A y \in S : Max(S) >= y
  BY DEF Max
<1>2. Max(S) \in Int /\ m \in Int
  BY <1>1
<1>3. Max(S) >= m /\ Max(S) <= m
  BY <1>1
<1> QED
  BY <1>2, <1>3

LEMMA MinIs ==
  ASSUME NEW S \in SUBSET Int, NEW m \in S, \A x \in S : m <= x
  PROVE  Min(S) = m
<1>1. Min(S) \in S /\ \A y \in S : Min(S) <= y
  BY DEF Min
<1>2. Min(S) \in Int /\ m \in Int
  BY <1>1
<1>3. Min(S) <= m /\ m <= Min(S)
  BY <1>1
<1> QED
  BY <1>2, <1>3

LEMMA HistoryConstants ==
  /\ HistoryKept \in Nat /\ UpdateDelay \in Nat /\ LastTick \in Nat /\ MaxBehind \in Nat
  /\ HistoryLimit \in Nat /\ HistoryLimit >= HistoryKept
  /\ Parts \in Nat /\ Parts > 0 /\ Significand \in Nat
  /\ AllTicks \in SUBSET Nat
  /\ \A tick \in 0..LastTick : tick \in AllTicks /\ tick + UpdateDelay \in AllTicks
  BY HistoryAssumption DEF AllTicks

LEMMA EntryType == ASSUME NEW e \in Entries PROVE e.tick \in Nat /\ e.pos \in Positions
  BY HistoryConstants DEF Entries

Ordered(h) == \A i, j \in DOMAIN h : i < j => h[i].tick < h[j].tick

\* LastUpTo divides the states into those up to a tick and those after it.
LEMMA LastUpToDivides ==
  ASSUME NEW h \in Seq(Entries), Ordered(h), NEW tick \in Int
  PROVE  /\ LastUpTo(h, tick) \in 0..Len(h)
         /\ \A j \in DOMAIN h : h[j].tick <= tick <=> j <= LastUpTo(h, tick)
<1> DEFINE S == {i \in DOMAIN h : h[i].tick <= tick} \cup {0}
<1>1. DOMAIN h = 1..Len(h) /\ Len(h) \in Nat
  OBVIOUS
<1>2. \A i \in DOMAIN h : h[i] \in Entries /\ h[i].tick \in Nat
  BY EntryType
<1>3. S \in SUBSET (0..Len(h)) /\ S # {}
  BY <1>1
<1>4. PICK m \in S : \A x \in S : x <= m
  <2> HIDE DEF S
  <2> QED
    BY <1>1, <1>3, Greatest
<1>5. LastUpTo(h, tick) = m
  <2>1. Max(S) = m
    <3>1. S \in SUBSET Int
      BY <1>1, <1>3
    <3> HIDE DEF S
    <3> QED
      BY <1>4, <3>1, MaxIs
  <2> QED
    BY <2>1 DEF LastUpTo
<1>6. ASSUME NEW j \in DOMAIN h, h[j].tick <= tick PROVE j <= m
  BY <1>4, <1>6
<1>7. ASSUME NEW j \in DOMAIN h, j <= m PROVE h[j].tick <= tick
  <2>1. m \in DOMAIN h /\ h[m].tick <= tick
    BY <1>1, <1>4, <1>7
  <2>2. j = m \/ h[j].tick < h[m].tick
    BY <1>1, <1>7, <2>1 DEF Ordered
  <2> QED
    BY <1>2, <2>1, <2>2
<1> QED
  BY <1>1, <1>3, <1>4, <1>5, <1>6, <1>7

-------------------------------------------------------------------------------
(* Insertion and the cut. *)

\* Insert keeps the order, and of what was there only a state for the same tick
\* goes: h is the history before and g the one after it.
Inserted(h, entry, g) ==
  /\ g \in Seq(Entries)
  /\ Ordered(g)
  /\ \E k \in DOMAIN g : g[k] = entry
  /\ \A k \in DOMAIN g :
       g[k] = entry \/ \E i \in DOMAIN h : g[k] = h[i] /\ h[i].tick # entry.tick
  /\ \A i \in DOMAIN h : h[i].tick # entry.tick => \E k \in DOMAIN g : g[k] = h[i]

LEMMA InsertOK ==
  ASSUME NEW h \in Seq(Entries), Ordered(h), NEW entry \in Entries
  PROVE  Inserted(h, entry, Insert(h, entry))
<1> DEFINE i == LastUpTo(h, entry.tick)
           g == Insert(h, entry)
<1>1. entry.tick \in Nat /\ DOMAIN h = 1..Len(h) /\ Len(h) \in Nat
  BY EntryType
<1>2. \A j \in DOMAIN h : h[j] \in Entries /\ h[j].tick \in Nat
  BY EntryType
<1>3. i \in 0..Len(h) /\ \A j \in DOMAIN h : h[j].tick <= entry.tick <=> j <= i
  <2>1. entry.tick \in Int
    BY <1>1
  <2> QED
    BY <2>1, LastUpToDivides
<1>4. g = IF i > 0 /\ h[i].tick = entry.tick THEN [h EXCEPT ![i] = entry]
                                             ELSE InsertAt(h, i + 1, entry)
  BY DEF Insert
<1> SUFFICES Inserted(h, entry, g)
  OBVIOUS
<1> HIDE DEF i, g
<1>5. CASE i > 0 /\ h[i].tick = entry.tick
  <2>1. /\ g = [h EXCEPT ![i] = entry] /\ i \in DOMAIN h
        /\ g \in Seq(Entries) /\ DOMAIN g = DOMAIN h
    BY <1>1, <1>3, <1>4, <1>5
  <2>2. g[i] = entry /\ \A j \in DOMAIN h : j # i => g[j] = h[j]
    BY <2>1
  <2>3. \A j \in DOMAIN h : g[j].tick = h[j].tick
    BY <1>5, <2>1, <2>2
  <2>4. \A j \in DOMAIN h : j # i => h[j].tick # entry.tick
    BY <1>1, <1>2, <1>5, <2>1 DEF Ordered
  <2>5. Ordered(g)
    BY <2>1, <2>3 DEF Ordered
  <2> QED
    BY <1>5, <2>1, <2>2, <2>4, <2>5 DEF Inserted
<1>6. CASE ~(i > 0 /\ h[i].tick = entry.tick)
  <2> DEFINE a == SubSeq(h, 1, i)
             b == SubSeq(h, i + 1, Len(h))
  <2>1. /\ a \in Seq(Entries) /\ Len(a) = i /\ \A j \in 1..i : a[j] = h[j]
        /\ b \in Seq(Entries) /\ Len(b) = Len(h) - i
        /\ \A j \in 1..(Len(h) - i) : b[j] = h[i + j]
    <3>1. a \in Seq(Entries) /\ Len(a) = i /\ \A j \in 1..i : a[j] = h[j]
      BY <1>1, <1>3
    <3>2. b \in Seq(Entries) /\ Len(b) = Len(h) - i
      <4>1. i + 1 \in Nat /\ i \in Nat /\ i <= Len(h)
        BY <1>1, <1>3
      <4>2. b \in Seq(Entries)
        BY <1>1, <4>1
      <4>3. Len(b) = IF i + 1 <= Len(h) THEN Len(h) - (i + 1) + 1 ELSE 0
        BY <1>1, <4>1
      <4>4. ASSUME NEW x \in Nat, NEW n \in Nat, x <= n
            PROVE  (IF x + 1 <= n THEN n - (x + 1) + 1 ELSE 0) = n - x
        BY <4>4
      <4>5. (IF i + 1 <= Len(h) THEN Len(h) - (i + 1) + 1 ELSE 0) = Len(h) - i
        <5>1. Len(h) \in Nat
          BY <1>1
        <5> HIDE DEF i
        <5> QED
          BY <4>1, <4>4, <5>1
      <4> QED
        BY <4>2, <4>3, <4>5
    <3>3. ASSUME NEW j \in 1..(Len(h) - i) PROVE b[j] = h[i + j]
      <4>1. b[j] = h[(i + 1) + j - 1]
        BY <1>1, <1>3
      <4>2. (i + 1) + j - 1 = i + j
        BY <1>3
      <4> QED
        BY <4>1, <4>2
    <3> QED
      BY <3>1, <3>2, <3>3
  <2>2. g = a \o <<entry>> \o b
    <3>1. (i + 1) - 1 = i
      BY <1>3
    <3> QED
      BY <1>4, <1>6, <3>1 DEF InsertAt
  <2> HIDE DEF a, b
  <2>3. g \in Seq(Entries) /\ Len(g) = Len(h) + 1
    BY <1>1, <1>3, <2>1, <2>2
  <2>4. /\ \A j \in 1..i : g[j] = h[j]
        /\ g[i + 1] = entry
        /\ \A j \in (i + 2)..(Len(h) + 1) : g[j] = h[j - 1]
    <3>1. \A j \in 1..i : g[j] = a[j]
      BY <1>3, <2>1, <2>2
    <3>2. g[i + 1] = entry
      BY <1>3, <2>1, <2>2
    <3>3. ASSUME NEW j \in (i + 2)..(Len(h) + 1) PROVE g[j] = h[j - 1]
      <4>1. g[j] = b[j - (i + 1)]
        BY <1>1, <1>3, <2>1, <2>2
      <4>2. j - (i + 1) \in 1..(Len(h) - i) /\ i + (j - (i + 1)) = j - 1
        BY <1>1, <1>3
      <4> QED
        BY <2>1, <4>1, <4>2
    <3> QED
      BY <2>1, <3>1, <3>2, <3>3
  <2>5. \A j \in DOMAIN h : h[j].tick # entry.tick
    <3>1. SUFFICES ASSUME NEW j \in DOMAIN h, h[j].tick = entry.tick PROVE FALSE
      OBVIOUS
    <3>2. j <= i /\ i \in DOMAIN h
      BY <1>1, <1>2, <1>3, <3>1
    <3>3. h[i].tick <= entry.tick
      BY <1>3, <3>2
    <3>4. j = i \/ h[j].tick < h[i].tick
      BY <1>1, <3>2 DEF Ordered
    <3> QED
      BY <1>1, <1>2, <1>6, <3>1, <3>2, <3>3, <3>4
  <2>6. DOMAIN g = 1..(Len(h) + 1)
    BY <2>3
  <2>7. \A k \in DOMAIN g : k <= i => k \in DOMAIN h /\ g[k] = h[k] /\ h[k].tick < entry.tick
    BY <1>1, <1>2, <1>3, <2>4, <2>5, <2>6
  <2>8. \A k \in DOMAIN g : k > i + 1 =>
          k - 1 \in DOMAIN h /\ g[k] = h[k - 1] /\ entry.tick < h[k - 1].tick
    BY <1>1, <1>2, <1>3, <2>4, <2>5, <2>6
  <2>9. Ordered(g)
    <3>1. SUFFICES ASSUME NEW j \in DOMAIN g, NEW k \in DOMAIN g, j < k
                   PROVE  g[j].tick < g[k].tick
      BY DEF Ordered
    <3>2. CASE k <= i
      BY <1>3, <2>6, <2>7, <3>1, <3>2 DEF Ordered
    <3>3. CASE k = i + 1
      BY <1>3, <2>4, <2>6, <2>7, <3>1, <3>3
    <3>4. CASE k > i + 1 /\ j = i + 1
      BY <2>4, <2>8, <3>4
    <3>5. CASE k > i + 1 /\ j > i + 1
      BY <1>3, <2>6, <2>8, <3>1, <3>5 DEF Ordered
    <3>6. CASE k > i + 1 /\ j <= i
      <4>1. g[j].tick < entry.tick /\ entry.tick < g[k].tick
        BY <2>7, <2>8, <3>6
      <4>2. g[j].tick \in Nat /\ g[k].tick \in Nat
        BY <1>2, <2>7, <2>8, <3>6
      <4> QED
        BY <1>1, <4>1, <4>2
    <3> QED
      BY <1>3, <2>6, <3>1, <3>2, <3>3, <3>4, <3>5, <3>6
  <2>10. i + 1 \in DOMAIN g
    BY <1>1, <1>3, <2>6
  <2>11. ASSUME NEW k \in DOMAIN g
         PROVE  g[k] = entry \/ \E j \in DOMAIN h : g[k] = h[j] /\ h[j].tick # entry.tick
    <3>1. k <= i \/ k = i + 1 \/ k > i + 1
      BY <1>3, <2>6
    <3> QED
      BY <2>4, <2>5, <2>7, <2>8, <3>1
  <2>12. ASSUME NEW j \in DOMAIN h PROVE \E k \in DOMAIN g : g[k] = h[j]
    <3>1. CASE j <= i
      BY <1>1, <1>3, <2>4, <2>6, <3>1
    <3>2. CASE j > i
      <4>1. j + 1 \in (i + 2)..(Len(h) + 1) /\ j + 1 \in DOMAIN g /\ (j + 1) - 1 = j
        BY <1>1, <1>3, <2>6, <3>2
      <4> QED
        BY <2>4, <4>1
    <3> QED
      BY <1>1, <1>3, <3>1, <3>2
  <2> QED
    BY <2>3, <2>4, <2>9, <2>10, <2>11, <2>12 DEF Inserted
<1> QED
  BY <1>5, <1>6

\* The cut takes away a part of the past, of which the last state stays.
Trimmed(h, now, g) ==
  /\ g \in Seq(Entries)
  /\ Ordered(g)
  /\ \A k \in DOMAIN g : \E i \in DOMAIN h : g[k] = h[i]
  /\ \A i \in DOMAIN h :
       \E k \in DOMAIN g : g[k] = h[i] \/ (h[i].tick < g[k].tick /\ g[k].tick <= now)

LEMMA TrimOK ==
  ASSUME NEW h \in Seq(Entries), Ordered(h), NEW now \in Int
  PROVE  Trimmed(h, now, Trim(h, now))
<1> DEFINE i == LastUpTo(h, now)
           g == Trim(h, now)
           c == i - HistoryKept
<1>1. DOMAIN h = 1..Len(h) /\ Len(h) \in Nat
  OBVIOUS
<1>2. i \in 0..Len(h) /\ \A j \in DOMAIN h : h[j].tick <= now <=> j <= i
  BY LastUpToDivides
<1>3. g = IF i > HistoryLimit + 1 THEN SubSeq(h, c, Len(h)) ELSE h
  BY DEF Trim
<1> SUFFICES Trimmed(h, now, g)
  OBVIOUS
<1> HIDE DEF i, g
<1>4. CASE i > HistoryLimit + 1
  <2>1. c \in 1..i /\ c \in DOMAIN h
    BY <1>1, <1>2, <1>4, HistoryConstants
  <2> HIDE DEF c
  <2>2. g = SubSeq(h, c, Len(h))
    BY <1>3, <1>4
  <2>3. /\ g \in Seq(Entries) /\ DOMAIN g = 1..(Len(h) - c + 1)
        /\ \A k \in DOMAIN g : g[k] = h[c + k - 1] /\ c + k - 1 \in DOMAIN h
    BY <1>1, <2>1, <2>2
  <2>4. Ordered(g)
    <3>1. SUFFICES ASSUME NEW j \in DOMAIN g, NEW k \in DOMAIN g, j < k
                   PROVE  g[j].tick < g[k].tick
      BY DEF Ordered
    <3>2. /\ c + j - 1 \in DOMAIN h /\ c + k - 1 \in DOMAIN h /\ c + j - 1 < c + k - 1
          /\ g[j] = h[c + j - 1] /\ g[k] = h[c + k - 1]
      BY <2>1, <2>3, <3>1
    <3> QED
      BY <3>2 DEF Ordered
  <2>5. ASSUME NEW j \in DOMAIN h
        PROVE  \E k \in DOMAIN g : g[k] = h[j] \/ (h[j].tick < g[k].tick /\ g[k].tick <= now)
    <3>1. CASE j >= c
      <4>1. j - c + 1 \in DOMAIN g /\ c + (j - c + 1) - 1 = j
        BY <1>1, <2>1, <2>3, <3>1
      <4> QED
        BY <2>3, <4>1
    <3>2. CASE j < c
      <4>1. 1 \in DOMAIN g /\ c + 1 - 1 = c
        BY <1>1, <2>1, <2>3
      <4>2. g[1] = h[c]
        BY <2>3, <4>1
      <4>3. h[j].tick < h[c].tick
        BY <1>1, <2>1, <3>2 DEF Ordered
      <4>4. h[c].tick <= now
        BY <1>2, <2>1
      <4> QED
        BY <4>1, <4>2, <4>3, <4>4
    <3> QED
      BY <1>1, <2>1, <3>1, <3>2
  <2>6. \A k \in DOMAIN g : \E j \in DOMAIN h : g[k] = h[j]
    BY <2>3
  <2> QED
    BY <2>3, <2>4, <2>5, <2>6 DEF Trimmed
<1>5. CASE ~(i > HistoryLimit + 1)
  BY <1>3, <1>5 DEF Trimmed
<1> QED
  BY <1>4, <1>5
-------------------------------------------------------------------------------
(* Every step keeps what is known of the states. *)

\* What HistoryOrdered and OnlyThePastIsCut say, of any states, knowledge and time.
Faithful(h, known, now) ==
  /\ h \in Seq(Entries)
  /\ Ordered(h)
  /\ \A i \in DOMAIN h : h[i].tick \in DOMAIN known /\ h[i].pos = known[h[i].tick]
  /\ \A t \in DOMAIN known :
       \E i \in DOMAIN h : h[i].tick = t \/ (t <= h[i].tick /\ h[i].tick <= now)

\* The rest of the type invariant, for any knowledge.
Clocked(known) ==
  /\ currentTick \in 0..LastTick /\ behind \in -1..MaxBehind
  /\ DOMAIN known \subseteq AllTicks
  /\ known \in [DOMAIN known -> Positions]

LEMMA StatesFaithfulIs ==
  StatesFaithful <=> Faithful(states, newest, Present) /\ Clocked(newest)
<1>1. HistoryTypeOK => Present \in Int
  BY HistoryConstants DEF HistoryTypeOK, Present
<1>2. Clocked(newest) => Present \in Int
  BY HistoryConstants DEF Clocked, Present
<1>3. ASSUME Present \in Int, states \in Seq(Entries), Clocked(newest)
      PROVE  OnlyThePastIsCut <=>
               \A t \in DOMAIN newest :
                 \E i \in DOMAIN states :
                   states[i].tick = t \/ (t <= states[i].tick /\ states[i].tick <= Present)
  <2>1. \A i \in DOMAIN states : states[i] \in Entries /\ states[i].tick \in Int
    BY <1>3, EntryType
  <2>2. \A t \in DOMAIN newest : t \in Int
    BY <1>3, HistoryConstants DEF Clocked
  <2>3. \A t \in DOMAIN newest : \A i \in DOMAIN states :
          states[i].tick \in t..Present <=> t <= states[i].tick /\ states[i].tick <= Present
    BY <1>3, <2>1, <2>2
  <2> QED
    BY <2>3 DEF OnlyThePastIsCut
<1>4. HistoryOrdered <=>
        /\ Ordered(states)
        /\ \A i \in DOMAIN states :
             states[i].tick \in DOMAIN newest /\ states[i].pos = newest[states[i].tick]
  BY DEF HistoryOrdered, Ordered
<1>5. HistoryTypeOK <=> states \in Seq(Entries) /\ Clocked(newest)
  BY DEF HistoryTypeOK, Clocked
<1> QED
  BY <1>1, <1>2, <1>3, <1>4, <1>5 DEF StatesFaithful, Faithful

LEMMA StatesFaithfulWillBe ==
  StatesFaithful' <=> Faithful(states', newest', Present') /\ Clocked(newest)'
<1>1. (StatesFaithful <=> Faithful(states, newest, Present) /\ Clocked(newest))'
  BY StatesFaithfulIs, PTL
<1> QED
  BY <1>1

LEMMA InsertFaithful ==
  ASSUME NEW h, NEW known, NEW now \in Int, Faithful(h, known, now),
         \A t \in DOMAIN known : t \in Int, NEW entry \in Entries
  PROVE  Faithful(Insert(h, entry),
                  [t \in DOMAIN known \cup {entry.tick} |->
                     IF t = entry.tick THEN entry.pos ELSE known[t]],
                  now)
<1> DEFINE g == Insert(h, entry)
           new == [t \in DOMAIN known \cup {entry.tick} |->
                     IF t = entry.tick THEN entry.pos ELSE known[t]]
<1>1. h \in Seq(Entries) /\ Ordered(h)
  BY DEF Faithful
<1>2. Inserted(h, entry, g)
  BY <1>1, InsertOK
<1>3. /\ DOMAIN new = DOMAIN known \cup {entry.tick}
      /\ new[entry.tick] = entry.pos
      /\ \A t \in DOMAIN known : t # entry.tick => new[t] = known[t]
  OBVIOUS
<1>4. entry.tick \in Int
  BY EntryType
<1> SUFFICES Faithful(g, new, now)
  OBVIOUS
<1> HIDE DEF g, new
<1>5. PICK e \in DOMAIN g : g[e] = entry
  BY <1>2 DEF Inserted
<1>6. ASSUME NEW k \in DOMAIN g
      PROVE  g[k].tick \in DOMAIN new /\ g[k].pos = new[g[k].tick]
  <2>1. g[k] = entry \/ \E i \in DOMAIN h : g[k] = h[i] /\ h[i].tick # entry.tick
    BY <1>2 DEF Inserted
  <2>2. \A i \in DOMAIN h : h[i].tick \in DOMAIN known /\ h[i].pos = known[h[i].tick]
    BY DEF Faithful
  <2> QED
    BY <1>3, <2>1, <2>2
<1>7. ASSUME NEW t \in DOMAIN new
      PROVE  \E k \in DOMAIN g : g[k].tick = t \/ (t <= g[k].tick /\ g[k].tick <= now)
  <2>1. CASE t = entry.tick
    BY <1>5, <2>1
  <2>2. CASE t # entry.tick
    <3>1. PICK i \in DOMAIN h : h[i].tick = t \/ (t <= h[i].tick /\ h[i].tick <= now)
      BY <1>3, <2>2 DEF Faithful
    <3>2. CASE h[i].tick = entry.tick
      BY <1>5, <2>2, <3>1, <3>2
    <3>3. CASE h[i].tick # entry.tick
      <4>1. PICK k \in DOMAIN g : g[k] = h[i]
        BY <1>2, <3>3 DEF Inserted
      <4> QED
        BY <3>1, <4>1
    <3> QED
      BY <3>2, <3>3
  <2> QED
    BY <2>1, <2>2
<1> QED
  BY <1>2, <1>6, <1>7 DEF Faithful, Inserted

LEMMA TrimFaithful ==
  ASSUME NEW h, NEW known, NEW now \in Int, Faithful(h, known, now),
         \A t \in DOMAIN known : t \in Int
  PROVE  Faithful(Trim(h, now), known, now)
<1> DEFINE g == Trim(h, now)
<1>1. h \in Seq(Entries) /\ Ordered(h)
  BY DEF Faithful
<1>2. Trimmed(h, now, g)
  BY <1>1, TrimOK
<1> SUFFICES Faithful(g, known, now)
  OBVIOUS
<1> HIDE DEF g
<1>3. \A k \in DOMAIN g : g[k].tick \in DOMAIN known /\ g[k].pos = known[g[k].tick]
  <2>1. \A i \in DOMAIN h : h[i].tick \in DOMAIN known /\ h[i].pos = known[h[i].tick]
    BY DEF Faithful
  <2> QED
    BY <1>2, <2>1 DEF Trimmed
<1>4. ASSUME NEW t \in DOMAIN known
      PROVE  \E k \in DOMAIN g : g[k].tick = t \/ (t <= g[k].tick /\ g[k].tick <= now)
  <2>1. PICK i \in DOMAIN h : h[i].tick = t \/ (t <= h[i].tick /\ h[i].tick <= now)
    BY DEF Faithful
  <2>2. PICK k \in DOMAIN g : g[k] = h[i] \/ (h[i].tick < g[k].tick /\ g[k].tick <= now)
    BY <1>2 DEF Trimmed
  <2>3. t \in Int /\ h[i].tick \in Int
    BY <1>1, EntryType
  <2>4. g[k].tick \in Int
    <3>1. g[k] \in Entries
      BY <1>2 DEF Trimmed
    <3> QED
      BY <3>1, EntryType
  <2> QED
    BY <2>1, <2>2, <2>3, <2>4
<1> QED
  BY <1>2, <1>3, <1>4 DEF Faithful, Trimmed

LEMMA LearnedOK ==
  ASSUME Clocked(newest), NEW entry \in Entries
  PROVE  Clocked(Learned(entry))
<1> DEFINE new == Learned(entry)
<1>1. entry.tick \in AllTicks /\ entry.pos \in Positions
  BY DEF Entries
<1>2. /\ DOMAIN newest \subseteq AllTicks
      /\ \A t \in DOMAIN newest : newest[t] \in Positions
  BY DEF Clocked
<1>3. new = [t \in DOMAIN newest \cup {entry.tick} |->
               IF t = entry.tick THEN entry.pos ELSE newest[t]]
  BY DEF Learned
<1>4. DOMAIN new = DOMAIN newest \cup {entry.tick}
  BY <1>3
<1>5. new \in [DOMAIN new -> Positions]
  <2> SUFFICES new \in [DOMAIN newest \cup {entry.tick} -> Positions]
    BY <1>4
  <2> QED
    BY <1>1, <1>2, <1>3
<1> HIDE DEF new
<1>6. DOMAIN new \subseteq AllTicks
  BY <1>1, <1>2, <1>4
<1>7. Clocked(new)
  BY <1>5, <1>6 DEF Clocked
<1> QED
  BY <1>7 DEF new

LEMMA NothingKnown ==
  ASSUME NEW now \in Int
  PROVE  /\ Faithful(<<>>, <<>>, now)
         /\ DOMAIN <<>> = {} /\ <<>> \in [{} -> Positions]
<1>1. <<>> \in Seq(Entries) /\ DOMAIN <<>> = {}
  OBVIOUS
<1>2. <<>> \in [{} -> Positions]
  OBVIOUS
<1> QED
  BY <1>1, <1>2 DEF Faithful, Ordered

LEMMA HistoryInitOK == HistoryInit => StatesFaithful
<1> SUFFICES ASSUME HistoryInit PROVE StatesFaithful
  OBVIOUS
<1>1. Present \in Int
  BY HistoryConstants DEF HistoryInit, Present
<1>2. Faithful(states, newest, Present)
  BY <1>1, NothingKnown DEF HistoryInit
<1>3. Clocked(newest)
  BY NothingKnown, HistoryConstants DEF HistoryInit, Clocked
<1> QED
  BY <1>2, <1>3, StatesFaithfulIs

\* With time more is past.
LEMMA StaysFaithful ==
  ASSUME NEW h, NEW known, NEW now \in Int, NEW later \in Int, now <= later,
         Faithful(h, known, now)
  PROVE  Faithful(h, known, later)
<1>1. \A i \in DOMAIN h : h[i].tick \in Int
  BY EntryType DEF Faithful
<1>2. \A i \in DOMAIN h : h[i].tick <= now => h[i].tick <= later
  BY <1>1
<1> QED
  BY <1>2 DEF Faithful

LEMMA RunOneEpochOK ==
  ASSUME Clocked(newest), RunOneEpoch, currentTick' <= LastTick
  PROVE  /\ currentTick' \in 0..LastTick /\ behind' \in -1..MaxBehind
         /\ currentTick' + behind' = Present
<1>1. currentTick \in 0..LastTick /\ behind \in -1..MaxBehind
  BY DEF Clocked
<1>2. CASE behind >= 1
  BY <1>1, <1>2, HistoryConstants DEF RunOneEpoch, Present
<1>3. CASE ~(behind >= 1)
  <2>1. CASE behind = 0 /\ currentTick' = currentTick + 1 /\ behind' = -1
    BY <1>1, <2>1, HistoryConstants DEF Present
  <2>2. CASE currentTick' = currentTick /\ behind' = behind
    BY <1>1, <2>2 DEF Present
  <2> QED
    BY <1>3, <2>1, <2>2 DEF RunOneEpoch
<1> QED
  BY <1>2, <1>3

LEMMA HistoryStepOK ==
  ASSUME StatesFaithful, [HistoryNext]_historyVars
  PROVE  StatesFaithful'
<1>1. Faithful(states, newest, Present) /\ Clocked(newest)
  BY StatesFaithfulIs
<1>2. Present \in Int /\ \A t \in DOMAIN newest : t \in Int
  BY <1>1, HistoryConstants DEF Clocked, Present
<1>3. StatesFaithful' <=> Faithful(states', newest', Present') /\ Clocked(newest)'
  BY StatesFaithfulWillBe
<1>4. ASSUME NEW tick \in 0..LastTick, NEW pos \in Positions
      PROVE  Delayed(tick, pos) \in Entries
  <2>1. tick + UpdateDelay \in AllTicks
    BY HistoryConstants
  <2> QED
    BY <2>1 DEF Delayed, Entries
<1>5. ASSUME NEW tick \in 0..LastTick, NEW pos \in Positions
      PROVE  /\ Faithful(Insert(states, Delayed(tick, pos)), Learned(Delayed(tick, pos)), Present)
             /\ Clocked(Learned(Delayed(tick, pos)))
             /\ \A t \in DOMAIN Learned(Delayed(tick, pos)) : t \in Int
  <2> DEFINE entry == Delayed(tick, pos)
  <2>1. entry \in Entries
    BY <1>4
  <2> HIDE DEF entry
  <2>2. Faithful(Insert(states, entry), Learned(entry), Present)
    BY <1>1, <1>2, <2>1, InsertFaithful DEF Learned
  <2>3. Clocked(Learned(entry))
    BY <1>1, <2>1, LearnedOK
  <2>4. \A t \in DOMAIN Learned(entry) : t \in Int
    BY <2>3, HistoryConstants DEF Clocked
  <2> QED
    BY <2>2, <2>3, <2>4 DEF entry
<1>6. ASSUME UNCHANGED <<currentTick, behind>>
      PROVE  Present' = Present /\ \A known : Clocked(known) =>
               /\ currentTick' \in 0..LastTick /\ behind' \in -1..MaxBehind
  BY <1>6 DEF Present, Clocked
<1>7. ASSUME NEW tick \in 0..LastTick, NEW pos \in Positions, UpdateEntities(tick, pos)
      PROVE  StatesFaithful'
  <2>1. Faithful(states', newest', Present)
    BY <1>2, <1>5, <1>7, TrimFaithful DEF UpdateEntities
  <2>2. Clocked(newest)'
    BY <1>5, <1>7 DEF UpdateEntities, Clocked
  <2> QED
    BY <1>3, <1>6, <1>7, <2>1, <2>2 DEF UpdateEntities
<1>8. ASSUME NEW tick \in 0..LastTick, NEW pos \in Positions, PlayAnimation(tick, pos)
      PROVE  StatesFaithful'
  <2>1. Faithful(states', newest', Present)
    BY <1>5, <1>8 DEF PlayAnimation
  <2>2. Clocked(newest)'
    BY <1>5, <1>8 DEF PlayAnimation, Clocked
  <2> QED
    BY <1>3, <1>6, <1>8, <2>1, <2>2 DEF PlayAnimation
<1>9. CASE RemoveEntity
  <2>1. Faithful(states', newest', Present)
    BY <1>2, <1>9, NothingKnown DEF RemoveEntity
  <2>2. Clocked(newest)'
    BY <1>1, <1>9, NothingKnown DEF RemoveEntity, Clocked
  <2> QED
    BY <1>3, <1>6, <1>9, <2>1, <2>2 DEF RemoveEntity
<1>10. ASSUME NEW tick \in 0..LastTick, JoinRealm(tick)
       PROVE  StatesFaithful'
  <2>1. Present' \in Int
    BY <1>10, HistoryConstants DEF JoinRealm, Present
  <2>2. Faithful(states', newest', Present')
    BY <1>10, <2>1, NothingKnown DEF JoinRealm
  <2>3. Clocked(newest)'
    BY <1>10, NothingKnown, HistoryConstants DEF JoinRealm, Clocked
  <2> QED
    BY <1>3, <2>2, <2>3
<1>11. ASSUME RunOneEpoch, currentTick' <= LastTick, newest' = newest
       PROVE  Present' = Present /\ Clocked(newest)'
  BY <1>1, <1>11, RunOneEpochOK DEF Clocked, Present
<1>12. CASE Epoch
  <2>1. Present' = Present /\ Clocked(newest)' /\ states' = states /\ newest' = newest
    BY <1>11, <1>12 DEF Epoch
  <2> QED
    BY <1>1, <1>3, <2>1
<1>13. CASE Process
  <2>1. Present' = Present /\ Clocked(newest)' /\ newest' = newest
    BY <1>11, <1>13 DEF Process
  <2>2. states' = Trim(states, Present)
    BY <2>1, <1>13 DEF Process, Present
  <2>3. Faithful(states', newest', Present)
    BY <1>1, <1>2, <2>1, <2>2, TrimFaithful
  <2> QED
    BY <1>3, <2>1, <2>3
<1>14. CASE Elapse
  <2>1. currentTick \in 0..LastTick /\ behind \in -1..MaxBehind
    BY <1>1 DEF Clocked
  <2>2. Present' = Present + 1
    BY <1>14, <2>1, HistoryConstants DEF Elapse, Present
  <2>3. Faithful(states', newest', Present')
    <3>1. Present' \in Int /\ Present <= Present'
      BY <1>2, <2>2
    <3>2. Faithful(states, newest, Present')
      BY <1>1, <1>2, <3>1, StaysFaithful
    <3> QED
      BY <1>14, <3>2 DEF Elapse
  <2>4. behind' \in -1..MaxBehind
    BY <1>14, <2>1, HistoryConstants DEF Elapse
  <2>5. Clocked(newest)'
    BY <1>1, <1>14, <2>4 DEF Elapse, Clocked
  <2> QED
    BY <1>3, <2>3, <2>5
<1>15. CASE UNCHANGED historyVars
  BY <1>15 DEF historyVars, StatesFaithful, HistoryTypeOK, HistoryOrdered, OnlyThePastIsCut, Present
<1> QED
  BY <1>7, <1>8, <1>9, <1>10, <1>12, <1>13, <1>14, <1>15 DEF HistoryNext

\* However updates come, the states of another character are in the order of their
\* ticks, one for a tick and the newest of it, and only the past is ever cut off.
THEOREM StatesStayFaithful == HistorySpec => []StatesFaithful
<1>1. StatesFaithful /\ [HistoryNext]_historyVars => StatesFaithful'
  BY HistoryStepOK
<1> QED
  BY <1>1, HistoryInitOK, PTL DEF HistorySpec

-------------------------------------------------------------------------------
(* Where it is shown. *)

\* Times of ticks, and between them.
LEMMA TimesOfTicks ==
  ASSUME NEW a \in AllTicks, NEW part \in 0..Parts
  PROVE  /\ a * Parts \in Nat /\ a * Parts + part \in Times
         /\ (a + 1) * Parts = a * Parts + Parts
<1> DEFINE n == LastTick + UpdateDelay
<1>1. n \in Nat /\ a \in Nat /\ n - a \in Nat
  BY HistoryConstants DEF AllTicks
<1>2. /\ a * Parts \in Nat /\ (a + 1) * Parts = a * Parts + Parts
      /\ (n + 1) * Parts = a * Parts + (n - a) * Parts + Parts
      /\ (n - a) * Parts \in Nat
  BY <1>1, HistoryConstants
<1>3. Times = 0..(n + 1) * Parts
  BY DEF Times
<1> HIDE DEF n
<1> QED
  BY <1>2, <1>3, HistoryConstants

\* As long as there are no gaps between floats, nothing is rounded.
LEMMA NothingIsRounded ==
  ASSUME NEW a \in AllTicks, NEW b \in AllTicks, NEW c \in AllTicks, a <= b, c <= b,
         (b + 1) * Parts <= Significand, NEW part \in 0..Parts - 1
  PROVE  /\ Float(Float(Float(c * Parts) + part) - Float(a * Parts))
              = (c - a) * Parts + part
         /\ Float((b - a) * Parts) = (b - a) * Parts
<1> DEFINE aa == a * Parts
           bb == b * Parts
           cc == c * Parts
<1>1. /\ a \in Nat /\ b \in Nat /\ c \in Nat /\ part \in 0..Parts /\ 0 \in 0..Parts
      /\ b - a \in Nat /\ b - c \in Nat
  BY HistoryConstants
<1>2. /\ aa \in Nat /\ bb \in Nat /\ cc \in Nat /\ cc + part \in Times
      /\ aa + 0 \in Times /\ cc + 0 \in Times /\ bb + 0 \in Times
      /\ (b + 1) * Parts = bb + Parts
  BY <1>1, TimesOfTicks
<1>3. /\ (c - a) * Parts + part = cc + part - aa
      /\ (b - a) * Parts = bb - aa /\ bb - aa \in Nat /\ bb - cc \in Nat
  <2> DEFINE ba == (b - a) * Parts
             bc == (b - c) * Parts
             ca == (c - a) * Parts
  <2>1. ba = bb - aa /\ bc = bb - cc /\ ca = cc - aa
    BY <1>1, HistoryConstants
  <2>2. ba \in Nat /\ bc \in Nat
    BY <1>1, HistoryConstants
  <2> HIDE DEF ba, bc, ca, aa, bb, cc
  <2>3. ca + part = cc + part - aa /\ ba = bb - aa /\ bb - aa \in Nat /\ bb - cc \in Nat
    BY <1>1, <1>2, <2>1, <2>2
  <2> QED
    BY <2>3 DEF ba, bc, ca
<1> HIDE DEF aa, bb, cc
<1>4. /\ Times = 0..(LastTick + UpdateDelay + 1) * Parts
      /\ (LastTick + UpdateDelay + 1) * Parts \in Int
  BY HistoryConstants DEF Times
<1>5. \A v \in Times : v <= Significand => Float(v) = v /\ Float(-v) = -v
  BY FloatAssumption
<1>6. Float(cc) = cc /\ Float(aa) = aa /\ Float(cc + part) = cc + part
  BY <1>2, <1>3, <1>5, HistoryConstants
<1>7. Float(cc + part - aa) = cc + part - aa
  <2>1. CASE cc + part >= aa
    <3>1. cc + part - aa \in Times /\ cc + part - aa <= Significand
      BY <1>2, <1>3, <1>4, <2>1, HistoryConstants
    <3> QED
      BY <1>5, <3>1
  <2>2. CASE cc + part < aa
    <3>1. aa - (cc + part) \in Times /\ aa - (cc + part) <= Significand
      BY <1>2, <1>3, <1>4, <2>2, HistoryConstants
    <3>2. -(aa - (cc + part)) = cc + part - aa
      BY <1>2, HistoryConstants
    <3> QED
      BY <1>5, <3>1, <3>2
  <2> QED
    BY <1>2, <2>1, <2>2, HistoryConstants
<1>8. Float(bb - aa) = bb - aa
  <2>1. bb - aa \in Times /\ bb - aa <= Significand
    BY <1>2, <1>3, <1>4, HistoryConstants
  <2> QED
    BY <1>5, <2>1
<1>9. Float(Float(Float(cc) + part) - Float(aa)) = cc + part - aa
  <2>1. Float(cc) + part = cc + part
    BY <1>6, Zenon
  <2>2. Float(Float(cc) + part) = cc + part
    BY <1>6, <2>1, Zenon
  <2> DEFINE there == Float(Float(cc) + part)
             here == Float(aa)
  <2>3. there = cc + part /\ here = aa
    BY <1>6, <2>2, Zenon
  <2> HIDE DEF there, here
  <2>4. there - here = cc + part - aa
    BY <1>2, <2>3
  <2>5. Float(there - here) = Float(cc + part - aa)
    BY <2>4, Zenon
  <2> QED
    BY <1>7, <2>5, Zenon DEF there, here
<1>10. /\ (c - a) * Parts + part = cc + part - aa
       /\ Float((b - a) * Parts) = (b - a) * Parts
  <2>1. (b - a) * Parts = bb - aa
    BY <1>3
  <2>2. Float((b - a) * Parts) = Float(bb - aa)
    BY <2>1, Zenon
  <2> QED
    BY <1>3, <1>8, <2>1, <2>2, Zenon
<1> QED
  BY <1>9, <1>10, Zenon DEF aa, cc

\* As long as floats tell ticks apart, rounding does not leave the way between two.
LEMMA RoundedOnTheWay ==
  ASSUME NEW a \in AllTicks, NEW b \in AllTicks, NEW c \in AllTicks, a <= c, c < b,
         b <= Significand, NEW part \in 0..Parts - 1
  PROVE  LET passed == Float(Float(Float(c * Parts) + part) - Float(a * Parts))
         IN  0 <= passed /\ passed <= Float((b - a) * Parts)
<1> DEFINE aa == a * Parts
           cc == c * Parts
           there == Float(cc + part)
<1>1. /\ a \in Nat /\ b \in Nat /\ c \in Nat /\ part \in 0..Parts
      /\ 0 \in 0..Parts /\ Parts \in 0..Parts /\ part <= Parts
  BY HistoryConstants
<1>2. c + 1 \in AllTicks /\ b - a \in AllTicks /\ c - a \in AllTicks /\ c + 1 - a \in AllTicks
  BY <1>1, HistoryConstants DEF AllTicks
<1>3. /\ aa \in Nat /\ cc \in Nat /\ cc + part \in Times /\ cc + 0 \in Times
      /\ (c + 1) * Parts + 0 \in Times /\ (c + 1) * Parts = cc + Parts
      /\ (c - a) * Parts + 0 \in Times /\ (c + 1 - a) * Parts + 0 \in Times
      /\ (b - a) * Parts + 0 \in Times
  BY <1>1, <1>2, TimesOfTicks
<1>4. /\ (c - a) * Parts = cc - aa /\ cc - aa \in Nat
      /\ (c + 1 - a) * Parts = cc + Parts - aa
      /\ (b - a) * Parts - (cc + Parts - aa) \in Nat
      /\ (b - a) * Parts \in Nat
  <2>1. c - a \in Nat /\ b - a \in Nat /\ b - (c + 1) \in Nat
    BY <1>1
  <2>2. /\ (c - a) * Parts = cc - aa /\ (c + 1 - a) * Parts = cc + Parts - aa
        /\ (b - a) * Parts - (cc + Parts - aa) = (b - (c + 1)) * Parts
    BY <1>1, HistoryConstants
  <2>3. (c - a) * Parts \in Nat /\ (b - (c + 1)) * Parts \in Nat /\ (b - a) * Parts \in Nat
    BY <2>1, HistoryConstants
  <2> QED
    BY <2>2, <2>3
<1>5. \A tick \in AllTicks : tick <= Significand => Float(tick * Parts) = tick * Parts
  BY FloatAssumption
<1>6. /\ Float(cc) = cc /\ Float(aa) = aa /\ Float((c + 1) * Parts) = cc + Parts
      /\ Float((c - a) * Parts) = cc - aa /\ Float((c + 1 - a) * Parts) = cc + Parts - aa
      /\ Float((b - a) * Parts) = (b - a) * Parts
  <2>1. /\ a <= Significand /\ c <= Significand /\ c + 1 <= Significand
        /\ c - a <= Significand /\ c + 1 - a <= Significand /\ b - a <= Significand
    BY <1>1, HistoryConstants
  <2>2. Float(cc) = cc /\ Float(aa) = aa
    BY <1>5, <2>1
  <2>3. Float((c + 1) * Parts) = cc + Parts
    BY <1>2, <1>3, <1>5, <2>1
  <2>4. Float((c - a) * Parts) = cc - aa /\ Float((c + 1 - a) * Parts) = cc + Parts - aa
    BY <1>2, <1>4, <1>5, <2>1
  <2>5. Float((b - a) * Parts) = (b - a) * Parts
    BY <1>2, <1>5, <2>1
  <2> QED
    BY <2>2, <2>3, <2>4, <2>5
<1> HIDE DEF aa, cc
<1>7. /\ \A v, w \in Times : v <= w => Float(v) <= Float(w)
      /\ \A v \in Times : Float(v) \in Nat
  BY FloatAssumption
<1>8. cc <= there /\ there <= cc + Parts /\ there \in Nat
  <2>1. cc \in Times /\ cc + Parts \in Times /\ Float(cc + Parts) = cc + Parts
    BY <1>3, <1>4, <1>6, HistoryConstants
  <2>2. cc <= cc + part /\ cc + part <= cc + Parts
    BY <1>1, <1>3, HistoryConstants
  <2>3. Float(cc) <= Float(cc + part)
    BY <1>3, <1>7, <2>1, <2>2
  <2>4. Float(cc + part) <= Float(cc + Parts)
    BY <1>3, <1>7, <2>1, <2>2
  <2> QED
    BY <1>3, <1>6, <1>7, <2>1, <2>3, <2>4
<1> HIDE DEF there
<1>9. /\ cc - aa \in Times /\ there - aa \in Times /\ cc + Parts - aa \in Times
      /\ Float(cc - aa) = cc - aa /\ Float(cc + Parts - aa) = cc + Parts - aa
  <2>1. /\ cc - aa \in Times /\ cc + Parts - aa \in Times
        /\ Float(cc - aa) = cc - aa /\ Float(cc + Parts - aa) = cc + Parts - aa
    BY <1>3, <1>4, <1>6, HistoryConstants
  <2>2. /\ Times = 0..(LastTick + UpdateDelay + 1) * Parts
        /\ (LastTick + UpdateDelay + 1) * Parts \in Int
    BY HistoryConstants DEF Times
  <2>3. there - aa \in Times
    BY <1>3, <1>4, <1>8, <2>1, <2>2, HistoryConstants
  <2> QED
    BY <2>1, <2>3
<1>10. cc - aa <= there - aa /\ there - aa <= cc + Parts - aa
  BY <1>3, <1>8, HistoryConstants
<1>11. cc - aa <= Float(there - aa) /\ Float(there - aa) <= cc + Parts - aa
  BY <1>7, <1>9, <1>10
<1>12. Float(there - aa) \in Nat
  BY <1>7, <1>9
<1>13. 0 <= Float(there - aa) /\ Float(there - aa) <= Float((b - a) * Parts)
  <2> DEFINE whole == (b - a) * Parts
  <2>1. whole \in Nat /\ whole - (cc + Parts - aa) \in Nat /\ Float(whole) = whole
    BY <1>4, <1>6
  <2> HIDE DEF whole
  <2>2. 0 <= Float(there - aa) /\ Float(there - aa) <= Float(whole)
    BY <1>3, <1>11, <1>12, <2>1, HistoryConstants
  <2> QED
    BY <2>2 DEF whole
<1> QED
  BY <1>6, <1>13 DEF aa, cc, there

\* A part of a part of the way is less than the way.
LEMMA OnTheWay ==
  ASSUME NEW x \in Nat, NEW y \in Nat, x < y, NEW p \in Nat, NEW part \in 0..p - 1
  PROVE  0 <= x * p + part /\ x * p + part < y * p
<1>1. PICK d \in Nat : y = x + 1 + d
  <2>1. y - x - 1 \in Nat /\ y = x + 1 + (y - x - 1)
    OBVIOUS
  <2> QED
    BY <2>1
<1>2. y * p = x * p + p + d * p
  BY <1>1
<1>3. d * p \in Nat /\ x * p \in Nat
  BY <1>1
<1> QED
  BY <1>2, <1>3

Past(known, now) == {t \in DOMAIN known : t <= now}
Future(known, now) == DOMAIN known \ Past(known, now)

\* The states before and after the present are the last past and the first future
\* of all that has come.
LEMMA AroundThePresent ==
  ASSUME NEW h, NEW known, NEW now \in Int, Faithful(h, known, now),
         \A t \in DOMAIN known : t \in Int, DOMAIN known # {}
  PROVE  LET i == LastUpTo(h, now)
         IN  /\ h # <<>> /\ DOMAIN h = 1..Len(h) /\ Len(h) \in Nat /\ i \in 0..Len(h)
             /\ Past(known, now) = {} <=> i = 0
             /\ Future(known, now) = {} <=> i = Len(h)
             /\ i > 0 => Max(Past(known, now)) = h[i].tick
             /\ i < Len(h) => Min(Future(known, now)) = h[i + 1].tick
<1> DEFINE i == LastUpTo(h, now)
           past == Past(known, now)
           future == Future(known, now)
<1>0. past = {t \in DOMAIN known : t <= now} /\ future = DOMAIN known \ past
  BY DEF Past, Future
<1>1. h \in Seq(Entries) /\ Ordered(h) /\ DOMAIN h = 1..Len(h) /\ Len(h) \in Nat
  BY DEF Faithful
<1>2. \A j \in DOMAIN h : h[j].tick \in Int
  BY <1>1, EntryType
<1>3. i \in 0..Len(h) /\ \A j \in DOMAIN h : h[j].tick <= now <=> j <= i
  BY <1>1, LastUpToDivides
<1> HIDE DEF i, past, future
<1>4. \A j \in DOMAIN h : h[j].tick \in DOMAIN known
  BY DEF Faithful
<1>5. ASSUME NEW t \in past PROVE i \in DOMAIN h /\ t <= h[i].tick
  <2>1. t \in DOMAIN known /\ t \in Int /\ t <= now
    BY <1>0
  <2>2. PICK j \in DOMAIN h : h[j].tick = t \/ (t <= h[j].tick /\ h[j].tick <= now)
    BY <2>1 DEF Faithful
  <2>3. h[j].tick \in Int /\ t <= h[j].tick /\ h[j].tick <= now
    BY <1>2, <2>1, <2>2
  <2>4. j <= i
    BY <1>3, <2>3
  <2>5. i \in DOMAIN h
    BY <1>1, <1>3, <2>4
  <2>6. i = j \/ h[j].tick < h[i].tick
    BY <1>1, <2>4, <2>5 DEF Ordered
  <2> QED
    BY <1>2, <2>1, <2>3, <2>5, <2>6
<1>6. ASSUME NEW t \in future PROVE i + 1 \in DOMAIN h /\ h[i + 1].tick <= t
  <2>1. t \in DOMAIN known /\ t \in Int /\ ~(t <= now)
    BY <1>0
  <2>2. PICK j \in DOMAIN h : h[j].tick = t \/ (t <= h[j].tick /\ h[j].tick <= now)
    BY <2>1 DEF Faithful
  <2>3. h[j].tick \in Int /\ h[j].tick = t
    BY <1>2, <2>1, <2>2
  <2>4. ~(j <= i)
    BY <1>3, <2>1, <2>3
  <2>5. i + 1 \in DOMAIN h /\ i + 1 <= j
    BY <1>1, <1>3, <2>4
  <2>6. i + 1 = j \/ h[i + 1].tick < h[j].tick
    BY <1>1, <2>5 DEF Ordered
  <2> QED
    BY <1>2, <2>3, <2>5, <2>6
<1>7. h # <<>>
  <2>1. PICK t \in DOMAIN known : TRUE
    OBVIOUS
  <2>2. \E j \in DOMAIN h : TRUE
    BY <2>1 DEF Faithful
  <2> QED
    BY <1>1, <2>2
<1>8. i > 0 => h[i].tick \in past
  BY <1>0, <1>1, <1>3, <1>4
<1>9. i < Len(h) => h[i + 1].tick \in future
  <2>1. SUFFICES ASSUME i < Len(h) PROVE h[i + 1].tick \in future
    OBVIOUS
  <2>2. i + 1 \in DOMAIN h /\ ~(i + 1 <= i)
    BY <1>1, <1>3, <2>1
  <2> QED
    BY <1>0, <1>3, <1>4, <2>2
<1>10. past \in SUBSET Int /\ future \in SUBSET Int
  BY <1>0
<1>11. i > 0 => Max(past) = h[i].tick
  BY <1>5, <1>8, <1>10, MaxIs
<1>12. i < Len(h) => Min(future) = h[i + 1].tick
  BY <1>6, <1>9, <1>10, MinIs
<1>13. past = {} <=> i = 0
  BY <1>1, <1>3, <1>5, <1>8
<1>14. future = {} <=> i = Len(h)
  <2>1. Len(h) \in Nat /\ i \in 0..Len(h) /\ Len(h) + 1 \notin DOMAIN h
    BY <1>1, <1>3
  <2>2. CASE i = Len(h)
    <3>1. i + 1 \notin DOMAIN h
      BY <2>1, <2>2
    <3> QED
      BY <1>6, <2>2, <3>1
  <2>3. CASE i # Len(h)
    <3>1. i < Len(h)
      BY <2>1, <2>3
    <3> QED
      BY <1>9, <2>3, <3>1
  <2> QED
    BY <2>2, <2>3
<1> QED
  BY <1>1, <1>3, <1>7, <1>11, <1>12, <1>13, <1>14 DEF i, past, future

\* What ShownBetween says of a time.
ShowsWell(part) ==
  LET s == Shown(part)
      b == Between(part)
  IN  /\ s.from = b.from /\ s.to = b.to
      /\ PartsAreExact => s = b /\ (behind = 0 => s.passed < s.length)
      /\ TicksAreExact /\ behind = 0 => 0 <= s.passed /\ s.passed <= s.length

LEMMA StillShowsWell ==
  ASSUME NEW part, NEW pos, Shown(part) = Still(pos), Between(part) = Still(pos)
  PROVE  ShowsWell(part)
<1>1. Still(pos).passed = 0 /\ Still(pos).length = 1
  BY DEF Still
<1> QED
  BY <1>1 DEF ShowsWell

LEMMA FaithfulStatesShow == StatesFaithful => ShownBetween
<1> DEFINE i == LastUpTo(states, Present)
           past == Past(newest, Present)
           future == Future(newest, Present)
<1>1. SUFFICES ASSUME StatesFaithful, DOMAIN newest # {}
               PROVE  /\ states # <<>>
                      /\ \A part \in 0..Parts - 1 : ShowsWell(part)
  BY DEF ShownBetween, ShowsWell
<1>2. Faithful(states, newest, Present) /\ Clocked(newest)
  BY <1>1, StatesFaithfulIs
<1>3. /\ Present \in Int /\ currentTick \in Int /\ (behind = 0 => Present = currentTick)
      /\ \A t \in DOMAIN newest : t \in Int
  BY <1>2, HistoryConstants DEF Clocked, Present
<1>4. /\ states # <<>> /\ DOMAIN states = 1..Len(states) /\ Len(states) \in Nat
      /\ i \in 0..Len(states)
      /\ past = {} <=> i = 0
      /\ future = {} <=> i = Len(states)
      /\ i > 0 => Max(past) = states[i].tick
      /\ i < Len(states) => Min(future) = states[i + 1].tick
  BY <1>1, <1>2, <1>3, AroundThePresent
<1>5. \A j \in DOMAIN states :
        states[j].pos = newest[states[j].tick] /\ states[j].tick \in Int
  BY <1>2, EntryType DEF Faithful
<1>6. Len(states) > 0
  BY <1>4
<1>7. ASSUME NEW part \in 0..Parts - 1
      PROVE  ShowsWell(part)
  <2> DEFINE way == [ from |-> states[i].pos, to |-> states[i + 1].pos,
                      passed |-> Float(Float(Float(currentTick * Parts) + part)
                                         - Float(states[i].tick * Parts)),
                      length |-> Float((states[i + 1].tick - states[i].tick) * Parts) ]
             sent == [ from |-> newest[Max(past)], to |-> newest[Min(future)],
                       passed |-> (currentTick - Max(past)) * Parts + part,
                       length |-> (Min(future) - Max(past)) * Parts ]
  <2>1. Shown(part) = CASE i = 0 -> Still(states[1].pos)
                        [] i = Len(states) -> Still(states[i].pos)
                        [] OTHER -> way
    BY DEF Shown
  <2>2. Between(part) = CASE past = {} -> Still(newest[Min(future)])
                          [] future = {} -> Still(newest[Max(past)])
                          [] OTHER -> sent
    BY DEF Between, Past, Future
  <2>3. /\ i = 0 => Shown(part) = Still(states[1].pos)
        /\ i = Len(states) => Shown(part) = Still(states[i].pos)
        /\ i # 0 /\ i # Len(states) => Shown(part) = way
    <3> HIDE DEF i, way
    <3> QED
      BY <1>6, <2>1
  <2>4. /\ past = {} => Between(part) = Still(newest[Min(future)])
        /\ future = {} /\ past # {} => Between(part) = Still(newest[Max(past)])
        /\ past # {} /\ future # {} => Between(part) = sent
    <3>1. past = {} => future # {}
      BY <1>4, <1>6
    <3> HIDE DEF past, future, sent
    <3> QED
      BY <2>2, <3>1
  <2>6. CASE i = 0
    <3>1. Shown(part) = Still(states[1].pos)
      BY <2>3, <2>6
    <3>2. past = {} /\ Min(future) = states[1].tick /\ 1 \in DOMAIN states
      <4>1. i < Len(states) /\ i + 1 = 1
        BY <1>6, <2>6
      <4> HIDE DEF i, past, future
      <4> QED
        BY <1>4, <2>6, <4>1
    <3>3. Between(part) = Still(states[1].pos)
      <4> HIDE DEF past, future
      <4> QED
        BY <1>5, <2>4, <3>2
    <3> QED
      BY <3>1, <3>3, StillShowsWell
  <2>7. CASE i = Len(states)
    <3>1. Shown(part) = Still(states[i].pos)
      BY <2>3, <2>7
    <3>2. past # {} /\ future = {} /\ Max(past) = states[i].tick /\ i \in DOMAIN states
      <4> HIDE DEF i, past, future
      <4> QED
        BY <1>4, <1>6, <2>7
    <3>3. Between(part) = Still(states[i].pos)
      <4> HIDE DEF i, past, future
      <4> QED
        BY <1>5, <2>4, <3>2
    <3> QED
      BY <3>1, <3>3, StillShowsWell
  <2>8. CASE i # 0 /\ i # Len(states)
    <3>1. Shown(part) = way
      BY <2>3, <2>8
    <3>2. /\ past # {} /\ future # {}
          /\ Max(past) = states[i].tick /\ Min(future) = states[i + 1].tick
          /\ i \in DOMAIN states /\ i + 1 \in DOMAIN states
      <4>1. i > 0 /\ i < Len(states)
        <5>1. i \in 0..Len(states) /\ Len(states) \in Nat
          BY <1>4
        <5> HIDE DEF i
        <5> QED
          BY <2>8, <5>1
      <4>2. i \in 1..Len(states) /\ i + 1 \in 1..Len(states)
        <5>1. i \in 0..Len(states) /\ Len(states) \in Nat
          BY <1>4
        <5> HIDE DEF i
        <5> QED
          BY <4>1, <5>1
      <4> HIDE DEF i, past, future
      <4> QED
        BY <1>4, <2>8, <4>1, <4>2
    <3>3. Between(part) = sent
      <4> HIDE DEF past, future, sent
      <4> QED
        BY <2>4, <3>2
    <3> DEFINE a == states[i].tick
               b == states[i + 1].tick
    <3>4. /\ Max(past) = a /\ Min(future) = b
          /\ newest[a] = states[i].pos /\ newest[b] = states[i + 1].pos
          /\ a \in AllTicks /\ b \in AllTicks /\ currentTick \in AllTicks
          /\ a \in DOMAIN newest /\ b \in DOMAIN newest
          /\ a <= Present /\ Present < b
      <4>1. \A j \in DOMAIN states : states[j].tick <= Present <=> j <= i
        BY <1>2, <1>3, LastUpToDivides DEF Faithful
      <4>2. i \in Int /\ ~(i + 1 <= i) /\ i <= i
        BY <1>4
      <4>3. \A j \in DOMAIN states : states[j].tick \in DOMAIN newest
        BY <1>2 DEF Faithful
      <4>4. DOMAIN newest \subseteq AllTicks /\ currentTick \in AllTicks
        BY <1>2, HistoryConstants DEF Clocked
      <4> HIDE DEF i, past, future
      <4> QED
        BY <1>3, <1>5, <3>2, <4>1, <4>2, <4>3, <4>4
    <3>5. a \in Nat /\ b \in Nat /\ currentTick \in Nat /\ behind \in Int /\ behind >= -1
          /\ Present = currentTick + behind
      BY <1>2, <3>4, HistoryConstants DEF Clocked, Present
    <3>6. /\ Shown(part).from = newest[a] /\ Shown(part).to = newest[b]
          /\ Shown(part).passed = Float(Float(Float(currentTick * Parts) + part)
                                           - Float(a * Parts))
          /\ Shown(part).length = Float((b - a) * Parts)
          /\ Shown(part) = [ from |-> newest[a], to |-> newest[b],
                              passed |-> Float(Float(Float(currentTick * Parts) + part)
                                                 - Float(a * Parts)),
                              length |-> Float((b - a) * Parts) ]
      <4> HIDE DEF i
      <4> QED
        BY <3>1, <3>4
    <3>7. Between(part) = [ from |-> newest[a], to |-> newest[b],
                            passed |-> (currentTick - a) * Parts + part,
                            length |-> (b - a) * Parts ]
      <4> HIDE DEF i, a, b, past, future
      <4> QED
        BY <3>3, <3>4
    <3> HIDE DEF a, b, i, past, future, way, sent
    <3>8. ASSUME PartsAreExact
          PROVE  Shown(part) = Between(part) /\ (behind = 0 => Shown(part).passed < Shown(part).length)
      <4>1. (b + 1) * Parts <= Significand
        BY <3>4, <3>8 DEF PartsAreExact
      <4>2. a <= b /\ currentTick <= b
        BY <3>4, <3>5
      <4>3. /\ Shown(part).passed = (currentTick - a) * Parts + part
            /\ Shown(part).length = (b - a) * Parts
        BY <3>4, <3>6, <4>1, <4>2, NothingIsRounded
      <4>4. Shown(part) = Between(part)
        BY <3>6, <3>7, <4>3
      <4>5. ASSUME behind = 0 PROVE Shown(part).passed < Shown(part).length
        <5> DEFINE x == currentTick - a
                   y == b - a
        <5>1. x \in Nat /\ y \in Nat /\ x < y
          BY <3>4, <3>5, <4>5
        <5> HIDE DEF x, y
        <5>2. x * Parts + part < y * Parts
          BY <5>1, OnTheWay, HistoryConstants
        <5> QED
          BY <4>3, <5>2 DEF x, y
      <4> QED
        BY <4>4, <4>5
    <3>9. ASSUME TicksAreExact, behind = 0
          PROVE  0 <= Shown(part).passed /\ Shown(part).passed <= Shown(part).length
      <4>1. b <= Significand /\ a <= currentTick /\ currentTick < b
        BY <3>4, <3>5, <3>9 DEF TicksAreExact
      <4> QED
        BY <3>4, <3>6, <4>1, RoundedOnTheWay
    <3> QED
      BY <3>6, <3>7, <3>8, <3>9 DEF ShowsWell
  <2> QED
    BY <2>6, <2>7, <2>8
<1> QED
  BY <1>4, <1>7

\* However late, often or seldom updates come, another character is shown on the
\* way between the two states around the present, as if nothing had been cut off:
\* exactly, while floats tell the parts of a tick apart, and not beyond either
\* state, while they tell ticks apart (RealmClient::ExecuteMovementUpdate).
THEOREM OthersAreShownBetween == HistorySpec => []HistoryInv
<1>1. StatesFaithful => HistoryInv
  BY FaithfulStatesShow DEF HistoryInv
<1> QED
  BY <1>1, StatesStayFaithful, PTL

-------------------------------------------------------------------------------
(* Queries of the collision world: what is known in the middle of a loop. *)

\* How much further than the nearest a hit may be after so many candidates.
Spread(n) == (n - 1) * (Precision - 1)

Clear(a, b) ==
  \/ asked.distance[a] = asked.distance[b]
  \/ Magnitude(asked.distance[a] - asked.distance[b]) >= Precision

\* What RaysHitTheNearest says of the end holds of those that were seen so far.
RayKnows(seen) ==
  /\ cb.cut \in 0..RayLength
  /\ cb.hit = (\E id \in seen : asked.distance[id] < RayLength)
  /\ ~cb.hit => cb.cut = RayLength
  /\ cb.hit => cb.id \in seen /\ cb.cut = asked.distance[cb.id]
  /\ \A id \in seen : cb.cut <= asked.distance[id] + Spread(Cardinality(seen))
  /\ (\A a, b \in asked.met : Clear(a, b)) =>
       \A id \in seen : \/ cb.cut < asked.distance[id]
                        \/ cb.cut = asked.distance[id] /\ (cb.hit => cb.id <= id)

RayInv ==
  at = "ray" =>
    /\ asked.met \in SUBSET Bodies /\ asked.distance \in [Bodies -> Distances]
    /\ left \in SUBSET Bodies
    /\ RayKnows(asked.met \ left)

\* Who has been looked at is near, and who is near is still there.
SphereInv ==
  at = "sphere" =>
    /\ vector \in Seq(asked.touching)
    /\ count = Len(vector) /\ index \in 1..Len(vector) + 1
    /\ \A i, j \in 1..Len(vector) : vector[i] = vector[j] => i = j
    /\ \A i \in 1..Len(vector) : i < index => vector[i] \in asked.near
    /\ \A id \in asked.touching \cap asked.near : \E i \in 1..Len(vector) : vector[i] = id

Results == [way : Int, collision : BOOLEAN, drop : Int, on : SUBSET Statics, onGround : BOOLEAN]

MovementAsked ==
  /\ vector \in Seq(Statics)
  /\ \A i \in 1..Len(vector) :
       asked.obstacle[vector[i]] \in Obstacles /\ asked.drop[vector[i]] \in Heights
  /\ asked.wasOnGround \in BOOLEAN
  /\ asked.direction \in {"up", "level", "down"}

\* The way is that to the nearest obstacle among the first of the entities.
Swept(n) ==
  /\ moved.way \in 0..Way
  /\ \A i \in 1..n : moved.way <= asked.obstacle[vector[i]]
  /\ moved.way = Way \/ \E i \in 1..n : moved.way = asked.obstacle[vector[i]]
  /\ moved.collision = (\E i \in 1..n : asked.obstacle[vector[i]] <= Way)
  /\ moved.onGround = FALSE

SweepInv ==
  at = "sweep" =>
    /\ MovementAsked /\ index \in 1..Len(vector) + 1
    /\ moved \in Results /\ Swept(index - 1)
    /\ moved.drop = 0 /\ moved.on = {}

Within(d) == -(StepHeight + Slack) <= d /\ d <= StepHeight

\* The ground is the highest within a step among the first of the entities.
GroundInv ==
  at = "ground" =>
    /\ MovementAsked /\ index \in 1..Len(vector) + 1
    /\ moved \in Results /\ Swept(Len(vector))
    /\ asked.wasOnGround \/ asked.direction # "up"
    /\ moved.drop <= StepHeight /\ (moved.on = {} => moved.drop = StepHeight)
    /\ \A i \in 1..Len(vector) : i < index /\ Within(asked.drop[vector[i]]) =>
         moved.on # {} /\ moved.drop <= asked.drop[vector[i]]
    /\ moved.on # {} => \E i \in 1..Len(vector) :
         /\ i < index /\ moved.on = {vector[i]} /\ moved.drop = asked.drop[vector[i]]
         /\ Within(moved.drop)

QueryTyped ==
  /\ at \in {"idle", "ray", "sphere", "sweep", "ground", "moved"}
  /\ at # "ray" => left = {}
  /\ at = "idle" => cb = NoRayHit /\ moved = NotMoved

QueryInv ==
  QueryTyped /\ RayInv /\ SphereInv /\ SweepInv /\ GroundInv /\ MovementIgnoresOrder

LEMMA QueryConstants ==
  /\ RayLength \in Nat /\ Way \in Nat /\ StepHeight \in Nat /\ Slack \in Nat
  /\ Precision \in Nat /\ Precision >= 1
  /\ Bodies \subseteq Nat /\ IsFiniteSet(Bodies) /\ Statics \subseteq Bodies
  BY CollisionAssumption

LEMMA OrdersOK ==
  ASSUME NEW S \in SUBSET Bodies, NEW order \in Orders(S)
  PROVE  /\ order \in Seq(S) /\ Len(order) \in Nat /\ DOMAIN order = 1..Len(order)
         /\ \A i, j \in 1..Len(order) : order[i] = order[j] => i = j
         /\ \A id \in S : \E i \in 1..Len(order) : order[i] = id
<1> DEFINE n == Cardinality(S)
<1>1. n \in Nat
  BY QueryConstants, FS_Subset, FS_CardinalityType
<1>2. /\ order \in [1..n -> S]
      /\ \A i, j \in 1..n : order[i] = order[j] => i = j
      /\ \A id \in S : \E i \in 1..n : order[i] = id
  BY DEF Orders, Bijection, Injection, Surjection, IsInjective
<1> HIDE DEF n
<1>3. order \in Seq(S)
  BY <1>1, <1>2
<1>4. Len(order) = n
  BY <1>1, <1>2
<1> QED
  BY <1>1, <1>2, <1>3, <1>4

LEMMA SpreadGrows ==
  ASSUME NEW n \in Nat
  PROVE  /\ Spread(n) \in Int
         /\ Spread(n + 1) = Spread(n) + (Precision - 1)
         /\ Spread(n + 1) >= 0
<1> DEFINE p == Precision - 1
<1>1. p \in Nat
  BY QueryConstants
<1>2. Spread(n) = n * p - p /\ Spread(n + 1) = n * p
  <2>1. (n - 1) * p = n * p - p /\ ((n + 1) - 1) * p = n * p
    <3> HIDE DEF p
    <3> QED
      BY <1>1
  <2> QED
    BY <2>1 DEF Spread
<1>3. n * p \in Nat
  <2> HIDE DEF p
  <2> QED
    BY <1>1
<1>4. ASSUME NEW m \in Nat, NEW q \in Nat PROVE (m - q) + q = m /\ m - q \in Int /\ m >= 0
  BY <1>4
<1> QED
  BY <1>1, <1>2, <1>3, <1>4

-------------------------------------------------------------------------------
(* Rays. *)

\* The callback keeps what is known, with one more candidate.
LEMMA RayCallbackOK ==
  ASSUME QueryInv, NEW id \in left, RayCallback(id)
  PROVE  RayKnows(asked.met \ left)'
<1> DEFINE seen == asked.met \ left
           d == asked.distance
           n == Cardinality(seen)
<1>1. /\ at = "ray" /\ asked' = asked /\ left' = left \ {id}
      /\ asked.met \in SUBSET Bodies /\ d \in [Bodies -> Distances] /\ left \in SUBSET Bodies
      /\ RayKnows(seen)
  BY DEF QueryInv, RayInv, RayCallback
<1>2. /\ id \notin seen /\ IsFiniteSet(seen) /\ n \in Nat
      /\ seen \in SUBSET Bodies
  <2>1. seen \in SUBSET Bodies
    BY <1>1
  <2> QED
    BY <2>1, QueryConstants, FS_Subset, FS_CardinalityType
<1>3. \A x \in Bodies : d[x] \in 0..RayLength /\ d[x] \in Int /\ d[x] <= RayLength /\ x \in Int
  BY <1>1, QueryConstants DEF Distances
<1>4. id \in Bodies
  BY <1>1
<1>5. CASE id \notin asked.met
  <2>1. (asked.met \ left)' = seen /\ cb' = cb
    BY <1>1, <1>5 DEF RayCallback
  <2> QED
    BY <1>1, <2>1 DEF RayKnows, Clear
<1>6. CASE id \in asked.met
  <2>1. (asked.met \ left)' = seen \cup {id}
    BY <1>1, <1>6
  <2>2. Cardinality(seen \cup {id}) = n + 1
    BY <1>2, FS_AddElement
  <2>3. cb' = IF Nearer(id) THEN [hit |-> TRUE, cut |-> d[id], id |-> id] ELSE cb
    BY <1>6 DEF RayCallback
  <2>4. /\ Spread(n) \in Int /\ Spread(n + 1) = Spread(n) + (Precision - 1)
        /\ Spread(n + 1) >= 0
    BY <1>2, SpreadGrows
  <2>5. /\ cb.cut \in 0..RayLength
        /\ cb.hit = (\E x \in seen : d[x] < RayLength)
        /\ ~cb.hit => cb.cut = RayLength
        /\ cb.hit => cb.id \in seen /\ cb.cut = d[cb.id]
        /\ \A x \in seen : cb.cut <= d[x] + Spread(n)
        /\ (\A a, b \in asked.met : Clear(a, b)) =>
             \A x \in seen : \/ cb.cut < d[x]
                             \/ cb.cut = d[x] /\ (cb.hit => cb.id <= x)
    BY <1>1 DEF RayKnows
  <2>6. cb.cut \in Int /\ cb.cut <= RayLength /\ RayLength \in Int /\ Precision \in Int
        /\ Precision >= 1
    BY <2>5, QueryConstants
  <2>7. Nearer(id) <=> d[id] < cb.cut \/ (cb.hit /\ d[id] - Precision < cb.cut /\ id < cb.id)
    BY DEF Nearer
  <2> DEFINE all == seen \cup {id}
  <2> HIDE DEF seen, n, d
  <2>8. CASE Nearer(id)
    <3>1. cb'.hit = TRUE /\ cb'.cut = d[id] /\ cb'.id = id
      BY <2>3, <2>8
    <3>2. cb'.cut <= cb.cut + (Precision - 1)
      BY <1>3, <1>4, <2>6, <2>7, <2>8, <3>1
    <3>3. \E x \in all : d[x] < RayLength
      <4>1. CASE d[id] < cb.cut
        BY <1>3, <1>4, <2>6, <4>1
      <4>2. CASE cb.hit
        BY <2>5, <4>2
      <4> QED
        BY <2>7, <2>8, <4>1, <4>2
    <3>4. ASSUME NEW x \in all PROVE cb'.cut <= d[x] + Spread(n + 1)
      <4>1. CASE x = id
        BY <1>3, <1>4, <2>4, <2>6, <3>1, <4>1
      <4>2. CASE x \in seen
        <5>1. cb.cut <= d[x] + Spread(n) /\ d[x] \in Int /\ cb'.cut \in Int
          BY <1>2, <1>3, <1>4, <2>5, <3>1, <4>2
        <5> QED
          BY <2>4, <2>6, <3>2, <5>1
      <4> QED
        BY <4>1, <4>2
    <3>5. ASSUME \A a, b \in asked.met : Clear(a, b), NEW x \in all
          PROVE  cb'.cut < d[x] \/ (cb'.cut = d[x] /\ id <= x)
      <4>1. CASE x = id
        BY <1>3, <1>4, <3>1, <4>1
      <4>2. CASE x \in seen
        <5>1. cb.cut < d[x] \/ (cb.cut = d[x] /\ (cb.hit => cb.id <= x))
          BY <2>5, <3>5, <4>2
        <5>2. x \in Bodies /\ d[x] \in Int /\ d[id] \in Int /\ x \in Int /\ id \in Int
          BY <1>2, <1>3, <1>4, <4>2
        <5>3. CASE d[id] < cb.cut
          BY <2>6, <3>1, <5>1, <5>2, <5>3
        <5>4. CASE ~(d[id] < cb.cut)
          <6>1. cb.hit /\ d[id] - Precision < cb.cut /\ id < cb.id
            BY <2>7, <2>8, <5>4
          <6>2. cb.id \in seen /\ cb.cut = d[cb.id] /\ cb.id \in Int
            BY <1>2, <1>3, <2>5, <6>1
          <6>3. cb.id \in asked.met
            BY <6>2 DEF seen
          <6>4. d[id] = cb.cut
            <7>1. d[id] = d[cb.id] \/ Magnitude(d[id] - d[cb.id]) >= Precision
              BY <1>6, <3>5, <6>3 DEF Clear, d
            <7> QED
              BY <2>6, <5>2, <5>4, <6>1, <6>2, <7>1 DEF Magnitude
          <6> QED
            BY <2>6, <3>1, <5>1, <5>2, <6>1, <6>2, <6>4
        <5> QED
          BY <5>3, <5>4
      <4> QED
        BY <4>1, <4>2
    <3>6. cb'.cut \in 0..RayLength
      BY <1>3, <1>4, <3>1
    <3> QED
      BY <1>1, <2>1, <2>2, <3>1, <3>3, <3>4, <3>5, <3>6 DEF RayKnows, Clear, d
  <2>9. CASE ~Nearer(id)
    <3>1. cb' = cb
      BY <2>3, <2>9
    <3>2. d[id] \in Int /\ id \in Int /\ cb.cut <= d[id] /\ d[id] <= RayLength
      BY <1>3, <1>4, <2>6, <2>7, <2>9
    <3>3. ~cb.hit => d[id] = RayLength
      BY <2>5, <2>6, <3>2
    <3>4. cb.hit = (\E x \in all : d[x] < RayLength)
      <4>1. CASE cb.hit
        BY <2>5, <4>1
      <4>2. CASE ~cb.hit
        BY <2>5, <2>6, <3>3, <4>2
      <4> QED
        BY <2>5, <4>1, <4>2
    <3>5. ASSUME NEW x \in all PROVE cb.cut <= d[x] + Spread(n + 1)
      <4>1. CASE x = id
        BY <2>4, <2>6, <3>2, <4>1
      <4>2. CASE x \in seen
        <5>1. cb.cut <= d[x] + Spread(n) /\ d[x] \in Int
          BY <1>2, <1>3, <2>5, <4>2
        <5> QED
          BY <2>4, <2>6, <5>1
      <4> QED
        BY <4>1, <4>2
    <3>6. ASSUME \A a, b \in asked.met : Clear(a, b), NEW x \in all
          PROVE  cb.cut < d[x] \/ (cb.cut = d[x] /\ (cb.hit => cb.id <= x))
      <4>1. CASE x = id
        <5>1. cb.hit => cb.id \in Int
          BY <1>2, <1>3, <2>5
        <5>2. SUFFICES ASSUME cb.cut = d[id], cb.hit PROVE cb.id <= id
          BY <2>6, <3>2, <4>1
        <5> QED
          BY <2>6, <2>7, <2>9, <3>2, <5>1, <5>2
      <4>2. CASE x \in seen
        BY <2>5, <3>6, <4>2
      <4> QED
        BY <4>1, <4>2
    <3>7. cb.hit => cb.id \in all /\ cb.cut = d[cb.id]
      BY <2>5
    <3> QED
      BY <1>1, <2>1, <2>2, <2>5, <3>1, <3>4, <3>5, <3>6, <3>7 DEF RayKnows, Clear, d
  <2> QED
    BY <2>8, <2>9
<1> QED
  BY <1>5, <1>6

\* So does the broad phase, which passes over what is beyond the cut.
LEMMA RaySkipOK ==
  ASSUME QueryInv, NEW id \in left, RaySkip(id)
  PROVE  RayKnows(asked.met \ left)'
<1> DEFINE seen == asked.met \ left
           d == asked.distance
           n == Cardinality(seen)
<1>1. /\ at = "ray" /\ asked' = asked /\ left' = left \ {id} /\ cb' = cb
      /\ asked.met \in SUBSET Bodies /\ d \in [Bodies -> Distances] /\ left \in SUBSET Bodies
      /\ RayKnows(seen)
  BY DEF QueryInv, RayInv, RaySkip
<1>2. /\ id \notin seen /\ IsFiniteSet(seen) /\ n \in Nat
      /\ seen \in SUBSET Bodies
  <2>1. seen \in SUBSET Bodies
    BY <1>1
  <2> QED
    BY <2>1, QueryConstants, FS_Subset, FS_CardinalityType
<1>3. \A x \in Bodies : d[x] \in Int /\ d[x] <= RayLength /\ x \in Int
  BY <1>1, QueryConstants DEF Distances
<1>4. id \in Bodies
  BY <1>1
<1>5. CASE id \notin asked.met
  <2>1. (asked.met \ left)' = seen
    BY <1>1, <1>5
  <2> QED
    BY <1>1, <2>1 DEF RayKnows, Clear
<1>6. CASE id \in asked.met
  <2>1. (asked.met \ left)' = seen \cup {id} /\ cb.cut < d[id]
    BY <1>1, <1>6 DEF RaySkip
  <2>2. Cardinality(seen \cup {id}) = n + 1
    BY <1>2, FS_AddElement
  <2>3. /\ Spread(n) \in Int /\ Spread(n + 1) = Spread(n) + (Precision - 1)
        /\ Spread(n + 1) >= 0 /\ Precision \in Int /\ Precision >= 1 /\ RayLength \in Int
    BY <1>2, SpreadGrows, QueryConstants
  <2>4. /\ cb.cut \in 0..RayLength
        /\ cb.hit = (\E x \in seen : d[x] < RayLength)
        /\ ~cb.hit => cb.cut = RayLength
        /\ cb.hit => cb.id \in seen /\ cb.cut = d[cb.id]
        /\ \A x \in seen : cb.cut <= d[x] + Spread(n)
        /\ (\A a, b \in asked.met : Clear(a, b)) =>
             \A x \in seen : \/ cb.cut < d[x]
                             \/ cb.cut = d[x] /\ (cb.hit => cb.id <= x)
    BY <1>1 DEF RayKnows
  <2> HIDE DEF seen, n, d
  <2>5. cb.cut \in Int /\ d[id] \in Int /\ cb.hit
    BY <1>3, <1>4, <2>1, <2>3, <2>4
  <2>6. \A x \in seen \cup {id} : cb.cut <= d[x] + Spread(n + 1)
    <3>1. ASSUME NEW x \in seen PROVE cb.cut <= d[x] + Spread(n + 1)
      <4>1. cb.cut <= d[x] + Spread(n) /\ d[x] \in Int
        BY <1>2, <1>3, <2>4
      <4> QED
        BY <2>3, <2>5, <4>1
    <3>2. cb.cut <= d[id] + Spread(n + 1)
      BY <2>1, <2>3, <2>5
    <3> QED
      BY <3>1, <3>2
  <2> QED
    BY <1>1, <2>1, <2>2, <2>4, <2>5, <2>6 DEF RayKnows, Clear, d
<1> QED
  BY <1>5, <1>6

LEMMA RayStarts ==
  ASSUME QueryInv, at = "idle", NEW met \in SUBSET Bodies,
         NEW distance \in [Bodies -> Distances], RayTestFirstHit(met, distance)
  PROVE  QueryInv'
<1>1. /\ at' = "ray" /\ asked'.met = met /\ asked'.distance = distance
      /\ left' = Bodies /\ cb' = NoRayHit
  BY DEF RayTestFirstHit, QueryInv, QueryTyped
<1>2. (asked.met \ left)' = {}
  BY <1>1
<1>3. RayKnows(asked.met \ left)'
  <2>1. cb'.hit = FALSE /\ cb'.cut = RayLength /\ RayLength \in 0..RayLength
    BY <1>1, QueryConstants DEF NoRayHit
  <2> QED
    BY <1>2, <2>1 DEF RayKnows
<1> QED
  BY <1>1, <1>3 DEF QueryInv, QueryTyped, RayInv, SphereInv, SweepInv, GroundInv,
                    MovementIgnoresOrder

LEMMA RayStepOK ==
  ASSUME QueryInv, NEW id \in left, RayCallback(id) \/ RaySkip(id)
  PROVE  QueryInv'
<1>1. RayKnows(asked.met \ left)'
  BY RayCallbackOK, RaySkipOK
<1>2. at = "ray" /\ at' = "ray" /\ asked' = asked /\ left' \subseteq left
  BY DEF RayCallback, RaySkip
<1>3. RayInv'
  BY <1>1, <1>2 DEF QueryInv, RayInv
<1> QED
  BY <1>2, <1>3 DEF QueryInv, QueryTyped, SphereInv, SweepInv, GroundInv, MovementIgnoresOrder

\* At the end everything that the ray meets has been seen.
LEMMA RayEnds == QueryInv => RaysHitTheNearest
<1> SUFFICES ASSUME QueryInv, at = "ray", left = {}
             PROVE  RaysHitTheNearest
  BY DEF RaysHitTheNearest
<1>1. asked.met \in SUBSET Bodies /\ asked.met \ left = asked.met
  BY DEF QueryInv, RayInv
<1>2. RayKnows(asked.met)
  BY <1>1 DEF QueryInv, RayInv
<1> QED
  BY <1>2 DEF RayKnows, RaysHitTheNearest, Spread, Clear

-------------------------------------------------------------------------------
(* Spheres. *)

LEMMA SphereStarts ==
  ASSUME QueryInv, at = "idle", NEW touching \in SUBSET Bodies, NEW near \in SUBSET Bodies,
         NEW order \in Orders(touching), TestForEntitiesSphere(touching, near, order)
  PROVE  QueryInv'
<1>1. /\ at' = "sphere" /\ asked'.touching = touching /\ asked'.near = near
      /\ vector' = order /\ count' = Len(order) /\ index' = 1 /\ left' = {}
  BY DEF TestForEntitiesSphere, QueryInv, QueryTyped
<1>2. /\ order \in Seq(touching) /\ Len(order) \in Nat
      /\ \A i, j \in 1..Len(order) : order[i] = order[j] => i = j
      /\ \A id \in touching : \E i \in 1..Len(order) : order[i] = id
  BY OrdersOK
<1>3. 1 \in 1..Len(order) + 1 /\ \A i \in 1..Len(order) : ~(i < 1)
  BY <1>2
<1>4. SphereInv'
  BY <1>1, <1>2, <1>3 DEF SphereInv
<1> QED
  BY <1>1, <1>4 DEF QueryInv, QueryTyped, RayInv, SweepInv, GroundInv, MovementIgnoresOrder

LEMMA PrefixIs ==
  ASSUME NEW S, NEW v \in Seq(S), NEW m \in Nat, m <= Len(v)
  PROVE  /\ SubSeq(v, 1, m) \in Seq(S) /\ Len(SubSeq(v, 1, m)) = m
         /\ \A i \in 1..m : SubSeq(v, 1, m)[i] = v[i]
  OBVIOUS

\* An element gives its place to the last one.
LEMMA Replaced ==
  ASSUME NEW S, NEW v \in Seq(S), NEW k \in 1..Len(v)
  PROVE  LET f == Front([v EXCEPT ![k] = Last(v)])
         IN  /\ f \in Seq(S) /\ Len(f) = Len(v) - 1
             /\ \A i \in 1..Len(v) - 1 : f[i] = IF i = k THEN v[Len(v)] ELSE v[i]
<1> DEFINE w == [v EXCEPT ![k] = Last(v)]
           m == Len(v) - 1
<1>1. Len(v) \in Nat /\ DOMAIN v = 1..Len(v) /\ Last(v) = v[Len(v)] /\ Last(v) \in S
  BY DEF Last
<1>2. w \in Seq(S) /\ Len(w) = Len(v) /\ DOMAIN w = 1..Len(v)
  <2>1. w \in [1..Len(v) -> S]
    BY <1>1
  <2> QED
    BY <1>1, <2>1
<1>3. \A i \in 1..Len(v) : w[i] = IF i = k THEN v[Len(v)] ELSE v[i]
  BY <1>1
<1>4. m \in Nat /\ m <= Len(w) /\ \A i \in 1..m : i \in 1..Len(v)
  BY <1>1, <1>2
<1>5. Front(w) = SubSeq(w, 1, m)
  BY <1>2 DEF Front
<1> HIDE DEF w, m
<1>6. /\ Front(w) \in Seq(S) /\ Len(Front(w)) = m
      /\ \A i \in 1..m : Front(w)[i] = w[i]
  BY <1>2, <1>4, <1>5, PrefixIs
<1>7. /\ Front(w) \in Seq(S) /\ Len(Front(w)) = m
      /\ \A i \in 1..m : Front(w)[i] = IF i = k THEN v[Len(v)] ELSE v[i]
  BY <1>3, <1>4, <1>6
<1> QED
  BY <1>7 DEF w, m

LEMMA RemoveFarOK ==
  ASSUME QueryInv, RemoveFar
  PROVE  QueryInv'
<1> DEFINE v == vector
           n == Len(vector)
<1>1. /\ at = "sphere" /\ at' = "sphere" /\ asked' = asked /\ left' = left
      /\ v \in Seq(asked.touching) /\ n \in Nat /\ DOMAIN v = 1..n
      /\ count = n /\ index \in 1..n
      /\ \A i, j \in 1..n : v[i] = v[j] => i = j
      /\ \A i \in 1..n : i < index => v[i] \in asked.near
      /\ \A id \in asked.touching \cap asked.near : \E i \in 1..n : v[i] = id
  <2>1. /\ at = "sphere" /\ SphereInv /\ index <= count /\ at' = at /\ asked' = asked
        /\ left' = left
    BY DEF QueryInv, RemoveFar
  <2>2. /\ v \in Seq(asked.touching) /\ n \in Nat /\ count = n
        /\ index \in 1..n + 1
    BY <2>1 DEF SphereInv
  <2>3. index \in 1..n
    <3> HIDE DEF n
    <3> QED
      BY <2>1, <2>2
  <2> QED
    BY <2>1, <2>2, <2>3 DEF SphereInv
<1>2. CASE v[index] \in asked.near
  <2>1. index' = index + 1 /\ vector' = v /\ count' = count
    BY <1>2 DEF RemoveFar
  <2>2. index + 1 \in 1..n + 1
    BY <1>1
  <2>3. \A i \in 1..n : i < index + 1 => v[i] \in asked.near
    <3>1. \A i \in 1..n : i < index + 1 => i < index \/ i = index
      BY <1>1
    <3> QED
      BY <1>1, <1>2, <3>1
  <2> QED
    BY <1>1, <2>1, <2>2, <2>3 DEF QueryInv, QueryTyped, RayInv, SphereInv, SweepInv, GroundInv,
                                  MovementIgnoresOrder
<1>3. CASE v[index] \notin asked.near
  <2> DEFINE f == vector'
  <2>1. n \in Int /\ index \in Int /\ 1 <= index /\ index <= n
    <3> HIDE DEF n
    <3> QED
      BY <1>1
  <2>2. vector' = Front([v EXCEPT ![index] = Last(v)]) /\ count' = count - 1 /\ index' = index
    BY <1>3 DEF RemoveFar
  <2>3. /\ f \in Seq(asked.touching) /\ Len(f) = n - 1
        /\ \A i \in 1..n - 1 : f[i] = IF i = index THEN v[n] ELSE v[i]
    <3>1. index \in 1..Len(v) /\ v \in Seq(asked.touching)
      BY <1>1
    <3> DEFINE g == Front([v EXCEPT ![index] = Last(v)])
    <3>2. f = g
      BY <2>2
    <3>3. /\ g \in Seq(asked.touching) /\ Len(g) = Len(v) - 1
          /\ \A i \in 1..Len(v) - 1 : g[i] = IF i = index THEN v[Len(v)] ELSE v[i]
      BY <3>1, Replaced
    <3> HIDE DEF f, g
    <3> QED
      BY <3>2, <3>3
  <2> HIDE DEF f, v, n
  <2>4. \A i \in 1..n - 1 : i \in 1..n /\ f[i] = IF i = index THEN v[n] ELSE v[i]
    BY <2>1, <2>3
  <2>5. index \in 1..(n - 1) + 1 /\ n \in 1..n
    BY <2>1
  <2>6. \A i, j \in 1..n - 1 : f[i] = f[j] => i = j
    <3>1. SUFFICES ASSUME NEW i \in 1..n - 1, NEW j \in 1..n - 1, f[i] = f[j] PROVE i = j
      OBVIOUS
    <3>2. /\ i \in 1..n /\ j \in 1..n /\ i # n /\ j # n
          /\ f[i] = (IF i = index THEN v[n] ELSE v[i])
          /\ f[j] = (IF j = index THEN v[n] ELSE v[j])
      <4>1. i # n /\ j # n
        BY <2>1
      <4> QED
        BY <2>4, <4>1
    <3> QED
      BY <1>1, <2>5, <3>1, <3>2
  <2>7. \A i \in 1..n - 1 : i < index => f[i] \in asked.near
    <3>1. \A i \in 1..n - 1 : i < index => i # index /\ i \in 1..n
      BY <2>1
    <3> QED
      BY <1>1, <2>4, <3>1
  <2>8. ASSUME NEW id \in asked.touching \cap asked.near
        PROVE  \E i \in 1..n - 1 : f[i] = id
    <3>1. PICK i \in 1..n : v[i] = id
      BY <1>1
    <3>2. i # index
      BY <1>3, <3>1
    <3>3. CASE i = n
      <4>1. index \in 1..n - 1
        BY <2>1, <3>2, <3>3
      <4> QED
        BY <2>4, <3>1, <3>3, <4>1
    <3>4. CASE i # n
      <4>1. i \in 1..n - 1
        BY <2>1, <3>1, <3>4
      <4> QED
        BY <2>4, <3>1, <3>2, <4>1
    <3> QED
      BY <3>3, <3>4
  <2>9. SphereInv'
    <3>1. Len(vector') = n - 1 /\ count' = n - 1
      BY <1>1, <2>2, <2>3 DEF f
    <3> QED
      BY <1>1, <2>2, <2>3, <2>5, <2>6, <2>7, <2>8, <3>1 DEF SphereInv, f
  <2> QED
    BY <1>1, <2>9 DEF QueryInv, QueryTyped, RayInv, SweepInv, GroundInv, MovementIgnoresOrder
<1> QED
  BY <1>2, <1>3

\* At the end all of the vector has been looked at.
LEMMA SphereEnds == QueryInv => SpheresHoldWhoIsNear
<1> SUFFICES ASSUME QueryInv, at = "sphere", index > count
             PROVE  SpheresHoldWhoIsNear
  BY DEF SpheresHoldWhoIsNear
<1>1. /\ vector \in Seq(asked.touching) /\ Len(vector) \in Nat /\ DOMAIN vector = 1..Len(vector)
      /\ count = Len(vector) /\ index \in 1..Len(vector) + 1
      /\ \A i, j \in 1..Len(vector) : vector[i] = vector[j] => i = j
      /\ \A i \in 1..Len(vector) : i < index => vector[i] \in asked.near
      /\ \A id \in asked.touching \cap asked.near : \E i \in 1..Len(vector) : vector[i] = id
  BY DEF QueryInv, SphereInv
<1>2. \A i \in 1..Len(vector) : i < index
  BY <1>1
<1>3. Range(vector) \subseteq asked.touching \cap asked.near
  BY <1>1, <1>2 DEF Range
<1>4. asked.touching \cap asked.near \subseteq Range(vector)
  BY <1>1 DEF Range
<1>5. IsInjective(vector)
  BY <1>1 DEF IsInjective
<1> QED
  BY <1>1, <1>3, <1>4, <1>5 DEF SpheresHoldWhoIsNear

-------------------------------------------------------------------------------
(* Movement. *)

LEMMA AskedTypes ==
  ASSUME MovementAsked
  PROVE  /\ Len(vector) \in Nat /\ DOMAIN vector = 1..Len(vector)
         /\ \A i \in 1..Len(vector) :
              /\ asked.obstacle[vector[i]] \in Nat /\ asked.drop[vector[i]] \in Int
              /\ Within(asked.drop[vector[i]]) <=>
                   asked.drop[vector[i]] \in -(StepHeight + Slack)..StepHeight
         /\ Range(vector) = {vector[i] : i \in 1..Len(vector)}
<1>1. Len(vector) \in Nat /\ DOMAIN vector = 1..Len(vector)
  BY DEF MovementAsked
<1>2. -(StepHeight + Slack) \in Int /\ StepHeight + Slack + 1 \in Int /\ Way + 1 \in Nat
  BY QueryConstants
<1>3. ASSUME NEW i \in 1..Len(vector)
      PROVE  /\ asked.obstacle[vector[i]] \in Nat /\ asked.drop[vector[i]] \in Int
             /\ Within(asked.drop[vector[i]]) <=>
                  asked.drop[vector[i]] \in -(StepHeight + Slack)..StepHeight
  <2>1. asked.obstacle[vector[i]] \in 0..Way + 1
    BY DEF MovementAsked, Obstacles
  <2>2. asked.drop[vector[i]] \in -(StepHeight + Slack)..(StepHeight + Slack + 1)
    BY DEF MovementAsked, Heights
  <2>3. asked.obstacle[vector[i]] \in Nat /\ asked.drop[vector[i]] \in Int
    BY <1>2, <2>1, <2>2
  <2> QED
    BY <1>2, <2>3, QueryConstants DEF Within
<1> QED
  BY <1>1, <1>3 DEF Range

\* After the first loop the way is that to the nearest obstacle.
LEMMA SweptIsAll ==
  ASSUME MovementAsked, Swept(Len(vector))
  PROVE  /\ moved.way = Min({asked.obstacle[id] : id \in Range(vector)} \cup {Way})
         /\ moved.collision = \E id \in Range(vector) : asked.obstacle[id] <= Way
         /\ moved.onGround = FALSE
<1> DEFINE S == {asked.obstacle[id] : id \in Range(vector)} \cup {Way}
<1>1. /\ Range(vector) = {vector[i] : i \in 1..Len(vector)}
      /\ \A i \in 1..Len(vector) : asked.obstacle[vector[i]] \in Nat
  BY AskedTypes
<1>2. S \in SUBSET Int
  BY <1>1, QueryConstants
<1>3. moved.way \in S /\ \A x \in S : moved.way <= x
  BY <1>1, QueryConstants DEF Swept
<1>4. moved.way = Min(S)
  <2> HIDE DEF S
  <2> QED
    BY <1>2, <1>3, MinIs
<1> QED
  BY <1>1, <1>4 DEF Swept

LEMMA MovementStarts ==
  ASSUME QueryInv, at = "idle", NEW found \in SUBSET Statics,
         NEW order \in Orders(found), NEW obstacle \in [found -> Obstacles],
         NEW drop \in [found -> Heights], NEW walkable \in SUBSET found,
         NEW wasOnGround \in BOOLEAN, NEW direction \in {"up", "level", "down"},
         TestCollisionMovement(obstacle, drop, walkable, wasOnGround, direction, order)
  PROVE  QueryInv'
<1>1. /\ at' = IF order = <<>> THEN "moved" ELSE "sweep"
      /\ asked'.obstacle = obstacle /\ asked'.drop = drop
      /\ asked'.wasOnGround = wasOnGround /\ asked'.direction = direction
      /\ vector' = order /\ index' = 1 /\ left' = {}
      /\ moved'.way = Way /\ moved'.collision = FALSE /\ moved'.drop = 0 /\ moved'.on = {}
      /\ moved'.onGround = FALSE
  BY DEF TestCollisionMovement, QueryInv, QueryTyped, NotMoved
<1>2. order \in Seq(found) /\ Len(order) \in Nat /\ DOMAIN order = 1..Len(order)
  <2>1. found \in SUBSET Bodies
    BY QueryConstants
  <2> QED
    BY <2>1, OrdersOK
<1>3. order \in Seq(Statics) /\ \A i \in 1..Len(order) : order[i] \in found
  BY <1>2
<1>4. MovementAsked'
  BY <1>1, <1>3 DEF MovementAsked
<1>5. CASE order # <<>>
  <2>1. 1 \in 1..Len(order) + 1 /\ 1..(1 - 1) = {} /\ Way \in 0..Way
    BY <1>2, QueryConstants
  <2>2. Swept(index - 1)'
    BY <1>1, <2>1 DEF Swept
  <2>3. moved' \in Results
    <3>1. moved' = NotMoved
      BY DEF TestCollisionMovement, QueryInv, QueryTyped
    <3>2. NotMoved \in Results
      BY QueryConstants DEF NotMoved, Results
    <3> QED
      BY <3>1, <3>2
  <2>4. SweepInv'
    BY <1>1, <1>4, <2>1, <2>2, <2>3 DEF SweepInv
  <2> QED
    BY <1>1, <1>5, <2>4 DEF QueryInv, QueryTyped, RayInv, SphereInv, GroundInv,
                            MovementIgnoresOrder
<1>6. CASE order = <<>>
  <2>1. Range(vector') = {}
    BY <1>1, <1>6 DEF Range
  <2>2. {Way} \in SUBSET Int /\ Min({Way}) = Way
    BY QueryConstants, MinIs
  <2>3. {asked'.obstacle[id] : id \in {}} \cup {Way} = {Way}
    OBVIOUS
  <2>4. MovementIgnoresOrder'
    BY <1>1, <2>1, <2>2, <2>3 DEF MovementIgnoresOrder
  <2> QED
    BY <1>1, <1>6, <2>4 DEF QueryInv, QueryTyped, RayInv, SphereInv, SweepInv, GroundInv
<1> QED
  BY <1>5, <1>6

LEMMA SweepOK ==
  ASSUME QueryInv, Sweep
  PROVE  QueryInv'
<1> DEFINE n == asked.obstacle[vector[index]]
<1>1. /\ at = "sweep" /\ at' = "sweep" /\ asked' = asked /\ vector' = vector /\ left' = left
      /\ index' = index + 1 /\ index <= Len(vector) /\ index \in 1..Len(vector) + 1
      /\ MovementAsked /\ Swept(index - 1) /\ moved.drop = 0 /\ moved.on = {}
      /\ moved \in Results
      /\ moved' = IF n <= moved.way THEN [moved EXCEPT !.way = n, !.collision = TRUE] ELSE moved
  BY DEF Sweep, QueryInv, SweepInv
<1>2. Len(vector) \in Nat /\ \A i \in 1..Len(vector) : asked.obstacle[vector[i]] \in Nat
  BY <1>1, AskedTypes
<1>3. /\ index \in 1..Len(vector) /\ index + 1 \in 1..Len(vector) + 1
      /\ 1..(index + 1) - 1 = 1..(index - 1) \cup {index}
      /\ 1..(index - 1) \subseteq 1..Len(vector)
  BY <1>1, <1>2
<1>4. n \in Nat /\ moved.way \in Nat /\ moved.way <= Way /\ Way \in Nat
  BY <1>1, <1>2, <1>3, QueryConstants DEF Swept
<1>5. /\ \A i \in 1..(index - 1) : moved.way <= asked.obstacle[vector[i]]
      /\ moved.way = Way \/ \E i \in 1..(index - 1) : moved.way = asked.obstacle[vector[i]]
      /\ moved.collision = (\E i \in 1..(index - 1) : asked.obstacle[vector[i]] <= Way)
      /\ moved.onGround = FALSE
  BY <1>1 DEF Swept
<1>6. SUFFICES Swept(index - 1)' /\ moved' \in Results /\ moved'.drop = 0 /\ moved'.on = {}
  <2>1. MovementAsked'
    BY <1>1 DEF MovementAsked
  <2> QED
    BY <1>1, <1>3, <2>1 DEF QueryInv, QueryTyped, RayInv, SphereInv, SweepInv, GroundInv,
                            MovementIgnoresOrder
<1>7. CASE n <= moved.way
  <2>1. moved' = [moved EXCEPT !.way = n, !.collision = TRUE] /\ n \in Int
    BY <1>1, <1>4, <1>7
  <2> HIDE DEF n
  <2>2. /\ moved'.way = n /\ moved'.collision = TRUE /\ moved'.onGround = FALSE
        /\ moved'.drop = 0 /\ moved'.on = {} /\ moved' \in Results
    BY <1>1, <1>5, <2>1 DEF Results
  <2>3. n \in 0..Way /\ \A i \in 1..(index - 1) : n <= asked.obstacle[vector[i]]
    BY <1>2, <1>3, <1>4, <1>5, <1>7
  <2>4. n = asked.obstacle[vector[index]] /\ n <= Way
    BY <1>4, <1>7 DEF n
  <2>5. \A i \in 1..(index' - 1) : n <= asked.obstacle[vector[i]]
    BY <1>1, <1>3, <2>3, <2>4
  <2>6. index \in 1..(index' - 1) /\ asked.obstacle[vector[index]] = n
    BY <1>1, <1>3, <2>4
  <2>7. /\ \E i \in 1..(index' - 1) : n = asked.obstacle[vector[i]]
        /\ \E i \in 1..(index' - 1) : asked.obstacle[vector[i]] <= Way
    BY <2>4, <2>6
  <2>8. Swept(index - 1)'
    BY <1>1, <2>2, <2>3, <2>5, <2>7 DEF Swept
  <2> QED
    BY <2>2, <2>8
<1>8. CASE ~(n <= moved.way)
  <2>1. moved' = moved
    BY <1>1, <1>8
  <2>2. moved.way <= n /\ (n <= Way => moved.way # Way)
    BY <1>4, <1>8
  <2>3. n <= Way => \E i \in 1..(index - 1) : asked.obstacle[vector[i]] <= Way
    BY <1>4, <1>5, <2>2
  <2>4. Swept(index - 1)'
    BY <1>1, <1>3, <1>5, <2>1, <2>2, <2>3 DEF Swept
  <2> QED
    BY <1>1, <2>1, <2>4
<1> QED
  BY <1>7, <1>8

LEMMA TestOnGroundOK ==
  ASSUME QueryInv, TestOnGround
  PROVE  QueryInv'
<1>1. /\ at = "sweep" /\ asked' = asked /\ vector' = vector /\ left' = left
      /\ MovementAsked /\ index \in 1..Len(vector) + 1 /\ index > Len(vector)
      /\ Swept(index - 1) /\ moved.drop = 0 /\ moved.on = {} /\ moved \in Results
  BY DEF TestOnGround, QueryInv, SweepInv
<1>2. Len(vector) \in Nat
  BY <1>1, AskedTypes
<1>3. index - 1 = Len(vector)
  BY <1>1, <1>2
<1>4. CASE asked.direction = "up" /\ ~asked.wasOnGround
  <2>1. at' = "moved" /\ index' = index /\ moved' = moved
    BY <1>4 DEF TestOnGround
  <2>2. MovementIgnoresOrder
    BY DEF QueryInv
  <2>3. MovementIgnoresOrder'
    <3>1. /\ moved.way = Min({asked.obstacle[id] : id \in Range(vector)} \cup {Way})
          /\ moved.collision = \E id \in Range(vector) : asked.obstacle[id] <= Way
          /\ moved.onGround = FALSE
      BY <1>1, <1>3, SweptIsAll
    <3> QED
      BY <1>1, <1>4, <2>1, <3>1 DEF MovementIgnoresOrder
  <2> QED
    BY <1>1, <2>1, <2>3 DEF QueryInv, QueryTyped, RayInv, SphereInv, SweepInv, GroundInv
<1>5. CASE ~(asked.direction = "up" /\ ~asked.wasOnGround)
  <2>1. at' = "ground" /\ index' = 1 /\ moved' = [moved EXCEPT !.drop = StepHeight]
    BY <1>5 DEF TestOnGround
  <2>2. /\ moved' \in Results /\ moved'.way = moved.way /\ moved'.collision = moved.collision
        /\ moved'.on = {} /\ moved'.onGround = moved.onGround /\ moved'.drop = StepHeight
    BY <1>1, <2>1, QueryConstants DEF Results
  <2>3. MovementAsked' /\ Swept(Len(vector))'
    BY <1>1, <1>3, <2>2 DEF MovementAsked, Swept
  <2>4. 1 \in 1..Len(vector) + 1 /\ StepHeight <= StepHeight /\ \A i \in 1..Len(vector) : ~(i < 1)
    BY <1>2, QueryConstants
  <2>5. GroundInv'
    BY <1>1, <1>5, <2>1, <2>2, <2>3, <2>4 DEF GroundInv
  <2> QED
    BY <1>1, <2>1, <2>5 DEF QueryInv, QueryTyped, RayInv, SphereInv, SweepInv, MovementIgnoresOrder
<1> QED
  BY <1>4, <1>5

LEMMA GroundOK ==
  ASSUME QueryInv, Ground
  PROVE  QueryInv'
<1> DEFINE d == asked.drop[vector[index]]
           e(i) == asked.drop[vector[i]]
<1>1. /\ at = "ground" /\ at' = "ground" /\ asked' = asked /\ vector' = vector /\ left' = left
      /\ index' = index + 1 /\ index <= Len(vector) /\ index \in 1..Len(vector) + 1
      /\ MovementAsked /\ moved \in Results /\ Swept(Len(vector))
      /\ asked.wasOnGround \/ asked.direction # "up"
      /\ moved.drop <= StepHeight /\ (moved.on = {} => moved.drop = StepHeight)
      /\ \A i \in 1..Len(vector) : i < index /\ Within(e(i)) => moved.on # {} /\ moved.drop <= e(i)
      /\ moved.on # {} => \E i \in 1..Len(vector) :
           /\ i < index /\ moved.on = {vector[i]} /\ moved.drop = e(i) /\ Within(moved.drop)
      /\ moved' = IF Higher(d) THEN [moved EXCEPT !.drop = d, !.on = {vector[index]}] ELSE moved
  BY DEF Ground, QueryInv, GroundInv
<1>2. Len(vector) \in Nat /\ \A i \in 1..Len(vector) : e(i) \in Int /\ vector[i] \in Statics
  BY <1>1, AskedTypes DEF MovementAsked
<1>3. /\ index \in 1..Len(vector) /\ index + 1 \in 1..Len(vector) + 1
      /\ \A i \in 1..Len(vector) : i < index + 1 => i < index \/ i = index
      /\ \A i \in 1..Len(vector) : i < index => i < index + 1
      /\ index < index + 1
  BY <1>1, <1>2
<1>4. /\ d \in Int /\ moved.drop \in Int
      /\ Higher(d) <=> Within(d) /\ d <= moved.drop
  <2>1. d \in Int /\ moved.drop \in Int
    BY <1>1, <1>2, <1>3 DEF Results
  <2> HIDE DEF d
  <2> QED
    BY <1>1, <2>1, QueryConstants DEF Higher, Within, Magnitude
<1>5. MovementAsked'
  BY <1>1 DEF MovementAsked
<1>6. SUFFICES GroundInv'
  BY <1>1 DEF QueryInv, QueryTyped, RayInv, SphereInv, SweepInv, MovementIgnoresOrder
<1>7. CASE Higher(d)
  <2>1. /\ moved'.way = moved.way /\ moved'.collision = moved.collision
        /\ moved'.onGround = moved.onGround /\ moved' \in Results
        /\ moved'.on = {vector[index]} /\ moved'.drop = d
    <3>1. moved' = [moved EXCEPT !.drop = d, !.on = {vector[index]}]
      BY <1>1, <1>7
    <3>2. {vector[index]} \in SUBSET Statics
      BY <1>2, <1>3
    <3> HIDE DEF d
    <3> QED
      BY <1>1, <1>4, <3>1, <3>2 DEF Results
  <2>2. Within(d) /\ d <= moved.drop /\ d <= StepHeight
    <3> HIDE DEF d
    <3> QED
      BY <1>1, <1>4, <1>7, QueryConstants
  <2>3. Swept(Len(vector))'
    BY <1>1, <2>1 DEF Swept
  <2>4. ASSUME NEW i \in 1..Len(vector), i < index + 1, Within(e(i))
        PROVE  d <= e(i)
    <3>1. CASE i = index
      BY <1>4, <3>1
    <3>2. CASE i < index
      <4>1. moved.drop <= e(i) /\ e(i) \in Int
        BY <1>1, <1>2, <2>4, <3>2
      <4> HIDE DEF d, e
      <4> QED
        BY <1>4, <2>2, <4>1
    <3> QED
      BY <1>3, <2>4, <3>1, <3>2
  <2> QED
    BY <1>1, <1>3, <1>5, <2>1, <2>2, <2>3, <2>4 DEF GroundInv
<1>8. CASE ~Higher(d)
  <2>1. moved' = moved
    BY <1>1, <1>8
  <2>2. ASSUME Within(d) PROVE moved.on # {} /\ moved.drop <= d
    <3>1. ~(d <= moved.drop)
      BY <1>4, <1>8, <2>2
    <3>2. d <= StepHeight
      BY <2>2 DEF Within
    <3> HIDE DEF d
    <3> QED
      BY <1>1, <1>4, <3>1, <3>2
  <2> QED
    BY <1>1, <1>3, <1>5, <2>1, <2>2 DEF GroundInv, Swept
<1> QED
  BY <1>7, <1>8

LEMMA LandOK ==
  ASSUME QueryInv, Land
  PROVE  QueryInv'
<1> DEFINE N == 1..Len(vector)
           e(i) == asked.drop[vector[i]]
           found == Range(vector)
           within == {id \in found : asked.drop[id] \in -(StepHeight + Slack)..StepHeight}
           highest == {id \in within :
                         \A other \in within : asked.drop[id] <= asked.drop[other]}
           may(x) == \/ asked.wasOnGround \/ asked.direction = "level"
                     \/ asked.direction = "down" /\ x <= 0
           landing == {id \in highest : may(asked.drop[id])}
<1>1. /\ at = "ground" /\ at' = "moved" /\ asked' = asked /\ vector' = vector /\ left' = left
      /\ index > Len(vector) /\ index \in 1..Len(vector) + 1
      /\ MovementAsked /\ moved \in Results /\ Swept(Len(vector))
      /\ asked.wasOnGround \/ asked.direction # "up"
      /\ \A i \in N : i < index /\ Within(e(i)) => moved.on # {} /\ moved.drop <= e(i)
      /\ moved.on # {} => \E i \in N :
           /\ i < index /\ moved.on = {vector[i]} /\ moved.drop = e(i) /\ Within(moved.drop)
      /\ moved' = [moved EXCEPT !.collision = moved.collision \/ Lands, !.onGround = Lands,
                                !.drop = IF Lands THEN moved.drop ELSE 0]
  BY DEF Land, QueryInv, GroundInv
<1>2. /\ Len(vector) \in Nat /\ found = {vector[i] : i \in N}
      /\ \A i \in N : /\ e(i) \in Int /\ i < index
                      /\ Within(e(i)) <=> e(i) \in -(StepHeight + Slack)..StepHeight
  BY <1>1, AskedTypes
<1>3. /\ moved.way = Min({asked.obstacle[id] : id \in found} \cup {Way})
      /\ moved.collision = \E id \in found : asked.obstacle[id] <= Way
  BY <1>1, SweptIsAll
<1>4. /\ moved'.way = moved.way /\ moved'.collision = (moved.collision \/ Lands)
      /\ moved'.onGround = Lands /\ moved'.drop = IF Lands THEN moved.drop ELSE 0
  BY <1>1 DEF Results
<1>5. Lands <=> /\ moved.on # {} /\ moved.on \subseteq asked.walkable
                /\ may(moved.drop)
  BY <1>1 DEF Lands, MovementAsked
<1>6. Lands \in BOOLEAN /\ moved.collision \in BOOLEAN
  BY <1>3 DEF Lands
<1>7. \A id \in within : moved.on # {} /\ moved.drop <= asked.drop[id]
  <2>1. SUFFICES ASSUME NEW id \in within
                 PROVE  moved.on # {} /\ moved.drop <= asked.drop[id]
    OBVIOUS
  <2>2. PICK i \in N : id = vector[i]
    BY <1>2
  <2>3. Within(e(i)) /\ i < index
    BY <1>2, <2>2
  <2> QED
    BY <1>1, <2>2, <2>3
<1>8. ASSUME moved.on # {}
      PROVE  \E id \in highest : moved.on = {id} /\ moved.drop = asked.drop[id]
  <2>1. PICK i \in N : moved.on = {vector[i]} /\ moved.drop = e(i) /\ Within(moved.drop)
    BY <1>1, <1>8
  <2>2. vector[i] \in within
    BY <1>2, <2>1
  <2>3. vector[i] \in highest
    BY <1>7, <2>1, <2>2
  <2> QED
    BY <2>1, <2>3
<1>9. ASSUME NEW x \in highest, NEW y \in highest
      PROVE  asked.drop[x] = asked.drop[y]
  <2>1. asked.drop[x] \in Int /\ asked.drop[y] \in Int
    BY QueryConstants
  <2>2. asked.drop[x] <= asked.drop[y] /\ asked.drop[y] <= asked.drop[x]
    OBVIOUS
  <2> QED
    BY <2>1, <2>2
<1>10. ASSUME Lands
       PROVE  \E id \in landing \cap asked.walkable : moved.drop = asked.drop[id]
  <2>1. PICK id \in highest : moved.on = {id} /\ moved.drop = asked.drop[id]
    BY <1>5, <1>8, <1>10
  <2> QED
    BY <1>5, <1>10, <2>1
<1>11. ASSUME landing # {}, landing \subseteq asked.walkable
       PROVE  Lands
  <2>1. PICK y \in highest : may(asked.drop[y])
    BY <1>11
  <2>2. moved.on # {}
    BY <1>7
  <2>3. PICK id \in highest : moved.on = {id} /\ moved.drop = asked.drop[id]
    BY <1>8, <2>2
  <2>4. may(moved.drop) /\ id \in landing
    BY <1>9, <2>1, <2>3
  <2> QED
    BY <1>5, <1>11, <2>2, <2>3, <2>4
<1>12. MovementIgnoresOrder'
  <2>1. /\ moved'.way = Min({asked.obstacle[id] : id \in found} \cup {Way})
        /\ moved'.onGround => \E id \in landing \cap asked.walkable : moved'.drop = asked.drop[id]
        /\ landing # {} /\ landing \subseteq asked.walkable => moved'.onGround
        /\ moved'.collision = (moved'.onGround \/ \E id \in found : asked.obstacle[id] <= Way)
        /\ ~moved'.onGround => moved'.drop = 0
    <3> HIDE DEF landing, found
    <3> QED
      BY <1>3, <1>4, <1>6, <1>10, <1>11
  <2> QED
    BY <1>1, <2>1 DEF MovementIgnoresOrder
<1> QED
  BY <1>1, <1>12 DEF QueryInv, QueryTyped, RayInv, SphereInv, SweepInv, GroundInv

LEMMA QueryStepOK ==
  ASSUME QueryInv, [QueryNext]_queryVars
  PROVE  QueryInv'
<1>1. CASE Ask
  BY <1>1, RayStarts, SphereStarts, MovementStarts DEF Ask
<1>2. CASE \E id \in left : RayCallback(id) \/ RaySkip(id)
  BY <1>2, RayStepOK
<1>3. CASE Return
  BY <1>3 DEF Return, QueryInv, QueryTyped, RayInv, SphereInv, SweepInv, GroundInv,
              MovementIgnoresOrder
<1>4. CASE UNCHANGED queryVars
  <2>1. QueryTyped'
    BY <1>4 DEF queryVars, QueryInv, QueryTyped
  <2>2. RayInv'
    BY <1>4 DEF queryVars, QueryInv, RayInv, RayKnows, Clear
  <2>3. SphereInv'
    BY <1>4 DEF queryVars, QueryInv, SphereInv
  <2>4. SweepInv'
    BY <1>4 DEF queryVars, QueryInv, SweepInv, MovementAsked, Swept
  <2>5. GroundInv'
    BY <1>4 DEF queryVars, QueryInv, GroundInv, MovementAsked, Swept
  <2>6. MovementIgnoresOrder'
    BY <1>4 DEF queryVars, QueryInv, MovementIgnoresOrder
  <2> QED
    BY <2>1, <2>2, <2>3, <2>4, <2>5, <2>6 DEF QueryInv
<1> QED
  BY <1>1, <1>2, <1>3, <1>4, RemoveFarOK, SweepOK, TestOnGroundOK, GroundOK, LandOK DEF QueryNext

LEMMA QueryInitOK == QueryInit => QueryInv
  BY DEF QueryInit, QueryInv, QueryTyped, RayInv, SphereInv, SweepInv, GroundInv,
         MovementIgnoresOrder

LEMMA QueryInvariant == QuerySpec => []QueryInv
  BY QueryInitOK, QueryStepOK, PTL DEF QuerySpec

\* A ray hits the nearest, to within the precision per candidate, in whatever order
\* the broad phase hands them out, whatever it passes over.
THEOREM RaysAreFaithful == QuerySpec => []RaysHitTheNearest
  BY QueryInvariant, RayEnds, PTL

\* A sphere holds exactly who is near, each once.
THEOREM SpheresAreExact == QuerySpec => []SpheresHoldWhoIsNear
  BY QueryInvariant, SphereEnds, PTL

\* A movement ends in the same place, on the same ground, in whatever order the
\* obstacles were found.
THEOREM MovementIsDetermined == QuerySpec => []MovementIgnoresOrder
<1>1. QueryInv => MovementIgnoresOrder
  BY DEF QueryInv
<1> QED
  BY <1>1, QueryInvariant, PTL

\* All queries together: the order in which the broad phase has its bodies decides
\* nothing but what the three properties leave open.
THEOREM AnswersStayRight == QuerySpec => []AnswersAreRight
  BY RaysAreFaithful, SpheresAreExact, MovementIsDetermined, PTL DEF AnswersAreRight
=============================================================================
