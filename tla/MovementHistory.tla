---------------------------- MODULE MovementHistory ----------------------------
(***************************************************************************)
(* Where a client shows another character: it keeps the states that the    *)
(* server has sent of it, by the tick they are for, and draws it between   *)
(* two of them (RealmClient, ComponentMovementHistory).  Updates are       *)
(* unreliable: they come in any order, twice or never.                     *)
(*                                                                         *)
(* A state is its position, which is a model value.  A time is a tick and  *)
(* a `part` of the next one in Parts-ths.                                  *)
(***************************************************************************)
EXTENDS Integers, Sequences, FiniteSets, FiniteSetsExt, SequencesExt

CONSTANTS
  HistoryLimit,  \* 50: a longer past is cut off
  HistoryKept,   \* 3: down to so many states before the present one
  UpdateDelay,   \* TICKS_UPDATE_DELAY
  Parts,
  Float(_),      \* external: the conversion of a time, in Parts-ths, to a float
  Significand,   \* 2^24: up to here floats have no gaps
  Positions,
  LastTick,      \* bound: the ticks of the server and of the client
  MaxBehind      \* bound: ticks that the client may be late

ASSUME HistoryAssumption ==
  /\ {HistoryKept, UpdateDelay, LastTick, MaxBehind} \subseteq Nat
  /\ HistoryLimit \in Nat /\ HistoryLimit >= HistoryKept
  /\ Parts \in Nat \ {0} /\ Significand \in Nat

AllTicks == 0..LastTick + UpdateDelay
Times == 0..(LastTick + UpdateDelay + 1) * Parts

\* Rounding keeps the order, and what has few enough digits: a small number of
\* Parts-ths, and a tick that is not that small.
ASSUME FloatAssumption ==
  /\ \A v, w \in Times : v <= w => Float(v) <= Float(w)
  /\ \A v \in Times : Float(v) \in Nat
  /\ \A v \in Times : v <= Significand => Float(v) = v /\ Float(-v) = -v
  /\ \A tick \in AllTicks : tick <= Significand => Float(tick * Parts) = tick * Parts

VARIABLES
  states,       \* ComponentMovementHistory::states of the character
  currentTick,  \* of the client's timer
  behind,       \* whole ticks since lastTick, -1 if that is yet to come
  (* history *)
  newest        \* of every tick for which a state has come, the one that came last

historyVars == <<states, currentTick, behind, newest>>

\* What the clock on the wall says, whether or not the timer has got that far.
Present == currentTick + behind

Entries == [tick : AllTicks, pos : Positions]

\* The last of the states that are not after a tick, 0 if none is.
LastUpTo(h, tick) == Max({i \in DOMAIN h : h[i].tick <= tick} \cup {0})

-------------------------------------------------------------------------------
(* Updates. *)

\* Mutant: states are taken to come in order.
Insert_Append(h, entry) ==
  IF h # <<>> /\ Last(h).tick = entry.tick
    THEN [h EXCEPT ![Len(h)] = entry]
    ELSE Append(h, entry)

\* AddNewAuthoritativeMovementState: a second state for a tick replaces the first.
Insert(h, entry) ==
  LET i == LastUpTo(h, entry.tick)
  IN  IF i > 0 /\ h[i].tick = entry.tick
        THEN [h EXCEPT ![i] = entry]
        ELSE InsertAt(h, i + 1, entry)

\* Mutant: the state before the present one goes as well.
Trim_Present(h, tick) ==
  LET i == LastUpTo(h, tick)
  IN  IF i > HistoryLimit + 1 /\ i < Len(h)
        THEN SubSeq(h, i + 1, Len(h))
        ELSE h

\* ExecuteMovementUpdate, which draws, cuts the past off.
Trim(h, tick) ==
  LET i == LastUpTo(h, tick)
  IN  IF i > HistoryLimit + 1 THEN SubSeq(h, i - HistoryKept, Len(h)) ELSE h

Learned(entry) ==
  [t \in DOMAIN newest \cup {entry.tick} |-> IF t = entry.tick THEN entry.pos ELSE newest[t]]

\* What the server says is for a little later.
Delayed(tick, pos) == [tick |-> tick + UpdateDelay, pos |-> pos]

\* UpdateEntity also draws, for the component of the current state.
UpdateEntities(tick, pos) ==
  /\ states' = Trim(Insert(states, Delayed(tick, pos)), Present)
  /\ newest' = Learned(Delayed(tick, pos))
  /\ UNCHANGED <<currentTick, behind>>

PlayAnimation(tick, pos) ==
  /\ states' = Insert(states, Delayed(tick, pos))
  /\ newest' = Learned(Delayed(tick, pos))
  /\ UNCHANGED <<currentTick, behind>>

\* The entity is removed, with its components, and spawned again some time later.
RemoveEntity ==
  /\ states' = <<>> /\ newest' = <<>>
  /\ UNCHANGED <<currentTick, behind>>

\* So are all entities, and the timer starts anew.
JoinRealm(tick) ==
  /\ states' = <<>> /\ newest' = <<>>
  /\ currentTick' = tick /\ behind' = 0

-------------------------------------------------------------------------------
(* Time. *)

\* Realm::RunOneEpoch does a tick that is due, or will be within two milliseconds.
RunOneEpoch ==
  IF behind >= 1 THEN currentTick' = currentTick + 1 /\ behind' = behind - 1
  ELSE \/ behind = 0 /\ currentTick' = currentTick + 1 /\ behind' = -1
       \/ UNCHANGED <<currentTick, behind>>

\* A frame of the client or of another character's node.
Epoch ==
  /\ RunOneEpoch
  /\ currentTick' <= LastTick
  /\ UNCHANGED <<states, newest>>

\* EntityPrefabScript::_process of the character's node.
Process ==
  /\ RunOneEpoch
  /\ currentTick' <= LastTick
  /\ states' = Trim(states, currentTick' + behind')
  /\ UNCHANGED newest

\* External: time goes on.
Elapse ==
  /\ behind < MaxBehind
  /\ behind' = behind + 1
  /\ UNCHANGED <<states, currentTick, newest>>

HistoryInit ==
  /\ states = <<>> /\ newest = <<>>
  /\ currentTick \in 0..LastTick /\ behind = 0

HistoryNext ==
  \/ \E tick \in 0..LastTick, pos \in Positions :
       UpdateEntities(tick, pos) \/ PlayAnimation(tick, pos)
  \/ RemoveEntity
  \/ \E tick \in 0..LastTick : JoinRealm(tick)
  \/ Epoch \/ Process \/ Elapse

HistorySpec == HistoryInit /\ [][HistoryNext]_historyVars

-------------------------------------------------------------------------------
(* Properties. *)

Still(pos) == [from |-> pos, to |-> pos, passed |-> 0, length |-> 1]

\* ExecuteMovementUpdate: between the states before and after the present, or at
\* the last one, or at the first.  The fraction is counted from currentTick, where
\* the present may be a tick before or more after it, and in floats.
Shown(part) ==
  LET i == LastUpTo(states, Present)
  IN  CASE i = 0 -> Still(states[1].pos)
        [] i = Len(states) -> Still(states[i].pos)
        [] OTHER ->
             [ from |-> states[i].pos, to |-> states[i + 1].pos,
               passed |-> Float(Float(Float(currentTick * Parts) + part)
                                  - Float(states[i].tick * Parts)),
               length |-> Float((states[i + 1].tick - states[i].tick) * Parts) ]

\* Where it should be, from all that has come.
Between(part) ==
  LET past == {t \in DOMAIN newest : t <= Present}
      future == DOMAIN newest \ past
  IN  CASE past = {} -> Still(newest[Min(future)])
        [] future = {} -> Still(newest[Max(past)])
        [] OTHER ->
             LET a == Max(past)
                 b == Min(future)
             IN  [ from |-> newest[a], to |-> newest[b],
                   passed |-> (currentTick - a) * Parts + part,
                   length |-> (b - a) * Parts ]

HistoryTypeOK ==
  /\ states \in Seq(Entries)
  /\ currentTick \in 0..LastTick /\ behind \in -1..MaxBehind
  /\ DOMAIN newest \subseteq AllTicks
  /\ newest \in [DOMAIN newest -> Positions]

\* There is one state for a tick, the newest, and they are in order.
HistoryOrdered ==
  /\ \A i, j \in DOMAIN states : i < j => states[i].tick < states[j].tick
  /\ \A i \in DOMAIN states :
       states[i].tick \in DOMAIN newest /\ states[i].pos = newest[states[i].tick]

\* What has been cut off is older than something that is past, too.
OnlyThePastIsCut ==
  \A t \in DOMAIN newest :
    \E i \in DOMAIN states : states[i].tick = t \/ states[i].tick \in t..Present

\* In whatever order updates come, the states stay those that were sent, by tick,
\* but for a part of the past (AddNewAuthoritativeMovementState and the cut of
\* ExecuteMovementUpdate).
StatesFaithful == HistoryTypeOK /\ HistoryOrdered /\ OnlyThePastIsCut

\* Floats tell Parts-ths apart in all that has come, or at least ticks.
PartsAreExact == \A t \in DOMAIN newest : (t + 1) * Parts <= Significand
TicksAreExact == \A t \in DOMAIN newest : t <= Significand

\* Whatever was lost, repeated, overtaken or cut off, the character is shown with
\* the states around the present time from all that has come: exactly where these
\* put it as long as floats tell Parts-ths apart, and, when the timer is neither
\* early nor late, still on the way from one to the other as long as they tell
\* ticks apart.  Nothing is said of ticks after that: RealmClient.cpp:135 divides
\* rounded numbers, and the quotient need not be between 0 and 1.
ShownBetween ==
  DOMAIN newest # {} =>
    /\ states # <<>>
    /\ \A part \in 0..Parts - 1 :
         LET s == Shown(part)
             b == Between(part)
         IN  /\ s.from = b.from /\ s.to = b.to
             /\ PartsAreExact => s = b /\ (behind = 0 => s.passed < s.length)
             /\ TicksAreExact /\ behind = 0 => 0 <= s.passed /\ s.passed <= s.length

\* What is kept of the past and the future is true, and shown as it is (RealmClient).
HistoryInv == StatesFaithful /\ ShownBetween
=============================================================================
