---------------------------- MODULE MainLoop_proofs ----------------------------
(***************************************************************************)
(* Proofs about MainLoop, for any interval, any resolution of the clock,   *)
(* and calls that may come as late as they like.                           *)
(***************************************************************************)
EXTENDS MainLoop, FiniteSetTheorems, TLAPS

USE TimeAssumption

\* TypeOK without its flags.
Types ==
    /\ now \in 0..Horizon /\ skew \in Int /\ Wall >= SECOND
    /\ start_time \in Nat /\ last \in Nat /\ late \in Nat
    /\ due \in Nat /\ due > 0 /\ due <= now + SECOND
    /\ inRound => rounds # <<>> /\ rounds[Len(rounds)] = Second(last)
    /\ rounds \in Seq(Nat) /\ sets \in 0..MaxSets

\* The timer is due no sooner than a second after the last call, on the wall
\* clock too, and no round is later than that call.
Order ==
    ~setBack =>
      /\ due + skew >= last + SECOND /\ last <= Wall
      /\ \A i \in DOMAIN rounds : rounds[i] <= Second(last)

\* The wall clock's ticks within the second of the last call.
Fraction == last - Second(last) * SECOND

\* A call that is on time is exactly one second after the last; and the seconds
\* passed over, with the fraction gained, are the lateness.
Pace ==
    ~reset =>
      /\ due + skew = last + SECOND /\ start_time <= Second(last)
      /\ Cardinality(Missed) * SECOND + Fraction < late + SECOND

IInv == Types /\ Flags /\ Order /\ OneRoundPerTime /\ Pace

-----------------------------------------------------------------------------

\* The second of a time.
LEMMA SecondFact ==
    ASSUME NEW t \in Nat
    PROVE /\ Second(t) \in Nat /\ Second(t) * SECOND <= t
          /\ t < Second(t) * SECOND + SECOND
  BY DEF Second

\* Times a second apart are in different seconds.
LEMMA SecondGrows ==
    ASSUME NEW t \in Nat, NEW u \in Nat, t + SECOND <= u
    PROVE Second(t) + 1 <= Second(u)
  BY DEF Second

LEMMA TimeFact ==
    ASSUME Types
    PROVE /\ Wall \in Nat /\ last \in Nat /\ start_time \in Nat
          /\ Second(Wall) \in Nat /\ Second(last) \in Nat
<1>1. Wall \in Nat /\ last \in Nat /\ start_time \in Nat
  BY DEF Types, Wall
<1>2. QED
  BY <1>1, SecondFact

\* What lies ahead of a time still does when it is moved forward.
LEMMA AheadFact ==
    ASSUME NEW a \in Int, NEW b \in Int, NEW s \in Int, NEW t \in Int,
           a + s >= b, t >= s
    PROVE a + t >= b
  OBVIOUS

\* What a round adds to the rounds.
LEMMA AppendFact ==
    ASSUME NEW s \in Seq(Nat), NEW t \in Nat
    PROVE /\ Append(s, t) \in Seq(Nat) /\ Append(s, t) # <<>>
          /\ Len(Append(s, t)) = Len(s) + 1 /\ Append(s, t)[Len(s) + 1] = t
          /\ Len(s) \in Nat /\ DOMAIN s = 1..Len(s)
          /\ DOMAIN Append(s, t) = 1..Len(s) + 1
          /\ \A i \in 1..Len(s) : Append(s, t)[i] = s[i]
  OBVIOUS

LEMMA MissedFinite ==
    ASSUME start_time \in Nat, last \in Nat
    PROVE IsFiniteSet(Missed) /\ Cardinality(Missed) \in Nat
<1>1. Second(last) \in Nat
  BY SecondFact
<1>2. IsFiniteSet((start_time + 1)..Second(last))
  BY <1>1, FS_Interval
<1>3. Missed \subseteq (start_time + 1)..Second(last)
  BY DEF Missed
<1>4. IsFiniteSet(Missed)
  BY <1>2, <1>3, FS_Subset
<1>5. QED
  BY <1>4, FS_CardinalityType

-----------------------------------------------------------------------------
(* The initial states. *)

LEMMA InitInv == Init => IInv
<1> SUFFICES ASSUME Init PROVE IInv
  OBVIOUS
<1>1. skew \in Nat /\ Second(skew) \in Nat /\ Second(skew) * SECOND <= skew
       /\ skew < Second(skew) * SECOND + SECOND
  BY SecondFact DEF Init
<1>2. Types
  BY <1>1 DEF Init, Types, Wall
<1>3. Flags
  BY DEF Init, Flags
<1>4. Order /\ OneRoundPerTime
  BY <1>1 DEF Init, Order, OneRoundPerTime, Wall
<1>5. Missed = {}
  BY <1>1 DEF Init, Missed
<1>6. Cardinality(Missed) = 0
  BY <1>5, FS_EmptySet
<1>7. Pace
  BY <1>1, <1>6 DEF Init, Pace, Fraction
<1>8. QED
  BY <1>2, <1>3, <1>4, <1>7 DEF IInv

-----------------------------------------------------------------------------
(* The steps. *)

LEMMA FlagsStep ==
    ASSUME Flags, [Next]_vars PROVE Flags'
<1>1. CASE Tick
  BY <1>1, Zenon DEF Tick, Flags
<1>2. CASE SetClock
  BY <1>2, Zenon DEF SetClock, Flags
<1>3. CASE Callback
  BY <1>3, Zenon DEF Callback, Flags, clock
<1>4. CASE RoundEnds
  BY <1>4, Zenon DEF RoundEnds, Flags, clock
<1>5. CASE Restart
  BY <1>5, Zenon DEF Restart, Flags
<1>6. CASE UNCHANGED vars
  BY <1>6, Zenon DEF vars, clock, Flags
<1>7. QED
  BY <1>1, <1>2, <1>3, <1>4, <1>5, <1>6 DEF Next

LEMMA TypesStep ==
    ASSUME Types, [Next]_vars PROVE Types'
<1>1. CASE Tick
  BY <1>1 DEF Tick, Types, Wall, Second, timer
<1>2. CASE SetClock
  BY <1>2 DEF SetClock, Types, Wall, Second, timer
<1>3. CASE Callback
  <2>1. Wall \in Nat /\ Second(Wall) \in Nat
    BY TimeFact
  <2>2. /\ now' = now /\ skew' = skew /\ sets' = sets /\ start_time' = start_time
        /\ last' = Wall /\ late' = late + (now - due) /\ due' = now + SECOND
        /\ now >= due
    BY <1>3 DEF Callback, Call, clock
  <2>3. rounds' \in Seq(Nat)
    BY <1>3, <2>1 DEF Callback, Types
  <2>4. inRound' => rounds' # <<>> /\ rounds'[Len(rounds')] = Second(Wall)
    <3> SUFFICES ASSUME inRound' PROVE rounds' # <<>> /\ rounds'[Len(rounds')] = Second(Wall)
      OBVIOUS
    <3>1. rounds' = Append(rounds, Second(Wall)) /\ rounds \in Seq(Nat)
      BY <1>3 DEF Callback, Types
    <3>2. QED
      BY <2>1, <3>1, AppendFact
  <2>5. Second(last)' = Second(Wall)
    BY <2>2 DEF Second
  <2>6. QED
    BY <2>1, <2>2, <2>3, <2>4, <2>5 DEF Types, Wall
<1>4. CASE RoundEnds
  BY <1>4 DEF RoundEnds, Types, Wall, Second, timer, clock
<1>5. CASE Restart
  <2>1. Wall \in Nat /\ Second(Wall) \in Nat
    BY TimeFact
  <2>2. QED
    BY <1>5, <2>1 DEF Restart, Types, Wall
<1>6. CASE UNCHANGED vars
  BY <1>6 DEF vars, clock, timer, Types, Wall, Second
<1>7. QED
  BY <1>1, <1>2, <1>3, <1>4, <1>5, <1>6 DEF Next

\* A call comes a second or more after the last one, so a round it begins has a
\* later time than all.
LEMMA OrderStep ==
    ASSUME Types, Order, OneRoundPerTime, [Next]_vars
    PROVE Order' /\ OneRoundPerTime'
<1>0. /\ Wall \in Nat /\ last \in Nat
      /\ Second(Wall) \in Nat /\ Second(last) \in Nat
  BY TimeFact
<1>1. CASE Tick
  BY <1>1 DEF Tick, Types, Order, OneRoundPerTime, Wall, Second, timer
<1>2. CASE SetClock
  <2> SUFFICES ASSUME ~setBack' PROVE Order' /\ OneRoundPerTime'
    BY DEF Order, OneRoundPerTime
  <2>1. /\ ~setBack /\ skew' \in Int /\ skew' >= skew
        /\ now' = now /\ last' = last /\ due' = due /\ rounds' = rounds
    <3>1. PICK t \in (SECOND - now)..(3 * SECOND) :
               skew' = t /\ setBack' = (setBack \/ t < skew)
      BY <1>2 DEF SetClock
    <3>2. t \in Int
      BY <3>1 DEF Types
    <3>3. ~setBack /\ ~(t < skew)
      BY <3>1
    <3>4. QED
      BY <1>2, <3>1, <3>2, <3>3 DEF SetClock, timer, Types
  <2>2. Second(last)' = Second(last)
    BY <2>1 DEF Second
  <2>3. due' + skew' >= last' + SECOND /\ last' <= Wall'
    <3>1. due + skew >= last + SECOND /\ last <= now + skew
      BY <2>1 DEF Order, Wall
    <3>2. now \in Int /\ due \in Int /\ last \in Int /\ skew \in Int
      BY DEF Types
    <3>3. /\ now' = now /\ due' = due /\ last' = last
          /\ skew' \in Int /\ skew' >= skew /\ SECOND \in Int
      BY <2>1
    <3>4. Wall' = now' + skew'
      BY DEF Wall
    <3>5. skew' \in Int /\ skew' >= skew
      BY <2>1
    <3>6. now + skew >= last /\ last + SECOND \in Int
      BY <3>1, <3>2
    <3>7. due + skew' >= last + SECOND
      BY <3>1, <3>2, <3>5, <3>6, AheadFact, Zenon
    <3>8. now + skew' >= last
      BY <3>2, <3>5, <3>6, AheadFact, Zenon
    <3>9. last <= now + skew'
      BY <3>2, <3>5, <3>8
    <3>10. QED
      BY <3>3, <3>4, <3>7, <3>9
  <2>4. QED
    BY <2>1, <2>2, <2>3 DEF Order, OneRoundPerTime
<1>3. CASE Callback
  <2> SUFFICES ASSUME ~setBack PROVE Order' /\ OneRoundPerTime'
    BY <1>3 DEF Callback, clock, Order, OneRoundPerTime
  <2>1. last' = Wall /\ due' = now + SECOND /\ skew' = skew /\ now' = now
    BY <1>3 DEF Callback, Call, clock
  <2>2. last + SECOND <= Wall
    BY <1>3 DEF Callback, Call, Types, Order, Wall
  <2>3. Second(last) + 1 <= Second(Wall)
    BY <1>0, <2>2, SecondGrows
  <2>4. \A i \in DOMAIN rounds : rounds[i] \in Nat /\ rounds[i] < Second(Wall)
    BY <1>0, <2>3 DEF Types, Order
  <2>5. rounds' = rounds \/ rounds' = Append(rounds, Second(Wall))
    BY <1>3 DEF Callback
  <2>6. (\A i \in DOMAIN rounds' : rounds'[i] <= Second(Wall))
        /\ (\A i, j \in DOMAIN rounds' : i < j => rounds'[i] < rounds'[j])
    <3>1. CASE rounds' = rounds
      BY <1>0, <2>4, <3>1 DEF OneRoundPerTime
    <3>2. CASE rounds' = Append(rounds, Second(Wall))
      <4>1. /\ Len(rounds) \in Nat /\ DOMAIN rounds = 1..Len(rounds)
            /\ DOMAIN rounds' = 1..Len(rounds) + 1
            /\ rounds'[Len(rounds) + 1] = Second(Wall)
            /\ \A i \in 1..Len(rounds) : rounds'[i] = rounds[i]
        BY <1>0, <3>2, AppendFact DEF Types
      <4>2. \A i \in DOMAIN rounds' : i = Len(rounds) + 1 \/ i \in 1..Len(rounds)
        BY <4>1
      <4>3. \A i \in DOMAIN rounds' : rounds'[i] <= Second(Wall)
        BY <1>0, <2>4, <4>1, <4>2
      <4>4. ASSUME NEW i \in DOMAIN rounds', NEW j \in DOMAIN rounds', i < j
            PROVE rounds'[i] < rounds'[j]
        <5>1. i \in 1..Len(rounds)
          BY <4>1, <4>4
        <5>2. CASE j = Len(rounds) + 1
          BY <2>4, <4>1, <5>1, <5>2
        <5>3. CASE j \in 1..Len(rounds)
          BY <4>1, <4>4, <5>1, <5>3 DEF OneRoundPerTime
        <5>4. QED
          BY <4>2, <5>2, <5>3
      <4>5. QED
        BY <4>3, <4>4
    <3>3. QED
      BY <2>5, <3>1, <3>2
  <2>8. Second(last)' = Second(Wall)
    BY <2>1 DEF Second
  <2>9. due' + skew' >= last' + SECOND /\ last' <= Wall'
    BY <2>1 DEF Types, Wall
  <2>10. QED
    BY <2>1, <2>6, <2>8, <2>9 DEF Order, OneRoundPerTime
<1>4. CASE RoundEnds
  BY <1>4 DEF RoundEnds, Types, Order, OneRoundPerTime, Wall, Second, timer, clock
<1>5. CASE Restart
  <2> SUFFICES ASSUME ~setBack PROVE Order' /\ OneRoundPerTime'
    BY <1>5 DEF Restart, Order, OneRoundPerTime
  <2>1. Second(last) <= Second(Wall)
    BY <1>0 DEF Order, Second, Types
  <2>2. Second(last)' = Second(Wall)
    BY <1>5 DEF Restart, Second
  <2>3. \A i \in DOMAIN rounds : rounds[i] \in Nat /\ rounds[i] <= Second(Wall)
    BY <1>0, <2>1 DEF Order, Types
  <2>4. QED
    BY <1>5, <2>2, <2>3 DEF Restart, Order, OneRoundPerTime, Types, Wall
<1>6. CASE UNCHANGED vars
  BY <1>6 DEF vars, clock, timer, Order, OneRoundPerTime, Wall, Second
<1>7. QED
  BY <1>1, <1>2, <1>3, <1>4, <1>5, <1>6 DEF Next

\* A call passes over the seconds between the last call's and its own, and the
\* round that its own second asks for it begins.
LEMMA CallMisses ==
    ASSUME Types, Callback, Second(last) + 1 <= Second(Wall), start_time <= Second(last)
    PROVE Missed' \subseteq Missed \cup ((Second(last) + 1)..(Second(Wall) - 1))
<1>1. /\ Wall \in Nat /\ last \in Nat /\ start_time \in Nat
      /\ Second(Wall) \in Nat /\ Second(last) \in Nat
  BY TimeFact
<1>2. Second(last)' = Second(Wall) /\ start_time' = start_time
  BY DEF Callback, Call, Second
<1>3. rounds' = IF (Second(Wall) - start_time) % interval = 0
                THEN Append(rounds, Second(Wall)) ELSE rounds
  BY DEF Callback
<1>4. \A i \in DOMAIN rounds : i \in DOMAIN rounds' /\ rounds'[i] = rounds[i]
  <2>1. CASE rounds' = rounds
    BY <2>1
  <2>2. CASE rounds' = Append(rounds, Second(Wall))
    BY <1>1, <2>2, AppendFact DEF Types
  <2>3. QED
    BY <1>3, <2>1, <2>2
<1>5. (Second(Wall) - start_time) % interval = 0 =>
        Len(rounds') \in DOMAIN rounds' /\ rounds'[Len(rounds')] = Second(Wall)
  BY <1>1, <1>3 DEF Types
<1>6. SUFFICES ASSUME NEW t \in Missed', t \notin (Second(last) + 1)..(Second(Wall) - 1)
               PROVE t \in Missed
  OBVIOUS
<1>7. /\ t \in (start_time + 1)..Second(Wall)
      /\ (t - start_time) % interval = 0
      /\ \A i \in DOMAIN rounds' : rounds'[i] # t
  BY <1>2 DEF Missed
<1>8. t # Second(Wall)
  BY <1>5, <1>7
<1>9. t \in (start_time + 1)..Second(last)
  BY <1>1, <1>6, <1>7, <1>8
<1>10. QED
  BY <1>4, <1>7, <1>9 DEF Missed

LEMMA PaceStep ==
    ASSUME Types, Pace, [Next]_vars PROVE Pace'
<1>0. /\ Wall \in Nat /\ last \in Nat /\ start_time \in Nat
      /\ Second(Wall) \in Nat /\ Second(last) \in Nat
  BY TimeFact
<1>1. CASE Tick
  BY <1>1 DEF Tick, Pace, Missed, Fraction, Second, timer
<1>2. CASE SetClock
  BY <1>2 DEF SetClock, Pace
<1>3. CASE Callback
  <2> SUFFICES ASSUME ~reset PROVE Pace'
    BY <1>3 DEF Callback, clock, Pace
  <2>1. /\ last' = Wall /\ due' = now + SECOND /\ skew' = skew
        /\ late' = late + (now - due) /\ start_time' = start_time /\ now >= due
    BY <1>3 DEF Callback, Call, clock
  <2>2. Wall = last + SECOND + (now - due)
    BY DEF Pace, Types, Wall
  <2>3. Second(last) + 1 <= Second(Wall)
    BY <1>0, <2>1, <2>2, SecondGrows DEF Types
  <2> DEFINE Passed == (Second(last) + 1)..(Second(Wall) - 1)
  <2>4. Missed' \subseteq Missed \cup Passed
    BY <1>3, <2>3, CallMisses DEF Pace
  <2>5. IsFiniteSet(Missed) /\ Cardinality(Missed) \in Nat
    BY <1>0, MissedFinite
  <2>6. IsFiniteSet(Passed) /\ Cardinality(Passed) = Second(Wall) - Second(last) - 1
    <3>1. Second(last) + 1 \in Int /\ Second(Wall) - 1 \in Int
      BY <1>0
    <3>2. /\ IsFiniteSet(Passed)
          /\ Cardinality(Passed) =
               IF Second(last) + 1 > Second(Wall) - 1 THEN 0
               ELSE (Second(Wall) - 1) - (Second(last) + 1) + 1
      BY <3>1, FS_Interval
    <3> HIDE DEF Passed
    <3>3. QED
      BY <1>0, <2>3, <3>2
  <2> HIDE DEF Passed
  <2>7. Cardinality(Missed \cup Passed) <= Cardinality(Missed) + Cardinality(Passed)
        /\ IsFiniteSet(Missed \cup Passed)
    <3>1. /\ IsFiniteSet(Missed \cup Passed)
          /\ Cardinality(Missed \cup Passed) =
               Cardinality(Missed) + Cardinality(Passed) - Cardinality(Missed \cap Passed)
      BY <2>5, <2>6, FS_Union
    <3>2. Cardinality(Missed \cap Passed) \in Nat
      BY <2>5, FS_Intersection, FS_CardinalityType
    <3>3. QED
      BY <1>0, <2>5, <2>6, <3>1, <3>2
  <2>8. IsFiniteSet(Missed') /\ Cardinality(Missed') <= Cardinality(Missed \cup Passed)
    BY <2>4, <2>7, FS_Subset
  <2>9. Cardinality(Missed') \in Nat /\ Cardinality(Missed \cup Passed) \in Nat
    BY <2>7, <2>8, FS_CardinalityType
  <2>10. Cardinality(Missed') + Second(last) + 1 <= Cardinality(Missed) + Second(Wall)
    BY <1>0, <2>5, <2>6, <2>7, <2>8, <2>9
  <2>11. (Cardinality(Missed') + Second(last) + 1) * SECOND
           <= (Cardinality(Missed) + Second(Wall)) * SECOND
    BY <1>0, <2>5, <2>9, <2>10
  <2>12. Cardinality(Missed') * SECOND + Second(last) * SECOND + SECOND
           <= Cardinality(Missed) * SECOND + Second(Wall) * SECOND
    BY <1>0, <2>5, <2>9, <2>11
  <2>13. Second(last)' = Second(Wall)
    BY <2>1 DEF Second
  <2>14. Cardinality(Missed') * SECOND + (Wall - Second(Wall) * SECOND)
           < late + (now - due) + SECOND
    <3>1. Cardinality(Missed) * SECOND + (last - Second(last) * SECOND) < late + SECOND
      BY DEF Pace, Fraction
    <3>2. /\ Cardinality(Missed') * SECOND \in Int /\ Cardinality(Missed) * SECOND \in Int
          /\ Second(last) * SECOND \in Int /\ Second(Wall) * SECOND \in Int
      BY <1>0, <2>5, <2>9
    <3>3. late \in Int /\ now \in Int /\ due \in Int
      BY DEF Types
    <3>4. QED
      BY <1>0, <2>2, <2>12, <3>1, <3>2, <3>3
  <2>15. due' + skew' = last' + SECOND
    BY <2>1 DEF Types, Wall
  <2>16. start_time' <= Second(last)'
    BY <1>0, <2>1, <2>3, <2>13 DEF Pace
  <2>17. Fraction' = Wall - Second(Wall) * SECOND
    BY <2>1, <2>13 DEF Fraction
  <2>18. QED
    BY <2>1, <2>14, <2>15, <2>16, <2>17 DEF Pace
<1>4. CASE RoundEnds
  BY <1>4 DEF RoundEnds, Pace, Missed, Fraction, Second, timer, clock
<1>5. CASE Restart
  <2>1. Second(last)' = Second(Wall)
    BY <1>5 DEF Restart, Second
  <2>2. Missed' = {}
    BY <1>0, <1>5, <2>1 DEF Restart, Missed
  <2>3. Cardinality(Missed') = 0
    BY <2>2, FS_EmptySet
  <2>4. Fraction' < SECOND
    BY <1>0, <1>5, <2>1, SecondFact DEF Restart, Fraction
  <2>5. Fraction' \in Int
    BY <1>0, <1>5, <2>1 DEF Restart, Fraction
  <2>6. QED
    <3>1. due' + skew' = last' + SECOND /\ late' = 0
      BY <1>5 DEF Restart, Types, Wall
    <3>2. start_time' <= Second(last)'
      BY <1>0, <1>5, <2>1 DEF Restart
    <3>3. Cardinality(Missed') * SECOND + Fraction' < late' + SECOND
      <4>1. Cardinality(Missed') * SECOND = 0
        BY <2>3
      <4>2. QED
        BY <2>4, <2>5, <3>1, <4>1
    <3>4. QED
      BY <3>1, <3>2, <3>3 DEF Pace
<1>6. CASE UNCHANGED vars
  BY <1>6 DEF vars, clock, timer, Pace, Missed, Fraction, Second
<1>7. QED
  BY <1>1, <1>2, <1>3, <1>4, <1>5, <1>6 DEF Next

LEMMA Inductive == Spec => []IInv
<1>1. IInv /\ [Next]_vars => IInv'
  BY FlagsStep, TypesStep, OrderStep, PaceStep DEF IInv
<1>2. QED
  BY InitInv, <1>1, PTL DEF Spec

-----------------------------------------------------------------------------

\* Every state is well typed, and a round that is running has the time of the
\* call of timeout_callback that began it.
THEOREM TypeCorrect == Spec => []TypeOK
<1>1. IInv => TypeOK
  BY DEF IInv, Types, TypeOK
<1>2. QED
  BY <1>1, Inductive, PTL

\* While the clock is never set back, no two rounds of timeout_callback have
\* the same time, those before and after a restart included.
THEOREM OneRoundPerTimeHolds == Spec => []OneRoundPerTime
<1>1. IInv => OneRoundPerTime
  BY DEF IInv
<1>2. QED
  BY <1>1, Inductive, PTL

\* While the clock is not set, each round timeout_callback misses is paid for
\* with a second of lateness since the start of main.
THEOREM MissedArePaidForHolds == Spec => []MissedArePaidFor
<1>1. IInv => MissedArePaidFor
  <2> SUFFICES ASSUME IInv, ~reset PROVE Cardinality(Missed) * SECOND < late + SECOND
    BY DEF MissedArePaidFor
  <2>1. Cardinality(Missed) \in Nat /\ Second(last) * SECOND <= last
        /\ Second(last) \in Nat
    BY MissedFinite, SecondFact DEF IInv, Types
  <2>2. Cardinality(Missed) * SECOND + (last - Second(last) * SECOND) < late + SECOND
    BY DEF IInv, Pace, Fraction
  <2>3. Cardinality(Missed) * SECOND \in Int /\ Second(last) * SECOND \in Int
    BY <2>1
  <2>4. late \in Int /\ last \in Int
    BY DEF IInv, Types
  <2>5. QED
    BY <2>1, <2>2, <2>3, <2>4
<1>2. QED
  BY <1>1, Inductive, PTL
=============================================================================
