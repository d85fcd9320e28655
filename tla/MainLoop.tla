------------------------------- MODULE MainLoop -------------------------------
(***************************************************************************)
(* The clock of src/src/main.c: a timer of the main loop calls             *)
(* timeout_callback every 1000 ms, which begins a round when the whole     *)
(* second it reads is a multiple of interval after start_time.  GLib arms  *)
(* the timer anew one second after the moment it calls the callback, so    *)
(* each late call delays all the later ones.  The time of a round is the   *)
(* EpochTimeStamp of its readings, the key of their items in the table.    *)
(*                                                                         *)
(* Time is counted in ticks, SECOND to the second.  The wall clock is      *)
(* skew ahead of the ticks the timer counts, and may be set.               *)
(***************************************************************************)
EXTENDS Integers, FiniteSets, Sequences

CONSTANTS
    SECOND,     \* ticks in a second
    interval,   \* seconds between two rounds
    Horizon,    \* bound: ticks modelled
    MaxSets     \* bound: settings of the wall clock

ASSUME TimeAssumption ==
    SECOND \in Nat \ {0} /\ interval \in Nat \ {0} /\ {Horizon, MaxSets} \subseteq Nat

VARIABLES
    now,        \* ticks
    skew,       \* wall clock: ticks ahead
    start_time, \* wall clock: second of the start
    due,        \* when the timer is next due
    inRound,    \* timeout_callback is acquiring
    rounds,     \* times of the rounds begun
    last,       \* history: wall clock at the last call, or at the start
    late,       \* history: lateness of the calls since the start, summed
    reset,      \* history: the clock was set since the start
    setBack,    \* history: the clock was ever set back
    sets        \* history: for the bound

clock == <<now, skew, reset, setBack, sets>>
timer == <<due, last, late>>
vars == <<clock, timer, start_time, inRound, rounds>>

Wall == now + skew
Second(t) == t \div SECOND

Init ==
    /\ now = 0 /\ skew \in SECOND..(2 * SECOND - 1)
    /\ start_time = Second(skew) /\ due = SECOND
    /\ inRound = FALSE /\ rounds = <<>>
    /\ last = skew /\ late = 0
    /\ reset = FALSE /\ setBack = FALSE /\ sets = 0

-----------------------------------------------------------------------------

Tick ==
    /\ now < Horizon
    /\ now' = now + 1
    /\ UNCHANGED <<skew, reset, setBack, sets, timer, start_time, inRound, rounds>>

\* The wall clock is set, as the time is once the network is up.
SetClock ==
    /\ sets < MaxSets /\ sets' = sets + 1
    /\ \E t \in (SECOND - now)..(3 * SECOND) :
         /\ skew' = t
         /\ setBack' = (setBack \/ t < skew)
    /\ reset' = TRUE
    /\ UNCHANGED <<now, timer, start_time, inRound, rounds>>

\* The main loop calls timeout_callback once the timer is due, at once or late,
\* and sets it anew.
Call(period) ==
    /\ ~inRound /\ now >= due
    /\ last' = Wall /\ late' = late + (now - due)
    /\ due' = now + period

\* A plausible bug: the timer is set to half a second, so as not to miss one.
CallbackTwiceASecond ==
    /\ Call(SECOND \div 2)
    /\ inRound' = ((Second(Wall) - start_time) % interval = 0)
    /\ rounds' = IF inRound' THEN Append(rounds, Second(Wall)) ELSE rounds
    /\ UNCHANGED <<clock, start_time>>

\* A plausible bug: the clock is read at the end of the call, for the next.
CallbackReadsClockLast ==
    /\ Call(SECOND)
    /\ inRound' = ((Second(last) - start_time) % interval = 0)
    /\ rounds' = IF inRound' THEN Append(rounds, Second(last)) ELSE rounds
    /\ UNCHANGED <<clock, start_time>>

Callback ==
    /\ Call(SECOND)
    /\ inRound' = ((Second(Wall) - start_time) % interval = 0)
    /\ rounds' = IF inRound' THEN Append(rounds, Second(Wall)) ELSE rounds
    /\ UNCHANGED <<clock, start_time>>

\* A plausible bug: the timer is stopped for the round and set again after it.
RoundEndsSetsTimer ==
    /\ inRound
    /\ inRound' = FALSE /\ due' = now + SECOND
    /\ UNCHANGED <<clock, last, late, start_time, rounds>>

\* However long ble_data_acq took, the timer is the one set before it.
RoundEnds ==
    /\ inRound
    /\ inRound' = FALSE
    /\ UNCHANGED <<clock, timer, start_time, rounds>>

\* The process ends, in a round perhaps, and main runs again.
Restart ==
    /\ inRound' = FALSE
    /\ start_time' = Second(Wall) /\ due' = now + SECOND
    /\ last' = Wall /\ late' = 0 /\ reset' = FALSE
    /\ UNCHANGED <<now, skew, setBack, sets, rounds>>

Next == Tick \/ SetClock \/ Callback \/ RoundEnds \/ Restart

Spec == Init /\ [][Next]_vars

-----------------------------------------------------------------------------
(* Properties. *)

Flags == inRound \in BOOLEAN /\ reset \in BOOLEAN /\ setBack \in BOOLEAN

\* The type invariant; a round that is running is the last of the rounds, and
\* has the time of the call that began it.
TypeOK ==
    /\ now \in 0..Horizon /\ skew \in Int /\ Wall >= SECOND
    /\ start_time \in Nat /\ last \in Nat /\ late \in Nat
    /\ due \in Nat /\ due > 0 /\ due <= now + SECOND
    /\ Flags
    /\ inRound => rounds # <<>> /\ rounds[Len(rounds)] = Second(last)
    /\ rounds \in Seq(Nat) /\ sets \in 0..MaxSets

\* While the clock is never set back, no two rounds have the same time, across
\* restarts as well: no reading is put over another of the same sensor.
OneRoundPerTime ==
    ~setBack => \A i, j \in DOMAIN rounds : i < j => rounds[i] < rounds[j]

\* The times since the start that a round was due at and none began.
Missed ==
    {t \in (start_time + 1)..Second(last) :
       /\ (t - start_time) % interval = 0
       /\ \A i \in DOMAIN rounds : rounds[i] # t}

\* While the clock is not set, missing rounds takes late calls, a second of
\* lateness, summed over all calls since the start, for each round.
MissedArePaidFor ==
    ~reset => Cardinality(Missed) * SECOND < late + SECOND
=============================================================================
