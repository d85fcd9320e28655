------------------------ MODULE BleAcquisition_proofs ------------------------
(***************************************************************************)
(* Proofs about BleAcquisition, for any sensors, any characteristics, any  *)
(* number of polls and rounds, and a link that may fail anywhere.          *)
(***************************************************************************)
EXTENDS BleAcquisition, SequenceTheorems, TLAPS

USE ProbesAssumption, CharsAssumption, RetryAssumption, RoundsAssumption,
    LinkAssumption

-----------------------------------------------------------------------------
(* Discovery.  A characteristic is met once in a discovery, unless the core *)
(* module repeats it, and a discovery only starts while none has been       *)
(* found: that is why discovered, which is only ever incremented, counts    *)
(* the handles that are known.                                              *)

Count(found) == IF found THEN 1 ELSE 0

DiscoveryInv ==
    /\ "repeats" \notin traits =>
         /\ cm.discovered =
              Count(cm.read_handle = "read") + Count(cm.write_handle = "write")
         /\ pc = "discover" =>
              /\ cm.read_handle = "read" => \E k \in 1..seek : Chars[k] = "read"
              /\ cm.write_handle = "write" => \E k \in 1..seek : Chars[k] = "write"
    /\ pc \in {"command", "poll"} => cm.discovered = 2

\* The parts of the type invariant.
TypeControl ==
    /\ pc \in Loop \cup {"idle", "publish", "stuck", "dead"}
    /\ i \in 0..(Len(Probes) + 1)
    /\ pc \in {"route", "discover", "command", "poll"} => i \in Sensors
    /\ retry \in 0..FAST_RETRY_TIMES /\ (pc = "poll" => retry > 0)
    /\ round \in 0..MaxRounds

Records == [discovered : 0..MANY, read_handle : {"none", "read"},
            write_handle : {"none", "write"}]

TypeDiscovery == cm \in Records /\ seek \in 0..Len(Chars)

TypeLink == sock \in {"open", "closed", "other"} /\ lost \in Sensors \cup {0}

TypeSensors == resp \in Values /\ sen \in [Sensors -> [data : Values, code : Codes]]

TypePeer ==
    /\ asked \subseteq Sensors
    /\ reply \in [addr : Sensors \cup {0}, taken : 0..MaxRounds, ok : BOOLEAN]
    /\ traits \in CoreModules

LEMMA TypeParts ==
    TypeOK <=> TypeControl /\ TypeDiscovery /\ TypeLink /\ TypeSensors /\ TypePeer
  BY DEF TypeOK, TypeControl, TypeDiscovery, Records, TypeLink, TypeSensors, TypePeer

\* The sensors are numbered from 1.
LEMMA SensorFacts == Len(Probes) \in Nat /\ Sensors = 1..Len(Probes)
  BY LenProperties DEF Sensors

LEMMA CharFacts == Len(Chars) \in Nat /\ DOMAIN Chars = 1..Len(Chars)
  BY LenProperties

\* The values the program writes into a sensor.
LEMMA ValueFacts ==
    /\ Zero \in Values /\ ERROR_DATA_VALUE \in Values
    /\ \A s \in Sensors, r \in 0..MaxRounds : Value("temp", s, r) \in Values
    /\ {"OK", "BLE_CONN_TIMEOUT", "BLE_READ_ERR", "BLE_WRITE_ERR",
        "BLE_INTERNAL_CMD_NO_RESPONSE", "RS485_TSYS01_NO_RESPONSE",
        "UNKNOWN_PROBE_DEFINITION"} = Codes
  BY DEF Zero, ERROR_DATA_VALUE, Value, Values, Codes

-----------------------------------------------------------------------------
(* Type correctness. *)

LEMMA TypeInit == Init => TypeOK /\ DiscoveryInv
<1> SUFFICES ASSUME Init PROVE TypeOK /\ DiscoveryInv
  OBVIOUS
<1>1. TypeControl
  BY SensorFacts DEF Init, TypeControl, Loop
<1>2. TypeDiscovery /\ DiscoveryInv
  BY CharFacts DEF Init, TypeDiscovery, Records, DiscoveryInv, Count, NothingFound, MANY
<1>3. TypeLink
  BY DEF Init, TypeLink
<1>4. TypeSensors
  BY ValueFacts DEF Init, TypeSensors
<1>5. TypePeer
  <2>1. NoReply \in [addr : Sensors \cup {0}, taken : 0..MaxRounds, ok : BOOLEAN]
    BY DEF NoReply
  <2> QED BY <2>1 DEF Init, TypePeer
<1> QED BY <1>1, <1>2, <1>3, <1>4, <1>5, TypeParts

\* Steps that only the environment takes.
Outside == NumberTaken \/ NumberFreed \/ PeerAnswers

LEMMA TraitsStay == [Next]_vars => traits' = traits
  BY DEF Next, RoundStep, vars, peer, ConnectSucceeds, ConnectFails, LastSensor,
     NextSensor, Skip, UnknownProbe, ReadProbe, DiscoveryEnds, DiscoverNext,
     DiscoverAgain, Command, CommandRefused, ExchangeBroken, Hears, MayHear,
     PollMisses, PollMatches, Publish, Hangs, Dies, Restart, NumberTaken,
     NumberFreed, PeerAnswers

\* Where the callback may go next.
LEMMA ControlStep == TypeControl /\ [Next]_vars => TypeControl'
<1> SUFFICES ASSUME TypeControl, [Next]_vars PROVE TypeControl'
  OBVIOUS
<1> USE SensorFacts DEF TypeControl, Loop
<1>1. CASE ConnectSucceeds \/ ConnectFails \/ Restart
  BY <1>1 DEF ConnectSucceeds, ConnectFails, NewRound, Restart
<1>2. CASE LastSensor \/ NextSensor \/ Skip \/ ReadProbe
  BY <1>2 DEF LastSensor, NextSensor, Skip, ReadProbe
<1>3. CASE UnknownProbe \/ CommandRefused \/ ExchangeBroken
  BY <1>3 DEF UnknownProbe, CommandRefused, ExchangeBroken, Fail, Settle
<1>4. CASE DiscoveryEnds \/ DiscoverNext \/ DiscoverAgain \/ Command
  BY <1>4 DEF DiscoveryEnds, DiscoverNext, DiscoverAgain, Command
<1>5. CASE PollMisses \/ PollMatches
  BY <1>5 DEF PollMisses, PollMatches, Answered, Fail, Settle
<1>6. CASE Publish \/ Hangs \/ Dies \/ Outside \/ UNCHANGED vars
  BY <1>6 DEF Publish, Hangs, Dies, Outside, NumberTaken, NumberFreed,
              PeerAnswers, vars
<1> QED BY <1>1, <1>2, <1>3, <1>4, <1>5, <1>6 DEF Next, RoundStep, Outside

\* What an entry does to the record of what is known.
LEMMA CountedFacts ==
    ASSUME TypeDiscovery, NEW char
    PROVE  /\ Counted(char) \in Records
           /\ char = "read" =>
                /\ Counted(char).read_handle = "read"
                /\ Counted(char).write_handle = cm.write_handle
           /\ char = "write" =>
                /\ Counted(char).write_handle = "write"
                /\ Counted(char).read_handle = cm.read_handle
           /\ char \in {"read", "write"} /\ cm.discovered < MANY =>
                Counted(char).discovered = cm.discovered + 1
           /\ char \notin {"read", "write"} => Counted(char) = cm
<1>1. /\ cm \in Records
      /\ cm.discovered \in 0..MANY
      /\ cm.discovered < MANY => cm.discovered + 1 \in 0..MANY
      /\ MANY \in 0..MANY
  BY DEF TypeDiscovery, Records, MANY
<1> QED BY <1>1 DEF Counted, Records

\* No characteristic with one of the two UUIDs is met twice.
LEMMA FoundOnce ==
    ASSUME TypeDiscovery, DiscoveryInv, DiscoverNext, "repeats" \notin traits
    PROVE  /\ Chars[seek + 1] = "read" => cm.read_handle = "none"
           /\ Chars[seek + 1] = "write" => cm.write_handle = "none"
<1>1. seek \in Nat /\ seek + 1 \in DOMAIN Chars /\ 1..seek \subseteq DOMAIN Chars
  BY CharFacts DEF DiscoverNext, TypeDiscovery
<1>2. \A k \in 1..seek : k # seek + 1
  BY <1>1
<1>3. \A k \in 1..seek :
        Chars[k] = Chars[seek + 1] => Chars[k] \notin {"read", "write"}
  BY <1>1, <1>2
<1>4. cm.read_handle \in {"none", "read"} /\ cm.write_handle \in {"none", "write"}
  BY DEF TypeDiscovery, Records
<1> QED BY <1>3, <1>4 DEF DiscoverNext, DiscoveryInv

LEMMA DiscoveryStep ==
    TypeDiscovery /\ DiscoveryInv /\ [Next]_vars
      => TypeDiscovery' /\ DiscoveryInv'
<1> SUFFICES ASSUME TypeDiscovery, DiscoveryInv, [Next]_vars
             PROVE  TypeDiscovery' /\ DiscoveryInv'
  OBVIOUS
<1>1. CASE DiscoverNext
  <2>1. seek' \in 0..Len(Chars) /\ seek \in Nat /\ seek' = seek + 1
    BY <1>1, CharFacts DEF DiscoverNext, TypeDiscovery
  <2>2. pc' = "discover" /\ pc = "discover"
    BY <1>1 DEF DiscoverNext
  <2> DEFINE char == Chars[seek + 1]
  <2>3. cm' = Counted(char)
    BY <1>1 DEF DiscoverNext
  <2>4. TypeDiscovery'
    BY <2>1, <2>3, CountedFacts DEF TypeDiscovery
  <2>5. ASSUME "repeats" \notin traits'
        PROVE  /\ cm'.discovered = Count(cm'.read_handle = "read")
                                     + Count(cm'.write_handle = "write")
               /\ cm'.read_handle = "read" => \E k \in 1..seek' : Chars[k] = "read"
               /\ cm'.write_handle = "write" => \E k \in 1..seek' : Chars[k] = "write"
    <3>1. "repeats" \notin traits
      BY <2>5, TraitsStay
    <3>2. /\ char = "read" => cm.read_handle = "none"
          /\ char = "write" => cm.write_handle = "none"
          /\ cm.discovered = Count(cm.read_handle = "read")
                               + Count(cm.write_handle = "write")
          /\ cm.read_handle = "read" => \E k \in 1..seek : Chars[k] = "read"
          /\ cm.write_handle = "write" => \E k \in 1..seek : Chars[k] = "write"
      BY <1>1, <2>2, <3>1, FoundOnce DEF DiscoveryInv
    <3>3. seek + 1 \in 1..seek' /\ 1..seek \subseteq 1..seek'
      BY <2>1
    <3>4. CASE char = "read"
      <4>1. /\ cm'.read_handle = "read" /\ cm'.write_handle = cm.write_handle
            /\ cm.discovered = Count(cm.write_handle = "write")
        BY <2>3, <3>2, <3>4, CountedFacts DEF Count
      <4>2. cm'.discovered = cm.discovered + 1
        BY <2>3, <3>4, <4>1, CountedFacts DEF Count, MANY
      <4> QED BY <3>2, <3>3, <3>4, <4>1, <4>2 DEF Count
    <3>5. CASE char = "write"
      <4>1. /\ cm'.write_handle = "write" /\ cm'.read_handle = cm.read_handle
            /\ cm.discovered = Count(cm.read_handle = "read")
        BY <2>3, <3>2, <3>5, CountedFacts DEF Count
      <4>2. cm'.discovered = cm.discovered + 1
        BY <2>3, <3>5, <4>1, CountedFacts DEF Count, MANY
      <4> QED BY <3>2, <3>3, <3>5, <4>1, <4>2 DEF Count
    <3>6. CASE char \notin {"read", "write"}
      BY <2>3, <3>2, <3>3, <3>6, CountedFacts
    <3> QED BY <3>4, <3>5, <3>6
  <2> QED BY <2>2, <2>4, <2>5 DEF DiscoveryInv
<1>2. CASE NextSensor
  BY <1>2, CharFacts, TraitsStay DEF NextSensor, TypeDiscovery, DiscoveryInv, Count
<1>3. CASE DiscoverAgain
  <2>1. /\ cm' = Counted(Chars[seek]) /\ seek' = seek /\ pc' = "discover"
        /\ "repeats" \in traits'
    BY <1>3, TraitsStay DEF DiscoverAgain
  <2> QED BY <2>1, CountedFacts DEF TypeDiscovery, DiscoveryInv
<1>4. CASE Restart
  BY <1>4, CharFacts DEF Restart, NothingFound, TypeDiscovery, Records,
     DiscoveryInv, Count, MANY
<1>5. CASE ~DiscoverNext /\ ~NextSensor /\ ~DiscoverAgain /\ ~Restart
  <2>1. cm' = cm /\ seek' = seek
    BY <1>5 DEF Next, RoundStep, vars, ConnectSucceeds, ConnectFails,
       LastSensor, Skip, UnknownProbe, ReadProbe, DiscoveryEnds, Command,
       CommandRefused, ExchangeBroken, PollMisses, PollMatches, Publish,
       Hangs, Dies, NumberTaken, NumberFreed, PeerAnswers
  <2>2. /\ pc' = "discover" => pc = "discover"
        /\ pc' \in {"command", "poll"} =>
             pc \in {"command", "poll"} \/ cm.discovered = 2
    BY <1>5 DEF Next, RoundStep, vars, ConnectSucceeds, ConnectFails,
       NewRound, LastSensor, Skip, UnknownProbe, ReadProbe, DiscoveryEnds,
       Command, CommandRefused, ExchangeBroken, PollMisses, PollMatches,
       Publish, Hangs, Dies, NumberTaken, NumberFreed, PeerAnswers, Answered,
       Fail, Settle
  <2> QED BY <2>1, <2>2, TraitsStay DEF TypeDiscovery, DiscoveryInv, Count
<1> QED BY <1>1, <1>2, <1>3, <1>4, <1>5

\* A step either leaves the sensors alone, gives all of them the error value
\* or, in a new process, their first one, or settles the one the loop is at.
LEMMA SensorSteps ==
    ASSUME [Next]_vars
    PROVE  \/ /\ UNCHANGED <<resp, sen>>
              /\ pc \in Loop /\ i' # i => Skip \/ LastSensor
           \/ ConnectFails
           \/ Restart
           \/ /\ pc \in {"route", "command", "poll"}
              /\ \E code \in Codes \ {"OK"} : Fail(code)
              /\ UNCHANGED resp
           \/ /\ PollMatches /\ Settle(resp', "OK")
              /\ \/ resp' = Value("temp", reply.addr, reply.taken)
                 \/ "cuts" \in traits /\ resp' = resp
<1>1. CASE UnknownProbe \/ CommandRefused \/ ExchangeBroken \/ PollMisses
  BY <1>1 DEF UnknownProbe, CommandRefused, ExchangeBroken, PollMisses, Codes
<1>2. CASE PollMatches
  BY <1>2 DEF PollMatches, Answered, Codes
<1>3. CASE ~(UnknownProbe \/ CommandRefused \/ ExchangeBroken \/ PollMisses
             \/ PollMatches \/ ConnectFails \/ Restart)
  BY <1>3 DEF Next, RoundStep, vars, ConnectSucceeds, LastSensor, NextSensor,
     Skip, ReadProbe, DiscoveryEnds, DiscoverNext, DiscoverAgain, Command,
     Publish, Hangs, Dies, NumberTaken, NumberFreed, PeerAnswers, NewRound, Loop
<1> QED BY <1>1, <1>2, <1>3

LEMMA SensorsStep ==
    TypeControl /\ TypeSensors /\ TypePeer /\ [Next]_vars => TypeSensors'
<1> SUFFICES ASSUME TypeControl, TypeSensors, TypePeer, [Next]_vars
             PROVE  TypeSensors'
  OBVIOUS
<1>1. CASE UNCHANGED <<resp, sen>>
  BY <1>1 DEF TypeSensors
<1>2. CASE ConnectFails \/ Restart
  BY <1>2, ValueFacts DEF ConnectFails, Restart, TypeSensors
<1>3. ASSUME pc \in {"route", "command", "poll"}, UNCHANGED resp,
             NEW code \in Codes, Fail(code)
      PROVE  TypeSensors'
  BY <1>3, ValueFacts DEF Fail, Settle, TypeControl, TypeSensors
<1>4. CASE /\ PollMatches /\ Settle(resp', "OK")
           /\ \/ resp' = Value("temp", reply.addr, reply.taken)
              \/ "cuts" \in traits /\ resp' = resp
  <2>1. reply.addr \in Sensors /\ reply.taken \in 0..MaxRounds
    BY <1>4 DEF PollMatches, TypeControl, TypePeer
  <2>2. Value("temp", reply.addr, reply.taken) \in Values
    BY <2>1, ValueFacts
  <2>3. resp' \in Values
    BY <1>4, <2>2 DEF TypeSensors
  <2> QED BY <1>4, <2>3, ValueFacts DEF PollMatches, Settle, TypeControl, TypeSensors
<1> QED BY <1>1, <1>2, <1>3, <1>4, SensorSteps

LEMMA LinkStep == TypeControl /\ TypeLink /\ [Next]_vars => TypeLink'
<1> SUFFICES ASSUME TypeControl, TypeLink, [Next]_vars PROVE TypeLink'
  OBVIOUS
<1> USE DEF TypeLink, link
<1>1. CASE ConnectSucceeds \/ ConnectFails \/ LastSensor \/ Restart
  BY <1>1 DEF ConnectSucceeds, ConnectFails, NewRound, LastSensor, Restart
<1>2. CASE DiscoveryEnds \/ ExchangeBroken
  BY <1>2 DEF DiscoveryEnds, ExchangeBroken, Broken, Usable, Stray, TypeControl
<1>3. CASE NumberTaken \/ NumberFreed
  BY <1>3 DEF NumberTaken, NumberFreed
<1>4. UNCHANGED link \/ ConnectSucceeds \/ ConnectFails \/ LastSensor \/ Restart
      \/ DiscoveryEnds \/ ExchangeBroken \/ NumberTaken \/ NumberFreed
  BY DEF Next, RoundStep, vars, NextSensor, Skip, UnknownProbe, ReadProbe,
     DiscoverNext, DiscoverAgain, Command, CommandRefused, PollMisses, NoAnswer,
     PollMatches, Publish, Hangs, Dies, PeerAnswers, Usable, Stray
<1> QED BY <1>1, <1>2, <1>3, <1>4

LEMMA PeerStep == TypeControl /\ TypePeer /\ [Next]_vars => TypePeer'
<1> SUFFICES ASSUME TypeControl, TypePeer, [Next]_vars PROVE TypePeer'
  OBVIOUS
<1>1. CASE Command \/ ((CommandRefused \/ ExchangeBroken) /\ ~UNCHANGED peer)
  <2>1. NoReply \in [addr : Sensors \cup {0}, taken : 0..MaxRounds, ok : BOOLEAN]
    BY DEF NoReply
  <2>2. i \in Sensors /\ Hears
    BY <1>1 DEF Command, CommandRefused, ExchangeBroken, MayHear, TypeControl
  <2> QED BY <2>1, <2>2 DEF Hears, TypePeer
<1>2. CASE PeerAnswers
  BY <1>2 DEF PeerAnswers, TypePeer, TypeControl
<1>3. UNCHANGED peer \/ Command \/ CommandRefused \/ ExchangeBroken \/ PeerAnswers
  BY DEF Next, RoundStep, vars, ConnectSucceeds, ConnectFails, LastSensor,
     NextSensor, Skip, UnknownProbe, ReadProbe, DiscoveryEnds, DiscoverNext,
     DiscoverAgain, PollMisses, PollMatches, Publish, Hangs, Dies, Restart,
     NumberTaken, NumberFreed
<1> QED BY <1>1, <1>2, <1>3 DEF peer, TypePeer

LEMMA TypeStep == TypeOK /\ DiscoveryInv /\ [Next]_vars => TypeOK' /\ DiscoveryInv'
<1> SUFFICES ASSUME TypeOK, DiscoveryInv, [Next]_vars
             PROVE  TypeOK' /\ DiscoveryInv'
  OBVIOUS
<1>1. TypeControl' /\ TypeDiscovery' /\ DiscoveryInv' /\ TypeLink' /\ TypeSensors'
      /\ TypePeer'
  BY TypeParts, ControlStep, DiscoveryStep, LinkStep, SensorsStep, PeerStep
<1> QED BY <1>1 DEF TypeOK, TypeControl, TypeDiscovery, Records, TypeLink, TypeSensors,
             TypePeer

\* Every state is well typed, and a poll is only made while some are left; with
\* a core module that repeats no entry, discovered counts the handles that are
\* known, whatever failures interrupt a discovery.
THEOREM TypeCorrect == Spec => [](TypeOK /\ DiscoveryInv)
  BY TypeInit, TypeStep, PTL DEF Spec

\* Commands and polls go out only with both handles known, unless the core
\* module gives an entry twice.
THEOREM HandlesKnownHolds == Spec => []HandlesKnown
<1>1. TypeOK /\ DiscoveryInv => HandlesKnown
  BY DEF TypeOK, DiscoveryInv, HandlesKnown, Count
<1> QED BY <1>1, TypeCorrect, PTL

-----------------------------------------------------------------------------
(* What a round leaves: the socket, and what it reads once it has lost it.   *)

SocketInv ==
    /\ pc \in {"idle", "publish"} => sock = "closed"
    /\ lost # 0 /\ pc \in Loop => sock # "open" /\ lost <= i

LEMMA SocketInit == Init => SocketInv
  BY DEF Init, SocketInv, Loop

LEMMA SocketStep == TypeOK /\ SocketInv /\ [Next]_vars => SocketInv'
<1> SUFFICES ASSUME TypeOK, SocketInv, [Next]_vars PROVE SocketInv'
  OBVIOUS
<1>0. i \in Nat /\ lost \in Nat /\ (pc \in {"route", "discover", "command", "poll"} => i \in Sensors)
  BY SensorFacts DEF TypeOK
<1> USE DEF SocketInv, link, Loop
<1>1. CASE ConnectSucceeds \/ ConnectFails
  BY <1>1 DEF ConnectSucceeds, ConnectFails, NewRound
<1>2. CASE LastSensor \/ Publish \/ Hangs \/ Dies \/ Restart
  BY <1>2 DEF LastSensor, Publish, Hangs, Dies, Restart
<1>3. CASE DiscoveryEnds
  BY <1>0, <1>3 DEF DiscoveryEnds, Broken, Usable, Stray
<1>4. CASE ExchangeBroken
  BY <1>0, <1>4 DEF ExchangeBroken, Broken, Fail, Settle
<1>5. CASE NextSensor \/ Skip \/ UnknownProbe \/ ReadProbe \/ DiscoverNext
           \/ DiscoverAgain
  BY <1>0, <1>5 DEF NextSensor, Skip, UnknownProbe, ReadProbe, DiscoverNext,
              DiscoverAgain, Usable, Fail, Settle
<1>6. CASE Command \/ CommandRefused
  BY <1>0, <1>6 DEF Command, CommandRefused, Usable, Stray, Fail, Settle
<1>7. CASE PollMisses \/ PollMatches
  BY <1>0, <1>7 DEF PollMisses, PollMatches, Answered, NoAnswer, Usable, Stray,
              Fail, Settle
<1>8. CASE Outside \/ UNCHANGED vars
  BY <1>8 DEF Outside, NumberTaken, NumberFreed, PeerAnswers, vars
<1> QED BY <1>1, <1>2, <1>3, <1>4, <1>5, <1>6, <1>7, <1>8
        DEF Next, RoundStep, Outside

LEMMA SocketCorrect == Spec => []SocketInv
  BY SocketInit, SocketStep, TypeCorrect, PTL DEF Spec

\* No round leaves its socket open, by whichever way it ends.
THEOREM SocketClosedHolds == Spec => []SocketClosedBetweenRounds
<1>1. SocketInv => SocketClosedBetweenRounds
  BY DEF SocketInv, SocketClosedBetweenRounds
<1> QED BY <1>1, SocketCorrect, PTL

\* The sensors the loop has passed since it lost its socket have failed.
LossInv ==
    /\ lost # 0 /\ pc \in Loop /\ cm.discovered = 2 =>
         \A s \in Sensors :
           s >= lost /\ s < i /\ Probes[s] = "02" => sen[s].code # "OK"
    /\ NothingReadAfterLoss

\* No entry is found and nothing is read while the socket is lost.
LEMMA LostReadsNothing ==
    ASSUME TypeOK, SocketInv, lost # 0
    PROVE  ~DiscoverNext /\ ~DiscoverAgain /\ ~Command /\ ~PollMatches
  BY DEF SocketInv, Loop, DiscoverNext, DiscoverAgain, Command, PollMatches, Usable

LEMMA LossStep ==
    TypeOK /\ DiscoveryInv /\ SocketInv /\ LossInv /\ [Next]_vars => LossInv'
<1> SUFFICES ASSUME TypeOK, DiscoveryInv, SocketInv, LossInv, [Next]_vars
             PROVE  LossInv'
  OBVIOUS
<1>0. /\ Sensors = 1..Len(Probes) /\ Len(Probes) \in Nat
      /\ i \in 0..(Len(Probes) + 1) /\ lost \in Nat
      /\ pc \in {"route", "discover", "command", "poll"} => i \in Sensors
  BY SensorFacts DEF TypeOK
<1>1. CASE ConnectSucceeds \/ ConnectFails
  BY <1>1 DEF ConnectSucceeds, ConnectFails, NewRound, LossInv, NothingReadAfterLoss
<1>2. CASE LastSensor
  <2>1. /\ pc = "next" /\ i > Len(Probes) /\ pc' = "publish"
        /\ UNCHANGED <<lost, cm, sen>>
    BY <1>2 DEF LastSensor
  <2>2. \A s \in Sensors : s < i
    BY <1>0, <2>1
  <2> QED BY <2>1, <2>2 DEF LossInv, NothingReadAfterLoss, Loop
<1>3. CASE Publish \/ Hangs \/ Dies \/ Restart
  BY <1>3 DEF Publish, Hangs, Dies, Restart, LossInv, NothingReadAfterLoss, Loop
<1>4. CASE DiscoveryEnds
  <2>1. /\ pc = "discover" /\ pc' = "route" /\ UNCHANGED <<i, cm, sen>>
        /\ lost' = lost \/ lost' = i
    BY <1>4 DEF DiscoveryEnds, Broken, Usable, Stray, link
  <2> QED BY <1>0, <2>1 DEF LossInv, NothingReadAfterLoss, Loop
\* A sensor is settled with the code of a failure, or passed over.
<1>5. ASSUME pc \in Loop, pc' = "next", i \in Sensors, i' = i + 1, cm' = cm,
             lost' = lost \/ lost' = i,
             \/ \E code \in Codes \ {"OK"} : Fail(code)
             \/ Probes[i] # "02" /\ sen' = sen
             \/ cm.discovered # 2
      PROVE  LossInv'
  <2>1. ~NothingReadAfterLoss' => pc' = "publish"
    BY DEF NothingReadAfterLoss
  <2> SUFFICES ASSUME lost' # 0, cm.discovered = 2, NEW s \in Sensors,
                      s >= lost', s < i', Probes[s] = "02"
               PROVE  sen'[s].code # "OK"
    BY <1>5, <2>1 DEF LossInv
  <2>2. CASE s = i
    BY <1>5, <2>2 DEF Fail, Settle, TypeOK
  <2>3. CASE s # i
    <3>1. s < i /\ lost' = lost
      BY <1>0, <1>5, <2>3
    <3>2. sen[s].code # "OK"
      BY <1>5, <3>1 DEF LossInv
    <3> QED BY <1>5, <2>3, <3>2 DEF Fail, Settle, TypeOK
  <2> QED BY <2>2, <2>3
<1>6. CASE ExchangeBroken
  BY <1>0, <1>5, <1>6 DEF ExchangeBroken, Broken, Fail, Settle, Codes, Loop
<1>7. CASE Skip \/ UnknownProbe \/ CommandRefused
  BY <1>0, <1>5, <1>7 DEF Skip, UnknownProbe, CommandRefused, Usable, Stray, link,
     Fail, Settle, Codes, Loop
<1>8. CASE PollMisses
  <2>1. lost' = lost /\ cm' = cm /\ pc = "poll"
    BY <1>8 DEF PollMisses, NoAnswer, Usable, Stray, link
  <2>2. CASE UNCHANGED <<pc, i, sen>>
    BY <2>1, <2>2 DEF LossInv, NothingReadAfterLoss
  <2>3. CASE Fail("BLE_INTERNAL_CMD_NO_RESPONSE")
    BY <1>0, <1>5, <2>1, <2>3 DEF Fail, Settle, Codes, Loop
  <2> QED BY <1>8, <2>2, <2>3 DEF PollMisses
<1>9. CASE DiscoverNext \/ DiscoverAgain \/ Command \/ PollMatches
  <2>1. lost = 0
    BY <1>9, LostReadsNothing
  <2>2. lost' = lost /\ pc' # "publish"
    BY <1>9 DEF DiscoverNext, DiscoverAgain, Command, PollMatches, Usable, link,
       Answered, Fail, Settle
  <2> QED BY <2>1, <2>2 DEF LossInv, NothingReadAfterLoss
<1>10. CASE NextSensor \/ ReadProbe \/ Outside \/ UNCHANGED vars
  <2>1. /\ UNCHANGED <<lost, i, cm, sen>>
        /\ pc' \in Loop => pc \in Loop
        /\ pc' = "publish" => pc = "publish"
    BY <1>10 DEF NextSensor, ReadProbe, Outside, NumberTaken, NumberFreed,
       PeerAnswers, vars, link, Loop
  <2> QED BY <2>1 DEF LossInv, NothingReadAfterLoss
<1> QED BY <1>1, <1>2, <1>3, <1>4, <1>6, <1>7, <1>8, <1>9, <1>10
        DEF Next, RoundStep, Outside

\* A round that has lost its socket reads nothing more, even if the number it
\* goes on using is opened again by the other thread.
THEOREM NothingReadAfterLossHolds == Spec => []NothingReadAfterLoss
<1>1. Init => LossInv
  BY DEF Init, LossInv, NothingReadAfterLoss, Loop
<1>2. LossInv => NothingReadAfterLoss
  BY DEF LossInv
<1> QED BY <1>1, <1>2, LossStep, SocketCorrect, TypeCorrect, PTL DEF Spec

\* A temperature is told from the error value and from cleared memory.
LEMMA KindFacts ==
    /\ Zero # ERROR_DATA_VALUE
    /\ Zero.kind = "zero" /\ ERROR_DATA_VALUE.kind = "error"
    /\ \A s, r : /\ Value("temp", s, r) # ERROR_DATA_VALUE
                 /\ Value("temp", s, r).kind = "temp"
                 /\ Value("temp", s, r).from = s
                 /\ Value("temp", s, r).taken = r
<1>1. Zero.kind = "zero" /\ ERROR_DATA_VALUE.kind = "error"
  BY DEF Zero, ERROR_DATA_VALUE, Value
<1>2. \A s, r : /\ Value("temp", s, r).kind = "temp"
                /\ Value("temp", s, r).from = s
                /\ Value("temp", s, r).taken = r
  BY DEF Value
<1>3. "zero" # "error" /\ "temp" # "error"
  OBVIOUS
<1> QED BY <1>1, <1>2, <1>3

SentinelInv == ErrorIffSentinel /\ resp # ERROR_DATA_VALUE

LEMMA SentinelStep == TypeOK /\ SentinelInv /\ [Next]_vars => SentinelInv'
<1> SUFFICES ASSUME TypeOK, SentinelInv, [Next]_vars
             PROVE  SentinelInv'
  OBVIOUS
<1> USE DEF SentinelInv, ErrorIffSentinel
<1>1. CASE UNCHANGED <<resp, sen>>
  BY <1>1
<1>2. CASE ConnectFails
  BY <1>2 DEF ConnectFails
<1>3. CASE Restart
  BY <1>3, KindFacts DEF Restart
<1>4. ASSUME NEW code \in Codes \ {"OK"}, Fail(code), UNCHANGED resp
      PROVE  SentinelInv'
  BY <1>4 DEF Fail, Settle, TypeOK
<1>5. CASE /\ PollMatches /\ Settle(resp', "OK")
           /\ \/ resp' = Value("temp", reply.addr, reply.taken)
              \/ "cuts" \in traits /\ resp' = resp
  <2>1. resp' # ERROR_DATA_VALUE
    BY <1>5, KindFacts
  <2> QED BY <1>5, <2>1 DEF Settle, TypeOK
<1> QED BY <1>1, <1>2, <1>3, <1>4, <1>5, SensorSteps

\* A sensor's data is the error value exactly when its code tells of an error,
\* what the response buffer holds of earlier answers included.
THEOREM ErrorIffSentinelHolds == Spec => []ErrorIffSentinel
<1>1. Init => SentinelInv
  BY KindFacts DEF Init, SentinelInv, ErrorIffSentinel
<1>2. SentinelInv => ErrorIffSentinel
  BY DEF SentinelInv
<1> QED BY <1>1, <1>2, SentinelStep, TypeCorrect, PTL DEF Spec

-----------------------------------------------------------------------------
(* Whose measurement a sensor holds, and of which round. *)

LEMMA OwnStep == TypeOK /\ OwnReading /\ [Next]_vars => OwnReading'
<1> SUFFICES ASSUME TypeOK, OwnReading, [Next]_vars, "cuts" \notin traits
             PROVE  \A s \in Sensors :
                      sen'[s].data.kind = "temp" => sen'[s].data.from = s
  BY TraitsStay DEF OwnReading
<1> USE DEF OwnReading
<1>1. CASE UNCHANGED <<resp, sen>>
  BY <1>1
<1>2. CASE ConnectFails
  BY <1>2, KindFacts DEF ConnectFails
<1>3. CASE Restart
  BY <1>3, KindFacts DEF Restart
<1>4. ASSUME NEW code \in Codes \ {"OK"}, Fail(code), NEW s \in Sensors,
             sen'[s].data.kind = "temp"
      PROVE  sen'[s].data.from = s
  BY <1>4, KindFacts DEF Fail, Settle, TypeOK
<1>5. CASE /\ PollMatches /\ Settle(resp', "OK")
           /\ resp' = Value("temp", reply.addr, reply.taken)
  <2>1. resp'.from = i
    BY <1>5, KindFacts DEF PollMatches
  <2> QED BY <1>5, <2>1 DEF Settle, TypeOK
<1> QED BY <1>1, <1>2, <1>3, <1>4, <1>5, SensorSteps

\* With answers that are whole, a measurement is never credited to another
\* sensor.
THEOREM OwnReadingHolds == Spec => []OwnReading
<1>1. Init => OwnReading
  BY KindFacts DEF Init, OwnReading
<1> QED BY <1>1, OwnStep, TypeCorrect, PTL DEF Spec

\* Only sensors the loop can read ever hold a measurement, so the ones it
\* skips hold none, and while a discovery runs none does at all; those the loop
\* has passed hold this round's, and so does the reply it polls for, if the
\* core module clears it.
Clearing == "clears" \in traits /\ "cuts" \notin traits

FreshInv ==
    /\ \A s \in Sensors : sen[s].data.kind = "temp" =>
         cm.discovered = 2 /\ Probes[s] = "02" /\ pc # "discover"
    /\ pc \in {"command", "poll"} => Probes[i] = "02"
    /\ Clearing /\ pc = "poll" => reply.addr = 0 \/ reply.taken = round
    /\ Clearing /\ pc \in Loop =>
         \A s \in Sensors :
           s < i /\ sen[s].data.kind = "temp" => sen[s].data.taken = round
    /\ FreshIfCleared

\* What a step does to a sensor: it keeps what it holds, or it is settled.
LEMMA SensorEffect ==
    ASSUME TypeOK, [Next]_vars, NEW s \in Sensors, sen'[s].data.kind = "temp"
    PROVE  \/ sen'[s] = sen[s] /\ s # i /\ ~Restart
           \/ /\ sen'[s] = sen[s] /\ ~Restart
              /\ pc \in Loop /\ i' # i => Skip \/ LastSensor
           \/ /\ PollMatches /\ s = i
              /\ "cuts" \notin traits => sen'[s].data.taken = reply.taken
<1>0. ~Restart
  BY KindFacts DEF Restart
<1>1. CASE ConnectFails
  BY <1>1, KindFacts DEF ConnectFails
<1>2. ASSUME NEW code \in Codes \ {"OK"}, Fail(code)
      PROVE  sen'[s] = sen[s] /\ s # i
  BY <1>2, KindFacts DEF Fail, Settle, TypeOK
<1>3. CASE /\ PollMatches /\ Settle(resp', "OK")
           /\ \/ resp' = Value("temp", reply.addr, reply.taken)
              \/ "cuts" \in traits /\ resp' = resp
  <2>1. "cuts" \notin traits => resp'.taken = reply.taken
    BY <1>3, KindFacts
  <2>2. pc = "poll" /\ i \in Sensors
    BY <1>3 DEF PollMatches, TypeOK
  <2> QED BY <1>0, <1>3, <2>1, <2>2 DEF Settle, TypeOK
<1> QED BY <1>0, <1>1, <1>2, <1>3, SensorSteps

\* What is known of a core module changes only in a discovery and with the
\* process.
LEMMA DiscoveredStays ==
    ASSUME [Next]_vars, pc # "discover", ~Restart
    PROVE  cm' = cm /\ (pc' = "discover" => cm.discovered = 0 /\ sen' = sen)
  BY DEF Next, RoundStep, vars, ConnectSucceeds, ConnectFails, LastSensor,
     NextSensor, Skip, UnknownProbe, ReadProbe, DiscoveryEnds, DiscoverNext,
     DiscoverAgain, Command, CommandRefused, ExchangeBroken, PollMisses,
     PollMatches, Publish, Hangs, Dies, NumberTaken, NumberFreed, PeerAnswers,
     Answered, Fail, Settle

LEMMA FreshStep ==
    TypeOK /\ DiscoveryInv /\ FreshInv /\ [Next]_vars => FreshInv'
<1> SUFFICES ASSUME TypeOK, DiscoveryInv, FreshInv, [Next]_vars
             PROVE  FreshInv'
  OBVIOUS
<1>0. /\ Sensors = 1..Len(Probes) /\ Len(Probes) \in Nat
      /\ i \in 0..(Len(Probes) + 1)
      /\ pc \in {"route", "discover", "command", "poll"} => i \in Sensors
  BY SensorFacts DEF TypeOK
<1>1. \A s \in Sensors : sen'[s].data.kind = "temp" =>
        cm'.discovered = 2 /\ Probes[s] = "02" /\ pc' # "discover"
  <2> SUFFICES ASSUME NEW s \in Sensors, sen'[s].data.kind = "temp"
               PROVE  cm'.discovered = 2 /\ Probes[s] = "02" /\ pc' # "discover"
    OBVIOUS
  <2>1. CASE sen'[s] = sen[s] /\ ~Restart
    <3>1. cm.discovered = 2 /\ Probes[s] = "02" /\ pc # "discover"
      BY <2>1 DEF FreshInv
    <3> QED BY <2>1, <3>1, DiscoveredStays
  <2>2. CASE PollMatches /\ s = i
    <3>1. pc = "poll" /\ ~Restart
      BY <2>2 DEF PollMatches, Restart
    <3>2. cm.discovered = 2 /\ Probes[s] = "02"
      BY <2>2, <3>1 DEF DiscoveryInv, FreshInv
    <3> QED BY <3>1, <3>2, DiscoveredStays
  <2> QED BY <2>1, <2>2, SensorEffect
<1>2. pc' \in {"command", "poll"} => Probes[i'] = "02"
  BY DEF FreshInv, Next, RoundStep, vars, ConnectSucceeds, ConnectFails,
     LastSensor, NextSensor, Skip, UnknownProbe, ReadProbe, DiscoveryEnds,
     DiscoverNext, DiscoverAgain, Command, CommandRefused, ExchangeBroken,
     PollMisses, PollMatches, Publish, Hangs, Dies, Restart, NumberTaken,
     NumberFreed, PeerAnswers, Answered, Fail, Settle
<1>3. Clearing' /\ pc' = "poll" => reply'.addr = 0 \/ reply'.taken = round'
  <2> SUFFICES ASSUME Clearing, pc' = "poll"
               PROVE  reply'.addr = 0 \/ reply'.taken = round'
    BY TraitsStay DEF Clearing
  <2>1. CASE Command
    BY <2>1 DEF Command, Hears, NoReply, Clearing
  <2>2. CASE PeerAnswers
    BY <2>2 DEF PeerAnswers
  <2>3. CASE ~Command /\ ~PeerAnswers
    <3>1. UNCHANGED peer /\ pc = "poll" /\ round' = round
      BY <2>3 DEF Next, RoundStep, vars, ConnectSucceeds, ConnectFails,
         LastSensor, NextSensor, Skip, UnknownProbe, ReadProbe, DiscoveryEnds,
         DiscoverNext, DiscoverAgain, CommandRefused, ExchangeBroken, PollMisses,
         PollMatches, Publish, Hangs, Dies, Restart, NumberTaken, NumberFreed,
         NewRound, Answered, Fail, Settle
    <3> QED BY <3>1 DEF peer, FreshInv
  <2> QED BY <2>1, <2>2, <2>3
\* Where the loop stands after a step, and what it has passed since.
<1>4. Clearing' = Clearing
  BY TraitsStay DEF Clearing
<1>5. CASE ConnectSucceeds \/ ConnectFails
  <2>1. i' \in {0, 1} /\ pc' \in {"next", "publish"} /\ (pc' = "next" => i' = 1)
    BY <1>5 DEF ConnectSucceeds, ConnectFails
  <2>2. pc' = "publish" => \A s \in Sensors : sen'[s].data.kind # "temp"
    BY <1>5, KindFacts DEF ConnectSucceeds, ConnectFails
  <2>3. \A s \in Sensors : ~(s < i')
    BY <1>0, <2>1
  <2> QED BY <1>1, <1>2, <1>3, <2>1, <2>2, <2>3 DEF FreshInv, FreshIfCleared, Fresh
<1>6. CASE LastSensor
  <2>1. /\ pc = "next" /\ i > Len(Probes) /\ pc' = "publish"
        /\ sen' = sen /\ round' = round
    BY <1>6 DEF LastSensor
  <2>2. \A s \in Sensors : s < i
    BY <1>0, <2>1
  <2> QED BY <1>1, <1>2, <1>3, <1>4, <2>1, <2>2
          DEF FreshInv, FreshIfCleared, Fresh, Clearing, Loop
<1>7. CASE Publish \/ Hangs \/ Dies \/ Restart
  BY <1>1, <1>2, <1>3, <1>7 DEF Publish, Hangs, Dies, Restart, FreshInv,
     FreshIfCleared, Loop
<1>8. CASE ~(ConnectSucceeds \/ ConnectFails \/ LastSensor \/ Publish \/ Hangs
             \/ Dies \/ Restart)
  <2>1. /\ pc \in Loop <=> pc' \in Loop
        /\ pc = "publish" <=> pc' = "publish"
        /\ round' = round
        /\ i' = i \/ i' = i + 1
        /\ i' = i + 1 => pc \in {"route", "command", "poll"}
    BY <1>0, <1>8 DEF Loop, Next, RoundStep, vars, NextSensor, Skip,
       UnknownProbe, ReadProbe, DiscoveryEnds, DiscoverNext, DiscoverAgain,
       Command, CommandRefused, ExchangeBroken, PollMisses, PollMatches,
       NumberTaken, NumberFreed, PeerAnswers, Answered, Fail, Settle
  <2>2. ASSUME Clearing, pc \in Loop, NEW s \in Sensors, s < i',
               sen'[s].data.kind = "temp"
        PROVE  sen'[s].data.taken = round
    <3>1. CASE sen'[s] = sen[s] /\ s < i
      BY <2>2, <3>1 DEF FreshInv
    <3>2. CASE PollMatches /\ s = i /\ sen'[s].data.taken = reply.taken
      <4>1. pc = "poll" /\ reply.addr = i /\ i # 0
        BY <1>0, <3>2 DEF PollMatches
      <4> QED BY <2>2, <3>2, <4>1 DEF FreshInv
    <3>3. CASE Skip /\ sen'[s] = sen[s]
      <4>1. s # i
        BY <2>2, <3>3 DEF Skip, FreshInv
      <4> QED BY <1>0, <2>1, <2>2, <3>1, <3>3, <4>1
    <3>4. \/ sen'[s] = sen[s] /\ s # i
          \/ sen'[s] = sen[s] /\ (i' # i => Skip)
          \/ PollMatches /\ s = i /\ sen'[s].data.taken = reply.taken
      BY <1>8, <2>2, SensorEffect DEF Clearing
    <3> QED BY <1>0, <2>1, <2>2, <3>1, <3>2, <3>3, <3>4
  <2>3. pc = "publish" => sen' = sen
    BY <1>8 DEF Next, RoundStep, vars, NextSensor, Skip, UnknownProbe,
       ReadProbe, DiscoveryEnds, DiscoverNext, DiscoverAgain, Command,
       CommandRefused, ExchangeBroken, PollMisses, PollMatches, NumberTaken,
       NumberFreed, PeerAnswers
  <2>4. FreshIfCleared'
    BY <1>4, <2>1, <2>3 DEF FreshInv, FreshIfCleared, Fresh, Clearing
  <2> QED BY <1>1, <1>2, <1>3, <1>4, <2>1, <2>2, <2>4 DEF FreshInv
<1> QED BY <1>5, <1>6, <1>7, <1>8

LEMMA FreshInit == Init => FreshInv
  BY KindFacts DEF Init, FreshInv, FreshIfCleared, Loop

\* A core module that drops its last answer at a command, and whose answers are
\* whole, never makes a round publish a measurement of an earlier round,
\* whatever fails in between.
THEOREM FreshIfClearedHolds == Spec => []FreshIfCleared
<1>1. FreshInv => FreshIfCleared
  BY DEF FreshInv
<1> QED BY <1>1, FreshInit, FreshStep, TypeCorrect, PTL DEF Spec

-----------------------------------------------------------------------------
(* How long a round can be.  Steps counts what one sensor may take: the      *)
(* loop, a discovery of all characteristics, the command and every poll.     *)

Steps == Len(Chars) + FAST_RETRY_TIMES + 5

\* What the sensors after the k-th may take.
Rest(k) == (Len(Probes) - k) * Steps

\* The steps a round can still take; 0 between rounds and where one has ended.
Left ==
    CASE pc \in {"idle", "stuck", "dead"} -> 0
      [] pc = "publish"  -> 1
      [] pc = "next"     -> 2 + Rest(i - 1)
      [] pc = "discover" -> 6 + Rest(i) + FAST_RETRY_TIMES + (Len(Chars) - seek)
      [] pc = "route"    -> 5 + Rest(i) + FAST_RETRY_TIMES
      [] pc = "command"  -> 4 + Rest(i) + FAST_RETRY_TIMES
      [] pc = "poll"     -> 3 + Rest(i) + retry

\* A round takes at most 2 + Len(Probes) * Steps steps of the callback, if the
\* core module repeats no entry: each step leaves fewer, and those of the core
\* module and of the other thread add none.  Giving an entry a second time is
\* the one answer that brings a round no nearer to its end.
RoundIsBounded ==
    [][ /\ pc = "idle" => Left' <= 2 + Len(Probes) * Steps
        /\ RoundStep /\ ~DiscoverAgain => Left' < Left
        /\ pc # "idle" /\ (RoundStep => DiscoverAgain) => Left' = Left ]_vars

LEMMA RestFacts ==
    /\ Steps \in Nat /\ Steps = Len(Chars) + FAST_RETRY_TIMES + 5
    /\ Rest(0) = Len(Probes) * Steps
    /\ \A k \in -1..Len(Probes) : Rest(k) \in Nat
    /\ \A k \in 0..Len(Probes) : Rest(k - 1) = Rest(k) + Steps
<1>1. Steps \in Nat
  BY CharFacts DEF Steps
<1>2. \A a \in Nat : a * Steps \in Nat /\ (a + 1) * Steps = a * Steps + Steps
  BY <1>1
<1>3. ASSUME NEW k \in -1..Len(Probes) PROVE Rest(k) \in Nat
  <2>1. Len(Probes) - k \in Nat
    BY SensorFacts
  <2> QED BY <1>2, <2>1 DEF Rest
<1>4. ASSUME NEW k \in 0..Len(Probes) PROVE Rest(k - 1) = Rest(k) + Steps
  <2>1. Len(Probes) - k \in Nat /\ Len(Probes) - (k - 1) = (Len(Probes) - k) + 1
    BY SensorFacts
  <2> QED BY <1>2, <2>1 DEF Rest
<1>5. Rest(0) = Len(Probes) * Steps
  BY SensorFacts DEF Rest
<1> QED BY <1>1, <1>3, <1>4, <1>5 DEF Steps

\* The count is a natural number, and 0 only where no round goes on.
LEMMA LeftType ==
    ASSUME TypeControl, TypeDiscovery
    PROVE  Left \in Nat /\ (Left = 0 <=> pc \in {"idle", "stuck", "dead"})
<1>1. i \in Nat /\ i - 1 \in -1..Len(Probes) /\ (i \in Sensors => i \in -1..Len(Probes))
  BY SensorFacts DEF TypeControl
<1>2. Rest(i - 1) \in Nat /\ (i \in Sensors => Rest(i) \in Nat)
  BY <1>1, RestFacts
<1>3. Len(Chars) - seek \in Nat /\ retry \in Nat /\ FAST_RETRY_TIMES \in Nat
  BY CharFacts DEF TypeControl, TypeDiscovery
<1>4. CASE pc \in {"idle", "stuck", "dead", "next", "publish"}
  BY <1>2, <1>4 DEF Left
<1>5. CASE pc \in {"route", "discover", "command", "poll"}
  <2>1. Rest(i) \in Nat
    BY <1>2, <1>5 DEF TypeControl
  <2>2. CASE pc = "discover"
    BY <1>3, <2>1, <2>2 DEF Left
  <2>3. CASE pc \in {"route", "command"}
    BY <1>3, <2>1, <2>3 DEF Left
  <2>4. CASE pc = "poll"
    BY <1>3, <2>1, <2>4 DEF Left
  <2> QED BY <1>5, <2>2, <2>3, <2>4
<1> QED BY <1>4, <1>5 DEF TypeControl, Loop

LEMMA RoundShortens ==
    ASSUME TypeControl, TypeDiscovery, RoundStep, ~DiscoverAgain
    PROVE  Left' < Left
<1>1. i \in Nat /\ (i \in Sensors => i \in 0..Len(Probes))
  BY SensorFacts DEF TypeControl
<1>2. \A k \in -1..Len(Probes) : Rest(k) \in Nat
  BY RestFacts
<1>3. /\ i \in Sensors => Rest(i) \in Nat /\ Rest(i - 1) = Rest(i) + Steps
      /\ (i + 1) - 1 = i
  BY <1>1, RestFacts
<1>4. /\ Steps = Len(Chars) + FAST_RETRY_TIMES + 5
      /\ Steps \in Nat /\ Len(Chars) \in Nat /\ seek \in 0..Len(Chars)
      /\ FAST_RETRY_TIMES \in Nat \ {0} /\ retry \in 0..FAST_RETRY_TIMES
  BY RestFacts, CharFacts DEF TypeControl, TypeDiscovery
<1>0. i' = i => Rest(i)' = Rest(i)
  BY DEF Rest
\* The sensor is done with, after a command or a poll or without either.
<1>5. ASSUME i \in Sensors, pc \in {"route", "command", "poll"},
             pc' = "next", i' = i + 1
      PROVE  Left' < Left
  <2>1. Left' = 2 + Rest(i)
    BY <1>3, <1>5 DEF Left, Rest
  <2>2. Left > 2 + Rest(i)
    <3>1. Rest(i) \in Nat
      BY <1>3, <1>5
    <3>2. CASE pc = "poll"
      BY <1>4, <3>1, <3>2 DEF Left
    <3>3. CASE pc \in {"route", "command"}
      BY <1>4, <3>1, <3>3 DEF Left
    <3> QED BY <1>5, <3>2, <3>3
  <2> QED BY <1>3, <1>5, <2>1, <2>2
<1>6. CASE LastSensor
  <2>1. Left = 2 + Rest(i - 1) /\ Left' = 1 /\ i - 1 \in -1..Len(Probes)
    BY <1>6, SensorFacts DEF LastSensor, Left, TypeControl
  <2> QED BY <2>1, <1>2
<1>7. CASE NextSensor
  <2>1. /\ i \in Sensors /\ i' = i /\ seek' = 0 /\ pc = "next"
        /\ pc' \in {"discover", "route"}
    BY <1>7 DEF NextSensor
  <2>2. Left = 2 + (Rest(i) + Steps)
    BY <2>1, <1>3 DEF Left
  <2>3. \/ Left' = 6 + Rest(i) + FAST_RETRY_TIMES + Len(Chars)
        \/ Left' = 5 + Rest(i) + FAST_RETRY_TIMES
    BY <2>1, <1>0, <1>4 DEF Left
  <2>4. Rest(i) \in Nat
    BY <2>1, <1>3
  <2> QED BY <2>2, <2>3, <2>4, <1>4
<1>8. CASE Skip \/ UnknownProbe
  BY <1>5, <1>8 DEF Skip, UnknownProbe, Fail, Settle, TypeControl
<1>9. CASE ReadProbe \/ DiscoveryEnds
  <2>1. i \in Sensors /\ i' = i /\ (ReadProbe \/ DiscoveryEnds)
    BY <1>9 DEF ReadProbe, DiscoveryEnds, TypeControl
  <2>2. CASE pc = "route" /\ pc' = "command"
    BY <2>1, <2>2, <1>0, <1>3, <1>4 DEF Left
  <2>3. CASE pc = "discover" /\ pc' = "route"
    <3>1. Left' = 5 + Rest(i) + FAST_RETRY_TIMES
      BY <2>1, <2>3, <1>0 DEF Left
    <3>2. Left = 6 + Rest(i) + FAST_RETRY_TIMES + (Len(Chars) - seek)
      BY <2>3 DEF Left
    <3>3. Len(Chars) - seek \in Nat /\ Rest(i) \in Nat
      BY <2>1, <1>3, <1>4
    <3> QED BY <3>1, <3>2, <3>3, <1>4
  <2> QED BY <1>9, <2>2, <2>3 DEF ReadProbe, DiscoveryEnds
<1>10. CASE DiscoverNext
  <2>1. /\ i \in Sensors /\ i' = i /\ pc = "discover" /\ pc' = "discover"
        /\ seek' = seek + 1 /\ seek < Len(Chars)
    BY <1>10 DEF DiscoverNext, TypeControl
  <2> QED BY <2>1, <1>0, <1>3, <1>4 DEF Left
<1>11. CASE Command
  <2>1. /\ i \in Sensors /\ i' = i /\ pc = "command" /\ pc' = "poll"
        /\ retry' = FAST_RETRY_TIMES
    BY <1>11 DEF Command, TypeControl
  <2> QED BY <2>1, <1>0, <1>3, <1>4 DEF Left
<1>12. CASE CommandRefused \/ ExchangeBroken
  BY <1>5, <1>12 DEF CommandRefused, ExchangeBroken, Fail, Settle, TypeControl
<1>13. CASE PollMisses \/ PollMatches
  <2>1. pc = "poll" /\ i \in Sensors /\ retry' = retry - 1
    BY <1>13 DEF PollMisses, PollMatches, TypeControl
  <2>2. \/ pc' = "next" /\ i' = i + 1
        \/ pc' = "poll" /\ i' = i
    BY <1>13, <2>1 DEF PollMisses, PollMatches, Answered, Fail, Settle
  <2>3. CASE pc' = "poll" /\ i' = i
    BY <2>1, <2>3, <1>0, <1>3, <1>4 DEF Left
  <2> QED BY <1>5, <2>1, <2>2, <2>3
<1>14. CASE Publish
  BY <1>14 DEF Publish, Left
<1>15. CASE Hangs \/ Dies
  <2>1. pc \in {"discover", "command", "poll"} /\ Left' = 0
    BY <1>15 DEF Hangs, Dies, Left
  <2> QED BY <2>1, LeftType
<1> QED BY <1>6, <1>7, <1>8, <1>9, <1>10, <1>11, <1>12, <1>13, <1>14, <1>15
        DEF RoundStep

\* No round takes more steps than its sensors, its characteristics and its
\* polls allow, for any number of each and whatever fails, unless discovery is
\* given an entry again; how long one call may take is another matter.
THEOREM RoundIsBoundedHolds == Spec => RoundIsBounded
<1>1. ASSUME TypeOK, [Next]_vars
      PROVE  [ /\ pc = "idle" => Left' <= 2 + Len(Probes) * Steps
               /\ RoundStep /\ ~DiscoverAgain => Left' < Left
               /\ pc # "idle" /\ (RoundStep => DiscoverAgain) => Left' = Left ]_vars
  <2>0. TypeControl /\ TypeDiscovery
    BY <1>1, TypeParts
  <2>1. RoundStep /\ ~DiscoverAgain => Left' < Left
    BY <2>0, RoundShortens
  <2>2. ASSUME pc = "idle", Next PROVE Left' <= 2 + Len(Probes) * Steps
    <3>1. Rest(0) \in Nat /\ Rest(0) = Len(Probes) * Steps
      BY RestFacts, SensorFacts
    <3>2. CASE ConnectSucceeds
      <4>1. Left' = 2 + Rest(0)
        BY <3>2 DEF ConnectSucceeds, Left, Rest
      <4> QED BY <3>1, <4>1
    <3>3. CASE ConnectFails
      BY <3>1, <3>3 DEF ConnectFails, Left
    <3>4. CASE PeerAnswers
      BY <2>2, <3>1, <3>4 DEF PeerAnswers, Left
    <3>5. ~RoundStep /\ ~Restart /\ ~NumberTaken /\ ~NumberFreed
      BY <2>2 DEF RoundStep, LastSensor, NextSensor, Skip, UnknownProbe, ReadProbe,
         DiscoveryEnds, DiscoverNext, DiscoverAgain, Command, CommandRefused,
         ExchangeBroken, PollMisses, PollMatches, Publish, Hangs, Dies, Restart,
         NumberTaken, NumberFreed, Loop
    <3> QED BY <2>2, <3>2, <3>3, <3>4, <3>5 DEF Next
  <2>3. ASSUME pc # "idle", RoundStep => DiscoverAgain, Next PROVE Left' = Left
    <3>1. Outside \/ Restart \/ DiscoverAgain
      BY <2>3 DEF Next, Outside, ConnectSucceeds, ConnectFails, NewRound
    <3>2. CASE Restart
      BY <3>2 DEF Restart, Left
    <3>3. CASE Outside \/ DiscoverAgain
      BY <3>3 DEF Outside, NumberTaken, NumberFreed, PeerAnswers, DiscoverAgain,
         Left, Rest
    <3> QED BY <3>1, <3>2, <3>3
  <2> QED BY <1>1, <2>1, <2>2, <2>3
<1> QED BY <1>1, TypeCorrect, PTL DEF Spec, RoundIsBounded

-----------------------------------------------------------------------------
(* The two claims the code makes that do not hold in general, under what     *)
(* they need.                                                                *)

\* With core modules that drop their last answer at every command and whose
\* answers are whole, a response that is accepted is to this round's command:
\* the address check of ble_data_acq is then enough, whatever the link does.
THEOREM ResponseIsToCommandIfCleared ==
    ASSUME \A k \in CoreModules : "clears" \in k /\ "cuts" \notin k
    PROVE  Spec => []ResponseIsToCommand
<1>1. TypeOK /\ FreshIfCleared => ResponseIsToCommand
  BY DEF TypeOK, FreshIfCleared, ResponseIsToCommand
<1> QED BY <1>1, FreshIfClearedHolds, TypeCorrect, PTL

\* Discovery meets a characteristic with this UUID before an entry it cannot
\* read, which ends it.
Reached(uuid) ==
    \E c \in DOMAIN Chars : Chars[c] = uuid /\ \A k \in 1..c : Chars[k] # "odd"

\* The link does not fail, the core module answers in full and each entry once,
\* and every sensor is of the kind that is read.
Sound ==
    /\ ~LinkFaults
    /\ \A k \in CoreModules : "repeats" \notin k /\ "cuts" \notin k
    /\ \A s \in Sensors : Probes[s] = "02"
    /\ Reached("read") /\ Reached("write")

\* Discovery is over only with both handles, so no sensor is passed over.
MeasuredInv ==
    /\ pc \in Loop => sock = "open"
    /\ pc = "discover" =>
         /\ (\E k \in 1..seek : Chars[k] = "read") => cm.read_handle = "read"
         /\ (\E k \in 1..seek : Chars[k] = "write") => cm.write_handle = "write"
    /\ pc # "discover" => cm.discovered \in {0, 2}
    /\ pc \in {"route", "command", "poll"} => cm.discovered = 2
    /\ pc \in Loop =>
         \A s \in Sensors :
           s < i /\ sen[s].code = "OK" => sen[s].data.kind = "temp"
    /\ OkMeansMeasured

\* Where a discovery on a sound link ends, it has passed both characteristics.
LEMMA DiscoveryIsComplete ==
    ASSUME Sound, TypeDiscovery, TypePeer, DiscoveryInv, MeasuredInv, DiscoveryEnds
    PROVE  cm.discovered = 2
<1>1. /\ seek \in 0..Len(Chars) /\ pc = "discover" /\ sock = "open"
      /\ ~LinkFaults /\ "repeats" \notin traits
  BY DEF TypeDiscovery, DiscoveryEnds, MeasuredInv, Loop, Sound, TypePeer
<1>2. seek = Len(Chars) \/ (seek < Len(Chars) /\ Chars[seek + 1] = "odd")
  <2>1. seek = Len(Chars) \/ Chars[seek + 1] = "odd"
    BY <1>1 DEF DiscoveryEnds, Broken, Stray
  <2>2. seek # Len(Chars) => seek < Len(Chars)
    <3>1. \A m, n \in Int : m \in 0..n /\ m # n => m < n
      OBVIOUS
    <3>2. seek \in Int /\ Len(Chars) \in Int
      BY <1>1, CharFacts
    <3> QED BY <1>1, <3>1, <3>2, Zenon
  <2> QED BY <2>1, <2>2
<1>3. ASSUME NEW uuid, Reached(uuid)
      PROVE  \E k \in 1..seek : Chars[k] = uuid
  <2>1. PICK c \in 1..Len(Chars) : Chars[c] = uuid /\ \A k \in 1..c : Chars[k] # "odd"
    BY <1>3, CharFacts DEF Reached
  <2>2. c <= seek
    <3>1. CASE seek = Len(Chars)
      BY <3>1, CharFacts
    <3>2. CASE seek < Len(Chars) /\ Chars[seek + 1] = "odd"
      <4>1. seek + 1 \notin 1..c
        BY <2>1, <3>2
      <4> QED BY <1>1, <4>1, CharFacts
    <3> QED BY <1>2, <3>1, <3>2
  <2> QED BY <1>1, <2>1, <2>2, CharFacts
<1>4. cm.read_handle = "read" /\ cm.write_handle = "write"
  BY <1>1, <1>3 DEF MeasuredInv, Sound
<1> QED BY <1>1, <1>4 DEF DiscoveryInv, Count

LEMMA MeasuredInit == Init => MeasuredInv
  BY CharFacts DEF Init, NothingFound, MeasuredInv, OkMeansMeasured, Loop

\* The control of the round on a sound link.
LEMMA SoundControl ==
    ASSUME Sound, TypeOK, DiscoveryInv, MeasuredInv, [Next]_vars
    PROVE  /\ pc' \in Loop => sock' = "open"
           /\ pc' # "discover" => cm'.discovered \in {0, 2}
           /\ pc' \in {"route", "command", "poll"} => cm'.discovered = 2
           /\ ~ConnectFails /\ ~Skip /\ ~UnknownProbe /\ ~DiscoverAgain
<1>0. TypeControl /\ TypeDiscovery /\ TypePeer
  BY TypeParts
<1>1. ~LinkFaults /\ "repeats" \notin traits /\ (i \in Sensors => Probes[i] = "02")
  BY <1>0 DEF Sound, TypePeer
<1>2. ~ConnectFails /\ ~Skip /\ ~UnknownProbe /\ ~DiscoverAgain
  BY <1>0, <1>1 DEF ConnectFails, Skip, UnknownProbe, DiscoverAgain, MeasuredInv,
     TypeControl
<1>3. pc \in Loop => sock = "open" /\ ~Broken /\ ~Stray
  BY <1>1 DEF MeasuredInv, Broken, Stray
<1>4. CASE ConnectSucceeds
  BY <1>2, <1>4 DEF ConnectSucceeds, NewRound, MeasuredInv, Loop
<1>5. CASE LastSensor \/ Publish \/ Restart
  BY <1>2, <1>5 DEF LastSensor, Publish, Restart, NothingFound, MeasuredInv,
     Loop, link
<1>6. CASE NextSensor \/ ReadProbe
  BY <1>2, <1>6 DEF NextSensor, ReadProbe, MeasuredInv, Loop, link
<1>7. CASE DiscoveryEnds
  <2>1. cm.discovered = 2
    BY <1>0, <1>7, DiscoveryIsComplete
  <2>2. pc' = "route" /\ cm' = cm /\ sock' = "open"
    BY <1>3, <1>7 DEF DiscoveryEnds, Usable, Loop, link
  <2> QED BY <1>2, <2>1, <2>2
<1>8. CASE DiscoverNext
  BY <1>8, <1>2 DEF DiscoverNext, Usable, Loop, link
<1>9. CASE Command \/ CommandRefused \/ ExchangeBroken
  BY <1>9, <1>2, <1>3 DEF Command, CommandRefused, ExchangeBroken, Usable, Fail,
     Settle, MeasuredInv, Loop, link
<1>10. CASE PollMisses \/ PollMatches
  BY <1>10, <1>2, <1>3 DEF PollMisses, NoAnswer, PollMatches, Answered, Usable, Fail,
     Settle, MeasuredInv, Loop, link
<1>11. CASE Outside \/ UNCHANGED vars
  BY <1>2, <1>11 DEF Outside, NumberTaken, NumberFreed, PeerAnswers, MeasuredInv,
     Loop, vars, link
<1>12. ~Hangs /\ ~Dies
  BY <1>1, <1>3 DEF Hangs, Dies, Loop
<1> QED BY <1>2, <1>4, <1>5, <1>6, <1>7, <1>8, <1>9, <1>10, <1>11, <1>12
        DEF Next, RoundStep, Outside

\* What discovery has passed is what it has found.
LEMMA SoundDiscovery ==
    ASSUME Sound, TypeOK, DiscoveryInv, MeasuredInv, [Next]_vars, pc' = "discover"
    PROVE  /\ (\E k \in 1..seek' : Chars[k] = "read") => cm'.read_handle = "read"
           /\ (\E k \in 1..seek' : Chars[k] = "write") => cm'.write_handle = "write"
<1>0. TypeDiscovery /\ ~DiscoverAgain
  BY TypeParts, SoundControl
<1>1. CASE NextSensor
  <2>1. seek' = 0
    BY <1>1 DEF NextSensor
  <2> QED BY <2>1
<1>2. CASE DiscoverNext
  <2>1. /\ seek \in Nat /\ seek' = seek + 1 /\ pc = "discover"
        /\ cm' = Counted(Chars[seek + 1])
    BY <1>0, <1>2, CharFacts DEF DiscoverNext, TypeDiscovery
  <2>2. /\ cm'.read_handle = "read" \/ (cm.read_handle # "read" /\ Chars[seek + 1] # "read")
        /\ cm'.write_handle = "write" \/ (cm.write_handle # "write" /\ Chars[seek + 1] # "write")
    BY <1>0, <2>1, CountedFacts
  <2>3. \A k \in 1..seek' : k \in 1..seek \/ k = seek + 1
    BY <2>1
  <2> QED BY <2>1, <2>2, <2>3 DEF MeasuredInv
<1>3. CASE ~NextSensor /\ ~DiscoverNext
  <2>1. pc = "discover" /\ cm' = cm /\ seek' = seek
    BY <1>0, <1>3 DEF Next, RoundStep, vars, ConnectSucceeds, ConnectFails,
       LastSensor, Skip, UnknownProbe, ReadProbe, DiscoveryEnds, Command,
       CommandRefused, ExchangeBroken, PollMisses, PollMatches, Publish, Hangs,
       Dies, Restart, NumberTaken, NumberFreed, PeerAnswers, Answered, Fail, Settle
  <2> QED BY <2>1 DEF MeasuredInv
<1> QED BY <1>1, <1>2, <1>3

\* What the loop has passed has been settled.
LEMMA SoundSensors ==
    ASSUME Sound, TypeOK, DiscoveryInv, MeasuredInv, [Next]_vars
    PROVE  /\ pc' \in Loop =>
                \A s \in Sensors :
                  s < i' /\ sen'[s].code = "OK" => sen'[s].data.kind = "temp"
           /\ OkMeansMeasured'
<1>0. TypeControl /\ TypeSensors /\ ~ConnectFails /\ ~Skip /\ "cuts" \notin traits
  BY TypeParts, SoundControl DEF Sound, TypePeer
<1>1. i \in Nat /\ Sensors = 1..Len(Probes) /\ Len(Probes) \in Nat
  BY <1>0, SensorFacts DEF TypeControl
<1>2. CASE ConnectSucceeds
  <2>1. i' = 1 /\ pc' = "next"
    BY <1>2 DEF ConnectSucceeds
  <2> QED BY <1>1, <2>1 DEF OkMeansMeasured
<1>3. CASE LastSensor
  <2>1. pc = "next" /\ i > Len(Probes) /\ pc' = "publish" /\ sen' = sen
    BY <1>3 DEF LastSensor
  <2>2. \A s \in Sensors : s < i
    BY <1>1, <2>1
  <2> QED BY <2>1, <2>2 DEF MeasuredInv, OkMeansMeasured, Loop
<1>4. CASE Publish \/ Hangs \/ Dies \/ Restart
  BY <1>4 DEF Publish, Hangs, Dies, Restart, OkMeansMeasured, Loop
\* A sensor settled with code OK has just been measured.
<1>5. ASSUME pc \in {"route", "command", "poll"}, pc' = "next", i' = i + 1,
             \/ \E code \in Codes \ {"OK"} : Fail(code)
             \/ Settle(Value("temp", reply.addr, reply.taken), "OK")
      PROVE  \A s \in Sensors :
               s < i' /\ sen'[s].code = "OK" => sen'[s].data.kind = "temp"
  <2> SUFFICES ASSUME NEW s \in Sensors, s < i', sen'[s].code = "OK"
               PROVE  sen'[s].data.kind = "temp"
    OBVIOUS
  <2>1. CASE s = i
    <3>1. ASSUME NEW code \in Codes \ {"OK"}, Fail(code) PROVE FALSE
      BY <2>1, <3>1 DEF Fail, Settle, TypeOK
    <3>2. sen'[s].data = Value("temp", reply.addr, reply.taken)
      BY <1>5, <2>1, <3>1 DEF Settle, TypeOK
    <3> QED BY <3>2, KindFacts
  <2>2. CASE s # i
    <3>1. sen'[s] = sen[s] /\ s < i
      BY <1>1, <1>5, <2>2 DEF Fail, Settle, TypeOK
    <3> QED BY <1>5, <3>1 DEF MeasuredInv, Loop
  <2> QED BY <2>1, <2>2
<1>6. CASE CommandRefused \/ ExchangeBroken \/ PollMisses \/ PollMatches
  <2>1. pc \in {"command", "poll"} /\ i \in Sensors
    BY <1>0, <1>6 DEF CommandRefused, ExchangeBroken, PollMisses, PollMatches,
       TypeControl
  <2>2. \/ /\ pc' = "next" /\ i' = i + 1
           /\ \/ \E code \in Codes \ {"OK"} : Fail(code)
              \/ Settle(Value("temp", reply.addr, reply.taken), "OK")
        \/ pc' = "poll" /\ i' = i /\ sen' = sen
    BY <1>0, <1>6, <2>1 DEF CommandRefused, ExchangeBroken, PollMisses, PollMatches,
       Answered, Fail, Settle, Codes
  <2> QED BY <1>5, <2>1, <2>2 DEF MeasuredInv, OkMeansMeasured, Loop
<1>7. CASE ~(ConnectSucceeds \/ LastSensor \/ Publish \/ Hangs \/ Dies \/ Restart
             \/ CommandRefused \/ ExchangeBroken \/ PollMisses \/ PollMatches)
  <2>1. /\ sen' = sen /\ i' = i
        /\ pc' \in Loop => pc \in Loop
        /\ pc' = "publish" => pc = "publish"
    BY <1>0, <1>7, SoundControl DEF Next, RoundStep, vars, NextSensor, ReadProbe,
       DiscoveryEnds, DiscoverNext, Command, NumberTaken, NumberFreed, PeerAnswers,
       Loop
  <2> QED BY <2>1 DEF MeasuredInv, OkMeansMeasured
<1> QED BY <1>2, <1>3, <1>4, <1>6, <1>7

\* On a sound link, with a core module that keeps to the protocol, a reading
\* queued with code OK was measured: what makes the
\* claim of main.c fail is that discovery may end early, or that a sensor is of
\* a kind the loop passes over, and nothing else.
THEOREM OkMeansMeasuredIfSound ==
    ASSUME Sound
    PROVE  Spec => []OkMeansMeasured
<1>1. TypeOK /\ DiscoveryInv /\ MeasuredInv /\ [Next]_vars => MeasuredInv'
  BY SoundControl, SoundDiscovery, SoundSensors DEF MeasuredInv
<1>2. MeasuredInv => OkMeansMeasured
  BY DEF MeasuredInv
<1> QED BY <1>1, <1>2, MeasuredInit, TypeCorrect, PTL DEF Spec
=============================================================================
