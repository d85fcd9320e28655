---------------------------- MODULE BleAcquisition ----------------------------
(***************************************************************************)
(* One Bluetooth core module and its sensors, read once a round by         *)
(* ble_data_acq (src/src/ble_data_acq.c) from the timer callback of        *)
(* src/src/main.c.  The core module is external: it acknowledges a command *)
(* at once, asks the probe in its own time, and leaves the answer where    *)
(* polls read it.                                                          *)
(*                                                                         *)
(* A request and its answer are one step: the core module moves only       *)
(* between them, and whether a failure struck the write or the read is     *)
(* left open.  A measurement is the sensor it is of and the round it was   *)
(* made in.  A closed number may be given to the database thread, and what *)
(* the loop then writes and reads is that thread's file or socket.         *)
(***************************************************************************)
EXTENDS Naturals, Sequences

CONSTANTS
    Probes,     \* what stands at each place of cm->sen: "02", "03", "other"
    Chars,      \* the core module's characteristics, as discovery meets them
    FAST_RETRY_TIMES,   \* polls for one answer
    LinkFaults, \* may the radio link fail, or garble an answer
    CoreModules,\* which core modules occur, each a set of traits:
                \* "clears"  a command drops the commands and answers before it
                \* "repeats" discovery may be given an entry a second time
                \* "cuts"    an answer may end after the address
    MaxRounds   \* bound: rounds in a behaviour

Sensors == DOMAIN Probes

ASSUME ProbesAssumption == Probes \in Seq({"02", "03", "other"})
ASSUME CharsAssumption ==
    \* at most one characteristic has each of the two UUIDs looked for
    /\ Chars \in Seq({"read", "write", "other", "short", "odd"})
    /\ \A a, b \in DOMAIN Chars :
         Chars[a] = Chars[b] /\ Chars[a] \in {"read", "write"} => a = b
ASSUME RetryAssumption == FAST_RETRY_TIMES \in Nat \ {0}
ASSUME RoundsAssumption == MaxRounds \in Nat
ASSUME LinkAssumption ==
    /\ LinkFaults \in BOOLEAN
    /\ CoreModules \subseteq SUBSET {"clears", "repeats", "cuts"}

VARIABLES
    pc,         \* where the callback stands
    i,          \* the sensor ble_data_acq is at
    sock,       \* what the number in sock stands for: the L2CAP socket,
                \* nothing, or something the other thread has opened
    cm,         \* what the core module's record keeps of discovery
    seek,       \* characteristics the current discovery has passed
    retry,      \* polls left
    resp,       \* the measurement the buffer ble_resp holds
    sen,        \* data and data_code of each sensor
    round,      \* rounds started
    lost,       \* history: the sensor at which this round lost its socket
    asked,      \* core module: the sensors it still has to ask
    reply,      \* core module: what the read characteristic holds
    traits      \* core module: which kind it is

link == <<sock, lost>>
peer == <<asked, reply, traits>>
vars == <<pc, i, link, cm, seek, retry, resp, sen, round, peer>>

\* Where ble_data_acq is between its connect and its last close.
Loop == {"next", "route", "discover", "command", "poll"}

Value(kind, from, taken) == [kind |-> kind, from |-> from, taken |-> taken]
Zero == Value("zero", 0, 0)             \* memory g_try_new0 cleared
ERROR_DATA_VALUE == Value("error", 0, 0)
Codes == {"OK", "BLE_CONN_TIMEOUT", "BLE_READ_ERR", "BLE_WRITE_ERR",
          "BLE_INTERNAL_CMD_NO_RESPONSE", "RS485_TSYS01_NO_RESPONSE",
          "UNKNOWN_PROBE_DEFINITION"}
NoReply == [addr |-> 0, taken |-> 0, ok |-> FALSE]

NothingFound == [discovered |-> 0, read_handle |-> "none", write_handle |-> "none"]

Init ==
    /\ pc = "idle" /\ i = 0 /\ sock = "closed" /\ seek = 0 /\ retry = 0
    /\ cm = NothingFound /\ resp = Zero
    /\ sen = [s \in Sensors |-> [data |-> Zero, code |-> "OK"]]
    /\ round = 0 /\ lost = 0
    /\ asked = {} /\ reply = NoReply /\ traits \in CoreModules

-----------------------------------------------------------------------------
(* connect_ble, and the beginning of a round. *)

NewRound ==
    /\ pc = "idle" /\ round < MaxRounds
    /\ round' = round + 1
    /\ lost' = 0

ConnectSucceeds ==
    /\ NewRound
    /\ sock' = "open"
    /\ pc' = "next" /\ i' = 1
    /\ UNCHANGED <<cm, seek, retry, resp, sen, peer>>

\* A plausible bug: a core module out of reach leaves the last data in place.
ConnectFailsSilently ==
    /\ NewRound /\ LinkFaults
    /\ sock' = "closed"
    /\ pc' = "publish" /\ i' = 0
    /\ UNCHANGED <<cm, seek, retry, resp, sen, peer>>

\* No connection: every sensor of the core module gets the error value.
ConnectFails ==
    /\ NewRound /\ LinkFaults
    /\ sock' = "closed"
    /\ sen' = [s \in Sensors |->
                 [data |-> ERROR_DATA_VALUE, code |-> "BLE_CONN_TIMEOUT"]]
    /\ pc' = "publish" /\ i' = 0
    /\ UNCHANGED <<cm, seek, retry, resp, peer>>

-----------------------------------------------------------------------------
(* write_ble_data and read_ble_data. *)

Usable == sock = "open" /\ UNCHANGED link

\* The call reaches a file or socket of the other thread.  Whatever comes back
\* is nonsense: neither the one octet 0x13 nor 0x0b with the address.
Stray == sock = "other" /\ UNCHANGED link

\* A plausible bug: the socket stays open after a failure.
BrokenStaysOpen ==
    /\ LinkFaults \/ sock # "open"
    /\ lost' = IF sock = "open" THEN i ELSE lost
    /\ UNCHANGED sock

\* A write that fails RETRY_TIMES times, or a read that gets nothing before
\* BLE_TIME_OUT, closes the number, whatever it stands for by then.
Broken ==
    /\ LinkFaults \/ sock # "open"
    /\ lost' = IF sock = "open" THEN i ELSE lost
    /\ sock' = "closed"

\* The database thread opens a file or a socket, and is given the number the
\* loop has closed; later it closes it.
NumberTaken ==
    /\ pc \in Loop /\ sock = "closed"
    /\ sock' = "other"
    /\ UNCHANGED <<pc, i, lost, cm, seek, retry, resp, sen, round, peer>>

NumberFreed ==
    /\ pc \in Loop /\ sock = "other"
    /\ sock' = "closed"
    /\ UNCHANGED <<pc, i, lost, cm, seek, retry, resp, sen, round, peer>>

\* A call on the other thread's number need not return, nor a discovery that
\* is given the same entry for ever.
Hangs ==
    /\ \/ pc \in {"discover", "command", "poll"} /\ sock = "other"
       \/ pc = "discover" /\ sock = "open" /\ "repeats" \in traits /\ seek > 0
    /\ pc' = "stuck"
    /\ UNCHANGED <<i, link, cm, seek, retry, resp, sen, round, peer>>

\* A block size of 0 in a garbled answer, by which discovery divides; or a
\* write to a connection of the other thread that its peer has closed.
Dies ==
    /\ \/ pc \in {"discover", "command", "poll"} /\ sock = "other"
       \/ pc = "discover" /\ sock = "open" /\ LinkFaults
    /\ pc' = "dead"
    /\ UNCHANGED <<i, link, cm, seek, retry, resp, sen, round, peer>>

\* The next process; the core module goes on as it was.
Restart ==
    /\ pc = "dead"
    /\ pc' = "idle" /\ i' = 0 /\ sock' = "closed" /\ seek' = 0 /\ retry' = 0
    /\ cm' = NothingFound /\ resp' = Zero
    /\ sen' = [s \in Sensors |-> [data |-> Zero, code |-> "OK"]]
    /\ UNCHANGED <<lost, round, peer>>

-----------------------------------------------------------------------------
(* The loop of ble_data_acq over the sensors. *)

\* A plausible bug: the way out on success forgets the socket.
LastSensorLeavesOpen ==
    /\ pc = "next" /\ i > Len(Probes)
    /\ pc' = "publish" /\ i' = 0
    /\ UNCHANGED <<link, cm, seek, retry, resp, sen, round, peer>>

LastSensor ==
    /\ pc = "next" /\ i > Len(Probes)
    /\ sock' = "closed"
    /\ pc' = "publish" /\ i' = 0
    /\ UNCHANGED <<lost, cm, seek, retry, resp, sen, round, peer>>

\* A plausible bug: discovery runs again until both handles are counted.
NextSensorRediscovers ==
    /\ pc = "next" /\ i \in Sensors
    /\ pc' = IF cm.discovered # 2 THEN "discover" ELSE "route"
    /\ seek' = 0
    /\ UNCHANGED <<i, link, cm, retry, resp, sen, round, peer>>

NextSensor ==
    /\ pc = "next" /\ i \in Sensors
    /\ pc' = IF cm.discovered = 0 THEN "discover" ELSE "route"
    /\ seek' = 0
    /\ UNCHANGED <<i, link, cm, retry, resp, sen, round, peer>>

\* Without both handles, and for a 12-channel probe, nothing is read and the
\* sensor keeps the data and the code it had.
Skip ==
    /\ pc = "route"
    /\ cm.discovered # 2 \/ Probes[i] = "03"
    /\ pc' = "next" /\ i' = i + 1
    /\ UNCHANGED <<link, cm, seek, retry, resp, sen, round, peer>>

\* Sensor i is done with: its data and code are set.
Settle(data, code) ==
    /\ sen' = [sen EXCEPT ![i] = [data |-> data, code |-> code]]
    /\ pc' = "next" /\ i' = i + 1

\* A plausible bug: the code is set and the old data left.
FailLeavesData(code) == Settle(sen[i].data, code)

Fail(code) == Settle(ERROR_DATA_VALUE, code)

UnknownProbe ==
    /\ pc = "route" /\ cm.discovered = 2 /\ Probes[i] = "other"
    /\ Fail("UNKNOWN_PROBE_DEFINITION")
    /\ UNCHANGED <<link, cm, seek, retry, resp, round, peer>>

ReadProbe ==
    /\ pc = "route" /\ cm.discovered = 2 /\ Probes[i] = "02"
    /\ pc' = "command"
    /\ UNCHANGED <<i, link, cm, seek, retry, resp, sen, round, peer>>

-----------------------------------------------------------------------------
(* dicover_char: one Read By Type request after another, each from the     *)
(* last characteristic seen.  What was found before a failure stays.       *)

\* An answer that is the end of the list, a 16-bit entry of another kind,
\* nonsense or nothing at all ends the discovery.
DiscoveryEnds ==
    /\ pc = "discover"
    /\ \/ Usable /\ (LinkFaults \/ seek = Len(Chars) \/ Chars[seek + 1] = "odd")
       \/ Stray
       \/ Broken
    /\ pc' = "route"
    /\ UNCHANGED <<i, cm, seek, retry, resp, sen, round, peer>>

MANY == 3       \* stands for every count of handles above 2

\* Each entry with one of the two UUIDs is counted, known before or not.
Counted(char) ==
    IF char \in {"read", "write"}
    THEN [discovered |-> IF cm.discovered < MANY THEN cm.discovered + 1 ELSE MANY,
          read_handle |-> IF char = "read" THEN "read" ELSE cm.read_handle,
          write_handle |-> IF char = "write" THEN "write" ELSE cm.write_handle]
    ELSE cm

DiscoverNext ==
    /\ pc = "discover" /\ Usable
    /\ seek < Len(Chars) /\ Chars[seek + 1] # "odd"
    /\ seek' = seek + 1
    /\ cm' = Counted(Chars[seek + 1])
    /\ UNCHANGED <<pc, i, retry, resp, sen, round, peer>>

\* The answer is the entry the request started from: the loop only gets on by
\* what an answer holds.
DiscoverAgain ==
    /\ pc = "discover" /\ Usable
    /\ "repeats" \in traits /\ seek > 0
    /\ cm' = Counted(Chars[seek])
    /\ UNCHANGED <<pc, i, seek, retry, resp, sen, round, peer>>

-----------------------------------------------------------------------------
(* send_ble_cmd_with_response: the command, its acknowledgement, the polls. *)

\* The core module has the command.
Hears ==
    /\ asked' = IF "clears" \in traits THEN {i} ELSE asked \cup {i}
    /\ reply' = IF "clears" \in traits THEN NoReply ELSE reply
    /\ UNCHANGED traits

\* It may have it although the exchange fails.
MayHear ==
    \/ sock = "open" /\ cm.write_handle = "write" /\ Hears
    \/ UNCHANGED peer

Command ==
    /\ pc = "command" /\ Usable /\ cm.write_handle = "write"
    /\ Hears
    /\ retry' = FAST_RETRY_TIMES
    /\ pc' = "poll"
    /\ UNCHANGED <<i, cm, seek, resp, sen, round>>

\* The answer to the write is not the one octet 0x13; the socket stays open.
CommandRefused ==
    /\ pc = "command"
    /\ \/ Usable /\ (LinkFaults \/ cm.write_handle # "write")
       \/ Stray
    /\ MayHear
    /\ Fail("BLE_READ_ERR")
    /\ UNCHANGED <<cm, seek, retry, resp, round>>

\* The link fails under the command or under a poll.
ExchangeBroken ==
    /\ \/ pc = "command" /\ MayHear
       \/ pc = "poll" /\ UNCHANGED peer
    /\ Broken
    /\ \E code \in {"BLE_WRITE_ERR", "BLE_READ_ERR"} : Fail(code)
    /\ UNCHANGED <<cm, seek, retry, resp, round>>

\* A poll finds no answer, another sensor's, or nonsense.
NoAnswer ==
    \/ Usable /\ (LinkFaults \/ reply.addr # i \/ cm.read_handle # "read")
    \/ Stray

\* A plausible bug: when the polls are used up the command is sent again.
PollMissesResends ==
    /\ pc = "poll" /\ NoAnswer
    /\ retry' = retry - 1
    /\ pc' = IF retry = 1 THEN "command" ELSE "poll"
    /\ UNCHANGED <<i, resp, sen, cm, seek, round, peer>>

\* A plausible bug: one poll more than there are retries.
PollMissesOnceMore ==
    /\ pc = "poll" /\ NoAnswer
    /\ retry' = retry - 1
    /\ \/ retry = 0 /\ Fail("BLE_INTERNAL_CMD_NO_RESPONSE")
       \/ retry > 0 /\ UNCHANGED <<pc, i, sen>>
    /\ UNCHANGED <<cm, seek, resp, round, peer>>

PollMisses ==
    /\ pc = "poll" /\ NoAnswer
    /\ retry' = retry - 1
    /\ \/ retry = 1 /\ Fail("BLE_INTERNAL_CMD_NO_RESPONSE")
       \/ retry > 1 /\ UNCHANGED <<pc, i, sen>>
    /\ UNCHANGED <<cm, seek, resp, round, peer>>

\* process_ble_resp_temp_probe_RS485_tsys01: the answer is a temperature, or
\* says that the probe does not respond.  The length of the answer is not
\* looked at: of one that is cut, the buffer supplies the temperature.
Answered ==
    \/ /\ reply.ok
       /\ \/ resp' = Value("temp", reply.addr, reply.taken)
          \/ "cuts" \in traits /\ resp' = resp
       /\ Settle(resp', "OK")
    \/ ~reply.ok /\ Fail("RS485_TSYS01_NO_RESPONSE") /\ UNCHANGED resp

\* A plausible bug: any answer is taken for the one waited for.
PollMatchesAny ==
    /\ pc = "poll" /\ Usable /\ cm.read_handle = "read"
    /\ reply.addr # 0
    /\ retry' = retry - 1
    /\ \/ retry = 1 /\ Fail("BLE_INTERNAL_CMD_NO_RESPONSE") /\ UNCHANGED resp
       \/ retry > 1 /\ Answered
    /\ UNCHANGED <<cm, seek, round, peer>>

\* A poll reads an answer with the sensor's address.  On the last poll the
\* count reaches 0 all the same, which is taken for no answer.
PollMatches ==
    /\ pc = "poll" /\ Usable /\ cm.read_handle = "read"
    /\ reply.addr = i
    /\ retry' = retry - 1
    /\ \/ retry = 1 /\ Fail("BLE_INTERNAL_CMD_NO_RESPONSE") /\ UNCHANGED resp
       \/ retry > 1 /\ Answered
    /\ UNCHANGED <<cm, seek, round, peer>>

-----------------------------------------------------------------------------
(* The callback queues every sensor's data and code, read or not. *)

Publish ==
    /\ pc = "publish"
    /\ pc' = "idle"
    /\ UNCHANGED <<i, link, cm, seek, retry, resp, sen, round, peer>>

(* The core module: a probe it was asked for answers, or does not respond. *)

PeerAnswers ==
    /\ \E s \in asked, ok \in BOOLEAN :
         /\ reply' = [addr |-> s, taken |-> round, ok |-> ok]
         /\ asked' = asked \ {s}
    /\ UNCHANGED <<pc, i, link, cm, seek, retry, resp, sen, round, traits>>

RoundStep ==
    \/ LastSensor \/ NextSensor \/ Skip \/ UnknownProbe \/ ReadProbe
    \/ DiscoveryEnds \/ DiscoverNext \/ DiscoverAgain
    \/ Command \/ CommandRefused \/ ExchangeBroken \/ PollMisses \/ PollMatches
    \/ Publish \/ Hangs \/ Dies

Next ==
    \/ ConnectSucceeds \/ ConnectFails \/ RoundStep \/ Restart
    \/ NumberTaken \/ NumberFreed \/ PeerAnswers

\* The socket's timeout bounds every call on it, so a round that has begun
\* goes on, or is seen to hang; the core module and the other thread owe it
\* nothing.
Spec == Init /\ [][Next]_vars /\ WF_vars(RoundStep)

-----------------------------------------------------------------------------
(* Properties. *)

Values == [kind : {"zero", "error", "temp"}, from : Sensors \cup {0},
           taken : 0..MaxRounds]

\* The type invariant.  A poll is only made while some are left, and i is on
\* a sensor inside the loop.
TypeOK ==
    /\ pc \in Loop \cup {"idle", "publish", "stuck", "dead"}
    /\ i \in 0..(Len(Probes) + 1)
    /\ pc \in {"route", "discover", "command", "poll"} => i \in Sensors
    /\ sock \in {"open", "closed", "other"}
    /\ cm \in [discovered : 0..MANY, read_handle : {"none", "read"},
                write_handle : {"none", "write"}]
    /\ seek \in 0..Len(Chars)
    /\ retry \in 0..FAST_RETRY_TIMES /\ (pc = "poll" => retry > 0)
    /\ resp \in Values
    /\ sen \in [Sensors -> [data : Values, code : Codes]]
    /\ round \in 0..MaxRounds
    /\ lost \in Sensors \cup {0}
    /\ asked \subseteq Sensors
    /\ reply \in [addr : Sensors \cup {0}, taken : 0..MaxRounds, ok : BOOLEAN]
    /\ traits \in CoreModules

\* A failure of discovery may leave one handle, but commands and polls go out
\* only with both: a count of two means the two different handles, unless the
\* core module gives an entry twice.
HandlesKnown ==
    "repeats" \notin traits =>
      /\ cm.discovered = 2 => cm.read_handle = "read" /\ cm.write_handle = "write"
      /\ pc \in {"command", "poll"} => cm.discovered = 2

\* A sensor's data is the error value exactly when its code tells of an
\* error, in all the orders failures of earlier rounds can come in.
ErrorIffSentinel ==
    \A s \in Sensors : sen[s].code # "OK" <=> sen[s].data = ERROR_DATA_VALUE

\* A measurement is never credited to another sensor of the core module,
\* however late its answer appears (the address check of the polls), unless
\* answers are cut.
OwnReading ==
    "cuts" \notin traits =>
      \A s \in Sensors : sen[s].data.kind = "temp" => sen[s].data.from = s

\* A round publishes only measurements made for it.
Fresh == \A s \in Sensors : sen[s].data.kind = "temp" => sen[s].data.taken = round

\* A core module that drops its last answer when it is given a command, and
\* whose answers are whole, never makes a round publish a measurement of an
\* earlier round.
FreshIfCleared ==
    pc = "publish" /\ "clears" \in traits /\ "cuts" \notin traits => Fresh

\* A response is checked against the command sent: the measurement a round
\* publishes was made for that round's command.
ResponseIsToCommand == pc = "publish" => Fresh

\* When data is put into the queue its acquisition is done: what is published
\* with code OK was measured.
OkMeansMeasured ==
    pc = "publish" =>
      \A s \in Sensors : sen[s].code = "OK" => sen[s].data.kind = "temp"

\* No round leaves its socket open behind it, by whichever way it ends.
SocketClosedBetweenRounds == pc = "idle" => sock = "closed"

\* A round that lost its socket at a sensor has read neither that one nor any
\* after it, whatever its number has come to stand for: with both handles
\* known, each of them gets the code of a failure.
NothingReadAfterLoss ==
    pc = "publish" /\ lost # 0 /\ cm.discovered = 2 =>
      \A s \in Sensors : s >= lost /\ Probes[s] = "02" => sen[s].code # "OK"

\* Every round that begins comes to its end or ends with its process, unless a
\* call on the other thread's number never returns or the core module repeats
\* an entry for ever.
RoundEnds ==
    pc # "idle" ~>
      \/ pc \in {"idle", "dead"}
      \/ pc = "stuck" /\ (sock = "other" \/ "repeats" \in traits)
=============================================================================
