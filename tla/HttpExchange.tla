----------------------------- MODULE HttpExchange -----------------------------
(***************************************************************************)
(* The requests the database thread makes over the network, one after      *)
(* another: check_internet (src/src/utilities.c) and the PutItem request   *)
(* of sync_single_raw_data (src/src/dynamodb_utilities.c).  Both look      *)
(* their host up with resolve_ip.                                          *)
(*                                                                         *)
(* An answer arrives octet by octet.  What the judgement tells apart are   *)
(* four parts of it: "HTTP/1.1 ", the same in every answer, the octets of  *)
(* the code that make it 200 OK or another, the Date header, the body.  A  *)
(* tick is a sleep of the loop in recv_timeout, or as long a time.         *)
(***************************************************************************)
EXTENDS Integers

CONSTANTS
    ADDRESSES,  \* addresses getaddrinfo returns for a host
    REQUEST,    \* length of a request
    TIMEOUT,    \* patience of recv_timeout once data has come, in ticks
    DESCRIPTORS,\* sockets the process may have open
    SETBACK,    \* bound: ticks the clock may be set back by
    MaxStumbles,\* bound: failed writes of a request that the next one survives
    MayClose,   \* may the service close or reset a connection
    MaxRequests \* bound: requests in a behaviour

ASSUME LengthsAssumption == {ADDRESSES, REQUEST, DESCRIPTORS} \subseteq Nat \ {0}
ASSUME TimeoutAssumption == TIMEOUT \in Nat /\ SETBACK \in Nat
ASSUME StumbleAssumption == MaxStumbles \in Nat
ASSUME ServiceAssumption == MayClose \in BOOLEAN /\ MaxRequests \in Nat

VARIABLES
    pc,         \* where the thread stands
    use,        \* what the request is for: "check" or "put"
    verdict,    \* what the caller was told
    ai,         \* the address resolve_ip is at
    open,       \* sockets open
    sent,       \* octets sent, as the loop counts them
    broken,     \* a write has failed: the connection is gone
    stumbled,   \* history: writes of the request that failed and left it whole
    total,      \* parts received, total_size
    waited,     \* ticks since begin by the wall clock: timediff
    buf,        \* http_response, never initialised
    heard,      \* service: octets received
    torn,       \* service: what it received is not the request
    applied,    \* service: the item is in the table
    status,     \* service: the status it answers with
    delivered,  \* service: parts of the answer that have arrived
    closed,     \* service: it has closed the connection
    silence,    \* history: ticks since data was read, with none to read
    unread,     \* history: ticks since data was read, with some waiting
    clockSet,   \* history: the wall clock was set during this recv_timeout
    lost,       \* history: sockets whose number was forgotten while open
    requests    \* history: requests begun

caller == <<pc, use, verdict, requests>>
sockets == <<ai, open, lost>>
sending == <<sent, broken, heard, torn, stumbled>>
receiving == <<total, waited, buf, silence, unread, clockSet>>
answer == <<applied, status, delivered, closed>>
vars == <<caller, sockets, sending, receiving, answer>>

Parts == 1..4
Part(k) == <<"HTTP", status, "Date", "{">>[k]
Blank == [k \in Parts |-> "none"]

MaxTicks == 2 * TIMEOUT + 2         \* bound: where a history stops counting
Tick(n) == IF n < MaxTicks THEN n + 1 ELSE n

Init ==
    /\ pc = "ready" /\ use = "put" /\ verdict = "none" /\ requests = 0
    /\ ai = 1 /\ open = 0 /\ lost = 0
    /\ sent = 0 /\ broken = FALSE /\ heard = 0 /\ torn = FALSE /\ stumbled = 0
    /\ total = 0 /\ waited = 0 /\ buf = Blank
    /\ silence = 0 /\ unread = 0 /\ clockSet = FALSE
    /\ applied = FALSE /\ status = "none" /\ delivered = 0 /\ closed = FALSE

\* The calls between two requests may overwrite the stack below the caller.
Begin ==
    /\ pc = "ready" /\ requests < MaxRequests
    /\ pc' = "resolve" /\ use' \in {"check", "put"} /\ verdict' = "none"
    /\ requests' = requests + 1
    /\ ai' = 1 /\ UNCHANGED <<open, lost>>
    /\ sent' = 0 /\ broken' = FALSE /\ heard' = 0 /\ torn' = FALSE /\ stumbled' = 0
    /\ total' = 0 /\ waited' = 0 /\ buf' \in {buf, Blank}
    /\ silence' = 0 /\ unread' = 0 /\ clockSet' = FALSE
    /\ applied' = FALSE /\ status' = "none" /\ delivered' = 0 /\ closed' = FALSE

Return(ret) == pc' = "ready" /\ verdict' = ret /\ UNCHANGED <<use, requests>>

-----------------------------------------------------------------------------
(* resolve_ip: try a datagram socket on each address until one connects.   *)

\* getaddrinfo fails; so may gmtime, before it, when a PutItem is signed.
LookupFails ==
    /\ pc = "resolve" /\ ai = 1
    /\ Return("fail")
    /\ UNCHANGED <<sockets, sending, receiving, answer>>

AddressWorks ==
    /\ pc = "resolve" /\ open < DESCRIPTORS
    /\ pc' = "connect"
    /\ UNCHANGED <<use, verdict, requests, sockets, sending, receiving, answer>>

\* Only the socket of the last address is closed.
AddressFails ==
    /\ pc = "resolve" /\ open < DESCRIPTORS
    /\ \/ /\ ai < ADDRESSES
          /\ ai' = ai + 1 /\ open' = open + 1 /\ lost' = lost + 1
          /\ UNCHANGED caller
       \/ /\ ai = ADDRESSES
          /\ Return("fail") /\ UNCHANGED sockets
    /\ UNCHANGED <<sending, receiving, answer>>

\* socket fails; after the last address there is none to close.
AddressWithoutSocket ==
    /\ pc = "resolve" /\ open = DESCRIPTORS
    /\ \/ ai < ADDRESSES /\ ai' = ai + 1 /\ UNCHANGED <<caller, open, lost>>
       \/ ai = ADDRESSES /\ Return("fail") /\ UNCHANGED sockets
    /\ UNCHANGED <<sending, receiving, answer>>

-----------------------------------------------------------------------------
(* The connection.                                                         *)

Connected ==
    /\ pc = "connect" /\ open < DESCRIPTORS
    /\ open' = open + 1
    /\ pc' = IF use = "put" THEN "send" ELSE "check"
    /\ UNCHANGED <<use, verdict, requests, ai, lost, sending, receiving, answer>>

\* No socket, as the callback may have taken the last, or no connection, if
\* only because the address was freed with resolve_ip's list: check_internet
\* closes the socket, and send_http_request_to_dynamodb does not.
ConnectFails ==
    /\ pc = "connect"
    /\ \/ UNCHANGED <<open, lost>>
       \/ /\ use = "put" /\ open < DESCRIPTORS
          /\ open' = open + 1 /\ lost' = lost + 1
    /\ Return("fail")
    /\ UNCHANGED <<ai, sending, receiving, answer>>

\* A plausible bug: the socket stays open when the check fails.
CheckEndsOpen ==
    /\ pc = "check"
    /\ \/ Return("ok") /\ open' = open - 1
       \/ Return("fail") /\ open' = open
    /\ UNCHANGED <<ai, lost, sending, receiving, answer>>

\* A plausible bug: after a success the socket is closed twice.
CheckEndsTwice ==
    /\ pc = "check"
    /\ \/ Return("ok") /\ open' = open - 2
       \/ Return("fail") /\ open' = open - 1
    /\ UNCHANGED <<ai, lost, sending, receiving, answer>>

\* check_internet writes its request and blocks for an answer: data or the end
\* of the stream is success, an error on the way is not.
CheckEnds ==
    /\ pc = "check"
    /\ Return("ok") \/ Return("fail")
    /\ open' = open - 1
    /\ UNCHANGED <<ai, lost, sending, receiving, answer>>

-----------------------------------------------------------------------------
(* The send loop of send_http_request_to_dynamodb.                         *)

\* A plausible bug: what is left is written from the start of the request.
WriteFromStart ==
    /\ pc = "send" /\ ~broken
    /\ \E bytes \in 1..(REQUEST - sent) :
         /\ sent' = sent + bytes
         /\ heard' = heard + bytes
         /\ torn' = (torn \/ heard # 0)
         /\ pc' = IF sent' < REQUEST THEN "send" ELSE "recv"
    /\ UNCHANGED <<use, verdict, requests, broken, stumbled, sockets, receiving, answer>>

Write ==
    /\ pc = "send" /\ ~broken
    /\ \E bytes \in 1..(REQUEST - sent) :
         /\ sent' = sent + bytes
         /\ heard' = heard + bytes
         /\ torn' = (torn \/ sent # heard)
         /\ pc' = IF sent' < REQUEST THEN "send" ELSE "recv"
    /\ UNCHANGED <<use, verdict, requests, broken, stumbled, sockets, receiving, answer>>

\* The error is reported and its -1 added to sent.
WriteFails ==
    /\ pc = "send" /\ ~broken /\ MayClose
    /\ sent' = sent - 1
    /\ broken' = TRUE
    /\ UNCHANGED <<caller, heard, torn, stumbled, sockets, receiving, answer>>

\* So is an error that later writes do not meet, as of a number the callback
\* has closed and the process then opens again.
WriteStumbles ==
    /\ pc = "send" /\ ~broken /\ stumbled < MaxStumbles
    /\ sent' = sent - 1
    /\ stumbled' = stumbled + 1
    /\ UNCHANGED <<caller, broken, heard, torn, sockets, receiving, answer>>

\* The loop writes again, and on a broken connection SIGPIPE ends the process.
WriteKills ==
    /\ pc = "send" /\ broken
    /\ pc' = "dead"
    /\ UNCHANGED <<use, verdict, requests, sockets, sending, receiving, answer>>

Restart ==
    /\ pc = "dead"
    /\ pc' = "ready" /\ open' = 0 /\ lost' = 0 /\ buf' = Blank
    /\ applied' = FALSE
    /\ UNCHANGED <<use, verdict, requests, ai, sending, total, waited, silence,
                   unread, clockSet, status, delivered, closed>>

-----------------------------------------------------------------------------
(* recv_timeout, and sync_single_raw_data's judgement of the answer.       *)

\* A plausible bug: the patience is the same once data has come.
ExpiredLate == waited > 2 * TIMEOUT

\* Looked at before each read: data that is waiting is not asked for.
Expired == (total > 0 /\ waited > TIMEOUT) \/ waited > 2 * TIMEOUT

\* The loop ends, the socket is closed, and the buffer is searched.
RecvEndsWith(success) ==
    /\ pc = "recv" /\ Expired
    /\ open' = open - 1
    /\ Return(IF success THEN "ok" ELSE "fail")
    /\ UNCHANGED <<ai, lost, sending, receiving, answer>>

\* A plausible bug: any answer is a success.
RecvEndsAnyAnswer == RecvEndsWith(total > 0)

\* A plausible bug: the code is not looked at.
RecvEndsAnyStatus == RecvEndsWith(buf[1] = "HTTP" /\ buf[3] = "Date" /\ buf[4] = "{")

\* What is found may be of an older answer, all of it or what lies behind the
\* octets that have come.
RecvEnds == RecvEndsWith(buf = <<"HTTP", "200", "Date", "{">>)

\* What has come is copied into the buffer behind what came before.
Receive ==
    \E size_recv \in 1..(delivered - total) :
      /\ buf' = [k \in Parts |-> IF k > total /\ k <= total + size_recv
                                 THEN Part(k) ELSE buf[k]]
      /\ total' = total + size_recv

\* A plausible bug: the clock is not restarted when data comes.
RecvDataKeepsClock ==
    /\ pc = "recv" /\ ~Expired
    /\ Receive
    /\ waited' = waited + 1 /\ silence' = 0 /\ unread' = 0
    /\ UNCHANGED <<caller, clockSet, sockets, sending, answer>>

RecvData ==
    /\ pc = "recv" /\ ~Expired
    /\ Receive
    /\ waited' = 0 /\ silence' = 0 /\ unread' = 0
    /\ UNCHANGED <<caller, clockSet, sockets, sending, answer>>

\* A plausible bug: the clock is restarted at every turn.
RecvNothingRestartsClock ==
    /\ pc = "recv" /\ ~Expired /\ delivered = total /\ ~closed
    /\ waited' = 0 /\ silence' = Tick(silence)
    /\ UNCHANGED <<caller, total, buf, unread, clockSet, sockets, sending, answer>>

RecvNothing ==
    /\ pc = "recv" /\ ~Expired /\ delivered = total /\ ~closed
    /\ waited' = waited + 1 /\ silence' = Tick(silence)
    /\ UNCHANGED <<caller, total, buf, unread, clockSet, sockets, sending, answer>>

\* At the end of the stream read returns 0, which is not less than 0: the
\* clock is restarted although nothing was received.
RecvEndOfStream ==
    /\ pc = "recv" /\ ~Expired /\ delivered = total /\ closed
    /\ waited' = 0 /\ silence' = Tick(silence)
    /\ UNCHANGED <<caller, total, buf, unread, clockSet, sockets, sending, answer>>

\* The thread does not run for a tick, wherever it stands in the loop.  What it
\* waits after its patience has run out is not counted.
HeldUp ==
    /\ pc = "recv" /\ ~Expired
    /\ waited' = waited + 1
    /\ IF delivered = total
       THEN silence' = Tick(silence) /\ UNCHANGED unread
       ELSE unread' = Tick(unread) /\ UNCHANGED silence
    /\ UNCHANGED <<caller, total, buf, clockSet, sockets, sending, answer>>

\* The wall clock is set, forward or back: at most once in an exchange.
ClockSet ==
    /\ pc = "recv" /\ ~clockSet
    /\ clockSet' = TRUE
    /\ waited' \in -SETBACK..(2 * TIMEOUT + 1)
    /\ UNCHANGED <<caller, total, buf, silence, unread, sockets, sending, answer>>

-----------------------------------------------------------------------------
(* The service.  It may be slow, silent, or late.                          *)

Apply ==
    /\ use = "put" /\ heard = REQUEST /\ ~torn /\ status = "none"
    /\ applied' = TRUE
    /\ UNCHANGED <<caller, sockets, sending, receiving, status, delivered, closed>>

Reply ==
    /\ pc = "recv" /\ status = "none" /\ ~closed
    /\ status' = "other" \/ (status' = "200" /\ applied)
    /\ UNCHANGED <<caller, sockets, sending, receiving, applied, delivered, closed>>

Deliver ==
    /\ pc = "recv" /\ status # "none" /\ ~closed
    /\ \E parts \in 1..(4 - delivered) : delivered' = delivered + parts
    /\ UNCHANGED <<caller, sockets, sending, receiving, applied, status, closed>>

Close ==
    /\ pc = "recv" /\ MayClose /\ ~closed
    /\ closed' = TRUE
    /\ UNCHANGED <<caller, sockets, sending, receiving, applied, status, delivered>>

RecvStep == RecvEnds \/ RecvData \/ RecvNothing \/ RecvEndOfStream
SendStep == Write \/ WriteFails \/ WriteKills \/ Restart
Clock == HeldUp \/ ClockSet
OpenStep ==
    \/ LookupFails \/ AddressWorks \/ AddressFails \/ AddressWithoutSocket
    \/ Connected \/ ConnectFails \/ CheckEnds
Service == Apply \/ Reply \/ Deliver \/ Close

Next == Begin \/ OpenStep \/ SendStep \/ WriteStumbles \/ RecvStep \/ Clock \/ Service

\* recv_timeout never blocks: it reads without waiting and sleeps a while.
\* Nothing is assumed of the service, nor of the calls that wait for it.
Spec == Init /\ [][Next]_vars /\ WF_vars(RecvStep)

-----------------------------------------------------------------------------
(* Properties. *)

Contents == {"none", "HTTP", "200", "other", "Date", "{"}

Flags ==
    /\ broken \in BOOLEAN /\ torn \in BOOLEAN /\ clockSet \in BOOLEAN
    /\ applied \in BOOLEAN /\ closed \in BOOLEAN
Counts ==
    /\ requests \in 0..MaxRequests
    /\ ai \in 1..ADDRESSES /\ open \in 0..DESCRIPTORS /\ lost \in Nat
    /\ stumbled \in 0..MaxStumbles
    /\ sent \in (-MaxStumbles - 1)..REQUEST /\ heard \in 0..(REQUEST + MaxStumbles)
    /\ total \in 0..4 /\ delivered \in total..4
    /\ waited \in -SETBACK..(2 * TIMEOUT + 1)
    /\ silence \in 0..MaxTicks /\ unread \in 0..MaxTicks

\* The type invariant.  Each failed write may take sent one below 0, and a clock
\* set back timediff.
TypeOK ==
    /\ Flags /\ Counts
    /\ pc \in {"ready", "resolve", "connect", "check", "send", "recv", "dead"}
    /\ use \in {"check", "put"}
    /\ (pc \in {"send", "recv"} => use = "put") /\ (pc = "check" => use = "check")
    /\ verdict \in {"none", "ok", "fail"}
    /\ buf \in [Parts -> Contents]
    /\ status \in {"none", "200", "other"}

\* Without a close by the service and a setting of the clock, recv_timeout gives
\* up in the time it means to: TIMEOUT once data has come, twice that before.
QuietEnds ==
    pc = "recv" /\ ~closed /\ ~clockSet =>
      silence + unread <= (IF total > 0 THEN TIMEOUT ELSE 2 * TIMEOUT) + 1

\* An upload is only taken for a success the service never made when the code
\* of its own answer has not come, so that an older one is judged, be it behind
\* the beginning of the new answer.
FalseOkOnlyFromOldStatus ==
    pc = "ready" /\ use = "put" /\ verdict = "ok" /\ ~applied => total < 2

\* An upload that was applied and answered with success is taken for a failure
\* only if for longer than TIMEOUT, in sum, the service kept silent or the
\* thread did not come to read, or if the clock was set.
AnswerInTimeIsTaken ==
    pc = "ready" /\ verdict = "fail" /\ status = "200" =>
      silence + unread > TIMEOUT \/ clockSet

\* Octets of the request reach the service out of their order only where a
\* write has failed and the next one not: the loop counts a failure as -1
\* octets, and on a connection that is gone the process ends before it matters.
RequestIntact == torn => stumbled > 0

\* Between two requests the sockets still open are those of addresses passed
\* over and of connections refused: no other way out leaks one.
LeaksOnlyOnFailure == pc = "ready" => open = lost

\* Every exchange ends, or the service has closed its connection: then the
\* clock is restarted at every turn, although the loop is to "break after
\* timeout" once it has got some data.
ExchangeEnds == pc = "recv" ~> (pc # "recv" \/ closed)

\* What the database thread is promised of an upload.
Promise ==
    INSTANCE PutItem WITH
      phase <- IF use = "put" /\ pc \notin {"ready", "dead"} THEN "busy" ELSE "idle",
      verdict <- IF use = "put" THEN verdict ELSE "none",
      resp <- IF buf[2] = "200" THEN "ok"
              ELSE IF buf[2] = "none" THEN "unset" ELSE "error"
ImplementsPutItem == Promise!Spec
=============================================================================
