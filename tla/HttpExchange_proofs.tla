-------------------------- MODULE HttpExchange_proofs --------------------------
(***************************************************************************)
(* Proofs about HttpExchange, for any number of addresses, any length of   *)
(* request, any timeout, any limit on descriptors, any setting of the      *)
(* clock and any number of writes that fail.                               *)
(***************************************************************************)
EXTENDS HttpExchange, TLAPS

\* The thread holds a socket of its own while it checks, sends and receives.
Sockets ==
    open = lost + (IF pc \in {"check", "send", "recv", "dead"} THEN 1 ELSE 0)

\* The count is one short for each write that failed.
Sends ==
    /\ heard = sent + stumbled + (IF broken THEN 1 ELSE 0)
    /\ torn => stumbled > 0

\* Before recv_timeout there is no answer, and no verdict before its end.
Fresh ==
    /\ pc # "ready" => verdict = "none"
    /\ pc \in {"resolve", "connect"} => sent = 0
    /\ pc \notin {"ready", "recv"} =>
         /\ total = 0 /\ waited = 0 /\ silence = 0 /\ unread = 0 /\ ~clockSet
         /\ delivered = 0 /\ status = "none" /\ ~closed

\* The clock, as long as it is not set, is restarted only by data, or once the
\* service has closed.
Timing ==
    pc = "recv" /\ ~clockSet =>
      /\ waited >= 0
      /\ waited <= (IF total > 0 THEN TIMEOUT ELSE 2 * TIMEOUT) + 1
      /\ silence + unread >= waited
      /\ ~closed => silence + unread = waited

\* A success is answered only when the item is there, and once two parts are
\* received the buffer holds the status of this answer.
Answers ==
    /\ status = "200" => applied
    /\ delivered > 0 => status # "none"
    /\ pc = "recv" /\ total >= 2 => buf[2] = status

\* What the calls that judge the answer leave behind.
Judged == FalseOkOnlyFromOldStatus /\ AnswerInTimeIsTaken

IInv == TypeOK /\ Sockets /\ Sends /\ Fresh /\ Timing /\ Answers /\ Judged

USE LengthsAssumption, TimeoutAssumption, StumbleAssumption, ServiceAssumption

\* All of the invariant but the flags.
Data ==
    /\ Counts
    /\ pc \in {"ready", "resolve", "connect", "check", "send", "recv", "dead"}
    /\ use \in {"check", "put"}
    /\ (pc \in {"send", "recv"} => use = "put") /\ (pc = "check" => use = "check")
    /\ verdict \in {"none", "ok", "fail"}
    /\ buf \in [Parts -> Contents]
    /\ status \in {"none", "200", "other"}
    /\ Sockets /\ Sends /\ Fresh /\ Timing /\ Answers /\ Judged

LEMMA ContentsFact == {"none", "HTTP", "200", "other", "Date", "{"} \subseteq Contents
  BY DEF Contents

\* The second part of a success is its code.
LEMMA SuccessCode == <<"HTTP", "200", "Date", "{">>[2] = "200"
  OBVIOUS

LEMMA BlankType == Blank \in [Parts -> Contents]
  BY ContentsFact DEF Blank

\* A chunk of the answer fills the parts it brings.
LEMMA ChunkType ==
    ASSUME buf \in [Parts -> Contents], status \in {"none", "200", "other"},
           total \in Int, NEW size \in Int,
           buf' = [k \in Parts |-> IF k > total /\ k <= total + size
                                   THEN Part(k) ELSE buf[k]]
    PROVE  /\ buf' \in [Parts -> Contents]
           /\ total < 2 /\ total + size >= 2 => buf'[2] = status
           /\ ~(total < 2 /\ total + size >= 2) => buf'[2] = buf[2]
<1>1. \A k \in Parts : Part(k) \in Contents
  <2> TAKE k \in Parts
  <2>1. k \in {1, 2, 3, 4}
    BY DEF Parts
  <2>2. Part(1) = "HTTP" /\ Part(2) = status /\ Part(3) = "Date" /\ Part(4) = "{"
    BY DEF Part
  <2> QED
    BY <2>1, <2>2, ContentsFact
<1>2. buf' \in [Parts -> Contents]
  BY <1>1
<1>3. 2 \in Parts
  BY DEF Parts
<1>4. buf'[2] = IF 2 > total /\ 2 <= total + size THEN Part(2) ELSE buf[2]
  BY <1>3
<1>5. Part(2) = status
  BY DEF Part
<1>6. total \in Int => ((2 > total /\ 2 <= total + size)
                       <=> (total < 2 /\ total + size >= 2))
  OBVIOUS
<1> QED
  BY <1>2, <1>4, <1>5, <1>6

LEMMA Split == IInv <=> Flags /\ Data
  BY DEF IInv, TypeOK, Data

LEMMA InitIInv == Init => IInv
<1> SUFFICES ASSUME Init PROVE Flags /\ Data
  BY Split
<1>1. Flags
  BY Zenon DEF Init, Flags
<1>2. Data
  BY BlankType, SMTT(30) DEF Init, Data, Counts, Sockets, Sends, Fresh, Timing,
     Answers, Judged, FalseOkOnlyFromOldStatus, AnswerInTimeIsTaken, Parts, MaxTicks, Tick
<1> QED
  BY <1>1, <1>2

LEMMA NextFlags == Flags /\ [Next]_vars => Flags'
<1> SUFFICES ASSUME Flags, [Next]_vars PROVE Flags'
  OBVIOUS
<1> USE DEF Flags, sending, receiving, answer
<1>1. CASE Begin
  BY <1>1, Zenon DEF Begin
<1>2. CASE LookupFails
  BY <1>2, Zenon DEF LookupFails
<1>3. CASE AddressWorks
  BY <1>3, Zenon DEF AddressWorks
<1>4. CASE AddressFails
  BY <1>4, Zenon DEF AddressFails
<1>5. CASE AddressWithoutSocket
  BY <1>5, Zenon DEF AddressWithoutSocket
<1>6. CASE Connected
  BY <1>6, Zenon DEF Connected
<1>7. CASE ConnectFails
  BY <1>7, Zenon DEF ConnectFails
<1>8. CASE CheckEnds
  BY <1>8, Zenon DEF CheckEnds
<1>9. CASE Write
  BY <1>9, Zenon DEF Write
<1>10. CASE WriteFails
  BY <1>10, Zenon DEF WriteFails
<1>11. CASE WriteKills
  BY <1>11, Zenon DEF WriteKills
<1>12. CASE Restart
  BY <1>12, Zenon DEF Restart
<1>13. CASE RecvEnds
  BY <1>13, Zenon DEF RecvEnds, RecvEndsWith
<1>14. CASE RecvData
  BY <1>14, Zenon DEF RecvData
<1>15. CASE RecvNothing
  BY <1>15, Zenon DEF RecvNothing
<1>16. CASE RecvEndOfStream
  BY <1>16, Zenon DEF RecvEndOfStream
<1>17. CASE Apply
  BY <1>17, Zenon DEF Apply
<1>18. CASE Reply
  BY <1>18, Zenon DEF Reply
<1>19. CASE Deliver
  BY <1>19, Zenon DEF Deliver
<1>20. CASE Close
  BY <1>20, Zenon DEF Close
<1>21. CASE UNCHANGED vars
  BY <1>21, Zenon DEF vars
<1>22. CASE WriteStumbles
  BY <1>22, Zenon DEF WriteStumbles
<1>23. CASE HeldUp
  BY <1>23, Zenon DEF HeldUp
<1>24. CASE ClockSet
  BY <1>24, Zenon DEF ClockSet
<1> QED
  BY <1>1, <1>2, <1>3, <1>4, <1>5, <1>6, <1>7, <1>8, <1>9, <1>10, <1>11, <1>12, <1>13, <1>14, <1>15, <1>16, <1>17, <1>18, <1>19, <1>20, <1>21, <1>22, <1>23, <1>24
     DEF Next, OpenStep, SendStep, RecvStep, Clock, Service

\* One step of the calls, of the loops and of the service.
LEMMA NextData == Data /\ [Next]_vars => Data'
<1> SUFFICES ASSUME Data, [Next]_vars PROVE Data'
  OBVIOUS
<1> USE DEF Data, Counts, Sockets, Sends, Fresh, Timing, Answers, Judged,
     FalseOkOnlyFromOldStatus, AnswerInTimeIsTaken, Parts, MaxTicks, Tick,
     caller, sockets, sending, receiving, answer, Return
<1>1. CASE Begin
  BY <1>1, BlankType, SMTT(30) DEF Begin
<1>2. CASE LookupFails
  BY <1>2, SMTT(30) DEF LookupFails
<1>3. CASE AddressWorks
  BY <1>3, SMTT(30) DEF AddressWorks
<1>4. CASE AddressFails
  BY <1>4, SMTT(30) DEF AddressFails
<1>5. CASE AddressWithoutSocket
  BY <1>5, SMTT(30) DEF AddressWithoutSocket
<1>6. CASE Connected
  BY <1>6, SMTT(30) DEF Connected
<1>7. CASE ConnectFails
  BY <1>7, SMTT(30) DEF ConnectFails
<1>8. CASE CheckEnds
  BY <1>8, SMTT(30) DEF CheckEnds
<1>9. CASE Write
  <2>1. PICK bytes \in 1..(REQUEST - sent) :
          /\ sent' = sent + bytes
          /\ heard' = heard + bytes
          /\ torn' = (torn \/ sent # heard)
          /\ pc' = IF sent' < REQUEST THEN "send" ELSE "recv"
    BY <1>9 DEF Write
  <2>2. ~broken /\ heard = sent + stumbled /\ stumbled \in Nat
    BY <1>9 DEF Write
  <2>3. torn' => torn \/ sent # heard
    BY <2>1, Zenon
  <2>4. torn' => stumbled > 0
    BY <2>2, <2>3
  <2> QED
    BY <1>9, <2>1, <2>2, <2>4, SMTT(30) DEF Write
<1>10. CASE WriteFails
  BY <1>10, SMTT(30) DEF WriteFails
<1>11. CASE WriteKills
  BY <1>11, SMTT(30) DEF WriteKills
<1>12. CASE Restart
  BY <1>12, BlankType, SMTT(30) DEF Restart
<1>13. CASE RecvEnds
  <2>1. /\ pc = "recv" /\ Expired /\ pc' = "ready" /\ open' = open - 1
        /\ UNCHANGED <<use, requests, ai, lost, sending, receiving, answer>>
    BY <1>13 DEF RecvEnds, RecvEndsWith
  <2>2. verdict' = "fail" \/ (verdict' = "ok" /\ buf[2] = "200")
    <3>1. buf = <<"HTTP", "200", "Date", "{">> => buf[2] = "200"
      BY SuccessCode, Zenon
    <3>2. verdict' = IF buf = <<"HTTP", "200", "Date", "{">> THEN "ok" ELSE "fail"
      BY <1>13 DEF RecvEnds, RecvEndsWith, Return
    <3> QED
      BY <3>1, <3>2
  <2> QED
    BY <2>1, <2>2, SMTT(30) DEF Expired
<1>14. CASE RecvData
  <2>1. PICK size_recv \in 1..(delivered - total) :
          /\ buf' = [k \in Parts |-> IF k > total /\ k <= total + size_recv
                                     THEN Part(k) ELSE buf[k]]
          /\ total' = total + size_recv
    BY <1>14 DEF RecvData, Receive
  <2>2. size_recv \in Int /\ size_recv > 0 /\ total + size_recv <= delivered
    BY <2>1
  <2>3. /\ buf' \in [Parts -> Contents]
        /\ total < 2 /\ total' >= 2 => buf'[2] = status
        /\ ~(total < 2 /\ total' >= 2) => buf'[2] = buf[2]
    BY <2>1, <2>2, ChunkType
  <2> QED
    BY <1>14, <2>1, <2>2, <2>3, SMTT(30) DEF RecvData, Expired
<1>15. CASE RecvNothing
  BY <1>15, SMTT(30) DEF RecvNothing, Expired
<1>16. CASE RecvEndOfStream
  BY <1>16, SMTT(30) DEF RecvEndOfStream, Expired
<1>17. CASE Apply
  BY <1>17, SMTT(30) DEF Apply
<1>18. CASE Reply
  BY <1>18, SMTT(30) DEF Reply
<1>19. CASE Deliver
  BY <1>19, SMTT(30) DEF Deliver
<1>20. CASE Close
  BY <1>20, SMTT(30) DEF Close
<1>21. CASE UNCHANGED vars
  BY <1>21, SMTT(30) DEF vars
<1>22. CASE WriteStumbles
  BY <1>22, SMTT(30) DEF WriteStumbles
<1>23. CASE HeldUp
  BY <1>23, SMTT(30) DEF HeldUp, Expired
<1>24. CASE ClockSet
  BY <1>24, SMTT(30) DEF ClockSet
<1> QED
  BY <1>1, <1>2, <1>3, <1>4, <1>5, <1>6, <1>7, <1>8, <1>9, <1>10, <1>11, <1>12, <1>13, <1>14, <1>15, <1>16, <1>17, <1>18, <1>19, <1>20, <1>21, <1>22, <1>23, <1>24
     DEF Next, OpenStep, SendStep, RecvStep, Clock, Service

LEMMA Invariant == Spec => []IInv
<1>1. IInv /\ [Next]_vars => IInv'
  BY NextFlags, NextData DEF IInv, TypeOK, Data
<1> QED
  BY InitIInv, <1>1, PTL DEF Spec

-----------------------------------------------------------------------------

\* Every state is well typed: the loop's count of octets goes below 0 by
\* one at most for each write that fails, and the clock never passes its limit.
THEOREM TypeCorrect == Spec => []TypeOK
<1>1. IInv => TypeOK
  BY DEF IInv
<1> QED
  BY Invariant, <1>1, PTL

\* While the service keeps its connection open and nobody sets the clock,
\* recv_timeout waits no longer than it means to.
THEOREM QuietEndsHolds == Spec => []QuietEnds
<1>1. IInv => QuietEnds
  BY DEF IInv, TypeOK, Counts, Timing, QuietEnds
<1> QED
  BY Invariant, <1>1, PTL

\* An upload is taken for a success the service never made only when the status
\* of its answer was not received, in whatever pieces the answer came.
THEOREM FalseOkHolds == Spec => []FalseOkOnlyFromOldStatus
<1>1. IInv => FalseOkOnlyFromOldStatus
  BY DEF IInv, Judged
<1> QED
  BY Invariant, <1>1, PTL

\* A success that is answered is recognised, unless the service kept silent or
\* the thread was held up for too long in sum, or the clock was set.
THEOREM AnswerInTimeHolds == Spec => []AnswerInTimeIsTaken
<1>1. IInv => AnswerInTimeIsTaken
  BY DEF IInv, Judged
<1> QED
  BY Invariant, <1>1, PTL

\* The service receives the octets of the request in their order, however a
\* write splits them, until a write fails that a later one survives.
THEOREM RequestIntactHolds == Spec => []RequestIntact
<1>1. IInv => RequestIntact
  BY DEF IInv, Sends, RequestIntact
<1> QED
  BY Invariant, <1>1, PTL

\* Only addresses passed over and connections refused leak a socket.
THEOREM LeaksOnlyOnFailureHolds == Spec => []LeaksOnlyOnFailure
<1>1. IInv => LeaksOnlyOnFailure
  BY DEF IInv, TypeOK, Counts, Sockets, LeaksOnlyOnFailure
<1> QED
  BY Invariant, <1>1, PTL

-----------------------------------------------------------------------------
(* The refinement. *)

LEMMA InitRefines == Init => Promise!Init
<1> SUFFICES ASSUME Init PROVE Promise!Init
  OBVIOUS
<1>1. buf[2] = "none"
  BY DEF Init, Blank, Parts
<1>2. applied = FALSE /\ pc = "ready" /\ verdict = "none"
  BY DEF Init
<1> QED
  BY <1>1, <1>2, Zenon DEF Promise!Init

LEMMA NextRefines == IInv /\ [Next]_vars => [Promise!Next]_Promise!vars
<1> SUFFICES ASSUME IInv, [Next]_vars
             PROVE  Promise!Next \/ UNCHANGED Promise!vars
  BY DEF Promise!vars
<1> USE DEF IInv, TypeOK, Fresh, caller, receiving, answer, Return, Promise!vars
<1>1. CASE Begin
  BY <1>1, SMTT(30) DEF Begin, Blank, Parts, Promise!Next, Promise!Begin
<1>2. CASE LookupFails
  BY <1>2, SMTT(30) DEF LookupFails, Promise!Next, Promise!Finish
<1>3. CASE AddressWorks
  BY <1>3, SMTT(30) DEF AddressWorks
<1>4. CASE AddressFails
  BY <1>4, SMTT(30) DEF AddressFails, Promise!Next, Promise!Finish
<1>5. CASE AddressWithoutSocket
  BY <1>5, SMTT(30) DEF AddressWithoutSocket, Promise!Next, Promise!Finish
<1>6. CASE Connected
  BY <1>6, SMTT(30) DEF Connected
<1>7. CASE ConnectFails
  BY <1>7, SMTT(30) DEF ConnectFails, Promise!Next, Promise!Finish
<1>8. CASE CheckEnds
  BY <1>8, SMTT(30) DEF CheckEnds
<1>9. CASE Write
  BY <1>9, SMTT(30) DEF Write
<1>10. CASE WriteFails
  BY <1>10, SMTT(30) DEF WriteFails
<1>11. CASE WriteKills
  BY <1>11, SMTT(30) DEF WriteKills, Promise!Next, Promise!Die
<1>12. CASE Restart
  <2>1. buf'[2] = "none"
    BY <1>12 DEF Restart, Blank, Parts
  <2> QED
    BY <1>12, <2>1, SMTT(30) DEF Restart, Promise!Next, Promise!Begin
<1>13. CASE RecvEnds
  <2>1. verdict' = "fail" \/ (verdict' = "ok" /\ buf[2] = "200")
    <3>1. buf = <<"HTTP", "200", "Date", "{">> => buf[2] = "200"
      BY SuccessCode, Zenon
    <3>2. verdict' = IF buf = <<"HTTP", "200", "Date", "{">> THEN "ok" ELSE "fail"
      BY <1>13 DEF RecvEnds, RecvEndsWith, Return
    <3> QED
      BY <3>1, <3>2
  <2>2. pc = "recv" /\ pc' = "ready" /\ UNCHANGED <<use, applied, buf>>
    BY <1>13 DEF RecvEnds, RecvEndsWith
  <2> QED
    BY <2>1, <2>2, SMTT(30) DEF Promise!Next, Promise!Finish
<1>14. CASE RecvData
  <2>1. PICK size_recv \in 1..(delivered - total) :
          /\ buf' = [k \in Parts |-> IF k > total /\ k <= total + size_recv
                                     THEN Part(k) ELSE buf[k]]
          /\ total' = total + size_recv
    BY <1>14 DEF RecvData, Receive
  <2>2. size_recv \in Int /\ size_recv > 0 /\ delivered > 0 /\ total \in Int
    BY <2>1 DEF Counts
  <2>3. /\ total < 2 /\ total' >= 2 => buf'[2] = status
        /\ ~(total < 2 /\ total' >= 2) => buf'[2] = buf[2]
    BY <2>1, <2>2, ChunkType
  <2>4. pc = "recv" /\ UNCHANGED <<pc, use, verdict, applied>>
    BY <1>14 DEF RecvData
  <2>5. CASE ~(total < 2 /\ total' >= 2)
    BY <2>3, <2>4, <2>5
  <2>6. CASE total < 2 /\ total' >= 2
    <3>1. status = "other" \/ (status = "200" /\ applied)
      BY <2>2 DEF Answers
    <3> QED
      BY <2>3, <2>4, <2>6, <3>1 DEF Promise!Next, Promise!Receive
  <2> QED
    BY <2>5, <2>6
<1>15. CASE RecvNothing
  BY <1>15, SMTT(30) DEF RecvNothing
<1>16. CASE RecvEndOfStream
  BY <1>16, SMTT(30) DEF RecvEndOfStream
<1>17. CASE Apply
  BY <1>17, SMTT(30) DEF Apply, Promise!Next, Promise!Apply
<1>18. CASE Reply
  BY <1>18, SMTT(30) DEF Reply
<1>19. CASE Deliver
  BY <1>19, SMTT(30) DEF Deliver
<1>20. CASE Close
  BY <1>20, SMTT(30) DEF Close
<1>21. CASE UNCHANGED vars
  BY <1>21, SMTT(30) DEF vars
<1>22. CASE WriteStumbles
  BY <1>22, SMTT(30) DEF WriteStumbles
<1>23. CASE HeldUp
  BY <1>23, SMTT(30) DEF HeldUp, Expired
<1>24. CASE ClockSet
  BY <1>24, SMTT(30) DEF ClockSet
<1> QED
  BY <1>1, <1>2, <1>3, <1>4, <1>5, <1>6, <1>7, <1>8, <1>9, <1>10, <1>11, <1>12, <1>13, <1>14, <1>15, <1>16, <1>17, <1>18, <1>19, <1>20, <1>21, <1>22, <1>23, <1>24
     DEF Next, OpenStep, SendStep, RecvStep, Clock, Service

\* Whatever the addresses, the splits of the request and of the answer, the
\* timeout and the limit on sockets, an upload keeps the promise of PutItem.
THEOREM ImplementsPutItemHolds == Spec => ImplementsPutItem
  BY Invariant, InitRefines, NextRefines, PTL DEF Spec, ImplementsPutItem, Promise!Spec

-----------------------------------------------------------------------------
(* How long an exchange may last.  That it ends is liveness and stays with *)
(* TLC; that the thread's own steps in it are bounded has a proof.         *)

\* The turns of recv_timeout between two pieces of an answer, and one more.
Patience == 2 * TIMEOUT + 3

\* The most steps the thread can take before it returns or dies: those of
\* recv_timeout for each part still to come, a write for each octet not yet
\* sent, and a socket for each address not yet tried.
Left ==
    CASE pc = "resolve" -> 5 * Patience + REQUEST + 3 + (ADDRESSES - ai)
      [] pc = "connect" -> 5 * Patience + REQUEST + 2
      [] pc = "send" -> IF broken THEN 2 ELSE 5 * Patience + (REQUEST - sent)
      [] pc = "recv" -> (4 - total) * Patience + ((2 * TIMEOUT + 2) - waited)
      [] pc \in {"check", "dead"} -> 1
      [] OTHER -> 0

\* A turn of recv_timeout at the end of the stream and a setting of the clock
\* are the only steps of an exchange that may take it away from its end for
\* long: without them it takes the thread, a write that fails and is survived
\* costing one more, ADDRESSES + REQUEST + 10 * TIMEOUT + 17 steps at most,
\* however slowly the service works and in whatever pieces it answers.
ExchangeIsBounded ==
    [][/\ Begin => Left' = ADDRESSES + REQUEST + 10 * TIMEOUT + 17
       /\ OpenStep \/ SendStep \/ RecvEnds \/ RecvData \/ RecvNothing \/ HeldUp
            => Left \in Nat /\ Left' \in Nat /\ Left' < Left
       /\ WriteStumbles => Left' = Left + 1
       /\ Service => Left' = Left]_vars

\* Each part received is worth one restart of the clock.
LEMMA PartsLeft ==
    ASSUME NEW a \in 0..4, NEW b \in 0..4, a < b
    PROVE  /\ (4 - a) * Patience \in Nat /\ (4 - b) * Patience \in Nat
           /\ (4 - b) * Patience + Patience <= (4 - a) * Patience
<1>1. Patience \in Nat
  BY DEF Patience
<1>2. a \in {0, 1, 2, 3, 4} /\ b \in {0, 1, 2, 3, 4}
  OBVIOUS
<1>3. CASE a = 0
  BY <1>1, <1>2, <1>3
<1>4. CASE a = 1
  BY <1>1, <1>2, <1>4
<1>5. CASE a = 2
  BY <1>1, <1>2, <1>5
<1>6. CASE a = 3
  BY <1>1, <1>2, <1>6
<1> QED BY <1>2, <1>3, <1>4, <1>5, <1>6

LEMMA LeftInRecv ==
    ASSUME Counts, pc = "recv"
    PROVE  /\ Left = (4 - total) * Patience + ((2 * TIMEOUT + 2) - waited)
           /\ (4 - total) * Patience \in Nat
           /\ Left \in Nat /\ Left > 0
<1>1. Left = (4 - total) * Patience + ((2 * TIMEOUT + 2) - waited)
  BY DEF Left
<1>2. Patience \in Nat /\ total \in 0..4
  BY DEF Patience, Counts
<1>3. (4 - total) * Patience \in Nat
  BY <1>2
<1>4. (2 * TIMEOUT + 2) - waited \in Nat /\ (2 * TIMEOUT + 2) - waited > 0
  BY DEF Counts
<1> HIDE DEF Patience
<1> QED BY <1>1, <1>3, <1>4

LEMMA LeftInOpen ==
    ASSUME Counts, pc \in {"resolve", "connect", "check", "send", "dead"}
    PROVE  Left \in Nat /\ Left > 0
<1>1. Patience \in Nat /\ Patience > 0
  BY DEF Patience
<1>2. /\ ADDRESSES - ai \in Nat /\ REQUEST - sent \in Nat
      /\ REQUEST \in Nat
  BY DEF Counts
<1>3. pc = "send" => Left \in Nat /\ Left > 0
  BY <1>1, <1>2 DEF Left
<1>4. pc = "resolve" => Left \in Nat /\ Left > 0
  BY <1>1, <1>2 DEF Left
<1>5. pc = "connect" => Left \in Nat /\ Left > 0
  BY <1>1, <1>2 DEF Left
<1>6. pc \in {"check", "dead"} => Left = 1
  BY DEF Left
<1> QED BY <1>3, <1>4, <1>5, <1>6

\* The ways out of an exchange.
LEMMA LeftReturns ==
    ASSUME Counts, pc' = "ready",
           pc \in {"resolve", "connect", "check", "send", "dead", "recv"}
    PROVE  Left \in Nat /\ Left' \in Nat /\ Left' < Left
<1>1. Left' = 0
  BY DEF Left
<1> QED BY <1>1, LeftInRecv, LeftInOpen

LEMMA LeftOpening ==
    ASSUME IInv, Counts, Counts', OpenStep
    PROVE  Left \in Nat /\ Left' \in Nat /\ Left' < Left
<1> USE DEF caller, sockets, sending, receiving, answer, Return
<1>0. /\ Patience \in Nat /\ Patience > 2
      /\ ADDRESSES - ai \in Nat /\ REQUEST \in Nat /\ sent \in Int
      /\ sent <= REQUEST /\ (pc = "connect" => sent = 0)
      /\ ai \in Nat /\ ADDRESSES \in Nat
  BY DEF Counts, Patience, IInv, Fresh
<1>1. CASE LookupFails \/ ConnectFails \/ CheckEnds
  BY <1>1, LeftReturns DEF LookupFails, ConnectFails, CheckEnds
<1>2. CASE AddressWorks
  BY <1>0, <1>2 DEF AddressWorks, Left
<1>3. ASSUME pc = "resolve", pc' = "resolve", ai' = ai + 1, ai < ADDRESSES
      PROVE  Left \in Nat /\ Left' \in Nat /\ Left' < Left
  BY <1>0, <1>3 DEF Left
<1>4. CASE AddressFails \/ AddressWithoutSocket
  BY <1>3, <1>4, LeftReturns DEF AddressFails, AddressWithoutSocket
<1>5. CASE Connected
  <2>1. pc' \in {"send", "check"} /\ pc = "connect" /\ UNCHANGED <<sent, broken>>
    BY <1>5 DEF Connected
  <2>2. Left = 5 * Patience + REQUEST + 2
    BY <2>1 DEF Left
  <2>3. CASE pc' = "check"
    BY <1>0, <2>2, <2>3 DEF Left
  <2>4. CASE pc' = "send"
    <3>1. Left' \in {2, 5 * Patience + (REQUEST - sent)}
      BY <2>1, <2>4 DEF Left
    <3>2. Left' \in Nat
      BY <2>4, LeftInOpen, <1>5 DEF Connected, Left, Counts, Patience
    <3> QED BY <1>0, <2>1, <2>2, <3>1, <3>2
  <2> QED BY <2>1, <2>3, <2>4
<1> QED BY <1>1, <1>2, <1>4, <1>5 DEF OpenStep

\* What the octets sent, and the parts received, take off the measure.
LEMMA FewerOctets ==
    ASSUME NEW P \in Nat, NEW R \in Nat, NEW s \in Int, NEW t \in Int, t <= R, s < t
    PROVE  /\ 5 * P + (R - s) \in Nat /\ 5 * P + (R - t) \in Nat
           /\ 5 * P + (R - t) < 5 * P + (R - s)
  OBVIOUS

LEMMA FewerParts ==
    ASSUME NEW a \in Nat, NEW b \in Nat, NEW P \in Nat, NEW k \in Nat,
           NEW w \in Int, b + P <= a, w < P, w <= k
    PROVE  a + (k - w) \in Nat /\ b + k \in Nat /\ b + k < a + (k - w)
  OBVIOUS

LEMMA LeftSending ==
    ASSUME IInv, IInv', SendStep
    PROVE  Left \in Nat /\ Left' \in Nat /\ Left' < Left
<1> USE DEF caller, sockets, sending, receiving, answer
<1>0. /\ Patience \in Nat /\ Patience > 2 /\ REQUEST \in Nat /\ sent \in Int
      /\ sent <= REQUEST
  BY DEF IInv, TypeOK, Counts, Patience
<1>1. CASE Write
  <2>1. PICK bytes \in 1..(REQUEST - sent) :
          sent' = sent + bytes /\ pc' = IF sent' < REQUEST THEN "send" ELSE "recv"
    BY <1>1 DEF Write
  <2>2. pc = "send" /\ ~broken /\ ~broken' /\ total' = 0 /\ waited' = 0
    BY <1>1 DEF Write, IInv, Fresh
  <2>3. Left = 5 * Patience + (REQUEST - sent) /\ sent' > sent
    BY <1>0, <2>1, <2>2 DEF Left
  <2>4. CASE pc' = "send"
    <3>1. Left' = 5 * Patience + (REQUEST - sent') /\ sent' \in Int /\ sent' <= REQUEST
      BY <1>0, <2>1, <2>2, <2>4 DEF Left
    <3>2. /\ 5 * Patience + (REQUEST - sent) \in Nat
          /\ 5 * Patience + (REQUEST - sent') \in Nat
          /\ 5 * Patience + (REQUEST - sent') < 5 * Patience + (REQUEST - sent)
      BY <1>0, <2>3, <3>1, FewerOctets
    <3> QED BY <2>3, <3>1, <3>2
  <2>5. CASE pc' = "recv"
    <3>1. Counts'
      BY DEF IInv, TypeOK
    <3>2. Left' \in Nat /\ Left' < 5 * Patience
      <4>1. Left' = (4 - total') * Patience + ((2 * TIMEOUT + 2) - waited')
        BY <2>5 DEF Left
      <4>2. waited' = 0
        BY <2>2
      <4>3. (4 - total') * Patience = 4 * (2 * TIMEOUT + 3)
        BY <2>2 DEF Patience
      <4> QED BY <4>1, <4>2, <4>3 DEF Patience
    <3> QED BY <1>0, <2>3, <3>2
  <2> QED BY <2>1, <2>4, <2>5
<1>2. CASE WriteFails
  BY <1>0, <1>2 DEF WriteFails, Left
<1>3. CASE WriteKills
  BY <1>3 DEF WriteKills, Left
<1>4. CASE Restart
  BY <1>4, LeftReturns DEF Restart, IInv, TypeOK
<1> QED BY <1>1, <1>2, <1>3, <1>4 DEF SendStep

LEMMA LeftReceiving ==
    ASSUME Counts, Counts', RecvEnds \/ RecvData \/ RecvNothing \/ HeldUp
    PROVE  Left \in Nat /\ Left' \in Nat /\ Left' < Left
<1> USE DEF caller, sockets, sending, answer
<1>0. /\ Patience \in Nat /\ Patience = 2 * TIMEOUT + 3
      /\ total \in 0..4 /\ total' \in 0..4
      /\ waited \in -SETBACK..(2 * TIMEOUT + 1)
      /\ waited' \in -SETBACK..(2 * TIMEOUT + 1)
  BY DEF Counts, Patience
<1>1. CASE RecvEnds
  BY <1>1, LeftReturns DEF RecvEnds, RecvEndsWith, Return
<1>2. CASE RecvData
  <2>1. pc = "recv" /\ pc' = "recv" /\ waited' = 0 /\ total < total'
    BY <1>0, <1>2 DEF RecvData, Receive, Counts
  <2>2. /\ Left = (4 - total) * Patience + ((2 * TIMEOUT + 2) - waited)
        /\ Left' = (4 - total') * Patience + (2 * TIMEOUT + 2)
    BY <2>1 DEF Left
  <2>3. /\ (4 - total) * Patience \in Nat /\ (4 - total') * Patience \in Nat
        /\ (4 - total') * Patience + Patience <= (4 - total) * Patience
    BY <1>0, <2>1, PartsLeft
  <2> DEFINE a == (4 - total) * Patience
             b == (4 - total') * Patience
             k == 2 * TIMEOUT + 2
  <2>4. /\ k \in Nat /\ waited \in Int /\ Patience \in Nat
        /\ waited < Patience /\ waited <= k
    BY <1>0
  <2>5. a \in Nat /\ b \in Nat /\ b + Patience <= a
    BY <2>3
  <2>6. Left = a + (k - waited) /\ Left' = b + k
    BY <2>2
  <2> HIDE DEF a, b, k
  <2>7. a + (k - waited) \in Nat /\ b + k \in Nat /\ b + k < a + (k - waited)
    BY <2>4, <2>5, FewerParts
  <2> QED BY <2>6, <2>7
<1>3. CASE RecvNothing \/ HeldUp
  <2>1. pc = "recv" /\ pc' = "recv" /\ waited' = waited + 1 /\ total' = total
    BY <1>3 DEF RecvNothing, HeldUp
  <2>2. /\ Left = (4 - total) * Patience + ((2 * TIMEOUT + 2) - waited)
        /\ Left' = (4 - total) * Patience + ((2 * TIMEOUT + 2) - waited')
    BY <2>1 DEF Left
  <2>3. (4 - total) * Patience \in Nat
    BY <1>0
  <2> QED BY <1>0, <2>1, <2>2, <2>3
<1> QED BY <1>1, <1>2, <1>3

THEOREM ExchangeIsBoundedHolds == Spec => ExchangeIsBounded
<1>1. ASSUME IInv, [Next]_vars
      PROVE  [/\ Begin => Left' = ADDRESSES + REQUEST + 10 * TIMEOUT + 17
              /\ OpenStep \/ SendStep \/ RecvEnds \/ RecvData \/ RecvNothing \/ HeldUp
                   => Left \in Nat /\ Left' \in Nat /\ Left' < Left
              /\ WriteStumbles => Left' = Left + 1
              /\ Service => Left' = Left]_vars
  <2>1. IInv' /\ Counts /\ Counts'
    BY <1>1, NextFlags, NextData DEF IInv, TypeOK, Data
  <2>2. Begin => Left' = ADDRESSES + REQUEST + 10 * TIMEOUT + 17
    BY DEF Begin, Left, Patience
  <2>3. Service => Left' = Left
    BY DEF Service, Apply, Reply, Deliver, Close, Left, caller, sockets,
       sending, receiving
  <2>4. WriteStumbles => Left' = Left + 1
    BY <2>1 DEF WriteStumbles, Left, Counts, Patience, caller
  <2> QED BY <1>1, <2>1, <2>2, <2>3, <2>4, LeftOpening, LeftSending, LeftReceiving
<1> QED BY <1>1, Invariant, PTL DEF Spec, ExchangeIsBounded
================================================================================
