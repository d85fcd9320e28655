--------------------------- MODULE DbHandler_proofs ---------------------------
(***************************************************************************)
(* Proofs about DbHandler, for every retry frequency, every set of         *)
(* outcomes and any number of readings and restarts.                       *)
(***************************************************************************)
EXTENDS DbHandler, SequenceTheorems, TLAPS

USE FrequencyAssumption, EnvironmentAssumption, BoundsAssumption DEF service

-----------------------------------------------------------------------------
(* Sequences over the readings pushed so far. *)

\* A sequence of old readings is a sequence of the readings after one more.
LEMMA SeqGrows ==
    ASSUME NEW n \in Nat, NEW s \in Seq(1..n)
    PROVE  s \in Seq(1..(n + 1))
<1>1. 1..n \subseteq 1..(n + 1)
  OBVIOUS
<1> QED BY <1>1, SeqMonotonic

\* What Append does to a queue or a table.
LEMMA AppendFacts ==
    ASSUME NEW S, NEW s \in Seq(S), NEW e \in S
    PROVE  /\ Append(s, e) \in Seq(S)
           /\ DOMAIN Append(s, e) = DOMAIN s \cup {Len(s) + 1}
           /\ Len(s) \in Nat
           /\ DOMAIN s = 1..Len(s)
           /\ \A i \in DOMAIN s : Append(s, e)[i] = s[i] /\ s[i] \in S
           /\ Append(s, e)[Len(s) + 1] = e
<1>1. /\ Append(s, e) \in Seq(S)
      /\ Len(Append(s, e)) = Len(s) + 1
      /\ \A i \in 1..Len(s) : Append(s, e)[i] = s[i]
      /\ Append(s, e)[Len(s) + 1] = e
  BY AppendProperties
<1>2. Len(s) \in Nat /\ DOMAIN s = 1..Len(s) /\ \A i \in 1..Len(s) : s[i] \in S
  BY LenProperties, ElementOfSeq
<1>3. DOMAIN Append(s, e) = 1..(Len(s) + 1)
  BY <1>1, LenProperties
<1> QED BY <1>1, <1>2, <1>3

\* What popping does to a queue.
LEMMA PopFacts ==
    ASSUME NEW S, NEW s \in Seq(S), s # <<>>
    PROVE  /\ Head(s) \in S /\ Head(s) = s[1] /\ 1 \in DOMAIN s
           /\ Tail(s) \in Seq(S)
           /\ DOMAIN s = 1..Len(s) /\ Len(s) \in Nat
           /\ DOMAIN Tail(s) = 1..(Len(s) - 1)
           /\ \A i \in DOMAIN Tail(s) : i + 1 \in DOMAIN s /\ Tail(s)[i] = s[i + 1]
<1>1. Len(s) \in Nat /\ DOMAIN s = 1..Len(s) /\ Len(s) # 0
  BY LenProperties, EmptySeq
<1>2. /\ Head(s) \in S
      /\ Tail(s) \in Seq(S)
      /\ Len(Tail(s)) = Len(s) - 1
      /\ \A i \in 1..Len(Tail(s)) : Tail(s)[i] = s[i + 1]
  BY HeadTailProperties
<1>3. DOMAIN Tail(s) = 1..(Len(s) - 1)
  BY <1>2, LenProperties
<1>4. Head(s) = s[1]
  OBVIOUS
<1> QED BY <1>1, <1>2, <1>3, <1>4

-----------------------------------------------------------------------------
(* Type correctness and the retry counter.  The counter is only bounded    *)
(* because an attempt starts at 0, so the two are proved together.         *)

RetryInv ==
    /\ pc \in Attempt => no_internet_count = 0 /\ quiet = 0
    /\ no_internet_count # 0 => quiet = no_internet_count - 1
    /\ no_internet_count = 0 => quiet \in {0, NO_INTERNET_CHECK_FREQUENCY}

LEMMA TypeInit == Init => TypeOK
<1> SUFFICES ASSUME Init PROVE TypeOK
  OBVIOUS
<1>1. queue \in Seq(1..pushed) /\ rows \in Seq(1..pushed)
  BY EmptySeq DEF Init
<1>2. /\ synced \in SUBSET DOMAIN rows
      /\ cloud \in SUBSET (1..pushed) /\ late \in SUBSET (1..pushed)
  BY DEF Init
<1>3. /\ pc \in Places /\ cur \in 0..pushed /\ (pc = "pop" <=> cur = 0)
      /\ no_internet_count \in 0..NO_INTERNET_CHECK_FREQUENCY
      /\ row \in Nat /\ (pc \in {"put", "mark"} => row \in DOMAIN rows)
  BY DEF Init, Places
<1>4. leaked \in BOOLEAN
  BY Zenon DEF Init
<1>5. /\ resp \in {"unset", "ok", "error"}
      /\ pushed \in 0..MaxReadings /\ boot \in 0..pushed
      /\ crashes \in 0..MaxCrashes /\ quiet \in Nat
  BY DEF Init
<1> QED BY <1>1, <1>2, <1>3, <1>4, <1>5 DEF TypeOK

LEMMA TypePush == TypeOK /\ Push => TypeOK'
<1> SUFFICES ASSUME TypeOK, Push PROVE TypeOK'
  OBVIOUS
<1> USE DEF Push, thread, disk, history
<1>1. pushed \in Nat /\ pushed + 1 <= MaxReadings
  BY DEF TypeOK
<1>2. queue' \in Seq(1..pushed')
  <2>1. queue \in Seq(1..(pushed + 1))
    BY <1>1, SeqGrows DEF TypeOK
  <2>2. pushed + 1 \in 1..(pushed + 1)
    BY <1>1
  <2> QED BY <2>1, <2>2, AppendProperties
<1>3. rows' \in Seq(1..pushed')
  BY <1>1, SeqGrows DEF TypeOK
<1>4. /\ cloud' \in SUBSET (1..pushed') /\ late' \in SUBSET (1..pushed')
      /\ cur' \in 0..pushed' /\ boot' \in 0..pushed'
  BY <1>1 DEF TypeOK
<1> QED BY <1>1, <1>2, <1>3, <1>4 DEF TypeOK

LEMMA TypeHandle == TypeOK /\ HandleStep => TypeOK'
<1> SUFFICES ASSUME TypeOK, HandleStep PROVE TypeOK'
  OBVIOUS
<1> USE DEF thread, disk, history, Places, Attempt
<1>1. CASE Pop
  <2>1. cur' \in 1..pushed /\ queue' \in Seq(1..pushed)
    BY <1>1, PopFacts DEF Pop, TypeOK
  <2> QED BY <1>1, <2>1 DEF Pop, TypeOK
<1>2. CASE WriteSucceeds
  <2>1. cur \in 1..pushed
    BY <1>2 DEF WriteSucceeds, TypeOK
  <2>2. rows' \in Seq(1..pushed) /\ DOMAIN rows \subseteq DOMAIN rows'
    BY <1>2, <2>1, AppendFacts DEF WriteSucceeds, TypeOK
  <2> QED BY <1>2, <2>1, <2>2 DEF WriteSucceeds, TypeOK
<1>3. CASE WriteFails
  BY <1>3 DEF WriteFails, TypeOK
<1>4. CASE TrySync
  BY <1>4 DEF TrySync, TypeOK
<1>5. CASE SkipSync
  <2>1. no_internet_count' \in 0..NO_INTERNET_CHECK_FREQUENCY
    BY <1>5 DEF SkipSync, TypeOK
  <2> QED BY <1>5, <2>1 DEF SkipSync, TypeOK
<1> QED BY <1>1, <1>2, <1>3, <1>4, <1>5 DEF HandleStep

\* What a return from sync_hx_data leaves.
LEMMA TypeFinish ==
    ASSUME TypeOK, RetryInv, pc \in Attempt,
           Finish(0) \/ Finish(1) \/ Finish(2),
           leaked' \in BOOLEAN, resp' \in {"unset", "ok", "error"},
           UNCHANGED disk, cloud' \in SUBSET (1..pushed),
           late' \in SUBSET (1..pushed)
    PROVE  TypeOK'
<1> USE DEF disk, history, Places, Attempt
<1>1. no_internet_count' \in 0..NO_INTERNET_CHECK_FREQUENCY
  BY DEF Finish, RetryInv
<1> QED BY <1>1 DEF Finish, TypeOK

LEMMA TypeSync == TypeOK /\ RetryInv /\ SyncStep => TypeOK'
<1> SUFFICES ASSUME TypeOK, RetryInv, SyncStep PROVE TypeOK'
  OBVIOUS
<1> USE DEF disk, history, Places, Attempt
<1>1. CASE SyncOffline
  BY <1>1, TypeFinish DEF SyncOffline, TypeOK
<1>2. CASE SyncHangs
  BY <1>2 DEF SyncHangs, TypeOK
<1>3. CASE SyncNoDb
  BY <1>3, TypeFinish DEF SyncNoDb, TypeOK
<1>4. CASE SyncOpen
  BY <1>4 DEF SyncOpen, TypeOK
<1>5. CASE StepRow
  BY <1>5 DEF StepRow, TypeOK, Pending
<1>6. CASE StepDone
  BY <1>6, TypeFinish DEF StepDone, TypeOK
<1>7. CASE StepError
  BY <1>7, TypeFinish DEF StepError, TypeOK
<1> QED BY <1>1, <1>2, <1>3, <1>4, <1>5, <1>6, <1>7 DEF SyncStep

LEMMA TypePut == TypeOK /\ RetryInv /\ PutStep => TypeOK'
<1> SUFFICES ASSUME TypeOK, RetryInv, PutStep PROVE TypeOK'
  OBVIOUS
<1> USE DEF disk, history, Places, Attempt, GiveUp
<1>0. pc = "put" => rows[row] \in 1..pushed
  BY ElementOfSeq, LenProperties DEF TypeOK
<1>1. CASE PutAccepted
  BY <1>0, <1>1 DEF PutAccepted, TypeOK
<1>2. CASE PutRejected
  BY <1>0, <1>2, TypeFinish DEF PutRejected, TypeOK
<1>3. CASE PutRefused
  BY <1>0, <1>3, TypeFinish DEF PutRefused, TypeOK
<1>4. CASE PutSilent
  BY <1>0, <1>4, TypeFinish DEF PutSilent, TypeOK
<1>5. CASE PutHangs
  BY <1>0, <1>5 DEF PutHangs, TypeOK
<1>6. CASE MarkSucceeds
  BY <1>0, <1>6 DEF MarkSucceeds, TypeOK
<1>7. CASE MarkFails
  BY <1>0, <1>7, TypeFinish DEF MarkFails, TypeOK
<1> QED BY <1>1, <1>2, <1>3, <1>4, <1>5, <1>6, <1>7 DEF PutStep

LEMMA TypeCrash == TypeOK /\ Crash => TypeOK'
<1> SUFFICES ASSUME TypeOK, Crash PROVE TypeOK'
  OBVIOUS
<1>1. queue' \in Seq(1..pushed')
  BY EmptySeq DEF Crash
<1>2. leaked' \in BOOLEAN
  BY Zenon DEF Crash
<1>3. late' \in SUBSET (1..pushed)
  <2>1. pc = "put" => rows[row] \in 1..pushed
    BY ElementOfSeq, LenProperties DEF TypeOK
  <2>2. late' = late \/ (pc = "put" /\ late' = late \cup {rows[row]})
    BY DEF Crash
  <2>3. late \in SUBSET (1..pushed)
    BY DEF TypeOK
  <2> QED BY <2>1, <2>2, <2>3
<1> QED BY <1>1, <1>2, <1>3 DEF Crash, disk, TypeOK, Places, Attempt

LEMMA TypeLate == TypeOK /\ AppliedLate => TypeOK'
  BY DEF AppliedLate, TypeOK, thread, disk, history, Places, Attempt

\* A stuttering step changes no variable TypeOK and RetryInv mention.
LEMMA TypeStutter == TypeOK /\ UNCHANGED vars => TypeOK'
  BY DEF TypeOK, vars, thread, disk, history, Places, Attempt

\* The counter and the readings skipped since the last attempt move together.
LEMMA RetryStep == TypeOK /\ RetryInv /\ [Next]_vars => RetryInv'
<1> SUFFICES ASSUME TypeOK, RetryInv, [Next]_vars PROVE RetryInv'
  OBVIOUS
<1> USE DEF TypeOK, RetryInv, Places, Attempt, thread, history
<1>1. CASE Push
  BY <1>1 DEF Push
<1>2. CASE HandleStep
  BY <1>2 DEF HandleStep, Pop, WriteSucceeds, WriteFails, TrySync, SkipSync
<1>3. CASE SyncStep
  BY <1>3 DEF SyncStep, SyncOffline, SyncHangs, SyncNoDb, SyncOpen, StepRow,
              StepDone, StepError, Finish
<1>4. CASE PutStep
  BY <1>4 DEF PutStep, PutAccepted, PutRejected, PutRefused, PutSilent,
              PutHangs, MarkSucceeds, MarkFails, GiveUp, Finish
<1>5. CASE Crash
  BY <1>5 DEF Crash
<1>6. CASE AppliedLate \/ UNCHANGED vars
  BY <1>6 DEF AppliedLate, vars
<1> QED BY <1>1, <1>2, <1>3, <1>4, <1>5, <1>6 DEF Next, DbStep

LEMMA TypeStep == TypeOK /\ RetryInv /\ [Next]_vars => TypeOK'
  BY TypePush, TypeHandle, TypeSync, TypePut, TypeCrash, TypeLate, TypeStutter
     DEF Next, DbStep

LEMMA RetryInit == Init => RetryInv
  BY DEF Init, RetryInv, Attempt

\* Every state is well typed: the retry counter never passes its limit, and
\* the cursor is on a row of the table whenever one is sent or marked.
THEOREM TypeCorrect == Spec => [](TypeOK /\ RetryInv)
<1>1. Init => TypeOK /\ RetryInv
  BY TypeInit, RetryInit
<1>2. TypeOK /\ RetryInv /\ [Next]_vars => (TypeOK /\ RetryInv)'
  BY TypeStep, RetryStep
<1> QED BY <1>1, <1>2, PTL DEF Spec

\* Between two attempts at most NO_INTERNET_CHECK_FREQUENCY readings are
\* stored without one, for any frequency but 0.
THEOREM RetryBudgetHolds == Spec => []RetryBudget
<1>1. TypeOK /\ RetryInv => RetryBudget
  BY DEF TypeOK, RetryInv, RetryBudget
<1> QED BY TypeCorrect, <1>1, PTL

-----------------------------------------------------------------------------
(* The order of readings: queue, hand and table stay sorted. *)

QueueInv ==
    /\ \A i, j \in DOMAIN queue : i < j => queue[i] < queue[j]
    /\ \A n \in InHand : \A i \in DOMAIN queue : n < queue[i]

LEMMA OrderInit == Init => StoredInOrder /\ QueueInv
  BY DEF Init, StoredInOrder, QueueInv, Queued, InHand

LEMMA OrderPush == TypeOK /\ StoredInOrder /\ QueueInv /\ Push
                     => (StoredInOrder /\ QueueInv)'
<1> SUFFICES ASSUME TypeOK, StoredInOrder, QueueInv, Push
             PROVE  (StoredInOrder /\ QueueInv)'
  OBVIOUS
<1> USE DEF Push, thread, disk, InHand, Queued
<1>1. pushed \in Nat /\ cur \in 0..pushed
  BY DEF TypeOK
<1>2. queue \in Seq(1..(pushed + 1)) /\ pushed + 1 \in 1..(pushed + 1)
  BY <1>1, SeqGrows DEF TypeOK
<1>3. /\ DOMAIN queue' = DOMAIN queue \cup {Len(queue) + 1}
      /\ Len(queue) \in Nat /\ DOMAIN queue = 1..Len(queue)
      /\ \A i \in DOMAIN queue : queue'[i] = queue[i]
      /\ queue'[Len(queue) + 1] = pushed + 1
  BY <1>2, AppendFacts
<1>4. \A i \in DOMAIN queue : queue[i] \in 1..pushed
  BY LenProperties, ElementOfSeq DEF TypeOK
<1>5. \A id \in DOMAIN rows : rows[id] \in 1..pushed
  BY LenProperties, ElementOfSeq DEF TypeOK
<1>6. StoredInOrder'
  BY <1>1, <1>3, <1>5 DEF StoredInOrder
<1>7. QueueInv'
  BY <1>1, <1>3, <1>4 DEF QueueInv
<1> QED BY <1>6, <1>7

LEMMA OrderPop == TypeOK /\ StoredInOrder /\ QueueInv /\ Pop
                    => (StoredInOrder /\ QueueInv)'
<1> SUFFICES ASSUME TypeOK, StoredInOrder, QueueInv, Pop
             PROVE  (StoredInOrder /\ QueueInv)'
  OBVIOUS
<1> USE DEF Pop, disk, InHand, Queued
<1>1. /\ cur' = queue[1] /\ 1 \in DOMAIN queue
      /\ DOMAIN queue = 1..Len(queue) /\ Len(queue) \in Nat
      /\ DOMAIN queue' = 1..(Len(queue) - 1)
      /\ \A i \in DOMAIN queue' : i + 1 \in DOMAIN queue /\ queue'[i] = queue[i + 1]
  BY PopFacts DEF TypeOK
<1>2. StoredInOrder'
  BY <1>1 DEF StoredInOrder
<1>3. QueueInv'
  BY <1>1 DEF QueueInv
<1> QED BY <1>2, <1>3

LEMMA OrderWrite == TypeOK /\ StoredInOrder /\ QueueInv /\ WriteSucceeds
                      => (StoredInOrder /\ QueueInv)'
<1> SUFFICES ASSUME TypeOK, StoredInOrder, QueueInv, WriteSucceeds
             PROVE  (StoredInOrder /\ QueueInv)'
  OBVIOUS
<1> USE DEF WriteSucceeds, InHand, Queued
<1>1. cur \in 1..pushed
  BY DEF TypeOK
<1>2. /\ DOMAIN rows' = DOMAIN rows \cup {Len(rows) + 1}
      /\ Len(rows) \in Nat /\ DOMAIN rows = 1..Len(rows)
      /\ \A id \in DOMAIN rows : rows'[id] = rows[id]
      /\ rows'[Len(rows) + 1] = cur
  BY <1>1, AppendFacts DEF TypeOK
<1>3. StoredInOrder'
  BY <1>1, <1>2 DEF StoredInOrder, QueueInv
<1>4. QueueInv'
  BY DEF QueueInv
<1> QED BY <1>3, <1>4

\* The other steps move neither queue nor table, and put nothing in hand.
LEMMA OrderOther ==
    ASSUME StoredInOrder, QueueInv, UNCHANGED rows, InHand' \subseteq InHand,
           UNCHANGED queue \/ queue' = <<>>
    PROVE  (StoredInOrder /\ QueueInv)'
<1>1. DOMAIN queue' \subseteq DOMAIN queue
      /\ \A i \in DOMAIN queue' : queue'[i] = queue[i]
  OBVIOUS
<1> QED BY <1>1 DEF StoredInOrder, QueueInv, Queued

LEMMA OrderStep == TypeOK /\ StoredInOrder /\ QueueInv /\ [Next]_vars
                     => (StoredInOrder /\ QueueInv)'
<1> SUFFICES ASSUME TypeOK, StoredInOrder, QueueInv, [Next]_vars
             PROVE  (StoredInOrder /\ QueueInv)'
  OBVIOUS
<1> USE DEF thread, disk, history, InHand
<1>1. CASE HandleStep
  <2>1. CASE WriteFails \/ TrySync \/ SkipSync
    BY <2>1, OrderOther DEF WriteFails, TrySync, SkipSync
  <2> QED BY <1>1, <2>1, OrderPop, OrderWrite DEF HandleStep
<1>2. CASE SyncStep
  BY <1>2, OrderOther DEF SyncStep, SyncOffline, SyncHangs, SyncNoDb, SyncOpen,
       StepRow, StepDone, StepError, Finish
<1>3. CASE PutStep
  BY <1>3, OrderOther DEF PutStep, PutAccepted, PutRejected, PutRefused,
       PutSilent, PutHangs, MarkSucceeds, MarkFails, GiveUp, Finish
<1>4. CASE Crash
  BY <1>4, OrderOther DEF Crash
<1>5. CASE AppliedLate \/ UNCHANGED vars
  BY <1>5, OrderOther DEF AppliedLate, vars
<1> QED BY <1>1, <1>2, <1>3, <1>4, <1>5, OrderPush DEF Next, DbStep

\* The table holds the readings in the order they were taken, each once.
THEOREM StoredInOrderHolds == Spec => []StoredInOrder
<1>1. Init => StoredInOrder /\ QueueInv
  BY OrderInit
<1>2. TypeOK /\ StoredInOrder /\ QueueInv /\ [Next]_vars
        => (StoredInOrder /\ QueueInv)'
  BY OrderStep
<1> QED BY <1>1, <1>2, TypeCorrect, PTL DEF Spec

-----------------------------------------------------------------------------
(* The order of uploads: the cursor is on the oldest pending row whenever  *)
(* one is sent or marked, so marks are a prefix of the table.              *)

CursorInv ==
    /\ pc = "scan" => row = 0 \/ row \in synced
    /\ pc \in {"put", "mark"} =>
         row \in Pending /\ \A other \in Pending : row <= other

LEMMA UploadInit == Init => UploadInOrder /\ CursorInv
  BY DEF Init, UploadInOrder, CursorInv

LEMMA UploadStepRow == TypeOK /\ UploadInOrder /\ CursorInv /\ StepRow
                         => (UploadInOrder /\ CursorInv)'
<1> SUFFICES ASSUME TypeOK, UploadInOrder, CursorInv, StepRow
             PROVE  (UploadInOrder /\ CursorInv)'
  OBVIOUS
<1> USE DEF StepRow, disk, Pending
<1>1. DOMAIN rows = 1..Len(rows) /\ Len(rows) \in Nat
  BY LenProperties DEF TypeOK
<1>2. ASSUME NEW other \in Pending PROVE other > row
  BY <1>1, <1>2 DEF CursorInv, UploadInOrder, TypeOK
<1>3. CursorInv'
  BY <1>1, <1>2 DEF CursorInv, TypeOK
<1> QED BY <1>3 DEF UploadInOrder

LEMMA UploadMark == TypeOK /\ UploadInOrder /\ CursorInv /\ MarkSucceeds
                      => (UploadInOrder /\ CursorInv)'
<1> SUFFICES ASSUME TypeOK, UploadInOrder, CursorInv, MarkSucceeds
             PROVE  (UploadInOrder /\ CursorInv)'
  OBVIOUS
<1> USE DEF MarkSucceeds
<1>1. DOMAIN rows = 1..Len(rows) /\ Len(rows) \in Nat
  BY LenProperties DEF TypeOK
<1>2. ASSUME NEW older \in 1..row PROVE older \in synced'
  BY <1>1, <1>2 DEF CursorInv, Pending
<1>3. UploadInOrder'
  BY <1>2 DEF UploadInOrder
<1> QED BY <1>3 DEF CursorInv

LEMMA UploadWrite == TypeOK /\ UploadInOrder /\ CursorInv /\ WriteSucceeds
                       => (UploadInOrder /\ CursorInv)'
  BY DEF WriteSucceeds, UploadInOrder, CursorInv

\* The other steps leave table and marks alone and the cursor where it was,
\* or leave the part of the thread where the cursor matters.
LEMMA UploadOther ==
    ASSUME UploadInOrder, CursorInv, UNCHANGED disk,
           \/ pc' \notin {"scan", "put", "mark"}
           \/ pc' = "scan" /\ row' = 0
           \/ {pc, pc'} \subseteq {"put", "mark"} /\ row' = row
           \/ UNCHANGED <<pc, row>>
    PROVE  (UploadInOrder /\ CursorInv)'
  BY DEF UploadInOrder, CursorInv, Pending, disk

LEMMA UploadStep == TypeOK /\ UploadInOrder /\ CursorInv /\ [Next]_vars
                      => (UploadInOrder /\ CursorInv)'
<1> SUFFICES ASSUME TypeOK, UploadInOrder, CursorInv, [Next]_vars
             PROVE  (UploadInOrder /\ CursorInv)'
  OBVIOUS
<1> USE DEF thread, history
<1>1. CASE Push
  BY <1>1, UploadOther DEF Push
<1>2. CASE HandleStep
  <2>1. CASE Pop \/ WriteFails \/ TrySync \/ SkipSync
    BY <2>1, UploadOther DEF Pop, WriteFails, TrySync, SkipSync
  <2> QED BY <1>2, <2>1, UploadWrite DEF HandleStep
<1>3. CASE SyncStep
  <2>1. CASE SyncOpen
    BY <2>1, UploadOther DEF SyncOpen
  <2>2. CASE SyncOffline \/ SyncHangs \/ SyncNoDb \/ StepDone \/ StepError
    BY <2>2, UploadOther DEF SyncOffline, SyncHangs, SyncNoDb, StepDone,
         StepError, Finish
  <2> QED BY <1>3, <2>1, <2>2, UploadStepRow DEF SyncStep
<1>4. CASE PutStep
  <2>1. CASE PutAccepted \/ PutSilent
    BY <2>1, UploadOther DEF PutAccepted, PutSilent, GiveUp, Finish
  <2>2. CASE PutRejected \/ PutRefused \/ PutHangs \/ MarkFails
    BY <2>2, UploadOther DEF PutRejected, PutRefused, PutHangs, MarkFails,
         GiveUp, Finish
  <2> QED BY <1>4, <2>1, <2>2, UploadMark DEF PutStep
<1>5. CASE Crash
  BY <1>5, UploadOther DEF Crash
<1>6. CASE AppliedLate \/ UNCHANGED vars
  BY <1>6, UploadOther DEF AppliedLate, vars
<1> QED BY <1>1, <1>2, <1>3, <1>4, <1>5, <1>6 DEF Next, DbStep

\* Rows are marked oldest first, whatever fails and wherever the process
\* dies.
THEOREM UploadInOrderHolds == Spec => [](UploadInOrder /\ CursorInv)
<1>1. Init => UploadInOrder /\ CursorInv
  BY UploadInit
<1>2. TypeOK /\ UploadInOrder /\ CursorInv /\ [Next]_vars
        => (UploadInOrder /\ CursorInv)'
  BY UploadStep
<1> QED BY <1>1, <1>2, TypeCorrect, PTL DEF Spec

-----------------------------------------------------------------------------
(* Repeated uploads.  Needs the two orders: the row sent is the oldest     *)
(* pending one, and no other row holds the same reading.                   *)

UploadCtx == TypeOK /\ StoredInOrder /\ CursorInv

LEMMA UnmarkedWrite == UploadCtx /\ AtMostOneUnmarkedUpload /\ WriteSucceeds
                         => AtMostOneUnmarkedUpload'
<1> SUFFICES ASSUME UploadCtx, AtMostOneUnmarkedUpload, WriteSucceeds
             PROVE  AtMostOneUnmarkedUpload'
  OBVIOUS
<1> USE DEF WriteSucceeds, Stored, Pending
<1>1. cur \in 1..pushed
  BY DEF TypeOK, UploadCtx
<1>2. /\ DOMAIN rows' = DOMAIN rows \cup {Len(rows) + 1}
      /\ Len(rows) \in Nat /\ DOMAIN rows = 1..Len(rows)
      /\ \A id \in DOMAIN rows : rows'[id] = rows[id] /\ rows[id] \in 1..pushed
      /\ rows'[Len(rows) + 1] = cur
  BY <1>1, AppendFacts DEF TypeOK, UploadCtx
<1>3. cloud \cup late \subseteq Stored'
  BY <1>2 DEF AtMostOneUnmarkedUpload
<1>4. cur \notin cloud \cup late
  <2>1. \A id \in DOMAIN rows : rows[id] < cur
    BY DEF UploadCtx, StoredInOrder, InHand, Queued
  <2> QED BY <1>1, <1>2, <2>1 DEF AtMostOneUnmarkedUpload
<1>5. ASSUME NEW id \in Pending', rows'[id] \in cloud \cup late,
             NEW other \in Pending'
      PROVE  id <= other
  <2>1. id \in Pending /\ rows[id] \in cloud \cup late
    BY <1>2, <1>4, <1>5
  <2>2. CASE other \in Pending
    BY <2>1, <2>2 DEF AtMostOneUnmarkedUpload
  <2>3. CASE other = Len(rows) + 1
    BY <1>2, <2>1, <2>3
  <2> QED BY <1>2, <2>2, <2>3
<1> QED BY <1>3, <1>5 DEF AtMostOneUnmarkedUpload

LEMMA UnmarkedPut ==
    ASSUME UploadCtx, AtMostOneUnmarkedUpload, pc = "put", UNCHANGED disk,
           cloud' \cup late' \subseteq cloud \cup late \cup {rows[row]}
    PROVE  AtMostOneUnmarkedUpload'
<1> USE DEF Stored, Pending, disk
<1>1. /\ row \in Pending /\ \A other \in Pending : row <= other
      /\ DOMAIN rows = 1..Len(rows) /\ Len(rows) \in Nat
      /\ \A id \in DOMAIN rows : rows[id] \in 1..pushed
      /\ pushed \in Nat
  <2>1. rows \in Seq(1..pushed) /\ pushed \in Nat
    BY DEF UploadCtx, TypeOK
  <2>2. /\ DOMAIN rows = 1..Len(rows) /\ Len(rows) \in Nat
        /\ \A id \in DOMAIN rows : rows[id] \in 1..pushed
    BY <2>1, LenProperties, ElementOfSeq
  <2>3. row \in Pending /\ \A other \in Pending : row <= other
    BY DEF UploadCtx, CursorInv
  <2> QED BY <2>1, <2>2, <2>3
<1>2. cloud' \cup late' \subseteq Stored'
  BY <1>1 DEF AtMostOneUnmarkedUpload
<1>3. ASSUME NEW id \in Pending, rows[id] = rows[row] PROVE id = row
  BY <1>1, <1>3 DEF UploadCtx, StoredInOrder
<1>4. ASSUME NEW id \in Pending', rows'[id] \in cloud' \cup late',
             NEW other \in Pending'
      PROVE  id <= other
  <2>1. CASE rows[id] \in cloud \cup late
    BY <2>1, <1>4 DEF AtMostOneUnmarkedUpload
  <2>2. CASE rows[id] = rows[row]
    BY <2>2, <1>1, <1>3, <1>4
  <2> QED BY <1>4, <2>1, <2>2
<1> QED BY <1>2, <1>4 DEF AtMostOneUnmarkedUpload

LEMMA UnmarkedOther ==
    ASSUME AtMostOneUnmarkedUpload, UNCHANGED rows, synced \subseteq synced',
           cloud' \cup late' \subseteq cloud \cup late
    PROVE  AtMostOneUnmarkedUpload'
  BY DEF AtMostOneUnmarkedUpload, Stored, Pending

LEMMA UnmarkedStep == UploadCtx /\ AtMostOneUnmarkedUpload /\ [Next]_vars
                        => AtMostOneUnmarkedUpload'
<1> SUFFICES ASSUME UploadCtx, AtMostOneUnmarkedUpload, [Next]_vars
             PROVE  AtMostOneUnmarkedUpload'
  OBVIOUS
<1> USE DEF thread, history, disk
<1>1. CASE Push \/ AppliedLate \/ UNCHANGED vars
  BY <1>1, UnmarkedOther DEF Push, AppliedLate, vars
<1>2. CASE HandleStep
  <2>1. CASE Pop \/ WriteFails \/ TrySync \/ SkipSync
    BY <2>1, UnmarkedOther DEF Pop, WriteFails, TrySync, SkipSync
  <2> QED BY <1>2, <2>1, UnmarkedWrite DEF HandleStep
<1>3. CASE SyncStep
  BY <1>3, UnmarkedOther DEF SyncStep, SyncOffline, SyncHangs, SyncNoDb,
       SyncOpen, StepRow, StepDone, StepError, Finish
<1>4. CASE PutStep
  <2>1. CASE PutRejected \/ PutRefused \/ MarkSucceeds \/ MarkFails
    BY <2>1, UnmarkedOther DEF PutRejected, PutRefused, MarkSucceeds,
         MarkFails, GiveUp, Finish
  <2>2. CASE PutAccepted \/ PutSilent \/ PutHangs
    BY <2>2, UnmarkedPut DEF PutAccepted, PutSilent, PutHangs
  <2> QED BY <1>4, <2>1, <2>2 DEF PutStep
<1>5. CASE Crash
  <2>1. CASE UNCHANGED late
    BY <1>5, <2>1, UnmarkedOther DEF Crash
  <2> QED BY <1>5, <2>1, UnmarkedPut DEF Crash
<1> QED BY <1>1, <1>2, <1>3, <1>4, <1>5 DEF Next, DbStep

LEMMA UnmarkedInit == Init => AtMostOneUnmarkedUpload
  BY DEF Init, AtMostOneUnmarkedUpload, Stored, Pending

\* However requests and answers are lost and wherever the process dies, at
\* most one reading is in the cloud without being marked: the next one sent.
THEOREM AtMostOneUnmarkedUploadHolds == Spec => []AtMostOneUnmarkedUpload
<1>1. UploadCtx /\ AtMostOneUnmarkedUpload /\ [Next]_vars
        => AtMostOneUnmarkedUpload'
  BY UnmarkedStep
<1>2. TypeOK /\ StoredInOrder /\ CursorInv => UploadCtx
  BY DEF UploadCtx
<1> QED BY <1>1, <1>2, UnmarkedInit, TypeCorrect, StoredInOrderHolds,
           UploadInOrderHolds, PTL DEF Spec

-----------------------------------------------------------------------------
(* What a mark is worth.  It is evidence of an upload exactly when every   *)
(* request that reaches the end of its exchange has been answered.         *)

Answering == PutOutcomes \cap {"unanswered", "lost"} = {}

MarkInv ==
    /\ SyncedIsInCloud
    /\ pc = "mark" => rows[row] \in cloud

LEMMA MarkInit == Init => MarkInv
  BY DEF Init, MarkInv, SyncedIsInCloud

\* Steps that extend the table or the cloud and mark nothing.
LEMMA MarkOther ==
    ASSUME MarkInv, UNCHANGED synced, cloud \subseteq cloud',
           \A id \in synced : rows'[id] = rows[id],
           pc' # "mark" \/ (pc = "mark" /\ row' = row /\ rows' = rows)
    PROVE  MarkInv'
  BY DEF MarkInv, SyncedIsInCloud

LEMMA MarkStep ==
    ASSUME Answering
    PROVE  TypeOK /\ MarkInv /\ [Next]_vars => MarkInv'
<1> SUFFICES ASSUME TypeOK, MarkInv, [Next]_vars PROVE MarkInv'
  OBVIOUS
<1> USE DEF thread, history, disk
<1>1. CASE Push \/ Crash \/ AppliedLate \/ UNCHANGED vars
  BY <1>1, MarkOther DEF Push, Crash, AppliedLate, vars
<1>2. CASE HandleStep
  <2>1. CASE Pop \/ WriteFails \/ TrySync \/ SkipSync
    BY <2>1, MarkOther DEF Pop, WriteFails, TrySync, SkipSync
  <2>2. CASE WriteSucceeds
    <3>1. cur \in 1..pushed
      BY <2>2 DEF TypeOK, WriteSucceeds
    <3>2. \A id \in synced : rows'[id] = rows[id]
      BY <2>2, <3>1, AppendFacts DEF TypeOK, WriteSucceeds
    <3> QED BY <2>2, <3>2, MarkOther DEF WriteSucceeds
  <2> QED BY <1>2, <2>1, <2>2 DEF HandleStep
<1>3. CASE SyncStep
  BY <1>3, MarkOther DEF SyncStep, SyncOffline, SyncHangs, SyncNoDb, SyncOpen,
       StepRow, StepDone, StepError, Finish
<1>4. CASE PutStep
  <2>1. CASE PutAccepted
    BY <2>1 DEF PutAccepted, MarkInv, SyncedIsInCloud
  <2>2. CASE PutRejected \/ PutRefused \/ PutHangs \/ MarkFails
    BY <2>2, MarkOther DEF PutRejected, PutRefused, PutHangs, MarkFails,
         GiveUp, Finish
  <2>3. CASE MarkSucceeds
    BY <2>3 DEF MarkSucceeds, MarkInv, SyncedIsInCloud
  <2>4. ~PutSilent
    BY DEF PutSilent, Answering
  <2> QED BY <1>4, <2>1, <2>2, <2>3, <2>4 DEF PutStep
<1> QED BY <1>1, <1>2, <1>3, <1>4 DEF Next, DbStep

\* The invariant of the answered exchange, for the two theorems below.
LEMMA MarkInvHolds ==
    ASSUME Answering
    PROVE  Spec => []MarkInv
<1>1. TypeOK /\ MarkInv /\ [Next]_vars => MarkInv'
  BY MarkStep
<1> QED BY <1>1, MarkInit, TypeCorrect, PTL DEF Spec

\* When the service answers what it gets, a marked row is in the cloud, in
\* every state, after faults of the database and restarts too.
THEOREM SyncedIsInCloudHolds ==
    ASSUME Answering
    PROVE  Spec => []SyncedIsInCloud
<1>1. MarkInv => SyncedIsInCloud
  BY DEF MarkInv
<1> QED BY <1>1, MarkInvHolds, PTL

\* The end of an upload loop leaves nothing pending: the SELECT does not pass
\* over a row, and the loop leaves for its end or for a failure only.
THEOREM SuccessLeavesNoBacklogHolds ==
    ASSUME DbFaults = FALSE
    PROVE  Spec => SuccessLeavesNoBacklog
<1>1. ASSUME TypeOK, UploadInOrder, CursorInv, [Next]_vars,
             pc = "scan", pc' = "pop", crashes' = crashes
      PROVE  Pending' = {}
  <2>1. StepDone
    BY <1>1 DEF TypeOK, vars, thread, disk, history, Next, Push, DbStep,
         HandleStep, Pop, WriteSucceeds, WriteFails, TrySync, SkipSync,
         SyncStep, SyncOffline, SyncHangs, SyncNoDb, SyncOpen, StepRow,
         StepError, PutStep, PutAccepted, PutRejected, PutRefused, PutSilent,
         PutHangs, MarkSucceeds, MarkFails, Crash, AppliedLate
  <2>2. DOMAIN rows = 1..Len(rows) /\ Len(rows) \in Nat
    BY <1>1, LenProperties DEF TypeOK
  <2>3. ASSUME NEW id \in Pending PROVE FALSE
    BY <1>1, <2>1, <2>2, <2>3
       DEF StepDone, CursorInv, UploadInOrder, Pending, TypeOK
  <2> QED BY <2>1, <2>3 DEF StepDone, Pending, disk
<1>2. TypeOK /\ UploadInOrder /\ CursorInv /\ [Next]_vars
        => [(pc = "scan" /\ pc' = "pop" /\ crashes' = crashes) => Pending' = {}]_vars
  BY <1>1
<1> QED BY <1>2, TypeCorrect, UploadInOrderHolds, PTL
           DEF Spec, SuccessLeavesNoBacklog
-----------------------------------------------------------------------------
(* The thread keeps the promise of Outbox: every step stores a newer       *)
(* reading, uploads or confirms the oldest pending row, or stutters.       *)

RefCtx ==
    TypeOK /\ StoredInOrder /\ CursorInv /\ MarkInv /\ AtMostOneUnmarkedUpload

LEMMA RefInit == Init => Promise!Init
  BY DEF Init, Promise!Init

LEMMA OldestRow ==
    ASSUME RefCtx, pc \in {"put", "mark"}
    PROVE  row \in DOMAIN rows /\ Promise!Oldest(row)
  BY DEF RefCtx, CursorInv, Pending, Promise!Oldest

LEMMA RefWrite == RefCtx /\ WriteSucceeds => Promise!Next
<1> SUFFICES ASSUME RefCtx, WriteSucceeds PROVE Promise!Next
  OBVIOUS
<1>1. cur \in 1..MaxReadings
  BY DEF RefCtx, TypeOK, WriteSucceeds
<1>2. \A id \in DOMAIN rows : rows[id] < cur
  BY DEF RefCtx, StoredInOrder, InHand, WriteSucceeds
<1>3. Promise!Store(cur)
  BY <1>2 DEF WriteSucceeds, Promise!Store
<1> QED BY <1>1, <1>3 DEF Promise!Next

LEMMA RefPut ==
    ASSUME RefCtx, pc = "put", UNCHANGED disk,
           cloud' \in {cloud, cloud \cup {rows[row]}}
    PROVE  Promise!Next \/ UNCHANGED Promise!vars
<1>1. CASE cloud' = cloud
  BY <1>1 DEF disk, Promise!vars
<1>2. CASE cloud' = cloud \cup {rows[row]}
  <2>1. Promise!Upload(row) /\ row \in DOMAIN rows
    BY <1>2, OldestRow DEF disk, Promise!Upload
  <2> QED BY <2>1 DEF Promise!Next
<1> QED BY <1>1, <1>2

LEMMA RefMark == RefCtx /\ MarkSucceeds => Promise!Next
<1> SUFFICES ASSUME RefCtx, MarkSucceeds PROVE Promise!Next
  OBVIOUS
<1>1. Promise!Confirm(row) /\ row \in DOMAIN rows
  BY OldestRow DEF MarkSucceeds, Promise!Confirm, RefCtx, MarkInv
<1> QED BY <1>1 DEF Promise!Next

\* A request applied late is one of a confirmed row, whose copy is there
\* already, or of the oldest pending one.
LEMMA RefLate == RefCtx /\ AppliedLate => Promise!Next \/ UNCHANGED Promise!vars
<1> SUFFICES ASSUME RefCtx, AppliedLate
             PROVE  Promise!Next \/ UNCHANGED Promise!vars
  OBVIOUS
<1>1. PICK n \in late : cloud' = cloud \cup {n}
  BY DEF AppliedLate
<1>2. PICK id \in DOMAIN rows : n = rows[id]
  BY DEF RefCtx, AtMostOneUnmarkedUpload, Stored
<1>3. UNCHANGED disk
  BY DEF AppliedLate
<1>4. CASE id \in synced
  <2>1. n \in cloud
    BY <1>2, <1>4 DEF RefCtx, MarkInv, SyncedIsInCloud
  <2> QED BY <1>1, <1>3, <2>1 DEF disk, Promise!vars
<1>5. CASE id \notin synced
  <2>1. Promise!Oldest(id)
    BY <1>2, <1>5 DEF RefCtx, AtMostOneUnmarkedUpload, Pending, Promise!Oldest
  <2>2. Promise!Upload(id)
    BY <1>1, <1>2, <1>3, <2>1 DEF disk, Promise!Upload
  <2> QED BY <2>2 DEF Promise!Next
<1> QED BY <1>4, <1>5

LEMMA RefStep ==
    RefCtx /\ [Next]_vars => Promise!Next \/ UNCHANGED Promise!vars
<1> SUFFICES ASSUME RefCtx, [Next]_vars
             PROVE  Promise!Next \/ UNCHANGED Promise!vars
  OBVIOUS
<1> USE DEF Promise!vars, disk
<1>1. CASE Push \/ Crash \/ UNCHANGED vars
  BY <1>1 DEF Push, Crash, vars
<1>2. CASE HandleStep
  <2>1. CASE Pop \/ WriteFails \/ TrySync \/ SkipSync
    BY <2>1 DEF Pop, WriteFails, TrySync, SkipSync
  <2> QED BY <1>2, <2>1, RefWrite DEF HandleStep
<1>3. CASE SyncStep
  BY <1>3 DEF SyncStep, SyncOffline, SyncHangs, SyncNoDb, SyncOpen, StepRow,
       StepDone, StepError
<1>4. CASE PutStep
  <2>1. CASE PutRejected \/ PutRefused \/ MarkFails
    BY <2>1 DEF PutRejected, PutRefused, MarkFails
  <2>2. CASE PutAccepted \/ PutSilent \/ PutHangs
    BY <2>2, RefPut DEF PutAccepted, PutSilent, PutHangs
  <2> QED BY <1>4, <2>1, <2>2, RefMark DEF PutStep
<1>5. CASE AppliedLate
  BY <1>5, RefLate
<1> QED BY <1>1, <1>2, <1>3, <1>4, <1>5 DEF Next, DbStep

\* When the service answers what it gets, the thread implements Outbox, for
\* any number of readings and restarts and any fault of the database.
THEOREM ImplementsOutboxHolds ==
    ASSUME Answering
    PROVE  Spec => ImplementsOutbox
<1>1. TypeOK /\ StoredInOrder /\ CursorInv /\ MarkInv /\ AtMostOneUnmarkedUpload
        => RefCtx
  BY DEF RefCtx
<1>2. RefCtx /\ [Next]_vars => [Promise!Next]_Promise!vars
  BY RefStep
<1> QED BY <1>1, <1>2, RefInit, TypeCorrect, StoredInOrderHolds,
           UploadInOrderHolds, MarkInvHolds, AtMostOneUnmarkedUploadHolds, PTL
           DEF Spec, ImplementsOutbox, Promise!Spec

\* What keeping the promise comes to, from the theory of Outbox.
Beginning == INSTANCE Outbox_proofs
               WITH Readings <- 1..MaxReadings, stored <- rows, confirmed <- synced

CloudIsABeginning == Beginning!CopyOfABeginning

LEMMA SamePromise ==
    /\ Promise!Init => Beginning!Init
    /\ [Promise!Next]_Promise!vars => [Beginning!Next]_Beginning!vars
  BY DEF Promise!Init, Promise!Next, Promise!vars, Promise!Store, Promise!Upload,
     Promise!Confirm, Promise!Oldest, Beginning!Init, Beginning!Next,
     Beginning!vars, Beginning!Store, Beginning!Upload, Beginning!Confirm,
     Beginning!Oldest

\* When the service answers what it gets, the cloud is at every moment a copy
\* of the beginning of the table, marked but perhaps for its last reading.
THEOREM CloudIsABeginningHolds ==
    ASSUME Answering
    PROVE  Spec => []CloudIsABeginning
<1>1. Spec => Promise!Spec
  BY ImplementsOutboxHolds DEF ImplementsOutbox
<1>2. Promise!Spec => Beginning!Spec
  BY SamePromise, PTL DEF Promise!Spec, Beginning!Spec
<1>3. 1..MaxReadings \subseteq Nat
  OBVIOUS
<1>4. Beginning!Spec => [](Beginning!Sorted /\ Beginning!CopyOfABeginning)
  BY <1>3, Beginning!CloudIsABeginning
<1> QED BY <1>1, <1>2, <1>4, PTL DEF CloudIsABeginning

-----------------------------------------------------------------------------
(* Where a reading can be lost: in a restart, and after a leak. *)

LEMMA LostStep ==
    ASSUME DbFaults = FALSE
    PROVE  TypeOK /\ NothingLostBeforeALeak /\ [Next]_vars
             => NothingLostBeforeALeak'
<1> SUFFICES ASSUME TypeOK, NothingLostBeforeALeak, [Next]_vars, ~leaked',
                    NEW n \in (boot' + 1)..pushed'
             PROVE  n \in (Queued \cup InHand \cup Stored)'
  BY DEF NothingLostBeforeALeak
<1> USE DEF thread, history, disk, InHand
<1>1. CASE Push
  <2>1. queue \in Seq(1..(pushed + 1)) /\ pushed + 1 \in 1..(pushed + 1)
    BY SeqGrows DEF TypeOK
  <2>2. /\ \A i \in DOMAIN queue : i \in DOMAIN queue' /\ queue'[i] = queue[i]
        /\ Len(queue) + 1 \in DOMAIN queue'
        /\ queue'[Len(queue) + 1] = pushed + 1
    BY <1>1, <2>1, AppendFacts DEF Push
  <2>3. CASE n = pushed + 1
    BY <2>2, <2>3 DEF Queued
  <2>4. CASE n \in (boot + 1)..pushed
    <3>1. n \in Queued \cup InHand \cup Stored
      BY <1>1, <2>4 DEF Push, NothingLostBeforeALeak
    <3> QED BY <1>1, <2>2, <3>1 DEF Push, Queued, Stored
  <2> QED BY <1>1, <2>3, <2>4 DEF Push, TypeOK
<1>2. CASE Pop
  <2>1. n \in Queued \cup Stored /\ pc = "pop"
    BY <1>2 DEF Pop, NothingLostBeforeALeak
  <2>2. ASSUME NEW i \in DOMAIN queue
        PROVE  queue[i] = cur' \/ queue[i] \in Queued'
    <3>1. /\ cur' = queue[1] /\ i \in 1..Len(queue) /\ Len(queue) \in Nat
          /\ DOMAIN queue' = 1..(Len(queue) - 1)
          /\ \A k \in DOMAIN queue' : queue'[k] = queue[k + 1]
      BY <1>2, PopFacts DEF Pop, TypeOK
    <3>2. CASE i # 1
      <4>1. i - 1 \in DOMAIN queue' /\ queue'[i - 1] = queue[i]
        BY <3>1, <3>2
      <4> QED BY <4>1 DEF Queued
    <3> QED BY <3>1, <3>2
  <2> QED BY <1>2, <2>1, <2>2 DEF Pop, Queued, Stored
<1>3. CASE WriteSucceeds
  <2>1. n \in Queued \cup {cur} \cup Stored
    BY <1>3 DEF WriteSucceeds, NothingLostBeforeALeak
  <2>2. cur \in 1..pushed
    BY <1>3 DEF WriteSucceeds, TypeOK
  <2>3. /\ \A id \in DOMAIN rows : id \in DOMAIN rows' /\ rows'[id] = rows[id]
        /\ Len(rows) + 1 \in DOMAIN rows' /\ rows'[Len(rows) + 1] = cur
    BY <1>3, <2>2, AppendFacts DEF WriteSucceeds, TypeOK
  <2> QED BY <1>3, <2>1, <2>3 DEF WriteSucceeds, Queued, Stored
<1>4. ~leaked /\ UNCHANGED <<queue, rows, boot, pushed>> /\ pc # "write"
        => n \in (Queued \cup InHand \cup Stored)'
  BY DEF NothingLostBeforeALeak, Queued, Stored
<1>5. CASE WriteFails \/ TrySync \/ SkipSync
  BY <1>4, <1>5 DEF WriteFails, TrySync, SkipSync
<1>6. CASE SyncStep
  BY <1>4, <1>6 DEF SyncStep, SyncOffline, SyncHangs, SyncNoDb, SyncOpen,
       StepRow, StepDone, StepError, Finish
<1>7. CASE PutStep
  BY <1>4, <1>7 DEF PutStep, PutAccepted, PutRejected, PutRefused, PutSilent,
       PutHangs, MarkSucceeds, MarkFails, GiveUp, Finish
<1>8. CASE Crash
  BY <1>8 DEF Crash, TypeOK
<1>9. CASE AppliedLate \/ UNCHANGED vars
  BY <1>9 DEF AppliedLate, vars, NothingLostBeforeALeak, Queued, Stored
<1> QED BY <1>1, <1>2, <1>3, <1>5, <1>6, <1>7, <1>8, <1>9
           DEF Next, DbStep, HandleStep

\* With a sound disk, until an upload fails with its SELECT unfinished, every
\* reading pushed since the process started is on its way or in the table.
THEOREM NothingLostBeforeALeakHolds ==
    ASSUME DbFaults = FALSE
    PROVE  Spec => []NothingLostBeforeALeak
<1>1. Init => NothingLostBeforeALeak
  BY DEF Init, NothingLostBeforeALeak
<1>2. TypeOK /\ NothingLostBeforeALeak /\ [Next]_vars => NothingLostBeforeALeak'
  BY LostStep
<1> QED BY <1>1, <1>2, TypeCorrect, PTL DEF Spec

\* With a sound disk and a service that either accepts a request or closes
\* the connection, no connection is ever leaked.
LEMMA LeakStep ==
    ASSUME DbFaults = FALSE, PutOutcomes \subseteq {"accepted", "closed"}
    PROVE  ~leaked /\ [Next]_vars => ~leaked'
<1> SUFFICES ASSUME ~leaked, [Next]_vars PROVE ~leaked'
  OBVIOUS
<1> USE DEF thread, history, disk
<1>1. CASE Push \/ Crash \/ AppliedLate \/ UNCHANGED vars
  BY <1>1, Zenon DEF Push, Crash, AppliedLate, vars
<1>2. CASE HandleStep
  BY <1>2 DEF HandleStep, Pop, WriteSucceeds, WriteFails, TrySync, SkipSync
<1>3. CASE SyncStep
  BY <1>3 DEF SyncStep, SyncOffline, SyncHangs, SyncNoDb, SyncOpen, StepRow,
       StepDone, StepError
<1>4. CASE PutStep
  BY <1>4 DEF PutStep, PutAccepted, PutRejected, PutRefused, PutSilent,
       PutHangs, MarkSucceeds, MarkFails
<1> QED BY <1>1, <1>2, <1>3, <1>4 DEF Next, DbStep

\* Readings are dropped for no other reason than a leak: with a sound disk
\* and no request rejected, refused or left unanswered, every reading pushed
\* since the process started is saved, even when the thread hangs for good.
THEOREM EveryReadingIsSavedUnlessRefused ==
    ASSUME DbFaults = FALSE, PutOutcomes \subseteq {"accepted", "closed"}
    PROVE  Spec => []EveryReadingIsSaved
<1>1. Init => ~leaked
  BY DEF Init
<1>2. ~leaked /\ [Next]_vars => ~leaked'
  BY LeakStep
<1>3. NothingLostBeforeALeak /\ ~leaked => EveryReadingIsSaved
  BY DEF NothingLostBeforeALeak, EveryReadingIsSaved
<1> QED BY <1>1, <1>2, <1>3, NothingLostBeforeALeakHolds, PTL DEF Spec

-----------------------------------------------------------------------------
(* How long the thread may be busy.  That a reading is handled at all is   *)
(* liveness and stays with TLC; that the work between two pops is bounded  *)
(* by the size of the table is the part of it that has a proof.            *)

Behind == Len(rows) - row

\* What the thread has left to do before it pops again: up to three steps
\* for every row of the table past the cursor.
Left ==
    CASE pc = "write" -> 3 * Len(rows) + 7
      [] pc = "gate"  -> 3 * Len(rows) + 3
      [] pc = "sync"  -> 3 * Len(rows) + 2
      [] pc = "scan"  -> 3 * Behind + 1
      [] pc = "put"   -> 3 * Behind + 3
      [] pc = "mark"  -> 3 * Behind + 2
      [] OTHER        -> 0

\* A reading popped with a table of L rows keeps the thread for at most
\* 3L + 7 steps: every step brings it nearer to its next pop, so the loop of
\* sync_hx_data sends each row once, whatever fails on the way, and readings
\* queued meanwhile prolong nothing.
AttemptIsBounded ==
    [][/\ DbStep /\ pc = "pop" => Left' = 3 * Len(rows) + 7
       /\ DbStep /\ pc # "pop" => Left \in Nat /\ Left' \in Nat /\ Left' < Left
       /\ Push => Left' = Left]_vars

LEMMA LeftFacts ==
    ASSUME TypeOK, CursorInv
    PROVE  /\ Len(rows) \in Nat /\ DOMAIN rows = 1..Len(rows)
           /\ pc \in {"scan", "put", "mark"} => row \in 0..Len(rows)
           /\ Left \in Nat
           /\ pc \notin {"pop", "stuck"} => Left > 0
<1>1. Len(rows) \in Nat /\ DOMAIN rows = 1..Len(rows)
  BY LenProperties DEF TypeOK
<1>2. pc \in {"scan", "put", "mark"} => row \in 0..Len(rows)
  BY <1>1 DEF TypeOK, CursorInv
<1>3. pc \in {"pop", "stuck", "write", "gate", "sync", "scan", "put", "mark"}
  BY DEF TypeOK, Places, Attempt
<1> QED BY <1>1, <1>2, <1>3 DEF Left, Behind

\* A step out of the handler's work, back to the queue or into a hang.
LEMMA LeftEnds ==
    ASSUME TypeOK, CursorInv, pc \notin {"pop", "stuck"}, pc' \in {"pop", "stuck"}
    PROVE  Left \in Nat /\ Left' \in Nat /\ Left' < Left
<1>1. Left \in Nat /\ Left > 0
  BY LeftFacts
<1>2. Left' = 0
  BY DEF Left
<1> QED BY <1>1, <1>2

LEMMA LeftHandle ==
    ASSUME TypeOK, CursorInv, HandleStep
    PROVE  /\ pc = "pop" => Left' = 3 * Len(rows) + 7
           /\ pc # "pop" => Left \in Nat /\ Left' \in Nat /\ Left' < Left
<1> USE DEF thread, history, disk
<1>0. Len(rows) \in Nat
  BY LeftFacts
<1>1. CASE Pop
  BY <1>1 DEF Pop, Left
<1>2. CASE WriteSucceeds
  <2>1. cur \in 1..pushed
    BY <1>2 DEF WriteSucceeds, TypeOK
  <2>2. Len(rows') = Len(rows) + 1
    BY <1>2, <2>1, AppendProperties DEF WriteSucceeds, TypeOK
  <2> QED BY <1>0, <1>2, <2>2 DEF WriteSucceeds, Left
<1>3. CASE WriteFails \/ TrySync
  BY <1>0, <1>3 DEF WriteFails, TrySync, Left
<1>4. CASE SkipSync
  BY <1>4, LeftEnds DEF SkipSync
<1> QED BY <1>1, <1>2, <1>3, <1>4 DEF HandleStep

LEMMA LeftSync ==
    ASSUME TypeOK, CursorInv, SyncStep
    PROVE  pc # "pop" /\ Left \in Nat /\ Left' \in Nat /\ Left' < Left
<1> USE DEF thread, history, disk
<1>0. /\ Len(rows) \in Nat /\ DOMAIN rows = 1..Len(rows)
      /\ pc = "scan" => row \in 0..Len(rows)
  BY LeftFacts
<1>1. CASE SyncOffline \/ SyncHangs \/ SyncNoDb
  BY <1>1, LeftEnds DEF SyncOffline, SyncHangs, SyncNoDb, Finish
<1>2. CASE SyncOpen
  BY <1>0, <1>2 DEF SyncOpen, Left, Behind
<1>3. CASE StepRow
  <2>1. row' \in 1..Len(rows) /\ row' > row
    BY <1>0, <1>3 DEF StepRow, Pending
  <2> QED BY <1>0, <1>3, <2>1 DEF StepRow, Left, Behind
<1>4. CASE StepDone \/ StepError
  BY <1>4, LeftEnds DEF StepDone, StepError, Finish
<1> QED BY <1>1, <1>2, <1>3, <1>4 DEF SyncStep

LEMMA LeftPut ==
    ASSUME TypeOK, CursorInv, PutStep
    PROVE  pc # "pop" /\ Left \in Nat /\ Left' \in Nat /\ Left' < Left
<1> USE DEF thread, history, disk
<1>0. Len(rows) \in Nat /\ (pc \in {"put", "mark"} => row \in 0..Len(rows))
  BY LeftFacts
<1>1. CASE PutRejected \/ PutRefused \/ PutHangs \/ MarkFails
  BY <1>1, LeftEnds DEF PutRejected, PutRefused, PutHangs, MarkFails, GiveUp,
       Finish
<1>2. ASSUME pc = "put", pc' = "mark", UNCHANGED <<row, rows>>
      PROVE  Left \in Nat /\ Left' \in Nat /\ Left' < Left
  BY <1>0, <1>2 DEF Left, Behind
<1>3. CASE PutAccepted
  BY <1>2, <1>3 DEF PutAccepted
<1>4. CASE PutSilent
  <2>1. CASE pc' = "pop"
    BY <1>4, <2>1, LeftEnds DEF PutSilent
  <2> QED BY <1>2, <1>4, <2>1 DEF PutSilent, GiveUp, Finish
<1>5. CASE MarkSucceeds
  BY <1>0, <1>5 DEF MarkSucceeds, Left, Behind
<1> QED BY <1>1, <1>3, <1>4, <1>5 DEF PutStep

THEOREM AttemptIsBoundedHolds == Spec => AttemptIsBounded
<1>1. ASSUME TypeOK, CursorInv, Next
      PROVE  /\ DbStep /\ pc = "pop" => Left' = 3 * Len(rows) + 7
             /\ DbStep /\ pc # "pop"
                  => Left \in Nat /\ Left' \in Nat /\ Left' < Left
             /\ Push => Left' = Left
  <2>1. Push => Left' = Left
    BY DEF Push, thread, disk, Left, Behind
  <2> QED BY <1>1, <2>1, LeftHandle, LeftSync, LeftPut DEF DbStep
<1>2. TypeOK /\ CursorInv /\ [Next]_vars
        => [/\ DbStep /\ pc = "pop" => Left' = 3 * Len(rows) + 7
            /\ DbStep /\ pc # "pop"
                 => Left \in Nat /\ Left' \in Nat /\ Left' < Left
            /\ Push => Left' = Left]_vars
  BY <1>1
<1> QED BY <1>2, TypeCorrect, UploadInOrderHolds, PTL
           DEF Spec, AttemptIsBounded
=============================================================================
