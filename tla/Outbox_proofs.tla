---------------------------- MODULE Outbox_proofs ----------------------------
(***************************************************************************)
(* What the promise of Outbox amounts to, for any readings: the cloud is a *)
(* copy of the beginning of the store.  DbHandler_proofs shows that        *)
(* db_data_handler keeps the promise when its requests are answered.       *)
(***************************************************************************)
EXTENDS Outbox, SequenceTheorems, TLAPS

\* The readings of the first n places of the store.
First(n) == {stored[i] : i \in 1..n}

TypeOK ==
    /\ stored \in Seq(Readings)
    /\ confirmed \subseteq DOMAIN stored

\* Readings are stored in the order they were taken, each once.
Sorted == \A i, j \in DOMAIN stored : i < j => stored[i] < stored[j]

\* The confirmed readings are the first so many of the store, and the cloud
\* holds just those, or those and the one that follows.
CopyOfABeginning ==
    \E n \in 0..Len(stored) :
      /\ confirmed = 1..n
      /\ \/ cloud = First(n)
         \/ n < Len(stored) /\ cloud = First(n + 1)

IInv == TypeOK /\ Sorted /\ CopyOfABeginning

LEMMA OldestIsNext ==
    ASSUME NEW n \in 0..Len(stored), TypeOK, confirmed = 1..n,
           NEW id, Oldest(id)
    PROVE  id = n + 1 /\ n < Len(stored)
<1>1. DOMAIN stored = 1..Len(stored) /\ Len(stored) \in Nat
  BY LenProperties DEF TypeOK
<1>2. id \in 1..Len(stored) /\ id > n
  BY <1>1 DEF Oldest
<1>3. n + 1 \in DOMAIN stored \ confirmed
  BY <1>1, <1>2
<1> QED BY <1>2, <1>3 DEF Oldest

LEMMA StoreStep ==
    ASSUME Readings \subseteq Nat, IInv, NEW r \in Readings, Store(r)
    PROVE  IInv'
<1>1. /\ stored' \in Seq(Readings) /\ Len(stored') = Len(stored) + 1
      /\ \A i \in 1..Len(stored) : stored'[i] = stored[i]
      /\ stored'[Len(stored) + 1] = r
  BY AppendProperties DEF IInv, TypeOK, Store
<1>2. /\ DOMAIN stored = 1..Len(stored) /\ Len(stored) \in Nat
      /\ DOMAIN stored' = 1..(Len(stored) + 1)
  BY <1>1, LenProperties DEF IInv, TypeOK
<1>3. TypeOK'
  BY <1>1, <1>2 DEF IInv, TypeOK, Store
<1>4. Sorted'
  BY <1>1, <1>2 DEF IInv, Sorted, Store
<1>5. CopyOfABeginning'
  <2>1. PICK n \in 0..Len(stored) :
          /\ confirmed = 1..n
          /\ cloud = First(n) \/ (n < Len(stored) /\ cloud = First(n + 1))
    BY DEF IInv, CopyOfABeginning
  <2>2. First(n)' = First(n)
    BY <1>1, <1>2 DEF First
  <2>3. n < Len(stored) => First(n + 1)' = First(n + 1)
    BY <1>1, <1>2 DEF First
  <2>4. n \in 0..Len(stored)'
    BY <1>1, <1>2
  <2>5. n < Len(stored) => n < Len(stored)'
    BY <1>1, <1>2
  <2> QED BY <2>1, <2>2, <2>3, <2>4, <2>5 DEF CopyOfABeginning, Store
<1> QED BY <1>3, <1>4, <1>5 DEF IInv

LEMMA UploadStep ==
    ASSUME IInv, NEW id, Upload(id)
    PROVE  IInv'
<1>1. PICK n \in 0..Len(stored) :
        /\ confirmed = 1..n
        /\ cloud = First(n) \/ (n < Len(stored) /\ cloud = First(n + 1))
  BY DEF IInv, CopyOfABeginning
<1>2. id = n + 1 /\ n < Len(stored)
  BY <1>1, OldestIsNext DEF IInv, Upload
<1>3. First(n + 1) = First(n) \cup {stored[n + 1]}
  BY DEF First
<1>4. cloud' = First(n + 1)
  <2>1. cloud' = cloud \cup {stored[n + 1]}
    BY <1>2 DEF Upload
  <2> QED BY <1>1, <1>3, <2>1
<1>5. CopyOfABeginning'
  <2>1. First(n + 1)' = First(n + 1)
    BY DEF First, Upload
  <2> QED BY <1>1, <1>2, <1>4, <2>1 DEF CopyOfABeginning, Upload
<1> QED BY <1>5 DEF IInv, TypeOK, Sorted, Upload

LEMMA ConfirmStep ==
    ASSUME Readings \subseteq Nat, IInv, NEW id, Confirm(id)
    PROVE  IInv'
<1>1. PICK n \in 0..Len(stored) :
        /\ confirmed = 1..n
        /\ cloud = First(n) \/ (n < Len(stored) /\ cloud = First(n + 1))
  BY DEF IInv, CopyOfABeginning
<1>2. id = n + 1 /\ n < Len(stored)
  BY <1>1, OldestIsNext DEF IInv, Confirm
<1>3. /\ DOMAIN stored = 1..Len(stored) /\ Len(stored) \in Nat
      /\ \A i \in DOMAIN stored : stored[i] \in Nat
  BY LenProperties, ElementOfSeq DEF IInv, TypeOK
<1>4. stored[n + 1] \notin First(n)
  BY <1>2, <1>3 DEF IInv, Sorted, First
<1>5. cloud = First(n + 1)
  BY <1>1, <1>2, <1>4 DEF Confirm
<1>6. confirmed' = 1..(n + 1) /\ n + 1 \in 0..Len(stored)
  BY <1>1, <1>2, <1>3 DEF Confirm
<1>7. CopyOfABeginning'
  <2>1. First(n + 1)' = First(n + 1)
    BY DEF First, Confirm
  <2> QED BY <1>5, <1>6, <2>1 DEF CopyOfABeginning, Confirm
<1>8. TypeOK'
  BY <1>2, <1>3 DEF IInv, TypeOK, Confirm
<1> QED BY <1>7, <1>8 DEF IInv, Sorted, Confirm

LEMMA InitIInv == Init => IInv
<1> SUFFICES ASSUME Init PROVE IInv
  OBVIOUS
<1>1. stored \in Seq(Readings) /\ Len(stored) = 0 /\ DOMAIN stored = {}
  BY EmptySeq DEF Init
<1>2. confirmed = 1..0 /\ cloud = First(0)
  BY DEF Init, First
<1> QED BY <1>1, <1>2 DEF Init, IInv, TypeOK, Sorted, CopyOfABeginning

LEMMA Stutter == IInv /\ UNCHANGED vars => IInv'
  BY DEF vars, IInv, TypeOK, Sorted, CopyOfABeginning, First

\* Whoever keeps the promise never copies a reading before an older one, never
\* confirms what is not copied, and has at most one copy to make again.
THEOREM CloudIsABeginning ==
    ASSUME Readings \subseteq Nat
    PROVE  Spec => [](Sorted /\ CopyOfABeginning)
<1>1. IInv /\ [Next]_vars => IInv'
  BY StoreStep, UploadStep, ConfirmStep, Stutter DEF Next
<1>2. IInv => Sorted /\ CopyOfABeginning
  BY DEF IInv
<1> QED BY <1>1, <1>2, InitIInv, PTL DEF Spec
=============================================================================
