-------------------------- MODULE Descriptors_proofs --------------------------
(***************************************************************************)
(* Proofs about Descriptors, for any numbers of descriptors.               *)
(***************************************************************************)
EXTENDS Descriptors, TLAPS

\* What the numbers stand for.
Kinds == fd \in [Numbers -> Files]

\* Where the two threads stand, and the numbers they hold there.
Threads ==
    /\ leaked \subseteq Numbers
    /\ bpc \in {"idle", "connecting", "round", "end"}
    /\ sock \in Numbers \cup {None} /\ (bpc # "idle" => sock \in Numbers)
    /\ dpc \in {"idle", "online", "resolve", "connect"} \cup WithFile \cup WithSocket
    /\ use \in {"check", "put"}
    /\ (dpc \in {"put", "recv"} => use = "put") /\ (dpc = "check" => use = "check")
    /\ file \in Numbers \cup {None} /\ http \in Numbers \cup {None}
    /\ (file # None) <=> (dpc \in WithFile \/ (use = "put" /\
                            dpc \in WithSocket \cup {"resolve", "connect"}))
    /\ (http # None) <=> dpc \in WithSocket

\* A round only goes straight to its end when its connection was refused.
EndHasFailed == bpc = "end" => failed

LEMMA KindFact ==
    "free" \in Files /\ "ble" \in Files /\ "file" \in Files /\ "http" \in Files
  BY DEF Files

\* -1 is no descriptor.
LEMMA NumberFact == None \notin Numbers
  BY NumbersAssumption DEF None

LEMMA Split == TypeOK <=> Kinds /\ Threads /\ Flags
  BY DEF TypeOK, Kinds, Threads


\* Numbers only ever stand for what is opened.
LEMMA KindsStep ==
    ASSUME Kinds, [Next]_vars PROVE Kinds'
<1>1. CASE Socket
  BY <1>1, KindFact DEF Socket, Open, Free, database, history, Kinds
<1>2. CASE SocketFails
  BY <1>2, KindFact DEF SocketFails, Free, database, history, Kinds
<1>3. CASE Connected
  BY <1>3, KindFact DEF Connected, database, history, Kinds
<1>4. CASE ConnectFails
  BY <1>4, KindFact DEF ConnectFails, CloseSock, Close, database, Kinds
<1>5. CASE TalkStrays
  BY <1>5, KindFact DEF TalkStrays, callback, database, Kinds
<1>6. CASE TalkFails
  BY <1>6, KindFact DEF TalkFails, CloseSock, Close, database, Kinds
<1>7. CASE RoundEnds
  BY <1>7, KindFact DEF RoundEnds, CloseSock, Close, database, Kinds
<1>8. CASE OpenDb
  BY <1>8, KindFact DEF OpenDb, Open, Free, callback, history, Kinds
<1>9. CASE OpenDbFails
  BY <1>9, KindFact DEF OpenDbFails, callback, history, Kinds
<1>10. CASE Stored
  BY <1>10, KindFact DEF Stored, Close, callback, history, Kinds
<1>11. CASE NextRow
  BY <1>11, KindFact DEF NextRow, callback, history, Kinds
<1>12. CASE NoMoreRows
  BY <1>12, KindFact DEF NoMoreRows, Close, callback, history, Kinds
<1>13. CASE RowUnreadable
  BY <1>13, KindFact DEF RowUnreadable, Leave, callback, history, Kinds
<1>14. CASE OpenSocket
  BY <1>14, KindFact DEF OpenSocket, Open, Free, callback, history, Kinds
<1>15. CASE OpenSocketFails
  BY <1>15, KindFact DEF OpenSocketFails, GiveUp, Leave, callback, history,
                         Kinds
<1>16. CASE LookupEnds
  BY <1>16, KindFact DEF LookupEnds, Close, callback, history, Kinds
<1>17. CASE AddressFails
  BY <1>17, KindFact DEF AddressFails, callback, history, Kinds
<1>18. CASE CheckEnds
  BY <1>18, KindFact DEF CheckEnds, Close, callback, history, Kinds
<1>19. CASE PutNotConnected
  BY <1>19, KindFact DEF PutNotConnected, callback, history, Kinds
<1>20. CASE Sent
  BY <1>20, KindFact DEF Sent, callback, history, Kinds
<1>21. CASE Received
  BY <1>21, KindFact DEF Received, callback, history, Kinds
<1>22. CASE UNCHANGED vars
  BY <1>22 DEF vars, callback, database, history, Kinds
<1>23. QED
  BY <1>1, <1>2, <1>3, <1>4, <1>5, <1>6, <1>7, <1>8, <1>9, <1>10, <1>11,
     <1>12, <1>13, <1>14, <1>15, <1>16, <1>17, <1>18, <1>19, <1>20, <1>21,
     <1>22 DEF Next, Callback, Database

\* The two threads keep to their numbers.
LEMMA ThreadsStep ==
    ASSUME Threads, [Next]_vars PROVE Threads'
<1>1. CASE Socket
  BY <1>1, NumberFact DEF Socket, Open, Free, database, history, Threads,
                          WithFile, WithSocket
<1>2. CASE SocketFails
  BY <1>2, NumberFact DEF SocketFails, Free, database, history, Threads,
                          WithFile, WithSocket
<1>3. CASE Connected
  BY <1>3, NumberFact DEF Connected, database, history, Threads, WithFile,
                          WithSocket
<1>4. CASE ConnectFails
  BY <1>4, NumberFact DEF ConnectFails, CloseSock, Close, database, Threads,
                          WithFile, WithSocket
<1>5. CASE TalkStrays
  BY <1>5, NumberFact DEF TalkStrays, callback, database, Threads, WithFile,
                          WithSocket
<1>6. CASE TalkFails
  BY <1>6, NumberFact DEF TalkFails, CloseSock, Close, database, Threads,
                          WithFile, WithSocket
<1>7. CASE RoundEnds
  BY <1>7, NumberFact DEF RoundEnds, CloseSock, Close, database, Threads,
                          WithFile, WithSocket
<1>8. CASE OpenDb
  BY <1>8, NumberFact DEF OpenDb, Open, Free, callback, history, Threads,
                          WithFile, WithSocket
<1>9. CASE OpenDbFails
  BY <1>9, NumberFact DEF OpenDbFails, callback, history, Threads, WithFile,
                          WithSocket
<1>10. CASE Stored
  BY <1>10, NumberFact DEF Stored, Close, callback, history, Threads,
                           WithFile, WithSocket
<1>11. CASE NextRow
  BY <1>11, NumberFact DEF NextRow, callback, history, Threads, WithFile,
                           WithSocket
<1>12. CASE NoMoreRows
  BY <1>12, NumberFact DEF NoMoreRows, Close, callback, history, Threads,
                           WithFile, WithSocket
<1>13. CASE RowUnreadable
  BY <1>13, NumberFact DEF RowUnreadable, Leave, callback, history, Threads,
                           WithFile, WithSocket
<1>14. CASE OpenSocket
  BY <1>14, NumberFact DEF OpenSocket, Open, Free, callback, history, Threads,
                           WithFile, WithSocket
<1>15. CASE OpenSocketFails
  BY <1>15, NumberFact DEF OpenSocketFails, GiveUp, Leave, callback, history,
                           Threads, WithFile, WithSocket
<1>16. CASE LookupEnds
  BY <1>16, NumberFact DEF LookupEnds, Close, callback, history, Threads,
                           WithFile, WithSocket
<1>17. CASE AddressFails
  BY <1>17, NumberFact DEF AddressFails, callback, history, Threads, WithFile,
                           WithSocket
<1>18. CASE CheckEnds
  BY <1>18, NumberFact DEF CheckEnds, Close, callback, history, Threads,
                           WithFile, WithSocket
<1>19. CASE PutNotConnected
  BY <1>19, NumberFact DEF PutNotConnected, callback, history, Threads,
                           WithFile, WithSocket
<1>20. CASE Sent
  BY <1>20, NumberFact DEF Sent, callback, history, Threads, WithFile,
                           WithSocket
<1>21. CASE Received
  BY <1>21, NumberFact DEF Received, callback, history, Threads, WithFile,
                           WithSocket
<1>22. CASE UNCHANGED vars
  BY <1>22 DEF vars, callback, database, history, Threads, WithFile,
               WithSocket
<1>23. QED
  BY <1>1, <1>2, <1>3, <1>4, <1>5, <1>6, <1>7, <1>8, <1>9, <1>10, <1>11,
     <1>12, <1>13, <1>14, <1>15, <1>16, <1>17, <1>18, <1>19, <1>20, <1>21,
     <1>22 DEF Next, Callback, Database

\* The flags stay flags.
LEMMA FlagsStep ==
    ASSUME Flags, [Next]_vars PROVE Flags'
<1>1. CASE Socket
  BY <1>1, Zenon DEF Socket, Open, Free, database, history, Flags
<1>2. CASE SocketFails
  BY <1>2, Zenon DEF SocketFails, Free, database, history, Flags
<1>3. CASE Connected
  BY <1>3, Zenon DEF Connected, database, history, Flags
<1>4. CASE ConnectFails
  BY <1>4, Zenon DEF ConnectFails, CloseSock, Close, database, Flags
<1>5. CASE TalkStrays
  BY <1>5, Zenon DEF TalkStrays, callback, database, Flags
<1>6. CASE TalkFails
  BY <1>6, Zenon DEF TalkFails, CloseSock, Close, database, Flags
<1>7. CASE RoundEnds
  BY <1>7, Zenon DEF RoundEnds, CloseSock, Close, database, Flags
<1>8. CASE OpenDb
  BY <1>8, Zenon DEF OpenDb, Open, Free, callback, history, Flags
<1>9. CASE OpenDbFails
  BY <1>9, Zenon DEF OpenDbFails, callback, history, Flags
<1>10. CASE Stored
  BY <1>10, Zenon DEF Stored, Close, callback, history, Flags
<1>11. CASE NextRow
  BY <1>11, Zenon DEF NextRow, callback, history, Flags
<1>12. CASE NoMoreRows
  BY <1>12, Zenon DEF NoMoreRows, Close, callback, history, Flags
<1>13. CASE RowUnreadable
  BY <1>13, Zenon DEF RowUnreadable, Leave, callback, history, Flags
<1>14. CASE OpenSocket
  BY <1>14, Zenon DEF OpenSocket, Open, Free, callback, history, Flags
<1>15. CASE OpenSocketFails
  BY <1>15, Zenon DEF OpenSocketFails, GiveUp, Leave, callback, history, Flags
<1>16. CASE LookupEnds
  BY <1>16, Zenon DEF LookupEnds, Close, callback, history, Flags
<1>17. CASE AddressFails
  BY <1>17, Zenon DEF AddressFails, callback, history, Flags
<1>18. CASE CheckEnds
  BY <1>18, Zenon DEF CheckEnds, Close, callback, history, Flags
<1>19. CASE PutNotConnected
  BY <1>19, Zenon DEF PutNotConnected, callback, history, Flags
<1>20. CASE Sent
  BY <1>20, Zenon DEF Sent, callback, history, Flags
<1>21. CASE Received
  BY <1>21, Zenon DEF Received, callback, history, Flags
<1>22. CASE UNCHANGED vars
  BY <1>22 DEF vars, callback, database, history, Flags
<1>23. QED
  BY <1>1, <1>2, <1>3, <1>4, <1>5, <1>6, <1>7, <1>8, <1>9, <1>10, <1>11,
     <1>12, <1>13, <1>14, <1>15, <1>16, <1>17, <1>18, <1>19, <1>20, <1>21,
     <1>22 DEF Next, Callback, Database

\* Only ConnectFails goes to the end, and it has failed.
LEMMA EndStep ==
    ASSUME EndHasFailed, Threads, [Next]_vars PROVE EndHasFailed'
<1>1. CASE Socket
  BY <1>1 DEF Socket, Open, Free, database, history, EndHasFailed, Threads
<1>2. CASE SocketFails
  BY <1>2 DEF SocketFails, Free, database, history, EndHasFailed, Threads
<1>3. CASE Connected
  BY <1>3 DEF Connected, database, history, EndHasFailed, Threads
<1>4. CASE ConnectFails
  BY <1>4 DEF ConnectFails, CloseSock, Close, database, EndHasFailed, Threads
<1>5. CASE TalkStrays
  BY <1>5 DEF TalkStrays, callback, database, EndHasFailed, Threads
<1>6. CASE TalkFails
  BY <1>6 DEF TalkFails, CloseSock, Close, database, EndHasFailed, Threads
<1>7. CASE RoundEnds
  BY <1>7 DEF RoundEnds, CloseSock, Close, database, EndHasFailed, Threads
<1>8. CASE OpenDb
  BY <1>8 DEF OpenDb, Open, Free, callback, history, EndHasFailed, Threads
<1>9. CASE OpenDbFails
  BY <1>9 DEF OpenDbFails, callback, history, EndHasFailed, Threads
<1>10. CASE Stored
  BY <1>10 DEF Stored, Close, callback, history, EndHasFailed, Threads
<1>11. CASE NextRow
  BY <1>11 DEF NextRow, callback, history, EndHasFailed, Threads
<1>12. CASE NoMoreRows
  BY <1>12 DEF NoMoreRows, Close, callback, history, EndHasFailed, Threads
<1>13. CASE RowUnreadable
  BY <1>13 DEF RowUnreadable, Leave, callback, history, EndHasFailed, Threads
<1>14. CASE OpenSocket
  BY <1>14 DEF OpenSocket, Open, Free, callback, history, EndHasFailed,
               Threads
<1>15. CASE OpenSocketFails
  BY <1>15 DEF OpenSocketFails, GiveUp, Leave, callback, history,
               EndHasFailed, Threads
<1>16. CASE LookupEnds
  BY <1>16 DEF LookupEnds, Close, callback, history, EndHasFailed, Threads
<1>17. CASE AddressFails
  BY <1>17 DEF AddressFails, callback, history, EndHasFailed, Threads
<1>18. CASE CheckEnds
  BY <1>18 DEF CheckEnds, Close, callback, history, EndHasFailed, Threads
<1>19. CASE PutNotConnected
  BY <1>19 DEF PutNotConnected, callback, history, EndHasFailed, Threads
<1>20. CASE Sent
  BY <1>20 DEF Sent, callback, history, EndHasFailed, Threads
<1>21. CASE Received
  BY <1>21 DEF Received, callback, history, EndHasFailed, Threads
<1>22. CASE UNCHANGED vars
  BY <1>22 DEF vars, callback, database, history, EndHasFailed, Threads
<1>23. QED
  BY <1>1, <1>2, <1>3, <1>4, <1>5, <1>6, <1>7, <1>8, <1>9, <1>10, <1>11,
     <1>12, <1>13, <1>14, <1>15, <1>16, <1>17, <1>18, <1>19, <1>20, <1>21,
     <1>22 DEF Next, Callback, Database

\* Neither thread loses a number before the callback closes one that is not
\* its own.
LEMMA OwnStep ==
    ASSUME OwnDescriptors, Kinds, Threads, [Next]_vars PROVE OwnDescriptors'
<1>1. CASE Socket
  BY <1>1, NumberFact DEF Socket, Open, Free, database, history,
                          OwnDescriptors, Kinds, Threads, WithFile, WithSocket
<1>2. CASE SocketFails
  BY <1>2, NumberFact DEF SocketFails, Free, database, history,
                          OwnDescriptors, Kinds, Threads, WithFile, WithSocket
<1>3. CASE Connected
  BY <1>3, NumberFact DEF Connected, database, history, OwnDescriptors, Kinds,
                          Threads, WithFile, WithSocket
<1>4. CASE ConnectFails
  BY <1>4, NumberFact DEF ConnectFails, CloseSock, Close, database,
                          OwnDescriptors, Kinds, Threads, WithFile, WithSocket
<1>5. CASE TalkStrays
  BY <1>5, NumberFact DEF TalkStrays, callback, database, OwnDescriptors,
                          Kinds, Threads, WithFile, WithSocket
<1>6. CASE TalkFails
  BY <1>6, NumberFact DEF TalkFails, CloseSock, Close, database,
                          OwnDescriptors, Kinds, Threads, WithFile, WithSocket
<1>7. CASE RoundEnds
  BY <1>7, NumberFact DEF RoundEnds, CloseSock, Close, database,
                          OwnDescriptors, Kinds, Threads, WithFile, WithSocket
<1>8. CASE OpenDb
  BY <1>8, NumberFact DEF OpenDb, Open, Free, callback, history,
                          OwnDescriptors, Kinds, Threads, WithFile, WithSocket
<1>9. CASE OpenDbFails
  BY <1>9, NumberFact DEF OpenDbFails, callback, history, OwnDescriptors,
                          Kinds, Threads, WithFile, WithSocket
<1>10. CASE Stored
  BY <1>10, NumberFact DEF Stored, Close, callback, history, OwnDescriptors,
                           Kinds, Threads, WithFile, WithSocket
<1>11. CASE NextRow
  BY <1>11, NumberFact DEF NextRow, callback, history, OwnDescriptors, Kinds,
                           Threads, WithFile, WithSocket
<1>12. CASE NoMoreRows
  BY <1>12, NumberFact DEF NoMoreRows, Close, callback, history,
                           OwnDescriptors, Kinds, Threads, WithFile,
                           WithSocket
<1>13. CASE RowUnreadable
  BY <1>13, NumberFact DEF RowUnreadable, Leave, callback, history,
                           OwnDescriptors, Kinds, Threads, WithFile,
                           WithSocket
<1>14. CASE OpenSocket
  BY <1>14, NumberFact DEF OpenSocket, Open, Free, callback, history,
                           OwnDescriptors, Kinds, Threads, WithFile,
                           WithSocket
<1>15. CASE OpenSocketFails
  BY <1>15, NumberFact DEF OpenSocketFails, GiveUp, Leave, callback, history,
                           OwnDescriptors, Kinds, Threads, WithFile,
                           WithSocket
<1>16. CASE LookupEnds
  BY <1>16, NumberFact DEF LookupEnds, Close, callback, history,
                           OwnDescriptors, Kinds, Threads, WithFile,
                           WithSocket
<1>17. CASE AddressFails
  BY <1>17, NumberFact DEF AddressFails, callback, history, OwnDescriptors,
                           Kinds, Threads, WithFile, WithSocket
<1>18. CASE CheckEnds
  BY <1>18, NumberFact DEF CheckEnds, Close, callback, history,
                           OwnDescriptors, Kinds, Threads, WithFile,
                           WithSocket
<1>19. CASE PutNotConnected
  BY <1>19, NumberFact DEF PutNotConnected, callback, history, OwnDescriptors,
                           Kinds, Threads, WithFile, WithSocket
<1>20. CASE Sent
  BY <1>20, NumberFact DEF Sent, callback, history, OwnDescriptors, Kinds,
                           Threads, WithFile, WithSocket
<1>21. CASE Received
  BY <1>21, NumberFact DEF Received, callback, history, OwnDescriptors, Kinds,
                           Threads, WithFile, WithSocket
<1>22. CASE UNCHANGED vars
  BY <1>22 DEF vars, callback, database, history, OwnDescriptors, Kinds,
               Threads, WithFile, WithSocket
<1>23. QED
  BY <1>1, <1>2, <1>3, <1>4, <1>5, <1>6, <1>7, <1>8, <1>9, <1>10, <1>11,
     <1>12, <1>13, <1>14, <1>15, <1>16, <1>17, <1>18, <1>19, <1>20, <1>21,
     <1>22 DEF Next, Callback, Database

\* What is opened is held, and what is let go of is closed or remembered as
\* leaked.
LEMMA CloserStep ==
    ASSUME EveryDescriptorHasACloser, Kinds, Threads, [Next]_vars PROVE EveryDescriptorHasACloser'
<1>1. CASE Socket
  BY <1>1, NumberFact DEF Socket, Open, Free, database, history,
                          EveryDescriptorHasACloser, Kinds, Threads, WithFile,
                          WithSocket
<1>2. CASE SocketFails
  BY <1>2, NumberFact DEF SocketFails, Free, database, history,
                          EveryDescriptorHasACloser, Kinds, Threads, WithFile,
                          WithSocket
<1>3. CASE Connected
  BY <1>3, NumberFact DEF Connected, database, history,
                          EveryDescriptorHasACloser, Kinds, Threads, WithFile,
                          WithSocket
<1>4. CASE ConnectFails
  BY <1>4, NumberFact DEF ConnectFails, CloseSock, Close, database,
                          EveryDescriptorHasACloser, Kinds, Threads, WithFile,
                          WithSocket
<1>5. CASE TalkStrays
  BY <1>5, NumberFact DEF TalkStrays, callback, database,
                          EveryDescriptorHasACloser, Kinds, Threads, WithFile,
                          WithSocket
<1>6. CASE TalkFails
  BY <1>6, NumberFact DEF TalkFails, CloseSock, Close, database,
                          EveryDescriptorHasACloser, Kinds, Threads, WithFile,
                          WithSocket
<1>7. CASE RoundEnds
  BY <1>7, NumberFact DEF RoundEnds, CloseSock, Close, database,
                          EveryDescriptorHasACloser, Kinds, Threads, WithFile,
                          WithSocket
<1>8. CASE OpenDb
  BY <1>8, NumberFact DEF OpenDb, Open, Free, callback, history,
                          EveryDescriptorHasACloser, Kinds, Threads, WithFile,
                          WithSocket
<1>9. CASE OpenDbFails
  BY <1>9, NumberFact DEF OpenDbFails, callback, history,
                          EveryDescriptorHasACloser, Kinds, Threads, WithFile,
                          WithSocket
<1>10. CASE Stored
  BY <1>10, NumberFact DEF Stored, Close, callback, history,
                           EveryDescriptorHasACloser, Kinds, Threads,
                           WithFile, WithSocket
<1>11. CASE NextRow
  BY <1>11, NumberFact DEF NextRow, callback, history,
                           EveryDescriptorHasACloser, Kinds, Threads,
                           WithFile, WithSocket
<1>12. CASE NoMoreRows
  BY <1>12, NumberFact DEF NoMoreRows, Close, callback, history,
                           EveryDescriptorHasACloser, Kinds, Threads,
                           WithFile, WithSocket
<1>13. CASE RowUnreadable
  BY <1>13, NumberFact DEF RowUnreadable, Leave, callback, history,
                           EveryDescriptorHasACloser, Kinds, Threads,
                           WithFile, WithSocket
<1>14. CASE OpenSocket
  BY <1>14, NumberFact DEF OpenSocket, Open, Free, callback, history,
                           EveryDescriptorHasACloser, Kinds, Threads,
                           WithFile, WithSocket
<1>15. CASE OpenSocketFails
  BY <1>15, NumberFact DEF OpenSocketFails, GiveUp, Leave, callback, history,
                           EveryDescriptorHasACloser, Kinds, Threads,
                           WithFile, WithSocket
<1>16. CASE LookupEnds
  BY <1>16, NumberFact DEF LookupEnds, Close, callback, history,
                           EveryDescriptorHasACloser, Kinds, Threads,
                           WithFile, WithSocket
<1>17. CASE AddressFails
  BY <1>17, NumberFact DEF AddressFails, callback, history,
                           EveryDescriptorHasACloser, Kinds, Threads,
                           WithFile, WithSocket
<1>18. CASE CheckEnds
  BY <1>18, NumberFact DEF CheckEnds, Close, callback, history,
                           EveryDescriptorHasACloser, Kinds, Threads,
                           WithFile, WithSocket
<1>19. CASE PutNotConnected
  BY <1>19, NumberFact DEF PutNotConnected, callback, history,
                           EveryDescriptorHasACloser, Kinds, Threads,
                           WithFile, WithSocket
<1>20. CASE Sent
  BY <1>20, NumberFact DEF Sent, callback, history, EveryDescriptorHasACloser,
                           Kinds, Threads, WithFile, WithSocket
<1>21. CASE Received
  BY <1>21, NumberFact DEF Received, callback, history,
                           EveryDescriptorHasACloser, Kinds, Threads,
                           WithFile, WithSocket
<1>22. CASE UNCHANGED vars
  BY <1>22 DEF vars, callback, database, history, EveryDescriptorHasACloser,
               Kinds, Threads, WithFile, WithSocket
<1>23. QED
  BY <1>1, <1>2, <1>3, <1>4, <1>5, <1>6, <1>7, <1>8, <1>9, <1>10, <1>11,
     <1>12, <1>13, <1>14, <1>15, <1>16, <1>17, <1>18, <1>19, <1>20, <1>21,
     <1>22 DEF Next, Callback, Database

IInv ==
    /\ Kinds /\ Threads /\ Flags
    /\ EndHasFailed /\ OwnDescriptors /\ EveryDescriptorHasACloser

LEMMA InitInv == Init => IInv
<1> SUFFICES ASSUME Init PROVE IInv
  OBVIOUS
<1>1. Kinds
  BY KindFact DEF Init, Kinds
<1>2. Threads
  BY DEF Init, Threads, WithFile, WithSocket, None
<1>3. Flags
  BY Zenon DEF Init, Flags
<1>4. EndHasFailed /\ OwnDescriptors /\ EveryDescriptorHasACloser
  BY DEF Init, EndHasFailed, OwnDescriptors, EveryDescriptorHasACloser
<1>5. QED
  BY <1>1, <1>2, <1>3, <1>4 DEF IInv

LEMMA StepInv == IInv /\ [Next]_vars => IInv'
  BY KindsStep, ThreadsStep, FlagsStep, EndStep, OwnStep, CloserStep DEF IInv

LEMMA Inductive == Spec => []IInv
  BY InitInv, StepInv, PTL DEF Spec

\* Every state is well typed, for any table of descriptors: the database thread
\* has a number exactly between the open and the close, on all its ways out.
THEOREM TypeCorrect == Spec => []TypeOK
<1>1. IInv => TypeOK
  BY Split DEF IInv
<1>2. QED
  BY <1>1, Inductive, PTL

\* Until the callback closes a number that is not its own (ble_data_acq), each
\* thread's numbers stand for what it opened.
THEOREM OwnDescriptorsHolds == Spec => []OwnDescriptors
<1>1. IInv => OwnDescriptors
  BY DEF IInv
<1>2. QED
  BY <1>1, Inductive, PTL

\* Whatever is open is held by a thread or was left behind by sync_hx_data,
\* send_http_request_to_dynamodb or resolve_ip; the callback leaves nothing.
THEOREM EveryDescriptorHasACloserHolds == Spec => []EveryDescriptorHasACloser
<1>1. IInv => EveryDescriptorHasACloser
  BY DEF IInv
<1>2. QED
  BY <1>1, Inductive, PTL

\* The flags are raised only by the three closes of the callback and by its
\* writes, and in a round without a failure its number is still its socket.
LEMMA WrongUseStep ==
    ASSUME IInv, [Next]_vars, ~wrongClose, wrongClose' \/ (~strayed /\ strayed')
    PROVE  failed
<1> USE DEF IInv
<1>1. ASSUME bpc \in {"connecting", "round", "end"}, CloseSock, wrongClose'
      PROVE  failed
  BY <1>1, KindFact DEF CloseSock, OwnDescriptors, EndHasFailed
<1>2. CASE Callback
  <2>1. CASE ConnectFails \/ TalkFails \/ RoundEnds
    <3>1. CloseSock /\ bpc \in {"connecting", "round", "end"}
      BY <2>1 DEF ConnectFails, TalkFails, RoundEnds
    <3>2. strayed' = strayed
      BY <3>1 DEF CloseSock
    <3>3. QED
      BY <3>1, <3>2, <1>1
  <2>2. CASE TalkStrays
    BY <2>2 DEF TalkStrays, OwnDescriptors
  <2>3. CASE Socket \/ SocketFails \/ Connected
    BY <2>3 DEF Socket, SocketFails, Connected, history
  <2>4. QED
    BY <1>2, <2>1, <2>2, <2>3 DEF Callback
<1>3. CASE Database
  BY <1>3 DEF Database, OpenDb, OpenDbFails, Stored, NextRow, NoMoreRows,
       RowUnreadable, OpenSocket, OpenSocketFails, LookupEnds, AddressFails,
       CheckEnds, PutNotConnected, Sent, Received, history
<1>4. CASE UNCHANGED vars
  BY <1>4 DEF vars, history
<1>5. QED
  BY <1>2, <1>3, <1>4 DEF Next

\* The callback (ble_data_acq) first closes a number of the database thread, or
\* writes to one, in a round one of whose calls has failed.
THEOREM WrongUseHolds == Spec => WrongUseNeedsAFailure
<1>1. IInv /\ [Next]_vars
        => [~wrongClose /\ (wrongClose' \/ (~strayed /\ strayed')) => failed]_vars
  BY WrongUseStep
<1>2. QED
  BY <1>1, Inductive, PTL DEF Spec, WrongUseNeedsAFailure

\* As long as no call of the callback fails, every command is written to the
\* core module, however the database thread opens and closes meanwhile.
THEOREM WritesHoldUntilAFailure == Spec /\ []~failed => []WritesGoToTheCoreModule
<1>1. Init => ~wrongClose /\ ~strayed
  BY DEF Init
<1>2. IInv /\ [Next]_vars /\ ~failed /\ ~wrongClose /\ ~strayed
        => ~wrongClose' /\ ~strayed'
  BY WrongUseStep
<1>3. QED
  BY <1>1, <1>2, Inductive, PTL DEF Spec, WritesGoToTheCoreModule
=============================================================================
