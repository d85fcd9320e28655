------------------------------ MODULE Descriptors ------------------------------
(***************************************************************************)
(* The table of descriptors the two threads of the process share.  The     *)
(* callback keeps the number of its L2CAP socket in sock and closes it     *)
(* when a call fails, uses it on, and closes it once more at the end of    *)
(* the round (src/src/ble_data_acq.c).  Meanwhile the database thread      *)
(* opens and closes the database and its sockets, and each open takes the  *)
(* lowest number that is free.                                             *)
(*                                                                         *)
(* BleAcquisition, DbHandler and HttpExchange say when the threads do      *)
(* these things; here they may do them in any round and for any row.  A    *)
(* process that dies starts again from Init.                               *)
(***************************************************************************)
EXTENDS Integers

CONSTANT Numbers    \* the descriptors left to these uses

ASSUME NumbersAssumption == Numbers \subseteq Nat

None == -1
Files == {"free", "ble", "file", "http"}

VARIABLES
    fd,         \* what each number stands for
    leaked,     \* numbers that are open and forgotten
    bpc,        \* callback: where ble_data_acq stands
    sock,       \* callback: the number of its socket, also when it is closed
    failed,     \* history: a call of this round has failed
    dpc,        \* database thread: where it stands
    use,        \* database thread: what its socket is for
    file,       \* database thread: the number of the open database
    http,       \* database thread: the number of its socket
    wrongClose, \* history: the callback has closed a number of the other thread
    strayed     \* history: and written to one

callback == <<bpc, sock, failed>>
database == <<dpc, use, file, http>>
history == <<wrongClose, strayed>>
vars == <<fd, leaked, callback, database, history>>

Init ==
    /\ fd = [n \in Numbers |-> "free"] /\ leaked = {}
    /\ bpc = "idle" /\ sock = None /\ failed = FALSE
    /\ dpc = "idle" /\ use = "check" /\ file = None /\ http = None
    /\ wrongClose = FALSE /\ strayed = FALSE

Free == {n \in Numbers : fd[n] = "free"}

Open(n, what) ==
    /\ n \in Free /\ \A m \in Free : n <= m
    /\ fd' = [fd EXCEPT ![n] = what]

\* Whatever the number stands for is closed, or nothing if it is free.
Close(n) ==
    /\ fd' = [m \in Numbers |-> IF m = n THEN "free" ELSE fd[m]]
    /\ leaked' = leaked \ {n}

-----------------------------------------------------------------------------
(* The callback. *)

Socket ==
    /\ bpc = "idle"
    /\ \E n \in Numbers : Open(n, "ble") /\ sock' = n
    /\ bpc' = "connecting" /\ failed' = FALSE
    /\ UNCHANGED <<leaked, database, history>>

\* No number is free: sock is -1, and that is closed twice.
SocketFails ==
    /\ bpc = "idle" /\ Free = {}
    /\ sock' = None /\ failed' = TRUE
    /\ UNCHANGED <<fd, leaked, bpc, database, history>>

Connected ==
    /\ bpc = "connecting"
    /\ bpc' = "round"
    /\ UNCHANGED <<fd, leaked, sock, failed, database, history>>

CloseSock ==
    /\ Close(sock)
    /\ wrongClose' = (wrongClose \/ (sock \in Numbers /\ fd[sock] \in {"file", "http"}))
    /\ UNCHANGED <<sock, database, strayed>>

\* A plausible bug: a refused connection leaves the socket to the caller, and
\* the caller to connect_ble.
ConnectFailsOpen ==
    /\ bpc = "connecting"
    /\ bpc' = "idle" /\ failed' = TRUE
    /\ UNCHANGED <<fd, leaked, sock, database, history>>

\* connect_ble closes the socket, and ble_data_acq will once more.
ConnectFails ==
    /\ bpc = "connecting"
    /\ CloseSock
    /\ bpc' = "end" /\ failed' = TRUE

\* write_ble_data while the number is another file's: the command is written
\* there.  A call that reaches the core module changes nothing here.
TalkStrays ==
    /\ bpc = "round" /\ fd[sock] \in {"file", "http"}
    /\ strayed' = TRUE
    /\ UNCHANGED <<fd, leaked, callback, database, wrongClose>>

\* A write or a read fails, as the link does, the number is free, or the file
\* it stands for now refuses: it is closed, and the round goes on.
TalkFails ==
    /\ bpc = "round"
    /\ CloseSock
    /\ failed' = TRUE
    /\ UNCHANGED bpc

\* A plausible bug: the way out on success runs on into the one on failure.
RoundEndsTwice ==
    /\ bpc \in {"round", "end"}
    /\ CloseSock
    /\ bpc' = IF bpc = "round" THEN "end" ELSE "idle"
    /\ UNCHANGED failed

RoundEnds ==
    /\ bpc \in {"round", "end"}
    /\ CloseSock
    /\ bpc' = "idle"
    /\ UNCHANGED failed

-----------------------------------------------------------------------------
(* The database thread: the local table. *)

\* write_sqlite_hx_data, and sync_hx_data once the internet was checked.
OpenDb ==
    /\ dpc \in {"idle", "online"}
    /\ \E n \in Numbers : Open(n, "file") /\ file' = n
    /\ dpc' = IF dpc = "idle" THEN "store" ELSE "rows"
    /\ UNCHANGED <<leaked, use, http, callback, history>>

OpenDbFails ==
    /\ dpc \in {"idle", "online"}
    /\ dpc' \in (IF dpc = "idle" THEN {"idle", "resolve"} ELSE {"idle"})
    /\ use' = "check"
    /\ UNCHANGED <<fd, leaked, file, http, callback, history>>

\* A plausible bug: an error of the query leaves the database open.
StoredLeavesOpen ==
    /\ dpc = "store"
    /\ \/ Close(file) /\ file' = None
       \/ UNCHANGED <<fd, leaked, file>>
    /\ dpc' \in {"idle", "resolve"} /\ use' = "check"
    /\ UNCHANGED <<http, callback, history>>

\* The reading is stored or not, and an upload is tried or not.
Stored ==
    /\ dpc = "store"
    /\ Close(file) /\ file' = None
    /\ dpc' \in {"idle", "resolve"} /\ use' = "check"
    /\ UNCHANGED <<http, callback, history>>

NextRow ==
    /\ dpc = "rows"
    /\ dpc' = "resolve" /\ use' = "put"
    /\ UNCHANGED <<fd, leaked, file, http, callback, history>>

NoMoreRows ==
    /\ dpc = "rows"
    /\ Close(file) /\ file' = None
    /\ dpc' = "idle"
    /\ UNCHANGED <<use, http, callback, history>>

\* sync_hx_data returns without closing the database.
Leave ==
    /\ leaked' = leaked \cup {file} /\ file' = None
    /\ dpc' = "idle"

RowUnreadable ==
    /\ dpc = "rows"
    /\ Leave
    /\ UNCHANGED <<fd, use, http, callback, history>>

-----------------------------------------------------------------------------
(* The database thread: its sockets. *)

\* resolve_ip, the connection of check_internet, and that of an upload.
OpenSocket ==
    /\ dpc \in {"resolve", "connect"}
    /\ \E n \in Numbers : Open(n, "http") /\ http' = n
    /\ dpc' = IF dpc = "resolve" THEN "lookup"
              ELSE IF use = "put" THEN "put" ELSE "check"
    /\ UNCHANGED <<leaked, use, file, callback, history>>

\* No address, no number, or a check that fails.
GiveUp == IF use = "put" THEN Leave ELSE dpc' = "idle" /\ UNCHANGED <<leaked, file>>

OpenSocketFails ==
    /\ dpc \in {"resolve", "connect"}
    /\ GiveUp
    /\ UNCHANGED <<fd, use, http, callback, history>>

\* The address works; or it is the last, and the connection is not tried.
LookupEnds ==
    /\ dpc = "lookup"
    /\ Close(http) /\ http' = None
    /\ dpc' = "connect"
    /\ UNCHANGED <<use, file, callback, history>>

\* An address passed over, its socket forgotten.
AddressFails ==
    /\ dpc = "lookup"
    /\ leaked' = leaked \cup {http} /\ http' = None
    /\ dpc' = "resolve"
    /\ UNCHANGED <<fd, use, file, callback, history>>

\* A plausible bug: the check closes its socket where it fails and again on
\* its common way out.
CheckEndsTwice ==
    /\ dpc = "check"
    /\ Close(http)
    /\ \/ fd[http] # "free" /\ UNCHANGED <<dpc, http>>
       \/ dpc' \in {"online", "idle"} /\ http' = None
    /\ UNCHANGED <<use, file, callback, history>>

\* check_internet ends, connected or not.
CheckEnds ==
    /\ dpc = "check"
    /\ Close(http) /\ http' = None
    /\ dpc' \in {"online", "idle"}
    /\ UNCHANGED <<use, file, callback, history>>

\* connect fails under an upload: its socket is forgotten, and the database.
PutNotConnected ==
    /\ dpc = "put"
    /\ leaked' = leaked \cup {file, http}
    /\ file' = None /\ http' = None /\ dpc' = "idle"
    /\ UNCHANGED <<fd, use, callback, history>>

\* The send loop ends once its writes succeed, whatever they are written to;
\* while the number is free it turns for ever.
Sent ==
    /\ dpc = "put" /\ fd[http] # "free"
    /\ dpc' = "recv"
    /\ UNCHANGED <<fd, leaked, use, file, http, callback, history>>

\* The upload succeeded, and the next row is read; or it did not.
Received ==
    /\ dpc = "recv"
    /\ fd' = [m \in Numbers |-> IF m = http THEN "free" ELSE fd[m]]
    /\ http' = None
    /\ \/ dpc' = "rows" /\ leaked' = leaked \ {http} /\ UNCHANGED file
       \/ dpc' = "idle" /\ leaked' = (leaked \cup {file}) \ {http} /\ file' = None
    /\ UNCHANGED <<use, callback, history>>

Callback ==
    \/ Socket \/ SocketFails \/ Connected \/ ConnectFails
    \/ TalkStrays \/ TalkFails \/ RoundEnds
Database ==
    \/ OpenDb \/ OpenDbFails \/ Stored \/ NextRow \/ NoMoreRows \/ RowUnreadable
    \/ OpenSocket \/ OpenSocketFails \/ LookupEnds \/ AddressFails
    \/ CheckEnds \/ PutNotConnected \/ Sent \/ Received

Next == Callback \/ Database

Spec == Init /\ [][Next]_vars

-----------------------------------------------------------------------------
(* Properties. *)

WithFile == {"store", "rows"}
WithSocket == {"lookup", "check", "put", "recv"}

Flags == failed \in BOOLEAN /\ wrongClose \in BOOLEAN /\ strayed \in BOOLEAN

\* The type invariant; the database thread has a number just where it is
\* between the open and the close.
TypeOK ==
    /\ fd \in [Numbers -> Files]
    /\ leaked \subseteq Numbers
    /\ bpc \in {"idle", "connecting", "round", "end"}
    /\ sock \in Numbers \cup {None} /\ (bpc # "idle" => sock \in Numbers)
    /\ dpc \in {"idle", "online", "resolve", "connect"} \cup WithFile \cup WithSocket
    /\ use \in {"check", "put"}
    /\ (dpc \in {"put", "recv"} => use = "put") /\ (dpc = "check" => use = "check")
    /\ file \in Numbers \cup {None} /\ http \in Numbers \cup {None}
    /\ (file # None) <=> (dpc \in WithFile \/ (use = "put" /\
                            dpc \in WithSocket \cup {"resolve", "connect"}))
    /\ (http # None) <=> dpc \in WithSocket
    /\ Flags

\* Until the callback closes a number that is not its own, each thread's
\* numbers stand for what it opened, the callback's until a call fails.
OwnDescriptors ==
    ~wrongClose =>
      /\ file # None => fd[file] = "file"
      /\ http # None => fd[http] = "http"
      /\ bpc \in {"connecting", "round"} /\ ~failed => fd[sock] = "ble"

\* The callback first closes a number of the other thread, or writes to one, in
\* a round whose link has failed, when the other thread was given its number
\* in between.
WrongUseNeedsAFailure ==
    [][~wrongClose /\ (wrongClose' \/ (~strayed /\ strayed')) => failed]_vars

\* Whatever the two threads close of each other, every descriptor that is open
\* is one a thread still has the number of, or one that was left behind.
EveryDescriptorHasACloser ==
    \A n \in Numbers :
      /\ fd[n] = "ble" => bpc # "idle" /\ sock = n
      /\ fd[n] = "file" => n = file \/ n \in leaked
      /\ fd[n] = "http" => n = http \/ n \in leaked

\* A command is written to the core module.
WritesGoToTheCoreModule == ~strayed
=============================================================================
