------------------------------- MODULE Outbox -------------------------------
(***************************************************************************)
(* What the store-and-forward half of the gateway promises: readings are   *)
(* put into a durable store in the order they were taken, copied to the    *)
(* cloud in that order, and confirmed in that order, each only once its    *)
(* copy is in the cloud.  The abstraction of DbHandler.                    *)
(***************************************************************************)
EXTENDS Naturals, Sequences

CONSTANT Readings   \* readings are numbered in the order they are taken

VARIABLES
    stored,      \* the readings in the store, in the order they came
    confirmed,   \* the places in stored whose reading is known to be copied
    cloud        \* the readings that have a copy in the cloud

vars == <<stored, confirmed, cloud>>

Init == stored = <<>> /\ confirmed = {} /\ cloud = {}

\* id is the oldest stored reading that is not confirmed yet.
Oldest(id) ==
    /\ id \in DOMAIN stored \ confirmed
    /\ \A other \in DOMAIN stored \ confirmed : id <= other

\* A reading later than every stored one enters the store.
Store(n) ==
    /\ \A id \in DOMAIN stored : stored[id] < n
    /\ stored' = Append(stored, n)
    /\ UNCHANGED <<confirmed, cloud>>

\* The oldest unconfirmed reading is copied, perhaps again.
Upload(id) ==
    /\ Oldest(id)
    /\ cloud' = cloud \cup {stored[id]}
    /\ UNCHANGED <<stored, confirmed>>

\* The oldest unconfirmed reading is confirmed, its copy being there.
Confirm(id) ==
    /\ Oldest(id)
    /\ stored[id] \in cloud
    /\ confirmed' = confirmed \cup {id}
    /\ UNCHANGED <<stored, cloud>>

Next ==
    \/ \E n \in Readings : Store(n)
    \/ \E id \in DOMAIN stored : Upload(id) \/ Confirm(id)

Spec == Init /\ [][Next]_vars
=============================================================================
