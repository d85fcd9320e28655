------------------------------- MODULE PutItem -------------------------------
(***************************************************************************)
(* What one upload of a reading promises db_data_handler: a verdict that   *)
(* is ok only if the response buffer holds a success, and a buffer that    *)
(* gets a success only from a service that has applied the request.  What  *)
(* the buffer held before the request is not promised to be gone.          *)
(***************************************************************************)

VARIABLES
    phase,      \* "idle" or "busy"
    applied,    \* the service has put the item
    resp,       \* what the response buffer holds
    verdict     \* what the caller was told

vars == <<phase, applied, resp, verdict>>

Init == phase = "idle" /\ applied = FALSE /\ resp = "unset" /\ verdict = "none"

\* A request begins, or the process does something else: calls made since the
\* last request may have overwritten the buffer.
Begin ==
    /\ phase = "idle" /\ phase' \in {"busy", "idle"}
    /\ applied' = FALSE /\ verdict' = "none"
    /\ resp' \in {resp, "unset"}

\* The service may be late: the caller may be gone already.
Apply ==
    /\ applied' = TRUE
    /\ UNCHANGED <<phase, resp, verdict>>

Receive ==
    /\ phase = "busy"
    /\ \/ resp' = "error"
       \/ resp' = "ok" /\ applied
    /\ UNCHANGED <<phase, applied, verdict>>

Finish ==
    /\ phase = "busy" /\ phase' = "idle"
    /\ \/ verdict' = "fail"
       \/ verdict' = "ok" /\ resp = "ok"
    /\ UNCHANGED <<applied, resp>>

\* The process dies with the request.
Die ==
    /\ phase = "busy" /\ phase' = "idle"
    /\ UNCHANGED <<applied, resp, verdict>>

Next == Begin \/ Apply \/ Receive \/ Finish \/ Die

Spec == Init /\ [][Next]_vars
=============================================================================
