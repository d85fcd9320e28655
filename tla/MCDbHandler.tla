----------------------------- MODULE MCDbHandler -----------------------------
(* Instances of DbHandler for TLC. *)
EXTENDS DbHandler

\* The service answers or is known to be unreachable, and keeps its
\* connections open.
AnsweringOutcomes == {"accepted", "rejected", "refused"}

\* Requests or answers may also be lost.
SilentOutcomes == AnsweringOutcomes \cup {"unanswered", "lost"}
=============================================================================
