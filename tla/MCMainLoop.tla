------------------------------ MODULE MCMainLoop ------------------------------
(* Three ticks to a second and a round every second second: a call may come   *)
(* late by less than a second, and three rounds fit into the time modelled.   *)
EXTENDS MainLoop
=============================================================================
