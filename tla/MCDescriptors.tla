----------------------------- MODULE MCDescriptors -----------------------------
(* Four numbers: one for the callback, two for the database thread, and one   *)
(* to leak before the table is full.                                          *)
EXTENDS Descriptors

MCNumbers == 3..6
=============================================================================
