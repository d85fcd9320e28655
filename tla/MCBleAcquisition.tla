--------------------------- MODULE MCBleAcquisition ---------------------------
(* Instances of BleAcquisition for TLC. *)
EXTENDS BleAcquisition

\* Two readable probes, so that answers can be taken for one another, and
\* one probe of each kind that is not read.
MixedProbes == <<"02", "02", "03", "other">>
TwoProbes == <<"02", "02">>

\* The two handles with other characteristics between and after them.
UsualChars == <<"short", "read", "other", "write", "odd">>

\* A core module with no trait, and one with each.
AllKinds == {{}, {"clears"}, {"repeats"}, {"cuts"}}
=============================================================================
