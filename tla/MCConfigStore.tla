----------------------------- MODULE MCConfigStore -----------------------------
(* Two core modules, two published versions, one edit, two starts.           *)
EXTENDS ConfigStore

CONSTANTS m1, m2
MCModules == {m1, m2}
=============================================================================
