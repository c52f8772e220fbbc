------------------------- MODULE MCInjectionRecords -------------------------
(* Model values for InjectionRecords: see the bounds in README.md.         *)
EXTENDS InjectionRecords
=============================================================================
