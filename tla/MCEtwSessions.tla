---------------------------- MODULE MCEtwSessions ----------------------------
(* Model values for EtwSessions: see the bounds in README.md.              *)
EXTENDS EtwSessions
=============================================================================
