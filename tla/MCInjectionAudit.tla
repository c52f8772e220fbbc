-------------------------- MODULE MCInjectionAudit --------------------------
(* Model values for InjectionAudit: see the bounds in README.md.           *)
EXTENDS InjectionAudit

(* The table is not read while a thread works on its record: neither looks *)
(* at what the other does.                                                 *)
ReadsApart == \/ pos = 0 /\ ~tested
              \/ \A p \in Proc, w \in Worker : work[p][w] = "idle"
=============================================================================
