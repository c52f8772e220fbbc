--------------------------- MODULE MCHookLifecycle ---------------------------
(* Model values for HookLifecycle: see the bounds in README.md.            *)
EXTENDS HookLifecycle
=============================================================================
