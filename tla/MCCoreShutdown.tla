--------------------------- MODULE MCCoreShutdown ---------------------------
(* Model values for CoreShutdown: see the bounds in README.md.             *)
EXTENDS CoreShutdown

MCConfigurations == {{0}, {1}, {2}, {2, 3}}
MCMaxCalls ==
  [c \in MCConfigurations |-> CASE c = {0} -> 0 [] c = {2, 3} -> 1
                                [] OTHER -> 2]
=============================================================================
