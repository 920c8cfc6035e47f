----------------------------- MODULE MCInterfaz -----------------------------
(* An interface and its kernel thread for TLC. *)
EXTENDS InterfazPropiedades

\* One process over the disk, a queue of them where the interface keeps no state.
MCPids == [t \in Tipos |-> IF t = "DIALFS" THEN 1 ELSE N]
=============================================================================
