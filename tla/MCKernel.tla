------------------------------ MODULE MCKernel ------------------------------
(* Values of the kernel's constants for TLC. *)
EXTENDS KernelPropiedades

UnaInstancia == [r \in Recursos |-> 1]

\* Bounds of KernelSobreasigna: the planner is started first, and the process that
\* FINALIZAR_PROCESO finds is blocked.  What TLC finds within them is found without.
SoloBloqueados ==
  /\ proximo > 0 => existe
  /\ pc["consola"] = "elimina" => orden.leido = "BLOQUEADO"
=============================================================================
