---------------------------- MODULE CicloDeVida ----------------------------
(***************************************************************************)
(* What the kernel promises about processes, without threads, queues or    *)
(* semaphores: the five-state life cycle, one CPU, a bounded degree of     *)
(* multiprogramming and admission in order of arrival.                     *)
(***************************************************************************)
EXTENDS Integers, FiniteSets

CONSTANTS N, Grado

VARIABLE etapa     \* the stage of each pid

Procesos == 0 .. N - 1
En(e) == {p \in Procesos : etapa[p] = e}
Admitidos == En("listo") \cup En("ejecutando") \cup En("bloqueado")

Pasar(p, desde, hasta) == etapa[p] = desde /\ etapa' = [etapa EXCEPT ![p] = hasta]

Init == etapa = [p \in Procesos |-> "inexistente"]

\* Pids are given in order.
Crear(p) ==
  /\ Pasar(p, "inexistente", "nuevo")
  /\ \A q \in 0 .. p - 1 : etapa[q] # "inexistente"

\* The oldest of NEW, and only while the degree allows one more.
Admitir(p) ==
  /\ Pasar(p, "nuevo", "listo")
  /\ \A q \in En("nuevo") : p <= q
  /\ Cardinality(Admitidos) < Grado

Despachar(p) == Pasar(p, "listo", "ejecutando") /\ En("ejecutando") = {}
Desalojar(p) == Pasar(p, "ejecutando", "listo")
Bloquear(p) == Pasar(p, "ejecutando", "bloqueado")
Despertar(p) == Pasar(p, "bloqueado", "listo")
Terminar(p) == Pasar(p, "ejecutando", "terminado")
Liberar(p) == Pasar(p, "terminado", "liberado")

Next == \E p \in Procesos :
          \/ Crear(p) \/ Admitir(p) \/ Despachar(p) \/ Desalojar(p)
          \/ Bloquear(p) \/ Despertar(p) \/ Terminar(p) \/ Liberar(p)

Spec == Init /\ [][Next]_etapa
=============================================================================
