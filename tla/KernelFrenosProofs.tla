------------------------- MODULE KernelFrenosProofs -------------------------
(***************************************************************************)
(* The permits of a pause are conserved (FrenosConservados), for every     *)
(* value of the constants.                                                 *)
(*                                                                         *)
(* FrenosConservados is not inductive alone: the first                     *)
(* iniciar_planificacion puts the planner threads at their start, which    *)
(* keeps the four equations only if they were outside every section.       *)
(* IFrenos adds that (SinPlanificador) and the types of what the equations *)
(* add up.  One lemma per action; the actions that touch no permit and     *)
(* move no planner thread across the edge of a section follow from         *)
(* FrenosIguales.                                                          *)
(*                                                                         *)
(* A pause freezes the planner (PausaCongela), for every value of the      *)
(* constants.                                                              *)
(*                                                                         *)
(* With IFrenos, a stopped planner has no free permit and no thread inside *)
(* a section; with ITipo, the interfaces and the console push only to      *)
(* queues other than EXEC.  Each action is then either disabled or leaves  *)
(* COLA_EXEC, procesos_en_multiprogramacion and lista_pcb alone.           *)
(***************************************************************************)
EXTENDS KernelTipoProofs

USE DEF datosVars, pcbVars, gradoVars, pausaVars, interrupcionVars, recursoVars,
        hiloVars, consolaVars, historiaVars

\* The four equations of FrenosConservados, one by one.
LEMMA Ecuaciones ==
  FrenosConservados <=>
    /\ plan["new"] + Uno(pc["new"] \in {"saca", "listo"}) + Uno(bloqueado) = 1 + parando["new"]
    /\ plan["exit"] + Uno(pc["exit"] \in {"toma", "libera", "cuenta"}) + Uno(bloqueado)
         = 1 + parando["exit"]
    /\ plan["ready"] + Uno(pc["corto"] \notin {"apagado", "permiso"}) + Uno(bloqueado)
         = 1 + parando["ready"]
    /\ plan["exec"] + Uno(pc["corto"] \in {"termina", "recurso"}) + Uno(bloqueado)
         = 1 + parando["exec"]
BY DEF FrenosConservados, Frenos, Dentro

\* The same after a step.
LEMMA EcuacionesP ==
  FrenosConservados' <=>
    /\ plan'["new"] + Uno(pc'["new"] \in {"saca", "listo"}) + Uno(bloqueado') = 1 + parando'["new"]
    /\ plan'["exit"] + Uno(pc'["exit"] \in {"toma", "libera", "cuenta"}) + Uno(bloqueado')
         = 1 + parando'["exit"]
    /\ plan'["ready"] + Uno(pc'["corto"] \notin {"apagado", "permiso"}) + Uno(bloqueado')
         = 1 + parando'["ready"]
    /\ plan'["exec"] + Uno(pc'["corto"] \in {"termina", "recurso"}) + Uno(bloqueado')
         = 1 + parando'["exec"]
BY DEF FrenosConservados, Frenos, Dentro, Uno

\* The planner threads, the console and the interfaces are different threads.
LEMMA HilosDistintos ==
  /\ {"new", "exit", "corto", "consola"} \subseteq Hilos
  /\ \A i \in Interfaces : i \in Hilos /\ i \notin {"new", "exit", "corto", "consola"}
BY NombresAssumption DEF Hilos

\* Steps that touch no permit and do not take a planner thread into or out of a section.
LEMMA FrenosIguales ==
  ASSUME IFrenos, UNCHANGED pausaVars, pc' \in [Hilos -> Etiquetas],
         \A h \in {"new", "exit", "corto"} :
            \/ pc'[h] = pc[h]
            \/ /\ pc[h] # "apagado" /\ pc'[h] # "apagado"
               /\ \/ h = "new" /\ pc[h] \notin {"saca", "listo"} /\ pc'[h] \notin {"saca", "listo"}
                  \/ h = "new" /\ pc[h] \in {"saca", "listo"} /\ pc'[h] \in {"saca", "listo"}
                  \/ h = "exit" /\ pc[h] \in {"toma", "libera", "cuenta"} /\ pc'[h] \in {"toma", "libera", "cuenta"}
                  \/ h = "corto" /\ pc[h] \notin {"apagado", "permiso", "termina", "recurso"}
                                 /\ pc'[h] \notin {"apagado", "permiso", "termina", "recurso"}
  PROVE  IFrenos'
<1>1. TipoPausa' /\ SinPlanificador' /\ pc' \in [Hilos -> Etiquetas]
  BY DEF IFrenos, TipoPausa, SinPlanificador
<1>2. FrenosConservados'
  BY Ecuaciones, EcuacionesP DEF Uno, IFrenos, TipoPausa
<1> QED BY <1>1, <1>2 DEF IFrenos

\* IFrenos is kept when manejar_new takes the permits of procesos_en_new and
\* sem_planificacion_new.
LEMMA FNewPermiso == IFrenos /\ NewPermiso => IFrenos'
<1> SUFFICES ASSUME IFrenos, NewPermiso, ~ UNCHANGED <<pausaVars, pc>> PROVE IFrenos'
  BY FrenosIguales DEF IFrenos, TipoPausa
<1>1. /\ pc["new"] = "permiso" /\ plan["new"] > 0 /\ pc' = [pc EXCEPT !["new"] = "saca"]
      /\ plan' = [plan EXCEPT !["new"] = @ - 1]
      /\ UNCHANGED <<parando, existe, bloqueado>>
  BY DEF NewPermiso, Turno, Ir
<1>2. TipoPausa' /\ SinPlanificador' /\ pc' \in [Hilos -> Etiquetas]
  BY <1>1, HilosDistintos DEF IFrenos, TipoPausa, SinPlanificador, Etiquetas, Frenos
<1>3. /\ pc'["new"] = "saca" /\ pc'["exit"] = pc["exit"] /\ pc'["corto"] = pc["corto"]
      /\ plan'["new"] = plan["new"] - 1 /\ plan'["ready"] = plan["ready"] /\ plan'["exec"] = plan["exec"] /\ plan'["exit"] = plan["exit"]
  BY <1>1, HilosDistintos DEF IFrenos, TipoPausa, Frenos
<1>4. \A f \in Frenos : plan[f] \in Nat /\ parando[f] \in Nat
  BY DEF IFrenos, TipoPausa
<1>5. FrenosConservados'
  BY <1>1, <1>3, <1>4, Ecuaciones, EcuacionesP DEF IFrenos, Frenos, Uno
<1> QED BY <1>2, <1>5 DEF IFrenos

\* IFrenos is kept when manejar_new posts sem_planificacion_new.
LEMMA FNewListo == IFrenos /\ NewListo => IFrenos'
<1> SUFFICES ASSUME IFrenos, NewListo, ~ UNCHANGED <<pausaVars, pc>> PROVE IFrenos'
  BY FrenosIguales DEF IFrenos, TipoPausa
<1>1. /\ pc["new"] = "listo" /\ pc' = [pc EXCEPT !["new"] = "multi"]
      /\ plan' = [plan EXCEPT !["new"] = @ + 1]
      /\ UNCHANGED <<parando, existe, bloqueado>>
  BY DEF NewListo, Turno, Ir
<1>2. TipoPausa' /\ SinPlanificador' /\ pc' \in [Hilos -> Etiquetas]
  BY <1>1, HilosDistintos DEF IFrenos, TipoPausa, SinPlanificador, Etiquetas, Frenos
<1>3. /\ pc'["new"] = "multi" /\ pc'["exit"] = pc["exit"] /\ pc'["corto"] = pc["corto"]
      /\ plan'["new"] = plan["new"] + 1 /\ plan'["ready"] = plan["ready"] /\ plan'["exec"] = plan["exec"] /\ plan'["exit"] = plan["exit"]
  BY <1>1, HilosDistintos DEF IFrenos, TipoPausa, Frenos
<1>4. \A f \in Frenos : plan[f] \in Nat /\ parando[f] \in Nat
  BY DEF IFrenos, TipoPausa
<1>5. FrenosConservados'
  BY <1>1, <1>3, <1>4, Ecuaciones, EcuacionesP DEF IFrenos, Frenos, Uno
<1> QED BY <1>2, <1>5 DEF IFrenos

\* IFrenos is kept when manejar_exit takes its permits and pops a process.
LEMMA FExitSaca == IFrenos /\ ExitSaca => IFrenos'
<1> SUFFICES ASSUME IFrenos, ExitSaca, ~ UNCHANGED <<pausaVars, pc>> PROVE IFrenos'
  BY FrenosIguales DEF IFrenos, TipoPausa
<1>1. /\ pc["exit"] = "permiso" /\ plan["exit"] > 0 /\ pc' = [pc EXCEPT !["exit"] = "toma"]
      /\ plan' = [plan EXCEPT !["exit"] = @ - 1]
      /\ UNCHANGED <<parando, existe, bloqueado>>
  BY DEF ExitSaca, Turno, Ir, Muere
<1>2. TipoPausa' /\ SinPlanificador' /\ pc' \in [Hilos -> Etiquetas]
  BY <1>1, HilosDistintos DEF IFrenos, TipoPausa, SinPlanificador, Etiquetas, Frenos
<1>3. /\ pc'["exit"] = "toma" /\ pc'["new"] = pc["new"] /\ pc'["corto"] = pc["corto"]
      /\ plan'["new"] = plan["new"] /\ plan'["ready"] = plan["ready"] /\ plan'["exec"] = plan["exec"] /\ plan'["exit"] = plan["exit"] - 1
  BY <1>1, HilosDistintos DEF IFrenos, TipoPausa, Frenos
<1>4. \A f \in Frenos : plan[f] \in Nat /\ parando[f] \in Nat
  BY DEF IFrenos, TipoPausa
<1>5. FrenosConservados'
  BY <1>1, <1>3, <1>4, Ecuaciones, EcuacionesP DEF IFrenos, Frenos, Uno
<1> QED BY <1>2, <1>5 DEF IFrenos

\* IFrenos is kept when manejar_exit counts the process out and posts
\* sem_planificacion_exit.
LEMMA FExitCuenta == IFrenos /\ ExitCuenta => IFrenos'
<1> SUFFICES ASSUME IFrenos, ExitCuenta, ~ UNCHANGED <<pausaVars, pc>> PROVE IFrenos'
  BY FrenosIguales DEF IFrenos, TipoPausa
<1>1. /\ pc["exit"] = "cuenta" /\ pc' = [pc EXCEPT !["exit"] = "permiso"]
      /\ plan' = [plan EXCEPT !["exit"] = @ + 1]
      /\ UNCHANGED <<parando, existe, bloqueado>>
  BY DEF ExitCuenta, Turno, Ir
<1>2. TipoPausa' /\ SinPlanificador' /\ pc' \in [Hilos -> Etiquetas]
  BY <1>1, HilosDistintos DEF IFrenos, TipoPausa, SinPlanificador, Etiquetas, Frenos
<1>3. /\ pc'["exit"] = "permiso" /\ pc'["new"] = pc["new"] /\ pc'["corto"] = pc["corto"]
      /\ plan'["new"] = plan["new"] /\ plan'["ready"] = plan["ready"] /\ plan'["exec"] = plan["exec"] /\ plan'["exit"] = plan["exit"] + 1
  BY <1>1, HilosDistintos DEF IFrenos, TipoPausa, Frenos
<1>4. \A f \in Frenos : plan[f] \in Nat /\ parando[f] \in Nat
  BY DEF IFrenos, TipoPausa
<1>5. FrenosConservados'
  BY <1>1, <1>3, <1>4, Ecuaciones, EcuacionesP DEF IFrenos, Frenos, Uno
<1> QED BY <1>2, <1>5 DEF IFrenos

\* IFrenos is kept when the planner takes its permits and moves a process from READY to
\* EXEC.
LEMMA FDespacha == IFrenos /\ Despacha => IFrenos'
<1> SUFFICES ASSUME IFrenos, Despacha, ~ UNCHANGED <<pausaVars, pc>> PROVE IFrenos'
  BY FrenosIguales DEF IFrenos, TipoPausa
<1>1. /\ pc["corto"] = "permiso" /\ plan["ready"] > 0 /\ pc' = [pc EXCEPT !["corto"] = "espera"]
      /\ plan' = [plan EXCEPT !["ready"] = @ - 1]
      /\ UNCHANGED <<parando, existe, bloqueado>>
  BY DEF Despacha, Turno, Ir, Muere
<1>2. TipoPausa' /\ SinPlanificador' /\ pc' \in [Hilos -> Etiquetas]
  BY <1>1, HilosDistintos DEF IFrenos, TipoPausa, SinPlanificador, Etiquetas, Frenos
<1>3. /\ pc'["corto"] = "espera" /\ pc'["new"] = pc["new"] /\ pc'["exit"] = pc["exit"]
      /\ plan'["new"] = plan["new"] /\ plan'["ready"] = plan["ready"] - 1 /\ plan'["exec"] = plan["exec"] /\ plan'["exit"] = plan["exit"]
  BY <1>1, HilosDistintos DEF IFrenos, TipoPausa, Frenos
<1>4. \A f \in Frenos : plan[f] \in Nat /\ parando[f] \in Nat
  BY DEF IFrenos, TipoPausa
<1>5. FrenosConservados'
  BY <1>1, <1>3, <1>4, Ecuaciones, EcuacionesP DEF IFrenos, Frenos, Uno
<1> QED BY <1>2, <1>5 DEF IFrenos

\* IFrenos is kept when manejar_proceso ends and returns to the planner, posting the
\* permits of EXEC and READY.
LEMMA FTermina == IFrenos /\ Termina => IFrenos'
<1> SUFFICES ASSUME IFrenos, Termina, ~ UNCHANGED <<pausaVars, pc>> PROVE IFrenos'
  BY FrenosIguales DEF IFrenos, TipoPausa
<1>1. /\ pc["corto"] = "termina" /\ pc' = [pc EXCEPT !["corto"] = "permiso"]
      /\ plan' = [plan EXCEPT !["exec"] = @ + 1, !["ready"] = @ + 1]
      /\ UNCHANGED <<parando, existe, bloqueado>>
  BY DEF Termina, Turno, Ir, VolverAlPlanificador, IFrenos, TipoPausa
<1>2. TipoPausa' /\ SinPlanificador' /\ pc' \in [Hilos -> Etiquetas]
  BY <1>1, HilosDistintos DEF IFrenos, TipoPausa, SinPlanificador, Etiquetas, Frenos
<1>3. /\ pc'["corto"] = "permiso" /\ pc'["new"] = pc["new"] /\ pc'["exit"] = pc["exit"]
      /\ plan'["new"] = plan["new"] /\ plan'["ready"] = plan["ready"] + 1 /\ plan'["exec"] = plan["exec"] + 1 /\ plan'["exit"] = plan["exit"]
  BY <1>1, HilosDistintos DEF IFrenos, TipoPausa, Frenos
<1>4. \A f \in Frenos : plan[f] \in Nat /\ parando[f] \in Nat
  BY DEF IFrenos, TipoPausa
<1>5. FrenosConservados'
  BY <1>1, <1>3, <1>4, Ecuaciones, EcuacionesP DEF IFrenos, Frenos, Uno
<1> QED BY <1>2, <1>5 DEF IFrenos

\* IFrenos is kept when manejar_recurso returns to the planner, posting the permit of
\* READY.
LEMMA FDesenrolla == IFrenos /\ Desenrolla => IFrenos'
<1> SUFFICES ASSUME IFrenos, Desenrolla, ~ UNCHANGED <<pausaVars, pc>> PROVE IFrenos'
  BY FrenosIguales DEF IFrenos, TipoPausa
<1>1. /\ pc["corto"] = "desenrolla" /\ pc' = [pc EXCEPT !["corto"] = "permiso"]
      /\ plan' = [plan EXCEPT !["ready"] = @ + 1]
      /\ UNCHANGED <<parando, existe, bloqueado>>
  BY DEF Desenrolla, Turno, Ir, VolverAlPlanificador
<1>2. TipoPausa' /\ SinPlanificador' /\ pc' \in [Hilos -> Etiquetas]
  BY <1>1, HilosDistintos DEF IFrenos, TipoPausa, SinPlanificador, Etiquetas, Frenos
<1>3. /\ pc'["corto"] = "permiso" /\ pc'["new"] = pc["new"] /\ pc'["exit"] = pc["exit"]
      /\ plan'["new"] = plan["new"] /\ plan'["ready"] = plan["ready"] + 1 /\ plan'["exec"] = plan["exec"] /\ plan'["exit"] = plan["exit"]
  BY <1>1, HilosDistintos DEF IFrenos, TipoPausa, Frenos
<1>4. \A f \in Frenos : plan[f] \in Nat /\ parando[f] \in Nat
  BY DEF IFrenos, TipoPausa
<1>5. FrenosConservados'
  BY <1>1, <1>3, <1>4, Ecuaciones, EcuacionesP DEF IFrenos, Frenos, Uno
<1> QED BY <1>2, <1>5 DEF IFrenos

\* IFrenos is kept when manejar_new takes its permit of sem_multiprogramacion.
LEMMA FNewMulti == IFrenos /\ NewMulti => IFrenos'
<1> SUFFICES ASSUME IFrenos, NewMulti, ~ UNCHANGED <<pausaVars, pc>> PROVE IFrenos'
  BY FrenosIguales DEF IFrenos, TipoPausa
<1>1. pc["new"] = "multi" /\ UNCHANGED pausaVars
      /\ pc' = [pc EXCEPT !["new"] = "permiso"]
  BY DEF NewMulti, Turno, Ir
<1> QED BY <1>1, FrenosIguales, HilosDistintos DEF IFrenos, TipoPausa, Etiquetas

\* IFrenos is kept when manejar_new moves the oldest process of NEW to READY.
LEMMA FNewSaca == IFrenos /\ NewSaca => IFrenos'
<1> SUFFICES ASSUME IFrenos, NewSaca, ~ UNCHANGED <<pausaVars, pc>> PROVE IFrenos'
  BY FrenosIguales DEF IFrenos, TipoPausa
<1>1. pc["new"] = "saca" /\ UNCHANGED pausaVars
      /\ pc' = [pc EXCEPT !["new"] = "listo"]
  BY DEF NewSaca, Turno, Ir, Muere
<1> QED BY <1>1, FrenosIguales, HilosDistintos DEF IFrenos, TipoPausa, Etiquetas

\* IFrenos is kept when manejar_exit locks mutex_recursosXProcesos.
LEMMA FExitToma == IFrenos /\ ExitToma => IFrenos'
<1> SUFFICES ASSUME IFrenos, ExitToma, ~ UNCHANGED <<pausaVars, pc>> PROVE IFrenos'
  BY FrenosIguales DEF IFrenos, TipoPausa
<1>1. pc["exit"] = "toma" /\ UNCHANGED pausaVars
      /\ pc' = [pc EXCEPT !["exit"] = "libera"]
  BY DEF ExitToma, Turno, Ir
<1> QED BY <1>1, FrenosIguales, HilosDistintos DEF IFrenos, TipoPausa, Etiquetas

\* IFrenos is kept when manejar_exit takes the PCB off lista_pcb and frees it.
LEMMA FExitFin == IFrenos /\ ExitFin => IFrenos'
<1> SUFFICES ASSUME IFrenos, ExitFin, ~ UNCHANGED <<pausaVars, pc>> PROVE IFrenos'
  BY FrenosIguales DEF IFrenos, TipoPausa
<1>1. pc["exit"] = "libera" /\ UNCHANGED pausaVars
      /\ pc' = [pc EXCEPT !["exit"] = "cuenta"]
  BY DEF ExitFin, Turno, Ir
<1> QED BY <1>1, FrenosIguales, HilosDistintos DEF IFrenos, TipoPausa, Etiquetas

\* IFrenos is kept when the context comes back from the CPU.
LEMMA FCpuDevuelve == IFrenos /\ CpuDevuelve => IFrenos'
<1> SUFFICES ASSUME IFrenos, CpuDevuelve, ~ UNCHANGED <<pausaVars, pc>> PROVE IFrenos'
  BY FrenosIguales DEF IFrenos, TipoPausa
<1>1. pc["corto"] = "espera" /\ UNCHANGED pausaVars
      /\ pc' = [pc EXCEPT !["corto"] = "maneja"]
  BY DEF CpuDevuelve, Turno, Ir
<1> QED BY <1>1, FrenosIguales, HilosDistintos DEF IFrenos, TipoPausa, Etiquetas

\* IFrenos is kept when a WAIT takes one instance.
LEMMA FWait == IFrenos /\ Wait => IFrenos'
<1> SUFFICES ASSUME IFrenos, Wait, ~ UNCHANGED <<pausaVars, pc>> PROVE IFrenos'
  BY FrenosIguales DEF IFrenos, TipoPausa
<1>1. pc["corto"] = "wait" /\ UNCHANGED pausaVars
      /\ pc' = [pc EXCEPT !["corto"] = "anota"]
  BY DEF Wait, Turno, Ir
<1> QED BY <1>1, FrenosIguales, HilosDistintos DEF IFrenos, TipoPausa, Etiquetas

\* IFrenos is kept when a WAIT is written in lista_recursos_procesos and goes on or blocks.
LEMMA FWaitAnota == IFrenos /\ WaitAnota => IFrenos'
<1> SUFFICES ASSUME IFrenos, WaitAnota, ~ UNCHANGED <<pausaVars, pc>> PROVE IFrenos'
  BY FrenosIguales DEF IFrenos, TipoPausa
<1>1. pc["corto"] = "anota" /\ UNCHANGED pausaVars
      /\ \E e \in {"espera", "desenrolla"} : pc' = [pc EXCEPT !["corto"] = e]
  BY DEF WaitAnota, SeguirOListo, Turno, Ir
<1> QED BY <1>1, FrenosIguales, HilosDistintos DEF IFrenos, TipoPausa, Etiquetas

\* IFrenos is kept when a SIGNAL removes its entry or ends the process.
LEMMA FSignal == IFrenos /\ Signal => IFrenos'
<1> SUFFICES ASSUME IFrenos, Signal, ~ UNCHANGED <<pausaVars, pc>> PROVE IFrenos'
  BY FrenosIguales DEF IFrenos, TipoPausa
<1>1. pc["corto"] = "signal" /\ UNCHANGED pausaVars
      /\ \E e \in {"libera", "desenrolla"} : pc' = [pc EXCEPT !["corto"] = e]
  BY DEF Signal, Turno, Ir
<1> QED BY <1>1, FrenosIguales, HilosDistintos DEF IFrenos, TipoPausa, Etiquetas

\* IFrenos is kept when a SIGNAL calls liberar_recurso.
LEMMA FSignalLibera == IFrenos /\ SignalLibera => IFrenos'
<1> SUFFICES ASSUME IFrenos, SignalLibera, ~ UNCHANGED <<pausaVars, pc>> PROVE IFrenos'
  BY FrenosIguales DEF IFrenos, TipoPausa
<1>1. pc["corto"] = "libera" /\ UNCHANGED pausaVars
      /\ pc' = [pc EXCEPT !["corto"] = "sigue"]
  BY DEF SignalLibera, Turno, Ir
<1> QED BY <1>1, FrenosIguales, HilosDistintos DEF IFrenos, TipoPausa, Etiquetas

\* IFrenos is kept when the process of a SIGNAL goes on in the CPU or to READY.
LEMMA FSignalSigue == IFrenos /\ SignalSigue => IFrenos'
<1> SUFFICES ASSUME IFrenos, SignalSigue, ~ UNCHANGED <<pausaVars, pc>> PROVE IFrenos'
  BY FrenosIguales DEF IFrenos, TipoPausa
<1>1. pc["corto"] = "sigue" /\ UNCHANGED pausaVars
      /\ \E e \in {"espera", "desenrolla"} : pc' = [pc EXCEPT !["corto"] = e]
  BY DEF SignalSigue, SeguirOListo, Turno, Ir
<1> QED BY <1>1, FrenosIguales, HilosDistintos DEF IFrenos, TipoPausa, Etiquetas

\* IFrenos is kept when buscar_proceso_y_eliminar acts on the state that was read.
LEMMA FElimina == IFrenos /\ Elimina => IFrenos'
<1> SUFFICES ASSUME IFrenos, Elimina, ~ UNCHANGED <<pausaVars, pc>> PROVE IFrenos'
  BY FrenosIguales DEF IFrenos, TipoPausa
<1>1. pc["consola"] = "elimina" /\ UNCHANGED pausaVars
      /\ pc' = [pc EXCEPT !["consola"] = "reanuda"]
  BY DEF Elimina, EliminaEnCola, EliminaEjecutando, EliminaBloqueado, EliminaTerminado, MoverAExit, Turno, Ir, Muere
<1> QED BY <1>1, FrenosIguales, HilosDistintos DEF IFrenos, TipoPausa, Etiquetas

\* IFrenos is kept when MULTIPROGRAMACION locks cant_proc_multip.
LEMMA FBajaGrado == IFrenos /\ BajaGrado => IFrenos'
<1> SUFFICES ASSUME IFrenos, BajaGrado, ~ UNCHANGED <<pausaVars, pc>> PROVE IFrenos'
  BY FrenosIguales DEF IFrenos, TipoPausa
<1>1. pc["consola"] = "baja" /\ UNCHANGED pausaVars
      /\ pc' = [pc EXCEPT !["consola"] = "bajaEspera"]
  BY DEF BajaGrado, Turno, Ir
<1> QED BY <1>1, FrenosIguales, HilosDistintos DEF IFrenos, TipoPausa, Etiquetas

\* IFrenos is kept when MULTIPROGRAMACION locks mutex_ignorar_signal.
LEMMA FTomaIgnorar == IFrenos /\ TomaIgnorar => IFrenos'
<1> SUFFICES ASSUME IFrenos, TomaIgnorar, ~ UNCHANGED <<pausaVars, pc>> PROVE IFrenos'
  BY FrenosIguales DEF IFrenos, TipoPausa
<1>1. pc["consola"] = "bajaEspera" /\ UNCHANGED pausaVars
      /\ pc' = [pc EXCEPT !["consola"] = "ignoraEspera"]
  BY DEF TomaIgnorar, Turno, Ir
<1> QED BY <1>1, FrenosIguales, HilosDistintos DEF IFrenos, TipoPausa, Etiquetas

\* IFrenos is kept when MULTIPROGRAMACION writes the degree and unlocks.
LEMMA FFijaGrado == IFrenos /\ FijaGrado => IFrenos'
<1> SUFFICES ASSUME IFrenos, FijaGrado, ~ UNCHANGED <<pausaVars, pc>> PROVE IFrenos'
  BY FrenosIguales DEF IFrenos, TipoPausa
<1>1. pc["consola"] = "ignoraEspera" /\ UNCHANGED pausaVars
      /\ pc' = [pc EXCEPT !["consola"] = "reanuda"]
  BY DEF FijaGrado, Turno, Ir
<1> QED BY <1>1, FrenosIguales, HilosDistintos DEF IFrenos, TipoPausa, Etiquetas

\* IFrenos is kept by the steps of manejar_io, which touches no permit of the pause.
LEMMA FInterfaz == \A i \in Interfaces : IFrenos /\ (IoToma(i) \/ IoTermina(i)) => IFrenos'
<1> SUFFICES ASSUME NEW i \in Interfaces, IFrenos, IoToma(i) \/ IoTermina(i),
                    ~ UNCHANGED <<pausaVars, pc>>
             PROVE IFrenos'
  BY FrenosIguales DEF IFrenos, TipoPausa
<1>1. UNCHANGED pausaVars /\ \E e \in {"atiende", "permiso"} : pc' = [pc EXCEPT ![i] = e]
  BY DEF IoToma, IoTermina, Turno, Ir, Muere
<1> QED BY <1>1, FrenosIguales, HilosDistintos DEF IFrenos, TipoPausa, Etiquetas

\* IFrenos is kept by detener_planificacion, from whatever command calls it: each permit it
\* will take is owed by a stop thread.
LEMMA FDetener ==
  ASSUME IFrenos, Detener, NEW e \in Etiquetas, pc' = [pc EXCEPT !["consola"] = e]
  PROVE  IFrenos'
<1>1. /\ UNCHANGED <<plan, existe>> /\ bloqueado' = TRUE
      /\ \A f \in Frenos : parando'[f] = IF bloqueado THEN parando[f] ELSE parando[f] + 1
  BY DEF Detener, IFrenos, TipoPausa
<1>2. TipoPausa' /\ SinPlanificador' /\ pc' \in [Hilos -> Etiquetas]
  BY HilosDistintos DEF Detener, IFrenos, TipoPausa, SinPlanificador
<1>3. pc'["new"] = pc["new"] /\ pc'["exit"] = pc["exit"] /\ pc'["corto"] = pc["corto"]
  BY HilosDistintos DEF IFrenos, TipoPausa
<1>4. \A f \in Frenos : plan[f] \in Nat /\ parando[f] \in Nat
  BY DEF IFrenos, TipoPausa
<1>5. FrenosConservados'
  BY <1>1, <1>3, <1>4, Ecuaciones, EcuacionesP DEF IFrenos, TipoPausa, Frenos, Uno
<1> QED BY <1>2, <1>5 DEF IFrenos

\* IFrenos is kept by iniciar_planificacion: it posts one permit per section, and only if it
\* clears planificador_bloqueado.
LEMMA FIniciar == IFrenos /\ Iniciar => IFrenos'
<1> SUFFICES ASSUME IFrenos, Iniciar PROVE IFrenos'
  OBVIOUS
<1>1. TipoPausa' /\ SinPlanificador' /\ pc' \in [Hilos -> Etiquetas]
  BY HilosDistintos DEF Iniciar, PlanificadorCreado, IFrenos, TipoPausa, SinPlanificador, Etiquetas
<1>2. \A f \in Frenos : plan[f] \in Nat /\ parando[f] \in Nat
  BY DEF IFrenos, TipoPausa
<1>3. /\ UNCHANGED parando /\ bloqueado' = (bloqueado /\ ~ existe)
      /\ \A f \in Frenos : plan'[f] = IF existe /\ bloqueado THEN plan[f] + 1 ELSE plan[f]
  BY DEF Iniciar, IFrenos, TipoPausa
<1>4. CASE existe
  <2>1. pc'["new"] = pc["new"] /\ pc'["exit"] = pc["exit"] /\ pc'["corto"] = pc["corto"]
    BY <1>4, HilosDistintos DEF Iniciar, IFrenos, TipoPausa
  <2>2. CASE bloqueado
    <3>1. bloqueado' = FALSE /\ \A f \in Frenos : plan'[f] = plan[f] + 1
      BY <1>3, <1>4, <2>2
    <3>2. FrenosConservados'
      BY <1>2, <1>3, <2>1, <2>2, <3>1, Ecuaciones, EcuacionesP DEF IFrenos, Frenos, Uno
    <3> QED BY <1>1, <3>2 DEF IFrenos
  <2>3. CASE ~ bloqueado
    <3>1. UNCHANGED <<plan, parando, bloqueado>>
      BY <1>4, <2>3 DEF Iniciar, IFrenos, TipoPausa
    <3>2. FrenosConservados'
      BY <2>1, <3>1, Ecuaciones, EcuacionesP DEF IFrenos, Uno
    <3> QED BY <1>1, <3>2 DEF IFrenos
  <2> QED BY <2>2, <2>3
<1>5. CASE ~ existe
  <2>1. /\ pc["new"] = "apagado" /\ pc["exit"] = "apagado" /\ pc["corto"] = "apagado"
        /\ pc'["new"] = "multi" /\ pc'["exit"] = "permiso" /\ pc'["corto"] = "permiso"
    BY <1>5, HilosDistintos DEF Iniciar, PlanificadorCreado, SinPlanificador, IFrenos, TipoPausa
  <2>2. UNCHANGED <<plan, parando, bloqueado>>
    BY <1>5 DEF Iniciar, IFrenos, TipoPausa
  <2>3. FrenosConservados'
    BY <2>1, <2>2, Ecuaciones, EcuacionesP DEF IFrenos, Uno
  <2> QED BY <1>1, <2>3 DEF IFrenos
<1> QED BY <1>4, <1>5

\* IFrenos is kept when manejar_proceso takes sem_planificacion_exec, pops EXEC and
\* chooses a queue.
LEMMA FManejaProceso == IFrenos /\ ManejaProceso => IFrenos'
<1> SUFFICES ASSUME IFrenos, ManejaProceso, ~ UNCHANGED <<pausaVars, pc>> PROVE IFrenos'
  BY FrenosIguales DEF IFrenos, TipoPausa
<1>1. /\ pc["corto"] = "maneja" /\ plan["exec"] > 0 /\ plan' = [plan EXCEPT !["exec"] = @ - 1]
      /\ \E e \in {"recurso", "termina"} : pc' = [pc EXCEPT !["corto"] = e]
      /\ UNCHANGED <<parando, existe, bloqueado>>
  BY DEF ManejaProceso, Turno, Ir, Muere
<1>2. TipoPausa' /\ SinPlanificador' /\ pc' \in [Hilos -> Etiquetas]
  BY <1>1, HilosDistintos DEF IFrenos, TipoPausa, SinPlanificador, Etiquetas, Frenos
<1>3. /\ pc'["corto"] \in {"recurso", "termina"} /\ pc'["new"] = pc["new"] /\ pc'["exit"] = pc["exit"]
      /\ plan'["exec"] = plan["exec"] - 1 /\ plan'["new"] = plan["new"]
      /\ plan'["ready"] = plan["ready"] /\ plan'["exit"] = plan["exit"]
  BY <1>1, HilosDistintos DEF IFrenos, TipoPausa, Frenos
<1>4. \A f \in Frenos : plan[f] \in Nat /\ parando[f] \in Nat
  BY DEF IFrenos, TipoPausa
<1>5. FrenosConservados'
  BY <1>1, <1>3, <1>4, Ecuaciones, EcuacionesP DEF IFrenos, Frenos, Uno
<1> QED BY <1>2, <1>5 DEF IFrenos

\* IFrenos is kept when manejar_recurso posts sem_planificacion_exec before it touches
\* the resource.
LEMMA FEntraRecurso == IFrenos /\ EntraRecurso => IFrenos'
<1> SUFFICES ASSUME IFrenos, EntraRecurso PROVE IFrenos'
  OBVIOUS
<1>1. /\ pc["corto"] = "recurso" /\ plan' = [plan EXCEPT !["exec"] = @ + 1]
      /\ \E e \in {"wait", "signal"} : pc' = [pc EXCEPT !["corto"] = e]
      /\ UNCHANGED <<parando, existe, bloqueado>>
  BY DEF EntraRecurso, Turno, Ir
<1>2. TipoPausa' /\ SinPlanificador' /\ pc' \in [Hilos -> Etiquetas]
  BY <1>1, HilosDistintos DEF IFrenos, TipoPausa, SinPlanificador, Etiquetas, Frenos
<1>3. /\ pc'["corto"] \in {"wait", "signal"} /\ pc'["new"] = pc["new"] /\ pc'["exit"] = pc["exit"]
      /\ plan'["exec"] = plan["exec"] + 1 /\ plan'["new"] = plan["new"]
      /\ plan'["ready"] = plan["ready"] /\ plan'["exit"] = plan["exit"]
  BY <1>1, HilosDistintos DEF IFrenos, TipoPausa, Frenos
<1>4. \A f \in Frenos : plan[f] \in Nat /\ parando[f] \in Nat
  BY DEF IFrenos, TipoPausa
<1>5. FrenosConservados'
  BY <1>1, <1>3, <1>4, Ecuaciones, EcuacionesP DEF IFrenos, Frenos, Uno
<1> QED BY <1>2, <1>5 DEF IFrenos

\* IFrenos is kept when a stop thread gets its permit.
LEMMA FStopHilo == \A f \in Frenos : IFrenos /\ StopHilo(f) => IFrenos'
<1> SUFFICES ASSUME NEW f \in Frenos, IFrenos, StopHilo(f) PROVE IFrenos'
  OBVIOUS
<1>1. /\ plan[f] > 0 /\ parando[f] > 0 /\ UNCHANGED <<pc, existe, bloqueado>>
      /\ plan' = [plan EXCEPT ![f] = @ - 1] /\ parando' = [parando EXCEPT ![f] = @ - 1]
  BY DEF StopHilo
<1>2. TipoPausa' /\ SinPlanificador' /\ pc' \in [Hilos -> Etiquetas]
  BY <1>1 DEF IFrenos, TipoPausa, SinPlanificador
<1>3. \A g \in Frenos : /\ plan[g] \in Nat /\ parando[g] \in Nat
                        /\ plan'[g] - parando'[g] = plan[g] - parando[g]
                        /\ plan'[g] \in Nat /\ parando'[g] \in Nat
  BY <1>1 DEF IFrenos, TipoPausa
<1>4. \A g \in Frenos : plan[g] + Uno(Dentro(g)) + Uno(bloqueado) = 1 + parando[g]
  BY DEF IFrenos, FrenosConservados
<1>5. \A g \in Frenos : plan'[g] + Uno(Dentro(g)) + Uno(bloqueado) = 1 + parando'[g]
  BY <1>3, <1>4 DEF Uno
<1>6. FrenosConservados'
  <2>1. /\ plan'["new"] + Uno(pc["new"] \in {"saca", "listo"}) + Uno(bloqueado) = 1 + parando'["new"]
        /\ plan'["exit"] + Uno(pc["exit"] \in {"toma", "libera", "cuenta"}) + Uno(bloqueado)
             = 1 + parando'["exit"]
        /\ plan'["ready"] + Uno(pc["corto"] \notin {"apagado", "permiso"}) + Uno(bloqueado)
             = 1 + parando'["ready"]
        /\ plan'["exec"] + Uno(pc["corto"] \in {"termina", "recurso"}) + Uno(bloqueado)
             = 1 + parando'["exec"]
    BY <1>5 DEF Frenos, Dentro
  <2> QED BY <1>1, <2>1, EcuacionesP
<1> QED BY <1>2, <1>6 DEF IFrenos

\* IFrenos is kept by every step of the console.
LEMMA FConsola ==
  IFrenos /\ PasoConsola => IFrenos'
<1> SUFFICES ASSUME IFrenos, PasoConsola PROVE IFrenos'
  OBVIOUS
<1>1. CASE IniciarPlanificacion \/ Reanuda
  BY <1>1, FIniciar DEF IniciarPlanificacion, Reanuda
<1>2. CASE DetenerPlanificacion
  <2>1. Detener /\ pc' = [pc EXCEPT !["consola"] = pc["consola"]] /\ pc["consola"] \in Etiquetas
    BY <1>2, HilosDistintos DEF DetenerPlanificacion, IFrenos, TipoPausa
  <2> QED BY <2>1, FDetener
<1>3. CASE ProcesoEstado
  BY <1>3, FDetener DEF ProcesoEstado, Ir, Etiquetas
<1>4. ASSUME NEW p \in Pids, FinalizarProceso(p) PROVE IFrenos'
  <2>1. CASE UNCHANGED <<pausaVars, pc>>
    BY <2>1, FrenosIguales DEF IFrenos, TipoPausa
  <2>2. CASE Detener /\ Ir("consola", "elimina")
    BY <2>2, FDetener DEF Ir, Etiquetas
  <2> QED BY <1>4, <2>1, <2>2 DEF FinalizarProceso, Muere
<1>5. ASSUME NEW n \in NuevosGrados, Multiprogramacion(n) PROVE IFrenos'
  <2>1. Detener /\ \E e \in {"reanuda", "baja"} : pc' = [pc EXCEPT !["consola"] = e]
    BY <1>5 DEF Multiprogramacion, Ir
  <2> QED BY <2>1, FDetener DEF Etiquetas
<1>6. CASE IniciarProceso \/ EsperaGrado
  BY <1>6, FrenosIguales DEF IniciarProceso, EsperaGrado, IFrenos, TipoPausa
<1> QED
  BY <1>1, <1>2, <1>3, <1>4, <1>5, <1>6, FElimina, FBajaGrado, FTomaIgnorar, FFijaGrado
  DEF PasoConsola

\* IFrenos is kept when the model stops.
LEMMA FMuere == \A como : IFrenos /\ Muere(como) => IFrenos'
BY FrenosIguales DEF Muere, IFrenos, TipoPausa

\* IFrenos is kept when an interface answers ERROR or goes away.
LEMMA FError == \A i \in Interfaces : IFrenos /\ (IoError(i) \/ IoDesconexion(i)) => IFrenos'
<1> SUFFICES ASSUME NEW i \in Interfaces, IFrenos, IoError(i) PROVE IFrenos'
  BY FMuere DEF IoDesconexion
<1>1. pc' = [pc EXCEPT ![i] = "permiso"] /\ UNCHANGED pausaVars
  BY DEF IoError, Ir
<1>2. /\ pc' \in [Hilos -> Etiquetas]
      /\ \A h \in {"new", "exit", "corto"} : pc'[h] = pc[h]
  BY <1>1, HilosDistintos DEF IFrenos, Etiquetas
<1> QED BY <1>1, <1>2, FrenosIguales DEF IFrenos, TipoPausa

\* IFrenos is kept by every step of manejar_new.
LEMMA FNew == IFrenos /\ PasoNew => IFrenos'
BY FNewMulti, FNewPermiso, FNewSaca, FNewListo DEF PasoNew

\* IFrenos is kept by every step of manejar_exit.
LEMMA FExit == IFrenos /\ PasoExit => IFrenos'
<1> SUFFICES ASSUME IFrenos, PasoExit PROVE IFrenos'
  OBVIOUS
<1>1. ASSUME NEW r \in Recursos, ExitLibera(r) PROVE IFrenos'
  BY <1>1, FrenosIguales DEF ExitLibera, IFrenos, TipoPausa
<1> QED BY <1>1, FExitSaca, FExitToma, FExitFin, FExitCuenta DEF PasoExit

\* IFrenos is kept by every step of the short-term planner.
LEMMA FCorto == IFrenos /\ PasoCorto => IFrenos'
BY FDespacha, FCpuDevuelve, FManejaProceso, FEntraRecurso, FWait, FWaitAnota, FSignal,
   FSignalLibera, FSignalSigue, FTermina, FDesenrolla DEF PasoCorto

\* IFrenos holds when the kernel starts: the semaphores are 1 and there is no planner.
LEMMA FInit == Init => IFrenos
<1> SUFFICES ASSUME Init PROVE IFrenos
  OBVIOUS
<1>1. TipoPausa /\ pc \in [Hilos -> Etiquetas]
  BY DEF Init, TipoPausa, Etiquetas
<1>2. SinPlanificador /\ pc["new"] = "apagado" /\ pc["exit"] = "apagado" /\ pc["corto"] = "apagado"
  BY HilosDistintos DEF Init, SinPlanificador
<1>3. bloqueado = FALSE /\ \A f \in Frenos : plan[f] = 1 /\ parando[f] = 0
  BY DEF Init
<1>4. FrenosConservados
  BY <1>2, <1>3, Ecuaciones DEF Uno, Frenos
<1> QED BY <1>1, <1>2, <1>4 DEF IFrenos

\* IFrenos always holds, for any number of processes, resources and interfaces, any
\* algorithm and any sequence of console commands.
THEOREM FrenosInvariante == Spec => []IFrenos
<1>1. IFrenos /\ [Next]_vars => IFrenos'
  <2> SUFFICES ASSUME IFrenos, [Next]_vars PROVE IFrenos'
    OBVIOUS
  <2>1. CASE UNCHANGED vars
    BY <2>1, FrenosIguales DEF vars, IFrenos, TipoPausa
  <2>2. ASSUME NEW h \in Hilos, Publicar(h) PROVE IFrenos'
    BY <2>2, FrenosIguales DEF Publicar, PublicarPcb, Muere, IFrenos, TipoPausa
  <2>3. ASSUME NEW i \in Interfaces, IoError(i) \/ IoDesconexion(i) PROVE IFrenos'
    BY <2>3, FError
  <2>4. CASE RecorridoRoto
    BY <2>4, FMuere DEF RecorridoRoto
  <2> QED
    BY <2>1, <2>2, <2>3, <2>4, FNew, FExit, FCorto, FConsola, FInterfaz, FStopHilo DEF Next, PasoIo
<1> QED BY <1>1, FInit, PTL DEF Spec

\* The permits of sem_planificacion_new, _ready, _exec and _exit are never lost or made up,
\* however DETENER_PLANIFICACION, INICIAR_PLANIFICACION and the commands that pause and
\* resume by themselves follow one another and however late their stop threads come.
THEOREM FrenosSeConservan == Spec => []FrenosConservados
<1>1. IFrenos => FrenosConservados
  BY DEF IFrenos
<1> QED BY <1>1, FrenosInvariante, PTL

-----------------------------------------------------------------------------
(* A pause *)

\* While it is stopped no permit is free and nobody is inside a section.
LEMMA SinFrenos ==
  ASSUME IFrenos, Detenida
  PROVE  /\ plan["new"] = 0 /\ plan["ready"] = 0 /\ plan["exec"] = 0 /\ plan["exit"] = 0
         /\ pc["new"] \notin {"saca", "listo"}
         /\ pc["exit"] \notin {"toma", "libera", "cuenta"}
         /\ pc["corto"] \in {"apagado", "permiso"}
<1>1. bloqueado = TRUE
  BY DEF Detenida, IFrenos, TipoPausa
<1>2. /\ parando["new"] = 0 /\ parando["ready"] = 0 /\ parando["exec"] = 0 /\ parando["exit"] = 0
      /\ plan["new"] \in Nat /\ plan["ready"] \in Nat /\ plan["exec"] \in Nat /\ plan["exit"] \in Nat
  BY DEF Detenida, IFrenos, TipoPausa, Frenos
<1>3. \A n \in Nat : \A b \in BOOLEAN : n + Uno(b) + Uno(TRUE) = 1 + 0 => n = 0 /\ ~ b
  BY DEF Uno
<1>4. \A f \in Frenos : plan[f] + Uno(Dentro(f)) + Uno(TRUE) = 1 + 0
  BY <1>1, <1>2 DEF IFrenos, FrenosConservados, Frenos
<1>5. \A f \in Frenos : Dentro(f) \in BOOLEAN /\ plan[f] \in Nat
  <2>1. /\ Dentro("new") \in BOOLEAN /\ Dentro("exit") \in BOOLEAN
        /\ Dentro("ready") \in BOOLEAN /\ Dentro("exec") \in BOOLEAN
    BY DEF Dentro
  <2>2. \A f \in Frenos : plan[f] \in Nat
    BY DEF IFrenos, TipoPausa
  <2> QED BY <2>1, <2>2 DEF Frenos
<1>6. \A f \in Frenos : plan[f] = 0 /\ ~ Dentro(f)
  BY <1>3, <1>4, <1>5
<1> QED
  BY <1>6 DEF Frenos, Dentro

\* A push to another queue leaves COLA_EXEC as it was.
LEMMA EmpujarOtra ==
  ASSUME NEW cs \in [Colas -> Seq(Pids)], NEW c \in Colas, c # "exec", NEW h, NEW p,
         Empujar(h, cs, c, p)
  PROVE  cola'["exec"] = cs["exec"]
BY Nombres DEF Empujar

\* A removal from another queue leaves COLA_EXEC as it was.
LEMMA QuitarOtra ==
  ASSUME ITipo, NEW c \in Colas, c # "exec", NEW p \in Pids
  PROVE  [cola EXCEPT ![c] = Quitar(@, p)]["exec"] = cola["exec"]
BY Nombres DEF ITipo, TypeOK, TipoDatos

\* No resource and no interface is called like COLA_EXEC.
LEMMA NombresNoExec == \A c \in Recursos \cup Interfaces : c # "exec"
BY NombresAssumption

\* The planner threads: manejar_new can only take its degree permit.
LEMMA PlanificadorCongelado ==
  ASSUME IFrenos, Detenida, PasoNew \/ PasoExit \/ PasoCorto
  PROVE  Congelado
<1>1. CASE PasoNew
  BY <1>1, SinFrenos
  DEF PasoNew, NewMulti, NewPermiso, NewSaca, NewListo, Turno, Congelado
<1>2. CASE PasoExit
  <2>1. ~ (ExitSaca \/ ExitToma \/ ExitFin \/ ExitCuenta)
    BY SinFrenos DEF ExitSaca, ExitToma, ExitFin, ExitCuenta, Turno
  <2>2. \A r \in Recursos : ~ ExitLibera(r)
    BY SinFrenos DEF ExitLibera, Turno
  <2> QED BY <1>2, <2>1, <2>2 DEF PasoExit
<1>3. CASE PasoCorto
  <2>1. ~ (Despacha \/ ManejaProceso)
    BY SinFrenos DEF Despacha, ManejaProceso
  <2>2. ~ (CpuDevuelve \/ EntraRecurso \/ Wait \/ WaitAnota \/ Signal)
    BY SinFrenos DEF CpuDevuelve, EntraRecurso, Wait, WaitAnota, Signal, Turno
  <2>3. ~ (SignalLibera \/ SignalSigue \/ Termina \/ Desenrolla)
    BY SinFrenos DEF SignalLibera, SignalSigue, Termina, Desenrolla, Turno
  <2> QED BY <1>3, <2>1, <2>2, <2>3 DEF PasoCorto
<1> QED BY <1>1, <1>2, <1>3

\* The interfaces move processes from their own queues to READY or READY+.
LEMMA InterfazCongelada ==
  ASSUME ITipo, NEW i \in Interfaces, PasoIo(i)
  PROVE  Congelado
<1>1. CASE IoToma(i)
  BY <1>1 DEF IoToma, Muere, Congelado
<1>2. CASE IoTermina(i)
  <2>1. CASE UNCHANGED cola
    BY <1>2, <2>1 DEF IoTermina, Muere, Congelado
  <2>2. ASSUME NEW c \in {"aux", "ready"},
               Empujar(i, [cola EXCEPT ![i] = Quitar(@, mano[i])], c, mano[i])
        PROVE  cola'["exec"] = cola["exec"]
    <3>1. i \in Colas /\ i # "exec" /\ mano[i] \in Pids
      BY <1>2, Nombres, NombresNoExec DEF IoTermina, Turno, ITipo, Locales
    <3>2. c \in Colas /\ c # "exec"
      BY Nombres
    <3>3. /\ [cola EXCEPT ![i] = Quitar(@, mano[i])] \in [Colas -> Seq(Pids)]
          /\ [cola EXCEPT ![i] = Quitar(@, mano[i])]["exec"] = cola["exec"]
      BY <3>1, TipoQuitar, QuitarOtra
    <3> QED BY <2>2, <3>2, <3>3, EmpujarOtra
  <2> QED BY <1>2, <2>1, <2>2 DEF IoTermina, Muere, Congelado
<1>3. CASE IoError(i) \/ IoDesconexion(i)
  BY <1>3 DEF IoError, IoDesconexion, Muere, Congelado
<1> QED BY <1>1, <1>2, <1>3 DEF PasoIo

\* FINALIZAR_PROCESO moves a process to EXIT without changing what the pause freezes.
LEMMA MoverAExitCongela ==
  ASSUME ITipo, NEW c \in Colas, c # "exec", NEW p \in Pids, MoverAExit(c, p)
  PROVE  Congelado
<1>1. /\ [cola EXCEPT ![c] = Quitar(@, p)] \in [Colas -> Seq(Pids)]
      /\ [cola EXCEPT ![c] = Quitar(@, p)]["exec"] = cola["exec"]
  BY TipoQuitar, QuitarOtra
<1>2. Empujar("consola", [cola EXCEPT ![c] = Quitar(@, p)], "exit", p)
  BY DEF MoverAExit
<1>3. cola'["exec"] = cola["exec"]
  BY <1>1, <1>2, EmpujarOtra, Nombres
<1> QED BY <1>3 DEF MoverAExit, Congelado

\* The console moves processes to NEW and to EXIT, never from EXEC.
LEMMA ConsolaCongelada ==
  ASSUME ITipo, PasoConsola
  PROVE  Congelado
<1>1. CASE IniciarProceso
  <2>1. cola'["exec"] = cola["exec"]
    BY <1>1, EmpujarOtra, Nombres DEF IniciarProceso, ITipo, TypeOK, TipoDatos
  <2> QED BY <1>1, <2>1 DEF IniciarProceso, Congelado
<1>2. CASE Elimina
  <2>1. mano["consola"] \in Pids
    BY <1>2 DEF Elimina, Turno, ITipo, Locales
  <2>2. CASE EliminaEnCola(mano["consola"])
    BY <2>1, <2>2, MoverAExitCongela, Nombres DEF EliminaEnCola
  <2>3. CASE EliminaBloqueado(mano["consola"])
    <3>1. CASE UNCHANGED <<cola, enMulti, listaPcb>>
      BY <3>1 DEF Congelado
    <3>2. CASE TieneCola(bloqueo[mano["consola"]])
               /\ MoverAExit(bloqueo[mano["consola"]].nombre, mano["consola"])
      <4>1. bloqueo[mano["consola"]].nombre \in Recursos \cup Interfaces
        BY <2>1, <3>2 DEF TieneCola, Bloqueos, ITipo, TypeOK, TipoPcb
      <4> QED BY <2>1, <3>2, <4>1, MoverAExitCongela, Nombres, NombresNoExec
    <3> QED BY <2>3, <3>1, <3>2 DEF EliminaBloqueado, Muere
  <2>4. CASE EliminaEjecutando(mano["consola"]) \/ EliminaTerminado
    BY <2>4 DEF EliminaEjecutando, EliminaTerminado, Congelado
  <2> QED BY <1>2, <2>2, <2>3, <2>4 DEF Elimina
<1>3. CASE IniciarPlanificacion \/ DetenerPlanificacion \/ ProcesoEstado \/ Reanuda
  BY <1>3 DEF IniciarPlanificacion, DetenerPlanificacion, ProcesoEstado, Reanuda, Congelado
<1>4. ASSUME NEW p \in Pids, FinalizarProceso(p) PROVE Congelado
  BY <1>4 DEF FinalizarProceso, Muere, Congelado
<1>5. ASSUME NEW n \in NuevosGrados, Multiprogramacion(n) PROVE Congelado
  BY <1>5 DEF Multiprogramacion, Congelado
<1>6. CASE BajaGrado \/ EsperaGrado \/ TomaIgnorar \/ FijaGrado
  BY <1>6 DEF BajaGrado, EsperaGrado, TomaIgnorar, FijaGrado, Congelado
<1> QED BY <1>1, <1>2, <1>3, <1>4, <1>5, <1>6 DEF PasoConsola

\* A step from a state in which the planner is stopped changes nothing that is frozen.
LEMMA PasoCongelado ==
  ASSUME ITipo, IFrenos, Detenida, Next
  PROVE  Congelado
<1>1. ASSUME NEW h \in Hilos, Publicar(h) PROVE Congelado
  BY <1>1 DEF Publicar, PublicarPcb, Muere, Congelado
<1>2. ASSUME NEW f \in Frenos, StopHilo(f) PROVE Congelado
  BY <1>2 DEF StopHilo, Congelado
<1>3. CASE RecorridoRoto
  BY <1>3 DEF RecorridoRoto, Muere, Congelado
<1> QED
  BY <1>1, <1>2, <1>3, PlanificadorCongelado, InterfazCongelada, ConsolaCongelada DEF Next

\* Between the moment the four stop threads of detener_planificacion got their permits and
\* the next iniciar_planificacion, no process is admitted, dispatched, taken off the CPU or
\* released, whatever the interfaces and the console do.
THEOREM LaPausaCongela == Spec => PausaCongela
<1>1. ITipo /\ IFrenos /\ [Next]_vars => [Detenida => Congelado]_vars
  BY PasoCongelado
<1> QED BY <1>1, TipoInvariante, FrenosInvariante, PTL DEF Spec, PausaCongela

=============================================================================
