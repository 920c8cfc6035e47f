-------------------------- MODULE KernelColasProofs --------------------------
(***************************************************************************)
(* The queues, the permits and the resources of the kernel, for any number *)
(* of processes, resources and interfaces.  One lemma per action says what *)
(* it does to the queues (S...); one per action and invariant says why it  *)
(* is kept.  The invariants, each resting on the ones before:              *)
(*   IRecursos    EXEC, mutex_recursos and the counts of the resources     *)
(*   Alcanza      every queue has a permit for each process in it          *)
(*   Exacto       and, without FINALIZAR_PROCESO, exactly one, but for one *)
(*                per ERROR its interface answered                         *)
(*   Unico        a process of lista_pcb is in one place                   *)
(*   GradoFijo    the degree of multiprogramming is conserved              *)
(* With them every step of the kernel is a step of CicloDeVida.            *)
(* Corto is apart: with programs that only end, whoever is being pushed is *)
(* still in the queue it goes to.                                          *)
(***************************************************************************)
EXTENDS KernelFrenosProofs, FiniteSetTheorems, SequenceTheorems

Finaliza == "FINALIZAR_PROCESO" \in Comandos
CambiaGrado == "MULTIPROGRAMACION" \in Comandos

\* COLA_EXEC holds the process of the burst under way, and nothing else.
Ejecuta ==
  cola["exec"] = IF pc["corto"] \in {"espera", "maneja"} THEN <<mano["corto"]>> ELSE <<>>

\* Who holds mutex_recursos: a WAIT between taking the instance and writing it
\* down, and liberar_recurso while its push is not finished.
Cerrojo ==
  /\ pc["corto"] = "anota" => mutex["recursos"] = "corto"
  /\ \A h \in Hilos : empuje[h] # NADA /\ pc[h] \in {"libera", "sigue"} => mutex["recursos"] = h

EnAnota(r) == Uno(pc["corto"] = "anota" /\ RecursoPedido = r)

\* A negative count is at least the number of those who wait, with the one
\* about to; a count that is not leaves nobody waiting.
Deuda ==
  \A r \in Recursos :
    Len(cola[r]) + EnAnota(r) <= IF instancias[r] < 0 THEN - instancias[r] ELSE EnAnota(r)

\* manejar_io waits for a process that somebody took out of its queue.
Huerfano(c) == Uno(c \in Interfaces /\ pc[c] = "atiende" /\ ~ Contiene(cola[c], mano[c]))

Alcanza ==
  \A c \in ConPermiso : sem[c] + Tomado(c) + EnCamino(c) + SinPermiso(c) >= Largo(c) + Huerfano(c)

\* Without FINALIZAR_PROCESO.
Atendido ==
  \A i \in Interfaces : pc[i] = "atiende" => cola[i] # <<>> /\ mano[i] = Head(cola[i])
SinAux == Algoritmo # "VRR" => cola["aux"] = <<>>
Exacto == PermisosExactos /\ Atendido /\ SinAux /\ pc["consola"] # "elimina" /\ SinPunteroNulo

\* Where a process can be: a queue, the hands of the planner between EXEC and
\* the push manejar_recurso ends with ("corto"), those of manejar_exit (LIBRE).
Sitios == Colas \cup {"corto", LIBRE}

Llamando == pc["corto"] \in {"recurso", "wait", "anota", "signal", "libera", "sigue"}
Liberando == pc["exit"] \in {"toma", "libera"}

Sitio ==
  [c \in Sitios |-> IF c = "corto" THEN IF Llamando THEN <<mano["corto"]>> ELSE <<>>
                     ELSE IF c = LIBRE THEN IF Liberando THEN <<mano["exit"]>> ELSE <<>>
                     ELSE cola[c]]

SinRepetir(s) ==
  \A c \in Sitios, d \in Sitios : \A j \in 1 .. Len(s[c]), k \in 1 .. Len(s[d]) :
    s[c][j] = s[d][k] => c = d /\ j = k

Repartidos(s, P) == \A p \in Pids : p \in P <=> \E c \in Sitios : Contiene(s[c], p)

Unico == SinRepetir(Sitio) /\ Repartidos(Sitio, listaPcb) /\ \A p \in listaPcb : p < proximo

\* NEW in order of arrival.
EnOrden == \A j \in 1 .. Len(cola["new"]), k \in 1 .. Len(cola["new"]) : j < k => cola["new"][j] < cola["new"][k]

Anota == \A r \in Recursos, p \in Pids : Contiene(cola[r], p) => asignados[p][r] > 0
\* SaldoDeRecursos, with the entries finite in number.
Saldo == SaldoDeRecursos /\ \A r \in Recursos : IsFiniteSet(Entradas(r))

\* manejar_exit has the process it releases.
ManoExit == pc["exit"] \in {"toma", "libera"} => mano["exit"] \in Pids

(***************************************************************************)
(* What a step does to the queues.                                         *)
(***************************************************************************)
\* A thread moves.
Va(h, d, e) == pc[h] = d /\ pc'[h] = e /\ \A g \in Hilos : g # h => pc'[g] = pc[g]

\* A thread takes a process, or lets it go, and nobody else does.
Lleva(h, p) == mano'[h] = p /\ \A g \in Hilos : g # h => mano'[g] = mano[g]

\* The push of p to c that h begins.
Comienza(h, c, p) ==
  /\ empuje[h] = NADA /\ empuje'[h] = [cola |-> c, pid |-> p]
  /\ \A g \in Hilos : g # h => empuje'[g] = empuje[g]

\* p, which was in no queue, goes to the end of c.
Pone(h, c, p) ==
  /\ Comienza(h, c, p) /\ p \in Pids /\ c \in Colas /\ h \in Hilos
  /\ cola'[c] = Append(cola[c], p) /\ \A d \in Colas : d # c => cola'[d] = cola[d]

\* The first of a goes to the end of c.
Pasa(h, a, c) ==
  /\ Comienza(h, c, Head(cola[a])) /\ a \in Colas /\ c \in Colas /\ a # c /\ h \in Hilos
  /\ cola[a] # <<>> /\ cola'[a] = Tail(cola[a]) /\ cola'[c] = Append(cola[c], Head(cola[a]))
  /\ \A d \in Colas : d # a /\ d # c => cola'[d] = cola[d]

\* p is taken from wherever it is in a, if it is there, and goes to the end of c.
Mueve(h, a, c, p) ==
  /\ Comienza(h, c, p) /\ p \in Pids /\ a \in Colas /\ c \in Colas /\ a # c /\ h \in Hilos
  /\ cola'[a] = Quitar(cola[a], p) /\ cola'[c] = Append(cola[c], p)
  /\ \A d \in Colas : d # a /\ d # c => cola'[d] = cola[d]

\* The first of a is popped by a thread that keeps it.
Retira(a) ==
  /\ a \in Colas /\ cola[a] # <<>> /\ cola'[a] = Tail(cola[a])
  /\ \A d \in Colas : d # a => cola'[d] = cola[d]
  /\ UNCHANGED empuje

\* One permit of c is taken.
Espera(c) == sem[c] > 0 /\ sem'[c] = sem[c] - 1 /\ \A d \in ConPermiso : d # c => sem'[d] = sem[d]

\* The planner threads start, or stay where they are.
Arrancan ==
  \/ \A h \in Hilos : h # "consola" => pc'[h] = pc[h]
  \/ /\ pc["new"] = "apagado" /\ pc["exit"] = "apagado" /\ pc["corto"] = "apagado"
     /\ pc'["new"] = "multi" /\ pc'["exit"] = "permiso" /\ pc'["corto"] = "permiso"
     /\ \A i \in Interfaces : pc'[i] = pc[i]

\* A step of the console, or of a thread it started, that touches no queue.
Ajeno ==
  /\ Arrancan
  /\ pc'["consola"] \notin {"libera", "sigue"}
  /\ \A h \in Hilos : h # "consola" => mano'[h] = mano[h]
  /\ mutex'["recursos"] = mutex["recursos"]
  /\ UNCHANGED <<datosVars, pcbVars, enMulti, recursoVars, contexto, errores, kernel>>
  /\ CambiaGrado \/ UNCHANGED <<multi, ignorar, grado>>

\* The console is in a command, and in one the run uses.
LugarConsola ==
  \/ pc["consola"] \in {"prompt", "imprime", "reanuda"}
  \/ pc["consola"] = "elimina" /\ Finaliza
  \/ pc["consola"] \in {"baja", "bajaEspera", "ignoraEspera"} /\ CambiaGrado

\* A step in which no thread dies, action by action.
PasoVivo ==
  \/ NewMulti \/ NewPermiso \/ NewListo
  \/ NewSaca /\ cola["new"] # <<>>
  \/ ExitSaca /\ cola["exit"] # <<>> /\ Head(cola["exit"]) \in listaPcb
  \/ ExitToma \/ ExitFin \/ ExitCuenta \/ \E r \in Recursos : ExitLibera(r)
  \/ Despacha /\ cola[ColaSiguiente] # <<>>
  \/ CpuDevuelve
  \/ ManejaProceso /\ cola["exec"] # <<>> /\ Head(cola["exec"]) \in listaPcb
  \/ Termina \/ Desenrolla \/ EntraRecurso \/ Wait \/ WaitAnota
  \/ Signal \/ SignalLibera \/ SignalSigue
  \/ \E i \in Interfaces : IoToma(i) /\ cola[i] # <<>> /\ Head(cola[i]) \in listaPcb
  \/ \E i \in Interfaces : IoTermina(i) /\ mano[i] \in listaPcb
  \/ \E i \in Interfaces : IoError(i)
  \/ \E h \in Hilos : Publicar(h) /\ empuje[h].pid \in listaPcb
  \/ IniciarProceso
  \/ Elimina /\ kernel' = "vivo"
  \/ Ajeno

\* Nothing changes but, perhaps, whether the kernel is alive.
Muerto ==
  UNCHANGED <<datosVars, pcbVars, gradoVars, pausaVars, interrupcionVars, mutex,
              recursoVars, hiloVars, consolaVars>>


\* The inductive invariant of the queues and the resources, whatever the console does.
IRecursos == ITipo /\ IFrenos /\ LugarConsola /\ Ejecuta /\ Cerrojo /\ Deuda /\ ManoExit /\ Saldo

USE DEF datosVars, pcbVars, gradoVars, pausaVars, interrupcionVars, recursoVars,
        hiloVars, consolaVars, historiaVars

\* What a thread that moves does to pc.
LEMMA IrVa ==
  ASSUME ITipo, NEW h \in Hilos, NEW d, NEW e, pc[h] = d, Ir(h, e)
  PROVE  Va(h, d, e)
BY DEF Ir, Va, ITipo, TypeOK, TipoHilos

\* The hands of a thread.
LEMMA ManoLleva ==
  ASSUME ITipo, NEW h \in Hilos, NEW p, mano' = [mano EXCEPT ![h] = p]
  PROVE  Lleva(h, p)
BY DEF Lleva, ITipo, TypeOK, TipoHilos

\* list_add of a process that was in no queue.
LEMMA EmpujarPone ==
  ASSUME ITipo, NEW h \in Hilos, NEW c \in Colas, NEW p \in Pids, empuje[h] = NADA,
         Empujar(h, cola, c, p)
  PROVE  Pone(h, c, p)
BY DEF Empujar, Pone, Comienza, ITipo, TypeOK, TipoDatos

\* list_add of the one just popped.
LEMMA EmpujarPasa ==
  ASSUME ITipo, NEW h \in Hilos, NEW a \in Colas, NEW c \in Colas, a # c, cola[a] # <<>>,
         empuje[h] = NADA, Empujar(h, Sacar(cola, a), c, Head(cola[a]))
  PROVE  Pasa(h, a, c)
<1>1. cola \in [Colas -> Seq(Pids)] /\ empuje \in [Hilos -> Empujes]
  BY DEF ITipo, TypeOK, TipoDatos
<1>2. /\ Sacar(cola, a)[a] = Tail(cola[a]) /\ DOMAIN Sacar(cola, a) = Colas
      /\ \A d \in Colas : d # a => Sacar(cola, a)[d] = cola[d]
  BY <1>1 DEF Sacar
<1>3. cola' = [Sacar(cola, a) EXCEPT ![c] = Append(@, Head(cola[a]))]
  BY DEF Empujar
<1>4. Comienza(h, c, Head(cola[a]))
  BY <1>1 DEF Empujar, Comienza
<1> QED BY <1>2, <1>3, <1>4 DEF Pasa

\* list_add of one looked up in a queue.
LEMMA EmpujarMueve ==
  ASSUME ITipo, NEW h \in Hilos, NEW a \in Colas, NEW c \in Colas, NEW p \in Pids, a # c,
         empuje[h] = NADA, Empujar(h, [cola EXCEPT ![a] = Quitar(@, p)], c, p)
  PROVE  Mueve(h, a, c, p)
<1>1. cola \in [Colas -> Seq(Pids)] /\ empuje \in [Hilos -> Empujes]
  BY DEF ITipo, TypeOK, TipoDatos
<1> DEFINE s == [cola EXCEPT ![a] = Quitar(@, p)]
<1>2. /\ s[a] = Quitar(cola[a], p) /\ DOMAIN s = Colas
      /\ \A d \in Colas : d # a => s[d] = cola[d]
  BY <1>1
<1>3. cola' = [s EXCEPT ![c] = Append(@, p)] /\ Comienza(h, c, p)
  BY <1>1 DEF Empujar, Comienza
<1> HIDE DEF s
<1> QED BY <1>2, <1>3 DEF Mueve

\* A permit taken.
LEMMA SemEspera ==
  ASSUME ITipo, NEW c \in ConPermiso, sem[c] > 0, sem' = [sem EXCEPT ![c] = @ - 1]
  PROVE  Espera(c)
BY DEF Espera, ITipo, TypeOK, TipoDatos

\* manejar_new takes a permit of the degree of multiprogramming.
LEMMA SNewMulti ==
  ASSUME ITipo, NewMulti
  PROVE  /\ Va("new", "multi", "permiso") /\ multi > 0 /\ multi' = multi - 1
         /\ UNCHANGED <<datosVars, pcbVars, enMulti, ignorar, grado, mutex, recursoVars, mano,
                        contexto, kernel>>
BY IrVa, Nombres DEF NewMulti, Turno

\* manejar_new takes the permit of a process in NEW.
LEMMA SNewPermiso ==
  ASSUME ITipo, NewPermiso
  PROVE  /\ Va("new", "permiso", "saca") /\ Espera("new")
         /\ UNCHANGED <<cola, empuje, estado, pcbVars, gradoVars, mutex, recursoVars, mano,
                        contexto, kernel>>
BY IrVa, SemEspera, Nombres DEF NewPermiso, Turno

\* manejar_new moves the oldest of NEW to READY, under cant_proc_multip.
LEMMA SNewSaca ==
  ASSUME ITipo, NewSaca, cola["new"] # <<>>
  PROVE  /\ Va("new", "saca", "listo") /\ Pasa("new", "new", "ready")
         /\ mutex["cant_proc_multip"] = LIBRE
         /\ UNCHANGED <<sem, estado, pcbVars, multi, ignorar, grado, mutex, recursoVars, mano,
                        contexto, kernel>>
BY IrVa, EmpujarPasa, Nombres DEF NewSaca, Turno

\* manejar_new goes back for another permit.
LEMMA SNewListo ==
  ASSUME ITipo, NewListo
  PROVE  /\ Va("new", "listo", "multi")
         /\ UNCHANGED <<datosVars, pcbVars, gradoVars, mutex, recursoVars, mano, contexto, kernel>>
BY IrVa, Nombres DEF NewListo, Turno

\* manejar_exit takes a permit and pops the first of EXIT.
LEMMA SExitSaca ==
  ASSUME ITipo, ExitSaca, cola["exit"] # <<>>, Head(cola["exit"]) \in listaPcb
  PROVE  /\ Va("exit", "permiso", "toma") /\ Espera("exit") /\ Retira("exit")
         /\ Lleva("exit", Head(cola["exit"])) /\ empuje["exit"] = NADA
         /\ UNCHANGED <<estado, pcbVars, gradoVars, mutex, recursoVars, contexto, kernel>>
<1>1. Retira("exit")
  BY Nombres DEF ExitSaca, Retira, Sacar, ITipo, TypeOK, TipoDatos
<1> QED BY <1>1, IrVa, SemEspera, ManoLleva, Nombres DEF ExitSaca, Turno

\* manejar_exit takes the lock of the list of assignments, and no other.
LEMMA SExitToma ==
  ASSUME ITipo, ExitToma
  PROVE  /\ Va("exit", "toma", "libera") /\ empuje["exit"] = NADA
         /\ mutex'["recursos"] = mutex["recursos"]
         /\ UNCHANGED <<datosVars, pcbVars, gradoVars, recursoVars, mano, contexto, kernel>>
<1>1. mutex' = [mutex EXCEPT !["recursosXProcesos"] = "exit"]
  BY DEF ExitToma, Tomar
<1>2. mutex'["recursos"] = mutex["recursos"]
  BY <1>1 DEF ITipo, TypeOK, Mutexes
<1> QED BY <1>2, IrVa, Nombres DEF ExitToma, Turno

\* liberar_recurso: what it does to the queues, the lock and the count.
LEMMA SLiberar ==
  ASSUME ITipo, NEW h \in Hilos, NEW r \in Recursos, LiberarRecurso(h, r), empuje[h] = NADA
  PROVE  /\ mutex["recursos"] = LIBRE /\ instancias'[r] = instancias[r] + 1
         /\ \A q \in Recursos : q # r => instancias'[q] = instancias[q]
         /\ \/ /\ UNCHANGED <<cola, empuje, mutex>>
               /\ ~ (instancias[r] + 1 <= 0 /\ cola[r] # <<>>)
            \/ /\ Pasa(h, r, "ready") /\ instancias[r] + 1 <= 0 /\ mutex'["recursos"] = h
               /\ \A m \in Mutexes : m # "recursos" => mutex'[m] = mutex[m]
<1>1. r \in Colas /\ "ready" \in Colas /\ r # "ready" /\ "recursos" \in Mutexes
  BY Nombres, NombresAssumption DEF Mutexes
<1>2. /\ mutex["recursos"] = LIBRE /\ instancias'[r] = instancias[r] + 1
      /\ \A q \in Recursos : q # r => instancias'[q] = instancias[q]
  BY DEF LiberarRecurso, ITipo, TypeOK, TipoRecursos
<1>3. CASE instancias[r] + 1 <= 0 /\ cola[r] # <<>>
  <2>1. Empujar(h, Sacar(cola, r), "ready", Head(cola[r])) /\ mutex' = [mutex EXCEPT !["recursos"] = h]
    BY <1>3 DEF LiberarRecurso
  <2>2. Pasa(h, r, "ready")
    BY <1>1, <1>3, <2>1, EmpujarPasa
  <2>3. mutex'["recursos"] = h /\ \A m \in Mutexes : m # "recursos" => mutex'[m] = mutex[m]
    BY <1>1, <2>1 DEF ITipo, TypeOK
  <2> QED BY <1>2, <1>3, <2>2, <2>3
<1>4. CASE ~ (instancias[r] + 1 <= 0 /\ cola[r] # <<>>)
  BY <1>2, <1>4 DEF LiberarRecurso
<1> QED BY <1>3, <1>4

\* manejar_exit gives back one instance and one entry of the process it ends.
LEMMA SExitLibera ==
  ASSUME ITipo, NEW r \in Recursos, ExitLibera(r)
  PROVE  /\ LiberarRecurso("exit", r) /\ pc["exit"] = "libera" /\ empuje["exit"] = NADA
         /\ asignados[mano["exit"]][r] > 0
         /\ asignados' = [asignados EXCEPT ![mano["exit"]][r] = @ - 1]
         /\ UNCHANGED <<sem, estado, pcbVars, gradoVars, hiloVars, kernel>>
BY DEF ExitLibera, Turno

\* manejar_exit has given everything back, and the PCB leaves lista_pcb.
LEMMA SExitFin ==
  ASSUME ITipo, ExitFin
  PROVE  /\ Va("exit", "libera", "cuenta") /\ empuje["exit"] = NADA
         /\ \A r \in Recursos : asignados[mano["exit"]][r] = 0
         /\ mutex'["recursos"] = mutex["recursos"]
         /\ listaPcb' = listaPcb \ {mano["exit"]}
         /\ UNCHANGED <<datosVars, proximo, gradoVars, recursoVars, mano, contexto, kernel>>
<1>1. mutex'["recursos"] = mutex["recursos"]
  BY DEF ITipo, TypeOK, Mutexes, ExitFin, Soltar
<1> QED BY <1>1, IrVa, Nombres DEF ExitFin, Turno

\* manejar_exit discounts the process and goes back for another.
LEMMA SExitCuenta ==
  ASSUME ITipo, ExitCuenta
  PROVE  /\ Va("exit", "cuenta", "permiso") /\ empuje["exit"] = NADA /\ Lleva("exit", NADIE)
         /\ mutex["cant_proc_multip"] = LIBRE
         /\ UNCHANGED <<datosVars, pcbVars, multi, ignorar, grado, mutex, recursoVars, contexto,
                        kernel>>
BY IrVa, ManoLleva, Nombres DEF ExitCuenta, Turno

\* The planner moves the first of READY, or of AUX, to EXEC.
LEMMA SDespacha ==
  ASSUME ITipo, Despacha, cola[ColaSiguiente] # <<>>
  PROVE  /\ Va("corto", "permiso", "espera") /\ Espera("ready")
         /\ Pasa("corto", ColaSiguiente, "exec") /\ Lleva("corto", Head(cola[ColaSiguiente]))
         /\ UNCHANGED <<estado, pcbVars, gradoVars, mutex, recursoVars, contexto, kernel>>
<1>1. ColaSiguiente \in Colas /\ ColaSiguiente # "exec"
  BY Nombres DEF ColaSiguiente
<1> QED BY <1>1, IrVa, SemEspera, EmpujarPasa, ManoLleva, Nombres DEF Despacha, Turno

\* The CPU answers, with a reason the process could have.
LEMMA SCpuDevuelve ==
  ASSUME ITipo, CpuDevuelve
  PROVE  /\ Va("corto", "espera", "maneja") /\ empuje["corto"] = NADA
         /\ contexto' \in Retornos(mano["corto"])
         /\ UNCHANGED <<datosVars, pcbVars, gradoVars, mutex, recursoVars, mano, kernel>>
BY IrVa, Nombres DEF CpuDevuelve, Turno

\* The queue a process that leaves the CPU goes to.
LEMMA DestinoEs ==
  ASSUME NEW c, c = "exit" \/ c = Destino(contexto)
  PROVE  c \in Colas /\ c # "exec" /\ c \in {"exit", "ready"} \cup Interfaces
BY Nombres, NombresAssumption DEF Destino

\* manejar_proceso pops EXEC: a WAIT or SIGNAL keeps the process in its hands, any other
\* reason pushes it to EXIT or to where the reason says.
LEMMA SManejaProceso ==
  ASSUME ITipo, ManejaProceso, cola["exec"] # <<>>, Head(cola["exec"]) \in listaPcb
  PROVE  /\ pc["corto"] = "maneja" /\ empuje["corto"] = NADA /\ Lleva("corto", Head(cola["exec"]))
         /\ \/ /\ Va("corto", "maneja", "recurso") /\ Retira("exec") /\ EsRecurso(contexto)
            \/ /\ Va("corto", "maneja", "termina")
               /\ \E c \in {"exit", "ready"} \cup Interfaces :
                    Pasa("corto", "exec", c) /\ (c = "exit" \/ c = Destino(contexto))
         /\ UNCHANGED <<sem, proximo, listaPcb, gradoVars, mutex, recursoVars, contexto, kernel>>
<1> DEFINE p == Head(cola["exec"])
           c == IF InterrumpeUsuario THEN "exit" ELSE Destino(contexto)
<1>1. /\ pc["corto"] = "maneja" /\ empuje["corto"] = NADA /\ mano' = [mano EXCEPT !["corto"] = p]
      /\ UNCHANGED <<sem, proximo, listaPcb, gradoVars, mutex, recursoVars, contexto, kernel>>
      /\ IF EsRecurso(contexto) /\ ~ InterrumpeUsuario
           THEN cola' = Sacar(cola, "exec") /\ Ir("corto", "recurso") /\ UNCHANGED empuje
           ELSE Empujar("corto", Sacar(cola, "exec"), c, p) /\ Ir("corto", "termina")
  BY DEF ManejaProceso, Muere, Turno
<1>2. c \in Colas /\ c # "exec" /\ c \in {"exit", "ready"} \cup Interfaces /\ (c = "exit" \/ c = Destino(contexto))
  BY DestinoEs
<1> HIDE DEF c
<1>3. Lleva("corto", p)
  BY <1>1, ManoLleva, Nombres
<1>4. CASE EsRecurso(contexto) /\ ~ InterrumpeUsuario
  <2>1. Retira("exec")
    BY <1>1, <1>4, Nombres DEF Retira, Sacar, ITipo, TypeOK, TipoDatos
  <2> QED BY <1>1, <1>3, <1>4, <2>1, IrVa, Nombres
<1>5. CASE ~ (EsRecurso(contexto) /\ ~ InterrumpeUsuario)
  <2>1. Pasa("corto", "exec", c)
    BY <1>1, <1>2, <1>5, EmpujarPasa, Nombres
  <2>2. Va("corto", "maneja", "termina")
    BY <1>1, <1>5, IrVa, Nombres
  <2> QED BY <1>1, <1>2, <1>3, <2>1, <2>2
<1> QED BY <1>4, <1>5

\* Back at the planner.
LEMMA SVolver ==
  ASSUME ITipo, NEW planes, VolverAlPlanificador(planes), NEW e, pc["corto"] = e
  PROVE  /\ Va("corto", e, "permiso") /\ Lleva("corto", NADIE) /\ contexto' = SinContexto
         /\ mutex'["recursos"] = IF mutex["recursos"] = "corto" THEN LIBRE ELSE mutex["recursos"]
         /\ mutex'["cant_proc_multip"] = mutex["cant_proc_multip"]
<1>1. /\ mutex'["recursos"] = IF mutex["recursos"] = "corto" THEN LIBRE ELSE mutex["recursos"]
      /\ mutex'["cant_proc_multip"] = mutex["cant_proc_multip"]
  BY DEF VolverAlPlanificador, ITipo, TypeOK, Mutexes
<1> QED BY <1>1, IrVa, ManoLleva, Nombres DEF VolverAlPlanificador

\* The planner returns to its loop, and leaves mutex_recursos if it had it.
LEMMA SVuelve ==
  ASSUME ITipo, Termina \/ Desenrolla
  PROVE  /\ \E e \in {"termina", "desenrolla"} : Va("corto", e, "permiso")
         /\ Lleva("corto", NADIE) /\ contexto' = SinContexto /\ empuje["corto"] = NADA
         /\ mutex'["recursos"] = IF mutex["recursos"] = "corto" THEN LIBRE ELSE mutex["recursos"]
         /\ mutex'["cant_proc_multip"] = mutex["cant_proc_multip"]
         /\ UNCHANGED <<datosVars, pcbVars, gradoVars, recursoVars, kernel>>
<1>1. CASE Termina
  BY <1>1, SVolver DEF Termina, Turno
<1>2. CASE Desenrolla
  BY <1>2, SVolver DEF Desenrolla, Turno
<1> QED BY <1>1, <1>2

\* manejar_recurso goes to the WAIT or to the SIGNAL.
LEMMA SEntraRecurso ==
  ASSUME ITipo, EntraRecurso
  PROVE  /\ \E e \in {"wait", "signal"} : Va("corto", "recurso", e)
         /\ empuje["corto"] = NADA
         /\ UNCHANGED <<datosVars, pcbVars, gradoVars, mutex, recursoVars, mano, contexto, kernel>>
BY IrVa, Nombres DEF EntraRecurso, Turno

\* A WAIT takes one instance, under mutex_recursos.
LEMMA SWait ==
  ASSUME ITipo, Wait
  PROVE  /\ Va("corto", "wait", "anota") /\ empuje["corto"] = NADA
         /\ mutex["recursos"] = LIBRE /\ mutex'["recursos"] = "corto"
         /\ mutex'["cant_proc_multip"] = mutex["cant_proc_multip"]
         /\ instancias'[RecursoPedido] = instancias[RecursoPedido] - 1
         /\ \A q \in Recursos : q # RecursoPedido => instancias'[q] = instancias[q]
         /\ UNCHANGED <<datosVars, pcbVars, gradoVars, asignados, mano, contexto, kernel>>
<1>1. RecursoPedido \in Recursos
  BY DEF Wait, Turno, ITipo, Locales
<1>2. /\ mutex["recursos"] = LIBRE /\ mutex'["recursos"] = "corto"
      /\ mutex'["cant_proc_multip"] = mutex["cant_proc_multip"]
  BY DEF Wait, Tomar, ITipo, TypeOK, Mutexes
<1>3. /\ instancias'[RecursoPedido] = instancias[RecursoPedido] - 1
      /\ \A q \in Recursos : q # RecursoPedido => instancias'[q] = instancias[q]
  BY <1>1 DEF Wait, ITipo, TypeOK, TipoRecursos
<1> QED BY <1>2, <1>3, IrVa, Nombres DEF Wait, Turno

\* Goes on in the CPU or, out of quantum, to READY.
LEMMA SSeguir ==
  ASSUME ITipo, SeguirOListo(mano["corto"]), NEW e, pc["corto"] = e, e \notin {"apagado", "permiso"},
         empuje["corto"] = NADA
  PROVE  \/ Va("corto", e, "espera") /\ Pone("corto", "exec", mano["corto"])
         \/ Va("corto", e, "desenrolla") /\ Pone("corto", "ready", mano["corto"])
<1>1. mano["corto"] \in Pids
  BY DEF ITipo, Locales
<1>2. CASE Algoritmo = "FIFO" \/ queda[mano["corto"]]
  BY <1>1, <1>2, IrVa, EmpujarPone, Nombres DEF SeguirOListo
<1>3. CASE ~ (Algoritmo = "FIFO" \/ queda[mano["corto"]])
  BY <1>1, <1>3, IrVa, EmpujarPone, Nombres DEF SeguirOListo
<1> QED BY <1>2, <1>3

\* A WAIT writes the entry: the process blocks if no instance was left, and goes on if one was.
LEMMA SWaitAnota ==
  ASSUME ITipo, WaitAnota
  PROVE  /\ pc["corto"] = "anota" /\ empuje["corto"] = NADA /\ RecursoPedido \in Recursos
         /\ mano["corto"] \in Pids
         /\ asignados' = [asignados EXCEPT ![mano["corto"]][RecursoPedido] = @ + 1]
         /\ \/ /\ instancias[RecursoPedido] < 0 /\ Va("corto", "anota", "desenrolla")
               /\ Pone("corto", RecursoPedido, mano["corto"])
            \/ /\ instancias[RecursoPedido] >= 0 /\ Va("corto", "anota", "espera")
               /\ Pone("corto", "exec", mano["corto"])
            \/ /\ instancias[RecursoPedido] >= 0 /\ Va("corto", "anota", "desenrolla")
               /\ Pone("corto", "ready", mano["corto"])
         /\ UNCHANGED <<sem, estado, pcbVars, gradoVars, mutex, instancias, mano, contexto, kernel>>
<1>1. pc["corto"] = "anota" /\ empuje["corto"] = NADA
  BY DEF WaitAnota, Turno
<1>2. RecursoPedido \in Recursos /\ mano["corto"] \in Pids /\ instancias[RecursoPedido] \in Int
  BY <1>1 DEF ITipo, Locales, TypeOK, TipoRecursos
<1>3. CASE instancias[RecursoPedido] < 0
  BY <1>1, <1>2, <1>3, IrVa, EmpujarPone, Nombres DEF WaitAnota
<1>4. CASE ~ (instancias[RecursoPedido] < 0)
  <2>1. SeguirOListo(mano["corto"])
    BY <1>4 DEF WaitAnota
  <2> QED BY <1>1, <1>2, <1>4, <2>1, SSeguir DEF WaitAnota
<1> QED BY <1>3, <1>4

\* A SIGNAL removes the entry of the process, or ends one that had none.
LEMMA SSignal ==
  ASSUME ITipo, Signal
  PROVE  /\ pc["corto"] = "signal" /\ empuje["corto"] = NADA /\ RecursoPedido \in Recursos
         /\ mano["corto"] \in Pids
         /\ \/ /\ asignados[mano["corto"]][RecursoPedido] > 0
               /\ asignados' = [asignados EXCEPT ![mano["corto"]][RecursoPedido] = @ - 1]
               /\ Va("corto", "signal", "libera") /\ UNCHANGED <<cola, empuje>>
            \/ /\ Va("corto", "signal", "desenrolla") /\ Pone("corto", "exit", mano["corto"])
               /\ UNCHANGED asignados
         /\ UNCHANGED <<sem, estado, pcbVars, gradoVars, mutex, instancias, mano, contexto, kernel>>
<1>1. pc["corto"] = "signal" /\ empuje["corto"] = NADA
  BY DEF Signal, Turno
<1>2. RecursoPedido \in Recursos /\ mano["corto"] \in Pids
  BY <1>1 DEF ITipo, Locales
<1>3. CASE asignados[mano["corto"]][RecursoPedido] > 0
  BY <1>1, <1>2, <1>3, IrVa, Nombres DEF Signal
<1>4. CASE ~ (asignados[mano["corto"]][RecursoPedido] > 0)
  BY <1>1, <1>2, <1>4, IrVa, EmpujarPone, Nombres DEF Signal
<1> QED BY <1>3, <1>4

\* The SIGNAL gives the instance back.
LEMMA SSignalLibera ==
  ASSUME ITipo, SignalLibera
  PROVE  /\ Va("corto", "libera", "sigue") /\ empuje["corto"] = NADA /\ RecursoPedido \in Recursos
         /\ LiberarRecurso("corto", RecursoPedido)
         /\ UNCHANGED <<sem, estado, pcbVars, gradoVars, asignados, mano, contexto, kernel>>
<1>1. RecursoPedido \in Recursos
  BY DEF SignalLibera, Turno, ITipo, Locales
<1> QED BY <1>1, IrVa, Nombres DEF SignalLibera, Turno

\* The process of the SIGNAL goes on.
LEMMA SSignalSigue ==
  ASSUME ITipo, SignalSigue
  PROVE  /\ empuje["corto"] = NADA /\ mano["corto"] \in Pids
         /\ \/ Va("corto", "sigue", "espera") /\ Pone("corto", "exec", mano["corto"])
            \/ Va("corto", "sigue", "desenrolla") /\ Pone("corto", "ready", mano["corto"])
         /\ UNCHANGED <<sem, estado, pcbVars, gradoVars, mutex, recursoVars, mano, contexto, kernel>>
<1>1. pc["corto"] = "sigue" /\ empuje["corto"] = NADA /\ SeguirOListo(mano["corto"])
  BY DEF SignalSigue, Turno
<1>2. mano["corto"] \in Pids
  BY <1>1 DEF ITipo, Locales
<1> QED BY <1>1, <1>2, SSeguir DEF SignalSigue

\* An interface takes the permit of the first of its queue, and keeps that process in hand.
LEMMA SIoToma ==
  ASSUME ITipo, NEW i \in Interfaces, IoToma(i), cola[i] # <<>>, Head(cola[i]) \in listaPcb
  PROVE  /\ Va(i, "permiso", "atiende") /\ Espera(i) /\ Lleva(i, Head(cola[i])) /\ empuje[i] = NADA
         /\ mutex'["recursos"] = mutex["recursos"]
         /\ mutex'["cant_proc_multip"] = mutex["cant_proc_multip"]
         /\ UNCHANGED <<cola, empuje, estado, pcbVars, gradoVars, recursoVars, contexto, kernel>>
<1>1. mutex' = [mutex EXCEPT !["kernel_io"] = i]
  BY DEF IoToma, Tomar
<1>2. /\ mutex'["recursos"] = mutex["recursos"]
      /\ mutex'["cant_proc_multip"] = mutex["cant_proc_multip"]
  BY <1>1 DEF ITipo, TypeOK, Mutexes
<1> QED BY <1>2, IrVa, SemEspera, ManoLleva, Nombres DEF IoToma, Turno

\* The interface is done: its process goes to READY or AUX, unless somebody took it out before.
LEMMA SIoTermina ==
  ASSUME ITipo, NEW i \in Interfaces, IoTermina(i), mano[i] \in listaPcb
  PROVE  /\ Va(i, "atiende", "permiso") /\ Lleva(i, NADIE) /\ mano[i] \in Pids
         /\ \/ /\ Contiene(cola[i], mano[i]) /\ UNCHANGED mutex
               /\ \E c \in {"ready", "aux"} : /\ Mueve(i, i, c, mano[i])
                                              /\ c = "aux" => Algoritmo = "VRR"
            \/ ~ Contiene(cola[i], mano[i]) /\ UNCHANGED <<cola, empuje>> /\ empuje[i] = NADA
         /\ mutex'["recursos"] = mutex["recursos"]
         /\ mutex'["cant_proc_multip"] = mutex["cant_proc_multip"]
         /\ UNCHANGED <<sem, estado, queda, proximo, listaPcb, gradoVars, recursoVars, contexto, kernel>>
<1> DEFINE p == mano[i]
           c == IF Algoritmo = "VRR" /\ queda[p] THEN "aux" ELSE "ready"
<1>1. pc[i] = "atiende" /\ empuje[i] = NADA /\ p \in Pids /\ i \in Hilos /\ i \in Colas
  BY Nombres DEF IoTermina, Turno, ITipo, Locales
<1>2. c \in {"ready", "aux"} /\ c \in Colas /\ i # c /\ (c = "aux" => Algoritmo = "VRR")
  BY Nombres, NombresAssumption
<1>3. /\ IF Contiene(cola[i], p)
           THEN Empujar(i, [cola EXCEPT ![i] = Quitar(@, p)], c, p) /\ UNCHANGED mutex
           ELSE Soltar("kernel_io") /\ UNCHANGED <<cola, empuje>>
      /\ mano' = [mano EXCEPT ![i] = NADIE] /\ Ir(i, "permiso")
      /\ UNCHANGED <<sem, estado, queda, proximo, listaPcb, gradoVars, recursoVars, contexto, kernel>>
  BY DEF IoTermina, Muere
<1> HIDE DEF c
<1>4. Va(i, "atiende", "permiso") /\ Lleva(i, NADIE)
  BY <1>1, <1>3, IrVa, ManoLleva
<1>5. CASE Contiene(cola[i], p)
  <2>1. Mueve(i, i, c, p)
    BY <1>1, <1>2, <1>3, <1>5, EmpujarMueve
  <2> QED BY <1>1, <1>2, <1>3, <1>4, <1>5, <2>1
<1>6. CASE ~ Contiene(cola[i], p)
  <2>1. mutex' = [mutex EXCEPT !["kernel_io"] = LIBRE]
    BY <1>3, <1>6 DEF Soltar
  <2>2. /\ mutex'["recursos"] = mutex["recursos"]
        /\ mutex'["cant_proc_multip"] = mutex["cant_proc_multip"]
    BY <2>1 DEF ITipo, TypeOK, Mutexes
  <2> QED BY <1>1, <1>3, <1>4, <1>6, <2>2
<1> QED BY <1>5, <1>6

\* The interface answered ERROR: it lets go of its process, which stays in the queue.
LEMMA SIoError ==
  ASSUME ITipo, NEW i \in Interfaces, IoError(i)
  PROVE  /\ Va(i, "atiende", "permiso") /\ Lleva(i, NADIE) /\ empuje[i] = NADA
         /\ mutex'["recursos"] = mutex["recursos"]
         /\ errores'[i] = errores[i] + 1 /\ \A j \in Interfaces : j # i => errores'[j] = errores[j]
         /\ UNCHANGED <<datosVars, pcbVars, gradoVars, recursoVars, contexto, kernel>>
<1>1. mutex' = [mutex EXCEPT !["kernel_io"] = LIBRE]
  BY DEF IoError, Soltar
<1>2. mutex'["recursos"] = mutex["recursos"]
  BY <1>1 DEF ITipo, TypeOK, Mutexes
<1>3. errores \in [Interfaces -> Nat] /\ errores' = [errores EXCEPT ![i] = @ + 1]
  BY DEF IoError, ITipo, TypeOK, TipoHistoria
<1> QED BY <1>2, <1>3, IrVa, ManoLleva, Nombres DEF IoError, Turno

\* INICIAR_PROCESO puts a new pid at the end of NEW.
LEMMA SIniciarProceso ==
  ASSUME ITipo, IniciarProceso
  PROVE  /\ Pone("consola", "new", proximo) /\ pc["consola"] = "prompt"
         /\ proximo' = proximo + 1 /\ listaPcb' = listaPcb \cup {proximo}
         /\ UNCHANGED <<sem, estado, bloqueo, queda, gradoVars, mutex, recursoVars, hiloVars, kernel>>
<1>1. proximo \in Pids
  BY TamanosAssumption DEF IniciarProceso, ITipo, TypeOK, TipoPcb, Pids
<1> QED BY <1>1, EmpujarPone, Nombres DEF IniciarProceso, Turno

\* The second half of a push.
LEMMA SPublicar ==
  ASSUME ITipo, NEW h \in Hilos, Publicar(h), empuje[h].pid \in listaPcb
  PROVE  /\ empuje[h] # NADA /\ empuje'[h] = NADA /\ \A g \in Hilos : g # h => empuje'[g] = empuje[g]
         /\ empuje[h].cola \in Colas /\ empuje[h].pid \in Pids
         /\ \A c \in ConPermiso : sem'[c] = sem[c] + Uno(c = PermisoDe(empuje[h].cola))
         /\ IF empuje[h].cola = "exit"
              THEN \/ multi' = multi + 1 /\ UNCHANGED ignorar
                   \/ ignorar' = ignorar - 1 /\ UNCHANGED multi
              ELSE UNCHANGED <<multi, ignorar>>
         /\ mutex' = [m \in Mutexes |-> IF m \in SueltaTrasPublicar(h) THEN LIBRE ELSE mutex[m]]
         /\ UNCHANGED <<cola, pcbVars, enMulti, grado, recursoVars, hiloVars, kernel>>
<1> DEFINE c == empuje[h].cola
           p == empuje[h].pid
<1>1. empuje[h] # NADA /\ PublicarPcb(h, c, p)
  BY DEF Publicar, Muere, ITipo, TypeOK, TipoPcb
<1>2. c \in Colas /\ p \in Pids
  BY <1>1 DEF Empujes, ITipo, TypeOK, TipoDatos
<1>3. \A d \in ConPermiso : sem'[d] = sem[d] + Uno(d = PermisoDe(c))
  <2>1. sem \in [ConPermiso -> Nat]
    BY DEF ITipo, TypeOK, TipoDatos
  <2>2. sem' = IF PermisoDe(c) \in ConPermiso THEN [sem EXCEPT ![PermisoDe(c)] = @ + 1] ELSE sem
    BY <1>1 DEF PublicarPcb
  <2> HIDE DEF c
  <2> QED BY <2>1, <2>2 DEF Uno
<1>4. empuje'[h] = NADA /\ \A g \in Hilos : g # h => empuje'[g] = empuje[g]
  BY <1>1 DEF PublicarPcb, ITipo, TypeOK, TipoDatos
<1>5. IF c = "exit" THEN \/ multi' = multi + 1 /\ UNCHANGED ignorar
                         \/ ignorar' = ignorar - 1 /\ UNCHANGED multi
      ELSE UNCHANGED <<multi, ignorar>>
  BY <1>1 DEF PublicarPcb, DevolverGrado
<1> QED BY <1>1, <1>2, <1>3, <1>4, <1>5 DEF PublicarPcb

\* iniciar_planificacion.
LEMMA IniciarArranca ==
  ASSUME ITipo, SinPlanificador, Iniciar
  PROVE  Arrancan /\ pc'["consola"] = "prompt"
<1>1. CASE existe
  BY <1>1, Nombres DEF Iniciar, Arrancan, ITipo, TypeOK, TipoHilos
<1>2. CASE ~ existe
  <2>1. pc["new"] = "apagado" /\ pc["exit"] = "apagado" /\ pc["corto"] = "apagado"
    BY <1>2 DEF SinPlanificador
  <2>2. pc' = PlanificadorCreado /\ pc \in [Hilos -> Etiquetas]
    BY <1>2 DEF Iniciar, ITipo, TypeOK, TipoHilos
  <2>3. \A i \in Interfaces : i \notin {"new", "exit", "corto", "consola"}
    BY NombresAssumption
  <2> QED BY <2>1, <2>2, <2>3, Nombres DEF PlanificadorCreado, Arrancan
<1> QED BY <1>1, <1>2

\* The console moves.
LEMMA IrAjeno ==
  ASSUME ITipo, NEW e, e \notin {"libera", "sigue"}, Ir("consola", e) \/ (pc' = pc /\ pc["consola"] = e)
  PROVE  Arrancan /\ pc'["consola"] \notin {"libera", "sigue"} /\ pc'["consola"] = e
BY Nombres DEF Ir, Arrancan, ITipo, TypeOK, TipoHilos

\* The other commands of the console, and the threads they start, touch no queue.
LEMMA SConsola ==
  ASSUME ITipo, SinPlanificador, LugarConsola,
         \/ IniciarPlanificacion \/ DetenerPlanificacion \/ ProcesoEstado \/ Reanuda
         \/ \E n \in NuevosGrados : Multiprogramacion(n)
         \/ BajaGrado \/ EsperaGrado \/ TomaIgnorar \/ FijaGrado
         \/ \E f \in Frenos : StopHilo(f)
  PROVE  /\ Ajeno
         /\ pc'["consola"] = "elimina" => pc["consola"] = "elimina"
<1> DEFINE Q == /\ Ajeno
                /\ pc'["consola"] = "elimina" => pc["consola"] = "elimina"
<1>0. /\ pc["consola"] \notin {"libera", "sigue"}
      /\ pc["consola"] \in {"baja", "bajaEspera", "ignoraEspera"} => CambiaGrado
  BY DEF LugarConsola
<1>1. ASSUME IniciarPlanificacion PROVE Q
  BY <1>1, IniciarArranca DEF IniciarPlanificacion, Ajeno
<1>2. ASSUME DetenerPlanificacion PROVE Q
  BY <1>0, <1>2 DEF DetenerPlanificacion, Ajeno, Arrancan
<1>3. ASSUME ProcesoEstado PROVE Q
  BY <1>3, IrAjeno DEF ProcesoEstado, Ajeno
<1>4. ASSUME Reanuda PROVE Q
  <2>1. \A h \in Hilos : h # "consola" => mano'[h] = mano[h]
    BY <1>4 DEF Reanuda, ITipo, TypeOK, TipoHilos
  <2> QED BY <1>4, <2>1, IniciarArranca DEF Reanuda, Ajeno
<1>5. ASSUME NEW n \in NuevosGrados, Multiprogramacion(n) PROVE Q
  <2>1. UNCHANGED <<datosVars, pcbVars, enMulti, recursoVars, mano, contexto, errores, kernel, mutex>>
    BY <1>5 DEF Multiprogramacion
  <2>2. Ir("consola", "reanuda") \/ Ir("consola", "baja")
    BY <1>5 DEF Multiprogramacion
  <2>3. CambiaGrado
    BY <1>5 DEF Multiprogramacion, Comando, CambiaGrado
  <2> QED BY <2>1, <2>2, <2>3, IrAjeno DEF Ajeno
<1>6. ASSUME BajaGrado PROVE Q
  <2>1. mutex'["recursos"] = mutex["recursos"]
    BY <1>6 DEF BajaGrado, Tomar, ITipo, TypeOK, Mutexes
  <2> QED BY <1>6, <2>1, IrAjeno DEF BajaGrado, Ajeno
<1>7. ASSUME EsperaGrado PROVE Q
  BY <1>0, <1>7, IrAjeno DEF EsperaGrado, Ajeno
<1>8. ASSUME TomaIgnorar PROVE Q
  <2>1. mutex'["recursos"] = mutex["recursos"]
    BY <1>8 DEF TomaIgnorar, Tomar, ITipo, TypeOK, Mutexes
  <2> QED BY <1>0, <1>8, <2>1, IrAjeno DEF TomaIgnorar, Ajeno
<1>9. ASSUME FijaGrado PROVE Q
  <2>1. mutex'["recursos"] = mutex["recursos"]
    BY <1>9 DEF FijaGrado, ITipo, TypeOK, Mutexes
  <2> QED BY <1>0, <1>9, <2>1, IrAjeno DEF FijaGrado, Turno, Ajeno
<1>10. ASSUME NEW f \in Frenos, StopHilo(f) PROVE Q
  BY <1>0, <1>10, IrAjeno DEF StopHilo, Ajeno
<1> QED
  BY <1>1, <1>2, <1>3, <1>4, <1>5, <1>6, <1>7, <1>8, <1>9, <1>10

\* FINALIZAR_PROCESO leaves its order, or starts to remove the process.
LEMMA SFinalizarProceso ==
  ASSUME ITipo, NEW p \in Pids, FinalizarProceso(p), p \in listaPcb
  PROVE  Ajeno /\ Finaliza
<1>1. \A h \in Hilos : h # "consola" => mano'[h] = mano[h]
  BY DEF FinalizarProceso, ITipo, TypeOK, TipoHilos
<1> QED BY <1>1, IrAjeno DEF FinalizarProceso, Ajeno, Finaliza

\* FINALIZAR_PROCESO takes the process out of the queue where it is and pushes it to EXIT.
LEMMA SElimina ==
  ASSUME ITipo, Elimina, kernel' = "vivo"
  PROVE  /\ Va("consola", "elimina", "reanuda") /\ empuje["consola"] = NADA
         /\ \/ UNCHANGED <<cola, empuje>>
            \/ \E c \in {"new", "ready"} \cup Recursos \cup Interfaces :
                 Mueve("consola", c, "exit", mano["consola"])
         /\ UNCHANGED <<sem, estado, pcbVars, gradoVars, mutex, recursoVars, mano, contexto, kernel>>
<1> DEFINE p == mano["consola"]
<1>1. pc["consola"] = "elimina" /\ empuje["consola"] = NADA /\ p \in Pids
  BY DEF Elimina, Turno, ITipo, Locales
<1>2. kernel = "vivo" /\ ~ Muere("caido") /\ ~ Muere("indefinido")
  BY DEF Elimina, Turno, Muere
<1>3. ASSUME NEW c \in {"new", "ready"} \cup Recursos \cup Interfaces, MoverAExit(c, p)
      PROVE  /\ Mueve("consola", c, "exit", p) /\ Va("consola", "elimina", "reanuda")
             /\ UNCHANGED <<sem, estado, pcbVars, gradoVars, mutex, recursoVars, mano, contexto, kernel>>
  <2>1. c \in Colas /\ c # "exit" /\ "exit" \in Colas
    BY Nombres, NombresAssumption
  <2> QED BY <1>1, <1>3, <2>1, EmpujarMueve, IrVa, Nombres DEF MoverAExit
<1>4. CASE EliminaEnCola(p)
  BY <1>1, <1>3, <1>4 DEF EliminaEnCola
<1>5. CASE EliminaEjecutando(p)
  BY <1>1, <1>5, IrVa, Nombres DEF EliminaEjecutando
<1>6. CASE EliminaBloqueado(p)
  <2>1. bloqueo[p] \in Bloqueos
    BY <1>1 DEF ITipo, TypeOK, TipoPcb
  <2>2. TieneCola(bloqueo[p]) /\ MoverAExit(bloqueo[p].nombre, p)
    BY <1>2, <1>6 DEF EliminaBloqueado
  <2>3. bloqueo[p].nombre \in Recursos \cup Interfaces
    BY <2>1, <2>2 DEF TieneCola, Bloqueos
  <2> QED BY <1>1, <1>3, <2>2, <2>3
<1>7. CASE EliminaTerminado
  BY <1>1, <1>7, IrVa, Nombres DEF EliminaTerminado
<1> QED BY <1>4, <1>5, <1>6, <1>7 DEF Elimina

\* A thread that dies changes nothing else.
LEMMA MuereMuerto == \A como : Muere(como) => Muerto
BY DEF Muere, Muerto

\* The console is always in one of its own places.
LEMMA LugarConsolaPaso ==
  ASSUME ITipo, LugarConsola, [Next]_vars
  PROVE  LugarConsola'
<1> USE DEF LugarConsola
<1>0. pc \in [Hilos -> Etiquetas] /\ "consola" \in Hilos
  BY Nombres DEF ITipo, TypeOK, TipoHilos
<1>1. ASSUME NEW h \in Hilos, h # "consola", NEW e, Ir(h, e) PROVE LugarConsola'
  BY <1>0, <1>1 DEF Ir
<1>2. ASSUME NEW e, Ir("consola", e),
             \/ e \in {"prompt", "imprime", "reanuda"}
             \/ e = "elimina" /\ Finaliza
             \/ e \in {"baja", "bajaEspera", "ignoraEspera"} /\ CambiaGrado
      PROVE  LugarConsola'
  BY <1>0, <1>2 DEF Ir
<1>3. ASSUME UNCHANGED pc PROVE LugarConsola'
  BY <1>3
<1>4. ASSUME NEW como, Muere(como) PROVE LugarConsola'
  BY <1>4 DEF Muere
<1>5. ASSUME Iniciar PROVE LugarConsola'
  BY <1>0, <1>5 DEF Iniciar, PlanificadorCreado
<1>6. CASE PasoNew
  BY <1>1, <1>4, <1>6, Nombres DEF PasoNew, NewMulti, NewPermiso, NewSaca, NewListo
<1>7. CASE PasoExit
  BY <1>1, <1>3, <1>4, <1>7, Nombres DEF PasoExit, ExitSaca, ExitToma, ExitFin, ExitCuenta, ExitLibera
<1>8. CASE PasoCorto
  <2>1. CASE Despacha \/ CpuDevuelve \/ ManejaProceso \/ EntraRecurso \/ Wait \/ Signal \/ SignalLibera
    BY <1>1, <1>4, <2>1, Nombres DEF Despacha, CpuDevuelve, ManejaProceso, EntraRecurso, Wait, Signal, SignalLibera
  <2>2. CASE WaitAnota \/ SignalSigue \/ Termina \/ Desenrolla
    BY <1>1, <2>2, Nombres DEF WaitAnota, SignalSigue, SeguirOListo, Termina, Desenrolla, VolverAlPlanificador
  <2> QED BY <1>8, <2>1, <2>2 DEF PasoCorto
<1>9. CASE \E i \in Interfaces : PasoIo(i)
  <2>1. \A i \in Interfaces : i # "consola" /\ i \in Hilos
    BY Nombres, NombresAssumption
  <2> QED BY <1>1, <1>4, <1>9, <2>1 DEF PasoIo, IoToma, IoTermina, IoError, IoDesconexion
<1>10. CASE PasoConsola
  <2>1. CASE IniciarProceso \/ DetenerPlanificacion \/ EsperaGrado
    BY <1>3, <2>1 DEF IniciarProceso, DetenerPlanificacion, EsperaGrado
  <2>2. CASE IniciarPlanificacion \/ Reanuda
    BY <1>5, <2>2 DEF IniciarPlanificacion, Reanuda
  <2>3. CASE ProcesoEstado \/ BajaGrado \/ TomaIgnorar \/ FijaGrado \/ \E n \in NuevosGrados : Multiprogramacion(n)
    BY <1>2, <2>3 DEF ProcesoEstado, BajaGrado, TomaIgnorar, FijaGrado, Multiprogramacion, Comando, Turno,
       CambiaGrado
  <2>4. CASE Elimina \/ \E p \in Pids : FinalizarProceso(p)
    BY <1>2, <1>4, <2>4 DEF Elimina, EliminaEnCola, MoverAExit, EliminaEjecutando, EliminaBloqueado,
       EliminaTerminado, FinalizarProceso, Finaliza
  <2> QED BY <1>10, <2>1, <2>2, <2>3, <2>4 DEF PasoConsola
<1>11. CASE \E h \in Hilos : Publicar(h)
  BY <1>3, <1>4, <1>11 DEF Publicar, PublicarPcb
<1>12. CASE \E f \in Frenos : StopHilo(f)
  BY <1>3, <1>12 DEF StopHilo
<1>13. CASE RecorridoRoto
  BY <1>4, <1>13 DEF RecorridoRoto
<1> QED BY <1>3, <1>6, <1>7, <1>8, <1>9, <1>10, <1>11, <1>12, <1>13 DEF Next, vars

\* Every step is one of PasoVivo, or kills the kernel and does nothing else.
LEMMA Pasos ==
  ASSUME ITipo, SinPlanificador, LugarConsola, [Next]_vars
  PROVE  PasoVivo \/ Muerto
<1> USE MuereMuerto
<1>1. CASE UNCHANGED vars
  BY <1>1 DEF vars, Muerto
<1>2. CASE PasoNew
  BY <1>2 DEF PasoNew, NewSaca, PasoVivo
<1>3. CASE PasoExit
  BY <1>3 DEF PasoExit, ExitSaca, PasoVivo
<1>4. CASE PasoCorto
  <2>1. CASE Despacha
    BY <2>1 DEF Despacha, PasoVivo
  <2>2. CASE ManejaProceso
    BY <2>2 DEF ManejaProceso, PasoVivo
  <2> QED BY <1>4, <2>1, <2>2 DEF PasoCorto, PasoVivo
<1>5. ASSUME NEW i \in Interfaces, PasoIo(i) PROVE PasoVivo \/ Muerto
  <2>1. CASE IoToma(i)
    BY <2>1 DEF IoToma, PasoVivo
  <2>2. CASE IoTermina(i)
    BY <2>2 DEF IoTermina, PasoVivo
  <2>3. CASE IoError(i)
    BY <2>3 DEF PasoVivo
  <2>4. CASE IoDesconexion(i)
    BY <2>4 DEF IoDesconexion
  <2> QED BY <1>5, <2>1, <2>2, <2>3, <2>4 DEF PasoIo
<1>6. CASE PasoConsola
  <2>1. CASE IniciarProceso
    BY <2>1 DEF PasoVivo
  <2>2. CASE Elimina
    <3>1. kernel' = kernel => kernel' = "vivo"
      BY <2>2 DEF Elimina, Turno
    <3>2. kernel' = kernel \/ Muere("caido") \/ Muere("indefinido")
      BY <2>2 DEF Elimina, EliminaEnCola, MoverAExit, EliminaEjecutando, EliminaBloqueado, EliminaTerminado
    <3> QED BY <2>2, <3>1, <3>2 DEF PasoVivo
  <2>3. ASSUME NEW p \in Pids, FinalizarProceso(p) PROVE PasoVivo \/ Muerto
    <3>1. CASE p \in listaPcb
      BY <2>3, <3>1, SFinalizarProceso DEF PasoVivo
    <3>2. CASE p \notin listaPcb
      BY <2>3, <3>2 DEF FinalizarProceso
    <3> QED BY <3>1, <3>2
  <2> QED BY <1>6, <2>1, <2>2, <2>3, SConsola DEF PasoConsola, PasoVivo, LugarConsola
<1>7. ASSUME NEW h \in Hilos, Publicar(h) PROVE PasoVivo \/ Muerto
  BY <1>7 DEF Publicar, PasoVivo
<1>8. ASSUME NEW f \in Frenos, StopHilo(f) PROVE PasoVivo \/ Muerto
  BY <1>8, SConsola DEF PasoVivo, LugarConsola
<1>9. CASE RecorridoRoto
  BY <1>9 DEF RecorridoRoto
<1> QED BY <1>1, <1>2, <1>3, <1>4, <1>5, <1>6, <1>7, <1>8, <1>9 DEF Next

\* COLA_EXEC and the planner stay as they are.
LEMMA EjecutaIgual ==
  ASSUME Ejecuta, cola'["exec"] = cola["exec"], mano'["corto"] = mano["corto"],
         pc'["corto"] \in {"espera", "maneja"} <=> pc["corto"] \in {"espera", "maneja"}
  PROVE  Ejecuta'
BY DEF Ejecuta

\* A push to another queue, or a pop from it.
LEMMA ExecAparte ==
  ASSUME "exec" \in Colas
  PROVE  /\ \A h, p : \A c \in Colas : c # "exec" /\ Pone(h, c, p) => cola'["exec"] = cola["exec"]
         /\ \A h : \A a, c \in Colas : a # "exec" /\ c # "exec" /\ Pasa(h, a, c) => cola'["exec"] = cola["exec"]
         /\ \A h, p : \A a, c \in Colas : a # "exec" /\ c # "exec" /\ Mueve(h, a, c, p) => cola'["exec"] = cola["exec"]
         /\ \A a \in Colas : a # "exec" /\ Retira(a) => cola'["exec"] = cola["exec"]
BY DEF Pone, Pasa, Mueve, Retira

\* A thread other than the planner moves.
LEMMA VaOtro ==
  ASSUME NEW h \in Hilos, h # "corto", NEW d, NEW e, Va(h, d, e)
  PROVE  pc'["corto"] = pc["corto"]
BY Nombres DEF Va

\* Names of queues and threads.
LEMMA Distintos ==
  /\ \A r \in Recursos \cup Interfaces :
       r \notin {"new", "ready", "aux", "exec", "exit", "corto", "consola", LIBRE, "ninguna"}
  /\ \A r \in Recursos : r \notin Interfaces
BY NombresAssumption DEF LIBRE

\* manejar_new, manejar_exit and the interfaces do not touch EXEC.
LEMMA EjecutaOtros ==
  ASSUME ITipo, Ejecuta,
         \/ NewMulti \/ NewPermiso \/ NewListo \/ (NewSaca /\ cola["new"] # <<>>)
         \/ ExitToma \/ ExitFin \/ ExitCuenta \/ \E r \in Recursos : ExitLibera(r)
         \/ ExitSaca /\ cola["exit"] # <<>> /\ Head(cola["exit"]) \in listaPcb
         \/ \E i \in Interfaces : IoToma(i) /\ cola[i] # <<>> /\ Head(cola[i]) \in listaPcb
         \/ \E i \in Interfaces : IoTermina(i) /\ mano[i] \in listaPcb
         \/ \E i \in Interfaces : IoError(i)
  PROVE  Ejecuta'
<1> USE Nombres, Distintos
<1>1. CASE NewMulti \/ NewPermiso \/ NewListo
  BY <1>1, SNewMulti, SNewPermiso, SNewListo, VaOtro, EjecutaIgual
<1>2. CASE NewSaca /\ cola["new"] # <<>>
  BY <1>2, SNewSaca, VaOtro, ExecAparte, EjecutaIgual
<1>3. CASE ExitToma \/ ExitFin \/ ExitCuenta
  BY <1>3, SExitToma, SExitFin, SExitCuenta, VaOtro, EjecutaIgual DEF Lleva
<1>4. ASSUME NEW r \in Recursos, ExitLibera(r) PROVE Ejecuta'
  <2>1. cola'["exec"] = cola["exec"]
    BY <1>4, SExitLibera, SLiberar, ExecAparte
  <2> QED BY <1>4, <2>1, SExitLibera, EjecutaIgual
<1>5. CASE ExitSaca /\ cola["exit"] # <<>> /\ Head(cola["exit"]) \in listaPcb
  BY <1>5, SExitSaca, VaOtro, ExecAparte, EjecutaIgual DEF Lleva
<1>6. ASSUME NEW i \in Interfaces, IoToma(i), cola[i] # <<>>, Head(cola[i]) \in listaPcb PROVE Ejecuta'
  BY <1>6, SIoToma, VaOtro, EjecutaIgual DEF Lleva
<1>7. ASSUME NEW i \in Interfaces, IoTermina(i), mano[i] \in listaPcb PROVE Ejecuta'
  <2>1. cola'["exec"] = cola["exec"]
    BY <1>7, SIoTermina, ExecAparte
  <2> QED BY <1>7, <2>1, SIoTermina, VaOtro, EjecutaIgual DEF Lleva
<1>8. ASSUME NEW i \in Interfaces, IoError(i) PROVE Ejecuta'
  BY <1>8, SIoError, VaOtro, EjecutaIgual DEF Lleva
<1> QED BY <1>1, <1>2, <1>3, <1>4, <1>5, <1>6, <1>7, <1>8

\* The planner puts one process in EXEC and takes it out.
LEMMA EjecutaCorto ==
  ASSUME ITipo, Ejecuta,
         \/ Despacha /\ cola[ColaSiguiente] # <<>>
         \/ CpuDevuelve
         \/ ManejaProceso /\ cola["exec"] # <<>> /\ Head(cola["exec"]) \in listaPcb
         \/ Termina \/ Desenrolla \/ EntraRecurso \/ Wait \/ WaitAnota
         \/ Signal \/ SignalLibera \/ SignalSigue
  PROVE  Ejecuta'
<1> USE Nombres, Distintos
<1>0. \A x : Tail(<<x>>) = <<>> /\ Head(<<x>>) = x /\ Append(<<>>, x) = <<x>>
  OBVIOUS
<1>1. CASE Despacha /\ cola[ColaSiguiente] # <<>>
  <2>1. cola["exec"] = <<>>
    BY <1>1, SDespacha DEF Ejecuta, Va
  <2>2. cola'["exec"] = <<Head(cola[ColaSiguiente])>>
    BY <1>0, <1>1, <2>1, SDespacha DEF Pasa
  <2> QED BY <1>1, <2>2, SDespacha DEF Ejecuta, Va, Lleva
<1>2. CASE CpuDevuelve
  BY <1>2, SCpuDevuelve DEF Ejecuta, Va
<1>3. CASE ManejaProceso /\ cola["exec"] # <<>> /\ Head(cola["exec"]) \in listaPcb
  <2>1. cola["exec"] = <<mano["corto"]>>
    BY <1>3, SManejaProceso DEF Ejecuta
  <2>2. cola'["exec"] = <<>> /\ pc'["corto"] \in {"recurso", "termina"}
    BY <1>0, <1>3, <2>1, SManejaProceso DEF Pasa, Retira, Va
  <2> QED BY <2>2 DEF Ejecuta
<1>4. CASE Termina \/ Desenrolla \/ EntraRecurso \/ Wait
  BY <1>4, SVuelve, SEntraRecurso, SWait DEF Ejecuta, Va
<1>5. ASSUME NEW e, e \in {"anota", "signal", "sigue"}, pc["corto"] = e,
             NEW c \in Colas, Pone("corto", c, mano["corto"]), UNCHANGED mano,
             \/ c = "exec" /\ Va("corto", e, "espera")
             \/ c # "exec" /\ Va("corto", e, "desenrolla")
      PROVE  Ejecuta'
  <2>1. cola["exec"] = <<>>
    BY <1>5 DEF Ejecuta
  <2>2. CASE c = "exec"
    BY <1>0, <1>5, <2>1, <2>2 DEF Ejecuta, Va, Pone
  <2>3. CASE c # "exec"
    BY <1>5, <2>1, <2>3 DEF Ejecuta, Va, Pone
  <2> QED BY <2>2, <2>3
<1>6. CASE WaitAnota
  BY <1>5, <1>6, SWaitAnota
<1>7. CASE Signal
  <2>1. CASE Pone("corto", "exit", mano["corto"]) /\ Va("corto", "signal", "desenrolla")
    BY <1>5, <1>7, <2>1, SSignal
  <2>2. CASE UNCHANGED <<cola, mano>> /\ Va("corto", "signal", "libera")
    BY <2>2 DEF Ejecuta, Va
  <2> QED BY <1>7, <2>1, <2>2, SSignal
<1>8. CASE SignalLibera
  <2>1. cola'["exec"] = cola["exec"]
    BY <1>8, SSignalLibera, SLiberar, ExecAparte
  <2> QED BY <1>8, <2>1, SSignalLibera DEF Ejecuta, Va
<1>9. CASE SignalSigue
  <2>1. pc["corto"] = "sigue"
    BY <1>9, SSignalSigue DEF Va
  <2> QED BY <1>5, <1>9, <2>1, SSignalSigue
<1> QED BY <1>1, <1>2, <1>3, <1>4, <1>6, <1>7, <1>8, <1>9

\* COLA_EXEC is the burst's: every step keeps Ejecuta.
LEMMA EjecutaPaso ==
  ASSUME ITipo, Ejecuta, PasoVivo
  PROVE  Ejecuta'
<1> USE Nombres, Distintos
<1>1. ASSUME NEW h \in Hilos, Publicar(h), empuje[h].pid \in listaPcb PROVE Ejecuta'
  BY <1>1, SPublicar, EjecutaIgual
<1>2. CASE IniciarProceso
  BY <1>2, SIniciarProceso, ExecAparte, EjecutaIgual
<1>3. CASE Elimina /\ kernel' = "vivo"
  <2>1. cola'["exec"] = cola["exec"]
    BY <1>3, SElimina, ExecAparte
  <2> QED BY <1>3, <2>1, SElimina, VaOtro, EjecutaIgual
<1>4. CASE Ajeno
  BY <1>4, EjecutaIgual DEF Ajeno, Arrancan
<1> QED BY <1>1, <1>2, <1>3, <1>4, EjecutaOtros, EjecutaCorto DEF PasoVivo

\* mutex_recursos stays where it is, and nobody begins to need it.
LEMMA CerrojoIgual ==
  ASSUME Cerrojo, mutex'["recursos"] = mutex["recursos"],
         pc'["corto"] = "anota" => pc["corto"] = "anota",
         \A h \in Hilos : empuje'[h] # NADA /\ pc'[h] \in {"libera", "sigue"}
                            => empuje[h] # NADA /\ pc[h] \in {"libera", "sigue"}
  PROVE  Cerrojo'
BY DEF Cerrojo

\* A thread moves, with its push begun or not, away from liberar_recurso.
LEMMA CerrojoVa ==
  ASSUME Cerrojo, mutex'["recursos"] = mutex["recursos"], NEW h \in Hilos, NEW d, NEW e, Va(h, d, e),
         e \notin {"libera", "sigue"}, h = "corto" => e # "anota",
         \A g \in Hilos : g # h => empuje'[g] = empuje[g]
  PROVE  Cerrojo'
<1>1. pc'["corto"] = "anota" => pc["corto"] = "anota"
  BY Nombres DEF Va
<1>2. \A g \in Hilos : empuje'[g] # NADA /\ pc'[g] \in {"libera", "sigue"}
                            => empuje[g] # NADA /\ pc[g] \in {"libera", "sigue"}
  BY DEF Va
<1> QED BY <1>1, <1>2, CerrojoIgual

\* A thread moves with no push of its own.
LEMMA CerrojoVaVacio ==
  ASSUME Cerrojo, mutex'["recursos"] = mutex["recursos"], NEW h \in Hilos, NEW d, NEW e, Va(h, d, e),
         h = "corto" => e # "anota", UNCHANGED empuje, empuje[h] = NADA
  PROVE  Cerrojo'
<1>1. pc'["corto"] = "anota" => pc["corto"] = "anota"
  BY Nombres DEF Va
<1>2. \A g \in Hilos : empuje'[g] # NADA /\ pc'[g] \in {"libera", "sigue"}
                            => empuje[g] # NADA /\ pc[g] \in {"libera", "sigue"}
  BY DEF Va
<1> QED BY <1>1, <1>2, CerrojoIgual

\* Nobody owns a free mutex.
LEMMA LibreEsNadie == LIBRE \notin Hilos
BY NombresAssumption DEF LIBRE, Hilos

\* liberar_recurso takes it free and, if it pushes, keeps it.
LEMMA CerrojoLibera ==
  ASSUME Cerrojo, NEW h \in Hilos, mutex["recursos"] = LIBRE, empuje[h] = NADA,
         h = "corto" => pc'["corto"] # "anota",
         \A g \in Hilos : g # h => pc'[g] = pc[g],
         \/ UNCHANGED <<cola, empuje, mutex>>
         \/ (mutex'["recursos"] = h /\ \E c, p : Comienza(h, c, p))
  PROVE  Cerrojo'
<1>1. pc["corto"] # "anota" /\ pc'["corto"] # "anota"
  BY Nombres, LibreEsNadie DEF Cerrojo
<1>2. \A g \in Hilos : ~ (empuje[g] # NADA /\ pc[g] \in {"libera", "sigue"})
  BY LibreEsNadie DEF Cerrojo
<1>3. CASE UNCHANGED <<cola, empuje, mutex>>
  BY <1>1, <1>2, <1>3 DEF Cerrojo
<1>4. CASE mutex'["recursos"] = h /\ \E c, p : Comienza(h, c, p)
  BY <1>1, <1>2, <1>4 DEF Cerrojo, Comienza
<1> QED BY <1>3, <1>4

\* manejar_new and manejar_exit keep it.
LEMMA CerrojoNewExit ==
  ASSUME ITipo, Cerrojo,
         \/ NewMulti \/ NewPermiso \/ NewListo \/ (NewSaca /\ cola["new"] # <<>>)
         \/ ExitToma \/ ExitFin \/ ExitCuenta \/ \E r \in Recursos : ExitLibera(r)
         \/ ExitSaca /\ cola["exit"] # <<>> /\ Head(cola["exit"]) \in listaPcb
  PROVE  Cerrojo'
<1> USE Nombres
<1>1. CASE NewMulti \/ NewPermiso \/ NewListo
  BY <1>1, SNewMulti, SNewPermiso, SNewListo, CerrojoVa
<1>2. CASE NewSaca /\ cola["new"] # <<>>
  BY <1>2, SNewSaca, CerrojoVa DEF Pasa, Comienza
<1>3. CASE ExitToma \/ ExitFin \/ ExitCuenta
  BY <1>3, SExitToma, SExitFin, SExitCuenta, CerrojoVaVacio
<1>4. ASSUME NEW r \in Recursos, ExitLibera(r) PROVE Cerrojo'
  BY <1>4, SExitLibera, SLiberar, CerrojoLibera DEF Pasa
<1>5. CASE ExitSaca /\ cola["exit"] # <<>> /\ Head(cola["exit"]) \in listaPcb
  BY <1>5, SExitSaca, CerrojoVaVacio DEF Retira
<1> QED BY <1>1, <1>2, <1>3, <1>4, <1>5

\* The planner takes mutex_recursos free, and leaves it only to whom it belongs.
LEMMA CerrojoCorto ==
  ASSUME ITipo, Cerrojo,
         \/ Despacha /\ cola[ColaSiguiente] # <<>>
         \/ CpuDevuelve
         \/ ManejaProceso /\ cola["exec"] # <<>> /\ Head(cola["exec"]) \in listaPcb
         \/ Termina \/ Desenrolla \/ EntraRecurso \/ Wait \/ WaitAnota
         \/ Signal \/ SignalLibera \/ SignalSigue
  PROVE  Cerrojo'
<1> USE Nombres
<1>1. CASE Despacha /\ cola[ColaSiguiente] # <<>>
  BY <1>1, SDespacha, CerrojoVa DEF Pasa, Comienza
<1>2. CASE CpuDevuelve \/ EntraRecurso
  BY <1>2, SCpuDevuelve, SEntraRecurso, CerrojoVaVacio
<1>3. CASE ManejaProceso /\ cola["exec"] # <<>> /\ Head(cola["exec"]) \in listaPcb
  <2>1. UNCHANGED mutex /\ \A g \in Hilos : g # "corto" => empuje'[g] = empuje[g]
    BY <1>3, SManejaProceso DEF Pasa, Comienza, Retira
  <2>2. \E e \in {"recurso", "termina"} : Va("corto", "maneja", e)
    BY <1>3, SManejaProceso
  <2> QED BY <2>1, <2>2, CerrojoVa
<1>4. CASE Termina \/ Desenrolla
  <2>1. pc["corto"] # "anota" /\ pc'["corto"] = "permiso" /\ \A g \in Hilos : g # "corto" => pc'[g] = pc[g]
    BY <1>4, SVuelve DEF Va
  <2> QED BY <1>4, <2>1, SVuelve DEF Cerrojo
<1>5. CASE Wait
  <2>1. \A g \in Hilos : ~ (empuje[g] # NADA /\ pc[g] \in {"libera", "sigue"})
    BY <1>5, SWait, LibreEsNadie DEF Cerrojo
  <2> QED BY <1>5, <2>1, SWait DEF Cerrojo, Va
<1>6. CASE WaitAnota \/ SignalSigue
  BY <1>6, SWaitAnota, SSignalSigue, CerrojoVa DEF Pone, Comienza
<1>7. CASE Signal
  <2>1. CASE Va("corto", "signal", "libera") /\ UNCHANGED <<cola, empuje>>
    BY <1>7, <2>1, SSignal, CerrojoVaVacio
  <2>2. CASE Va("corto", "signal", "desenrolla") /\ Pone("corto", "exit", mano["corto"])
    BY <1>7, <2>2, SSignal, CerrojoVa DEF Pone, Comienza
  <2> QED BY <1>7, <2>1, <2>2, SSignal
<1>8. CASE SignalLibera
  BY <1>8, SSignalLibera, SLiberar, CerrojoLibera DEF Pasa, Va
<1> QED BY <1>1, <1>2, <1>3, <1>4, <1>5, <1>6, <1>7, <1>8

\* Every step keeps Cerrojo.
LEMMA CerrojoPaso ==
  ASSUME ITipo, Cerrojo, LugarConsola, PasoVivo
  PROVE  Cerrojo'
<1> USE Nombres, Distintos
<1>1. ASSUME NEW i \in Interfaces, IoToma(i), cola[i] # <<>>, Head(cola[i]) \in listaPcb PROVE Cerrojo'
  BY <1>1, SIoToma, CerrojoVaVacio
<1>2. ASSUME NEW i \in Interfaces, IoTermina(i), mano[i] \in listaPcb PROVE Cerrojo'
  BY <1>2, SIoTermina, CerrojoVa DEF Mueve, Comienza
<1>3. ASSUME NEW h \in Hilos, Publicar(h), empuje[h].pid \in listaPcb PROVE Cerrojo'
  <2>1. /\ empuje[h] # NADA /\ empuje'[h] = NADA /\ \A g \in Hilos : g # h => empuje'[g] = empuje[g]
        /\ UNCHANGED pc
        /\ mutex'["recursos"] = IF "recursos" \in SueltaTrasPublicar(h) THEN LIBRE ELSE mutex["recursos"]
    BY <1>3, SPublicar DEF Mutexes
  <2>2. CASE "recursos" \in SueltaTrasPublicar(h)
    <3>1. pc[h] \in {"libera", "sigue"} /\ mutex["recursos"] = h
      BY <2>1, <2>2 DEF SueltaTrasPublicar, Cerrojo
    <3> QED BY <2>1, <3>1 DEF Cerrojo
  <2>3. CASE "recursos" \notin SueltaTrasPublicar(h)
    BY <2>1, <2>3, CerrojoIgual
  <2> QED BY <2>2, <2>3
<1>4. CASE IniciarProceso
  BY <1>4, SIniciarProceso, CerrojoIgual DEF Pone, Comienza
<1>5. CASE Elimina /\ kernel' = "vivo"
  BY <1>5, SElimina, CerrojoVa DEF Mueve, Comienza
<1>6. CASE Ajeno
  <2>1. UNCHANGED empuje /\ mutex'["recursos"] = mutex["recursos"] /\ pc'["consola"] \notin {"libera", "sigue"}
    BY <1>6 DEF Ajeno
  <2>2. CASE \A h \in Hilos : h # "consola" => pc'[h] = pc[h]
    BY <2>1, <2>2, CerrojoIgual
  <2>3. CASE /\ pc'["new"] = "multi" /\ pc'["exit"] = "permiso" /\ pc'["corto"] = "permiso"
             /\ \A i \in Interfaces : pc'[i] = pc[i]
    <3>1. \A h \in Hilos : pc'[h] \in {"libera", "sigue"} => h \in Interfaces
      BY <2>1, <2>3 DEF Hilos
    <3> QED BY <2>1, <2>3, <3>1, CerrojoIgual
  <2> QED BY <1>6, <2>2, <2>3 DEF Ajeno, Arrancan
<1>7. ASSUME NEW i \in Interfaces, IoError(i) PROVE Cerrojo'
  BY <1>7, SIoError, CerrojoVaVacio
<1> QED BY <1>1, <1>2, <1>3, <1>4, <1>5, <1>6, <1>7, CerrojoNewExit, CerrojoCorto DEF PasoVivo

\* Who is owed instances does not change.
LEMMA DeudaIgual ==
  ASSUME Deuda, UNCHANGED instancias, \A r \in Recursos : cola'[r] = cola[r],
         pc'["corto"] = "anota" <=> pc["corto"] = "anota",
         pc["corto"] = "anota" => contexto' = contexto
  PROVE  Deuda'
BY DEF Deuda, EnAnota, RecursoPedido, Uno

\* Pushes and pops elsewhere.
LEMMA RecursosAparte ==
  ASSUME ITipo
  PROVE  /\ \A h, p : \A c \in Colas : c \notin Recursos /\ Pone(h, c, p) => \A r \in Recursos : cola'[r] = cola[r]
         /\ \A h : \A a, c \in Colas : a \notin Recursos /\ c \notin Recursos /\ Pasa(h, a, c)
              => \A r \in Recursos : cola'[r] = cola[r]
         /\ \A h, p : \A a, c \in Colas : a \notin Recursos /\ c \notin Recursos /\ Mueve(h, a, c, p)
              => \A r \in Recursos : cola'[r] = cola[r]
         /\ \A a \in Colas : a \notin Recursos /\ Retira(a) => \A r \in Recursos : cola'[r] = cola[r]
BY Nombres DEF Pone, Pasa, Mueve, Retira

\* What list_remove_element leaves.
LEMMA LargoQuitar ==
  ASSUME NEW s \in Seq(Pids), NEW p
  PROVE  /\ Quitar(s, p) \in Seq(Pids)
         /\ Len(Quitar(s, p)) = Len(s) - Uno(Contiene(s, p))
         /\ ~ Contiene(s, p) => Quitar(s, p) = s
<1>1. CASE Contiene(s, p)
  <2>1. Len(s) \in Nat \ {0}
    BY <1>1 DEF Contiene
  <2>2. \A k \in 1 .. Len(s) - 1 : s[k] \in Pids /\ s[k + 1] \in Pids
    BY <2>1
  <2>3. Quitar(s, p) \in [1 .. Len(s) - 1 -> Pids]
    BY <1>1, <2>2 DEF Quitar
  <2>4. Quitar(s, p) \in Seq(Pids) /\ Len(Quitar(s, p)) = Len(s) - 1
    BY <2>1, <2>3
  <2> QED BY <1>1, <2>4 DEF Uno
<1>2. CASE ~ Contiene(s, p)
  BY <1>2 DEF Quitar, Uno
<1> QED BY <1>1, <1>2

\* liberar_recurso pays one back.
LEMMA DeudaLibera ==
  ASSUME ITipo, Cerrojo, Deuda, NEW h \in Hilos, NEW r \in Recursos, LiberarRecurso(h, r), empuje[h] = NADA,
         pc'["corto"] # "anota"
  PROVE  Deuda'
<1> USE Nombres, Distintos
<1>1. /\ mutex["recursos"] = LIBRE /\ instancias'[r] = instancias[r] + 1
      /\ \A q \in Recursos : q # r => instancias'[q] = instancias[q]
      /\ \/ /\ UNCHANGED <<cola, empuje, mutex>>
            /\ ~ (instancias[r] + 1 <= 0 /\ cola[r] # <<>>)
         \/ /\ Pasa(h, r, "ready") /\ instancias[r] + 1 <= 0
  BY SLiberar
<1>2. pc["corto"] # "anota"
  BY <1>1, LibreEsNadie DEF Cerrojo
<1>3. \A q \in Recursos : EnAnota(q) = 0 /\ EnAnota(q)' = 0
  BY <1>2 DEF EnAnota, Uno
<1>4. \A q \in Recursos : Len(cola[q]) \in Nat /\ instancias[q] \in Int /\ cola[q] \in Seq(Pids)
  BY DEF ITipo, TypeOK, TipoDatos, TipoRecursos
<1>5. \A q \in Recursos : Len(cola[q]) <= IF instancias[q] < 0 THEN - instancias[q] ELSE 0
  BY <1>3, <1>4 DEF Deuda
<1>6. \A q \in Recursos : q # r => Len(cola'[q]) = Len(cola[q])
  BY <1>1 DEF Pasa
<1>7. Len(cola'[r]) <= IF instancias'[r] < 0 THEN - instancias'[r] ELSE 0
  <2>1. CASE UNCHANGED <<cola, empuje, mutex>> /\ ~ (instancias[r] + 1 <= 0 /\ cola[r] # <<>>)
    BY <1>1, <1>4, <1>5, <2>1
  <2>2. CASE Pasa(h, r, "ready") /\ instancias[r] + 1 <= 0
    <3>1. cola[r] # <<>> /\ cola'[r] = Tail(cola[r])
      BY <2>2 DEF Pasa
    <3>2. Len(cola'[r]) = Len(cola[r]) - 1
      BY <1>4, <3>1
    <3> QED BY <1>1, <1>4, <1>5, <2>2, <3>2
  <2> QED BY <1>1, <2>1, <2>2
<1>8. \A q \in Recursos : Len(cola'[q]) <= IF instancias'[q] < 0 THEN - instancias'[q] ELSE 0
  <2> SUFFICES ASSUME NEW q \in Recursos, q # r
               PROVE  Len(cola'[q]) <= IF instancias'[q] < 0 THEN - instancias'[q] ELSE 0
    BY <1>7
  <2> QED BY <1>1, <1>5, <1>6
<1>9. \A q \in Recursos : Len(cola'[q]) \in Nat
  BY TipoLiberar
<1> QED BY <1>3, <1>8, <1>9 DEF Deuda

\* A WAIT takes one and is counted as waiting, if none was left.
LEMMA DeudaWait ==
  ASSUME ITipo, Deuda, Wait
  PROVE  Deuda'
<1>1. /\ RecursoPedido \in Recursos
      /\ pc["corto"] = "wait" /\ pc'["corto"] = "anota" /\ RecursoPedido' = RecursoPedido
      /\ instancias'[RecursoPedido] = instancias[RecursoPedido] - 1
      /\ \A q \in Recursos : q # RecursoPedido => instancias'[q] = instancias[q]
      /\ UNCHANGED cola
  BY SWait, Nombres DEF Wait, Turno, ITipo, Locales, Va, RecursoPedido
<1>2. SUFFICES ASSUME NEW q \in Recursos
               PROVE  Len(cola[q]) + Uno(RecursoPedido = q) <=
                        IF instancias'[q] < 0 THEN - instancias'[q] ELSE Uno(RecursoPedido = q)
  BY <1>1 DEF Deuda, EnAnota
<1>3. Len(cola[q]) \in Nat /\ instancias[q] \in Int
  BY <1>2, Nombres DEF ITipo, TypeOK, TipoDatos, TipoRecursos
<1>4. Len(cola[q]) + 0 <= IF instancias[q] < 0 THEN - instancias[q] ELSE 0
  BY <1>1, <1>2 DEF Deuda, EnAnota, Uno
<1>5. CASE RecursoPedido = q
  <2>1. instancias'[q] = instancias[q] - 1 /\ Uno(RecursoPedido = q) = 1
    BY <1>1, <1>5 DEF Uno
  <2> QED BY <1>3, <1>4, <2>1
<1>6. CASE RecursoPedido # q
  <2>1. instancias'[q] = instancias[q] /\ Uno(RecursoPedido = q) = 0
    BY <1>1, <1>2, <1>6 DEF Uno
  <2> QED BY <1>3, <1>4, <2>1
<1> QED BY <1>5, <1>6

\* It is written down and, with a negative count, queued.
LEMMA DeudaWaitAnota ==
  ASSUME ITipo, Deuda, WaitAnota
  PROVE  Deuda'
<1> USE Nombres, Distintos
<1>1. /\ pc["corto"] = "anota" /\ RecursoPedido \in Recursos /\ UNCHANGED <<instancias, contexto>>
      /\ pc'["corto"] # "anota"
  BY SWaitAnota DEF Va
<1>2. SUFFICES ASSUME NEW q \in Recursos
               PROVE  Len(cola'[q]) + 0 <= IF instancias[q] < 0 THEN - instancias[q] ELSE 0
  BY <1>1 DEF Deuda, EnAnota, Uno
<1>3. cola[q] \in Seq(Pids) /\ instancias[q] \in Int
  BY <1>2 DEF ITipo, TypeOK, TipoDatos, TipoRecursos
<1>4. Len(cola[q]) + Uno(RecursoPedido = q) <=
        IF instancias[q] < 0 THEN - instancias[q] ELSE Uno(RecursoPedido = q)
  BY <1>1, <1>2 DEF Deuda, EnAnota
<1>5. CASE RecursoPedido = q
  <2>1. Len(cola[q]) + 1 <= IF instancias[q] < 0 THEN - instancias[q] ELSE 1
    BY <1>4, <1>5 DEF Uno
  <2>2. CASE instancias[q] < 0 /\ Pone("corto", q, mano["corto"])
    <3>1. cola'[q] = Append(cola[q], mano["corto"]) /\ mano["corto"] \in Pids
      BY <2>2 DEF Pone
    <3>2. Len(cola'[q]) = Len(cola[q]) + 1
      BY <1>3, <3>1
    <3> QED BY <1>3, <2>1, <2>2, <3>2
  <2>3. CASE instancias[q] >= 0 /\ (Pone("corto", "exec", mano["corto"]) \/ Pone("corto", "ready", mano["corto"]))
    <3>1. cola'[q] = cola[q]
      BY <1>2, <2>3, RecursosAparte
    <3> QED BY <1>3, <2>1, <2>3, <3>1
  <2> QED BY <1>5, <2>2, <2>3, SWaitAnota
<1>6. CASE RecursoPedido # q
  <2>1. cola'[q] = cola[q]
    <3>1. \E c \in {RecursoPedido, "exec", "ready"} : Pone("corto", c, mano["corto"])
      BY SWaitAnota
    <3> QED BY <1>2, <1>6, <3>1 DEF Pone
  <2>2. Len(cola[q]) + 0 <= IF instancias[q] < 0 THEN - instancias[q] ELSE 0
    BY <1>4, <1>6 DEF Uno
  <2> QED BY <2>1, <2>2
<1> QED BY <1>5, <1>6

\* FINALIZAR_PROCESO may take one out of the queue, never put one in.
LEMMA DeudaElimina ==
  ASSUME ITipo, Deuda, Elimina, kernel' = "vivo"
  PROVE  Deuda'
<1> USE Nombres, Distintos
<1>1. UNCHANGED <<instancias, contexto>> /\ pc'["corto"] = pc["corto"]
  BY SElimina DEF Va
<1>2. SUFFICES ASSUME NEW q \in Recursos PROVE Len(cola'[q]) \in Nat /\ Len(cola'[q]) <= Len(cola[q])
  <2>1. \A q \in Recursos : EnAnota(q)' = EnAnota(q) /\ EnAnota(q) \in Nat
    BY <1>1 DEF EnAnota, RecursoPedido, Uno
  <2>2. \A q \in Recursos : Len(cola[q]) \in Nat /\ instancias[q] \in Int
    BY DEF ITipo, TypeOK, TipoDatos, TipoRecursos
  <2>3. SUFFICES ASSUME NEW q \in Recursos
                 PROVE  Len(cola'[q]) + EnAnota(q) <= IF instancias[q] < 0 THEN - instancias[q] ELSE EnAnota(q)
    BY <1>1, <2>1 DEF Deuda
  <2>4. Len(cola[q]) + EnAnota(q) <= IF instancias[q] < 0 THEN - instancias[q] ELSE EnAnota(q)
    BY <2>3 DEF Deuda
  <2> QED BY <1>2, <2>1, <2>2, <2>3, <2>4
<1>3. cola[q] \in Seq(Pids)
  BY <1>2 DEF ITipo, TypeOK, TipoDatos
<1>4. CASE UNCHANGED cola
  BY <1>3, <1>4
<1>5. ASSUME NEW c \in {"new", "ready"} \cup Recursos \cup Interfaces, Mueve("consola", c, "exit", mano["consola"])
      PROVE  Len(cola'[q]) \in Nat /\ Len(cola'[q]) <= Len(cola[q])
  <2>1. cola'[q] = cola[q] \/ cola'[q] = Quitar(cola[q], mano["consola"])
    BY <1>2, <1>5 DEF Mueve
  <2> QED BY <1>3, <2>1, LargoQuitar DEF Uno
<1> QED BY <1>4, <1>5, SElimina

\* The steps that touch neither the resources nor those who wait for them.
LEMMA RecursosQuietos ==
  ASSUME ITipo,
         \/ NewMulti \/ NewPermiso \/ NewListo \/ (NewSaca /\ cola["new"] # <<>>)
         \/ ExitToma \/ ExitFin \/ ExitCuenta
         \/ ExitSaca /\ cola["exit"] # <<>> /\ Head(cola["exit"]) \in listaPcb
         \/ Despacha /\ cola[ColaSiguiente] # <<>>
         \/ CpuDevuelve \/ Termina \/ Desenrolla \/ EntraRecurso \/ SignalSigue
         \/ ManejaProceso /\ cola["exec"] # <<>> /\ Head(cola["exec"]) \in listaPcb
         \/ \E i \in Interfaces : IoToma(i) /\ cola[i] # <<>> /\ Head(cola[i]) \in listaPcb
         \/ \E i \in Interfaces : IoTermina(i) /\ mano[i] \in listaPcb
         \/ \E i \in Interfaces : IoError(i)
         \/ \E h \in Hilos : Publicar(h) /\ empuje[h].pid \in listaPcb
         \/ IniciarProceso \/ Ajeno
  PROVE  /\ UNCHANGED <<instancias, asignados>> /\ \A r \in Recursos : cola'[r] = cola[r]
         /\ pc'["corto"] = "anota" <=> pc["corto"] = "anota"
         /\ pc["corto"] = "anota" => contexto' = contexto
<1> USE Nombres, Distintos
<1> DEFINE Igual ==
      /\ UNCHANGED <<instancias, asignados>> /\ \A r \in Recursos : cola'[r] = cola[r]
      /\ pc'["corto"] = "anota" <=> pc["corto"] = "anota"
      /\ pc["corto"] = "anota" => contexto' = contexto
<1> SUFFICES Igual
  OBVIOUS
<1>1. CASE NewMulti \/ NewPermiso \/ NewListo
  BY <1>1, SNewMulti, SNewPermiso, SNewListo, VaOtro
<1>2. CASE NewSaca /\ cola["new"] # <<>>
  BY <1>2, SNewSaca, VaOtro, RecursosAparte
<1>3. CASE ExitToma \/ ExitFin \/ ExitCuenta
  BY <1>3, SExitToma, SExitFin, SExitCuenta, VaOtro
<1>4. CASE ExitSaca /\ cola["exit"] # <<>> /\ Head(cola["exit"]) \in listaPcb
  BY <1>4, SExitSaca, VaOtro, RecursosAparte
<1>5. CASE Despacha /\ cola[ColaSiguiente] # <<>>
  <2>1. ColaSiguiente \in Colas /\ ColaSiguiente \notin Recursos
    BY DEF ColaSiguiente
  <2>2. \A r \in Recursos : cola'[r] = cola[r]
    BY <1>5, <2>1, SDespacha, RecursosAparte
  <2> QED BY <1>5, <2>2, SDespacha DEF Va
<1>6. CASE CpuDevuelve \/ Termina \/ Desenrolla \/ EntraRecurso
  BY <1>6, SCpuDevuelve, SVuelve, SEntraRecurso DEF Va
<1>7. CASE ManejaProceso /\ cola["exec"] # <<>> /\ Head(cola["exec"]) \in listaPcb
  <2>1. \A r \in Recursos : cola'[r] = cola[r]
    BY <1>7, SManejaProceso, RecursosAparte
  <2> QED BY <1>7, <2>1, SManejaProceso DEF Va
<1>8. CASE SignalSigue
  <2>1. \A r \in Recursos : cola'[r] = cola[r]
    BY <1>8, SSignalSigue, RecursosAparte
  <2> QED BY <1>8, <2>1, SSignalSigue DEF Va
<1>9. ASSUME NEW i \in Interfaces, IoToma(i), cola[i] # <<>>, Head(cola[i]) \in listaPcb PROVE Igual
  BY <1>9, SIoToma, VaOtro
<1>10. ASSUME NEW i \in Interfaces, IoTermina(i), mano[i] \in listaPcb PROVE Igual
  <2>1. \A r \in Recursos : cola'[r] = cola[r]
    BY <1>10, SIoTermina, RecursosAparte
  <2> QED BY <1>10, <2>1, SIoTermina, VaOtro
<1>11. ASSUME NEW h \in Hilos, Publicar(h), empuje[h].pid \in listaPcb PROVE Igual
  BY <1>11, SPublicar
<1>12. CASE IniciarProceso
  BY <1>12, SIniciarProceso, RecursosAparte
<1>13. CASE Ajeno
  BY <1>13 DEF Ajeno, Arrancan
<1>14. ASSUME NEW i \in Interfaces, IoError(i) PROVE Igual
  BY <1>14, SIoError, VaOtro
<1> HIDE DEF Igual
<1> QED BY <1>1, <1>2, <1>3, <1>4, <1>5, <1>6, <1>7, <1>8, <1>9, <1>10, <1>11, <1>12, <1>13, <1>14

\* Every step keeps Deuda.
LEMMA DeudaPaso ==
  ASSUME ITipo, Cerrojo, Deuda, PasoVivo
  PROVE  Deuda'
<1> USE Nombres, Distintos
<1>1. ASSUME NEW r \in Recursos, ExitLibera(r) PROVE Deuda'
  <2>1. pc["corto"] # "anota" /\ UNCHANGED pc
    BY <1>1, SExitLibera, SLiberar, LibreEsNadie DEF Cerrojo
  <2> QED BY <1>1, <2>1, SExitLibera, DeudaLibera
<1>2. CASE Signal
  <2>1. \A r \in Recursos : cola'[r] = cola[r]
    BY <1>2, SSignal, RecursosAparte
  <2> QED BY <1>2, <2>1, SSignal, DeudaIgual DEF Va
<1>3. CASE SignalLibera
  BY <1>3, SSignalLibera, DeudaLibera DEF Va
<1>4. ASSUME /\ UNCHANGED <<instancias, asignados>> /\ \A r \in Recursos : cola'[r] = cola[r]
             /\ pc'["corto"] = "anota" <=> pc["corto"] = "anota"
             /\ pc["corto"] = "anota" => contexto' = contexto
      PROVE  Deuda'
  BY <1>4, DeudaIgual
<1> QED BY <1>1, <1>2, <1>3, <1>4, RecursosQuietos, DeudaWait, DeudaWaitAnota, DeudaElimina DEF PasoVivo

\* manejar_exit keeps what it popped.
LEMMA ManoExitPaso ==
  ASSUME ITipo, ManoExit, PasoVivo
  PROVE  ManoExit'
<1> USE Nombres, Distintos DEF ManoExit
<1>1. CASE NewMulti \/ NewPermiso \/ NewListo \/ (NewSaca /\ cola["new"] # <<>>)
  BY <1>1, SNewMulti, SNewPermiso, SNewListo, SNewSaca DEF Va
<1>2. CASE ExitToma \/ ExitFin \/ ExitCuenta
  BY <1>2, SExitToma, SExitFin, SExitCuenta DEF Va, Lleva
<1>3. CASE ExitSaca /\ cola["exit"] # <<>> /\ Head(cola["exit"]) \in listaPcb
  BY <1>3, SExitSaca DEF Va, Lleva, ITipo, TypeOK, TipoPcb
<1>4. CASE \E r \in Recursos : ExitLibera(r)
  BY <1>4, SExitLibera
<1>5. CASE Despacha /\ cola[ColaSiguiente] # <<>>
  BY <1>5, SDespacha DEF Va, Lleva
<1>6. CASE CpuDevuelve \/ Termina \/ Desenrolla \/ EntraRecurso \/ Wait
  BY <1>6, SCpuDevuelve, SVuelve, SEntraRecurso, SWait DEF Va, Lleva
<1>7. CASE ManejaProceso /\ cola["exec"] # <<>> /\ Head(cola["exec"]) \in listaPcb
  BY <1>7, SManejaProceso DEF Va, Lleva
<1>8. CASE WaitAnota \/ Signal \/ SignalLibera \/ SignalSigue
  BY <1>8, SWaitAnota, SSignal, SSignalLibera, SSignalSigue DEF Va
<1>9. ASSUME NEW i \in Interfaces, IoToma(i), cola[i] # <<>>, Head(cola[i]) \in listaPcb PROVE ManoExit'
  BY <1>9, SIoToma DEF Va, Lleva
<1>10. ASSUME NEW i \in Interfaces, IoTermina(i), mano[i] \in listaPcb PROVE ManoExit'
  BY <1>10, SIoTermina DEF Va, Lleva
<1>11. ASSUME NEW h \in Hilos, Publicar(h), empuje[h].pid \in listaPcb PROVE ManoExit'
  BY <1>11, SPublicar
<1>12. CASE IniciarProceso \/ (Elimina /\ kernel' = "vivo")
  BY <1>12, SIniciarProceso, SElimina DEF Va
<1>13. CASE Ajeno
  BY <1>13 DEF Ajeno, Arrancan
<1>14. ASSUME NEW i \in Interfaces, IoError(i) PROVE ManoExit'
  BY <1>14, SIoError DEF Va, Lleva
<1> QED BY <1>1, <1>2, <1>3, <1>4, <1>5, <1>6, <1>7, <1>8, <1>9, <1>10, <1>11, <1>12, <1>13, <1>14 DEF PasoVivo

\* The entries of a resource, one by one.
LEMMA EntradasSon ==
  \A r, x : x \in Entradas(r) <=> \E p \in Pids : \E k \in 1 .. asignados[p][r] : x = <<p, k>>
BY DEF Entradas

\* The same in the next state.
LEMMA EntradasSonP ==
  \A r, x : x \in Entradas(r)' <=> \E p \in Pids : \E k \in 1 .. asignados'[p][r] : x = <<p, k>>
BY DEF Entradas

\* A WAIT adds one entry.
LEMMA EntradasMas ==
  ASSUME ITipo, NEW p \in Pids, NEW r \in Recursos, asignados' = [asignados EXCEPT ![p][r] = @ + 1]
  PROVE  /\ Entradas(r)' = Entradas(r) \cup {<<p, asignados[p][r] + 1>>}
         /\ <<p, asignados[p][r] + 1>> \notin Entradas(r)
         /\ \A s \in Recursos : s # r => Entradas(s)' = Entradas(s)
<1>1. \A q \in Pids, s \in Recursos : asignados[q][s] \in Nat
  BY DEF ITipo, TypeOK, TipoRecursos
<1>2. /\ asignados'[p][r] = asignados[p][r] + 1
      /\ \A q \in Pids, s \in Recursos : q # p \/ s # r => asignados'[q][s] = asignados[q][s]
  <2>1. asignados \in [Pids -> [Recursos -> Nat]]
    BY DEF ITipo, TypeOK, TipoRecursos
  <2>2. /\ asignados'[p] = [asignados[p] EXCEPT ![r] = @ + 1]
        /\ \A q \in Pids : q # p => asignados'[q] = asignados[q]
    BY <2>1
  <2>3. asignados[p] \in [Recursos -> Nat]
    BY <2>1
  <2> QED BY <2>2, <2>3
<1>3. \A n \in Nat : \A k : k \in 1 .. n + 1 <=> k \in 1 .. n \/ k = n + 1
  OBVIOUS
<1>4. \A n \in Nat : n + 1 \notin 1 .. n
  OBVIOUS
<1>5. <<p, asignados[p][r] + 1>> \notin Entradas(r)
  <2> SUFFICES ASSUME NEW q \in Pids, NEW k \in 1 .. asignados[q][r], <<p, asignados[p][r] + 1>> = <<q, k>>
               PROVE  FALSE
    BY EntradasSon
  <2> QED BY <1>1, <1>4
<1>6. ASSUME NEW x PROVE x \in Entradas(r)' <=> x \in Entradas(r) \/ x = <<p, asignados[p][r] + 1>>
  <2>1. ASSUME x \in Entradas(r)' PROVE x \in Entradas(r) \/ x = <<p, asignados[p][r] + 1>>
    <3>1. PICK q \in Pids : \E k \in 1 .. asignados'[q][r] : x = <<q, k>>
      BY <2>1, EntradasSonP
    <3>2. CASE q = p
      <4>1. PICK k \in 1 .. asignados[p][r] + 1 : x = <<p, k>>
        BY <1>2, <3>1, <3>2
      <4> QED BY <1>1, <1>3, <4>1, EntradasSon
    <3>3. CASE q # p
      BY <1>2, <3>1, <3>3, EntradasSon
    <3> QED BY <3>2, <3>3
  <2>2. ASSUME x \in Entradas(r) PROVE x \in Entradas(r)'
    <3>1. PICK q \in Pids : \E k \in 1 .. asignados[q][r] : x = <<q, k>>
      BY <2>2, EntradasSon
    <3>2. PICK k \in 1 .. asignados[q][r] : x = <<q, k>>
      BY <3>1
    <3>3. k \in 1 .. asignados'[q][r]
      BY <1>1, <1>2, <1>3
    <3> QED BY <3>2, <3>3, EntradasSonP
  <2>3. ASSUME x = <<p, asignados[p][r] + 1>> PROVE x \in Entradas(r)'
    <3>1. asignados[p][r] + 1 \in 1 .. asignados'[p][r]
      BY <1>1, <1>2
    <3> QED BY <2>3, <3>1, EntradasSonP
  <2> QED BY <2>1, <2>2, <2>3
<1>7. ASSUME NEW s \in Recursos, s # r, NEW x PROVE x \in Entradas(s)' <=> x \in Entradas(s)
  <2>1. \A q \in Pids : asignados'[q][s] = asignados[q][s]
    BY <1>2, <1>7
  <2> QED BY <2>1, EntradasSon, EntradasSonP
<1> QED BY <1>5, <1>6, <1>7

\* A SIGNAL, or the end of the process, takes the last one away.
LEMMA EntradasMenos ==
  ASSUME ITipo, NEW p \in Pids, NEW r \in Recursos, asignados[p][r] > 0,
         asignados' = [asignados EXCEPT ![p][r] = @ - 1]
  PROVE  /\ Entradas(r)' = Entradas(r) \ {<<p, asignados[p][r]>>}
         /\ <<p, asignados[p][r]>> \in Entradas(r)
         /\ \A s \in Recursos : s # r => Entradas(s)' = Entradas(s)
<1>1. \A q \in Pids, s \in Recursos : asignados[q][s] \in Nat
  BY DEF ITipo, TypeOK, TipoRecursos
<1>2. /\ asignados'[p][r] = asignados[p][r] - 1
      /\ \A q \in Pids, s \in Recursos : q # p \/ s # r => asignados'[q][s] = asignados[q][s]
  <2>1. asignados \in [Pids -> [Recursos -> Nat]]
    BY DEF ITipo, TypeOK, TipoRecursos
  <2>2. /\ asignados'[p] = [asignados[p] EXCEPT ![r] = @ - 1]
        /\ \A q \in Pids : q # p => asignados'[q] = asignados[q]
    BY <2>1
  <2>3. asignados[p] \in [Recursos -> Nat]
    BY <2>1
  <2> QED BY <2>2, <2>3
<1>3. \A n \in Nat : \A k : k \in 1 .. n - 1 <=> k \in 1 .. n /\ k # n
  OBVIOUS
<1>4. <<p, asignados[p][r]>> \in Entradas(r)
  <2>1. asignados[p][r] \in 1 .. asignados[p][r]
    BY <1>1
  <2> QED BY <2>1, EntradasSon
<1>5. ASSUME NEW x PROVE x \in Entradas(r)' <=> x \in Entradas(r) /\ x # <<p, asignados[p][r]>>
  <2>1. ASSUME x \in Entradas(r)' PROVE x \in Entradas(r) /\ x # <<p, asignados[p][r]>>
    <3>1. PICK q \in Pids : \E k \in 1 .. asignados'[q][r] : x = <<q, k>>
      BY <2>1, EntradasSonP
    <3>2. CASE q = p
      <4>1. PICK k \in 1 .. asignados[p][r] - 1 : x = <<p, k>>
        BY <1>2, <3>1, <3>2
      <4>2. k \in 1 .. asignados[p][r] /\ k # asignados[p][r]
        BY <1>1, <1>3, <4>1
      <4> QED BY <4>1, <4>2, EntradasSon
    <3>3. CASE q # p
      BY <1>2, <3>1, <3>3, EntradasSon
    <3> QED BY <3>2, <3>3
  <2>2. ASSUME x \in Entradas(r), x # <<p, asignados[p][r]>> PROVE x \in Entradas(r)'
    <3>1. PICK q \in Pids : \E k \in 1 .. asignados[q][r] : x = <<q, k>>
      BY <2>2, EntradasSon
    <3>2. PICK k \in 1 .. asignados[q][r] : x = <<q, k>>
      BY <3>1
    <3>3. k \in 1 .. asignados'[q][r]
      BY <1>1, <1>2, <1>3, <2>2, <3>2
    <3> QED BY <3>2, <3>3, EntradasSonP
  <2> QED BY <2>1, <2>2
<1>6. ASSUME NEW s \in Recursos, s # r, NEW x PROVE x \in Entradas(s)' <=> x \in Entradas(s)
  <2>1. \A q \in Pids : asignados'[q][s] = asignados[q][s]
    BY <1>2, <1>6
  <2> QED BY <2>1, EntradasSon, EntradasSonP
<1> QED BY <1>4, <1>5, <1>6

\* Nothing of the balance of a resource changes.
LEMMA SaldoIgual ==
  ASSUME Saldo, UNCHANGED <<instancias, asignados>>,
         pc'["corto"] \in {"anota", "libera"} <=> pc["corto"] \in {"anota", "libera"},
         pc["corto"] \in {"anota", "libera"} => contexto' = contexto
  PROVE  Saldo'
<1>1. \A r : Entradas(r)' = Entradas(r)
  BY DEF Entradas
<1>2. \A r : EnTramite(r)' = EnTramite(r)
  BY DEF EnTramite, RecursoPedido, Uno
<1> QED BY <1>1, <1>2 DEF Saldo, SaldoDeRecursos, Anotados

\* The balance with the numbers of a step.
LEMMA SaldoCambia ==
  ASSUME Saldo, NEW r \in Recursos,
         \A s \in Recursos : s # r => /\ Entradas(s)' = Entradas(s) /\ instancias'[s] = instancias[s]
                                      /\ EnTramite(s)' = EnTramite(s),
         IsFiniteSet(Entradas(r)'),
         instancias'[r] + Cardinality(Entradas(r)') + EnTramite(r)'
            = instancias[r] + Cardinality(Entradas(r)) + EnTramite(r)
  PROVE  Saldo'
BY DEF Saldo, SaldoDeRecursos, Anotados

\* A resource call under way.
LEMMA EnTramiteSon ==
  \A r \in Recursos : EnTramite(r) = IF pc["corto"] \in {"anota", "libera"} /\ RecursoPedido = r THEN 1 ELSE 0
BY DEF EnTramite, Uno

\* The same in the next state.
LEMMA EnTramiteSonP ==
  \A r \in Recursos : EnTramite(r)' = IF pc'["corto"] \in {"anota", "libera"} /\ RecursoPedido' = r THEN 1 ELSE 0
BY DEF EnTramite, Uno

\* WAIT, SIGNAL and the end of a process move one instance between the count and the entries.
LEMMA SaldoRecurso ==
  ASSUME ITipo, ManoExit, Cerrojo, Saldo,
         \/ Wait \/ WaitAnota \/ Signal \/ SignalLibera \/ \E r \in Recursos : ExitLibera(r)
  PROVE  Saldo'
<1> USE Nombres, Distintos
<1>0. \A r \in Recursos : instancias[r] \in Int /\ IsFiniteSet(Entradas(r)) /\ Cardinality(Entradas(r)) \in Nat
  BY FS_CardinalityType DEF Saldo, ITipo, TypeOK, TipoRecursos
<1>1. CASE Wait
  <2>1. /\ RecursoPedido \in Recursos /\ RecursoPedido' = RecursoPedido
        /\ pc["corto"] = "wait" /\ pc'["corto"] = "anota" /\ UNCHANGED asignados
        /\ instancias'[RecursoPedido] = instancias[RecursoPedido] - 1
        /\ \A q \in Recursos : q # RecursoPedido => instancias'[q] = instancias[q]
    BY <1>1, SWait DEF Wait, Turno, ITipo, Locales, Va, RecursoPedido
  <2>2. \A r : Entradas(r)' = Entradas(r)
    BY <2>1 DEF Entradas
  <2>3. /\ EnTramite(RecursoPedido) = 0 /\ (EnTramite(RecursoPedido))' = 1
        /\ \A q \in Recursos : q # RecursoPedido => EnTramite(q)' = EnTramite(q)
    BY <2>1 DEF EnTramite, Uno
  <2>4. Cardinality(Entradas(RecursoPedido)) \in Nat /\ instancias[RecursoPedido] \in Int
    BY <1>0, <2>1
  <2> DEFINE r == RecursoPedido
  <2>5. PICK q \in Recursos : q = r
    BY <2>1
  <2>6. instancias'[q] + Cardinality(Entradas(q)') + EnTramite(q)'
            = instancias[q] + Cardinality(Entradas(q)) + EnTramite(q)
    BY <2>1, <2>2, <2>3, <2>4, <2>5, EnTramiteSon, EnTramiteSonP
  <2> QED BY <1>0, <2>1, <2>2, <2>3, <2>5, <2>6, SaldoCambia
<1>2. CASE WaitAnota
  <2>1. /\ RecursoPedido \in Recursos /\ RecursoPedido' = RecursoPedido /\ mano["corto"] \in Pids
        /\ pc["corto"] = "anota" /\ pc'["corto"] \in {"espera", "desenrolla"} /\ UNCHANGED instancias
        /\ asignados' = [asignados EXCEPT ![mano["corto"]][RecursoPedido] = @ + 1]
    BY <1>2, SWaitAnota DEF Va, RecursoPedido
  <2>2. PICK q \in Recursos : q = RecursoPedido
    BY <2>1
  <2>3. PICK x : /\ Entradas(q)' = Entradas(q) \cup {x} /\ x \notin Entradas(q)
                 /\ \A s \in Recursos : s # q => Entradas(s)' = Entradas(s)
    BY <2>1, <2>2, EntradasMas
  <2>4. IsFiniteSet(Entradas(q)') /\ Cardinality(Entradas(q)') = Cardinality(Entradas(q)) + 1
    BY <1>0, <2>3, FS_AddElement
  <2>5. \A s \in Recursos : EnTramite(s)' = 0 /\ EnTramite(s) = IF s = q THEN 1 ELSE 0
    BY <2>1, <2>2, EnTramiteSon, EnTramiteSonP
  <2>6. \A s \in Recursos : s # q => EnTramite(s)' = EnTramite(s)
    BY <2>5
  <2>7. EnTramite(q)' = 0 /\ EnTramite(q) = 1
    BY <2>5
  <2>8. instancias'[q] + Cardinality(Entradas(q)') + EnTramite(q)'
            = instancias[q] + Cardinality(Entradas(q)) + EnTramite(q)
    BY <1>0, <2>1, <2>4, <2>7
  <2> QED BY <2>1, <2>3, <2>4, <2>6, <2>8, SaldoCambia
<1>3. CASE Signal
  <2>1. /\ RecursoPedido \in Recursos /\ RecursoPedido' = RecursoPedido /\ mano["corto"] \in Pids
        /\ pc["corto"] = "signal" /\ UNCHANGED instancias
    BY <1>3, SSignal DEF RecursoPedido
  <2>2. CASE UNCHANGED asignados /\ Va("corto", "signal", "desenrolla")
    BY <1>3, <2>1, <2>2, SaldoIgual DEF Va
  <2>3. CASE /\ asignados[mano["corto"]][RecursoPedido] > 0 /\ Va("corto", "signal", "libera")
             /\ asignados' = [asignados EXCEPT ![mano["corto"]][RecursoPedido] = @ - 1]
    <3>2. PICK q \in Recursos : q = RecursoPedido
      BY <2>1
    <3>3. PICK x : /\ Entradas(q)' = Entradas(q) \ {x} /\ x \in Entradas(q)
                   /\ \A s \in Recursos : s # q => Entradas(s)' = Entradas(s)
      BY <2>1, <2>3, <3>2, EntradasMenos
    <3>4. IsFiniteSet(Entradas(q)') /\ Cardinality(Entradas(q)') = Cardinality(Entradas(q)) - 1
      BY <1>0, <3>3, FS_RemoveElement
    <3>5. \A s \in Recursos : EnTramite(s) = 0 /\ EnTramite(s)' = IF s = q THEN 1 ELSE 0
      BY <2>1, <2>3, <3>2, EnTramiteSon, EnTramiteSonP DEF Va
    <3>6. \A s \in Recursos : s # q => EnTramite(s)' = EnTramite(s)
      BY <3>5
    <3>7. EnTramite(q)' = 1 /\ EnTramite(q) = 0
      BY <3>5
    <3>8. instancias'[q] + Cardinality(Entradas(q)') + EnTramite(q)'
            = instancias[q] + Cardinality(Entradas(q)) + EnTramite(q)
      BY <1>0, <2>1, <3>4, <3>7
    <3> QED BY <2>1, <3>3, <3>4, <3>6, <3>8, SaldoCambia
  <2> QED BY <1>3, <2>2, <2>3, SSignal
<1>4. CASE SignalLibera
  <2>1. /\ RecursoPedido \in Recursos /\ RecursoPedido' = RecursoPedido
        /\ pc["corto"] = "libera" /\ pc'["corto"] = "sigue" /\ UNCHANGED asignados
        /\ instancias'[RecursoPedido] = instancias[RecursoPedido] + 1
        /\ \A q \in Recursos : q # RecursoPedido => instancias'[q] = instancias[q]
    BY <1>4, SSignalLibera, SLiberar DEF Va, RecursoPedido
  <2>2. \A r : Entradas(r)' = Entradas(r)
    BY <2>1 DEF Entradas
  <2>3. PICK q \in Recursos : q = RecursoPedido
    BY <2>1
  <2>4. \A s \in Recursos : EnTramite(s)' = 0 /\ EnTramite(s) = IF s = q THEN 1 ELSE 0
    BY <2>1, <2>3, EnTramiteSon, EnTramiteSonP
  <2> QED BY <1>0, <2>1, <2>2, <2>3, <2>4, SaldoCambia
<1>5. ASSUME NEW r \in Recursos, ExitLibera(r) PROVE Saldo'
  <2>1. /\ instancias'[r] = instancias[r] + 1 /\ UNCHANGED <<pc, mano, contexto>>
        /\ \A q \in Recursos : q # r => instancias'[q] = instancias[q]
        /\ asignados[mano["exit"]][r] > 0 /\ pc["corto"] # "anota"
        /\ asignados' = [asignados EXCEPT ![mano["exit"]][r] = @ - 1]
    BY <1>5, SExitLibera, SLiberar, LibreEsNadie DEF Cerrojo
  <2>2. CASE mano["exit"] \in Pids
    <3>1. PICK x : /\ Entradas(r)' = Entradas(r) \ {x} /\ x \in Entradas(r)
                   /\ \A s \in Recursos : s # r => Entradas(s)' = Entradas(s)
      BY <2>1, <2>2, EntradasMenos
    <3>2. IsFiniteSet(Entradas(r)') /\ Cardinality(Entradas(r)') = Cardinality(Entradas(r)) - 1
      BY <1>0, <3>1, FS_RemoveElement
    <3>3. \A s \in Recursos : EnTramite(s)' = EnTramite(s) /\ EnTramite(s) \in {0, 1}
      BY <2>1, EnTramiteSon DEF EnTramite, RecursoPedido
    <3>4. instancias'[r] + Cardinality(Entradas(r)') + EnTramite(r)'
            = instancias[r] + Cardinality(Entradas(r)) + EnTramite(r)
      BY <1>0, <2>1, <3>2, <3>3
    <3> QED BY <2>1, <3>1, <3>2, <3>3, <3>4, SaldoCambia
  <2> QED BY <2>2, <1>5, SExitLibera DEF ManoExit
<1> QED BY <1>1, <1>2, <1>3, <1>4, <1>5

\* Every step keeps Saldo.
LEMMA SaldoPaso ==
  ASSUME ITipo, ManoExit, Cerrojo, Saldo, PasoVivo
  PROVE  Saldo'
<1> USE Nombres, Distintos
<1>1. CASE NewMulti \/ NewPermiso \/ NewListo \/ (NewSaca /\ cola["new"] # <<>>)
  BY <1>1, SNewMulti, SNewPermiso, SNewListo, SNewSaca, VaOtro, SaldoIgual
<1>2. CASE ExitToma \/ ExitFin \/ ExitCuenta
  BY <1>2, SExitToma, SExitFin, SExitCuenta, VaOtro, SaldoIgual
<1>3. CASE ExitSaca /\ cola["exit"] # <<>> /\ Head(cola["exit"]) \in listaPcb
  BY <1>3, SExitSaca, VaOtro, SaldoIgual
<1>4. CASE Despacha /\ cola[ColaSiguiente] # <<>>
  BY <1>4, SDespacha, SaldoIgual DEF Va
<1>5. CASE CpuDevuelve \/ Termina \/ Desenrolla \/ EntraRecurso
  BY <1>5, SCpuDevuelve, SVuelve, SEntraRecurso, SaldoIgual DEF Va
<1>6. CASE ManejaProceso /\ cola["exec"] # <<>> /\ Head(cola["exec"]) \in listaPcb
  BY <1>6, SManejaProceso, SaldoIgual DEF Va
<1>7. CASE SignalSigue
  BY <1>7, SSignalSigue, SaldoIgual DEF Va
<1>8. ASSUME NEW i \in Interfaces, IoToma(i), cola[i] # <<>>, Head(cola[i]) \in listaPcb PROVE Saldo'
  BY <1>8, SIoToma, VaOtro, SaldoIgual
<1>9. ASSUME NEW i \in Interfaces, IoTermina(i), mano[i] \in listaPcb PROVE Saldo'
  BY <1>9, SIoTermina, VaOtro, SaldoIgual
<1>10. ASSUME NEW h \in Hilos, Publicar(h), empuje[h].pid \in listaPcb PROVE Saldo'
  BY <1>10, SPublicar, SaldoIgual
<1>11. CASE IniciarProceso \/ (Elimina /\ kernel' = "vivo")
  BY <1>11, SIniciarProceso, SElimina, VaOtro, SaldoIgual
<1>12. CASE Ajeno
  BY <1>12, SaldoIgual DEF Ajeno, Arrancan
<1>13. ASSUME NEW i \in Interfaces, IoError(i) PROVE Saldo'
  BY <1>13, SIoError, VaOtro, SaldoIgual
<1> QED BY <1>1, <1>2, <1>3, <1>4, <1>5, <1>6, <1>7, <1>8, <1>9, <1>10, <1>11, <1>12, <1>13, SaldoRecurso DEF PasoVivo

\* A thread that dies disturbs nothing of it.
LEMMA MuertoRecursos ==
  ASSUME Muerto, LugarConsola, Ejecuta, Cerrojo, Deuda, ManoExit, Saldo
  PROVE  LugarConsola' /\ Ejecuta' /\ Cerrojo' /\ Deuda' /\ ManoExit' /\ Saldo'
<1> USE DEF Muerto
<1>1. LugarConsola' /\ Ejecuta' /\ Cerrojo' /\ ManoExit'
  BY DEF LugarConsola, Ejecuta, Cerrojo, ManoExit
<1>2. Deuda'
  BY DEF Deuda, EnAnota, RecursoPedido
<1>3. Saldo'
  BY SaldoIgual
<1> QED BY <1>1, <1>2, <1>3

\* It holds at the start: every queue is empty and every count is that of the configuration.
LEMMA InitRecursos ==
  ASSUME Init, ITipo
  PROVE  LugarConsola /\ Ejecuta /\ Cerrojo /\ Deuda /\ ManoExit /\ Saldo
<1> USE Nombres, Distintos
<1>1. /\ \A c \in Colas : cola[c] = <<>>
      /\ \A h \in Hilos : empuje[h] = NADA
      /\ pc["consola"] = "prompt" /\ pc["corto"] = "apagado" /\ pc["exit"] = "apagado"
      /\ instancias = Instancias /\ \A p \in Pids, r \in Recursos : asignados[p][r] = 0
  BY NombresAssumption DEF Init
<1>2. LugarConsola /\ Ejecuta /\ Cerrojo /\ ManoExit
  BY <1>1 DEF LugarConsola, Ejecuta, Cerrojo, ManoExit
<1>3. Deuda
  <2>1. ASSUME NEW r \in Recursos
        PROVE  Len(cola[r]) + EnAnota(r) <= IF instancias[r] < 0 THEN - instancias[r] ELSE EnAnota(r)
    <3>1. cola[r] = <<>> /\ EnAnota(r) = 0 /\ instancias[r] \in Nat
      BY <1>1, TamanosAssumption DEF EnAnota, Uno
    <3> QED BY <3>1
  <2> QED BY <2>1 DEF Deuda
<1>4. Saldo
  <2>1. ASSUME NEW r \in Recursos
        PROVE  Entradas(r) = {} /\ EnTramite(r) = 0 /\ instancias[r] = Instancias[r] /\ Instancias[r] \in Nat
    <3>1. \A x : x \notin Entradas(r)
      BY <1>1, EntradasSon
    <3> QED BY <1>1, <3>1, TamanosAssumption DEF EnTramite, Uno
  <2> QED BY <2>1, FS_EmptySet DEF Saldo, SaldoDeRecursos, Anotados
<1> QED BY <1>2, <1>3, <1>4

\* IRecursos always holds.
THEOREM RecursosInvariante == Spec => []IRecursos
<1>1. Init /\ ITipo => LugarConsola /\ Ejecuta /\ Cerrojo /\ Deuda /\ ManoExit /\ Saldo
  BY InitRecursos
<1>2. /\ ITipo /\ IFrenos /\ LugarConsola /\ Ejecuta /\ Cerrojo /\ Deuda /\ ManoExit /\ Saldo
      /\ [Next]_vars
      => LugarConsola' /\ Ejecuta' /\ Cerrojo' /\ Deuda' /\ ManoExit' /\ Saldo'
  <2> SUFFICES ASSUME ITipo, IFrenos, LugarConsola, Ejecuta, Cerrojo, Deuda, ManoExit, Saldo, [Next]_vars
               PROVE  LugarConsola' /\ Ejecuta' /\ Cerrojo' /\ Deuda' /\ ManoExit' /\ Saldo'
    OBVIOUS
  <2>1. PasoVivo \/ Muerto
    BY Pasos DEF IFrenos
  <2>2. LugarConsola'
    BY LugarConsolaPaso
  <2> QED
    BY <2>1, <2>2, MuertoRecursos, EjecutaPaso, CerrojoPaso, DeudaPaso, ManoExitPaso, SaldoPaso
<1> QED BY <1>1, <1>2, TipoInvariante, FrenosInvariante, PTL DEF Spec, IRecursos

\* What is missing from instancias_disponibles is always written in lista_recursos_procesos,
\* whoever was ended by the user, ran out of memory or gave too much back in between.
THEOREM SaldoSiempreCierra == Spec => []SaldoDeRecursos
<1>1. IRecursos => SaldoDeRecursos
  BY DEF IRecursos, Saldo
<1> QED BY <1>1, RecursosInvariante, PTL

\* Nobody waits for a resource that has a free instance: liberar_recurso never forgets a
\* waiter and manejar_wait never queues one that was served, for any number of processes.
THEOREM NadieEsperaEnVano == Spec => []NadieEsperaDeMas
<1>1. IRecursos => NadieEsperaDeMas
  <2> SUFFICES ASSUME IRecursos, mutex["recursos"] = LIBRE, NEW r \in Recursos, cola[r] # <<>>
               PROVE  instancias[r] < 0
    BY DEF NadieEsperaDeMas
  <2>1. cola[r] \in Seq(Pids) /\ instancias[r] \in Int
    BY Nombres DEF IRecursos, ITipo, TypeOK, TipoDatos, TipoRecursos
  <2>2. EnAnota(r) = 0
    BY LibreEsNadie, Nombres DEF IRecursos, Cerrojo, EnAnota, Uno
  <2>3. Len(cola[r]) > 0
    BY <2>1
  <2>4. Len(cola[r]) + EnAnota(r) <= IF instancias[r] < 0 THEN - instancias[r] ELSE EnAnota(r)
    BY DEF IRecursos, Deuda
  <2> QED BY <2>1, <2>2, <2>3, <2>4
<1> QED BY <1>1, RecursosInvariante, PTL

\* The permits of c beyond the processes they stand for; an ERROR leaves one too few.
Sobra(c) == sem[c] + Tomado(c) + EnCamino(c) - Largo(c)

\* The permit a thread took and has not used, without CASE.
LEMMA TomadoEs ==
  \A c \in ConPermiso :
    Tomado(c) = IF c = "new" THEN Uno(pc["new"] = "saca")
                ELSE IF c \in Interfaces THEN Uno(pc[c] = "atiende") ELSE 0
<1>1. "new" \notin Interfaces
  BY Distintos
<1> QED BY <1>1 DEF Tomado

\* The same in the next state.
LEMMA TomadoEsP ==
  \A c \in ConPermiso :
    (Tomado(c))' = IF c = "new" THEN Uno(pc'["new"] = "saca")
                   ELSE IF c \in Interfaces THEN Uno(pc'[c] = "atiende") ELSE 0
<1>1. "new" \notin Interfaces
  BY Distintos
<1> QED BY <1>1 DEF Tomado, Uno

\* No thread takes or uses a permit.
LEMMA TomadoIgual ==
  ASSUME pc'["new"] = "saca" <=> pc["new"] = "saca",
         \A i \in Interfaces : pc'[i] = "atiende" <=> pc[i] = "atiende"
  PROVE  \A c \in ConPermiso : (Tomado(c))' = Tomado(c)
BY TomadoEs, TomadoEsP DEF Uno

\* The threads are finite in number, and the pushes that will post a permit of c with them.
LEMMA EnCaminoTipo ==
  /\ IsFiniteSet(Hilos)
  /\ \A c : /\ IsFiniteSet({h \in Hilos : PermisoDe(empuje[h].cola) = c})
            /\ EnCamino(c) \in Nat
<1>1. IsFiniteSet(Hilos)
  <2>1. IsFiniteSet({"new", "exit", "corto", "consola"})
    <3>1. IsFiniteSet({"new"})
      BY FS_Singleton
    <3>2. IsFiniteSet({"new", "exit"})
      BY <3>1, FS_AddElement, {"new", "exit"} = {"new"} \cup {"exit"}
    <3>3. IsFiniteSet({"new", "exit", "corto"})
      BY <3>2, FS_AddElement, {"new", "exit", "corto"} = {"new", "exit"} \cup {"corto"}
    <3> QED
      BY <3>3, FS_AddElement,
         {"new", "exit", "corto", "consola"} = {"new", "exit", "corto"} \cup {"consola"}
  <2> QED BY <2>1, TamanosAssumption, FS_Union DEF Hilos
<1>2. ASSUME NEW c PROVE IsFiniteSet({h \in Hilos : PermisoDe(empuje[h].cola) = c})
  BY <1>1, FS_Subset, {h \in Hilos : PermisoDe(empuje[h].cola) = c} \subseteq Hilos
<1> QED BY <1>1, <1>2, FS_CardinalityType DEF EnCamino

\* A push that begins will post one permit more.
LEMMA EnCaminoMas ==
  ASSUME ITipo, NEW h \in Hilos, NEW c \in Colas, NEW p, Comienza(h, c, p)
  PROVE  \A d \in ConPermiso : EnCamino(d)' = EnCamino(d) + Uno(d = PermisoDe(c))
<1> SUFFICES ASSUME NEW d \in ConPermiso PROVE EnCamino(d)' = EnCamino(d) + Uno(d = PermisoDe(c))
  OBVIOUS
<1> DEFINE S == {g \in Hilos : PermisoDe(empuje[g].cola) = d}
           T == {g \in Hilos : PermisoDe(empuje'[g].cola) = d}
<1>1. EnCamino(d) = Cardinality(S) /\ EnCamino(d)' = Cardinality(T) /\ IsFiniteSet(S) /\ Cardinality(S) \in Nat
  BY EnCaminoTipo, FS_CardinalityType DEF EnCamino, PermisoDe
<1>2. h \notin S
  BY Distintos DEF Comienza, PermisoDe, NADA, ConPermiso
<1>3. empuje'[h].cola = c /\ \A g \in Hilos : g # h => empuje'[g] = empuje[g]
  BY DEF Comienza
<1>4. CASE d = PermisoDe(c)
  <2>1. T = S \cup {h}
    BY <1>3, <1>4
  <2>2. Uno(d = PermisoDe(c)) = 1
    BY <1>4 DEF Uno
  <2>3. Cardinality(T) = Cardinality(S) + 1
    BY <1>1, <1>2, <2>1, FS_AddElement
  <2> HIDE DEF S, T
  <2> QED BY <1>1, <2>2, <2>3
<1>5. CASE d # PermisoDe(c)
  <2>1. T = S
    BY <1>2, <1>3, <1>5
  <2>2. Uno(d = PermisoDe(c)) = 0
    BY <1>5 DEF Uno
  <2>3. Cardinality(T) = Cardinality(S)
    BY <2>1
  <2> HIDE DEF S, T
  <2> QED BY <1>1, <2>2, <2>3
<1> QED BY <1>4, <1>5

\* A push that ends has posted its permit.
LEMMA EnCaminoMenos ==
  ASSUME ITipo, NEW h \in Hilos, empuje'[h] = NADA, \A g \in Hilos : g # h => empuje'[g] = empuje[g]
  PROVE  \A d \in ConPermiso : EnCamino(d)' = EnCamino(d) - Uno(d = PermisoDe(empuje[h].cola))
<1> SUFFICES ASSUME NEW d \in ConPermiso
             PROVE  EnCamino(d)' = EnCamino(d) - Uno(d = PermisoDe(empuje[h].cola))
  OBVIOUS
<1> DEFINE S == {g \in Hilos : PermisoDe(empuje[g].cola) = d}
           T == {g \in Hilos : PermisoDe(empuje'[g].cola) = d}
<1>1. EnCamino(d) = Cardinality(S) /\ EnCamino(d)' = Cardinality(T) /\ IsFiniteSet(S) /\ Cardinality(S) \in Nat
  BY EnCaminoTipo, FS_CardinalityType DEF EnCamino, PermisoDe
<1>2. h \notin T
  BY Distintos DEF PermisoDe, NADA, ConPermiso
<1>3. CASE d = PermisoDe(empuje[h].cola)
  <2>1. T = S \ {h} /\ h \in S
    BY <1>2, <1>3
  <2>2. Uno(d = PermisoDe(empuje[h].cola)) = 1
    BY <1>3 DEF Uno
  <2>3. Cardinality(T) = Cardinality(S) - 1
    BY <1>1, <2>1, FS_RemoveElement
  <2> HIDE DEF S, T
  <2> QED BY <1>1, <2>2, <2>3
<1>4. CASE d # PermisoDe(empuje[h].cola)
  <2>1. T = S
    BY <1>2, <1>4
  <2>2. Uno(d = PermisoDe(empuje[h].cola)) = 0
    BY <1>4 DEF Uno
  <2>3. Cardinality(T) = Cardinality(S)
    BY <2>1
  <2> HIDE DEF S, T
  <2> QED BY <1>1, <2>2, <2>3
<1> QED BY <1>3, <1>4

\* The lengths the permits are compared with.
Cuantos(c) == Len(cola[c])

\* The processes a permit can stand for.
LEMMA LargoEs ==
  /\ Largo("ready") = Cuantos("ready") + Cuantos("aux")
  /\ \A c \in ConPermiso : c # "ready" => Largo(c) = Cuantos(c)
BY DEF Largo, Cuantos

\* The same in the next state.
LEMMA LargoEsP ==
  /\ Largo("ready")' = Cuantos("ready")' + Cuantos("aux")'
  /\ \A c \in ConPermiso : c # "ready" => Largo(c)' = Cuantos(c)'
BY DEF Largo, Cuantos

\* All of them are numbers.
LEMMA LargoTipo ==
  ASSUME ITipo
  PROVE  /\ \A c \in Colas : cola[c] \in Seq(Pids) /\ Cuantos(c) \in Nat
         /\ \A c \in ConPermiso : c \in Colas /\ c # "aux" /\ Largo(c) \in Nat
         /\ \A c \in ConPermiso : sem[c] \in Nat /\ Tomado(c) \in {0, 1} /\ EnCamino(c) \in Nat
<1>1. \A c \in Colas : cola[c] \in Seq(Pids) /\ Cuantos(c) \in Nat
  BY DEF ITipo, TypeOK, TipoDatos, Cuantos
<1>2. \A c \in ConPermiso : c \in Colas /\ c # "aux"
  BY Nombres, Distintos DEF ConPermiso
<1>3. \A c \in ConPermiso : sem[c] \in Nat /\ Tomado(c) \in {0, 1} /\ EnCamino(c) \in Nat
  BY TomadoEs, EnCaminoTipo DEF Uno, ITipo, TypeOK, TipoDatos
<1>4. \A c \in ConPermiso : Largo(c) \in Nat
  BY <1>1, <1>2, LargoEs, Nombres
<1> QED BY <1>1, <1>2, <1>3, <1>4

\* One moves from a queue to another, or was not in the first (u = 0).
LEMMA LargoMueve ==
  ASSUME ITipo, NEW a \in Colas, NEW c \in Colas, a # c, NEW u \in {0, 1},
         Cuantos(a)' = Cuantos(a) - u, Cuantos(c)' = Cuantos(c) + 1,
         \A d \in Colas : d # a /\ d # c => cola'[d] = cola[d]
  PROVE  \A d \in ConPermiso :
           Largo(d)' = Largo(d) + (IF d = PermisoDe(c) THEN 1 ELSE 0)
                                - (IF d = PermisoDe(a) THEN u ELSE 0)
<1> SUFFICES ASSUME NEW d \in ConPermiso
             PROVE  Largo(d)' = Largo(d) + (IF d = PermisoDe(c) THEN 1 ELSE 0)
                                         - (IF d = PermisoDe(a) THEN u ELSE 0)
  OBVIOUS
<1>1. /\ Cuantos(a) \in Nat /\ Cuantos(c) \in Nat /\ d \in Colas /\ d # "aux"
      /\ Cuantos("ready") \in Nat /\ Cuantos("aux") \in Nat /\ Cuantos(d) \in Nat
      /\ "ready" \in Colas /\ "aux" \in Colas
  BY LargoTipo, Nombres
<1>2. \A e \in Colas : e # a /\ e # c => Cuantos(e)' = Cuantos(e)
  BY DEF Cuantos
<1>3. CASE d = "ready"
  BY <1>1, <1>2, <1>3, LargoEs, LargoEsP DEF PermisoDe
<1>4. CASE d # "ready"
  BY <1>1, <1>2, <1>4, LargoEs, LargoEsP DEF PermisoDe
<1> QED BY <1>3, <1>4

\* A queue grows by one.
LEMMA LargoMas ==
  ASSUME ITipo, NEW c \in Colas, Cuantos(c)' = Cuantos(c) + 1,
         \A d \in Colas : d # c => cola'[d] = cola[d]
  PROVE  \A d \in ConPermiso : Largo(d)' = Largo(d) + (IF d = PermisoDe(c) THEN 1 ELSE 0)
<1> SUFFICES ASSUME NEW d \in ConPermiso
             PROVE  Largo(d)' = Largo(d) + (IF d = PermisoDe(c) THEN 1 ELSE 0)
  OBVIOUS
<1>1. /\ Cuantos(c) \in Nat /\ d \in Colas /\ d # "aux"
      /\ Cuantos("ready") \in Nat /\ Cuantos("aux") \in Nat /\ Cuantos(d) \in Nat
      /\ "ready" \in Colas /\ "aux" \in Colas
  BY LargoTipo, Nombres
<1>2. \A e \in Colas : e # c => Cuantos(e)' = Cuantos(e)
  BY DEF Cuantos
<1>3. CASE d = "ready"
  BY <1>1, <1>2, <1>3, LargoEs, LargoEsP DEF PermisoDe
<1>4. CASE d # "ready"
  BY <1>1, <1>2, <1>4, LargoEs, LargoEsP DEF PermisoDe
<1> QED BY <1>3, <1>4

\* A queue loses its first.
LEMMA LargoMenos ==
  ASSUME ITipo, NEW a \in Colas, Cuantos(a)' = Cuantos(a) - 1,
         \A d \in Colas : d # a => cola'[d] = cola[d]
  PROVE  \A d \in ConPermiso : Largo(d)' = Largo(d) - (IF d = PermisoDe(a) THEN 1 ELSE 0)
<1> SUFFICES ASSUME NEW d \in ConPermiso
             PROVE  Largo(d)' = Largo(d) - (IF d = PermisoDe(a) THEN 1 ELSE 0)
  OBVIOUS
<1>1. /\ Cuantos(a) \in Nat /\ d \in Colas /\ d # "aux"
      /\ Cuantos("ready") \in Nat /\ Cuantos("aux") \in Nat /\ Cuantos(d) \in Nat
      /\ "ready" \in Colas /\ "aux" \in Colas
  BY LargoTipo, Nombres
<1>2. \A e \in Colas : e # a => Cuantos(e)' = Cuantos(e)
  BY DEF Cuantos
<1>3. CASE d = "ready"
  BY <1>1, <1>2, <1>3, LargoEs, LargoEsP DEF PermisoDe
<1>4. CASE d # "ready"
  BY <1>1, <1>2, <1>4, LargoEs, LargoEsP DEF PermisoDe
<1> QED BY <1>3, <1>4

\* The permits beyond the processes are a number.
LEMMA SobraTipo ==
  ASSUME ITipo
  PROVE  \A d \in ConPermiso : Sobra(d) \in Int
BY LargoTipo DEF Sobra

\* A process that was in no queue is pushed: its permit is on the way.
LEMMA PoneCuenta ==
  ASSUME ITipo, NEW h, NEW c, NEW p, Pone(h, c, p), NEW d \in ConPermiso
  PROVE  /\ Largo(d)' = Largo(d) + (IF d = PermisoDe(c) THEN 1 ELSE 0)
         /\ EnCamino(d)' = EnCamino(d) + (IF d = PermisoDe(c) THEN 1 ELSE 0)
<1>1. h \in Hilos /\ c \in Colas /\ p \in Pids /\ Comienza(h, c, p)
  BY DEF Pone
<1>2. Cuantos(c)' = Cuantos(c) + 1
  BY <1>1, LargoTipo DEF Pone, Cuantos
<1> QED BY <1>1, <1>2, LargoMas, EnCaminoMas DEF Pone, Uno

\* The first of a queue is pushed to another.
LEMMA PasaCuenta ==
  ASSUME ITipo, NEW h, NEW a, NEW c, Pasa(h, a, c), NEW d \in ConPermiso
  PROVE  /\ Largo(d)' = Largo(d) + (IF d = PermisoDe(c) THEN 1 ELSE 0)
                                 - (IF d = PermisoDe(a) THEN 1 ELSE 0)
         /\ EnCamino(d)' = EnCamino(d) + (IF d = PermisoDe(c) THEN 1 ELSE 0)
<1>1. h \in Hilos /\ a \in Colas /\ c \in Colas /\ a # c /\ Comienza(h, c, Head(cola[a]))
  BY DEF Pasa
<1>2. Cuantos(a)' = Cuantos(a) - 1
  BY <1>1, LargoTipo DEF Pasa, Cuantos
<1>3. Cuantos(c)' = Cuantos(c) + 1
  BY <1>1, LargoTipo DEF Pasa, Cuantos
<1>4. \A e \in Colas : e # a /\ e # c => cola'[e] = cola[e]
  BY DEF Pasa
<1>5. EnCamino(d)' = EnCamino(d) + Uno(d = PermisoDe(c))
  BY <1>1, EnCaminoMas
<1> QED BY <1>1, <1>2, <1>3, <1>4, <1>5, LargoMueve DEF Uno

\* One is looked up in a queue, taken out if it is there, and pushed to another.
LEMMA MueveCuenta ==
  ASSUME ITipo, NEW h, NEW a, NEW c, NEW p, Mueve(h, a, c, p), NEW d \in ConPermiso
  PROVE  /\ Largo(d)' = Largo(d) + (IF d = PermisoDe(c) THEN 1 ELSE 0)
                        - (IF d = PermisoDe(a) THEN Uno(Contiene(cola[a], p)) ELSE 0)
         /\ EnCamino(d)' = EnCamino(d) + (IF d = PermisoDe(c) THEN 1 ELSE 0)
<1>1. /\ h \in Hilos /\ a \in Colas /\ c \in Colas /\ a # c /\ Comienza(h, c, p)
      /\ cola'[a] = Quitar(cola[a], p) /\ cola'[c] = Append(cola[c], p) /\ p \in Pids
      /\ \A e \in Colas : e # a /\ e # c => cola'[e] = cola[e]
  BY DEF Mueve
<1>2. PICK u \in {0, 1} : u = Uno(Contiene(cola[a], p))
  BY DEF Uno
<1>3. Cuantos(a)' = Cuantos(a) - u
  BY <1>1, <1>2, LargoTipo, LargoQuitar DEF Cuantos
<1>4. Cuantos(c)' = Cuantos(c) + 1
  BY <1>1, LargoTipo DEF Cuantos
<1>5. EnCamino(d)' = EnCamino(d) + Uno(d = PermisoDe(c))
  BY <1>1, EnCaminoMas
<1> QED BY <1>1, <1>2, <1>3, <1>4, <1>5, LargoMueve DEF Uno

\* The first of a queue is popped.
LEMMA RetiraCuenta ==
  ASSUME ITipo, NEW a, Retira(a), NEW d \in ConPermiso
  PROVE  /\ Largo(d)' = Largo(d) - (IF d = PermisoDe(a) THEN 1 ELSE 0)
         /\ EnCamino(d)' = EnCamino(d)
<1>1. /\ a \in Colas /\ \A e \in Colas : e # a => cola'[e] = cola[e]
      /\ UNCHANGED empuje /\ cola[a] # <<>> /\ cola'[a] = Tail(cola[a])
  BY DEF Retira
<1>2. Cuantos(a)' = Cuantos(a) - 1
  BY <1>1, LargoTipo DEF Cuantos
<1>3. EnCamino(d)' = EnCamino(d)
  BY <1>1 DEF EnCamino
<1> QED BY <1>1, <1>2, <1>3, LargoMenos

\* A step that touches no permit and no queue of a permit.
LEMMA SobraQuieta ==
  ASSUME ITipo, UNCHANGED sem, pc'["new"] = "saca" <=> pc["new"] = "saca",
         \A i \in Interfaces : pc'[i] = "atiende" <=> pc[i] = "atiende",
         \/ UNCHANGED <<cola, empuje>>
         \/ \E h, c, p : Pone(h, c, p)
         \/ \E h, a, c : Pasa(h, a, c) /\ a \in Recursos \cup {"exec"}
         \/ Retira("exec")
  PROVE  \A d \in ConPermiso : Sobra(d)' = Sobra(d)
<1> SUFFICES ASSUME NEW d \in ConPermiso PROVE Sobra(d)' = Sobra(d)
  OBVIOUS
<1>1. Tomado(d)' = Tomado(d) /\ sem'[d] = sem[d]
  BY TomadoIgual
<1>2. sem[d] \in Nat /\ Tomado(d) \in Int /\ EnCamino(d) \in Nat /\ Largo(d) \in Nat
  BY LargoTipo
<1>3. \A a \in Recursos \cup {"exec"} : d # PermisoDe(a)
  BY Distintos DEF PermisoDe, ConPermiso
<1>4. CASE UNCHANGED <<cola, empuje>>
  <2>1. EnCamino(d)' = EnCamino(d) /\ Largo(d)' = Largo(d)
    BY <1>4 DEF EnCamino, Largo
  <2> QED BY <1>1, <1>2, <2>1 DEF Sobra
<1>5. ASSUME NEW h, NEW c, NEW p, Pone(h, c, p) PROVE Sobra(d)' = Sobra(d)
  BY <1>1, <1>2, <1>5, PoneCuenta DEF Sobra
<1>6. ASSUME NEW h, NEW a \in Recursos \cup {"exec"}, NEW c, Pasa(h, a, c) PROVE Sobra(d)' = Sobra(d)
  <2>1. d # PermisoDe(a)
    BY <1>3
  <2> QED BY <1>1, <1>2, <1>6, <2>1, PasaCuenta DEF Sobra
<1>7. CASE Retira("exec")
  <2>1. d # PermisoDe("exec")
    BY <1>3
  <2> QED BY <1>1, <1>2, <1>7, <2>1, RetiraCuenta DEF Sobra
<1> QED BY <1>4, <1>5, <1>6, <1>7

\* A thread that moves neither takes nor uses a permit.
LEMMA VaSinPermiso ==
  ASSUME NEW h \in {"new", "exit", "corto", "consola"}, NEW d, NEW e, Va(h, d, e),
         h = "new" => d # "saca" /\ e # "saca"
  PROVE  /\ pc'["new"] = "saca" <=> pc["new"] = "saca"
         /\ \A i \in Interfaces : pc'[i] = "atiende" <=> pc[i] = "atiende"
<1>1. \A i \in Interfaces : i # h /\ i \in Hilos
  BY Nombres, Distintos
<1>2. "new" \in Hilos
  BY Nombres
<1> QED BY <1>1, <1>2 DEF Va

\* The steps of manejar_new, which takes a permit before it pops.
LEMMA SobraNew ==
  ASSUME ITipo, NewMulti \/ NewPermiso \/ NewListo \/ (NewSaca /\ cola["new"] # <<>>)
  PROVE  \A d \in ConPermiso : Sobra(d)' = Sobra(d)
<1> USE Nombres, Distintos
<1>1. CASE NewMulti
  BY <1>1, SNewMulti, VaSinPermiso, SobraQuieta
<1>2. CASE NewListo
  BY <1>2, SNewListo, VaSinPermiso, SobraQuieta
<1>3. ASSUME NewPermiso \/ (NewSaca /\ cola["new"] # <<>>), NEW d \in ConPermiso
      PROVE  Sobra(d)' = Sobra(d)
  <2>1. sem[d] \in Nat /\ Tomado(d) \in Int /\ EnCamino(d) \in Nat /\ Largo(d) \in Nat
    BY LargoTipo
  <2>2. CASE NewPermiso
    <3>1. Va("new", "permiso", "saca") /\ Espera("new") /\ UNCHANGED <<cola, empuje>>
      BY <2>2, SNewPermiso
    <3>2. EnCamino(d)' = EnCamino(d) /\ Largo(d)' = Largo(d)
      BY <3>1 DEF EnCamino, Largo
    <3>3. CASE d = "new"
      <4>1. Tomado(d) = 0 /\ Tomado(d)' = 1
        BY <3>1, <3>3, TomadoEs, TomadoEsP DEF Va, Uno
      <4>2. sem'[d] = sem[d] - 1
        BY <3>1, <3>3 DEF Espera
      <4> QED BY <2>1, <3>2, <4>1, <4>2 DEF Sobra
    <3>4. CASE d # "new"
      <4>1. Tomado(d)' = Tomado(d)
        BY <3>1, <3>4, TomadoEs, TomadoEsP DEF Va, Uno
      <4>2. sem'[d] = sem[d]
        BY <3>1, <3>4 DEF Espera
      <4> QED BY <2>1, <3>2, <4>1, <4>2 DEF Sobra
    <3> QED BY <3>3, <3>4
  <2>3. CASE NewSaca /\ cola["new"] # <<>>
    <3>1. Va("new", "saca", "listo") /\ Pasa("new", "new", "ready") /\ UNCHANGED sem
      BY <2>3, SNewSaca
    <3>2. /\ Largo(d)' = Largo(d) + (IF d = "ready" THEN 1 ELSE 0) - (IF d = "new" THEN 1 ELSE 0)
          /\ EnCamino(d)' = EnCamino(d) + (IF d = "ready" THEN 1 ELSE 0)
      BY <3>1, PasaCuenta DEF PermisoDe
    <3>3. sem'[d] = sem[d]
      BY <3>1
    <3>4. CASE d = "new"
      <4>1. Tomado(d) = 1 /\ Tomado(d)' = 0
        BY <3>1, <3>4, TomadoEs, TomadoEsP DEF Va, Uno
      <4> QED BY <2>1, <3>2, <3>3, <3>4, <4>1 DEF Sobra
    <3>5. CASE d # "new"
      <4>1. Tomado(d)' = Tomado(d)
        BY <3>1, <3>5, TomadoEs, TomadoEsP DEF Va, Uno
      <4> QED BY <2>1, <3>2, <3>3, <3>5, <4>1 DEF Sobra
    <3> QED BY <3>4, <3>5
  <2> QED BY <1>3, <2>2, <2>3
<1> QED BY <1>1, <1>2, <1>3

\* The steps of manejar_exit.
LEMMA SobraExit ==
  ASSUME ITipo,
         \/ ExitToma \/ ExitFin \/ ExitCuenta \/ \E r \in Recursos : ExitLibera(r)
         \/ ExitSaca /\ cola["exit"] # <<>> /\ Head(cola["exit"]) \in listaPcb
  PROVE  \A d \in ConPermiso : Sobra(d)' = Sobra(d)
<1> USE Nombres, Distintos
<1>1. CASE ExitToma \/ ExitFin \/ ExitCuenta
  BY <1>1, SExitToma, SExitFin, SExitCuenta, VaSinPermiso, SobraQuieta
<1>2. ASSUME NEW r \in Recursos, ExitLibera(r) PROVE \A d \in ConPermiso : Sobra(d)' = Sobra(d)
  <2>1. UNCHANGED <<sem, pc>> /\ (UNCHANGED <<cola, empuje>> \/ Pasa("exit", r, "ready"))
    BY <1>2, SExitLibera, SLiberar
  <2> QED BY <2>1, SobraQuieta
<1>3. ASSUME ExitSaca, cola["exit"] # <<>>, Head(cola["exit"]) \in listaPcb, NEW d \in ConPermiso
      PROVE  Sobra(d)' = Sobra(d)
  <2>1. sem[d] \in Nat /\ Tomado(d) \in Int /\ EnCamino(d) \in Nat /\ Largo(d) \in Nat
    BY LargoTipo
  <2>2. Va("exit", "permiso", "toma") /\ Espera("exit") /\ Retira("exit")
    BY <1>3, SExitSaca
  <2>3. Tomado(d)' = Tomado(d)
    BY <2>2, VaSinPermiso, TomadoIgual
  <2>4. sem'[d] = sem[d] - (IF d = "exit" THEN 1 ELSE 0)
    BY <2>1, <2>2 DEF Espera
  <2>5. Largo(d)' = Largo(d) - (IF d = "exit" THEN 1 ELSE 0) /\ EnCamino(d)' = EnCamino(d)
    BY <2>2, RetiraCuenta DEF PermisoDe
  <2> QED BY <2>1, <2>3, <2>4, <2>5 DEF Sobra
<1> QED BY <1>1, <1>2, <1>3

\* The steps of the short-term planner.
LEMMA SobraCorto ==
  ASSUME ITipo,
         \/ Despacha /\ cola[ColaSiguiente] # <<>>
         \/ CpuDevuelve
         \/ ManejaProceso /\ cola["exec"] # <<>> /\ Head(cola["exec"]) \in listaPcb
         \/ Termina \/ Desenrolla \/ EntraRecurso \/ Wait \/ WaitAnota
         \/ Signal \/ SignalLibera \/ SignalSigue
  PROVE  \A d \in ConPermiso : Sobra(d)' = Sobra(d)
<1> USE Nombres, Distintos
<1>1. CASE CpuDevuelve \/ Termina \/ Desenrolla \/ EntraRecurso \/ Wait
  BY <1>1, SCpuDevuelve, SVuelve, SEntraRecurso, SWait, VaSinPermiso, SobraQuieta
<1>2. CASE WaitAnota
  BY <1>2, SWaitAnota, VaSinPermiso, SobraQuieta
<1>3. CASE Signal
  BY <1>3, SSignal, VaSinPermiso, SobraQuieta
<1>4. CASE SignalSigue
  BY <1>4, SSignalSigue, VaSinPermiso, SobraQuieta
<1>5. CASE SignalLibera
  <2>1. /\ UNCHANGED sem /\ Va("corto", "libera", "sigue") /\ RecursoPedido \in Recursos
        /\ UNCHANGED <<cola, empuje>> \/ Pasa("corto", RecursoPedido, "ready")
    BY <1>5, SSignalLibera, SLiberar
  <2>2. /\ pc'["new"] = "saca" <=> pc["new"] = "saca"
        /\ \A i \in Interfaces : pc'[i] = "atiende" <=> pc[i] = "atiende"
    BY <2>1, VaSinPermiso
  <2> QED BY <2>1, <2>2, SobraQuieta
<1>6. CASE ManejaProceso /\ cola["exec"] # <<>> /\ Head(cola["exec"]) \in listaPcb
  BY <1>6, SManejaProceso, VaSinPermiso, SobraQuieta
<1>7. ASSUME Despacha, cola[ColaSiguiente] # <<>>, NEW d \in ConPermiso PROVE Sobra(d)' = Sobra(d)
  <2>1. sem[d] \in Nat /\ Tomado(d) \in Int /\ EnCamino(d) \in Nat /\ Largo(d) \in Nat
    BY LargoTipo
  <2>2. Va("corto", "permiso", "espera") /\ Espera("ready") /\ Pasa("corto", ColaSiguiente, "exec")
    BY <1>7, SDespacha
  <2>3. Tomado(d)' = Tomado(d)
    BY <2>2, VaSinPermiso, TomadoIgual
  <2>4. sem'[d] = sem[d] - (IF d = "ready" THEN 1 ELSE 0)
    BY <2>1, <2>2 DEF Espera
  <2>5. PermisoDe(ColaSiguiente) = "ready" /\ d # PermisoDe("exec")
    BY DEF ColaSiguiente, PermisoDe, ConPermiso
  <2>6. Largo(d)' = Largo(d) - (IF d = "ready" THEN 1 ELSE 0) /\ EnCamino(d)' = EnCamino(d)
    BY <2>1, <2>2, <2>5, PasaCuenta
  <2> QED BY <2>1, <2>3, <2>4, <2>6 DEF Sobra
<1> QED BY <1>1, <1>2, <1>3, <1>4, <1>5, <1>6, <1>7

\* The end of a push.
LEMMA SobraPublicar ==
  ASSUME ITipo, NEW h \in Hilos, Publicar(h), empuje[h].pid \in listaPcb
  PROVE  \A d \in ConPermiso : Sobra(d)' = Sobra(d)
<1> SUFFICES ASSUME NEW d \in ConPermiso PROVE Sobra(d)' = Sobra(d)
  OBVIOUS
<1>1. sem[d] \in Nat /\ Tomado(d) \in Int /\ EnCamino(d) \in Nat /\ Largo(d) \in Nat
  BY LargoTipo
<1>2. /\ sem'[d] = sem[d] + Uno(d = PermisoDe(empuje[h].cola)) /\ UNCHANGED <<cola, pc>>
      /\ empuje'[h] = NADA /\ \A g \in Hilos : g # h => empuje'[g] = empuje[g]
  BY SPublicar
<1>3. EnCamino(d)' = EnCamino(d) - Uno(d = PermisoDe(empuje[h].cola))
  BY <1>2, EnCaminoMenos
<1>4. Tomado(d)' = Tomado(d) /\ Largo(d)' = Largo(d)
  BY <1>2, TomadoIgual DEF Largo
<1>5. PICK u \in {0, 1} : u = Uno(d = PermisoDe(empuje[h].cola))
  BY DEF Uno
<1> QED BY <1>1, <1>2, <1>3, <1>4, <1>5 DEF Sobra

\* An interface takes the permit of the process it will serve.
LEMMA SobraIoToma ==
  ASSUME ITipo, NEW i \in Interfaces, IoToma(i), cola[i] # <<>>, Head(cola[i]) \in listaPcb
  PROVE  \A d \in ConPermiso : Sobra(d)' = Sobra(d)
<1> USE Nombres, Distintos
<1> SUFFICES ASSUME NEW d \in ConPermiso PROVE Sobra(d)' = Sobra(d)
  OBVIOUS
<1>1. sem[d] \in Nat /\ Tomado(d) \in Int /\ EnCamino(d) \in Nat /\ Largo(d) \in Nat
  BY LargoTipo
<1>2. Va(i, "permiso", "atiende") /\ Espera(i) /\ UNCHANGED <<cola, empuje>>
  BY SIoToma
<1>3. EnCamino(d)' = EnCamino(d) /\ Largo(d)' = Largo(d)
  BY <1>2 DEF EnCamino, Largo
<1>4. CASE d = i
  <2>1. Tomado(d) = 0 /\ Tomado(d)' = 1
    BY <1>2, <1>4, TomadoEs, TomadoEsP DEF Va, Uno
  <2>2. sem'[d] = sem[d] - 1
    BY <1>2, <1>4 DEF Espera
  <2> QED BY <1>1, <1>3, <2>1, <2>2 DEF Sobra
<1>5. CASE d # i
  <2>1. \A g \in Hilos : g # i => pc'[g] = pc[g]
    BY <1>2 DEF Va
  <2>2. Tomado(d)' = Tomado(d)
    BY <1>5, <2>1, TomadoEs, TomadoEsP DEF Uno
  <2>3. sem'[d] = sem[d]
    BY <1>2, <1>5 DEF Espera
  <2> QED BY <1>1, <1>3, <2>2, <2>3 DEF Sobra
<1> QED BY <1>4, <1>5

\* It uses it, unless the process was taken away meanwhile: then one is lost.
LEMMA SobraIoTermina ==
  ASSUME ITipo, NEW i \in Interfaces, IoTermina(i), mano[i] \in listaPcb
  PROVE  \A d \in ConPermiso :
           Sobra(d)' = Sobra(d) - (IF d = i /\ ~ Contiene(cola[i], mano[i]) THEN 1 ELSE 0)
<1> USE Nombres, Distintos
<1> SUFFICES ASSUME NEW d \in ConPermiso
             PROVE  Sobra(d)' = Sobra(d) - (IF d = i /\ ~ Contiene(cola[i], mano[i]) THEN 1 ELSE 0)
  OBVIOUS
<1>1. sem[d] \in Nat /\ Tomado(d) \in Int /\ EnCamino(d) \in Nat /\ Largo(d) \in Nat
  BY LargoTipo
<1>2. /\ Va(i, "atiende", "permiso") /\ UNCHANGED sem
      /\ \/ /\ Contiene(cola[i], mano[i])
            /\ \E c \in {"ready", "aux"} : Mueve(i, i, c, mano[i])
         \/ ~ Contiene(cola[i], mano[i]) /\ UNCHANGED <<cola, empuje>>
  BY SIoTermina
<1>3. Tomado(d)' = Tomado(d) - (IF d = i THEN 1 ELSE 0)
  <2>1. CASE d = i
    BY <1>2, <2>1, TomadoEs, TomadoEsP DEF Va, Uno
  <2>2. CASE d # i
    <3>1. \A g \in Hilos : g # i => pc'[g] = pc[g]
      BY <1>2 DEF Va
    <3>2. Tomado(d)' = Tomado(d)
      BY <2>2, <3>1, TomadoEs, TomadoEsP DEF Uno
    <3> QED BY <1>1, <2>2, <3>2
  <2> QED BY <2>1, <2>2
<1>4. sem'[d] = sem[d]
  BY <1>2
<1>5. CASE ~ Contiene(cola[i], mano[i])
  <2>1. EnCamino(d)' = EnCamino(d) /\ Largo(d)' = Largo(d)
    BY <1>2, <1>5 DEF EnCamino, Largo
  <2> QED BY <1>1, <1>3, <1>4, <1>5, <2>1 DEF Sobra
<1>6. CASE Contiene(cola[i], mano[i])
  <2>1. PICK c \in {"ready", "aux"} : Mueve(i, i, c, mano[i])
    BY <1>2, <1>6
  <2>2. PermisoDe(c) = "ready" /\ PermisoDe(i) = i /\ Uno(Contiene(cola[i], mano[i])) = 1
    BY <1>6 DEF PermisoDe, Uno
  <2>3. /\ Largo(d)' = Largo(d) + (IF d = "ready" THEN 1 ELSE 0) - (IF d = i THEN 1 ELSE 0)
        /\ EnCamino(d)' = EnCamino(d) + (IF d = "ready" THEN 1 ELSE 0)
    BY <2>1, <2>2, MueveCuenta
  <2> QED BY <1>1, <1>3, <1>4, <1>6, <2>3 DEF Sobra
<1> QED BY <1>5, <1>6

\* It uses it for nothing: the process is left where it was.
LEMMA SobraIoError ==
  ASSUME ITipo, NEW i \in Interfaces, IoError(i), NEW d \in ConPermiso
  PROVE  /\ Sobra(d)' = Sobra(d) - (IF d = i THEN 1 ELSE 0)
         /\ SinPermiso(d)' = SinPermiso(d) + (IF d = i THEN 1 ELSE 0)
<1> USE Nombres, Distintos
<1>1. sem[d] \in Nat /\ Tomado(d) \in Int /\ EnCamino(d) \in Nat /\ Largo(d) \in Nat
  BY LargoTipo
<1>2. Va(i, "atiende", "permiso") /\ UNCHANGED <<sem, cola, empuje>>
  BY SIoError
<1>3. EnCamino(d)' = EnCamino(d) /\ Largo(d)' = Largo(d) /\ sem'[d] = sem[d]
  BY <1>2 DEF EnCamino, Largo
<1>4. SinPermiso(d)' = SinPermiso(d) + (IF d = i THEN 1 ELSE 0)
  BY SIoError DEF SinPermiso, ITipo, TypeOK, TipoHistoria
<1>5. CASE d = i
  <2>1. Tomado(d) = 1 /\ Tomado(d)' = 0
    BY <1>2, <1>5, TomadoEs, TomadoEsP DEF Va, Uno
  <2> QED BY <1>1, <1>3, <1>4, <1>5, <2>1 DEF Sobra
<1>6. CASE d # i
  <2>1. \A g \in Hilos : g # i => pc'[g] = pc[g]
    BY <1>2 DEF Va
  <2>2. Tomado(d)' = Tomado(d)
    BY <1>6, <2>1, TomadoEs, TomadoEsP DEF Uno
  <2> QED BY <1>1, <1>3, <1>4, <1>6, <2>2 DEF Sobra
<1> QED BY <1>5, <1>6

\* Only ERROR adds to the errors.
LEMMA ErroresPaso ==
  ASSUME PasoVivo
  PROVE  \/ \E i \in Interfaces : IoError(i)
         \/ \A d \in ConPermiso : SinPermiso(d)' = SinPermiso(d)
<1>1. CASE \E i \in Interfaces : IoError(i)
  BY <1>1
<1>2. CASE errores' = errores
  BY <1>2 DEF SinPermiso
<1>3. CASE NewMulti \/ NewPermiso \/ NewListo \/ (NewSaca /\ cola["new"] # <<>>)
  BY <1>2, <1>3 DEF NewMulti, NewPermiso, NewListo, NewSaca, Muere
<1>4. CASE \/ ExitSaca \/ ExitToma \/ ExitFin \/ ExitCuenta \/ \E r \in Recursos : ExitLibera(r)
  BY <1>2, <1>4 DEF ExitSaca, ExitToma, ExitFin, ExitCuenta, ExitLibera, Muere
<1>5. CASE Despacha \/ CpuDevuelve \/ ManejaProceso \/ Termina \/ Desenrolla
  BY <1>2, <1>5 DEF Despacha, CpuDevuelve, ManejaProceso, Termina, Desenrolla, Muere
<1>6. CASE EntraRecurso \/ Wait \/ WaitAnota \/ Signal \/ SignalLibera \/ SignalSigue
  BY <1>2, <1>6 DEF EntraRecurso, Wait, WaitAnota, Signal, SignalLibera, SignalSigue
<1>7. CASE \E i \in Interfaces : IoToma(i) \/ IoTermina(i)
  BY <1>2, <1>7 DEF IoToma, IoTermina, Muere
<1>8. CASE \E h \in Hilos : Publicar(h)
  BY <1>2, <1>8 DEF Publicar, PublicarPcb, Muere
<1>9. CASE Elimina
  BY <1>2, <1>9 DEF Elimina, EliminaEnCola, MoverAExit, EliminaEjecutando, EliminaBloqueado,
     EliminaTerminado, Muere
<1>10. CASE IniciarProceso \/ Ajeno
  BY <1>2, <1>10 DEF IniciarProceso, Ajeno
<1> QED BY <1>1, <1>3, <1>4, <1>5, <1>6, <1>7, <1>8, <1>9, <1>10 DEF PasoVivo

\* FINALIZAR_PROCESO takes a process out of a queue and leaves its permit there.
LEMMA SobraElimina ==
  ASSUME ITipo, Elimina, kernel' = "vivo"
  PROVE  \/ UNCHANGED <<cola, empuje>> /\ \A d \in ConPermiso : Sobra(d)' = Sobra(d)
         \/ \E c \in {"new", "ready"} \cup Recursos \cup Interfaces :
              /\ Mueve("consola", c, "exit", mano["consola"])
              /\ \A d \in ConPermiso :
                   Sobra(d)' = Sobra(d) + (IF d = c THEN Uno(Contiene(cola[c], mano["consola"])) ELSE 0)
<1> USE Nombres, Distintos
<1>1. Va("consola", "elimina", "reanuda") /\ UNCHANGED sem
  BY SElimina
<1>2. CASE UNCHANGED <<cola, empuje>>
  BY <1>1, <1>2, VaSinPermiso, SobraQuieta
<1>3. ASSUME NEW c \in {"new", "ready"} \cup Recursos \cup Interfaces,
             Mueve("consola", c, "exit", mano["consola"]), NEW d \in ConPermiso
      PROVE  Sobra(d)' = Sobra(d) + (IF d = c THEN Uno(Contiene(cola[c], mano["consola"])) ELSE 0)
  <2>1. sem[d] \in Nat /\ Tomado(d) \in Int /\ EnCamino(d) \in Nat /\ Largo(d) \in Nat
    BY LargoTipo
  <2>2. Tomado(d)' = Tomado(d) /\ sem'[d] = sem[d]
    BY <1>1, VaSinPermiso, TomadoIgual
  <2>3. PermisoDe(c) = c /\ PermisoDe("exit") = "exit"
    BY DEF PermisoDe
  <2>4. PICK u \in {0, 1} : u = Uno(Contiene(cola[c], mano["consola"]))
    BY DEF Uno
  <2>5. /\ Largo(d)' = Largo(d) + (IF d = "exit" THEN 1 ELSE 0) - (IF d = c THEN u ELSE 0)
        /\ EnCamino(d)' = EnCamino(d) + (IF d = "exit" THEN 1 ELSE 0)
    BY <1>3, <2>3, <2>4, MueveCuenta
  <2> QED BY <2>1, <2>2, <2>4, <2>5 DEF Sobra
<1> QED BY <1>2, <1>3, SElimina

\* No interface loses a process but to its own thread and to FINALIZAR_PROCESO.
LEMMA ColaInterfaz ==
  ASSUME ITipo,
         \/ UNCHANGED cola
         \/ \E h, c, p : Pone(h, c, p)
         \/ \E h, a, c : Pasa(h, a, c) /\ a \notin Interfaces
         \/ \E a : Retira(a) /\ a \notin Interfaces
  PROVE  \A i \in Interfaces : cola'[i] = cola[i] \/ \E x \in Pids : cola'[i] = Append(cola[i], x)
<1> SUFFICES ASSUME NEW i \in Interfaces
             PROVE  cola'[i] = cola[i] \/ \E x \in Pids : cola'[i] = Append(cola[i], x)
  OBVIOUS
<1>1. i \in Colas
  BY Nombres
<1>2. ASSUME NEW h, NEW c, NEW p, Pone(h, c, p)
      PROVE  cola'[i] = cola[i] \/ \E x \in Pids : cola'[i] = Append(cola[i], x)
  BY <1>1, <1>2 DEF Pone
<1>3. ASSUME NEW h, NEW a, NEW c, Pasa(h, a, c), a \notin Interfaces
      PROVE  cola'[i] = cola[i] \/ \E x \in Pids : cola'[i] = Append(cola[i], x)
  <2>1. Head(cola[a]) \in Pids
    BY <1>3, TipoSacar DEF Pasa
  <2> QED BY <1>1, <1>3, <2>1 DEF Pasa
<1>4. ASSUME NEW a, Retira(a), a \notin Interfaces PROVE cola'[i] = cola[i]
  BY <1>1, <1>4 DEF Retira
<1> QED BY <1>2, <1>3, <1>4

\* Who is in a queue stays in it when it grows.
LEMMA ContieneAppend ==
  ASSUME NEW s \in Seq(Pids), NEW x \in Pids, NEW p
  PROVE  Contiene(Append(s, x), p) <=> Contiene(s, p) \/ x = p
<1>1. Len(Append(s, x)) = Len(s) + 1 /\ Append(s, x)[Len(s) + 1] = x
      /\ \A k \in 1 .. Len(s) : Append(s, x)[k] = s[k]
  OBVIOUS
<1>2. Len(s) \in Nat
  OBVIOUS
<1>3. ASSUME Contiene(Append(s, x), p) PROVE Contiene(s, p) \/ x = p
  <2>1. PICK k \in 1 .. Len(s) + 1 : Append(s, x)[k] = p
    BY <1>1, <1>3 DEF Contiene
  <2>2. k \in 1 .. Len(s) \/ k = Len(s) + 1
    BY <1>2
  <2> QED BY <1>1, <2>1, <2>2 DEF Contiene
<1>4. ASSUME Contiene(s, p) PROVE Contiene(Append(s, x), p)
  <2>1. PICK k \in 1 .. Len(s) : s[k] = p
    BY <1>4 DEF Contiene
  <2>2. k \in 1 .. Len(s) + 1
    BY <1>2
  <2> QED BY <1>1, <2>1, <2>2 DEF Contiene
<1>5. ASSUME x = p PROVE Contiene(Append(s, x), p)
  BY <1>1, <1>2, <1>5 DEF Contiene
<1> QED BY <1>3, <1>4, <1>5

\* The process manejar_io waits for, taken away.
LEMMA HuerfanoEs ==
  \A c : /\ Huerfano(c) \in {0, 1}
         /\ Huerfano(c) = 1 <=> c \in Interfaces /\ pc[c] = "atiende" /\ ~ Contiene(cola[c], mano[c])
BY DEF Huerfano, Uno

\* The same in the next state.
LEMMA HuerfanoEsP ==
  \A c : /\ Huerfano(c)' \in {0, 1}
         /\ Huerfano(c)' = 1 <=> c \in Interfaces /\ pc'[c] = "atiende" /\ ~ Contiene(cola'[c], mano'[c])
BY DEF Huerfano, Uno, Contiene

\* The errors of an interface are a number.
LEMMA SinPermisoTipo ==
  ASSUME ITipo, NEW c
  PROVE  SinPermiso(c) \in Nat
BY DEF SinPermiso, ITipo, TypeOK, TipoHistoria

\* The invariant with Sobra.
LEMMA AlcanzaEs == ITipo => (Alcanza <=> \A c \in ConPermiso : Sobra(c) + SinPermiso(c) >= Huerfano(c))
<1> SUFFICES ASSUME ITipo PROVE Alcanza <=> \A c \in ConPermiso : Sobra(c) + SinPermiso(c) >= Huerfano(c)
  OBVIOUS
<1>1. ASSUME NEW c \in ConPermiso
      PROVE  sem[c] + Tomado(c) + EnCamino(c) + SinPermiso(c) >= Largo(c) + Huerfano(c)
               <=> Sobra(c) + SinPermiso(c) >= Huerfano(c)
  <2>1. /\ sem[c] \in Nat /\ Tomado(c) \in Int /\ EnCamino(c) \in Nat /\ Largo(c) \in Nat
        /\ Huerfano(c) \in Int /\ SinPermiso(c) \in Nat
    BY LargoTipo, HuerfanoEs, SinPermisoTipo
  <2> QED BY <2>1 DEF Sobra
<1> QED BY <1>1 DEF Alcanza

\* Nothing changes for who waits at an interface.
LEMMA AlcanzaIgual ==
  ASSUME ITipo, Alcanza, NEW d \in ConPermiso, Sobra(d)' = Sobra(d),
         d \in Interfaces =>
           /\ pc'[d] = "atiende" => pc[d] = "atiende" /\ mano'[d] = mano[d]
           /\ cola'[d] = cola[d] \/ \E x \in Pids : cola'[d] = Append(cola[d], x)
  PROVE  Sobra(d)' + SinPermiso(d) >= Huerfano(d)'
<1>1. Huerfano(d)' = 1 => Huerfano(d) = 1
  <2> SUFFICES ASSUME d \in Interfaces, pc'[d] = "atiende", ~ Contiene(cola'[d], mano'[d])
               PROVE  ~ Contiene(cola[d], mano[d]) /\ pc[d] = "atiende"
    BY HuerfanoEs, HuerfanoEsP
  <2>1. cola[d] \in Seq(Pids) /\ pc[d] = "atiende" /\ mano'[d] = mano[d]
    BY LargoTipo
  <2>2. \A x \in Pids : Contiene(cola[d], mano[d]) => Contiene(Append(cola[d], x), mano[d])
    BY <2>1, ContieneAppend
  <2> QED BY <2>1, <2>2
<1>2. Sobra(d) + SinPermiso(d) >= Huerfano(d) /\ Sobra(d) \in Int /\ SinPermiso(d) \in Nat
  BY AlcanzaEs, SobraTipo, SinPermisoTipo
<1> QED BY <1>1, <1>2, HuerfanoEs, HuerfanoEsP

\* Who waits where an interface's thread does not move.
LEMMA AtiendeIgual ==
  ASSUME ITipo
  PROVE  /\ \A h \in {"new", "exit", "corto", "consola"} : \A d, e : Va(h, d, e) =>
              \A i \in Interfaces : pc'[i] = pc[i]
         /\ \A h \in {"new", "exit", "corto", "consola"} : \A p : Lleva(h, p) =>
              \A i \in Interfaces : mano'[i] = mano[i]
<1>1. \A i \in Interfaces : i \in Hilos /\ i \notin {"new", "exit", "corto", "consola"}
  BY Nombres, Distintos
<1> QED BY <1>1 DEF Va, Lleva

\* The steps that leave the threads of the interfaces where they are, and their queues as
\* long or longer.
LEMMA InterfacesQuietas ==
  ASSUME ITipo,
         \/ NewMulti \/ NewPermiso \/ NewListo \/ (NewSaca /\ cola["new"] # <<>>)
         \/ ExitToma \/ ExitFin \/ ExitCuenta \/ \E r \in Recursos : ExitLibera(r)
         \/ ExitSaca /\ cola["exit"] # <<>> /\ Head(cola["exit"]) \in listaPcb
         \/ Despacha /\ cola[ColaSiguiente] # <<>>
         \/ CpuDevuelve
         \/ ManejaProceso /\ cola["exec"] # <<>> /\ Head(cola["exec"]) \in listaPcb
         \/ Termina \/ Desenrolla \/ EntraRecurso \/ Wait \/ WaitAnota
         \/ Signal \/ SignalLibera \/ SignalSigue
         \/ \E h \in Hilos : Publicar(h) /\ empuje[h].pid \in listaPcb
         \/ IniciarProceso \/ Ajeno
  PROVE  /\ \A d \in ConPermiso : Sobra(d)' = Sobra(d)
         /\ \A i \in Interfaces :
              /\ pc'[i] = pc[i] /\ mano'[i] = mano[i]
              /\ cola'[i] = cola[i] \/ \E x \in Pids : cola'[i] = Append(cola[i], x)
<1> USE Nombres, Distintos
<1>1. CASE NewMulti \/ NewPermiso \/ NewListo \/ (NewSaca /\ cola["new"] # <<>>)
  <2>1. \A i \in Interfaces : pc'[i] = pc[i] /\ mano'[i] = mano[i]
    BY <1>1, SNewMulti, SNewPermiso, SNewListo, SNewSaca, AtiendeIgual
  <2>2. UNCHANGED cola \/ Pasa("new", "new", "ready")
    BY <1>1, SNewMulti, SNewPermiso, SNewListo, SNewSaca
  <2> QED BY <1>1, <2>1, <2>2, SobraNew, ColaInterfaz
<1>2. CASE ExitToma \/ ExitFin \/ ExitCuenta
  <2>1. \A i \in Interfaces : pc'[i] = pc[i] /\ mano'[i] = mano[i]
    BY <1>2, SExitToma, SExitFin, SExitCuenta, AtiendeIgual
  <2>2. UNCHANGED cola
    BY <1>2, SExitToma, SExitFin, SExitCuenta
  <2> QED BY <1>2, <2>1, <2>2, SobraExit, ColaInterfaz
<1>3. CASE ExitSaca /\ cola["exit"] # <<>> /\ Head(cola["exit"]) \in listaPcb
  <2>1. \A i \in Interfaces : pc'[i] = pc[i] /\ mano'[i] = mano[i]
    BY <1>3, SExitSaca, AtiendeIgual
  <2>2. Retira("exit")
    BY <1>3, SExitSaca
  <2> QED BY <1>3, <2>1, <2>2, SobraExit, ColaInterfaz
<1>4. ASSUME NEW r \in Recursos, ExitLibera(r)
      PROVE  /\ \A d \in ConPermiso : Sobra(d)' = Sobra(d)
             /\ \A i \in Interfaces :
                  /\ pc'[i] = pc[i] /\ mano'[i] = mano[i]
                  /\ cola'[i] = cola[i] \/ \E x \in Pids : cola'[i] = Append(cola[i], x)
  <2>1. UNCHANGED <<pc, mano>> /\ (UNCHANGED cola \/ Pasa("exit", r, "ready"))
    BY <1>4, SExitLibera, SLiberar
  <2> QED BY <1>4, <2>1, SobraExit, ColaInterfaz
<1>5. CASE Despacha /\ cola[ColaSiguiente] # <<>>
  <2>1. \A i \in Interfaces : pc'[i] = pc[i] /\ mano'[i] = mano[i]
    BY <1>5, SDespacha, AtiendeIgual
  <2>2. Pasa("corto", ColaSiguiente, "exec") /\ ColaSiguiente \notin Interfaces
    BY <1>5, SDespacha DEF ColaSiguiente
  <2> QED BY <1>5, <2>1, <2>2, SobraCorto, ColaInterfaz
<1>6. CASE CpuDevuelve \/ Termina \/ Desenrolla \/ EntraRecurso \/ Wait
  <2>1. \A i \in Interfaces : pc'[i] = pc[i] /\ mano'[i] = mano[i]
    BY <1>6, SCpuDevuelve, SVuelve, SEntraRecurso, SWait, AtiendeIgual
  <2>2. UNCHANGED cola
    BY <1>6, SCpuDevuelve, SVuelve, SEntraRecurso, SWait
  <2> QED BY <1>6, <2>1, <2>2, SobraCorto, ColaInterfaz
<1>7. CASE ManejaProceso /\ cola["exec"] # <<>> /\ Head(cola["exec"]) \in listaPcb
  <2>1. \A i \in Interfaces : pc'[i] = pc[i] /\ mano'[i] = mano[i]
    BY <1>7, SManejaProceso, AtiendeIgual
  <2>2. Retira("exec") \/ \E c : Pasa("corto", "exec", c)
    BY <1>7, SManejaProceso
  <2> QED BY <1>7, <2>1, <2>2, SobraCorto, ColaInterfaz
<1>8. CASE WaitAnota \/ Signal \/ SignalSigue
  <2>1. \A i \in Interfaces : pc'[i] = pc[i] /\ mano'[i] = mano[i]
    BY <1>8, SWaitAnota, SSignal, SSignalSigue, AtiendeIgual
  <2>2. UNCHANGED cola \/ \E h, c, p : Pone(h, c, p)
    BY <1>8, SWaitAnota, SSignal, SSignalSigue
  <2> QED BY <1>8, <2>1, <2>2, SobraCorto, ColaInterfaz
<1>9. CASE SignalLibera
  <2>1. \A i \in Interfaces : pc'[i] = pc[i] /\ mano'[i] = mano[i]
    BY <1>9, SSignalLibera, AtiendeIgual
  <2>2. RecursoPedido \in Recursos /\ (UNCHANGED cola \/ Pasa("corto", RecursoPedido, "ready"))
    BY <1>9, SSignalLibera, SLiberar
  <2> QED BY <1>9, <2>1, <2>2, SobraCorto, ColaInterfaz
<1>10. ASSUME NEW h \in Hilos, Publicar(h), empuje[h].pid \in listaPcb
       PROVE  (\A d \in ConPermiso : Sobra(d)' = Sobra(d)) /\ UNCHANGED <<cola, pc, mano>>
  BY <1>10, SPublicar, SobraPublicar
<1>11. CASE IniciarProceso
  <2>1. UNCHANGED <<sem, pc, mano>> /\ Pone("consola", "new", proximo)
    BY <1>11, SIniciarProceso
  <2> QED BY <2>1, SobraQuieta, ColaInterfaz
<1>12. CASE Ajeno
  <2>1. /\ UNCHANGED <<sem, cola, empuje>> /\ \A h \in Hilos : h # "consola" => mano'[h] = mano[h]
        /\ Arrancan
    BY <1>12 DEF Ajeno
  <2>2. \A i \in Interfaces : pc'[i] = pc[i] /\ mano'[i] = mano[i]
    BY <2>1 DEF Arrancan
  <2>3. pc'["new"] = "saca" <=> pc["new"] = "saca"
    BY <2>1 DEF Arrancan
  <2> QED BY <2>1, <2>2, <2>3, SobraQuieta
<1> QED BY <1>1, <1>2, <1>3, <1>4, <1>5, <1>6, <1>7, <1>8, <1>9, <1>10, <1>11, <1>12

\* Every step keeps Alcanza.
LEMMA AlcanzaPaso ==
  ASSUME ITipo, ITipo', Alcanza, PasoVivo
  PROVE  Alcanza'
<1> USE Nombres, Distintos
<1> SUFFICES ASSUME NEW d \in ConPermiso PROVE Sobra(d)' + SinPermiso(d)' >= Huerfano(d)'
  <2>1. ITipo' => (Alcanza' <=> (\A c \in ConPermiso : Sobra(c) + SinPermiso(c) >= Huerfano(c))')
    BY AlcanzaEs, PTL
  <2> QED BY <2>1
<1>0. /\ Sobra(d) + SinPermiso(d) >= Huerfano(d) /\ Sobra(d) \in Int /\ SinPermiso(d) \in Nat
      /\ Huerfano(d) \in {0, 1} /\ Huerfano(d)' \in {0, 1}
  BY AlcanzaEs, SobraTipo, SinPermisoTipo, HuerfanoEs, HuerfanoEsP
<1>1. ASSUME NEW i \in Interfaces, IoToma(i), cola[i] # <<>>, Head(cola[i]) \in listaPcb
      PROVE  Sobra(d)' + SinPermiso(d) >= Huerfano(d)'
  <2>1. Sobra(d)' = Sobra(d)
    BY <1>1, SobraIoToma
  <2>2. Va(i, "permiso", "atiende") /\ Lleva(i, Head(cola[i])) /\ UNCHANGED cola
    BY <1>1, SIoToma
  <2>3. CASE d = i
    <3>1. cola[i] \in Seq(Pids)
      BY LargoTipo
    <3>2. Contiene(cola[i], Head(cola[i]))
      BY <1>1, <3>1 DEF Contiene
    <3>3. Huerfano(d)' = 0
      BY <2>2, <2>3, <3>2, HuerfanoEsP DEF Lleva
    <3> QED BY <1>0, <2>1, <3>3
  <2>4. CASE d # i
    <3>1. d \in Interfaces => pc'[d] = pc[d] /\ mano'[d] = mano[d] /\ cola'[d] = cola[d]
      BY <2>2, <2>4 DEF Va, Lleva
    <3> QED BY <2>1, <3>1, AlcanzaIgual
  <2> QED BY <2>3, <2>4
<1>2. ASSUME NEW i \in Interfaces, IoTermina(i), mano[i] \in listaPcb
      PROVE  Sobra(d)' + SinPermiso(d) >= Huerfano(d)'
  <2>1. Sobra(d)' = Sobra(d) - (IF d = i /\ ~ Contiene(cola[i], mano[i]) THEN 1 ELSE 0)
    BY <1>2, SobraIoTermina
  <2>2. Va(i, "atiende", "permiso") /\ Lleva(i, NADIE)
    BY <1>2, SIoTermina
  <2>3. CASE d = i
    <3>1. Huerfano(d)' = 0
      BY <2>2, <2>3, HuerfanoEsP DEF Va
    <3>2. ~ Contiene(cola[i], mano[i]) => Huerfano(d) = 1
      BY <2>2, <2>3, HuerfanoEs DEF Va
    <3> QED BY <1>0, <2>1, <3>1, <3>2
  <2>4. CASE d # i
    <3>1. d \in Interfaces => pc'[d] = pc[d] /\ mano'[d] = mano[d]
      BY <2>2, <2>4 DEF Va, Lleva
    <3>2. d \in Interfaces => cola'[d] = cola[d]
      BY <1>2, <2>4, SIoTermina DEF Mueve
    <3>3. Sobra(d)' = Sobra(d)
      BY <1>0, <2>1, <2>4
    <3> QED BY <3>1, <3>2, <3>3, AlcanzaIgual
  <2> QED BY <2>3, <2>4
<1>3. ASSUME Elimina, kernel' = "vivo" PROVE Sobra(d)' + SinPermiso(d) >= Huerfano(d)'
  <2>1. UNCHANGED mano /\ Va("consola", "elimina", "reanuda") /\ mano["consola"] \in Pids
    BY <1>3, SElimina DEF Va, ITipo, Locales
  <2>2. \A i \in Interfaces : pc'[i] = pc[i] /\ mano'[i] = mano[i]
    BY <2>1, AtiendeIgual
  <2>3. ASSUME UNCHANGED <<cola, empuje>>, Sobra(d)' = Sobra(d)
        PROVE  Sobra(d)' + SinPermiso(d) >= Huerfano(d)'
    BY <2>2, <2>3, AlcanzaIgual
  <2>4. ASSUME NEW c \in {"new", "ready"} \cup Recursos \cup Interfaces,
               Mueve("consola", c, "exit", mano["consola"]),
               Sobra(d)' = Sobra(d) + (IF d = c THEN Uno(Contiene(cola[c], mano["consola"])) ELSE 0)
        PROVE  Sobra(d)' + SinPermiso(d) >= Huerfano(d)'
    <3>1. c \in Colas /\ cola[c] \in Seq(Pids)
      BY LargoTipo DEF Colas
    <3>2. CASE d = c /\ Contiene(cola[c], mano["consola"])
      <4>1. Sobra(d)' = Sobra(d) + 1
        BY <2>4, <3>2 DEF Uno
      <4> QED BY <1>0, <4>1
    <3>3. CASE d # c \/ ~ Contiene(cola[c], mano["consola"])
      <4>1. Sobra(d)' = Sobra(d)
        BY <1>0, <2>4, <3>3 DEF Uno
      <4>2. d \in Interfaces => cola'[d] = cola[d]
        <5>1. CASE d # c
          BY <2>4, <5>1 DEF Mueve
        <5>2. CASE d = c
          BY <2>4, <3>1, <3>3, <5>2, LargoQuitar DEF Mueve
        <5> QED BY <5>1, <5>2
      <4> QED BY <2>2, <4>1, <4>2, AlcanzaIgual
    <3> QED BY <3>2, <3>3
  <2> QED BY <1>3, <2>3, <2>4, SobraElimina
<1>4. ASSUME /\ Sobra(d)' = Sobra(d)
             /\ \A i \in Interfaces :
                  /\ pc'[i] = pc[i] /\ mano'[i] = mano[i]
                  /\ cola'[i] = cola[i] \/ \E x \in Pids : cola'[i] = Append(cola[i], x)
      PROVE  Sobra(d)' + SinPermiso(d) >= Huerfano(d)'
  BY <1>4, AlcanzaIgual
<1>5. CASE \A e \in ConPermiso : SinPermiso(e)' = SinPermiso(e)
  <2>1. SinPermiso(d)' = SinPermiso(d)
    BY <1>5
  <2>2. ASSUME NEW i \in Interfaces, IoError(i) PROVE FALSE
    <3>1. i \in ConPermiso
      BY DEF ConPermiso
    <3>2. SinPermiso(i)' = SinPermiso(i) + 1
      BY <2>2, <3>1, SobraIoError
    <3> QED BY <1>5, <3>1, <3>2, SinPermisoTipo
  <2>3. Sobra(d)' + SinPermiso(d) >= Huerfano(d)'
    <3>1. CASE \E i \in Interfaces : IoToma(i) /\ cola[i] # <<>> /\ Head(cola[i]) \in listaPcb
      BY <1>1, <3>1
    <3>2. CASE \E i \in Interfaces : IoTermina(i) /\ mano[i] \in listaPcb
      BY <1>2, <3>2
    <3>3. CASE Elimina /\ kernel' = "vivo"
      BY <1>3, <3>3
    <3>4. ~ \E i \in Interfaces : IoError(i)
      BY <2>2
    <3> QED BY <1>4, <3>1, <3>2, <3>3, <3>4, InterfacesQuietas DEF PasoVivo
  <2> QED BY <2>1, <2>3
<1>6. ASSUME NEW i \in Interfaces, IoError(i) PROVE Sobra(d)' + SinPermiso(d)' >= Huerfano(d)'
  <2>1. /\ Sobra(d)' = Sobra(d) - (IF d = i THEN 1 ELSE 0)
        /\ SinPermiso(d)' = SinPermiso(d) + (IF d = i THEN 1 ELSE 0)
    BY <1>6, SobraIoError
  <2>2. Va(i, "atiende", "permiso") /\ Lleva(i, NADIE) /\ UNCHANGED cola
    BY <1>6, SIoError
  <2>3. Huerfano(d)' = 1 => Huerfano(d) = 1
    BY <2>2, HuerfanoEs, HuerfanoEsP DEF Va, Lleva
  <2> QED BY <1>0, <2>1, <2>3
<1> QED BY <1>5, <1>6, ErroresPaso

\* The exact count with Sobra.
LEMMA ExactosEs == ITipo => (PermisosExactos <=> \A c \in ConPermiso : Sobra(c) + SinPermiso(c) = 0)
<1> SUFFICES ASSUME ITipo PROVE PermisosExactos <=> \A c \in ConPermiso : Sobra(c) + SinPermiso(c) = 0
  OBVIOUS
<1>1. ASSUME NEW c \in ConPermiso
      PROVE  sem[c] + Tomado(c) + EnCamino(c) + SinPermiso(c) = Largo(c) <=> Sobra(c) + SinPermiso(c) = 0
  <2>1. /\ sem[c] \in Nat /\ Tomado(c) \in Int /\ EnCamino(c) \in Nat /\ Largo(c) \in Nat
        /\ SinPermiso(c) \in Nat
    BY LargoTipo, SinPermisoTipo
  <2> DEFINE Hay == sem[c] + Tomado(c) + EnCamino(c) + SinPermiso(c)
  <2>2. Hay \in Int /\ Sobra(c) + SinPermiso(c) = Hay - Largo(c)
    BY <2>1 DEF Sobra
  <2> HIDE DEF Hay
  <2>3. Hay = Largo(c) <=> Hay - Largo(c) = 0
    BY <2>1, <2>2
  <2>4. Hay = Largo(c) <=> Sobra(c) + SinPermiso(c) = 0
    BY <2>2, <2>3
  <2> QED BY <2>4 DEF Hay
<1> QED BY <1>1 DEF PermisosExactos

\* With exact permits, who has one finds somebody in the queue.
LEMMA PermisoHayAlguien ==
  ASSUME ITipo, PermisosExactos, SinAux
  PROVE  /\ \A c \in ConPermiso : c # "ready" /\ (sem[c] > 0 \/ Tomado(c) = 1) => cola[c] # <<>>
         /\ sem["ready"] > 0 => cola[ColaSiguiente] # <<>>
<1> USE Nombres
<1>1. \A c \in Colas : Cuantos(c) > 0 <=> cola[c] # <<>>
  BY LargoTipo DEF Cuantos
<1>2. ASSUME NEW c \in ConPermiso, sem[c] > 0 \/ Tomado(c) = 1 PROVE Largo(c) > 0
  <2>1. /\ sem[c] \in Nat /\ Tomado(c) \in {0, 1} /\ EnCamino(c) \in Nat /\ Largo(c) \in Nat
        /\ SinPermiso(c) \in Nat
    BY LargoTipo, SinPermisoTipo
  <2>2. sem[c] + Tomado(c) + EnCamino(c) + SinPermiso(c) = Largo(c)
    BY DEF PermisosExactos
  <2> QED BY <1>2, <2>1, <2>2
<1>3. ASSUME NEW c \in ConPermiso, c # "ready", sem[c] > 0 \/ Tomado(c) = 1 PROVE cola[c] # <<>>
  BY <1>1, <1>2, <1>3, LargoEs, LargoTipo
<1>4. ASSUME sem["ready"] > 0 PROVE cola[ColaSiguiente] # <<>>
  <2>1. Cuantos("ready") > 0 \/ Cuantos("aux") > 0
    BY <1>2, <1>4, LargoEs, LargoTipo
  <2>2. cola["ready"] # <<>> \/ cola["aux"] # <<>>
    BY <1>1, <2>1
  <2> QED BY <2>2 DEF ColaSiguiente, SinAux
<1> QED BY <1>3, <1>4

\* Nobody follows a NULL.
LEMMA NadieCae ==
  ASSUME ITipo, ~ Finaliza, Ejecuta, Exacto, [Next]_vars
  PROVE  kernel' # "caido"
<1> USE Nombres, PermisoHayAlguien
<1> SUFFICES ASSUME kernel' = "caido", kernel' # kernel PROVE FALSE
  BY DEF Exacto, SinPunteroNulo
<1>1. PermisosExactos /\ SinAux /\ pc["consola"] # "elimina"
  BY DEF Exacto
<1>2. Next
  BY DEF vars
<1>3. CASE PasoNew
  <2>1. NewSaca /\ cola["new"] = <<>>
    BY <1>3 DEF PasoNew, NewMulti, NewPermiso, NewSaca, NewListo
  <2>2. Tomado("new") = 1
    BY <2>1, TomadoEs DEF NewSaca, Turno, Uno
  <2> QED BY <1>1, <2>1, <2>2
<1>4. CASE PasoExit
  BY <1>1, <1>4 DEF PasoExit, ExitSaca, ExitToma, ExitFin, ExitCuenta, ExitLibera, Muere
<1>5. CASE PasoCorto
  <2>1. CASE Despacha
    BY <1>1, <2>1 DEF Despacha, Muere
  <2>2. CASE ManejaProceso
    BY <2>2 DEF ManejaProceso, Muere, Ejecuta, Turno
  <2> QED
    BY <1>5, <2>1, <2>2 DEF PasoCorto, CpuDevuelve, EntraRecurso, Wait, WaitAnota, Signal, SignalLibera,
       SignalSigue, Termina, Desenrolla
<1>6. CASE PasoConsola
  BY <1>1, <1>6 DEF PasoConsola, IniciarProceso, IniciarPlanificacion, DetenerPlanificacion, ProcesoEstado,
     Reanuda, Multiprogramacion, BajaGrado, EsperaGrado, TomaIgnorar, FijaGrado, Elimina, Turno,
     FinalizarProceso, Finaliza
<1>7. ASSUME NEW i \in Interfaces, PasoIo(i) PROVE FALSE
  <2>1. i \in ConPermiso /\ i # "ready"
    BY Distintos
  <2> QED BY <1>1, <1>7, <2>1 DEF PasoIo, IoToma, IoTermina, IoError, IoDesconexion, Muere
<1>8. CASE \E h \in Hilos : Publicar(h)
  BY <1>8 DEF Publicar, PublicarPcb, Muere
<1>9. CASE \E f \in Frenos : StopHilo(f)
  BY <1>9 DEF StopHilo
<1>10. CASE RecorridoRoto
  BY <1>10 DEF RecorridoRoto, Muere
<1> QED BY <1>2, <1>3, <1>4, <1>5, <1>6, <1>7, <1>8, <1>9, <1>10 DEF Next

\* What the queues look like without FINALIZAR_PROCESO: Atendido and READY+.
LEMMA AtendidoPaso ==
  ASSUME ITipo, ~ Finaliza, LugarConsola, Atendido, PasoVivo
  PROVE  /\ Atendido' /\ \A d \in ConPermiso : Sobra(d)' + SinPermiso(d)' = Sobra(d) + SinPermiso(d)
<1> USE Nombres, Distintos
<1>0. pc["consola"] # "elimina"
  BY DEF LugarConsola
<1>1. ASSUME NEW i \in Interfaces, IoToma(i), cola[i] # <<>>, Head(cola[i]) \in listaPcb
      PROVE  Atendido' /\ \A d \in ConPermiso : Sobra(d)' = Sobra(d)
  <2>1. Va(i, "permiso", "atiende") /\ Lleva(i, Head(cola[i])) /\ UNCHANGED cola
    BY <1>1, SIoToma
  <2>2. Atendido'
    BY <1>1, <2>1 DEF Atendido, Va, Lleva
  <2> QED BY <1>1, <2>2, SobraIoToma
<1>2. ASSUME NEW i \in Interfaces, IoTermina(i), mano[i] \in listaPcb
      PROVE  Atendido' /\ \A d \in ConPermiso : Sobra(d)' = Sobra(d)
  <2>1. Va(i, "atiende", "permiso") /\ Lleva(i, NADIE)
    BY <1>2, SIoTermina
  <2>2. cola[i] \in Seq(Pids) /\ cola[i] # <<>> /\ mano[i] = Head(cola[i])
    BY <2>1, LargoTipo DEF Atendido, Va
  <2>3. Contiene(cola[i], mano[i])
    BY <2>2 DEF Contiene
  <2>4. \A d \in ConPermiso : Sobra(d)' = Sobra(d)
    BY <1>2, <2>3, SobraIoTermina, SobraTipo
  <2>5. \A j \in Interfaces : j # i => cola'[j] = cola[j]
    BY <1>2, <2>3, SIoTermina DEF Mueve
  <2>6. Atendido'
    BY <2>1, <2>5 DEF Atendido, Va, Lleva
  <2> QED BY <2>4, <2>6
<1>3. ASSUME \A i \in Interfaces :
                /\ pc'[i] = pc[i] /\ mano'[i] = mano[i]
                /\ cola'[i] = cola[i] \/ \E x \in Pids : cola'[i] = Append(cola[i], x)
      PROVE  Atendido'
  <2> SUFFICES ASSUME NEW i \in Interfaces, pc'[i] = "atiende"
               PROVE  cola'[i] # <<>> /\ mano'[i] = Head(cola'[i])
    BY DEF Atendido
  <2>1. cola[i] \in Seq(Pids) /\ cola[i] # <<>> /\ mano'[i] = Head(cola[i])
    BY <1>3, LargoTipo DEF Atendido
  <2>2. ASSUME NEW x \in Pids, cola'[i] = Append(cola[i], x)
        PROVE  cola'[i] # <<>> /\ Head(cola'[i]) = Head(cola[i])
    BY <2>1, <2>2
  <2> QED BY <1>3, <2>1, <2>2
<1>4. ~ Elimina
  BY <1>0 DEF Elimina, Turno
<1>5. CASE \A d \in ConPermiso : SinPermiso(d)' = SinPermiso(d)
  <2>1. ASSUME NEW i \in Interfaces, IoError(i) PROVE FALSE
    <3>1. i \in ConPermiso
      BY DEF ConPermiso
    <3>2. SinPermiso(i)' = SinPermiso(i) + 1
      BY <2>1, <3>1, SobraIoError
    <3> QED BY <1>5, <3>1, <3>2, SinPermisoTipo
  <2>2. Atendido' /\ \A d \in ConPermiso : Sobra(d)' = Sobra(d)
    BY <1>1, <1>2, <1>3, <1>4, <2>1, InterfacesQuietas DEF PasoVivo
  <2> QED BY <1>5, <2>2
<1>6. ASSUME NEW i \in Interfaces, IoError(i)
      PROVE  Atendido' /\ \A d \in ConPermiso : Sobra(d)' + SinPermiso(d)' = Sobra(d) + SinPermiso(d)
  <2>1. Va(i, "atiende", "permiso") /\ Lleva(i, NADIE) /\ UNCHANGED cola
    BY <1>6, SIoError
  <2>2. Atendido'
    BY <2>1 DEF Atendido, Va, Lleva
  <2>3. \A d \in ConPermiso : Sobra(d)' + SinPermiso(d)' = Sobra(d) + SinPermiso(d)
    BY <1>6, SobraIoError, SobraTipo, SinPermisoTipo
  <2> QED BY <2>2, <2>3
<1> QED BY <1>5, <1>6, ErroresPaso

\* Who leaves READY+ empty.
LEMMA AuxVacia ==
  ASSUME cola["aux"] = <<>>,
         \/ UNCHANGED cola
         \/ \E h, c, p : Pone(h, c, p) /\ c # "aux"
         \/ \E h, a, c : Pasa(h, a, c) /\ c # "aux"
         \/ \E a : Retira(a) /\ a # "aux"
         \/ \E h, a, c, p : Mueve(h, a, c, p) /\ a # "aux" /\ c # "aux"
  PROVE  cola'["aux"] = <<>>
<1> USE Nombres
<1>1. ASSUME NEW h, NEW c, NEW p, Pone(h, c, p), c # "aux" PROVE cola'["aux"] = <<>>
  BY <1>1 DEF Pone
<1>2. ASSUME NEW h, NEW a, NEW c, Pasa(h, a, c), c # "aux" PROVE cola'["aux"] = <<>>
  BY <1>2 DEF Pasa
<1>3. ASSUME NEW a, Retira(a), a # "aux" PROVE cola'["aux"] = <<>>
  BY <1>3 DEF Retira
<1>4. ASSUME NEW h, NEW a, NEW c, NEW p, Mueve(h, a, c, p), a # "aux", c # "aux"
      PROVE  cola'["aux"] = <<>>
  BY <1>4 DEF Mueve
<1> QED BY <1>1, <1>2, <1>3, <1>4

\* Only VRR uses READY+.
LEMMA SinAuxPaso ==
  ASSUME ITipo, SinAux, PasoVivo
  PROVE  SinAux'
<1> USE Nombres, Distintos
<1> SUFFICES ASSUME Algoritmo # "VRR", cola["aux"] = <<>> PROVE cola'["aux"] = <<>>
  BY DEF SinAux
<1>1. CASE NewMulti \/ NewPermiso \/ NewListo \/ (NewSaca /\ cola["new"] # <<>>)
  BY <1>1, AuxVacia, SNewMulti, SNewPermiso, SNewListo, SNewSaca
<1>2. CASE ExitToma \/ ExitFin \/ ExitCuenta
  BY <1>2, AuxVacia, SExitToma, SExitFin, SExitCuenta
<1>3. CASE ExitSaca /\ cola["exit"] # <<>> /\ Head(cola["exit"]) \in listaPcb
  BY <1>3, AuxVacia, SExitSaca
<1>4. ASSUME NEW r \in Recursos, ExitLibera(r) PROVE cola'["aux"] = <<>>
  <2>1. UNCHANGED cola \/ Pasa("exit", r, "ready")
    BY <1>4, SExitLibera, SLiberar
  <2> QED BY <2>1, AuxVacia
<1>5. CASE Despacha /\ cola[ColaSiguiente] # <<>>
  BY <1>5, AuxVacia, SDespacha
<1>6. CASE CpuDevuelve \/ Termina \/ Desenrolla \/ EntraRecurso \/ Wait
  BY <1>6, AuxVacia, SCpuDevuelve, SVuelve, SEntraRecurso, SWait
<1>7. CASE ManejaProceso /\ cola["exec"] # <<>> /\ Head(cola["exec"]) \in listaPcb
  BY <1>7, AuxVacia, SManejaProceso
<1>8. CASE WaitAnota
  BY <1>8, AuxVacia, SWaitAnota
<1>9. CASE Signal \/ SignalSigue
  BY <1>9, AuxVacia, SSignal, SSignalSigue
<1>10. CASE SignalLibera
  <2>1. UNCHANGED cola \/ Pasa("corto", RecursoPedido, "ready")
    BY <1>10, SSignalLibera, SLiberar
  <2> QED BY <2>1, AuxVacia
<1>11. ASSUME NEW i \in Interfaces, IoToma(i), cola[i] # <<>>, Head(cola[i]) \in listaPcb
       PROVE  cola'["aux"] = <<>>
  BY <1>11, AuxVacia, SIoToma
<1>12. ASSUME NEW i \in Interfaces, IoTermina(i), mano[i] \in listaPcb PROVE cola'["aux"] = <<>>
  BY <1>12, AuxVacia, SIoTermina
<1>13. ASSUME NEW h \in Hilos, Publicar(h), empuje[h].pid \in listaPcb PROVE cola'["aux"] = <<>>
  BY <1>13, AuxVacia, SPublicar
<1>14. CASE IniciarProceso
  BY <1>14, AuxVacia, SIniciarProceso
<1>15. CASE Elimina /\ kernel' = "vivo"
  BY <1>15, AuxVacia, SElimina
<1>16. CASE Ajeno
  BY <1>16, AuxVacia DEF Ajeno
<1>17. CASE \E i \in Interfaces : IoError(i)
  BY <1>17, AuxVacia, SIoError
<1> QED
  BY <1>1, <1>2, <1>3, <1>4, <1>5, <1>6, <1>7, <1>8, <1>9, <1>10, <1>11, <1>12, <1>13, <1>14, <1>15, <1>16, <1>17
  DEF PasoVivo

\* Every step keeps Exacto.
LEMMA ExactoPaso ==
  ASSUME ITipo, ITipo', SinPlanificador, ~ Finaliza, LugarConsola, Ejecuta, Exacto, [Next]_vars
  PROVE  Exacto'
<1>1. SinPunteroNulo'
  BY NadieCae DEF SinPunteroNulo
<1>2. pc'["consola"] # "elimina"
  BY LugarConsolaPaso DEF LugarConsola
<1>3. CASE PasoVivo
  <2>1. Atendido' /\ SinAux' /\ \A d \in ConPermiso : Sobra(d)' + SinPermiso(d)' = Sobra(d) + SinPermiso(d)
    BY <1>3, AtendidoPaso, SinAuxPaso DEF Exacto
  <2>2. (\A d \in ConPermiso : Sobra(d) + SinPermiso(d) = 0)'
    BY <2>1, ExactosEs DEF Exacto
  <2>3. ITipo' => (PermisosExactos' <=> (\A c \in ConPermiso : Sobra(c) + SinPermiso(c) = 0)')
    BY ExactosEs, PTL
  <2> QED BY <1>1, <1>2, <2>1, <2>2, <2>3 DEF Exacto
<1>4. CASE Muerto
  <2>1. Atendido' /\ SinAux'
    BY <1>4 DEF Muerto, Exacto, Atendido, SinAux
  <2>2. PermisosExactos'
    BY <1>4 DEF Muerto, Exacto, PermisosExactos, Largo, Tomado, EnCamino, SinPermiso, Uno
  <2> QED BY <1>1, <1>2, <2>1, <2>2 DEF Exacto
<1> QED BY <1>3, <1>4, Pasos

\* A sequence without its first, and with one more.
LEMMA ColaYMas ==
  ASSUME NEW s \in Seq(Pids), NEW x \in Pids
  PROVE  /\ Len(s) \in Nat
         /\ s # <<>> => /\ Len(Tail(s)) = Len(s) - 1 /\ Len(s) > 0 /\ Head(s) = s[1] /\ Head(s) \in Pids
                        /\ \A k \in 1 .. Len(s) - 1 : Tail(s)[k] = s[k + 1]
                        /\ Tail(s) \in Seq(Pids)
         /\ Len(Append(s, x)) = Len(s) + 1 /\ Append(s, x)[Len(s) + 1] = x
         /\ \A k \in 1 .. Len(s) : Append(s, x)[k] = s[k]
OBVIOUS

\* The first of a place goes to the end of another.
Traslada(s, t, a, c) ==
  /\ a # c /\ s[a] # <<>> /\ t[a] = Tail(s[a]) /\ t[c] = Append(s[c], Head(s[a]))
  /\ \A d \in Sitios : d # a /\ d # c => t[d] = s[d]

\* Nobody is lost or duplicated when that happens.
LEMMA TrasladaUnico ==
  ASSUME NEW s \in [Sitios -> Seq(Pids)], NEW t \in [Sitios -> Seq(Pids)],
         NEW a \in Sitios, NEW c \in Sitios, Traslada(s, t, a, c), SinRepetir(s), NEW P, Repartidos(s, P)
  PROVE  SinRepetir(t) /\ Repartidos(t, P)
<1> DEFINE x == Head(s[a])
           OD(d, j) == IF d = a \/ (d = c /\ j = Len(s[c]) + 1) THEN a ELSE d
           OJ(d, j) == IF d = a THEN j + 1 ELSE IF d = c /\ j = Len(s[c]) + 1 THEN 1 ELSE j
<1>1. s[a] \in Seq(Pids) /\ s[c] \in Seq(Pids) /\ s[a] # <<>> /\ a # c
  BY DEF Traslada
<1>2. /\ Len(s[a]) \in Nat /\ Len(s[c]) \in Nat /\ Len(s[a]) > 0 /\ x = s[a][1] /\ x \in Pids
      /\ Len(t[a]) = Len(s[a]) - 1 /\ \A k \in 1 .. Len(s[a]) - 1 : t[a][k] = s[a][k + 1]
  BY <1>1, ColaYMas DEF Traslada
<1>3. /\ Len(t[c]) = Len(s[c]) + 1 /\ t[c][Len(s[c]) + 1] = x
      /\ \A k \in 1 .. Len(s[c]) : t[c][k] = s[c][k]
  BY <1>1, <1>2, ColaYMas DEF Traslada
<1>4. \A d \in Sitios : d # a /\ d # c => t[d] = s[d]
  BY DEF Traslada
<1>5. ASSUME NEW d \in Sitios, NEW j \in 1 .. Len(t[d])
      PROVE  OD(d, j) \in Sitios /\ OJ(d, j) \in 1 .. Len(s[OD(d, j)]) /\ t[d][j] = s[OD(d, j)][OJ(d, j)]
  <2>1. CASE d = a
    <3>1. j + 1 \in 1 .. Len(s[a]) /\ t[a][j] = s[a][j + 1]
      BY <1>2, <1>5, <2>1
    <3> QED BY <2>1, <3>1
  <2>2. CASE d = c /\ j = Len(s[c]) + 1
    <3>1. 1 \in 1 .. Len(s[a]) /\ t[c][j] = s[a][1]
      BY <1>2, <1>3, <2>2
    <3> QED BY <1>1, <2>2, <3>1
  <2>3. CASE d = c /\ j # Len(s[c]) + 1
    <3>1. j \in 1 .. Len(s[c]) /\ t[c][j] = s[c][j]
      BY <1>2, <1>3, <1>5, <2>3
    <3> QED BY <1>1, <2>3, <3>1
  <2>4. CASE d # a /\ d # c
    BY <1>4, <1>5, <2>4
  <2> QED BY <2>1, <2>2, <2>3, <2>4
<1>6. SinRepetir(t)
  <2> SUFFICES ASSUME NEW d \in Sitios, NEW e \in Sitios, NEW j \in 1 .. Len(t[d]), NEW k \in 1 .. Len(t[e]),
                      t[d][j] = t[e][k]
               PROVE  d = e /\ j = k
    BY DEF SinRepetir
  <2>1. OD(d, j) = OD(e, k) /\ OJ(d, j) = OJ(e, k)
    <3>1. /\ OD(d, j) \in Sitios /\ OJ(d, j) \in 1 .. Len(s[OD(d, j)]) /\ t[d][j] = s[OD(d, j)][OJ(d, j)]
          /\ OD(e, k) \in Sitios /\ OJ(e, k) \in 1 .. Len(s[OD(e, k)]) /\ t[e][k] = s[OD(e, k)][OJ(e, k)]
      BY <1>5
    <3>2. PICK f, m, g, n : f = OD(d, j) /\ m = OJ(d, j) /\ g = OD(e, k) /\ n = OJ(e, k)
      OBVIOUS
    <3>3. f \in Sitios /\ m \in 1 .. Len(s[f]) /\ g \in Sitios /\ n \in 1 .. Len(s[g]) /\ s[f][m] = s[g][n]
      BY <3>1, <3>2
    <3>4. f = g /\ m = n
      BY <3>3 DEF SinRepetir
    <3> QED BY <3>2, <3>4
  <2>2. j \in Int /\ j >= 1 /\ k \in Int /\ k >= 1
    BY <1>1
  <2> QED BY <1>1, <1>2, <2>1, <2>2
<1>7. ASSUME NEW p, NEW d \in Sitios, Contiene(t[d], p) PROVE \E e \in Sitios : Contiene(s[e], p)
  <2>1. PICK j \in 1 .. Len(t[d]) : t[d][j] = p
    BY <1>7 DEF Contiene
  <2>2. OD(d, j) \in Sitios /\ OJ(d, j) \in 1 .. Len(s[OD(d, j)]) /\ s[OD(d, j)][OJ(d, j)] = p
    BY <1>5, <2>1
  <2> HIDE DEF OD, OJ
  <2> QED BY <2>2 DEF Contiene
<1>8. ASSUME NEW p, NEW d \in Sitios, Contiene(s[d], p) PROVE \E e \in Sitios : Contiene(t[e], p)
  <2>1. PICK j \in 1 .. Len(s[d]) : s[d][j] = p
    BY <1>8 DEF Contiene
  <2>2. CASE d = a /\ j = 1
    <3>1. Len(s[c]) + 1 \in 1 .. Len(t[c]) /\ t[c][Len(s[c]) + 1] = p
      BY <1>2, <1>3, <2>1, <2>2
    <3> QED BY <3>1 DEF Contiene
  <2>3. CASE d = a /\ j # 1
    <3>1. j - 1 \in 1 .. Len(t[a]) /\ t[a][j - 1] = s[a][(j - 1) + 1] /\ (j - 1) + 1 = j
      BY <1>2, <2>1, <2>3
    <3>2. t[a][j - 1] = p
      BY <2>1, <2>3, <3>1
    <3> QED BY <3>1, <3>2 DEF Contiene
  <2>4. CASE d = c
    <3>1. j \in 1 .. Len(t[c]) /\ t[c][j] = p
      BY <1>2, <1>3, <2>1, <2>4
    <3> QED BY <3>1 DEF Contiene
  <2>5. CASE d # a /\ d # c
    BY <1>4, <1>8, <2>5
  <2> QED BY <2>2, <2>3, <2>4, <2>5
<1>9. Repartidos(t, P)
  BY <1>7, <1>8 DEF Repartidos
<1> QED BY <1>6, <1>9

\* A process that was nowhere goes to the end of a place.
LEMMA LlegaUnico ==
  ASSUME NEW s \in [Sitios -> Seq(Pids)], NEW t \in [Sitios -> Seq(Pids)], NEW c \in Sitios, NEW x \in Pids,
         t[c] = Append(s[c], x), \A d \in Sitios : d # c => t[d] = s[d],
         SinRepetir(s), NEW P, Repartidos(s, P), x \notin P
  PROVE  SinRepetir(t) /\ Repartidos(t, P \cup {x})
<1>1. s[c] \in Seq(Pids)
  OBVIOUS
<1>2. /\ Len(s[c]) \in Nat /\ Len(t[c]) = Len(s[c]) + 1 /\ t[c][Len(s[c]) + 1] = x
      /\ \A k \in 1 .. Len(s[c]) : t[c][k] = s[c][k]
  BY <1>1, ColaYMas
<1>3. \A d \in Sitios : \A k \in 1 .. Len(s[d]) : s[d][k] # x
  BY DEF Repartidos, Contiene
<1>4. ASSUME NEW d \in Sitios, NEW j \in 1 .. Len(t[d])
      PROVE  \/ j \in 1 .. Len(s[d]) /\ t[d][j] = s[d][j] /\ t[d][j] # x
             \/ d = c /\ j = Len(s[c]) + 1 /\ t[d][j] = x
  <2>1. CASE d = c
    <3>1. j \in 1 .. Len(s[c]) \/ j = Len(s[c]) + 1
      BY <1>2, <1>4, <2>1
    <3> QED BY <1>2, <1>3, <2>1, <3>1
  <2>2. CASE d # c
    BY <1>3, <1>4, <2>2
  <2> QED BY <2>1, <2>2
<1>5. SinRepetir(t)
  <2> SUFFICES ASSUME NEW d \in Sitios, NEW e \in Sitios, NEW j \in 1 .. Len(t[d]), NEW k \in 1 .. Len(t[e]),
                      t[d][j] = t[e][k]
               PROVE  d = e /\ j = k
    BY DEF SinRepetir
  <2>1. CASE t[d][j] = x
    BY <1>4, <2>1
  <2>2. CASE t[d][j] # x
    <3>1. j \in 1 .. Len(s[d]) /\ k \in 1 .. Len(s[e]) /\ s[d][j] = s[e][k]
      BY <1>4, <2>2
    <3> QED BY <3>1 DEF SinRepetir
  <2> QED BY <2>1, <2>2
<1>6. ASSUME NEW p \in Pids, p \in P \cup {x} PROVE \E d \in Sitios : Contiene(t[d], p)
  <2>1. CASE p = x
    <3>1. Len(s[c]) + 1 \in 1 .. Len(t[c])
      BY <1>2
    <3> QED BY <1>2, <2>1, <3>1 DEF Contiene
  <2>2. CASE p \in P /\ p # x
    <3>1. PICK d \in Sitios : Contiene(s[d], p)
      BY <2>2 DEF Repartidos
    <3>2. PICK k \in 1 .. Len(s[d]) : s[d][k] = p
      BY <3>1 DEF Contiene
    <3>3. k \in 1 .. Len(t[d]) /\ t[d][k] = p
      <4>1. CASE d = c
        <5>1. k \in 1 .. Len(s[c]) + 1
          BY <1>2, <3>2, <4>1
        <5> QED BY <1>2, <3>2, <4>1, <5>1
      <4>2. CASE d # c
        BY <3>2, <4>2
      <4> QED BY <4>1, <4>2
    <3> QED BY <3>3 DEF Contiene
  <2> QED BY <1>6, <2>1, <2>2
<1>7. ASSUME NEW p \in Pids, NEW d \in Sitios, Contiene(t[d], p) PROVE p \in P \cup {x}
  <2>1. p = x \/ \E e \in Sitios : Contiene(s[e], p)
    BY <1>4, <1>7 DEF Contiene
  <2> QED BY <2>1 DEF Repartidos
<1> QED BY <1>5, <1>6, <1>7 DEF Repartidos

\* The only process of a place leaves.
LEMMA SaleUnico ==
  ASSUME NEW s \in [Sitios -> Seq(Pids)], NEW t \in [Sitios -> Seq(Pids)], NEW c \in Sitios, NEW x \in Pids,
         s[c] = <<x>>, t[c] = <<>>, \A d \in Sitios : d # c => t[d] = s[d],
         SinRepetir(s), NEW P, Repartidos(s, P)
  PROVE  SinRepetir(t) /\ Repartidos(t, P \ {x})
<1>1. Len(s[c]) = 1 /\ s[c][1] = x /\ Len(t[c]) = 0
  OBVIOUS
<1>2. \A d \in Sitios : \A j \in 1 .. Len(t[d]) : d # c /\ j \in 1 .. Len(s[d]) /\ t[d][j] = s[d][j]
  BY <1>1
<1>3. SinRepetir(t)
  BY <1>2 DEF SinRepetir
<1>4. \A d \in Sitios : d # c => \A j \in 1 .. Len(s[d]) : s[d][j] # x
  <2>1. 1 \in 1 .. Len(s[c])
    BY <1>1
  <2> QED BY <1>1, <2>1 DEF SinRepetir
<1>5. ASSUME NEW p \in Pids
      PROVE  p \in P /\ p # x <=> \E d \in Sitios : Contiene(t[d], p)
  <2>1. p \in P <=> \E d \in Sitios : Contiene(s[d], p)
    BY DEF Repartidos
  <2>2. Contiene(s[c], p) <=> p = x
    BY <1>1 DEF Contiene
  <2>3. \A d \in Sitios : d # c => (Contiene(t[d], p) <=> Contiene(s[d], p) /\ p # x)
    BY <1>4 DEF Contiene
  <2>4. ~ Contiene(t[c], p)
    BY <1>1 DEF Contiene
  <2> QED BY <2>1, <2>2, <2>3, <2>4
<1> QED BY <1>3, <1>5 DEF Repartidos

\* The hands of a thread are no queue.
LEMMA SitiosSon ==
  /\ "corto" \notin Colas /\ LIBRE \notin Colas /\ "corto" # LIBRE
  /\ Colas \subseteq Sitios /\ "corto" \in Sitios /\ LIBRE \in Sitios
BY NombresAssumption DEF LIBRE, Colas, Sitios

\* The places and what is in them.
LEMMA SitioEs ==
  ITipo /\ ManoExit =>
    /\ Sitio \in [Sitios -> Seq(Pids)]
    /\ \A c \in Colas : Sitio[c] = cola[c]
    /\ Sitio["corto"] = (IF Llamando THEN <<mano["corto"]>> ELSE <<>>)
    /\ Sitio[LIBRE] = (IF Liberando THEN <<mano["exit"]>> ELSE <<>>)
<1> SUFFICES ASSUME ITipo, ManoExit
             PROVE  /\ Sitio \in [Sitios -> Seq(Pids)]
                    /\ \A c \in Colas : Sitio[c] = cola[c]
                    /\ Sitio["corto"] = (IF Llamando THEN <<mano["corto"]>> ELSE <<>>)
                    /\ Sitio[LIBRE] = (IF Liberando THEN <<mano["exit"]>> ELSE <<>>)
  OBVIOUS
<1>1. "corto" \notin Colas /\ LIBRE \notin Colas /\ "corto" # LIBRE
  BY SitiosSon
<1>2. \A c \in Colas : cola[c] \in Seq(Pids)
  BY DEF ITipo, TypeOK, TipoDatos
<1>3. Llamando => mano["corto"] \in Pids
  BY DEF Llamando, ITipo, Locales
<1>4. Liberando => mano["exit"] \in Pids
  BY DEF Liberando, ManoExit
<1>5. ASSUME NEW c \in Sitios PROVE Sitio[c] \in Seq(Pids)
  BY <1>1, <1>2, <1>3, <1>4, <1>5 DEF Sitio, Sitios
<1> QED BY <1>1, <1>5 DEF Sitio, Sitios

\* The same in the next state.
LEMMA SitioEsP ==
  ASSUME ITipo', ManoExit'
  PROVE  /\ Sitio' \in [Sitios -> Seq(Pids)]
         /\ \A c \in Colas : Sitio'[c] = cola'[c]
         /\ Sitio'["corto"] = (IF Llamando' THEN <<mano'["corto"]>> ELSE <<>>)
         /\ Sitio'[LIBRE] = (IF Liberando' THEN <<mano'["exit"]>> ELSE <<>>)
<1>1. ITipo' /\ ManoExit' =>
        ( /\ Sitio \in [Sitios -> Seq(Pids)]
          /\ \A c \in Colas : Sitio[c] = cola[c]
          /\ Sitio["corto"] = (IF Llamando THEN <<mano["corto"]>> ELSE <<>>)
          /\ Sitio[LIBRE] = (IF Liberando THEN <<mano["exit"]>> ELSE <<>>) )'
  BY SitioEs, PTL
<1> QED BY <1>1

\* What two states must have in common for the hands of the planner not to change.
ManosIguales ==
  /\ \/ ~ Llamando /\ ~ Llamando'
     \/ Llamando /\ Llamando' /\ mano'["corto"] = mano["corto"]
  /\ \/ ~ Liberando /\ ~ Liberando'
     \/ Liberando /\ Liberando' /\ mano'["exit"] = mano["exit"]

\* Nobody moves.
LEMMA SitioIgual ==
  ASSUME ITipo, ManoExit, ITipo', ManoExit', ManosIguales, UNCHANGED cola
  PROVE  Sitio' = Sitio
<1>1. /\ Sitio \in [Sitios -> Seq(Pids)] /\ Sitio' \in [Sitios -> Seq(Pids)]
      /\ \A c \in Colas : Sitio'[c] = Sitio[c]
      /\ Sitio'["corto"] = Sitio["corto"] /\ Sitio'[LIBRE] = Sitio[LIBRE]
  BY SitioEs, SitioEsP DEF ManosIguales
<1>2. \A c \in Sitios : Sitio'[c] = Sitio[c]
  BY <1>1 DEF Sitios
<1> QED BY <1>1, <1>2

\* The first of a queue goes to the end of another.
LEMMA SitioPasa ==
  ASSUME ITipo, ManoExit, ITipo', ManoExit', ManosIguales, NEW h, NEW a, NEW c, Pasa(h, a, c)
  PROVE  a \in Sitios /\ c \in Sitios /\ Traslada(Sitio, Sitio', a, c)
<1>1. /\ \A d \in Colas : Sitio[d] = cola[d] /\ Sitio'[d] = cola'[d]
      /\ Sitio'["corto"] = Sitio["corto"] /\ Sitio'[LIBRE] = Sitio[LIBRE]
  BY SitioEs, SitioEsP DEF ManosIguales
<1>2. a \in Colas /\ c \in Colas
  BY DEF Pasa
<1>3. \A d \in Sitios : d # a /\ d # c => Sitio'[d] = Sitio[d]
  BY <1>1 DEF Pasa, Sitios
<1> QED BY <1>1, <1>2, <1>3 DEF Pasa, Traslada, Sitios

\* The planner lets the process of a system call go to a queue.
LEMMA SitioPone ==
  ASSUME ITipo, ManoExit, ITipo', ManoExit', Llamando, ~ Llamando',
         \/ ~ Liberando /\ ~ Liberando'
         \/ Liberando /\ Liberando' /\ mano'["exit"] = mano["exit"],
         NEW h, NEW c, Pone(h, c, mano["corto"])
  PROVE  c \in Colas /\ "corto" \in Sitios /\ c \in Sitios /\ Traslada(Sitio, Sitio', "corto", c)
<1>1. /\ \A d \in Colas : Sitio[d] = cola[d] /\ Sitio'[d] = cola'[d]
      /\ Sitio["corto"] = <<mano["corto"]>> /\ Sitio'["corto"] = <<>> /\ Sitio'[LIBRE] = Sitio[LIBRE]
  BY SitioEs, SitioEsP
<1>2. c \in Colas /\ "corto" # c
  BY SitiosSon DEF Pone
<1>3. \A d \in Sitios : d # "corto" /\ d # c => Sitio'[d] = Sitio[d]
  BY <1>1 DEF Pone, Sitios
<1>4. Head(Sitio["corto"]) = mano["corto"] /\ Tail(Sitio["corto"]) = <<>> /\ Sitio["corto"] # <<>>
  BY <1>1
<1>5. Sitio'[c] = Append(Sitio[c], mano["corto"])
  BY <1>1, <1>2 DEF Pone
<1> QED BY <1>1, <1>2, <1>3, <1>4, <1>5 DEF Traslada, Sitios

\* A thread pops a process and keeps it.
LEMMA SitioRetira ==
  ASSUME ITipo, ManoExit, ITipo', ManoExit', NEW a, Retira(a),
         \/ /\ a = "exec" /\ ~ Llamando /\ Llamando' /\ mano'["corto"] = Head(cola[a])
            /\ \/ ~ Liberando /\ ~ Liberando'
               \/ Liberando /\ Liberando' /\ mano'["exit"] = mano["exit"]
         \/ /\ a = "exit" /\ ~ Liberando /\ Liberando' /\ mano'["exit"] = Head(cola[a])
            /\ \/ ~ Llamando /\ ~ Llamando'
               \/ Llamando /\ Llamando' /\ mano'["corto"] = mano["corto"]
  PROVE  Traslada(Sitio, Sitio', a, IF a = "exec" THEN "corto" ELSE LIBRE)
<1> USE SitiosSon
<1>1. /\ \A d \in Colas : Sitio[d] = cola[d] /\ Sitio'[d] = cola'[d]
      /\ Sitio["corto"] = (IF Llamando THEN <<mano["corto"]>> ELSE <<>>)
      /\ Sitio[LIBRE] = (IF Liberando THEN <<mano["exit"]>> ELSE <<>>)
      /\ Sitio'["corto"] = (IF Llamando' THEN <<mano'["corto"]>> ELSE <<>>)
      /\ Sitio'[LIBRE] = (IF Liberando' THEN <<mano'["exit"]>> ELSE <<>>)
  BY SitioEs, SitioEsP
<1>2. a \in Colas
  BY DEF Retira
<1>3. \A x : Append(<<>>, x) = <<x>>
  OBVIOUS
<1>4. CASE a = "exec"
  <2>1. Sitio'["corto"] = Append(Sitio["corto"], Head(Sitio[a])) /\ Sitio'[LIBRE] = Sitio[LIBRE]
    BY <1>1, <1>2, <1>3, <1>4
  <2>2. \A d \in Sitios : d # a /\ d # "corto" => Sitio'[d] = Sitio[d]
    BY <1>1, <2>1 DEF Retira, Sitios
  <2> QED BY <1>1, <1>2, <1>4, <2>1, <2>2 DEF Retira, Traslada
<1>5. CASE a = "exit"
  <2>1. Sitio'[LIBRE] = Append(Sitio[LIBRE], Head(Sitio[a])) /\ Sitio'["corto"] = Sitio["corto"]
    BY <1>1, <1>2, <1>3, <1>5
  <2>2. \A d \in Sitios : d # a /\ d # LIBRE => Sitio'[d] = Sitio[d]
    BY <1>1, <2>1 DEF Retira, Sitios
  <2> QED BY <1>1, <1>2, <1>5, <2>1, <2>2 DEF Retira, Traslada
<1> QED BY <1>4, <1>5

\* At the start no permit, no push and no process is anywhere.
LEMMA InitColas ==
  ASSUME Init, ITipo
  PROVE  /\ \A c \in Colas : cola[c] = <<>>
         /\ \A c \in ConPermiso :
              /\ Largo(c) = 0 /\ sem[c] = 0 /\ Tomado(c) = 0 /\ EnCamino(c) = 0
              /\ Huerfano(c) = 0 /\ SinPermiso(c) = 0
         /\ \A i \in Interfaces : pc[i] = "permiso"
<1> USE Nombres, Distintos
<1>1. /\ \A c \in Colas : cola[c] = <<>>
      /\ \A c \in ConPermiso : sem[c] = 0
      /\ \A h \in Hilos : empuje[h] = NADA
      /\ pc["new"] = "apagado" /\ \A i \in Interfaces : pc[i] = "permiso"
  BY NombresAssumption DEF Init
<1>2. ASSUME NEW c \in ConPermiso
      PROVE  Largo(c) = 0 /\ Tomado(c) = 0 /\ EnCamino(c) = 0 /\ Huerfano(c) = 0 /\ SinPermiso(c) = 0
  <2>1. Largo(c) = 0
    <3>1. cola["ready"] = <<>> /\ cola["aux"] = <<>> /\ cola[c] = <<>>
      BY <1>1, LargoTipo DEF Colas
    <3> QED BY <3>1 DEF Largo
  <2>2. Tomado(c) = 0
    BY <1>1 DEF Tomado, Uno
  <2>3. c # "ninguna"
    BY NombresAssumption DEF ConPermiso
  <2>4. {h \in Hilos : PermisoDe(empuje[h].cola) = c} = {}
    BY <1>1, <2>3 DEF NADA, PermisoDe
  <2>5. EnCamino(c) = 0
    BY <2>4, FS_EmptySet DEF EnCamino
  <2>6. Huerfano(c) = 0
    BY <1>1 DEF Huerfano, Uno
  <2>7. SinPermiso(c) = 0
    BY DEF SinPermiso, Init
  <2> QED BY <2>1, <2>2, <2>5, <2>6, <2>7
<1> QED BY <1>1, <1>2

\* With FINALIZAR_PROCESO too, nobody is forgotten in NEW, READY, READY+, EXIT or an
\* interface's queue: there is a permit, taken, free or about to be posted, for each, but
\* for one per ERROR manejar_io was answered, which spends a permit and removes nobody.
THEOREM NadieQuedaOlvidado == Spec => []NingunoOlvidado
<1>1. Init /\ ITipo => Alcanza
  BY InitColas DEF Alcanza
<1>2. IRecursos /\ ITipo' /\ Alcanza /\ [Next]_vars => Alcanza'
  <2> SUFFICES ASSUME IRecursos, ITipo', Alcanza, [Next]_vars PROVE Alcanza'
    OBVIOUS
  <2>1. CASE PasoVivo
    BY <2>1, AlcanzaPaso DEF IRecursos
  <2>2. CASE Muerto
    BY <2>2 DEF Muerto, Alcanza, Largo, Tomado, EnCamino, SinPermiso, Huerfano, Contiene
  <2> QED BY <2>1, <2>2, Pasos DEF IRecursos, IFrenos
<1>3. ITipo /\ Alcanza => NingunoOlvidado
  <2> SUFFICES ASSUME ITipo, Alcanza, NEW c \in ConPermiso
               PROVE  sem[c] + Tomado(c) + EnCamino(c) + SinPermiso(c) >= Largo(c)
    BY DEF NingunoOlvidado
  <2>1. /\ sem[c] \in Nat /\ Tomado(c) \in {0, 1} /\ EnCamino(c) \in Nat /\ Largo(c) \in Nat
        /\ Huerfano(c) \in {0, 1} /\ SinPermiso(c) \in Nat
        /\ sem[c] + Tomado(c) + EnCamino(c) + SinPermiso(c) >= Largo(c) + Huerfano(c)
    BY LargoTipo, HuerfanoEs, SinPermisoTipo DEF Alcanza
  <2> HIDE DEF Tomado, EnCamino, Largo, Huerfano, SinPermiso
  <2> QED BY <2>1
<1> QED BY <1>1, <1>2, <1>3, TipoInvariante, RecursosInvariante, PTL DEF Spec

\* Exacto holds at the start.
LEMMA InitExacto ==
  ASSUME Init, ITipo
  PROVE  Exacto
<1>1. PermisosExactos
  BY InitColas DEF PermisosExactos
<1>2. Atendido /\ SinAux /\ pc["consola"] # "elimina" /\ SinPunteroNulo
  BY InitColas, Nombres DEF Atendido, SinAux, SinPunteroNulo, Init
<1> QED BY <1>1, <1>2 DEF Exacto

\* Without FINALIZAR_PROCESO the permits and the queues agree.
THEOREM ExactoInvariante == ~ Finaliza => (Spec => []Exacto)
<1> SUFFICES ASSUME ~ Finaliza PROVE Spec => []Exacto
  OBVIOUS
<1>1. Init /\ ITipo => Exacto
  BY InitExacto
<1>2. IRecursos /\ ITipo' /\ Exacto /\ [Next]_vars => Exacto'
  BY ExactoPaso DEF IRecursos, IFrenos
<1> QED BY <1>1, <1>2, TipoInvariante, RecursosInvariante, PTL DEF Spec

\* Without FINALIZAR_PROCESO each permit of procesos_en_new, _ready, _exit and of the
\* interfaces stands for exactly one queued process, and the processes an interface's
\* queue has beyond them are exactly as many as the ERRORs it answered.
THEOREM PermisosSiempreExactos == ~ Finaliza => (Spec => []PermisosExactos)
<1> SUFFICES ASSUME ~ Finaliza PROVE Spec => []PermisosExactos
  OBVIOUS
<1>1. Exacto => PermisosExactos
  BY DEF Exacto
<1>2. Spec => []Exacto
  BY ExactoInvariante
<1> QED BY <1>1, <1>2, PTL

\* Without FINALIZAR_PROCESO no pop_cola_* that follows its sem_wait finds the queue empty, so
\* no thread follows the NULL it would give.
THEOREM NingunPunteroNulo == ~ Finaliza => (Spec => []SinPunteroNulo)
<1> SUFFICES ASSUME ~ Finaliza PROVE Spec => []SinPunteroNulo
  OBVIOUS
<1>1. Exacto => SinPunteroNulo
  BY DEF Exacto
<1>2. Spec => []Exacto
  BY ExactoInvariante
<1> QED BY <1>1, <1>2, PTL

\* list_remove_element of the first one is a pop.
LEMMA QuitarPrimero ==
  ASSUME NEW s \in Seq(Pids), s # <<>>
  PROVE  Contiene(s, Head(s)) /\ Quitar(s, Head(s)) = Tail(s)
<1>1. /\ Len(s) \in Nat /\ Len(s) > 0 /\ Head(s) = s[1] /\ Tail(s) \in Seq(Pids) /\ Len(Tail(s)) = Len(s) - 1
      /\ \A k \in 1 .. Len(s) - 1 : Tail(s)[k] = s[k + 1]
  OBVIOUS
<1>2. Contiene(s, Head(s))
  BY <1>1 DEF Contiene
<1>3. \A k \in 1 .. Len(s) - 1 : \E j \in 1 .. k : s[j] = Head(s)
  BY <1>1
<1>4. Quitar(s, Head(s)) = [k \in 1 .. Len(s) - 1 |-> s[k + 1]]
  BY <1>2, <1>3 DEF Quitar
<1>5. [k \in 1 .. Len(s) - 1 |-> s[k + 1]] \in Seq(Pids)
      /\ Len([k \in 1 .. Len(s) - 1 |-> s[k + 1]]) = Len(s) - 1
  BY <1>1
<1>6. Quitar(s, Head(s)) \in Seq(Pids) /\ Len(Quitar(s, Head(s))) = Len(s) - 1
      /\ \A k \in 1 .. Len(s) - 1 : Quitar(s, Head(s))[k] = Tail(s)[k]
  BY <1>1, <1>4, <1>5
<1>7. Quitar(s, Head(s)) = Tail(s)
  BY <1>1, <1>6, SeqEqual
<1> QED BY <1>2, <1>7

\* From where to where a step may take a process.
Mudan(a, c) ==
  \/ a = "new" /\ c = "ready" /\ pc["new"] = "saca"
  \/ a = "exit" /\ c = LIBRE
  \/ a \in Recursos \cup Interfaces /\ c \in {"ready", "aux"}
  \/ a \in {"ready", "aux"} /\ c = "exec" /\ cola["exec"] = <<>> /\ ~ Llamando
  \/ a = "exec" /\ c \in {"corto", "exit", "ready"} \cup Interfaces
  \/ a = "corto" /\ c \in {"exec", "ready", "exit"} \cup Recursos

\* What goes with it: the push that begins, and manejar_new's own permit.
Acompana(a, c) ==
  /\ multi' = multi
  /\ IF a = "new" THEN pc'["new"] = "listo" ELSE pc'["new"] = pc["new"]
  /\ IF c \in {"corto", LIBRE} THEN UNCHANGED empuje ELSE \E h \in Hilos : \E p : Comienza(h, c, p)

\* What goes with a step that moves nobody.
Calma ==
  \/ Acompana(LIBRE, LIBRE)
  \/ NewMulti \/ NewPermiso \/ NewListo \/ Ajeno
  \/ \E h \in Hilos : Publicar(h) /\ empuje[h].pid \in listaPcb

\* The steps that move nobody.
LEMMA SitioQuieto ==
  ASSUME ITipo, ManoExit, ITipo', ManoExit',
         \/ NewMulti \/ NewPermiso \/ NewListo \/ ExitToma \/ ExitCuenta
         \/ CpuDevuelve \/ Termina \/ Desenrolla \/ EntraRecurso \/ Wait
         \/ \E i \in Interfaces : IoToma(i) /\ cola[i] # <<>> /\ Head(cola[i]) \in listaPcb
         \/ \E i \in Interfaces : IoError(i)
         \/ \E h \in Hilos : Publicar(h) /\ empuje[h].pid \in listaPcb
         \/ Ajeno
  PROVE  Sitio' = Sitio /\ UNCHANGED <<cola, listaPcb, proximo>> /\ Calma
<1> USE Nombres, Distintos
<1>1. CASE NewMulti \/ NewPermiso \/ NewListo
  <2>1. ManosIguales /\ UNCHANGED <<cola, listaPcb, proximo>>
    BY <1>1, SNewMulti, SNewPermiso, SNewListo DEF ManosIguales, Va, Llamando, Liberando
  <2> QED BY <1>1, <2>1, SitioIgual DEF Calma
<1>2. CASE ExitToma \/ ExitCuenta
  <2>1. UNCHANGED <<cola, empuje, listaPcb, proximo, multi>> /\ mano'["corto"] = mano["corto"]
        /\ \/ Va("exit", "toma", "libera") /\ UNCHANGED mano
           \/ Va("exit", "cuenta", "permiso")
    BY <1>2, SExitToma, SExitCuenta DEF Lleva
  <2>2. ManosIguales
    BY <2>1 DEF ManosIguales, Va, Llamando, Liberando
  <2>3. Calma
    BY <2>1, SitiosSon DEF Calma, Acompana, Va
  <2> QED BY <2>1, <2>2, <2>3, SitioIgual
<1>3. CASE CpuDevuelve \/ EntraRecurso \/ Wait
  <2>1. ManosIguales /\ UNCHANGED <<cola, listaPcb, proximo>>
    BY <1>3, SCpuDevuelve, SEntraRecurso, SWait DEF ManosIguales, Va, Llamando, Liberando
  <2>2. UNCHANGED <<empuje, multi>> /\ pc'["new"] = pc["new"]
    BY <1>3, SCpuDevuelve, SEntraRecurso, SWait DEF Va
  <2> QED BY <2>1, <2>2, SitioIgual, SitiosSon DEF Calma, Acompana
<1>4. CASE Termina \/ Desenrolla
  <2>1. ManosIguales /\ UNCHANGED <<cola, listaPcb, proximo>>
    BY <1>4, SVuelve DEF ManosIguales, Va, Lleva, Llamando, Liberando
  <2>2. UNCHANGED <<empuje, multi>> /\ pc'["new"] = pc["new"]
    BY <1>4, SVuelve DEF Va
  <2> QED BY <2>1, <2>2, SitioIgual, SitiosSon DEF Calma, Acompana
<1>5. ASSUME NEW i \in Interfaces, IoToma(i), cola[i] # <<>>, Head(cola[i]) \in listaPcb
      PROVE  Sitio' = Sitio /\ UNCHANGED <<cola, listaPcb, proximo>> /\ Calma
  <2>1. Va(i, "permiso", "atiende") /\ Lleva(i, Head(cola[i]))
        /\ UNCHANGED <<cola, empuje, listaPcb, proximo, multi>>
    BY <1>5, SIoToma
  <2>2. ManosIguales
    BY <2>1 DEF ManosIguales, Va, Lleva, Llamando, Liberando
  <2>3. Calma
    BY <2>1, SitiosSon DEF Calma, Acompana, Va
  <2> QED BY <2>1, <2>2, <2>3, SitioIgual
<1>6. ASSUME NEW h \in Hilos, Publicar(h), empuje[h].pid \in listaPcb
      PROVE  Sitio' = Sitio /\ UNCHANGED <<cola, listaPcb, proximo>> /\ Calma
  <2>1. UNCHANGED <<cola, listaPcb, proximo, pc, mano>>
    BY <1>6, SPublicar
  <2>2. ManosIguales
    BY <2>1 DEF ManosIguales, Llamando, Liberando
  <2>3. Calma
    BY <1>6 DEF Calma
  <2> QED BY <2>1, <2>2, <2>3, SitioIgual
<1>7. CASE Ajeno
  <2>1. UNCHANGED <<cola, listaPcb, proximo>> /\ Arrancan /\ mano'["corto"] = mano["corto"]
        /\ mano'["exit"] = mano["exit"]
    BY <1>7 DEF Ajeno
  <2>2. ManosIguales
    BY <2>1 DEF ManosIguales, Arrancan, Llamando, Liberando
  <2>3. Calma
    BY <1>7 DEF Calma
  <2> QED BY <2>1, <2>2, <2>3, SitioIgual
<1>8. ASSUME NEW i \in Interfaces, IoError(i)
      PROVE  Sitio' = Sitio /\ UNCHANGED <<cola, listaPcb, proximo>> /\ Calma
  <2>1. Va(i, "atiende", "permiso") /\ Lleva(i, NADIE)
        /\ UNCHANGED <<cola, empuje, listaPcb, proximo, multi>>
    BY <1>8, SIoError
  <2>2. ManosIguales
    BY <2>1 DEF ManosIguales, Va, Lleva, Llamando, Liberando
  <2>3. Calma
    BY <2>1, SitiosSon DEF Calma, Acompana, Va
  <2> QED BY <2>1, <2>2, <2>3, SitioIgual
<1> QED BY <1>1, <1>2, <1>3, <1>4, <1>5, <1>6, <1>7, <1>8

\* What a step does to the places.
LEMMA SitioPaso ==
  ASSUME ITipo, ManoExit, ITipo', ManoExit', ~ Finaliza, LugarConsola, Ejecuta, Atendido, PasoVivo
  PROVE  \/ Sitio' = Sitio /\ UNCHANGED <<listaPcb, proximo>> /\ Calma
         \/ /\ \E a \in Sitios, c \in Sitios : Mudan(a, c) /\ Acompana(a, c) /\ Traslada(Sitio, Sitio', a, c)
            /\ UNCHANGED <<listaPcb, proximo>>
         \/ /\ Sitio'["new"] = Append(Sitio["new"], proximo)
            /\ \A d \in Sitios : d # "new" => Sitio'[d] = Sitio[d]
            /\ proximo \in Pids /\ proximo' = proximo + 1 /\ listaPcb' = listaPcb \cup {proximo}
            /\ Acompana("consola", "new")
         \/ /\ mano["exit"] \in Pids /\ Sitio[LIBRE] = <<mano["exit"]>> /\ Sitio'[LIBRE] = <<>>
            /\ \A d \in Sitios : d # LIBRE => Sitio'[d] = Sitio[d]
            /\ listaPcb' = listaPcb \ {mano["exit"]} /\ UNCHANGED proximo
            /\ Acompana(LIBRE, LIBRE)
<1> USE Nombres, Distintos
<1> DEFINE Bien ==
       \/ Sitio' = Sitio /\ UNCHANGED <<listaPcb, proximo>> /\ Calma
       \/ /\ \E a \in Sitios, c \in Sitios : Mudan(a, c) /\ Acompana(a, c) /\ Traslada(Sitio, Sitio', a, c)
          /\ UNCHANGED <<listaPcb, proximo>>
       \/ /\ Sitio'["new"] = Append(Sitio["new"], proximo)
          /\ \A d \in Sitios : d # "new" => Sitio'[d] = Sitio[d]
          /\ proximo \in Pids /\ proximo' = proximo + 1 /\ listaPcb' = listaPcb \cup {proximo}
          /\ Acompana("consola", "new")
       \/ /\ mano["exit"] \in Pids /\ Sitio[LIBRE] = <<mano["exit"]>> /\ Sitio'[LIBRE] = <<>>
          /\ \A d \in Sitios : d # LIBRE => Sitio'[d] = Sitio[d]
          /\ listaPcb' = listaPcb \ {mano["exit"]} /\ UNCHANGED proximo
          /\ Acompana(LIBRE, LIBRE)
<1> SUFFICES Bien
  OBVIOUS
<1>0. ~ Elimina
  BY DEF LugarConsola, Elimina, Turno
<1>1. CASE NewSaca /\ cola["new"] # <<>>
  <2>1. Va("new", "saca", "listo") /\ Pasa("new", "new", "ready")
        /\ UNCHANGED <<mano, listaPcb, proximo, multi>>
    BY <1>1, SNewSaca
  <2>2. ManosIguales /\ Mudan("new", "ready")
    BY <2>1 DEF ManosIguales, Va, Llamando, Liberando, Mudan
  <2>3. Acompana("new", "ready")
    BY <2>1, SitiosSon DEF Acompana, Va, Pasa
  <2> QED BY <2>1, <2>2, <2>3, SitioPasa
<1>2. CASE ExitSaca /\ cola["exit"] # <<>> /\ Head(cola["exit"]) \in listaPcb
  <2>1. Va("exit", "permiso", "toma") /\ Retira("exit") /\ Lleva("exit", Head(cola["exit"]))
        /\ UNCHANGED <<listaPcb, proximo, multi>>
    BY <1>2, SExitSaca
  <2>2. Traslada(Sitio, Sitio', "exit", LIBRE) /\ Mudan("exit", LIBRE)
    BY <2>1, SitioRetira DEF Va, Lleva, Llamando, Liberando, Mudan
  <2>3. Acompana("exit", LIBRE)
    BY <2>1, SitiosSon DEF Acompana, Va, Retira
  <2> QED BY <2>1, <2>2, <2>3, SitiosSon
<1>3. CASE ExitFin
  <2>1. Va("exit", "libera", "cuenta") /\ listaPcb' = listaPcb \ {mano["exit"]}
        /\ UNCHANGED <<cola, empuje, mano, proximo, multi>>
    BY <1>3, SExitFin
  <2>2. Liberando /\ ~ Liberando' /\ (Llamando' <=> Llamando) /\ mano["exit"] \in Pids
    BY <2>1 DEF Va, Llamando, Liberando, ManoExit
  <2>3. /\ Sitio[LIBRE] = <<mano["exit"]>> /\ Sitio'[LIBRE] = <<>> /\ Sitio'["corto"] = Sitio["corto"]
        /\ \A d \in Colas : Sitio'[d] = Sitio[d]
    BY <2>1, <2>2, SitioEs, SitioEsP
  <2>4. Acompana(LIBRE, LIBRE)
    BY <2>1, SitiosSon DEF Acompana, Va, LIBRE
  <2> QED BY <2>1, <2>2, <2>3, <2>4 DEF Sitios
<1>4. ASSUME NEW r \in Recursos, ExitLibera(r) PROVE Bien
  <2>1. UNCHANGED <<pc, mano, listaPcb, proximo, multi>> /\ (UNCHANGED <<cola, empuje>> \/ Pasa("exit", r, "ready"))
    BY <1>4, SExitLibera, SLiberar
  <2>2. ManosIguales /\ Mudan(r, "ready")
    BY <2>1 DEF ManosIguales, Llamando, Liberando, Mudan
  <2>3. IF UNCHANGED <<cola, empuje>> THEN Calma ELSE Acompana(r, "ready")
    BY <2>1, SitiosSon DEF Acompana, Pasa, Calma
  <2> QED BY <2>1, <2>2, <2>3, SitioIgual, SitioPasa
<1>5. CASE Despacha /\ cola[ColaSiguiente] # <<>>
  <2>1. Va("corto", "permiso", "espera") /\ Pasa("corto", ColaSiguiente, "exec")
        /\ Lleva("corto", Head(cola[ColaSiguiente])) /\ UNCHANGED <<listaPcb, proximo, multi>>
    BY <1>5, SDespacha
  <2>2. ManosIguales /\ cola["exec"] = <<>> /\ ~ Llamando
    BY <2>1 DEF ManosIguales, Va, Lleva, Llamando, Liberando, Ejecuta
  <2>3. Mudan(ColaSiguiente, "exec")
    BY <2>2 DEF Mudan, ColaSiguiente
  <2>4. Acompana(ColaSiguiente, "exec")
    BY <2>1, SitiosSon DEF Acompana, Va, Pasa, ColaSiguiente
  <2> QED BY <2>1, <2>2, <2>3, <2>4, SitioPasa
<1>6. CASE ManejaProceso /\ cola["exec"] # <<>> /\ Head(cola["exec"]) \in listaPcb
  <2>1. pc["corto"] = "maneja" /\ Lleva("corto", Head(cola["exec"]))
        /\ UNCHANGED <<listaPcb, proximo, multi>>
    BY <1>6, SManejaProceso
  <2>2. CASE Va("corto", "maneja", "recurso") /\ Retira("exec")
    <3>1. Traslada(Sitio, Sitio', "exec", "corto") /\ Mudan("exec", "corto")
      BY <2>1, <2>2, SitioRetira DEF Va, Lleva, Llamando, Liberando, Mudan
    <3>2. Acompana("exec", "corto")
      BY <2>1, <2>2, SitiosSon DEF Acompana, Va, Retira
    <3> QED BY <2>1, <3>1, <3>2, SitiosSon
  <2>3. ASSUME Va("corto", "maneja", "termina"),
               NEW c \in {"exit", "ready"} \cup Interfaces, Pasa("corto", "exec", c)
        PROVE  Bien
    <3>1. ManosIguales /\ Mudan("exec", c)
      BY <2>1, <2>3 DEF Va, Lleva, Llamando, Liberando, Mudan, ManosIguales
    <3>2. Acompana("exec", c)
      BY <2>1, <2>3, SitiosSon DEF Acompana, Va, Pasa
    <3> QED BY <2>1, <2>3, <3>1, <3>2, SitioPasa
  <2> QED BY <1>6, <2>2, <2>3, SManejaProceso
<1>7. ASSUME NEW c, NEW e, Pone("corto", c, mano["corto"]), Va("corto", pc["corto"], e),
             Llamando, e \notin {"recurso", "wait", "anota", "signal", "libera", "sigue"},
             UNCHANGED <<mano, listaPcb, proximo, multi>>, c \in {"exec", "ready", "exit"} \cup Recursos
      PROVE  Bien
  <2>1. ~ Llamando' /\ (Liberando' <=> Liberando) /\ Mudan("corto", c)
    BY <1>7 DEF Va, Llamando, Liberando, Mudan
  <2>2. Acompana("corto", c)
    BY <1>7, SitiosSon DEF Acompana, Va, Pone
  <2> QED BY <1>7, <2>1, <2>2, SitioPone
<1>8. CASE WaitAnota
  <2>1. Llamando /\ UNCHANGED <<mano, listaPcb, proximo, multi>>
    BY <1>8, SWaitAnota DEF Llamando
  <2> QED BY <1>7, <1>8, <2>1, SWaitAnota
<1>9. CASE Signal
  <2>1. Llamando /\ UNCHANGED <<mano, listaPcb, proximo, multi>> /\ pc["corto"] = "signal"
    BY <1>9, SSignal DEF Llamando
  <2>2. CASE UNCHANGED <<cola, empuje>> /\ Va("corto", "signal", "libera")
    <3>1. ManosIguales
      BY <2>1, <2>2 DEF ManosIguales, Va, Llamando, Liberando
    <3>2. Calma
      BY <2>1, <2>2, SitiosSon DEF Calma, Acompana, Va
    <3> QED BY <2>1, <2>2, <3>1, <3>2, SitioIgual
  <2>3. CASE Va("corto", "signal", "desenrolla") /\ Pone("corto", "exit", mano["corto"])
    BY <1>7, <2>1, <2>3
  <2> QED BY <1>9, <2>2, <2>3, SSignal
<1>10. CASE SignalLibera
  <2>1. Va("corto", "libera", "sigue") /\ UNCHANGED <<mano, listaPcb, proximo, multi>>
        /\ RecursoPedido \in Recursos
        /\ (UNCHANGED <<cola, empuje>> \/ Pasa("corto", RecursoPedido, "ready"))
    BY <1>10, SSignalLibera, SLiberar
  <2>2. ManosIguales /\ Mudan(RecursoPedido, "ready")
    BY <2>1 DEF ManosIguales, Va, Llamando, Liberando, Mudan
  <2>3. IF UNCHANGED <<cola, empuje>> THEN Calma ELSE Acompana(RecursoPedido, "ready")
    BY <2>1, SitiosSon DEF Acompana, Va, Pasa, Calma
  <2> QED BY <2>1, <2>2, <2>3, SitioIgual, SitioPasa
<1>11. CASE SignalSigue
  <2>1. UNCHANGED <<mano, listaPcb, proximo, multi>>
    BY <1>11, SSignalSigue
  <2>2. ASSUME NEW e, Va("corto", "sigue", e) PROVE Llamando /\ pc["corto"] = "sigue"
    BY <2>2 DEF Llamando, Va
  <2> QED BY <1>7, <1>11, <2>1, <2>2, SSignalSigue
<1>12. ASSUME NEW i \in Interfaces, IoTermina(i), mano[i] \in listaPcb PROVE Bien
  <2>1. Va(i, "atiende", "permiso") /\ Lleva(i, NADIE) /\ UNCHANGED <<listaPcb, proximo, multi>>
        /\ mano[i] \in Pids
    BY <1>12, SIoTermina
  <2>2. cola[i] \in Seq(Pids) /\ cola[i] # <<>> /\ mano[i] = Head(cola[i])
    BY <2>1, LargoTipo DEF Atendido, Va
  <2>3. Contiene(cola[i], mano[i]) /\ Quitar(cola[i], mano[i]) = Tail(cola[i])
    BY <2>2, QuitarPrimero
  <2>4. PICK c \in {"ready", "aux"} : Mueve(i, i, c, mano[i])
    BY <1>12, <2>3, SIoTermina
  <2>5. Pasa(i, i, c)
    BY <2>2, <2>3, <2>4 DEF Mueve, Pasa
  <2>6. ManosIguales /\ Mudan(i, c)
    BY <2>1 DEF ManosIguales, Va, Lleva, Llamando, Liberando, Mudan
  <2>7. Acompana(i, c)
    BY <2>1, <2>5, SitiosSon DEF Acompana, Va, Pasa
  <2> QED BY <2>1, <2>5, <2>6, <2>7, SitioPasa
<1>13. CASE IniciarProceso
  <2>1. Pone("consola", "new", proximo) /\ proximo' = proximo + 1 /\ listaPcb' = listaPcb \cup {proximo}
        /\ UNCHANGED <<pc, mano, multi>>
    BY <1>13, SIniciarProceso
  <2>2. /\ \A d \in Colas : Sitio[d] = cola[d] /\ Sitio'[d] = cola'[d]
        /\ Sitio'["corto"] = Sitio["corto"] /\ Sitio'[LIBRE] = Sitio[LIBRE]
    BY <2>1, SitioEs, SitioEsP DEF Llamando, Liberando
  <2>3. \A d \in Sitios : d # "new" => Sitio'[d] = Sitio[d]
    BY <2>1, <2>2 DEF Pone, Sitios
  <2>4. Acompana("consola", "new")
    BY <2>1, SitiosSon DEF Acompana, Pone
  <2> QED BY <2>1, <2>2, <2>3, <2>4 DEF Pone
<1> HIDE DEF Bien
<1>14. Bien
  <2>1. CASE \/ NewMulti \/ NewPermiso \/ NewListo \/ ExitToma \/ ExitCuenta
             \/ CpuDevuelve \/ Termina \/ Desenrolla \/ EntraRecurso \/ Wait
             \/ \E i \in Interfaces : IoToma(i) /\ cola[i] # <<>> /\ Head(cola[i]) \in listaPcb
             \/ \E i \in Interfaces : IoError(i)
             \/ \E h \in Hilos : Publicar(h) /\ empuje[h].pid \in listaPcb
             \/ Ajeno
    BY <2>1, SitioQuieto DEF Bien
  <2> QED BY <1>0, <1>1, <1>2, <1>3, <1>4, <1>5, <1>6, <1>8, <1>9, <1>10, <1>11, <1>12, <1>13, <2>1
          DEF PasoVivo
<1> QED BY <1>14 DEF Bien

\* Every process of lista_pcb stays in one place, once, and in NEW in order of arrival.
LEMMA UnicoPaso ==
  ASSUME ITipo, ManoExit, ITipo', ManoExit', ~ Finaliza, LugarConsola, Ejecuta, Atendido, Unico, EnOrden,
         PasoVivo
  PROVE  Unico' /\ EnOrden'
<1> USE SitiosSon
<1>1. /\ Sitio \in [Sitios -> Seq(Pids)] /\ Sitio' \in [Sitios -> Seq(Pids)]
      /\ "new" \in Colas /\ Sitio["new"] = cola["new"] /\ Sitio'["new"] = cola'["new"]
      /\ cola["new"] \in Seq(Pids) /\ cola'["new"] \in Seq(Pids)
  BY SitioEs, SitioEsP DEF Colas
<1>2. SinRepetir(Sitio) /\ Repartidos(Sitio, listaPcb) /\ (\A p \in listaPcb : p < proximo)
      /\ listaPcb \subseteq Pids /\ proximo \in Int
  BY DEF Unico, ITipo, TypeOK, TipoPcb
<1>3. CASE Sitio' = Sitio /\ UNCHANGED <<listaPcb, proximo>>
  BY <1>1, <1>2, <1>3 DEF Unico, EnOrden, Contiene, Repartidos, SinRepetir
<1>4. ASSUME NEW a \in Sitios, NEW c \in Sitios, Mudan(a, c), Traslada(Sitio, Sitio', a, c),
             UNCHANGED <<listaPcb, proximo>>
      PROVE  Unico' /\ EnOrden'
  <2>1. SinRepetir(Sitio') /\ Repartidos(Sitio', listaPcb)
    BY <1>1, <1>2, <1>4, TrasladaUnico
  <2>2. Unico'
    BY <1>2, <1>4, <2>1 DEF Unico, SinRepetir, Repartidos, Contiene
  <2>3. c # "new"
    BY <1>4, NombresAssumption DEF Mudan, LIBRE
  <2>4. CASE a # "new"
    <3>1. cola'["new"] = cola["new"]
      BY <1>1, <1>4, <2>3, <2>4 DEF Traslada
    <3> QED BY <2>2, <3>1 DEF EnOrden
  <2>5. CASE a = "new"
    <3>1. cola["new"] # <<>> /\ cola'["new"] = Tail(cola["new"])
      BY <1>1, <1>4, <2>5 DEF Traslada
    <3>2. /\ Len(cola["new"]) \in Nat /\ Len(cola'["new"]) = Len(cola["new"]) - 1
          /\ \A k \in 1 .. Len(cola["new"]) - 1 : cola'["new"][k] = cola["new"][k + 1]
      BY <1>1, <3>1
    <3>3. ASSUME NEW j \in 1 .. Len(cola'["new"]), NEW k \in 1 .. Len(cola'["new"]), j < k
          PROVE  cola'["new"][j] < cola'["new"][k]
      <4>1. j + 1 \in 1 .. Len(cola["new"]) /\ k + 1 \in 1 .. Len(cola["new"]) /\ j + 1 < k + 1
        BY <3>2, <3>3
      <4>2. cola["new"][j + 1] < cola["new"][k + 1]
        BY <4>1 DEF EnOrden
      <4> QED BY <3>2, <3>3, <4>2
    <3>4. EnOrden'
      BY <3>3 DEF EnOrden
    <3> QED BY <2>2, <3>4
  <2> QED BY <2>2, <2>4, <2>5
<1>5. ASSUME Sitio'["new"] = Append(Sitio["new"], proximo), \A d \in Sitios : d # "new" => Sitio'[d] = Sitio[d],
             proximo \in Pids, proximo' = proximo + 1, listaPcb' = listaPcb \cup {proximo}
      PROVE  Unico' /\ EnOrden'
  <2>1. proximo \notin listaPcb /\ \A p \in listaPcb : p < proximo /\ p \in Int
    BY <1>2 DEF Pids
  <2>2. SinRepetir(Sitio') /\ Repartidos(Sitio', listaPcb \cup {proximo})
    BY <1>1, <1>2, <1>5, <2>1, LlegaUnico
  <2>3. ASSUME NEW p \in listaPcb' PROVE p < proximo'
    <3>1. p \in Int /\ (p = proximo \/ p < proximo)
      BY <1>2, <1>5, <2>1
    <3> QED BY <1>2, <1>5, <3>1
  <2>4. Unico'
    BY <1>5, <2>2, <2>3 DEF Unico, SinRepetir, Repartidos, Contiene
  <2>5. \A k \in 1 .. Len(cola["new"]) : cola["new"][k] < proximo
    <3>1. ASSUME NEW k \in 1 .. Len(cola["new"]) PROVE cola["new"][k] \in listaPcb
      <4>1. cola["new"][k] \in Pids /\ Contiene(Sitio["new"], cola["new"][k])
        BY <1>1, <3>1 DEF Contiene
      <4>2. "new" \in Sitios
        BY <1>1
      <4> QED BY <1>2, <4>1, <4>2 DEF Repartidos
    <3> QED BY <1>2, <3>1
  <2>6. /\ Len(cola["new"]) \in Nat /\ Len(cola'["new"]) = Len(cola["new"]) + 1
        /\ cola'["new"][Len(cola["new"]) + 1] = proximo
        /\ \A k \in 1 .. Len(cola["new"]) : cola'["new"][k] = cola["new"][k]
    BY <1>1, <1>5, ColaYMas
  <2>7. ASSUME NEW j \in 1 .. Len(cola'["new"]), NEW k \in 1 .. Len(cola'["new"]), j < k
        PROVE  cola'["new"][j] < cola'["new"][k]
    <3>1. j \in 1 .. Len(cola["new"])
      BY <2>6, <2>7
    <3>2. CASE k \in 1 .. Len(cola["new"])
      BY <2>6, <2>7, <3>1, <3>2 DEF EnOrden
    <3>3. CASE k = Len(cola["new"]) + 1
      BY <2>5, <2>6, <3>1, <3>3
    <3> QED BY <2>6, <2>7, <3>2, <3>3
  <2> QED BY <2>4, <2>7 DEF EnOrden
<1>6. ASSUME mano["exit"] \in Pids, Sitio[LIBRE] = <<mano["exit"]>>, Sitio'[LIBRE] = <<>>,
             \A d \in Sitios : d # LIBRE => Sitio'[d] = Sitio[d],
             listaPcb' = listaPcb \ {mano["exit"]}, UNCHANGED proximo
      PROVE  Unico' /\ EnOrden'
  <2>1. SinRepetir(Sitio') /\ Repartidos(Sitio', listaPcb \ {mano["exit"]})
    BY <1>1, <1>2, <1>6, SaleUnico
  <2>2. Unico'
    BY <1>2, <1>6, <2>1 DEF Unico, SinRepetir, Repartidos, Contiene
  <2>3. cola'["new"] = cola["new"]
    BY <1>1, <1>6
  <2> QED BY <2>2, <2>3 DEF EnOrden
<1> QED BY <1>3, <1>4, <1>5, <1>6, SitioPaso

\* They hold at the start, when there are no processes.
LEMMA InitUnico ==
  ASSUME Init, ITipo, ManoExit
  PROVE  Unico /\ EnOrden
<1> USE Nombres, Distintos, SitiosSon
<1>1. cola = [c \in Colas |-> <<>>] /\ listaPcb = {} /\ proximo = 0
      /\ pc["corto"] = "apagado" /\ pc["exit"] = "apagado"
  BY NombresAssumption DEF Init
<1>2. Sitio \in [Sitios -> Seq(Pids)] /\ \A c \in Sitios : Sitio[c] = <<>>
  BY <1>1, SitioEs DEF Llamando, Liberando, Sitios
<1>3. \A c \in Sitios : Len(Sitio[c]) = 0
  BY <1>2
<1>4. SinRepetir(Sitio) /\ Repartidos(Sitio, {})
  BY <1>3 DEF SinRepetir, Repartidos, Contiene
<1>5. "new" \in Colas /\ Len(cola["new"]) = 0
  BY <1>1 DEF Colas
<1> QED BY <1>1, <1>4, <1>5 DEF Unico, EnOrden

\* A dying thread moves nobody.
LEMMA MuertoUnico ==
  ASSUME Muerto, Unico, EnOrden
  PROVE  Unico' /\ EnOrden'
<1>1. Sitio' = Sitio /\ UNCHANGED <<cola, listaPcb, proximo>>
  BY DEF Muerto, Sitio, Llamando, Liberando
<1> QED BY <1>1 DEF Unico, EnOrden, SinRepetir, Repartidos, Contiene

\* Without FINALIZAR_PROCESO every process of lista_pcb is in one place, once.
THEOREM UnicoInvariante == ~ Finaliza => (Spec => [](Unico /\ EnOrden))
<1> SUFFICES ASSUME ~ Finaliza PROVE Spec => [](Unico /\ EnOrden)
  OBVIOUS
<1>1. Init /\ IRecursos => Unico /\ EnOrden
  BY InitUnico DEF IRecursos
<1>2. IRecursos /\ IRecursos' /\ Exacto /\ Unico /\ EnOrden /\ [Next]_vars => Unico' /\ EnOrden'
  <2> SUFFICES ASSUME IRecursos, IRecursos', Exacto, Unico, EnOrden, [Next]_vars PROVE Unico' /\ EnOrden'
    OBVIOUS
  <2>1. PasoVivo \/ Muerto
    BY Pasos DEF IRecursos, IFrenos
  <2> QED BY <2>1, UnicoPaso, MuertoUnico DEF IRecursos, Exacto
<1>3. Spec => []Exacto
  BY ExactoInvariante
<1> QED BY <1>1, <1>2, <1>3, RecursosInvariante, PTL DEF Spec

\* The places of a process, as UnSoloLugar counts them.
LEMMA UnLugar ==
  ASSUME ITipo, ManoExit, Unico
  PROVE  UnSoloLugar
<1> USE SitiosSon
<1> SUFFICES ASSUME NEW p \in Pids
             PROVE  Cardinality(Apariciones(p)) + Uno(EnSyscall(p)) + Uno(EnSalida(p)) = Uno(p \in listaPcb)
  BY DEF UnSoloLugar, Lugares
<1>1. /\ Sitio \in [Sitios -> Seq(Pids)] /\ \A c \in Colas : Sitio[c] = cola[c]
      /\ Sitio["corto"] = (IF Llamando THEN <<mano["corto"]>> ELSE <<>>)
      /\ Sitio[LIBRE] = (IF Liberando THEN <<mano["exit"]>> ELSE <<>>)
  BY SitioEs
<1>2. SinRepetir(Sitio) /\ Repartidos(Sitio, listaPcb)
  BY DEF Unico
<1>3. EnSyscall(p) <=> Contiene(Sitio["corto"], p)
  BY <1>1 DEF EnSyscall, Llamando, Contiene
<1>4. EnSalida(p) <=> Contiene(Sitio[LIBRE], p)
  BY <1>1 DEF EnSalida, Liberando, Contiene
<1>5. \A x : x \in Apariciones(p) <=> \E c \in Colas : \E k \in 1 .. Len(Sitio[c]) : Sitio[c][k] = p /\ x = <<c, k>>
  BY <1>1 DEF Apariciones
<1>6. CASE p \notin listaPcb
  <2>1. \A c \in Sitios : ~ Contiene(Sitio[c], p)
    BY <1>2, <1>6 DEF Repartidos
  <2>2. Apariciones(p) = {}
    BY <1>5, <2>1 DEF Contiene
  <2> QED BY <1>3, <1>4, <1>6, <2>1, <2>2, FS_EmptySet DEF Uno
<1>7. CASE p \in listaPcb
  <2>1. PICK c \in Sitios : Contiene(Sitio[c], p)
    BY <1>2, <1>7 DEF Repartidos
  <2>2. PICK k \in 1 .. Len(Sitio[c]) : Sitio[c][k] = p
    BY <2>1 DEF Contiene
  <2>3. \A d \in Sitios : \A j \in 1 .. Len(Sitio[d]) : Sitio[d][j] = p => d = c /\ j = k
    BY <1>2, <2>2 DEF SinRepetir
  <2>4. \A d \in Sitios : Contiene(Sitio[d], p) => d = c
    BY <2>3 DEF Contiene
  <2>5. CASE c \in Colas
    <3>1. Apariciones(p) = {<<c, k>>}
      BY <1>5, <2>2, <2>3, <2>5
    <3>2. Cardinality(Apariciones(p)) = 1
      BY <3>1, FS_Singleton
    <3> QED BY <1>3, <1>4, <1>7, <2>4, <2>5, <3>2 DEF Uno
  <2>6. CASE c \notin Colas
    <3>1. Apariciones(p) = {}
      BY <1>5, <2>3, <2>6
    <3>2. Cardinality(Apariciones(p)) = 0
      BY <3>1, FS_EmptySet
    <3>3. c = "corto" \/ c = LIBRE
      BY <2>6 DEF Sitios
    <3> QED BY <1>3, <1>4, <1>7, <2>1, <2>4, <3>2, <3>3 DEF Uno
  <2> QED BY <2>5, <2>6
<1> QED BY <1>6, <1>7

\* Without FINALIZAR_PROCESO a process is in exactly one queue, once, or in the hands of
\* exactly one thread: no push or pop loses or duplicates it, for any number of processes,
\* resources and interfaces.
THEOREM SiempreUnSoloLugar == ~ Finaliza => (Spec => []UnSoloLugar)
<1> SUFFICES ASSUME ~ Finaliza PROVE Spec => []UnSoloLugar
  OBVIOUS
<1>1. IRecursos /\ Unico => UnSoloLugar
  BY UnLugar DEF IRecursos
<1>2. Spec => [](Unico /\ EnOrden)
  BY UnicoInvariante
<1> QED BY <1>1, <1>2, RecursosInvariante, PTL

\* The waiters of r, the one about to be and the instances: below zero, an instance was
\* taken by nobody.
Falta(r) == Cuantos(r) + EnAnota(r) + instancias[r]
Completa == \A r \in Recursos : Falta(r) >= 0

\* Who waits wrote its entry down first.
Espero == Completa /\ Anota

\* A process in the hands of a planner thread is in no queue.
LEMMA EnManos ==
  ASSUME ITipo, ManoExit, Unico
  PROVE  /\ Llamando => \A c \in Colas : ~ Contiene(cola[c], mano["corto"])
         /\ Liberando => \A c \in Colas : ~ Contiene(cola[c], mano["exit"])
<1> USE SitiosSon
<1>1. /\ \A c \in Colas : Sitio[c] = cola[c]
      /\ Sitio["corto"] = (IF Llamando THEN <<mano["corto"]>> ELSE <<>>)
      /\ Sitio[LIBRE] = (IF Liberando THEN <<mano["exit"]>> ELSE <<>>)
  BY SitioEs
<1>2. SinRepetir(Sitio)
  BY DEF Unico
<1>3. ASSUME NEW m \in {"corto", LIBRE}, NEW x, Sitio[m] = <<x>>, NEW c \in Colas, Contiene(cola[c], x)
      PROVE  FALSE
  <2>1. PICK k \in 1 .. Len(Sitio[c]) : Sitio[c][k] = x
    BY <1>1, <1>3 DEF Contiene
  <2>2. 1 \in 1 .. Len(Sitio[m]) /\ Sitio[m][1] = x
    BY <1>3
  <2> QED BY <1>2, <2>1, <2>2 DEF SinRepetir
<1> QED BY <1>1, <1>3

\* An operator of a pop: who is in what is left was there.
LEMMA ContieneCola ==
  ASSUME NEW s \in Seq(Pids), s # <<>>, NEW p, Contiene(Tail(s), p)
  PROVE  Contiene(s, p)
<1>1. Len(s) \in Nat /\ Len(Tail(s)) = Len(s) - 1 /\ \A k \in 1 .. Len(s) - 1 : Tail(s)[k] = s[k + 1]
  OBVIOUS
<1>2. PICK k \in 1 .. Len(s) - 1 : Tail(s)[k] = p
  BY <1>1 DEF Contiene
<1>3. k + 1 \in 1 .. Len(s) /\ s[k + 1] = p
  BY <1>1, <1>2
<1> QED BY <1>3 DEF Contiene

\* What the steps that touch neither resources nor waiters keep.
LEMMA EsperoIgual ==
  ASSUME Espero, UNCHANGED <<instancias, asignados>>, \A r \in Recursos : cola'[r] = cola[r],
         pc'["corto"] = "anota" <=> pc["corto"] = "anota",
         pc["corto"] = "anota" => contexto' = contexto
  PROVE  Espero'
<1>1. Anota'
  BY DEF Espero, Anota, Contiene
<1>2. \A r \in Recursos : Falta(r)' = Falta(r)
  BY DEF Falta, Cuantos, EnAnota, RecursoPedido, Uno
<1> QED BY <1>1, <1>2 DEF Espero, Completa

\* An instance given back, by a SIGNAL or at the end of a process.
LEMMA EsperoLibera ==
  ASSUME ITipo, ManoExit, Cerrojo, Unico, Espero,
         NEW h \in {"exit", "corto"}, NEW r \in Recursos, LiberarRecurso(h, r), empuje[h] = NADA,
         pc'["corto"] # "anota",
         \/ UNCHANGED asignados
         \/ h = "exit" /\ Liberando /\ asignados' = [asignados EXCEPT ![mano["exit"]][r] = @ - 1]
  PROVE  Espero'
<1> USE Nombres, Distintos
<1>1. /\ mutex["recursos"] = LIBRE /\ instancias'[r] = instancias[r] + 1
      /\ \A q \in Recursos : q # r => instancias'[q] = instancias[q]
      /\ UNCHANGED cola \/ Pasa(h, r, "ready")
  BY SLiberar
<1>2. pc["corto"] # "anota"
  BY <1>1, LibreEsNadie DEF Cerrojo
<1>3. \A q \in Recursos : /\ EnAnota(q) = 0 /\ EnAnota(q)' = 0
                          /\ cola[q] \in Seq(Pids) /\ instancias[q] \in Int /\ Cuantos(q) \in Nat
  BY <1>2, LargoTipo DEF EnAnota, Uno, ITipo, TypeOK, TipoRecursos
<1>4. ASSUME NEW q \in Recursos
      PROVE  \/ cola'[q] = cola[q] /\ Cuantos(q)' = Cuantos(q)
             \/ q = r /\ cola[q] # <<>> /\ cola'[q] = Tail(cola[q]) /\ Cuantos(q)' = Cuantos(q) - 1
  <2>1. CASE UNCHANGED cola
    BY <2>1 DEF Cuantos
  <2>2. CASE Pasa(h, r, "ready")
    <3>1. cola'[q] = cola[q] \/ (q = r /\ cola[q] # <<>> /\ cola'[q] = Tail(cola[q]))
      BY <2>2 DEF Pasa
    <3>2. cola[q] # <<>> => Len(Tail(cola[q])) = Len(cola[q]) - 1
      BY <1>3
    <3> QED BY <3>1, <3>2 DEF Cuantos
  <2> QED BY <1>1, <2>1, <2>2
<1>5. Completa'
  <2> SUFFICES ASSUME NEW q \in Recursos PROVE Falta(q)' >= 0
    BY DEF Completa
  <2>1. Falta(q) >= 0 /\ Falta(q) = Cuantos(q) + instancias[q] /\ Falta(q)' = Cuantos(q)' + instancias'[q]
    BY <1>3, <1>4 DEF Espero, Completa, Falta
  <2> QED BY <1>1, <1>3, <1>4, <2>1
<1>6. Anota'
  <2> SUFFICES ASSUME NEW q \in Recursos, NEW p \in Pids, Contiene(cola'[q], p) PROVE asignados'[p][q] > 0
    BY DEF Anota, Contiene
  <2>1. Contiene(cola[q], p)
    BY <1>3, <1>4, ContieneCola
  <2>2. asignados[p][q] > 0
    BY <2>1 DEF Espero, Anota
  <2>3. CASE UNCHANGED asignados
    BY <2>2, <2>3
  <2>4. CASE Liberando /\ asignados' = [asignados EXCEPT ![mano["exit"]][r] = @ - 1]
    <3>1. p # mano["exit"]
      BY <2>1, <2>4, EnManos
    <3>2. asignados'[p] = asignados[p]
      BY <2>4, <3>1 DEF ITipo, TypeOK, TipoRecursos
    <3> QED BY <2>2, <3>2
  <2> QED BY <2>3, <2>4
<1> QED BY <1>5, <1>6 DEF Espero

\* Every step keeps Espero.
LEMMA EsperoPaso ==
  ASSUME ITipo, ManoExit, Cerrojo, Unico, ~ Finaliza, LugarConsola, Espero, PasoVivo
  PROVE  Espero'
<1> USE Nombres, Distintos
<1>0. /\ \A q \in Recursos : /\ cola[q] \in Seq(Pids) /\ instancias[q] \in Int /\ Cuantos(q) \in Nat
                             /\ Falta(q) >= 0 /\ EnAnota(q) \in {0, 1}
      /\ \A p \in Pids, q \in Recursos : asignados[p][q] \in Nat
      /\ asignados \in [Pids -> [Recursos -> Nat]]
  BY LargoTipo DEF ITipo, TypeOK, TipoRecursos, Espero, Completa, EnAnota, Uno
<1>1. CASE Wait
  <2>1. /\ RecursoPedido \in Recursos
        /\ pc["corto"] = "wait" /\ pc'["corto"] = "anota" /\ RecursoPedido' = RecursoPedido
        /\ instancias'[RecursoPedido] = instancias[RecursoPedido] - 1
        /\ \A q \in Recursos : q # RecursoPedido => instancias'[q] = instancias[q]
        /\ UNCHANGED <<cola, asignados>>
    BY <1>1, SWait DEF Wait, Turno, ITipo, Locales, Va, RecursoPedido
  <2>2. ASSUME NEW q \in Recursos PROVE Falta(q)' >= 0
    <3>1. Cuantos(q)' = Cuantos(q) /\ EnAnota(q) = 0
      BY <2>1 DEF Cuantos, EnAnota, Uno
    <3>2. CASE q = RecursoPedido
      <4>1. EnAnota(q)' = 1 /\ instancias'[q] = instancias[q] - 1
        BY <2>1, <3>2 DEF EnAnota, Uno
      <4> QED BY <1>0, <3>1, <4>1 DEF Falta
    <3>3. CASE q # RecursoPedido
      <4>1. EnAnota(q)' = 0 /\ instancias'[q] = instancias[q]
        BY <2>1, <3>3 DEF EnAnota, Uno
      <4> QED BY <1>0, <3>1, <4>1 DEF Falta
    <3> QED BY <3>2, <3>3
  <2>3. Anota'
    BY <2>1 DEF Espero, Anota
  <2> QED BY <2>2, <2>3 DEF Espero, Completa
<1>2. CASE WaitAnota
  <2>1. /\ pc["corto"] = "anota" /\ RecursoPedido \in Recursos /\ mano["corto"] \in Pids
        /\ asignados' = [asignados EXCEPT ![mano["corto"]][RecursoPedido] = @ + 1]
        /\ \/ instancias[RecursoPedido] < 0 /\ Pone("corto", RecursoPedido, mano["corto"])
           \/ instancias[RecursoPedido] >= 0 /\ \A q \in Recursos : cola'[q] = cola[q]
        /\ UNCHANGED instancias /\ pc'["corto"] # "anota"
    BY <1>2, SWaitAnota, RecursosAparte DEF Va
  <2>2. PICK r \in Recursos : r = RecursoPedido
    BY <2>1
  <2>3. \A q \in Recursos : q # r => cola'[q] = cola[q]
    BY <2>1, <2>2 DEF Pone
  <2>4. ASSUME NEW q \in Recursos PROVE Falta(q)' >= 0
    <3>1. EnAnota(q)' = 0 /\ instancias'[q] = instancias[q]
      BY <2>1 DEF EnAnota, Uno
    <3>2. CASE q # r
      <4>1. EnAnota(q) = 0 /\ Cuantos(q)' = Cuantos(q)
        BY <2>2, <2>3, <3>2 DEF EnAnota, Uno, Cuantos
      <4> QED BY <1>0, <3>1, <4>1 DEF Falta
    <3>3. CASE q = r /\ Pone("corto", r, mano["corto"])
      <4>1. Cuantos(q)' = Cuantos(q) + 1
        BY <1>0, <2>1, <3>3 DEF Pone, Cuantos
      <4> QED BY <1>0, <3>1, <4>1 DEF Falta
    <3>4. CASE q = r /\ instancias[r] >= 0 /\ cola'[r] = cola[r]
      <4>1. Cuantos(q)' = Cuantos(q)
        BY <3>4 DEF Cuantos
      <4> QED BY <1>0, <3>1, <3>4, <4>1 DEF Falta
    <3> QED BY <2>1, <2>2, <3>2, <3>3, <3>4
  <2>5. ASSUME NEW q \in Recursos, NEW p \in Pids, Contiene(cola'[q], p) PROVE asignados'[p][q] > 0
    <3>1. /\ asignados'[p][q] = asignados[p][q] \/ asignados'[p][q] = asignados[p][q] + 1
          /\ p = mano["corto"] /\ q = r => asignados'[p][q] = asignados[p][q] + 1
      BY <1>0, <2>1, <2>2
    <3>2. CASE Contiene(cola[q], p)
      <4>1. asignados[p][q] > 0
        BY <3>2 DEF Espero, Anota
      <4> QED BY <1>0, <3>1, <4>1
    <3>3. CASE ~ Contiene(cola[q], p)
      <4>1. q = r /\ cola'[q] = Append(cola[q], mano["corto"])
        BY <2>1, <2>2, <2>3, <2>5, <3>3 DEF Pone
      <4>2. p = mano["corto"]
        BY <1>0, <2>1, <2>5, <3>3, <4>1, ContieneAppend
      <4> QED BY <1>0, <3>1, <4>1, <4>2
    <3> QED BY <3>2, <3>3
  <2>6. Anota'
    BY <2>5 DEF Anota, Contiene
  <2> QED BY <2>4, <2>6 DEF Espero, Completa
<1>3. CASE Signal
  <2>1. /\ pc["corto"] = "signal" /\ mano["corto"] \in Pids /\ UNCHANGED <<instancias, contexto>>
        /\ pc'["corto"] # "anota" /\ \A q \in Recursos : cola'[q] = cola[q]
        /\ \/ UNCHANGED asignados
           \/ asignados' = [asignados EXCEPT ![mano["corto"]][RecursoPedido] = @ - 1]
    BY <1>3, SSignal, RecursosAparte DEF Va
  <2>2. CASE UNCHANGED asignados
    BY <2>1, <2>2, EsperoIgual
  <2>3. CASE asignados' = [asignados EXCEPT ![mano["corto"]][RecursoPedido] = @ - 1]
    <3>1. ASSUME NEW q \in Recursos, NEW p \in Pids, Contiene(cola[q], p) PROVE asignados'[p][q] > 0
      <4>1. p # mano["corto"]
        BY <2>1, <3>1, EnManos DEF Llamando
      <4>2. asignados'[p] = asignados[p]
        BY <1>0, <2>3, <4>1
      <4> QED BY <3>1, <4>2 DEF Espero, Anota
    <3>2. Anota'
      BY <2>1, <3>1 DEF Anota, Contiene
    <3>3. \A q \in Recursos : Falta(q)' = Falta(q)
      BY <2>1 DEF Falta, Cuantos, EnAnota, Uno
    <3> QED BY <1>0, <3>2, <3>3 DEF Espero, Completa
  <2> QED BY <2>1, <2>2, <2>3
<1>4. CASE SignalLibera
  <2>1. RecursoPedido \in Recursos /\ LiberarRecurso("corto", RecursoPedido) /\ empuje["corto"] = NADA
        /\ pc'["corto"] # "anota" /\ UNCHANGED asignados
    BY <1>4, SSignalLibera DEF Va
  <2> QED BY <2>1, EsperoLibera
<1>5. ASSUME NEW r \in Recursos, ExitLibera(r) PROVE Espero'
  <2>1. /\ LiberarRecurso("exit", r) /\ empuje["exit"] = NADA /\ pc["exit"] = "libera" /\ UNCHANGED pc
        /\ asignados' = [asignados EXCEPT ![mano["exit"]][r] = @ - 1]
    BY <1>5, SExitLibera
  <2>2. pc'["corto"] # "anota"
    BY <2>1, SLiberar, LibreEsNadie DEF Cerrojo
  <2> QED BY <2>1, <2>2, EsperoLibera DEF Liberando
<1>6. ~ Elimina
  BY DEF LugarConsola, Elimina, Turno
<1>7. ASSUME /\ UNCHANGED <<instancias, asignados>> /\ \A r \in Recursos : cola'[r] = cola[r]
             /\ pc'["corto"] = "anota" <=> pc["corto"] = "anota"
             /\ pc["corto"] = "anota" => contexto' = contexto
      PROVE  Espero'
  BY <1>7, EsperoIgual
<1> QED BY <1>1, <1>2, <1>3, <1>4, <1>5, <1>6, <1>7, RecursosQuietos DEF PasoVivo

\* A queue that repeats nobody is as long as any set that has one for each in it.
LEMMA CabenEn ==
  ASSUME NEW n \in Nat, NEW T, IsFiniteSet(T), NEW f \in [1 .. n -> T],
         \A j \in 1 .. n, k \in 1 .. n : f[j] = f[k] => j = k
  PROVE  n <= Cardinality(T)
<1>1. f \in Injection(1 .. n, T)
  BY DEF Injection, IsInjective
<1>2. Cardinality(1 .. n) = n
  BY FS_Interval
<1> QED BY <1>1, <1>2, FS_Injection

\* No more instances in use than there are.
LEMMA NoSobreasigna ==
  ASSUME ITipo, ManoExit, Saldo, Unico, Espero
  PROVE  SinSobreasignacion
<1> USE Nombres, Distintos, SitiosSon
<1> SUFFICES ASSUME NEW r \in Recursos PROVE Cardinality(EnUso(r)) <= Instancias[r]
  BY DEF SinSobreasignacion
<1>1. /\ cola[r] \in Seq(Pids) /\ Cuantos(r) \in Nat /\ instancias[r] \in Int
      /\ Len(cola[r]) = Cuantos(r) /\ \A p \in Pids : asignados[p][r] \in Nat
  BY LargoTipo DEF ITipo, TypeOK, TipoRecursos, Cuantos
<1>2. \A p \in Pids : Concedidas(r, p) \in Int /\ Concedidas(r, p) <= asignados[p][r]
  BY <1>1 DEF Concedidas, Uno
<1>3. \A x : x \in EnUso(r) <=> \E p \in Pids : \E k \in 1 .. Concedidas(r, p) : x = <<p, k>>
  BY DEF EnUso
<1>4. EnUso(r) \subseteq Entradas(r)
  <2> SUFFICES ASSUME NEW p \in Pids, NEW k \in 1 .. Concedidas(r, p) PROVE <<p, k>> \in Entradas(r)
    BY <1>3
  <2>1. k \in 1 .. asignados[p][r]
    BY <1>1, <1>2
  <2> QED BY <2>1, EntradasSon
<1>5. IsFiniteSet(Entradas(r)) /\ Cardinality(Entradas(r)) \in Nat
      /\ IsFiniteSet(EnUso(r)) /\ Cardinality(EnUso(r)) \in Nat
      /\ IsFiniteSet(Entradas(r) \ EnUso(r))
      /\ Cardinality(Entradas(r) \ EnUso(r)) = Cardinality(Entradas(r)) - Cardinality(EnUso(r))
  <2>1. Entradas(r) \cap EnUso(r) = EnUso(r) /\ IsFiniteSet(Entradas(r))
    BY <1>4 DEF Saldo
  <2> QED BY <1>4, <2>1, FS_Subset, FS_Difference, FS_CardinalityType
<1>6. \A j \in 1 .. Cuantos(r), k \in 1 .. Cuantos(r) : cola[r][j] = cola[r][k] => j = k
  <2>1. Sitio[r] = cola[r] /\ r \in Sitios
    BY SitioEs
  <2> QED BY <1>1, <2>1 DEF Unico, SinRepetir
<1>7. ASSUME NEW k \in 1 .. Cuantos(r)
      PROVE  <<cola[r][k], asignados[cola[r][k]][r]>> \in Entradas(r) \ EnUso(r)
  <2>1. PICK p \in Pids : p = cola[r][k]
    BY <1>1, <1>7
  <2>2. Contiene(cola[r], p)
    BY <1>1, <1>7, <2>1 DEF Contiene
  <2>3. asignados[p][r] > 0
    BY <2>2 DEF Espero, Anota
  <2>4. <<p, asignados[p][r]>> \in Entradas(r)
    <3>1. asignados[p][r] \in 1 .. asignados[p][r]
      BY <1>1, <2>3
    <3> QED BY <3>1, EntradasSon
  <2>5. ~ (asignados[p][r] \in 1 .. Concedidas(r, p))
    <3>1. Concedidas(r, p) = 0 \/ Concedidas(r, p) = asignados[p][r] - 1
      BY <2>2 DEF Concedidas, Uno
    <3> QED BY <1>1, <1>2, <2>3, <3>1
  <2>6. <<p, asignados[p][r]>> \notin EnUso(r)
    BY <1>3, <2>5
  <2> QED BY <2>1, <2>4, <2>6
<1>8. Cuantos(r) <= Cardinality(Entradas(r) \ EnUso(r))
  <2> DEFINE f == [k \in 1 .. Cuantos(r) |-> <<cola[r][k], asignados[cola[r][k]][r]>>]
  <2>1. f \in [1 .. Cuantos(r) -> Entradas(r) \ EnUso(r)]
    BY <1>7
  <2>2. \A j \in 1 .. Cuantos(r), k \in 1 .. Cuantos(r) : f[j] = f[k] => j = k
    BY <1>6
  <2> HIDE DEF f
  <2> QED BY <1>1, <1>5, <2>1, <2>2, CabenEn
<1>9. /\ instancias[r] + Cardinality(Entradas(r)) + EnTramite(r) = Instancias[r]
      /\ Cuantos(r) + EnAnota(r) + instancias[r] >= 0
  BY DEF Saldo, SaldoDeRecursos, Anotados, Espero, Completa, Falta
<1>10. EnTramite(r) \in {0, 1} /\ EnAnota(r) \in {0, 1} /\ EnAnota(r) <= EnTramite(r)
  BY DEF EnTramite, EnAnota, Uno
<1> HIDE DEF Entradas, EnUso, EnTramite, EnAnota
<1> QED BY <1>1, <1>5, <1>8, <1>9, <1>10

\* Espero holds at the start.
LEMMA InitEspero ==
  ASSUME Init, ITipo
  PROVE  Espero
<1> USE Nombres, Distintos
<1>1. /\ \A c \in Colas : cola[c] = <<>>
      /\ instancias = Instancias
  BY InitColas DEF Init
<1>2. Anota
  BY <1>1 DEF Anota, Contiene
<1>3. ASSUME NEW r \in Recursos PROVE Falta(r) >= 0
  <2>1. Cuantos(r) \in Nat /\ EnAnota(r) \in {0, 1} /\ instancias[r] \in Nat
    BY <1>1, LargoTipo, TamanosAssumption DEF EnAnota, Uno
  <2> QED BY <2>1 DEF Falta
<1> QED BY <1>2, <1>3 DEF Espero, Completa

\* Without FINALIZAR_PROCESO the instances of a resource in use never exceed
\* INSTANCIAS_RECURSOS, for any number of processes and any program: whoever is in
\* lista_recursos_procesos and not waiting was granted a real instance.
THEOREM NuncaSeSobreasigna == ~ Finaliza => (Spec => []SinSobreasignacion)
<1> SUFFICES ASSUME ~ Finaliza PROVE Spec => []SinSobreasignacion
  OBVIOUS
<1>1. Init /\ ITipo => Espero
  BY InitEspero
<1>2. IRecursos /\ Unico /\ Espero /\ [Next]_vars => Espero'
  <2> SUFFICES ASSUME IRecursos, Unico, Espero, [Next]_vars PROVE Espero'
    OBVIOUS
  <2>1. PasoVivo \/ Muerto
    BY Pasos DEF IRecursos, IFrenos
  <2>2. CASE Muerto
    BY <2>2, EsperoIgual DEF Muerto
  <2> QED BY <2>1, <2>2, EsperoPaso DEF IRecursos
<1>3. IRecursos /\ Unico /\ Espero => SinSobreasignacion
  BY NoSobreasigna DEF IRecursos
<1>4. Spec => [](Unico /\ EnOrden)
  BY UnicoInvariante
<1> QED BY <1>1, <1>2, <1>3, <1>4, TipoInvariante, RecursosInvariante, PTL DEF Spec

\* The places of a process that manejar_new admitted and that has not left.
Afuera == {"new", "exit", LIBRE}
Adentro(s) == {p \in Pids : \E c \in Sitios : c \notin Afuera /\ Contiene(s[c], p)}

\* x goes from a to c and nobody else moves.
SeMuda(s, t, a, c, x) ==
  /\ \A d \in Sitios : (Contiene(s[d], x) <=> d = a) /\ (Contiene(t[d], x) <=> d = c)
  /\ \A d \in Sitios, p \in Pids : p # x => (Contiene(t[d], p) <=> Contiene(s[d], p))

\* Who moves, and who stays, when the first of a goes to the end of c.
LEMMA TrasladaLleva ==
  ASSUME NEW s \in [Sitios -> Seq(Pids)], NEW t \in [Sitios -> Seq(Pids)],
         NEW a \in Sitios, NEW c \in Sitios, Traslada(s, t, a, c), SinRepetir(s), NEW P, Repartidos(s, P)
  PROVE  Head(s[a]) \in Pids /\ Head(s[a]) \in P /\ SeMuda(s, t, a, c, Head(s[a]))
<1> DEFINE x == Head(s[a])
<1>0. SinRepetir(t) /\ Repartidos(t, P)
  BY TrasladaUnico
<1>1. SinRepetir(t) /\ Repartidos(t, P) /\ a # c /\ s[a] # <<>>
  BY <1>0 DEF Traslada
<1>2. /\ Len(s[a]) \in Nat /\ Len(s[c]) \in Nat /\ Len(s[a]) > 0 /\ x = s[a][1] /\ x \in Pids
      /\ Len(t[a]) = Len(s[a]) - 1 /\ \A k \in 1 .. Len(s[a]) - 1 : t[a][k] = s[a][k + 1]
  BY <1>1, ColaYMas DEF Traslada
<1>3. /\ Len(t[c]) = Len(s[c]) + 1 /\ t[c][Len(s[c]) + 1] = x
      /\ \A k \in 1 .. Len(s[c]) : t[c][k] = s[c][k]
  BY <1>1, <1>2, ColaYMas DEF Traslada
<1>4. \A d \in Sitios : d # a /\ d # c => t[d] = s[d]
  BY DEF Traslada
<1>5. 1 \in 1 .. Len(s[a]) /\ Len(s[c]) + 1 \in 1 .. Len(t[c])
  BY <1>2, <1>3
<1>6. Contiene(s[a], x) /\ Contiene(t[c], x)
  BY <1>2, <1>3, <1>5 DEF Contiene
<1>7. \A d \in Sitios : (Contiene(s[d], x) => d = a) /\ (Contiene(t[d], x) => d = c)
  BY <1>1, <1>6 DEF SinRepetir, Contiene
<1>8. ASSUME NEW d \in Sitios, NEW p \in Pids, p # x PROVE Contiene(t[d], p) <=> Contiene(s[d], p)
  <2>1. CASE d = a
    <3>1. ASSUME NEW k \in 1 .. Len(t[a]), t[a][k] = p PROVE Contiene(s[a], p)
      <4>1. k + 1 \in 1 .. Len(s[a]) /\ s[a][k + 1] = p
        BY <1>2, <3>1
      <4> QED BY <4>1 DEF Contiene
    <3>2. ASSUME NEW k \in 1 .. Len(s[a]), s[a][k] = p PROVE Contiene(t[a], p)
      <4>1. k # 1
        BY <1>2, <1>8, <3>2
      <4>2. k - 1 \in 1 .. Len(t[a]) /\ t[a][k - 1] = s[a][(k - 1) + 1] /\ (k - 1) + 1 = k
        BY <1>2, <4>1
      <4>3. t[a][k - 1] = p
        BY <3>2, <4>2
      <4> QED BY <4>2, <4>3 DEF Contiene
    <3> QED BY <2>1, <3>1, <3>2 DEF Contiene
  <2>2. CASE d = c
    <3>1. ASSUME NEW k \in 1 .. Len(t[c]), t[c][k] = p PROVE k \in 1 .. Len(s[c]) /\ s[c][k] = p
      BY <1>2, <1>3, <1>8, <3>1
    <3>2. ASSUME NEW k \in 1 .. Len(s[c]), s[c][k] = p PROVE k \in 1 .. Len(t[c]) /\ t[c][k] = p
      BY <1>2, <1>3, <3>2
    <3> QED BY <2>2, <3>1, <3>2 DEF Contiene
  <2>3. CASE d # a /\ d # c
    BY <1>4, <2>3 DEF Contiene
  <2> QED BY <2>1, <2>2, <2>3
<1>9. x \in P
  BY <1>2, <1>6 DEF Repartidos
<1> HIDE DEF x
<1>10. SeMuda(s, t, a, c, x)
  BY <1>6, <1>7, <1>8 DEF SeMuda
<1> QED BY <1>2, <1>9, <1>10 DEF x

\* How many are inside, then.
LEMMA TrasladaAdentro ==
  ASSUME NEW s \in [Sitios -> Seq(Pids)], NEW t \in [Sitios -> Seq(Pids)],
         NEW a \in Sitios, NEW c \in Sitios, Traslada(s, t, a, c), SinRepetir(s), NEW P, Repartidos(s, P)
  PROVE  /\ Cardinality(Adentro(s)) \in Nat
         /\ Cardinality(Adentro(t)) = Cardinality(Adentro(s)) + Uno(c \notin Afuera) - Uno(a \notin Afuera)
<1> DEFINE x == Head(s[a])
<1>1. IsFiniteSet(Pids)
  BY FS_Interval, TamanosAssumption DEF Pids
<1>2. /\ Adentro(s) \subseteq Pids /\ Adentro(t) \subseteq Pids
      /\ IsFiniteSet(Adentro(s)) /\ IsFiniteSet(Adentro(t)) /\ Cardinality(Adentro(s)) \in Nat
  BY <1>1, FS_Subset, FS_CardinalityType DEF Adentro
<1>3. x \in Pids /\ SeMuda(s, t, a, c, x)
  BY TrasladaLleva
<1> HIDE DEF x
<1>4. (x \in Adentro(s) <=> a \notin Afuera) /\ (x \in Adentro(t) <=> c \notin Afuera)
  BY <1>3 DEF Adentro, SeMuda
<1>5. \A p \in Pids : p # x => (p \in Adentro(t) <=> p \in Adentro(s))
  BY <1>3 DEF Adentro, SeMuda
<1>6. CASE a \in Afuera /\ c \notin Afuera
  <2>1. Adentro(t) = Adentro(s) \cup {x} /\ x \notin Adentro(s)
    BY <1>2, <1>3, <1>4, <1>5, <1>6
  <2> QED BY <1>2, <1>6, <2>1, FS_AddElement DEF Uno
<1>7. CASE a \notin Afuera /\ c \in Afuera
  <2>1. Adentro(t) = Adentro(s) \ {x} /\ x \in Adentro(s)
    BY <1>2, <1>3, <1>4, <1>5, <1>7
  <2> QED BY <1>2, <1>7, <2>1, FS_RemoveElement DEF Uno
<1>8. CASE (a \in Afuera <=> c \in Afuera)
  <2>0. \A p \in Pids : p \in Adentro(t) <=> p \in Adentro(s)
    BY <1>4, <1>5, <1>8
  <2>1. Adentro(t) = Adentro(s)
    BY <1>2, <2>0
  <2> QED BY <1>2, <1>8, <2>1 DEF Uno
<1> QED BY <1>6, <1>7, <1>8

\* Those inside are the admitted processes of GradoConservado.
LEMMA AdmitidosSon ==
  ASSUME ITipo, ManoExit, Unico
  PROVE  Admitidos = Adentro(Sitio)
<1> USE SitiosSon
<1>1. /\ \A c \in Colas : Sitio[c] = cola[c]
      /\ Sitio["corto"] = (IF Llamando THEN <<mano["corto"]>> ELSE <<>>)
      /\ listaPcb \subseteq Pids
  BY SitioEs DEF ITipo, TypeOK, TipoPcb
<1>2. \A p : Contiene(Sitio["corto"], p) <=> EnSyscall(p)
  BY <1>1 DEF EnSyscall, Llamando, Contiene
<1>3. \A p \in Pids : p \in listaPcb <=> \E c \in Sitios : Contiene(Sitio[c], p)
  BY DEF Unico, Repartidos
<1>4. \A c : c \in Sitios /\ c \notin Afuera <=> c \in Colas \ {"new", "exit"} \/ c = "corto"
  BY DEF Sitios, Afuera
<1>5. ASSUME NEW p \in Pids PROVE p \in Admitidos <=> p \in Adentro(Sitio)
  BY <1>1, <1>2, <1>3, <1>4 DEF Admitidos, Adentro
<1> QED BY <1>1, <1>5 DEF Admitidos, Adentro

\* The degree as GradoConservado counts it, with the places of Sitio.
Total == multi + Uno(pc["new"] \in {"permiso", "saca"}) + Cardinality(Adentro(Sitio)) + EnCamino("exit")

\* Without MULTIPROGRAMACION the degree stays what the configuration file says.
GradoFijo == grado = Grado /\ ignorar = 0 /\ Total = Grado

\* The parts of the count are numbers.
LEMMA TotalTipo ==
  ASSUME ITipo
  PROVE  /\ multi \in Nat /\ EnCamino("exit") \in Nat /\ "exit" \in ConPermiso
         /\ IsFiniteSet(Adentro(Sitio)) /\ Cardinality(Adentro(Sitio)) \in Nat
<1>1. IsFiniteSet(Pids)
  BY FS_Interval, TamanosAssumption DEF Pids
<1>2. Adentro(Sitio) \subseteq Pids
  BY DEF Adentro
<1>3. "exit" \in ConPermiso
  BY DEF ConPermiso
<1> QED BY <1>1, <1>2, <1>3, FS_Subset, FS_CardinalityType, LargoTipo DEF ITipo, TypeOK, TipoGrado

\* It is the count of GradoConservado.
LEMMA TotalEs ==
  ASSUME ITipo, ManoExit, Unico, Total = grado + ignorar,
         pc["consola"] \notin {"bajaEspera", "ignoraEspera"}
  PROVE  GradoConservado
<1>1. Cardinality({h \in Hilos : empuje[h].cola = "exit"}) = EnCamino("exit")
  <2>1. \A h \in Hilos : empuje[h].cola = "exit" <=> PermisoDe(empuje[h].cola) = "exit"
    BY DEF PermisoDe
  <2>2. {h \in Hilos : empuje[h].cola = "exit"} = {h \in Hilos : PermisoDe(empuje[h].cola) = "exit"}
    BY <2>1
  <2> QED BY <2>2 DEF EnCamino
<1>2. Admitidos = Adentro(Sitio)
  BY AdmitidosSon
<1>3. TomadosPorConsola = 0
  BY DEF TomadosPorConsola
<1>4. Uno(pc["new"] \in {"permiso", "saca"}) \in Nat
  BY DEF Uno
<1>5. multi + Uno(pc["new"] \in {"permiso", "saca"}) + Cardinality(Admitidos)
        + Cardinality({h \in Hilos : empuje[h].cola = "exit"}) = grado + ignorar
  BY <1>1, <1>2 DEF Total
<1>6. multi \in Nat /\ Cardinality(Admitidos) \in Nat
      /\ Cardinality({h \in Hilos : empuje[h].cola = "exit"}) \in Nat
  BY <1>1, <1>2, TotalTipo
<1> QED BY <1>3, <1>4, <1>5, <1>6 DEF GradoConservado

\* The degree itself, and what is still to be swallowed.
LEMMA GradoQuieto ==
  ASSUME ITipo, ~ Finaliza, ~ CambiaGrado, LugarConsola, PasoVivo
  PROVE  grado' = grado /\ (ignorar' = ignorar \/ ignorar' = ignorar - 1)
<1> USE Nombres
<1>0. ~ Elimina
  BY DEF LugarConsola, Elimina, Turno
<1>1. CASE NewMulti \/ NewPermiso \/ NewListo \/ (NewSaca /\ cola["new"] # <<>>)
  BY <1>1, SNewMulti, SNewPermiso, SNewListo, SNewSaca
<1>2. CASE \/ ExitToma \/ ExitFin \/ ExitCuenta \/ \E r \in Recursos : ExitLibera(r)
           \/ ExitSaca /\ cola["exit"] # <<>> /\ Head(cola["exit"]) \in listaPcb
  BY <1>2, SExitToma, SExitFin, SExitCuenta, SExitLibera, SExitSaca
<1>3. CASE \/ Despacha /\ cola[ColaSiguiente] # <<>>
           \/ CpuDevuelve
           \/ ManejaProceso /\ cola["exec"] # <<>> /\ Head(cola["exec"]) \in listaPcb
  BY <1>3, SDespacha, SCpuDevuelve, SManejaProceso
<1>4. CASE Termina \/ Desenrolla \/ EntraRecurso \/ Wait \/ WaitAnota
  BY <1>4, SVuelve, SEntraRecurso, SWait, SWaitAnota
<1>5. CASE Signal \/ SignalLibera \/ SignalSigue
  BY <1>5, SSignal, SSignalLibera, SSignalSigue
<1>6. CASE \E i \in Interfaces : IoToma(i) /\ cola[i] # <<>> /\ Head(cola[i]) \in listaPcb
  BY <1>6, SIoToma
<1>7. CASE \E i \in Interfaces : IoTermina(i) /\ mano[i] \in listaPcb
  BY <1>7, SIoTermina
<1>8. CASE \E h \in Hilos : Publicar(h) /\ empuje[h].pid \in listaPcb
  BY <1>8, SPublicar
<1>11. CASE \E i \in Interfaces : IoError(i)
  BY <1>11, SIoError
<1>9. CASE IniciarProceso
  BY <1>9, SIniciarProceso
<1>10. CASE Ajeno
  BY <1>10 DEF Ajeno
<1> QED BY <1>0, <1>1, <1>2, <1>3, <1>4, <1>5, <1>6, <1>7, <1>8, <1>9, <1>10, <1>11 DEF PasoVivo

\* A step in which nobody moves.
LEMMA TotalCalma ==
  ASSUME ITipo, ITipo', ~ CambiaGrado, Sitio' = Sitio, Calma, ignorar = 0
  PROVE  Total' = Total
<1> USE Nombres, TotalTipo
<1>1. Cardinality(Adentro(Sitio))' = Cardinality(Adentro(Sitio))
  OBVIOUS
<1> HIDE DEF Adentro
<1>2. ASSUME multi' = multi, pc'["new"] \in {"permiso", "saca"} <=> pc["new"] \in {"permiso", "saca"}, UNCHANGED empuje
      PROVE  Total' = Total
  <2>1. EnCamino("exit")' = EnCamino("exit")
    BY <1>2 DEF EnCamino
  <2>2. (Uno(pc["new"] \in {"permiso", "saca"}))' = Uno(pc["new"] \in {"permiso", "saca"})
    BY <1>2 DEF Uno
  <2> QED BY <1>1, <1>2, <2>1, <2>2 DEF Total
<1>3. CASE Acompana(LIBRE, LIBRE)
  BY <1>2, <1>3, SitiosSon DEF Acompana, LIBRE
<1>4. CASE NewMulti
  <2>1. Va("new", "multi", "permiso") /\ multi' = multi - 1 /\ UNCHANGED empuje
    BY <1>4, SNewMulti
  <2>2. EnCamino("exit")' = EnCamino("exit")
    BY <2>1 DEF EnCamino
  <2>3. Uno(pc["new"] \in {"permiso", "saca"}) = 0 /\ (Uno(pc["new"] \in {"permiso", "saca"}))' = 1
    BY <2>1 DEF Uno, Va
  <2> QED BY <1>1, <2>1, <2>2, <2>3 DEF Total
<1>5. CASE NewPermiso \/ NewListo
  BY <1>2, <1>5, SNewPermiso, SNewListo DEF Va
<1>6. CASE Ajeno
  <2>1. multi' = multi /\ UNCHANGED empuje /\ Arrancan
    BY <1>6 DEF Ajeno
  <2>2. pc'["new"] = pc["new"] \/ (pc["new"] = "apagado" /\ pc'["new"] = "multi")
    BY <2>1 DEF Arrancan
  <2> QED BY <1>2, <2>1, <2>2
<1>7. ASSUME NEW h \in Hilos, Publicar(h), empuje[h].pid \in listaPcb PROVE Total' = Total
  <2>1. /\ empuje'[h] = NADA /\ \A g \in Hilos : g # h => empuje'[g] = empuje[g]
        /\ IF empuje[h].cola = "exit"
              THEN \/ multi' = multi + 1 /\ UNCHANGED ignorar
                   \/ ignorar' = ignorar - 1 /\ UNCHANGED multi
              ELSE UNCHANGED <<multi, ignorar>>
        /\ UNCHANGED pc
    BY <1>7, SPublicar
  <2>2. EnCamino("exit")' = EnCamino("exit") - Uno("exit" = PermisoDe(empuje[h].cola))
    BY <2>1, EnCaminoMenos
  <2>3. (Uno(pc["new"] \in {"permiso", "saca"}))' = Uno(pc["new"] \in {"permiso", "saca"})
        /\ Uno(pc["new"] \in {"permiso", "saca"}) \in {0, 1}
    BY <2>1 DEF Uno
  <2>4. CASE empuje[h].cola = "exit"
    <3>1. Uno("exit" = PermisoDe(empuje[h].cola)) = 1
      BY <2>4 DEF Uno, PermisoDe
    <3>2. multi' = multi + 1
      BY <2>1, <2>4 DEF ITipo, TypeOK, TipoGrado
    <3> QED BY <1>1, <2>2, <2>3, <3>1, <3>2 DEF Total
  <2>5. CASE empuje[h].cola # "exit"
    <3>1. Uno("exit" = PermisoDe(empuje[h].cola)) = 0
      BY <2>5 DEF Uno, PermisoDe
    <3>2. multi' = multi
      BY <2>1, <2>5
    <3> QED BY <1>1, <2>2, <2>3, <3>1, <3>2 DEF Total
  <2> QED BY <2>4, <2>5
<1> QED BY <1>3, <1>4, <1>5, <1>6, <1>7 DEF Calma

\* A step in which a process changes place.
LEMMA TotalMudan ==
  ASSUME ITipo, ManoExit, ITipo', ManoExit', Unico, NEW a \in Sitios, NEW c \in Sitios,
         Mudan(a, c), Acompana(a, c), Traslada(Sitio, Sitio', a, c)
  PROVE  Total' = Total
<1> USE Nombres, Distintos, TotalTipo
<1>1. /\ Cardinality(Adentro(Sitio)) \in Nat
      /\ Cardinality(Adentro(Sitio')) = Cardinality(Adentro(Sitio)) + Uno(c \notin Afuera) - Uno(a \notin Afuera)
  <2>1. Sitio \in [Sitios -> Seq(Pids)] /\ Sitio' \in [Sitios -> Seq(Pids)]
    BY SitioEs, SitioEsP
  <2>2. SinRepetir(Sitio) /\ Repartidos(Sitio, listaPcb)
    BY DEF Unico
  <2> QED BY <2>1, <2>2, TrasladaAdentro
<1>2. EnCamino("exit")' = EnCamino("exit") + Uno(c = "exit")
  <2>1. CASE c \in {"corto", LIBRE}
    BY <2>1, SitiosSon DEF Acompana, EnCamino, Uno, Colas
  <2>2. CASE c \notin {"corto", LIBRE}
    <3>1. PICK h \in Hilos : \E p : Comienza(h, c, p)
      BY <2>2 DEF Acompana
    <3>2. c \in Colas
      BY <2>2 DEF Sitios
    <3>3. EnCamino("exit")' = EnCamino("exit") + Uno("exit" = PermisoDe(c))
      BY <3>1, <3>2, EnCaminoMas
    <3>4. "exit" = PermisoDe(c) <=> c = "exit"
      BY DEF PermisoDe
    <3> QED BY <3>3, <3>4 DEF Uno
  <2> QED BY <2>1, <2>2
<1>3. multi' = multi
  BY DEF Acompana
<1>4. CASE a = "new"
  <2>1. c = "ready" /\ pc["new"] = "saca" /\ pc'["new"] = "listo"
    BY <1>4 DEF Mudan, Acompana, LIBRE
  <2>2. Uno(c \notin Afuera) = 1 /\ Uno(a \notin Afuera) = 0 /\ Uno(c = "exit") = 0
        /\ Uno(pc["new"] \in {"permiso", "saca"}) = 1 /\ (Uno(pc["new"] \in {"permiso", "saca"}))' = 0
    BY <1>4, <2>1 DEF Uno, Afuera, LIBRE
  <2> QED BY <1>1, <1>2, <1>3, <2>2 DEF Total
<1>5. CASE a # "new"
  <2>1. Uno(c \notin Afuera) + Uno(c = "exit") = Uno(a \notin Afuera) /\ Uno(c = "exit") \in {0, 1}
        /\ Uno(c \notin Afuera) \in {0, 1} /\ Uno(a \notin Afuera) \in {0, 1}
    <3>1. CASE a = "exit" /\ c = LIBRE
      BY <3>1 DEF Uno, Afuera, LIBRE
    <3>2. CASE a \notin Afuera /\ c \notin {"new", LIBRE}
      BY <3>2 DEF Uno, Afuera, LIBRE
    <3>3. (a = "exit" /\ c = LIBRE) \/ (a \notin Afuera /\ c \notin {"new", LIBRE})
      BY <1>5 DEF Mudan, Afuera, LIBRE
    <3> QED BY <3>1, <3>2, <3>3
  <2>2. (Uno(pc["new"] \in {"permiso", "saca"}))' = Uno(pc["new"] \in {"permiso", "saca"})
        /\ Uno(pc["new"] \in {"permiso", "saca"}) \in {0, 1}
    BY <1>5 DEF Acompana, Uno
  <2> QED BY <1>1, <1>2, <1>3, <2>1, <2>2 DEF Total
<1> QED BY <1>4, <1>5

\* The count never changes.
LEMMA GradoPaso ==
  ASSUME ITipo, ManoExit, ITipo', ManoExit', ~ Finaliza, ~ CambiaGrado, LugarConsola, Ejecuta, Atendido,
         Unico, GradoFijo, PasoVivo
  PROVE  GradoFijo'
<1> USE Nombres, Distintos, TotalTipo
<1>1. grado' = Grado /\ ignorar' = 0
  <2>1. ignorar' \in Nat
    BY DEF ITipo, TypeOK, TipoGrado
  <2> QED BY <2>1, GradoQuieto DEF GradoFijo
<1>2. CASE Sitio' = Sitio /\ Calma
  BY <1>1, <1>2, TotalCalma DEF GradoFijo
<1>3. ASSUME NEW a \in Sitios, NEW c \in Sitios, Mudan(a, c), Acompana(a, c), Traslada(Sitio, Sitio', a, c)
      PROVE  GradoFijo'
  BY <1>1, <1>3, TotalMudan DEF GradoFijo
<1>4. ASSUME NEW e \in Afuera, \A d \in Sitios : d # e => Sitio'[d] = Sitio[d],
             multi' = multi, pc'["new"] = pc["new"], EnCamino("exit")' = EnCamino("exit")
      PROVE  GradoFijo'
  <2>1. Adentro(Sitio') = Adentro(Sitio)
    BY <1>4 DEF Adentro, Afuera, Contiene
  <2>2. Total' = Total
    BY <1>4, <2>1 DEF Total, Uno
  <2> QED BY <1>1, <2>2 DEF GradoFijo
<1>5. ASSUME \A d \in Sitios : d # "new" => Sitio'[d] = Sitio[d], Acompana("consola", "new")
      PROVE  GradoFijo'
  <2>1. PICK h \in Hilos : \E p : Comienza(h, "new", p)
    BY <1>5, SitiosSon DEF Acompana, LIBRE
  <2>2. EnCamino("exit")' = EnCamino("exit") + Uno("exit" = PermisoDe("new"))
    BY <2>1, EnCaminoMas
  <2>3. EnCamino("exit")' = EnCamino("exit")
    BY <2>2 DEF PermisoDe, Uno
  <2> QED BY <1>4, <1>5, <2>3 DEF Acompana, Afuera
<1>6. ASSUME \A d \in Sitios : d # LIBRE => Sitio'[d] = Sitio[d], Acompana(LIBRE, LIBRE)
      PROVE  GradoFijo'
  <2>1. UNCHANGED empuje /\ multi' = multi /\ pc'["new"] = pc["new"]
    BY <1>6 DEF Acompana, LIBRE
  <2>2. EnCamino("exit")' = EnCamino("exit")
    BY <2>1 DEF EnCamino
  <2> QED BY <1>4, <1>6, <2>1, <2>2 DEF Afuera
<1> QED BY <1>2, <1>3, <1>5, <1>6, SitioPaso

\* Nobody is inside at the start.
LEMMA InitGrado ==
  ASSUME Init, ITipo, ManoExit
  PROVE  GradoFijo
<1> USE Nombres, Distintos
<1>1. /\ \A c \in Colas : cola[c] = <<>>
      /\ pc["corto"] = "apagado" /\ pc["exit"] = "apagado" /\ pc["new"] = "apagado"
      /\ multi = Grado /\ grado = Grado /\ ignorar = 0
  BY InitColas DEF Init
<1>2. \A c \in Sitios : Sitio[c] = <<>>
  BY <1>1, SitioEs DEF Llamando, Liberando, Sitios
<1>3. \A c \in Sitios : \A p : ~ Contiene(Sitio[c], p)
  <2>1. \A c \in Sitios : Len(Sitio[c]) = 0
    BY <1>2
  <2> QED BY <2>1 DEF Contiene
<1>4. Adentro(Sitio) = {}
  BY <1>3 DEF Adentro
<1>5. Cardinality(Adentro(Sitio)) = 0
  BY <1>4, FS_EmptySet
<1>6. EnCamino("exit") = 0
  BY InitColas DEF ConPermiso
<1>7. Uno(pc["new"] \in {"permiso", "saca"}) = 0
  BY <1>1 DEF Uno
<1>8. Grado \in Nat
  BY TamanosAssumption
<1> QED BY <1>1, <1>5, <1>6, <1>7, <1>8 DEF GradoFijo, Total

\* Without FINALIZAR_PROCESO and MULTIPROGRAMACION the permits of sem_multiprogramacion,
\* the one manejar_new holds, the admitted processes and the exits on their way make the degree.
THEOREM GradoInvariante == ~ Finaliza /\ ~ CambiaGrado => (Spec => []GradoFijo)
<1> SUFFICES ASSUME ~ Finaliza, ~ CambiaGrado PROVE Spec => []GradoFijo
  OBVIOUS
<1>1. Init /\ IRecursos => GradoFijo
  BY InitGrado DEF IRecursos
<1>2. IRecursos /\ IRecursos' /\ Exacto /\ Unico /\ GradoFijo /\ [Next]_vars => GradoFijo'
  <2> SUFFICES ASSUME IRecursos, IRecursos', Exacto, Unico, GradoFijo, [Next]_vars PROVE GradoFijo'
    OBVIOUS
  <2>1. PasoVivo \/ Muerto
    BY Pasos DEF IRecursos, IFrenos
  <2>2. CASE Muerto
    <3>1. Sitio' = Sitio /\ UNCHANGED <<multi, grado, ignorar, pc, empuje>>
      BY <2>2 DEF Muerto, Sitio, Llamando, Liberando
    <3>2. Total' = Total
      BY <3>1 DEF Total, EnCamino, Uno
    <3> QED BY <3>1, <3>2 DEF GradoFijo
  <2> QED BY <2>1, <2>2, GradoPaso DEF IRecursos, Exacto
<1>3. Spec => []Exacto
  BY ExactoInvariante
<1>4. Spec => [](Unico /\ EnOrden)
  BY UnicoInvariante
<1> QED BY <1>1, <1>2, <1>3, <1>4, RecursosInvariante, PTL DEF Spec

\* Without FINALIZAR_PROCESO and MULTIPROGRAMACION no degree permit is lost or made up,
\* whatever the interfaces answer: what manejar_new takes, push_cola_exit gives back, once
\* per process.
THEOREM SiempreGradoConservado == ~ Finaliza /\ ~ CambiaGrado => (Spec => []GradoConservado)
<1> SUFFICES ASSUME ~ Finaliza, ~ CambiaGrado PROVE Spec => []GradoConservado
  OBVIOUS
<1>1. IRecursos /\ Unico /\ GradoFijo => GradoConservado
  <2> SUFFICES ASSUME IRecursos, Unico, GradoFijo PROVE GradoConservado
    OBVIOUS
  <2>1. Total = grado + ignorar
    BY TamanosAssumption DEF GradoFijo
  <2>2. pc["consola"] \notin {"bajaEspera", "ignoraEspera"}
    BY DEF IRecursos, LugarConsola
  <2> QED BY <2>1, <2>2, TotalEs DEF IRecursos
<1>2. Spec => []GradoFijo
  BY GradoInvariante
<1>3. Spec => [](Unico /\ EnOrden)
  BY UnicoInvariante
<1> QED BY <1>1, <1>2, <1>3, RecursosInvariante, PTL

(***************************************************************************)
(* The life cycle: every step moves one process along it, or nobody.       *)
(***************************************************************************)
\* The stage of whoever is in a place.
Grupo(d) ==
  IF d = "new" THEN "nuevo"
  ELSE IF d \in {"ready", "aux"} THEN "listo"
  ELSE IF d \in {"exec", "corto"} THEN "ejecutando"
  ELSE IF d \in {"exit", LIBRE} THEN "terminado"
  ELSE "bloqueado"

\* Etapa, read from the place a process is in.
EtapaFiel ==
  /\ \A p \in Pids, d \in Sitios : Contiene(Sitio[d], p) => Etapa(p) = Grupo(d)
  /\ \A p \in Pids : p \notin listaPcb => Etapa(p) = IF p >= proximo THEN "inexistente" ELSE "liberado"

\* It says the same, since nobody is in two places.
LEMMA EtapaEs == ITipo /\ ManoExit /\ Unico => EtapaFiel
<1> SUFFICES ASSUME ITipo, ManoExit, Unico PROVE EtapaFiel
  OBVIOUS
<1> USE Distintos, SitiosSon
<1>1. /\ \A c \in Colas : Sitio[c] = cola[c]
      /\ Sitio["corto"] = (IF Llamando THEN <<mano["corto"]>> ELSE <<>>)
  BY SitioEs
<1>2. \A p : Contiene(Sitio["corto"], p) <=> EnSyscall(p)
  BY <1>1 DEF EnSyscall, Llamando, Contiene
<1>3. ASSUME NEW p \in Pids, NEW d \in Sitios, Contiene(Sitio[d], p) PROVE Etapa(p) = Grupo(d)
  <2>1. p \in listaPcb /\ ~ (p >= proximo)
    <3>1. p \in listaPcb
      BY <1>3 DEF Unico, Repartidos
    <3>2. p < proximo /\ p \in Int /\ proximo \in Int
      BY <3>1 DEF Unico, Pids, ITipo, TypeOK, TipoPcb
    <3> QED BY <3>1, <3>2
  <2>2. \A e \in Sitios : Contiene(Sitio[e], p) => e = d
    BY <1>3 DEF Unico, SinRepetir, Contiene
  <2>3. /\ {"new", "ready", "aux", "exec", "exit"} \cup Recursos \cup Interfaces = Colas
        /\ \A e \in Colas : Contiene(cola[e], p) <=> e = d
        /\ EnSyscall(p) <=> d = "corto"
    BY <1>1, <1>2, <1>3, <2>2 DEF Colas
  <2>4. d \in Colas \/ d = "corto" \/ d = LIBRE
    BY DEF Sitios
  <2>5. /\ Contiene(cola["new"], p) <=> d = "new"
        /\ Contiene(cola["ready"], p) <=> d = "ready"
        /\ Contiene(cola["aux"], p) <=> d = "aux"
        /\ Contiene(cola["exec"], p) <=> d = "exec"
        /\ (\E c \in Recursos \cup Interfaces : Contiene(cola[c], p)) <=> d \in Recursos \cup Interfaces
    BY <2>3
  <2>6. Etapa(p) = IF d = "new" THEN "nuevo"
                   ELSE IF d = "ready" \/ d = "aux" THEN "listo"
                   ELSE IF d = "exec" \/ d = "corto" THEN "ejecutando"
                   ELSE IF d \in Recursos \cup Interfaces THEN "bloqueado" ELSE "terminado"
    BY <2>1, <2>3, <2>5 DEF Etapa
  <2> QED BY <2>3, <2>4, <2>6 DEF Grupo
<1>4. ASSUME NEW p \in Pids, p \notin listaPcb
      PROVE  Etapa(p) = IF p >= proximo THEN "inexistente" ELSE "liberado"
  BY <1>4 DEF Etapa
<1> QED BY <1>3, <1>4 DEF EtapaFiel

\* The same in the next state.
LEMMA EtapaEsP ==
  ASSUME ITipo', ManoExit', Unico'
  PROVE  /\ \A p \in Pids, d \in Sitios : Contiene(Sitio'[d], p) => Etapa(p)' = Grupo(d)
         /\ \A p \in Pids : p \notin listaPcb' => Etapa(p)' = IF p >= proximo' THEN "inexistente" ELSE "liberado"
<1>1. ITipo' /\ ManoExit' /\ Unico' => EtapaFiel'
  BY EtapaEs, PTL
<1>2. EtapaFiel'
  BY <1>1
<1> QED BY <1>2 DEF EtapaFiel, Contiene

\* One process changes stage.
LEMMA EtapaPasa ==
  ASSUME NEW x \in Pids, NEW d, NEW e, Etapa(x) = d, Etapa(x)' = e,
         \A q \in Pids : q # x => Etapa(q)' = Etapa(q)
  PROVE  Ciclo!Pasar(x, d, e)
BY DEF Ciclo!Pasar

\* Nobody does.
LEMMA EtapaQueda ==
  ASSUME \A q \in Pids : Etapa(q)' = Etapa(q)
  PROVE  [p \in Pids |-> Etapa(p)]' = [p \in Pids |-> Etapa(p)]
OBVIOUS

\* A process goes from a place to another: the stage it had and the one it has.
LEMMA EtapaMuda ==
  ASSUME ITipo, ManoExit, ITipo', ManoExit', Unico, Unico',
         NEW a \in Sitios, NEW c \in Sitios, Traslada(Sitio, Sitio', a, c), UNCHANGED <<listaPcb, proximo>>
  PROVE  /\ Head(Sitio[a]) \in Pids /\ Contiene(Sitio[a], Head(Sitio[a]))
         /\ Ciclo!Pasar(Head(Sitio[a]), Grupo(a), Grupo(c))
<1>1. /\ Sitio \in [Sitios -> Seq(Pids)] /\ Sitio' \in [Sitios -> Seq(Pids)]
      /\ SinRepetir(Sitio) /\ Repartidos(Sitio, listaPcb)
  BY SitioEs, SitioEsP DEF Unico
<1>2. Head(Sitio[a]) \in Pids /\ Head(Sitio[a]) \in listaPcb /\ SeMuda(Sitio, Sitio', a, c, Head(Sitio[a]))
  BY <1>1, TrasladaLleva
<1> PICK x \in Pids : x = Head(Sitio[a])
  BY <1>2
<1>3. EtapaFiel
  BY EtapaEs
<1>4. /\ \A p \in Pids, d \in Sitios : Contiene(Sitio'[d], p) => Etapa(p)' = Grupo(d)
      /\ \A p \in Pids : p \notin listaPcb' => Etapa(p)' = IF p >= proximo' THEN "inexistente" ELSE "liberado"
  BY EtapaEsP
<1>5. Contiene(Sitio[a], x) /\ Contiene(Sitio'[c], x)
  BY <1>2 DEF SeMuda
<1>6. Etapa(x) = Grupo(a) /\ Etapa(x)' = Grupo(c)
  BY <1>2, <1>3, <1>4, <1>5 DEF EtapaFiel
<1>7. ASSUME NEW q \in Pids, q # x PROVE Etapa(q)' = Etapa(q)
  <2>1. CASE q \in listaPcb
    <3>1. PICK d \in Sitios : Contiene(Sitio[d], q)
      BY <1>1, <2>1 DEF Repartidos
    <3>2. Contiene(Sitio'[d], q)
      BY <1>2, <1>7, <3>1 DEF SeMuda
    <3> QED BY <1>3, <1>4, <3>1, <3>2 DEF EtapaFiel
  <2>2. CASE q \notin listaPcb
    <3>1. Etapa(q) = IF q >= proximo THEN "inexistente" ELSE "liberado"
      BY <1>3, <2>2 DEF EtapaFiel
    <3>2. Etapa(q)' = IF q >= proximo' THEN "inexistente" ELSE "liberado"
      BY <1>4, <2>2
    <3> QED BY <3>1, <3>2
  <2> QED BY <2>1, <2>2
<1>8. Ciclo!Pasar(x, Grupo(a), Grupo(c))
  BY <1>2, <1>6, <1>7, EtapaPasa
<1> QED BY <1>5, <1>8

\* Who executes, who is in NEW and who counts for the degree, in the life cycle's terms.
LEMMA EtapaConjuntos ==
  ASSUME ITipo, ManoExit, Unico
  PROVE  /\ Ciclo!Admitidos = Adentro(Sitio)
         /\ Sitio["exec"] = <<>> /\ Sitio["corto"] = <<>> => Ciclo!En("ejecutando") = {}
         /\ \A q \in Ciclo!En("nuevo") : Contiene(cola["new"], q)
         /\ Ciclo!Procesos = Pids /\ \A e : Ciclo!En(e) = {p \in Pids : Etapa(p) = e}
<1> USE SitiosSon, Distintos
<1>1. EtapaFiel
  BY EtapaEs
<1>2. \A e : Ciclo!En(e) = {p \in Pids : Etapa(p) = e}
  BY DEF Ciclo!En, Ciclo!Procesos, Pids
<1>3. \A p \in Pids : p \in listaPcb <=> \E d \in Sitios : Contiene(Sitio[d], p)
  BY DEF Unico, Repartidos
<1>4. \A p \in Pids : \/ Etapa(p) \in {"inexistente", "liberado"} /\ \A d \in Sitios : ~ Contiene(Sitio[d], p)
                      \/ \E d \in Sitios : Contiene(Sitio[d], p) /\ Etapa(p) = Grupo(d)
  BY <1>1, <1>3 DEF EtapaFiel
<1>5. \A d \in Sitios : /\ Grupo(d) \in {"nuevo", "listo", "ejecutando", "bloqueado", "terminado"}
                        /\ Grupo(d) \in {"listo", "ejecutando", "bloqueado"} <=> d \notin Afuera
                        /\ Grupo(d) = "ejecutando" <=> d \in {"exec", "corto"}
                        /\ Grupo(d) = "nuevo" <=> d = "new"
  BY DEF Grupo, Afuera, LIBRE
<1>6. \A p \in Pids, d \in Sitios : Contiene(Sitio[d], p) => Etapa(p) = Grupo(d)
  BY <1>1 DEF EtapaFiel
<1>7. Ciclo!Admitidos = Adentro(Sitio)
  <2>1. \A p \in Pids : Etapa(p) \in {"listo", "ejecutando", "bloqueado"}
                        <=> \E d \in Sitios : d \notin Afuera /\ Contiene(Sitio[d], p)
    BY <1>4, <1>5, <1>6
  <2>2. Ciclo!Admitidos = {p \in Pids : Etapa(p) \in {"listo", "ejecutando", "bloqueado"}}
    BY <1>2 DEF Ciclo!Admitidos
  <2> QED BY <2>1, <2>2 DEF Adentro
<1>8. ASSUME Sitio["exec"] = <<>>, Sitio["corto"] = <<>> PROVE Ciclo!En("ejecutando") = {}
  <2>1. \A p : ~ Contiene(Sitio["exec"], p) /\ ~ Contiene(Sitio["corto"], p)
    <3>1. Len(Sitio["exec"]) = 0 /\ Len(Sitio["corto"]) = 0
      BY <1>8
    <3> QED BY <3>1 DEF Contiene
  <2>2. \A p \in Pids : Etapa(p) # "ejecutando"
    BY <1>4, <1>5, <2>1
  <2> QED BY <1>2, <2>2
<1>9. ASSUME NEW q \in Ciclo!En("nuevo") PROVE Contiene(cola["new"], q)
  <2>1. q \in Pids /\ Etapa(q) = "nuevo"
    BY <1>2, <1>9
  <2>2. Contiene(Sitio["new"], q)
    BY <1>4, <1>5, <2>1
  <2> QED BY <2>2, SitioEs DEF Colas
<1>10. Ciclo!Procesos = Pids
  BY DEF Ciclo!Procesos, Pids
<1> QED BY <1>2, <1>7, <1>8, <1>9, <1>10

\* manejar_new takes the oldest of NEW, and there is room for it.
LEMMA PasoAdmite ==
  ASSUME ITipo, ManoExit, Unico, EnOrden, GradoFijo, pc["new"] = "saca", Sitio["new"] # <<>>
  PROVE  /\ \A q \in Ciclo!En("nuevo") : Head(Sitio["new"]) <= q
         /\ Cardinality(Ciclo!Admitidos) < Grado
<1> USE TotalTipo
<1>1. Sitio["new"] = cola["new"] /\ cola["new"] \in Seq(Pids) /\ "new" \in Colas
  BY SitioEs, LargoTipo DEF Colas
<1>2. ASSUME NEW q \in Ciclo!En("nuevo") PROVE Head(cola["new"]) <= q
  <2>1. PICK k \in 1 .. Len(cola["new"]) : cola["new"][k] = q
    BY <1>2, EtapaConjuntos DEF Contiene
  <2>2. /\ Head(cola["new"]) = cola["new"][1] /\ 1 \in 1 .. Len(cola["new"]) /\ k \in Int /\ k >= 1
        /\ cola["new"][1] \in Pids /\ cola["new"][k] \in Pids /\ \A p \in Pids : p \in Int
    <3>1. \A p \in Pids : p \in Int
      BY TamanosAssumption DEF Pids
    <3> QED BY <1>1, <2>1, <3>1
  <2>3. CASE k = 1
    BY <2>1, <2>2, <2>3
  <2>4. CASE 1 < k
    <3>1. cola["new"][1] < cola["new"][k]
      BY <2>1, <2>2, <2>4 DEF EnOrden
    <3> QED BY <2>1, <2>2, <3>1
  <2> QED BY <2>2, <2>3, <2>4
<1>3. Cardinality(Adentro(Sitio)) < Grado
  <2>1. Uno(pc["new"] \in {"permiso", "saca"}) = 1
    BY DEF Uno
  <2>2. Total = Grado
    BY DEF GradoFijo
  <2> QED BY <2>1, <2>2 DEF Total
<1>4. Ciclo!Admitidos = Adentro(Sitio)
  BY EtapaConjuntos
<1> QED BY <1>1, <1>2, <1>3, <1>4

\* Every step of a running kernel is a step of the life cycle, or moves nobody in it.
LEMMA CicloPaso ==
  ASSUME ITipo, ManoExit, ITipo', ManoExit', ~ Finaliza, LugarConsola, Ejecuta, Atendido,
         Unico, EnOrden, Unico', GradoFijo, PasoVivo
  PROVE  Ciclo!Next \/ [p \in Pids |-> Etapa(p)]' = [p \in Pids |-> Etapa(p)]
<1> USE SitiosSon, Distintos
<1> DEFINE Bien == Ciclo!Next \/ [p \in Pids |-> Etapa(p)]' = [p \in Pids |-> Etapa(p)]
<1> SUFFICES Bien
  OBVIOUS
<1>0. EtapaFiel /\ listaPcb \subseteq Pids /\ Ciclo!Procesos = Pids
  BY EtapaEs, EtapaConjuntos DEF ITipo, TypeOK, TipoPcb
<1>1. /\ \A p \in Pids, d \in Sitios : Contiene(Sitio'[d], p) => Etapa(p)' = Grupo(d)
      /\ \A p \in Pids : p \notin listaPcb' => Etapa(p)' = IF p >= proximo' THEN "inexistente" ELSE "liberado"
  BY EtapaEsP
<1>2. \A p \in Pids : p \in listaPcb <=> \E d \in Sitios : Contiene(Sitio[d], p)
  BY DEF Unico, Repartidos
<1>3. \A p \in Pids : /\ p \in Int /\ proximo \in Int
                      /\ p \in listaPcb => p < proximo
  BY TamanosAssumption DEF Unico, Pids, ITipo, TypeOK, TipoPcb
<1>4. \A d \in Sitios : Grupo(d) # "inexistente"
  BY DEF Grupo
<1>5. CASE Sitio' = Sitio /\ UNCHANGED <<listaPcb, proximo>>
  <2>1. ASSUME NEW q \in Pids PROVE Etapa(q)' = Etapa(q)
    <3>1. CASE q \in listaPcb
      <4>1. PICK d \in Sitios : Contiene(Sitio[d], q)
        BY <1>2, <3>1
      <4>2. Contiene(Sitio'[d], q)
        BY <1>5, <4>1
      <4> QED BY <1>0, <1>1, <4>1, <4>2 DEF EtapaFiel
    <3>2. CASE q \notin listaPcb
      <4>1. Etapa(q) = IF q >= proximo THEN "inexistente" ELSE "liberado"
        BY <1>0, <3>2 DEF EtapaFiel
      <4>2. Etapa(q)' = IF q >= proximo' THEN "inexistente" ELSE "liberado"
        BY <1>1, <1>5, <3>2
      <4> QED BY <1>5, <4>1, <4>2
    <3> QED BY <3>1, <3>2
  <2> QED BY <2>1, EtapaQueda
<1>6. ASSUME NEW a \in Sitios, NEW c \in Sitios, Mudan(a, c), Traslada(Sitio, Sitio', a, c),
             UNCHANGED <<listaPcb, proximo>>
      PROVE  Bien
  <2>1. PICK x \in Pids : x = Head(Sitio[a])
    BY <1>6, EtapaMuda
  <2>2. Contiene(Sitio[a], x) /\ Ciclo!Pasar(x, Grupo(a), Grupo(c)) /\ x \in Ciclo!Procesos
    BY <1>0, <1>6, <2>1, EtapaMuda
  <2>3. CASE a = "new"
    <3>1. c = "ready" /\ pc["new"] = "saca" /\ Sitio["new"] # <<>>
      BY <1>6, <2>3 DEF Mudan, LIBRE, Traslada
    <3>2. Ciclo!Pasar(x, "nuevo", "listo")
      BY <2>2, <2>3, <3>1 DEF Grupo
    <3>3. /\ \A q \in Ciclo!En("nuevo") : Head(Sitio["new"]) <= q
          /\ Cardinality(Ciclo!Admitidos) < Grado
      BY <3>1, PasoAdmite
    <3>4. /\ \A q \in Ciclo!En("nuevo") : x <= q
          /\ Cardinality(Ciclo!Admitidos) < Grado
      <4>1. Head(Sitio["new"]) = x
        BY <2>1, <2>3
      <4> QED BY <3>3, <4>1
    <3>5. Ciclo!Cardinality(Ciclo!Admitidos) = Cardinality(Ciclo!Admitidos)
      BY Zenon DEF Ciclo!Cardinality, Cardinality
    <3>6. Ciclo!Admitir(x)
      BY <3>2, <3>4, <3>5 DEF Ciclo!Admitir
    <3> QED BY <2>2, <3>6 DEF Ciclo!Next
  <2>4. CASE a = "exit"
    <3>1. Grupo(a) = "terminado" /\ Grupo(c) = "terminado"
      BY <1>6, <2>4 DEF Mudan, Grupo, LIBRE
    <3> QED BY <2>2, <3>1 DEF Ciclo!Pasar
  <2>5. CASE a \in Recursos \cup Interfaces
    <3>1. Grupo(a) = "bloqueado" /\ Grupo(c) = "listo"
      BY <1>6, <2>5 DEF Mudan, Grupo, LIBRE
    <3> QED BY <2>2, <3>1 DEF Ciclo!Next, Ciclo!Despertar
  <2>6. CASE a \in {"ready", "aux"}
    <3>1. c = "exec" /\ cola["exec"] = <<>> /\ ~ Llamando
      BY <1>6, <2>6 DEF Mudan, LIBRE
    <3>2. Grupo(a) = "listo" /\ Grupo(c) = "ejecutando"
      BY <2>6, <3>1 DEF Grupo, LIBRE
    <3>3. Sitio["exec"] = <<>> /\ Sitio["corto"] = <<>>
      BY <3>1, SitioEs DEF Colas
    <3>4. Ciclo!En("ejecutando") = {}
      BY <3>3, EtapaConjuntos
    <3> QED BY <2>2, <3>2, <3>4 DEF Ciclo!Next, Ciclo!Despachar
  <2>7. CASE a \in {"exec", "corto"}
    <3>1. Grupo(a) = "ejecutando"
      BY <2>7 DEF Grupo, LIBRE
    <3>2. CASE c \in {"exec", "corto"}
      <4>1. Grupo(c) = "ejecutando"
        BY <3>2 DEF Grupo, LIBRE
      <4> QED BY <2>2, <3>1, <4>1 DEF Ciclo!Pasar
    <3>3. CASE c = "ready"
      <4>1. Grupo(c) = "listo"
        BY <3>3 DEF Grupo, LIBRE
      <4> QED BY <2>2, <3>1, <4>1 DEF Ciclo!Next, Ciclo!Desalojar
    <3>4. CASE c = "exit"
      <4>1. Grupo(c) = "terminado"
        BY <3>4 DEF Grupo, LIBRE
      <4> QED BY <2>2, <3>1, <4>1 DEF Ciclo!Next, Ciclo!Terminar
    <3>5. CASE c \in Recursos \cup Interfaces
      <4>1. Grupo(c) = "bloqueado"
        BY <3>5 DEF Grupo, LIBRE
      <4> QED BY <2>2, <3>1, <4>1 DEF Ciclo!Next, Ciclo!Bloquear
    <3>6. c \in {"exec", "corto", "ready", "exit"} \cup Recursos \cup Interfaces
      BY <1>6, <2>7 DEF Mudan, LIBRE
    <3> QED BY <3>2, <3>3, <3>4, <3>5, <3>6
  <2>8. a \in {"new", "exit", "ready", "aux", "exec", "corto"} \cup Recursos \cup Interfaces
    BY <1>6 DEF Mudan
  <2> QED BY <2>3, <2>4, <2>5, <2>6, <2>7, <2>8
<1>7. ASSUME Sitio'["new"] = Append(Sitio["new"], proximo), \A d \in Sitios : d # "new" => Sitio'[d] = Sitio[d],
             proximo \in Pids, proximo' = proximo + 1, listaPcb' = listaPcb \cup {proximo}
      PROVE  Bien
  <2>1. PICK x \in Pids : x = proximo
    BY <1>7
  <2>2. /\ "new" \in Sitios /\ Sitio["new"] \in Seq(Pids)
        /\ Len(Sitio["new"]) \in Nat /\ Len(Sitio'["new"]) = Len(Sitio["new"]) + 1
        /\ Sitio'["new"][Len(Sitio["new"]) + 1] = x
        /\ \A k \in 1 .. Len(Sitio["new"]) : Sitio'["new"][k] = Sitio["new"][k]
    <3>1. "new" \in Sitios /\ Sitio["new"] \in Seq(Pids)
      BY SitioEs DEF Colas
    <3> QED BY <1>7, <2>1, <3>1, ColaYMas
  <2>3. Etapa(x)' = "nuevo"
    <3>1. Contiene(Sitio'["new"], x)
      BY <2>2 DEF Contiene
    <3> QED BY <1>1, <2>2, <3>1 DEF Grupo
  <2>4. Etapa(x) = "inexistente"
    <3>1. x \notin listaPcb /\ x >= proximo
      BY <1>3, <2>1
    <3> QED BY <1>0, <3>1 DEF EtapaFiel
  <2>5. ASSUME NEW q \in Pids, q # x PROVE Etapa(q)' = Etapa(q)
    <3>1. CASE q \in listaPcb
      <4>1. PICK d \in Sitios : Contiene(Sitio[d], q)
        BY <1>2, <3>1
      <4>2. Contiene(Sitio'[d], q)
        <5>1. CASE d = "new"
          <6>1. PICK k \in 1 .. Len(Sitio["new"]) : Sitio["new"][k] = q
            BY <4>1, <5>1 DEF Contiene
          <6>2. k \in 1 .. Len(Sitio'["new"]) /\ Sitio'["new"][k] = q
            BY <2>2, <6>1
          <6> QED BY <5>1, <6>2 DEF Contiene
        <5>2. CASE d # "new"
          <6>1. Sitio'[d] = Sitio[d]
            BY <1>7, <5>2
          <6> QED BY <4>1, <6>1 DEF Contiene
        <5> QED BY <5>1, <5>2
      <4> QED BY <1>0, <1>1, <4>1, <4>2 DEF EtapaFiel
    <3>2. CASE q \notin listaPcb
      <4>1. Etapa(q) = IF q >= proximo THEN "inexistente" ELSE "liberado"
        BY <1>0, <3>2 DEF EtapaFiel
      <4>2. Etapa(q)' = IF q >= proximo' THEN "inexistente" ELSE "liberado"
        BY <1>1, <1>7, <2>1, <2>5, <3>2
      <4>3. q >= proximo <=> q >= proximo + 1
        BY <1>3, <2>1, <2>5
      <4> QED BY <1>7, <4>1, <4>2, <4>3
    <3> QED BY <3>1, <3>2
  <2>6. ASSUME NEW q \in 0 .. x - 1 PROVE Etapa(q) # "inexistente" /\ q \in Pids
    <3>1. q \in Pids /\ ~ (q >= proximo)
      BY <1>3, <2>1, TamanosAssumption DEF Pids
    <3>2. CASE q \in listaPcb
      <4>1. PICK d \in Sitios : Contiene(Sitio[d], q)
        BY <1>2, <3>1, <3>2
      <4> QED BY <1>0, <1>4, <3>1, <4>1 DEF EtapaFiel
    <3>3. CASE q \notin listaPcb
      BY <1>0, <3>1, <3>3 DEF EtapaFiel
    <3> QED BY <3>1, <3>2, <3>3
  <2>7. Ciclo!Pasar(x, "inexistente", "nuevo")
    BY <2>3, <2>4, <2>5, EtapaPasa
  <2>8. Ciclo!Crear(x)
    BY <2>6, <2>7 DEF Ciclo!Crear
  <2> QED BY <1>0, <2>8 DEF Ciclo!Next
<1>8. ASSUME mano["exit"] \in Pids, Sitio[LIBRE] = <<mano["exit"]>>, Sitio'[LIBRE] = <<>>,
             \A d \in Sitios : d # LIBRE => Sitio'[d] = Sitio[d],
             listaPcb' = listaPcb \ {mano["exit"]}, UNCHANGED proximo
      PROVE  Bien
  <2>1. PICK x \in Pids : x = mano["exit"]
    BY <1>8
  <2>2. Contiene(Sitio[LIBRE], x) /\ \A q : Contiene(Sitio[LIBRE], q) => q = x
    BY <1>8, <2>1 DEF Contiene
  <2>3. Etapa(x) = "terminado" /\ x \in listaPcb
    <3>1. Grupo(LIBRE) = "terminado"
      BY DEF Grupo, LIBRE
    <3> QED BY <1>0, <1>2, <2>2, <3>1 DEF EtapaFiel
  <2>4. Etapa(x)' = "liberado"
    <3>1. x \notin listaPcb' /\ ~ (x >= proximo')
      BY <1>3, <1>8, <2>1, <2>3
    <3> QED BY <1>1, <3>1
  <2>5. ASSUME NEW q \in Pids, q # x PROVE Etapa(q)' = Etapa(q)
    <3>1. CASE q \in listaPcb
      <4>1. PICK d \in Sitios : Contiene(Sitio[d], q)
        BY <1>2, <3>1
      <4>2. Contiene(Sitio'[d], q)
        BY <1>8, <2>2, <2>5, <4>1
      <4> QED BY <1>0, <1>1, <4>1, <4>2 DEF EtapaFiel
    <3>2. CASE q \notin listaPcb
      <4>1. Etapa(q) = IF q >= proximo THEN "inexistente" ELSE "liberado"
        BY <1>0, <3>2 DEF EtapaFiel
      <4>2. Etapa(q)' = IF q >= proximo' THEN "inexistente" ELSE "liberado"
        BY <1>1, <1>8, <3>2
      <4> QED BY <1>8, <4>1, <4>2
    <3> QED BY <3>1, <3>2
  <2>6. Ciclo!Pasar(x, "terminado", "liberado")
    BY <2>3, <2>4, <2>5, EtapaPasa
  <2> QED BY <1>0, <2>6 DEF Ciclo!Next, Ciclo!Liberar
<1> HIDE DEF Bien
<1> QED BY <1>5, <1>6, <1>7, <1>8, SitioPaso

\* At the start nobody exists.
LEMMA InitCiclo == Init /\ ITipo => Ciclo!Init
<1> SUFFICES ASSUME Init, ITipo PROVE Ciclo!Init
  OBVIOUS
<1>1. \A p \in Pids : Etapa(p) = "inexistente"
  <2>1. proximo = 0 /\ \A p \in Pids : p >= 0
    BY TamanosAssumption DEF Init, Pids
  <2> QED BY <2>1 DEF Etapa
<1> QED BY <1>1 DEF Ciclo!Init, Ciclo!Procesos, Pids

\* Without FINALIZAR_PROCESO and MULTIPROGRAMACION the kernel implements the life cycle,
\* for any number of processes, resources and interfaces and any algorithm: one process
\* executes, nobody skips a state, NEW is served in order and within the degree.
THEOREM ElKernelCumpleElCiclo == ~ Finaliza /\ ~ CambiaGrado => (Spec => ImplementaCicloDeVida)
<1> SUFFICES ASSUME ~ Finaliza, ~ CambiaGrado PROVE Spec => ImplementaCicloDeVida
  OBVIOUS
<1>1. Init /\ ITipo => Ciclo!Init
  BY InitCiclo
<1>2. /\ IRecursos /\ IRecursos' /\ Exacto /\ Unico /\ EnOrden /\ Unico' /\ GradoFijo /\ [Next]_vars
      => [Ciclo!Next]_[p \in Pids |-> Etapa(p)]
  <2> SUFFICES ASSUME IRecursos, IRecursos', Exacto, Unico, EnOrden, Unico', GradoFijo, [Next]_vars
               PROVE  Ciclo!Next \/ [p \in Pids |-> Etapa(p)]' = [p \in Pids |-> Etapa(p)]
    OBVIOUS
  <2>1. PasoVivo \/ Muerto
    BY Pasos DEF IRecursos, IFrenos
  <2>2. CASE Muerto
    BY <2>2 DEF Muerto, Etapa, EnSyscall, Contiene
  <2> QED BY <2>1, <2>2, CicloPaso DEF IRecursos, Exacto
<1>3. Spec => []Exacto
  BY ExactoInvariante
<1>4. Spec => [](Unico /\ EnOrden)
  BY UnicoInvariante
<1>5. Spec => []GradoFijo
  BY GradoInvariante
<1> QED BY <1>1, <1>2, <1>3, <1>4, <1>5, TipoInvariante, RecursosInvariante, PTL
       DEF Spec, ImplementaCicloDeVida, Ciclo!Spec

(***************************************************************************)
(* The programs of the run only exit or run out of memory, and nobody is   *)
(* ended by the user: manejar_new is the only one that pushes to READY.    *)
(***************************************************************************)
Corta == Salidas \subseteq {"FIN_EXITOSO", "OUT_OF_MEMORY"}

\* The queues a thread then pushes to: each has one pusher.
Suyas(h) ==
  CASE h = "new" -> {"ready"}
    [] h = "corto" -> {"exec", "exit"}
    [] h = "consola" -> {"new"}
    [] OTHER -> {}

\* p is the last of c.
AlFinal(c, p) == cola[c] # <<>> /\ cola[c][Len(cola[c])] = p

\* Who is being pushed is still in the queue, at its end.
Ultimo ==
  \A h \in Hilos : empuje[h] # NADA => /\ empuje[h].cola \in Suyas(h)
                                       /\ AlFinal(empuje[h].cola, empuje[h].pid)

\* Nobody blocks, and the planner never keeps a process that is in no queue.
SinBloquear ==
  /\ \A c \in Recursos \cup Interfaces \cup {"aux"} : cola[c] = <<>>
  /\ ~ Llamando
  /\ pc["corto"] = "maneja" => contexto.motivo \notin {"BLOQUEO_IO", "BLOQUEO_RECURSO", "FIN_QUANTUM"}

Corto == Ultimo /\ SinBloquear

\* Nobody has begun a push to c, or its process is not the first.
Queda(c) == \A h \in Hilos : empuje[h] # NADA /\ empuje[h].cola = c => Len(cola[c]) >= 2

\* One pusher per queue.
LEMMA SuyasDeUno ==
  ASSUME NEW h \in Hilos, NEW g \in Hilos, NEW c, c \in Suyas(h), c \in Suyas(g)
  PROVE  h = g
BY Nombres DEF Suyas

\* The one at the end stays there when the first is popped, if it is another.
LEMMA FinalCola ==
  ASSUME NEW s \in Seq(Pids), Len(s) >= 2
  PROVE  Tail(s) # <<>> /\ Tail(s)[Len(Tail(s))] = s[Len(s)]
<1>1. /\ Len(s) \in Nat /\ Tail(s) \in Seq(Pids) /\ Len(Tail(s)) = Len(s) - 1
      /\ \A k \in 1 .. Len(s) - 1 : Tail(s)[k] = s[k + 1]
  OBVIOUS
<1>2. Len(s) - 1 \in 1 .. Len(s) - 1 /\ (Len(s) - 1) + 1 = Len(s)
  BY <1>1
<1>3. Tail(s)[Len(s) - 1] = s[Len(s)]
  BY <1>1, <1>2
<1>4. Len(Tail(s)) # 0
  BY <1>1
<1>5. Tail(s) # <<>>
  BY <1>1, <1>4, EmptySeq
<1> QED BY <1>1, <1>3, <1>5

\* Who is pushed is at the end.
LEMMA FinalMas ==
  ASSUME NEW s \in Seq(Pids), NEW p \in Pids
  PROVE  Append(s, p) # <<>> /\ Append(s, p)[Len(Append(s, p))] = p
OBVIOUS

\* A step that begins at most one push, to a queue of its own, and pops at most one queue.
LEMMA UltimoPaso ==
  ASSUME ITipo, Ultimo,
         \/ UNCHANGED <<cola, empuje>>
         \/ \E h \in Hilos : \E c \in Suyas(h) : \E p : Pone(h, c, p)
         \/ \E h \in Hilos : \E c \in Suyas(h) : \E a \in Colas : Pasa(h, a, c) /\ Queda(a)
         \/ \E a \in Colas : Retira(a) /\ Queda(a)
  PROVE  Ultimo'
<1>0. \A c \in Colas : cola[c] \in Seq(Pids)
  BY LargoTipo
<1>1. \A h \in Hilos : empuje[h] # NADA => empuje[h].cola \in Colas /\ empuje[h].pid \in Pids
  BY DEF ITipo, TypeOK, TipoDatos, Empujes
<1> DEFINE Fin(g) == /\ empuje'[g].cola \in Suyas(g)
                     /\ cola'[empuje'[g].cola] # <<>>
                     /\ cola'[empuje'[g].cola][Len(cola'[empuje'[g].cola])] = empuje'[g].pid
<1> SUFFICES ASSUME NEW g \in Hilos, empuje'[g] # NADA PROVE Fin(g)
  BY DEF Ultimo, AlFinal
<1>2. ASSUME empuje'[g] = empuje[g], cola'[empuje[g].cola] = cola[empuje[g].cola] PROVE Fin(g)
  BY <1>2 DEF Ultimo, AlFinal
<1>3. ASSUME empuje'[g] = empuje[g], NEW a \in Colas, empuje[g].cola = a, Queda(a),
             cola'[a] = Tail(cola[a])
      PROVE  Fin(g)
  <2>1. Len(cola[a]) >= 2 /\ a \in Suyas(g) /\ cola[a][Len(cola[a])] = empuje[g].pid
    BY <1>3 DEF Queda, Ultimo, AlFinal
  <2>2. cola'[a] # <<>> /\ cola'[a][Len(cola'[a])] = empuje[g].pid
    BY <1>0, <1>3, <2>1, FinalCola
  <2> QED BY <1>3, <2>1, <2>2
<1>4. ASSUME NEW h \in Hilos, NEW c \in Colas, NEW p \in Pids, c \in Suyas(h), Comienza(h, c, p),
             cola'[c] = Append(cola[c], p),
             \A d \in Colas : d # c => cola'[d] = cola[d] \/ (Queda(d) /\ cola'[d] = Tail(cola[d]))
      PROVE  Fin(g)
  <2>1. CASE g = h
    <3>1. empuje'[g].cola = c /\ empuje'[g].pid = p
      BY <1>4, <2>1 DEF Comienza
    <3>2. cola'[c] # <<>> /\ cola'[c][Len(cola'[c])] = p
      BY <1>0, <1>4, FinalMas
    <3> QED BY <1>4, <2>1, <3>1, <3>2
  <2>2. CASE g # h
    <3>1. empuje'[g] = empuje[g]
      BY <1>4, <2>2 DEF Comienza
    <3>2. empuje[g].cola \in Suyas(g) /\ empuje[g].cola \in Colas
      BY <1>1, <3>1 DEF Ultimo
    <3>3. empuje[g].cola # c
      BY <1>4, <2>2, <3>2, SuyasDeUno
    <3> QED BY <1>2, <1>3, <1>4, <3>1, <3>2, <3>3
  <2> QED BY <2>1, <2>2
<1>5. CASE UNCHANGED <<cola, empuje>>
  BY <1>2, <1>5
<1> HIDE DEF Fin
<1>6. ASSUME NEW h \in Hilos, NEW c \in Suyas(h), NEW p, Pone(h, c, p) PROVE Fin(g)
  <2>1. c \in Colas /\ p \in Pids /\ Comienza(h, c, p) /\ cola'[c] = Append(cola[c], p)
    BY <1>6 DEF Pone
  <2>2. ASSUME NEW d \in Colas, d # c PROVE cola'[d] = cola[d]
    BY <1>6, <2>2 DEF Pone
  <2> QED BY <1>4, <1>6, <2>1, <2>2
<1>7. ASSUME NEW h \in Hilos, NEW c \in Suyas(h), NEW a \in Colas, Pasa(h, a, c), Queda(a) PROVE Fin(g)
  <2>1. c \in Colas /\ Comienza(h, c, Head(cola[a])) /\ cola'[c] = Append(cola[c], Head(cola[a]))
    BY <1>7 DEF Pasa
  <2>3. ASSUME NEW d \in Colas, d # c PROVE cola'[d] = cola[d] \/ (Queda(d) /\ cola'[d] = Tail(cola[d]))
    <3>1. CASE d = a
      BY <1>7, <3>1 DEF Pasa
    <3>2. CASE d # a
      BY <1>7, <2>3, <3>2 DEF Pasa
    <3> QED BY <3>1, <3>2
  <2>2. Head(cola[a]) \in Pids
    BY <1>0, <1>7 DEF Pasa
  <2> QED BY <1>4, <1>7, <2>1, <2>2, <2>3
<1>8. ASSUME NEW a \in Colas, Retira(a), Queda(a) PROVE Fin(g)
  <2>1. empuje'[g] = empuje[g] /\ empuje[g].cola \in Colas
    BY <1>1, <1>8 DEF Retira
  <2>2. cola'[a] = Tail(cola[a]) /\ \A d \in Colas : d # a => cola'[d] = cola[d]
    BY <1>8 DEF Retira
  <2> QED BY <1>2, <1>3, <1>8, <2>1, <2>2
<1> QED BY <1>5, <1>6, <1>7, <1>8

\* With exact permits, a queue about to be popped holds somebody besides the one being pushed.
LEMMA QuedaEs ==
  ASSUME ITipo, PermisosExactos, cola["aux"] = <<>>, NEW c \in ConPermiso, sem[c] > 0 \/ Tomado(c) = 1
  PROVE  Queda(c)
<1> SUFFICES ASSUME NEW h \in Hilos, empuje[h] # NADA, empuje[h].cola = c PROVE Len(cola[c]) >= 2
  BY DEF Queda
<1>1. sem[c] \in Nat /\ Tomado(c) \in {0, 1} /\ EnCamino(c) \in Nat /\ Largo(c) \in Nat /\ c # "aux" /\ c \in Colas
      /\ cola[c] \in Seq(Pids)
  BY LargoTipo
<1>2. EnCamino(c) # 0
  <2> DEFINE S == {g \in Hilos : PermisoDe(empuje[g].cola) = c}
  <2>1. h \in S
    BY <1>1 DEF PermisoDe
  <2>2. IsFiniteSet(S) /\ EnCamino(c) = Cardinality(S)
    BY EnCaminoTipo DEF EnCamino
  <2> HIDE DEF S
  <2> QED BY <2>1, <2>2, FS_EmptySet
<1>3. sem[c] + Tomado(c) + EnCamino(c) + SinPermiso(c) = Largo(c) /\ SinPermiso(c) \in Nat
  BY SinPermisoTipo DEF PermisosExactos
<1>4. Largo(c) >= 2
  BY <1>1, <1>2, <1>3
<1>5. Largo(c) = Len(cola[c])
  <2>1. CASE c = "ready"
    <3>1. Len(cola["aux"]) = 0 /\ Len(cola["ready"]) \in Nat
      BY <1>1, <2>1
    <3> QED BY <2>1, <3>1 DEF Largo
  <2> QED BY <2>1 DEF Largo
<1> QED BY <1>4, <1>5

\* What a step then does to the queues: at most one push, to a queue of its own, and at most
\* one pop, of a queue where whoever is being pushed stays.
Limpio ==
  \/ UNCHANGED <<cola, empuje>>
  \/ \E h \in Hilos : \E c \in Suyas(h) : \E p : Pone(h, c, p)
  \/ \E h \in Hilos : \E c \in Suyas(h) : \E a \in Colas : Pasa(h, a, c) /\ Queda(a)
  \/ \E a \in Colas : Retira(a) /\ Queda(a)

\* Where the planner is after it, with the answer of the CPU.
CortoLibre ==
  /\ ~ Llamando'
  /\ pc'["corto"] = "maneja" => contexto'.motivo \notin {"BLOQUEO_IO", "BLOQUEO_RECURSO", "FIN_QUANTUM"}

\* Such a step keeps Corto.
LEMMA CortoLimpio ==
  ASSUME ITipo, Corto, Limpio, CortoLibre
  PROVE  Corto'
<1> USE Nombres, Distintos
<1>1. Ultimo'
  BY UltimoPaso DEF Corto, Limpio
<1>2. ASSUME NEW b \in Recursos \cup Interfaces \cup {"aux"} PROVE cola'[b] = <<>>
  <2>1. b \in Colas /\ cola[b] = <<>> /\ b \notin {"new", "ready", "exec", "exit"}
    BY <1>2 DEF Corto, SinBloquear
  <2>2. \A h \in Hilos : Suyas(h) \subseteq {"new", "ready", "exec", "exit"}
    BY DEF Suyas
  <2>3. ASSUME NEW h \in Hilos, NEW c \in Suyas(h), NEW p, Pone(h, c, p) PROVE cola'[b] = <<>>
    BY <2>1, <2>2, <2>3 DEF Pone
  <2>4. ASSUME NEW h \in Hilos, NEW c \in Suyas(h), NEW a \in Colas, Pasa(h, a, c) PROVE cola'[b] = <<>>
    BY <2>1, <2>2, <2>4 DEF Pasa
  <2>5. ASSUME NEW a \in Colas, Retira(a) PROVE cola'[b] = <<>>
    BY <2>1, <2>5 DEF Retira
  <2> QED BY <2>1, <2>3, <2>4, <2>5 DEF Limpio
<1> QED BY <1>1, <1>2 DEF Corto, SinBloquear, CortoLibre

\* The planner does not move and reads no new answer.
LEMMA CortoIgual ==
  ASSUME Corto, pc'["corto"] = pc["corto"], contexto' = contexto
  PROVE  CortoLibre
BY DEF Corto, SinBloquear, CortoLibre, Llamando

\* manejar_new, manejar_exit and the console.
LEMMA CortoOtros ==
  ASSUME ITipo, Exacto, LugarConsola, ~ Finaliza, Corto,
         \/ NewMulti \/ NewPermiso \/ NewListo \/ (NewSaca /\ cola["new"] # <<>>)
         \/ ExitToma \/ ExitFin \/ ExitCuenta \/ \E r \in Recursos : ExitLibera(r)
         \/ ExitSaca /\ cola["exit"] # <<>> /\ Head(cola["exit"]) \in listaPcb
         \/ IniciarProceso \/ Ajeno
  PROVE  Limpio /\ CortoLibre
<1> USE Nombres, Distintos
<1>0. PermisosExactos /\ cola["aux"] = <<>> /\ \A r \in Recursos : cola[r] = <<>>
  BY DEF Exacto, Corto, SinBloquear
<1>1. CASE NewMulti \/ NewPermiso \/ NewListo
  <2>1. UNCHANGED <<cola, empuje>> /\ pc'["corto"] = pc["corto"] /\ contexto' = contexto
    BY <1>1, SNewMulti, SNewPermiso, SNewListo DEF Va
  <2> QED BY <2>1, CortoIgual DEF Limpio
<1>2. CASE NewSaca /\ cola["new"] # <<>>
  <2>1. Pasa("new", "new", "ready") /\ pc'["corto"] = pc["corto"] /\ contexto' = contexto /\ pc["new"] = "saca"
    BY <1>2, SNewSaca DEF Va
  <2>2. Queda("new")
    BY <1>0, <2>1, QuedaEs, TomadoEs DEF Uno
  <2>3. "ready" \in Suyas("new")
    BY DEF Suyas
  <2>4. Limpio
    BY <2>1, <2>2, <2>3 DEF Limpio
  <2> QED BY <2>1, <2>4, CortoIgual
<1>3. CASE ExitToma \/ ExitFin \/ ExitCuenta
  <2>1. UNCHANGED <<cola, empuje>> /\ pc'["corto"] = pc["corto"] /\ contexto' = contexto
    BY <1>3, SExitToma, SExitFin, SExitCuenta DEF Va
  <2> QED BY <2>1, CortoIgual DEF Limpio
<1>4. ASSUME NEW r \in Recursos, ExitLibera(r) PROVE Limpio /\ CortoLibre
  <2>1. UNCHANGED <<cola, empuje>> /\ UNCHANGED <<pc, contexto>>
    BY <1>0, <1>4, SExitLibera, SLiberar DEF Pasa
  <2> QED BY <2>1, CortoIgual DEF Limpio
<1>5. CASE ExitSaca /\ cola["exit"] # <<>> /\ Head(cola["exit"]) \in listaPcb
  <2>1. Retira("exit") /\ sem["exit"] > 0 /\ pc'["corto"] = pc["corto"] /\ contexto' = contexto
    BY <1>5, SExitSaca DEF Va, Espera
  <2>2. Queda("exit")
    BY <1>0, <2>1, QuedaEs
  <2> QED BY <2>1, <2>2, CortoIgual DEF Limpio
<1>6. CASE IniciarProceso
  <2>1. Pone("consola", "new", proximo) /\ UNCHANGED <<pc, contexto>>
    BY <1>6, SIniciarProceso
  <2>2. "new" \in Suyas("consola")
    BY DEF Suyas
  <2>3. Limpio
    BY <2>1, <2>2 DEF Limpio
  <2> QED BY <2>1, <2>3, CortoIgual
<1>7. CASE Ajeno
  <2>1. UNCHANGED <<cola, empuje>> /\ contexto' = contexto /\ pc'["corto"] \in {pc["corto"], "permiso"}
    BY <1>7 DEF Ajeno, Arrancan
  <2> QED BY <2>1, CortoIgual DEF Limpio, CortoLibre, Llamando
<1> QED BY <1>1, <1>2, <1>3, <1>4, <1>5, <1>6, <1>7

\* The planner of short programs: READY to EXEC, EXEC to EXIT.
LEMMA CortoCorto ==
  ASSUME ITipo, Exacto, Corta, ~ Finaliza, Corto,
         \/ Despacha /\ cola[ColaSiguiente] # <<>>
         \/ CpuDevuelve
         \/ ManejaProceso /\ cola["exec"] # <<>> /\ Head(cola["exec"]) \in listaPcb
         \/ Termina \/ Desenrolla \/ EntraRecurso \/ Wait \/ WaitAnota
         \/ Signal \/ SignalLibera \/ SignalSigue
  PROVE  Limpio /\ CortoLibre
<1> USE Nombres, Distintos
<1>0. PermisosExactos /\ cola["aux"] = <<>> /\ ~ Llamando
  BY DEF Exacto, Corto, SinBloquear
<1>1. CASE Despacha /\ cola[ColaSiguiente] # <<>>
  <2>1. ColaSiguiente = "ready"
    BY <1>0 DEF ColaSiguiente
  <2>2. Pasa("corto", "ready", "exec") /\ sem["ready"] > 0 /\ pc'["corto"] = "espera"
    BY <1>1, <2>1, SDespacha DEF Va, Espera
  <2>3. Queda("ready")
    BY <1>0, <2>2, QuedaEs
  <2>4. "exec" \in Suyas("corto")
    BY DEF Suyas
  <2>5. Limpio
    BY <2>2, <2>3, <2>4 DEF Limpio
  <2> QED BY <2>2, <2>5 DEF CortoLibre, Llamando
<1>2. CASE CpuDevuelve
  <2>1. UNCHANGED <<cola, empuje>> /\ pc'["corto"] = "maneja" /\ contexto' \in Retornos(mano["corto"])
    BY <1>2, SCpuDevuelve DEF Va
  <2>2. Salidas \cap {"IO"} = {} /\ Salidas \cap {"WAIT", "SIGNAL"} = {} /\ "FIN_QUANTUM" \notin Salidas
    BY DEF Corta
  <2>3. Llamadas = {}
    BY <2>2 DEF Llamadas
  <2>4. contexto'.motivo \notin {"BLOQUEO_IO", "BLOQUEO_RECURSO", "FIN_QUANTUM"}
    <3>1. contexto' \in Otras(mano["corto"]) \/ contexto' = Interrumpida(mano["corto"])
      BY <2>1, <2>3 DEF Retornos
    <3>2. CASE contexto' \in Otras(mano["corto"])
      <4>1. contexto'.motivo \in Salidas \cap {"FIN_EXITOSO", "OUT_OF_MEMORY", "FIN_QUANTUM"}
        BY <3>2 DEF Otras
      <4> QED BY <2>2, <4>1
    <3>3. CASE contexto' = Interrumpida(mano["corto"])
      BY <3>3 DEF Interrumpida
    <3> QED BY <3>1, <3>2, <3>3
  <2> QED BY <2>1, <2>4 DEF Limpio, CortoLibre, Llamando
<1>3. CASE ManejaProceso /\ cola["exec"] # <<>> /\ Head(cola["exec"]) \in listaPcb
  <2>1. pc["corto"] = "maneja" /\ empuje["corto"] = NADA
    BY <1>3, SManejaProceso
  <2>2. contexto.motivo \notin {"BLOQUEO_IO", "BLOQUEO_RECURSO", "FIN_QUANTUM"}
    BY <2>1 DEF Corto, SinBloquear
  <2>3. ~ EsRecurso(contexto) /\ Destino(contexto) = "exit"
    BY <2>2 DEF EsRecurso, Destino
  <2>4. Pasa("corto", "exec", "exit") /\ pc'["corto"] = "termina"
    BY <1>3, <2>3, SManejaProceso DEF Va
  <2>5. "exec" \in Suyas("corto") /\ "exit" \in Suyas("corto")
    BY DEF Suyas
  <2>6. Queda("exec")
    <3> SUFFICES ASSUME NEW h \in Hilos, empuje[h] # NADA, empuje[h].cola = "exec" PROVE FALSE
      BY DEF Queda
    <3>1. "exec" \in Suyas(h)
      BY DEF Corto, Ultimo
    <3> QED BY <2>1, <2>5, <3>1, SuyasDeUno
  <2>7. Limpio
    BY <2>4, <2>5, <2>6 DEF Limpio
  <2> QED BY <2>4, <2>7 DEF CortoLibre, Llamando
<1>4. CASE Termina \/ Desenrolla
  <2>1. UNCHANGED <<cola, empuje>> /\ pc'["corto"] = "permiso"
    BY <1>4, SVuelve DEF Va
  <2> QED BY <2>1 DEF Limpio, CortoLibre, Llamando
<1>5. CASE EntraRecurso \/ Wait \/ WaitAnota \/ Signal \/ SignalLibera \/ SignalSigue
  BY <1>0, <1>5 DEF Llamando, EntraRecurso, Wait, WaitAnota, Signal, SignalLibera, SignalSigue, Turno
<1> QED BY <1>1, <1>2, <1>3, <1>4, <1>5

\* Every step keeps Corto.
LEMMA CortoPaso ==
  ASSUME ITipo, Exacto, LugarConsola, Corta, ~ Finaliza, Corto, PasoVivo
  PROVE  Corto'
<1> USE Nombres
<1>1. ~ Elimina
  BY DEF Exacto, Elimina, Turno
<1>2. \A i \in Interfaces : ~ (cola[i] # <<>>) /\ ~ IoTermina(i) /\ ~ IoError(i)
  BY DEF Corto, SinBloquear, Exacto, Atendido, IoTermina, IoError, Turno
<1>3. ASSUME NEW h \in Hilos, Publicar(h), empuje[h].pid \in listaPcb PROVE Corto'
  <2>1. /\ empuje'[h] = NADA /\ \A g \in Hilos : g # h => empuje'[g] = empuje[g]
        /\ UNCHANGED <<cola, pc, contexto>>
    BY <1>3, SPublicar
  <2>2. Ultimo'
    BY <2>1 DEF Corto, Ultimo, AlFinal
  <2> QED BY <2>1, <2>2 DEF Corto, SinBloquear, Llamando
<1> QED BY <1>1, <1>2, <1>3, CortoLimpio, CortoOtros, CortoCorto DEF PasoVivo

\* Who is in a queue exists.
LEMMA EnColaVive ==
  ASSUME ITipo, ManoExit, Unico, NEW c \in Colas, cola[c] # <<>>
  PROVE  Head(cola[c]) \in listaPcb /\ cola[c][Len(cola[c])] \in listaPcb
<1> USE SitiosSon
<1>1. cola[c] \in Seq(Pids) /\ Sitio[c] = cola[c] /\ c \in Sitios
  BY SitioEs, LargoTipo
<1>2. Len(cola[c]) \in Nat /\ Len(cola[c]) >= 1 /\ Head(cola[c]) = cola[c][1]
      /\ cola[c][1] \in Pids /\ cola[c][Len(cola[c])] \in Pids
  BY <1>1
<1>3. Contiene(Sitio[c], cola[c][1]) /\ Contiene(Sitio[c], cola[c][Len(cola[c])])
  BY <1>1, <1>2 DEF Contiene
<1> QED BY <1>1, <1>2, <1>3 DEF Unico, Repartidos

\* No thread dies.
LEMMA NadieMuere ==
  ASSUME ITipo, ITipo', ManoExit, ~ Finaliza, Ejecuta, Exacto, Unico, Corto, KernelVivo, [Next]_vars
  PROVE  KernelVivo'
<1> USE Nombres, EnColaVive
<1>1. kernel' \in {"vivo", "indefinido", "recorrido"}
  BY NadieCae DEF ITipo, TypeOK
<1> SUFFICES ASSUME kernel' = "indefinido", kernel' # kernel PROVE FALSE
  BY <1>1 DEF KernelVivo
<1>2. Next
  BY DEF vars
<1>3. pc["consola"] # "elimina"
  BY DEF Exacto
<1>4. CASE PasoNew
  BY <1>4 DEF PasoNew, NewMulti, NewPermiso, NewSaca, NewListo, Muere
<1>5. CASE PasoExit
  BY <1>5 DEF PasoExit, ExitSaca, ExitToma, ExitFin, ExitCuenta, ExitLibera, Muere
<1>6. CASE PasoCorto
  <2>1. CASE Despacha
    BY <2>1 DEF Despacha, Muere
  <2>2. CASE ManejaProceso
    BY <2>2 DEF ManejaProceso, Muere
  <2> QED
    BY <1>6, <2>1, <2>2 DEF PasoCorto, CpuDevuelve, EntraRecurso, Wait, WaitAnota, Signal, SignalLibera,
       SignalSigue, Termina, Desenrolla
<1>7. CASE PasoConsola
  BY <1>3, <1>7 DEF PasoConsola, IniciarProceso, IniciarPlanificacion, DetenerPlanificacion, ProcesoEstado,
     Reanuda, Multiprogramacion, BajaGrado, EsperaGrado, TomaIgnorar, FijaGrado, Elimina, Turno,
     FinalizarProceso, Finaliza
<1>8. ASSUME NEW i \in Interfaces, PasoIo(i) PROVE FALSE
  <2>1. cola[i] = <<>> /\ ~ IoTermina(i) /\ ~ IoError(i) /\ ~ IoDesconexion(i)
    BY DEF Corto, SinBloquear, Exacto, Atendido, IoTermina, IoError, IoDesconexion, Turno
  <2> QED BY <1>8, <2>1 DEF PasoIo, IoToma, Muere
<1>9. ASSUME NEW h \in Hilos, Publicar(h) PROVE FALSE
  <2>1. empuje[h] # NADA
    BY <1>9 DEF Publicar
  <2>2. empuje[h].cola \in Colas /\ AlFinal(empuje[h].cola, empuje[h].pid)
    BY <2>1 DEF Corto, Ultimo, ITipo, TypeOK, TipoDatos, Empujes
  <2>3. empuje[h].pid \in listaPcb
    BY <2>2 DEF AlFinal
  <2> QED BY <1>9, <2>3 DEF Publicar, PublicarPcb, Muere
<1>10. CASE \E f \in Frenos : StopHilo(f)
  BY <1>10 DEF StopHilo
<1>11. CASE RecorridoRoto
  BY <1>11 DEF RecorridoRoto, Muere
<1> QED BY <1>2, <1>4, <1>5, <1>6, <1>7, <1>8, <1>9, <1>10, <1>11 DEF Next

\* It holds at the start.
LEMMA InitCorto ==
  ASSUME Init, ITipo
  PROVE  Corto /\ KernelVivo
<1> USE Nombres, Distintos
<1>1. (\A c \in Colas : cola[c] = <<>>) /\ (\A h \in Hilos : empuje[h] = NADA)
      /\ pc["corto"] = "apagado" /\ kernel = "vivo"
  BY NombresAssumption DEF Init
<1> QED BY <1>1 DEF Corto, Ultimo, SinBloquear, Llamando, KernelVivo

\* While manejar_new is the only one that pushes to READY, no pop gives NULL and no push
\* writes to a PCB that manejar_exit freed: with a permit per process, whoever is popped is
\* never the one whose push is not finished.  The kernel can die only in a walk of a list
\* that it makes without the list's mutex.
THEOREM ElKernelVive == ~ Finaliza /\ Corta => (Spec => []KernelVivo)
<1> SUFFICES ASSUME ~ Finaliza, Corta PROVE Spec => []KernelVivo
  OBVIOUS
<1>1. Init /\ IRecursos => Corto /\ KernelVivo
  BY InitCorto DEF IRecursos
<1>2. IRecursos /\ IRecursos' /\ Exacto /\ Unico /\ Corto /\ KernelVivo /\ [Next]_vars => Corto' /\ KernelVivo'
  <2> SUFFICES ASSUME IRecursos, IRecursos', Exacto, Unico, Corto, KernelVivo, [Next]_vars
               PROVE  Corto' /\ KernelVivo'
    OBVIOUS
  <2>1. PasoVivo \/ Muerto
    BY Pasos DEF IRecursos, IFrenos
  <2>2. KernelVivo'
    BY NadieMuere DEF IRecursos
  <2>3. CASE PasoVivo
    BY <2>2, <2>3, CortoPaso DEF IRecursos
  <2>4. CASE Muerto
    <3>1. Corto'
      BY <2>4 DEF Muerto, Corto, Ultimo, AlFinal, SinBloquear, Llamando
    <3> QED BY <2>2, <3>1
  <2> QED BY <2>1, <2>3, <2>4
<1>3. Spec => [](Unico /\ EnOrden)
  BY UnicoInvariante
<1>4. Spec => []Exacto
  BY ExactoInvariante
<1> QED BY <1>1, <1>2, <1>3, <1>4, RecursosInvariante, PTL DEF Spec
=============================================================================
