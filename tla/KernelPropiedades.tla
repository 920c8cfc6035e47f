------------------------- MODULE KernelPropiedades -------------------------
(***************************************************************************)
(* What the kernel of Kernel.tla must keep true.  Which of these hold      *)
(* depends on the console commands of the run: the README's table says     *)
(* which and why.                                                          *)
(***************************************************************************)
EXTENDS Kernel

Uno(b) == IF b THEN 1 ELSE 0

Empujes == {NADA} \cup [cola : Colas, pid : Pids]

TipoDatos ==
  /\ cola \in [Colas -> Seq(Pids)] /\ empuje \in [Hilos -> Empujes]
  /\ sem \in [ConPermiso -> Nat] /\ estado \in [Pids -> Estados]

TipoPcb ==
  /\ bloqueo \in [Pids -> Bloqueos] /\ queda \in [Pids -> BOOLEAN]
  /\ proximo \in 0 .. N /\ listaPcb \subseteq Pids

TipoGrado == multi \in Nat /\ enMulti \in Int /\ ignorar \in Nat /\ grado \in Nat

TipoPausa ==
  /\ plan \in [Frenos -> Nat] /\ parando \in [Frenos -> Nat]
  /\ existe \in BOOLEAN /\ bloqueado \in BOOLEAN

TipoInterrupcion ==
  hayInterrupcion \in BOOLEAN /\ recibiendo \in BOOLEAN /\ enviadas \subseteq Pids

TipoRecursos == instancias \in [Recursos -> Int] /\ asignados \in [Pids -> [Recursos -> Nat]]

TipoHilos ==
  /\ pc \in [Hilos -> Etiquetas] /\ mano \in [Hilos -> Pids \cup {NADIE}]
  /\ contexto \in Contextos

TipoConsola ==
  /\ orden \in [leido : Estados, nuevo : Nat, esperas : Nat]
  /\ comandos \in 0 .. MaxComandos

TipoHistoria ==
  pedidos \subseteq Pids /\ errores \in [Interfaces -> Nat] /\ desfasado \in BOOLEAN

\* Every variable keeps its type: among others, no semaphore of the kernel goes
\* below zero and no queue ever holds anything but a pid.
TypeOK ==
  /\ TipoDatos /\ TipoPcb /\ TipoGrado /\ TipoPausa /\ TipoInterrupcion
  /\ mutex \in [Mutexes -> Hilos \cup {LIBRE}]
  /\ TipoRecursos /\ TipoHilos /\ TipoConsola /\ TipoHistoria
  /\ kernel \in {"vivo", "caido", "indefinido", "recorrido"}

\* What each thread may count on about its locals at the point where it is: with
\* it TypeOK is inductive.  The last conjunct: MULTIPROGRAMACION takes the branch
\* of a lower degree only for one that is no higher.
Locales ==
  /\ pc["corto"] \notin {"apagado", "permiso"} => mano["corto"] \in Pids
  /\ pc["corto"] \in {"recurso", "wait", "anota", "signal", "libera"}
       => RecursoPedido \in Recursos
  /\ pc["consola"] = "elimina" => mano["consola"] \in Pids
  /\ \A i \in Interfaces : pc[i] = "atiende" => mano[i] \in Pids
  /\ pc["consola"] = "baja" => orden.nuevo <= grado

\* The inductive invariant of TypeOK: every thread finds the process, the
\* resource and the degree it works on where the step before left them.
ITipo == TypeOK /\ Locales

(***************************************************************************)
(* Pausing.  detener_planificacion only starts threads that take the       *)
(* permits of sem_planificacion_* when they can, and the console may stop  *)
(* and resume again before they do.  Dentro(f): a planner thread is inside *)
(* the section permit f guards.                                            *)
(***************************************************************************)
Dentro(f) ==
  CASE f = "new" -> pc["new"] \in {"saca", "listo"}
    [] f = "exit" -> pc["exit"] \in {"toma", "libera", "cuenta"}
    [] f = "ready" -> pc["corto"] \notin {"apagado", "permiso"}
    [] f = "exec" -> pc["corto"] \in {"termina", "recurso"}

\* Permits are never lost or made up by a pause, a resume, a stop thread that
\* comes late or a planner thread: the one permit of each section is free, with
\* the thread inside or with the pause, but for the stop threads still to come.
FrenosConservados ==
  \A f \in Frenos : plan[f] + Uno(Dentro(f)) + Uno(bloqueado) = 1 + parando[f]

\* The planner threads exist only after the first iniciar_planificacion.
SinPlanificador ==
  ~ existe => \A h \in {"new", "exit", "corto"} : pc[h] = "apagado"

\* The inductive invariant of FrenosConservados, which also knows that before
\* the first iniciar_planificacion no planner thread is inside any section.
IFrenos ==
  TipoPausa /\ pc \in [Hilos -> Etiquetas] /\ SinPlanificador /\ FrenosConservados

Detenida == bloqueado /\ \A f \in Frenos : parando[f] = 0

\* What a pause freezes: who executes, how many are inside and who exists.
Congelado ==
  /\ cola'["exec"] = cola["exec"]
  /\ enMulti' = enMulti
  /\ listaPcb \subseteq listaPcb'

\* Once the four stop threads got their permits and until somebody resumes, no
\* process is admitted, dispatched, taken off the CPU or released, whatever the
\* I/O threads and the console do (detener_planificacion, iniciar_planificacion).
PausaCongela == [][Detenida => Congelado]_vars

(***************************************************************************)
(* Queues and their permits.  Largo counts the processes a permit of c can *)
(* stand for; Tomado, the permit a thread took and has not used yet;       *)
(* EnCamino, the pushes that will still post one.                          *)
(***************************************************************************)
Largo(c) == IF c = "ready" THEN Len(cola["ready"]) + Len(cola["aux"]) ELSE Len(cola[c])

Tomado(c) ==
  CASE c = "new" -> Uno(pc["new"] = "saca")
    [] c \in Interfaces -> Uno(pc[c] = "atiende")
    [] OTHER -> 0

EnCamino(c) == Cardinality({h \in Hilos : PermisoDe(empuje[h].cola) = c})

\* Processes an interface answered ERROR for: queued, their permit spent.
SinPermiso(c) == IF c \in Interfaces THEN errores[c] ELSE 0

\* Without FINALIZAR_PROCESO every process queued in NEW, READY, READY+, EXIT or an
\* interface has exactly one permit of procesos_en_new, _ready, _exit or the
\* interface, but for one per ERROR the interface answered: no pop_cola_* that
\* follows its sem_wait finds the list empty, and ERROR alone strands processes.
PermisosExactos ==
  \A c \in ConPermiso : sem[c] + Tomado(c) + EnCamino(c) + SinPermiso(c) = Largo(c)

\* With FINALIZAR_PROCESO too, no other process is left in those queues without a
\* permit: a kill may leave one too many, never one too few.
NingunoOlvidado ==
  \A c \in ConPermiso : sem[c] + Tomado(c) + EnCamino(c) + SinPermiso(c) >= Largo(c)

(***************************************************************************)
(* Where each process is.                                                  *)
(***************************************************************************)
EnSyscall(p) ==
  /\ mano["corto"] = p
  /\ pc["corto"] \in {"recurso", "wait", "anota", "signal", "libera", "sigue"}

EnSalida(p) == mano["exit"] = p /\ pc["exit"] \in {"toma", "libera"}

Apariciones(p) == UNION {{<<c, k>> : k \in {j \in 1 .. Len(cola[c]) : cola[c][j] = p}} : c \in Colas}

Lugares(p) == Cardinality(Apariciones(p)) + Uno(EnSyscall(p)) + Uno(EnSalida(p))

\* Without FINALIZAR_PROCESO a process is at every moment in exactly one queue,
\* once, or in the hands of exactly one thread: no push or pop of the planners,
\* of liberar_recurso or of manejar_io loses or duplicates it.
UnSoloLugar == \A p \in Pids : Lugares(p) = Uno(p \in listaPcb)

\* Whatever FINALIZAR_PROCESO does to the process it was asked for, found or not
\* where its state said, every other one stays in exactly one place until it ends.
LosDemasEnSuLugar == \A p \in Pids \ pedidos : Lugares(p) = Uno(p \in listaPcb)

\* Without FINALIZAR_PROCESO no thread follows a NULL that a pop gave it.
SinPunteroNulo == kernel # "caido"

\* While manejar_new is the only one that pushes to READY the kernel dies of one
\* thing, a walk of a list without its mutex (log_ingreso_ready, proceso_estado):
\* no pop gives NULL and no push writes to a PCB that manejar_exit freed.  With a
\* second pusher its permit dispatches a process whose own push is not finished,
\* and which may end before it is.
KernelVivo == kernel \in {"vivo", "recorrido"}

(***************************************************************************)
(* The life cycle the queues implement, read from where each process is    *)
(* and not from pcb->estado, which lags behind.                            *)
(***************************************************************************)
Etapa(p) ==
  IF p >= proximo THEN "inexistente"
  ELSE IF p \notin listaPcb THEN "liberado"
  ELSE IF Contiene(cola["new"], p) THEN "nuevo"
  ELSE IF Contiene(cola["ready"], p) \/ Contiene(cola["aux"], p) THEN "listo"
  ELSE IF Contiene(cola["exec"], p) \/ EnSyscall(p) THEN "ejecutando"
  ELSE IF \E c \in Recursos \cup Interfaces : Contiene(cola[c], p) THEN "bloqueado"
  ELSE "terminado"

Ciclo == INSTANCE CicloDeVida WITH etapa <- [p \in Pids |-> Etapa(p)]

\* Without FINALIZAR_PROCESO and MULTIPROGRAMACION the kernel implements the life
\* cycle: nobody skips a state, one process executes, NEW is served in order of
\* arrival and never beyond GRADO_MULTIPROGRAMACION.
ImplementaCicloDeVida == Ciclo!Spec

(***************************************************************************)
(* Multiprogramming degree.                                                *)
(***************************************************************************)
Admitidos ==
  {p \in listaPcb : \/ EnSyscall(p)
                    \/ \E c \in Colas \ {"new", "exit"} : Contiene(cola[c], p)}

\* The permits MULTIPROGRAMACION took so far, before it sets the new degree.
TomadosPorConsola ==
  CASE pc["consola"] = "bajaEspera" /\ enMulti < orden.nuevo
         -> (grado - orden.nuevo) - orden.esperas
    [] pc["consola"] = "ignoraEspera" /\ enMulti < orden.nuevo -> grado - orden.nuevo
    [] pc["consola"] = "ignoraEspera" /\ orden.nuevo < enMulti /\ enMulti < grado
         -> (grado - enMulti) - orden.esperas
    [] OTHER -> 0

\* sem_multiprogramacion, the permits manejar_new and MULTIPROGRAMACION hold, the
\* admitted processes and the exits that have not given theirs back add up to the
\* degree plus the exits to swallow (ignorar_signal_mp), through every raise and
\* every reduction but the two that lose count (Desfasa).
GradoConservado ==
  ~ desfasado =>
    multi + Uno(pc["new"] \in {"permiso", "saca"})
      + Cardinality(Admitidos)
      + Cardinality({h \in Hilos : empuje[h].cola = "exit"})
      + TomadosPorConsola = grado + ignorar

\* MULTIPROGRAMACION leaves no more room than the degree it was given: what can
\* still be admitted plus what is admitted, less the permits it will swallow,
\* fits the degree once the command is back at the prompt.
GradoAlDia ==
  pc["consola"] = "prompt" =>
    multi + Cardinality(Admitidos) <= grado + ignorar

(***************************************************************************)
(* Resources.                                                              *)
(***************************************************************************)
\* The entries of lista_recursos_procesos for r, numbered per process.
Entradas(r) == UNION {{p} \X (1 .. asignados[p][r]) : p \in Pids}

Anotados(r) == Cardinality(Entradas(r))

EnTramite(r) == Uno(pc["corto"] \in {"anota", "libera"} /\ RecursoPedido = r)

\* instancias_disponibles and lista_recursos_procesos tell the same story: what
\* is missing from one is written in the other, whoever died in between.
SaldoDeRecursos ==
  \A r \in Recursos : instancias[r] + Anotados(r) + EnTramite(r) = Instancias[r]

Saliendo(p) == EnSalida(p) \/ Contiene(cola["exit"], p)

\* What a process was really granted: its entries but the one it waits with.
Concedidas(r, p) ==
  IF Saliendo(p) THEN 0 ELSE asignados[p][r] - Uno(Contiene(cola[r], p))

EnUso(r) == UNION {{p} \X (1 .. Concedidas(r, p)) : p \in Pids}

\* No more instances are in use than INSTANCIAS_RECURSOS: the entries of the
\* processes that are not ending, less the waiters' own, fit it.
SinSobreasignacion == \A r \in Recursos : Cardinality(EnUso(r)) <= Instancias[r]

\* At most one process per instance goes on with a resource, if every process is
\* in one place only: who was made to wait goes on when a holder gives it back.
DuenosPorInstancia ==
  (\A p \in Pids : Lugares(p) = Uno(p \in listaPcb)) =>
    \A r \in Recursos : Cardinality({p \in Pids : Concedidas(r, p) > 0}) <= Instancias[r]

\* Nobody waits for a resource that has a free instance.
NadieEsperaDeMas ==
  mutex["recursos"] = LIBRE =>
    \A r \in Recursos : cola[r] # <<>> => instancias[r] < 0

(***************************************************************************)
(* User interruptions.                                                     *)
(***************************************************************************)
\* A process that comes back from the CPU is ended by the user's interruption
\* only if FINALIZAR_PROCESO was asked for it.
SoloElPedido ==
  pc["corto"] = "maneja" /\ InterrumpeUsuario => mano["corto"] \in pedidos

(***************************************************************************)
(* Progress: each thread keeps running, the CPU gives the process back (in *)
(* RR and VRR the quantum thread sees to it) and the interfaces answer.    *)
(***************************************************************************)
Equidad ==
  /\ WF_vars(PasoNew)
  /\ WF_vars(PasoExit)
  /\ WF_vars(PasoCorto)
  /\ \A i \in Interfaces : WF_vars(PasoIo(i))
  /\ \A h \in Hilos : WF_vars(Publicar(h))

SpecJusta == Spec /\ Equidad

\* A process that reached READY is dispatched, however many come and go.
ListoEjecuta ==
  \A p \in Pids :
    Contiene(cola["ready"], p) ~> (Contiene(cola["exec"], p) \/ kernel # "vivo")
=============================================================================
