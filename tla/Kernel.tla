------------------------------- MODULE Kernel -------------------------------
(***************************************************************************)
(* The kernel process of the TP: the five-state scheduler of               *)
(* kernel/src/utils_kernel.c driven by the console of                      *)
(* kernel/src/consola.c.  Threads: manejar_new ("new"), manejar_exit       *)
(* ("exit"), the short-term planner ("corto"), one manejar_io thread per   *)
(* connected interface, the console ("consola") and the short-lived stop   *)
(* threads of detener_planificacion.                                       *)
(*                                                                         *)
(* A push_cola_* is two steps, as in the code: list_add under the queue's  *)
(* own mutex, and later (Publicar) the write of pcb->estado and sem_post.  *)
(* Between them another thread may already pop the process.  Everything    *)
(* else is cut at the points where a thread can wait or where it reads or  *)
(* writes what other threads use.  A sem_wait on procesos_en_*, whose only *)
(* consumer is the thread itself, is one step with the sem_wait on the     *)
(* sem_planificacion_* that follows it; so is a post with the code before. *)
(***************************************************************************)
EXTENDS Integers, Sequences, FiniteSets

CONSTANTS
  N,             \* how many INICIAR_PROCESO the console issues (bound)
  Recursos,      \* RECURSOS of the configuration file
  Instancias,    \* INSTANCIAS_RECURSOS
  Interfaces,    \* connected I/O interfaces, one manejar_io thread each
  Grado,         \* GRADO_MULTIPROGRAMACION
  Algoritmo,     \* ALGORITMO_PLANIFICACION
  Salidas,       \* how the programs of the run leave the CPU
  Comandos,      \* console commands the run uses besides INICIAR_PROCESO
  NuevosGrados,  \* arguments of MULTIPROGRAMACION
  MaxComandos    \* how many of those commands are issued (bound)

Pids == 0 .. N - 1
NADIE == -1                      \* NULL in place of a t_pcb*
LIBRE == "libre"                 \* an unlocked mutex

Hilos == {"new", "exit", "corto", "consola"} \cup Interfaces
Frenos == {"new", "ready", "exec", "exit"}   \* the sem_planificacion_*
Colas == {"new", "ready", "aux", "exec", "exit"} \cup Recursos \cup Interfaces
ConPermiso == {"new", "ready", "exit"} \cup Interfaces
Mutexes == {"recursos", "recursosXProcesos", "kernel_io",
            "cant_proc_multip", "ignorar_signal"}
Estados == {"NUEVO", "LISTO", "EJECUTANDO", "BLOQUEADO", "TERMINADO"}

ASSUME TamanosAssumption ==
  /\ N \in Nat \ {0}
  /\ Grado \in Nat \ {0}
  /\ MaxComandos \in Nat
  /\ NuevosGrados \subseteq Nat
  /\ Instancias \in [Recursos -> Nat]
  /\ Algoritmo \in {"FIFO", "RR", "VRR"}
  /\ Salidas \subseteq {"WAIT", "SIGNAL", "IO", "NOMBRE_INVALIDO",
                       "FIN_EXITOSO", "OUT_OF_MEMORY", "FIN_QUANTUM"}
  /\ Algoritmo = "FIFO" => "FIN_QUANTUM" \notin Salidas
  /\ IsFiniteSet(Interfaces)

ASSUME NombresAssumption ==
  /\ Recursos \cap Interfaces = {}
  /\ (Recursos \cup Interfaces) \cap
       {"new", "ready", "aux", "exec", "exit", "corto", "consola",
        "libre", "ninguna", "invalido"} = {}

VARIABLES
  cola,          \* COLA_*, cola_bloqueados_recursos, cola_bloq
  sem,           \* procesos_en_new, _ready, _exit, sem_cola_bloq
  estado,        \* pcb->estado
  bloqueo,       \* pcb->datos_bloqueo: instruction and name
  queda,         \* queda_quantum(pcb)
  proximo,       \* the next pid of crear_pcb
  listaPcb,      \* lista_pcb; a pid below proximo outside it was freed
  multi,         \* sem_multiprogramacion
  enMulti,       \* procesos_en_multiprogramacion
  ignorar,       \* ignorar_signal_mp
  grado,         \* KERNEL_CONFIG->GRADO_MULTIPROGRAMACION
  plan,          \* sem_planificacion_new, _ready, _exec, _exit
  parando,       \* stop_* threads that have not got their permit
  existe,        \* existe_planificador
  bloqueado,     \* planificador_bloqueado
  hayInterrupcion, recibiendo,   \* hay_interrupcion_por_usuario, recibiendo_pcb
  enviadas,      \* INTERRUPCION_USUARIO sent and not yet used by the CPU
  mutex,         \* owner of each pthread mutex
  instancias,    \* instancias_disponibles
  asignados,     \* lista_recursos_procesos, as a bag of (pid, resource)
  pc, mano,      \* where each thread is, the t_pcb* it works on
  empuje,        \* the push_cola_* a thread is in the middle of
  contexto,      \* contexto_ejecucion received from the CPU
  orden,         \* locals of the console command being run
  comandos,      \* commands issued so far (bounded by MaxComandos)
  pedidos,       \* history: pids FINALIZAR_PROCESO was asked for
  errores,       \* history: per interface, answers that left the process queued
  desfasado,     \* history: a MULTIPROGRAMACION lost count of the permits
  kernel         \* "vivo", or how it died (see Muere)

datosVars == <<cola, empuje, sem, estado>>
pcbVars == <<bloqueo, queda, proximo, listaPcb>>
gradoVars == <<multi, enMulti, ignorar, grado>>
pausaVars == <<plan, parando, existe, bloqueado>>
interrupcionVars == <<hayInterrupcion, recibiendo, enviadas>>
recursoVars == <<instancias, asignados>>
hiloVars == <<pc, mano, contexto>>
historiaVars == <<pedidos, errores, desfasado>>
consolaVars == <<orden, comandos, historiaVars>>
vars == <<datosVars, pcbVars, gradoVars, pausaVars, interrupcionVars, mutex,
          recursoVars, hiloVars, consolaVars, kernel>>

\* Where a thread can be.
Etiquetas ==
  {"apagado", "permiso",                                       \* planner threads
   "multi", "saca", "listo",                                   \* manejar_new
   "toma", "cuenta",                                           \* manejar_exit
   "espera", "maneja", "termina", "recurso", "wait", "anota",  \* short term
   "signal", "libera", "sigue", "desenrolla",
   "atiende",                                                  \* manejar_io
   "prompt", "imprime", "elimina", "reanuda", "baja", "bajaEspera",
   "ignoraEspera"}

NADA == [cola |-> "ninguna", pid |-> NADIE]
SinBloqueo == [instruccion |-> "ninguna", nombre |-> "invalido"]
SinContexto == [motivo |-> "ninguno", bloqueo |-> SinBloqueo, queda |-> TRUE]
SinOrden == [leido |-> "TERMINADO", nuevo |-> 0, esperas |-> 0]

(***************************************************************************)
(* What the CPU may send back.  The kernel decides nothing about it: any   *)
(* instruction may be the one that ends the burst.  queda abstracts        *)
(* pcb->quantum < QUANTUM, which the CPU measured with a wall clock; only  *)
(* RR and VRR read it, after a WAIT, a SIGNAL or an I/O.                   *)
(***************************************************************************)
Quantums == IF Algoritmo = "FIFO" THEN {TRUE} ELSE BOOLEAN
Motivos == {"FIN_EXITOSO", "BLOQUEO_IO", "BLOQUEO_RECURSO", "OUT_OF_MEMORY",
            "FINALIZACION_USUARIO", "FIN_QUANTUM"}
Bloqueos == [instruccion : {"WAIT", "SIGNAL", "IO", "ninguna"},
             nombre : Recursos \cup Interfaces \cup {"invalido"}]
Contextos == [motivo : Motivos \cup {"ninguno"}, bloqueo : Bloqueos, queda : BOOLEAN]

Invalidos == IF "NOMBRE_INVALIDO" \in Salidas THEN {"invalido"} ELSE {}
Llamadas ==
  [motivo : {"BLOQUEO_IO"}, queda : Quantums,
   bloqueo : [instruccion : Salidas \cap {"IO"}, nombre : Interfaces \cup Invalidos]]
  \cup
  [motivo : {"BLOQUEO_RECURSO"}, queda : Quantums,
   bloqueo : [instruccion : Salidas \cap {"WAIT", "SIGNAL"}, nombre : Recursos \cup Invalidos]]

\* Without a system call datos_bloqueo comes back as it was sent.
Otras(p) ==
  [motivo : Salidas \cap {"FIN_EXITOSO", "OUT_OF_MEMORY", "FIN_QUANTUM"},
   bloqueo : {bloqueo[p]}, queda : {TRUE}]
Interrumpida(p) ==
  [motivo |-> "FINALIZACION_USUARIO", bloqueo |-> bloqueo[p], queda |-> TRUE]

Retornos(p) ==
  Llamadas \cup Otras(p)
    \cup (IF p \in enviadas THEN {Interrumpida(p)} ELSE {})

(***************************************************************************)
(* Lists                                                                   *)
(***************************************************************************)
Contiene(s, p) == \E k \in 1 .. Len(s) : s[k] = p

\* Mutant: the process is looked up and never removed.
MutQuitar(s, p) == s

\* list_remove_element: the first occurrence goes, the rest closes up.
Quitar(s, p) ==
  IF Contiene(s, p)
    THEN [k \in 1 .. Len(s) - 1 |-> IF \E j \in 1 .. k : s[j] = p THEN s[k + 1] ELSE s[k]]
    ELSE s

\* Mutant: list_get in place of list_remove.
MutSacar(cs, c) == cs

Sacar(cs, c) == [cs EXCEPT ![c] = Tail(@)]

\* Mutant: list_add at the front.
MutEmpujar(h, cs, c, p) ==
  /\ cola' = [cs EXCEPT ![c] = <<p>> \o @]
  /\ empuje' = [empuje EXCEPT ![h] = [cola |-> c, pid |-> p]]

\* First half of push_cola_*: list_add of p at the end of queue c.
Empujar(h, cs, c, p) ==
  /\ cola' = [cs EXCEPT ![c] = Append(@, p)]
  /\ empuje' = [empuje EXCEPT ![h] = [cola |-> c, pid |-> p]]

EstadoDe(c) ==
  CASE c = "new" -> "NUEVO"
    [] c \in {"ready", "aux"} -> "LISTO"
    [] c = "exec" -> "EJECUTANDO"
    [] c = "exit" -> "TERMINADO"
    [] OTHER -> "BLOQUEADO"

\* Mutant: push_cola_ready_aux forgets its sem_post.
MutPermisoDeAux(c) == c
\* Mutant: push_cola_exit forgets its sem_post.
MutPermisoDeExit(c) == IF c = "aux" THEN "ready" ELSE IF c = "exit" THEN "ninguno" ELSE c

PermisoDe(c) == IF c = "aux" THEN "ready" ELSE c

(***************************************************************************)
(* Threads                                                                 *)
(***************************************************************************)
Turno(h, e) == kernel = "vivo" /\ pc[h] = e /\ empuje[h] = NADA
Ir(h, e) == pc' = [pc EXCEPT ![h] = e]
Tomar(m, h) == mutex[m] = LIBRE /\ mutex' = [mutex EXCEPT ![m] = h]
Soltar(m) == mutex' = [mutex EXCEPT ![m] = LIBRE]

\* A thread dereferences the NULL of a pop or of a search ("caido"), a freed
\* t_pcb or queue ("indefinido"), or either of them in a walk of a list without
\* its mutex ("recorrido"); the model stops there: nothing after it is defined.
Muere(como) ==
  /\ kernel' = como
  /\ UNCHANGED <<datosVars, pcbVars, gradoVars, pausaVars, interrupcionVars,
                 mutex, recursoVars, hiloVars, consolaVars>>

Init ==
  /\ cola = [c \in Colas |-> <<>>]
  /\ sem = [c \in ConPermiso |-> 0]
  /\ estado = [p \in Pids |-> "NUEVO"]
  /\ bloqueo = [p \in Pids |-> SinBloqueo]
  /\ queda = [p \in Pids |-> TRUE]
  /\ proximo = 0
  /\ listaPcb = {}
  /\ multi = Grado /\ grado = Grado
  /\ enMulti = 0 /\ ignorar = 0
  /\ plan = [f \in Frenos |-> 1]
  /\ parando = [f \in Frenos |-> 0]
  /\ existe = FALSE /\ bloqueado = FALSE
  /\ hayInterrupcion = FALSE /\ recibiendo = FALSE
  /\ enviadas = {}
  /\ mutex = [m \in Mutexes |-> LIBRE]
  /\ instancias = Instancias
  /\ asignados = [p \in Pids |-> [r \in Recursos |-> 0]]
  /\ pc = [h \in Hilos |-> IF h = "consola" THEN "prompt"
                           ELSE IF h \in Interfaces THEN "permiso" ELSE "apagado"]
  /\ mano = [h \in Hilos |-> NADIE]
  /\ empuje = [h \in Hilos |-> NADA]
  /\ contexto = SinContexto
  /\ orden = SinOrden
  /\ comandos = 0
  /\ pedidos = {}
  /\ errores = [i \in Interfaces |-> 0]
  /\ desfasado = FALSE
  /\ kernel = "vivo"

(***************************************************************************)
(* Second half of every push_cola_*: pcb->estado is written and the        *)
(* permits are posted.  push_cola_exit gives a degree permit back unless   *)
(* MULTIPROGRAMACION asked to swallow it.  A push made as the last thing   *)
(* under mutex_recursos (liberar_recurso) or mutex_kernel_io (manejar_io)  *)
(* is followed by the unlock.                                              *)
(***************************************************************************)
SueltaTrasPublicar(h) ==
  IF h \in Interfaces THEN {"kernel_io"}
  ELSE IF pc[h] \in {"libera", "sigue"} THEN {"recursos"} ELSE {}

\* Mutant: ignorar_signal_mp is compared with >= 0.
MutDevolverGradoSigno(c) ==
  IF c # "exit" THEN UNCHANGED <<multi, ignorar>>
  ELSE ignorar' = ignorar - 1 /\ UNCHANGED multi

DevolverGrado(c) ==
  IF c # "exit" THEN UNCHANGED <<multi, ignorar>>
  ELSE /\ mutex["ignorar_signal"] = LIBRE
       /\ IF ignorar = 0 THEN multi' = multi + 1 /\ UNCHANGED ignorar
                         ELSE ignorar' = ignorar - 1 /\ UNCHANGED multi

PublicarPcb(h, c, p) ==
  /\ estado' = [estado EXCEPT ![p] = EstadoDe(c)]
  /\ DevolverGrado(c)
  /\ sem' = IF PermisoDe(c) \in ConPermiso
              THEN [sem EXCEPT ![PermisoDe(c)] = @ + 1] ELSE sem
  /\ empuje' = [empuje EXCEPT ![h] = NADA]
  /\ mutex' = [m \in Mutexes |-> IF m \in SueltaTrasPublicar(h) THEN LIBRE ELSE mutex[m]]
  /\ UNCHANGED <<cola, pcbVars, enMulti, grado, pausaVars, interrupcionVars,
                 recursoVars, hiloVars, consolaVars, kernel>>

Publicar(h) ==
  /\ kernel = "vivo" /\ empuje[h] # NADA
  /\ \/ empuje[h].pid \notin listaPcb /\ Muere("indefinido")
     \/ empuje[h].pid \in listaPcb /\ PublicarPcb(h, empuje[h].cola, empuje[h].pid)

-----------------------------------------------------------------------------
(* manejar_new *)

NewMulti ==
  /\ Turno("new", "multi") /\ multi > 0
  /\ multi' = multi - 1
  /\ Ir("new", "permiso")
  /\ UNCHANGED <<datosVars, pcbVars, enMulti, ignorar, grado, pausaVars,
                 interrupcionVars, mutex, recursoVars, mano, contexto, consolaVars, kernel>>

NewPermiso ==
  /\ Turno("new", "permiso") /\ sem["new"] > 0 /\ plan["new"] > 0
  /\ sem' = [sem EXCEPT !["new"] = @ - 1]
  /\ plan' = [plan EXCEPT !["new"] = @ - 1]
  /\ Ir("new", "saca")
  /\ UNCHANGED <<cola, empuje, estado, pcbVars, gradoVars, parando, existe, bloqueado,
                 interrupcionVars, mutex, recursoVars, mano, contexto, consolaVars, kernel>>

NewSaca ==
  /\ Turno("new", "saca") /\ mutex["cant_proc_multip"] = LIBRE
  /\ \/ cola["new"] = <<>> /\ Muere("caido")
     \/ /\ cola["new"] # <<>>
        /\ enMulti' = enMulti + 1
        /\ Empujar("new", Sacar(cola, "new"), "ready", Head(cola["new"]))
        /\ Ir("new", "listo")
        /\ UNCHANGED <<sem, estado, pcbVars, multi, ignorar, grado, pausaVars,
                       interrupcionVars, mutex, recursoVars, mano, contexto, consolaVars, kernel>>

NewListo ==
  /\ Turno("new", "listo")
  /\ plan' = [plan EXCEPT !["new"] = @ + 1]
  /\ Ir("new", "multi")
  /\ UNCHANGED <<datosVars, pcbVars, gradoVars, parando, existe, bloqueado,
                 interrupcionVars, mutex, recursoVars, mano, contexto, consolaVars, kernel>>

-----------------------------------------------------------------------------
\* Mutant: the instance comes back only if somebody waits.
MutLiberarRecursoSi(h, r) ==
  /\ mutex["recursos"] = LIBRE
  /\ IF instancias[r] < 0 /\ cola[r] # <<>>
       THEN /\ instancias' = [instancias EXCEPT ![r] = @ + 1]
            /\ Empujar(h, Sacar(cola, r), "ready", Head(cola[r]))
            /\ mutex' = [mutex EXCEPT !["recursos"] = h]
       ELSE UNCHANGED <<instancias, cola, empuje, mutex>>

\* Mutant: < for <=.
MutLiberarRecursoMenor(h, r) ==
  /\ mutex["recursos"] = LIBRE
  /\ instancias' = [instancias EXCEPT ![r] = @ + 1]
  /\ IF instancias[r] + 1 < 0 /\ cola[r] # <<>>
       THEN /\ Empujar(h, Sacar(cola, r), "ready", Head(cola[r]))
            /\ mutex' = [mutex EXCEPT !["recursos"] = h]
       ELSE UNCHANGED <<cola, empuje, mutex>>

(* liberar_recurso: one instance back and, while somebody is owed one, the
   first waiter to READY.  mutex_recursos is kept until that push is published. *)
LiberarRecurso(h, r) ==
  /\ mutex["recursos"] = LIBRE
  /\ instancias' = [instancias EXCEPT ![r] = @ + 1]
  /\ IF instancias[r] + 1 <= 0 /\ cola[r] # <<>>
       THEN /\ Empujar(h, Sacar(cola, r), "ready", Head(cola[r]))
            /\ mutex' = [mutex EXCEPT !["recursos"] = h]
       ELSE UNCHANGED <<cola, empuje, mutex>>

(* manejar_exit *)

ExitSaca ==
  /\ Turno("exit", "permiso") /\ sem["exit"] > 0 /\ plan["exit"] > 0
  /\ \/ cola["exit"] = <<>> /\ Muere("caido")
     \/ cola["exit"] # <<>> /\ Head(cola["exit"]) \notin listaPcb /\ Muere("indefinido")
     \/ /\ cola["exit"] # <<>> /\ Head(cola["exit"]) \in listaPcb
        /\ sem' = [sem EXCEPT !["exit"] = @ - 1]
        /\ plan' = [plan EXCEPT !["exit"] = @ - 1]
        /\ cola' = Sacar(cola, "exit")
        /\ mano' = [mano EXCEPT !["exit"] = Head(cola["exit"])]
        /\ Ir("exit", "toma")
        /\ UNCHANGED <<empuje, estado, pcbVars, gradoVars, parando, existe, bloqueado,
                       interrupcionVars, mutex, recursoVars, contexto, consolaVars, kernel>>

ExitToma ==
  /\ Turno("exit", "toma")
  /\ Tomar("recursosXProcesos", "exit")
  /\ Ir("exit", "libera")
  /\ UNCHANGED <<datosVars, pcbVars, gradoVars, pausaVars, interrupcionVars,
                 recursoVars, mano, contexto, consolaVars, kernel>>

ExitLibera(r) ==
  /\ Turno("exit", "libera") /\ asignados[mano["exit"]][r] > 0
  /\ LiberarRecurso("exit", r)
  /\ asignados' = [asignados EXCEPT ![mano["exit"]][r] = @ - 1]
  /\ UNCHANGED <<sem, estado, pcbVars, gradoVars, pausaVars, interrupcionVars,
                 hiloVars, consolaVars, kernel>>

\* mutex_recursosXProcesos is unlocked, the PCB leaves lista_pcb and is freed:
\* its fields, which nobody may read again, take fixed values.
ExitFin ==
  /\ Turno("exit", "libera")
  /\ \A r \in Recursos : asignados[mano["exit"]][r] = 0
  /\ Soltar("recursosXProcesos")
  /\ listaPcb' = listaPcb \ {mano["exit"]}
  /\ bloqueo' = [bloqueo EXCEPT ![mano["exit"]] = SinBloqueo]
  /\ queda' = [queda EXCEPT ![mano["exit"]] = TRUE]
  /\ Ir("exit", "cuenta")
  /\ UNCHANGED <<datosVars, proximo, gradoVars, pausaVars,
                 interrupcionVars, recursoVars, mano, contexto, consolaVars, kernel>>

\* Mutant: the count is changed without cant_proc_multip.
MutExitCuenta ==
  /\ Turno("exit", "cuenta")
  /\ enMulti' = enMulti - 1
  /\ plan' = [plan EXCEPT !["exit"] = @ + 1]
  /\ mano' = [mano EXCEPT !["exit"] = NADIE]
  /\ Ir("exit", "permiso")
  /\ UNCHANGED <<datosVars, pcbVars, multi, ignorar, grado, parando, existe, bloqueado,
                 interrupcionVars, mutex, recursoVars, contexto, consolaVars, kernel>>

ExitCuenta ==
  /\ Turno("exit", "cuenta") /\ mutex["cant_proc_multip"] = LIBRE
  /\ enMulti' = enMulti - 1
  /\ plan' = [plan EXCEPT !["exit"] = @ + 1]
  /\ mano' = [mano EXCEPT !["exit"] = NADIE]
  /\ Ir("exit", "permiso")
  /\ UNCHANGED <<datosVars, pcbVars, multi, ignorar, grado, parando, existe, bloqueado,
                 interrupcionVars, mutex, recursoVars, contexto, consolaVars, kernel>>

-----------------------------------------------------------------------------
(* planificador_corto_plazo_*, down to manejar_recurso *)

\* Mutant: READY+ is forgotten.
MutColaSiguiente == "ready"

\* VRR serves COLA_READY_AUX first.
ColaSiguiente == IF Algoritmo = "VRR" /\ cola["aux"] # <<>> THEN "aux" ELSE "ready"

Despacha ==
  /\ Turno("corto", "permiso") /\ sem["ready"] > 0 /\ plan["ready"] > 0
  /\ \/ cola[ColaSiguiente] = <<>> /\ Muere("caido")
     \/ /\ cola[ColaSiguiente] # <<>>
        /\ sem' = [sem EXCEPT !["ready"] = @ - 1]
        /\ plan' = [plan EXCEPT !["ready"] = @ - 1]
        /\ Empujar("corto", Sacar(cola, ColaSiguiente), "exec", Head(cola[ColaSiguiente]))
        /\ mano' = [mano EXCEPT !["corto"] = Head(cola[ColaSiguiente])]
        /\ Ir("corto", "espera")
        /\ UNCHANGED <<estado, pcbVars, gradoVars, parando, existe, bloqueado,
                       interrupcionVars, mutex, recursoVars, contexto, consolaVars, kernel>>

\* The burst ends: the CPU sends the context back and the planner, which waits
\* in recibir_operacion, sets recibiendo_pcb.  An interruption sent for the
\* process ends it, or is dropped, or is still on its way.
CpuDevuelve ==
  /\ Turno("corto", "espera")
  /\ \E ctx \in Retornos(mano["corto"]) :
       /\ contexto' = ctx
       /\ \/ enviadas' = enviadas \ {mano["corto"]}
          \/ ctx.motivo # "FINALIZACION_USUARIO" /\ enviadas' = enviadas
  /\ recibiendo' = TRUE
  /\ Ir("corto", "maneja")
  /\ UNCHANGED <<datosVars, pcbVars, gradoVars, pausaVars, hayInterrupcion,
                 mutex, recursoVars, mano, consolaVars, kernel>>

EsRecurso(ctx) == ctx.motivo = "BLOQUEO_RECURSO" /\ ctx.bloqueo.nombre \in Recursos

\* The queue manejar_proceso pushes to when it is not a valid resource call.
Destino(ctx) ==
  CASE ctx.motivo = "BLOQUEO_IO" /\ ctx.bloqueo.nombre \in Interfaces -> ctx.bloqueo.nombre
    [] ctx.motivo = "FIN_QUANTUM" -> "ready"
    [] OTHER -> "exit"

InterrumpeUsuario == hayInterrupcion /\ contexto.motivo # "FINALIZACION_USUARIO"

\* sem_wait(&sem_planificacion_exec), pop_cola_exec, actualizar_pcb and the
\* switch on motivo_salida, up to the list_add of the push it chooses.
ManejaProceso ==
  /\ Turno("corto", "maneja") /\ plan["exec"] > 0
  /\ \/ cola["exec"] = <<>> /\ Muere("caido")
     \/ cola["exec"] # <<>> /\ Head(cola["exec"]) \notin listaPcb /\ Muere("indefinido")
     \/ /\ cola["exec"] # <<>> /\ Head(cola["exec"]) \in listaPcb
        /\ LET p == Head(cola["exec"])
               resto == Sacar(cola, "exec")
           IN  /\ plan' = [plan EXCEPT !["exec"] = @ - 1]
               /\ estado' = [estado EXCEPT ![p] = "EJECUTANDO"]
               /\ bloqueo' = [bloqueo EXCEPT ![p] = contexto.bloqueo]
               /\ queda' = [queda EXCEPT ![p] = contexto.queda]
               /\ mano' = [mano EXCEPT !["corto"] = p]
               /\ hayInterrupcion' = (hayInterrupcion /\ ~ InterrumpeUsuario)
               /\ IF EsRecurso(contexto) /\ ~ InterrumpeUsuario
                    THEN cola' = resto /\ Ir("corto", "recurso") /\ UNCHANGED empuje
                    ELSE /\ Empujar("corto", resto,
                                    IF InterrumpeUsuario THEN "exit" ELSE Destino(contexto), p)
                         /\ Ir("corto", "termina")
        /\ UNCHANGED <<sem, proximo, listaPcb, gradoVars, parando, existe, bloqueado,
                       recibiendo, enviadas, mutex, recursoVars, contexto, consolaVars, kernel>>

\* Mutant: sem_planificacion_ready is not posted.
MutVolverAlPlanificador(planes) ==
  /\ plan' = planes
  /\ mutex' = IF mutex["recursos"] = "corto"
                THEN [mutex EXCEPT !["recursos"] = LIBRE] ELSE mutex
  /\ mano' = [mano EXCEPT !["corto"] = NADIE]
  /\ contexto' = SinContexto
  /\ Ir("corto", "permiso")

\* Back through every push_cola_exec frame to the planner: the WAIT frame, if
\* there is one, unlocks mutex_recursos; sem_planificacion_ready is posted.
VolverAlPlanificador(planes) ==
  /\ plan' = [planes EXCEPT !["ready"] = @ + 1]
  /\ mutex' = IF mutex["recursos"] = "corto"
                THEN [mutex EXCEPT !["recursos"] = LIBRE] ELSE mutex
  /\ mano' = [mano EXCEPT !["corto"] = NADIE]
  /\ contexto' = SinContexto
  /\ Ir("corto", "permiso")

Termina ==
  /\ Turno("corto", "termina")
  /\ recibiendo' = FALSE
  /\ VolverAlPlanificador([plan EXCEPT !["exec"] = @ + 1])
  /\ UNCHANGED <<datosVars, pcbVars, gradoVars, parando, existe, bloqueado,
                 hayInterrupcion, enviadas, recursoVars, consolaVars, kernel>>

Desenrolla ==
  /\ Turno("corto", "desenrolla")
  /\ VolverAlPlanificador(plan)
  /\ UNCHANGED <<datosVars, pcbVars, gradoVars, parando, existe, bloqueado,
                 interrupcionVars, recursoVars, consolaVars, kernel>>

\* manejar_recurso lets EXEC go before it touches the resource.
EntraRecurso ==
  /\ Turno("corto", "recurso")
  /\ recibiendo' = FALSE
  /\ plan' = [plan EXCEPT !["exec"] = @ + 1]
  /\ Ir("corto", IF contexto.bloqueo.instruccion = "WAIT" THEN "wait" ELSE "signal")
  /\ UNCHANGED <<datosVars, pcbVars, gradoVars, parando, existe, bloqueado,
                 hayInterrupcion, enviadas, mutex, recursoVars, mano, contexto,
                 consolaVars, kernel>>

RecursoPedido == contexto.bloqueo.nombre

\* The process goes on in the CPU (a nested push_cola_exec, so mutex_recursos
\* stays with a WAIT) or, out of quantum, to READY.
SeguirOListo(p) ==
  IF Algoritmo = "FIFO" \/ queda[p]
    THEN Empujar("corto", cola, "exec", p) /\ Ir("corto", "espera")
    ELSE Empujar("corto", cola, "ready", p) /\ Ir("corto", "desenrolla")

Wait ==
  /\ Turno("corto", "wait")
  /\ Tomar("recursos", "corto")
  /\ instancias' = [instancias EXCEPT ![RecursoPedido] = @ - 1]
  /\ Ir("corto", "anota")
  /\ UNCHANGED <<datosVars, pcbVars, gradoVars, pausaVars, interrupcionVars,
                 asignados, mano, contexto, consolaVars, kernel>>

\* Mutant: a WAIT that leaves -1 instances does not block.
MutWaitAnota ==
  /\ Turno("corto", "anota") /\ mutex["recursosXProcesos"] = LIBRE
  /\ asignados' = [asignados EXCEPT ![mano["corto"]][RecursoPedido] = @ + 1]
  /\ IF instancias[RecursoPedido] < -1
       THEN Empujar("corto", cola, RecursoPedido, mano["corto"]) /\ Ir("corto", "desenrolla")
       ELSE SeguirOListo(mano["corto"])
  /\ UNCHANGED <<sem, estado, pcbVars, gradoVars, pausaVars, interrupcionVars, mutex,
                 instancias, mano, contexto, consolaVars, kernel>>

WaitAnota ==
  /\ Turno("corto", "anota") /\ mutex["recursosXProcesos"] = LIBRE
  /\ asignados' = [asignados EXCEPT ![mano["corto"]][RecursoPedido] = @ + 1]
  /\ IF instancias[RecursoPedido] < 0
       THEN Empujar("corto", cola, RecursoPedido, mano["corto"]) /\ Ir("corto", "desenrolla")
       ELSE SeguirOListo(mano["corto"])
  /\ UNCHANGED <<sem, estado, pcbVars, gradoVars, pausaVars, interrupcionVars, mutex,
                 instancias, mano, contexto, consolaVars, kernel>>

\* manejar_signal: without an entry of its own the process ends (INVALID_SIGNAL).
Signal ==
  /\ Turno("corto", "signal") /\ mutex["recursosXProcesos"] = LIBRE
  /\ IF asignados[mano["corto"]][RecursoPedido] > 0
       THEN /\ asignados' = [asignados EXCEPT ![mano["corto"]][RecursoPedido] = @ - 1]
            /\ Ir("corto", "libera")
            /\ UNCHANGED <<cola, empuje>>
       ELSE /\ Empujar("corto", cola, "exit", mano["corto"])
            /\ Ir("corto", "desenrolla")
            /\ UNCHANGED asignados
  /\ UNCHANGED <<sem, estado, pcbVars, gradoVars, pausaVars, interrupcionVars, mutex,
                 instancias, mano, contexto, consolaVars, kernel>>

SignalLibera ==
  /\ Turno("corto", "libera")
  /\ LiberarRecurso("corto", RecursoPedido)
  /\ Ir("corto", "sigue")
  /\ UNCHANGED <<sem, estado, pcbVars, gradoVars, pausaVars, interrupcionVars,
                 asignados, mano, contexto, consolaVars, kernel>>

SignalSigue ==
  /\ Turno("corto", "sigue")
  /\ SeguirOListo(mano["corto"])
  /\ UNCHANGED <<sem, estado, pcbVars, gradoVars, pausaVars, interrupcionVars, mutex,
                 recursoVars, mano, contexto, consolaVars, kernel>>

-----------------------------------------------------------------------------
(* manejar_io *)

IoToma(i) ==
  /\ Turno(i, "permiso") /\ sem[i] > 0 /\ mutex["kernel_io"] = LIBRE
  /\ \/ cola[i] = <<>> /\ Muere("caido")
     \/ cola[i] # <<>> /\ Head(cola[i]) \notin listaPcb /\ Muere("indefinido")
     \/ /\ cola[i] # <<>> /\ Head(cola[i]) \in listaPcb
        /\ sem' = [sem EXCEPT ![i] = @ - 1]
        /\ Tomar("kernel_io", i)
        /\ mano' = [mano EXCEPT ![i] = Head(cola[i])]
        /\ Ir(i, "atiende")
        /\ UNCHANGED <<cola, empuje, estado, pcbVars, gradoVars, pausaVars,
                       interrupcionVars, recursoVars, contexto, consolaVars, kernel>>

\* BLOQUEO_TERMINADO arrives: datos_bloqueo is cleared and the process, unless
\* somebody took it out of the queue meanwhile, goes to READY or READY+.
IoTermina(i) ==
  /\ Turno(i, "atiende")
  /\ \/ mano[i] \notin listaPcb /\ Muere("indefinido")
     \/ /\ mano[i] \in listaPcb
        /\ bloqueo' = [bloqueo EXCEPT ![mano[i]] = SinBloqueo]
        /\ IF Contiene(cola[i], mano[i])
             THEN /\ Empujar(i, [cola EXCEPT ![i] = Quitar(@, mano[i])],
                             IF Algoritmo = "VRR" /\ queda[mano[i]] THEN "aux" ELSE "ready",
                             mano[i])
                  /\ UNCHANGED mutex
             ELSE Soltar("kernel_io") /\ UNCHANGED <<cola, empuje>>
        /\ mano' = [mano EXCEPT ![i] = NADIE]
        /\ Ir(i, "permiso")
        /\ UNCHANGED <<sem, estado, queda, proximo, listaPcb, gradoVars, pausaVars,
                       interrupcionVars, recursoVars, contexto, consolaVars, kernel>>

\* ERROR, or a code nobody knows: one line in the log.  The permit is spent and
\* the process stays where it was in the queue.
IoError(i) ==
  /\ Turno(i, "atiende")
  /\ errores' = [errores EXCEPT ![i] = @ + 1]
  /\ Soltar("kernel_io")
  /\ mano' = [mano EXCEPT ![i] = NADIE]
  /\ Ir(i, "permiso")
  /\ UNCHANGED <<datosVars, pcbVars, gradoVars, pausaVars, interrupcionVars, recursoVars,
                 contexto, orden, comandos, pedidos, desfasado, kernel>>

\* The interface is gone: liberar_io sends its queue to EXIT and frees it, and
\* dictionary_remove_and_destroy does both again on the freed queue.
IoDesconexion(i) == Turno(i, "atiende") /\ Muere("indefinido")

-----------------------------------------------------------------------------
(* Console commands *)

IniciarProceso ==
  /\ Turno("consola", "prompt") /\ proximo < N
  /\ proximo' = proximo + 1
  /\ listaPcb' = listaPcb \cup {proximo}
  /\ Empujar("consola", cola, "new", proximo)
  /\ UNCHANGED <<sem, estado, bloqueo, queda, gradoVars, pausaVars, interrupcionVars,
                 mutex, recursoVars, hiloVars, consolaVars, kernel>>

\* One of the budgeted commands is typed.
Comando(c) ==
  /\ Turno("consola", "prompt") /\ c \in Comandos /\ comandos < MaxComandos
  /\ comandos' = comandos + 1

\* Mutant: only three stop threads.
MutDetenerTres ==
  /\ bloqueado' = TRUE
  /\ parando' = IF bloqueado THEN parando
                ELSE [f \in Frenos |-> IF f = "new" THEN parando[f] ELSE parando[f] + 1]
  /\ UNCHANGED <<plan, existe>>

\* Mutant: planificador_bloqueado is not looked at.
MutDetenerSiempre ==
  /\ bloqueado' = TRUE
  /\ parando' = [f \in Frenos |-> parando[f] + 1]
  /\ UNCHANGED <<plan, existe>>

\* detener_planificacion: only the flag and four threads that will wait.
Detener ==
  /\ bloqueado' = TRUE
  /\ parando' = IF bloqueado THEN parando ELSE [f \in Frenos |-> parando[f] + 1]
  /\ UNCHANGED <<plan, existe>>

\* iniciar_planificacion: the first one creates the planner threads; it does not
\* look at planificador_bloqueado.
PlanificadorCreado ==
  [pc EXCEPT !["new"] = "multi", !["exit"] = "permiso", !["corto"] = "permiso",
             !["consola"] = "prompt"]

\* Mutant: the permits are posted before there is a planner.
MutIniciar ==
  /\ existe' = TRUE
  /\ bloqueado' = (bloqueado /\ ~ existe)
  /\ plan' = IF bloqueado THEN [f \in Frenos |-> plan[f] + 1] ELSE plan
  /\ pc' = IF existe THEN [pc EXCEPT !["consola"] = "prompt"] ELSE PlanificadorCreado
  /\ UNCHANGED parando

Iniciar ==
  /\ existe' = TRUE
  /\ bloqueado' = (bloqueado /\ ~ existe)
  /\ plan' = IF existe /\ bloqueado THEN [f \in Frenos |-> plan[f] + 1] ELSE plan
  /\ pc' = IF existe THEN [pc EXCEPT !["consola"] = "prompt"] ELSE PlanificadorCreado
  /\ UNCHANGED parando

IniciarPlanificacion ==
  /\ \/ Turno("consola", "prompt") /\ ~ existe /\ UNCHANGED comandos
     \/ existe /\ bloqueado /\ Comando("INICIAR_PLANIFICACION")
  /\ Iniciar
  /\ UNCHANGED <<datosVars, pcbVars, gradoVars, interrupcionVars, mutex, recursoVars,
                 mano, contexto, orden, historiaVars, kernel>>

DetenerPlanificacion ==
  /\ ~ bloqueado /\ Comando("DETENER_PLANIFICACION")
  /\ Detener
  /\ UNCHANGED <<datosVars, pcbVars, gradoVars, interrupcionVars, mutex, recursoVars,
                 hiloVars, orden, historiaVars, kernel>>

\* A thread of detener_planificacion gets its permit.
StopHilo(f) ==
  /\ kernel = "vivo" /\ parando[f] > 0 /\ plan[f] > 0
  /\ parando' = [parando EXCEPT ![f] = @ - 1]
  /\ plan' = [plan EXCEPT ![f] = @ - 1]
  /\ UNCHANGED <<datosVars, pcbVars, gradoVars, existe, bloqueado, interrupcionVars,
                 mutex, recursoVars, hiloVars, consolaVars, kernel>>

\* The lists are printed at "imprime", without their mutexes: see RecorridoRoto.
ProcesoEstado ==
  /\ Comando("PROCESO_ESTADO")
  /\ Detener
  /\ Ir("consola", "imprime")
  /\ UNCHANGED <<datosVars, pcbVars, gradoVars, interrupcionVars, mutex, recursoVars,
                 mano, contexto, orden, historiaVars, kernel>>

\* The command ends with iniciar_planificacion(NULL), whoever had stopped it.
Reanuda ==
  /\ kernel = "vivo" /\ pc["consola"] \in {"imprime", "reanuda"} /\ empuje["consola"] = NADA
  /\ Iniciar
  /\ mano' = [mano EXCEPT !["consola"] = NADIE]
  /\ orden' = SinOrden
  /\ UNCHANGED <<datosVars, pcbVars, gradoVars, interrupcionVars, mutex, recursoVars,
                 contexto, comandos, historiaVars, kernel>>

\* finalizar_proceso: detener_planificacion, buscar_proceso and the reading of
\* pcb->estado.  A pid that is not in lista_pcb gives NULL, dereferenced before
\* it is compared with NULL.
FinalizarProceso(p) ==
  /\ Turno("consola", "prompt") /\ p < proximo
  /\ "FINALIZAR_PROCESO" \in Comandos /\ comandos < MaxComandos
  /\ \/ p \notin listaPcb /\ Muere("caido")
     \/ /\ p \in listaPcb
        /\ comandos' = comandos + 1
        /\ pedidos' = pedidos \cup {p}
        /\ UNCHANGED <<errores, desfasado>>
        /\ Detener
        /\ mano' = [mano EXCEPT !["consola"] = p]
        /\ orden' = [orden EXCEPT !.leido = estado[p]]
        /\ Ir("consola", "elimina")
        /\ UNCHANGED <<datosVars, pcbVars, gradoVars, interrupcionVars, mutex, recursoVars,
                       contexto, kernel>>

\* remover_proceso_en_cola (which only logs when the pid is not there) and the
\* list_add of push_cola_exit.
MoverAExit(c, p) ==
  /\ Empujar("consola", [cola EXCEPT ![c] = Quitar(@, p)], "exit", p)
  /\ Ir("consola", "reanuda")
  /\ UNCHANGED <<sem, estado, pcbVars, gradoVars, pausaVars, interrupcionVars, mutex,
                 recursoVars, mano, contexto, consolaVars, kernel>>

EliminaEnCola(p) ==
  \/ orden.leido = "NUEVO" /\ MoverAExit("new", p)
  \/ orden.leido = "LISTO" /\ MoverAExit("ready", p)

EliminaEjecutando(p) ==
  /\ orden.leido = "EJECUTANDO"
  /\ hayInterrupcion' = TRUE
  /\ enviadas' = IF recibiendo THEN enviadas ELSE enviadas \cup {p}
  /\ Ir("consola", "reanuda")
  /\ UNCHANGED <<datosVars, pcbVars, gradoVars, pausaVars, recibiendo, mutex, recursoVars,
                 mano, contexto, consolaVars, kernel>>

\* WAIT looks the name up among the resources, anything else among the
\* interfaces, where a resource or an empty name gives NULL.
TieneCola(b) == b.instruccion \in {"WAIT", "IO"} /\ b.nombre # "invalido"

\* datos_bloqueo is read now, not when the state was: it may have changed.
EliminaBloqueado(p) ==
  /\ orden.leido = "BLOQUEADO"
  /\ \/ p \notin listaPcb /\ Muere("indefinido")
     \/ /\ p \in listaPcb /\ TieneCola(bloqueo[p])
        /\ MoverAExit(bloqueo[p].nombre, p)
     \/ p \in listaPcb /\ ~ TieneCola(bloqueo[p]) /\ Muere("caido")

EliminaTerminado ==
  /\ orden.leido = "TERMINADO"
  /\ Ir("consola", "reanuda")
  /\ UNCHANGED <<datosVars, pcbVars, gradoVars, pausaVars, interrupcionVars, mutex,
                 recursoVars, mano, contexto, consolaVars, kernel>>

Elimina ==
  /\ Turno("consola", "elimina")
  /\ LET p == mano["consola"]
     IN  EliminaEnCola(p) \/ EliminaEjecutando(p) \/ EliminaBloqueado(p) \/ EliminaTerminado

(* MULTIPROGRAMACION *)

Multiprogramacion(n) ==
  /\ Comando("MULTIPROGRAMACION")
  /\ Detener
  /\ IF n > grado
       THEN /\ multi' = multi + (n - grado)
            /\ grado' = n
            /\ Ir("consola", "reanuda")
            /\ UNCHANGED orden
       ELSE /\ orden' = [orden EXCEPT !.nuevo = n]
            /\ Ir("consola", "baja")
            /\ UNCHANGED <<multi, grado>>
  /\ UNCHANGED <<datosVars, pcbVars, enMulti, ignorar, interrupcionVars, mutex, recursoVars,
                 mano, contexto, historiaVars, kernel>>

\* cant_proc_multip is locked; with room to spare one permit per degree is taken.
BajaGrado ==
  /\ Turno("consola", "baja")
  /\ Tomar("cant_proc_multip", "consola")
  /\ orden' = [orden EXCEPT !.esperas = IF enMulti < orden.nuevo THEN grado - orden.nuevo ELSE 0]
  /\ Ir("consola", "bajaEspera")
  /\ UNCHANGED <<datosVars, pcbVars, gradoVars, pausaVars, interrupcionVars, recursoVars,
                 mano, contexto, comandos, historiaVars, kernel>>

\* One sem_wait(&sem_multiprogramacion) of the loops, mutexes held.
EsperaGrado ==
  /\ kernel = "vivo" /\ pc["consola"] \in {"bajaEspera", "ignoraEspera"}
  /\ orden.esperas > 0 /\ multi > 0
  /\ multi' = multi - 1
  /\ orden' = [orden EXCEPT !.esperas = @ - 1]
  /\ UNCHANGED <<datosVars, pcbVars, enMulti, ignorar, grado, pausaVars, interrupcionVars,
                 mutex, recursoVars, hiloVars, comandos, historiaVars, kernel>>

\* mutex_ignorar_signal is locked; with too many processes inside, the free
\* permits of the old degree are taken.
TomaIgnorar ==
  /\ Turno("consola", "bajaEspera") /\ orden.esperas = 0
  /\ Tomar("ignorar_signal", "consola")
  /\ orden' = [orden EXCEPT !.esperas =
                 IF enMulti > orden.nuevo /\ grado > enMulti THEN grado - enMulti ELSE 0]
  /\ Ir("consola", "ignoraEspera")
  /\ UNCHANGED <<datosVars, pcbVars, gradoVars, pausaVars, interrupcionVars, recursoVars,
                 mano, contexto, comandos, historiaVars, kernel>>

\* The cases in which the numbers do not meet: as many inside as the new degree,
\* when no free permit of the old one is taken; or more, when ignorar_signal_mp
\* is overwritten with swallows pending other than those above the old degree.
Desfasa ==
  \/ enMulti = orden.nuevo /\ grado > orden.nuevo
  \/ enMulti > orden.nuevo /\ ignorar # (IF enMulti > grado THEN enMulti - grado ELSE 0)

FijaGrado ==
  /\ Turno("consola", "ignoraEspera") /\ orden.esperas = 0
  /\ desfasado' = (desfasado \/ Desfasa)
  /\ ignorar' = IF enMulti > orden.nuevo THEN enMulti - orden.nuevo ELSE ignorar
  /\ grado' = orden.nuevo
  /\ mutex' = [mutex EXCEPT !["ignorar_signal"] = LIBRE, !["cant_proc_multip"] = LIBRE]
  /\ Ir("consola", "reanuda")
  /\ UNCHANGED <<datosVars, pcbVars, multi, enMulti, pausaVars, interrupcionVars, recursoVars,
                 mano, contexto, orden, comandos, pedidos, errores, kernel>>

-----------------------------------------------------------------------------
(***************************************************************************)
(* Walks without a mutex.  log_ingreso_ready prints READY or READY+ after  *)
(* the unlock of push_cola_ready(_aux); proceso_estado prints every list;  *)
(* eliminar_de_lista_por_pid searches one.  Each asks for an element by    *)
(* its index and dereferences what it gets, so a process taken out of the  *)
(* list meanwhile makes it follow NULL or a PCB that is being freed.       *)
(***************************************************************************)
ColaBuscada ==
  CASE orden.leido = "NUEVO" -> {"new"}
    [] orden.leido = "LISTO" -> {"ready"}
    [] orden.leido = "BLOQUEADO" /\ TieneCola(bloqueo[mano["consola"]])
         -> {bloqueo[mano["consola"]].nombre}
    [] OTHER -> {}

Recorre(h) ==
  ({empuje[h].cola} \cap {"ready", "aux"})
  \cup (IF Turno(h, "elimina") THEN ColaBuscada ELSE {})
  \cup (IF Turno(h, "imprime")
          THEN IF Algoritmo = "VRR" THEN Colas ELSE Colas \ {"aux"} ELSE {})

\* Thread h may take a process out of queue c now.
PuedeSacar(h, c) ==
  \/ h = "new" /\ c = "new" /\ Turno(h, "saca") /\ mutex["cant_proc_multip"] = LIBRE
  \/ h = "exit" /\ c = "exit" /\ Turno(h, "permiso") /\ sem["exit"] > 0 /\ plan["exit"] > 0
  \/ h = "corto" /\ c = ColaSiguiente /\ Turno(h, "permiso") /\ sem["ready"] > 0 /\ plan["ready"] > 0
  \/ h = "corto" /\ c = "exec" /\ Turno(h, "maneja") /\ plan["exec"] > 0
  \/ /\ c \in Recursos /\ instancias[c] < 0 /\ mutex["recursos"] = LIBRE
     /\ \/ h = "exit" /\ Turno(h, "libera") /\ asignados[mano[h]][c] > 0
        \/ h = "corto" /\ Turno(h, "libera") /\ RecursoPedido = c
  \/ h \in Interfaces /\ c = h /\ Turno(h, "atiende")
  \/ h = "consola" /\ Turno(h, "elimina") /\ c \in ColaBuscada

\* buscar_proceso walks lista_pcb while manejar_exit takes a PCB out of it.
BuscaMientrasLibera ==
  /\ Turno("consola", "prompt") /\ "FINALIZAR_PROCESO" \in Comandos /\ comandos < MaxComandos
  /\ Turno("exit", "libera") /\ \A r \in Recursos : asignados[mano["exit"]][r] = 0

RecorridoRoto ==
  /\ kernel = "vivo"
  /\ \/ BuscaMientrasLibera
     \/ \E h \in Hilos : \E c \in Recorre(h) :
          /\ cola[c] # <<>>
          /\ \/ \E g \in Hilos \ {h} : PuedeSacar(g, c)
             \/ \E p \in Pids \ listaPcb : Contiene(cola[c], p)
  /\ Muere("recorrido")

-----------------------------------------------------------------------------
PasoNew == NewMulti \/ NewPermiso \/ NewSaca \/ NewListo
PasoExit == \/ ExitSaca \/ ExitToma \/ ExitFin \/ ExitCuenta
            \/ \E r \in Recursos : ExitLibera(r)
PasoCorto == \/ Despacha \/ CpuDevuelve \/ ManejaProceso
             \/ EntraRecurso \/ Wait \/ WaitAnota \/ Signal \/ SignalLibera \/ SignalSigue
             \/ Termina \/ Desenrolla
PasoIo(i) == IoToma(i) \/ IoTermina(i) \/ IoError(i) \/ IoDesconexion(i)
PasoConsola == \/ IniciarProceso \/ IniciarPlanificacion \/ DetenerPlanificacion
               \/ ProcesoEstado \/ Reanuda \/ Elimina
               \/ \E p \in Pids : FinalizarProceso(p)
               \/ \E n \in NuevosGrados : Multiprogramacion(n)
               \/ BajaGrado \/ EsperaGrado \/ TomaIgnorar \/ FijaGrado

Next == \/ PasoNew \/ PasoExit \/ PasoCorto \/ PasoConsola
        \/ \E i \in Interfaces : PasoIo(i)
        \/ \E h \in Hilos : Publicar(h)
        \/ RecorridoRoto
        \/ \E f \in Frenos : StopHilo(f)

Spec == Init /\ [][Next]_vars
=============================================================================
