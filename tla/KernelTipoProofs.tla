-------------------------- MODULE KernelTipoProofs --------------------------
(***************************************************************************)
(* Type correctness of the kernel, for every value of the constants.       *)
(*                                                                         *)
(* TypeOK is not inductive alone: a thread pushes the process it keeps in  *)
(* mano, asks for the resource it keeps in contexto and lowers the degree  *)
(* to the one in orden, and TypeOK allows NULL there.  ITipo adds what     *)
(* each point of each thread may count on (Locales).  The helpers of the   *)
(* model (push, pop, removal, liberar_recurso, iniciar_planificacion) have *)
(* a lemma each; then there is one lemma per action.                       *)
(***************************************************************************)
EXTENDS KernelPropiedades, TLAPS

USE DEF datosVars, pcbVars, gradoVars, pausaVars, interrupcionVars, recursoVars,
        hiloVars, consolaVars, historiaVars

\* The queues, the semaphores and the threads there are in every configuration.
LEMMA Nombres ==
  /\ {"new", "ready", "aux", "exec", "exit"} \subseteq Colas
  /\ Recursos \subseteq Colas /\ Interfaces \subseteq Colas
  /\ {"new", "ready", "exit"} \subseteq ConPermiso /\ Interfaces \subseteq ConPermiso
  /\ {"new", "exit", "corto", "consola"} \subseteq Hilos /\ Interfaces \subseteq Hilos
BY DEF Colas, ConPermiso, Hilos

\* A group of variables a step leaves alone keeps its type.
LEMMA SinCambio ==
  ASSUME ITipo
  PROVE  /\ UNCHANGED datosVars => TipoDatos'
         /\ UNCHANGED pcbVars => TipoPcb'
         /\ UNCHANGED gradoVars => TipoGrado'
         /\ UNCHANGED pausaVars => TipoPausa'
         /\ UNCHANGED interrupcionVars => TipoInterrupcion'
         /\ UNCHANGED mutex => (mutex \in [Mutexes -> Hilos \cup {LIBRE}])'
         /\ UNCHANGED recursoVars => TipoRecursos'
         /\ UNCHANGED hiloVars => TipoHilos'
         /\ UNCHANGED consolaVars => TipoConsola'
         /\ UNCHANGED historiaVars => TipoHistoria'
         /\ UNCHANGED kernel => (kernel \in {"vivo", "caido", "indefinido", "recorrido"})'
         /\ UNCHANGED hiloVars /\ UNCHANGED consolaVars /\ UNCHANGED gradoVars => Locales'
<1>1. /\ UNCHANGED datosVars => TipoDatos'
      /\ UNCHANGED pcbVars => TipoPcb'
      /\ UNCHANGED gradoVars => TipoGrado'
  BY DEF ITipo, TypeOK, TipoDatos, TipoPcb, TipoGrado
<1>2. /\ UNCHANGED pausaVars => TipoPausa'
      /\ UNCHANGED interrupcionVars => TipoInterrupcion'
      /\ UNCHANGED mutex => (mutex \in [Mutexes -> Hilos \cup {LIBRE}])'
  BY DEF ITipo, TypeOK, TipoPausa, TipoInterrupcion
<1>3. /\ UNCHANGED recursoVars => TipoRecursos'
      /\ UNCHANGED hiloVars => TipoHilos'
      /\ UNCHANGED consolaVars => TipoConsola'
      /\ UNCHANGED historiaVars => TipoHistoria'
      /\ UNCHANGED kernel => (kernel \in {"vivo", "caido", "indefinido", "recorrido"})'
  BY DEF ITipo, TypeOK, TipoRecursos, TipoHilos, TipoConsola, TipoHistoria
<1>4. UNCHANGED hiloVars /\ UNCHANGED consolaVars /\ UNCHANGED gradoVars => Locales'
  BY DEF ITipo, Locales, RecursoPedido
<1> QED BY <1>1, <1>2, <1>3, <1>4

\* The model stops: nothing else changes.
LEMMA TMuere ==
  ASSUME ITipo, \E como \in {"caido", "indefinido", "recorrido"} : Muere(como)
  PROVE  ITipo'
BY SinCambio DEF Muere, ITipo, TypeOK

\* A thread that moves leaves pc a function from threads to labels.
LEMMA TipoIr ==
  ASSUME ITipo, NEW h \in Hilos, NEW e \in Etiquetas, Ir(h, e)
  PROVE  /\ pc' \in [Hilos -> Etiquetas] /\ pc'[h] = e
         /\ \A g \in Hilos : g # h => pc'[g] = pc[g]
BY DEF Ir, ITipo, TypeOK, TipoHilos

\* The list_add of a push_cola_* keeps the type of the queues and of the push it starts.
LEMMA TipoEmpujar ==
  ASSUME ITipo, NEW h \in Hilos, NEW cs \in [Colas -> Seq(Pids)], NEW c \in Colas,
         NEW p \in Pids, Empujar(h, cs, c, p)
  PROVE  cola' \in [Colas -> Seq(Pids)] /\ empuje' \in [Hilos -> Empujes]
BY DEF Empujar, ITipo, TypeOK, TipoDatos, Empujes

\* A pop_cola_* from a queue that is not empty keeps the type of the queues.
LEMMA TipoSacar ==
  ASSUME ITipo, NEW c \in Colas, cola[c] # <<>>
  PROVE  Sacar(cola, c) \in [Colas -> Seq(Pids)] /\ Head(cola[c]) \in Pids
BY DEF Sacar, ITipo, TypeOK, TipoDatos

\* remover_proceso_en_cola keeps a queue a queue.
LEMMA TipoQuitar ==
  ASSUME ITipo, NEW c \in Colas, NEW p \in Pids
  PROVE  [cola EXCEPT ![c] = Quitar(@, p)] \in [Colas -> Seq(Pids)]
<1>1. cola[c] \in Seq(Pids)
  BY DEF ITipo, TypeOK, TipoDatos
<1>2. CASE Contiene(cola[c], p)
  <2> DEFINE s == cola[c]
  <2>1. Len(s) \in Nat \ {0}
    BY <1>1, <1>2 DEF Contiene
  <2>2. \A k \in 1 .. Len(s) - 1 : s[k] \in Pids /\ s[k + 1] \in Pids
    BY <1>1, <2>1
  <2>3. Quitar(s, p) \in [1 .. Len(s) - 1 -> Pids]
    BY <1>2, <2>2 DEF Quitar
  <2>4. Quitar(s, p) \in Seq(Pids)
    BY <2>1, <2>3
  <2> QED BY <2>4 DEF ITipo, TypeOK, TipoDatos
<1>3. CASE ~ Contiene(cola[c], p)
  BY <1>1, <1>3 DEF Quitar, ITipo, TypeOK, TipoDatos
<1> QED BY <1>2, <1>3

\* Locales says nothing of manejar_new and manejar_exit.
LEMMA LocalesAjenos ==
  ASSUME ITipo, UNCHANGED <<contexto, orden>>, grado' = grado,
         pc'["corto"] = pc["corto"], mano'["corto"] = mano["corto"],
         pc'["consola"] = pc["consola"], mano'["consola"] = mano["consola"],
         \A i \in Interfaces : pc'[i] = pc[i] /\ mano'[i] = mano[i]
  PROVE  Locales'
BY DEF ITipo, Locales, RecursoPedido

\* ITipo is kept when manejar_new takes its permit of sem_multiprogramacion.
LEMMA TNewMulti == ITipo /\ NewMulti => ITipo'
<1> SUFFICES ASSUME ITipo, NewMulti PROVE ITipo'
  OBVIOUS
<1>1. TipoGrado'
  BY DEF NewMulti, ITipo, TypeOK, TipoGrado
<1>2. /\ pc' \in [Hilos -> Etiquetas] /\ pc'["new"] = "permiso"
      /\ \A g \in Hilos : g # "new" => pc'[g] = pc[g]
  BY TipoIr, Nombres DEF NewMulti, Etiquetas
<1>3. TipoHilos' /\ Locales'
  BY <1>2, LocalesAjenos, Nombres, NombresAssumption DEF NewMulti, ITipo, TypeOK, TipoHilos
<1> QED BY <1>1, <1>3, SinCambio DEF NewMulti, ITipo, TypeOK

\* ITipo is kept when manejar_new moves the oldest process of NEW to READY.
LEMMA TNewSaca == ITipo /\ NewSaca => ITipo'
<1> SUFFICES ASSUME ITipo, NewSaca, cola["new"] # <<>> PROVE ITipo'
  BY TMuere DEF NewSaca
<1>1. TipoGrado'
  BY DEF NewSaca, Muere, ITipo, TypeOK, TipoGrado
<1>2. /\ pc' \in [Hilos -> Etiquetas] /\ pc'["new"] = "listo"
      /\ \A g \in Hilos : g # "new" => pc'[g] = pc[g]
  BY TipoIr, Nombres DEF NewSaca, Etiquetas
<1>3. TipoHilos' /\ Locales'
  BY <1>2, LocalesAjenos, Nombres, NombresAssumption DEF NewSaca, ITipo, TypeOK, TipoHilos
<1>4. TipoDatos'
  BY TipoEmpujar, TipoSacar, Nombres DEF NewSaca, ITipo, TypeOK, TipoDatos
<1> QED BY <1>1, <1>3, <1>4, SinCambio DEF NewSaca, ITipo, TypeOK

\* ITipo is kept when manejar_new takes the permits of procesos_en_new and
\* sem_planificacion_new.
LEMMA TNewPermiso == ITipo /\ NewPermiso => ITipo'
<1> SUFFICES ASSUME ITipo, NewPermiso PROVE ITipo'
  OBVIOUS
<1>1. TipoDatos'
  BY Nombres DEF NewPermiso, ITipo, TypeOK, TipoDatos
<1>2. TipoPausa'
  BY DEF NewPermiso, ITipo, TypeOK, TipoPausa, Frenos
<1>3. /\ pc' \in [Hilos -> Etiquetas] /\ pc'["new"] = "saca"
      /\ \A g \in Hilos : g # "new" => pc'[g] = pc[g]
  BY TipoIr, Nombres DEF NewPermiso, Etiquetas
<1>4. TipoHilos' /\ Locales'
  BY <1>3, LocalesAjenos, Nombres, NombresAssumption DEF NewPermiso, ITipo, TypeOK, TipoHilos
<1> QED BY <1>1, <1>2, <1>4, SinCambio DEF NewPermiso, ITipo, TypeOK

\* ITipo is kept when manejar_new posts sem_planificacion_new.
LEMMA TNewListo == ITipo /\ NewListo => ITipo'
<1> SUFFICES ASSUME ITipo, NewListo PROVE ITipo'
  OBVIOUS
<1>1. TipoPausa'
  BY DEF NewListo, ITipo, TypeOK, TipoPausa, Frenos
<1>2. /\ pc' \in [Hilos -> Etiquetas] /\ pc'["new"] = "multi"
      /\ \A g \in Hilos : g # "new" => pc'[g] = pc[g]
  BY TipoIr, Nombres DEF NewListo, Etiquetas
<1>3. TipoHilos' /\ Locales'
  BY <1>2, LocalesAjenos, Nombres, NombresAssumption DEF NewListo, ITipo, TypeOK, TipoHilos
<1> QED BY <1>1, <1>3, SinCambio DEF NewListo, ITipo, TypeOK

\* ITipo is kept when manejar_exit takes its permits and pops a process.
LEMMA TExitSaca == ITipo /\ ExitSaca => ITipo'
<1> SUFFICES ASSUME ITipo, ExitSaca, ~ Muere("caido"), ~ Muere("indefinido") PROVE ITipo'
  BY TMuere
<1>0. Sacar(cola, "exit") \in [Colas -> Seq(Pids)] /\ Head(cola["exit"]) \in Pids
  BY TipoSacar, Nombres DEF ExitSaca
<1>1. TipoDatos'
  <2>1. /\ sem["exit"] > 0 /\ sem' = [sem EXCEPT !["exit"] = @ - 1]
        /\ cola' = Sacar(cola, "exit") /\ UNCHANGED <<empuje, estado>>
    BY DEF ExitSaca
  <2>2. sem' \in [ConPermiso -> Nat]
    BY <2>1, Nombres DEF ITipo, TypeOK, TipoDatos
  <2>3. cola' \in [Colas -> Seq(Pids)]
    BY <1>0, <2>1
  <2> QED BY <2>1, <2>2, <2>3 DEF ITipo, TypeOK, TipoDatos
<1>2. TipoPausa'
  BY DEF ExitSaca, ITipo, TypeOK, TipoPausa, Frenos
<1>3. /\ pc' \in [Hilos -> Etiquetas] /\ pc'["exit"] = "toma"
      /\ \A g \in Hilos : g # "exit" => pc'[g] = pc[g]
  BY TipoIr, Nombres DEF ExitSaca, Etiquetas
<1>4. TipoHilos' /\ Locales'
  BY <1>0, <1>3, LocalesAjenos, Nombres, NombresAssumption DEF ExitSaca, ITipo, TypeOK, TipoHilos
<1> QED BY <1>1, <1>2, <1>4, SinCambio DEF ExitSaca, ITipo, TypeOK

\* ITipo is kept when manejar_exit locks mutex_recursosXProcesos.
LEMMA TExitToma == ITipo /\ ExitToma => ITipo'
<1> SUFFICES ASSUME ITipo, ExitToma PROVE ITipo'
  OBVIOUS
<1>1. (mutex \in [Mutexes -> Hilos \cup {LIBRE}])'
  BY Nombres DEF ExitToma, Tomar, ITipo, TypeOK
<1>2. /\ pc' \in [Hilos -> Etiquetas] /\ pc'["exit"] = "libera"
      /\ \A g \in Hilos : g # "exit" => pc'[g] = pc[g]
  BY TipoIr, Nombres DEF ExitToma, Etiquetas
<1>3. TipoHilos' /\ Locales'
  BY <1>2, LocalesAjenos, Nombres, NombresAssumption DEF ExitToma, ITipo, TypeOK, TipoHilos
<1> QED BY <1>1, <1>3, SinCambio DEF ExitToma, ITipo, TypeOK

\* ITipo is kept when manejar_exit takes the PCB off lista_pcb and frees it.
LEMMA TExitFin == ITipo /\ ExitFin => ITipo'
<1> SUFFICES ASSUME ITipo, ExitFin PROVE ITipo'
  OBVIOUS
<1>1. SinBloqueo \in Bloqueos
  BY DEF SinBloqueo, Bloqueos
<1>2. TipoPcb'
  BY <1>1 DEF ExitFin, ITipo, TypeOK, TipoPcb
<1>3. (mutex \in [Mutexes -> Hilos \cup {LIBRE}])'
  BY DEF ExitFin, Soltar, ITipo, TypeOK
<1>4. /\ pc' \in [Hilos -> Etiquetas] /\ pc'["exit"] = "cuenta"
      /\ \A g \in Hilos : g # "exit" => pc'[g] = pc[g]
  BY TipoIr, Nombres DEF ExitFin, Etiquetas
<1>5. TipoHilos' /\ Locales'
  BY <1>4, LocalesAjenos, Nombres, NombresAssumption DEF ExitFin, ITipo, TypeOK, TipoHilos
<1> QED BY <1>2, <1>3, <1>5, SinCambio DEF ExitFin, ITipo, TypeOK

\* ITipo is kept when manejar_exit counts the process out and posts sem_planificacion_exit.
LEMMA TExitCuenta == ITipo /\ ExitCuenta => ITipo'
<1> SUFFICES ASSUME ITipo, ExitCuenta PROVE ITipo'
  OBVIOUS
<1>1. TipoGrado'
  BY DEF ExitCuenta, ITipo, TypeOK, TipoGrado
<1>2. TipoPausa'
  BY DEF ExitCuenta, ITipo, TypeOK, TipoPausa, Frenos
<1>3. /\ pc' \in [Hilos -> Etiquetas] /\ pc'["exit"] = "permiso"
      /\ \A g \in Hilos : g # "exit" => pc'[g] = pc[g]
  BY TipoIr, Nombres DEF ExitCuenta, Etiquetas
<1>4. TipoHilos' /\ Locales'
  BY <1>3, LocalesAjenos, Nombres, NombresAssumption DEF ExitCuenta, ITipo, TypeOK, TipoHilos
<1> QED BY <1>1, <1>2, <1>4, SinCambio DEF ExitCuenta, ITipo, TypeOK

\* One entry more or one of those there are less in lista_recursos_procesos.
LEMMA TipoAsignar ==
  ASSUME ITipo, NEW p, NEW r \in Recursos,
         \/ asignados' = [asignados EXCEPT ![p][r] = @ + 1]
         \/ asignados[p][r] > 0 /\ asignados' = [asignados EXCEPT ![p][r] = @ - 1]
  PROVE  asignados' \in [Pids -> [Recursos -> Nat]]
<1>1. asignados \in [Pids -> [Recursos -> Nat]]
  BY DEF ITipo, TypeOK, TipoRecursos
<1>2. CASE p \in Pids
  <2>1. asignados[p][r] \in Nat
    BY <1>1, <1>2
  <2>2. PICK n \in Nat : asignados' = [asignados EXCEPT ![p] = [@ EXCEPT ![r] = n]]
    BY <1>1, <1>2, <2>1
  <2> QED BY <1>1, <1>2, <2>2
<1>3. CASE p \notin Pids
  BY <1>1, <1>3
<1> QED BY <1>2, <1>3

\* liberar_recurso, from manejar_exit or from a SIGNAL.
LEMMA TipoLiberar ==
  ASSUME ITipo, NEW h \in Hilos, NEW r \in Recursos, LiberarRecurso(h, r)
  PROVE  /\ cola' \in [Colas -> Seq(Pids)] /\ empuje' \in [Hilos -> Empujes]
         /\ (mutex \in [Mutexes -> Hilos \cup {LIBRE}])'
         /\ instancias' \in [Recursos -> Int]
<1>1. r \in Colas /\ "ready" \in Colas
  BY Nombres
<1>2. cola' \in [Colas -> Seq(Pids)] /\ empuje' \in [Hilos -> Empujes]
  <2>1. CASE UNCHANGED <<cola, empuje>>
    BY <2>1 DEF ITipo, TypeOK, TipoDatos
  <2>2. CASE cola[r] # <<>> /\ Empujar(h, Sacar(cola, r), "ready", Head(cola[r]))
    BY <1>1, <2>2, TipoSacar, TipoEmpujar
  <2> QED BY <2>1, <2>2 DEF LiberarRecurso
<1>3. (mutex \in [Mutexes -> Hilos \cup {LIBRE}])'
  BY DEF LiberarRecurso, ITipo, TypeOK
<1>4. instancias' \in [Recursos -> Int]
  BY DEF LiberarRecurso, ITipo, TypeOK, TipoRecursos
<1> QED BY <1>2, <1>3, <1>4

\* ITipo is kept when manejar_exit gives one entry of lista_recursos_procesos back.
LEMMA TExitLibera == \A r \in Recursos : ITipo /\ ExitLibera(r) => ITipo'
<1> SUFFICES ASSUME NEW r \in Recursos, ITipo, ExitLibera(r) PROVE ITipo'
  OBVIOUS
<1>1. /\ cola' \in [Colas -> Seq(Pids)] /\ empuje' \in [Hilos -> Empujes]
      /\ (mutex \in [Mutexes -> Hilos \cup {LIBRE}])'
      /\ instancias' \in [Recursos -> Int]
  BY TipoLiberar, Nombres DEF ExitLibera
<1>2. TipoDatos'
  BY <1>1 DEF ExitLibera, ITipo, TypeOK, TipoDatos
<1>3. asignados' \in [Pids -> [Recursos -> Nat]]
  BY TipoAsignar DEF ExitLibera
<1>4. TipoRecursos'
  BY <1>1, <1>3 DEF TipoRecursos
<1> QED BY <1>1, <1>2, <1>4, SinCambio DEF ExitLibera, ITipo, TypeOK

\* ITipo is kept when the planner takes its permits and moves a process from READY to EXEC.
LEMMA TDespacha == ITipo /\ Despacha => ITipo'
<1> SUFFICES ASSUME ITipo, Despacha, ~ Muere("caido"), ~ Muere("indefinido") PROVE ITipo'
  BY TMuere
<1>1. ColaSiguiente \in Colas /\ cola[ColaSiguiente] # <<>>
  BY Nombres DEF Despacha, ColaSiguiente
<1>2. Sacar(cola, ColaSiguiente) \in [Colas -> Seq(Pids)] /\ Head(cola[ColaSiguiente]) \in Pids
  BY <1>1, TipoSacar
<1>3. cola' \in [Colas -> Seq(Pids)] /\ empuje' \in [Hilos -> Empujes]
  BY <1>2, TipoEmpujar, Nombres DEF Despacha
<1>4. TipoDatos'
  <2>1. sem["ready"] > 0 /\ sem' = [sem EXCEPT !["ready"] = @ - 1] /\ UNCHANGED estado
    BY DEF Despacha
  <2> QED BY <1>3, <2>1, Nombres DEF ITipo, TypeOK, TipoDatos
<1>5. TipoPausa'
  BY DEF Despacha, ITipo, TypeOK, TipoPausa, Frenos
<1>6. /\ pc' \in [Hilos -> Etiquetas] /\ pc'["corto"] = "espera"
      /\ \A g \in Hilos : g # "corto" => pc'[g] = pc[g]
  BY TipoIr, Nombres DEF Despacha, Etiquetas
<1>7. TipoHilos'
  BY <1>2, <1>6, Nombres DEF Despacha, ITipo, TypeOK, TipoHilos
<1>8. Locales'
  BY <1>2, <1>6, Nombres, NombresAssumption DEF Despacha, Locales, ITipo, TypeOK, TipoHilos
<1> QED BY <1>4, <1>5, <1>7, <1>8, SinCambio DEF Despacha, ITipo, TypeOK

\* ITipo is kept when the context comes back from the CPU.
LEMMA TCpuDevuelve == ITipo /\ CpuDevuelve => ITipo'
<1> SUFFICES ASSUME ITipo, CpuDevuelve PROVE ITipo'
  OBVIOUS
<1>1. mano["corto"] \in Pids
  BY DEF CpuDevuelve, Turno, ITipo, Locales
<1>2. bloqueo[mano["corto"]] \in Bloqueos
  BY <1>1 DEF ITipo, TypeOK, TipoPcb
<1>3. Retornos(mano["corto"]) \subseteq Contextos
  <2>1. Llamadas \subseteq Contextos
    BY DEF Llamadas, Contextos, Motivos, Bloqueos, Quantums, Invalidos
  <2>2. Otras(mano["corto"]) \subseteq Contextos /\ Interrumpida(mano["corto"]) \in Contextos
    BY <1>2 DEF Otras, Interrumpida, Contextos, Motivos
  <2> QED BY <2>1, <2>2 DEF Retornos
<1>4. TipoInterrupcion'
  BY DEF CpuDevuelve, ITipo, TypeOK, TipoInterrupcion
<1>5. /\ pc' \in [Hilos -> Etiquetas] /\ pc'["corto"] = "maneja"
      /\ \A g \in Hilos : g # "corto" => pc'[g] = pc[g]
  BY TipoIr, Nombres DEF CpuDevuelve, Etiquetas
<1>6. TipoHilos'
  BY <1>3, <1>5 DEF CpuDevuelve, ITipo, TypeOK, TipoHilos
<1>7. Locales'
  BY <1>1, <1>5, Nombres, NombresAssumption DEF CpuDevuelve, Locales, ITipo, TypeOK, TipoHilos
<1> QED BY <1>4, <1>6, <1>7, SinCambio DEF CpuDevuelve, ITipo, TypeOK

\* ITipo is kept when manejar_proceso takes sem_planificacion_exec, pops EXEC and
\* chooses a queue.
LEMMA TManejaProceso == ITipo /\ ManejaProceso => ITipo'
<1> SUFFICES ASSUME ITipo, ManejaProceso, ~ Muere("caido"), ~ Muere("indefinido") PROVE ITipo'
  BY TMuere
<1> DEFINE p == Head(cola["exec"])
           c == IF InterrumpeUsuario THEN "exit" ELSE Destino(contexto)
<1>1. Sacar(cola, "exec") \in [Colas -> Seq(Pids)] /\ p \in Pids
  BY TipoSacar, Nombres DEF ManejaProceso
<1>2. contexto.bloqueo \in Bloqueos /\ contexto.queda \in BOOLEAN
  BY DEF ITipo, TypeOK, TipoHilos, Contextos
<1>3. c \in Colas
  BY Nombres DEF Destino
<1>4. cola' \in [Colas -> Seq(Pids)] /\ empuje' \in [Hilos -> Empujes]
  <2>1. CASE cola' = Sacar(cola, "exec") /\ UNCHANGED empuje
    BY <1>1, <2>1 DEF ITipo, TypeOK, TipoDatos
  <2>2. CASE Empujar("corto", Sacar(cola, "exec"), c, p)
    BY <1>1, <1>3, <2>2, TipoEmpujar, Nombres
  <2> QED BY <2>1, <2>2 DEF ManejaProceso
<1>5. TipoDatos'
  <2>1. estado' = [estado EXCEPT ![p] = "EJECUTANDO"] /\ UNCHANGED sem
    BY DEF ManejaProceso
  <2> QED BY <1>4, <2>1 DEF ITipo, TypeOK, TipoDatos, Estados
<1>6. TipoPcb'
  <2>1. /\ bloqueo' = [bloqueo EXCEPT ![p] = contexto.bloqueo]
        /\ queda' = [queda EXCEPT ![p] = contexto.queda] /\ UNCHANGED <<proximo, listaPcb>>
    BY DEF ManejaProceso
  <2> QED BY <1>2, <2>1 DEF ITipo, TypeOK, TipoPcb
<1>7. TipoPausa' /\ TipoInterrupcion'
  <2>1. /\ plan["exec"] > 0 /\ plan' = [plan EXCEPT !["exec"] = @ - 1]
        /\ UNCHANGED <<parando, existe, bloqueado, recibiendo, enviadas>>
        /\ hayInterrupcion' = (hayInterrupcion /\ ~ InterrumpeUsuario)
    BY DEF ManejaProceso
  <2>2. TipoPausa'
    BY <2>1 DEF ITipo, TypeOK, TipoPausa, Frenos
  <2>3. TipoInterrupcion'
    BY <2>1 DEF ITipo, TypeOK, TipoInterrupcion
  <2> QED BY <2>2, <2>3
<1>8. /\ mano' = [mano EXCEPT !["corto"] = p] /\ UNCHANGED <<contexto, orden, grado>>
      /\ \/ Ir("corto", "recurso") /\ EsRecurso(contexto)
         \/ Ir("corto", "termina")
  BY DEF ManejaProceso
<1>9. /\ pc' \in [Hilos -> Etiquetas]
      /\ pc'["corto"] = "termina" \/ (pc'["corto"] = "recurso" /\ RecursoPedido \in Recursos)
      /\ \A g \in Hilos : g # "corto" => pc'[g] = pc[g]
  BY <1>8, TipoIr, Nombres DEF Etiquetas, EsRecurso, RecursoPedido
<1>10. TipoHilos'
  BY <1>1, <1>8, <1>9 DEF ITipo, TypeOK, TipoHilos
<1>11. Locales'
  BY <1>1, <1>8, <1>9, Nombres, NombresAssumption
  DEF Locales, RecursoPedido, ITipo, TypeOK, TipoHilos
<1> QED BY <1>5, <1>6, <1>7, <1>10, <1>11, SinCambio DEF ManejaProceso, ITipo, TypeOK

\* Back to the planner: nothing is left of the burst.
LEMMA TipoVolver ==
  ASSUME ITipo, NEW planes \in [Frenos -> Nat], VolverAlPlanificador(planes),
         UNCHANGED <<parando, existe, bloqueado, orden, grado>>
  PROVE  TipoPausa' /\ TipoHilos' /\ Locales' /\ (mutex \in [Mutexes -> Hilos \cup {LIBRE}])'
<1>1. SinContexto \in Contextos
  <2>1. SinBloqueo \in Bloqueos
    BY DEF SinBloqueo, Bloqueos
  <2> QED BY <2>1 DEF SinContexto, Contextos
<1>2. /\ pc' \in [Hilos -> Etiquetas] /\ pc'["corto"] = "permiso"
      /\ \A g \in Hilos : g # "corto" => pc'[g] = pc[g]
  BY TipoIr, Nombres DEF VolverAlPlanificador, Etiquetas
<1>3. mano' = [mano EXCEPT !["corto"] = NADIE] /\ contexto' = SinContexto
  BY DEF VolverAlPlanificador
<1>4. TipoPausa'
  BY DEF VolverAlPlanificador, ITipo, TypeOK, TipoPausa, Frenos
<1>5. TipoHilos'
  BY <1>1, <1>2, <1>3 DEF ITipo, TypeOK, TipoHilos
<1>6. Locales'
  BY <1>2, <1>3, Nombres, NombresAssumption DEF Locales, ITipo, TypeOK, TipoHilos
<1>7. (mutex \in [Mutexes -> Hilos \cup {LIBRE}])'
  BY DEF VolverAlPlanificador, ITipo, TypeOK
<1> QED BY <1>4, <1>5, <1>6, <1>7

\* ITipo is kept when manejar_proceso ends and returns to the planner, posting the
\* permits of EXEC and READY.
LEMMA TTermina == ITipo /\ Termina => ITipo'
<1> SUFFICES ASSUME ITipo, Termina PROVE ITipo'
  OBVIOUS
<1>1. [plan EXCEPT !["exec"] = @ + 1] \in [Frenos -> Nat]
  BY DEF ITipo, TypeOK, TipoPausa, Frenos
<1>2. TipoPausa' /\ TipoHilos' /\ Locales' /\ (mutex \in [Mutexes -> Hilos \cup {LIBRE}])'
  BY <1>1, TipoVolver DEF Termina
<1>3. TipoInterrupcion'
  BY DEF Termina, ITipo, TypeOK, TipoInterrupcion
<1> QED BY <1>2, <1>3, SinCambio DEF Termina, ITipo, TypeOK

\* ITipo is kept when manejar_recurso returns to the planner, posting the permit of READY.
LEMMA TDesenrolla == ITipo /\ Desenrolla => ITipo'
<1> SUFFICES ASSUME ITipo, Desenrolla PROVE ITipo'
  OBVIOUS
<1>1. plan \in [Frenos -> Nat]
  BY DEF ITipo, TypeOK, TipoPausa
<1>2. TipoPausa' /\ TipoHilos' /\ Locales' /\ (mutex \in [Mutexes -> Hilos \cup {LIBRE}])'
  BY <1>1, TipoVolver DEF Desenrolla
<1> QED BY <1>2, SinCambio DEF Desenrolla, ITipo, TypeOK

\* A step of the planner inside its call keeps mano, contexto and the console's
\* locals; entering wait, anota, signal or libera it works on a resource.
LEMMA LocalesCorto ==
  ASSUME ITipo, NEW e \in Etiquetas, Ir("corto", e), UNCHANGED <<mano, contexto, orden, grado>>,
         pc["corto"] \notin {"apagado", "permiso"},
         e \in {"recurso", "wait", "anota", "signal", "libera"} =>
            pc["corto"] \in {"recurso", "wait", "anota", "signal", "libera"}
  PROVE  TipoHilos' /\ Locales'
<1>1. /\ pc' \in [Hilos -> Etiquetas] /\ pc'["corto"] = e
      /\ \A g \in Hilos : g # "corto" => pc'[g] = pc[g]
  BY TipoIr, Nombres
<1>2. TipoHilos'
  BY <1>1 DEF ITipo, TypeOK, TipoHilos
<1>3. Locales'
  BY <1>1, Nombres, NombresAssumption DEF Locales, RecursoPedido, ITipo
<1> QED BY <1>2, <1>3

\* ITipo is kept when manejar_recurso posts sem_planificacion_exec before it touches the
\* resource.
LEMMA TEntraRecurso == ITipo /\ EntraRecurso => ITipo'
<1> SUFFICES ASSUME ITipo, EntraRecurso PROVE ITipo'
  OBVIOUS
<1>1. TipoHilos' /\ Locales'
  BY LocalesCorto DEF EntraRecurso, Turno, Etiquetas
<1>2. TipoInterrupcion'
  BY DEF EntraRecurso, ITipo, TypeOK, TipoInterrupcion
<1>3. TipoPausa'
  BY DEF EntraRecurso, Frenos, ITipo, TypeOK, TipoPausa
<1> QED BY <1>1, <1>2, <1>3, SinCambio DEF EntraRecurso, ITipo, TypeOK

\* ITipo is kept when a WAIT takes one instance.
LEMMA TWait == ITipo /\ Wait => ITipo'
<1> SUFFICES ASSUME ITipo, Wait PROVE ITipo'
  OBVIOUS
<1>1. TipoHilos' /\ Locales'
  BY LocalesCorto DEF Wait, Turno, Etiquetas
<1>2. TipoRecursos'
  <2>1. RecursoPedido \in Recursos
    BY DEF Wait, Turno, ITipo, Locales
  <2> QED BY <2>1 DEF Wait, ITipo, TypeOK, TipoRecursos
<1>3. (mutex \in [Mutexes -> Hilos \cup {LIBRE}])'
  BY Nombres DEF Wait, Tomar, ITipo, TypeOK
<1> QED BY <1>1, <1>2, <1>3, SinCambio DEF Wait, ITipo, TypeOK

\* The end of a WAIT or of a SIGNAL, where the process goes on or yields, keeps the types.
LEMMA TipoSeguir ==
  ASSUME ITipo, SeguirOListo(mano["corto"]), mano["corto"] \in Pids,
         pc["corto"] \notin {"apagado", "permiso"},
         UNCHANGED <<mano, contexto, orden, grado>>
  PROVE  /\ cola' \in [Colas -> Seq(Pids)] /\ empuje' \in [Hilos -> Empujes]
         /\ TipoHilos' /\ Locales'
<1>1. cola \in [Colas -> Seq(Pids)]
  BY DEF ITipo, TypeOK, TipoDatos
<1>2. CASE Empujar("corto", cola, "exec", mano["corto"]) /\ Ir("corto", "espera")
  BY <1>1, <1>2, TipoEmpujar, LocalesCorto, Nombres DEF Etiquetas
<1>3. CASE Empujar("corto", cola, "ready", mano["corto"]) /\ Ir("corto", "desenrolla")
  BY <1>1, <1>3, TipoEmpujar, LocalesCorto, Nombres DEF Etiquetas
<1> QED BY <1>2, <1>3 DEF SeguirOListo

\* ITipo is kept when a WAIT is written in lista_recursos_procesos and goes on or blocks.
LEMMA TWaitAnota == ITipo /\ WaitAnota => ITipo'
<1> SUFFICES ASSUME ITipo, WaitAnota PROVE ITipo'
  OBVIOUS
<1>1. /\ mano["corto"] \in Pids /\ RecursoPedido \in Recursos /\ cola \in [Colas -> Seq(Pids)]
      /\ pc["corto"] \notin {"apagado", "permiso"}
  BY DEF WaitAnota, Turno, ITipo, Locales, TypeOK, TipoDatos
<1>2. asignados' \in [Pids -> [Recursos -> Nat]]
  BY <1>1, TipoAsignar DEF WaitAnota
<1>3. /\ cola' \in [Colas -> Seq(Pids)] /\ empuje' \in [Hilos -> Empujes]
      /\ TipoHilos' /\ Locales'
  <2>1. CASE SeguirOListo(mano["corto"])
    BY <1>1, <2>1, TipoSeguir DEF WaitAnota
  <2>2. CASE Empujar("corto", cola, RecursoPedido, mano["corto"]) /\ Ir("corto", "desenrolla")
    BY <1>1, <2>2, TipoEmpujar, LocalesCorto, Nombres DEF WaitAnota, Etiquetas
  <2> QED BY <2>1, <2>2 DEF WaitAnota
<1>4. TipoDatos' /\ TipoRecursos'
  BY <1>2, <1>3 DEF WaitAnota, ITipo, TypeOK, TipoDatos, TipoRecursos
<1> QED BY <1>3, <1>4, SinCambio DEF WaitAnota, ITipo, TypeOK

\* ITipo is kept when a SIGNAL removes its entry or ends the process.
LEMMA TSignal == ITipo /\ Signal => ITipo'
<1> SUFFICES ASSUME ITipo, Signal PROVE ITipo'
  OBVIOUS
<1>1. /\ mano["corto"] \in Pids /\ RecursoPedido \in Recursos /\ cola \in [Colas -> Seq(Pids)]
      /\ pc["corto"] = "signal"
  BY DEF Signal, Turno, ITipo, Locales, TypeOK, TipoDatos
<1>2. CASE asignados[mano["corto"]][RecursoPedido] > 0
  <2>1. asignados' \in [Pids -> [Recursos -> Nat]]
    BY <1>1, <1>2, TipoAsignar DEF Signal
  <2>2. TipoHilos' /\ Locales' /\ UNCHANGED datosVars
    BY <1>1, <1>2, LocalesCorto DEF Signal, Etiquetas
  <2>3. TipoRecursos'
    BY <2>1 DEF Signal, ITipo, TypeOK, TipoRecursos
  <2> QED BY <2>2, <2>3, SinCambio DEF Signal, ITipo, TypeOK
<1>3. CASE ~ (asignados[mano["corto"]][RecursoPedido] > 0)
  <2>1. Empujar("corto", cola, "exit", mano["corto"]) /\ Ir("corto", "desenrolla")
        /\ UNCHANGED recursoVars
    BY <1>3 DEF Signal
  <2>2. cola' \in [Colas -> Seq(Pids)] /\ empuje' \in [Hilos -> Empujes]
    BY <1>1, <2>1, TipoEmpujar, Nombres
  <2>3. TipoHilos' /\ Locales'
    BY <1>1, <2>1, LocalesCorto DEF Signal, Etiquetas
  <2>4. TipoDatos'
    BY <2>2 DEF Signal, ITipo, TypeOK, TipoDatos
  <2> QED BY <2>1, <2>3, <2>4, SinCambio DEF Signal, ITipo, TypeOK
<1> QED BY <1>2, <1>3

\* ITipo is kept when a SIGNAL calls liberar_recurso.
LEMMA TSignalLibera == ITipo /\ SignalLibera => ITipo'
<1> SUFFICES ASSUME ITipo, SignalLibera PROVE ITipo'
  OBVIOUS
<1>1. RecursoPedido \in Recursos
  BY DEF SignalLibera, Turno, ITipo, Locales
<1>2. /\ cola' \in [Colas -> Seq(Pids)] /\ empuje' \in [Hilos -> Empujes]
      /\ (mutex \in [Mutexes -> Hilos \cup {LIBRE}])' /\ instancias' \in [Recursos -> Int]
  BY <1>1, TipoLiberar, Nombres DEF SignalLibera
<1>3. TipoHilos' /\ Locales'
  BY LocalesCorto DEF SignalLibera, Turno, Etiquetas
<1>4. TipoDatos' /\ TipoRecursos'
  BY <1>2 DEF SignalLibera, ITipo, TypeOK, TipoDatos, TipoRecursos
<1> QED BY <1>2, <1>3, <1>4, SinCambio DEF SignalLibera, ITipo, TypeOK

\* ITipo is kept when the process of a SIGNAL goes on in the CPU or to READY.
LEMMA TSignalSigue == ITipo /\ SignalSigue => ITipo'
<1> SUFFICES ASSUME ITipo, SignalSigue PROVE ITipo'
  OBVIOUS
<1>1. mano["corto"] \in Pids /\ pc["corto"] = "sigue"
  BY DEF SignalSigue, Turno, ITipo, Locales
<1>2. /\ cola' \in [Colas -> Seq(Pids)] /\ empuje' \in [Hilos -> Empujes]
      /\ TipoHilos' /\ Locales'
  BY <1>1, TipoSeguir DEF SignalSigue
<1>3. TipoDatos'
  BY <1>2 DEF SignalSigue, ITipo, TypeOK, TipoDatos
<1> QED BY <1>2, <1>3, SinCambio DEF SignalSigue, ITipo, TypeOK

\* ITipo is kept when manejar_io takes the first process of its queue.
LEMMA TIoToma == \A i \in Interfaces : ITipo /\ IoToma(i) => ITipo'
<1> SUFFICES ASSUME NEW i \in Interfaces, ITipo, IoToma(i), ~ Muere("caido"), ~ Muere("indefinido")
             PROVE ITipo'
  BY TMuere
<1>1. i \in Colas /\ i \in ConPermiso /\ i \in Hilos
  BY Nombres
<1>2. /\ sem[i] > 0 /\ sem' = [sem EXCEPT ![i] = @ - 1] /\ mutex' = [mutex EXCEPT !["kernel_io"] = i]
      /\ cola[i] # <<>> /\ mano' = [mano EXCEPT ![i] = Head(cola[i])] /\ Ir(i, "atiende")
      /\ UNCHANGED <<cola, empuje, estado, contexto, orden, grado>>
  BY DEF IoToma, Tomar
<1>3. Head(cola[i]) \in Pids
  BY <1>1, <1>2, TipoSacar
<1>4. TipoDatos' /\ (mutex \in [Mutexes -> Hilos \cup {LIBRE}])'
  <2>1. sem' \in [ConPermiso -> Nat]
    BY <1>1, <1>2 DEF ITipo, TypeOK, TipoDatos
  <2>2. (mutex \in [Mutexes -> Hilos \cup {LIBRE}])'
    BY <1>1, <1>2 DEF ITipo, TypeOK
  <2> QED BY <1>2, <2>1, <2>2 DEF ITipo, TypeOK, TipoDatos
<1>5. /\ pc' \in [Hilos -> Etiquetas] /\ \A g \in Hilos : g # i => pc'[g] = pc[g]
  BY <1>1, <1>2, TipoIr DEF Etiquetas
<1>6. TipoHilos'
  BY <1>2, <1>3, <1>5 DEF ITipo, TypeOK, TipoHilos
<1>7. Locales'
  BY <1>1, <1>2, <1>3, <1>5, Nombres, NombresAssumption
  DEF Locales, RecursoPedido, ITipo, TypeOK, TipoHilos
<1> QED BY <1>4, <1>6, <1>7, SinCambio DEF IoToma, ITipo, TypeOK

\* ITipo is kept when manejar_io gets ERROR.
LEMMA TIoError == \A i \in Interfaces : ITipo /\ IoError(i) => ITipo'
<1> SUFFICES ASSUME NEW i \in Interfaces, ITipo, IoError(i) PROVE ITipo'
  OBVIOUS
<1>1. TipoHistoria'
  BY DEF IoError, ITipo, TypeOK, TipoHistoria
<1>2. (mutex \in [Mutexes -> Hilos \cup {LIBRE}])'
  BY DEF IoError, Soltar, ITipo, TypeOK
<1>3. /\ pc' \in [Hilos -> Etiquetas] /\ pc'[i] = "permiso"
      /\ \A g \in Hilos : g # i => pc'[g] = pc[g]
  BY Nombres, TipoIr DEF IoError, Etiquetas
<1>4. TipoHilos'
  BY <1>3 DEF IoError, ITipo, TypeOK, TipoHilos
<1>5. TipoConsola'
  BY DEF IoError, ITipo, TypeOK, TipoConsola
<1>6. Locales'
  BY <1>3, Nombres, NombresAssumption DEF IoError, Locales, RecursoPedido, ITipo, TypeOK, TipoHilos
<1> QED BY <1>1, <1>2, <1>4, <1>5, <1>6, SinCambio DEF IoError, ITipo, TypeOK

\* ITipo is kept when manejar_io gets BLOQUEO_TERMINADO.
LEMMA TIoTermina == \A i \in Interfaces : ITipo /\ IoTermina(i) => ITipo'
<1> SUFFICES ASSUME NEW i \in Interfaces, ITipo, IoTermina(i), ~ Muere("caido"), ~ Muere("indefinido")
             PROVE ITipo'
  BY TMuere
<1>1. i \in Colas /\ i \in Hilos /\ mano[i] \in Pids
  BY Nombres DEF IoTermina, Turno, ITipo, Locales
<1>2. /\ bloqueo' = [bloqueo EXCEPT ![mano[i]] = SinBloqueo]
      /\ mano' = [mano EXCEPT ![i] = NADIE] /\ Ir(i, "permiso")
      /\ UNCHANGED <<sem, estado, queda, proximo, listaPcb, contexto, orden, grado>>
  BY DEF IoTermina
<1>3. cola' \in [Colas -> Seq(Pids)] /\ empuje' \in [Hilos -> Empujes]
  <2>1. CASE UNCHANGED <<cola, empuje>>
    BY <2>1 DEF ITipo, TypeOK, TipoDatos
  <2>2. ASSUME NEW c \in {"aux", "ready"},
               Empujar(i, [cola EXCEPT ![i] = Quitar(@, mano[i])], c, mano[i])
        PROVE cola' \in [Colas -> Seq(Pids)] /\ empuje' \in [Hilos -> Empujes]
    BY <1>1, <2>2, TipoQuitar, TipoEmpujar, Nombres
  <2> QED BY <2>1, <2>2 DEF IoTermina
<1>4. (mutex \in [Mutexes -> Hilos \cup {LIBRE}])'
  BY DEF IoTermina, Soltar, ITipo, TypeOK
<1>5. TipoDatos' /\ TipoPcb'
  <2>1. SinBloqueo \in Bloqueos
    BY DEF SinBloqueo, Bloqueos
  <2> QED BY <1>2, <1>3, <2>1 DEF ITipo, TypeOK, TipoDatos, TipoPcb
<1>6. /\ pc' \in [Hilos -> Etiquetas] /\ pc'[i] = "permiso"
      /\ \A g \in Hilos : g # i => pc'[g] = pc[g]
  BY <1>1, <1>2, TipoIr DEF Etiquetas
<1>7. TipoHilos'
  BY <1>2, <1>6 DEF ITipo, TypeOK, TipoHilos
<1>8. Locales'
  BY <1>1, <1>2, <1>6, Nombres, NombresAssumption
  DEF Locales, RecursoPedido, ITipo, TypeOK, TipoHilos
<1> QED BY <1>4, <1>5, <1>7, <1>8, SinCambio DEF IoTermina, ITipo, TypeOK

\* ITipo is kept when INICIAR_PROCESO creates a PCB in NEW.
LEMMA TIniciarProceso == ITipo /\ IniciarProceso => ITipo'
<1> SUFFICES ASSUME ITipo, IniciarProceso PROVE ITipo'
  OBVIOUS
<1>1. proximo \in Pids /\ proximo + 1 \in 0 .. N
  BY TamanosAssumption DEF IniciarProceso, Pids, ITipo, TypeOK, TipoPcb
<1>2. cola' \in [Colas -> Seq(Pids)] /\ empuje' \in [Hilos -> Empujes]
  <2>1. cola \in [Colas -> Seq(Pids)]
    BY DEF ITipo, TypeOK, TipoDatos
  <2> QED BY <1>1, <2>1, TipoEmpujar, Nombres DEF IniciarProceso
<1>3. TipoDatos' /\ TipoPcb'
  BY <1>1, <1>2 DEF IniciarProceso, ITipo, TypeOK, TipoDatos, TipoPcb
<1> QED BY <1>3, SinCambio DEF IniciarProceso, ITipo, TypeOK

\* detener_planificacion keeps the type of what the pause uses.
LEMMA TipoDetener == ITipo /\ Detener => TipoPausa'
BY DEF Detener, ITipo, TypeOK, TipoPausa

\* iniciar_planificacion keeps the type of what the pause uses.
LEMMA TipoIniciar == ITipo /\ Iniciar => TipoPausa'
<1> SUFFICES ASSUME ITipo, Iniciar PROVE TipoPausa'
  OBVIOUS
<1>1. plan' \in [Frenos -> Nat]
  BY DEF Iniciar, ITipo, TypeOK, TipoPausa
<1>2. parando' \in [Frenos -> Nat] /\ existe' \in BOOLEAN /\ bloqueado' \in BOOLEAN
  BY DEF Iniciar, ITipo, TypeOK, TipoPausa
<1> QED BY <1>1, <1>2 DEF TipoPausa

\* iniciar_planificacion takes the console back to its prompt and, the first time,
\* puts the planner threads where they wait.
LEMMA HilosIniciar ==
  ASSUME ITipo, Iniciar
  PROVE  /\ pc' \in [Hilos -> Etiquetas] /\ pc'["consola"] = "prompt"
         /\ pc'["corto"] \in {pc["corto"], "permiso"}
         /\ \A i \in Interfaces : pc'[i] = pc[i]
<1>1. CASE existe
  <2>1. pc' = [pc EXCEPT !["consola"] = "prompt"]
    BY <1>1 DEF Iniciar
  <2> QED BY <2>1, Nombres, NombresAssumption DEF ITipo, TypeOK, TipoHilos, Etiquetas
<1>2. CASE ~ existe
  <2>1. pc' = PlanificadorCreado
    BY <1>2 DEF Iniciar
  <2> QED BY <2>1, Nombres, NombresAssumption DEF PlanificadorCreado, ITipo, TypeOK, TipoHilos, Etiquetas
<1> QED BY <1>1, <1>2

\* ITipo is kept when INICIAR_PLANIFICACION creates or resumes the planner.
LEMMA TIniciarPlanificacion == ITipo /\ IniciarPlanificacion => ITipo'
<1> SUFFICES ASSUME ITipo, IniciarPlanificacion PROVE ITipo'
  OBVIOUS
<1>1. Iniciar /\ UNCHANGED <<mano, contexto, orden, grado>>
  BY DEF IniciarPlanificacion
<1>2. TipoPausa'
  BY <1>1, TipoIniciar
<1>3. TipoHilos'
  BY <1>1, HilosIniciar DEF ITipo, TypeOK, TipoHilos
<1>4. Locales'
  BY <1>1, HilosIniciar DEF Locales, RecursoPedido, ITipo
<1>5. TipoConsola'
  BY TamanosAssumption DEF IniciarPlanificacion, Comando, ITipo, TypeOK, TipoConsola
<1> QED BY <1>2, <1>3, <1>4, <1>5, SinCambio DEF IniciarPlanificacion, ITipo, TypeOK

\* ITipo is kept when a command ends with iniciar_planificacion.
LEMMA TReanuda == ITipo /\ Reanuda => ITipo'
<1> SUFFICES ASSUME ITipo, Reanuda PROVE ITipo'
  OBVIOUS
<1>1. /\ Iniciar /\ UNCHANGED <<contexto, grado, comandos, historiaVars>>
      /\ mano' = [mano EXCEPT !["consola"] = NADIE] /\ orden' = SinOrden
  BY DEF Reanuda
<1>2. TipoPausa'
  BY <1>1, TipoIniciar
<1>3. TipoHilos'
  BY <1>1, HilosIniciar DEF ITipo, TypeOK, TipoHilos
<1>4. Locales'
  BY <1>1, HilosIniciar, Nombres, NombresAssumption DEF Locales, RecursoPedido, ITipo, TypeOK, TipoHilos
<1>5. TipoConsola'
  BY <1>1 DEF SinOrden, Estados, ITipo, TypeOK, TipoConsola
<1> QED BY <1>2, <1>3, <1>4, <1>5, SinCambio DEF Reanuda, ITipo, TypeOK

\* ITipo is kept when DETENER_PLANIFICACION sets the flag and starts the stop threads.
LEMMA TDetenerPlanificacion == ITipo /\ DetenerPlanificacion => ITipo'
<1> SUFFICES ASSUME ITipo, DetenerPlanificacion PROVE ITipo'
  OBVIOUS
<1>1. TipoPausa'
  BY TipoDetener DEF DetenerPlanificacion
<1>2. TipoConsola'
  BY TamanosAssumption DEF DetenerPlanificacion, Comando, ITipo, TypeOK, TipoConsola
<1>3. Locales'
  BY DEF DetenerPlanificacion, Locales, RecursoPedido, ITipo
<1> QED BY <1>1, <1>2, <1>3, SinCambio DEF DetenerPlanificacion, ITipo, TypeOK

\* A step of the console keeps mano and contexto except for its own process; of its
\* points only elimina and baja count on something.
LEMMA LocalesConsola ==
  ASSUME ITipo, NEW e \in Etiquetas, Ir("consola", e), UNCHANGED contexto,
         mano' \in [Hilos -> Pids \cup {NADIE}],
         \A h \in Hilos : h # "consola" => mano'[h] = mano[h],
         e = "elimina" => mano'["consola"] \in Pids,
         e = "baja" => (orden.nuevo <= grado)'
  PROVE  TipoHilos' /\ Locales'
<1>1. /\ pc' \in [Hilos -> Etiquetas] /\ pc'["consola"] = e
      /\ \A g \in Hilos : g # "consola" => pc'[g] = pc[g]
  BY TipoIr, Nombres
<1>2. TipoHilos'
  BY <1>1 DEF ITipo, TypeOK, TipoHilos
<1>3. Locales'
  BY <1>1, Nombres, NombresAssumption DEF Locales, RecursoPedido, ITipo
<1> QED BY <1>2, <1>3

\* ITipo is kept when PROCESO_ESTADO pauses the planner.
LEMMA TProcesoEstado == ITipo /\ ProcesoEstado => ITipo'
<1> SUFFICES ASSUME ITipo, ProcesoEstado PROVE ITipo'
  OBVIOUS
<1>1. TipoPausa'
  BY TipoDetener DEF ProcesoEstado
<1>2. TipoConsola'
  BY TamanosAssumption DEF ProcesoEstado, Comando, ITipo, TypeOK, TipoConsola
<1>3. TipoHilos' /\ Locales'
  BY LocalesConsola, Nombres DEF ProcesoEstado, Etiquetas, ITipo, TypeOK, TipoHilos
<1> QED BY <1>1, <1>2, <1>3, SinCambio DEF ProcesoEstado, ITipo, TypeOK

\* ITipo is kept when FINALIZAR_PROCESO looks the process up and reads its state.
LEMMA TFinalizarProceso == \A p \in Pids : ITipo /\ FinalizarProceso(p) => ITipo'
<1> SUFFICES ASSUME NEW p \in Pids, ITipo, FinalizarProceso(p), ~ Muere("caido") PROVE ITipo'
  BY TMuere
<1>1. TipoPausa'
  BY TipoDetener DEF FinalizarProceso
<1>2. TipoConsola'
  BY TamanosAssumption DEF FinalizarProceso, ITipo, TypeOK, TipoConsola, TipoDatos
<1>5. TipoHistoria'
  BY DEF FinalizarProceso, ITipo, TypeOK, TipoHistoria
<1>3. mano' = [mano EXCEPT !["consola"] = p] /\ Ir("consola", "elimina") /\ UNCHANGED contexto
  BY DEF FinalizarProceso
<1>4. TipoHilos' /\ Locales'
  BY <1>3, LocalesConsola, Nombres DEF Etiquetas, ITipo, TypeOK, TipoHilos
<1> QED BY <1>1, <1>2, <1>4, <1>5, SinCambio DEF FinalizarProceso, ITipo, TypeOK

\* The move to EXIT of a process that FINALIZAR_PROCESO found in a queue keeps ITipo.
LEMMA TipoMoverAExit ==
  ASSUME ITipo, NEW c \in Colas, NEW p \in Pids, MoverAExit(c, p)
  PROVE  ITipo'
<1>1. cola' \in [Colas -> Seq(Pids)] /\ empuje' \in [Hilos -> Empujes]
  BY TipoQuitar, TipoEmpujar, Nombres DEF MoverAExit
<1>2. TipoDatos'
  BY <1>1 DEF MoverAExit, ITipo, TypeOK, TipoDatos
<1>3. TipoHilos' /\ Locales'
  BY LocalesConsola, Nombres DEF MoverAExit, Etiquetas, ITipo, TypeOK, TipoHilos
<1> QED BY <1>2, <1>3, SinCambio DEF MoverAExit, ITipo, TypeOK

\* ITipo is kept when buscar_proceso_y_eliminar acts on the state that was read.
LEMMA TElimina == ITipo /\ Elimina => ITipo'
<1> SUFFICES ASSUME ITipo, Elimina PROVE ITipo'
  OBVIOUS
<1> DEFINE p == mano["consola"]
<1>1. p \in Pids
  BY DEF Elimina, Turno, ITipo, Locales
<1>2. CASE EliminaEnCola(p)
  BY <1>1, <1>2, TipoMoverAExit, Nombres DEF EliminaEnCola
<1>3. CASE EliminaEjecutando(p)
  <2>1. TipoInterrupcion'
    BY <1>1, <1>3 DEF EliminaEjecutando, ITipo, TypeOK, TipoInterrupcion
  <2>2. TipoHilos' /\ Locales'
    BY <1>3, LocalesConsola, Nombres DEF EliminaEjecutando, Etiquetas, ITipo, TypeOK, TipoHilos
  <2> QED BY <1>3, <2>1, <2>2, SinCambio DEF EliminaEjecutando, ITipo, TypeOK
<1>4. CASE EliminaBloqueado(p)
  <2>1. CASE Muere("caido") \/ Muere("indefinido")
    BY <2>1, TMuere
  <2>2. CASE TieneCola(bloqueo[p]) /\ MoverAExit(bloqueo[p].nombre, p)
    <3>1. bloqueo[p].nombre \in Recursos \cup Interfaces
      BY <1>1, <2>2 DEF TieneCola, Bloqueos, ITipo, TypeOK, TipoPcb
    <3> QED BY <1>1, <2>2, <3>1, TipoMoverAExit, Nombres
  <2> QED BY <1>4, <2>1, <2>2 DEF EliminaBloqueado
<1>5. CASE EliminaTerminado
  <2>1. TipoHilos' /\ Locales'
    BY <1>5, LocalesConsola, Nombres DEF EliminaTerminado, Etiquetas, ITipo, TypeOK, TipoHilos
  <2> QED BY <1>5, <2>1, SinCambio DEF EliminaTerminado, ITipo, TypeOK
<1> QED BY <1>2, <1>3, <1>4, <1>5 DEF Elimina

\* ITipo is kept when MULTIPROGRAMACION raises the degree or starts lowering it.
LEMMA TMultiprogramacion == \A n \in NuevosGrados : ITipo /\ Multiprogramacion(n) => ITipo'
<1> SUFFICES ASSUME NEW n \in NuevosGrados, ITipo, Multiprogramacion(n) PROVE ITipo'
  OBVIOUS
<1>1. n \in Nat /\ grado \in Nat /\ multi \in Nat /\ MaxComandos \in Nat
  BY TamanosAssumption DEF ITipo, TypeOK, TipoGrado
<1>2. TipoPausa'
  BY TipoDetener DEF Multiprogramacion
<1>3. TipoGrado'
  BY <1>1 DEF Multiprogramacion, ITipo, TypeOK, TipoGrado
<1>4. TipoConsola'
  BY <1>1 DEF Multiprogramacion, Comando, ITipo, TypeOK, TipoConsola
<1>5. TipoHilos' /\ Locales'
  <2>1. CASE n > grado
    BY <2>1, LocalesConsola, Nombres DEF Multiprogramacion, Etiquetas, ITipo, TypeOK, TipoHilos
  <2>2. CASE ~ (n > grado)
    <3>1. orden'.nuevo = n /\ grado' = grado
      BY <2>2 DEF Multiprogramacion, ITipo, TypeOK, TipoConsola
    <3> QED
      BY <1>1, <2>2, <3>1, LocalesConsola, Nombres
      DEF Multiprogramacion, Etiquetas, ITipo, TypeOK, TipoHilos
  <2> QED BY <2>1, <2>2
<1> QED BY <1>2, <1>3, <1>4, <1>5, SinCambio DEF Multiprogramacion, ITipo, TypeOK

\* ITipo is kept when MULTIPROGRAMACION locks cant_proc_multip.
LEMMA TBajaGrado == ITipo /\ BajaGrado => ITipo'
<1> SUFFICES ASSUME ITipo, BajaGrado PROVE ITipo'
  OBVIOUS
<1>1. grado - orden.nuevo \in Nat
  BY DEF BajaGrado, Turno, ITipo, Locales, TypeOK, TipoGrado, TipoConsola
<1>2. TipoConsola'
  BY <1>1 DEF BajaGrado, ITipo, TypeOK, TipoConsola
<1>3. TipoHilos' /\ Locales'
  BY LocalesConsola, Nombres DEF BajaGrado, Etiquetas, ITipo, TypeOK, TipoHilos
<1>4. (mutex \in [Mutexes -> Hilos \cup {LIBRE}])'
  BY Nombres DEF BajaGrado, Tomar, ITipo, TypeOK
<1> QED BY <1>2, <1>3, <1>4, SinCambio DEF BajaGrado, ITipo, TypeOK

\* ITipo is kept when MULTIPROGRAMACION takes one permit of sem_multiprogramacion.
LEMMA TEsperaGrado == ITipo /\ EsperaGrado => ITipo'
<1> SUFFICES ASSUME ITipo, EsperaGrado PROVE ITipo'
  OBVIOUS
<1>1. TipoGrado' /\ TipoConsola'
  BY DEF EsperaGrado, ITipo, TypeOK, TipoGrado, TipoConsola
<1>2. Locales'
  BY DEF EsperaGrado, Locales, RecursoPedido, ITipo
<1> QED BY <1>1, <1>2, SinCambio DEF EsperaGrado, ITipo, TypeOK

\* ITipo is kept when MULTIPROGRAMACION locks mutex_ignorar_signal.
LEMMA TTomaIgnorar == ITipo /\ TomaIgnorar => ITipo'
<1> SUFFICES ASSUME ITipo, TomaIgnorar PROVE ITipo'
  OBVIOUS
<1>1. TipoConsola'
  BY DEF TomaIgnorar, ITipo, TypeOK, TipoConsola, TipoGrado
<1>2. TipoHilos' /\ Locales'
  BY LocalesConsola, Nombres DEF TomaIgnorar, Etiquetas, ITipo, TypeOK, TipoHilos
<1>3. (mutex \in [Mutexes -> Hilos \cup {LIBRE}])'
  BY Nombres DEF TomaIgnorar, Tomar, ITipo, TypeOK
<1> QED BY <1>1, <1>2, <1>3, SinCambio DEF TomaIgnorar, ITipo, TypeOK

\* ITipo is kept when MULTIPROGRAMACION writes the degree and unlocks.
LEMMA TFijaGrado == ITipo /\ FijaGrado => ITipo'
<1> SUFFICES ASSUME ITipo, FijaGrado PROVE ITipo'
  OBVIOUS
<1>1. TipoGrado'
  BY DEF FijaGrado, ITipo, TypeOK, TipoGrado, TipoConsola
<1>2. TipoHilos' /\ Locales'
  BY LocalesConsola, Nombres DEF FijaGrado, Etiquetas, ITipo, TypeOK, TipoHilos
<1>3. (mutex \in [Mutexes -> Hilos \cup {LIBRE}])'
  BY DEF FijaGrado, ITipo, TypeOK
<1>4. TipoHistoria'
  BY DEF FijaGrado, ITipo, TypeOK, TipoHistoria
<1>5. TipoConsola'
  BY DEF FijaGrado, ITipo, TypeOK, TipoConsola
<1> QED BY <1>1, <1>2, <1>3, <1>4, <1>5, SinCambio DEF FijaGrado, ITipo, TypeOK

\* ITipo is kept when the second half of a push_cola_* writes the state and posts.
LEMMA TPublicar == \A h \in Hilos : ITipo /\ Publicar(h) => ITipo'
<1> SUFFICES ASSUME NEW h \in Hilos, ITipo, Publicar(h), ~ Muere("indefinido") PROVE ITipo'
  BY TMuere
<1> DEFINE c == empuje[h].cola
           p == empuje[h].pid
<1>1. p \in Pids /\ c \in Colas /\ PublicarPcb(h, c, p)
  BY DEF Publicar, Empujes, ITipo, TypeOK, TipoDatos, TipoPcb
<1>2. EstadoDe(c) \in Estados
  BY DEF EstadoDe, Estados
<1>3. TipoDatos'
  <2>1. estado' \in [Pids -> Estados]
    BY <1>1, <1>2 DEF PublicarPcb, ITipo, TypeOK, TipoDatos
  <2>2. sem' \in [ConPermiso -> Nat]
    BY <1>1 DEF PublicarPcb, ITipo, TypeOK, TipoDatos
  <2>3. empuje' \in [Hilos -> Empujes] /\ UNCHANGED cola
    BY <1>1 DEF PublicarPcb, Empujes, ITipo, TypeOK, TipoDatos
  <2> QED BY <2>1, <2>2, <2>3 DEF ITipo, TypeOK, TipoDatos
<1>4. TipoGrado'
  BY <1>1 DEF PublicarPcb, DevolverGrado, ITipo, TypeOK, TipoGrado
<1>5. (mutex \in [Mutexes -> Hilos \cup {LIBRE}])'
  BY <1>1 DEF PublicarPcb, ITipo, TypeOK
<1>6. Locales'
  BY <1>1 DEF PublicarPcb, Locales, RecursoPedido, ITipo
<1> QED BY <1>1, <1>3, <1>4, <1>5, <1>6, SinCambio DEF PublicarPcb, ITipo, TypeOK

\* ITipo is kept when a stop thread gets its permit.
LEMMA TStopHilo == \A f \in Frenos : ITipo /\ StopHilo(f) => ITipo'
<1> SUFFICES ASSUME NEW f \in Frenos, ITipo, StopHilo(f) PROVE ITipo'
  OBVIOUS
<1>1. TipoPausa'
  BY DEF StopHilo, ITipo, TypeOK, TipoPausa
<1>2. Locales'
  BY DEF StopHilo, Locales, RecursoPedido, ITipo
<1> QED BY <1>1, <1>2, SinCambio DEF StopHilo, ITipo, TypeOK

\* ITipo holds when the kernel starts.
LEMMA TInit == Init => ITipo
<1> SUFFICES ASSUME Init PROVE ITipo
  OBVIOUS
<1> USE DEF Init
<1>1. TipoDatos
  <2>1. cola \in [Colas -> Seq(Pids)] /\ sem \in [ConPermiso -> Nat]
    OBVIOUS
  <2>2. estado \in [Pids -> Estados] /\ empuje \in [Hilos -> Empujes]
    BY DEF Estados, Empujes
  <2> QED BY <2>1, <2>2 DEF TipoDatos
<1>2. SinBloqueo \in Bloqueos
  BY DEF SinBloqueo, Bloqueos
<1>3. TipoPcb
  BY <1>2, TamanosAssumption DEF TipoPcb
<1>4. TipoGrado /\ TipoPausa /\ TipoInterrupcion
  <2>1. TipoGrado
    BY TamanosAssumption DEF TipoGrado
  <2>2. TipoPausa
    BY DEF TipoPausa
  <2>3. TipoInterrupcion
    BY DEF TipoInterrupcion
  <2> QED BY <2>1, <2>2, <2>3
<1>5. mutex \in [Mutexes -> Hilos \cup {LIBRE}]
  OBVIOUS
<1>6. TipoRecursos
  <2>1. instancias \in [Recursos -> Int]
    BY TamanosAssumption
  <2>2. asignados \in [Pids -> [Recursos -> Nat]]
    OBVIOUS
  <2> QED BY <2>1, <2>2 DEF TipoRecursos
<1>7. TipoHilos
  <2>1. pc \in [Hilos -> Etiquetas] /\ mano \in [Hilos -> Pids \cup {NADIE}]
    BY DEF Etiquetas
  <2>2. contexto \in Contextos
    BY <1>2 DEF SinContexto, Contextos
  <2> QED BY <2>1, <2>2 DEF TipoHilos
<1>8. TipoConsola
  BY TamanosAssumption DEF TipoConsola, SinOrden, Estados
<1>9. Locales
  BY NombresAssumption DEF Locales, Hilos
<1> HIDE DEF Init
<1>10. kernel \in {"vivo", "caido", "indefinido", "recorrido"}
  BY DEF Init
<1>11. TipoHistoria
  BY DEF Init, TipoHistoria
<1> QED BY <1>1, <1>3, <1>4, <1>5, <1>6, <1>7, <1>8, <1>9, <1>10, <1>11 DEF ITipo, TypeOK

\* ITipo is kept by every step of the console.
LEMMA TConsola == ITipo /\ PasoConsola => ITipo'
BY TIniciarProceso, TIniciarPlanificacion, TDetenerPlanificacion, TProcesoEstado, TReanuda,
   TElimina, TFinalizarProceso, TMultiprogramacion, TBajaGrado, TEsperaGrado, TTomaIgnorar,
   TFijaGrado
DEF PasoConsola

\* ITipo is kept by every step of the short-term planner.
LEMMA TCorto == ITipo /\ PasoCorto => ITipo'
BY TDespacha, TCpuDevuelve, TManejaProceso, TEntraRecurso, TWait, TWaitAnota, TSignal,
   TSignalLibera, TSignalSigue, TTermina, TDesenrolla
DEF PasoCorto

\* ITipo always holds: besides the types, every thread finds the process, the resource or
\* the degree it works on where its last step left it.
THEOREM TipoInvariante == Spec => []ITipo
<1>1. ITipo /\ [Next]_vars => ITipo'
  <2> SUFFICES ASSUME ITipo, [Next]_vars PROVE ITipo'
    OBVIOUS
  <2>1. CASE UNCHANGED vars
    BY <2>1, SinCambio DEF vars, ITipo, TypeOK
  <2>2. CASE PasoNew
    BY <2>2, TNewMulti, TNewPermiso, TNewSaca, TNewListo DEF PasoNew
  <2>3. CASE PasoExit
    BY <2>3, TExitSaca, TExitToma, TExitLibera, TExitFin, TExitCuenta DEF PasoExit
  <2>4. ASSUME NEW i \in Interfaces, PasoIo(i) PROVE ITipo'
    BY <2>4, TIoToma, TIoTermina, TIoError, TMuere DEF PasoIo, IoDesconexion
  <2>5. CASE RecorridoRoto
    BY <2>5, TMuere DEF RecorridoRoto
  <2> QED
    BY <2>1, <2>2, <2>3, <2>4, <2>5, TCorto, TConsola, TPublicar, TStopHilo DEF Next
<1> QED BY <1>1, TInit, PTL DEF Spec

\* Every variable of the kernel keeps its type, for any number of processes, resources and
\* interfaces: no semaphore goes below zero and no queue holds anything but a pid.
THEOREM TipoCorrecto == Spec => []TypeOK
<1>1. ITipo => TypeOK
  BY DEF ITipo
<1> QED BY <1>1, TipoInvariante, PTL
=============================================================================
