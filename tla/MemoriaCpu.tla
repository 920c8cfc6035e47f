----------------------------- MODULE MemoriaCpu -----------------------------
(***************************************************************************)
(* The CPU (cpu/src/cpu.c) as a client of the memory of Memoria.tla: fetch,*)
(* RESIZE, MMU and TLB, and the accesses of MOV_IN, MOV_OUT, COPY_STRING   *)
(* and the I/O instructions.  The kernel is CicloDeVida, the abstraction   *)
(* that Kernel.tla is shown to implement, plus the two messages it sends   *)
(* to memory on the way and, when Mata, the kills of FINALIZAR_PROCESO.    *)
(*                                                                         *)
(* A program may address any page, one it does not have included: the CPU  *)
(* does not check and memory, which has no fault to answer, ends.          *)
(* Registers and data are left out.                                        *)
(***************************************************************************)
EXTENDS Memoria

CONSTANTS
  Grado,          \* GRADO_MULTIPROGRAMACION
  EntradasTlb,    \* CANTIDAD_ENTRADAS_TLB
  AlgoritmoTlb,   \* ALGORITMO_TLB
  Tamanios,       \* arguments of RESIZE in the programs of the run
  Achica,         \* some program shrinks
  ConIo,          \* some program asks for I/O on its memory
  Mata            \* FINALIZAR_PROCESO is used on processes in NEW, READY or blocked

ASSUME CpuAssumption ==
  /\ Grado \in Nat \ {0} /\ EntradasTlb \in Nat /\ Tamanios \subseteq Nat
  /\ AlgoritmoTlb \in {"FIFO", "LRU"}
  /\ Achica \in BOOLEAN /\ ConIo \in BOOLEAN /\ Mata \in BOOLEAN

VARIABLES
  etapa,   \* the kernel's stage of each process
  cpu,     \* where the CPU is, pcb_actual, the page and the frame it works on
  tlb,     \* tlb, oldest entry first
  sobra,   \* the op_code of the first answer was read and its buffer was not
  enIo     \* frame whose address an interface got with the process's I/O

cpuVars == <<cpu, tlb, sobra>>
kernelVars == <<etapa, enIo>>
vars == <<memoriaVars, cpuVars, kernelVars>>

SINMARCO == -1
Libre0 == [en |-> "libre", pid |-> 0, pagina |-> 0, marco |-> SINMARCO]
Entradas == [pid : Pids, pagina : Nat, marco : Marcos]

Ciclo == INSTANCE CicloDeVida

Init ==
  /\ MemoriaInit
  /\ Ciclo!Init
  /\ cpu = Libre0 /\ tlb = <<>> /\ sobra = FALSE
  /\ enIo = [p \in Pids |-> SINMARCO]

EnPaso(e) == cpu.en = e /\ memoria = "viva"
Ir(e) == cpu' = [cpu EXCEPT !.en = e]
Pide(op, dato) == deCpu' = Append(deCpu, [op |-> op, pid |-> cpu.pid, dato |-> dato])
Avisa(op, p) == deKernel' = Append(deKernel, [op |-> op, pid |-> p])

memoriaSinCpu == <<lista, tablaVars, cerrado, hiloCpu, hiloKernel, deKernel, memoria>>
memoriaSinKernel == <<lista, tablaVars, cerrado, hiloCpu, hiloKernel, deCpu, respuestas, memoria>>

-----------------------------------------------------------------------------
(* The CPU *)

\* fetch asks for the instruction at PC.
Fetch ==
  /\ EnPaso("fetch")
  /\ Pide("BUSCAR_INSTRUCCION", 0)
  /\ Ir("instruccion")
  /\ UNCHANGED <<memoriaSinCpu, respuestas, tlb, sobra, kernelVars>>

\* recibir_operacion on a buffer left unread takes its size for an op_code: like
\* any code but INSTRUCCION_A_EJECUTAR, fetch ends the CPU with exit(-1).
RecibeInstruccion ==
  /\ EnPaso("instruccion") /\ respuestas # <<>>
  /\ IF sobra \/ Head(respuestas).op # "INSTRUCCION_A_EJECUTAR"
       THEN Ir("caida") /\ UNCHANGED respuestas
       ELSE Ir("ejecuta") /\ respuestas' = Tail(respuestas)
  /\ UNCHANGED <<memoriaSinCpu, deCpu, tlb, sobra, kernelVars>>

EjecutaResize(t) ==
  /\ EnPaso("ejecuta") /\ (Achica \/ t >= tamanio[cpu.pid])
  /\ Pide("OP_RESIZE", t)
  /\ Ir("resize")
  /\ UNCHANGED <<memoriaSinCpu, respuestas, tlb, sobra, kernelVars>>

\* OK takes op_code and buffer; OUT_OF_MEMORY_AVISO, only the op_code, and the
\* process goes back to the kernel to end.
RecibeResize ==
  /\ EnPaso("resize") /\ respuestas # <<>>
  /\ \/ /\ Head(respuestas).op = "OK"
        /\ respuestas' = Tail(respuestas)
        /\ Ir("fetch")
        /\ UNCHANGED <<sobra, kernelVars>>
     \/ /\ Head(respuestas).op = "OUT_OF_MEMORY_AVISO"
        /\ sobra' = TRUE
        /\ Ciclo!Terminar(cpu.pid)
        /\ cpu' = Libre0
        /\ UNCHANGED <<respuestas, enIo>>
  /\ UNCHANGED <<memoriaSinCpu, deCpu, tlb>>

(* consultar_mmu *)

\* Mutant: the TLB is searched by page only.
MutEnTlb(p, k) == {j \in 1 .. Len(tlb) : tlb[j].pagina = k}

\* Mutant: nro_marco is compared in place of nro_pagina.
MutEnTlbMarco(p, k) == {j \in 1 .. Len(tlb) : tlb[j].pid = p /\ tlb[j].marco = k}

\* devolver_entrada_tlb
EnTlb(p, k) == {j \in 1 .. Len(tlb) : tlb[j].pid = p /\ tlb[j].pagina = k}

\* The first entry that matches, which is the only one.  A page number past Marcos
\* is like any other page that is in no table.
ConsultaMmu(k) ==
  /\ EnPaso("ejecuta") \/ EnPaso("accede")
  /\ \/ /\ EnTlb(cpu.pid, k) # {}
        /\ \E j \in EnTlb(cpu.pid, k) :
             cpu' = [cpu EXCEPT !.en = "direccion", !.pagina = k, !.marco = tlb[j].marco]
        /\ UNCHANGED deCpu
     \/ /\ EnTlb(cpu.pid, k) = {}
        /\ Pide("MARCO", k)
        /\ cpu' = [cpu EXCEPT !.en = "marco", !.pagina = k]
  /\ UNCHANGED <<memoriaSinCpu, respuestas, tlb, sobra, kernelVars>>

\* Who leaves a full TLB: the first entry with FIFO; with LRU any of them may be
\* the one with the least time(NULL), which counts whole seconds.
Salientes == IF AlgoritmoTlb = "FIFO" THEN {1} ELSE 1 .. Len(tlb)

SinEntrada(j) == SinElemento(tlb, j)

\* Mutant: <= for <.
MutAgrega(e) ==
  IF EntradasTlb = 0 THEN tlb' = tlb
  ELSE IF Len(tlb) <= EntradasTlb THEN tlb' = Append(tlb, e)
  ELSE \E j \in Salientes : tlb' = Append(SinEntrada(j), e)

Agrega(e) ==
  IF EntradasTlb = 0 THEN tlb' = tlb
  ELSE IF Len(tlb) < EntradasTlb THEN tlb' = Append(tlb, e)
  ELSE \E j \in Salientes : tlb' = Append(SinEntrada(j), e)

RecibeMarco ==
  /\ EnPaso("marco") /\ respuestas # <<>> /\ Head(respuestas).op = "MARCO"
  /\ respuestas' = Tail(respuestas)
  /\ Agrega([pid |-> cpu.pid, pagina |-> cpu.pagina, marco |-> Head(respuestas).dato])
  /\ cpu' = [cpu EXCEPT !.en = "direccion", !.marco = Head(respuestas).dato]
  /\ UNCHANGED <<memoriaSinCpu, deCpu, sobra, kernelVars>>

\* pedir_leer_memoria, pedir_escribir_memoria.
Accede ==
  /\ EnPaso("direccion")
  /\ Pide("ACCESO", cpu.marco)
  /\ Ir("acceso")
  /\ UNCHANGED <<memoriaSinCpu, respuestas, tlb, sobra, kernelVars>>

\* Mutant: the answer is left in the socket.
MutRecibeAcceso ==
  /\ EnPaso("acceso") /\ respuestas # <<>> /\ Head(respuestas).op = "OK"
  /\ cpu' = [cpu EXCEPT !.en = "accede", !.marco = SINMARCO]
  /\ UNCHANGED <<memoriaSinCpu, deCpu, respuestas, tlb, sobra, kernelVars>>

RecibeAcceso ==
  /\ EnPaso("acceso") /\ respuestas # <<>> /\ Head(respuestas).op = "OK"
  /\ respuestas' = Tail(respuestas)
  /\ cpu' = [cpu EXCEPT !.en = "accede", !.marco = SINMARCO]
  /\ UNCHANGED <<memoriaSinCpu, deCpu, tlb, sobra, kernelVars>>

\* The address goes with the process to the kernel, and to an interface.  Of an
\* I/O over several pages one address stands for all; what the interface does
\* with it changes no state modelled here.
BloqueaEnIo ==
  /\ EnPaso("direccion") /\ ConIo
  /\ Ciclo!Bloquear(cpu.pid)
  /\ enIo' = [enIo EXCEPT ![cpu.pid] = cpu.marco]
  /\ cpu' = Libre0
  /\ UNCHANGED <<memoriaSinCpu, deCpu, respuestas, tlb, sobra>>

\* An instruction ends: without motivo_salida the next one is fetched, else the
\* process goes back to the kernel (an interruption, EXIT, WAIT, IO_GEN_SLEEP).
FinInstruccion ==
  /\ EnPaso("ejecuta") \/ EnPaso("accede")
  /\ \/ Ir("fetch") /\ UNCHANGED etapa
     \/ /\ \/ Ciclo!Desalojar(cpu.pid) \/ Ciclo!Terminar(cpu.pid)
           \/ EnPaso("ejecuta") /\ Ciclo!Bloquear(cpu.pid)
        /\ cpu' = Libre0
  /\ UNCHANGED <<memoriaSinCpu, deCpu, respuestas, tlb, sobra, enIo>>

-----------------------------------------------------------------------------
(* The kernel *)

Crea(p) == Ciclo!Crear(p) /\ UNCHANGED <<memoriaVars, cpuVars, enIo>>

\* manejar_new: PROCESO_NUEVO goes out, no answer is waited for, and the process
\* is READY.
Admite(p) ==
  /\ Ciclo!Admitir(p)
  /\ Avisa("PROCESO_NUEVO", p)
  /\ UNCHANGED <<memoriaSinKernel, cpuVars, enIo>>

Despacha(p) ==
  /\ cpu.en = "libre"
  /\ Ciclo!Despachar(p)
  /\ cpu' = [cpu EXCEPT !.en = "fetch", !.pid = p]
  /\ UNCHANGED <<memoriaVars, tlb, sobra, enIo>>

\* BLOQUEO_TERMINADO, or the SIGNAL that wakes p; an interface that worked for a
\* process killed meanwhile ends too.
Despierta(p) ==
  /\ IF etapa[p] = "bloqueado" THEN Ciclo!Despertar(p)
                               ELSE enIo[p] # SINMARCO /\ UNCHANGED etapa
  /\ enIo' = [enIo EXCEPT ![p] = SINMARCO]
  /\ UNCHANGED <<memoriaVars, cpuVars>>

\* Mutant: ELIMINAR_PROCESO is sent twice.
MutLibera(p) ==
  /\ Ciclo!Liberar(p)
  /\ deKernel' = Append(Append(deKernel, [op |-> "ELIMINAR_PROCESO", pid |-> p]),
                        [op |-> "ELIMINAR_PROCESO", pid |-> p])
  /\ UNCHANGED <<memoriaSinKernel, cpuVars, enIo>>

\* Mutant: ELIMINAR_PROCESO is not sent.
MutLiberaNada(p) ==
  /\ Ciclo!Liberar(p)
  /\ UNCHANGED <<memoriaVars, cpuVars, enIo>>

\* manejar_exit: ELIMINAR_PROCESO goes out and the PCB is freed.
Libera(p) ==
  /\ Ciclo!Liberar(p)
  /\ Avisa("ELIMINAR_PROCESO", p)
  /\ UNCHANGED <<memoriaSinKernel, cpuVars, enIo>>

\* FINALIZAR_PROCESO moves a process that is in NEW, READY or blocked to EXIT.
Finaliza(p) ==
  /\ Mata
  /\ \E donde \in {"nuevo", "listo", "bloqueado"} : Ciclo!Pasar(p, donde, "terminado")
  /\ UNCHANGED <<memoriaVars, cpuVars, enIo>>

-----------------------------------------------------------------------------
PasoCpu == \/ Fetch \/ RecibeInstruccion \/ RecibeResize \/ RecibeMarco
           \/ Accede \/ RecibeAcceso \/ BloqueaEnIo \/ FinInstruccion
           \/ \E t \in Tamanios : EjecutaResize(t)
           \/ \E k \in Marcos : ConsultaMmu(k)
PasoKernel == \E p \in Pids : \/ Crea(p) \/ Admite(p) \/ Despacha(p) \/ Despierta(p)
                              \/ Libera(p) \/ Finaliza(p)

Next == \/ AtenderCpu /\ UNCHANGED <<cpuVars, kernelVars>>
        \/ AtenderKernel /\ UNCHANGED <<cpuVars, kernelVars>>
        \/ PasoCpu \/ PasoKernel

Spec == Init /\ [][Next]_vars

(***************************************************************************)
(* Properties                                                              *)
(***************************************************************************)
DeLaTabla(p) == {tabla[p][k] : k \in 1 .. Len(tabla[p])}

\* Every variable keeps its type; among others no search of the memory goes out
\* of marcos[] and the CPU never has more than one request on its way.
TypeOK ==
  /\ lista \in Seq(Pids) /\ tabla \in [Pids -> Seq(Marcos)]
  /\ tamanio \in [Pids -> Nat] /\ ocupados \subseteq Marcos /\ cerrado \in BOOLEAN
  /\ hiloCpu.pedido \in Pedidos \cup {SinPedido} /\ hiloCpu.i \in Nat /\ hiloCpu.resta \in Nat
  /\ hiloKernel \in [en : {"recibe", "saca", "libera"}, pid : Pids]
  /\ deCpu \in Seq(Pedidos) /\ deKernel \in Seq(Avisos) /\ respuestas \in Seq(Respuestas)
  /\ memoria \in {"viva", "no_existe_pid", "no_existe_pagina", "puntero_nulo"}
  /\ Len(deCpu) <= 1 /\ tlb \in Seq(Entradas) /\ Len(tlb) <= EntradasTlb
  /\ sobra \in BOOLEAN /\ enIo \in [Pids -> Marcos \cup {SINMARCO}]

\* No frame is in two pages, of one process or of two, and marcos[] marks the
\* frames of the tables and no others: none is given twice, none is lost, with
\* atender_cpu and atender_kernel changing tables and marcos[] at the same time.
MarcosExclusivos ==
  /\ ocupados = UNION {DeLaTabla(p) : p \in Pids}
  /\ \A p, q \in Pids : \A j \in 1 .. Len(tabla[p]), k \in 1 .. Len(tabla[q]) :
       tabla[p][j] = tabla[q][k] => p = q /\ j = k

Vivo(p) == etapa[p] \in {"listo", "ejecutando", "bloqueado"}

EnResize(p) == cpu.en = "resize" /\ cpu.pid = p

\* A process that goes on after its RESIZE has the pages of the size it asked for.
TablaDelTamanio ==
  \A p \in Pids :
    Vivo(p) /\ ~ EnResize(p) => Len(tabla[p]) = Paginas(tamanio[p])

\* What the TLB says of a page of a live process is what its table says.
TlbFiel ==
  \A j \in 1 .. Len(tlb) :
    LET e == tlb[j]
    IN  Vivo(e.pid) /\ ~ EnResize(e.pid) /\ e.pagina < Len(tabla[e.pid])
          => tabla[e.pid][e.pagina + 1] = e.marco

\* No page is twice in the TLB.
TlbSinRepetidas ==
  \A j, k \in 1 .. Len(tlb) :
    tlb[j].pid = tlb[k].pid /\ tlb[j].pagina = tlb[k].pagina => j = k

\* The CPU and the interfaces read and write only frames of the process they work
\* for, from the translation to the end of the access.
AccesoPropio ==
  /\ cpu.en \in {"direccion", "acceso"} => cpu.marco \in DeLaTabla(cpu.pid)
  /\ \A p \in Pids : enIo[p] # SINMARCO => enIo[p] \in DeLaTabla(p)

\* The answer that arrives is the one to the request that was made, and only one.
Conversacion ==
  Len(deCpu) + Len(respuestas) + (IF hiloCpu.en = "recibe" THEN 0 ELSE 1)
    = IF cpu.en \in {"instruccion", "resize", "marco", "acceso"} THEN 1 ELSE 0

\* Each ELIMINAR_PROCESO is for a process that memory has, or was told of before.
EliminaConocido ==
  \A k \in 1 .. Len(deKernel) :
    deKernel[k].op = "ELIMINAR_PROCESO" =>
      \/ \E j \in 1 .. Len(lista) : lista[j] = deKernel[k].pid
      \/ \E j \in 1 .. k - 1 : deKernel[j] = [op |-> "PROCESO_NUEVO", pid |-> deKernel[k].pid]

\* No search of lista_procesos follows a NULL that list_get or buscar_proceso gave
\* it: mutex_proceso keeps the list still while atender_cpu walks it.
SinPunteroNulo == memoria # "puntero_nulo"

\* The CPU outlives the end of any process.
CpuSigue == cpu.en # "caida"

(***************************************************************************)
(* Progress.  atender_kernel competes with atender_cpu for mutex_proceso,  *)
(* which that one gives up for RETARDO_RESPUESTA between requests.         *)
(***************************************************************************)
Equidad ==
  /\ WF_vars(AtenderCpu /\ UNCHANGED <<cpuVars, kernelVars>>)
  /\ SF_vars(AtenderKernel /\ UNCHANGED <<cpuVars, kernelVars>>)

SpecJusta == Spec /\ Equidad

\* The frames of a process that ended come back.
MarcosVuelven ==
  \A p \in Pids : etapa[p] = "liberado" ~> (tabla[p] = <<>> \/ memoria # "viva")
=============================================================================
