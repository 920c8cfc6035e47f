------------------------------ MODULE Memoria ------------------------------
(***************************************************************************)
(* The memory process, memoria/src/memoria.c: page tables, frames and the  *)
(* two threads that share them, atender_cpu and atender_kernel.  The list  *)
(* of processes is searched one element at a time and the frames are given *)
(* and taken one at a time, because the other thread may run in between:   *)
(* mutex_proceso covers the searches, but not the removal that             *)
(* finalizar_proceso makes.                                                *)
(*                                                                         *)
(* Left out: the bytes of memoria_principal (a READ or WRITE is the frame  *)
(* it touches), the text of the instructions and the response delay.  The  *)
(* environment, in MemoriaCpu, writes deCpu and deKernel and reads         *)
(* respuestas.                                                             *)
(***************************************************************************)
EXTENDS Integers, Sequences, FiniteSets

CONSTANTS
  N,            \* number of processes (bound)
  CantMarcos,   \* TAM_MEMORIA / TAM_PAGINA
  TamPagina     \* TAM_PAGINA

ASSUME MemoriaAssumption ==
  N \in Nat \ {0} /\ CantMarcos \in Nat \ {0} /\ TamPagina \in Nat \ {0}

Pids == 0 .. N - 1
Marcos == 0 .. CantMarcos - 1

VARIABLES
  lista,        \* lista_procesos
  tabla,        \* proceso->tabla_paginas: the frame of page k is at k + 1
  tamanio,      \* proceso->tamanio
  ocupados,     \* the frames with marcos[i] = 1
  cerrado,      \* mutex_proceso is locked (only searches keep it over a step)
  hiloCpu,      \* atender_cpu: where it is, the request it serves, its locals
  hiloKernel,   \* atender_kernel: where it is and the process it releases
  deCpu, deKernel,  \* bytes in fd_cpu and fd_kernel, as messages
  respuestas,   \* bytes in the CPU's fd_memoria, as messages
  memoria       \* "viva", or how the process died

tablaVars == <<tabla, tamanio, ocupados>>
memoriaVars == <<lista, tablaVars, cerrado, hiloCpu, hiloKernel, deCpu, deKernel,
                 respuestas, memoria>>

Pedidos == [op : {"BUSCAR_INSTRUCCION", "OP_RESIZE", "MARCO", "ACCESO"}, pid : Pids, dato : Nat]
Respuestas == [op : {"INSTRUCCION_A_EJECUTAR", "OK", "MARCO", "OUT_OF_MEMORY_AVISO"},
               dato : Marcos]
Avisos == [op : {"PROCESO_NUEVO", "ELIMINAR_PROCESO"}, pid : Pids]

SinPedido == [op |-> "ninguno", pid |-> 0, dato |-> 0]
Reposo == [en |-> "recibe", pedido |-> SinPedido, i |-> 0, resta |-> 0]

MemoriaInit ==
  /\ lista = <<>>
  /\ tabla = [p \in Pids |-> <<>>]
  /\ tamanio = [p \in Pids |-> 0]
  /\ ocupados = {}
  /\ cerrado = FALSE
  /\ hiloCpu = Reposo
  /\ hiloKernel = [en |-> "recibe", pid |-> 0]
  /\ deCpu = <<>> /\ deKernel = <<>> /\ respuestas = <<>>
  /\ memoria = "viva"

(***************************************************************************)
(* Helpers                                                                 *)
(***************************************************************************)
\* ceil(t / TAM_PAGINA)
Paginas(t) == (t + TamPagina - 1) \div TamPagina

Ultima(s) == s[Len(s)]
SinUltima(s) == SubSeq(s, 1, Len(s) - 1)
SinElemento(s, k) == SubSeq(s, 1, k - 1) \o SubSeq(s, k + 1, Len(s))

Responde(op, dato) == respuestas' = Append(respuestas, [op |-> op, dato |-> dato])

\* The process ends: exit(-1) or a NULL dereference.
Cae(como) ==
  /\ memoria' = como
  /\ UNCHANGED <<lista, tablaVars, cerrado, hiloCpu, hiloKernel, deCpu, deKernel, respuestas>>

\* Mutant: marcos[] is not cleared.
MutSueltaMarco(p) ==
  /\ tabla' = [tabla EXCEPT ![p] = SinUltima(@)]
  /\ UNCHANGED ocupados

\* One turn of eliminar_paginas: the last page goes and its frame is free.
SueltaMarco(p) ==
  /\ tabla' = [tabla EXCEPT ![p] = SinUltima(@)]
  /\ ocupados' = ocupados \ {Ultima(tabla[p])}

-----------------------------------------------------------------------------
(* atender_cpu *)

EnCpu(e) == memoria = "viva" /\ hiloCpu.en = e

\* A request arrives.  READ and WRITE (here ACCESO) need no search.
CpuRecibe ==
  /\ EnCpu("recibe") /\ deCpu # <<>>
  /\ deCpu' = Tail(deCpu)
  /\ LET pedido == Head(deCpu)
     IN  \/ /\ pedido.op = "ACCESO"
            /\ Responde("OK", 0)
            /\ UNCHANGED <<hiloCpu, cerrado>>
         \/ /\ pedido.op # "ACCESO" /\ ~ cerrado
            /\ cerrado' = TRUE
            /\ hiloCpu' = [en |-> IF pedido.op = "BUSCAR_INSTRUCCION" THEN "instruccion" ELSE "proceso",
                           pedido |-> pedido, i |-> 0, resta |-> Len(lista)]
            /\ UNCHANGED respuestas
  /\ UNCHANGED <<lista, tablaVars, hiloKernel, deKernel, memoria>>

\* buscar_instruccion: the length was read before the loop (resta), so an element
\* that goes away meanwhile makes list_get give NULL.  An element is passed over
\* for another pid or, the last disjunct again, for a PC past the last instruction
\* of the program.  Out of the loop: exit(-1).
CpuInstruccion ==
  /\ EnCpu("instruccion")
  /\ \/ hiloCpu.i >= hiloCpu.resta /\ Cae("no_existe_pid")
     \/ hiloCpu.i < hiloCpu.resta /\ hiloCpu.i >= Len(lista) /\ Cae("puntero_nulo")
     \/ /\ hiloCpu.i < hiloCpu.resta /\ hiloCpu.i < Len(lista)
        /\ \/ /\ lista[hiloCpu.i + 1] = hiloCpu.pedido.pid
              /\ cerrado' = FALSE /\ hiloCpu' = Reposo
              /\ Responde("INSTRUCCION_A_EJECUTAR", 0)
           \/ /\ hiloCpu' = [hiloCpu EXCEPT !.i = @ + 1]
              /\ UNCHANGED <<cerrado, respuestas>>
        /\ UNCHANGED <<lista, tablaVars, hiloKernel, deCpu, deKernel, memoria>>

\* buscar_proceso; without it the caller dereferences NULL.
CpuProceso ==
  /\ EnCpu("proceso")
  /\ \/ hiloCpu.i >= Len(lista) /\ Cae("puntero_nulo")
     \/ /\ hiloCpu.i < Len(lista)
        /\ IF lista[hiloCpu.i + 1] = hiloCpu.pedido.pid
             THEN /\ cerrado' = FALSE
                  /\ hiloCpu' = [hiloCpu EXCEPT !.en = hiloCpu.pedido.op]
             ELSE hiloCpu' = [hiloCpu EXCEPT !.i = @ + 1] /\ UNCHANGED cerrado
        /\ UNCHANGED <<lista, tablaVars, hiloKernel, deCpu, deKernel, respuestas, memoria>>

\* Mutant: the page number goes back in place of the frame.
MutCpuMarco ==
  /\ EnCpu("MARCO")
  /\ Responde("MARCO", hiloCpu.pedido.dato)
  /\ hiloCpu' = Reposo
  /\ UNCHANGED <<lista, tablaVars, cerrado, hiloKernel, deCpu, deKernel, memoria>>

\* buscar_marco_en_tabla: a page that is not there ends the process.
CpuMarco ==
  /\ EnCpu("MARCO")
  /\ LET p == hiloCpu.pedido.pid
         k == hiloCpu.pedido.dato
     IN  \/ k >= Len(tabla[p]) /\ Cae("no_existe_pagina")
         \/ /\ k < Len(tabla[p])
            /\ Responde("MARCO", tabla[p][k + 1])
            /\ hiloCpu' = Reposo
            /\ UNCHANGED <<lista, tablaVars, cerrado, hiloKernel, deCpu, deKernel, memoria>>

\* manejar_resize decides: grow, shrink or (as many pages as before) neither.
CpuResize ==
  /\ EnCpu("OP_RESIZE")
  /\ LET p == hiloCpu.pedido.pid
         nuevo == hiloCpu.pedido.dato
         paginas == Paginas(nuevo) - Len(tabla[p])
     IN  /\ tamanio' = [tamanio EXCEPT ![p] = nuevo]
         /\ hiloCpu' =
              [hiloCpu EXCEPT
                 !.en = IF nuevo > tamanio[p] /\ paginas > 0 THEN "asigna"
                        ELSE IF nuevo < tamanio[p] /\ paginas < 0 THEN "elimina" ELSE "responde",
                 !.i = 0,
                 !.resta = IF paginas > 0 THEN paginas ELSE - paginas]
  /\ UNCHANGED <<lista, tabla, ocupados, cerrado, hiloKernel, deCpu, deKernel, respuestas, memoria>>

\* Mutant: marcos[] is not set.
MutTomaMarco(p, m) == tabla' = [tabla EXCEPT ![p] = Append(@, m)] /\ UNCHANGED ocupados

\* Mutant: the search for a free frame does not look at marcos[].
MutLibre(m) == TRUE

\* buscar_proximo_marco_libre: marcos[m] == 0.
Libre(m) == m \notin ocupados

TomaMarco(p, m) ==
  /\ tabla' = [tabla EXCEPT ![p] = Append(@, m)]
  /\ ocupados' = ocupados \cup {m}

\* Mutant: one page less is added.
MutRestaUna(n) == n <= 1

SinResto(n) == n = 0

\* asingar_paginas: the frames are tried one by one; with none free the CPU is
\* told so, and the call returns to manejar_resize, which answers OK as well.
CpuAsigna ==
  /\ EnCpu("asigna") /\ ~ SinResto(hiloCpu.resta)
  /\ LET p == hiloCpu.pedido.pid
         m == hiloCpu.i
     IN  \/ /\ m = CantMarcos
            /\ Responde("OUT_OF_MEMORY_AVISO", 0)
            /\ hiloCpu' = [hiloCpu EXCEPT !.en = "responde"]
            /\ UNCHANGED tablaVars
         \/ /\ m < CantMarcos /\ ~ Libre(m)
            /\ hiloCpu' = [hiloCpu EXCEPT !.i = @ + 1]
            /\ UNCHANGED <<tablaVars, respuestas>>
         \/ /\ m < CantMarcos /\ Libre(m)
            /\ TomaMarco(p, m)
            /\ hiloCpu' = [hiloCpu EXCEPT !.i = 0, !.resta = @ - 1]
            /\ UNCHANGED <<tamanio, respuestas>>
  /\ UNCHANGED <<lista, cerrado, hiloKernel, deCpu, deKernel, memoria>>

CpuElimina ==
  /\ EnCpu("elimina") /\ ~ SinResto(hiloCpu.resta)
  /\ SueltaMarco(hiloCpu.pedido.pid)
  /\ hiloCpu' = [hiloCpu EXCEPT !.resta = @ - 1]
  /\ UNCHANGED <<lista, tamanio, cerrado, hiloKernel, deCpu, deKernel, respuestas, memoria>>

\* The OK at the end of manejar_resize, whatever happened before.
CpuResponde ==
  /\ \/ EnCpu("responde")
     \/ (EnCpu("asigna") \/ EnCpu("elimina")) /\ SinResto(hiloCpu.resta)
  /\ Responde("OK", 0)
  /\ hiloCpu' = Reposo
  /\ UNCHANGED <<lista, tablaVars, cerrado, hiloKernel, deCpu, deKernel, memoria>>

-----------------------------------------------------------------------------
(* atender_kernel *)

EnKernel(e) == memoria = "viva" /\ hiloKernel.en = e

\* PROCESO_NUEVO, all of it under mutex_proceso.
KernelNuevo ==
  /\ EnKernel("recibe") /\ deKernel # <<>> /\ Head(deKernel).op = "PROCESO_NUEVO"
  /\ ~ cerrado
  /\ deKernel' = Tail(deKernel)
  /\ lista' = Append(lista, Head(deKernel).pid)
  /\ tabla' = [tabla EXCEPT ![Head(deKernel).pid] = <<>>]
  /\ tamanio' = [tamanio EXCEPT ![Head(deKernel).pid] = 0]
  /\ UNCHANGED <<ocupados, cerrado, hiloCpu, hiloKernel, deCpu, respuestas, memoria>>

\* ELIMINAR_PROCESO: buscar_proceso, whose result is used without a check.  Only
\* this thread changes the list, so its own search is one step.
KernelBusca ==
  /\ EnKernel("recibe") /\ deKernel # <<>> /\ Head(deKernel).op = "ELIMINAR_PROCESO"
  /\ ~ cerrado
  /\ \/ (\A k \in 1 .. Len(lista) : lista[k] # Head(deKernel).pid) /\ Cae("puntero_nulo")
     \/ /\ \E k \in 1 .. Len(lista) : lista[k] = Head(deKernel).pid
        /\ deKernel' = Tail(deKernel)
        /\ hiloKernel' = [en |-> "saca", pid |-> Head(deKernel).pid]
        /\ UNCHANGED <<lista, tablaVars, cerrado, hiloCpu, deCpu, respuestas, memoria>>

\* list_remove_element on lista_procesos, without mutex_proceso: the first that is
\* equal goes.
KernelSaca ==
  /\ EnKernel("saca")
  /\ \E k \in 1 .. Len(lista) :
       /\ lista[k] = hiloKernel.pid /\ \A j \in 1 .. k - 1 : lista[j] # lista[k]
       /\ lista' = SinElemento(lista, k)
  /\ hiloKernel' = [hiloKernel EXCEPT !.en = "libera"]
  /\ UNCHANGED <<tablaVars, cerrado, hiloCpu, deCpu, deKernel, respuestas, memoria>>

KernelLibera ==
  /\ EnKernel("libera") /\ tabla[hiloKernel.pid] # <<>>
  /\ SueltaMarco(hiloKernel.pid)
  /\ UNCHANGED <<lista, tamanio, cerrado, hiloCpu, hiloKernel, deCpu, deKernel, respuestas, memoria>>

\* The t_datos_proceso is freed.
KernelFin ==
  /\ EnKernel("libera") /\ tabla[hiloKernel.pid] = <<>>
  /\ tamanio' = [tamanio EXCEPT ![hiloKernel.pid] = 0]
  /\ hiloKernel' = [en |-> "recibe", pid |-> 0]
  /\ UNCHANGED <<lista, tabla, ocupados, cerrado, hiloCpu, deCpu, deKernel, respuestas, memoria>>

-----------------------------------------------------------------------------
AtenderCpu == \/ CpuRecibe \/ CpuInstruccion \/ CpuProceso \/ CpuMarco
              \/ CpuResize \/ CpuAsigna \/ CpuElimina \/ CpuResponde
AtenderKernel == KernelNuevo \/ KernelBusca \/ KernelSaca \/ KernelLibera \/ KernelFin
=============================================================================
