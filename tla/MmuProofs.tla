----------------------------- MODULE MmuProofs ------------------------------
(***************************************************************************)
(* Proofs about MemoriaCpu.tla, second part: what the MMU asks for, the    *)
(* TLB, the accesses, the messages of the kernel and the theorems.         *)
(***************************************************************************)
EXTENDS MemoriaProofs

EnTabla(p, k, m) == k < Len(tabla[p]) /\ tabla[p][k + 1] = m

\* The frame that answers MARCO is the one the process has at that page, which it may
\* not have when it asks, and the TLB did not have the page.
PideMarco ==
  cpu.en = "marco" =>
    /\ deCpu # <<>> => deCpu[1].dato = cpu.pagina
    /\ hiloCpu.en # "recibe" => hiloCpu.pedido.dato = cpu.pagina
    /\ respuestas # <<>> => EnTabla(cpu.pid, cpu.pagina, respuestas[1].dato)
    /\ EnTlb(cpu.pid, cpu.pagina) = {}

\* Without Achica no RESIZE under way asks for less than there is.
SoloCrece ==
  ~ Achica =>
    /\ hiloCpu.en # "elimina"
    /\ cpu.en = "resize" /\ deCpu # <<>> => deCpu[1].dato >= tamanio[cpu.pid]
    /\ cpu.en = "resize" /\ hiloCpu.en \in {"proceso", "OP_RESIZE"} =>
         hiloCpu.pedido.dato >= tamanio[cpu.pid]

\* Stronger than TlbFiel: the page is there, and no process enters with entries.
TlbVale ==
  \A j \in 1 .. Len(tlb) :
    /\ etapa[tlb[j].pid] \notin {"inexistente", "nuevo"}
    /\ ~ Achica /\ Vivo(tlb[j].pid) => EnTabla(tlb[j].pid, tlb[j].pagina, tlb[j].marco)

Acceso ==
  (~ Achica \/ EntradasTlb = 0) /\ ~ (Mata /\ ConIo) =>
    /\ AccesoPropio
    /\ \A p \in Pids : enIo[p] # SINMARCO => ConIo /\ etapa[p] = "bloqueado"

\* Whoever got past NEW is in lista_procesos, or PROCESO_NUEVO is on its way, before
\* any ELIMINAR_PROCESO.
Anunciado(p, n) == \E j \in 1 .. n : EsNuevo(j) /\ deKernel[j].pid = p
Entrado == {"listo", "ejecutando", "bloqueado", "terminado"}
Avisados ==
  \A k \in 1 .. Len(deKernel) : EsFin(k) =>
    EnLista(deKernel[k].pid) \/ Anunciado(deKernel[k].pid, k - 1)
Sabidos == \A p \in Pids : etapa[p] \in Entrado => EnLista(p) \/ Anunciado(p, Len(deKernel))

Conocido == ~ Mata => Avisados /\ Sabidos

\* An OUT_OF_MEMORY_AVISO was sent.
Aviso == sobra \/ \E k \in 1 .. Len(respuestas) : respuestas[k].op = "OUT_OF_MEMORY_AVISO"

\* The changes of stage.
Transiciones ==
  {<<"inexistente", "nuevo">>, <<"nuevo", "listo">>, <<"listo", "ejecutando">>,
   <<"ejecutando", "listo">>, <<"ejecutando", "bloqueado">>, <<"bloqueado", "listo">>,
   <<"ejecutando", "terminado">>, <<"terminado", "liberado">>,
   <<"nuevo", "terminado">>, <<"listo", "terminado">>, <<"bloqueado", "terminado">>}
Invariante ==
  /\ Tipo /\ Charla /\ Tramite /\ Ajuste /\ MarcosExclusivos /\ PideMarco
  /\ SoloCrece /\ TlbVale /\ TlbSinRepetidas /\ Acceso /\ Conocido

USE DEF tablaVars, memoriaVars, memoriaSinCpu, memoriaSinKernel, cpuVars, kernelVars

-----------------------------------------------------------------------------
(* The question about a page *)

\* The table of a process that is not on its way out is not touched by atender_kernel.
LEMMA TablaKernel ==
  ASSUME Tipo, Charla, Tramite, AtenderKernel, UNCHANGED <<cpuVars, kernelVars>>
  PROVE  /\ \A p \in Pids : etapa[p] # "liberado" => tabla'[p] = tabla[p] /\ tamanio'[p] = tamanio[p]
         /\ UNCHANGED <<cpu, etapa, tlb, hiloCpu, deCpu, respuestas, sobra, enIo>>
<1>1. UNCHANGED <<cpu, etapa, tlb, hiloCpu, deCpu, respuestas, sobra, enIo>>
  BY DEF AtenderKernel, KernelNuevo, KernelBusca, KernelSaca, KernelLibera, KernelFin, Cae
<1>2. CASE KernelNuevo
  <2>1. UNCHANGED <<tabla, tamanio>>
    BY <1>2, NuevoHecho
  <2> QED BY <1>1, <2>1
<1>3. CASE KernelBusca \/ KernelSaca
  <2>1. UNCHANGED <<tabla, tamanio>>
    BY <1>3 DEF KernelBusca, KernelSaca, Cae
  <2> QED BY <1>1, <2>1
<1>4. CASE KernelLibera \/ KernelFin
  <2>1. /\ hiloKernel.en = "libera" /\ hiloKernel.pid \in Pids
        /\ \A p \in Pids : p # hiloKernel.pid => tabla'[p] = tabla[p] /\ tamanio'[p] = tamanio[p]
    BY <1>4, Campos DEF KernelLibera, KernelFin, EnKernel, SueltaMarco, Tipo
  <2>2. etapa[hiloKernel.pid] = "liberado"
    BY <2>1 DEF Tramite, Liberados, Liberando
  <2> QED BY <1>1, <2>1, <2>2
<1> QED BY <1>2, <1>3, <1>4 DEF AtenderKernel

\* atender_cpu changes a table only for the RESIZE the CPU waits for.
LEMMA TablaCpu ==
  ASSUME Tipo, Charla, AtenderCpu, UNCHANGED <<cpuVars, kernelVars>>
  PROVE  /\ \A p \in Pids : ~ EnResize(p) => tabla'[p] = tabla[p] /\ tamanio'[p] = tamanio[p]
         /\ UNCHANGED <<cpu, etapa, tlb, sobra, enIo>>
<1>1. UNCHANGED <<cpu, etapa, tlb, sobra, enIo>>
  OBVIOUS
<1>2. CASE CpuRecibe \/ CpuInstruccion \/ CpuProceso \/ CpuMarco \/ CpuResponde
  <2>1. UNCHANGED <<tabla, tamanio>>
    BY <1>2 DEF CpuRecibe, CpuInstruccion, CpuProceso, CpuMarco, CpuResponde, Cae
  <2> QED BY <1>1, <2>1
<1>3. CASE CpuResize \/ CpuAsigna \/ CpuElimina
  <2>1. hiloCpu.en \in {"OP_RESIZE", "asigna", "elimina"}
    BY <1>3 DEF CpuResize, CpuAsigna, CpuElimina, EnCpu
  <2>2. EnResize(hiloCpu.pedido.pid)
    BY <2>1, EnServicio DEF EnResize
  <2>3. \A p \in Pids : p # hiloCpu.pedido.pid => tabla'[p] = tabla[p] /\ tamanio'[p] = tamanio[p]
    BY <1>3, Campos DEF CpuResize, CpuAsigna, CpuElimina, TomaMarco, SueltaMarco, Tipo
  <2> QED BY <1>1, <2>2, <2>3
<1> QED BY <1>2, <1>3 DEF AtenderCpu

\* The steps of the CPU and of the kernel change no table.
LEMMA TablaOtros ==
  ASSUME PasoCpu \/ PasoKernel
  PROVE  UNCHANGED <<tabla, tamanio, ocupados, lista, hiloCpu, hiloKernel, memoria>>
BY DEF PasoCpu, PasoKernel, Fetch, RecibeInstruccion, RecibeResize, RecibeMarco, Accede,
   RecibeAcceso,
   BloqueaEnIo, FinInstruccion, EjecutaResize, ConsultaMmu, Crea, Admite, Despacha, Despierta, Libera, Finaliza

\* What waits for the answer to MARCO.
LEMMA EnMarco ==
  ASSUME Tipo, Charla, cpu.en = "marco"
  PROVE  /\ etapa[cpu.pid] = "ejecutando" /\ ~ EnResize(cpu.pid) /\ cpu.pid \in Pids
         /\ hiloCpu.en \in {"recibe", "proceso", "MARCO"}
         /\ \/ Enviado("MARCO") \/ Servido("MARCO", {"proceso", "MARCO"}) \/ Contestado("MARCO")
<1>1. Normal
  BY DEF Charla, Agotada
<1>2. Espera("MARCO", {"proceso", "MARCO"}, "MARCO")
  BY <1>1 DEF Normal
<1> QED BY <1>2, Campos DEF Espera, Enviado, Servido, Contestado, Charla, Duenio, EnResize

\* Steps that leave the question about a page alone: PideMarco is kept.
LEMMA PideMarcoIgual ==
  ASSUME Tipo, PideMarco, UNCHANGED <<cpu, tlb, hiloCpu, deCpu, respuestas>>,
         cpu.en = "marco" => tabla'[cpu.pid] = tabla[cpu.pid]
  PROVE  PideMarco'
BY DEF PideMarco, EnTlb, EnTabla

\* atender_cpu takes the question and answers it: PideMarco is kept.
LEMMA PideMarcoCpu ==
  ASSUME Tipo, Charla, PideMarco, AtenderCpu, UNCHANGED <<cpuVars, kernelVars>>
  PROVE  PideMarco'
<1> SUFFICES ASSUME cpu.en = "marco" PROVE PideMarco'
  BY DEF PideMarco
<1>1. /\ tabla'[cpu.pid] = tabla[cpu.pid] /\ UNCHANGED <<cpu, tlb>>
      /\ cpu.pid \in Pids /\ cpu.pagina \in Nat
      /\ EnTlb(cpu.pid, cpu.pagina)' = EnTlb(cpu.pid, cpu.pagina)
  BY EnMarco, TablaCpu, Campos DEF PideMarco, EnTlb
<1>2. /\ deCpu' # <<>> => deCpu'[1].dato = cpu.pagina
      /\ hiloCpu'.en # "recibe" => hiloCpu'.pedido.dato = cpu.pagina
      /\ respuestas' # <<>> => EnTabla(cpu.pid, cpu.pagina, respuestas'[1].dato)
  <2>1. CASE CpuRecibe
    <3>1. /\ hiloCpu.en = "recibe" /\ deCpu # <<>> /\ deCpu' = Tail(deCpu) /\ Head(deCpu) = deCpu[1]
      BY <2>1, Frentes DEF CpuRecibe, EnCpu
    <3>2. respuestas = <<>> /\ Len(deCpu) = 1 /\ deCpu[1].op = "MARCO"
      BY <3>1, EnMarco DEF Enviado, Servido, Contestado
    <3>3. hiloCpu'.pedido = deCpu[1] /\ respuestas' = respuestas /\ deCpu' = <<>>
      BY <2>1, <3>1, <3>2, Recibido DEF CpuRecibe
    <3> QED BY <3>1, <3>2, <3>3 DEF PideMarco
  <2>2. CASE CpuProceso
    BY <2>2 DEF CpuProceso, PideMarco, Cae, Tipo, HilosCpu, EnCpu
  <2>3. CASE CpuMarco
    <3>1. hiloCpu.en = "MARCO"
      BY <2>3 DEF CpuMarco, EnCpu
    <3>2. deCpu = <<>> /\ respuestas = <<>> /\ hiloCpu.pedido.pid = cpu.pid /\ hiloCpu.pedido.dato = cpu.pagina
      BY <3>1, EnServicio DEF PideMarco
    <3>3. CASE Cae("no_existe_pagina")
      BY <3>3 DEF PideMarco, Cae
    <3>4. CASE /\ cpu.pagina < Len(tabla[cpu.pid]) /\ Responde("MARCO", tabla[cpu.pid][cpu.pagina + 1])
               /\ hiloCpu' = Reposo /\ deCpu' = deCpu
      <4>1. tabla[cpu.pid][cpu.pagina + 1] \in Marcos
        BY <1>1, <3>4, Tablas
      <4>2. respuestas'[1].dato = tabla[cpu.pid][cpu.pagina + 1]
        BY <3>2, <3>4, <4>1, RespondeEfecto
      <4> QED BY <3>2, <3>4, <4>2 DEF Reposo, EnTabla
    <3> QED BY <2>3, <3>2, <3>3, <3>4 DEF CpuMarco
  <2>4. ~ (CpuInstruccion \/ CpuResize \/ CpuAsigna \/ CpuElimina \/ CpuResponde)
    BY EnMarco DEF CpuInstruccion, CpuResize, CpuAsigna, CpuElimina, CpuResponde, EnCpu
  <2> QED BY <2>1, <2>2, <2>3, <2>4 DEF AtenderCpu
<1>3. EnTlb(cpu.pid, cpu.pagina)' = {}
  BY <1>1 DEF PideMarco
<1> QED BY <1>1, <1>2, <1>3 DEF PideMarco, EnTlb, EnTabla

\* consultar_mmu asks for a page that the TLB has not: PideMarco is kept.
LEMMA PideMarcoConsulta ==
  ASSUME Tipo, Charla, NEW k \in Marcos, ConsultaMmu(k)
  PROVE  PideMarco'
<1>1. UNCHANGED <<tabla, tlb, hiloCpu, respuestas>> /\ k \in Nat
  BY Marco DEF ConsultaMmu
<1>2. cpu.en \in {"ejecuta", "accede"} /\ deCpu = <<>> /\ respuestas = <<>> /\ hiloCpu.en = "recibe"
  BY DEF ConsultaMmu, EnPaso, Charla, Normal, Agotada, Calla
<1>3. CASE cpu' = [cpu EXCEPT !.en = "marco", !.pagina = k] /\ Pide("MARCO", k) /\ EnTlb(cpu.pid, k) = {}
  <2>1. cpu'.pid = cpu.pid /\ cpu'.pagina = k
    BY <1>3 DEF Tipo, Cpus
  <2>2. deCpu'[1].dato = k
    BY <1>1, <1>2, <1>3, PideEfecto
  <2>3. EnTlb(cpu.pid, k)' = {}
    BY <1>1, <1>3 DEF EnTlb
  <2> QED BY <1>1, <1>2, <2>1, <2>2, <1>3 DEF PideMarco, EnTlb
<1>4. CASE cpu'.en = "direccion"
  BY <1>4 DEF PideMarco
<1> QED BY <1>3, <1>4 DEF ConsultaMmu, Tipo, Cpus

\* Every step keeps what is asked of a page.
LEMMA PideMarcoPaso == Tipo /\ Charla /\ Tramite /\ PideMarco /\ [Next]_vars => PideMarco'
<1> SUFFICES ASSUME Tipo, Charla, Tramite, PideMarco, [Next]_vars PROVE PideMarco'
  OBVIOUS
<1>1. CASE UNCHANGED vars
  BY <1>1, PideMarcoIgual DEF vars
<1>2. CASE AtenderKernel /\ UNCHANGED <<cpuVars, kernelVars>>
  <2>1. cpu.en = "marco" => tabla'[cpu.pid] = tabla[cpu.pid]
    BY <1>2, EnMarco, TablaKernel
  <2>2. UNCHANGED <<cpu, tlb, hiloCpu, deCpu, respuestas>>
    BY <1>2, TablaKernel
  <2> QED BY <2>1, <2>2, PideMarcoIgual
<1>3. CASE Fetch \/ RecibeInstruccion \/ RecibeResize \/ RecibeMarco \/ Accede \/ RecibeAcceso \/ BloqueaEnIo
           \/ FinInstruccion \/ \E t \in Tamanios : EjecutaResize(t)
  <2>1. \/ cpu' = Libre0 \/ \E e \in EstadosCpu \ {"marco"} : Ir(e)
        \/ \E m : cpu' = [cpu EXCEPT !.en = "direccion", !.marco = m]
        \/ \E m : cpu' = [cpu EXCEPT !.en = "accede", !.marco = m]
    BY <1>3 DEF Fetch, RecibeInstruccion, RecibeResize, RecibeMarco, Accede, RecibeAcceso,
       BloqueaEnIo,
       FinInstruccion, EjecutaResize, EstadosCpu
  <2>2. \A e, m : [cpu EXCEPT !.en = e].en = e /\ [cpu EXCEPT !.en = e, !.marco = m].en = e
    BY DEF Tipo, Cpus
  <2>3. cpu'.en # "marco"
    <3>1. CASE cpu' = Libre0
      BY <3>1 DEF Libre0
    <3>2. CASE \E e \in EstadosCpu \ {"marco"} : Ir(e)
      BY <2>2, <3>2 DEF Ir
    <3>3. CASE \E m : cpu' = [cpu EXCEPT !.en = "direccion", !.marco = m]
      BY <2>2, <3>3
    <3>4. CASE \E m : cpu' = [cpu EXCEPT !.en = "accede", !.marco = m]
      BY <2>2, <3>4
    <3> QED BY <2>1, <3>1, <3>2, <3>3, <3>4
  <2> QED BY <2>3 DEF PideMarco
<1>4. CASE PasoKernel
  <2>1. UNCHANGED <<tlb, hiloCpu, deCpu, respuestas, tabla>> /\ (cpu' = cpu \/ cpu'.en = "fetch")
    BY <1>4 DEF PasoKernel, Crea, Admite, Despacha, Despierta, Libera, Finaliza, Tipo, Cpus
  <2> QED BY <2>1, PideMarcoIgual DEF PideMarco
<1> QED BY <1>1, <1>2, <1>3, <1>4, PideMarcoCpu, PideMarcoConsulta DEF Next, PasoCpu

-----------------------------------------------------------------------------
(* RESIZE without Achica *)

\* What waits for the answer to OP_RESIZE is the process that runs.
LEMMA EnElResize ==
  ASSUME Tipo, Charla, cpu.en = "resize"
  PROVE  /\ etapa[cpu.pid] = "ejecutando" /\ cpu.pid \in Pids
         /\ hiloCpu.en \in {"proceso", "OP_RESIZE", "asigna", "elimina"} => hiloCpu.pedido.pid = cpu.pid
         /\ deCpu # <<>> => Len(deCpu) = 1 /\ deCpu[1].op = "OP_RESIZE" /\ hiloCpu.en = "recibe"
<1>1. /\ etapa[cpu.pid] = "ejecutando" /\ cpu.pid \in Pids
  BY Campos DEF Charla, Duenio
<1>2. CASE Normal
  <2>1. Espera("OP_RESIZE", {"proceso", "OP_RESIZE", "asigna", "elimina", "responde"}, "OK")
    BY <1>2 DEF Normal
  <2> QED BY <1>1, <2>1 DEF Espera, Enviado, Servido, Contestado
<1>3. CASE Agotada
  BY <1>1, <1>3 DEF Agotada
<1> QED BY <1>2, <1>3 DEF Charla

\* Steps that leave the RESIZE alone: SoloCrece is kept.
LEMMA SoloCreceIgual ==
  ASSUME SoloCrece, UNCHANGED <<cpu, hiloCpu, deCpu>>,
         cpu.en = "resize" => tamanio'[cpu.pid] = tamanio[cpu.pid]
  PROVE  SoloCrece'
BY DEF SoloCrece

\* Programs that do not shrink make atender_cpu take no page away: SoloCrece is kept.
LEMMA SoloCreceCpu ==
  ASSUME Tipo, Charla, SoloCrece, AtenderCpu, UNCHANGED <<cpuVars, kernelVars>>
  PROVE  SoloCrece'
<1> SUFFICES ASSUME ~ Achica PROVE SoloCrece'
  BY DEF SoloCrece
<1>1. CASE CpuRecibe
  <2>1. /\ hiloCpu.en = "recibe" /\ deCpu # <<>> /\ deCpu' = Tail(deCpu) /\ Head(deCpu) = deCpu[1]
        /\ UNCHANGED <<cpu, tamanio>>
    BY <1>1, Frentes DEF CpuRecibe, EnCpu
  <2>2. hiloCpu' = hiloCpu \/ (hiloCpu'.pedido = deCpu[1] /\ hiloCpu'.en \in {"instruccion", "proceso"})
    BY <1>1, <2>1 DEF CpuRecibe
  <2>3. cpu.en = "resize" => deCpu' = <<>>
    BY <2>1, EnElResize, Recibido
  <2> QED BY <2>1, <2>2, <2>3 DEF SoloCrece
<1>2. CASE CpuProceso
  <2>1. /\ hiloCpu.en = "proceso" /\ UNCHANGED <<cpu, tamanio, deCpu>> /\ hiloCpu'.pedido = hiloCpu.pedido
        /\ hiloCpu'.en \in {hiloCpu.en, hiloCpu.pedido.op}
    BY <1>2 DEF CpuProceso, Cae, EnCpu, Tipo, HilosCpu
  <2>2. hiloCpu.pedido.op # "elimina"
    BY <2>1 DEF Tipo, Pedidos
  <2> QED BY <2>1, <2>2 DEF SoloCrece
<1>3. CASE CpuResize
  <2> DEFINE p == hiloCpu.pedido.pid
             nuevo == hiloCpu.pedido.dato
  <2>1. hiloCpu.en = "OP_RESIZE" /\ UNCHANGED <<cpu, deCpu>>
    BY <1>3 DEF CpuResize, EnCpu
  <2>2. deCpu = <<>> /\ cpu.en = "resize" /\ p = cpu.pid
    BY <2>1, EnServicio
  <2>3. nuevo >= tamanio[p] /\ nuevo \in Nat /\ tamanio[p] \in Nat
    BY <2>1, <2>2, Campos, Tablas DEF SoloCrece
  <2>4. ~ (nuevo < tamanio[p])
    BY <2>3
  <2>5. hiloCpu'.en \in {"asigna", "responde"}
    <3>1. \A h \in HilosCpu : \A e, n : [h EXCEPT !.en = e, !.i = 0, !.resta = n].en = e
      BY DEF HilosCpu
    <3>2. \E n, e : e \in {"asigna", "responde"} /\ hiloCpu' = [hiloCpu EXCEPT !.en = e, !.i = 0, !.resta = n]
      BY <1>3, <2>4 DEF CpuResize
    <3> QED BY <3>1, <3>2 DEF Tipo
  <2> QED BY <2>1, <2>2, <2>5 DEF SoloCrece
<1>4. CASE CpuAsigna
  <2>1. UNCHANGED <<cpu, deCpu, tamanio>> /\ hiloCpu.en = "asigna" /\ hiloCpu'.en \in {"asigna", "responde"}
    BY <1>4 DEF CpuAsigna, EnCpu, Tipo, HilosCpu
  <2> QED BY <2>1 DEF SoloCrece
<1>5. CASE CpuElimina
  BY <1>5 DEF CpuElimina, EnCpu, SoloCrece
<1>6. CASE CpuInstruccion \/ CpuMarco \/ CpuResponde
  <2>1. /\ UNCHANGED <<cpu, deCpu, tamanio>>
        /\ hiloCpu' = hiloCpu \/ hiloCpu'.en = "recibe" \/ (hiloCpu.en = "instruccion" /\ hiloCpu'.en = hiloCpu.en)
    BY <1>6 DEF CpuInstruccion, CpuMarco, CpuResponde, Cae, EnCpu, Reposo, Tipo, HilosCpu
  <2> QED BY <2>1 DEF SoloCrece
<1> QED BY <1>1, <1>2, <1>3, <1>4, <1>5, <1>6 DEF AtenderCpu

\* Every step keeps it.
LEMMA SoloCrecePaso == Tipo /\ Charla /\ Tramite /\ SoloCrece /\ [Next]_vars => SoloCrece'
<1> SUFFICES ASSUME Tipo, Charla, Tramite, SoloCrece, [Next]_vars PROVE SoloCrece'
  OBVIOUS
<1>1. CASE UNCHANGED vars
  BY <1>1, SoloCreceIgual DEF vars
<1>2. CASE AtenderKernel /\ UNCHANGED <<cpuVars, kernelVars>>
  <2>1. cpu.en = "resize" => tamanio'[cpu.pid] = tamanio[cpu.pid]
    BY <1>2, EnElResize, TablaKernel
  <2>2. UNCHANGED <<cpu, hiloCpu, deCpu>>
    BY <1>2, TablaKernel
  <2> QED BY <2>1, <2>2, SoloCreceIgual
<1>3. ASSUME NEW t \in Tamanios, EjecutaResize(t) PROVE SoloCrece'
  <2>1. /\ Pide("OP_RESIZE", t) /\ UNCHANGED <<hiloCpu, tamanio>> /\ (Achica \/ t >= tamanio[cpu.pid])
        /\ t \in Nat
    BY <1>3, CpuAssumption DEF EjecutaResize
  <2>2. deCpu = <<>> /\ hiloCpu.en = "recibe"
    BY <1>3 DEF EjecutaResize, EnPaso, Charla, Normal, Agotada, Calla
  <2>3. deCpu'[1].dato = t
    BY <2>1, <2>2, PideEfecto
  <2>4. cpu'.pid = cpu.pid
    BY <1>3, IrTipo DEF EjecutaResize, EstadosCpu
  <2> QED BY <2>1, <2>2, <2>3, <2>4 DEF SoloCrece
<1>4. CASE Fetch \/ RecibeInstruccion \/ RecibeResize \/ RecibeMarco \/ Accede \/ RecibeAcceso \/ BloqueaEnIo
           \/ FinInstruccion \/ \E k \in Marcos : ConsultaMmu(k)
  <2>1. \/ cpu' = Libre0 \/ \E e \in EstadosCpu \ {"resize"} : Ir(e)
        \/ \E e \in EstadosCpu \ {"resize"} : \E m : cpu' = [cpu EXCEPT !.en = e, !.marco = m]
        \/ \E e \in EstadosCpu \ {"resize"} : \E k, m : cpu' = [cpu EXCEPT !.en = e, !.pagina = k, !.marco = m]
        \/ \E e \in EstadosCpu \ {"resize"} : \E k : cpu' = [cpu EXCEPT !.en = e, !.pagina = k]
    BY <1>4 DEF Fetch, RecibeInstruccion, RecibeResize, RecibeMarco, Accede, RecibeAcceso,
       BloqueaEnIo,
       FinInstruccion, ConsultaMmu, EstadosCpu
  <2>2. \A e, m, k : /\ [cpu EXCEPT !.en = e].en = e /\ [cpu EXCEPT !.en = e, !.marco = m].en = e
                     /\ [cpu EXCEPT !.en = e, !.pagina = k, !.marco = m].en = e
                     /\ [cpu EXCEPT !.en = e, !.pagina = k].en = e
    BY DEF Tipo, Cpus
  <2>3. cpu'.en # "resize"
    <3>1. CASE cpu' = Libre0
      BY <3>1 DEF Libre0
    <3>2. CASE \E e \in EstadosCpu \ {"resize"} : Ir(e)
      BY <2>2, <3>2 DEF Ir
    <3>3. ASSUME NEW e \in EstadosCpu \ {"resize"}, NEW m, cpu' = [cpu EXCEPT !.en = e, !.marco = m]
          PROVE  cpu'.en # "resize"
      BY <2>2, <3>3
    <3>4. ASSUME NEW e \in EstadosCpu \ {"resize"}, NEW k, NEW m,
                 cpu' = [cpu EXCEPT !.en = e, !.pagina = k, !.marco = m]
          PROVE  cpu'.en # "resize"
      BY <2>2, <3>4
    <3>5. ASSUME NEW e \in EstadosCpu \ {"resize"}, NEW k, cpu' = [cpu EXCEPT !.en = e, !.pagina = k]
          PROVE  cpu'.en # "resize"
      BY <2>2, <3>5
    <3> QED BY <2>1, <3>1, <3>2, <3>3, <3>4, <3>5
  <2>4. hiloCpu' = hiloCpu
    BY <1>4, TablaOtros DEF PasoCpu
  <2> QED BY <2>3, <2>4 DEF SoloCrece
<1>5. CASE PasoKernel
  <2>1. UNCHANGED <<hiloCpu, deCpu, tamanio>> /\ (cpu' = cpu \/ cpu'.en = "fetch")
    BY <1>5 DEF PasoKernel, Crea, Admite, Despacha, Despierta, Libera, Finaliza, Tipo, Cpus
  <2> QED BY <2>1, SoloCreceIgual DEF SoloCrece
<1> QED BY <1>1, <1>2, <1>3, <1>4, <1>5, SoloCreceCpu DEF Next, PasoCpu

-----------------------------------------------------------------------------
(* The TLB *)

\* A step changes the stage of one process, in one of these ways; kills are only with Mata.
LEMMA Transita ==
  ASSUME Tipo, [Next]_vars, NEW p \in Pids, etapa'[p] # etapa[p]
  PROVE  /\ <<etapa[p], etapa'[p]>> \in Transiciones
         /\ etapa[p] \in {"nuevo", "listo", "bloqueado"} /\ etapa'[p] = "terminado" => Mata
<1>1. ASSUME NEW q \in Pids, NEW a, NEW b, Ciclo!Pasar(q, a, b)
      PROVE  etapa[p] = a /\ etapa'[p] = b
  BY <1>1, PasarEfecto
<1>2. CASE PasoCpu
  <2>1. etapa' = etapa \/ Ciclo!Desalojar(cpu.pid) \/ Ciclo!Terminar(cpu.pid) \/ Ciclo!Bloquear(cpu.pid)
    BY <1>2 DEF PasoCpu, Fetch, RecibeInstruccion, RecibeResize, RecibeMarco, Accede, RecibeAcceso,
       BloqueaEnIo, FinInstruccion, EjecutaResize, ConsultaMmu
  <2>2. \E b \in {"listo", "terminado", "bloqueado"} : Ciclo!Pasar(cpu.pid, "ejecutando", b)
    BY <2>1 DEF Ciclo!Desalojar, Ciclo!Terminar, Ciclo!Bloquear
  <2>3. etapa[p] = "ejecutando" /\ etapa'[p] \in {"listo", "terminado", "bloqueado"}
    BY <1>1, <2>2, Campos
  <2> QED BY <2>3 DEF Transiciones
<1>3. CASE PasoKernel
  <2>1. PICK q \in Pids : Crea(q) \/ Admite(q) \/ Despacha(q) \/ Despierta(q) \/ Libera(q) \/ Finaliza(q)
    BY <1>3 DEF PasoKernel
  <2>2. \/ Ciclo!Pasar(q, "inexistente", "nuevo") \/ Ciclo!Pasar(q, "nuevo", "listo")
        \/ Ciclo!Pasar(q, "listo", "ejecutando") \/ Ciclo!Pasar(q, "bloqueado", "listo")
        \/ Ciclo!Pasar(q, "terminado", "liberado")
        \/ Mata /\ \E a \in {"nuevo", "listo", "bloqueado"} : Ciclo!Pasar(q, a, "terminado")
    BY <2>1 DEF Crea, Admite, Despacha, Despierta, Libera, Finaliza, Ciclo!Crear, Ciclo!Admitir,
       Ciclo!Despachar, Ciclo!Despertar, Ciclo!Liberar
  <2>3. \/ etapa[p] = "inexistente" /\ etapa'[p] = "nuevo"
        \/ etapa[p] = "nuevo" /\ etapa'[p] = "listo"
        \/ etapa[p] = "listo" /\ etapa'[p] = "ejecutando"
        \/ etapa[p] = "bloqueado" /\ etapa'[p] = "listo"
        \/ etapa[p] = "terminado" /\ etapa'[p] = "liberado"
        \/ Mata /\ etapa[p] \in {"nuevo", "listo", "bloqueado"} /\ etapa'[p] = "terminado"
    BY <1>1, <2>2
  <2> QED BY <2>3 DEF Transiciones
<1>4. CASE etapa' = etapa
  BY <1>4
<1> QED BY <1>2, <1>3, <1>4 DEF Next, vars

\* Who lives did before, or was admitted; who was not in NEW yet was not before.
LEMMA Vivia ==
  ASSUME Tipo, [Next]_vars, NEW p \in Pids
  PROVE  /\ Vivo(p)' => Vivo(p) \/ etapa[p] = "nuevo"
         /\ etapa'[p] \in {"inexistente", "nuevo"} => etapa[p] \in {"inexistente", "nuevo"}
         /\ etapa[p] = "liberado" => etapa'[p] = "liberado"
BY Transita DEF Vivo, Transiciones

\* A page stays where it is while its process lives, if no RESIZE takes pages away.
LEMMA EnTablaQueda ==
  ASSUME Tipo, Charla, Tramite, [Next]_vars, ~ CpuElimina, NEW p \in Pids, Vivo(p),
         NEW k \in Nat, NEW m, EnTabla(p, k, m)
  PROVE  EnTabla(p, k, m)'
<1>1. ASSUME tabla'[p] = tabla[p] PROVE EnTabla(p, k, m)'
  BY <1>1 DEF EnTabla
<1>2. CASE CpuAsigna
  <2>1. \/ tabla' = tabla
        \/ TomaMarco(hiloCpu.pedido.pid, hiloCpu.i) /\ hiloCpu.i \in Marcos
    BY <1>2, Campos, Marco DEF CpuAsigna
  <2>3. ASSUME tabla'[p] = Append(tabla[p], hiloCpu.i), hiloCpu.i \in Marcos PROVE EnTabla(p, k, m)'
    <3>1. /\ Len(tabla'[p]) = Len(tabla[p]) + 1 /\ Len(tabla[p]) \in Nat
          /\ \A j \in 1 .. Len(tabla[p]) : tabla'[p][j] = tabla[p][j]
      BY <2>3, Tablas, AlFinal
    <3>2. k < Len(tabla[p]) /\ tabla[p][k + 1] = m
      BY DEF EnTabla
    <3>3. k + 1 \in 1 .. Len(tabla[p]) /\ k < Len(tabla'[p])
      BY <3>1, <3>2
    <3> QED BY <3>1, <3>2, <3>3 DEF EnTabla
  <2>4. tabla \in [Pids -> Seq(Marcos)]
    BY DEF Tipo
  <2>5. CASE TomaMarco(hiloCpu.pedido.pid, hiloCpu.i) /\ hiloCpu.i \in Marcos /\ p = hiloCpu.pedido.pid
    <3>1. tabla'[p] = Append(tabla[p], hiloCpu.i)
      BY <2>4, <2>5 DEF TomaMarco
    <3> QED BY <2>3, <2>5, <3>1
  <2>6. CASE TomaMarco(hiloCpu.pedido.pid, hiloCpu.i) /\ p # hiloCpu.pedido.pid
    <3>1. tabla'[p] = tabla[p]
      BY <2>4, <2>6 DEF TomaMarco
    <3> QED BY <1>1, <3>1
  <2> QED BY <1>1, <2>1, <2>5, <2>6
<1>3. CASE CpuRecibe \/ CpuInstruccion \/ CpuProceso \/ CpuMarco \/ CpuResize \/ CpuResponde
  <2>1. tabla' = tabla
    BY <1>3 DEF CpuRecibe, CpuInstruccion, CpuProceso, CpuMarco, CpuResize, CpuResponde, Cae
  <2> QED BY <1>1, <2>1
<1>4. CASE AtenderKernel /\ UNCHANGED <<cpuVars, kernelVars>>
  BY <1>1, <1>4, TablaKernel DEF Vivo
<1>5. CASE PasoCpu \/ PasoKernel
  BY <1>1, <1>5, TablaOtros
<1>6. CASE UNCHANGED vars
  BY <1>1, <1>6 DEF vars
<1> QED BY <1>2, <1>3, <1>4, <1>5, <1>6 DEF Next, AtenderCpu

\* What is in the TLB after an entry is added: it, and only entries that were there.
LEMMA AgregaQue ==
  ASSUME Tipo, NEW e \in Entradas, Agrega(e)
  PROVE  \A k \in 1 .. Len(tlb') : tlb'[k] = e \/ \E j \in 1 .. Len(tlb) : tlb'[k] = tlb[j]
<1>1. tlb \in Seq(Entradas) /\ Len(tlb) \in Nat
  BY DEF Tipo
<1>2. ASSUME tlb' = Append(tlb, e)
      PROVE  \A k \in 1 .. Len(tlb') : tlb'[k] = e \/ \E j \in 1 .. Len(tlb) : tlb'[k] = tlb[j]
  BY <1>1, <1>2, AlFinal
<1>3. ASSUME NEW i \in 1 .. Len(tlb), tlb' = Append(SinElemento(tlb, i), e)
      PROVE  \A k \in 1 .. Len(tlb') : tlb'[k] = e \/ \E j \in 1 .. Len(tlb) : tlb'[k] = tlb[j]
  <2> DEFINE s == SinElemento(tlb, i)
  <2>1. /\ s \in Seq(Entradas) /\ Len(s) = Len(tlb) - 1
        /\ \A j \in 1 .. Len(tlb) - 1 : s[j] = IF j < i THEN tlb[j] ELSE tlb[j + 1]
    BY <1>1, Quita
  <2> HIDE DEF s
  <2>2. /\ Len(Append(s, e)) = Len(s) + 1 /\ Append(s, e)[Len(s) + 1] = e
        /\ \A k \in 1 .. Len(s) : Append(s, e)[k] = s[k]
    BY <2>1, AlFinal
  <2>3. tlb' = Append(s, e)
    BY <1>3 DEF s
  <2>4. \A k \in 1 .. Len(s) : k \in 1 .. Len(tlb) /\ k + 1 \in 1 .. Len(tlb)
    BY <1>1, <2>1
  <2>5. \A k \in 1 .. Len(s) : \E j \in 1 .. Len(tlb) : s[k] = tlb[j]
    BY <2>1, <2>4
  <2> QED BY <1>1, <2>1, <2>2, <2>3, <2>5
<1> QED BY <1>2, <1>3, AgregaEntradas

\* The entry that RecibeMarco adds.
LEMMA RecibeMarcoQue ==
  ASSUME Tipo, Charla, PideMarco, RecibeMarco
  PROVE  LET e == [pid |-> cpu.pid, pagina |-> cpu.pagina, marco |-> respuestas[1].dato]
         IN  /\ e \in Entradas /\ Agrega(e) /\ EnTlb(cpu.pid, cpu.pagina) = {}
             /\ etapa[cpu.pid] = "ejecutando" /\ EnTabla(cpu.pid, cpu.pagina, respuestas[1].dato)
             /\ cpu.pid \in Pids /\ cpu.pagina \in Nat /\ respuestas[1].dato \in Marcos
             /\ UNCHANGED <<tabla, etapa, enIo>>
             /\ cpu' = [cpu EXCEPT !.en = "direccion", !.marco = respuestas[1].dato]
<1>1. cpu.en = "marco" /\ respuestas # <<>> /\ Head(respuestas) = respuestas[1] /\ respuestas[1].dato \in Marcos
  BY Frentes DEF RecibeMarco, EnPaso
<1>2. /\ Agrega([pid |-> cpu.pid, pagina |-> cpu.pagina, marco |-> respuestas[1].dato])
      /\ cpu' = [cpu EXCEPT !.en = "direccion", !.marco = respuestas[1].dato]
      /\ UNCHANGED <<tabla, etapa, enIo>>
  BY <1>1 DEF RecibeMarco
<1>3. [pid |-> cpu.pid, pagina |-> cpu.pagina, marco |-> respuestas[1].dato] \in Entradas
  BY <1>1, Campos DEF Entradas
<1> QED BY <1>1, <1>2, <1>3, EnMarco, Campos DEF PideMarco, EnTabla

\* Every step keeps what the TLB says of live processes.
LEMMA TlbValePaso ==
  Tipo /\ Charla /\ Tramite /\ PideMarco /\ SoloCrece /\ TlbVale /\ [Next]_vars => TlbVale'
<1> SUFFICES ASSUME Tipo, Charla, Tramite, PideMarco, SoloCrece, TlbVale, [Next]_vars PROVE TlbVale'
  OBVIOUS
<1>1. \A j \in 1 .. Len(tlb) : tlb[j].pid \in Pids /\ tlb[j].pagina \in Nat
  BY Elementos
<1>2. \A p \in Pids, k \in Nat, m \in Marcos :
        ~ Achica /\ Vivo(p) /\ EnTabla(p, k, m) => k < Len(tabla'[p]) /\ tabla'[p][k + 1] = m
  <2>1. ~ Achica => ~ CpuElimina
    BY DEF SoloCrece, CpuElimina, EnCpu
  <2>2. \A p \in Pids, k \in Nat, m \in Marcos : ~ Achica /\ Vivo(p) /\ EnTabla(p, k, m) => EnTabla(p, k, m)'
    BY <2>1, EnTablaQueda
  <2> QED BY <2>2 DEF EnTabla
<1>3. \A p \in Pids : etapa[p] \notin {"inexistente", "nuevo"} =>
        /\ etapa'[p] \notin {"inexistente", "nuevo"}
        /\ etapa'[p] \in {"listo", "ejecutando", "bloqueado"} => Vivo(p)
  BY Vivia DEF Vivo
<1> DEFINE Bien(x) ==
      /\ etapa'[x.pid] \notin {"inexistente", "nuevo"}
      /\ ~ Achica /\ etapa'[x.pid] \in {"listo", "ejecutando", "bloqueado"} =>
           x.pagina < Len(tabla'[x.pid]) /\ tabla'[x.pid][x.pagina + 1] = x.marco
<1>4. \A j \in 1 .. Len(tlb) : Bien(tlb[j])
  <2> SUFFICES ASSUME NEW j \in 1 .. Len(tlb) PROVE Bien(tlb[j])
    OBVIOUS
  <2>1. /\ etapa[tlb[j].pid] \notin {"inexistente", "nuevo"}
        /\ ~ Achica /\ Vivo(tlb[j].pid) => EnTabla(tlb[j].pid, tlb[j].pagina, tlb[j].marco)
    BY DEF TlbVale
  <2>2. tlb[j].pid \in Pids /\ tlb[j].pagina \in Nat /\ tlb[j].marco \in Marcos
    BY Elementos
  <2>3. etapa'[tlb[j].pid] \notin {"inexistente", "nuevo"}
    BY <1>3, <2>1, <2>2
  <2>4. ASSUME ~ Achica, etapa'[tlb[j].pid] \in {"listo", "ejecutando", "bloqueado"}
        PROVE  tlb[j].pagina < Len(tabla'[tlb[j].pid]) /\ tabla'[tlb[j].pid][tlb[j].pagina + 1] = tlb[j].marco
    <3>1. Vivo(tlb[j].pid)
      BY <1>3, <2>1, <2>2, <2>4
    <3> QED BY <1>2, <2>1, <2>2, <2>4, <3>1
  <2> QED BY <2>3, <2>4
<1>5. ASSUME \A k \in 1 .. Len(tlb') : Bien(tlb'[k]) PROVE TlbVale'
  BY <1>5 DEF TlbVale, Vivo, EnTabla
<1>7. CASE tlb' = tlb
  BY <1>4, <1>5, <1>7
<1>8. CASE RecibeMarco
  <2> DEFINE e == [pid |-> cpu.pid, pagina |-> cpu.pagina, marco |-> respuestas[1].dato]
  <2>1. /\ e \in Entradas /\ Agrega(e) /\ etapa[cpu.pid] = "ejecutando" /\ UNCHANGED <<tabla, etapa>>
        /\ EnTabla(cpu.pid, cpu.pagina, respuestas[1].dato)
    BY <1>8, RecibeMarcoQue
  <2>2. Bien(e)
    BY <2>1 DEF EnTabla
  <2>3. \A k \in 1 .. Len(tlb') : tlb'[k] = e \/ \E j \in 1 .. Len(tlb) : tlb'[k] = tlb[j]
    BY <2>1, AgregaQue
  <2> HIDE DEF e, Bien
  <2>4. \A k \in 1 .. Len(tlb') : Bien(tlb'[k])
    BY <1>4, <2>2, <2>3
  <2> QED BY <1>5, <2>4
<1>6. tlb' = tlb \/ RecibeMarco
  BY DEF Next, PasoCpu, Fetch, RecibeInstruccion, RecibeResize, Accede, RecibeAcceso,
     BloqueaEnIo, FinInstruccion, EjecutaResize, ConsultaMmu, PasoKernel, Crea, Admite, Despacha,
     Despierta, Libera, Finaliza, vars
<1> QED BY <1>6, <1>7, <1>8

\* No page is twice in the TLB.
LEMMA TlbUnicaPaso ==
  Tipo /\ Charla /\ PideMarco /\ TlbSinRepetidas /\ [Next]_vars => TlbSinRepetidas'
<1> SUFFICES ASSUME Tipo, Charla, PideMarco, TlbSinRepetidas, [Next]_vars PROVE TlbSinRepetidas'
  OBVIOUS
<1>1. CASE tlb' = tlb
  BY <1>1 DEF TlbSinRepetidas
<1>2. CASE RecibeMarco
  <2> DEFINE e == [pid |-> cpu.pid, pagina |-> cpu.pagina, marco |-> respuestas[1].dato]
  <2>1. e \in Entradas /\ Agrega(e) /\ EnTlb(cpu.pid, cpu.pagina) = {}
    BY <1>2, RecibeMarcoQue
  <2>2. e.pid = cpu.pid /\ e.pagina = cpu.pagina
    OBVIOUS
  <2> HIDE DEF e
  <2>3. \A j \in 1 .. Len(tlb) : ~ (tlb[j].pid = e.pid /\ tlb[j].pagina = e.pagina)
    BY <2>1, <2>2 DEF EnTlb
  <2>4. tlb \in Seq(Entradas) /\ Len(tlb) \in Nat
    BY DEF Tipo
  <2>5. CASE tlb' = Append(tlb, e)
    <3>1. /\ Len(tlb') = Len(tlb) + 1 /\ tlb'[Len(tlb) + 1] = e
          /\ \A k \in 1 .. Len(tlb) : tlb'[k] = tlb[k]
      BY <2>1, <2>4, <2>5, AlFinal
    <3>2. \A k \in 1 .. Len(tlb') : k \in 1 .. Len(tlb) \/ k = Len(tlb) + 1
      BY <2>4, <3>1
    <3> QED BY <2>3, <3>1, <3>2 DEF TlbSinRepetidas
  <2>6. ASSUME NEW i \in 1 .. Len(tlb), tlb' = Append(SinElemento(tlb, i), e) PROVE TlbSinRepetidas'
    <3> DEFINE s == SinElemento(tlb, i)
               De(k) == IF k < i THEN k ELSE k + 1
    <3>1. /\ s \in Seq(Entradas) /\ Len(s) = Len(tlb) - 1
          /\ \A j \in 1 .. Len(tlb) - 1 : s[j] = IF j < i THEN tlb[j] ELSE tlb[j + 1]
      BY <2>4, Quita
    <3> HIDE DEF s
    <3>2. /\ Len(tlb') = Len(s) + 1 /\ tlb'[Len(s) + 1] = e
          /\ \A k \in 1 .. Len(s) : tlb'[k] = s[k]
      BY <2>1, <2>6, <3>1, AlFinal DEF s
    <3>3. \A k \in 1 .. Len(s) : De(k) \in 1 .. Len(tlb) /\ tlb'[k] = tlb[De(k)]
      <4>1. \A k \in 1 .. Len(s) : De(k) \in 1 .. Len(tlb) /\ k \in 1 .. Len(tlb) - 1
        BY <2>4, <3>1
      <4>2. \A k \in 1 .. Len(s) : s[k] = tlb[De(k)]
        BY <3>1, <4>1
      <4> QED BY <3>2, <4>1, <4>2
    <3>4. \A j, k \in 1 .. Len(s) : De(j) = De(k) => j = k
      BY <2>4, <3>1
    <3> HIDE DEF De
    <3>5. \A k \in 1 .. Len(tlb') : k \in 1 .. Len(s) \/ k = Len(s) + 1
      BY <2>4, <3>1, <3>2
    <3>6. ASSUME NEW j \in 1 .. Len(s), NEW k \in 1 .. Len(s),
                 tlb'[j].pid = tlb'[k].pid, tlb'[j].pagina = tlb'[k].pagina
          PROVE  j = k
      BY <3>3, <3>4, <3>6 DEF TlbSinRepetidas
    <3>7. \A k \in 1 .. Len(s) : ~ (tlb'[k].pid = e.pid /\ tlb'[k].pagina = e.pagina)
      BY <2>3, <3>3
    <3> QED BY <3>2, <3>5, <3>6, <3>7 DEF TlbSinRepetidas
  <2> QED BY <1>1, <2>1, <2>5, <2>6, AgregaEntradas
<1>3. tlb' = tlb \/ RecibeMarco
  BY DEF Next, PasoCpu, Fetch, RecibeInstruccion, RecibeResize, Accede, RecibeAcceso,
     BloqueaEnIo, FinInstruccion, EjecutaResize, ConsultaMmu, PasoKernel, Crea, Admite, Despacha,
     Despierta, Libera, Finaliza, vars
<1> QED BY <1>1, <1>2, <1>3

-----------------------------------------------------------------------------
(* The accesses *)

\* The table of a live process changes only in its RESIZE.
LEMMA TablaQueda ==
  ASSUME Tipo, Charla, Tramite, [Next]_vars, NEW p \in Pids, etapa[p] # "liberado", ~ EnResize(p)
  PROVE  tabla'[p] = tabla[p]
<1>1. CASE AtenderCpu /\ UNCHANGED <<cpuVars, kernelVars>>
  BY <1>1, TablaCpu
<1>2. CASE AtenderKernel /\ UNCHANGED <<cpuVars, kernelVars>>
  BY <1>2, TablaKernel
<1>3. CASE PasoCpu \/ PasoKernel
  BY <1>3, TablaOtros
<1> QED BY <1>1, <1>2, <1>3 DEF Next, vars

\* A blocked process stays so until it is woken or killed.
LEMMA SigueBloqueado ==
  ASSUME Tipo, Charla, [Next]_vars, NEW p \in Pids, etapa[p] = "bloqueado"
  PROVE  etapa'[p] = "bloqueado" \/ Despierta(p) \/ Mata
<1>1. ASSUME NEW q \in Pids, NEW a, NEW b, Ciclo!Pasar(q, a, b), a # "bloqueado" \/ q # p
      PROVE  etapa'[p] = etapa[p]
  BY <1>1, PasarEfecto
<1>2. CASE PasoCpu
  <2>1. etapa' = etapa \/ Ciclo!Desalojar(cpu.pid) \/ Ciclo!Terminar(cpu.pid) \/ Ciclo!Bloquear(cpu.pid)
    BY <1>2 DEF PasoCpu, Fetch, RecibeInstruccion, RecibeResize, RecibeMarco, Accede, RecibeAcceso,
       BloqueaEnIo, FinInstruccion, EjecutaResize, ConsultaMmu
  <2>2. etapa' = etapa \/ \E b \in {"listo", "terminado", "bloqueado"} : Ciclo!Pasar(cpu.pid, "ejecutando", b)
    BY <2>1 DEF Ciclo!Desalojar, Ciclo!Terminar, Ciclo!Bloquear
  <2>3. etapa'[p] = etapa[p]
    BY <1>1, <2>2, Campos
  <2> QED BY <2>3
<1>3. CASE PasoKernel
  <2>1. PICK q \in Pids : Crea(q) \/ Admite(q) \/ Despacha(q) \/ Despierta(q) \/ Libera(q) \/ Finaliza(q)
    BY <1>3 DEF PasoKernel
  <2>2. CASE Crea(q) \/ Admite(q) \/ Despacha(q) \/ Libera(q)
    <3>1. \E a \in {"inexistente", "nuevo", "listo", "terminado"} : \E b \in Etapas : Ciclo!Pasar(q, a, b)
      BY <2>2 DEF Crea, Admite, Despacha, Libera, Ciclo!Crear, Ciclo!Admitir, Ciclo!Despachar,
         Ciclo!Liberar, Etapas
    <3> QED BY <1>1, <3>1
  <2>3. CASE Despierta(q) /\ q # p
    <3>1. etapa' = etapa \/ Ciclo!Pasar(q, "bloqueado", "listo")
      BY <2>3 DEF Despierta, Ciclo!Despertar
    <3> QED BY <1>1, <2>3, <3>1
  <2>4. CASE Finaliza(q)
    BY <2>4 DEF Finaliza
  <2> QED BY <2>1, <2>2, <2>3, <2>4
<1> QED BY <1>2, <1>3 DEF Next, vars

\* A frame of a table.
LEMMA DeLaTablaEs ==
  ASSUME Tipo, NEW p \in Pids, NEW k \in Nat, NEW m, EnTabla(p, k, m)
  PROVE  m \in DeLaTabla(p)
<1>1. k + 1 \in 1 .. Len(tabla[p]) /\ tabla[p][k + 1] = m
  BY Tablas DEF EnTabla
<1> QED BY <1>1 DEF DeLaTabla

\* The accesses of the CPU.
LEMMA AccesoCpu ==
  ASSUME Tipo, Charla, Tramite, PideMarco, TlbVale, [Next]_vars, ~ Achica \/ EntradasTlb = 0,
         cpu.en \in {"direccion", "acceso"} => cpu.marco \in DeLaTabla(cpu.pid),
         cpu'.en \in {"direccion", "acceso"}
  PROVE  /\ cpu'.pid = cpu.pid /\ cpu.en # "libre" /\ tabla'[cpu.pid] = tabla[cpu.pid]
         /\ cpu'.marco \in DeLaTabla(cpu.pid)
<1>0. \A c \in Cpus : \A e, k, m :
        /\ [c EXCEPT !.en = e].en = e /\ [c EXCEPT !.en = e].pid = c.pid /\ [c EXCEPT !.en = e].marco = c.marco
        /\ [c EXCEPT !.en = e, !.pid = k].en = e
        /\ [c EXCEPT !.en = e, !.marco = m].en = e /\ [c EXCEPT !.en = e, !.marco = m].pid = c.pid
        /\ [c EXCEPT !.en = e, !.marco = m].marco = m
        /\ [c EXCEPT !.en = e, !.pagina = k].en = e
        /\ [c EXCEPT !.en = e, !.pagina = k, !.marco = m].pid = c.pid
        /\ [c EXCEPT !.en = e, !.pagina = k, !.marco = m].marco = m
  BY DEF Cpus
<1>1. cpu \in Cpus /\ cpu.pid \in Pids
  BY Campos DEF Tipo
<1>2. ASSUME cpu.en # "libre" PROVE etapa[cpu.pid] = "ejecutando"
  BY <1>2 DEF Charla, Duenio
<1>3. ASSUME cpu.en \notin {"libre", "resize"} PROVE tabla'[cpu.pid] = tabla[cpu.pid]
  <2>1. ~ EnResize(cpu.pid) /\ etapa[cpu.pid] # "liberado"
    BY <1>2, <1>3 DEF EnResize
  <2> QED BY <1>1, <2>1, TablaQueda
<1>4. CASE cpu' = cpu
  BY <1>3, <1>4
<1>5. CASE Accede
  <2>1. cpu.en = "direccion" /\ cpu' = [cpu EXCEPT !.en = "acceso"]
    BY <1>5 DEF Accede, EnPaso, Ir
  <2> QED BY <1>0, <1>1, <1>3, <2>1
<1>6. ASSUME NEW k \in Marcos, ConsultaMmu(k)
      PROVE  /\ cpu'.pid = cpu.pid /\ cpu.en # "libre" /\ tabla'[cpu.pid] = tabla[cpu.pid]
             /\ cpu'.marco \in DeLaTabla(cpu.pid)
  <2>1. cpu.en \in {"ejecuta", "accede"}
    BY <1>6 DEF ConsultaMmu, EnPaso
  <2>2. PICK j \in EnTlb(cpu.pid, k) : cpu' = [cpu EXCEPT !.en = "direccion", !.pagina = k, !.marco = tlb[j].marco]
    <3>1. ASSUME cpu' = [cpu EXCEPT !.en = "marco", !.pagina = k] PROVE FALSE
      <4>1. cpu'.en = "marco"
        BY <1>0, <1>1, <3>1
      <4> QED BY <4>1
    <3> QED BY <1>6, <3>1 DEF ConsultaMmu
  <2>3. j \in 1 .. Len(tlb) /\ tlb[j].pid = cpu.pid /\ tlb[j].pagina = k /\ k \in Nat
    BY <2>2, Marco DEF EnTlb
  <2>4. ~ Achica
    <3>1. tlb \in Seq(Entradas) /\ Len(tlb) <= EntradasTlb /\ Len(tlb) \in Nat
      BY DEF Tipo
    <3>2. EntradasTlb # 0
      BY <2>3, <3>1
    <3> QED BY <3>2
  <2>5. EnTabla(cpu.pid, k, tlb[j].marco)
    BY <1>2, <2>1, <2>3, <2>4 DEF TlbVale, Vivo
  <2>6. tlb[j].marco \in DeLaTabla(cpu.pid)
    BY <1>1, <2>3, <2>5, DeLaTablaEs
  <2>7. cpu'.pid = cpu.pid /\ cpu'.marco = tlb[j].marco
    BY <1>0, <1>1, <2>2
  <2> QED BY <1>3, <2>1, <2>6, <2>7
<1>7. CASE RecibeMarco
  <2>1. /\ EnTabla(cpu.pid, cpu.pagina, respuestas[1].dato) /\ cpu.pid \in Pids /\ cpu.pagina \in Nat
        /\ cpu' = [cpu EXCEPT !.en = "direccion", !.marco = respuestas[1].dato]
    BY <1>7, RecibeMarcoQue
  <2>2. respuestas[1].dato \in DeLaTabla(cpu.pid) /\ cpu.en = "marco"
    BY <1>7, <2>1, DeLaTablaEs DEF RecibeMarco, EnPaso
  <2> QED BY <1>0, <1>1, <1>3, <2>1, <2>2
<1>8. CASE Fetch \/ RecibeInstruccion \/ RecibeResize \/ RecibeAcceso \/ BloqueaEnIo
           \/ FinInstruccion \/ \E t \in Tamanios : EjecutaResize(t)
  <2>1. \/ cpu' = Libre0
        \/ \E e \in EstadosCpu \ {"direccion", "acceso"} : cpu' = [cpu EXCEPT !.en = e]
        \/ \E m : cpu' = [cpu EXCEPT !.en = "accede", !.marco = m]
    BY <1>8 DEF Fetch, RecibeInstruccion, RecibeResize, RecibeAcceso, BloqueaEnIo,
       FinInstruccion, EjecutaResize, EstadosCpu, Ir
  <2>2. CASE cpu' = Libre0
    BY <2>2 DEF Libre0
  <2>3. CASE \E e \in EstadosCpu \ {"direccion", "acceso"} : cpu' = [cpu EXCEPT !.en = e]
    BY <1>0, <1>1, <2>3
  <2>4. CASE \E m : cpu' = [cpu EXCEPT !.en = "accede", !.marco = m]
    BY <1>0, <1>1, <2>4
  <2> QED BY <2>1, <2>2, <2>3, <2>4
<1>9. CASE PasoKernel
  <2>1. cpu' = cpu \/ \E q : cpu' = [cpu EXCEPT !.en = "fetch", !.pid = q]
    BY <1>9 DEF PasoKernel, Crea, Admite, Despacha, Despierta, Libera, Finaliza
  <2>2. ASSUME NEW q, cpu' = [cpu EXCEPT !.en = "fetch", !.pid = q] PROVE FALSE
    <3>1. cpu'.en = "fetch"
      BY <1>0, <1>1, <2>2
    <3> QED BY <3>1
  <2> QED BY <1>4, <2>1, <2>2
<1> QED BY <1>4, <1>5, <1>6, <1>7, <1>8, <1>9 DEF Next, PasoCpu, vars

\* and those of the interfaces.
LEMMA AccesoIo ==
  ASSUME Tipo, Charla, Tramite, [Next]_vars, ~ (Mata /\ ConIo),
         cpu.en \in {"direccion", "acceso"} => cpu.marco \in DeLaTabla(cpu.pid),
         \A q \in Pids : enIo[q] # SINMARCO => enIo[q] \in DeLaTabla(q) /\ ConIo /\ etapa[q] = "bloqueado",
         NEW p \in Pids, enIo'[p] # SINMARCO
  PROVE  /\ tabla'[p] = tabla[p] /\ enIo'[p] \in DeLaTabla(p) /\ ConIo /\ etapa'[p] = "bloqueado"
<1>1. CASE enIo'[p] = enIo[p] /\ ~ Despierta(p)
  <2>1. enIo[p] \in DeLaTabla(p) /\ ConIo /\ etapa[p] = "bloqueado" /\ ~ Mata
    BY <1>1
  <2>2. etapa'[p] = "bloqueado"
    BY <1>1, <2>1, SigueBloqueado
  <2>3. ~ EnResize(p)
    BY <2>1 DEF EnResize, Charla, Duenio
  <2> QED BY <1>1, <2>1, <2>2, <2>3, TablaQueda
<1>2. CASE Despierta(p)
  BY <1>2 DEF Despierta, Tipo
<1>3. CASE BloqueaEnIo
  <2>1. /\ cpu.en = "direccion" /\ ConIo /\ Ciclo!Pasar(cpu.pid, "ejecutando", "bloqueado")
        /\ enIo' = [enIo EXCEPT ![cpu.pid] = cpu.marco]
    BY <1>3 DEF BloqueaEnIo, EnPaso, Ciclo!Bloquear
  <2>2. cpu.pid \in Pids /\ etapa'[cpu.pid] = "bloqueado" /\ etapa[cpu.pid] = "ejecutando"
    BY <2>1, Campos, PasarEfecto
  <2>3. ~ EnResize(cpu.pid)
    BY <2>1 DEF EnResize
  <2>4. tabla'[cpu.pid] = tabla[cpu.pid]
    BY <2>2, <2>3, TablaQueda
  <2>5. CASE p = cpu.pid
    <3>1. enIo'[p] = cpu.marco
      BY <2>1, <2>5 DEF Tipo
    <3> QED BY <2>1, <2>2, <2>4, <2>5, <3>1
  <2>6. CASE p # cpu.pid
    <3>1. enIo'[p] = enIo[p]
      BY <2>1, <2>6 DEF Tipo
    <3> QED BY <1>1, <1>2, <3>1
  <2> QED BY <2>5, <2>6
<1>4. ASSUME ~ BloqueaEnIo, ~ Despierta(p) PROVE enIo'[p] = enIo[p]
  BY <1>4 DEF Next, PasoCpu, Fetch, RecibeInstruccion, RecibeResize, RecibeMarco, Accede,
     RecibeAcceso,
     FinInstruccion, EjecutaResize, ConsultaMmu, PasoKernel, Crea, Admite, Despacha, Despierta, Libera,
     Finaliza, vars, Tipo
<1> QED BY <1>1, <1>2, <1>3, <1>4

\* Every step keeps the accesses in the frames of their process.
LEMMA AccesoPaso ==
  Tipo /\ Charla /\ Tramite /\ PideMarco /\ TlbVale /\ Acceso /\ [Next]_vars => Acceso'
<1> SUFFICES ASSUME Tipo, Charla, Tramite, PideMarco, TlbVale, Acceso, [Next]_vars,
                    ~ Achica \/ EntradasTlb = 0, ~ (Mata /\ ConIo)
             PROVE  Acceso'
  BY DEF Acceso
<1>1. /\ cpu.en \in {"direccion", "acceso"} => cpu.marco \in DeLaTabla(cpu.pid)
      /\ \A q \in Pids : enIo[q] # SINMARCO => enIo[q] \in DeLaTabla(q) /\ ConIo /\ etapa[q] = "bloqueado"
  BY DEF Acceso, AccesoPropio
<1>2. cpu'.en \in {"direccion", "acceso"} =>
        cpu'.pid = cpu.pid /\ tabla'[cpu.pid] = tabla[cpu.pid] /\ cpu'.marco \in DeLaTabla(cpu.pid)
  BY <1>1, AccesoCpu
<1>3. \A p \in Pids : enIo'[p] # SINMARCO =>
        tabla'[p] = tabla[p] /\ enIo'[p] \in DeLaTabla(p) /\ ConIo /\ etapa'[p] = "bloqueado"
  BY <1>1, AccesoIo
<1> QED BY <1>2, <1>3 DEF Acceso, AccesoPropio, DeLaTabla

-----------------------------------------------------------------------------
(* The messages of the kernel *)

\* Who is past NEW was before, or is admitted in this step: without kills there is no other way
\* out of NEW.
LEMMA Entra ==
  ASSUME Tipo, ~ Mata, [Next]_vars, NEW p \in Pids, etapa'[p] \in Entrado
  PROVE  etapa[p] \in Entrado \/ Admite(p)
<1> SUFFICES ASSUME etapa[p] \notin Entrado PROVE Admite(p)
  OBVIOUS
<1>1. etapa[p] # etapa'[p]
  OBVIOUS
<1>2. <<etapa[p], etapa'[p]>> \in Transiciones /\ ~ (etapa[p] = "nuevo" /\ etapa'[p] = "terminado")
  BY <1>1, Transita
<1>3. etapa[p] = "nuevo" /\ etapa'[p] = "listo"
  BY <1>2 DEF Transiciones, Entrado
<1>4. ASSUME NEW q \in Pids, NEW a, NEW b, Ciclo!Pasar(q, a, b) PROVE q = p /\ a = "nuevo"
  BY <1>1, <1>3, <1>4, PasarEfecto
<1>5. CASE PasoCpu
  <2>1. etapa' = etapa \/ Ciclo!Desalojar(cpu.pid) \/ Ciclo!Terminar(cpu.pid) \/ Ciclo!Bloquear(cpu.pid)
    BY <1>5 DEF PasoCpu, Fetch, RecibeInstruccion, RecibeResize, RecibeMarco, Accede, RecibeAcceso,
       BloqueaEnIo, FinInstruccion, EjecutaResize, ConsultaMmu
  <2>2. \E b \in {"listo", "terminado", "bloqueado"} : Ciclo!Pasar(cpu.pid, "ejecutando", b)
    BY <1>1, <2>1 DEF Ciclo!Desalojar, Ciclo!Terminar, Ciclo!Bloquear
  <2> QED BY <1>4, <2>2, Campos
<1>6. CASE PasoKernel
  <2>1. PICK q \in Pids : Crea(q) \/ Admite(q) \/ Despacha(q) \/ Despierta(q) \/ Libera(q) \/ Finaliza(q)
    BY <1>6 DEF PasoKernel
  <2>2. Admite(q) \/ \E a \in {"inexistente", "listo", "bloqueado", "terminado"} : \E b \in Etapas : Ciclo!Pasar(q, a, b)
    BY <1>1, <2>1 DEF Crea, Despacha, Despierta, Libera, Finaliza, Ciclo!Crear, Ciclo!Despachar,
       Ciclo!Despertar, Ciclo!Liberar, Etapas
  <2>3. CASE Admite(q)
    <3>1. Ciclo!Pasar(q, "nuevo", "listo")
      BY <2>3 DEF Admite, Ciclo!Admitir
    <3> QED BY <1>4, <2>3, <3>1
  <2> QED BY <1>4, <2>2, <2>3
<1> QED BY <1>1, <1>5, <1>6 DEF Next, vars

\* Steps that leave the list and the messages alone: Conocido is kept.
LEMMA ConocidoIgual ==
  ASSUME Tipo, ~ Mata, Conocido, UNCHANGED <<lista, deKernel>>, [Next]_vars
  PROVE  Conocido'
<1>1. \A p \in Pids : etapa'[p] \in Entrado => etapa[p] \in Entrado
  <2>1. ASSUME NEW p \in Pids, Admite(p) PROVE FALSE
    <3>1. Len(deKernel) \in Nat /\ Len(deKernel') = Len(deKernel) + 1
      BY <2>1, AvisaEfecto DEF Admite
    <3> QED BY <3>1
  <2> QED BY <2>1, Entra
<1> QED BY <1>1 DEF Conocido, Avisados, Sabidos, EnLista, Anunciado, EsNuevo, EsFin

\* A message more: Conocido is kept.
LEMMA ConocidoAvisa ==
  ASSUME Tipo, ~ Mata, Conocido, NEW p \in Pids, NEW op \in {"PROCESO_NUEVO", "ELIMINAR_PROCESO"},
         NEW a, NEW b, lista' = lista, Avisa(op, p), Ciclo!Pasar(p, a, b),
         op = "ELIMINAR_PROCESO" => a \in Entrado /\ b \notin Entrado
  PROVE  Conocido'
<1> DEFINE n == Len(deKernel)
<1>1. /\ n \in Nat /\ Len(deKernel') = n + 1 /\ \A k \in 1 .. n : deKernel'[k] = deKernel[k]
      /\ deKernel'[n + 1].op = op /\ deKernel'[n + 1].pid = p
  <2>1. /\ n \in Nat /\ Len(deKernel') = n + 1 /\ \A k \in 1 .. n : deKernel'[k] = deKernel[k]
        /\ deKernel'[n + 1] = [op |-> op, pid |-> p]
    BY AvisaEfecto
  <2> QED BY <2>1
<1>2. etapa[p] = a /\ etapa'[p] = b /\ \A q \in Pids : q # p => etapa'[q] = etapa[q]
  BY PasarEfecto
<1> DEFINE Dicho(q, m) == \E j \in 1 .. m : deKernel'[j].op = "PROCESO_NUEVO" /\ deKernel'[j].pid = q
<1>3. \A q, m : m \in 0 .. n /\ Anunciado(q, m) => Dicho(q, m)
  BY <1>1 DEF Anunciado, EsNuevo
<1>4. \A k \in 1 .. n + 1 : k \in 1 .. n \/ k = n + 1
  BY <1>1
<1>5. \A k \in 1 .. n : k - 1 \in 0 .. n
  BY <1>1
<1>6. \A k \in 1 .. n : EsFin(k) => EnLista(deKernel[k].pid) \/ Dicho(deKernel[k].pid, k - 1)
  BY <1>3, <1>5 DEF Conocido, Avisados
<1>7. \A q \in Pids : etapa[q] \in Entrado => EnLista(q) \/ Dicho(q, n)
  BY <1>1, <1>3 DEF Conocido, Sabidos
<1>8. op = "ELIMINAR_PROCESO" => EnLista(p) \/ Dicho(p, n)
  BY <1>2, <1>7
<1>9. Avisados'
  <2>1. \A k \in 1 .. n + 1 : deKernel'[k].op = "ELIMINAR_PROCESO" =>
          EnLista(deKernel'[k].pid) \/ Dicho(deKernel'[k].pid, k - 1)
    <3>1. ASSUME NEW k \in 1 .. n, deKernel'[k].op = "ELIMINAR_PROCESO"
          PROVE  EnLista(deKernel'[k].pid) \/ Dicho(deKernel'[k].pid, k - 1)
      BY <1>1, <1>6, <3>1 DEF EsFin
    <3>2. (n + 1) - 1 = n
      BY <1>1
    <3> QED BY <1>1, <1>4, <1>8, <3>1, <3>2
  <2> QED BY <1>1, <2>1 DEF Avisados, EsFin, EnLista, Anunciado, EsNuevo
<1>10. Sabidos'
  <2>1. ASSUME NEW q \in Pids, etapa'[q] \in Entrado PROVE EnLista(q) \/ Dicho(q, n + 1)
    <3>1. CASE q # p
      <4>1. EnLista(q) \/ Dicho(q, n)
        BY <1>2, <1>7, <2>1, <3>1
      <4> QED BY <1>1, <4>1
    <3>2. CASE q = p
      <4>1. op = "PROCESO_NUEVO" /\ n + 1 \in 1 .. n + 1
        BY <1>1, <1>2, <2>1, <3>2
      <4> QED BY <1>1, <3>2, <4>1
    <3> QED BY <3>1, <3>2
  <2> QED BY <1>1, <2>1 DEF Sabidos, EnLista, Anunciado, EsNuevo
<1> QED BY <1>9, <1>10 DEF Conocido

\* PROCESO_NUEVO is taken: Conocido is kept.
LEMMA ConocidoNuevo ==
  ASSUME Tipo, Charla, Tramite, ~ Mata, Conocido, KernelNuevo, UNCHANGED <<cpuVars, kernelVars>>
  PROVE  Conocido'
<1>1. PICK x \in Pids : /\ x = deKernel[1].pid /\ EsNuevo(1) /\ deKernel # <<>>
                        /\ deKernel' = Tail(deKernel) /\ lista' = Append(lista, x)
  BY NuevoHecho
<1>2. /\ Len(deKernel) \in Nat /\ Len(deKernel) >= 1 /\ Len(deKernel') = Len(deKernel) - 1
      /\ \A k \in 1 .. Len(deKernel') : k + 1 \in 2 .. Len(deKernel) /\ deKernel'[k] = deKernel[k + 1]
  BY <1>1, AtiendeEfecto
<1>3. \A q \in Pids : EnLista(q)' <=> EnLista(q) \/ q = x
  BY <1>1, EntraEfecto
<1> DEFINE Dicho(q, m) == \E j \in 1 .. m : deKernel'[j].op = "PROCESO_NUEVO" /\ deKernel'[j].pid = q
           Esta(q) == \E k \in 1 .. Len(lista') : lista'[k] = q
<1>4. \A q \in Pids, m \in 0 .. Len(deKernel') : Anunciado(q, m + 1) => q = x \/ Dicho(q, m)
  <2>1. ASSUME NEW q \in Pids, NEW m \in 0 .. Len(deKernel'), NEW j \in 1 .. m + 1,
               EsNuevo(j), deKernel[j].pid = q, q # x
        PROVE  Dicho(q, m)
    <3>1. j - 1 \in 1 .. m /\ j - 1 \in 1 .. Len(deKernel') /\ (j - 1) + 1 = j
      BY <1>1, <1>2, <2>1
    <3>2. deKernel'[j - 1] = deKernel[j]
      BY <1>2, <3>1
    <3> QED BY <2>1, <3>1, <3>2 DEF EsNuevo
  <2> QED BY <2>1 DEF Anunciado
<1>5. \A q \in Pids : EnLista(q) \/ q = x => Esta(q)
  BY <1>3 DEF EnLista
<1>6. Avisados'
  <2>1. ASSUME NEW k \in 1 .. Len(deKernel'), deKernel'[k].op = "ELIMINAR_PROCESO"
        PROVE  Esta(deKernel'[k].pid) \/ Dicho(deKernel'[k].pid, k - 1)
    <3>1. /\ deKernel'[k] = deKernel[k + 1] /\ EsFin(k + 1) /\ k + 1 \in 1 .. Len(deKernel)
          /\ (k + 1) - 1 = (k - 1) + 1 /\ k - 1 \in 0 .. Len(deKernel') /\ deKernel[k + 1].pid \in Pids
      BY <1>2, <2>1, Elementos DEF EsFin
    <3>2. EnLista(deKernel[k + 1].pid) \/ Anunciado(deKernel[k + 1].pid, (k + 1) - 1)
      BY <3>1 DEF Conocido, Avisados
    <3> QED BY <1>4, <1>5, <3>1, <3>2
  <2> QED BY <2>1 DEF Avisados, EsFin, EnLista, Anunciado, EsNuevo
<1>7. Sabidos'
  <2>1. ASSUME NEW q \in Pids, etapa[q] \in Entrado PROVE Esta(q) \/ Dicho(q, Len(deKernel'))
    <3>1. EnLista(q) \/ Anunciado(q, Len(deKernel))
      BY <2>1 DEF Conocido, Sabidos
    <3>2. Len(deKernel) = Len(deKernel') + 1 /\ Len(deKernel') \in 0 .. Len(deKernel')
      BY <1>2
    <3> QED BY <1>4, <1>5, <3>1, <3>2
  <2> QED BY <2>1 DEF Sabidos, EnLista, Anunciado, EsNuevo
<1> QED BY <1>6, <1>7 DEF Conocido

\* ELIMINAR_PROCESO is taken: Conocido is kept.
LEMMA ConocidoBusca ==
  ASSUME Tipo, ~ Mata, Conocido, KernelBusca, deKernel' = Tail(deKernel), UNCHANGED <<cpuVars, kernelVars>>
  PROVE  Conocido'
<1>1. deKernel # <<>> /\ Head(deKernel).op = "ELIMINAR_PROCESO" /\ lista' = lista
  BY DEF KernelBusca, Cae
<1>2. /\ Len(deKernel) \in Nat /\ Len(deKernel) >= 1 /\ Len(deKernel') = Len(deKernel) - 1
      /\ \A k \in 1 .. Len(deKernel') : k + 1 \in 2 .. Len(deKernel) /\ deKernel'[k] = deKernel[k + 1]
      /\ Head(deKernel) = deKernel[1]
  BY <1>1, AtiendeEfecto
<1> DEFINE Dicho(q, m) == \E j \in 1 .. m : deKernel'[j].op = "PROCESO_NUEVO" /\ deKernel'[j].pid = q
<1>4. \A q \in Pids, m \in 0 .. Len(deKernel') : Anunciado(q, m + 1) => Dicho(q, m)
  <2>1. ASSUME NEW q \in Pids, NEW m \in 0 .. Len(deKernel'), NEW j \in 1 .. m + 1,
               EsNuevo(j), deKernel[j].pid = q
        PROVE  Dicho(q, m)
    <3>0. j # 1
      BY <1>1, <1>2, <2>1 DEF EsNuevo
    <3>1. j - 1 \in 1 .. m /\ j - 1 \in 1 .. Len(deKernel') /\ (j - 1) + 1 = j
      BY <1>2, <2>1, <3>0
    <3>2. deKernel'[j - 1] = deKernel[j]
      BY <1>2, <3>1
    <3> QED BY <2>1, <3>1, <3>2 DEF EsNuevo
  <2> QED BY <2>1 DEF Anunciado
<1>6. Avisados'
  <2>1. ASSUME NEW k \in 1 .. Len(deKernel'), deKernel'[k].op = "ELIMINAR_PROCESO"
        PROVE  EnLista(deKernel'[k].pid) \/ Dicho(deKernel'[k].pid, k - 1)
    <3>1. /\ deKernel'[k] = deKernel[k + 1] /\ EsFin(k + 1) /\ k + 1 \in 1 .. Len(deKernel)
          /\ (k + 1) - 1 = (k - 1) + 1 /\ k - 1 \in 0 .. Len(deKernel') /\ deKernel[k + 1].pid \in Pids
      BY <1>2, <2>1, Elementos DEF EsFin
    <3>2. EnLista(deKernel[k + 1].pid) \/ Anunciado(deKernel[k + 1].pid, (k + 1) - 1)
      BY <3>1 DEF Conocido, Avisados
    <3> QED BY <1>4, <3>1, <3>2
  <2> QED BY <1>1, <2>1 DEF Avisados, EsFin, EnLista, Anunciado, EsNuevo
<1>7. Sabidos'
  <2>1. ASSUME NEW q \in Pids, etapa[q] \in Entrado PROVE EnLista(q) \/ Dicho(q, Len(deKernel'))
    <3>1. EnLista(q) \/ Anunciado(q, Len(deKernel))
      BY <2>1 DEF Conocido, Sabidos
    <3>2. Len(deKernel) = Len(deKernel') + 1 /\ Len(deKernel') \in 0 .. Len(deKernel')
      BY <1>2
    <3> QED BY <1>4, <3>1, <3>2
  <2> QED BY <1>1, <2>1 DEF Sabidos, EnLista, Anunciado, EsNuevo
<1> QED BY <1>6, <1>7 DEF Conocido

\* The process goes out of lista_procesos: no message for it is left (Conocido is kept).
LEMMA ConocidoSaca ==
  ASSUME Tipo, Tramite, ~ Mata, Conocido, KernelSaca, UNCHANGED <<cpuVars, kernelVars>>
  PROVE  Conocido'
<1> DEFINE p == hiloKernel.pid
<1>1. hiloKernel.en = "saca" /\ deKernel' = deKernel /\ p \in Pids
  BY Campos DEF KernelSaca, EnKernel
<1>2. PICK m \in 1 .. Len(lista) : lista[m] = p /\ lista' = SinElemento(lista, m)
  BY DEF KernelSaca
<1>3. \A q \in Pids : q # p /\ EnLista(q) => EnLista(q)'
  BY <1>2, SacaEfecto
<1>4. Liberando(p) /\ etapa[p] = "liberado"
  BY <1>1 DEF Tramite, Liberados, Liberando
<1>5. \A k \in 1 .. Len(deKernel) : EsFin(k) => deKernel[k].pid \in Pids /\ deKernel[k].pid # p
  BY <1>4, Elementos DEF Tramite, Fines
<1> DEFINE Esta(q) == \E k \in 1 .. Len(lista') : lista'[k] = q
<1>6. \A q \in Pids : q # p /\ EnLista(q) => Esta(q)
  BY <1>3 DEF EnLista
<1>7. \A k \in 1 .. Len(deKernel) : EsFin(k) => Esta(deKernel[k].pid) \/ Anunciado(deKernel[k].pid, k - 1)
  BY <1>5, <1>6 DEF Conocido, Avisados
<1>8. \A q \in Pids : etapa[q] \in Entrado => Esta(q) \/ Anunciado(q, Len(deKernel))
  BY <1>4, <1>6 DEF Conocido, Sabidos, Entrado
<1>9. Avisados'
  BY <1>1, <1>7 DEF Avisados, EsFin, EnLista, Anunciado, EsNuevo
<1>10. Sabidos'
  BY <1>1, <1>8 DEF Sabidos, EnLista, Anunciado, EsNuevo
<1> QED BY <1>9, <1>10 DEF Conocido

\* Every step keeps it.
LEMMA ConocidoPaso == Tipo /\ Charla /\ Tramite /\ Conocido /\ [Next]_vars => Conocido'
<1> SUFFICES ASSUME Tipo, Charla, Tramite, Conocido, [Next]_vars, ~ Mata PROVE Conocido'
  BY DEF Conocido
<1>1. ASSUME NEW p \in Pids, Admite(p) PROVE Conocido'
  <2>1. lista' = lista /\ Avisa("PROCESO_NUEVO", p) /\ Ciclo!Pasar(p, "nuevo", "listo")
    BY <1>1 DEF Admite, Ciclo!Admitir
  <2> QED BY <2>1, ConocidoAvisa
<1>2. ASSUME NEW p \in Pids, Libera(p) PROVE Conocido'
  <2>1. lista' = lista /\ Avisa("ELIMINAR_PROCESO", p) /\ Ciclo!Pasar(p, "terminado", "liberado")
    BY <1>2 DEF Libera, Ciclo!Liberar
  <2>2. "terminado" \in Entrado /\ "liberado" \notin Entrado
    BY DEF Entrado
  <2> QED BY <2>1, <2>2, ConocidoAvisa
<1>3. CASE AtenderKernel /\ UNCHANGED <<cpuVars, kernelVars>>
  <2>1. CASE KernelBusca
    <3>1. UNCHANGED <<lista, deKernel>> \/ deKernel' = Tail(deKernel)
      BY <2>1 DEF KernelBusca, Cae
    <3> QED BY <1>3, <2>1, <3>1, ConocidoIgual, ConocidoBusca
  <2>2. CASE KernelLibera \/ KernelFin
    BY <2>2, ConocidoIgual DEF KernelLibera, KernelFin
  <2> QED BY <1>3, <2>1, <2>2, ConocidoNuevo, ConocidoSaca DEF AtenderKernel
<1>4. CASE AtenderCpu \/ PasoCpu
  <2>1. UNCHANGED <<lista, deKernel>>
    BY <1>4 DEF AtenderCpu, CpuRecibe, CpuInstruccion, CpuProceso, CpuMarco, CpuResize, CpuAsigna,
       CpuElimina, CpuResponde, Cae, PasoCpu, Fetch, RecibeInstruccion, RecibeResize, RecibeMarco, Accede,
       RecibeAcceso, BloqueaEnIo, FinInstruccion, EjecutaResize, ConsultaMmu
  <2> QED BY <2>1, ConocidoIgual
<1>5. ASSUME NEW p \in Pids, Crea(p) \/ Despacha(p) \/ Despierta(p) \/ Finaliza(p) PROVE Conocido'
  <2>1. UNCHANGED <<lista, deKernel>>
    BY <1>5 DEF Crea, Despacha, Despierta, Finaliza
  <2> QED BY <2>1, ConocidoIgual
<1>6. CASE UNCHANGED vars
  BY <1>6, ConocidoIgual DEF vars
<1> QED BY <1>1, <1>2, <1>3, <1>4, <1>5, <1>6 DEF Next, PasoKernel

-----------------------------------------------------------------------------
(* The invariant and the theorems *)

\* It holds when the processes start.
LEMMA InvarianteInicial == Init => Invariante
<1> SUFFICES ASSUME Init PROVE Invariante
  OBVIOUS
<1>1. /\ lista = <<>> /\ tabla = [p \in Pids |-> <<>>] /\ tamanio = [p \in Pids |-> 0]
      /\ ocupados = {} /\ cerrado = FALSE /\ hiloCpu = Reposo /\ hiloKernel = [en |-> "recibe", pid |-> 0]
      /\ deCpu = <<>> /\ deKernel = <<>> /\ respuestas = <<>> /\ memoria = "viva"
      /\ cpu = Libre0 /\ tlb = <<>> /\ sobra = FALSE /\ enIo = [p \in Pids |-> SINMARCO]
  BY DEF Init, MemoriaInit
<1>2. etapa = [p \in Pids |-> "inexistente"]
  BY DEF Init, Ciclo!Init, Ciclo!Procesos, Pids
<1>3. /\ hiloCpu.en = "recibe" /\ hiloCpu.pedido = SinPedido /\ hiloKernel.en = "recibe" /\ cpu.en = "libre"
      /\ Len(lista) = 0 /\ Len(deCpu) = 0 /\ Len(deKernel) = 0 /\ Len(respuestas) = 0 /\ Len(tlb) = 0
  BY <1>1 DEF Reposo, Libre0
<1>4. \A p \in Pids : tabla[p] = <<>> /\ tamanio[p] = 0 /\ etapa[p] = "inexistente" /\ enIo[p] = SINMARCO
  BY <1>1, <1>2
<1>5. Tipo
  <2>1. hiloCpu \in HilosCpu /\ hiloKernel \in HilosKernel /\ cpu \in Cpus
    BY <1>1, Cero DEF Reposo, SinPedido, HilosCpu, LugaresCpu, HilosKernel, Libre0, Cpus, EstadosCpu
  <2>2. /\ tabla \in [Pids -> Seq(Marcos)] /\ tamanio \in [Pids -> Nat]
        /\ enIo \in [Pids -> Marcos \cup {SINMARCO}] /\ etapa \in [Pids -> Etapas]
    BY <1>1, <1>2 DEF Etapas
  <2>3. Len(tlb) <= EntradasTlb
    BY <1>3, CpuAssumption
  <2>4. /\ lista \in Seq(Pids) /\ deCpu \in Seq(Pedidos) /\ deKernel \in Seq(Avisos)
        /\ respuestas \in Seq(Respuestas) /\ tlb \in Seq(Entradas)
    BY <1>1
  <2>5. ocupados \subseteq Marcos /\ cerrado \in BOOLEAN /\ sobra \in BOOLEAN /\ memoria = "viva"
    BY <1>1
  <2> QED BY <1>3, <2>1, <2>2, <2>3, <2>4, <2>5 DEF Tipo
<1>6. Charla
  BY <1>1, <1>3, <1>4 DEF Charla, Duenio, Normal, Calla
<1>7. Tramite
  <2>1. Nuevos /\ Fines /\ Unicos
    BY <1>3 DEF Nuevos, Fines, Unicos
  <2>2. SinEntrar /\ Liberados /\ ConPaginas /\ Hallado
    BY <1>3, <1>4 DEF SinEntrar, Liberados, ConPaginas, Hallado, EnLista, Liberando
  <2> QED BY <2>1, <2>2 DEF Tramite
<1>8. Ajuste
  BY <1>4 DEF Ajuste, Vivo
<1>9. MarcosExclusivos
  <2>1. \A p \in Pids : DeLaTabla(p) = {}
    BY <1>4 DEF DeLaTabla
  <2>2. UNION {DeLaTabla(p) : p \in Pids} = {}
    BY <2>1
  <2> QED BY <1>1, <1>4, <2>2 DEF MarcosExclusivos
<1>10. PideMarco /\ SoloCrece
  BY <1>1, <1>3 DEF PideMarco, SoloCrece
<1>11. TlbVale /\ TlbSinRepetidas
  BY <1>3 DEF TlbVale, TlbSinRepetidas
<1>12. Acceso
  BY <1>3, <1>4 DEF Acceso, AccesoPropio
<1>13. Conocido
  BY <1>3, <1>4 DEF Conocido, Avisados, Sabidos, Entrado
<1> QED BY <1>5, <1>6, <1>7, <1>8, <1>9, <1>10, <1>11, <1>12, <1>13 DEF Invariante

\* Every step keeps it.
LEMMA InvariantePaso == Invariante /\ [Next]_vars => Invariante'
<1> SUFFICES ASSUME Invariante, [Next]_vars PROVE Invariante'
  OBVIOUS
<1>1. /\ Tipo /\ Charla /\ Tramite /\ Ajuste /\ MarcosExclusivos /\ PideMarco
      /\ SoloCrece /\ TlbVale /\ TlbSinRepetidas /\ Acceso /\ Conocido
  BY DEF Invariante
<1>2. Tipo' /\ Charla' /\ Tramite'
  BY <1>1, TipoPaso, CharlaPaso, TramitePaso
<1>3. Ajuste' /\ MarcosExclusivos'
  BY <1>1, <1>2, AjustePaso, MarcosPaso
<1>4. PideMarco' /\ SoloCrece' /\ TlbVale' /\ TlbSinRepetidas'
  BY <1>1, PideMarcoPaso, SoloCrecePaso, TlbValePaso, TlbUnicaPaso
<1>5. Acceso' /\ Conocido'
  BY <1>1, AccesoPaso, ConocidoPaso
<1> QED BY <1>2, <1>3, <1>4, <1>5 DEF Invariante

\* So it always holds.
LEMMA InvarianteSiempre == Spec => []Invariante
BY InvarianteInicial, InvariantePaso, PTL DEF Spec

\* Every variable keeps its type and the CPU never has two requests on the wire.
THEOREM TipoMemoria == Spec => []TypeOK
<1>1. Invariante => TypeOK
  <2> SUFFICES ASSUME Tipo, Charla PROVE TypeOK
    BY DEF Invariante
  <2>1. Len(deCpu) <= 1
    <3>1. deCpu = <<>> \/ Len(deCpu) = 1
      BY DEF Charla, Normal, Agotada, Espera, Enviado, Servido, Contestado, Calla
    <3> QED BY <3>1
  <2>2. /\ hiloCpu.pedido \in Pedidos \cup {SinPedido} /\ hiloCpu.i \in Nat /\ hiloCpu.resta \in Nat
        /\ hiloKernel \in [en : {"recibe", "saca", "libera"}, pid : Pids]
    BY DEF Tipo, HilosCpu, HilosKernel
  <2> QED BY <2>1, <2>2 DEF TypeOK, Tipo
<1> QED BY <1>1, InvarianteSiempre, PTL

\* No frame is given twice and none is lost.
THEOREM MarcosSiempreExclusivos == Spec => []MarcosExclusivos
<1>1. Invariante => MarcosExclusivos
  BY DEF Invariante
<1> QED BY <1>1, InvarianteSiempre, PTL

\* A RESIZE that was answered OK left the process with the pages of its size.
THEOREM TablaSiempreDelTamanio == Spec => []TablaDelTamanio
<1>1. Invariante => TablaDelTamanio
  <2> SUFFICES ASSUME Tipo, Charla, Ajuste, NEW p \in Pids, Vivo(p), ~ EnResize(p)
               PROVE  Len(tabla[p]) = Paginas(tamanio[p])
    BY DEF Invariante, TablaDelTamanio
  <2>1. Len(tabla[p]) + Faltan(p) = Paginas(tamanio[p])
    BY DEF Ajuste, SinFrames
  <2>2. hiloCpu.en \in {"asigna", "elimina"} => hiloCpu.pedido.pid # p
    BY EnServicio DEF EnResize
  <2>3. Faltan(p) = 0
    BY <2>2 DEF Faltan
  <2> QED BY <2>1, <2>3, Tablas
<1> QED BY <1>1, InvarianteSiempre, PTL

\* Until OUT_OF_MEMORY_AVISO is answered, the CPU has one question at most, and the
\* answer it reads is to that one.
THEOREM ConversaHastaElAviso == Spec => [](Aviso \/ Conversacion)
<1>1. Invariante => Aviso \/ Conversacion
  <2> SUFFICES ASSUME Tipo, Charla PROVE Aviso \/ Conversacion
    BY DEF Invariante
  <2>1. CASE Normal
    <3>1. Len(<<>>) = 0
      OBVIOUS
    <3>2. cpu.en \notin {"instruccion", "resize", "marco", "acceso"} => Calla
      BY <2>1, Campos DEF Normal, EstadosCpu
    <3>3. cpu.en \in {"instruccion", "resize", "marco", "acceso"} =>
            \/ hiloCpu.en = "recibe" /\ respuestas = <<>> /\ Len(deCpu) = 1
            \/ deCpu = <<>> /\ respuestas = <<>> /\ hiloCpu.en # "recibe"
            \/ deCpu = <<>> /\ hiloCpu.en = "recibe" /\ Len(respuestas) = 1
      BY <2>1 DEF Normal, Espera, Enviado, Servido, Contestado
    <3>4. CASE Calla /\ cpu.en \notin {"instruccion", "resize", "marco", "acceso"}
      <4>1. Len(deCpu) = 0 /\ Len(respuestas) = 0 /\ hiloCpu.en = "recibe"
        BY <3>1, <3>4 DEF Calla
      <4> QED BY <3>4, <4>1 DEF Conversacion
    <3>5. CASE hiloCpu.en = "recibe" /\ respuestas = <<>> /\ Len(deCpu) = 1
      BY <3>1, <3>2, <3>5 DEF Conversacion, Calla
    <3>6. CASE deCpu = <<>> /\ respuestas = <<>> /\ hiloCpu.en # "recibe"
      BY <3>1, <3>2, <3>6 DEF Conversacion, Calla
    <3>7. CASE deCpu = <<>> /\ hiloCpu.en = "recibe" /\ Len(respuestas) = 1
      BY <3>1, <3>2, <3>7 DEF Conversacion, Calla
    <3> QED BY <3>2, <3>3, <3>4, <3>5, <3>6, <3>7
  <2>2. CASE Agotada
    <3>1. sobra \/ (1 \in 1 .. Len(respuestas) /\ respuestas[1].op = "OUT_OF_MEMORY_AVISO")
      BY <2>2 DEF Agotada, Tipo
    <3> QED BY <3>1 DEF Aviso
  <2> QED BY <2>1, <2>2 DEF Charla
<1> QED BY <1>1, InvarianteSiempre, PTL

\* No page is twice in the TLB, whatever the algorithm and the number of entries.
THEOREM TlbSiempreSinRepetidas == Spec => []TlbSinRepetidas
<1>1. Invariante => TlbSinRepetidas
  BY DEF Invariante
<1> QED BY <1>1, InvarianteSiempre, PTL

\* If no program shrinks, the TLB says what the table says.
THEOREM TlbSiempreFiel == ~ Achica => (Spec => []TlbFiel)
<1> SUFFICES ASSUME ~ Achica PROVE Spec => []TlbFiel
  OBVIOUS
<1>1. Invariante => TlbFiel
  BY DEF Invariante, TlbFiel, TlbVale, EnTabla
<1> QED BY <1>1, InvarianteSiempre, PTL

\* Nobody touches a frame of another process, if no program shrinks or there is no
\* TLB, and no process is killed while an interface works for it.
THEOREM AccesoSiemprePropio ==
  (~ Achica \/ EntradasTlb = 0) /\ ~ (Mata /\ ConIo) => (Spec => []AccesoPropio)
<1> SUFFICES ASSUME ~ Achica \/ EntradasTlb = 0, ~ (Mata /\ ConIo) PROVE Spec => []AccesoPropio
  OBVIOUS
<1>1. Invariante => AccesoPropio
  BY DEF Invariante, Acceso
<1> QED BY <1>1, InvarianteSiempre, PTL

\* Without FINALIZAR_PROCESO memory is told to release only what it knows.
THEOREM EliminaSiempreConocido == ~ Mata => (Spec => []EliminaConocido)
<1> SUFFICES ASSUME ~ Mata PROVE Spec => []EliminaConocido
  OBVIOUS
<1>1. Invariante => EliminaConocido
  <2> SUFFICES ASSUME Tipo, Avisados, NEW k \in 1 .. Len(deKernel), deKernel[k].op = "ELIMINAR_PROCESO"
               PROVE  \/ \E j \in 1 .. Len(lista) : lista[j] = deKernel[k].pid
                      \/ \E j \in 1 .. k - 1 : deKernel[j] = [op |-> "PROCESO_NUEVO", pid |-> deKernel[k].pid]
    BY DEF Invariante, Conocido, EliminaConocido
  <2>1. EnLista(deKernel[k].pid) \/ Anunciado(deKernel[k].pid, k - 1)
    BY DEF Avisados, EsFin
  <2>2. \A x \in Avisos, p \in Pids : x.op = "PROCESO_NUEVO" /\ x.pid = p => x = [op |-> "PROCESO_NUEVO", pid |-> p]
    BY DEF Avisos
  <2>3. \A j \in 1 .. k - 1 : deKernel[j] \in Avisos /\ deKernel[k].pid \in Pids
    <3>1. \A j \in 1 .. k - 1 : j \in 1 .. Len(deKernel)
      BY DEF Tipo
    <3> QED BY <3>1, Elementos
  <2> QED BY <2>1, <2>2, <2>3 DEF EnLista, Anunciado, EsNuevo
<1> QED BY <1>1, InvarianteSiempre, PTL

=============================================================================
