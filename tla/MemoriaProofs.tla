--------------------------- MODULE MemoriaProofs ----------------------------
(***************************************************************************)
(* Proofs about MemoriaCpu.tla, first part: the types, the conversation    *)
(* between the CPU and atender_cpu, the processes that atender_kernel adds *)
(* and releases meanwhile, and the frames.  The second is MmuProofs.tla,   *)
(* with the theorems.                                                      *)
(*                                                                         *)
(* The argument: CPU and memory take turns (Charla), so at most one        *)
(* request changes a table, of the process that runs; atender_kernel works *)
(* only for processes whose message it has taken and which the kernel has  *)
(* let go (Tramite), so the two never work on one table; and what is still *)
(* to be added or taken away in a RESIZE under way is counted (Ajuste).    *)
(***************************************************************************)
EXTENDS MemoriaCpu, SequenceTheorems, TLAPS

(***************************************************************************)
(* Types, tighter than TypeOK: where each thread may be and what it holds. *)
(***************************************************************************)
LugaresCpu == {"recibe", "instruccion", "proceso", "BUSCAR_INSTRUCCION", "OP_RESIZE", "MARCO",
               "ACCESO", "asigna", "elimina", "responde"}
EstadosCpu == {"libre", "fetch", "instruccion", "ejecuta", "resize", "marco", "direccion",
               "acceso", "accede", "caida"}
Etapas == {"inexistente", "nuevo", "listo", "ejecutando", "bloqueado", "terminado", "liberado"}

HilosCpu == [en : LugaresCpu, pedido : Pedidos \cup {SinPedido}, i : Nat, resta : Nat]
HilosKernel == [en : {"recibe", "saca", "libera"}, pid : Pids]
Cpus == [en : EstadosCpu, pid : Pids, pagina : Nat, marco : Marcos \cup {SINMARCO}]

Tipo ==
  /\ lista \in Seq(Pids) /\ tabla \in [Pids -> Seq(Marcos)] /\ tamanio \in [Pids -> Nat]
  /\ ocupados \subseteq Marcos /\ cerrado \in BOOLEAN
  /\ hiloCpu \in HilosCpu /\ (hiloCpu.en # "recibe" => hiloCpu.pedido \in Pedidos)
  /\ hiloKernel \in HilosKernel
  /\ deCpu \in Seq(Pedidos) /\ deKernel \in Seq(Avisos) /\ respuestas \in Seq(Respuestas)
  /\ memoria \in {"viva", "no_existe_pid", "no_existe_pagina", "puntero_nulo"}
  /\ cpu \in Cpus /\ (cpu.en \in {"direccion", "acceso"} => cpu.marco \in Marcos)
  /\ tlb \in Seq(Entradas) /\ Len(tlb) <= EntradasTlb
  /\ sobra \in BOOLEAN /\ enIo \in [Pids -> Marcos \cup {SINMARCO}]
  /\ etapa \in [Pids -> Etapas]

(***************************************************************************)
(* The conversation.  The CPU works for the one process that runs, and a   *)
(* request of it is on the wire, in atender_cpu's hands or answered.       *)
(***************************************************************************)
Duenio ==
  /\ cpu.en # "libre" => etapa[cpu.pid] = "ejecutando"
  /\ \A p \in Pids : etapa[p] = "ejecutando" => cpu.en # "libre" /\ cpu.pid = p

Enviado(op) ==
  /\ hiloCpu.en = "recibe" /\ respuestas = <<>>
  /\ Len(deCpu) = 1 /\ deCpu[1].op = op /\ deCpu[1].pid = cpu.pid
Servido(op, lugares) ==
  /\ deCpu = <<>> /\ respuestas = <<>> /\ hiloCpu.en \in lugares
  /\ hiloCpu.pedido.op = op /\ hiloCpu.pedido.pid = cpu.pid
Contestado(op) ==
  /\ deCpu = <<>> /\ hiloCpu.en = "recibe" /\ Len(respuestas) = 1 /\ respuestas[1].op = op

Espera(op, lugares, contesta) == Enviado(op) \/ Servido(op, lugares) \/ Contestado(contesta)
Calla == deCpu = <<>> /\ respuestas = <<>> /\ hiloCpu.en = "recibe"

Normal ==
  /\ ~ sobra
  /\ \/ cpu.en \in {"libre", "fetch", "ejecuta", "direccion", "accede"} /\ Calla
     \/ cpu.en = "instruccion"
          /\ Espera("BUSCAR_INSTRUCCION", {"instruccion"}, "INSTRUCCION_A_EJECUTAR")
     \/ cpu.en = "resize"
          /\ Espera("OP_RESIZE", {"proceso", "OP_RESIZE", "asigna", "elimina", "responde"}, "OK")
     \/ cpu.en = "marco" /\ Espera("MARCO", {"proceso", "MARCO"}, "MARCO")
     \/ cpu.en = "acceso" /\ Espera("ACCESO", {}, "OK")

\* After OUT_OF_MEMORY_AVISO there is an answer too many, and the CPU ends at its
\* next fetch.
Agotada ==
  /\ Len(respuestas) >= 1
  /\ \/ /\ ~ sobra /\ cpu.en = "resize" /\ respuestas[1].op = "OUT_OF_MEMORY_AVISO"
        /\ deCpu = <<>> /\ hiloCpu.en \in {"responde", "recibe"}
     \/ /\ sobra /\ cpu.en \in {"libre", "fetch", "instruccion", "caida"}
        /\ hiloCpu.en \in {"responde", "recibe", "instruccion"}
        /\ \/ deCpu = <<>>
           \/ Len(deCpu) = 1 /\ deCpu[1].op = "BUSCAR_INSTRUCCION" /\ cpu.en \in {"instruccion", "caida"}

Charla == Duenio /\ (Normal \/ Agotada)

(***************************************************************************)
(* The processes on their way in and out of memory.                        *)
(***************************************************************************)
EnLista(p) == \E k \in 1 .. Len(lista) : lista[k] = p
Liberando(p) == hiloKernel.en # "recibe" /\ hiloKernel.pid = p

EsNuevo(k) == deKernel[k].op = "PROCESO_NUEVO"
EsFin(k) == deKernel[k].op = "ELIMINAR_PROCESO"

Nuevos == \A k \in 1 .. Len(deKernel) : EsNuevo(k) =>
  /\ etapa[deKernel[k].pid] \notin {"inexistente", "nuevo"}
  /\ ~ EnLista(deKernel[k].pid) /\ ~ Liberando(deKernel[k].pid)
Fines == \A k \in 1 .. Len(deKernel) : EsFin(k) =>
  etapa[deKernel[k].pid] = "liberado" /\ ~ Liberando(deKernel[k].pid)
Unicos == \A j, k \in 1 .. Len(deKernel) : deKernel[j] = deKernel[k] => j = k
SinEntrar == \A p \in Pids : etapa[p] \in {"inexistente", "nuevo"} => ~ EnLista(p)
Liberados == \A p \in Pids : Liberando(p) => etapa[p] = "liberado"
ConPaginas == \A p \in Pids : tabla[p] # <<>> \/ tamanio[p] # 0 =>
  EnLista(p) \/ (hiloKernel.en = "libera" /\ hiloKernel.pid = p)
Hallado == hiloCpu.en \in {"MARCO", "OP_RESIZE", "asigna", "elimina"} => EnLista(hiloCpu.pedido.pid)

Tramite == Nuevos /\ Fines /\ Unicos /\ SinEntrar /\ Liberados /\ ConPaginas /\ Hallado

(***************************************************************************)
(* The frames: what a RESIZE under way still has to add or to take away.   *)
(***************************************************************************)
Faltan(p) ==
  IF hiloCpu.pedido.pid # p THEN 0
  ELSE IF hiloCpu.en = "asigna" THEN hiloCpu.resta
  ELSE IF hiloCpu.en = "elimina" THEN - hiloCpu.resta ELSE 0

SinFrames(p) == Agotada /\ EnResize(p)

Ajuste ==
  \A p \in Pids : Vivo(p) /\ ~ SinFrames(p) => Len(tabla[p]) + Faltan(p) = Paginas(tamanio[p])

USE DEF tablaVars, memoriaVars, memoriaSinCpu, memoriaSinKernel, cpuVars, kernelVars

\* 0 is a process and a frame.
LEMMA Cero == 0 \in Pids /\ 0 \in Marcos
BY MemoriaAssumption DEF Pids, Marcos

\* Frames are numbers below CantMarcos; SINMARCO is none.
LEMMA Marco == /\ Marcos \subseteq Nat /\ SINMARCO \notin Marcos
   /\ \A m \in Nat : m < CantMarcos => m \in Marcos
BY MemoriaAssumption DEF Marcos, SINMARCO

\* What Append does.
LEMMA AlFinal ==
  ASSUME NEW S, NEW s \in Seq(S), NEW x \in S
  PROVE  /\ Append(s, x) \in Seq(S) /\ Len(Append(s, x)) = Len(s) + 1 /\ Len(s) \in Nat
         /\ \A k \in 1 .. Len(s) : Append(s, x)[k] = s[k]
         /\ Append(s, x)[Len(s) + 1] = x
OBVIOUS

\* What Head and Tail give of a sequence that is not empty.
LEMMA Primero ==
  ASSUME NEW S, NEW s \in Seq(S), s # <<>>
  PROVE  /\ Head(s) = s[1] /\ s[1] \in S /\ Len(s) \in Nat /\ Len(s) >= 1
         /\ Tail(s) \in Seq(S) /\ Len(Tail(s)) = Len(s) - 1
         /\ \A k \in 1 .. Len(s) - 1 : Tail(s)[k] = s[k + 1]
OBVIOUS

\* What Ultima and SinUltima give of one that is not empty.
LEMMA Ultimo ==
  ASSUME NEW S, NEW s \in Seq(S), s # <<>>
  PROVE  /\ Ultima(s) = s[Len(s)] /\ s[Len(s)] \in S /\ Len(s) \in Nat /\ Len(s) >= 1
         /\ SinUltima(s) \in Seq(S) /\ Len(SinUltima(s)) = Len(s) - 1
         /\ \A k \in 1 .. Len(s) - 1 : SinUltima(s)[k] = s[k]
<1>1. Len(s) \in Nat \ {0}
  OBVIOUS
<1>2. \A k \in 1 .. Len(s) : s[k] \in S
  OBVIOUS
<1>3. /\ SubSeq(s, 1, Len(s) - 1) \in Seq(S)
      /\ Len(SubSeq(s, 1, Len(s) - 1)) = IF 1 <= Len(s) - 1 THEN Len(s) - 1 - 1 + 1 ELSE 0
      /\ \A k \in 1 .. Len(s) - 1 - 1 + 1 : SubSeq(s, 1, Len(s) - 1)[k] = s[1 + k - 1]
  BY <1>1, <1>2, SubSeqProperties
<1>4. SinUltima(s) \in Seq(S) /\ Len(SinUltima(s)) = Len(s) - 1
  <2>1. \A n \in Nat \ {0} : n = 1 \/ n >= 2
    OBVIOUS
  <2>2. CASE Len(s) = 1
    BY <1>3, <2>2 DEF SinUltima
  <2>3. CASE Len(s) >= 2
    <3>1. 1 <= Len(s) - 1 /\ Len(s) - 1 - 1 + 1 = Len(s) - 1
      BY <1>1, <2>3
    <3> QED BY <1>3, <3>1 DEF SinUltima
  <2> QED BY <1>1, <2>1, <2>2, <2>3
<1>5. ASSUME NEW k \in 1 .. Len(s) - 1 PROVE SinUltima(s)[k] = s[k]
  <2>1. SubSeq(s, 1, Len(s) - 1)[k] = s[1 + k - 1]
    BY <1>1, <1>3
  <2>2. 1 + k - 1 = k
    BY <1>1
  <2> QED BY <2>1, <2>2 DEF SinUltima
<1>6. Ultima(s) = s[Len(s)] /\ s[Len(s)] \in S
  BY <1>1, <1>2 DEF Ultima
<1>7. Len(s) \in Nat /\ Len(s) >= 1
  OBVIOUS
<1> QED BY <1>4, <1>5, <1>6, <1>7

\* SinUltima of an empty one is empty.
LEMMA UltimoVacio ==
  ASSUME NEW S, NEW s \in Seq(S)
  PROVE  SinUltima(s) \in Seq(S)
BY DEF SinUltima

\* SinElemento takes out one element.
LEMMA Quita ==
  ASSUME NEW S, NEW s \in Seq(S), NEW k \in 1 .. Len(s)
  PROVE  /\ SinElemento(s, k) \in Seq(S) /\ Len(SinElemento(s, k)) = Len(s) - 1
         /\ \A j \in 1 .. Len(s) - 1 : SinElemento(s, k)[j] = IF j < k THEN s[j] ELSE s[j + 1]
<1>1. Len(s) \in Nat /\ \A j \in 1 .. Len(s) : s[j] \in S
  OBVIOUS
<1> DEFINE a == SubSeq(s, 1, k - 1)
           b == SubSeq(s, k + 1, Len(s))
<1>2. a \in Seq(S) /\ Len(a) = k - 1 /\ \A j \in 1 .. k - 1 : a[j] = s[j]
  BY <1>1, SubSeqProperties
<1>3. b \in Seq(S) /\ Len(b) = Len(s) - k /\ \A j \in 1 .. Len(s) - k : b[j] = s[k + j]
  BY <1>1, SubSeqProperties
<1> HIDE DEF a, b
<1>4. /\ a \o b \in Seq(S) /\ Len(a \o b) = Len(a) + Len(b)
      /\ \A j \in 1 .. Len(a) + Len(b) : (a \o b)[j] = IF j <= Len(a) THEN a[j] ELSE b[j - Len(a)]
  BY <1>2, <1>3, ConcatProperties
<1>5. SinElemento(s, k) = a \o b
  BY DEF SinElemento, a, b
<1>6. ASSUME NEW j \in 1 .. Len(s) - 1 PROVE (a \o b)[j] = IF j < k THEN s[j] ELSE s[j + 1]
  <2>1. ASSUME j < k PROVE (a \o b)[j] = s[j]
    BY <1>1, <1>2, <1>3, <1>4, <2>1
  <2>2. ASSUME ~ (j < k) PROVE (a \o b)[j] = s[j + 1]
    <3>1. j - (k - 1) \in 1 .. Len(s) - k /\ k + (j - (k - 1)) = j + 1 /\ ~ (j <= k - 1) /\ ~ (j < k)
      BY <1>1, <2>2
    <3>2. b[j - (k - 1)] = s[k + (j - (k - 1))]
      BY <1>3, <3>1
    <3>3. (a \o b)[j] = b[j - (k - 1)]
      BY <1>1, <1>2, <1>3, <1>4, <3>1
    <3> QED BY <3>1, <3>2, <3>3
  <2> QED BY <2>1, <2>2
<1>7. SinElemento(s, k) \in Seq(S) /\ Len(SinElemento(s, k)) = Len(s) - 1
  BY <1>1, <1>2, <1>3, <1>4, <1>5
<1> QED BY <1>5, <1>6, <1>7

\* The fields of the records.
LEMMA Campos ==
  ASSUME Tipo
  PROVE  /\ cpu.en \in EstadosCpu /\ cpu.pid \in Pids /\ cpu.pagina \in Nat
         /\ cpu.marco \in Marcos \cup {SINMARCO}
         /\ hiloCpu.en \in LugaresCpu /\ hiloCpu.i \in Nat /\ hiloCpu.resta \in Nat
         /\ hiloCpu.pedido.pid \in Pids /\ hiloCpu.pedido.dato \in Nat
         /\ hiloKernel.en \in {"recibe", "saca", "libera"} /\ hiloKernel.pid \in Pids
<1>1. cpu \in Cpus /\ hiloCpu \in HilosCpu /\ hiloKernel \in HilosKernel
  BY DEF Tipo
<1>2. hiloCpu.pedido \in Pedidos \cup {SinPedido}
  BY <1>1 DEF HilosCpu
<1>3. hiloCpu.pedido.pid \in Pids /\ hiloCpu.pedido.dato \in Nat
  BY <1>2, Cero DEF Pedidos, SinPedido
<1> QED BY <1>1, <1>3 DEF Cpus, HilosCpu, HilosKernel

\* A request keeps the type of deCpu.
LEMMA PideTipo ==
  ASSUME Tipo, NEW op \in {"BUSCAR_INSTRUCCION", "OP_RESIZE", "MARCO", "ACCESO"}, NEW d \in Nat,
         Pide(op, d)
  PROVE  deCpu' \in Seq(Pedidos)
<1>1. [op |-> op, pid |-> cpu.pid, dato |-> d] \in Pedidos
  BY Campos DEF Pedidos
<1> QED BY <1>1, AlFinal DEF Pide, Tipo

\* An answer keeps the type of respuestas.
LEMMA RespondeTipo ==
  ASSUME Tipo, NEW m \in Marcos,
         NEW op \in {"INSTRUCCION_A_EJECUTAR", "OK", "MARCO", "OUT_OF_MEMORY_AVISO"},
         Responde(op, m)
  PROVE  respuestas' \in Seq(Respuestas)
<1>1. [op |-> op, dato |-> m] \in Respuestas
  BY DEF Respuestas
<1> QED BY <1>1, AlFinal DEF Responde, Tipo

\* A message of the kernel keeps the type of deKernel.
LEMMA AvisaTipo ==
  ASSUME Tipo, NEW op \in {"PROCESO_NUEVO", "ELIMINAR_PROCESO"}, NEW p \in Pids, Avisa(op, p)
  PROVE  deKernel' \in Seq(Avisos)
<1>1. [op |-> op, pid |-> p] \in Avisos
  BY DEF Avisos
<1> QED BY <1>1, AlFinal DEF Avisa, Tipo

\* Ir changes only where the CPU is.
LEMMA IrTipo ==
  ASSUME Tipo, NEW e \in EstadosCpu, Ir(e)
  PROVE  /\ cpu' \in Cpus /\ cpu'.en = e /\ cpu'.pid = cpu.pid /\ cpu'.pagina = cpu.pagina
         /\ cpu'.marco = cpu.marco
BY DEF Tipo, Ir, Cpus

\* What Ir leaves when the CPU has no process is of the right type.
LEMMA Libre0Tipo == Libre0 \in Cpus /\ Libre0.en = "libre"
BY Cero DEF Libre0, Cpus, EstadosCpu

\* TamPagina > 0, so Paginas gives a natural.
LEMMA PaginasNat == \A t \in Nat : Paginas(t) \in Nat
BY MemoriaAssumption DEF Paginas

\* What the TLB is after an entry is added: the old ones, less one perhaps, and the new one.
LEMMA AgregaEntradas ==
  ASSUME Tipo, NEW e \in Entradas, Agrega(e)
  PROVE  \/ tlb' = tlb
         \/ tlb' = Append(tlb, e) /\ Len(tlb) < EntradasTlb
         \/ \E j \in 1 .. Len(tlb) : tlb' = Append(SinElemento(tlb, j), e)
<1>1. Len(tlb) \in Nat /\ EntradasTlb \in Nat
  BY CpuAssumption DEF Tipo
<1>2. CASE EntradasTlb = 0 \/ Len(tlb) < EntradasTlb
  BY <1>2 DEF Agrega
<1>3. CASE EntradasTlb # 0 /\ ~ (Len(tlb) < EntradasTlb)
  <2>1. Len(tlb) >= 1 /\ \E j \in Salientes : tlb' = Append(SinElemento(tlb, j), e)
    BY <1>1, <1>3 DEF Agrega, SinEntrada
  <2>2. Salientes \subseteq 1 .. Len(tlb)
    BY <1>1, <2>1 DEF Salientes
  <2> QED BY <2>1, <2>2
<1> QED BY <1>2, <1>3

\* The TLB keeps its type and its size.
LEMMA AgregaTipo ==
  ASSUME Tipo, NEW e \in Entradas, Agrega(e)
  PROVE  tlb' \in Seq(Entradas) /\ Len(tlb') <= EntradasTlb
<1>1. tlb \in Seq(Entradas) /\ Len(tlb) <= EntradasTlb /\ Len(tlb) \in Nat /\ EntradasTlb \in Nat
  BY CpuAssumption DEF Tipo
<1>2. CASE tlb' = tlb
  BY <1>1, <1>2
<1>3. CASE tlb' = Append(tlb, e) /\ Len(tlb) < EntradasTlb
  BY <1>1, <1>3, AlFinal
<1>4. ASSUME NEW j \in 1 .. Len(tlb), tlb' = Append(SinElemento(tlb, j), e)
      PROVE  tlb' \in Seq(Entradas) /\ Len(tlb') <= EntradasTlb
  <2>1. SinElemento(tlb, j) \in Seq(Entradas) /\ Len(SinElemento(tlb, j)) = Len(tlb) - 1
    BY <1>1, Quita
  <2>2. Append(SinElemento(tlb, j), e) \in Seq(Entradas)
        /\ Len(Append(SinElemento(tlb, j), e)) = Len(SinElemento(tlb, j)) + 1
    BY <2>1, AlFinal
  <2> QED BY <1>1, <1>4, <2>1, <2>2
<1> QED BY <1>2, <1>3, <1>4, AgregaEntradas

\* The elements of the sequences.
LEMMA Elementos ==
  ASSUME Tipo
  PROVE  /\ \A k \in 1 .. Len(deCpu) : deCpu[k] \in Pedidos /\ deCpu[k].pid \in Pids /\ deCpu[k].dato \in Nat
         /\ \A k \in 1 .. Len(deKernel) : deKernel[k] \in Avisos /\ deKernel[k].pid \in Pids
         /\ \A k \in 1 .. Len(respuestas) : respuestas[k] \in Respuestas /\ respuestas[k].dato \in Marcos
         /\ \A k \in 1 .. Len(tlb) : tlb[k] \in Entradas /\ tlb[k].pid \in Pids
                                     /\ tlb[k].pagina \in Nat /\ tlb[k].marco \in Marcos
         /\ \A k \in 1 .. Len(lista) : lista[k] \in Pids
<1>1. /\ \A k \in 1 .. Len(deCpu) : deCpu[k] \in Pedidos
      /\ \A k \in 1 .. Len(deKernel) : deKernel[k] \in Avisos
      /\ \A k \in 1 .. Len(respuestas) : respuestas[k] \in Respuestas
      /\ \A k \in 1 .. Len(tlb) : tlb[k] \in Entradas
      /\ \A k \in 1 .. Len(lista) : lista[k] \in Pids
  BY DEF Tipo
<1>2. /\ \A x \in Pedidos : x.pid \in Pids /\ x.dato \in Nat
      /\ \A x \in Avisos : x.pid \in Pids
      /\ \A x \in Respuestas : x.dato \in Marcos
      /\ \A x \in Entradas : x.pid \in Pids /\ x.pagina \in Nat /\ x.marco \in Marcos
  BY DEF Pedidos, Avisos, Respuestas, Entradas
<1> QED BY <1>1, <1>2

\* The first elements.
LEMMA Frentes ==
  ASSUME Tipo
  PROVE  /\ deCpu # <<>> => Head(deCpu) = deCpu[1] /\ deCpu[1] \in Pedidos
                            /\ deCpu[1].pid \in Pids /\ deCpu[1].dato \in Nat
         /\ deKernel # <<>> => Head(deKernel) = deKernel[1] /\ deKernel[1] \in Avisos
                               /\ deKernel[1].pid \in Pids
         /\ respuestas # <<>> => Head(respuestas) = respuestas[1] /\ respuestas[1].dato \in Marcos
<1>1. /\ deCpu # <<>> => Head(deCpu) = deCpu[1] /\ 1 \in 1 .. Len(deCpu)
      /\ deKernel # <<>> => Head(deKernel) = deKernel[1] /\ 1 \in 1 .. Len(deKernel)
      /\ respuestas # <<>> => Head(respuestas) = respuestas[1] /\ 1 \in 1 .. Len(respuestas)
  <2>1. deCpu \in Seq(Pedidos) /\ deKernel \in Seq(Avisos) /\ respuestas \in Seq(Respuestas)
    BY DEF Tipo
  <2> QED BY <2>1, Primero
<1> QED BY <1>1, Elementos

\* The table of a process.
LEMMA Tablas ==
  ASSUME Tipo, NEW p \in Pids
  PROVE  /\ tabla[p] \in Seq(Marcos) /\ Len(tabla[p]) \in Nat /\ tamanio[p] \in Nat
         /\ \A k \in 1 .. Len(tabla[p]) : tabla[p][k] \in Marcos
         /\ \A k \in Nat : k < Len(tabla[p]) => k + 1 \in 1 .. Len(tabla[p]) /\ tabla[p][k + 1] \in Marcos
<1>1. tabla[p] \in Seq(Marcos) /\ Len(tabla[p]) \in Nat /\ tamanio[p] \in Nat
  BY DEF Tipo
<1>2. \A k \in 1 .. Len(tabla[p]) : tabla[p][k] \in Marcos
  BY <1>1
<1>3. \A k \in Nat : k < Len(tabla[p]) => k + 1 \in 1 .. Len(tabla[p])
  BY <1>1
<1> QED BY <1>1, <1>2, <1>3

\* The difference of two naturals.
LEMMA DifInt == \A a, b \in Nat : a - b \in Int
OBVIOUS

\* The ways in which hiloCpu changes keep its type.
LEMMA HiloCambia ==
  ASSUME Tipo
  PROVE  /\ hiloCpu \in HilosCpu
         /\ Reposo \in HilosCpu /\ Reposo.en = "recibe"
         /\ \A e \in LugaresCpu : /\ [hiloCpu EXCEPT !.en = e] \in HilosCpu
                                  /\ [hiloCpu EXCEPT !.en = e].pedido = hiloCpu.pedido
         /\ \A n \in Nat : /\ [hiloCpu EXCEPT !.resta = n] \in HilosCpu
                           /\ [hiloCpu EXCEPT !.resta = n].pedido = hiloCpu.pedido
                           /\ [hiloCpu EXCEPT !.i = 0, !.resta = n] \in HilosCpu
                           /\ [hiloCpu EXCEPT !.i = 0, !.resta = n].pedido = hiloCpu.pedido
         /\ [hiloCpu EXCEPT !.i = @ + 1] \in HilosCpu
         /\ [hiloCpu EXCEPT !.i = @ + 1].pedido = hiloCpu.pedido
         /\ \A e \in LugaresCpu, n \in Nat :
              /\ [hiloCpu EXCEPT !.en = e, !.i = 0, !.resta = n] \in HilosCpu
              /\ [hiloCpu EXCEPT !.en = e, !.i = 0, !.resta = n].pedido = hiloCpu.pedido
<1>0. hiloCpu \in HilosCpu
  BY DEF Tipo
<1>1. hiloCpu \in HilosCpu /\ hiloCpu.i + 1 \in Nat
  BY <1>0, Campos
<1>2. Reposo \in HilosCpu /\ Reposo.en = "recibe"
  BY Cero DEF Reposo, HilosCpu, LugaresCpu
<1>3. \A h \in HilosCpu :
         /\ \A e \in LugaresCpu : [h EXCEPT !.en = e] \in HilosCpu /\ [h EXCEPT !.en = e].pedido = h.pedido
         /\ \A n \in Nat : [h EXCEPT !.resta = n] \in HilosCpu /\ [h EXCEPT !.resta = n].pedido = h.pedido
         /\ \A n \in Nat : [h EXCEPT !.i = n] \in HilosCpu /\ [h EXCEPT !.i = n].pedido = h.pedido
         /\ \A n \in Nat : /\ [h EXCEPT !.i = 0, !.resta = n] \in HilosCpu
                           /\ [h EXCEPT !.i = 0, !.resta = n].pedido = h.pedido
         /\ \A e \in LugaresCpu, n \in Nat :
              /\ [h EXCEPT !.en = e, !.i = 0, !.resta = n] \in HilosCpu
              /\ [h EXCEPT !.en = e, !.i = 0, !.resta = n].pedido = h.pedido
  BY DEF HilosCpu
<1>4. /\ \A e \in LugaresCpu : [hiloCpu EXCEPT !.en = e] \in HilosCpu /\ [hiloCpu EXCEPT !.en = e].pedido = hiloCpu.pedido
      /\ \A n \in Nat : [hiloCpu EXCEPT !.resta = n] \in HilosCpu /\ [hiloCpu EXCEPT !.resta = n].pedido = hiloCpu.pedido
  BY <1>1, <1>3
<1>5. /\ [hiloCpu EXCEPT !.i = @ + 1] \in HilosCpu /\ [hiloCpu EXCEPT !.i = @ + 1].pedido = hiloCpu.pedido
      /\ \A n \in Nat : /\ [hiloCpu EXCEPT !.i = 0, !.resta = n] \in HilosCpu
                        /\ [hiloCpu EXCEPT !.i = 0, !.resta = n].pedido = hiloCpu.pedido
  BY <1>1, <1>3
<1>6. \A e \in LugaresCpu, n \in Nat :
              /\ [hiloCpu EXCEPT !.en = e, !.i = 0, !.resta = n] \in HilosCpu
              /\ [hiloCpu EXCEPT !.en = e, !.i = 0, !.resta = n].pedido = hiloCpu.pedido
  BY <1>1, <1>3
<1> QED BY <1>1, <1>2, <1>4, <1>5, <1>6

-----------------------------------------------------------------------------
(* Types *)

\* Every step of the two threads, of the CPU and of the kernel keeps the types.
LEMMA TipoPaso == Tipo /\ [Next]_vars => Tipo'
<1> SUFFICES ASSUME Tipo, [Next]_vars PROVE Tipo'
  OBVIOUS

<1>1. ASSUME CpuRecibe, UNCHANGED <<cpuVars, kernelVars>> PROVE Tipo'
  <2>1. UNCHANGED <<lista, tabla, tamanio, ocupados, hiloKernel, deKernel, cpu, tlb, sobra, enIo,
           etapa, memoria>>
    BY <1>1 DEF CpuRecibe, EnCpu
  <2>2. deCpu' \in Seq(Pedidos)
    BY <1>1, Primero DEF Tipo, CpuRecibe
  <2>3. hiloCpu' \in HilosCpu /\ (hiloCpu'.en # "recibe" => hiloCpu'.pedido \in Pedidos)
    <3>1. CASE hiloCpu' = hiloCpu
      BY <3>1 DEF Tipo
    <3>2. CASE hiloCpu' # hiloCpu
      <4>1. Head(deCpu) \in Pedidos /\ Len(lista) \in Nat
        BY <1>1, Primero DEF Tipo, CpuRecibe
      <4>2. \E e \in {"instruccion", "proceso"} :
               hiloCpu' = [en |-> e, pedido |-> Head(deCpu), i |-> 0, resta |-> Len(lista)]
        BY <1>1, <3>2 DEF CpuRecibe
      <4> QED BY <4>1, <4>2 DEF HilosCpu, LugaresCpu
    <3> QED BY <3>1, <3>2
  <2>4. cerrado' \in BOOLEAN
    BY <1>1, Campos DEF Tipo, CpuRecibe, EnCpu
  <2>5. respuestas' \in Seq(Respuestas)
    BY <1>1, Cero, RespondeTipo DEF Tipo, CpuRecibe
  <2> QED BY <2>1, <2>2, <2>3, <2>4, <2>5 DEF Tipo
<1>2. ASSUME CpuInstruccion, UNCHANGED <<cpuVars, kernelVars>> PROVE Tipo'
  <2>1. UNCHANGED <<lista, tabla, tamanio, ocupados, hiloKernel, deCpu, deKernel, cpu, tlb,
           sobra, enIo, etapa>>
    BY <1>2 DEF CpuInstruccion, EnCpu, Cae
  <2>2. cerrado' \in BOOLEAN
    BY <1>2, Campos DEF Tipo, CpuInstruccion, EnCpu, Cae
  <2>3. hiloCpu' \in HilosCpu /\ (hiloCpu'.en # "recibe" => hiloCpu'.pedido \in Pedidos)
    <3>1. hiloCpu' = hiloCpu \/ hiloCpu' = Reposo \/ hiloCpu' = [hiloCpu EXCEPT !.i = @ + 1]
      BY <1>2 DEF CpuInstruccion, Cae
    <3>2. hiloCpu.pedido \in Pedidos
      BY <1>2 DEF CpuInstruccion, EnCpu, Tipo
    <3> QED BY <3>1, <3>2, HiloCambia
  <2>4. respuestas' \in Seq(Respuestas)
    BY <1>2, Cero, RespondeTipo DEF Tipo, CpuInstruccion, Cae
  <2>5. memoria' \in {"viva", "no_existe_pid", "no_existe_pagina", "puntero_nulo"}
    BY <1>2, Campos DEF Tipo, CpuInstruccion, EnCpu, Cae
  <2> QED BY <2>1, <2>2, <2>3, <2>4, <2>5 DEF Tipo
<1>3. ASSUME CpuProceso, UNCHANGED <<cpuVars, kernelVars>> PROVE Tipo'
  <2>1. UNCHANGED <<lista, tabla, tamanio, ocupados, hiloKernel, deCpu, deKernel, respuestas,
           cpu, tlb, sobra, enIo, etapa>>
    BY <1>3 DEF CpuProceso, EnCpu, Cae
  <2>2. cerrado' \in BOOLEAN
    BY <1>3, Campos DEF Tipo, CpuProceso, EnCpu, Cae
  <2>3. hiloCpu' \in HilosCpu /\ (hiloCpu'.en # "recibe" => hiloCpu'.pedido \in Pedidos)
    <3>1. \/ hiloCpu' = hiloCpu
          \/ hiloCpu' = [hiloCpu EXCEPT !.i = @ + 1]
          \/ hiloCpu' = [hiloCpu EXCEPT !.en = hiloCpu.pedido.op]
      BY <1>3 DEF CpuProceso, Cae
    <3>2. hiloCpu.pedido \in Pedidos
      BY <1>3 DEF CpuProceso, EnCpu, Tipo
    <3>3. hiloCpu.pedido.op \in LugaresCpu
      BY <3>2 DEF Pedidos, LugaresCpu
    <3> QED BY <3>1, <3>2, <3>3, HiloCambia
  <2>4. memoria' \in {"viva", "no_existe_pid", "no_existe_pagina", "puntero_nulo"}
    BY <1>3, Campos DEF Tipo, CpuProceso, EnCpu, Cae
  <2> QED BY <2>1, <2>2, <2>3, <2>4 DEF Tipo
<1>4. ASSUME CpuMarco, UNCHANGED <<cpuVars, kernelVars>> PROVE Tipo'
  <2>1. UNCHANGED <<lista, tabla, tamanio, ocupados, cerrado, hiloKernel, deCpu, deKernel, cpu,
           tlb, sobra, enIo, etapa>>
    BY <1>4 DEF CpuMarco, EnCpu, Cae
  <2>2. respuestas' \in Seq(Respuestas)
    <3>1. CASE respuestas' = respuestas
      BY <3>1 DEF Tipo
    <3>2. CASE respuestas' # respuestas
      <4>1. hiloCpu.pedido.dato + 1 \in 1 .. Len(tabla[hiloCpu.pedido.pid])
        BY <1>4, <3>2, Campos, Tablas DEF CpuMarco, Cae
      <4>2. tabla[hiloCpu.pedido.pid][hiloCpu.pedido.dato + 1] \in Marcos
        BY <4>1, Campos, Tablas
      <4>3. Responde("MARCO", tabla[hiloCpu.pedido.pid][hiloCpu.pedido.dato + 1])
        BY <1>4, <3>2 DEF CpuMarco, Cae
      <4> QED BY <4>2, <4>3, RespondeTipo
    <3> QED BY <3>1, <3>2
  <2>3. hiloCpu' \in HilosCpu /\ (hiloCpu'.en # "recibe" => hiloCpu'.pedido \in Pedidos)
    BY <1>4, Campos DEF Tipo, CpuMarco, EnCpu, Cae, HilosCpu, LugaresCpu, Reposo
  <2>4. memoria' \in {"viva", "no_existe_pid", "no_existe_pagina", "puntero_nulo"}
    BY <1>4, Campos DEF Tipo, CpuMarco, EnCpu, Cae
  <2> QED BY <2>1, <2>2, <2>3, <2>4 DEF Tipo
<1>5. ASSUME CpuResize, UNCHANGED <<cpuVars, kernelVars>> PROVE Tipo'
  <2>1. UNCHANGED <<lista, tabla, ocupados, cerrado, hiloKernel, deCpu, deKernel, respuestas,
           cpu, tlb, sobra, enIo, etapa, memoria>>
    BY <1>5 DEF CpuResize, EnCpu
  <2>2. tamanio' \in [Pids -> Nat]
    BY <1>5, Campos DEF Tipo, CpuResize
  <2>3. hiloCpu' \in HilosCpu /\ (hiloCpu'.en # "recibe" => hiloCpu'.pedido \in Pedidos)
    <3> DEFINE paginas == Paginas(hiloCpu.pedido.dato) - Len(tabla[hiloCpu.pedido.pid])
    <3>1. Len(tabla[hiloCpu.pedido.pid]) \in Nat
      BY Campos DEF Tipo
    <3>2. paginas \in Int
      BY <3>1, Campos, PaginasNat, DifInt
    <3>3. PICK e \in {"asigna", "elimina", "responde"} : hiloCpu' =
             [hiloCpu EXCEPT !.en = e, !.i = 0, !.resta = IF paginas > 0 THEN paginas ELSE - paginas]
      BY <1>5 DEF CpuResize
    <3>4. (IF paginas > 0 THEN paginas ELSE - paginas) \in Nat
      BY <3>2
    <3>5. hiloCpu.pedido \in Pedidos
      BY <1>5 DEF CpuResize, EnCpu, Tipo
    <3> HIDE DEF paginas
    <3>6. e \in LugaresCpu
      BY DEF LugaresCpu
    <3> QED BY <3>3, <3>4, <3>5, <3>6, HiloCambia
  <2> QED BY <2>1, <2>2, <2>3 DEF Tipo
<1>6. ASSUME CpuAsigna, UNCHANGED <<cpuVars, kernelVars>> PROVE Tipo'
  <2>1. UNCHANGED <<lista, tamanio, cerrado, hiloKernel, deCpu, deKernel, cpu, tlb, sobra, enIo,
           etapa, memoria>>
    BY <1>6 DEF CpuAsigna, EnCpu, TomaMarco, SinResto
  <2>2. respuestas' \in Seq(Respuestas)
    BY <1>6, Cero, RespondeTipo DEF Tipo, CpuAsigna
  <2>3. hiloCpu' \in HilosCpu /\ (hiloCpu'.en # "recibe" => hiloCpu'.pedido \in Pedidos)
    <3>1. \/ hiloCpu' = [hiloCpu EXCEPT !.en = "responde"]
          \/ hiloCpu' = [hiloCpu EXCEPT !.i = @ + 1]
          \/ hiloCpu' = [hiloCpu EXCEPT !.i = 0, !.resta = @ - 1]
      BY <1>6 DEF CpuAsigna
    <3>2. hiloCpu.resta - 1 \in Nat
      BY <1>6, Campos DEF CpuAsigna, SinResto
    <3>3. hiloCpu.pedido \in Pedidos /\ "responde" \in LugaresCpu
      BY <1>6 DEF CpuAsigna, EnCpu, LugaresCpu, Tipo
    <3> QED BY <3>1, <3>2, <3>3, HiloCambia
  <2>4. tabla' \in [Pids -> Seq(Marcos)]
    <3>1. CASE tabla' = tabla
      BY <3>1 DEF Tipo
    <3>2. CASE tabla' # tabla
      <4>1. hiloCpu.i \in Marcos /\ tabla' = [tabla EXCEPT ![hiloCpu.pedido.pid] = Append(@, hiloCpu.i)]
        BY <1>6, <3>2, Campos, Marco DEF CpuAsigna, TomaMarco
      <4>2. Append(tabla[hiloCpu.pedido.pid], hiloCpu.i) \in Seq(Marcos)
        BY <4>1, Campos, AlFinal DEF Tipo
      <4> QED BY <4>1, <4>2 DEF Tipo
    <3> QED BY <3>1, <3>2
  <2>5. ocupados' \subseteq Marcos
    BY <1>6, Campos, Marco DEF CpuAsigna, TomaMarco, Tipo
  <2> QED BY <2>1, <2>2, <2>3, <2>4, <2>5 DEF Tipo
<1>7. ASSUME CpuElimina, UNCHANGED <<cpuVars, kernelVars>> PROVE Tipo'
  <2>1. UNCHANGED <<lista, tamanio, cerrado, hiloKernel, deCpu, deKernel, respuestas, cpu, tlb,
           sobra, enIo, etapa, memoria>>
    BY <1>7 DEF CpuElimina, EnCpu, SueltaMarco, SinResto
  <2>2. hiloCpu' \in HilosCpu /\ (hiloCpu'.en # "recibe" => hiloCpu'.pedido \in Pedidos)
    <3>1. hiloCpu' = [hiloCpu EXCEPT !.resta = @ - 1] /\ hiloCpu.resta - 1 \in Nat
      BY <1>7, Campos DEF CpuElimina, SinResto
    <3> QED BY <1>7, <3>1 DEF Tipo, HilosCpu, CpuElimina, EnCpu
  <2>3. tabla' \in [Pids -> Seq(Marcos)]
    BY <1>7, Campos, UltimoVacio DEF CpuElimina, SueltaMarco, Tipo
  <2>4. ocupados' \subseteq Marcos
    BY <1>7, Campos DEF Tipo, CpuElimina, EnCpu, SueltaMarco, SinResto
  <2> QED BY <2>1, <2>2, <2>3, <2>4 DEF Tipo
<1>8. ASSUME CpuResponde, UNCHANGED <<cpuVars, kernelVars>> PROVE Tipo'
  <2>1. UNCHANGED <<lista, tabla, tamanio, ocupados, cerrado, hiloKernel, deCpu, deKernel, cpu,
           tlb, sobra, enIo, etapa, memoria>>
    BY <1>8 DEF CpuResponde, EnCpu, SinResto
  <2>2. respuestas' \in Seq(Respuestas)
    BY <1>8, Cero, RespondeTipo DEF Tipo, CpuResponde
  <2>3. hiloCpu' \in HilosCpu /\ (hiloCpu'.en # "recibe" => hiloCpu'.pedido \in Pedidos)
    BY <1>8, Campos DEF Tipo, CpuResponde, EnCpu, SinResto, HilosCpu, LugaresCpu, Reposo
  <2> QED BY <2>1, <2>2, <2>3 DEF Tipo
<1>9. ASSUME KernelNuevo, UNCHANGED <<cpuVars, kernelVars>> PROVE Tipo'
  <2>1. UNCHANGED <<ocupados, cerrado, hiloCpu, hiloKernel, deCpu, respuestas, cpu, tlb, sobra,
           enIo, etapa, memoria>>
    BY <1>9 DEF KernelNuevo, EnKernel
  <2>2. deKernel' \in Seq(Avisos)
    BY <1>9, Primero DEF KernelNuevo, Tipo
  <2>3. lista' \in Seq(Pids)
    BY <1>9, Frentes, AlFinal DEF KernelNuevo, Tipo
  <2>4. tabla' \in [Pids -> Seq(Marcos)]
    BY <1>9, Frentes DEF KernelNuevo, Tipo
  <2>5. tamanio' \in [Pids -> Nat]
    BY <1>9, Primero DEF KernelNuevo, Tipo
  <2> QED BY <2>1, <2>2, <2>3, <2>4, <2>5 DEF Tipo
<1>10. ASSUME KernelBusca, UNCHANGED <<cpuVars, kernelVars>> PROVE Tipo'
  <2>1. UNCHANGED <<lista, tabla, tamanio, ocupados, cerrado, hiloCpu, deCpu, respuestas, cpu,
           tlb, sobra, enIo, etapa>>
    BY <1>10 DEF KernelBusca, EnKernel, Cae
  <2>2. deKernel' \in Seq(Avisos)
    BY <1>10, Primero DEF KernelBusca, Cae, Tipo
  <2>3. hiloKernel' \in HilosKernel
    <3>1. Head(deKernel).pid \in Pids
      BY <1>10, Frentes DEF KernelBusca, Cae
    <3> QED BY <1>10, <3>1 DEF KernelBusca, Cae, Tipo, HilosKernel
  <2>4. memoria' \in {"viva", "no_existe_pid", "no_existe_pagina", "puntero_nulo"}
    BY <1>10, Campos DEF Tipo, KernelBusca, EnKernel, Cae
  <2> QED BY <2>1, <2>2, <2>3, <2>4 DEF Tipo
<1>11. ASSUME KernelSaca, UNCHANGED <<cpuVars, kernelVars>> PROVE Tipo'
  <2>1. UNCHANGED <<tabla, tamanio, ocupados, cerrado, hiloCpu, deCpu, deKernel, respuestas, cpu,
           tlb, sobra, enIo, etapa, memoria>>
    BY <1>11 DEF KernelSaca, EnKernel
  <2>2. lista' \in Seq(Pids)
    BY <1>11, Quita DEF KernelSaca, Tipo
  <2>3. hiloKernel' \in HilosKernel
    BY <1>11, Campos DEF Tipo, KernelSaca, EnKernel, HilosKernel
  <2> QED BY <2>1, <2>2, <2>3 DEF Tipo
<1>12. ASSUME KernelLibera, UNCHANGED <<cpuVars, kernelVars>> PROVE Tipo'
  <2>1. UNCHANGED <<lista, tamanio, cerrado, hiloCpu, hiloKernel, deCpu, deKernel, respuestas,
           cpu, tlb, sobra, enIo, etapa, memoria>>
    BY <1>12 DEF KernelLibera, EnKernel, SueltaMarco
  <2>2. tabla' \in [Pids -> Seq(Marcos)]
    BY <1>12, Campos, UltimoVacio DEF KernelLibera, SueltaMarco, Tipo
  <2>3. ocupados' \subseteq Marcos
    BY <1>12, Campos DEF Tipo, KernelLibera, EnKernel, SueltaMarco
  <2> QED BY <2>1, <2>2, <2>3 DEF Tipo
<1>13. ASSUME KernelFin, UNCHANGED <<cpuVars, kernelVars>> PROVE Tipo'
  <2>1. UNCHANGED <<lista, tabla, ocupados, cerrado, hiloCpu, deCpu, deKernel, respuestas, cpu,
           tlb, sobra, enIo, etapa, memoria>>
    BY <1>13 DEF KernelFin, EnKernel
  <2>2. tamanio' \in [Pids -> Nat]
    BY <1>13, Campos DEF Tipo, KernelFin, EnKernel
  <2>3. hiloKernel' \in HilosKernel
    BY <1>13, Cero DEF KernelFin, HilosKernel
  <2> QED BY <2>1, <2>2, <2>3 DEF Tipo
<1>14. ASSUME Fetch PROVE Tipo'
  <2>1. UNCHANGED <<lista, tabla, tamanio, ocupados, cerrado, hiloCpu, hiloKernel, deKernel,
           respuestas, tlb, sobra, enIo, etapa, memoria>>
    BY <1>14 DEF Fetch, EnPaso
  <2>2. deCpu' \in Seq(Pedidos)
    BY <1>14, PideTipo DEF Fetch
  <2>3. cpu' \in Cpus /\ (cpu'.en \in {"direccion", "acceso"} => cpu'.marco \in Marcos)
    BY <1>14 DEF Fetch, Ir, Tipo, Cpus, EstadosCpu
  <2> QED BY <2>1, <2>2, <2>3 DEF Tipo
<1>15. ASSUME RecibeInstruccion PROVE Tipo'
  <2>1. UNCHANGED <<lista, tabla, tamanio, ocupados, cerrado, hiloCpu, hiloKernel, deCpu,
           deKernel, tlb, sobra, enIo, etapa, memoria>>
    BY <1>15 DEF RecibeInstruccion, EnPaso
  <2>2. respuestas' \in Seq(Respuestas)
    BY <1>15, Primero DEF RecibeInstruccion, Tipo
  <2>3. cpu' \in Cpus /\ (cpu'.en \in {"direccion", "acceso"} => cpu'.marco \in Marcos)
    BY <1>15 DEF RecibeInstruccion, Ir, Tipo, Cpus, EstadosCpu
  <2> QED BY <2>1, <2>2, <2>3 DEF Tipo
<1>16. ASSUME RecibeResize PROVE Tipo'
  <2>1. UNCHANGED <<lista, tabla, tamanio, ocupados, cerrado, hiloCpu, hiloKernel, deCpu,
           deKernel, tlb, enIo, memoria>>
    BY <1>16 DEF RecibeResize, EnPaso, Libre0, Ciclo!Terminar, Ciclo!Pasar
  <2>2. respuestas' \in Seq(Respuestas)
    BY <1>16, Primero DEF RecibeResize, Tipo
  <2>3. cpu' \in Cpus /\ (cpu'.en \in {"direccion", "acceso"} => cpu'.marco \in Marcos)
    BY <1>16, Libre0Tipo DEF RecibeResize, Ir, Tipo, Cpus, EstadosCpu
  <2>4. sobra' \in BOOLEAN
    BY <1>16, Campos DEF Tipo, RecibeResize, EnPaso, Libre0, Ciclo!Terminar, Ciclo!Pasar
  <2>5. etapa' \in [Pids -> Etapas]
    BY <1>16, Campos DEF Tipo, RecibeResize, EnPaso, Libre0, Ciclo!Terminar, Ciclo!Pasar, Etapas
  <2> QED BY <2>1, <2>2, <2>3, <2>4, <2>5 DEF Tipo
<1>17. ASSUME RecibeMarco PROVE Tipo'
  <2>1. UNCHANGED <<lista, tabla, tamanio, ocupados, cerrado, hiloCpu, hiloKernel, deCpu,
           deKernel, sobra, enIo, etapa, memoria>>
    BY <1>17 DEF RecibeMarco, EnPaso
  <2>2. respuestas' \in Seq(Respuestas)
    BY <1>17, Primero DEF RecibeMarco, Tipo
  <2>3. cpu' \in Cpus /\ (cpu'.en \in {"direccion", "acceso"} => cpu'.marco \in Marcos)
    <3>1. Head(respuestas).dato \in Marcos
      BY <1>17, Frentes DEF RecibeMarco
    <3> QED BY <1>17, <3>1 DEF RecibeMarco, Tipo, Cpus, EstadosCpu
  <2>4. tlb' \in Seq(Entradas) /\ Len(tlb') <= EntradasTlb
    <3>1. Head(respuestas).dato \in Marcos
      BY <1>17, Frentes DEF RecibeMarco
    <3>2. [pid |-> cpu.pid, pagina |-> cpu.pagina, marco |-> Head(respuestas).dato] \in Entradas
      BY <3>1, Campos DEF Entradas
    <3> QED BY <1>17, <3>2, AgregaTipo DEF RecibeMarco
  <2> QED BY <2>1, <2>2, <2>3, <2>4 DEF Tipo
<1>18. ASSUME Accede PROVE Tipo'
  <2>1. UNCHANGED <<lista, tabla, tamanio, ocupados, cerrado, hiloCpu, hiloKernel, deKernel,
           respuestas, tlb, sobra, enIo, etapa, memoria>>
    BY <1>18 DEF Accede, EnPaso
  <2>2. deCpu' \in Seq(Pedidos)
    BY <1>18, PideTipo, Marco DEF Accede, EnPaso, Tipo
  <2>3. cpu' \in Cpus /\ (cpu'.en \in {"direccion", "acceso"} => cpu'.marco \in Marcos)
    BY <1>18 DEF Accede, EnPaso, Ir, Tipo, Cpus, EstadosCpu
  <2> QED BY <2>1, <2>2, <2>3 DEF Tipo
<1>19. ASSUME RecibeAcceso PROVE Tipo'
  <2>1. UNCHANGED <<lista, tabla, tamanio, ocupados, cerrado, hiloCpu, hiloKernel, deCpu,
           deKernel, tlb, sobra, enIo, etapa, memoria>>
    BY <1>19 DEF RecibeAcceso, EnPaso
  <2>2. respuestas' \in Seq(Respuestas)
    BY <1>19, Primero DEF RecibeAcceso, Tipo
  <2>3. cpu' \in Cpus /\ (cpu'.en \in {"direccion", "acceso"} => cpu'.marco \in Marcos)
    BY <1>19 DEF RecibeAcceso, Tipo, Cpus, EstadosCpu
  <2> QED BY <2>1, <2>2, <2>3 DEF Tipo
<1>20. ASSUME BloqueaEnIo PROVE Tipo'
  <2>1. UNCHANGED <<lista, tabla, tamanio, ocupados, cerrado, hiloCpu, hiloKernel, deCpu,
           deKernel, respuestas, tlb, sobra, memoria>>
    BY <1>20 DEF BloqueaEnIo, EnPaso, Ciclo!Bloquear, Ciclo!Pasar, Libre0
  <2>2. cpu' \in Cpus /\ (cpu'.en \in {"direccion", "acceso"} => cpu'.marco \in Marcos)
    BY <1>20, Libre0Tipo DEF BloqueaEnIo
  <2>3. enIo' \in [Pids -> Marcos \cup {SINMARCO}]
    BY <1>20, Campos DEF BloqueaEnIo, Tipo
  <2>4. etapa' \in [Pids -> Etapas]
    BY <1>20, Campos DEF Tipo, BloqueaEnIo, EnPaso, Ciclo!Bloquear, Ciclo!Pasar, Libre0, Etapas
  <2> QED BY <2>1, <2>2, <2>3, <2>4 DEF Tipo
<1>21. ASSUME FinInstruccion PROVE Tipo'
  <2>1. UNCHANGED <<lista, tabla, tamanio, ocupados, cerrado, hiloCpu, hiloKernel, deCpu,
           deKernel, respuestas, tlb, sobra, enIo, memoria>>
    BY <1>21 DEF FinInstruccion, EnPaso, Ciclo!Bloquear, Ciclo!Desalojar, Ciclo!Terminar,
       Ciclo!Pasar, Libre0
  <2>2. cpu' \in Cpus /\ (cpu'.en \in {"direccion", "acceso"} => cpu'.marco \in Marcos)
    BY <1>21, Libre0Tipo DEF FinInstruccion, Ir, Tipo, Cpus, EstadosCpu
  <2>3. etapa' \in [Pids -> Etapas]
    BY <1>21, Campos DEF Tipo, FinInstruccion, EnPaso, Ciclo!Bloquear, Ciclo!Desalojar,
       Ciclo!Terminar, Ciclo!Pasar, Libre0, Etapas
  <2> QED BY <2>1, <2>2, <2>3 DEF Tipo
<1>22. ASSUME NEW t \in Tamanios, EjecutaResize(t) PROVE Tipo'
  <2>1. UNCHANGED <<lista, tabla, tamanio, ocupados, cerrado, hiloCpu, hiloKernel, deKernel,
           respuestas, tlb, sobra, enIo, etapa, memoria>>
    BY <1>22 DEF EjecutaResize, EnPaso
  <2>2. deCpu' \in Seq(Pedidos)
    BY <1>22, PideTipo, CpuAssumption DEF EjecutaResize
  <2>3. cpu' \in Cpus /\ (cpu'.en \in {"direccion", "acceso"} => cpu'.marco \in Marcos)
    BY <1>22 DEF EjecutaResize, Ir, Tipo, Cpus, EstadosCpu
  <2> QED BY <2>1, <2>2, <2>3 DEF Tipo
<1>23. ASSUME NEW k \in Marcos, ConsultaMmu(k) PROVE Tipo'
  <2>1. UNCHANGED <<lista, tabla, tamanio, ocupados, cerrado, hiloCpu, hiloKernel, deKernel,
           respuestas, tlb, sobra, enIo, etapa, memoria>>
    BY <1>23 DEF ConsultaMmu, EnPaso
  <2>2. deCpu' \in Seq(Pedidos)
    BY <1>23, PideTipo, Marco DEF ConsultaMmu, Tipo
  <2>3. cpu' \in Cpus /\ (cpu'.en \in {"direccion", "acceso"} => cpu'.marco \in Marcos)
    <3>1. CASE cpu' = [cpu EXCEPT !.en = "marco", !.pagina = k]
      BY <3>1, Marco DEF Tipo, Cpus, EstadosCpu
    <3>2. CASE \E j \in EnTlb(cpu.pid, k) :
                  cpu' = [cpu EXCEPT !.en = "direccion", !.pagina = k, !.marco = tlb[j].marco]
      <4>1. \A j \in EnTlb(cpu.pid, k) : tlb[j].marco \in Marcos
        BY Elementos DEF EnTlb
      <4> QED BY <3>2, <4>1, Marco DEF Tipo, Cpus, EstadosCpu
    <3> QED BY <1>23, <3>1, <3>2 DEF ConsultaMmu
  <2> QED BY <2>1, <2>2, <2>3 DEF Tipo
<1>24. ASSUME NEW p \in Pids, Crea(p) PROVE Tipo'
  <2>1. UNCHANGED <<lista, tabla, tamanio, ocupados, cerrado, hiloCpu, hiloKernel, deCpu,
           deKernel, respuestas, cpu, tlb, sobra, enIo, memoria>>
    BY <1>24 DEF Crea, Ciclo!Crear, Ciclo!Pasar
  <2>2. etapa' \in [Pids -> Etapas]
    BY <1>24, Campos DEF Tipo, Crea, Ciclo!Crear, Ciclo!Pasar, Etapas
  <2> QED BY <2>1, <2>2 DEF Tipo
<1>25. ASSUME NEW p \in Pids, Admite(p) PROVE Tipo'
  <2>1. UNCHANGED <<lista, tabla, tamanio, ocupados, cerrado, hiloCpu, hiloKernel, deCpu,
           respuestas, cpu, tlb, sobra, enIo, memoria>>
    BY <1>25 DEF Admite, Ciclo!Admitir, Ciclo!Pasar
  <2>2. etapa' \in [Pids -> Etapas]
    BY <1>25, Campos DEF Tipo, Admite, Ciclo!Admitir, Ciclo!Pasar, Etapas
  <2>3. deKernel' \in Seq(Avisos)
    BY <1>25, AvisaTipo DEF Admite
  <2> QED BY <2>1, <2>2, <2>3 DEF Tipo
<1>26. ASSUME NEW p \in Pids, Despacha(p) PROVE Tipo'
  <2>1. UNCHANGED <<lista, tabla, tamanio, ocupados, cerrado, hiloCpu, hiloKernel, deCpu,
           deKernel, respuestas, tlb, sobra, enIo, memoria>>
    BY <1>26 DEF Despacha, Ciclo!Despachar, Ciclo!Pasar
  <2>2. etapa' \in [Pids -> Etapas]
    BY <1>26, Campos DEF Tipo, Despacha, Ciclo!Despachar, Ciclo!Pasar, Etapas
  <2>3. cpu' \in Cpus /\ (cpu'.en \in {"direccion", "acceso"} => cpu'.marco \in Marcos)
    BY <1>26 DEF Despacha, Tipo, Cpus, EstadosCpu
  <2> QED BY <2>1, <2>2, <2>3 DEF Tipo
<1>27. ASSUME NEW p \in Pids, Despierta(p) PROVE Tipo'
  <2>1. UNCHANGED <<lista, tabla, tamanio, ocupados, cerrado, hiloCpu, hiloKernel, deCpu,
           deKernel, respuestas, cpu, tlb, sobra, memoria>>
    BY <1>27 DEF Despierta, Ciclo!Despertar, Ciclo!Pasar
  <2>2. etapa' \in [Pids -> Etapas]
    BY <1>27, Campos DEF Tipo, Despierta, Ciclo!Despertar, Ciclo!Pasar, Etapas
  <2>3. enIo' \in [Pids -> Marcos \cup {SINMARCO}]
    BY <1>27, Campos DEF Tipo, Despierta, Ciclo!Despertar, Ciclo!Pasar
  <2> QED BY <2>1, <2>2, <2>3 DEF Tipo
<1>28. ASSUME NEW p \in Pids, Libera(p) PROVE Tipo'
  <2>1. UNCHANGED <<lista, tabla, tamanio, ocupados, cerrado, hiloCpu, hiloKernel, deCpu,
           respuestas, cpu, tlb, sobra, enIo, memoria>>
    BY <1>28 DEF Libera, Ciclo!Liberar, Ciclo!Pasar
  <2>2. etapa' \in [Pids -> Etapas]
    BY <1>28, Campos DEF Tipo, Libera, Ciclo!Liberar, Ciclo!Pasar, Etapas
  <2>3. deKernel' \in Seq(Avisos)
    BY <1>28, AvisaTipo DEF Libera
  <2> QED BY <2>1, <2>2, <2>3 DEF Tipo
<1>29. ASSUME NEW p \in Pids, Finaliza(p) PROVE Tipo'
  <2>1. UNCHANGED <<lista, tabla, tamanio, ocupados, cerrado, hiloCpu, hiloKernel, deCpu,
           deKernel, respuestas, cpu, tlb, sobra, enIo, memoria>>
    BY <1>29 DEF Finaliza, Ciclo!Pasar
  <2>2. etapa' \in [Pids -> Etapas]
    BY <1>29, Campos DEF Tipo, Finaliza, Ciclo!Pasar, Etapas
  <2> QED BY <2>1, <2>2 DEF Tipo
<1>30. ASSUME UNCHANGED vars PROVE Tipo'
  BY <1>30 DEF vars, Tipo
<1> QED
  BY <1>1, <1>2, <1>3, <1>4, <1>5, <1>6, <1>7, <1>8, <1>9, <1>10, <1>11, <1>12, <1>13, <1>14,
     <1>15, <1>16, <1>17, <1>18, <1>19, <1>20, <1>21, <1>22, <1>23, <1>24, <1>25, <1>26, <1>27,
        <1>28, <1>29, <1>30 DEF Next, AtenderCpu, AtenderKernel, PasoCpu, PasoKernel

-----------------------------------------------------------------------------
(* The conversation *)

\* The sequences of length 0 and 1.
LEMMA Cortas ==
  ASSUME NEW S, NEW s \in Seq(S)
  PROVE  /\ s = <<>> <=> Len(s) = 0
         /\ Len(s) = 1 => s # <<>> /\ Tail(s) = <<>> /\ Head(s) = s[1]
         /\ Len(s) \in Nat /\ (s # <<>> => Len(s) >= 1)
<1>1. Len(s) \in Nat /\ (s = <<>> <=> Len(s) = 0) /\ (s # <<>> => Len(s) >= 1)
  OBVIOUS
<1>2. ASSUME Len(s) = 1 PROVE s # <<>> /\ Tail(s) = <<>> /\ Head(s) = s[1]
  <2>1. s # <<>>
    BY <1>2
  <2>2. Tail(s) \in Seq(S) /\ Len(Tail(s)) = 0 /\ Head(s) = s[1]
    BY <1>2, <2>1, Primero
  <2>3. \A t \in Seq(S) : Len(t) = 0 => t = <<>>
    OBVIOUS
  <2> QED BY <2>1, <2>2, <2>3
<1> QED BY <1>1, <1>2

\* What a request does to deCpu.
LEMMA PideEfecto ==
  ASSUME Tipo, NEW op \in {"BUSCAR_INSTRUCCION", "OP_RESIZE", "MARCO", "ACCESO"}, NEW d \in Nat,
         Pide(op, d), deCpu = <<>>
  PROVE  /\ Len(deCpu') = 1 /\ deCpu' # <<>>
         /\ deCpu'[1].op = op /\ deCpu'[1].pid = cpu.pid /\ deCpu'[1].dato = d
<1> DEFINE x == [op |-> op, pid |-> cpu.pid, dato |-> d]
<1>1. x \in Pedidos /\ x.op = op /\ x.pid = cpu.pid /\ x.dato = d
  BY Campos DEF Pedidos
<1>2. deCpu' = Append(deCpu, x) /\ deCpu \in Seq(Pedidos)
  BY DEF Pide, Tipo
<1> HIDE DEF x
<1>3. Len(deCpu) = 0
  BY <1>2, Cortas
<1>4. Len(deCpu') = Len(deCpu) + 1 /\ deCpu'[Len(deCpu) + 1] = x /\ deCpu' \in Seq(Pedidos)
  BY <1>1, <1>2, AlFinal
<1>5. Len(deCpu') = 1 /\ deCpu'[1] = x /\ deCpu' # <<>>
  BY <1>3, <1>4
<1> QED BY <1>1, <1>5

\* What an answer does to respuestas.
LEMMA RespondeEfecto ==
  ASSUME Tipo, NEW m \in Marcos,
         NEW op \in {"INSTRUCCION_A_EJECUTAR", "OK", "MARCO", "OUT_OF_MEMORY_AVISO"},
         Responde(op, m)
  PROVE  /\ Len(respuestas') = Len(respuestas) + 1 /\ Len(respuestas') >= 1 /\ respuestas' # <<>>
         /\ respuestas = <<>> => /\ Len(respuestas') = 1
                                 /\ respuestas'[1].op = op /\ respuestas'[1].dato = m
         /\ respuestas # <<>> => respuestas'[1] = respuestas[1]
         /\ \A k \in 1 .. Len(respuestas) : respuestas'[k] = respuestas[k]
         /\ respuestas'[Len(respuestas) + 1].op = op
<1> DEFINE x == [op |-> op, dato |-> m]
<1>1. x \in Respuestas /\ x.op = op /\ x.dato = m
  BY DEF Respuestas
<1>2. respuestas' = Append(respuestas, x) /\ respuestas \in Seq(Respuestas)
  BY DEF Responde, Tipo
<1> HIDE DEF x
<1>3. /\ Len(respuestas') = Len(respuestas) + 1 /\ respuestas'[Len(respuestas) + 1] = x
      /\ Len(respuestas) \in Nat /\ respuestas' \in Seq(Respuestas)
      /\ \A k \in 1 .. Len(respuestas) : respuestas'[k] = respuestas[k]
  BY <1>1, <1>2, AlFinal
<1>4. Len(respuestas') >= 1 /\ respuestas' # <<>>
  BY <1>3, Cortas
<1>5. ASSUME respuestas = <<>> PROVE Len(respuestas') = 1 /\ respuestas'[1] = x
  <2>1. Len(respuestas) = 0
    BY <1>2, <1>5, Cortas
  <2> QED BY <1>3, <2>1
<1>6. ASSUME respuestas # <<>> PROVE respuestas'[1] = respuestas[1]
  <2>1. 1 \in 1 .. Len(respuestas)
    BY <1>2, <1>6, Cortas
  <2> QED BY <1>3, <2>1
<1> QED BY <1>1, <1>3, <1>4, <1>5, <1>6

\* Reading the only message.
LEMMA Recibido ==
  ASSUME Tipo
  PROVE  /\ Len(deCpu) = 1 => deCpu # <<>> /\ Tail(deCpu) = <<>> /\ Head(deCpu) = deCpu[1]
         /\ Len(respuestas) = 1 => /\ respuestas # <<>> /\ Tail(respuestas) = <<>>
                                   /\ Head(respuestas) = respuestas[1]
         /\ Len(respuestas) >= 1 => respuestas # <<>> /\ Head(respuestas) = respuestas[1]
         /\ respuestas # <<>> => Len(respuestas) >= 1
<1>1. deCpu \in Seq(Pedidos) /\ respuestas \in Seq(Respuestas)
  BY DEF Tipo
<1>2. Len(deCpu) = 1 => deCpu # <<>> /\ Tail(deCpu) = <<>> /\ Head(deCpu) = deCpu[1]
  BY <1>1, Cortas
<1>3. Len(respuestas) = 1 => respuestas # <<>> /\ Tail(respuestas) = <<>> /\ Head(respuestas) = respuestas[1]
  BY <1>1, Cortas
<1>4. Len(respuestas) >= 1 => respuestas # <<>>
  BY <1>1, Cortas
<1>5. respuestas # <<>> => Len(respuestas) >= 1
  BY <1>1, Cortas
<1> QED BY <1>2, <1>3, <1>4, <1>5, Frentes

\* A process changes its stage.
LEMMA PasarEfecto ==
  ASSUME Tipo, NEW p \in Pids, NEW a, NEW b, Ciclo!Pasar(p, a, b)
  PROVE  etapa[p] = a /\ etapa'[p] = b /\ \A q \in Pids : q # p => etapa'[q] = etapa[q]
BY DEF Ciclo!Pasar, Tipo

\* Steps that leave the conversation and the stages alone: CPU and memory keep taking turns.
LEMMA CharlaIgual ==
  ASSUME Charla, UNCHANGED <<cpu, etapa, hiloCpu, deCpu, respuestas, sobra>>
  PROVE  Charla'
BY DEF Charla, Duenio, Normal, Agotada, Espera, Enviado, Servido, Contestado, Calla

\* atender_cpu takes a request: CPU and memory keep taking turns.
LEMMA CharlaCpuRecibe ==
  ASSUME Tipo, Charla, CpuRecibe, UNCHANGED <<cpuVars, kernelVars>>
  PROVE  Charla'
<1>1. /\ hiloCpu.en = "recibe" /\ deCpu # <<>> /\ deCpu' = Tail(deCpu) /\ Head(deCpu) = deCpu[1]
      /\ UNCHANGED <<cpu, etapa, sobra>>
  BY Frentes DEF CpuRecibe, EnCpu
<1>2. Len(deCpu) = 1 /\ deCpu' = <<>>
  BY <1>1, Recibido DEF Charla, Normal, Agotada, Espera, Enviado, Servido, Contestado, Calla
<1>3. \/ /\ deCpu[1].op = "ACCESO" /\ Responde("OK", 0) /\ hiloCpu' = hiloCpu
      \/ /\ deCpu[1].op # "ACCESO" /\ respuestas' = respuestas
         /\ hiloCpu'.en = IF deCpu[1].op = "BUSCAR_INSTRUCCION" THEN "instruccion" ELSE "proceso"
         /\ hiloCpu'.pedido = deCpu[1]
  BY <1>1 DEF CpuRecibe
<1>4. CASE deCpu[1].op = "ACCESO"
  <2>1. respuestas = <<>> => Len(respuestas') = 1 /\ respuestas'[1].op = "OK"
    BY <1>3, <1>4, Cero, RespondeEfecto
  <2> QED BY <1>1, <1>2, <1>3, <1>4, <2>1 DEF Charla, Duenio, Normal, Agotada, Espera, Enviado,
         Servido, Contestado, Calla
<1>5. CASE deCpu[1].op # "ACCESO"
  BY <1>1, <1>2, <1>3, <1>5 DEF Charla, Duenio, Normal, Agotada, Espera, Enviado, Servido,
     Contestado, Calla
<1> QED BY <1>4, <1>5

\* buscar_instruccion goes on or answers: CPU and memory keep taking turns.
LEMMA CharlaCpuInstruccion ==
  ASSUME Tipo, Charla, CpuInstruccion, UNCHANGED <<cpuVars, kernelVars>>
  PROVE  Charla'
<1>1. hiloCpu.en = "instruccion" /\ UNCHANGED <<cpu, etapa, sobra, deCpu>>
  BY DEF CpuInstruccion, EnCpu, Cae
<1>2. \/ hiloCpu' = hiloCpu /\ respuestas' = respuestas
      \/ hiloCpu' = Reposo /\ Responde("INSTRUCCION_A_EJECUTAR", 0)
      \/ hiloCpu' = [hiloCpu EXCEPT !.i = @ + 1] /\ respuestas' = respuestas
  BY DEF CpuInstruccion, Cae
<1>3. CASE hiloCpu' = hiloCpu /\ respuestas' = respuestas
  BY <1>1, <1>3, CharlaIgual
<1>4. CASE hiloCpu' = Reposo /\ Responde("INSTRUCCION_A_EJECUTAR", 0)
  <2>1. hiloCpu'.en = "recibe"
    BY <1>4 DEF Reposo
  <2>2. /\ Len(respuestas') >= 1
        /\ respuestas = <<>> => Len(respuestas') = 1 /\ respuestas'[1].op = "INSTRUCCION_A_EJECUTAR"
    BY <1>4, Cero, RespondeEfecto
  <2> QED BY <1>1, <2>1, <2>2 DEF Charla, Duenio, Normal, Agotada, Espera, Enviado, Servido,
         Contestado, Calla
<1>5. CASE hiloCpu' = [hiloCpu EXCEPT !.i = @ + 1] /\ respuestas' = respuestas
  <2>1. hiloCpu'.en = hiloCpu.en /\ hiloCpu'.pedido = hiloCpu.pedido
    BY <1>5 DEF Tipo, HilosCpu
  <2> QED BY <1>1, <1>5, <2>1 DEF Charla, Duenio, Normal, Agotada, Espera, Enviado, Servido,
         Contestado, Calla
<1> QED BY <1>2, <1>3, <1>4, <1>5

\* buscar_proceso goes on or finds the process: CPU and memory keep taking turns.
LEMMA CharlaCpuProceso ==
  ASSUME Tipo, Charla, CpuProceso, UNCHANGED <<cpuVars, kernelVars>>
  PROVE  Charla'
<1>1. hiloCpu.en = "proceso" /\ UNCHANGED <<cpu, etapa, sobra, deCpu, respuestas>>
  BY DEF CpuProceso, EnCpu, Cae
<1>2. \/ hiloCpu' = hiloCpu
      \/ hiloCpu' = [hiloCpu EXCEPT !.i = @ + 1]
      \/ hiloCpu' = [hiloCpu EXCEPT !.en = hiloCpu.pedido.op]
  BY DEF CpuProceso, Cae
<1>3. hiloCpu'.pedido = hiloCpu.pedido /\ hiloCpu'.en \in {hiloCpu.en, hiloCpu.pedido.op}
  BY <1>2 DEF Tipo, HilosCpu
<1> QED BY <1>1, <1>3 DEF Charla, Duenio, Normal, Agotada, Espera, Enviado, Servido, Contestado,
       Calla

\* The frame of a page goes back: CPU and memory keep taking turns.
LEMMA CharlaCpuMarco ==
  ASSUME Tipo, Charla, CpuMarco, UNCHANGED <<cpuVars, kernelVars>>
  PROVE  Charla'
<1>1. hiloCpu.en = "MARCO" /\ UNCHANGED <<cpu, etapa, sobra, deCpu>>
  BY DEF CpuMarco, EnCpu, Cae
<1>2. CASE hiloCpu' = hiloCpu /\ respuestas' = respuestas
  BY <1>1, <1>2, CharlaIgual
<1>3. CASE ~ (hiloCpu' = hiloCpu /\ respuestas' = respuestas)
  <2> DEFINE m == tabla[hiloCpu.pedido.pid][hiloCpu.pedido.dato + 1]
  <2>1. /\ hiloCpu' = Reposo /\ Responde("MARCO", m)
        /\ hiloCpu.pedido.dato < Len(tabla[hiloCpu.pedido.pid])
    BY <1>3 DEF CpuMarco, Cae
  <2>2. m \in Marcos
    BY <2>1, Campos, Tablas
  <2>3. hiloCpu'.en = "recibe"
    BY <2>1 DEF Reposo
  <2> HIDE DEF m
  <2>4. respuestas = <<>> => Len(respuestas') = 1 /\ respuestas'[1].op = "MARCO"
    BY <2>1, <2>2, RespondeEfecto
  <2> QED BY <1>1, <2>3, <2>4 DEF Charla, Duenio, Normal, Agotada, Espera, Enviado, Servido,
         Contestado, Calla
<1> QED BY <1>2, <1>3

\* manejar_resize decides: CPU and memory keep taking turns.
LEMMA CharlaCpuResize ==
  ASSUME Tipo, Charla, CpuResize, UNCHANGED <<cpuVars, kernelVars>>
  PROVE  Charla'
<1>1. hiloCpu.en = "OP_RESIZE" /\ UNCHANGED <<cpu, etapa, sobra, deCpu, respuestas>>
  BY DEF CpuResize, EnCpu
<1>2. hiloCpu'.pedido = hiloCpu.pedido /\ hiloCpu'.en \in {"asigna", "elimina", "responde"}
  BY DEF CpuResize, Tipo, HilosCpu
<1> QED BY <1>1, <1>2 DEF Charla, Duenio, Normal, Agotada, Espera, Enviado, Servido, Contestado,
       Calla

\* asingar_paginas tries a frame, or says that there is none: CPU and memory keep taking turns.
LEMMA CharlaCpuAsigna ==
  ASSUME Tipo, Charla, CpuAsigna, UNCHANGED <<cpuVars, kernelVars>>
  PROVE  Charla'
<1>1. hiloCpu.en = "asigna" /\ UNCHANGED <<cpu, etapa, sobra, deCpu>>
  BY DEF CpuAsigna, EnCpu
<1>2. \/ hiloCpu' = [hiloCpu EXCEPT !.en = "responde"] /\ Responde("OUT_OF_MEMORY_AVISO", 0)
      \/ hiloCpu' = [hiloCpu EXCEPT !.i = @ + 1] /\ respuestas' = respuestas
      \/ hiloCpu' = [hiloCpu EXCEPT !.i = 0, !.resta = @ - 1] /\ respuestas' = respuestas
  BY DEF CpuAsigna
<1>3. CASE respuestas' = respuestas
  <2>1. hiloCpu'.pedido = hiloCpu.pedido /\ hiloCpu'.en \in {"asigna", "responde"}
    BY <1>1, <1>2 DEF Tipo, HilosCpu
  <2> QED BY <1>1, <1>3, <2>1 DEF Charla, Duenio, Normal, Agotada, Espera, Enviado, Servido,
         Contestado, Calla
<1>4. CASE hiloCpu' = [hiloCpu EXCEPT !.en = "responde"] /\ Responde("OUT_OF_MEMORY_AVISO", 0)
  <2>1. hiloCpu'.en = "responde"
    BY <1>4 DEF Tipo, HilosCpu
  <2>2. /\ Len(respuestas') >= 1
        /\ respuestas = <<>> => respuestas'[1].op = "OUT_OF_MEMORY_AVISO"
    BY <1>4, Cero, RespondeEfecto
  <2> QED BY <1>1, <2>1, <2>2 DEF Charla, Duenio, Normal, Agotada, Espera, Enviado, Servido,
         Contestado, Calla
<1> QED BY <1>2, <1>3, <1>4

\* eliminar_paginas takes a page: CPU and memory keep taking turns.
LEMMA CharlaCpuElimina ==
  ASSUME Tipo, Charla, CpuElimina, UNCHANGED <<cpuVars, kernelVars>>
  PROVE  Charla'
<1>1. hiloCpu.en = "elimina" /\ UNCHANGED <<cpu, etapa, sobra, deCpu, respuestas>>
  BY DEF CpuElimina, EnCpu
<1>2. hiloCpu'.pedido = hiloCpu.pedido /\ hiloCpu'.en = hiloCpu.en
  BY DEF CpuElimina, Tipo, HilosCpu
<1> QED BY <1>1, <1>2 DEF Charla, Duenio, Normal, Agotada, Espera, Enviado, Servido, Contestado,
       Calla

\* manejar_resize answers OK: CPU and memory keep taking turns.
LEMMA CharlaCpuResponde ==
  ASSUME Tipo, Charla, CpuResponde, UNCHANGED <<cpuVars, kernelVars>>
  PROVE  Charla'
<1>1. /\ hiloCpu.en \in {"asigna", "elimina", "responde"} /\ UNCHANGED <<cpu, etapa, sobra, deCpu>>
      /\ hiloCpu'.en = "recibe" /\ Responde("OK", 0)
  BY DEF CpuResponde, EnCpu, Reposo
<1>2. /\ Len(respuestas') >= 1
      /\ respuestas = <<>> => Len(respuestas') = 1 /\ respuestas'[1].op = "OK"
      /\ respuestas # <<>> => respuestas'[1] = respuestas[1]
  BY <1>1, Cero, RespondeEfecto
<1>3. Len(respuestas) >= 1 => respuestas # <<>>
  BY Recibido
<1> QED BY <1>1, <1>2, <1>3 DEF Charla, Duenio, Normal, Agotada, Espera, Enviado, Servido,
       Contestado, Calla

\* The CPU asks for an instruction: CPU and memory keep taking turns.
LEMMA CharlaFetch ==
  ASSUME Tipo, Charla, Fetch
  PROVE  Charla'
<1>1. /\ cpu.en = "fetch" /\ Pide("BUSCAR_INSTRUCCION", 0) /\ UNCHANGED <<hiloCpu, respuestas, sobra, etapa>>
      /\ cpu'.en = "instruccion" /\ cpu'.pid = cpu.pid
  BY DEF Fetch, EnPaso, Ir, Tipo, Cpus
<1>2. deCpu = <<>>
  BY <1>1 DEF Charla, Normal, Agotada, Calla
<1>3. Len(deCpu') = 1 /\ deCpu'[1].op = "BUSCAR_INSTRUCCION" /\ deCpu'[1].pid = cpu.pid
  BY <1>1, <1>2, PideEfecto
<1> QED BY <1>1, <1>3 DEF Charla, Duenio, Normal, Agotada, Espera, Enviado, Servido, Contestado,
       Calla

\* The instruction arrives: CPU and memory keep taking turns.
LEMMA CharlaRecibeInstruccion ==
  ASSUME Tipo, Charla, RecibeInstruccion
  PROVE  Charla'
<1>1. /\ cpu.en = "instruccion" /\ respuestas # <<>> /\ UNCHANGED <<hiloCpu, deCpu, sobra, etapa>>
      /\ cpu'.pid = cpu.pid
      /\ \/ /\ sobra \/ Head(respuestas).op # "INSTRUCCION_A_EJECUTAR"
            /\ cpu'.en = "caida" /\ respuestas' = respuestas
         \/ /\ ~ sobra /\ Head(respuestas).op = "INSTRUCCION_A_EJECUTAR"
            /\ cpu'.en = "ejecuta" /\ respuestas' = Tail(respuestas)
  BY DEF RecibeInstruccion, EnPaso, Ir, Tipo, Cpus
<1> QED BY <1>1, Recibido DEF Charla, Duenio, Normal, Agotada, Espera, Enviado, Servido,
       Contestado, Calla

\* The CPU asks for a size: CPU and memory keep taking turns.
LEMMA CharlaEjecutaResize ==
  ASSUME Tipo, Charla, NEW t \in Tamanios, EjecutaResize(t)
  PROVE  Charla'
<1>1. /\ cpu.en = "ejecuta" /\ Pide("OP_RESIZE", t) /\ UNCHANGED <<hiloCpu, respuestas, sobra, etapa>>
      /\ cpu'.en = "resize" /\ cpu'.pid = cpu.pid
  BY DEF EjecutaResize, EnPaso, Ir, Tipo, Cpus
<1>2. deCpu = <<>> /\ t \in Nat
  BY <1>1, CpuAssumption DEF Charla, Normal, Agotada, Calla
<1>3. Len(deCpu') = 1 /\ deCpu'[1].op = "OP_RESIZE" /\ deCpu'[1].pid = cpu.pid
  BY <1>1, <1>2, PideEfecto
<1> QED BY <1>1, <1>3 DEF Charla, Duenio, Normal, Agotada, Espera, Enviado, Servido, Contestado,
       Calla

\* The answer to RESIZE arrives: CPU and memory keep taking turns.
LEMMA CharlaRecibeResize ==
  ASSUME Tipo, Charla, RecibeResize
  PROVE  Charla'
<1>1. /\ cpu.en = "resize" /\ respuestas # <<>> /\ UNCHANGED <<hiloCpu, deCpu>>
      /\ \/ /\ Head(respuestas).op = "OK" /\ respuestas' = Tail(respuestas) /\ UNCHANGED <<sobra, etapa>>
            /\ cpu'.en = "fetch" /\ cpu'.pid = cpu.pid
         \/ /\ Head(respuestas).op = "OUT_OF_MEMORY_AVISO" /\ sobra' = TRUE /\ respuestas' = respuestas
            /\ cpu' = Libre0 /\ Ciclo!Pasar(cpu.pid, "ejecutando", "terminado")
  BY DEF RecibeResize, EnPaso, Ir, Tipo, Cpus, Ciclo!Terminar
<1>2. CASE Head(respuestas).op = "OK"
  BY <1>1, <1>2, Recibido DEF Charla, Duenio, Normal, Agotada, Espera, Enviado, Servido,
     Contestado, Calla
<1>3. CASE Head(respuestas).op = "OUT_OF_MEMORY_AVISO"
  <2>1. etapa'[cpu.pid] = "terminado" /\ \A q \in Pids : q # cpu.pid => etapa'[q] = etapa[q]
    BY <1>1, <1>3, Campos, PasarEfecto
  <2>2. cpu'.en = "libre" /\ Duenio'
    BY <1>1, <1>3, <2>1, Libre0Tipo DEF Charla, Duenio
  <2> QED BY <1>1, <1>3, <2>2, Recibido DEF Charla, Normal, Agotada, Espera, Enviado, Servido,
         Contestado, Calla
<1> QED BY <1>1, <1>2, <1>3

\* consultar_mmu finds the page in the TLB or asks for its frame: CPU and memory keep taking turns.
LEMMA CharlaConsultaMmu ==
  ASSUME Tipo, Charla, NEW k \in Marcos, ConsultaMmu(k)
  PROVE  Charla'
<1>1. /\ cpu.en \in {"ejecuta", "accede"} /\ UNCHANGED <<hiloCpu, respuestas, sobra, etapa>>
      /\ cpu'.pid = cpu.pid
      /\ \/ cpu'.en = "direccion" /\ deCpu' = deCpu
         \/ cpu'.en = "marco" /\ Pide("MARCO", k)
  BY DEF ConsultaMmu, EnPaso, Tipo, Cpus
<1>2. deCpu = <<>> /\ k \in Nat
  BY <1>1, Marco DEF Charla, Normal, Agotada, Calla
<1>3. cpu'.en = "marco" => Len(deCpu') = 1 /\ deCpu'[1].op = "MARCO" /\ deCpu'[1].pid = cpu.pid
  BY <1>1, <1>2, PideEfecto
<1> QED BY <1>1, <1>3 DEF Charla, Duenio, Normal, Agotada, Espera, Enviado, Servido, Contestado,
       Calla

\* The frame arrives: CPU and memory keep taking turns.
LEMMA CharlaRecibeMarco ==
  ASSUME Tipo, Charla, RecibeMarco
  PROVE  Charla'
<1>1. /\ cpu.en = "marco" /\ respuestas # <<>> /\ UNCHANGED <<hiloCpu, deCpu, sobra, etapa>>
      /\ cpu'.en = "direccion" /\ cpu'.pid = cpu.pid /\ respuestas' = Tail(respuestas)
  BY DEF RecibeMarco, EnPaso, Tipo, Cpus
<1> QED BY <1>1, Recibido DEF Charla, Duenio, Normal, Agotada, Espera, Enviado, Servido,
       Contestado, Calla

\* The CPU asks for an access: CPU and memory keep taking turns.
LEMMA CharlaAccede ==
  ASSUME Tipo, Charla, Accede
  PROVE  Charla'
<1>1. /\ cpu.en = "direccion" /\ Pide("ACCESO", cpu.marco) /\ UNCHANGED <<hiloCpu, respuestas, sobra, etapa>>
      /\ cpu'.en = "acceso" /\ cpu'.pid = cpu.pid
  BY DEF Accede, EnPaso, Ir, Tipo, Cpus
<1>2. deCpu = <<>> /\ cpu.marco \in Nat
  BY <1>1, Marco DEF Charla, Normal, Agotada, Calla, Tipo
<1>3. Len(deCpu') = 1 /\ deCpu'[1].op = "ACCESO" /\ deCpu'[1].pid = cpu.pid
  BY <1>1, <1>2, PideEfecto
<1> QED BY <1>1, <1>3 DEF Charla, Duenio, Normal, Agotada, Espera, Enviado, Servido, Contestado,
       Calla

\* The access ends: CPU and memory keep taking turns.
LEMMA CharlaRecibeAcceso ==
  ASSUME Tipo, Charla, RecibeAcceso
  PROVE  Charla'
<1>1. /\ cpu.en = "acceso" /\ respuestas # <<>> /\ UNCHANGED <<hiloCpu, deCpu, sobra, etapa>>
      /\ cpu'.en = "accede" /\ cpu'.pid = cpu.pid /\ respuestas' = Tail(respuestas)
  BY DEF RecibeAcceso, EnPaso, Tipo, Cpus
<1> QED BY <1>1, Recibido DEF Charla, Duenio, Normal, Agotada, Espera, Enviado, Servido,
       Contestado, Calla

\* The process goes to an interface: CPU and memory keep taking turns.
LEMMA CharlaBloqueaEnIo ==
  ASSUME Tipo, Charla, BloqueaEnIo
  PROVE  Charla'
<1>1. /\ cpu.en = "direccion" /\ UNCHANGED <<hiloCpu, deCpu, respuestas, sobra>>
      /\ cpu' = Libre0 /\ Ciclo!Pasar(cpu.pid, "ejecutando", "bloqueado")
  BY DEF BloqueaEnIo, EnPaso, Ciclo!Bloquear
<1>2. etapa'[cpu.pid] = "bloqueado" /\ \A q \in Pids : q # cpu.pid => etapa'[q] = etapa[q]
  BY <1>1, Campos, PasarEfecto
<1>3. cpu'.en = "libre" /\ Duenio'
  BY <1>1, <1>2, Libre0Tipo DEF Charla, Duenio
<1> QED BY <1>1, <1>3 DEF Charla, Normal, Agotada, Espera, Enviado, Servido, Contestado, Calla

\* An instruction ends, and the burst with it or not: CPU and memory keep taking turns.
LEMMA CharlaFinInstruccion ==
  ASSUME Tipo, Charla, FinInstruccion
  PROVE  Charla'
<1>1. /\ cpu.en \in {"ejecuta", "accede"} /\ UNCHANGED <<hiloCpu, deCpu, respuestas, sobra>>
      /\ \/ cpu'.en = "fetch" /\ cpu'.pid = cpu.pid /\ etapa' = etapa
         \/ cpu' = Libre0 /\ \E e \in {"listo", "bloqueado", "terminado"} : Ciclo!Pasar(cpu.pid, "ejecutando", e)
  BY DEF FinInstruccion, EnPaso, Ir, Tipo, Cpus, Ciclo!Bloquear, Ciclo!Desalojar, Ciclo!Terminar
<1>2. CASE cpu'.en = "fetch" /\ cpu'.pid = cpu.pid /\ etapa' = etapa
  BY <1>1, <1>2 DEF Charla, Duenio, Normal, Agotada, Espera, Enviado, Servido, Contestado, Calla
<1>3. ASSUME NEW e \in {"listo", "bloqueado", "terminado"}, cpu' = Libre0, Ciclo!Pasar(cpu.pid, "ejecutando", e)
      PROVE  Charla'
  <2>1. etapa'[cpu.pid] = e /\ \A q \in Pids : q # cpu.pid => etapa'[q] = etapa[q]
    BY <1>3, Campos, PasarEfecto
  <2>2. cpu'.en = "libre" /\ Duenio'
    BY <1>3, <2>1, Libre0Tipo DEF Charla, Duenio
  <2> QED BY <1>1, <2>2 DEF Charla, Normal, Agotada, Espera, Enviado, Servido, Contestado, Calla
<1> QED BY <1>1, <1>2, <1>3

\* The short-term planner sends a process: CPU and memory keep taking turns.
LEMMA CharlaDespacha ==
  ASSUME Tipo, Charla, NEW p \in Pids, Despacha(p)
  PROVE  Charla'
<1>1. /\ cpu.en = "libre" /\ UNCHANGED <<hiloCpu, deCpu, respuestas, sobra>>
      /\ cpu'.en = "fetch" /\ cpu'.pid = p /\ Ciclo!Pasar(p, "listo", "ejecutando")
  BY DEF Despacha, Ciclo!Despachar, Tipo, Cpus
<1>2. etapa'[p] = "ejecutando" /\ \A q \in Pids : q # p => etapa'[q] = etapa[q]
  BY <1>1, PasarEfecto
<1>3. Duenio'
  BY <1>1, <1>2 DEF Charla, Duenio
<1> QED BY <1>1, <1>3 DEF Charla, Normal, Agotada, Espera, Enviado, Servido, Contestado, Calla

\* A stage that is not the running one changes, and nothing of the conversation: CPU and memory
\* keep taking turns.
LEMMA CharlaEtapa ==
  ASSUME Tipo, Charla, UNCHANGED <<cpu, hiloCpu, deCpu, respuestas, sobra>>,
         \A p \in Pids : etapa[p] = "ejecutando" <=> etapa'[p] = "ejecutando"
  PROVE  Charla'
<1>1. Duenio'
  BY Campos DEF Charla, Duenio
<1> QED BY <1>1 DEF Charla, Normal, Agotada, Espera, Enviado, Servido, Contestado, Calla

\* The other steps of the kernel: CPU and memory keep taking turns.
LEMMA CharlaKernel ==
  ASSUME Tipo, Charla, NEW p \in Pids,
         Crea(p) \/ Admite(p) \/ Despierta(p) \/ Libera(p) \/ Finaliza(p)
  PROVE  Charla'
<1>1. UNCHANGED <<cpu, hiloCpu, deCpu, respuestas, sobra>>
  BY DEF Crea, Admite, Despierta, Libera, Finaliza
<1>2. \/ etapa' = etapa
      \/ \E a, b \in Etapas \ {"ejecutando"} : Ciclo!Pasar(p, a, b)
  BY DEF Crea, Admite, Despierta, Libera, Finaliza, Ciclo!Crear, Ciclo!Admitir, Ciclo!Despertar,
         Ciclo!Liberar, Etapas
<1>3. ASSUME NEW a \in Etapas \ {"ejecutando"}, NEW b \in Etapas \ {"ejecutando"}, Ciclo!Pasar(p, a, b)
      PROVE  \A q \in Pids : etapa[q] = "ejecutando" <=> etapa'[q] = "ejecutando"
  BY <1>3, PasarEfecto
<1>4. \A q \in Pids : etapa[q] = "ejecutando" <=> etapa'[q] = "ejecutando"
  BY <1>2, <1>3
<1> QED BY <1>1, <1>4, CharlaEtapa

\* Every step keeps the conversation: one request at a time, of the process that runs.
LEMMA CharlaPaso == Tipo /\ Charla /\ [Next]_vars => Charla'
<1> SUFFICES ASSUME Tipo, Charla, [Next]_vars PROVE Charla'
  OBVIOUS
<1>1. CASE UNCHANGED vars
  BY <1>1, CharlaIgual DEF vars
<1>2. CASE AtenderCpu /\ UNCHANGED <<cpuVars, kernelVars>>
  BY <1>2, CharlaCpuRecibe, CharlaCpuInstruccion, CharlaCpuProceso, CharlaCpuMarco,
     CharlaCpuResize, CharlaCpuAsigna, CharlaCpuElimina, CharlaCpuResponde DEF AtenderCpu
<1>3. CASE AtenderKernel /\ UNCHANGED <<cpuVars, kernelVars>>
  <2>1. UNCHANGED <<cpu, etapa, hiloCpu, deCpu, respuestas, sobra>>
    BY <1>3 DEF AtenderKernel, KernelNuevo, KernelBusca, KernelSaca, KernelLibera, KernelFin, Cae
  <2> QED BY <2>1, CharlaIgual
<1>4. CASE PasoCpu
  BY <1>4, CharlaFetch, CharlaRecibeInstruccion, CharlaRecibeResize, CharlaRecibeMarco,
     CharlaAccede,
     CharlaRecibeAcceso, CharlaBloqueaEnIo, CharlaFinInstruccion, CharlaEjecutaResize,
     CharlaConsultaMmu DEF PasoCpu
<1>5. CASE PasoKernel
  BY <1>5, CharlaDespacha, CharlaKernel DEF PasoKernel
<1> QED BY <1>1, <1>2, <1>3, <1>4, <1>5 DEF Next

-----------------------------------------------------------------------------
(* The two threads of memory *)

\* The request that atender_cpu works on is the one the CPU waits for.
LEMMA EnServicio ==
  ASSUME Charla, hiloCpu.en \in {"proceso", "MARCO", "OP_RESIZE", "asigna", "elimina"}
  PROVE  /\ ~ sobra /\ respuestas = <<>> /\ deCpu = <<>>
         /\ hiloCpu.pedido.pid = cpu.pid /\ etapa[cpu.pid] = "ejecutando"
         /\ hiloCpu.en = "MARCO" => cpu.en = "marco"
         /\ hiloCpu.en \in {"OP_RESIZE", "asigna", "elimina"} => cpu.en = "resize"
         /\ cpu.en \in {"resize", "marco"}
BY DEF Charla, Duenio, Normal, Agotada, Espera, Enviado, Servido, Contestado, Calla

\* What a message of the kernel does to deKernel.
LEMMA AvisaEfecto ==
  ASSUME Tipo, NEW op \in {"PROCESO_NUEVO", "ELIMINAR_PROCESO"}, NEW p \in Pids, Avisa(op, p)
  PROVE  /\ Len(deKernel) \in Nat /\ Len(deKernel') = Len(deKernel) + 1
         /\ \A k \in 1 .. Len(deKernel) : deKernel'[k] = deKernel[k]
         /\ deKernel'[Len(deKernel) + 1] = [op |-> op, pid |-> p]
<1>1. [op |-> op, pid |-> p] \in Avisos
  BY DEF Avisos
<1> QED BY <1>1, AlFinal DEF Avisa, Tipo

\* What atender_kernel does to it.
LEMMA AtiendeEfecto ==
  ASSUME Tipo, deKernel # <<>>, deKernel' = Tail(deKernel)
  PROVE  /\ Len(deKernel) \in Nat /\ Len(deKernel) >= 1 /\ Len(deKernel') = Len(deKernel) - 1
         /\ \A k \in 1 .. Len(deKernel') : k + 1 \in 2 .. Len(deKernel) /\ deKernel'[k] = deKernel[k + 1]
         /\ Head(deKernel) = deKernel[1] /\ 1 \in 1 .. Len(deKernel)
<1>1. deKernel \in Seq(Avisos)
  BY DEF Tipo
<1>2. /\ Head(deKernel) = deKernel[1] /\ Len(deKernel) \in Nat /\ Len(deKernel) >= 1
      /\ Len(deKernel') = Len(deKernel) - 1
      /\ \A k \in 1 .. Len(deKernel) - 1 : deKernel'[k] = deKernel[k + 1]
  BY <1>1, Primero
<1>3. \A k \in 1 .. Len(deKernel') : k + 1 \in 2 .. Len(deKernel) /\ deKernel'[k] = deKernel[k + 1]
  BY <1>2
<1> QED BY <1>2, <1>3

\* Who is in lista_procesos after an element goes away.
LEMMA SacaEfecto ==
  ASSUME Tipo, NEW k \in 1 .. Len(lista), lista' = SinElemento(lista, k), NEW p \in Pids
  PROVE  (EnLista(p)' => EnLista(p)) /\ (p # lista[k] /\ EnLista(p) => EnLista(p)')
<1>1. /\ Len(lista') = Len(lista) - 1 /\ Len(lista) \in Nat
      /\ \A j \in 1 .. Len(lista) - 1 : lista'[j] = IF j < k THEN lista[j] ELSE lista[j + 1]
  <2>1. lista \in Seq(Pids) /\ Len(lista) \in Nat
    BY DEF Tipo
  <2> QED BY <2>1, Quita
<1>2. ASSUME EnLista(p)' PROVE EnLista(p)
  <2>1. PICK j \in 1 .. Len(lista') : lista'[j] = p
    BY <1>2 DEF EnLista
  <2>2. j \in 1 .. Len(lista) /\ j + 1 \in 1 .. Len(lista) /\ lista'[j] \in {lista[j], lista[j + 1]}
    BY <1>1, <2>1
  <2> QED BY <2>1, <2>2 DEF EnLista
<1>3. ASSUME p # lista[k], EnLista(p) PROVE EnLista(p)'
  <2>1. PICK j \in 1 .. Len(lista) : lista[j] = p
    BY <1>3 DEF EnLista
  <2>2. CASE j < k
    BY <1>1, <2>1, <2>2 DEF EnLista
  <2>3. CASE j > k
    <3>1. j - 1 \in 1 .. Len(lista') /\ ~ (j - 1 < k) /\ (j - 1) + 1 = j
      BY <1>1, <2>3
    <3>2. lista'[j - 1] = lista[(j - 1) + 1]
      BY <1>1, <3>1
    <3> QED BY <2>1, <3>1, <3>2 DEF EnLista
  <2> QED BY <1>3, <2>1, <2>2, <2>3
<1> QED BY <1>2, <1>3

\* Who is in lista_procesos after one comes.
LEMMA EntraEfecto ==
  ASSUME Tipo, NEW x \in Pids, lista' = Append(lista, x), NEW p \in Pids
  PROVE  EnLista(p)' <=> EnLista(p) \/ p = x
<1>1. /\ Len(lista') = Len(lista) + 1 /\ Len(lista) \in Nat
      /\ \A j \in 1 .. Len(lista) : lista'[j] = lista[j]
      /\ lista'[Len(lista) + 1] = x
  BY AlFinal DEF Tipo
<1>2. ASSUME EnLista(p)' PROVE EnLista(p) \/ p = x
  <2>1. PICK j \in 1 .. Len(lista') : lista'[j] = p
    BY <1>2 DEF EnLista
  <2> QED BY <1>1, <2>1 DEF EnLista
<1>3. ASSUME EnLista(p) PROVE EnLista(p)'
  <2>1. PICK j \in 1 .. Len(lista) : lista[j] = p
    BY <1>3 DEF EnLista
  <2> QED BY <1>1, <2>1 DEF EnLista
<1>4. ASSUME p = x PROVE EnLista(p)'
  <2>1. Len(lista) + 1 \in 1 .. Len(lista') /\ lista'[Len(lista) + 1] = p
    BY <1>1, <1>4
  <2> QED BY <2>1 DEF EnLista
<1> QED BY <1>2, <1>3, <1>4

\* Steps of atender_cpu, and of the CPU that change no stage: Tramite is kept.
LEMMA TramiteServicio ==
  ASSUME Tramite, UNCHANGED <<lista, deKernel, hiloKernel, etapa>>,
         \A p \in Pids : \/ tabla'[p] = tabla[p] /\ tamanio'[p] = tamanio[p]
                         \/ EnLista(p),
         hiloCpu'.en \in {"MARCO", "OP_RESIZE", "asigna", "elimina"} => EnLista(hiloCpu'.pedido.pid)
  PROVE  Tramite'
<1>1. Nuevos' /\ Fines' /\ Unicos' /\ SinEntrar' /\ Liberados'
  BY DEF Tramite, Nuevos, Fines, Unicos, SinEntrar, Liberados, EsNuevo, EsFin, EnLista, Liberando
<1>2. ConPaginas'
  BY DEF Tramite, ConPaginas, EnLista
<1>3. Hallado'
  BY DEF Hallado, EnLista
<1> QED BY <1>1, <1>2, <1>3 DEF Tramite

\* Steps that change a stage only: Tramite is kept.
LEMMA TramiteEtapa ==
  ASSUME Tipo, Tramite, UNCHANGED <<lista, deKernel, hiloKernel, tabla, tamanio, hiloCpu>>,
         \A p \in Pids : /\ etapa'[p] \in {"inexistente", "nuevo"} => etapa[p] \in {"inexistente", "nuevo"}
                         /\ etapa[p] = "liberado" => etapa'[p] = "liberado"
  PROVE  Tramite'
<1>1. Nuevos' /\ Fines' /\ Unicos'
  BY Elementos DEF Tramite, Nuevos, Fines, Unicos, EsNuevo, EsFin, EnLista, Liberando
<1>2. SinEntrar' /\ Liberados'
  BY DEF Tramite, SinEntrar, Liberados, EnLista, Liberando
<1>3. ConPaginas' /\ Hallado'
  BY DEF Tramite, ConPaginas, Hallado, EnLista
<1> QED BY <1>1, <1>2, <1>3 DEF Tramite

\* PROCESO_NUEVO goes out: Tramite is kept.
LEMMA TramiteAdmite ==
  ASSUME Tipo, Tramite, NEW p \in Pids, Admite(p)
  PROVE  Tramite'
<1>1. /\ UNCHANGED <<lista, hiloKernel, tabla, tamanio, hiloCpu>>
      /\ Ciclo!Pasar(p, "nuevo", "listo") /\ Avisa("PROCESO_NUEVO", p)
  BY DEF Admite, Ciclo!Admitir
<1>2. etapa[p] = "nuevo" /\ etapa'[p] = "listo" /\ \A q \in Pids : q # p => etapa'[q] = etapa[q]
  BY <1>1, PasarEfecto
<1>3. /\ Len(deKernel) \in Nat /\ Len(deKernel') = Len(deKernel) + 1
      /\ \A k \in 1 .. Len(deKernel) : deKernel'[k] = deKernel[k]
      /\ deKernel'[Len(deKernel) + 1] = [op |-> "PROCESO_NUEVO", pid |-> p]
  BY <1>1, AvisaEfecto
<1>4. \A k \in 1 .. Len(deKernel') : k \in 1 .. Len(deKernel) \/ k = Len(deKernel) + 1
  BY <1>3
<1>5. ~ EnLista(p) /\ ~ Liberando(p)
  BY <1>2 DEF Tramite, SinEntrar, Liberados
<1>6. \A k \in 1 .. Len(deKernel) : deKernel[k].pid \in Pids /\ (EsNuevo(k) \/ EsFin(k) => deKernel[k].pid # p)
  BY <1>2, Elementos DEF Tramite, Nuevos, Fines
<1>7. Nuevos'
  BY <1>1, <1>2, <1>3, <1>4, <1>5, <1>6 DEF Tramite, Nuevos, EsNuevo, EnLista, Liberando
<1>8. Fines'
  BY <1>1, <1>2, <1>3, <1>4, <1>6 DEF Tramite, Fines, EsFin, Liberando
<1>9. Unicos'
  BY <1>3, <1>4, <1>6 DEF Tramite, Unicos, EsNuevo
<1>10. SinEntrar' /\ Liberados'
  BY <1>1, <1>2, <1>5 DEF Tramite, SinEntrar, Liberados, EnLista, Liberando
<1>11. ConPaginas' /\ Hallado'
  BY <1>1 DEF Tramite, ConPaginas, Hallado, EnLista
<1> QED BY <1>7, <1>8, <1>9, <1>10, <1>11 DEF Tramite

\* ELIMINAR_PROCESO goes out: Tramite is kept.
LEMMA TramiteLibera ==
  ASSUME Tipo, Tramite, NEW p \in Pids, Libera(p)
  PROVE  Tramite'
<1>1. /\ UNCHANGED <<lista, hiloKernel, tabla, tamanio, hiloCpu>>
      /\ Ciclo!Pasar(p, "terminado", "liberado") /\ Avisa("ELIMINAR_PROCESO", p)
  BY DEF Libera, Ciclo!Liberar
<1>2. etapa[p] = "terminado" /\ etapa'[p] = "liberado" /\ \A q \in Pids : q # p => etapa'[q] = etapa[q]
  BY <1>1, PasarEfecto
<1>3. /\ Len(deKernel) \in Nat /\ Len(deKernel') = Len(deKernel) + 1
      /\ \A k \in 1 .. Len(deKernel) : deKernel'[k] = deKernel[k]
      /\ deKernel'[Len(deKernel) + 1] = [op |-> "ELIMINAR_PROCESO", pid |-> p]
  BY <1>1, AvisaEfecto
<1>4. \A k \in 1 .. Len(deKernel') : k \in 1 .. Len(deKernel) \/ k = Len(deKernel) + 1
  BY <1>3
<1>5. ~ Liberando(p)
  BY <1>2 DEF Tramite, Liberados
<1>6. \A k \in 1 .. Len(deKernel) : deKernel[k].pid \in Pids /\ (EsFin(k) => deKernel[k].pid # p)
  BY <1>2, Elementos DEF Tramite, Fines
<1>7. Nuevos'
  BY <1>1, <1>2, <1>3, <1>4, <1>6 DEF Tramite, Nuevos, EsNuevo, EnLista, Liberando
<1>8. Fines'
  BY <1>1, <1>2, <1>3, <1>4, <1>5, <1>6 DEF Tramite, Fines, EsFin, Liberando
<1>9. Unicos'
  BY <1>3, <1>4, <1>6 DEF Tramite, Unicos, EsFin
<1>10. SinEntrar' /\ Liberados'
  BY <1>1, <1>2 DEF Tramite, SinEntrar, Liberados, EnLista, Liberando
<1>11. ConPaginas' /\ Hallado'
  BY <1>1 DEF Tramite, ConPaginas, Hallado, EnLista
<1> QED BY <1>7, <1>8, <1>9, <1>10, <1>11 DEF Tramite

\* What is true when PROCESO_NUEVO is attended.
LEMMA NuevoHecho ==
  ASSUME Tipo, Charla, Tramite, KernelNuevo, UNCHANGED <<cpuVars, kernelVars>>
  PROVE  \E p \in Pids :
           /\ p = deKernel[1].pid /\ EsNuevo(1) /\ deKernel # <<>> /\ hiloKernel.en = "recibe"
           /\ UNCHANGED <<ocupados, hiloCpu, hiloKernel, deCpu, respuestas>>
           /\ deKernel' = Tail(deKernel) /\ lista' = Append(lista, p)
           /\ tabla' = tabla /\ tamanio' = tamanio /\ tabla[p] = <<>> /\ tamanio[p] = 0
           /\ etapa[p] \notin {"inexistente", "nuevo"} /\ ~ EnLista(p)
<1>1. /\ deKernel # <<>> /\ Head(deKernel).op = "PROCESO_NUEVO" /\ hiloKernel.en = "recibe"
      /\ deKernel' = Tail(deKernel) /\ lista' = Append(lista, Head(deKernel).pid)
      /\ tabla' = [tabla EXCEPT ![Head(deKernel).pid] = <<>>]
      /\ tamanio' = [tamanio EXCEPT ![Head(deKernel).pid] = 0]
      /\ UNCHANGED <<ocupados, hiloCpu, hiloKernel, deCpu, respuestas>>
  BY DEF KernelNuevo, EnKernel
<1>2. Head(deKernel) = deKernel[1] /\ deKernel[1].pid \in Pids /\ 1 \in 1 .. Len(deKernel)
  BY <1>1, Frentes, AtiendeEfecto
<1> DEFINE p == deKernel[1].pid
<1>3. EsNuevo(1)
  BY <1>1, <1>2 DEF EsNuevo
<1>4. etapa[p] \notin {"inexistente", "nuevo"} /\ ~ EnLista(p)
  BY <1>2, <1>3 DEF Tramite, Nuevos
<1>5. tabla[p] = <<>> /\ tamanio[p] = 0
  BY <1>1, <1>2, <1>4 DEF Tramite, ConPaginas
<1>6. tabla' = tabla /\ tamanio' = tamanio
  BY <1>1, <1>2, <1>5 DEF Tipo
<1> QED BY <1>1, <1>2, <1>3, <1>4, <1>5, <1>6

\* atender_kernel takes PROCESO_NUEVO: Tramite is kept.
LEMMA TramiteNuevo ==
  ASSUME Tipo, Charla, Tramite, KernelNuevo, UNCHANGED <<cpuVars, kernelVars>>
  PROVE  Tramite'
<1>1. PICK p \in Pids :
           /\ p = deKernel[1].pid /\ EsNuevo(1) /\ deKernel # <<>> /\ hiloKernel.en = "recibe"
           /\ UNCHANGED <<ocupados, hiloCpu, hiloKernel, deCpu, respuestas>>
           /\ deKernel' = Tail(deKernel) /\ lista' = Append(lista, p)
           /\ tabla' = tabla /\ tamanio' = tamanio /\ tabla[p] = <<>> /\ tamanio[p] = 0
           /\ etapa[p] \notin {"inexistente", "nuevo"} /\ ~ EnLista(p)
  BY NuevoHecho
<1>2. /\ Len(deKernel) \in Nat /\ Len(deKernel) >= 1 /\ Len(deKernel') = Len(deKernel) - 1
      /\ \A k \in 1 .. Len(deKernel') : k + 1 \in 2 .. Len(deKernel) /\ deKernel'[k] = deKernel[k + 1]
      /\ 1 \in 1 .. Len(deKernel)
  BY <1>1, AtiendeEfecto
<1>3. \A q \in Pids : EnLista(q)' <=> EnLista(q) \/ q = p
  BY <1>1, EntraEfecto
<1>4. etapa' = etapa /\ hiloKernel' = hiloKernel
  BY <1>1
<1>5. \A k \in 2 .. Len(deKernel) : /\ k \in 1 .. Len(deKernel) /\ deKernel[k].pid \in Pids
                                    /\ EsNuevo(k) => deKernel[k].pid # p
  <2>1. \A k \in 2 .. Len(deKernel) : k \in 1 .. Len(deKernel) /\ k # 1
    BY <1>2
  <2>2. \A k \in 1 .. Len(deKernel) : deKernel[k] = [op |-> deKernel[k].op, pid |-> deKernel[k].pid]
    BY Elementos DEF Avisos
  <2>3. \A k \in 2 .. Len(deKernel) : EsNuevo(k) /\ deKernel[k].pid = p => deKernel[k] = deKernel[1]
    BY <1>1, <1>2, <2>1, <2>2 DEF EsNuevo
  <2> QED BY <1>2, <2>1, <2>3, Elementos DEF Tramite, Unicos
<1>6. Nuevos'
  BY <1>2, <1>3, <1>4, <1>5 DEF Tramite, Nuevos, EsNuevo, Liberando
<1>7. Fines'
  BY <1>2, <1>4, <1>5 DEF Tramite, Fines, EsFin, Liberando
<1>8. Unicos'
  BY <1>2, <1>5 DEF Tramite, Unicos
<1>9. SinEntrar' /\ Liberados'
  BY <1>1, <1>3, <1>4 DEF Tramite, SinEntrar, Liberados, Liberando
<1>10. ConPaginas'
  BY <1>1, <1>3, <1>4 DEF Tramite, ConPaginas
<1>11. Hallado'
  BY <1>1, <1>3, Campos DEF Tramite, Hallado
<1> QED BY <1>6, <1>7, <1>8, <1>9, <1>10, <1>11 DEF Tramite

\* atender_kernel takes ELIMINAR_PROCESO: Tramite is kept.
LEMMA TramiteBusca ==
  ASSUME Tipo, Tramite, KernelBusca, UNCHANGED <<cpuVars, kernelVars>>
  PROVE  Tramite'
<1>1. CASE deKernel' = deKernel /\ UNCHANGED <<lista, hiloKernel, etapa, tabla, tamanio, hiloCpu>>
  BY <1>1, TramiteServicio DEF Tramite, Hallado
<1>2. CASE ~ (deKernel' = deKernel /\ UNCHANGED <<lista, hiloKernel, etapa, tabla, tamanio, hiloCpu>>)
  <2>1. /\ deKernel # <<>> /\ Head(deKernel).op = "ELIMINAR_PROCESO" /\ hiloKernel.en = "recibe"
        /\ deKernel' = Tail(deKernel) /\ hiloKernel' = [en |-> "saca", pid |-> Head(deKernel).pid]
        /\ UNCHANGED <<lista, etapa, tabla, tamanio, hiloCpu>>
    BY <1>2 DEF KernelBusca, EnKernel, Cae
  <2>2. /\ Len(deKernel) \in Nat /\ Len(deKernel) >= 1 /\ Len(deKernel') = Len(deKernel) - 1
        /\ \A k \in 1 .. Len(deKernel') : k + 1 \in 2 .. Len(deKernel) /\ deKernel'[k] = deKernel[k + 1]
        /\ 1 \in 1 .. Len(deKernel) /\ Head(deKernel) = deKernel[1] /\ deKernel[1].pid \in Pids
    BY <2>1, AtiendeEfecto, Frentes
  <2> DEFINE p == deKernel[1].pid
  <2>3. EsFin(1) /\ etapa[p] = "liberado" /\ hiloKernel' = [en |-> "saca", pid |-> p]
    BY <2>1, <2>2 DEF Tramite, Fines, EsFin
  <2>4. \A k \in 2 .. Len(deKernel) : /\ k \in 1 .. Len(deKernel) /\ deKernel[k].pid \in Pids
                                      /\ EsFin(k) => deKernel[k].pid # p
    <3>1. \A k \in 2 .. Len(deKernel) : k \in 1 .. Len(deKernel) /\ k # 1
      BY <2>2
    <3>2. \A k \in 1 .. Len(deKernel) : deKernel[k] = [op |-> deKernel[k].op, pid |-> deKernel[k].pid]
      BY Elementos DEF Avisos
    <3>3. \A k \in 2 .. Len(deKernel) : EsFin(k) /\ deKernel[k].pid = p => deKernel[k] = deKernel[1]
      BY <2>2, <2>3, <3>1, <3>2 DEF EsFin
    <3> QED BY <2>2, <3>1, <3>3, Elementos DEF Tramite, Unicos
  <2>5. EnLista(p)
    <3>1. \E k \in 1 .. Len(lista) : lista[k] = Head(deKernel).pid
      BY <1>2 DEF KernelBusca, Cae
    <3> QED BY <2>2, <3>1 DEF EnLista
  <2>6. \A k \in 2 .. Len(deKernel) : EsNuevo(k) => deKernel[k].pid # p
    BY <2>4, <2>5 DEF Tramite, Nuevos
  <2>7. Nuevos'
    BY <2>1, <2>2, <2>3, <2>4, <2>6 DEF Tramite, Nuevos, EsNuevo, Liberando, EnLista
  <2>8. Fines'
    BY <2>1, <2>2, <2>3, <2>4 DEF Tramite, Fines, EsFin, Liberando
  <2>9. Unicos'
    BY <2>2, <2>4 DEF Tramite, Unicos
  <2>10. SinEntrar' /\ Liberados'
    BY <2>1, <2>3 DEF Tramite, SinEntrar, Liberados, Liberando, EnLista
  <2>11. ConPaginas' /\ Hallado'
    BY <2>1 DEF Tramite, ConPaginas, Hallado, EnLista
  <2> QED BY <2>7, <2>8, <2>9, <2>10, <2>11 DEF Tramite
<1> QED BY <1>1, <1>2

\* finalizar_proceso takes the process out of the list: Tramite is kept.
LEMMA TramiteSaca ==
  ASSUME Tipo, Charla, Tramite, KernelSaca, UNCHANGED <<cpuVars, kernelVars>>
  PROVE  Tramite'
<1> DEFINE p == hiloKernel.pid
<1>1. /\ hiloKernel.en = "saca" /\ UNCHANGED <<deKernel, etapa, tabla, tamanio, hiloCpu>>
      /\ hiloKernel'.en = "libera" /\ hiloKernel'.pid = p /\ p \in Pids
  BY Campos DEF KernelSaca, EnKernel, Tipo, HilosKernel
<1>2. PICK k \in 1 .. Len(lista) : lista[k] = p /\ lista' = SinElemento(lista, k)
  BY DEF KernelSaca
<1>3. \A q \in Pids : (EnLista(q)' => EnLista(q)) /\ (q # p /\ EnLista(q) => EnLista(q)')
  BY <1>2, SacaEfecto
<1>4. \A q \in Pids : Liberando(q)' <=> Liberando(q)
  BY <1>1 DEF Liberando
<1>5. Nuevos' /\ Fines' /\ Unicos'
  BY <1>1, <1>3, <1>4, Elementos DEF Tramite, Nuevos, Fines, Unicos, EsNuevo, EsFin
<1>6. SinEntrar' /\ Liberados'
  BY <1>1, <1>3, <1>4 DEF Tramite, SinEntrar, Liberados
<1>7. ConPaginas'
  BY <1>1, <1>3 DEF Tramite, ConPaginas
<1>8. Hallado'
  <2>1. etapa[p] = "liberado"
    BY <1>1 DEF Tramite, Liberados, Liberando
  <2>2. hiloCpu.en \in {"MARCO", "OP_RESIZE", "asigna", "elimina"} =>
           hiloCpu.pedido.pid # p /\ hiloCpu.pedido.pid \in Pids
    BY <2>1, EnServicio, Campos
  <2> QED BY <1>1, <1>3, <2>2 DEF Tramite, Hallado
<1> QED BY <1>5, <1>6, <1>7, <1>8 DEF Tramite

\* The frames of the process go one by one: Tramite is kept.
LEMMA TramiteLiberaMarco ==
  ASSUME Tipo, Tramite, KernelLibera, UNCHANGED <<cpuVars, kernelVars>>
  PROVE  Tramite'
<1>1. /\ hiloKernel.en = "libera" /\ UNCHANGED <<deKernel, etapa, lista, hiloKernel, tamanio, hiloCpu>>
      /\ \A q \in Pids : q # hiloKernel.pid => tabla'[q] = tabla[q]
  BY Campos DEF KernelLibera, EnKernel, SueltaMarco, Tipo
<1>2. Nuevos' /\ Fines' /\ Unicos' /\ SinEntrar' /\ Liberados' /\ Hallado'
  BY <1>1 DEF Tramite, Nuevos, Fines, Unicos, SinEntrar, Liberados, EsNuevo, EsFin, EnLista,
     Liberando, Hallado
<1>3. ConPaginas'
  BY <1>1 DEF Tramite, ConPaginas, EnLista
<1> QED BY <1>2, <1>3 DEF Tramite

\* With the last one the release ends: Tramite is kept.
LEMMA TramiteFin ==
  ASSUME Tipo, Tramite, KernelFin, UNCHANGED <<cpuVars, kernelVars>>
  PROVE  Tramite'
<1>1. /\ hiloKernel.en = "libera" /\ UNCHANGED <<deKernel, etapa, lista, tabla, hiloCpu>>
      /\ tabla[hiloKernel.pid] = <<>> /\ hiloKernel'.en = "recibe"
      /\ tamanio'[hiloKernel.pid] = 0
      /\ \A q \in Pids : q # hiloKernel.pid => tamanio'[q] = tamanio[q]
  BY Campos DEF KernelFin, EnKernel, Tipo
<1>2. Nuevos' /\ Fines' /\ Unicos' /\ SinEntrar' /\ Liberados' /\ Hallado'
  BY <1>1 DEF Tramite, Nuevos, Fines, Unicos, SinEntrar, Liberados, EsNuevo, EsFin, EnLista,
     Liberando, Hallado
<1>3. ConPaginas'
  BY <1>1 DEF Tramite, ConPaginas, EnLista
<1> QED BY <1>2, <1>3 DEF Tramite

\* atender_cpu works for a process that is in the list: Tramite is kept.
LEMMA TramiteCpu ==
  ASSUME Tipo, Tramite, AtenderCpu, UNCHANGED <<cpuVars, kernelVars>>
  PROVE  Tramite'
<1>1. UNCHANGED <<lista, deKernel, hiloKernel, etapa>>
  BY DEF AtenderCpu, CpuRecibe, CpuInstruccion, CpuProceso, CpuMarco, CpuResize, CpuAsigna,
         CpuElimina, CpuResponde, Cae
<1>2. CASE CpuRecibe \/ CpuInstruccion \/ CpuMarco \/ CpuResponde
  <2>1. UNCHANGED <<tabla, tamanio>>
    BY <1>2 DEF CpuRecibe, CpuInstruccion, CpuMarco, CpuResponde, Cae
  <2>2. hiloCpu' = hiloCpu \/ hiloCpu'.en \in {"recibe", "instruccion", "proceso"}
    <3>1. CASE CpuRecibe
      BY <3>1 DEF CpuRecibe
    <3>2. CASE CpuInstruccion
      BY <3>2 DEF CpuInstruccion, EnCpu, Cae, Reposo, Tipo, HilosCpu
    <3>3. CASE CpuMarco \/ CpuResponde
      BY <3>3 DEF CpuMarco, CpuResponde, Cae, Reposo
    <3> QED BY <1>2, <3>1, <3>2, <3>3
  <2> QED BY <1>1, <2>1, <2>2, TramiteServicio DEF Tramite, Hallado
<1>3. CASE CpuProceso
  <2>1. UNCHANGED <<tabla, tamanio>>
    BY <1>3 DEF CpuProceso, Cae
  <2>2. /\ hiloCpu.en = "proceso" /\ hiloCpu'.pedido = hiloCpu.pedido
        /\ \/ hiloCpu'.en = "proceso"
           \/ hiloCpu.i < Len(lista) /\ lista[hiloCpu.i + 1] = hiloCpu.pedido.pid
    BY <1>3 DEF CpuProceso, EnCpu, Cae, Tipo, HilosCpu
  <2>3. hiloCpu.i < Len(lista) => hiloCpu.i + 1 \in 1 .. Len(lista)
    <3>1. Len(lista) \in Nat /\ hiloCpu.i \in Nat
      BY Campos DEF Tipo
    <3> QED BY <3>1
  <2>4. hiloCpu'.en = "proceso" \/ EnLista(hiloCpu'.pedido.pid)
    BY <2>2, <2>3 DEF EnLista
  <2> QED BY <1>1, <2>1, <2>4, TramiteServicio
<1>4. CASE CpuResize \/ CpuAsigna \/ CpuElimina
  <2>1. /\ hiloCpu.en \in {"OP_RESIZE", "asigna", "elimina"} /\ hiloCpu'.pedido = hiloCpu.pedido
        /\ \A p \in Pids : p # hiloCpu.pedido.pid => tabla'[p] = tabla[p] /\ tamanio'[p] = tamanio[p]
    <3>1. CASE CpuResize
      BY <3>1, Campos DEF CpuResize, EnCpu, Tipo, HilosCpu
    <3>2. CASE CpuAsigna
      BY <3>2, Campos DEF CpuAsigna, EnCpu, TomaMarco, Tipo, HilosCpu
    <3>3. CASE CpuElimina
      BY <3>3, Campos DEF CpuElimina, EnCpu, SueltaMarco, Tipo, HilosCpu
    <3> QED BY <1>4, <3>1, <3>2, <3>3
  <2>2. EnLista(hiloCpu.pedido.pid)
    BY <2>1 DEF Tramite, Hallado
  <2> QED BY <1>1, <2>1, <2>2, TramiteServicio
<1> QED BY <1>2, <1>3, <1>4 DEF AtenderCpu

\* Every step keeps Tramite: the two threads of memory never have the same process.
LEMMA TramitePaso == Tipo /\ Charla /\ Tramite /\ [Next]_vars => Tramite'
<1> SUFFICES ASSUME Tipo, Charla, Tramite, [Next]_vars PROVE Tramite'
  OBVIOUS
<1>1. ASSUME UNCHANGED <<lista, deKernel, hiloKernel, tabla, tamanio, hiloCpu, etapa>> PROVE Tramite'
  BY <1>1, TramiteServicio DEF Tramite, Hallado
<1>2. ASSUME UNCHANGED <<lista, deKernel, hiloKernel, tabla, tamanio, hiloCpu>>,
             NEW p \in Pids, NEW a \in Etapas \ {"liberado"}, NEW b \in Etapas, Ciclo!Pasar(p, a, b),
             b \in {"inexistente", "nuevo"} => a \in {"inexistente", "nuevo"}
      PROVE  Tramite'
  <2>1. etapa[p] = a /\ etapa'[p] = b /\ \A q \in Pids : q # p => etapa'[q] = etapa[q]
    BY <1>2, PasarEfecto
  <2> QED BY <1>2, <2>1, TramiteEtapa
<1>3. CASE AtenderCpu /\ UNCHANGED <<cpuVars, kernelVars>>
  BY <1>3, TramiteCpu
<1>4. CASE AtenderKernel /\ UNCHANGED <<cpuVars, kernelVars>>
  BY <1>4, TramiteNuevo, TramiteBusca, TramiteSaca, TramiteLiberaMarco, TramiteFin DEF AtenderKernel
<1>5. CASE PasoCpu
  <2>1. UNCHANGED <<lista, deKernel, hiloKernel, tabla, tamanio, hiloCpu>>
    BY <1>5 DEF PasoCpu, Fetch, RecibeInstruccion, RecibeResize, RecibeMarco, Accede, RecibeAcceso,
                BloqueaEnIo, FinInstruccion, EjecutaResize, ConsultaMmu
  <2>2. \/ etapa' = etapa
        \/ \E b \in {"listo", "bloqueado", "terminado"} : Ciclo!Pasar(cpu.pid, "ejecutando", b)
    BY <1>5 DEF PasoCpu, Fetch, RecibeInstruccion, RecibeResize, RecibeMarco, Accede, RecibeAcceso,
                BloqueaEnIo, FinInstruccion, EjecutaResize, ConsultaMmu,
                Ciclo!Terminar, Ciclo!Bloquear, Ciclo!Desalojar
  <2>3. {"ejecutando", "listo", "bloqueado", "terminado"} \subseteq Etapas
    BY DEF Etapas
  <2>4. CASE etapa' = etapa
    BY <1>1, <2>1, <2>4
  <2>5. ASSUME NEW b \in {"listo", "bloqueado", "terminado"}, Ciclo!Pasar(cpu.pid, "ejecutando", b)
        PROVE  Tramite'
    BY <1>2, <2>1, <2>3, <2>5, Campos
  <2> QED BY <2>2, <2>4, <2>5
<1>6. ASSUME NEW p \in Pids, Crea(p) \/ Despacha(p) \/ Despierta(p) \/ Finaliza(p) PROVE Tramite'
  <2>1. UNCHANGED <<lista, deKernel, hiloKernel, tabla, tamanio, hiloCpu>>
    BY <1>6 DEF Crea, Despacha, Despierta, Finaliza
  <2>2. \/ etapa' = etapa
        \/ Ciclo!Pasar(p, "inexistente", "nuevo")
        \/ \E a \in {"nuevo", "listo", "bloqueado"}, b \in {"listo", "ejecutando", "terminado"} :
             Ciclo!Pasar(p, a, b)
    BY <1>6 DEF Crea, Despacha, Despierta, Finaliza, Ciclo!Crear, Ciclo!Despachar, Ciclo!Despertar
  <2>3. {"inexistente", "nuevo", "ejecutando", "listo", "bloqueado", "terminado"} \subseteq Etapas
    BY DEF Etapas
  <2>4. CASE etapa' = etapa
    BY <1>1, <2>1, <2>4
  <2>5. CASE Ciclo!Pasar(p, "inexistente", "nuevo")
    BY <1>2, <2>1, <2>3, <2>5
  <2>6. ASSUME NEW a \in {"nuevo", "listo", "bloqueado"}, NEW b \in {"listo", "ejecutando", "terminado"},
               Ciclo!Pasar(p, a, b)
        PROVE  Tramite'
    BY <1>2, <2>1, <2>3, <2>6
  <2> QED BY <2>2, <2>4, <2>5, <2>6
<1>7. CASE UNCHANGED vars
  BY <1>1, <1>7 DEF vars
<1> QED BY <1>3, <1>4, <1>5, <1>6, <1>7, TramiteAdmite, TramiteLibera DEF Next, PasoKernel

-----------------------------------------------------------------------------
(* The frames and the size of the tables *)

\* A quotient and its next one, around the number that was divided.
LEMMA Divide ==
  ASSUME NEW d \in Nat \ {0}, NEW x \in Nat
  PROVE  d * (x \div d) <= x /\ x < d * ((x \div d) + 1)
OBVIOUS

\* Multiplying keeps the order.
LEMMA Multiplica ==
  ASSUME NEW d \in Nat, d > 0, NEW a \in Int, NEW b \in Int, a + 1 <= b
  PROVE  d * (a + 1) <= d * b
OBVIOUS

\* More bytes are not fewer pages, and no bytes are no pages.
LEMMA MasPaginas ==
  Paginas(0) = 0 /\ \A x, y \in Nat : x <= y => Paginas(x) <= Paginas(y)
<1>1. Paginas(0) = 0
  BY MemoriaAssumption DEF Paginas
<1>2. ASSUME NEW d \in Nat \ {0}, NEW x \in Nat, NEW y \in Nat, x <= y PROVE x \div d <= y \div d
  <2>1. x \div d \in Int /\ y \div d \in Int /\ d > 0
    OBVIOUS
  <2>2. CASE (y \div d) + 1 <= x \div d
    <3>1. d * ((y \div d) + 1) <= d * (x \div d)
      BY <2>1, <2>2, Multiplica
    <3>2. y < d * ((y \div d) + 1) /\ d * (x \div d) <= x
      BY Divide
    <3>3. d * ((y \div d) + 1) \in Int /\ d * (x \div d) \in Int
      BY <2>1
    <3> QED BY <1>2, <3>1, <3>2, <3>3
  <2> QED BY <2>1, <2>2
<1>3. ASSUME NEW x \in Nat, NEW y \in Nat, x <= y PROVE Paginas(x) <= Paginas(y)
  <2>1. x + TamPagina - 1 \in Nat /\ y + TamPagina - 1 \in Nat /\ x + TamPagina - 1 <= y + TamPagina - 1
    BY <1>3, MemoriaAssumption
  <2> QED BY <1>2, <2>1, MemoriaAssumption DEF Paginas
<1> QED BY <1>1, <1>3

\* MarcosExclusivos, one direction at a time.
Ocupa == \A p \in Pids : \A k \in 1 .. Len(tabla[p]) : tabla[p][k] \in ocupados
Cubre == \A m \in ocupados : \E p \in Pids : \E k \in 1 .. Len(tabla[p]) : tabla[p][k] = m
Inyecta == \A p, q \in Pids : \A j \in 1 .. Len(tabla[p]), k \in 1 .. Len(tabla[q]) :
             tabla[p][j] = tabla[q][k] => p = q /\ j = k

\* MarcosExclusivos is its three directions.
LEMMA Exclusivos == MarcosExclusivos <=> Ocupa /\ Cubre /\ Inyecta
<1>1. ocupados = UNION {DeLaTabla(p) : p \in Pids} <=> Ocupa /\ Cubre
  <2>1. \A m : m \in UNION {DeLaTabla(p) : p \in Pids} <=>
                \E p \in Pids : \E k \in 1 .. Len(tabla[p]) : tabla[p][k] = m
    BY DEF DeLaTabla
  <2>2. ASSUME ocupados = UNION {DeLaTabla(p) : p \in Pids} PROVE Ocupa /\ Cubre
    BY <2>1, <2>2 DEF Ocupa, Cubre
  <2>3. ASSUME Ocupa, Cubre PROVE ocupados = UNION {DeLaTabla(p) : p \in Pids}
    BY <2>1, <2>3 DEF Ocupa, Cubre
  <2> QED BY <2>2, <2>3
<1> QED BY <1>1 DEF MarcosExclusivos, Inyecta

\* MarcosExclusivos is its three directions in the next state too.
LEMMA ExclusivosP == MarcosExclusivos' <=> Ocupa' /\ Cubre' /\ Inyecta'
BY Exclusivos, PTL

\* A free frame goes to the end of a table.
LEMMA MarcosToma ==
  ASSUME Tipo, MarcosExclusivos, NEW p \in Pids, NEW m \in Marcos, Libre(m), TomaMarco(p, m)
  PROVE  MarcosExclusivos'
<1>1. tabla[p] \in Seq(Marcos) /\ tabla'[p] = Append(tabla[p], m) /\ m \notin ocupados
      /\ ocupados' = ocupados \cup {m}
      /\ \A q \in Pids : q # p => tabla'[q] = tabla[q]
  BY DEF TomaMarco, Libre, Tipo
<1>2. /\ Len(tabla'[p]) = Len(tabla[p]) + 1 /\ Len(tabla[p]) \in Nat
      /\ \A k \in 1 .. Len(tabla[p]) : tabla'[p][k] = tabla[p][k]
      /\ tabla'[p][Len(tabla[p]) + 1] = m
  BY <1>1, AlFinal
<1>3. \A k \in 1 .. Len(tabla'[p]) : k \in 1 .. Len(tabla[p]) \/ k = Len(tabla[p]) + 1
  BY <1>2
<1>4. Ocupa /\ Cubre /\ Inyecta
  BY Exclusivos
<1>5. Ocupa'
  BY <1>1, <1>2, <1>3, <1>4 DEF Ocupa
<1>6. Cubre'
  <2>1. Len(tabla[p]) + 1 \in 1 .. Len(tabla'[p]) /\ \A k \in 1 .. Len(tabla[p]) : k \in 1 .. Len(tabla'[p])
    BY <1>2
  <2>2. ASSUME NEW x \in ocupados PROVE \E q \in Pids : \E k \in 1 .. Len(tabla'[q]) : tabla'[q][k] = x
    <3>1. PICK q \in Pids : \E k \in 1 .. Len(tabla[q]) : tabla[q][k] = x
      BY <1>4 DEF Cubre
    <3>2. PICK k \in 1 .. Len(tabla[q]) : tabla[q][k] = x
      BY <3>1
    <3>3. k \in 1 .. Len(tabla'[q]) /\ tabla'[q][k] = x
      BY <1>1, <1>2, <2>1, <3>2
    <3> QED BY <3>3
  <2> QED BY <1>1, <1>2, <2>1, <2>2 DEF Cubre
<1>7. Inyecta'
  <2>1. ASSUME NEW q \in Pids, NEW r \in Pids, NEW j \in 1 .. Len(tabla'[q]), NEW k \in 1 .. Len(tabla'[r]),
               tabla'[q][j] = tabla'[r][k]
        PROVE  q = r /\ j = k
    <3>1. (j \in 1 .. Len(tabla[q]) /\ tabla'[q][j] = tabla[q][j])
             \/ (q = p /\ j = Len(tabla[p]) + 1 /\ tabla'[q][j] = m)
      BY <1>1, <1>2, <1>3
    <3>2. (k \in 1 .. Len(tabla[r]) /\ tabla'[r][k] = tabla[r][k])
             \/ (r = p /\ k = Len(tabla[p]) + 1 /\ tabla'[r][k] = m)
      BY <1>1, <1>2, <1>3
    <3> QED BY <1>1, <1>4, <2>1, <3>1, <3>2 DEF Ocupa, Inyecta
  <2> QED BY <2>1 DEF Inyecta
<1> QED BY <1>5, <1>6, <1>7, ExclusivosP

\* The last page of a table goes.
LEMMA MarcosSuelta ==
  ASSUME Tipo, MarcosExclusivos, NEW p \in Pids, tabla[p] # <<>>, SueltaMarco(p)
  PROVE  MarcosExclusivos'
<1> DEFINE n == Len(tabla[p])
<1>1. /\ tabla[p] \in Seq(Marcos) /\ tabla'[p] = SinUltima(tabla[p])
      /\ ocupados' = ocupados \ {Ultima(tabla[p])}
      /\ \A q \in Pids : q # p => tabla'[q] = tabla[q]
  BY DEF SueltaMarco, Tipo
<1>2. /\ Len(tabla'[p]) = n - 1 /\ n \in Nat /\ n >= 1 /\ ocupados' = ocupados \ {tabla[p][n]}
      /\ \A k \in 1 .. n - 1 : tabla'[p][k] = tabla[p][k]
  BY <1>1, Ultimo
<1>3. \A k \in 1 .. Len(tabla'[p]) : k \in 1 .. n /\ k # n /\ tabla'[p][k] = tabla[p][k]
  BY <1>2
<1>4. Ocupa /\ Cubre /\ Inyecta
  BY Exclusivos
<1>5. \A q \in Pids : \A k \in 1 .. Len(tabla'[q]) :
         k \in 1 .. Len(tabla[q]) /\ tabla'[q][k] = tabla[q][k] /\ (q = p => k # n)
  BY <1>1, <1>3
<1>6. n \in 1 .. n
  BY <1>2
<1>7. Ocupa'
  <2>1. ASSUME NEW q \in Pids, NEW k \in 1 .. Len(tabla'[q]) PROVE tabla'[q][k] \in ocupados'
    <3>1. k \in 1 .. Len(tabla[q]) /\ tabla'[q][k] = tabla[q][k] /\ (q = p => k # n)
      BY <1>5
    <3>2. tabla[q][k] \in ocupados
      BY <1>4, <3>1 DEF Ocupa
    <3>3. tabla[q][k] # tabla[p][n]
      BY <1>4, <1>6, <3>1 DEF Inyecta
    <3> QED BY <1>2, <3>1, <3>2, <3>3
  <2> QED BY <2>1 DEF Ocupa
<1>8. Cubre'
  <2>1. \A k \in 1 .. n : k # n => k \in 1 .. Len(tabla'[p])
    BY <1>2
  <2>2. ASSUME NEW m \in ocupados' PROVE \E q \in Pids : \E k \in 1 .. Len(tabla'[q]) : tabla'[q][k] = m
    <3>1. PICK q \in Pids : \E k \in 1 .. Len(tabla[q]) : tabla[q][k] = m
      BY <1>2, <1>4, <2>2 DEF Cubre
    <3>2. PICK k \in 1 .. Len(tabla[q]) : tabla[q][k] = m
      BY <3>1
    <3>3. q = p => k # n
      BY <1>2, <2>2, <3>2
    <3>4. k \in 1 .. Len(tabla'[q]) /\ tabla'[q][k] = tabla[q][k]
      BY <1>1, <1>3, <2>1, <3>3
    <3> QED BY <3>2, <3>4
  <2> QED BY <2>2 DEF Cubre
<1>9. Inyecta'
  BY <1>4, <1>5 DEF Inyecta
<1> QED BY <1>7, <1>8, <1>9, ExclusivosP

\* With no RESIZE giving or taking pages, none is missing.
LEMMA FaltanNo == hiloCpu.en \notin {"asigna", "elimina"} => \A p \in Pids : Faltan(p) = 0
BY DEF Faltan

\* With no RESIZE giving or taking pages in the next state, none is missing there.
LEMMA FaltanNoP == hiloCpu'.en \notin {"asigna", "elimina"} => \A p \in Pids : Faltan(p)' = 0
BY DEF Faltan

\* A page more and one less to come.
LEMMA Cuentas ==
  /\ \A a, r \in Int : (a - 1) + (- (r - 1)) = a - r /\ (a + 1) + (r - 1) = a + r
  /\ \A r \in Nat : r < 1 => - r = r
OBVIOUS

\* Steps in which no table, size or live process is new and the RESIZE goes no further: Ajuste
\* is kept.
LEMMA AjusteIgual ==
  ASSUME Ajuste, UNCHANGED <<tabla, tamanio>>, \A p \in Pids : Faltan(p)' = Faltan(p),
         \A p \in Pids : Vivo(p)' => Vivo(p) /\ (SinFrames(p) => SinFrames(p)')
  PROVE  Ajuste'
<1>1. ASSUME NEW p \in Pids, Vivo(p)', ~ SinFrames(p)'
      PROVE  Len(tabla'[p]) + Faltan(p)' = Paginas(tamanio'[p])
  BY <1>1 DEF Ajuste
<1>2. \A p \in Pids : Paginas(tamanio'[p]) = Paginas(tamanio[p])'
  BY DEF Paginas
<1> QED BY <1>1, <1>2 DEF Ajuste

\* With no frames left, the memory only has an OK to send.
LEMMA SinFramesEn ==
  ASSUME NEW p \in Pids, SinFrames(p)
  PROVE  ~ sobra /\ cpu.en = "resize" /\ hiloCpu.en \in {"responde", "recibe"} /\ deCpu = <<>>
         /\ Len(respuestas) >= 1 /\ respuestas[1].op = "OUT_OF_MEMORY_AVISO"
BY DEF SinFrames, Agotada, EnResize

\* atender_cpu answers or searches: Ajuste is kept.
LEMMA AjusteBusca ==
  ASSUME Tipo, Charla, Charla', Ajuste, CpuRecibe \/ CpuInstruccion \/ CpuProceso \/ CpuMarco \/ CpuResponde,
         UNCHANGED <<cpuVars, kernelVars>>
  PROVE  Ajuste'
<1>1. UNCHANGED <<tabla, tamanio, etapa, cpu, sobra>>
  BY DEF CpuRecibe, CpuInstruccion, CpuProceso, CpuMarco, CpuResponde, Cae
<1>2. \A p \in Pids : (Vivo(p)' <=> Vivo(p)) /\ (EnResize(p)' <=> EnResize(p))
  BY <1>1 DEF Vivo, EnResize
<1>3. hiloCpu'.en \notin {"asigna", "elimina"}
  <2>1. CASE CpuRecibe
    BY <2>1 DEF CpuRecibe, EnCpu
  <2>2. CASE CpuInstruccion
    BY <2>2 DEF CpuInstruccion, EnCpu, Cae, Reposo, Tipo, HilosCpu
  <2>3. CASE CpuMarco \/ CpuResponde
    BY <2>3 DEF CpuMarco, CpuResponde, EnCpu, Cae, Reposo
  <2>4. CASE CpuProceso
    <3>1. hiloCpu.pedido \in Pedidos /\ hiloCpu.en = "proceso"
      BY <2>4 DEF CpuProceso, EnCpu, Tipo
    <3>2. hiloCpu.pedido.op \notin {"asigna", "elimina"}
      BY <3>1 DEF Pedidos
    <3> QED BY <2>4, <3>1, <3>2 DEF CpuProceso, Cae, Tipo, HilosCpu
  <2> QED BY <2>1, <2>2, <2>3, <2>4
<1>4. \A p \in Pids : Faltan(p) = 0 /\ Faltan(p)' = 0
  <2>1. CASE hiloCpu.en \notin {"asigna", "elimina"}
    BY <1>3, <2>1, FaltanNo, FaltanNoP
  <2>2. CASE hiloCpu.en \in {"asigna", "elimina"}
    <3>1. hiloCpu.resta = 0
      BY <2>2 DEF CpuRecibe, CpuInstruccion, CpuProceso, CpuMarco, CpuResponde, EnCpu, SinResto
    <3>2. hiloCpu.resta \in Nat /\ hiloCpu.resta < 1
      BY <3>1
    <3>3. - hiloCpu.resta = hiloCpu.resta
      BY <3>2, Cuentas
    <3>4. \A p \in Pids : Faltan(p) = hiloCpu.resta \/ Faltan(p) = 0
      BY <3>3 DEF Faltan
    <3>5. \A p \in Pids : Faltan(p) = 0
      BY <3>1, <3>4
    <3> QED BY <1>3, <3>5, FaltanNoP
  <2> QED BY <2>1, <2>2
<1>5. ASSUME NEW p \in Pids, SinFrames(p) PROVE SinFrames(p)'
  <2>1. ~ sobra /\ cpu.en = "resize" /\ hiloCpu.en \in {"responde", "recibe"} /\ deCpu = <<>>
        /\ Len(respuestas) >= 1 /\ respuestas[1].op = "OUT_OF_MEMORY_AVISO"
    BY <1>5, SinFramesEn
  <2>2. CpuResponde
    BY <2>1 DEF CpuRecibe, CpuInstruccion, CpuProceso, CpuMarco, EnCpu
  <2>3. Responde("OK", 0) /\ deCpu' = deCpu /\ hiloCpu'.en = "recibe"
    BY <2>2 DEF CpuResponde, Reposo
  <2>4. Len(respuestas') >= 1 /\ respuestas'[1] = respuestas[1]
    BY <2>1, <2>3, Cero, RespondeEfecto, Recibido
  <2>5. Agotada'
    BY <1>1, <2>1, <2>3, <2>4 DEF Agotada
  <2> QED BY <1>2, <1>5, <2>5 DEF SinFrames
<1> QED BY <1>1, <1>2, <1>4, <1>5, AjusteIgual

\* The process of a RESIZE under way is live and its frames are counted.
LEMMA AjusteEn ==
  ASSUME Tipo, Charla, Ajuste, hiloCpu.en \in {"OP_RESIZE", "asigna", "elimina"}
  PROVE  LET p == hiloCpu.pedido.pid
         IN  /\ p \in Pids /\ Vivo(p) /\ \A q \in Pids : ~ SinFrames(q)
             /\ Len(tabla[p]) + Faltan(p) = Paginas(tamanio[p])
             /\ \A q \in Pids : q # p => Faltan(q) = 0
<1>1. hiloCpu.pedido.pid \in Pids /\ Vivo(hiloCpu.pedido.pid)
  BY EnServicio, Campos DEF Vivo
<1>2. \A q \in Pids : ~ SinFrames(q)
  BY SinFramesEn
<1>3. \A q \in Pids : q # hiloCpu.pedido.pid => Faltan(q) = 0
  BY DEF Faltan
<1> QED BY <1>1, <1>2, <1>3 DEF Ajuste

\* A step of the RESIZE of p: Ajuste is kept.
LEMMA AjusteResize ==
  ASSUME Tipo, Charla, Ajuste, hiloCpu.en \in {"OP_RESIZE", "asigna", "elimina"},
         etapa' = etapa, hiloCpu'.pedido = hiloCpu.pedido,
         \A q \in Pids : q # hiloCpu.pedido.pid => tabla'[q] = tabla[q] /\ tamanio'[q] = tamanio[q],
         SinFrames(hiloCpu.pedido.pid)' \/
           Len(tabla'[hiloCpu.pedido.pid]) + Faltan(hiloCpu.pedido.pid)' = Paginas(tamanio'[hiloCpu.pedido.pid])
  PROVE  Ajuste'
<1> DEFINE p == hiloCpu.pedido.pid
<1>1. /\ p \in Pids /\ Vivo(p) /\ \A q \in Pids : ~ SinFrames(q)
      /\ \A q \in Pids : q # p => Faltan(q) = 0
  BY AjusteEn
<1>2. \A q \in Pids : q # p => Faltan(q)' = 0
  BY DEF Faltan
<1>3. ASSUME NEW q \in Pids, Vivo(q)', ~ SinFrames(q)', q # p
      PROVE  Len(tabla'[q]) + Faltan(q)' = Paginas(tamanio'[q])
  <2>1. Vivo(q)
    BY <1>3 DEF Vivo
  <2> QED BY <1>1, <1>2, <1>3, <2>1 DEF Ajuste
<1>4. \A q \in Pids : Paginas(tamanio'[q]) = Paginas(tamanio[q])'
  BY DEF Paginas
<1>5. ASSUME NEW q \in Pids, Vivo(q)', ~ SinFrames(q)'
      PROVE  Len(tabla'[q]) + Faltan(q)' = Paginas(tamanio'[q])
  BY <1>3, <1>5
<1> QED BY <1>4, <1>5 DEF Ajuste

\* manejar_resize decides: Ajuste is kept.
LEMMA AjusteDecide ==
  ASSUME Tipo, Charla, Ajuste, CpuResize, UNCHANGED <<cpuVars, kernelVars>>
  PROVE  Ajuste'
<1> DEFINE p == hiloCpu.pedido.pid
           nuevo == hiloCpu.pedido.dato
           paginas == Paginas(nuevo) - Len(tabla[p])
<1>1. /\ hiloCpu.en = "OP_RESIZE" /\ etapa' = etapa /\ tabla' = tabla
      /\ hiloCpu'.pedido = hiloCpu.pedido /\ hiloCpu'.resta = (IF paginas > 0 THEN paginas ELSE - paginas)
      /\ hiloCpu'.en = (IF nuevo > tamanio[p] /\ paginas > 0 THEN "asigna"
                        ELSE IF nuevo < tamanio[p] /\ paginas < 0 THEN "elimina" ELSE "responde")
      /\ tamanio' = [tamanio EXCEPT ![p] = nuevo]
  BY DEF CpuResize, EnCpu, Tipo, HilosCpu
<1>2. /\ p \in Pids /\ Len(tabla[p]) + Faltan(p) = Paginas(tamanio[p])
      /\ Len(tabla[p]) \in Nat /\ tamanio[p] \in Nat /\ nuevo \in Nat
  BY <1>1, AjusteEn, Campos, Tablas
<1>3. Faltan(p) = 0
  BY <1>1, <1>2, FaltanNo
<1>4. Paginas(nuevo) \in Nat /\ Paginas(tamanio[p]) \in Nat /\ Len(tabla[p]) = Paginas(tamanio[p])
  <2>1. Paginas(nuevo) \in Nat /\ Paginas(tamanio[p]) \in Nat
    BY <1>2, PaginasNat
  <2>2. Len(tabla[p]) + 0 = Paginas(tamanio[p])
    BY <1>2, <1>3
  <2> QED BY <1>2, <2>1, <2>2
<1>5. tamanio'[p] = nuevo /\ \A q \in Pids : q # p => tamanio'[q] = tamanio[q]
  BY <1>1, <1>2 DEF Tipo
<1>6. /\ nuevo <= tamanio[p] => Paginas(nuevo) <= Paginas(tamanio[p])
      /\ tamanio[p] <= nuevo => Paginas(tamanio[p]) <= Paginas(nuevo)
  BY <1>2, MasPaginas
<1> HIDE DEF nuevo
<1>7. Faltan(p)' = IF hiloCpu'.en = "asigna" THEN hiloCpu'.resta
                   ELSE IF hiloCpu'.en = "elimina" THEN - hiloCpu'.resta ELSE 0
  BY <1>1 DEF Faltan
<1>8. Faltan(p)' = Paginas(nuevo) - Len(tabla[p])
  <2>1. CASE nuevo > tamanio[p] /\ paginas > 0
    BY <1>1, <1>7, <2>1
  <2>2. CASE nuevo < tamanio[p] /\ paginas < 0
    <3>1. hiloCpu'.en = "elimina" /\ hiloCpu'.resta = - paginas
      BY <1>1, <1>2, <1>4, <2>2
    <3> QED BY <1>2, <1>4, <1>7, <3>1
  <2>3. CASE ~ (nuevo > tamanio[p] /\ paginas > 0) /\ ~ (nuevo < tamanio[p] /\ paginas < 0)
    <3>1. hiloCpu'.en = "responde"
      BY <1>1, <2>3
    <3>2. Paginas(nuevo) = Len(tabla[p])
      BY <1>2, <1>4, <1>6, <2>3
    <3> QED BY <1>2, <1>4, <1>7, <3>1, <3>2
  <2> QED BY <2>1, <2>2, <2>3
<1>9. Len(tabla'[p]) + Faltan(p)' = Paginas(tamanio'[p])
  BY <1>1, <1>2, <1>4, <1>5, <1>8
<1> QED BY <1>1, <1>5, <1>9, AjusteResize

\* asingar_paginas goes on: Ajuste is kept.
LEMMA AjusteAsigna ==
  ASSUME Tipo, Charla, Ajuste, CpuAsigna, UNCHANGED <<cpuVars, kernelVars>>
  PROVE  Ajuste'
<1> DEFINE p == hiloCpu.pedido.pid
<1>1. /\ hiloCpu.en = "asigna" /\ UNCHANGED <<etapa, tamanio, cpu, sobra, deCpu>>
      /\ hiloCpu'.pedido = hiloCpu.pedido
  BY DEF CpuAsigna, EnCpu, Tipo, HilosCpu
<1>2. /\ p \in Pids /\ Len(tabla[p]) + Faltan(p) = Paginas(tamanio[p])
      /\ Len(tabla[p]) \in Nat /\ tabla[p] \in Seq(Marcos)
  BY <1>1, AjusteEn, Campos, Tablas
<1>3. Faltan(p) = hiloCpu.resta /\ hiloCpu.resta \in Nat
  BY <1>1, Campos DEF Faltan
<1>4. Faltan(p)' = IF hiloCpu'.en = "asigna" THEN hiloCpu'.resta
                   ELSE IF hiloCpu'.en = "elimina" THEN - hiloCpu'.resta ELSE 0
  BY <1>1 DEF Faltan
<1>5. CASE hiloCpu' = [hiloCpu EXCEPT !.en = "responde"] /\ Responde("OUT_OF_MEMORY_AVISO", 0) /\ tabla' = tabla
  <2>1. hiloCpu'.en = "responde"
    BY <1>5 DEF Tipo, HilosCpu
  <2>2. respuestas = <<>> /\ ~ sobra /\ deCpu = <<>> /\ cpu.en = "resize" /\ p = cpu.pid
    BY <1>1, EnServicio
  <2>3. Len(respuestas') >= 1 /\ respuestas'[1].op = "OUT_OF_MEMORY_AVISO"
    BY <1>5, <2>2, Cero, RespondeEfecto
  <2>4. SinFrames(p)'
    BY <1>1, <2>1, <2>2, <2>3 DEF SinFrames, Agotada, EnResize
  <2> QED BY <1>1, <1>5, <2>4, AjusteResize
<1>6. CASE hiloCpu' = [hiloCpu EXCEPT !.i = @ + 1] /\ tabla' = tabla
  <2>1. hiloCpu'.en = "asigna" /\ hiloCpu'.resta = hiloCpu.resta
    BY <1>1, <1>6 DEF Tipo, HilosCpu
  <2>2. Len(tabla'[p]) + Faltan(p)' = Paginas(tamanio'[p])
    BY <1>1, <1>2, <1>3, <1>4, <1>6, <2>1
  <2> QED BY <1>1, <1>6, <2>2, AjusteResize
<1>7. CASE hiloCpu' = [hiloCpu EXCEPT !.i = 0, !.resta = @ - 1] /\ TomaMarco(p, hiloCpu.i) /\ hiloCpu.i < CantMarcos
  <2>1. hiloCpu'.en = "asigna" /\ hiloCpu'.resta = hiloCpu.resta - 1
    BY <1>1, <1>7 DEF Tipo, HilosCpu
  <2>2. tabla'[p] = Append(tabla[p], hiloCpu.i) /\ hiloCpu.i \in Marcos
        /\ \A q \in Pids : q # p => tabla'[q] = tabla[q]
    BY <1>2, <1>7, Campos, Marco DEF TomaMarco, Tipo
  <2>3. Len(tabla'[p]) = Len(tabla[p]) + 1
    BY <1>2, <2>2, AlFinal
  <2>4. Faltan(p)' = hiloCpu.resta - 1
    BY <1>4, <2>1
  <2>5. Len(tabla'[p]) + Faltan(p)' = Len(tabla[p]) + hiloCpu.resta
    <3>1. Len(tabla[p]) \in Int /\ hiloCpu.resta \in Int
      BY <1>2, <1>3
    <3> QED BY <2>3, <2>4, <3>1, Cuentas
  <2>6. Len(tabla'[p]) + Faltan(p)' = Paginas(tamanio'[p])
    BY <1>1, <1>2, <1>3, <2>5
  <2> QED BY <1>1, <2>2, <2>6, AjusteResize
<1> QED BY <1>5, <1>6, <1>7 DEF CpuAsigna

\* A page goes: there is one.
LEMMA HayPagina ==
  ASSUME Tipo, Charla, Ajuste, CpuElimina
  PROVE  LET p == hiloCpu.pedido.pid
         IN  /\ p \in Pids /\ tabla[p] # <<>> /\ Len(tabla[p]) \in Nat /\ tabla[p] \in Seq(Marcos)
             /\ Len(tabla[p]) - hiloCpu.resta = Paginas(tamanio[p]) /\ hiloCpu.resta \in Nat
<1> DEFINE p == hiloCpu.pedido.pid
<1>1. hiloCpu.en = "elimina" /\ hiloCpu.resta # 0
  BY DEF CpuElimina, EnCpu, SinResto
<1>2. p \in Pids /\ Len(tabla[p]) + Faltan(p) = Paginas(tamanio[p])
  BY <1>1, AjusteEn
<1>3. /\ Len(tabla[p]) \in Nat /\ tabla[p] \in Seq(Marcos) /\ tamanio[p] \in Nat /\ hiloCpu.resta \in Nat
  BY <1>2, Campos, Tablas
<1>4. Faltan(p) = - hiloCpu.resta
  BY <1>1 DEF Faltan
<1>5. Len(tabla[p]) - hiloCpu.resta = Paginas(tamanio[p]) /\ Paginas(tamanio[p]) \in Nat
  BY <1>2, <1>3, <1>4, PaginasNat
<1>6. Len(tabla[p]) >= 1
  BY <1>1, <1>3, <1>5
<1>7. tabla[p] # <<>>
  BY <1>6
<1> QED BY <1>2, <1>3, <1>5, <1>7

\* eliminar_paginas goes on: Ajuste is kept.
LEMMA AjusteElimina ==
  ASSUME Tipo, Charla, Ajuste, CpuElimina, UNCHANGED <<cpuVars, kernelVars>>
  PROVE  Ajuste'
<1> DEFINE p == hiloCpu.pedido.pid
<1>1. /\ hiloCpu.en = "elimina" /\ UNCHANGED <<etapa, tamanio>>
      /\ hiloCpu'.pedido = hiloCpu.pedido /\ hiloCpu'.en = "elimina" /\ hiloCpu'.resta = hiloCpu.resta - 1
  BY DEF CpuElimina, EnCpu, Tipo, HilosCpu
<1>2. /\ p \in Pids /\ tabla[p] # <<>> /\ Len(tabla[p]) \in Nat /\ tabla[p] \in Seq(Marcos)
      /\ Len(tabla[p]) - hiloCpu.resta = Paginas(tamanio[p]) /\ hiloCpu.resta \in Nat
  BY HayPagina
<1>3. tabla'[p] = SinUltima(tabla[p]) /\ \A q \in Pids : q # p => tabla'[q] = tabla[q]
  BY <1>2 DEF CpuElimina, SueltaMarco, Tipo
<1>4. Len(tabla'[p]) = Len(tabla[p]) - 1
  BY <1>2, <1>3, Ultimo
<1>5. Faltan(p)' = - (hiloCpu.resta - 1)
  BY <1>1 DEF Faltan
<1>6. Len(tabla'[p]) + Faltan(p)' = Len(tabla[p]) - hiloCpu.resta
  <2>1. Len(tabla[p]) \in Int /\ hiloCpu.resta \in Int
    BY <1>2
  <2> QED BY <1>4, <1>5, <2>1, Cuentas
<1>7. Len(tabla'[p]) + Faltan(p)' = Paginas(tamanio'[p])
  BY <1>1, <1>2, <1>6
<1> QED BY <1>1, <1>3, <1>7, AjusteResize

\* atender_kernel touches no live process: Ajuste is kept.
LEMMA AjusteKernel ==
  ASSUME Tipo, Charla, Tramite, Ajuste, AtenderKernel, UNCHANGED <<cpuVars, kernelVars>>
  PROVE  Ajuste'
<1>1. UNCHANGED <<hiloCpu, deCpu, respuestas, cpu, sobra, etapa>>
  BY DEF AtenderKernel, KernelNuevo, KernelBusca, KernelSaca, KernelLibera, KernelFin, Cae
<1>2. \A p \in Pids : /\ Faltan(p)' = Faltan(p) /\ Vivo(p)' = Vivo(p)
                      /\ SinFrames(p)' <=> SinFrames(p)
  BY <1>1 DEF Faltan, Vivo, SinFrames, Agotada, EnResize
<1>3. CASE KernelNuevo
  <2>1. UNCHANGED <<tabla, tamanio>>
    BY <1>3, NuevoHecho
  <2> QED BY <1>2, <2>1, AjusteIgual
<1>4. CASE KernelBusca \/ KernelSaca
  <2>1. UNCHANGED <<tabla, tamanio>>
    BY <1>4 DEF KernelBusca, KernelSaca, Cae
  <2> QED BY <1>2, <2>1, AjusteIgual
<1>5. CASE KernelLibera \/ KernelFin
  <2>1. hiloKernel.en = "libera" /\ hiloKernel.pid \in Pids
        /\ \A q \in Pids : q # hiloKernel.pid => tabla'[q] = tabla[q] /\ tamanio'[q] = tamanio[q]
    BY <1>5, Campos DEF KernelLibera, KernelFin, EnKernel, SueltaMarco, Tipo
  <2>2. ~ Vivo(hiloKernel.pid)
    BY <2>1 DEF Tramite, Liberados, Liberando, Vivo
  <2>3. ASSUME NEW p \in Pids, Vivo(p)', ~ SinFrames(p)'
        PROVE  Len(tabla'[p]) + Faltan(p)' = Paginas(tamanio'[p])
    <3>1. Vivo(p) /\ ~ SinFrames(p) /\ p # hiloKernel.pid
      BY <1>2, <2>2, <2>3
    <3> QED BY <1>2, <2>1, <3>1 DEF Ajuste
  <2>4. \A q \in Pids : Paginas(tamanio'[q]) = Paginas(tamanio[q])'
    BY DEF Paginas
  <2> QED BY <2>3, <2>4 DEF Ajuste
<1> QED BY <1>3, <1>4, <1>5 DEF AtenderKernel

\* RESIZE ends: Ajuste is kept.
LEMMA AjusteRecibe ==
  ASSUME Tipo, Charla, Ajuste, RecibeResize
  PROVE  Ajuste'
<1>1. /\ UNCHANGED <<tabla, tamanio, hiloCpu>> /\ cpu.en = "resize" /\ respuestas # <<>>
      /\ \/ Head(respuestas).op = "OK" /\ etapa' = etapa
         \/ Ciclo!Pasar(cpu.pid, "ejecutando", "terminado")
  BY DEF RecibeResize, EnPaso, Ciclo!Terminar
<1>2. \A p \in Pids : Faltan(p)' = Faltan(p)
  BY <1>1 DEF Faltan
<1>3. CASE Head(respuestas).op = "OK" /\ etapa' = etapa
  <2>1. respuestas[1].op = "OK"
    BY <1>1, <1>3, Recibido
  <2>2. \A p \in Pids : ~ SinFrames(p) /\ Vivo(p)' = Vivo(p)
    BY <1>3, <2>1, SinFramesEn DEF Vivo
  <2> QED BY <1>1, <1>2, <2>2, AjusteIgual
<1>4. CASE Ciclo!Pasar(cpu.pid, "ejecutando", "terminado")
  <2>1. etapa'[cpu.pid] = "terminado" /\ \A q \in Pids : q # cpu.pid => etapa'[q] = etapa[q]
    BY <1>4, Campos, PasarEfecto
  <2>2. \A p \in Pids : Vivo(p)' => Vivo(p) /\ p # cpu.pid
    BY <2>1 DEF Vivo
  <2>3. \A p \in Pids : SinFrames(p) => p = cpu.pid
    BY DEF SinFrames, EnResize
  <2> QED BY <1>1, <1>2, <2>2, <2>3, AjusteIgual
<1> QED BY <1>1, <1>3, <1>4

\* The other steps of the CPU: Ajuste is kept.
LEMMA AjusteCpu ==
  ASSUME Tipo, Charla, Ajuste, PasoCpu
  PROVE  Ajuste'
<1>1. CASE RecibeResize
  BY <1>1, AjusteRecibe
<1>2. CASE ~ RecibeResize
  <2>1. UNCHANGED <<tabla, tamanio, hiloCpu>> /\ cpu.en # "resize"
        /\ (etapa' = etapa \/ \E b \in {"listo", "bloqueado", "terminado"} : Ciclo!Pasar(cpu.pid, "ejecutando", b))
    BY <1>2 DEF PasoCpu, Fetch, RecibeInstruccion, RecibeMarco, Accede, RecibeAcceso, BloqueaEnIo,
                FinInstruccion, EjecutaResize, ConsultaMmu, EnPaso,
                Ciclo!Terminar, Ciclo!Bloquear, Ciclo!Desalojar
  <2>2. \A p \in Pids : Faltan(p)' = Faltan(p) /\ ~ SinFrames(p)
    BY <2>1 DEF Faltan, SinFrames, EnResize
  <2>3. \A p \in Pids : Vivo(p)' => Vivo(p)
    <3>1. CASE etapa' = etapa
      BY <3>1 DEF Vivo
    <3>2. ASSUME NEW b \in {"listo", "bloqueado", "terminado"}, Ciclo!Pasar(cpu.pid, "ejecutando", b)
          PROVE  \A p \in Pids : Vivo(p)' => Vivo(p)
      BY <3>2, Campos, PasarEfecto DEF Vivo
    <3> QED BY <2>1, <3>1, <3>2
  <2> QED BY <2>1, <2>2, <2>3, AjusteIgual
<1> QED BY <1>1, <1>2

\* A process is admitted: it has no pages and no bytes (Ajuste is kept).
LEMMA AjusteAdmite ==
  ASSUME Tipo, Charla, Tramite, Ajuste, NEW p \in Pids, Admite(p)
  PROVE  Ajuste'
<1>1. UNCHANGED <<tabla, tamanio, hiloCpu, cpu, sobra, deCpu, respuestas>> /\ Ciclo!Pasar(p, "nuevo", "listo")
  BY DEF Admite, Ciclo!Admitir
<1>2. etapa[p] = "nuevo" /\ etapa'[p] = "listo" /\ \A q \in Pids : q # p => etapa'[q] = etapa[q]
  BY <1>1, PasarEfecto
<1>3. ~ EnLista(p) /\ ~ Liberando(p)
  BY <1>2 DEF Tramite, SinEntrar, Liberados
<1>4. tabla[p] = <<>> /\ tamanio[p] = 0
  BY <1>3 DEF Tramite, ConPaginas, Liberando
<1>5. Faltan(p)' = 0
  <2>1. hiloCpu.en \in {"asigna", "elimina"} => hiloCpu.pedido.pid # p
    BY <1>3 DEF Tramite, Hallado
  <2> QED BY <1>1, <2>1 DEF Faltan
<1>6. Len(tabla'[p]) + Faltan(p)' = Paginas(tamanio'[p])
  BY <1>1, <1>4, <1>5, MasPaginas
<1>7. ASSUME NEW q \in Pids, Vivo(q)', ~ SinFrames(q)', q # p
      PROVE  Len(tabla'[q]) + Faltan(q)' = Paginas(tamanio'[q])
  <2>1. Vivo(q) /\ ~ SinFrames(q) /\ Faltan(q)' = Faltan(q)
    BY <1>1, <1>2, <1>7 DEF Vivo, SinFrames, Agotada, EnResize, Faltan
  <2> QED BY <1>1, <2>1 DEF Ajuste
<1>8. \A q \in Pids : Paginas(tamanio'[q]) = Paginas(tamanio[q])'
  BY DEF Paginas
<1> QED BY <1>6, <1>7, <1>8 DEF Ajuste

\* The other steps of the kernel: Ajuste is kept.
LEMMA AjusteEtapa ==
  ASSUME Tipo, Charla, Ajuste, NEW p \in Pids,
         Crea(p) \/ Despacha(p) \/ Despierta(p) \/ Libera(p) \/ Finaliza(p)
  PROVE  Ajuste'
<1>1. UNCHANGED <<tabla, tamanio, hiloCpu, sobra, deCpu, respuestas>>
  BY DEF Crea, Despacha, Despierta, Libera, Finaliza
<1>2. \A q \in Pids : Faltan(q)' = Faltan(q)
  BY <1>1 DEF Faltan
<1>3. \A q \in Pids : SinFrames(q) => SinFrames(q)'
  <2>1. CASE cpu' = cpu
    BY <1>1, <2>1 DEF SinFrames, Agotada, EnResize
  <2>2. CASE cpu.en # "resize"
    BY <2>2 DEF SinFrames, EnResize
  <2> QED BY <2>1, <2>2 DEF Crea, Despacha, Despierta, Libera, Finaliza
<1>4. \/ etapa' = etapa
      \/ \E a \in {"inexistente", "terminado"}, b \in {"nuevo", "liberado"} : Ciclo!Pasar(p, a, b)
      \/ \E a \in {"listo", "bloqueado"}, b \in {"listo", "ejecutando"} : Ciclo!Pasar(p, a, b)
      \/ \E a \in {"nuevo", "listo", "bloqueado"} : Ciclo!Pasar(p, a, "terminado")
  BY DEF Crea, Despacha, Despierta, Libera, Finaliza, Ciclo!Crear, Ciclo!Despachar,
     Ciclo!Despertar, Ciclo!Liberar
<1>5. \A q \in Pids : Vivo(q)' => Vivo(q)
  <2>1. CASE etapa' = etapa
    BY <2>1 DEF Vivo
  <2>2. ASSUME NEW a, NEW b, Ciclo!Pasar(p, a, b),
               b \in {"nuevo", "liberado", "terminado"} \/ a \in {"listo", "bloqueado"}
        PROVE  \A q \in Pids : Vivo(q)' => Vivo(q)
    BY <2>2, PasarEfecto DEF Vivo
  <2> QED BY <1>4, <2>1, <2>2
<1> QED BY <1>1, <1>2, <1>3, <1>5, AjusteIgual

\* Every step keeps Ajuste: a live process has the pages of its size, but for those
\* that the RESIZE under way counts.
LEMMA AjustePaso == Tipo /\ Charla /\ Charla' /\ Tramite /\ Ajuste /\ [Next]_vars => Ajuste'
<1> SUFFICES ASSUME Tipo, Charla, Charla', Tramite, Ajuste, [Next]_vars PROVE Ajuste'
  OBVIOUS
<1>1. CASE UNCHANGED vars
  <2>1. UNCHANGED <<tabla, tamanio, hiloCpu, cpu, sobra, deCpu, respuestas, etapa>>
    BY <1>1 DEF vars
  <2>2. \A p \in Pids : /\ Faltan(p)' = Faltan(p) /\ Vivo(p)' = Vivo(p)
                        /\ SinFrames(p)' <=> SinFrames(p)
    BY <2>1 DEF Faltan, Vivo, SinFrames, Agotada, EnResize
  <2> QED BY <2>1, <2>2, AjusteIgual
<1>2. CASE AtenderCpu /\ UNCHANGED <<cpuVars, kernelVars>>
  BY <1>2, AjusteBusca, AjusteDecide, AjusteAsigna, AjusteElimina DEF AtenderCpu
<1> QED BY <1>1, <1>2, AjusteKernel, AjusteCpu, AjusteAdmite, AjusteEtapa DEF Next, PasoKernel

\* Every step keeps the frames apart: only asingar_paginas, eliminar_paginas and the
\* release of a process touch them, each with marcos[] and the table together.
LEMMA MarcosPaso ==
  Tipo /\ Charla /\ Tramite /\ Ajuste /\ MarcosExclusivos /\ [Next]_vars => MarcosExclusivos'
<1> SUFFICES ASSUME Tipo, Charla, Tramite, Ajuste, MarcosExclusivos, [Next]_vars PROVE MarcosExclusivos'
  OBVIOUS
<1>1. ASSUME UNCHANGED <<tabla, ocupados>> PROVE MarcosExclusivos'
  BY <1>1 DEF MarcosExclusivos, DeLaTabla
<1>2. CASE CpuAsigna
  <2>1. \/ UNCHANGED <<tabla, ocupados>>
        \/ /\ Libre(hiloCpu.i) /\ TomaMarco(hiloCpu.pedido.pid, hiloCpu.i)
           /\ hiloCpu.i \in Marcos /\ hiloCpu.pedido.pid \in Pids
    BY <1>2, Campos, Marco DEF CpuAsigna
  <2> QED BY <1>1, <2>1, MarcosToma
<1>3. CASE CpuElimina
  <2>1. SueltaMarco(hiloCpu.pedido.pid)
    BY <1>3 DEF CpuElimina
  <2> QED BY <1>3, <2>1, HayPagina, MarcosSuelta
<1>4. CASE KernelLibera
  <2>1. SueltaMarco(hiloKernel.pid) /\ tabla[hiloKernel.pid] # <<>>
    BY <1>4 DEF KernelLibera
  <2> QED BY <2>1, Campos, MarcosSuelta
<1>5. CASE KernelNuevo /\ UNCHANGED <<cpuVars, kernelVars>>
  <2>1. UNCHANGED <<tabla, ocupados>>
    BY <1>5, NuevoHecho
  <2> QED BY <1>1, <2>1
<1>6. CASE CpuRecibe \/ CpuInstruccion \/ CpuProceso \/ CpuMarco \/ CpuResize \/ CpuResponde
           \/ KernelBusca \/ KernelSaca \/ KernelFin
  BY <1>1, <1>6 DEF CpuRecibe, CpuInstruccion, CpuProceso, CpuMarco, CpuResize, CpuResponde,
     KernelBusca, KernelSaca, KernelFin, Cae
<1>7. CASE PasoCpu
  BY <1>1, <1>7 DEF PasoCpu, Fetch, RecibeInstruccion, RecibeResize, RecibeMarco, Accede,
     RecibeAcceso,
     BloqueaEnIo, FinInstruccion, EjecutaResize, ConsultaMmu
<1>8. CASE PasoKernel
  BY <1>1, <1>8 DEF PasoKernel, Crea, Admite, Despacha, Despierta, Libera, Finaliza
<1>9. CASE UNCHANGED vars
  BY <1>1, <1>9 DEF vars
<1> QED BY <1>2, <1>3, <1>4, <1>5, <1>6, <1>7, <1>8, <1>9 DEF Next, AtenderCpu, AtenderKernel

=============================================================================
