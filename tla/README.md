# TLA+ models and proofs of the TP of Operating Systems (UTN, 2024)

The repository is a distributed simulator of an operating system: a **kernel**
that schedules processes, a **CPU** that interprets their instructions, a
**memoria** that keeps instructions and paged memory, and any number of I/O
interfaces (**entradasalida**), talking over TCP. This directory models the
scheduler with all its threads, the memory with the CPU as its client, and an
I/O interface with the kernel thread that serves it and, for DIALFS, its file
system; checks them with TLC on small instances; and proves with TLAPS, for every value
of the constants, the safety properties and refinements the runs check.

Names follow the source (Spanish). Paths are relative to `src/`.

## 1. Inventory of the system

| part | source | state it keeps | operations |
|---|---|---|---|
| kernel, planners | `kernel/src/utils_kernel.c` | `COLA_NEW`, `_READY`, `_READY_AUX`, `_EXEC`, `_EXIT`, `lista_pcb`, each PCB, `procesos_en_*`, `sem_multiprogramacion`, `procesos_en_multiprogramacion`, `ignorar_signal_mp` | `manejar_new`, `manejar_exit`, `planificador_corto_plazo_{fifo,rr,vrr}`, `manejar_proceso`, `push_cola_*`, `pop_cola_*` |
| kernel, pause | same | `sem_planificacion_{new,ready,exec,exit}`, `planificador_bloqueado`, `existe_planificador` | `detener_planificacion` and its four `stop_*` threads, `iniciar_planificacion` |
| kernel, resources | same | `recursos` (instances and waiters), `lista_recursos_procesos` | `manejar_recurso` (WAIT, SIGNAL), `manejar_signal`, `liberar_recurso` |
| kernel, I/O manager | same | `interfaces_io`: a queue and a semaphore per interface | `esperar_io`, `manejar_io` |
| kernel, console | `kernel/src/consola.c` | the command being run | `INICIAR_PROCESO`, `FINALIZAR_PROCESO`, `DETENER_PLANIFICACION`, `INICIAR_PLANIFICACION`, `MULTIPROGRAMACION`, `PROCESO_ESTADO`, `EJECUTAR_SCRIPT` |
| kernel, quantum | `utils_kernel.c:300-350` | a timer thread per burst | `iniciar_quantum`, cancellation, `INTERRUPCION_QUANTUM` |
| CPU, control | `cpu/src/cpu.c` | `pcb_actual`, `motivo_salida`, registers | `ejecutar_proceso` (fetch, decode, execute), interrupt thread |
| CPU, MMU and TLB | same | `tlb` | `consultar_mmu`, `agregar_fifo_tlb`, `agregar_lru_tlb` |
| memoria | `memoria/src/memoria.c` | `lista_procesos`, each `tabla_paginas`, `marcos[]`, `memoria_principal` | `atender_kernel` (new, end), `atender_cpu` (fetch, resize, frame, read, write, copy), `atender_io` |
| entradasalida, session | `entradasalida/src/entradasalida.c` | the instruction being done | `atender_kernel`, sleep, stdin, stdout |
| entradasalida, DialFS | same | on disk: `bitmap.dat`, `bloques.dat`, an FCB file per file; in memory: `lista_archivos` | `manejar_fs_{create,delete,truncate,read,write}`, `compactar`, the start over an old disk |
| utils | `utils/src/utils/*.c` | none | packets, serialization of the PCB, connections |

How they interact:

* The short-term planner *is* the thread that talks to the CPU: `push_cola_exec`
  sends the PCB, waits for it to come back, and calls `manejar_proceso`, which
  pushes it somewhere and only then returns to the planner. After a WAIT or a
  SIGNAL that does not block, `push_cola_exec` is called again, nested.
* Queues pass processes between `manejar_new`, the planner, `manejar_exit`, one
  `manejar_io` thread per interface and the console. `sem_planificacion_*` stop
  the planners; `mutex_recursos`, `mutex_recursosXProcesos`, `mutex_kernel_io`,
  `cant_proc_multip` and `mutex_ignorar_signal` guard the rest.
* The kernel tells memory of each new and each ended process and waits for no
  answer. The CPU asks memory for instructions, frames and data, one request at a
  time. Interfaces get physical addresses and use them later.
* `manejar_io` sends an interface the first instruction of its queue and waits for
  one op_code. It reads the rest of the message only for BLOQUEO_TERMINADO. The
  interface answers ERROR to an instruction of another type, and BLOQUEO_TERMINADO
  after every instruction, that one included.
* DialFS writes the bitmap and the FCBs one by one; what a start finds is whatever
  the last process left.
* A kill is a flag in the kernel, plus a message to the CPU's interrupt thread if
  the process is executing.

What is hard, and what makes each part right (the full list, with lines, is
`hazards` in `PROJECT.json`):

* **Queues and permits.** A push is three separate steps (list, state, semaphore).
  A process must be in one place, with one permit, and never freed while somebody
  still holds it.
* **Pause and resume.** Stopping is asynchronous, and four commands pause and
  resume on their own. No permit may be lost or made up, and a pause must freeze.
* **Degree of multiprogramming.** A semaphore, a counter and a debt
  (`ignorar_signal_mp`) must tell the same story while the degree changes.
* **Resources.** Two accounts (instances and entries), nested mutexes, processes
  that die holding or waiting.
* **Kills.** State read and then acted on; a flag that belongs to no process.
* **Files.** A truncation may move every other file, in two directions; the bitmap,
  the FCB in memory and the FCB file change at different moments, and the process
  may die between any two. A block must never be of two files, and none may be lost.
* **Conversations.** Semaphore, queue and words of the connection must stay in step,
  or a process is woken by somebody else's answer.
* **Memory.** Two threads over the same tables and `marcos[]`; a list that changes
  while it is walked; a TLB that nobody invalidates; replies read by halves.

## 2. Modules

| module | models |
|---|---|
| `CicloDeVida` | Abstract specification: the five-state life cycle, one CPU, admission in order and within the degree. |
| `Kernel` | The kernel process: all planner threads, I/O threads, console commands and stop threads. |
| `KernelPropiedades` | Its properties, the refinement to `CicloDeVida`, the inductive invariants, fairness. |
| `KernelTipoProofs`, `KernelFrenosProofs`, `KernelColasProofs` | Theorems about `Kernel`: types; pauses; queues, permits, resources, degree and the refinement. |
| `Memoria` | The memory process: both threads, element by element. |
| `MemoriaCpu` | `Memoria` composed with the CPU as its client and with `CicloDeVida` as the kernel; its properties and fairness. |
| `MemoriaProofs`, `MmuProofs` | Theorems about it: types, conversation, frames; then TLB, accesses, messages of the kernel. |
| `AsignacionContigua` | Abstract specification: what a file system of contiguous files promises. |
| `DialFs` | DialFS: every operation on bitmap, FCB files and list, cut where the process may die. |
| `InterfazIo` | An interface of any type, `manejar_io` and the connection between them, over `DialFs`. |
| `InterfazPropiedades` | Their properties, the refinement to `AsignacionContigua`, the inductive invariant `IDisco`, fairness. |
| `DialFsProofs`, `InterfazProofs`, `ConversaProofs` | Theorems about them: a lemma per action of the file system; its theorems; session, types and pieces. |
| `MCKernel`, `MCMemoria`, `MCInterfaz` | Values of constants for TLC. |

### Kernel

A thread is a label `pc[h]`, the PCB it works on `mano[h]`, and the push it is in
the middle of, `empuje[h]`. The first half of every `push_cola_*` (`Empujar`, the
`list_add`) is part of the step that makes the push; the second half (`Publicar`:
`pcb->estado`, the permits, and the unlock when the push is the last thing under a
mutex) is a step of its own, so that another thread can pop the process in
between. `Sacar` is the pop. Other cuts are where a thread may wait or where it
reads or writes what others use.

| code | actions |
|---|---|
| `manejar_new` | `NewMulti`, `NewPermiso`, `NewSaca`, `NewListo` |
| `manejar_exit`, `liberar_recurso` | `ExitSaca`, `ExitToma`, `ExitLibera`, `ExitFin`, `ExitCuenta` |
| `planificador_corto_plazo_*`, `ejecutar_*` | `Despacha`, `CpuDevuelve` |
| `manejar_proceso` | `ManejaProceso`, `Termina` |
| `manejar_recurso`, `manejar_signal` | `EntraRecurso`, `Wait`, `WaitAnota`, `Signal`, `SignalLibera`, `SignalSigue`, `Desenrolla` |
| `manejar_io` | `IoToma`, then `IoTermina` (BLOQUEO_TERMINADO), `IoError` (ERROR or any other code) or `IoDesconexion` |
| `log_ingreso_ready`, `proceso_estado`, `buscar_proceso`, `eliminar_de_lista_por_pid` | `RecorridoRoto`: a walk of a list without its mutex meets a process that is being taken out of it |
| console | `IniciarProceso`, `IniciarPlanificacion`, `DetenerPlanificacion`, `StopHilo`, `ProcesoEstado`, `FinalizarProceso` + `Elimina`, `Multiprogramacion` + `BajaGrado`, `EsperaGrado`, `TomaIgnorar`, `FijaGrado`; `Reanuda` is the `iniciar_planificacion(NULL)` that ends a command |

A NULL that a pop gave, a freed PCB that a push writes to and a walk that meets either take
the model to `kernel = "caido"`, `"indefinido"` and `"recorrido"`, where it stops. A walk is
not a step: it has a duration, which is that of the label or of the push it belongs to
(`Recorre(h)`: READY or READY+ until the push is over, every list while PROCESO_ESTADO
prints, the list being searched in a kill), and it may break (`RecorridoRoto`) if during it
another thread is about to take somebody out of that list (`PuedeSacar`), or somebody in it
is already freed. A walk that does not break changes nothing.

Two variables are history. `errores[i]` counts the answers of interface `i` other than
BLOQUEO_TERMINADO: each spends a permit and leaves the process in the queue. `desfasado`
says that a MULTIPROGRAMACION met one of the two cases of `Desfasa`, after which permits and
degree disagree for good: as many inside as the new degree, and more inside than the new
degree with swallows pending that it overwrites.

Abstractions: what a program does is any of `Salidas`, chosen when the burst ends;
`queda` stands for `pcb->quantum < QUANTUM` and is a choice, since the quantum is
wall-clock time; the semaphore `proceso_ejecutando`, which only the one planner
thread uses, is left out; a `sem_wait` whose only consumer is the thread itself is
one step with the `sem_wait` on `sem_planificacion_*` after it;
`lista_recursos_procesos` is a bag; interfaces are connected from the start, and
may answer ERROR or disconnect; messages for malformed commands are left out. `EJECUTAR_SCRIPT` runs the
same commands and adds nothing.

### Memoria and MemoriaCpu

`lista` is `lista_procesos`; `tabla[p]`, the page table; `ocupados`, the frames with
`marcos[i] = 1`; `cerrado`, `mutex_proceso`. A walk of the list, and the taking or
giving back of frames, is one element per step, because `atender_kernel` may run in
between: it holds the mutex when it searches, not when it removes. A connection is
a sequence of messages; `sobra` says that the op_code of the first message was
read and its buffer was not. `enIo[p]` is a frame whose address an interface holds.

Abstractions: bytes, instruction text and delays are left out; READ, WRITE and
COPY are `ACCESO`, the frame they touch; the LRU victim is any entry, because the
code compares `time(NULL)`, whole seconds; a program may address a page it does not have, and
memory then ends, as the code does (`memoria.c:387`), and so it does for a counter past the
last instruction; `etapa`, the kernel's side, is `CicloDeVida` with the two messages the
kernel sends and, with `Mata`, kills in NEW, READY or blocked. `Kernel` implements `CicloDeVida`
without kills (proved in `KernelColasProofs`), so what holds here without `Mata` holds of
memory under the kernel's own scheduling.

### DialFs and InterfazIo

`mapa` is `bitmap_bloques`, `directorio` the FCB files, `lista` the FCBs in memory;
`op` is the operation under way, by the name of what it does next (`op.en`), with its
locals. `mapa` and `directorio` outlive the process, because `bitmap.dat` is a shared
mapping and every `actualizar_*` saves its FCB at once; a step ends after each such
effect, which is where the process can die (`Detiene`, or `Muere` where the code
itself ends it: `exit(-1)`, a NULL FCB, a copy of negative length, a write past the
mapping). `Reinicia` is the whole system started again over that disk.

| code | actions |
|---|---|
| `manejar_fs_create` | `Crea` (bit), `CreaFcb` (the file, empty if it is new), `CreaInicial` (BLOQUE_INICIAL), `CreaTamanio` (TAMANIO_ARCHIVO and the list) |
| `manejar_fs_delete` | `Borra` (bits), `BorraFcb` |
| `manejar_fs_truncate` | `Trunca`, with its five ways out, then `Agrega`, `GuardaTamanio` |
| `mover_archivo_detras`, `mover_archivo_delante` | `Mueve` (bits), `MueveFcb` |
| `compactar` | `CompactaDetras` (each file towards the start), `CompactaCuenta`, `CompactaDelante` (each file towards the end), then `Agrega`, `GuardaTamanio` |
| `manejar_fs_read`, `manejar_fs_write`, stdin, stdout | `Accede`, `Transfiere`, `Pieza`, `FinPiezas` |
| `atender_kernel` of the interface | `InterfazRecibe`, `InterfazResponde` |
| `push_cola_bloq_io`, `manejar_io`, `liberar_io` | `Bloquea`, `IoToma`, `IoRecibe`, `IoDesconexion` |
| `buscar_archivos_en_directorio`, `main` | `ArrancaDisco`, `Reinicia` |

`alKernel` is the connection word by word, because `manejar_io` reads a code and
leaves its buffer there when the code is ERROR. `roto` is history: the process died
at one of the moments of `Peligro`, between the bits of a move, a shrink or a deletion
and the FCB they belong to, between the two saves of a name created again, or with files
past the bytes `bitmap.dat` has. `error` is
history too: an ERROR was sent in this session.

Abstractions: bytes and names are left out (a copy is the blocks it goes to); which
instruction a process blocked for is chosen when the interface gets it; a process
blocks only if it is not blocked and is not killed meanwhile; memory answers whatever
it is asked. A name may be created again, since `manejar_fs_create` does not look: the run of
FS_1, FS_2 or FS_4 twice over a kept disk does it. A second block is taken, the FCB file has
the new start with the old size and then with size 0, and the list has two FCBs of one
name. The session is followed up to the answer (`op.en = "repite"`, then `"repetida"`); from
there the interface can only be stopped and started again, which reads one FCB. What it
would do with two entries of one name is not explored, nor a start over a disk with
`roto`. An empty file is moved even past the mapping, because a copy of no bytes does not
fault; `MaxBloque` bounds how far. Death is
of the process: a crash of the machine, where `msync` would matter, is not modelled.

## 3. Runs

All have `CHECK_DEADLOCK FALSE`: threads rest on semaphores when there is nothing
to do, programs and commands are bounded, the models stop at a crash, and one
deadlock of the code is real (a second WAIT in one burst locks `mutex_recursos`,
which its own thread already holds).

| run | instance | shows |
|---|---|---|
| `KernelFifo` | 2 processes, degree 2, 2 commands among stop, start, print, degree to 0, 1 or 3 | `TypeOK`, `FrenosConservados`, `KernelVivo`, `GradoConservado`, `PausaCongela` |
| `KernelRr` | 3 processes, RR, one interface, degree 2, fair | `PermisosExactos`, `ImplementaCicloDeVida`, `ListoEjecuta` |
| `KernelRecursos` | 2 processes, VRR, 2 resources, 1 interface, every way of leaving the CPU | `SaldoDeRecursos`, `SinSobreasignacion`, `NadieEsperaDeMas`, `UnSoloLugar`, `SinPunteroNulo` |
| `KernelFinaliza` | 2 processes, RR, degree 1, an interface, one FINALIZAR_PROCESO | `NingunoOlvidado`, `LosDemasEnSuLugar` |
| `MemoriaCrece` | 2 processes, 3 frames, TLB of 2 (LRU), growing, kills; fair | `TypeOK`, `MarcosExclusivos`, `TlbFiel`, `TlbSinRepetidas`, `AccesoPropio`, `MarcosVuelven` |
| `MemoriaAchica` | 2 processes, 6 frames of 2 bytes, sizes 1, 2, 4, 5, shrinking and I/O, no TLB | `MarcosExclusivos`, `TablaDelTamanio`, `AccesoPropio`, `Conversacion`, `EliminaConocido` |
| `InterfazDialFs` | an interface of each type; for DIALFS 3 files of 1 to 3 blocks on a disk of 6; deaths and restarts; fair | `TypeOK`, `SinSolapar`, `MemoriaYDisco`, `DentroDelLimite`, `PiezasDelPedido`, `Conversa`, `NoPierdeBloques`, `ImplementaAsignacion`, `Atendido` |
| `KernelGrado` | violated: `GradoAlDia` | MULTIPROGRAMACION to exactly the number inside takes no permit |
| `KernelInterrupcion` | violated: `SoloElPedido` | the interruption flag ends a process nobody asked to end |
| `KernelSobreasigna` | 3 processes, 1 instance; violated: `DuenosPorInstancia` | killing one waiter lets the other go on while the holder keeps the resource |
| `MemoriaOom` | violated: `CpuSigue` | a RESIZE without frames is answered twice and the CPU exits |
| `MemoriaCarrera` | violated: `SinPunteroNulo` | `lista_procesos` shrinks under a walk |

Bounds, and why they are enough. Three processes are what it takes for one to wait
in NEW behind a full degree of two while one executes and one waits in READY (`KernelRr`); in
`KernelFifo` two processes are enough for one to be admitted while the other exits, with
new degrees below, at and above the processes inside. Two
are enough for a conflict between a holder and a waiter, and three for a killed waiter to wake
another one (`KernelSobreasigna`). Two commands let a second pause or degree change land before
the stop threads of the first have their permits. Two resources let a process hold
one and wait for another. In memory, three frames and two processes make frames run
out and be reused, and sizes 1, 2, 4 and 5 with pages of 2 cover a size inside a
page, at its boundary and one byte over it. `MaxComandos`, `N` and the finite
`Tamanios` are the only bounds. One run has a state constraint: `SoloBloqueados` keeps
`KernelSobreasigna` to a planner started before any process and a kill of a blocked
process. It is a run that shows a behaviour, and a behaviour of the constrained model is
one of the model.

For the interface: three files let one grow with one before it and one after, so both
halves of a compaction happen, and two be pushed one behind the other. Sizes 0, 3 and 5
with blocks of 2 are 1, 2 and 3 blocks, the last byte of a block unused, so a size may
change without its blocks; 3 + 3 blocks fill the disk, and what does not fit goes past its
end: `Tope` = 8 blocks is what the mapping has room for before a write is a fault.
`MaxSueltos` is the number of lost blocks after which files are only read and written
(0 in the run, since nothing can be done with a lost block but lose more), and `MaxBloque`
= 8 the last block of a file after which the same holds, past the mapping. `MaxPids` lets two processes queue for
an interface that keeps no state and one use the disk (`MCPids`): the queue does not depend
on the type. `Entradas`, the
length of what is typed, is shorter and longer than an access of several pieces.

What each kernel property needs of the console and of the programs:

| property | holds (proved for that case, for every other constant) | why not beyond |
|---|---|---|
| `TypeOK`, `FrenosConservados`, `PausaCongela` | always | |
| `NingunoOlvidado` | always | it allows one process without permit per ERROR of its interface, which is what `manejar_io` does |
| `SaldoDeRecursos`, `NadieEsperaDeMas` | always | |
| `LosDemasEnSuLugar` | checked with FINALIZAR_PROCESO, for the processes nobody asked to end | the killed one may be in two queues, or in none |
| `PermisosExactos`, `UnSoloLugar`, `SinPunteroNulo` | without FINALIZAR_PROCESO | a killed process leaves its permit behind, and a kill that read an old state puts it in two queues. `PermisosExactos` counts the processes an ERROR stranded |
| `SinSobreasignacion` | without FINALIZAR_PROCESO | `KernelSobreasigna` |
| `GradoConservado` | checked with MULTIPROGRAMACION until `desfasado`; proved without it; without FINALIZAR_PROCESO | after one of the cases of `Desfasa` (`KernelGrado` shows the first) permits and degree disagree; a killed process may give its permit back twice |
| `ImplementaCicloDeVida` | without FINALIZAR_PROCESO and MULTIPROGRAMACION | a killed process skips states, and an admission may exceed a degree that went down |
| `KernelVivo` (dies of nothing but a walk) | without FINALIZAR_PROCESO, and when a burst ends only with FIN_EXITOSO or OUT_OF_MEMORY, so that only `manejar_new` pushes to READY | a second pusher's permit dispatches a process whose own push is not finished; it may end, and be freed, before the late `pcb->estado = LISTO` |

Of an interface, `SinSolapar` is up to a death in `Peligro`, and so is `ImplementaAsignacion`,
which also leaves out the two saves of a name created again (`Repite`): between them the FCB
file has an extent the contract forbids. `NoPierdeBloques` has three exceptions, the deletion
of an empty file, the creation of a name that exists and the death of the process. `Conversa`
and `Atendido` are up to an ERROR or the death of the interface, and `Atendido` up to the
answer to the second creation of a name. Each of those limits is a
behaviour of the code the model has (section 5).

In memory, `TypeOK`, `MarcosExclusivos`, `TablaDelTamanio` and `TlbSinRepetidas` are proved
always. `TlbFiel` is proved for programs that do not shrink, since no entry is dropped when
a page goes; `AccesoPropio` for programs that do not shrink or a CPU without TLB, and
processes that are not killed during I/O; `EliminaConocido` without kills;
`Conversacion` until memory answers a RESIZE with OUT_OF_MEMORY_AVISO.

Fairness. In the kernel, weak fairness of each thread (`PasoNew`, `PasoExit`,
`PasoCorto`, each `PasoIo(i)`, each pending push): threads are preemptive and the
operating system runs them all, an interface answers what it was asked, and a
burst ends, because RR runs the quantum timer. Nothing is assumed of the console.
`ListoEjecuta` is checked under RR: with resources the self-deadlock above would
make it false, and under VRR a process of READY may starve behind READY+. In
memory, weak fairness of `atender_cpu` and strong fairness of `atender_kernel`: it
competes for `mutex_proceso`, which the other gives up during `RETARDO_RESPUESTA`
between requests, so it finds it free again and again.

For an interface, weak fairness of `manejar_io`'s thread and of the interface: each is a
loop over a blocking read. Nobody has to stop the interface, to start it again, or to use it.
That memory and whoever types answer is an assumption.

`mutants` in `PROJECT.json` gives, for each property of a passing run, a plausible
bug in the code the property catches; they are the `Mut...` operators.

## 4. Proofs

No theorem bounds the processes, resources, interfaces, frames, files, blocks or
sizes, and each holds for every value of the constants the hypotheses below leave. Of
the properties of passing runs only the three of liveness and `LosDemasEnSuLugar` have no
theorem.

Assumptions: `TamanosAssumption` and `NombresAssumption` of `Kernel` (sizes are
naturals, interfaces finitely many, the algorithm is one of three, FIFO has no end of
quantum; resources, interfaces and the model's own labels have different names);
`MemoriaAssumption` and `CpuAssumption` (at least one process, one frame and
one byte per page, sizes are naturals, TLB algorithm FIFO or LRU); `DialFsAssumption` and `InterfazAssumption` (a block has at
least one byte, a disk one block, file names are finitely many, sizes are naturals).

A hypothesis on commands or programs is written in the theorem, as
`~ Finaliza => (Spec => []UnSoloLugar)`: it says which constants the configuration may
have, and the runs of the property satisfy it. Beyond it the property is false of the
code, for the reason in the table of section 3.

### Kernel

* `KernelTipoProofs!TipoCorrecto`: `Spec => []TypeOK`. `TypeOK` is not inductive:
  a thread pushes the PCB it keeps in `mano`, asks for the resource it keeps in
  `contexto`, lowers the degree to the one in `orden`, and `TypeOK` allows NULL, an
  unknown name and a higher degree there. `ITipo == TypeOK /\ Locales` adds what each
  label may count on. One lemma per helper (push, pop, removal, `liberar_recurso`,
  resume), one per action, then `TipoInvariante`.
* `KernelFrenosProofs!FrenosSeConservan`: `Spec => []FrenosConservados`, that is,
  for each of the four sections *free permits + thread inside + pause = 1 + stop
  threads still to come*. It is inductive together with `SinPlanificador`: the
  first `iniciar_planificacion` posts nothing even if there was a pause before, and
  it is right only because no planner thread is inside any section yet.
* `KernelFrenosProofs!LaPausaCongela`: `Spec => PausaCongela`. With the pause
  complete, the equation leaves no free permit and nobody inside, so every action
  of the planners is disabled or only waits; the I/O threads and the console touch
  neither `COLA_EXEC`, nor the count, nor `lista_pcb` but to add.
* `KernelColasProofs`: one lemma per action says what it does to queues, pushes and
  permits; then five layers, each inductive with the ones before.
  1. `IRecursos`: `COLA_EXEC` is the burst under way and nothing else (`Ejecuta`), who has
     `mutex_recursos` at which label (`Cerrojo`), no more waiters than instances owed
     (`Deuda`), whom `manejar_exit` has in hand (`ManoExit`), and the two accounts
     (`Saldo`). It gives `SaldoDeRecursos` and `NadieEsperaDeMas` with every command
     allowed.
  2. `Alcanza`: `NingunoOlvidado`, with an account of the permit `manejar_io` took for a
     process a kill has removed from its queue since (`Huerfano`). `IoError` moves one from
     the permit taken to `errores`, and no other step changes `errores` (`ErroresPaso`).
  3. `Exacto`, without FINALIZAR_PROCESO: `PermisosExactos` and that a thread which took a
     permit has its process at the head of the queue, which is why no pop gives NULL
     (`SinPunteroNulo`).
  4. `Unico`: each queue has a process once and no process is in two places of `Sitio` (a
     queue, the hands of a thread), with NEW in order of pid (`EnOrden`).
     `UnSoloLugar` counts places, `SinSobreasignacion` counts entries: both are
     cardinalities of sets of pairs, got from `Unico` and `IRecursos`.
  5. `GradoFijo`, without MULTIPROGRAMACION either: `GradoConservado`.
* `KernelColasProofs!ElKernelCumpleElCiclo`: `Spec => ImplementaCicloDeVida`. `Etapa` reads
  where a process is, so the layers tell what each step does to it: one thing happens to one
  process, or nothing. That an admission fits the degree comes from `GradoFijo`, that one
  process executes from `Ejecuta`.
* `KernelColasProofs!ElKernelVive`: `Spec => []KernelVivo` while bursts only end
  (`Corta`). `Corto` says that each queue then has one thread that pushes to it, and that
  whom it is pushing is still at the end of that queue (`Ultimo`): nobody else can have
  taken it, so it is in `lista_pcb` when `pcb->estado` is written. `KernelVivo` allows the
  one death that is left, that of a walk: `RecorridoRoto` is reachable in that case too.

### Memory

`MmuProofs` proves `Invariante` (`InvarianteSiempre`) over the lemmas of `MemoriaProofs`.
None of the properties is inductive, because each step trusts a message sent before:

* `Charla`: CPU and memory take turns. Either there is nothing on the wire, or the one
  request, its service or its answer is, for the process of `cpu`; or an
  OUT_OF_MEMORY_AVISO was answered (`Agotada`) and nothing good follows. From it
  `TipoMemoria` and `ConversaHastaElAviso`, stated as `[](Aviso \/ Conversacion)` since
  after the double answer `Conversacion` is false.
* `Tramite`: what `atender_kernel` releases is of a process the kernel has let go, so the
  two threads of memory never work on the same table. With it `MarcosExclusivos` holds
  although `marcos[]` has no lock.
* `Ajuste`: in a RESIZE, pages there are plus pages still to come are those of the new size;
  `TablaDelTamanio` is what is left of it between two RESIZE.
* `PideMarco`, `TlbVale`, `Acceso`: the frame of an answer is still the one of the page when
  it enters the TLB, and the one of the TLB still the process's when it is used.
  `~ Achica` (programs only grow) is what keeps an entry true; without TLB
  (`EntradasTlb = 0`) `AccesoPropio` does not need it. `~ (Mata /\ ConIo)` is that nobody is
  killed while an interface works for it.
* `Conocido`: a process that got out of NEW is in `lista_procesos` or its PROCESO_NUEVO comes
  before anything else about it. `~ Mata`: a process killed in NEW has none.

### Interfaces

* `InterfazProofs!DiscoInvariante`: `Spec => []IDisco`, with the facts on helpers and one lemma
  per action in `DialFsProofs`. `SinSolapar` is not inductive:
  in the middle of a truncation it does not say that the blocks about to be given are free.
  `IDisco` states where each file is (`Donde`, `Cuantos`), that its bits are set (`IOcupa`)
  and its blocks nobody else's (`IAparte`), what memory and disk still differ in (`ICopia`),
  what a start would find (`ICaida`), and of the truncation under way that the room it
  needs is free or will be (`ISitio`): while files are pushed forward, the ones already
  pushed are beyond it and the ones to come start before everything already moved. That
  is true because the list goes from the last file to the first. A clear bit is nobody's,
  so growth in place and moves towards the start only take what is free.
* From it: `NadieSolapa` (`SinSolapar`), `MemoriaIgualDisco` (`MemoriaYDisco`),
  `NadiePasaElLimite` (`DentroDelLimite`, from the part `ILimite`).
* `InterfazProofs!CumpleContrato`: `Spec => ImplementaAsignacion`. The mapping reads the FCB
  files that have both keys; a step that saves an FCB is one of `AsignacionContigua`, any
  other a stutter, restarts included. The two saves of a name that exists are no step of it
  and the formula says so (`Repite`): the second leaves the file empty in a block of its own,
  from which `AsignacionContigua` goes on.
* `InterfazProofs!NadiePierdeBloques`: `Spec => NoPierdeBloques`. `Sueltos` is the bitmap less
  `Cubierto`; each action either sets no bit and takes no block from its owner, or the
  file in hand owns what it sets. The two operations that leave blocks to nobody are named in
  the formula.
* `ConversaProofs!ConversaSiempre`: `Spec => []Conversa`. `Conversa` counts words and says
  nothing of which they are: `ISesion` adds that the connection has nothing, or one whole
  BLOQUEO_TERMINADO, and nothing while the kernel thread waits for a permit.
* `ConversaProofs!TipoInterfaz`: `Spec => []TypeOK`, after an ERROR too. `FormaOp` says how each
  step of an operation is written down (`IDisco` has what the values are), `ITiposSesion` that
  no permit is for a process that is not in the queue and that in the connection each code
  comes with its whole buffer, so reading one whole buffer never finds the connection short.
* `ConversaProofs!PiezasSiempreDelPedido`: `Spec => []PiezasDelPedido`. The property gives the
  pieces in closed form (`Cortes`: what of each page is inside the access), which is stronger
  than a sum equal to the size and needs no recursion: taking the first piece away leaves the
  cuts of what is left, a fact about `\div`. `IDonde` keeps that the access is inside the
  blocks of its file, which nothing moves meanwhile.

### Only model-checked

`ListoEjecuta`, `MarcosVuelven` and `Atendido`: liveness under fairness, and the `ENABLED` in
it, are beyond the prover used. `LosDemasEnSuLugar`, and `GradoConservado` with
MULTIPROGRAMACION, are checked and not proved. Induction over data is too, and is not needed: sums are
cardinalities of sets of pairs (`Anotados`, `SinSobreasignacion`) and the pieces have a
closed form. No module declares a RECURSIVE operator. The five violated properties stay with
TLC, which shows the behaviour.

## 5. What the models found

Five disagreements between what the code does and what its tests, configuration
or comments say, each with a run and lines in `findings` of `PROJECT.json`.

Of the interfaces no document says what they must do in these cases; the models have
them, and the properties stop there:

* Deleting an empty file frees no block (`entradasalida.c:563`): `ceil(0)`, while an empty
  file has one.
* Creating a name that exists takes a second block and loses the old ones
  (`entradasalida.c:418-458`); until the second save its FCB file may claim blocks of
  another file.
* Nothing compares with `BLOCK_COUNT` when bits after a file are counted or files are
  pushed: a full disk grows past its end.
* `log_ingreso_ready` walks READY after the unlock, and PROCESO_ESTADO every list while the
  stop threads are still to come: a pop in between makes the walk follow a NULL or a freed PCB.
* An unknown instruction is answered ERROR and then BLOQUEO_TERMINADO: the kernel takes
  one word of two messages, so its process stays at the head of the queue and every
  later answer is read shifted.
* When an interface ends while the kernel waits for it, `liberar_io` runs twice on one
  interface.
* A death between the bits and the FCB of a move, a shrink or a deletion leaves an FCB
  over free blocks; a death between the creation of a new FCB file and its second key keeps
  the next start from finishing.

## 6. Not modelled

* Quantum timer, the CPU's race on `motivo_salida` between its two threads, and VRR's
  accounting: for the kernel's model a burst ends with any reason, at any moment.
* The connection of an interface (`esperar_io` of the kernel and of memory) and
  `atender_io` of memory, which reads and writes bytes no property tells apart.
* Registers and arithmetic of the CPU; bytes of memory and of the blocks.
* A machine crash under DialFS, a start over an inconsistent disk, what an interface does
  with two FCBs of one name, a process killed while its interface works (the kernel's side of that is in `Kernel`).
* Serialization byte by byte, configuration, logs, start-up: pure I/O.

## 7. Plan

Done: `CicloDeVida`, `Kernel`, `Memoria`, `MemoriaCpu`, `DialFs`, `InterfazIo`,
`AsignacionContigua`, with the proofs of section 4. Next, in order:

1. What survives a kill, as theorems: which part of `UnSoloLugar` and of `PermisosExactos`
   FINALIZAR_PROCESO leaves (`LosDemasEnSuLugar`; how many permits are stale),
   and `GradoConservado` with MULTIPROGRAMACION, from the permits the console holds
   (`TomadosPorConsola`).
2. A session after an ERROR: by how much the answers are shifted, as an invariant.
3. The two threads of the CPU and the kernel's quantum timer over `pcb_actual` and
   `motivo_salida`: which interruptions are lost, late or overwrite another reason,
   composed with `Kernel` through what `CpuDevuelve` allows.
4. Self-deadlock of nested WAIT as a liveness property of `Kernel`; the TLB after a
   shrink as a run of `MemoriaCpu`.
