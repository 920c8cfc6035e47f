----------------------------- MODULE InterfazIo -----------------------------
(***************************************************************************)
(* One I/O interface and the kernel thread that serves it: manejar_io of   *)
(* utils_kernel.c, atender_kernel of entradasalida.c, and the connection   *)
(* between them word by word, because the two ends do not always read what *)
(* the other wrote.  A DIALFS interface works on the disk of DialFs.tla;   *)
(* the other types keep no state.                                          *)
(*                                                                         *)
(* Which instruction a process blocked for is decided when the interface   *)
(* gets it; until then all that matters is whether the interface knows it. *)
(* Memory, the planners and the console are outside: memory answers what it*)
(* is asked, a process blocks when it is not blocked, nobody is killed.    *)
(***************************************************************************)
EXTENDS DialFs, Sequences

CONSTANTS
  N,             \* number of processes (bound)
  MaxPids,       \* how many of them use an interface of each type (bound)
  Tipos,         \* TIPO_INTERFAZ of the interface, one of these
  TamPagina,     \* TAM_PAGINA of memory
  Tamanios,      \* sizes the programs truncate, read and write with
  MaxSueltos,    \* lost blocks, and
  MaxBloque,     \* last block of a file, after which files are only accessed (bounds)
  Entradas       \* lengths of what is typed at a STDIN interface

ASSUME InterfazAssumption ==
  /\ N \in Nat \ {0} /\ TamPagina \in Nat \ {0}
  /\ Tipos \subseteq {"GENERICA", "STDIN", "STDOUT", "DIALFS"}
  /\ Tamanios \subseteq Nat /\ Entradas \subseteq Nat
  /\ MaxPids \in [Tipos -> Nat] /\ MaxSueltos \in Nat /\ MaxBloque \in Nat

Pids == 0 .. N - 1

VARIABLES
  tipo,          \* TIPO_INTERFAZ
  cola,          \* cola_bloq: who, and whether the interface knows its instruction
  semCola,       \* sem_cola_bloq
  hilo,          \* manejar_io: "espera" (sem_wait) or "recibe" (recibir_operacion)
  alInterfaz,    \* instructions on their way
  alKernel,      \* words on their way back
  kernel,        \* "vivo", or "indefinido" after the double free
  error          \* an ERROR was sent in this session (history)

sesionVars == <<cola, semCola, hilo, alInterfaz, alKernel, kernel, error>>
vars == <<discoVars, tipo, sesionVars>>

\* op_code
BLOQUEO_TERMINADO == 7
ERROR == 20

\* send_cod: the code, the size of the buffer, and in it the size of an int and the int.
Paquete(cod) == <<cod, 8, 4, 0>>

Sesion0 ==
  /\ cola = << >> /\ semCola = 0 /\ hilo = "espera"
  /\ alInterfaz = << >> /\ alKernel = << >> /\ kernel = "vivo" /\ error = FALSE

Init == DiscoInit /\ tipo \in Tipos /\ Sesion0

EnCola(p) == \E i \in DOMAIN cola : cola[i].pid = p

-----------------------------------------------------------------------------
(* manejar_io *)

\* Mutant: nobody posts.
MutBloquea(p, conoce) ==
  /\ kernel = "vivo" /\ ~ EnCola(p) /\ p < MaxPids[tipo]
  /\ cola' = Append(cola, [pid |-> p, conoce |-> conoce])
  /\ UNCHANGED <<discoVars, tipo, semCola, hilo, alInterfaz, alKernel, kernel, error>>

\* push_cola_bloq_io.
Bloquea(p, conoce) ==
  /\ kernel = "vivo" /\ ~ EnCola(p) /\ p < MaxPids[tipo]
  /\ cola' = Append(cola, [pid |-> p, conoce |-> conoce])
  /\ semCola' = semCola + 1
  /\ UNCHANGED <<discoVars, tipo, hilo, alInterfaz, alKernel, kernel, error>>

\* The first of the queue, which stays there.
IoToma ==
  /\ kernel = "vivo" /\ hilo = "espera" /\ semCola > 0
  /\ semCola' = semCola - 1
  /\ alInterfaz' = Append(alInterfaz, Head(cola))
  /\ hilo' = "recibe"
  /\ UNCHANGED <<discoVars, tipo, cola, alKernel, kernel, error>>

\* Mutant: the buffer is left in the socket.
MutTrasBuffer(s) == s

\* recibir_buffer: the size and as many bytes.
TrasBuffer(s) == SubSeq(s, 2 + s[1] \div 4, Len(s))

\* Only BLOQUEO_TERMINADO takes its buffer; with ERROR, or any other word, the
\* process stays where it is.
IoRecibe ==
  /\ kernel = "vivo" /\ hilo = "recibe" /\ alKernel # << >>
  /\ \/ /\ Head(alKernel) = BLOQUEO_TERMINADO
        /\ alKernel' = TrasBuffer(Tail(alKernel))
        /\ cola' = Tail(cola)
     \/ /\ Head(alKernel) # BLOQUEO_TERMINADO
        /\ alKernel' = Tail(alKernel)
        /\ UNCHANGED cola
  /\ hilo' = "espera"
  /\ UNCHANGED <<discoVars, tipo, semCola, alInterfaz, kernel, error>>

\* The interface is gone: liberar_io frees the queue and its data, and the
\* dictionary calls liberar_io again on what was freed.
IoDesconexion ==
  /\ kernel = "vivo" /\ hilo = "recibe" /\ alKernel = << >> /\ op.en = "caida"
  /\ kernel' = "indefinido"
  /\ UNCHANGED <<discoVars, tipo, cola, semCola, hilo, alInterfaz, alKernel, error>>

-----------------------------------------------------------------------------
(* What the CPU puts in the instruction *)

\* Mutant: the first piece does not count what is before it in its page.
MutPiezas(desp, tam) ==
  LET primera == IF TamPagina > tam THEN tam ELSE TamPagina
      resto == tam - primera
  IN  <<primera>> \o [i \in 1 .. resto \div TamPagina |-> TamPagina]
        \o (IF resto % TamPagina > 0 THEN <<resto % TamPagina>> ELSE << >>)

\* obtener_dir_logicas: the sizes of the pieces, one per page.
Piezas(desp, tam) ==
  LET primera == IF TamPagina - desp > tam THEN tam ELSE TamPagina - desp
      resto == tam - primera
  IN  <<primera>> \o [i \in 1 .. resto \div TamPagina |-> TamPagina]
        \o (IF resto % TamPagina > 0 THEN <<resto % TamPagina>> ELSE << >>)

-----------------------------------------------------------------------------
(* atender_kernel of the interface *)

Restan(desp, tam, resta, pos, desde, hay) ==
  [en |-> "piezas", desp |-> desp, tam |-> tam, resta |-> resta, pos |-> pos,
   desde |-> desde, hay |-> hay]

\* The loops over dirs: each piece is read from memory or written to it.
Transfiere(desp, tam, desde, hay) ==
  /\ op' = Restan(desp, tam, Piezas(desp, tam), 0, desde, hay)
  /\ UNCHANGED <<mapa, directorio, lista, roto>>

\* manejar_fs_read, manejar_fs_write: past the end of the file, exit(-1).
Accede(f, desp, tam, puntero) ==
  \/ ~ Hay(f) /\ Muere
  \/ /\ Hay(f) /\ puntero + tam > lista[f].tam
     /\ Muere
  \/ /\ Hay(f) /\ puntero + tam <= lista[f].tam
     /\ Transfiere(desp, tam, BLOCK_SIZE * lista[f].inicial + puntero, tam)

\* manejar_operacion_generica, _stdin, _stdout, _fs
Empieza ==
  \/ /\ tipo = "GENERICA"
     /\ op' = Responde /\ UNCHANGED <<mapa, directorio, lista, roto>>
  \/ /\ tipo \in {"STDIN", "STDOUT"}
     /\ \E desp \in 0 .. TamPagina - 1, tam \in Tamanios :
          \E hay \in IF tipo = "STDIN" THEN Entradas ELSE {tam} : Transfiere(desp, tam, 0, hay)
  \/ /\ tipo = "DIALFS"
     /\ \E f \in Archivos :
          \/ /\ Cardinality(Sueltos) <= MaxSueltos
             /\ \A g \in DOMAIN lista : Fin(lista[g]) <= MaxBloque
             /\ \/ Crea(f)
                \/ Borra(f)
                \/ \E t \in Tamanios : Trunca(f, t)
          \/ \E desp \in 0 .. TamPagina - 1, t \in Tamanios, puntero \in {0, 1} :
               Accede(f, desp, t, puntero)

InterfazRecibe ==
  /\ op.en = "reposo" /\ alInterfaz # << >>
  /\ alInterfaz' = Tail(alInterfaz)
  /\ \/ /\ Head(alInterfaz).conoce
        /\ Empieza
        /\ UNCHANGED <<alKernel, error>>
     \/ /\ ~ Head(alInterfaz).conoce
        /\ alKernel' = alKernel \o Paquete(ERROR)
        /\ error' = TRUE
        /\ op' = Responde
        /\ UNCHANGED <<mapa, directorio, lista, roto>>
  /\ UNCHANGED <<tipo, cola, semCola, hilo, kernel>>

\* Copies that are a fault: STDIN with several pieces copies what is left of the
\* input, which may be less than nothing; a file may be past the mapping.
Falla ==
  \/ tipo = "STDIN" /\ Len(Piezas(op.desp, op.tam)) > 1 /\ op.hay < op.pos
  \/ /\ tipo = "DIALFS" /\ Head(op.resta) > 0
     /\ op.desde + op.pos + Head(op.resta) > BLOCK_SIZE * Tope

\* One piece.
Pieza ==
  /\ op.en = "piezas" /\ op.resta # << >>
  /\ \/ Falla /\ Muere
     \/ /\ ~ Falla
        /\ op' = Restan(op.desp, op.tam, Tail(op.resta), op.pos + Head(op.resta), op.desde,
                        op.hay)
        /\ UNCHANGED <<mapa, directorio, lista, roto>>
  /\ UNCHANGED <<tipo, sesionVars>>

FinPiezas ==
  /\ op.en = "piezas" /\ op.resta = << >>
  /\ op' = Responde
  /\ UNCHANGED <<mapa, directorio, lista, roto, tipo, sesionVars>>

\* After any operation, an instruction it did not know included.
InterfazResponde ==
  /\ op.en \in {"responde", "repite"}
  /\ alKernel' = alKernel \o Paquete(BLOQUEO_TERMINADO)
  /\ op' = IF op.en = "repite" THEN Creando("repetida", op.f, op.bloque) ELSE Reposo
  /\ UNCHANGED <<mapa, directorio, lista, roto, tipo, cola, semCola, hilo, alInterfaz,
                 kernel, error>>

\* Somebody stops the interface.
Detiene == op.en # "caida" /\ Muere /\ UNCHANGED <<tipo, sesionVars>>

\* The whole system is started again over the disk that was left.
Reinicia ==
  /\ ArrancaDisco
  /\ cola' = << >> /\ semCola' = 0 /\ hilo' = "espera"
  /\ alInterfaz' = << >> /\ alKernel' = << >> /\ kernel' = "vivo" /\ error' = FALSE
  /\ UNCHANGED tipo

-----------------------------------------------------------------------------
PasoIo == IoToma \/ IoRecibe \/ IoDesconexion
PasoInterfaz == \/ InterfazRecibe \/ Pieza \/ FinPiezas \/ InterfazResponde
                \/ PasoDisco /\ UNCHANGED <<tipo, sesionVars>>

Next == \/ PasoIo \/ PasoInterfaz \/ Detiene \/ Reinicia
        \/ \E p \in Pids, conoce \in BOOLEAN : Bloquea(p, conoce)

Spec == Init /\ [][Next]_vars
=============================================================================
