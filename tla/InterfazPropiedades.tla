------------------------ MODULE InterfazPropiedades ------------------------
(***************************************************************************)
(* Properties of an I/O interface, its disk and its connection.            *)
(***************************************************************************)
EXTENDS InterfazIo

EnCrea == {"crea_fcb", "crea_inicial", "crea_tamanio", "repite", "repetida"}
Truncando == [en : {"agrega", "tamanio"}, f : Archivos, nuevo : Nat, limite : Nat]
Compactando == [en : {"detras"}, f : Archivos, nuevo : Nat, limite : Nat, quedan : SUBSET Archivos]
               \cup [en : {"empuja"}, f : Archivos, nuevo : Nat, limite : Nat,
                     quedan : SUBSET Archivos, faltan : Int]
Pasos ==
  {Reposo, Responde, Caida} \cup Truncando \cup Compactando
  \cup [en : EnCrea, f : Archivos, bloque : 0 .. BLOCK_COUNT - 1]
  \cup [en : {"borra"}, f : DOMAIN lista]
  \cup [en : {"fcb"}, mueve : DOMAIN lista, d : Int, sigue : Truncando \cup Compactando]
  \cup [en : {"piezas"}, desp : 0 .. TamPagina - 1, tam : Tamanios,
        resta : Seq(0 .. TamPagina), pos : Nat, desde : Nat, hay : Nat]

\* An FCB file: with no key yet, with the first, or with both.
EnDisco ==
  [inicial : Nat, tam : Nat \cup {SINDATO}] \cup [inicial : {SINDATO}, tam : {SINDATO}]

\* Every variable keeps its type: no file starts before the disk, the new block of
\* a file is one of the disk, the kernel thread never waits for a negative permit.
TypeOK ==
  /\ mapa \subseteq Nat /\ roto \in BOOLEAN
  /\ DOMAIN lista \subseteq Archivos /\ DOMAIN directorio \subseteq Archivos
  /\ \A f \in DOMAIN lista : lista[f] \in [inicial : Nat, tam : Nat]
  /\ \A f \in DOMAIN directorio : directorio[f] \in EnDisco
  /\ op \in Pasos
  /\ tipo \in Tipos /\ cola \in Seq([pid : Pids, conoce : BOOLEAN]) /\ semCola \in Nat
  /\ hilo \in {"espera", "recibe"} /\ alInterfaz \in Seq([pid : Pids, conoce : BOOLEAN])
  /\ alKernel \in Seq(Nat) /\ kernel \in {"vivo", "indefinido"} /\ error \in BOOLEAN

\* Between any two effects of an operation on the disk, however many files a
\* compaction has moved, every block of every file has its bit set and no block is of
\* two files; it survives the death of the process but where Peligro says.
SinSolapar ==
  ~ roto => \A j \in Vivos :
    /\ Extension(j) \subseteq mapa
    /\ \A k \in Vivos \ {j} : Extension(j) \cap Extension(k) = {}

\* While the interface waits, the list in memory and the FCB files say the same: every
\* move and every resize was saved under the name of its own file.  (Until some name
\* is created twice: the list has both FCBs from then on.)
MemoriaYDisco == op.en = "reposo" => lista = directorio

\* A compaction or a growth takes no file past the last block in use plus the blocks
\* asked for: the end of the disk is respected whenever those fit after it.
DentroDelLimite ==
  LET cuida(o) == \A k \in DOMAIN lista : \A b \in Extension(k) : b <= o.limite
  IN  /\ op.en \in {"agrega", "tamanio", "detras", "empuja"} => cuida(op)
      /\ op.en = "fcb" => cuida(op.sigue)

\* A set bit always has a file behind, or one that is being created.  Three things only
\* leave blocks that nobody can ever use again: the deletion of an empty file, which
\* has a block and frees none; the creation of a name that exists, whose FCB file then
\* forgets the old ones; and the death of the process.
NoPierdeBloques ==
  [][op.en # "caida" /\ op'.en # "caida"
       => \/ Sueltos' \subseteq Sueltos
          \/ op'.en = "borra" /\ lista[op'.f].tam = 0
          \/ op'.en = "repite"]_vars

Menor(a, b) == IF a < b THEN a ELSE b
Mayor(a, b) == IF a < b THEN b ELSE a
Pagina(b) == b \div TamPagina

\* Bytes a .. z - 1, page by page.
Cortes(a, z) ==
  [k \in 1 .. Pagina(z - 1) - Pagina(a) + 1 |->
     Menor(z, (Pagina(a) + k) * TamPagina) - Mayor(a, (Pagina(a) + k - 1) * TamPagina)]

\* The pieces the CPU cut an access into and that are still to be done are, page by
\* page, what the access still lacks: nothing is left out, repeated or in two pages.
\* Those of a file are inside the blocks of that file.
PiezasDelPedido ==
  op.en = "piezas" =>
    /\ IF op.pos < op.tam THEN op.resta = Cortes(op.desp + op.pos, op.desp + op.tam)
                          ELSE op.pos = op.tam /\ op.resta \in {<< >>, <<0>>}
    /\ op.resta # << >> /\ tipo = "DIALFS" =>
         \E k \in DOMAIN lista :
           \A i \in 0 .. Head(op.resta) - 1 :
             (op.desde + op.pos + i) \div BLOCK_SIZE \in Extension(k)

EnCurso == op.en \notin {"reposo", "caida", "repetida"}

\* Until an interface answers ERROR, request, work and answer follow one another, and
\* the permits of manejar_io are the processes it has not yet sent: each
\* BLOQUEO_TERMINADO wakes the process whose instruction was done.
Conversa ==
  kernel = "vivo" /\ ~ error =>
    /\ semCola + (IF hilo = "recibe" THEN 1 ELSE 0) = Len(cola)
    /\ \/ op.en = "caida"
       \/ Len(alInterfaz) + (IF EnCurso THEN 1 ELSE 0) + Len(alKernel) \div 4
            = IF hilo = "recibe" THEN 1 ELSE 0

\* The FCB files with both keys.
Guardados == {f \in DOMAIN directorio : directorio[f].tam # SINDATO}
Asignado == [f \in Guardados |-> directorio[f]]

Asignacion == INSTANCE AsignacionContigua WITH asignado <- Asignado

\* The two saves of a name that exists: new start with the old size, then size 0.
Repite == op.en \in {"crea_inicial", "crea_tamanio"} /\ Hay(op.f)

\* What each step does to the FCB files, crashes and restarts included, is one file
\* created, deleted, resized in place or moved whole to blocks no other file has; all
\* steps but the two saves of a name created again, the first of which may give the
\* file blocks of others until the second.
ImplementaAsignacion == Asignacion!Init /\ [][Repite \/ Asignacion!Next]_Asignado

-----------------------------------------------------------------------------
(***************************************************************************)
(* What makes SinSolapar and DentroDelLimite inductive: in a truncation,   *)
(* the blocks it is about to give are nobody's already, or are the ones    *)
(* the files that have not moved yet will leave.                           *)
(***************************************************************************)

\* The truncation that is being done, in the middle of a move too.
Sigue == IF op.en = "fcb" THEN op.sigue ELSE op
Otros == DOMAIN lista \ {Sigue.f}

\* Two runs of blocks, one after the other.
Aparte(i, n, j, m) == i + n <= j \/ j + m <= i

\* The files that are what their FCB says; those of Vivos, and the empty one that is
\* being deleted.
Firmes == DOMAIN lista \ (IF op.en = "borra" /\ lista[op.f].tam > 0 THEN {op.f} ELSE {})

FCBs == \A f \in DOMAIN lista : lista[f] \in [inicial : Nat, tam : Nat]

ITipoDatos ==
  /\ mapa \subseteq Nat
  /\ DOMAIN lista \subseteq Archivos /\ DOMAIN directorio \subseteq Archivos
  /\ FCBs
  /\ \A f \in DOMAIN directorio : directorio[f] \in EnDisco

ITipoOp ==
  /\ op.en = "borra" => op.f \in DOMAIN lista
  /\ op.en = "fcb" =>
       op.mueve \in DOMAIN lista /\ op.d \in Int /\ op.sigue.en \in {"agrega", "detras", "empuja"}
  /\ Sigue.en \in {"agrega", "tamanio", "detras", "empuja"} =>
       Sigue.f \in DOMAIN lista /\ Sigue.nuevo \in Nat /\ Sigue.limite \in Nat
  /\ Sigue.en \in {"detras", "empuja"} => Sigue.quedan \subseteq DOMAIN lista
  /\ Sigue.en = "empuja" => Sigue.faltan \in Nat /\ Sigue.f \notin Sigue.quedan
  /\ op.en \in EnCrea => op.f \in Archivos /\ op.bloque \in mapa \cap (0 .. BLOCK_COUNT - 1)
  /\ op.en \in {"repite", "repetida"} => op.f \in DOMAIN lista

IOcupa == \A f \in Firmes : Donde(f) \in Nat /\ Extension(f) \subseteq mapa

IAparte == \A f, g \in Firmes : f # g => Aparte(Donde(f), Cuantos(f), Donde(g), Cuantos(g))

INuevo == op.en \in EnCrea => \A g \in DOMAIN lista : op.bloque \notin Extension(g)

\* Memory and disk.
ICopia ==
  /\ op.en \notin {"crea_inicial", "crea_tamanio", "repite", "repetida", "caida"}
       => directorio = lista
  /\ op.en = "crea_inicial" =>
       directorio = IF Hay(op.f) THEN lista ELSE Con(lista, op.f, SINDATO, SINDATO)
  /\ op.en = "crea_tamanio" =>
       directorio = Con(lista, op.f, op.bloque, IF Hay(op.f) THEN lista[op.f].tam ELSE SINDATO)
  /\ op.en \in {"repite", "repetida"} => directorio = Con(lista, op.f, op.bloque, 0)

Crece == Sigue.en \in {"agrega", "detras", "empuja"}

\* The blocks Sigue.f will have.
Sitio(g) == Aparte(Donde(Sigue.f), Bloques(Sigue.nuevo), Donde(g), Cuantos(g))

ISitio ==
  /\ Crece => Bloques(Sigue.nuevo) > Cuantos(Sigue.f)
  /\ Sigue.en = "agrega" => \A g \in Otros : Sitio(g)
  /\ Sigue.en = "empuja" =>
       /\ \A g \in Otros \ Sigue.quedan : Sitio(g)
       /\ \A g \in Sigue.quedan :
            /\ Donde(g) > Donde(Sigue.f)
            /\ Donde(g) + Sigue.faltan >= Donde(Sigue.f) + Bloques(Sigue.nuevo)
            /\ \A h \in DOMAIN lista \ Sigue.quedan :
                 Donde(h) <= Donde(Sigue.f) \/ Donde(h) >= Donde(g) + Cuantos(g) + Sigue.faltan

\* A resize that has yet to be saved makes the file no smaller, or is a shrink.
ITamanio == op.en = "tamanio" =>
  Bloques(op.nuevo) >= Bloques(lista[op.f].tam) \/ op.nuevo < lista[op.f].tam

\* What a start will find.
ICaida ==
  op.en = "caida" =>
    /\ lista = << >>
    /\ ~ roto =>
         \A f \in DOMAIN directorio : directorio[f].tam # SINDATO =>
           LET e == directorio[f]
           IN  /\ Rango(e.inicial, Bloques(e.tam)) \subseteq mapa \cap Persistentes
               /\ \A g \in DOMAIN directorio \ {f} : directorio[g].tam # SINDATO =>
                    Aparte(e.inicial, Bloques(e.tam), directorio[g].inicial, Bloques(directorio[g].tam))

\* How far each file may still go.
ILimite ==
  /\ Sigue.en \in {"agrega", "tamanio", "detras", "empuja"} =>
       \A f \in DOMAIN lista : Donde(f) + Cuantos(f) - 1 <= Sigue.limite
  /\ Crece => Donde(Sigue.f) + Bloques(Sigue.nuevo) - 1 <= Sigue.limite
  /\ Sigue.en = "detras" => \A f \in DOMAIN lista :
       Donde(f) + Cuantos(f) - 1 + Bloques(Sigue.nuevo) - Cuantos(Sigue.f) <= Sigue.limite
  /\ Sigue.en = "empuja" => \A g \in Sigue.quedan :
       Donde(g) + Cuantos(g) - 1 + Sigue.faltan <= Sigue.limite

IDisco ==
  /\ ITipoDatos /\ ITipoOp /\ IOcupa /\ IAparte /\ INuevo /\ ICopia /\ ISitio /\ ITamanio
  /\ ICaida /\ ILimite

-----------------------------------------------------------------------------
(* Both threads run; nothing makes anybody stop the interface or start it. *)
SpecJusta == Spec /\ WF_vars(PasoIo) /\ WF_vars(PasoInterfaz)

\* Whoever blocks in an interface is woken, unless the interface dies, has answered an
\* ERROR or is followed no further (a name created twice): compactions end, and no
\* permit or answer is lost on the way.
Atendido ==
  \A p \in Pids : EnCola(p) ~> (~ EnCola(p) \/ error \/ op.en \in {"caida", "repetida"})
=============================================================================
