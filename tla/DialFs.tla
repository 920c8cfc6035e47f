------------------------------- MODULE DialFs -------------------------------
(***************************************************************************)
(* The file system of a DIALFS interface, entradasalida.c: a bitmap, one   *)
(* FCB file per file and the blocks, all of them on disk, plus the list of *)
(* FCBs in memory.  Files are contiguous, so growing one may move others.  *)
(*                                                                         *)
(* An operation is cut where the process may die with part of it done: the *)
(* bitmap is a shared mapping and every actualizar_* saves its FCB, so each*)
(* of those effects outlives the process.  The bytes of the blocks are left*)
(* out: a copy is the blocks it goes to.  A crash of the whole machine,    *)
(* where msync would matter, is not modelled.                              *)
(***************************************************************************)
EXTENDS Integers, FiniteSetsExt

CONSTANTS
  Archivos,      \* file names
  BLOCK_SIZE, BLOCK_COUNT,
  Tope           \* blocks the mapping has room for, in whole pages (bound)

ASSUME DialFsAssumption ==
  /\ BLOCK_SIZE \in Nat \ {0} /\ BLOCK_COUNT \in Nat \ {0}
  /\ Tope \in Nat /\ Tope >= BLOCK_COUNT
  /\ IsFiniteSet(Archivos)

VARIABLES
  mapa,        \* bitmap_bloques: the blocks whose bit is set
  directorio,  \* the FCB files: BLOQUE_INICIAL and TAMANIO_ARCHIVO of each name
  lista,       \* lista_archivos, by name; see CreaTamanio for a name created twice
  op,          \* the operation being done and its locals
  roto         \* the process died where the disk was left inconsistent (history)

discoVars == <<mapa, directorio, lista, op, roto>>

SINDATO == -1    \* a key the FCB file does not have yet

Reposo == [en |-> "reposo"]
Responde == [en |-> "responde"]
Caida == [en |-> "caida"]

DiscoInit == mapa = {} /\ directorio = << >> /\ lista = << >> /\ op = Reposo /\ roto = FALSE

(***************************************************************************)
(* Helpers                                                                 *)
(***************************************************************************)
Techo(t) == (t + BLOCK_SIZE - 1) \div BLOCK_SIZE

\* cant_bloques_archivo: an empty file has one block.
Bloques(t) == IF t = 0 THEN 1 ELSE Techo(t)

Fin(e) == e.inicial + Bloques(e.tam) - 1

Rango(desde, n) == desde .. desde + n - 1

\* Mutant: the last block is not looked at.
MutLibresDelante(fin, n) == Max({m \in 0 .. n : \A i \in 1 .. m - 1 : fin + i \notin mapa})

\* The loops that count free blocks after fin, up to n of them: a bit beyond the
\* disk is free.
LibresDelante(fin, n) == Max({m \in 0 .. n : \A i \in 1 .. m : fin + i \notin mapa})

\* cant_bloques_libres_detras, up to n.
LibresDetras(b, n) == Max({m \in 0 .. n : m <= b /\ \A i \in 1 .. m : b - i \notin mapa})

\* buscar_fcb
Hay(f) == f \in DOMAIN lista

\* Mutant: the file itself too.
MutDelante(b) == {f \in DOMAIN lista : lista[f].inicial >= b}

\* buscar_archivos_detras, archivos_delante_ordenado_lejano_a_cercano
Detras(b) == {f \in DOMAIN lista : lista[f].inicial < b}
Delante(b) == {f \in DOMAIN lista : lista[f].inicial > b}

\* The turn of each list: from the start of the disk, and from its end.
Cercano(S) == CHOOSE f \in S : \A g \in S : lista[f].inicial <= lista[g].inicial
\* Mutant: both lists in the same order.
MutLejano(S) == CHOOSE f \in S : \A g \in S : lista[f].inicial <= lista[g].inicial
Lejano(S) == CHOOSE f \in S : \A g \in S : lista[f].inicial >= lista[g].inicial

\* The FCBs fs with the one of f.
Con(fs, f, ini, t) ==
  [g \in DOMAIN fs \cup {f} |-> IF g = f THEN [inicial |-> ini, tam |-> t] ELSE fs[g]]

Sin(fs, f) == [g \in DOMAIN fs \ {f} |-> fs[g]]

\* Mutant: the FCB is not saved.
MutGuarda(f, ini, t) == lista' = Con(lista, f, ini, t) /\ UNCHANGED directorio

\* actualizar_bloque_inicial_archivo, actualizar_tamanio_archivo: the other value is
\* the one the FCB had.
Guarda(f, ini, t) == lista' = Con(lista, f, ini, t) /\ directorio' = Con(directorio, f, ini, t)

-----------------------------------------------------------------------------
(* What the files occupy, in the middle of an operation too *)

\* Where f was copied to, if its FCB does not say it yet; as many blocks as its new
\* size needs, once the bitmap says so.
Donde(f) == lista[f].inicial + (IF op.en = "fcb" /\ op.mueve = f THEN op.d ELSE 0)
Cuantos(f) == Bloques(IF op.en = "tamanio" /\ op.f = f THEN op.nuevo ELSE lista[f].tam)
Extension(f) == Rango(Donde(f), Cuantos(f))

Vivos == DOMAIN lista \ (IF op.en = "borra" THEN {op.f} ELSE {})

\* The block a creation has taken and no FCB of the list has yet.
EnCreacion ==
  IF op.en \in {"crea_fcb", "crea_inicial", "crea_tamanio", "repite", "repetida"}
  THEN {op.bloque} ELSE {}

\* A name created again: its old blocks are in no FCB file any more.
Pisados == IF op.en \in {"repite", "repetida"} THEN {op.f} ELSE {}

Cubierto == (UNION {Extension(f) : f \in Vivos \ Pisados}) \cup EnCreacion

\* Blocks with their bit set that no file has and no operation is about to use.
Sueltos == mapa \ Cubierto

\* bitmap.dat has whole bytes: what is past them is not in the file.
Persistentes == 0 .. 8 * ((BLOCK_COUNT + 7) \div 8) - 1

\* To die here leaves bits and FCBs that contradict each other: the bits of a file
\* were cleared or moved and its FCB still says where they were, they are past the
\* end of bitmap.dat, or the FCB of a name created again has the new start and the
\* old size.
Peligro ==
  \/ op.en = "borra" /\ lista[op.f].tam > 0
  \/ op.en = "tamanio" /\ op.nuevo < lista[op.f].tam
  \/ op.en = "fcb"
  \/ op.en = "crea_tamanio" /\ Hay(op.f)
  \/ \E f \in DOMAIN lista : ~ (Extension(f) \subseteq Persistentes)

\* The process ends: exit(-1), a fault, or somebody kills it.
Muere ==
  /\ op' = Caida /\ lista' = << >>
  /\ roto' = (roto \/ Peligro)
  /\ UNCHANGED <<mapa, directorio>>

-----------------------------------------------------------------------------
(* manejar_fs_create *)

Creando(en, f, bloque) == [en |-> en, f |-> f, bloque |-> bloque]

\* Mutant: the loop looks at one block too many.
MutCrea(f) ==
  LET libres == (0 .. BLOCK_COUNT) \ mapa
  IN  \/ /\ libres # {}
         /\ mapa' = mapa \cup {Min(libres)}
         /\ op' = Creando("crea_fcb", f, Min(libres))
         /\ UNCHANGED <<directorio, lista, roto>>
      \/ libres = {} /\ Muere

\* The first block with its bit clear; exit(-1) if there is none.  Nobody looks
\* whether there is a file with that name.
Crea(f) ==
  LET libres == (0 .. BLOCK_COUNT - 1) \ mapa
  IN  \/ /\ libres # {}
         /\ mapa' = mapa \cup {Min(libres)}
         /\ op' = Creando("crea_fcb", f, Min(libres))
         /\ UNCHANGED <<directorio, lista, roto>>
      \/ libres = {} /\ Muere

\* fopen(path, "a+"): an empty file, or the FCB file there was.
CreaFcb ==
  /\ op.en = "crea_fcb"
  /\ directorio' = IF op.f \in DOMAIN directorio THEN directorio
                   ELSE Con(directorio, op.f, SINDATO, SINDATO)
  /\ op' = Creando("crea_inicial", op.f, op.bloque)
  /\ UNCHANGED <<mapa, lista, roto>>

\* The first of the two saves; TAMANIO_ARCHIVO stays as it was in the file.
CreaInicial ==
  /\ op.en = "crea_inicial"
  /\ directorio' = Con(directorio, op.f, op.bloque, directorio[op.f].tam)
  /\ op' = Creando("crea_tamanio", op.f, op.bloque)
  /\ UNCHANGED <<mapa, lista, roto>>

\* The second save and list_add.  Of a name that was in the list there are two FCBs
\* now, the old one first: the session is followed until the answer ("repite") and
\* then the interface can only be stopped ("repetida"); a start has one FCB again.
CreaTamanio ==
  /\ op.en = "crea_tamanio"
  /\ directorio' = Con(directorio, op.f, op.bloque, 0)
  /\ \/ ~ Hay(op.f) /\ lista' = Con(lista, op.f, op.bloque, 0) /\ op' = Responde
     \/ Hay(op.f) /\ UNCHANGED lista /\ op' = Creando("repite", op.f, op.bloque)
  /\ UNCHANGED <<mapa, roto>>

-----------------------------------------------------------------------------
(* manejar_fs_delete *)

\* As many bits as ceil(tamanio / BLOCK_SIZE), none for an empty file.  The FCB of
\* a name that is not there is NULL, and followed.
Borra(f) ==
  \/ /\ Hay(f)
     /\ mapa' = mapa \ Rango(lista[f].inicial, Techo(lista[f].tam))
     /\ op' = [en |-> "borra", f |-> f]
     /\ UNCHANGED <<directorio, lista, roto>>
  \/ ~ Hay(f) /\ Muere

BorraFcb ==
  /\ op.en = "borra"
  /\ directorio' = Sin(directorio, op.f) /\ lista' = Sin(lista, op.f)
  /\ op' = Responde
  /\ UNCHANGED <<mapa, roto>>

-----------------------------------------------------------------------------
(* manejar_fs_truncate, compactar *)

\* mover_archivo_detras (d < 0) and mover_archivo_delante (d > 0): the copy, then
\* the bits; the FCB comes after.  A copy of some bytes past the mapping is a fault.
Mueve(f, d, sigue) ==
  LET e == lista[f]
      nuevos == Rango(e.inicial + d, Bloques(e.tam))
      dejados == IF d < 0 THEN Rango(Fin(e) + d + 1, -d) ELSE Rango(e.inicial, d)
      tomados == IF d < 0 THEN Rango(e.inicial + d, -d) ELSE Rango(Fin(e) + 1, d)
      cabe == e.tam = 0 \/ nuevos \subseteq 0 .. Tope - 1
  IN  \/ /\ cabe
         /\ mapa' = (mapa \cup tomados) \ dejados
         /\ op' = [en |-> "fcb", mueve |-> f, d |-> d, sigue |-> sigue]
         /\ UNCHANGED <<directorio, lista, roto>>
      \/ ~ cabe /\ Muere

MueveFcb ==
  /\ op.en = "fcb"
  /\ Guarda(op.mueve, lista[op.mueve].inicial + op.d, lista[op.mueve].tam)
  /\ op' = op.sigue
  /\ UNCHANGED <<mapa, roto>>

\* What a truncation does next, and what it knows.
Cambia(en, f, nuevo, limite) == [en |-> en, f |-> f, nuevo |-> nuevo, limite |-> limite]
Acerca(f, nuevo, limite, quedan) ==
  [en |-> "detras", f |-> f, nuevo |-> nuevo, limite |-> limite, quedan |-> quedan]
Empuja(f, nuevo, limite, faltan, quedan) ==
  [en |-> "empuja", f |-> f, nuevo |-> nuevo, limite |-> limite, faltan |-> faltan,
   quedan |-> quedan]

\* The last block in use, and then what the file grows: no file needs to go further.
Limite(n) == Max({BLOCK_COUNT - 1} \cup {Fin(lista[f]) + n : f \in DOMAIN lista})

Trunca(f, nuevo) ==
  \/ ~ Hay(f) /\ Muere
  \/ /\ Hay(f)
     /\ LET e == lista[f]
            agrega == Bloques(nuevo) - Bloques(e.tam)
            delante == LibresDelante(Fin(e), agrega)
            detras == LibresDetras(e.inicial, agrega - delante)
            limite == Limite(IF agrega > 0 THEN agrega ELSE 0)
        IN  \/ \* the blocks it has are the ones it needs
               /\ agrega = 0
               /\ Guarda(f, e.inicial, nuevo)
               /\ op' = Responde
               /\ UNCHANGED <<mapa, roto>>
            \/ \* it shrinks
               /\ agrega < 0
               /\ mapa' = mapa \ Rango(Fin(e) + agrega + 1, - agrega)
               /\ op' = Cambia("tamanio", f, nuevo, limite)
               /\ UNCHANGED <<directorio, lista, roto>>
            \/ \* there is room after it
               /\ agrega > 0 /\ delante = agrega
               /\ op' = Cambia("agrega", f, nuevo, limite)
               /\ UNCHANGED <<mapa, directorio, lista, roto>>
            \/ \* there is room around it
               /\ agrega > 0 /\ detras > 0 /\ delante + detras = agrega
               /\ Mueve(f, - detras, Cambia("agrega", f, nuevo, limite))
            \/ \* compactar: first the files before it
               /\ agrega > 0 /\ delante + detras < agrega
               /\ op' = Acerca(f, nuevo, limite, Detras(e.inicial) \cup {f})
               /\ UNCHANGED <<mapa, directorio, lista, roto>>

\* Each file before it and then itself goes back as much as there is free.
CompactaDetras ==
  /\ op.en = "detras" /\ op.quedan # {}
  /\ LET f == Cercano(op.quedan)
         libres == LibresDetras(lista[f].inicial, lista[f].inicial)
         sigue == Acerca(op.f, op.nuevo, op.limite, op.quedan \ {f})
     IN  \/ libres > 0 /\ Mueve(f, - libres, sigue)
         \/ /\ libres = 0
            /\ op' = sigue
            /\ UNCHANGED <<mapa, directorio, lista, roto>>

\* What is still missing after that is what every file after it has to move.
CompactaCuenta ==
  /\ op.en = "detras" /\ op.quedan = {}
  /\ LET e == lista[op.f]
         agrega == Bloques(op.nuevo) - Bloques(e.tam)
         faltan == agrega - LibresDelante(Fin(e), agrega)
     IN  op' = Empuja(op.f, op.nuevo, op.limite, faltan,
                      IF faltan > 0 THEN Delante(e.inicial) ELSE {})
  /\ UNCHANGED <<mapa, directorio, lista, roto>>

CompactaDelante ==
  /\ op.en = "empuja" /\ op.quedan # {}
  /\ LET f == Lejano(op.quedan)
     IN  Mueve(f, op.faltan, Empuja(op.f, op.nuevo, op.limite, op.faltan, op.quedan \ {f}))

\* Mutant: one block too many.
MutAgrega ==
  /\ op.en = "agrega" \/ (op.en = "empuja" /\ op.quedan = {})
  /\ LET e == lista[op.f]
     IN  mapa' = mapa \cup Rango(Fin(e) + 1, Bloques(op.nuevo) - Bloques(e.tam) + 1)
  /\ op' = Cambia("tamanio", op.f, op.nuevo, op.limite)
  /\ UNCHANGED <<directorio, lista, roto>>

\* agregar_bloques
Agrega ==
  /\ op.en = "agrega" \/ (op.en = "empuja" /\ op.quedan = {})
  /\ LET e == lista[op.f]
     IN  mapa' = mapa \cup Rango(Fin(e) + 1, Bloques(op.nuevo) - Bloques(e.tam))
  /\ op' = Cambia("tamanio", op.f, op.nuevo, op.limite)
  /\ UNCHANGED <<directorio, lista, roto>>

GuardaTamanio ==
  /\ op.en = "tamanio"
  /\ Guarda(op.f, lista[op.f].inicial, op.nuevo)
  /\ op' = Responde
  /\ UNCHANGED <<mapa, roto>>

PasoDisco == \/ CreaFcb \/ CreaInicial \/ CreaTamanio \/ BorraFcb \/ MueveFcb \/ CompactaDetras
             \/ CompactaCuenta \/ CompactaDelante \/ Agrega \/ GuardaTamanio

-----------------------------------------------------------------------------
(* iniciar_estructuras_fs *)

\* inicializar_bitmap keeps the bits of the file; what a page had past its end may
\* still be there or not.  buscar_archivos_en_directorio follows a NULL if an FCB has
\* a key missing: the process does not start.
ArrancaDisco ==
  /\ op.en = "caida" /\ ~ roto
  /\ \A f \in DOMAIN directorio : directorio[f].tam # SINDATO
  /\ \E resto \in {{}, mapa \ Persistentes} : mapa' = (mapa \cap Persistentes) \cup resto
  /\ lista' = directorio
  /\ op' = Reposo
  /\ UNCHANGED <<directorio, roto>>
=============================================================================
