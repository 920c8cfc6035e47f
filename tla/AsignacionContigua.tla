------------------------- MODULE AsignacionContigua -------------------------
(***************************************************************************)
(* What a file system of contiguous files promises, without bitmap, list,  *)
(* compaction or crashes: each file has a first block and a size, no block *)
(* is of two files, and a step creates, deletes, resizes or moves one file.*)
(***************************************************************************)
EXTENDS Integers

CONSTANTS Archivos, BLOCK_SIZE

VARIABLE asignado     \* [inicial, tam] of each file that exists

Ocupa(a) ==
  LET n == (a.tam + BLOCK_SIZE - 1) \div BLOCK_SIZE
  IN  a.inicial .. a.inicial + (IF a.tam = 0 THEN 1 ELSE n) - 1

Init == asignado = << >>

\* The other files stay as they are, and f gets only what none of them has.
Solo(f) ==
  \A g \in DOMAIN asignado \ {f} :
    /\ g \in DOMAIN asignado' /\ asignado'[g] = asignado[g]
    /\ f \in DOMAIN asignado' => Ocupa(asignado'[f]) \cap Ocupa(asignado[g]) = {}

Crear(f) ==
  /\ f \notin DOMAIN asignado /\ DOMAIN asignado' = DOMAIN asignado \cup {f}
  /\ asignado'[f].tam = 0
  /\ Solo(f)

Borrar(f) ==
  /\ f \in DOMAIN asignado /\ DOMAIN asignado' = DOMAIN asignado \ {f}
  /\ Solo(f)

\* In place.
Truncar(f) ==
  /\ f \in DOMAIN asignado /\ DOMAIN asignado' = DOMAIN asignado
  /\ asignado'[f].inicial = asignado[f].inicial
  /\ Solo(f)

\* As it is.
Mover(f) ==
  /\ f \in DOMAIN asignado /\ DOMAIN asignado' = DOMAIN asignado
  /\ asignado'[f].tam = asignado[f].tam
  /\ Solo(f)

Next == \E f \in Archivos : Crear(f) \/ Borrar(f) \/ Truncar(f) \/ Mover(f)

Spec == Init /\ [][Next]_asignado
=============================================================================
