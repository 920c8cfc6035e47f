---------------------------- MODULE DialFsProofs ----------------------------
(***************************************************************************)
(* Every operation of DialFs keeps IDisco, for every set of files, size of *)
(* block and size of disk: one lemma per action.                           *)
(*                                                                         *)
(* The argument: what a file has is set in the bitmap, so a clear bit is   *)
(* nobody's.  A file only takes clear bits (to grow, to go back) or, pushed*)
(* towards the end, blocks that the ones pushed before it have left: they  *)
(* go from the last to the first.  What it frees was its own.              *)
(*                                                                         *)
(* First, what the helpers of DialFs return: blocks of a size, counts of   *)
(* free blocks, the file whose turn it is, the end a truncation may reach. *)
(***************************************************************************)
EXTENDS InterfazPropiedades, FiniteSets, WellFoundedInduction, FiniteSetTheorems,
        FunctionTheorems, TLAPS

\* A nonempty set of naturals has a least element.
LEMMA Minimo ==
  ASSUME NEW S \in SUBSET Nat, S # {}
  PROVE  \E x \in S : \A y \in S : x <= y
<1>1. PICK x \in S : \A y \in S : ~ (<<y, x>> \in OpToRel(<, Nat))
  BY NatLessThanWellFounded, WFMin
<1>2. \A y \in S : ~ (y < x)
  BY <1>1 DEF OpToRel
<1> QED
  BY <1>2

\* A nonempty set of naturals with a bound has a greatest one.
LEMMA Maximo ==
  ASSUME NEW n \in Nat, NEW S \in SUBSET (0 .. n), S # {}
  PROVE  Max(S) \in S /\ \A y \in S : Max(S) >= y
<1> DEFINE D == {n - y : y \in S}
<1>0. D \in SUBSET Nat /\ D # {}
  <2>1. \A y \in S : y \in 0 .. n /\ n - y \in Nat
    OBVIOUS
  <2> QED BY <2>1
<1>1. PICK d \in D : \A e \in D : d <= e
  <2> HIDE DEF D
  <2> QED BY <1>0, Minimo
<1>2. PICK x \in S : d = n - x
  OBVIOUS
<1>3. \A y \in S : x >= y
  BY <1>1, <1>2
<1> QED
  BY <1>3 DEF Max

\* The values of a function on a finite set have a greatest one.
LEMMA MaximoFinito ==
  ASSUME NEW S, IsFiniteSet(S), S # {}, NEW F \in [S -> Nat]
  PROVE  \E x \in S : \A y \in S : F[x] >= F[y]
<1>1. PICK n \in Nat : \E f : f \in Surjection(1 .. n, S)
  BY FS_NatSurjection DEF ExistsSurjection
<1>2. PICK f : f \in Surjection(1 .. n, S)
  BY <1>1
<1>f. f \in [1 .. n -> S] /\ \A x \in S : \E i \in 1 .. n : f[i] = x
  BY <1>2, Fun_SurjectionProperties
<1> DEFINE Malos == {k \in 1 .. n : ~ \E i \in 1 .. k : \A j \in 1 .. k : F[f[i]] >= F[f[j]]}
<1>3. Malos = {}
  <2>1. SUFFICES ASSUME Malos # {} PROVE FALSE
    OBVIOUS
  <2>m. Malos \in SUBSET Nat
    OBVIOUS
  <2>2. PICK k \in Malos : \A m \in Malos : k <= m
    <3> HIDE DEF Malos
    <3> QED BY <2>1, <2>m, Minimo
  <2>3. CASE k = 1
    BY <2>2, <2>3, <1>f
  <2>4. CASE k > 1
    <3>0. k \in 1 .. n /\ k - 1 \in 1 .. n /\ ~ (k <= k - 1)
      BY <2>4
    <3>1. k - 1 \notin Malos
      BY <2>2, <3>0
    <3>2. PICK i \in 1 .. k - 1 : \A j \in 1 .. k - 1 : F[f[i]] >= F[f[j]]
      BY <3>0, <3>1
    <3>3. \A j \in 1 .. k : j \in 1 .. n /\ F[f[j]] \in Nat /\ (j = k \/ j \in 1 .. k - 1)
      BY <2>2, <1>f
    <3>4. CASE F[f[i]] >= F[f[k]]
      BY <3>2, <3>3, <3>4, <2>2
    <3>5. CASE F[f[k]] > F[f[i]]
      BY <3>2, <3>3, <3>5, <2>2
    <3> QED
      BY <3>3, <3>4, <3>5
  <2> QED
    BY <2>2, <2>3, <2>4
<1>4. n >= 1
  BY <1>f
<1>5. PICK i \in 1 .. n : \A j \in 1 .. n : F[f[i]] >= F[f[j]]
  <2>1. n \in 1 .. n
    BY <1>4
  <2>2. n \notin Malos
    <3> HIDE DEF Malos
    <3> QED BY <1>3
  <2> QED BY <2>1, <2>2
<1> QED
  BY <1>5, <1>f

-----------------------------------------------------------------------------
(* Blocks *)

\* An empty file has ceil(0) = 0 blocks to free,
LEMMA TechoCero == Techo(0) = 0
BY DialFsAssumption DEF Techo

\* any other at least one,
LEMMA TechoPositivo ==
  ASSUME NEW t \in Nat, t > 0
  PROVE  Techo(t) \in Nat /\ Techo(t) >= 1
BY DialFsAssumption, SMTT(30) DEF Techo

\* and no fewer if it is larger.
LEMMA TechoCrece ==
  ASSUME NEW t \in Nat, NEW u \in Nat, t <= u
  PROVE  Techo(t) <= Techo(u)
BY DialFsAssumption, SMTT(30) DEF Techo

\* Bloques is what a file has: at least one block, and Techo if it is not empty.
LEMMA BloquesTipo ==
  \A t \in Nat : Bloques(t) \in Nat /\ Bloques(t) >= 1 /\ (t > 0 => Techo(t) = Bloques(t))
BY TechoPositivo DEF Bloques

\* A larger file has no fewer blocks.
LEMMA BloquesCrece ==
  \A t, u \in Nat : t <= u => Bloques(t) <= Bloques(u)
BY TechoPositivo, TechoCrece DEF Bloques

-----------------------------------------------------------------------------
(* Free blocks *)

\* The free blocks counted after a block: as many as asked at most, and all clear.
LEMMA LibresDelanteDa ==
  ASSUME NEW b \in Nat, NEW n \in Nat
  PROVE  /\ LibresDelante(b, n) \in 0 .. n
         /\ \A i \in 1 .. LibresDelante(b, n) : b + i \notin mapa
<1> DEFINE S == {m \in 0 .. n : \A i \in 1 .. m : b + i \notin mapa}
<1>1. S \in SUBSET (0 .. n) /\ 0 \in S
  OBVIOUS
<1>2. Max(S) \in S
  <2> HIDE DEF S
  <2> QED BY <1>1, Maximo
<1> QED
  BY <1>2 DEF LibresDelante

\* And those before a block.
LEMMA LibresDetrasDa ==
  ASSUME NEW b \in Nat, NEW n \in Nat
  PROVE  /\ LibresDetras(b, n) \in 0 .. n /\ LibresDetras(b, n) <= b
         /\ \A i \in 1 .. LibresDetras(b, n) : b - i \notin mapa
<1> DEFINE S == {m \in 0 .. n : m <= b /\ \A i \in 1 .. m : b - i \notin mapa}
<1>1. S \in SUBSET (0 .. n) /\ 0 \in S
  OBVIOUS
<1>2. Max(S) \in S
  <2> HIDE DEF S
  <2> QED BY <1>1, Maximo
<1> QED
  BY <1>2 DEF LibresDetras

\* Min of a nonempty set of naturals is one of them.
LEMMA MinimoDa ==
  ASSUME NEW S \in SUBSET Nat, S # {}
  PROVE  Min(S) \in S
<1>1. \E x \in S : \A y \in S : x <= y
  BY Minimo
<1> QED
  BY <1>1 DEF Min

-----------------------------------------------------------------------------
(* The list of files *)

\* The files in memory are a finite set.
LEMMA ListaFinita ==
  ASSUME DOMAIN lista \subseteq Archivos, NEW S \in SUBSET DOMAIN lista
  PROVE  IsFiniteSet(S)
BY FS_Subset, DialFsAssumption

\* The turns of a compaction.
LEMMA CercanoDa ==
  ASSUME FCBs, NEW S \in SUBSET DOMAIN lista, S # {}
  PROVE  Cercano(S) \in S
<1> DEFINE D == {lista[f].inicial : f \in S}
<1>1. D \in SUBSET Nat /\ D # {}
  BY DEF FCBs
<1>2. PICK x \in D : \A y \in D : x <= y
  <2> HIDE DEF D
  <2> QED BY <1>1, Minimo
<1>3. PICK f \in S : x = lista[f].inicial
  OBVIOUS
<1>4. \A g \in S : lista[f].inicial <= lista[g].inicial
  BY <1>2, <1>3
<1> QED
  BY <1>4 DEF Cercano

\* The file that starts last is one of the set and no other starts later.
LEMMA LejanoDa ==
  ASSUME FCBs, DOMAIN lista \subseteq Archivos, NEW S \in SUBSET DOMAIN lista, S # {}
  PROVE  Lejano(S) \in S /\ \A g \in S : lista[Lejano(S)].inicial >= lista[g].inicial
<1> DEFINE F == [f \in S |-> lista[f].inicial]
<1>1. F \in [S -> Nat]
  BY DEF FCBs
<1>2. IsFiniteSet(S)
  BY ListaFinita
<1>3. PICK x \in S : \A y \in S : F[x] >= F[y]
  <2> HIDE DEF F
  <2> QED BY <1>1, <1>2, MaximoFinito
<1>4. \A g \in S : lista[x].inicial >= lista[g].inicial
  BY <1>3
<1> QED
  BY <1>4 DEF Lejano

\* No file ends after the limit of a truncation, nor after it less the blocks asked for.
LEMMA LimiteDa ==
  ASSUME FCBs, DOMAIN lista \subseteq Archivos, NEW n \in Nat
  PROVE  /\ Limite(n) \in Nat
         /\ \A f \in DOMAIN lista : Fin(lista[f]) + n <= Limite(n)
<1> DEFINE F == [f \in DOMAIN lista |-> Fin(lista[f]) + n]
           S == {BLOCK_COUNT - 1} \cup {Fin(lista[f]) + n : f \in DOMAIN lista}
<1>0. \A f \in DOMAIN lista : Fin(lista[f]) + n \in Nat
  BY BloquesTipo DEF FCBs, Fin
<1>1. F \in [DOMAIN lista -> Nat]
  BY <1>0
<1>2. IsFiniteSet(DOMAIN lista)
  BY ListaFinita
<1>3. BLOCK_COUNT - 1 \in Nat
  BY DialFsAssumption
<1>4. PICK m \in Nat : S \in SUBSET (0 .. m)
  <2>1. CASE DOMAIN lista = {}
    BY <1>3, <2>1
  <2>2. CASE DOMAIN lista # {}
    <3>1. PICK x \in DOMAIN lista : \A y \in DOMAIN lista : F[x] >= F[y]
      <4> HIDE DEF F
      <4> QED BY <1>1, <1>2, <2>2, MaximoFinito
    <3>2. \A y \in DOMAIN lista : Fin(lista[y]) + n <= Fin(lista[x]) + n
      BY <3>1
    <3>3. Fin(lista[x]) + n + BLOCK_COUNT \in Nat /\ Fin(lista[x]) + n \in Nat
      BY <1>0, DialFsAssumption
    <3>4. \A y \in S : y \in 0 .. Fin(lista[x]) + n + BLOCK_COUNT
      BY <1>0, <1>3, <3>2, <3>3, DialFsAssumption
    <3> QED
      BY <3>3, <3>4
  <2> QED
    BY <2>1, <2>2
<1>5. Max(S) \in S /\ \A y \in S : Max(S) >= y
  <2>1. S # {}
    OBVIOUS
  <2> HIDE DEF S
  <2> QED BY <1>4, <2>1, Maximo
<1>6. Limite(n) = Max(S)
  BY DEF Limite
<1>7. Max(S) \in Nat
  BY <1>4, <1>5
<1>8. \A f \in DOMAIN lista : Fin(lista[f]) + n \in S
  OBVIOUS
<1> HIDE DEF S
<1> QED
  BY <1>0, <1>5, <1>6, <1>7, <1>8

-----------------------------------------------------------------------------
(* What the invariant says where no file is moving or changing its size *)

\* What IDisco says of a state in which every file is what its FCB says.
LEMMA Vista ==
  ITipoDatos /\ ITipoOp =>
    /\ FCBs
    /\ \A f \in DOMAIN lista : Cuantos(f) \in Nat /\ Cuantos(f) >= 1
    /\ Firmes \subseteq DOMAIN lista
<1> SUFFICES ASSUME ITipoDatos, ITipoOp
             PROVE  FCBs /\ (\A f \in DOMAIN lista : Cuantos(f) \in Nat /\ Cuantos(f) >= 1)
  BY DEF Firmes
<1>1. FCBs /\ \A f \in DOMAIN lista : lista[f].tam \in Nat
  BY DEF ITipoDatos, FCBs
<1>2. op.en = "tamanio" => op.nuevo \in Nat
  BY DEF ITipoOp, Sigue
<1> QED
  BY <1>1, <1>2, BloquesTipo DEF Cuantos

Neutros == {"reposo", "responde", "piezas"}
Quietos == Neutros \cup EnCrea \cup {"agrega", "detras", "empuja"}

Quieto == op.en \in Quietos /\ FCBs

VistaQuieta ==
  /\ Firmes = DOMAIN lista
  /\ \A f \in DOMAIN lista :
       /\ lista[f].inicial \in Nat /\ lista[f].tam \in Nat
       /\ Bloques(lista[f].tam) \in Nat /\ Bloques(lista[f].tam) >= 1
       /\ Donde(f) = lista[f].inicial /\ Cuantos(f) = Bloques(lista[f].tam)
       /\ Extension(f) = Rango(lista[f].inicial, Bloques(lista[f].tam))

\* Between operations, what is in memory is where the files are.
LEMMA Quieta == Quieto => VistaQuieta
BY BloquesTipo DEF Quieto, VistaQuieta, Neutros, Quietos, EnCrea, FCBs, Firmes, Donde, Cuantos,
                   Extension

\* The same, of the next state.
LEMMA QuietaP == Quieto' => VistaQuieta'
BY Quieta, PTL

\* Every file has its blocks and no other has them.
Ordenado ==
  /\ mapa \subseteq Nat
  /\ DOMAIN lista \subseteq Archivos
  /\ FCBs
  /\ \A f \in DOMAIN lista : Rango(lista[f].inicial, Bloques(lista[f].tam)) \subseteq mapa
  /\ \A f, g \in DOMAIN lista :
       f # g => Aparte(lista[f].inicial, Bloques(lista[f].tam), lista[g].inicial, Bloques(lista[g].tam))

\* An ordered disk, out of the invariant,
LEMMA OrdenadoSale ==
  ASSUME IDisco, op.en \in Quietos
  PROVE  Ordenado /\ VistaQuieta /\ (op.en \notin EnCrea \ {"crea_fcb"} => directorio = lista)
<1>1. Quieto
  BY Vista DEF IDisco, Quieto
<1>2. VistaQuieta
  BY <1>1, Quieta
<1> QED
  BY <1>1, <1>2 DEF VistaQuieta, IDisco, Ordenado, ITipoDatos, IOcupa, IAparte, ICopia, Quietos,
                    EnCrea, Neutros, Quieto

\* An FCB with both keys is one of those an FCB file may have.
LEMMA EnteroEnDisco == [inicial : Nat, tam : Nat] \subseteq EnDisco
BY DEF EnDisco

QuietoEntra ==
  /\ op.en \in Quietos /\ Ordenado
  /\ \A f \in DOMAIN directorio : directorio[f] \in EnDisco
  /\ DOMAIN directorio \subseteq Archivos
  /\ ITipoOp /\ INuevo /\ ICopia /\ ISitio /\ ILimite

\* and back into it,
LEMMA Entra == QuietoEntra => IDisco
<1> SUFFICES ASSUME QuietoEntra PROVE IDisco
  OBVIOUS
<1> USE DEF QuietoEntra
<1>1. VistaQuieta
  BY Quieta DEF Ordenado, Quieto
<1>2. ITipoDatos
  BY DEF ITipoDatos, Ordenado
<1>3. IOcupa /\ IAparte
  BY <1>1 DEF Ordenado, IOcupa, IAparte, VistaQuieta
<1>4. ITamanio /\ ICaida
  BY DEF Quietos, EnCrea, Neutros, ITamanio, ICaida
<1> QED
  BY <1>2, <1>3, <1>4 DEF IDisco

\* in the next state,
LEMMA EntraP == QuietoEntra' => IDisco'
BY Entra, PTL

NeutroEntra == op.en \in Neutros /\ Ordenado /\ directorio = lista

\* between operations,
LEMMA EntraNeutra == NeutroEntra => IDisco
<1> SUFFICES ASSUME NeutroEntra PROVE IDisco
  OBVIOUS
<1> USE DEF NeutroEntra
<1>1. Sigue.en \in Neutros
  BY DEF Neutros, Sigue
<1>2. ITipoOp /\ INuevo /\ ICopia /\ ISitio /\ ILimite
  BY <1>1 DEF Neutros, EnCrea, ITipoOp, INuevo, ICopia, ISitio, ILimite, Crece
<1>3. /\ \A f \in DOMAIN directorio : directorio[f] \in EnDisco
      /\ DOMAIN directorio \subseteq Archivos
  BY EnteroEnDisco DEF Ordenado, FCBs
<1>4. op.en \in Quietos
  BY DEF Quietos
<1> QED
  BY <1>2, <1>3, <1>4, Entra DEF QuietoEntra

\* in the next state too.
LEMMA EntraNeutraP == NeutroEntra' => IDisco'
BY EntraNeutra, PTL

-----------------------------------------------------------------------------
(* The operations *)

\* The empty disk.
LEMMA InicioBien == DiscoInit => IDisco
<1> SUFFICES ASSUME DiscoInit PROVE IDisco
  OBVIOUS
<1>1. op.en \in Neutros /\ directorio = lista /\ DOMAIN lista = {}
  BY DEF DiscoInit, Reposo, Neutros
<1>2. Ordenado
  BY <1>1 DEF DiscoInit, Ordenado, FCBs
<1> QED
  BY <1>1, <1>2, EntraNeutra DEF NeutroEntra

\* An operation begins, goes on or ends, and touches no file.
LEMMA NeutraBien ==
  ASSUME IDisco, op.en \in Neutros, op'.en \in Neutros, UNCHANGED <<mapa, directorio, lista>>
  PROVE  IDisco'
<1>1. Ordenado /\ directorio = lista
  BY OrdenadoSale DEF Neutros, Quietos, EnCrea
<1>2. Ordenado'
  BY <1>1 DEF Ordenado, FCBs
<1> QED
  BY <1>1, <1>2, EntraNeutraP DEF NeutroEntra

\* The process dies: what the FCBs say is still all in the bitmap, unless Peligro.
LEMMA MuereBien ==
  ASSUME IDisco, Muere, op.en # "caida"
  PROVE  IDisco'
<1> USE DEF IDisco
<1>1. op' = Caida /\ lista' = << >> /\ directorio' = directorio /\ mapa' = mapa
      /\ roto' = (roto \/ Peligro)
  BY DEF Muere
<1>2. op'.en = "caida" /\ DOMAIN lista' = {} /\ Sigue'.en = "caida"
  BY <1>1 DEF Caida, Sigue
<1>3. ITipoDatos' /\ ITipoOp'
  BY <1>1, <1>2 DEF ITipoDatos, ITipoOp, FCBs, EnDisco, EnCrea
<1>4. Firmes' = {}
  BY <1>2 DEF Firmes
<1>5. IOcupa' /\ IAparte' /\ INuevo' /\ ICopia' /\ ISitio' /\ ITamanio' /\ ILimite'
  BY <1>2, <1>4 DEF IOcupa, IAparte, INuevo, ICopia, ISitio, ITamanio, ILimite, Crece, EnCrea
<1>6. ICaida'
  <2>1. SUFFICES ASSUME ~ roto',
                        NEW f \in DOMAIN directorio, directorio[f].tam # SINDATO
                 PROVE  /\ Rango(directorio[f].inicial, Bloques(directorio[f].tam))
                             \subseteq mapa \cap Persistentes
                        /\ \A g \in DOMAIN directorio \ {f} : directorio[g].tam # SINDATO =>
                             Aparte(directorio[f].inicial, Bloques(directorio[f].tam),
                                    directorio[g].inicial, Bloques(directorio[g].tam))
    BY <1>1, <1>2 DEF ICaida
  <2>2. ~ roto /\ ~ Peligro
    BY <1>1, <2>1
  <2> DEFINE Nueva(g) == /\ op.en \in {"repite", "repetida"} /\ g = op.f
                         /\ directorio[g] = [inicial |-> op.bloque, tam |-> 0]
  <2>3. \A g \in DOMAIN directorio : directorio[g].tam # SINDATO =>
          Nueva(g) \/ (g \in DOMAIN lista /\ directorio[g] = lista[g])
    BY <2>2 DEF ICopia, Con, Peligro, Hay
  <2>4. \A g \in DOMAIN lista :
          /\ g \in Firmes /\ Donde(g) = lista[g].inicial
          /\ Cuantos(g) >= Bloques(lista[g].tam)
    <3>1. \A g \in DOMAIN lista : Bloques(lista[g].tam) \in Nat
      BY BloquesTipo, Vista DEF FCBs
    <3>2. \A g \in DOMAIN lista : g \in Firmes /\ Donde(g) = lista[g].inicial
      BY <2>2, Vista DEF Firmes, Donde, Peligro, FCBs
    <3>3. op.en = "tamanio" => Bloques(op.nuevo) >= Bloques(lista[op.f].tam)
      BY <2>2 DEF Peligro, ITamanio
    <3> QED
      BY <3>1, <3>2, <3>3 DEF Cuantos
  <2>5. \A g \in DOMAIN lista : lista[g].inicial \in Nat /\ Bloques(lista[g].tam) \in Nat
                                /\ Cuantos(g) \in Nat
    BY BloquesTipo, Vista DEF FCBs
  <2>6. \A g \in DOMAIN lista : Extension(g) \subseteq mapa /\ Extension(g) \subseteq Persistentes
    BY <2>2, <2>4 DEF IOcupa, Peligro
  <2>7. \A g \in DOMAIN lista : Rango(lista[g].inicial, Bloques(lista[g].tam)) \subseteq Extension(g)
    BY <2>4, <2>5 DEF Extension, Rango
  <2>8. \A g, h \in DOMAIN lista : g # h =>
          Aparte(lista[g].inicial, Bloques(lista[g].tam), lista[h].inicial, Bloques(lista[h].tam))
    BY <2>4, <2>5 DEF IAparte, Aparte
  <2>9. ASSUME NEW g \in DOMAIN directorio, Nueva(g)
        PROVE  /\ Bloques(directorio[g].tam) = 1 /\ directorio[g].inicial = op.bloque
               /\ op.bloque \in Nat /\ op.bloque \in mapa \cap Persistentes
               /\ \A h \in DOMAIN lista :
                    /\ Aparte(op.bloque, 1, lista[h].inicial, Bloques(lista[h].tam))
                    /\ Aparte(lista[h].inicial, Bloques(lista[h].tam), op.bloque, 1)
    <3>1. op.bloque \in mapa /\ op.bloque \in 0 .. BLOCK_COUNT - 1
      BY <2>9 DEF ITipoOp, EnCrea
    <3>2. op.bloque \in Persistentes
      BY <3>1, DialFsAssumption DEF Persistentes
    <3>3. \A h \in DOMAIN lista : op.bloque \notin Rango(lista[h].inicial, Bloques(lista[h].tam))
      BY <2>7, <2>9 DEF INuevo, EnCrea
    <3> QED
      BY <2>5, <2>9, <3>1, <3>2, <3>3 DEF Bloques, Aparte, Rango
  <2>10. CASE Nueva(f)
    <3>1. Rango(op.bloque, 1) = {op.bloque}
      BY <2>9, <2>10 DEF Rango
    <3>2. \A g \in DOMAIN directorio \ {f} : directorio[g].tam # SINDATO =>
            g \in DOMAIN lista /\ directorio[g] = lista[g]
      BY <2>3, <2>10
    <3> HIDE DEF Nueva
    <3> QED
      BY <2>1, <2>9, <2>10, <3>1, <3>2
  <2>11. CASE f \in DOMAIN lista /\ directorio[f] = lista[f]
    <3> HIDE DEF Nueva
    <3> QED
      BY <2>1, <2>3, <2>6, <2>7, <2>8, <2>9, <2>11
  <2> HIDE DEF Nueva
  <2> QED
    BY <2>1, <2>3, <2>10, <2>11
<1> QED
  BY <1>3, <1>5, <1>6

-----------------------------------------------------------------------------
(* Creation and deletion *)

\* The new block is of nobody.
LEMMA CreaBien ==
  ASSUME IDisco, op.en \in Neutros, NEW f \in Archivos, Crea(f)
  PROVE  IDisco'
<1> DEFINE libres == (0 .. BLOCK_COUNT - 1) \ mapa
           b == Min(libres)
<1>1. CASE Muere
  BY <1>1, MuereBien DEF Neutros
<1>2. CASE /\ libres # {}
           /\ mapa' = mapa \cup {b}
           /\ op' = Creando("crea_fcb", f, b)
           /\ UNCHANGED <<directorio, lista, roto>>
  <2>1. Ordenado /\ directorio = lista
    BY OrdenadoSale DEF Neutros, Quietos, EnCrea
  <2>2. b \in libres
    <3>1. libres \in SUBSET Nat
      OBVIOUS
    <3> HIDE DEF libres
    <3> QED BY <1>2, <3>1, MinimoDa
  <2>3. b \in Nat /\ b \in 0 .. BLOCK_COUNT - 1 /\ b \notin mapa
    BY <2>2
  <2> HIDE DEF b, libres
  <2>4. op'.en = "crea_fcb" /\ op'.f = f /\ op'.bloque = b /\ Sigue'.en = "crea_fcb"
    BY <1>2 DEF Sigue, Creando
  <2>5. Ordenado'
    BY <1>2, <2>1, <2>3 DEF Ordenado, FCBs
  <2>6. op'.en \in Quietos /\ VistaQuieta'
    BY <2>4, <2>5, QuietaP DEF Ordenado, Quietos, EnCrea, Quieto
  <2>7. ITipoOp' /\ ICopia' /\ ISitio' /\ ILimite'
    BY <1>2, <2>1, <2>3, <2>4 DEF ITipoOp, EnCrea, ICopia, ISitio, ILimite, Crece
  <2>8. INuevo'
    BY <1>2, <2>1, <2>3, <2>4, <2>6 DEF INuevo, Ordenado, VistaQuieta
  <2> QED
    BY <1>2, <2>1, <2>5, <2>6, <2>7, <2>8, EntraP, EnteroEnDisco DEF QuietoEntra, Ordenado, FCBs
<1> QED
  BY <1>1, <1>2 DEF Crea

\* A step of a creation that leaves the list and the bitmap as they are.
LEMMA CreandoBien ==
  ASSUME IDisco, op.en \in EnCrea, op'.en \in EnCrea, op'.f = op.f, op'.bloque = op.bloque,
         op'.en \in {"repite", "repetida"} => Hay(op.f),
         UNCHANGED <<mapa, lista>>, ICopia',
         DOMAIN directorio' \subseteq Archivos, \A g \in DOMAIN directorio' : directorio'[g] \in EnDisco
  PROVE  IDisco'
<1>1. Ordenado /\ VistaQuieta
  BY OrdenadoSale DEF Quietos
<1>2. Sigue' = op'
  BY DEF Sigue, EnCrea
<1>3. Ordenado'
  BY <1>1 DEF Ordenado, FCBs
<1>4. op'.en \in Quietos /\ VistaQuieta'
  BY <1>3, QuietaP DEF Ordenado, Quietos, Quieto
<1>5. op.f \in Archivos /\ op.bloque \in mapa \cap (0 .. BLOCK_COUNT - 1)
  BY DEF IDisco, ITipoOp
<1>6. ITipoOp' /\ ISitio' /\ ILimite'
  BY <1>2, <1>5 DEF ITipoOp, ISitio, ILimite, Crece, EnCrea, Hay
<1>7. INuevo'
  BY <1>1, <1>4 DEF INuevo, VistaQuieta, IDisco
<1> QED
  BY <1>3, <1>4, <1>6, <1>7, EntraP DEF QuietoEntra

\* What a creation knows.
LEMMA CreandoTipo ==
  ASSUME IDisco, op.en \in EnCrea
  PROVE  /\ op.f \in Archivos /\ op.bloque \in mapa /\ op.bloque \in Nat
         /\ DOMAIN directorio \subseteq Archivos
         /\ \A g \in DOMAIN directorio : directorio[g] \in EnDisco
BY DEF IDisco, ITipoOp, ITipoDatos

\* The FCB file is there, perhaps with nothing in it.
LEMMA CreaFcbBien ==
  ASSUME IDisco, CreaFcb
  PROVE  IDisco'
<1>1. op.en = "crea_fcb" /\ UNCHANGED <<mapa, lista>> /\ op'.en = "crea_inicial"
      /\ op'.f = op.f /\ op'.bloque = op.bloque
      /\ directorio' = IF op.f \in DOMAIN directorio THEN directorio
                       ELSE Con(directorio, op.f, SINDATO, SINDATO)
  BY DEF CreaFcb, Creando
<1>2. directorio = lista
  BY <1>1 DEF IDisco, ICopia
<1>3. ICopia'
  BY <1>1, <1>2 DEF ICopia, Hay, Con
<1>4. DOMAIN directorio' \subseteq Archivos /\ \A g \in DOMAIN directorio' : directorio'[g] \in EnDisco
  BY <1>1, CreandoTipo DEF Con, EnDisco, EnCrea
<1> QED
  BY <1>1, <1>3, <1>4, CreandoBien DEF EnCrea

\* The first save leaves the size that was in the file.
LEMMA CreaInicialBien ==
  ASSUME IDisco, CreaInicial
  PROVE  IDisco'
<1>1. op.en = "crea_inicial" /\ UNCHANGED <<mapa, lista>> /\ op'.en = "crea_tamanio"
      /\ op'.f = op.f /\ op'.bloque = op.bloque
      /\ directorio' = Con(directorio, op.f, op.bloque, directorio[op.f].tam)
  BY DEF CreaInicial, Creando
<1>2. directorio = IF Hay(op.f) THEN lista ELSE Con(lista, op.f, SINDATO, SINDATO)
  BY <1>1 DEF IDisco, ICopia
<1>3. op.f \in DOMAIN directorio
      /\ directorio[op.f].tam = IF Hay(op.f) THEN lista[op.f].tam ELSE SINDATO
  BY <1>2 DEF Hay, Con
<1>4. Con(directorio, op.f, op.bloque, directorio[op.f].tam)
        = Con(lista, op.f, op.bloque, IF Hay(op.f) THEN lista[op.f].tam ELSE SINDATO)
  BY <1>2, <1>3 DEF Hay, Con
<1>5. ICopia'
  BY <1>1, <1>4 DEF ICopia, Hay, Con
<1>6. DOMAIN directorio' \subseteq Archivos /\ \A g \in DOMAIN directorio' : directorio'[g] \in EnDisco
  <2>1. directorio[op.f].tam \in Nat \cup {SINDATO}
    BY <1>1, <1>3, CreandoTipo DEF EnDisco, EnCrea
  <2> QED
    BY <1>1, <2>1, CreandoTipo DEF Con, EnDisco, EnCrea
<1> QED
  BY <1>1, <1>5, <1>6, CreandoBien DEF EnCrea

\* The second makes it a file of one block, if the name was not in the list.
LEMMA CreaTamanioBien ==
  ASSUME IDisco, CreaTamanio
  PROVE  IDisco'
<1>1. op.en = "crea_tamanio" /\ mapa' = mapa /\ directorio' = Con(directorio, op.f, op.bloque, 0)
  BY DEF CreaTamanio
<1>2. Ordenado /\ VistaQuieta
  BY <1>1, OrdenadoSale DEF Quietos, EnCrea
<1>3. op.f \in Archivos /\ op.bloque \in mapa /\ op.bloque \in Nat
  BY <1>1, CreandoTipo DEF EnCrea
<1>5. directorio' = Con(lista, op.f, op.bloque, 0)
  BY <1>1, <1>3 DEF IDisco, ICopia, Con
<1>a. CASE ~ Hay(op.f) /\ lista' = Con(lista, op.f, op.bloque, 0) /\ op' = Responde
  <2>4. /\ DOMAIN lista' = DOMAIN lista \cup {op.f}
        /\ lista'[op.f].inicial = op.bloque /\ lista'[op.f].tam = 0
        /\ lista'[op.f] \in [inicial : Nat, tam : Nat]
        /\ \A g \in DOMAIN lista : lista'[g] = lista[g]
    BY <1>3, <1>a DEF Con, Hay
  <2>6. Bloques(0) = 1
    BY DEF Bloques
  <2>7. Rango(op.bloque, 1) = {op.bloque}
    BY <1>3 DEF Rango
  <2>8. \A g \in DOMAIN lista : Aparte(op.bloque, 1, lista[g].inicial, Bloques(lista[g].tam))
                              /\ Aparte(lista[g].inicial, Bloques(lista[g].tam), op.bloque, 1)
    BY <1>1, <1>2, <1>3 DEF IDisco, INuevo, EnCrea, VistaQuieta, Aparte, Rango
  <2>9. Ordenado'
    <3>1. FCBs' /\ DOMAIN lista' \subseteq Archivos /\ mapa' \subseteq Nat
      BY <1>1, <1>2, <1>3, <2>4 DEF FCBs, Ordenado
    <3>2. \A f \in DOMAIN lista' : Rango(lista'[f].inicial, Bloques(lista'[f].tam)) \subseteq mapa'
      BY <1>1, <1>2, <1>3, <2>4, <2>6, <2>7 DEF Ordenado
    <3>3. \A f, g \in DOMAIN lista' : f # g =>
            Aparte(lista'[f].inicial, Bloques(lista'[f].tam), lista'[g].inicial, Bloques(lista'[g].tam))
      BY <1>2, <1>3, <2>4, <2>6, <2>8 DEF Ordenado
    <3> QED
      BY <3>1, <3>2, <3>3 DEF Ordenado
  <2>10. op'.en \in Neutros
    BY <1>a DEF Responde, Neutros
  <2> QED
    BY <1>5, <1>a, <2>9, <2>10, EntraNeutraP DEF NeutroEntra
<1>b. CASE Hay(op.f) /\ UNCHANGED lista /\ op' = Creando("repite", op.f, op.bloque)
  <2>1. op'.en = "repite" /\ op'.f = op.f /\ op'.bloque = op.bloque
    BY <1>b DEF Creando
  <2>2. ICopia'
    BY <1>5, <1>b, <2>1 DEF ICopia
  <2>3. DOMAIN directorio' \subseteq Archivos
        /\ \A g \in DOMAIN directorio' : directorio'[g] \in EnDisco
    BY <1>1, <1>3, CreandoTipo DEF Con, EnDisco, EnCrea
  <2> QED
    BY <1>1, <1>b, <2>1, <2>2, <2>3, CreandoBien DEF EnCrea
<1> QED
  BY <1>a, <1>b DEF CreaTamanio

\* The bits that are cleared are of the file that goes.
LEMMA BorraBien ==
  ASSUME IDisco, op.en \in Neutros, NEW f \in Archivos, Borra(f)
  PROVE  IDisco'
<1>1. CASE Muere
  BY <1>1, MuereBien DEF Neutros
<1>2. CASE /\ Hay(f)
           /\ mapa' = mapa \ Rango(lista[f].inicial, Techo(lista[f].tam))
           /\ op' = [en |-> "borra", f |-> f]
           /\ UNCHANGED <<directorio, lista, roto>>
  <2>1. Ordenado /\ VistaQuieta /\ directorio = lista
    BY OrdenadoSale DEF Neutros, Quietos, EnCrea
  <2>2. op'.en = "borra" /\ op'.f = f /\ Sigue' = op' /\ f \in DOMAIN lista
    BY <1>2 DEF Sigue, Hay
  <2>3. ITipoDatos' /\ ITipoOp' /\ ICopia'
    BY <1>2, <2>1, <2>2, EnteroEnDisco DEF ITipoDatos, ITipoOp, ICopia, Ordenado, FCBs, EnCrea
  <2>4. ISitio' /\ ITamanio' /\ ICaida' /\ ILimite' /\ INuevo'
    BY <2>2 DEF ISitio, ITamanio, ICaida, ILimite, INuevo, Crece, EnCrea
  <2>5. \A g \in DOMAIN lista : Donde(g)' = lista[g].inicial /\ Cuantos(g)' = Bloques(lista[g].tam)
    BY <1>2, <2>1, <2>2 DEF Donde, Cuantos, VistaQuieta
  <2>6. Firmes' \subseteq DOMAIN lista /\ (f \in Firmes' => Techo(lista[f].tam) = 0)
    <3>1. lista[f].tam \in Nat
      BY <2>1, <2>2 DEF VistaQuieta
    <3> QED
      BY <1>2, <2>2, <3>1, TechoCero DEF Firmes
  <2>7. IAparte'
    BY <2>1, <2>5, <2>6 DEF IAparte, Ordenado
  <2>8. IOcupa'
    <3>1. SUFFICES ASSUME NEW g \in Firmes' PROVE Donde(g)' \in Nat /\ Extension(g)' \subseteq mapa'
      BY DEF IOcupa
    <3>2. /\ Donde(g)' = lista[g].inicial /\ lista[g].inicial \in Nat
          /\ Extension(g)' = Rango(lista[g].inicial, Bloques(lista[g].tam))
          /\ Rango(lista[g].inicial, Bloques(lista[g].tam)) \subseteq mapa
      BY <2>1, <2>5, <2>6, <3>1 DEF VistaQuieta, Extension, Ordenado
    <3>3. CASE g = f
      BY <1>2, <2>1, <2>2, <2>6, <3>2, <3>3 DEF VistaQuieta, Rango
    <3>4. CASE g # f
      <4>1. Techo(lista[f].tam) \in Nat /\ Techo(lista[f].tam) <= Bloques(lista[f].tam)
        BY <2>1, <2>2, BloquesTipo, TechoCero DEF VistaQuieta
      <4>2. g \in DOMAIN lista
            /\ Aparte(lista[g].inicial, Bloques(lista[g].tam), lista[f].inicial, Bloques(lista[f].tam))
        BY <2>1, <2>2, <2>6, <3>1, <3>4 DEF Ordenado
      <4>3. /\ lista[f].inicial \in Nat /\ Bloques(lista[f].tam) \in Nat
            /\ Bloques(lista[g].tam) \in Nat
        BY <2>1, <2>2, <4>2 DEF VistaQuieta
      <4>4. \A b \in Rango(lista[g].inicial, Bloques(lista[g].tam)) :
              b \notin Rango(lista[f].inicial, Techo(lista[f].tam))
        BY <3>2, <4>1, <4>2, <4>3 DEF Rango, Aparte
      <4> QED
        BY <1>2, <3>2, <4>4
    <3> QED
      BY <3>3, <3>4
  <2> QED
    BY <2>3, <2>4, <2>7, <2>8 DEF IDisco
<1> QED
  BY <1>1, <1>2 DEF Borra

\* And then it is not in the list.
LEMMA BorraFcbBien ==
  ASSUME IDisco, BorraFcb
  PROVE  IDisco'
<1>1. op.en = "borra" /\ directorio' = Sin(directorio, op.f) /\ lista' = Sin(lista, op.f)
      /\ op' = Responde /\ mapa' = mapa /\ directorio = lista
  BY DEF BorraFcb, IDisco, ICopia
<1>2. op.f \in DOMAIN lista
  BY <1>1 DEF IDisco, ITipoOp
<1>3. DOMAIN lista' = DOMAIN lista \ {op.f} /\ \A g \in DOMAIN lista' : lista'[g] = lista[g]
  BY <1>1 DEF Sin
<1>4. FCBs
  BY Vista DEF IDisco
<1>5. \A g \in DOMAIN lista' :
        /\ g \in Firmes /\ Donde(g) = lista[g].inicial /\ Cuantos(g) = Bloques(lista[g].tam)
        /\ Extension(g) = Rango(lista[g].inicial, Bloques(lista[g].tam))
  BY <1>1, <1>2, <1>3, <1>4 DEF FCBs, Firmes, Donde, Cuantos, Extension
<1>6. Ordenado'
  <2>1. FCBs' /\ DOMAIN lista' \subseteq Archivos /\ mapa' \subseteq Nat
    BY <1>1, <1>3, <1>4 DEF FCBs, IDisco, ITipoDatos
  <2>2. \A f \in DOMAIN lista' : Rango(lista'[f].inicial, Bloques(lista'[f].tam)) \subseteq mapa'
    BY <1>1, <1>3, <1>5 DEF IDisco, IOcupa
  <2>3. \A f, g \in DOMAIN lista' : f # g =>
          Aparte(lista'[f].inicial, Bloques(lista'[f].tam), lista'[g].inicial, Bloques(lista'[g].tam))
    BY <1>3, <1>5 DEF IDisco, IAparte
  <2> QED
    BY <2>1, <2>2, <2>3 DEF Ordenado
<1>7. op'.en \in Neutros /\ directorio' = lista'
  BY <1>1 DEF Responde, Neutros
<1> QED
  BY <1>6, <1>7, EntraNeutraP DEF NeutroEntra

-----------------------------------------------------------------------------
(* To move a file *)

\* No other file is where f goes or between.
Lejos(f, d) ==
  \A g \in DOMAIN lista \ {f} :
    \/ lista[g].inicial + Bloques(lista[g].tam) <= lista[f].inicial + (IF d < 0 THEN d ELSE 0)
    \/ lista[g].inicial >= lista[f].inicial + Bloques(lista[f].tam) + (IF d < 0 THEN 0 ELSE d)

\* Mueve, when it does not fault.
Salta(f, d, sigue) ==
  /\ mapa' = (mapa \cup (IF d < 0 THEN Rango(lista[f].inicial + d, - d)
                                  ELSE Rango(Fin(lista[f]) + 1, d)))
               \ (IF d < 0 THEN Rango(Fin(lista[f]) + d + 1, - d) ELSE Rango(lista[f].inicial, d))
  /\ op' = [en |-> "fcb", mueve |-> f, d |-> d, sigue |-> sigue]
  /\ UNCHANGED <<directorio, lista, roto>>

\* mover_archivo to another place is a jump of d blocks that waits for its FCB.
LEMMA MueveSalta ==
  ASSUME NEW f, NEW d, NEW sigue, Mueve(f, d, sigue)
  PROVE  Salta(f, d, sigue) \/ Muere
BY DEF Mueve, Salta

\* Where everything is while the FCB of f waits to be saved.
VistaSalta(f, d) ==
  /\ op'.en = "fcb" /\ op'.mueve = f /\ op'.d = d /\ Firmes' = DOMAIN lista
  /\ lista[f].inicial + d \in Nat
  /\ Donde(f)' = lista[f].inicial + d
  /\ \A g \in DOMAIN lista \ {f} : Donde(g)' = lista[g].inicial
  /\ \A g \in DOMAIN lista : Cuantos(g)' = Bloques(lista[g].tam)

\* Where the files are after a jump.
LEMMA SaltaVista ==
  ASSUME IDisco, op.en \in Quietos, NEW f \in DOMAIN lista, NEW d \in Int, NEW sigue,
         Salta(f, d, sigue), lista[f].inicial + d \in Nat
  PROVE  VistaSalta(f, d)
<1>1. VistaQuieta
  BY OrdenadoSale
<1>2. op'.en = "fcb" /\ op'.mueve = f /\ op'.d = d /\ lista' = lista
  BY DEF Salta
<1>3. Firmes' = DOMAIN lista
  BY <1>2 DEF Firmes
<1>4. /\ Donde(f)' = lista[f].inicial + d
      /\ \A g \in DOMAIN lista \ {f} : Donde(g)' = lista[g].inicial
      /\ \A g \in DOMAIN lista : Cuantos(g)' = Bloques(lista[g].tam)
  BY <1>1, <1>2 DEF Donde, Cuantos, VistaQuieta
<1> QED
  BY <1>2, <1>3, <1>4 DEF VistaSalta

\* The file is whole in its new place, and nobody lost a block.
LEMMA SaltaBien ==
  ASSUME IDisco, op.en \in Quietos, NEW f \in DOMAIN lista, NEW d \in Int, NEW sigue,
         Salta(f, d, sigue), Lejos(f, d), lista[f].inicial + d \in Nat
  PROVE  IOcupa' /\ IAparte' /\ mapa' \subseteq Nat
<1>1. Ordenado /\ VistaQuieta /\ VistaSalta(f, d)
  BY OrdenadoSale, SaltaVista
<1> DEFINE i == lista[f].inicial
           n == Bloques(lista[f].tam)
<1>2. i \in Nat /\ n \in Nat /\ n >= 1 /\ i + d \in Nat /\ Rango(i, n) \subseteq mapa
      /\ Fin(lista[f]) = i + n - 1
  BY <1>1 DEF VistaQuieta, VistaSalta, Ordenado, Fin
<1>3. /\ Donde(f)' = i + d /\ Cuantos(f)' = n
      /\ \A g \in DOMAIN lista \ {f} : Donde(g)' = lista[g].inicial /\ Cuantos(g)' = Bloques(lista[g].tam)
      /\ Firmes' = DOMAIN lista
  BY <1>1 DEF VistaSalta
<1>4. \A g \in DOMAIN lista \ {f} :
        \/ lista[g].inicial + Bloques(lista[g].tam) <= i + (IF d < 0 THEN d ELSE 0)
        \/ lista[g].inicial >= i + n + (IF d < 0 THEN 0 ELSE d)
  BY DEF Lejos
<1>5. mapa' = (mapa \cup (IF d < 0 THEN Rango(i + d, - d) ELSE Rango(i + n, d)))
                \ (IF d < 0 THEN Rango(i + n + d, - d) ELSE Rango(i, d))
  <2>1. Fin(lista[f]) + 1 = i + n /\ Fin(lista[f]) + d + 1 = i + n + d
    BY <1>2
  <2> QED
    BY <2>1 DEF Salta
<1>6. \A g \in DOMAIN lista : lista[g].inicial \in Nat /\ Bloques(lista[g].tam) \in Nat
  BY <1>1 DEF VistaQuieta
<1> HIDE DEF i, n
<1>7. IAparte'
  <2>1. SUFFICES ASSUME NEW g \in DOMAIN lista, NEW h \in DOMAIN lista, g # h
                 PROVE  Aparte(Donde(g)', Cuantos(g)', Donde(h)', Cuantos(h)')
    BY <1>3 DEF IAparte, Aparte
  <2>2. CASE g = f
    BY <1>2, <1>3, <1>4, <1>6, <2>1, <2>2 DEF Aparte
  <2>3. CASE h = f
    BY <1>2, <1>3, <1>4, <1>6, <2>1, <2>3 DEF Aparte
  <2>4. CASE g # f /\ h # f
    BY <1>1, <1>3, <2>1, <2>4 DEF Ordenado
  <2> QED
    BY <2>2, <2>3, <2>4
<1>8. Rango(i + d, n) \subseteq mapa'
  BY <1>2, <1>5 DEF Rango
<1>9. ASSUME NEW g \in DOMAIN lista \ {f}
      PROVE  Rango(lista[g].inicial, Bloques(lista[g].tam)) \subseteq mapa'
  <2>1. Rango(lista[g].inicial, Bloques(lista[g].tam)) \subseteq mapa
    BY <1>1 DEF Ordenado
  <2> QED
    BY <1>2, <1>4, <1>5, <1>6, <2>1 DEF Rango
<1>10. IOcupa'
  BY <1>2, <1>3, <1>6, <1>8, <1>9 DEF IOcupa, Extension
<1>11. mapa' \subseteq Nat
  BY <1>1, <1>2, <1>5 DEF Ordenado, Rango
<1> QED
  BY <1>7, <1>10, <1>11

\* To go back over clear bits.
LEMMA AtrasLejos ==
  ASSUME IDisco, op.en \in Quietos, NEW f \in DOMAIN lista, NEW n \in Nat, n > 0, n <= lista[f].inicial,
         \A i \in 1 .. n : lista[f].inicial - i \notin mapa
  PROVE  Lejos(f, - n)
<1>1. Ordenado /\ VistaQuieta
  BY OrdenadoSale
<1> SUFFICES ASSUME NEW g \in DOMAIN lista \ {f},
                    ~ (lista[g].inicial + Bloques(lista[g].tam) <= lista[f].inicial - n),
                    ~ (lista[g].inicial >= lista[f].inicial + Bloques(lista[f].tam))
             PROVE  FALSE
  BY <1>1 DEF Lejos, VistaQuieta
<1> DEFINE b == lista[g].inicial + Bloques(lista[g].tam) - 1
           k == lista[f].inicial - b
<1>2. /\ lista[g].inicial \in Nat /\ Bloques(lista[g].tam) \in Nat /\ Bloques(lista[g].tam) >= 1
      /\ lista[f].inicial \in Nat /\ Bloques(lista[f].tam) \in Nat
  BY <1>1 DEF VistaQuieta
<1>3. lista[g].inicial + Bloques(lista[g].tam) <= lista[f].inicial
  BY <1>1, <1>2 DEF Ordenado, Aparte
<1>4. b \in mapa
  BY <1>1, <1>2 DEF Ordenado, Rango
<1>5. k \in 1 .. n /\ lista[f].inicial - k = b
  BY <1>2, <1>3
<1> QED
  BY <1>4, <1>5

\* A move that keeps what the truncation knows.
LEMMA SaltaEntra ==
  ASSUME IDisco, op.en \in Quietos \ EnCrea, NEW f \in DOMAIN lista, NEW d \in Int, NEW sigue,
         Salta(f, d, sigue), Lejos(f, d), lista[f].inicial + d \in Nat, ITipoOp', ISitio', ILimite'
  PROVE  IDisco'
<1>1. IOcupa' /\ IAparte' /\ mapa' \subseteq Nat
  BY SaltaBien
<1>2. directorio = lista /\ Ordenado
  BY OrdenadoSale
<1>3. op'.en = "fcb" /\ UNCHANGED <<directorio, lista, roto>>
  BY DEF Salta
<1>4. ITipoDatos'
  BY <1>1, <1>3 DEF ITipoDatos, IDisco, FCBs
<1>5. INuevo' /\ ICopia' /\ ITamanio' /\ ICaida'
  BY <1>2, <1>3 DEF INuevo, ICopia, ITamanio, ICaida, EnCrea
<1> QED
  BY <1>1, <1>4, <1>5 DEF IDisco

\* The FCB then says what was already so.
LEMMA MueveFcbBien ==
  ASSUME IDisco, MueveFcb
  PROVE  IDisco'
<1> USE DEF IDisco
<1>1. op.en = "fcb" /\ op' = op.sigue /\ mapa' = mapa /\ roto' = roto
  BY DEF MueveFcb
<1>2. op.mueve \in DOMAIN lista /\ op.d \in Int /\ op.sigue.en \in {"agrega", "detras", "empuja"}
      /\ op.mueve \in Archivos
  BY <1>1 DEF ITipoDatos, ITipoOp, Sigue, EnCrea
<1>3. lista' = Con(lista, op.mueve, Donde(op.mueve), lista[op.mueve].tam) /\ directorio' = lista'
  BY <1>1, <1>2 DEF MueveFcb, Guarda, Donde, ICopia
<1>4. /\ DOMAIN lista' = DOMAIN lista
      /\ \A g \in DOMAIN lista : /\ lista'[g].inicial = Donde(g) /\ lista'[g].tam = lista[g].tam
                                 /\ lista'[g] \in [inicial : Nat, tam : Nat]
  <2>1. Donde(op.mueve) \in Nat /\ lista[op.mueve].tam \in Nat
    BY <1>1, <1>2, Vista DEF FCBs, IOcupa, Firmes
  <2>2. \A g \in DOMAIN lista \ {op.mueve} : Donde(g) = lista[g].inicial
    BY <1>1, Vista DEF Donde, FCBs
  <2> QED
    <3>1. FCBs
      BY Vista
    <3>2. /\ DOMAIN lista' = DOMAIN lista \cup {op.mueve}
          /\ \A g \in DOMAIN lista \cup {op.mueve} : lista'[g] \in [inicial : Nat, tam : Nat]
          /\ lista'[op.mueve] = [inicial |-> Donde(op.mueve), tam |-> lista[op.mueve].tam]
          /\ \A g \in DOMAIN lista \ {op.mueve} : lista'[g] = lista[g]
      BY <1>3, <2>1, <3>1 DEF Con, FCBs
    <3> QED
      BY <1>2, <2>2, <3>2
<1>5. Sigue' = Sigue /\ Sigue = op.sigue /\ op' = Sigue
  BY <1>1, <1>2 DEF Sigue
<1>6. \A g \in DOMAIN lista : Donde(g)' = Donde(g) /\ Cuantos(g)' = Cuantos(g)
  <2>1. op'.en \notin {"fcb", "tamanio"} /\ op.en \notin {"tamanio"}
    BY <1>1, <1>2
  <2>2. \A g \in DOMAIN lista : Donde(g)' = lista'[g].inicial /\ lista'[g].inicial \in Nat
    BY <1>4, <2>1 DEF Donde
  <2> QED
    BY <1>4, <2>1, <2>2 DEF Cuantos
<1>7. Firmes' = DOMAIN lista /\ Firmes = DOMAIN lista
  BY <1>1, <1>2, <1>4 DEF Firmes
<1>8. \A g \in DOMAIN lista : Extension(g)' = Extension(g)
  BY <1>6 DEF Extension
<1>9. \A g \in DOMAIN lista : Donde(g) \in Nat
  BY <1>7 DEF IOcupa
<1>10. ITipoDatos' /\ ITipoOp'
  <2>1. op'.en \notin {"fcb", "borra"} \cup EnCrea
    BY <1>1, <1>2 DEF EnCrea
  <2>2. \A g \in DOMAIN directorio' : directorio'[g] \in EnDisco
    BY <1>3, <1>4, EnteroEnDisco
  <2> QED
    BY <1>1, <1>3, <1>4, <1>5, <2>1, <2>2 DEF ITipoDatos, ITipoOp, FCBs, EnCrea
<1>11. IOcupa' /\ IAparte' /\ INuevo' /\ ICopia' /\ ITamanio' /\ ICaida'
  BY <1>1, <1>2, <1>3, <1>6, <1>7, <1>8 DEF IOcupa, IAparte, INuevo, ICopia, ITamanio, ICaida, EnCrea
<1>12. ISitio' /\ ILimite'
  BY <1>2, <1>4, <1>5, <1>6, <1>10 DEF ISitio, ILimite, Crece, Otros, Sitio, ITipoOp, EnCrea
<1> QED
  BY <1>10, <1>11, <1>12

-----------------------------------------------------------------------------
(* Truncation and compaction *)

\* Nobody is on the clear bits after f.
LEMMA DelanteLibre ==
  ASSUME Ordenado, VistaQuieta, NEW f \in DOMAIN lista, NEW n \in Nat,
         \A i \in 1 .. n : Fin(lista[f]) + i \notin mapa,
         NEW g \in DOMAIN lista \ {f}
  PROVE  \/ lista[g].inicial + Bloques(lista[g].tam) <= lista[f].inicial
         \/ lista[g].inicial >= lista[f].inicial + Bloques(lista[f].tam) + n
<1>2. /\ lista[g].inicial \in Nat /\ Bloques(lista[g].tam) \in Nat /\ Bloques(lista[g].tam) >= 1
      /\ lista[f].inicial \in Nat /\ Bloques(lista[f].tam) \in Nat /\ Bloques(lista[f].tam) >= 1
  BY DEF VistaQuieta
<1>3. \/ lista[g].inicial + Bloques(lista[g].tam) <= lista[f].inicial
      \/ lista[f].inicial + Bloques(lista[f].tam) <= lista[g].inicial
  BY DEF Ordenado, Aparte
<1>4. lista[g].inicial \in mapa
  BY <1>2 DEF Ordenado, Rango
<1> SUFFICES ASSUME lista[f].inicial + Bloques(lista[f].tam) <= lista[g].inicial,
                    lista[g].inicial < lista[f].inicial + Bloques(lista[f].tam) + n
             PROVE  FALSE
  BY <1>2, <1>3
<1> DEFINE k == lista[g].inicial - Fin(lista[f])
<1>5. k \in 1 .. n /\ Fin(lista[f]) + k = lista[g].inicial
  BY <1>2 DEF Fin
<1> QED
  BY <1>4, <1>5

\* The five ways a truncation begins.
LEMMA TruncaBien ==
  ASSUME IDisco, op.en \in Neutros, NEW f \in Archivos, NEW nuevo \in Nat, Trunca(f, nuevo)
  PROVE  IDisco'
<1> DEFINE i == lista[f].inicial
           n == Bloques(lista[f].tam)
           m == Bloques(nuevo)
           agrega == m - n
           delante == LibresDelante(Fin(lista[f]), agrega)
           detras == LibresDetras(i, agrega - delante)
           limite == Limite(IF agrega > 0 THEN agrega ELSE 0)
<1>1. CASE Muere
  BY <1>1, MuereBien DEF Neutros
<1>2. CASE ~ Muere
  <2>1. /\ Hay(f)
        /\ \/ agrega = 0 /\ Guarda(f, i, nuevo) /\ op' = Responde /\ UNCHANGED <<mapa, roto>>
           \/ /\ agrega < 0 /\ mapa' = mapa \ Rango(Fin(lista[f]) + agrega + 1, - agrega)
              /\ op' = Cambia("tamanio", f, nuevo, limite)
              /\ UNCHANGED <<directorio, lista, roto>>
           \/ /\ agrega > 0 /\ delante = agrega
              /\ op' = Cambia("agrega", f, nuevo, limite)
              /\ UNCHANGED <<mapa, directorio, lista, roto>>
           \/ /\ agrega > 0 /\ detras > 0 /\ delante + detras = agrega
              /\ Mueve(f, - detras, Cambia("agrega", f, nuevo, limite))
           \/ /\ agrega > 0
              /\ op' = Acerca(f, nuevo, limite, Detras(i) \cup {f})
              /\ UNCHANGED <<mapa, directorio, lista, roto>>
    BY <1>2 DEF Trunca
  <2>2. Ordenado /\ VistaQuieta /\ directorio = lista /\ op.en \in Quietos
    BY OrdenadoSale DEF Neutros, Quietos, EnCrea
  <2>3. f \in DOMAIN lista /\ i \in Nat /\ n \in Nat /\ n >= 1 /\ Fin(lista[f]) = i + n - 1
        /\ Fin(lista[f]) \in Nat /\ m \in Nat /\ m >= 1
    BY <2>1, <2>2, BloquesTipo DEF Hay, VistaQuieta, Fin
  <2>4. /\ limite \in Nat
        /\ \A g \in DOMAIN lista :
             lista[g].inicial + Bloques(lista[g].tam) - 1 + (IF agrega > 0 THEN agrega ELSE 0) <= limite
    <3> DEFINE crece == IF agrega > 0 THEN agrega ELSE 0
    <3>1. crece \in Nat
      BY <2>3
    <3>2. limite = Limite(crece)
      OBVIOUS
    <3> HIDE DEF crece, limite
    <3>3. limite \in Nat /\ \A g \in DOMAIN lista : Fin(lista[g]) + crece <= limite
      BY <2>2, <3>1, <3>2, LimiteDa DEF Ordenado
    <3> USE DEF crece
    <3> QED
      BY <3>3 DEF Fin
  <2>5. agrega > 0 => /\ delante \in 0 .. agrega
                      /\ \A k \in 1 .. delante : Fin(lista[f]) + k \notin mapa
    <3>1. agrega > 0 => agrega \in Nat
      BY <2>3
    <3> HIDE DEF agrega
    <3> QED BY <2>3, <3>1, LibresDelanteDa
  <2>6. agrega > 0 => /\ detras \in 0 .. agrega - delante /\ detras <= i
                      /\ \A k \in 1 .. detras : i - k \notin mapa
    <3>1. agrega > 0 => agrega - delante \in Nat
      <4> HIDE DEF delante
      <4> QED BY <2>3, <2>5
    <3> DEFINE resto == agrega - delante
    <3> HIDE DEF agrega, delante
    <3>2. detras = LibresDetras(i, resto)
      OBVIOUS
    <3> HIDE DEF resto, detras, i
    <3>3. agrega > 0 => /\ detras \in 0 .. resto /\ detras <= i
                      /\ \A k \in 1 .. detras : i - k \notin mapa
      BY <2>3, <3>1, <3>2, LibresDetrasDa DEF resto
    <3> QED BY <3>3 DEF resto
  <2>7. agrega = n - n + agrega /\ agrega = m - n
    BY <2>3
  <2>8. agrega > 0 => \A g \in DOMAIN lista \ {f} :
          \/ lista[g].inicial + Bloques(lista[g].tam) <= i
          \/ lista[g].inicial >= i + n + delante
    <3> HIDE DEF delante, agrega
    <3> QED
      BY <2>2, <2>3, <2>5, DelanteLibre
  <2> HIDE DEF delante, detras, limite
  <2>10. CASE agrega = 0 /\ Guarda(f, i, nuevo) /\ op' = Responde /\ UNCHANGED <<mapa, roto>>
    <3>1. /\ DOMAIN lista' = DOMAIN lista
          /\ lista'[f].inicial = i /\ lista'[f].tam = nuevo
          /\ lista'[f] \in [inicial : Nat, tam : Nat]
          /\ \A g \in DOMAIN lista \ {f} : lista'[g] = lista[g]
      BY <2>3, <2>10 DEF Guarda, Con
    <3>2. directorio' = lista'
      BY <2>2, <2>10 DEF Guarda
    <3>3. m = n
      BY <2>3, <2>10
    <3>4. Ordenado'
      <4>1. FCBs' /\ DOMAIN lista' \subseteq Archivos /\ mapa' \subseteq Nat
        BY <2>2, <2>3, <2>10, <3>1 DEF FCBs, Ordenado
      <4>2. \A g \in DOMAIN lista : lista'[g].inicial = lista[g].inicial
                                   /\ Bloques(lista'[g].tam) = Bloques(lista[g].tam)
        BY <3>1, <3>3
      <4> QED
        BY <2>2, <2>10, <3>1, <4>1, <4>2 DEF Ordenado
    <3>5. op'.en \in Neutros
      BY <2>10 DEF Responde, Neutros
    <3> QED
      BY <3>2, <3>4, <3>5, EntraNeutraP DEF NeutroEntra
  <2>11. CASE /\ agrega < 0 /\ mapa' = mapa \ Rango(Fin(lista[f]) + agrega + 1, - agrega)
              /\ op' = Cambia("tamanio", f, nuevo, limite)
              /\ UNCHANGED <<directorio, lista, roto>>
    <3>1. op'.en = "tamanio" /\ op'.f = f /\ op'.nuevo = nuevo /\ op'.limite = limite /\ Sigue' = op'
      BY <2>11 DEF Cambia, Sigue
    <3>2. Firmes' = DOMAIN lista /\ lista' = lista
      BY <2>11, <3>1 DEF Firmes
    <3>3. /\ \A g \in DOMAIN lista : Donde(g)' = lista[g].inicial
          /\ \A g \in DOMAIN lista \ {f} : Cuantos(g)' = Bloques(lista[g].tam)
          /\ Cuantos(f)' = m
      BY <2>2, <3>1, <3>2 DEF Donde, Cuantos, VistaQuieta
    <3>4. ITipoDatos' /\ ITipoOp' /\ ICopia' /\ INuevo' /\ ICaida' /\ ISitio'
      BY <2>2, <2>3, <2>4, <2>11, <3>1, <3>2, EnteroEnDisco
      DEF ITipoDatos, ITipoOp, ICopia, INuevo, ICaida, ISitio, Crece, Ordenado, FCBs, EnCrea
    <3>5. ITamanio'
      <4>1. nuevo < lista[f].tam
        BY <2>2, <2>3, <2>11, BloquesCrece DEF VistaQuieta
      <4> QED
        BY <3>1, <3>2, <4>1 DEF ITamanio
    <3>6. ILimite'
      <4>1. \A g \in DOMAIN lista : Bloques(lista[g].tam) \in Nat /\ lista[g].inicial \in Nat
        BY <2>2 DEF VistaQuieta
      <4>2. \A g \in DOMAIN lista : Donde(g)' + Cuantos(g)' - 1 <= limite
        BY <2>3, <2>4, <2>11, <3>3, <4>1
      <4> QED
        BY <3>1, <3>2, <4>2 DEF ILimite, Crece
    <3>7. m < n
      BY <2>3, <2>11
    <3>8. IAparte'
      BY <2>2, <2>3, <3>2, <3>3, <3>7 DEF Ordenado, IAparte, Aparte, VistaQuieta
    <3>9. mapa' = mapa \ Rango(i + m, n - m)
      BY <2>3, <2>11
    <3>10. IOcupa'
      <4>1. SUFFICES ASSUME NEW g \in DOMAIN lista
                     PROVE  Donde(g)' \in Nat /\ Rango(Donde(g)', Cuantos(g)') \subseteq mapa'
        BY <3>2 DEF IOcupa, Extension
      <4>2. Rango(lista[g].inicial, Bloques(lista[g].tam)) \subseteq mapa
            /\ lista[g].inicial \in Nat /\ Bloques(lista[g].tam) \in Nat
        BY <2>2 DEF Ordenado, VistaQuieta
      <4>3. CASE g = f
        BY <2>3, <3>3, <3>7, <3>9, <4>2, <4>3 DEF Rango
      <4>4. CASE g # f
        <5>1. \/ lista[g].inicial + Bloques(lista[g].tam) <= i
              \/ i + n <= lista[g].inicial
          BY <2>2, <2>3, <4>4 DEF Ordenado, Aparte
        <5> QED
          BY <2>3, <3>3, <3>7, <3>9, <4>2, <4>4, <5>1 DEF Rango
      <4> QED
        BY <4>3, <4>4
    <3> QED
      BY <3>4, <3>5, <3>6, <3>8, <3>10 DEF IDisco
  <2>12. CASE /\ agrega > 0 /\ delante = agrega
              /\ op' = Cambia("agrega", f, nuevo, limite)
              /\ UNCHANGED <<mapa, directorio, lista, roto>>
    <3>1. op'.en = "agrega" /\ op'.f = f /\ op'.nuevo = nuevo /\ op'.limite = limite /\ Sigue' = op'
      BY <2>12 DEF Cambia, Sigue
    <3>2. Ordenado' /\ op'.en \in Quietos
      BY <2>2, <2>12, <3>1 DEF Ordenado, FCBs, Quietos, EnCrea
    <3>3. VistaQuieta'
      BY <3>2, QuietaP DEF Ordenado, Quieto
    <3>4. ITipoOp' /\ ICopia' /\ INuevo'
      BY <2>2, <2>3, <2>4, <2>12, <3>1 DEF ITipoOp, ICopia, INuevo, EnCrea
    <3>5. \A g \in DOMAIN lista : Donde(g)' = lista[g].inicial /\ Cuantos(g)' = Bloques(lista[g].tam)
          /\ lista[g].inicial \in Nat /\ Bloques(lista[g].tam) \in Nat
      BY <2>12, <3>3 DEF VistaQuieta
    <3>6. ISitio'
      <4>1. \A g \in DOMAIN lista \ {f} : Aparte(i, m, lista[g].inicial, Bloques(lista[g].tam))
        BY <2>3, <2>8, <2>12, <3>5 DEF Aparte
      <4> QED
        BY <2>3, <2>12, <3>1, <3>5, <4>1 DEF ISitio, Crece, Otros, Sitio
    <3>7. ILimite'
      BY <2>3, <2>4, <2>12, <3>1, <3>5 DEF ILimite, Crece
    <3>8. /\ \A g \in DOMAIN directorio' : directorio'[g] \in EnDisco
          /\ DOMAIN directorio' \subseteq Archivos
      BY <2>2, <2>12, EnteroEnDisco DEF Ordenado, FCBs
    <3> QED
      BY <3>2, <3>4, <3>6, <3>7, <3>8, EntraP DEF QuietoEntra
  <2>13. CASE /\ agrega > 0 /\ detras > 0 /\ delante + detras = agrega
              /\ Mueve(f, - detras, Cambia("agrega", f, nuevo, limite))
    <3>1. detras \in Nat /\ - detras \in Int /\ delante \in Nat
      BY <2>3, <2>5, <2>6, <2>13
    <3>2. Salta(f, - detras, Cambia("agrega", f, nuevo, limite))
      BY <1>2, <2>13, MueveSalta
    <3>3. Lejos(f, - detras)
      BY <2>2, <2>3, <2>6, <2>13, <3>1, AtrasLejos
    <3>n. i + (- detras) \in Nat
      BY <2>3, <2>6, <2>13, <3>1
    <3>4. VistaSalta(f, - detras)
      BY <2>2, <2>3, <3>1, <3>2, <3>n, SaltaVista
    <3>5. op'.en = "fcb" /\ op'.mueve = f /\ op'.d = - detras /\ lista' = lista
          /\ op'.sigue = Cambia("agrega", f, nuevo, limite)
      BY <3>2 DEF Salta
    <3>6. Sigue'.en = "agrega" /\ Sigue'.f = f /\ Sigue'.nuevo = nuevo /\ Sigue'.limite = limite
          /\ op'.sigue.en = "agrega"
      BY <3>5 DEF Cambia, Sigue
    <3>7. ITipoOp'
      BY <2>3, <2>4, <3>1, <3>5, <3>6 DEF ITipoOp, EnCrea
    <3>8. /\ Donde(f)' = i - detras /\ Cuantos(f)' = n
          /\ \A g \in DOMAIN lista \ {f} : /\ Donde(g)' = lista[g].inicial
                                           /\ Cuantos(g)' = Bloques(lista[g].tam)
                                           /\ lista[g].inicial \in Nat /\ Bloques(lista[g].tam) \in Nat
      BY <2>2, <2>3, <3>1, <3>4 DEF VistaSalta, VistaQuieta
    <3>9. ISitio'
      <4>1. \A g \in DOMAIN lista \ {f} : Aparte(i - detras, m, lista[g].inicial, Bloques(lista[g].tam))
        <5>1. \A g \in DOMAIN lista \ {f} :
                \/ lista[g].inicial + Bloques(lista[g].tam) <= i - detras
                \/ lista[g].inicial >= i + n
          BY <2>3, <2>13, <3>1, <3>3 DEF Lejos
        <5> QED
          BY <2>3, <2>8, <2>13, <3>1, <3>8, <5>1 DEF Aparte
      <4> QED
        BY <2>3, <2>13, <3>1, <3>5, <3>6, <3>8, <4>1 DEF ISitio, Crece, Otros, Sitio
    <3>10. ILimite'
      BY <2>3, <2>4, <2>13, <3>1, <3>5, <3>6, <3>8 DEF ILimite, Crece
    <3> QED
      BY <2>2, <2>3, <3>1, <3>2, <3>3, <3>n, <3>7, <3>9, <3>10, SaltaEntra DEF Neutros, EnCrea
  <2>14. CASE /\ agrega > 0
              /\ op' = Acerca(f, nuevo, limite, Detras(i) \cup {f})
              /\ UNCHANGED <<mapa, directorio, lista, roto>>
    <3>1. op'.en = "detras" /\ op'.f = f /\ op'.nuevo = nuevo /\ op'.limite = limite /\ Sigue' = op'
          /\ op'.quedan = Detras(i) \cup {f}
      BY <2>14 DEF Acerca, Sigue
    <3>2. Ordenado' /\ op'.en \in Quietos
      BY <2>2, <2>14, <3>1 DEF Ordenado, FCBs, Quietos, EnCrea
    <3>3. VistaQuieta'
      BY <3>2, QuietaP DEF Ordenado, Quieto
    <3>4. ITipoOp' /\ ICopia' /\ INuevo'
      BY <2>2, <2>3, <2>4, <2>14, <3>1 DEF ITipoOp, ICopia, INuevo, Detras, EnCrea
    <3>5. \A g \in DOMAIN lista : Donde(g)' = lista[g].inicial /\ Cuantos(g)' = Bloques(lista[g].tam)
          /\ lista[g].inicial \in Nat /\ Bloques(lista[g].tam) \in Nat
      BY <2>14, <3>3 DEF VistaQuieta
    <3>6. ISitio'
      BY <2>3, <2>14, <3>1, <3>5 DEF ISitio, Crece
    <3>7. ILimite'
      <4>1. \A g \in DOMAIN lista :
              /\ Donde(g)' + Cuantos(g)' - 1 <= limite
              /\ Donde(g)' + Cuantos(g)' - 1 + m - Cuantos(f)' <= limite
        BY <2>3, <2>4, <2>14, <3>5
      <4>2. Donde(f)' + m - 1 <= limite
        BY <2>3, <2>4, <2>14, <3>5
      <4> QED
        BY <2>3, <2>14, <3>1, <4>1, <4>2 DEF ILimite, Crece
    <3>8. /\ \A g \in DOMAIN directorio' : directorio'[g] \in EnDisco
          /\ DOMAIN directorio' \subseteq Archivos
      BY <2>2, <2>14, EnteroEnDisco DEF Ordenado, FCBs
    <3> QED
      BY <3>2, <3>4, <3>6, <3>7, <3>8, EntraP DEF QuietoEntra
  <2> QED
    BY <2>1, <2>10, <2>11, <2>12, <2>13, <2>14
<1> QED
  BY <1>1, <1>2

\* What holds in the middle of a truncation, between two moves.
LEMMA TruncandoSale ==
  ASSUME IDisco, op.en \in {"agrega", "detras", "empuja"}
  PROVE  /\ Ordenado /\ VistaQuieta /\ directorio = lista /\ Sigue = op /\ op.en \in Quietos
         /\ op.f \in DOMAIN lista /\ op.nuevo \in Nat /\ op.limite \in Nat
         /\ Bloques(op.nuevo) \in Nat /\ Bloques(op.nuevo) > Bloques(lista[op.f].tam)
         /\ \A g \in DOMAIN lista : lista[g].inicial + Bloques(lista[g].tam) - 1 <= op.limite
         /\ lista[op.f].inicial + Bloques(op.nuevo) - 1 <= op.limite
<1>1. op.en \in Quietos /\ Sigue = op /\ op.en \notin EnCrea
  BY DEF Quietos, Sigue, EnCrea
<1>2. Ordenado /\ VistaQuieta /\ directorio = lista
  BY <1>1, OrdenadoSale
<1>3. op.f \in DOMAIN lista /\ op.nuevo \in Nat /\ op.limite \in Nat
  BY <1>1 DEF IDisco, ITipoOp, EnCrea
<1>4. Bloques(op.nuevo) \in Nat
  BY <1>3, BloquesTipo
<1>5. Bloques(op.nuevo) > Bloques(lista[op.f].tam)
  BY <1>1, <1>2, <1>3 DEF IDisco, ISitio, Crece, VistaQuieta
<1>6. /\ \A g \in DOMAIN lista : lista[g].inicial + Bloques(lista[g].tam) - 1 <= op.limite
      /\ lista[op.f].inicial + Bloques(op.nuevo) - 1 <= op.limite
  BY <1>1, <1>2, <1>3 DEF IDisco, ILimite, Crece, VistaQuieta
<1> QED
  BY <1>1, <1>2, <1>3, <1>4, <1>5, <1>6

\* The truncation goes on and no file moves.
LEMMA SigueQuieto ==
  ASSUME IDisco, op.en \in {"agrega", "detras", "empuja"}, op'.en \in {"agrega", "detras", "empuja"},
         UNCHANGED <<mapa, directorio, lista>>, ITipoOp',
         VistaQuieta' /\ Sigue' = op' => ISitio' /\ ILimite'
  PROVE  IDisco'
<1>1. Ordenado /\ directorio = lista
  BY TruncandoSale
<1>2. Ordenado' /\ op'.en \in Quietos /\ Sigue' = op'
  BY <1>1 DEF Ordenado, FCBs, Quietos, Sigue, EnCrea
<1>3. VistaQuieta'
  BY <1>2, QuietaP DEF Ordenado, Quieto
<1>4. ICopia' /\ INuevo'
  BY <1>1 DEF ICopia, INuevo, EnCrea
<1>5. /\ \A g \in DOMAIN directorio' : directorio'[g] \in EnDisco
      /\ DOMAIN directorio' \subseteq Archivos
  BY <1>1, EnteroEnDisco DEF Ordenado, FCBs
<1> QED
  BY <1>2, <1>3, <1>4, <1>5, EntraP DEF QuietoEntra

\* A file goes back as much as there is free.
LEMMA CompactaDetrasBien ==
  ASSUME IDisco, CompactaDetras
  PROVE  IDisco'
<1>0. PICK f, a : f = Cercano(op.quedan) /\ a = op.f
  OBVIOUS
<1> DEFINE libres == LibresDetras(lista[f].inicial, lista[f].inicial)
           sigue == Acerca(a, op.nuevo, op.limite, op.quedan \ {f})
<1>1. op.en = "detras" /\ op.quedan # {}
  BY DEF CompactaDetras
<1>2. /\ Ordenado /\ VistaQuieta /\ directorio = lista /\ Sigue = op /\ op.en \in Quietos
      /\ a \in DOMAIN lista /\ op.nuevo \in Nat /\ op.limite \in Nat
      /\ Bloques(op.nuevo) \in Nat /\ Bloques(op.nuevo) > Bloques(lista[a].tam)
      /\ \A g \in DOMAIN lista : lista[g].inicial + Bloques(lista[g].tam) - 1 <= op.limite
      /\ lista[a].inicial + Bloques(op.nuevo) - 1 <= op.limite
  BY <1>0, <1>1, TruncandoSale
<1>3. \A g \in DOMAIN lista : lista[g].inicial + Bloques(lista[g].tam) - 1
                                + Bloques(op.nuevo) - Bloques(lista[a].tam) <= op.limite
  BY <1>0, <1>1, <1>2 DEF IDisco, ILimite, VistaQuieta
<1>4. op.quedan \subseteq DOMAIN lista
  BY <1>1, <1>2 DEF IDisco, ITipoOp, EnCrea
<1>5. f \in op.quedan
  BY <1>0, <1>1, <1>2, <1>4, CercanoDa DEF Ordenado
<1>6. f \in DOMAIN lista
  BY <1>4, <1>5
<1>7. lista[f].inicial \in Nat /\ Bloques(lista[f].tam) \in Nat
  BY <1>2, <1>6 DEF VistaQuieta
<1>8. /\ libres \in Nat /\ libres <= lista[f].inicial
      /\ \A i \in 1 .. libres : lista[f].inicial - i \notin mapa
  <2> DEFINE i == lista[f].inicial
  <2> HIDE DEF i
  <2>1. i \in Nat
    BY <1>7 DEF i
  <2>2. /\ LibresDetras(i, i) \in 0 .. i /\ LibresDetras(i, i) <= i
        /\ \A k \in 1 .. LibresDetras(i, i) : i - k \notin mapa
    BY <2>1, LibresDetrasDa
  <2> QED
    BY <2>1, <2>2 DEF i
<1>9. \/ libres > 0 /\ Mueve(f, - libres, sigue)
      \/ op' = sigue /\ UNCHANGED <<mapa, directorio, lista, roto>>
  BY <1>0 DEF CompactaDetras
<1>10. sigue.en = "detras" /\ sigue.f = a /\ sigue.nuevo = op.nuevo /\ sigue.limite = op.limite
       /\ sigue.quedan = op.quedan \ {f}
  BY <1>0 DEF Acerca
<1> HIDE DEF libres, sigue
<1>11. CASE Muere
  BY <1>1, <1>11, MuereBien
<1>12. CASE libres > 0 /\ Mueve(f, - libres, sigue) /\ ~ Muere
  <2>1. Salta(f, - libres, sigue)
    BY <1>12, MueveSalta
  <2>2. Lejos(f, - libres)
    BY <1>2, <1>6, <1>8, <1>12, AtrasLejos
  <2>3. - libres \in Int /\ lista[f].inicial + (- libres) \in Nat
    BY <1>7, <1>8
  <2>4. VistaSalta(f, - libres)
    BY <1>2, <1>6, <2>1, <2>3, SaltaVista
  <2>5. op'.en = "fcb" /\ op'.mueve = f /\ op'.d = - libres /\ op'.sigue = sigue /\ lista' = lista
        /\ Sigue' = sigue
    BY <2>1 DEF Salta, Sigue
  <2>6. ITipoOp'
    BY <1>2, <1>4, <1>6, <1>10, <2>3, <2>5 DEF ITipoOp, EnCrea
  <2>7. \A g \in DOMAIN lista : /\ Donde(g)' \in Nat /\ Donde(g)' <= lista[g].inicial
                                /\ Cuantos(g)' = Bloques(lista[g].tam)
                                /\ lista[g].inicial \in Nat /\ Bloques(lista[g].tam) \in Nat
    <3>1. lista' = lista /\ \A g \in DOMAIN lista : lista[g].inicial \in Nat /\ Bloques(lista[g].tam) \in Nat
      BY <1>2, <2>1 DEF VistaQuieta, Salta
    <3>2. lista[f].inicial - libres \in Nat /\ lista[f].inicial - libres <= lista[f].inicial
      BY <1>7, <1>8
    <3>3. /\ Donde(f)' = lista[f].inicial - libres
          /\ \A g \in DOMAIN lista \ {f} : Donde(g)' = lista[g].inicial
          /\ \A g \in DOMAIN lista : Cuantos(g)' = Bloques(lista[g].tam)
      BY <1>7, <1>8, <2>4 DEF VistaSalta
    <3> QED
      BY <3>1, <3>2, <3>3
  <2>8. ISitio'
    BY <1>2, <1>10, <2>5, <2>7 DEF ISitio, Crece
  <2>9. ILimite'
    <3>1. \A g \in DOMAIN lista :
            /\ Donde(g)' + Cuantos(g)' - 1 <= op.limite
            /\ Donde(g)' + Cuantos(g)' - 1 + Bloques(op.nuevo) - Cuantos(a)' <= op.limite
      BY <1>2, <1>3, <2>7
    <3>2. Donde(a)' + Bloques(op.nuevo) - 1 <= op.limite
      BY <1>2, <2>7
    <3> QED
      BY <1>10, <2>5, <3>1, <3>2 DEF ILimite, Crece
  <2>10. op.en \in Quietos \ EnCrea
    BY <1>1, <1>2 DEF EnCrea
  <2> QED
    BY <1>6, <2>1, <2>2, <2>3, <2>6, <2>8, <2>9, <2>10, SaltaEntra
<1>13. CASE op' = sigue /\ UNCHANGED <<mapa, directorio, lista, roto>>
  <2>1. ITipoOp'
    BY <1>2, <1>4, <1>10, <1>13 DEF ITipoOp, Sigue, EnCrea
  <2>2. ASSUME VistaQuieta', Sigue' = op'
        PROVE  ISitio' /\ ILimite'
    <3>1. \A g \in DOMAIN lista : Donde(g)' = lista[g].inicial /\ Cuantos(g)' = Bloques(lista[g].tam)
      BY <1>13, <2>2 DEF VistaQuieta
    <3>2. ISitio'
      BY <1>2, <1>10, <1>13, <2>2, <3>1 DEF ISitio, Crece
    <3>3. ILimite'
      BY <1>2, <1>3, <1>10, <1>13, <2>2, <3>1 DEF ILimite, Crece
    <3> QED
      BY <3>2, <3>3
  <2> QED
    BY <1>1, <1>10, <1>13, <2>1, <2>2, SigueQuieto
<1> QED
  BY <1>9, <1>11, <1>12, <1>13

\* The files after it will leave what is missing.
LEMMA CompactaCuentaBien ==
  ASSUME IDisco, CompactaCuenta
  PROVE  IDisco'
<1>0. PICK f : f = op.f
  OBVIOUS
<1> DEFINE i == lista[f].inicial
           n == Bloques(lista[f].tam)
           m == Bloques(op.nuevo)
           agrega == m - n
           libres == LibresDelante(Fin(lista[f]), agrega)
           faltan == agrega - libres
           quedan == IF faltan > 0 THEN Delante(i) ELSE {}
<1>1. op.en = "detras" /\ UNCHANGED <<mapa, directorio, lista, roto>>
      /\ op' = Empuja(f, op.nuevo, op.limite, faltan, quedan)
  BY <1>0 DEF CompactaCuenta
<1>2. /\ Ordenado /\ VistaQuieta /\ directorio = lista /\ Sigue = op /\ op.en \in Quietos
      /\ f \in DOMAIN lista /\ op.nuevo \in Nat /\ op.limite \in Nat
      /\ Bloques(op.nuevo) \in Nat /\ Bloques(op.nuevo) > Bloques(lista[f].tam)
      /\ \A g \in DOMAIN lista : lista[g].inicial + Bloques(lista[g].tam) - 1 <= op.limite
      /\ lista[f].inicial + Bloques(op.nuevo) - 1 <= op.limite
  BY <1>0, <1>1, TruncandoSale
<1>3. \A g \in DOMAIN lista : lista[g].inicial + Bloques(lista[g].tam) - 1
                                + Bloques(op.nuevo) - Bloques(lista[f].tam) <= op.limite
  BY <1>0, <1>1, <1>2 DEF IDisco, ILimite, VistaQuieta
<1>4. /\ f \in DOMAIN lista /\ i \in Nat /\ n \in Nat /\ m \in Nat /\ m > n /\ agrega \in Nat
      /\ Fin(lista[f]) = i + n - 1 /\ Fin(lista[f]) \in Nat
  BY <1>2 DEF VistaQuieta, Fin
<1>5. /\ libres \in 0 .. agrega
      /\ \A k \in 1 .. libres : Fin(lista[f]) + k \notin mapa
  <2> HIDE DEF agrega
  <2> QED BY <1>4, LibresDelanteDa
<1>6. \A g \in DOMAIN lista \ {f} :
        \/ lista[g].inicial + Bloques(lista[g].tam) <= i
        \/ lista[g].inicial >= i + n + libres
  <2>1. libres \in Nat
    BY <1>4, <1>5
  <2> HIDE DEF libres
  <2> QED BY <1>2, <1>4, <1>5, <2>1, DelanteLibre
<1>7. faltan \in Nat /\ faltan <= agrega /\ libres = agrega - faltan
  <2> HIDE DEF libres, agrega
  <2> QED BY <1>4, <1>5
<1>8. agrega = m - n
  OBVIOUS
<1>9. /\ quedan \subseteq DOMAIN lista /\ f \notin quedan
      /\ \A g \in quedan : lista[g].inicial > i /\ faltan > 0
      /\ \A g \in DOMAIN lista \ quedan : lista[g].inicial <= i \/ faltan = 0
  <2> HIDE DEF faltan
  <2> QED BY <1>2, <1>4, <1>7 DEF Delante, VistaQuieta
<1> HIDE DEF libres, faltan, quedan, agrega
<1>10. op'.en = "empuja" /\ op'.f = f /\ op'.nuevo = op.nuevo /\ op'.limite = op.limite
       /\ op'.faltan = faltan /\ op'.quedan = quedan
  BY <1>1 DEF Empuja
<1>11. ITipoOp'
  BY <1>1, <1>2, <1>7, <1>9, <1>10 DEF ITipoOp, Sigue, EnCrea
<1>12. ASSUME VistaQuieta', Sigue' = op'
       PROVE  ISitio' /\ ILimite'
  <2>1. \A g \in DOMAIN lista : /\ Donde(g)' = lista[g].inicial /\ Cuantos(g)' = Bloques(lista[g].tam)
                                /\ lista[g].inicial \in Nat /\ Bloques(lista[g].tam) \in Nat
                                /\ Bloques(lista[g].tam) >= 1
    BY <1>1, <1>12 DEF VistaQuieta
  <2>2. \A g \in DOMAIN lista \ {f} : g \notin quedan => Aparte(i, m, lista[g].inicial, Bloques(lista[g].tam))
    <3>1. SUFFICES ASSUME NEW g \in DOMAIN lista \ {f}, g \notin quedan
                   PROVE  Aparte(i, m, lista[g].inicial, Bloques(lista[g].tam))
      OBVIOUS
    <3>2. lista[g].inicial <= i \/ faltan = 0
      BY <1>9, <3>1
    <3> QED
      BY <1>4, <1>6, <1>7, <1>8, <2>1, <3>1, <3>2 DEF Aparte
  <2>3. \A g \in quedan : lista[g].inicial > i /\ lista[g].inicial + faltan >= i + m
    BY <1>4, <1>6, <1>7, <1>8, <1>9, <2>1
  <2>4. \A g \in quedan : \A h \in DOMAIN lista \ quedan : lista[h].inicial <= i
    <3>1. SUFFICES ASSUME NEW g \in quedan, NEW h \in DOMAIN lista \ quedan
                   PROVE  lista[h].inicial <= i
      OBVIOUS
    <3> QED
      BY <1>7, <1>9, <3>1
  <2>5. ISitio'
    <3>1. DOMAIN lista' = DOMAIN lista /\ Sigue'.en = "empuja" /\ Sigue'.f = f /\ Sigue'.quedan = quedan
          /\ Sigue'.faltan = faltan /\ Bloques(Sigue'.nuevo) = m
          /\ Otros' = DOMAIN lista \ {f}
      BY <1>1, <1>10, <1>12 DEF Otros
    <3>2. \A g \in (DOMAIN lista \ {f}) \ quedan : Sitio(g)'
      BY <1>4, <2>1, <2>2, <3>1 DEF Sitio
    <3>3. \A g \in quedan :
            /\ Donde(g)' > Donde(f)'
            /\ Donde(g)' + faltan >= Donde(f)' + m
            /\ \A h \in DOMAIN lista \ quedan : Donde(h)' <= Donde(f)'
      BY <1>4, <1>9, <2>1, <2>3, <2>4
    <3>4. m > Cuantos(f)'
      BY <1>4, <2>1
    <3> QED
      BY <3>1, <3>2, <3>3, <3>4 DEF ISitio, Crece
  <2>6. ILimite'
    <3>1. /\ \A g \in DOMAIN lista : Donde(g)' + Cuantos(g)' - 1 <= op.limite
          /\ Donde(f)' + m - 1 <= op.limite
      BY <1>2, <1>4, <2>1
    <3>2. \A g \in DOMAIN lista : Donde(g)' + Cuantos(g)' - 1 + faltan <= op.limite
      BY <1>2, <1>3, <1>4, <1>7, <1>8, <2>1
    <3> QED
      BY <1>1, <1>9, <1>10, <1>12, <3>1, <3>2 DEF ILimite, Crece
  <2> QED
    BY <2>5, <2>6
<1> QED
  BY <1>1, <1>10, <1>11, <1>12, SigueQuieto

\* The last of those that have not moved goes where no other is.
LEMMA CompactaDelanteBien ==
  ASSUME IDisco, CompactaDelante
  PROVE  IDisco'
<1>0. PICK f, a, q, d : f = Lejano(op.quedan) /\ a = op.f /\ q = op.quedan /\ d = op.faltan
  OBVIOUS
<1> DEFINE m == Bloques(op.nuevo)
           sigue == Empuja(a, op.nuevo, op.limite, d, q \ {f})
<1>1. op.en = "empuja" /\ q # {} /\ Mueve(f, d, sigue)
  BY <1>0 DEF CompactaDelante
<1>2. /\ Ordenado /\ VistaQuieta /\ directorio = lista /\ Sigue = op /\ op.en \in Quietos
      /\ a \in DOMAIN lista /\ op.nuevo \in Nat /\ op.limite \in Nat
      /\ m \in Nat /\ m > Bloques(lista[a].tam)
      /\ \A g \in DOMAIN lista : lista[g].inicial + Bloques(lista[g].tam) - 1 <= op.limite
      /\ lista[a].inicial + m - 1 <= op.limite
  BY <1>0, <1>1, TruncandoSale
<1>3. q \subseteq DOMAIN lista /\ d \in Nat /\ a \notin q
  BY <1>0, <1>1, <1>2 DEF IDisco, ITipoOp, EnCrea
<1>4. f \in q /\ \A g \in q : lista[f].inicial >= lista[g].inicial
  BY <1>0, <1>1, <1>2, <1>3, LejanoDa DEF Ordenado
<1>5. f \in DOMAIN lista /\ f # a /\ d \in Int
  BY <1>3, <1>4
<1>6. \A g \in DOMAIN lista : /\ lista[g].inicial \in Nat /\ Bloques(lista[g].tam) \in Nat
                              /\ Bloques(lista[g].tam) >= 1
                              /\ Donde(g) = lista[g].inicial /\ Cuantos(g) = Bloques(lista[g].tam)
  BY <1>2 DEF VistaQuieta
<1>7. /\ \A g \in (DOMAIN lista \ {a}) \ q :
           Aparte(lista[a].inicial, m, lista[g].inicial, Bloques(lista[g].tam))
      /\ \A g \in q :
           /\ lista[g].inicial > lista[a].inicial
           /\ lista[g].inicial + d >= lista[a].inicial + m
           /\ \A h \in DOMAIN lista \ q :
                \/ lista[h].inicial <= lista[a].inicial
                \/ lista[h].inicial >= lista[g].inicial + Bloques(lista[g].tam) + d
  BY <1>0, <1>1, <1>2, <1>3, <1>6 DEF IDisco, ISitio, Otros, Sitio
<1>8. \A g \in q : lista[g].inicial + Bloques(lista[g].tam) - 1 + d <= op.limite
  BY <1>0, <1>1, <1>2, <1>3, <1>6 DEF IDisco, ILimite
<1>9. \A g, h \in DOMAIN lista : g # h /\ lista[g].inicial <= lista[h].inicial =>
        lista[g].inicial + Bloques(lista[g].tam) <= lista[h].inicial
  BY <1>2, <1>6 DEF Ordenado, Aparte
<1>10. sigue.en = "empuja" /\ sigue.f = a /\ sigue.nuevo = op.nuevo /\ sigue.limite = op.limite
       /\ sigue.faltan = d /\ sigue.quedan = q \ {f}
  BY DEF Empuja
<1> HIDE DEF sigue, m
<1>11. CASE Muere
  BY <1>1, <1>11, MuereBien
<1>12. CASE ~ Muere
  <2>1. Salta(f, d, sigue)
    BY <1>1, <1>12, MueveSalta
  <2>2. Lejos(f, d)
    <3>1. \A g \in DOMAIN lista \ {f} :
            \/ lista[g].inicial + Bloques(lista[g].tam) <= lista[f].inicial
            \/ lista[g].inicial >= lista[f].inicial + Bloques(lista[f].tam) + d
      <4>1. SUFFICES ASSUME NEW g \in DOMAIN lista \ {f}
                     PROVE  \/ lista[g].inicial + Bloques(lista[g].tam) <= lista[f].inicial
                            \/ lista[g].inicial >= lista[f].inicial + Bloques(lista[f].tam) + d
        OBVIOUS
      <4>2. CASE g \in q
        BY <1>4, <1>5, <1>9, <4>1, <4>2
      <4>3. CASE g \notin q
        <5>1. lista[f].inicial > lista[a].inicial
          BY <1>4, <1>7
        <5>2. \/ lista[g].inicial <= lista[a].inicial
              \/ lista[g].inicial >= lista[f].inicial + Bloques(lista[f].tam) + d
          BY <1>4, <1>7, <4>1, <4>3
        <5>3. lista[g].inicial <= lista[a].inicial => lista[g].inicial <= lista[f].inicial
          BY <1>2, <1>5, <1>6, <4>1, <5>1
        <5> QED
          BY <1>5, <1>9, <4>1, <5>2, <5>3
      <4> QED
        BY <4>2, <4>3
    <3> QED
      <4>1. /\ (IF d < 0 THEN d ELSE 0) = 0 /\ (IF d < 0 THEN 0 ELSE d) = d
            /\ lista[f].inicial + 0 = lista[f].inicial
        BY <1>3, <1>5, <1>6
      <4> QED
        BY <3>1, <4>1 DEF Lejos
  <2>n. lista[f].inicial + d \in Nat
    BY <1>3, <1>5, <1>6
  <2>3. VistaSalta(f, d)
    BY <1>2, <1>5, <2>1, <2>n, SaltaVista
  <2>4. op'.en = "fcb" /\ op'.mueve = f /\ op'.d = d /\ op'.sigue = sigue /\ lista' = lista
        /\ Sigue' = sigue
    BY <2>1 DEF Salta, Sigue
  <2>5. ITipoOp'
    BY <1>2, <1>3, <1>5, <1>10, <2>4 DEF ITipoOp, EnCrea
  <2>6. /\ Donde(f)' = lista[f].inicial + d
        /\ \A g \in DOMAIN lista \ {f} : Donde(g)' = lista[g].inicial
        /\ \A g \in DOMAIN lista : Cuantos(g)' = Bloques(lista[g].tam)
    BY <2>3 DEF VistaSalta
  <2>7. Donde(a)' = lista[a].inicial
    BY <1>2, <1>5, <2>6
  <2>8. ISitio'
    <3>1. DOMAIN lista' = DOMAIN lista /\ Sigue'.en = "empuja" /\ Sigue'.f = a
          /\ Sigue'.quedan = q \ {f} /\ Sigue'.faltan = d /\ Bloques(Sigue'.nuevo) = m
          /\ Otros' = DOMAIN lista \ {a}
      BY <1>10, <2>4 DEF Otros, m
    <3>2. Aparte(lista[a].inicial, m, lista[f].inicial + d, Bloques(lista[f].tam))
      BY <1>2, <1>3, <1>4, <1>5, <1>6, <1>7 DEF Aparte
    <3>3. \A g \in (DOMAIN lista \ {a}) \ (q \ {f}) : Sitio(g)'
      BY <1>5, <1>7, <2>6, <2>7, <3>1, <3>2 DEF Sitio
    <3>4. ASSUME NEW g \in q \ {f}
          PROVE  /\ Donde(g)' > Donde(a)'
                 /\ Donde(g)' + d >= Donde(a)' + m
                 /\ \A h \in DOMAIN lista \ (q \ {f}) :
                      Donde(h)' <= Donde(a)' \/ Donde(h)' >= Donde(g)' + Cuantos(g)' + d
      <4>1. g \in DOMAIN lista /\ g \in q /\ Donde(g)' = lista[g].inicial /\ Cuantos(g)' = Bloques(lista[g].tam)
        BY <1>3, <2>6, <3>4
      <4>2. Donde(f)' >= Donde(g)' + Cuantos(g)' + d
        <5>1. lista[g].inicial + Bloques(lista[g].tam) <= lista[f].inicial
          BY <1>4, <1>5, <1>9, <3>4, <4>1
        <5> QED
          BY <1>3, <1>5, <1>6, <2>6, <4>1, <5>1
      <4>3. \A h \in DOMAIN lista \ q : Donde(h)' = lista[h].inicial
        BY <1>4, <2>6
      <4> QED
        BY <1>7, <2>7, <4>1, <4>2, <4>3
    <3>5. m > Cuantos(a)'
      BY <1>2, <2>6
    <3> QED
      BY <3>1, <3>3, <3>4, <3>5 DEF ISitio, Crece
  <2>9. ILimite'
    <3>1. lista[f].inicial + d + Bloques(lista[f].tam) - 1 <= op.limite
      BY <1>2, <1>3, <1>4, <1>5, <1>6, <1>8
    <3>2. \A g \in DOMAIN lista : Donde(g)' + Cuantos(g)' - 1 <= op.limite
      BY <1>2, <1>5, <2>6, <3>1
    <3>3. \A g \in q \ {f} : Donde(g)' + Cuantos(g)' - 1 + d <= op.limite
      BY <1>3, <1>8, <2>6
    <3>4. Donde(a)' + m - 1 <= op.limite
      BY <1>2, <2>7
    <3> QED
      BY <1>10, <2>4, <3>2, <3>3, <3>4 DEF ILimite, Crece, m
  <2>10. op.en \in Quietos \ EnCrea
    BY <1>1, <1>2 DEF EnCrea
  <2> QED
    BY <1>5, <2>1, <2>2, <2>n, <2>5, <2>8, <2>9, <2>10, SaltaEntra
<1> QED
  BY <1>11, <1>12

\* By now the blocks it takes are nobody's.
LEMMA AgregaBien ==
  ASSUME IDisco, Agrega
  PROVE  IDisco'
<1>0. PICK f : f = op.f
  OBVIOUS
<1> DEFINE i == lista[f].inicial
           n == Bloques(lista[f].tam)
           m == Bloques(op.nuevo)
<1>1. /\ op.en = "agrega" \/ (op.en = "empuja" /\ op.quedan = {})
      /\ mapa' = mapa \cup Rango(Fin(lista[f]) + 1, m - n)
      /\ op' = Cambia("tamanio", f, op.nuevo, op.limite)
      /\ UNCHANGED <<directorio, lista, roto>>
  BY <1>0 DEF Agrega
<1>2. /\ Ordenado /\ VistaQuieta /\ directorio = lista /\ Sigue = op /\ op.en \in Quietos
      /\ f \in DOMAIN lista /\ op.nuevo \in Nat /\ op.limite \in Nat
      /\ m \in Nat /\ m > n
      /\ \A g \in DOMAIN lista : lista[g].inicial + Bloques(lista[g].tam) - 1 <= op.limite
      /\ i + m - 1 <= op.limite
  BY <1>0, <1>1, TruncandoSale
<1>3. \A g \in DOMAIN lista : /\ lista[g].inicial \in Nat /\ Bloques(lista[g].tam) \in Nat
                              /\ Donde(g) = lista[g].inicial /\ Cuantos(g) = Bloques(lista[g].tam)
  BY <1>2 DEF VistaQuieta
<1>4. \A g \in DOMAIN lista \ {f} : Aparte(i, m, lista[g].inicial, Bloques(lista[g].tam))
  BY <1>0, <1>1, <1>2, <1>3 DEF IDisco, ISitio, Otros, Sitio
<1>5. op'.en = "tamanio" /\ op'.f = f /\ op'.nuevo = op.nuevo /\ op'.limite = op.limite /\ Sigue' = op'
  BY <1>1 DEF Cambia, Sigue
<1>6. Firmes' = DOMAIN lista /\ lista' = lista
  BY <1>1, <1>5 DEF Firmes
<1>7. /\ \A g \in DOMAIN lista : Donde(g)' = lista[g].inicial
      /\ \A g \in DOMAIN lista \ {f} : Cuantos(g)' = Bloques(lista[g].tam)
      /\ Cuantos(f)' = m
  BY <1>2, <1>3, <1>5, <1>6 DEF Donde, Cuantos
<1>8. i \in Nat /\ n \in Nat /\ Fin(lista[f]) + 1 = i + n
  BY <1>2, <1>3 DEF Fin
<1>9. mapa' = mapa \cup Rango(i + n, m - n)
  BY <1>1, <1>8
<1> HIDE DEF i, n, m
<1>10. ITipoDatos' /\ ITipoOp' /\ ICopia' /\ INuevo' /\ ICaida' /\ ISitio'
  <2>1. mapa' \subseteq Nat
    <3>1. i + n \in Nat /\ m - n \in Nat
      BY <1>2, <1>8
    <3>2. Rango(i + n, m - n) \subseteq Nat
      BY <3>1 DEF Rango
    <3> QED
      BY <1>2, <1>9, <3>2 DEF Ordenado
  <2> QED
    BY <1>1, <1>2, <1>5, <1>6, <2>1, EnteroEnDisco
    DEF ITipoDatos, ITipoOp, ICopia, INuevo, ICaida, ISitio, Crece, Ordenado, FCBs, EnCrea
<1>11. ITamanio'
  BY <1>2, <1>5, <1>6, <1>8 DEF ITamanio, m, n
<1>12. ILimite'
  <2>1. \A g \in DOMAIN lista : Donde(g)' + Cuantos(g)' - 1 <= op.limite
    BY <1>2, <1>7 DEF i
  <2> QED
    BY <1>5, <1>6, <2>1 DEF ILimite, Crece
<1>13. IAparte'
  <2>1. SUFFICES ASSUME NEW g \in DOMAIN lista, NEW h \in DOMAIN lista, g # h
                 PROVE  Aparte(Donde(g)', Cuantos(g)', Donde(h)', Cuantos(h)')
    BY <1>6 DEF IAparte, Aparte
  <2>2. CASE g = f
    BY <1>4, <1>7, <2>1, <2>2 DEF i
  <2>3. CASE h = f
    BY <1>2, <1>3, <1>4, <1>7, <1>8, <2>1, <2>3 DEF i, Aparte
  <2>4. CASE g # f /\ h # f
    BY <1>2, <1>7, <2>1, <2>4 DEF Ordenado
  <2> QED
    BY <2>2, <2>3, <2>4
<1>14. IOcupa'
  <2>1. SUFFICES ASSUME NEW g \in DOMAIN lista
                 PROVE  Donde(g)' \in Nat /\ Rango(Donde(g)', Cuantos(g)') \subseteq mapa'
    BY <1>6 DEF IOcupa, Extension
  <2>2. Rango(lista[g].inicial, Bloques(lista[g].tam)) \subseteq mapa
    BY <1>2 DEF Ordenado
  <2>3. CASE g = f
    <3>1. Rango(i, n) \subseteq mapa
      BY <2>2, <2>3 DEF i, n
    <3>2. Rango(i, m) \subseteq Rango(i, n) \cup Rango(i + n, m - n)
      BY <1>2, <1>8 DEF Rango
    <3> QED
      BY <1>7, <1>8, <1>9, <2>3, <3>1, <3>2 DEF i
  <2>4. CASE g # f
    BY <1>3, <1>7, <1>9, <2>2, <2>4
  <2> QED
    BY <2>3, <2>4
<1> QED
  BY <1>10, <1>11, <1>12, <1>13, <1>14 DEF IDisco

\* The FCB then says the size it already has.
LEMMA GuardaTamanioBien ==
  ASSUME IDisco, GuardaTamanio
  PROVE  IDisco'
<1>0. PICK f : f = op.f
  OBVIOUS
<1>1. op.en = "tamanio" /\ lista' = Con(lista, f, lista[f].inicial, op.nuevo)
      /\ directorio' = Con(directorio, f, lista[f].inicial, op.nuevo)
      /\ op' = Responde /\ mapa' = mapa /\ directorio = lista /\ Sigue = op
  BY <1>0 DEF GuardaTamanio, Guarda, IDisco, ICopia, Sigue
<1>2. f \in DOMAIN lista /\ op.nuevo \in Nat /\ FCBs
  BY <1>0, <1>1, Vista DEF IDisco, ITipoOp, EnCrea
<1>3. /\ DOMAIN lista' = DOMAIN lista
      /\ lista'[f].inicial = lista[f].inicial /\ lista'[f].tam = op.nuevo
      /\ lista'[f] \in [inicial : Nat, tam : Nat]
      /\ \A g \in DOMAIN lista \ {f} : lista'[g] = lista[g]
  BY <1>1, <1>2 DEF Con, FCBs
<1>4. \A g \in DOMAIN lista :
        /\ g \in Firmes /\ Donde(g) = lista'[g].inicial /\ Cuantos(g) = Bloques(lista'[g].tam)
        /\ Extension(g) = Rango(lista'[g].inicial, Bloques(lista'[g].tam))
  <2>1. \A g \in DOMAIN lista : /\ g \in Firmes /\ Donde(g) = lista'[g].inicial
    BY <1>1, <1>2, <1>3 DEF Firmes, Donde, FCBs
  <2>2. \A g \in DOMAIN lista : Cuantos(g) = Bloques(lista'[g].tam)
    BY <1>0, <1>1, <1>2, <1>3 DEF Cuantos
  <2> QED
    BY <2>1, <2>2 DEF Extension
<1>5. Ordenado'
  <2>1. FCBs' /\ DOMAIN lista' \subseteq Archivos /\ mapa' \subseteq Nat
    BY <1>1, <1>2, <1>3 DEF FCBs, IDisco, ITipoDatos
  <2>2. \A g \in DOMAIN lista' : Rango(lista'[g].inicial, Bloques(lista'[g].tam)) \subseteq mapa'
    BY <1>1, <1>3, <1>4 DEF IDisco, IOcupa
  <2>3. \A g, h \in DOMAIN lista' : g # h =>
          Aparte(lista'[g].inicial, Bloques(lista'[g].tam), lista'[h].inicial, Bloques(lista'[h].tam))
    BY <1>3, <1>4 DEF IDisco, IAparte
  <2> QED
    BY <2>1, <2>2, <2>3 DEF Ordenado
<1>6. op'.en \in Neutros /\ directorio' = lista'
  BY <1>1 DEF Responde, Neutros
<1> QED
  BY <1>5, <1>6, EntraNeutraP DEF NeutroEntra

-----------------------------------------------------------------------------
(* The start *)

\* Every file of the directory is whole: ICaida.
LEMMA ArrancaDiscoBien ==
  ASSUME IDisco, ArrancaDisco
  PROVE  IDisco'
<1>1. /\ op.en = "caida" /\ ~ roto /\ lista' = directorio /\ directorio' = directorio
      /\ op' = Reposo
      /\ \A f \in DOMAIN directorio : directorio[f].tam # SINDATO
  BY DEF ArrancaDisco
<1>2. PICK resto \in {{}, mapa \ Persistentes} : mapa' = (mapa \cap Persistentes) \cup resto
  BY DEF ArrancaDisco
<1>3. mapa' \subseteq Nat /\ mapa \cap Persistentes \subseteq mapa'
  BY <1>2 DEF IDisco, ITipoDatos
<1>4. DOMAIN lista' \subseteq Archivos /\ FCBs'
  BY <1>1 DEF IDisco, ITipoDatos, FCBs, EnDisco, SINDATO
<1>5. /\ \A f \in DOMAIN directorio :
           Rango(directorio[f].inicial, Bloques(directorio[f].tam)) \subseteq mapa \cap Persistentes
      /\ \A f, g \in DOMAIN directorio : f # g =>
           Aparte(directorio[f].inicial, Bloques(directorio[f].tam),
                  directorio[g].inicial, Bloques(directorio[g].tam))
  BY <1>1 DEF IDisco, ICaida
<1>6. Ordenado'
  BY <1>1, <1>3, <1>4, <1>5 DEF Ordenado
<1>7. op'.en \in Neutros
  BY <1>1 DEF Reposo, Neutros
<1> QED
  BY <1>1, <1>6, <1>7, EntraNeutraP DEF NeutroEntra

=============================================================================
