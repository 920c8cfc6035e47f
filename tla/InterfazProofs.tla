--------------------------- MODULE InterfazProofs ---------------------------
(***************************************************************************)
(* IDisco is an invariant of an interface, and what follows from it: no    *)
(* two files on a block, memory and disk agree, the limit of a truncation  *)
(* and the contract of AsignacionContigua.                                 *)
(*                                                                         *)
(* No block is lost: a set bit always has an owner (NoPierdeBloques).  One *)
(* lemma per action: either no bit is set and nobody stops owning, or the  *)
(* bits that are set are of the file that takes them.                      *)
(***************************************************************************)
EXTENDS DialFsProofs

\* Steps of the kernel thread and of the processes do not touch the disk.
LEMMA DiscoIgual ==
  ASSUME IDisco, UNCHANGED discoVars
  PROVE  IDisco'
<1> USE DEF discoVars
<1>1. Sigue' = Sigue
  BY DEF Sigue
<1>2. ITipoDatos' /\ ITipoOp' /\ ICopia' /\ ICaida' /\ ITamanio'
  BY <1>1 DEF IDisco, ITipoDatos, ITipoOp, ICopia, ICaida, ITamanio, FCBs, Con, Hay
<1>3. Firmes' = Firmes /\ lista' = lista /\ Otros' = Otros
  BY <1>1 DEF Firmes, Otros
<1>4. \A g : Donde(g)' = Donde(g) /\ Cuantos(g)' = Cuantos(g)
  BY DEF Donde, Cuantos
<1>5. \A g : Extension(g)' = Extension(g)
  BY <1>4 DEF Extension
<1>6. IOcupa' /\ IAparte' /\ INuevo'
  BY <1>3, <1>4, <1>5 DEF IDisco, IOcupa, IAparte, INuevo
<1>7. \A g : Sitio(g)' = Sitio(g)
  BY <1>1, <1>4 DEF Sitio
<1>8. ISitio' /\ ILimite'
  BY <1>1, <1>3, <1>4, <1>7 DEF IDisco, ISitio, ILimite, Crece
<1> QED
  BY <1>2, <1>6, <1>8 DEF IDisco

\* A read or a write does not touch FCBs or bitmap.
LEMMA TransfiereBien ==
  ASSUME IDisco, op.en \in Neutros, NEW desp, NEW tam, NEW desde, NEW hay,
         Transfiere(desp, tam, desde, hay)
  PROVE  IDisco'
BY NeutraBien DEF Transfiere, Restan, Neutros

\* Whatever the instruction is.
LEMMA EmpiezaBien ==
  ASSUME IDisco, op.en \in Neutros, Empieza
  PROVE  IDisco'
<1>1. CASE op' = Responde /\ UNCHANGED <<mapa, directorio, lista, roto>>
  BY <1>1, NeutraBien DEF Responde, Neutros
<1>2. ASSUME NEW desp, NEW tam, NEW desde, NEW hay, Transfiere(desp, tam, desde, hay)
      PROVE  IDisco'
  BY <1>2, TransfiereBien
<1>3. ASSUME NEW f \in Archivos, Crea(f)
      PROVE  IDisco'
  BY <1>3, CreaBien
<1>4. ASSUME NEW f \in Archivos, Borra(f)
      PROVE  IDisco'
  BY <1>4, BorraBien
<1>5. ASSUME NEW f \in Archivos, NEW t \in Tamanios, Trunca(f, t)
      PROVE  IDisco'
  <2>1. t \in Nat
    BY <1>5, InterfazAssumption
  <2> QED
    BY <1>5, <2>1, TruncaBien
<1>6. ASSUME NEW f, NEW desp, NEW t, NEW puntero, Accede(f, desp, t, puntero)
      PROVE  IDisco'
  <2>1. Muere \/ Transfiere(desp, t, BLOCK_SIZE * lista[f].inicial + puntero, t)
    BY <1>6 DEF Accede
  <2> QED
    BY <1>2, <2>1, MuereBien DEF Neutros
<1> QED
  BY <1>1, <1>2, <1>3, <1>4, <1>5, <1>6 DEF Empieza

\* Each step of an operation keeps the invariant.
LEMMA PasoDiscoBien ==
  ASSUME IDisco, PasoDisco
  PROVE  IDisco'
BY CreaFcbBien, CreaInicialBien, CreaTamanioBien, BorraFcbBien, MueveFcbBien, CompactaDetrasBien,
   CompactaCuentaBien, CompactaDelanteBien, AgregaBien, GuardaTamanioBien DEF PasoDisco

\* And each step of the system.
LEMMA PasoBien ==
  ASSUME IDisco, [Next]_vars
  PROVE  IDisco'
<1>1. CASE UNCHANGED vars
  BY <1>1, DiscoIgual DEF vars
<1>2. CASE PasoIo
  BY <1>2, DiscoIgual DEF PasoIo, IoToma, IoRecibe, IoDesconexion
<1>3. ASSUME NEW p \in Pids, NEW conoce \in BOOLEAN, Bloquea(p, conoce)
      PROVE  IDisco'
  BY <1>3, DiscoIgual DEF Bloquea
<1>4. CASE InterfazRecibe
  <2>1. op.en \in Neutros
    BY <1>4 DEF InterfazRecibe, Neutros
  <2>2. CASE Empieza
    BY <2>1, <2>2, EmpiezaBien
  <2>3. CASE op' = Responde /\ UNCHANGED <<mapa, directorio, lista, roto>>
    BY <2>1, <2>3, NeutraBien DEF Responde, Neutros
  <2> QED
    BY <1>4, <2>2, <2>3 DEF InterfazRecibe
<1>5. CASE Pieza
  <2>1. op.en \in Neutros
    BY <1>5 DEF Pieza, Neutros
  <2>2. CASE Muere
    BY <2>1, <2>2, MuereBien DEF Neutros
  <2>3. CASE op'.en = "piezas" /\ UNCHANGED <<mapa, directorio, lista, roto>>
    BY <2>1, <2>3, NeutraBien DEF Neutros
  <2> QED
    BY <1>5, <2>2, <2>3 DEF Pieza, Restan
<1>6. CASE FinPiezas
  BY <1>6, NeutraBien DEF FinPiezas, Responde, Neutros
<1>7. CASE InterfazResponde
  <2>1. CASE op.en = "responde"
    BY <1>7, <2>1, NeutraBien DEF InterfazResponde, Reposo, Neutros
  <2>2. CASE op.en = "repite"
    <3>1. /\ op'.en = "repetida" /\ op'.f = op.f /\ op'.bloque = op.bloque
          /\ UNCHANGED <<mapa, directorio, lista>>
      BY <1>7, <2>2 DEF InterfazResponde, Creando
    <3>2. Hay(op.f) /\ ICopia'
      BY <2>2, <3>1 DEF IDisco, ITipoOp, ICopia, Hay
    <3>3. DOMAIN directorio' \subseteq Archivos
          /\ \A g \in DOMAIN directorio' : directorio'[g] \in EnDisco
      BY <2>2, <3>1, CreandoTipo DEF EnCrea
    <3> QED
      BY <2>2, <3>1, <3>2, <3>3, CreandoBien DEF EnCrea
  <2> QED
    BY <1>7, <2>1, <2>2 DEF InterfazResponde
<1>8. CASE PasoDisco
  BY <1>8, PasoDiscoBien
<1>9. CASE Detiene
  BY <1>9, MuereBien DEF Detiene
<1>10. CASE Reinicia
  BY <1>10, ArrancaDiscoBien DEF Reinicia
<1> QED
  BY <1>1, <1>2, <1>3, <1>4, <1>5, <1>6, <1>7, <1>8, <1>9, <1>10 DEF Next, PasoInterfaz

\* At every moment, crashes included: memory, FCB files, bitmap and what the operation under way
\* has still to do (inicializar_fs, crear_archivo, truncar_archivo, compactar...) fit together.
THEOREM DiscoInvariante == Spec => []IDisco
<1>1. Init => IDisco
  BY InicioBien DEF Init
<1>2. IDisco /\ [Next]_vars => IDisco'
  BY PasoBien
<1> QED
  BY <1>1, <1>2, PTL DEF Spec

\* No two files ever share a block and every block of a file has its bit set, in the middle of
\* a compaction too (SinSolapar), unless a process died at a moment that breaks the disk.
THEOREM NadieSolapa == Spec => []SinSolapar
<1>1. IDisco => SinSolapar
  <2> SUFFICES ASSUME IDisco, NEW j \in Vivos
               PROVE  /\ Extension(j) \subseteq mapa
                      /\ \A k \in Vivos \ {j} : Extension(j) \cap Extension(k) = {}
    BY DEF SinSolapar
  <2>1. Vivos \subseteq Firmes
    BY DEF Vivos, Firmes
  <2>2. \A g \in Firmes : Donde(g) \in Nat /\ Cuantos(g) \in Nat
    BY Vista DEF IDisco, IOcupa
  <2>3. \A k \in Vivos \ {j} : Extension(j) \cap Extension(k) = {}
    BY <2>1, <2>2 DEF IDisco, IAparte, Aparte, Extension, Rango
  <2> QED
    BY <2>1, <2>3 DEF IDisco, IOcupa
<1> QED
  BY <1>1, DiscoInvariante, PTL

\* While the interface waits for a request, its list of FCBs and the FCB files agree.
THEOREM MemoriaIgualDisco == Spec => []MemoriaYDisco
<1>1. IDisco => MemoriaYDisco
  BY DEF IDisco, ICopia, MemoriaYDisco
<1> QED
  BY <1>1, DiscoInvariante, PTL

\* No truncation takes a file past the last used block plus the blocks it asked for.
THEOREM NadiePasaElLimite == Spec => []DentroDelLimite
<1>1. IDisco => DentroDelLimite
  <2> SUFFICES ASSUME IDisco PROVE DentroDelLimite
    OBVIOUS
  <2> SUFFICES ASSUME Sigue.en \in {"agrega", "tamanio", "detras", "empuja"},
                      NEW k \in DOMAIN lista, NEW b \in Extension(k)
               PROVE  b <= Sigue.limite
    <3>1. op.en = "fcb" => Sigue = op.sigue
      BY DEF Sigue
    <3>2. op.en # "fcb" => Sigue = op
      BY DEF Sigue
    <3>3. op.en = "fcb" => op.sigue.en \in {"agrega", "detras", "empuja"}
      BY DEF IDisco, ITipoOp
    <3> QED
      BY <3>1, <3>2, <3>3 DEF DentroDelLimite
  <2>1. Donde(k) + Cuantos(k) - 1 <= Sigue.limite
    BY DEF IDisco, ILimite
  <2>2. Sigue.limite \in Nat
    BY DEF IDisco, ITipoOp
  <2>3. k \in Firmes
    BY DEF Firmes, Sigue
  <2>4. Donde(k) \in Nat /\ Cuantos(k) \in Nat
    BY <2>3, Vista DEF IDisco, IOcupa
  <2> QED
    BY <2>1, <2>2, <2>4 DEF Extension, Rango
<1> QED
  BY <1>1, DiscoInvariante, PTL

-----------------------------------------------------------------------------
(* The contract *)

\* An FCB changes and the files are in order afterwards: f got what nobody has.
LEMMA SoloDa ==
  ASSUME NEW f, Ordenado', directorio' = lista', Guardados \ {f} \subseteq Guardados',
         \A g \in Guardados \ {f} : directorio'[g] = directorio[g]
  PROVE  Asignacion!Solo(f)
<1>1. \A g \in DOMAIN lista' : Bloques(lista'[g].tam) \in Nat /\ lista'[g].inicial \in Nat
  BY BloquesTipo DEF Ordenado, FCBs
<1>2. \A g, h \in DOMAIN lista' : g # h =>
        Rango(lista'[g].inicial, Bloques(lista'[g].tam))
          \cap Rango(lista'[h].inicial, Bloques(lista'[h].tam)) = {}
  BY <1>1 DEF Ordenado, Aparte, Rango
<1>3. \A a : Asignacion!Ocupa(a) = Rango(a.inicial, Bloques(a.tam))
  BY DEF Asignacion!Ocupa, Rango, Bloques, Techo
<1>4. DOMAIN Asignado = Guardados /\ DOMAIN Asignado' = Guardados'
      /\ Guardados' \subseteq DOMAIN lista'
      /\ (\A g \in Guardados : Asignado[g] = directorio[g])
      /\ (\A g \in Guardados' : Asignado'[g] = lista'[g])
  BY DEF Asignado, Guardados
<1>5. SUFFICES ASSUME NEW g \in Guardados \ {f}
               PROVE  /\ g \in DOMAIN Asignado' /\ Asignado'[g] = Asignado[g]
                      /\ f \in DOMAIN Asignado' =>
                           Asignacion!Ocupa(Asignado'[f]) \cap Asignacion!Ocupa(Asignado[g]) = {}
  BY <1>4 DEF Asignacion!Solo
<1> QED
  BY <1>2, <1>3, <1>4, <1>5

\* Only these steps change an FCB: the others map to a stutter.
LEMMA FcbIgual ==
  ASSUME IDisco, Next, directorio' # directorio
  PROVE  \/ CreaFcb \/ CreaInicial \/ CreaTamanio \/ BorraFcb \/ MueveFcb \/ GuardaTamanio
         \/ \E f \in Archivos, t \in Tamanios : Trunca(f, t) /\ op.en = "reposo"
BY DEF Next, PasoIo, IoToma, IoRecibe, IoDesconexion, PasoInterfaz, InterfazRecibe, Empieza, Pieza,
       FinPiezas, InterfazResponde, PasoDisco, Detiene, Reinicia, ArrancaDisco, Bloquea, Muere,
       Crea, Borra, Accede, Transfiere, CompactaDetras, CompactaCuenta, CompactaDelante, Mueve,
       Agrega, discoVars

\* While every FCB has both keys, they are the list in memory.
LEMMA GuardadosTodos ==
  ASSUME FCBs, directorio = lista
  PROVE  Guardados = DOMAIN lista /\ Asignado = [f \in DOMAIN lista |-> lista[f]]
<1>1. \A f \in DOMAIN lista : lista[f].tam # SINDATO
  BY DEF FCBs, SINDATO
<1> QED
  BY <1>1 DEF Guardados, Asignado

Todos == FCBs /\ directorio = lista
VistaTodos == Guardados = DOMAIN lista /\ Asignado = [f \in DOMAIN lista |-> lista[f]]

\* Where every file is while none is being created or moved,
LEMMA TodosDa == Todos => VistaTodos
BY GuardadosTodos DEF Todos, VistaTodos

\* in the next state,
LEMMA TodosDaP == Todos' => VistaTodos'
BY TodosDa, PTL

\* One FCB is saved again.
LEMMA GuardaDa ==
  ASSUME NEW f \in DOMAIN lista, NEW i \in Nat, NEW t \in Nat, directorio = lista, FCBs, Ordenado',
         Guarda(f, i, t)
  PROVE  /\ Asignacion!Solo(f) /\ DOMAIN Asignado' = DOMAIN Asignado /\ f \in DOMAIN Asignado
         /\ Asignado'[f].inicial = i /\ Asignado'[f].tam = t
         /\ Asignado[f] = lista[f]
<1>1. /\ DOMAIN lista' = DOMAIN lista /\ directorio' = lista'
      /\ lista'[f].inicial = i /\ lista'[f].tam = t
      /\ \A g \in DOMAIN lista \ {f} : lista'[g] = lista[g]
  BY DEF Guarda, Con, FCBs
<1>2. VistaTodos /\ VistaTodos'
  BY <1>1, TodosDa, TodosDaP DEF Todos, Ordenado
<1>3. Asignacion!Solo(f)
  BY <1>1, <1>2, SoloDa DEF VistaTodos
<1> QED
  BY <1>1, <1>2, <1>3 DEF VistaTodos

EnReposo == IDisco /\ op.en \in Quietos
OrdenadoTodo == Ordenado /\ (op.en \notin EnCrea \ {"crea_fcb"} => directorio = lista)

\* and when all of them are what their FCB says,
LEMMA EnReposoDa == EnReposo => OrdenadoTodo
BY OrdenadoSale DEF EnReposo, OrdenadoTodo

\* in the next state.
LEMMA EnReposoDaP == EnReposo' => OrdenadoTodo'
BY EnReposoDa, PTL

\* Each step is one of the contract, or a stutter, or a save of a name created again.
LEMMA PasoContrato ==
  ASSUME IDisco, IDisco', Next, directorio' # directorio, ~ Repite
  PROVE  Asignacion!Next \/ UNCHANGED Asignado
<1>1. CASE CreaFcb
  <2>1. op.en = "crea_fcb" /\ op.f \notin DOMAIN directorio
        /\ directorio' = Con(directorio, op.f, SINDATO, SINDATO)
    BY <1>1 DEF CreaFcb
  <2>2. Guardados' = Guardados /\ \A g \in Guardados : directorio'[g] = directorio[g]
    BY <2>1 DEF Con, Guardados
  <2> QED
    BY <2>2 DEF Asignado
<1>a. CASE CreaInicial
  <2>1. op.en = "crea_inicial" /\ directorio' = Con(directorio, op.f, op.bloque, directorio[op.f].tam)
        /\ directorio = Con(lista, op.f, SINDATO, SINDATO)
    BY <1>a DEF CreaInicial, IDisco, ICopia, Repite
  <2>2. op.f \in DOMAIN directorio /\ directorio[op.f].tam = SINDATO
    BY <2>1 DEF Con
  <2>3. Guardados' = Guardados /\ \A g \in Guardados : directorio'[g] = directorio[g]
    BY <2>1, <2>2 DEF Con, Guardados
  <2> QED
    BY <2>3 DEF Asignado
<1>2. CASE CreaTamanio
  <2>0. PICK f : f = op.f
    OBVIOUS
  <2>1. op.en = "crea_tamanio" /\ f \notin DOMAIN lista
        /\ lista' = Con(lista, f, op.bloque, 0) /\ op' = Responde
        /\ directorio' = Con(directorio, f, op.bloque, 0)
        /\ directorio = Con(lista, f, op.bloque, SINDATO)
    BY <1>2, <2>0 DEF CreaTamanio, IDisco, ICopia, Repite, Hay
  <2>2. f \in Archivos \ DOMAIN lista /\ FCBs
    BY <2>0, <2>1, Vista, CreandoTipo DEF IDisco, EnCrea
  <2>3. OrdenadoTodo' /\ op'.en \notin EnCrea
    BY <2>1, EnReposoDaP DEF Responde, Neutros, Quietos, EnReposo, EnCrea
  <2>4. Ordenado' /\ directorio' = lista'
    BY <2>3 DEF OrdenadoTodo
  <2>5. VistaTodos'
    BY <2>4, TodosDaP DEF Todos, Ordenado
  <2>6. DOMAIN lista' = DOMAIN lista \cup {f} /\ lista'[f].tam = 0
        /\ \A g \in DOMAIN lista : lista'[g] = lista[g]
    BY <2>1, <2>2 DEF Con
  <2>7. Guardados = DOMAIN lista /\ \A g \in DOMAIN lista : directorio[g] = lista[g]
    <3>1. DOMAIN directorio = DOMAIN lista \cup {f} /\ directorio[f].tam = SINDATO
          /\ \A g \in DOMAIN lista : directorio[g] = lista[g] /\ lista[g].tam # SINDATO
      BY <2>1, <2>2 DEF Con, FCBs, SINDATO
    <3> QED
      BY <3>1 DEF Guardados
  <2>8. Asignacion!Solo(f)
    BY <2>4, <2>5, <2>6, <2>7, SoloDa DEF VistaTodos
  <2>9. DOMAIN Asignado = DOMAIN lista /\ DOMAIN Asignado' = DOMAIN lista \cup {f}
        /\ Asignado'[f].tam = 0
    BY <2>5, <2>6, <2>7 DEF Asignado, VistaTodos
  <2> QED
    BY <2>2, <2>8, <2>9 DEF Asignacion!Next, Asignacion!Crear
<1>3. CASE BorraFcb
  <2>0. PICK f : f = op.f
    OBVIOUS
  <2>1. op.en = "borra" /\ directorio' = Sin(directorio, f) /\ lista' = Sin(lista, f) /\ op' = Responde
        /\ directorio = lista
    BY <1>3, <2>0 DEF BorraFcb, IDisco, ICopia
  <2>2. f \in DOMAIN lista /\ f \in Archivos /\ FCBs
    BY <2>0, <2>1, Vista DEF IDisco, ITipoOp, ITipoDatos
  <2>3. OrdenadoTodo' /\ op'.en \notin EnCrea
    BY <2>1, EnReposoDaP DEF Responde, Neutros, Quietos, EnReposo, EnCrea
  <2>4. Ordenado' /\ directorio' = lista'
    BY <2>3 DEF OrdenadoTodo
  <2>5. VistaTodos' /\ VistaTodos
    BY <2>1, <2>2, <2>4, TodosDa, TodosDaP DEF Todos, Ordenado
  <2>6. DOMAIN lista' = DOMAIN lista \ {f} /\ \A g \in DOMAIN lista' : lista'[g] = lista[g]
    BY <2>1 DEF Sin
  <2>7. Asignacion!Solo(f)
    BY <2>1, <2>4, <2>5, <2>6, SoloDa DEF VistaTodos
  <2>8. DOMAIN Asignado = DOMAIN lista /\ DOMAIN Asignado' = DOMAIN lista \ {f}
    BY <2>5, <2>6 DEF VistaTodos
  <2> QED
    BY <2>2, <2>7, <2>8 DEF Asignacion!Next, Asignacion!Borrar
<1>4. CASE MueveFcb
  <2>0. PICK f, i : f = op.mueve /\ i = lista[op.mueve].inicial + op.d
    OBVIOUS
  <2>1. op.en = "fcb" /\ Guarda(f, i, lista[f].tam) /\ op' = op.sigue /\ directorio = lista
    BY <1>4, <2>0 DEF MueveFcb, IDisco, ICopia
  <2>2. f \in DOMAIN lista /\ f \in Archivos /\ FCBs /\ op.sigue.en \in {"agrega", "detras", "empuja"}
    BY <2>0, <2>1, Vista DEF IDisco, ITipoOp, ITipoDatos
  <2>3. OrdenadoTodo' /\ op'.en \notin EnCrea
    BY <2>1, <2>2, EnReposoDaP DEF Quietos, EnReposo, EnCrea
  <2>4. Ordenado'
    BY <2>3 DEF OrdenadoTodo
  <2>5. i \in Nat
    <3>1. f \in Firmes /\ Donde(f) = i
      BY <2>0, <2>1, <2>2 DEF Firmes, Donde
    <3> QED
      BY <3>1 DEF IDisco, IOcupa
  <2>6. PICK t \in Nat : t = lista[f].tam
    BY <2>2 DEF FCBs
  <2>7. /\ Asignacion!Solo(f) /\ DOMAIN Asignado' = DOMAIN Asignado /\ f \in DOMAIN Asignado
        /\ Asignado'[f].tam = t /\ Asignado[f] = lista[f]
    BY <2>1, <2>2, <2>4, <2>5, <2>6, GuardaDa
  <2> QED
    BY <2>2, <2>6, <2>7 DEF Asignacion!Next, Asignacion!Mover
<1>5. ASSUME NEW f \in Archivos, NEW t \in Nat, f \in DOMAIN lista, FCBs, directorio = lista,
             Guarda(f, lista[f].inicial, t), op' = Responde
      PROVE  Asignacion!Next
  <2>1. OrdenadoTodo' /\ op'.en \notin EnCrea
    BY <1>5, EnReposoDaP DEF Responde, Neutros, Quietos, EnReposo, EnCrea
  <2>2. Ordenado'
    BY <2>1 DEF OrdenadoTodo
  <2>3. PICK i \in Nat : i = lista[f].inicial
    BY <1>5 DEF FCBs
  <2>4. /\ Asignacion!Solo(f) /\ DOMAIN Asignado' = DOMAIN Asignado /\ f \in DOMAIN Asignado
        /\ Asignado'[f].inicial = i /\ Asignado[f] = lista[f]
    BY <1>5, <2>2, <2>3, GuardaDa
  <2> QED
    BY <2>3, <2>4 DEF Asignacion!Next, Asignacion!Truncar
<1>6. CASE GuardaTamanio
  <2>0. PICK f, t : f = op.f /\ t = op.nuevo
    OBVIOUS
  <2>1. op.en = "tamanio" /\ Guarda(f, lista[f].inicial, t) /\ op' = Responde
        /\ directorio = lista /\ Sigue = op
    BY <1>6, <2>0 DEF GuardaTamanio, IDisco, ICopia, Sigue
  <2>2. f \in DOMAIN lista /\ f \in Archivos /\ t \in Nat /\ FCBs
    BY <2>0, <2>1, Vista DEF IDisco, ITipoOp, ITipoDatos
  <2> QED
    BY <1>5, <2>1, <2>2
<1>7. ASSUME NEW f \in Archivos, NEW t \in Tamanios, Trunca(f, t), op.en = "reposo"
      PROVE  Asignacion!Next
  <2>1. f \in DOMAIN lista /\ Guarda(f, lista[f].inicial, t) /\ op' = Responde
    BY <1>7 DEF Trunca, Hay, Muere, Mueve
  <2>2. directorio = lista /\ FCBs /\ t \in Nat
    BY <1>7, Vista, InterfazAssumption DEF IDisco, ICopia
  <2> QED
    BY <1>5, <2>1, <2>2
<1> QED
  BY <1>1, <1>a, <1>2, <1>3, <1>4, <1>6, <1>7, FcbIgual

\* What the FCB files say, at every step and over restarts, is what AsignacionContigua allows:
\* one file is created, deleted, resized or moved whole to blocks that no other file has.  The
\* two saves of manejar_fs_create for a name that exists are left out: the first may not be.
THEOREM CumpleContrato == Spec => ImplementaAsignacion
<1>1. Init => Asignacion!Init
  BY DEF Init, DiscoInit, Asignacion!Init, Asignado, Guardados
<1>2. IDisco /\ IDisco' /\ [Next]_vars => [Repite \/ Asignacion!Next]_Asignado
  <2>1. CASE directorio' = directorio
    BY <2>1 DEF Asignado, Guardados
  <2>2. CASE directorio' # directorio
    BY <2>2, PasoContrato DEF vars, discoVars
  <2> QED
    BY <2>1, <2>2
<1> QED
  BY <1>1, <1>2, DiscoInvariante, PTL DEF Spec, ImplementaAsignacion

-----------------------------------------------------------------------------
(* No block is lost *)

\* Nothing is being created,
LEMMA NadaSeCrea == op.en \notin EnCrea => EnCreacion = {}
BY DEF EnCreacion, EnCrea

\* no name is created again: each file of the list has its blocks,
LEMMA NadaSePisa ==
  op.en \notin {"repite", "repetida"} => Cubierto = (UNION {Extension(g) : g \in Vivos}) \cup EnCreacion
BY DEF Cubierto, Pisados

\* in the next state too.
LEMMA NadaSePisaP ==
  op'.en \notin {"repite", "repetida"}
    => Cubierto' = (UNION {Extension(g)' : g \in Vivos'}) \cup EnCreacion'
BY DEF Cubierto, Pisados

\* Sueltos is what is set and has no owner,
LEMMA SueltosSon == Sueltos = mapa \ Cubierto
BY DEF Sueltos

\* in the next state too.
LEMMA SueltosSonP == Sueltos' = mapa' \ Cubierto'
BY DEF Sueltos

\* Where each file is what its FCB says.
VistaCubierto == /\ Vivos = DOMAIN lista
  /\ \A f \in DOMAIN lista : Extension(f) = Rango(lista[f].inicial, Bloques(lista[f].tam))

\* Between operations that is what memory says,
LEMMA CubiertoDa == Quieto => VistaCubierto
BY Quieta DEF VistaCubierto, VistaQuieta, Vivos, Quieto, Quietos, Neutros, EnCrea

\* in the next state too.
LEMMA CubiertoDaP == Quieto' => VistaCubierto'
BY CubiertoDa, PTL

\* and then only the files of the list have blocks,
LEMMA CubiertoSolo ==
  op.en \notin EnCrea => Cubierto = UNION {Extension(g) : g \in Vivos}
BY NadaSePisa, NadaSeCrea DEF EnCrea

\* as in the next state.
LEMMA CubiertoSoloP ==
  op'.en \notin EnCrea => Cubierto' = UNION {Extension(g)' : g \in Vivos'}
BY CubiertoSolo, NadaSePisaP DEF EnCrea, EnCreacion

\* No FCB and no bit changes.
LEMMA NadaSuelto ==
  ASSUME IDisco, op.en \in Neutros \cup {"agrega", "detras", "empuja"},
         op'.en \in Neutros \cup {"agrega", "detras", "empuja"},
         UNCHANGED <<mapa, lista>>
  PROVE  Sueltos' \subseteq Sueltos
<1>1. Quieto /\ Quieto'
  BY Vista DEF IDisco, Quieto, Quietos, FCBs
<1>2. VistaCubierto /\ VistaCubierto'
  BY <1>1, CubiertoDa, CubiertoDaP
<1>4. Vivos' = Vivos /\ \A g \in Vivos : Extension(g)' = Extension(g)
  BY <1>2 DEF VistaCubierto
<1>3. Cubierto' = Cubierto
  BY <1>4, CubiertoSolo, CubiertoSoloP DEF Neutros, EnCrea
<1> QED
  BY <1>3, SueltosSon, SueltosSonP

\* A jump sets the bits of its new place and clears those of the old one.
LEMMA MueveSuelto ==
  ASSUME IDisco, op.en \in Neutros \cup {"agrega", "detras", "empuja"},
         NEW f \in DOMAIN lista, NEW d \in Int, NEW sigue, Salta(f, d, sigue),
         lista[f].inicial + d \in Nat
  PROVE  Sueltos' \subseteq Sueltos
<1>1. op.en \in Quietos /\ op.en \notin EnCrea \cup {"borra"}
  BY DEF Neutros, Quietos, EnCrea
<1>2. VistaQuieta /\ VistaSalta(f, d) /\ lista' = lista
  BY <1>1, OrdenadoSale, SaltaVista DEF Salta
<1>3. Vivos = DOMAIN lista /\ Vivos' = DOMAIN lista
      /\ Cubierto = UNION {Extension(g) : g \in DOMAIN lista}
      /\ Cubierto' = UNION {Extension(g)' : g \in DOMAIN lista}
  BY NadaSePisa, NadaSePisaP, <1>1, <1>2 DEF Vivos, VistaSalta, EnCreacion, EnCrea
<1> DEFINE i == lista[f].inicial
           n == Bloques(lista[f].tam)
<1>4. i \in Nat /\ n \in Nat /\ n >= 1 /\ i + d \in Nat /\ Fin(lista[f]) = i + n - 1
      /\ Extension(f) = Rango(i, n) /\ Extension(f)' = Rango(i + d, n)
  BY <1>2 DEF VistaQuieta, VistaSalta, Fin, Extension
<1>5. \A g \in DOMAIN lista \ {f} : Extension(g)' = Extension(g)
  BY <1>2 DEF VistaQuieta, VistaSalta, Extension
<1>6. mapa' = (mapa \cup (IF d < 0 THEN Rango(i + d, - d) ELSE Rango(i + n, d)))
                \ (IF d < 0 THEN Rango(i + n + d, - d) ELSE Rango(i, d))
  <2>1. Fin(lista[f]) + 1 = i + n /\ Fin(lista[f]) + d + 1 = i + n + d
    BY <1>4
  <2> QED
    BY <2>1 DEF Salta
<1> HIDE DEF i, n
<1>7. ASSUME NEW b \in mapa', b \notin Rango(i + d, n)
      PROVE  b \in mapa /\ b \notin Rango(i, n)
  <2>1. CASE d < 0
    BY <1>4, <1>6, <1>7, <2>1 DEF Rango
  <2>2. CASE d >= 0
    BY <1>4, <1>6, <1>7, <2>2 DEF Rango
  <2> QED
    BY <2>1, <2>2
<1>8. ASSUME NEW b \in mapa', b \notin Cubierto'
      PROVE  b \in mapa /\ b \notin Cubierto
  <2>1. \A g \in DOMAIN lista : b \notin Extension(g)'
    BY <1>3, <1>8
  <2>2. b \in mapa /\ b \notin Extension(f)
    BY <1>4, <1>7, <1>8, <2>1
  <2>3. \A g \in DOMAIN lista : b \notin Extension(g)
    BY <1>5, <2>1, <2>2
  <2> QED
    BY <1>3, <2>2, <2>3
<1> QED
  BY <1>8, SueltosSon, SueltosSonP

\* The extents and the bits stay, the owners too.
LEMMA IgualSuelto ==
  ASSUME mapa' = mapa, Cubierto \subseteq Cubierto'
  PROVE  Sueltos' \subseteq Sueltos
BY SueltosSon, SueltosSonP

\* To save the FCB of a moved file changes no owner.
LEMMA MueveFcbSuelto ==
  ASSUME IDisco, MueveFcb
  PROVE  Sueltos' \subseteq Sueltos
<1>0. PICK m : m = op.mueve
  OBVIOUS
<1>1. op.en = "fcb" /\ op' = op.sigue /\ mapa' = mapa
      /\ lista' = Con(lista, m, lista[m].inicial + op.d, lista[m].tam)
  BY <1>0 DEF MueveFcb, Guarda
<1>2. m \in DOMAIN lista /\ op.sigue.en \in {"agrega", "detras", "empuja"} /\ FCBs
  BY <1>0, <1>1, Vista DEF IDisco, ITipoOp
<1>3. DOMAIN lista' = DOMAIN lista /\ Vivos = DOMAIN lista /\ Vivos' = DOMAIN lista
  BY <1>1, <1>2 DEF Con, Vivos
<1>4. \A g \in DOMAIN lista : lista'[g].inicial = Donde(g) /\ lista'[g].tam = lista[g].tam
                              /\ Donde(g) \in Nat
  <2>1. Donde(m) = lista[m].inicial + op.d /\ \A g \in DOMAIN lista \ {m} : Donde(g) = lista[g].inicial
    BY <1>0, <1>1, <1>2 DEF Donde, FCBs
  <2>2. \A g \in DOMAIN lista : g \in Firmes /\ Donde(g) \in Nat
    BY <1>1 DEF IDisco, IOcupa, Firmes
  <2> QED
    BY <1>1, <1>2, <2>1, <2>2 DEF Con
<1>5. \A g \in DOMAIN lista : Extension(g)' = Extension(g)
  BY <1>1, <1>2, <1>3, <1>4 DEF Extension, Donde, Cuantos
<1>6. Cubierto \subseteq Cubierto'
  BY <1>1, <1>2, <1>3, <1>5, CubiertoSolo, CubiertoSoloP DEF EnCrea
<1> QED
  BY <1>1, <1>6, IgualSuelto

\* The block of a new file is of the creation,
LEMMA CreaSuelto ==
  ASSUME IDisco, IDisco', op.en \in Neutros, NEW f \in Archivos, Crea(f), op'.en # "caida"
  PROVE  Sueltos' \subseteq Sueltos
<1>1. PICK b : /\ mapa' = mapa \cup {b} /\ op'.en = "crea_fcb" /\ op'.bloque = b
               /\ lista' = lista
  BY DEF Crea, Creando, Muere, Caida
<1>2. Quieto /\ Quieto'
  BY <1>1, Vista DEF IDisco, Quieto, Quietos, EnCrea, FCBs
<1>3. VistaCubierto /\ VistaCubierto'
  BY <1>2, CubiertoDa, CubiertoDaP
<1>4. ASSUME NEW x \in mapa', x \notin Cubierto'
      PROVE  x \in mapa /\ x \notin Cubierto
  <2>1. op.en \notin EnCrea /\ op'.en = "crea_fcb" /\ op'.bloque = b
    BY <1>1 DEF Neutros, EnCrea
  <2>2. \A g \in DOMAIN lista : Extension(g)' = Extension(g)
    BY <1>1, <1>3 DEF VistaCubierto
  <2>3. Vivos' = DOMAIN lista /\ Vivos = DOMAIN lista
    BY <1>1, <1>3 DEF VistaCubierto
  <2>4. EnCreacion = {} /\ EnCreacion' = {b}
    BY <2>1, NadaSeCrea DEF EnCreacion
  <2>5. x # b /\ \A g \in Vivos' : x \notin Extension(g)'
    <3>1. x \notin UNION {Extension(g)' : g \in Vivos'} /\ x \notin EnCreacion'
      BY <1>4, <2>1, NadaSePisaP
    <3> QED
      BY <2>4, <3>1
  <2> QED
    BY <1>1, <1>4, <2>1, <2>2, <2>3, <2>4, <2>5, NadaSePisa DEF EnCrea
<1> QED
  BY <1>4, SueltosSon, SueltosSonP

\* while its FCB file is made and given the block,
LEMMA CreaFcbSuelto ==
  ASSUME IDisco, CreaFcb \/ CreaInicial
  PROVE  Sueltos' \subseteq Sueltos
<1>1. /\ op.en \in {"crea_fcb", "crea_inicial"} /\ mapa' = mapa /\ lista' = lista
      /\ op'.en \in {"crea_inicial", "crea_tamanio"} /\ op'.bloque = op.bloque
  BY DEF CreaFcb, CreaInicial, Creando
<1>2. Quieto /\ Quieto'
  BY <1>1, Vista DEF IDisco, Quieto, Quietos, EnCrea, FCBs
<1>3. VistaCubierto /\ VistaCubierto'
  BY <1>2, CubiertoDa, CubiertoDaP
<1>4. Cubierto \subseteq Cubierto'
  BY <1>1, <1>3, NadaSePisa, NadaSePisaP DEF VistaCubierto, EnCreacion
<1> QED
  BY <1>1, <1>4, IgualSuelto

\* and then of the file, if the name is new.
LEMMA CreaTamanioSuelto ==
  ASSUME IDisco, CreaTamanio
  PROVE  Sueltos' \subseteq Sueltos \/ op'.en = "repite"
<1>0. PICK f, b : f = op.f /\ b = op.bloque
  OBVIOUS
<1> SUFFICES ASSUME op'.en # "repite" PROVE Sueltos' \subseteq Sueltos
  OBVIOUS
<1>1. /\ op.en = "crea_tamanio" /\ mapa' = mapa /\ lista' = Con(lista, f, b, 0) /\ op' = Responde
      /\ f \notin DOMAIN lista
  BY <1>0 DEF CreaTamanio, Creando, Hay
<1>2. b \in Nat /\ FCBs
  BY <1>0, <1>1, Vista, CreandoTipo DEF IDisco, EnCrea
<1>3. /\ DOMAIN lista' = DOMAIN lista \cup {f} /\ FCBs' /\ lista'[f].inicial = b /\ lista'[f].tam = 0
      /\ \A g \in DOMAIN lista : lista'[g] = lista[g]
  BY <1>1, <1>2 DEF Con, FCBs
<1>4. Quieto /\ Quieto' /\ op'.en \notin EnCrea
  BY <1>1, <1>2, <1>3 DEF Quieto, Quietos, Responde, Neutros, EnCrea
<1>5. VistaCubierto /\ VistaCubierto'
  BY <1>4, CubiertoDa, CubiertoDaP
<1>6. b \in Extension(f)'
  BY <1>2, <1>3, <1>5 DEF VistaCubierto, Rango, Bloques
<1>7. \A g \in DOMAIN lista : Extension(g)' = Extension(g)
  BY <1>3, <1>5 DEF VistaCubierto
<1>8. /\ Cubierto = (UNION {Extension(g) : g \in DOMAIN lista}) \cup {b}
      /\ Cubierto' = UNION {Extension(g)' : g \in DOMAIN lista \cup {f}}
  <2>1. Vivos = DOMAIN lista /\ Vivos' = DOMAIN lista \cup {f}
    BY <1>3, <1>5 DEF VistaCubierto
  <2>2. EnCreacion = {b} /\ EnCreacion' = {}
    BY <1>0, <1>1, <1>4 DEF EnCreacion, EnCrea
  <2> QED
    BY <1>1, <1>4, <2>1, <2>2, NadaSePisa, NadaSePisaP DEF EnCrea
<1>9. ASSUME NEW x \in Cubierto
      PROVE  x \in Cubierto'
  <2>1. x = b \/ \E g \in DOMAIN lista : x \in Extension(g)
    BY <1>8, <1>9
  <2>2. \E g \in DOMAIN lista \cup {f} : x \in Extension(g)'
    BY <1>6, <1>7, <2>1
  <2> QED
    BY <1>8, <2>2
<1> QED
  BY <1>1, <1>9, IgualSuelto

\* The answer to a creation of a name that exists.
LEMMA RepiteSuelto ==
  ASSUME op.en = "repite", InterfazResponde
  PROVE  Sueltos' \subseteq Sueltos
<1>1. op'.en = "repetida" /\ op'.f = op.f /\ op'.bloque = op.bloque /\ UNCHANGED <<mapa, lista>>
  BY DEF InterfazResponde, Creando
<1>2. Vivos' = Vivos /\ Pisados' = Pisados /\ EnCreacion' = EnCreacion
  BY <1>1 DEF Vivos, Pisados, EnCreacion
<1>3. \A g : Extension(g)' = Extension(g)
  BY <1>1 DEF Extension, Donde, Cuantos
<1>4. Cubierto' = Cubierto
  BY <1>2, <1>3 DEF Cubierto
<1> QED
  BY <1>1, <1>4, IgualSuelto

\* The blocks of a file that is deleted are cleared, unless it is empty.
LEMMA BorraSuelto ==
  ASSUME IDisco, op.en \in Neutros, NEW f \in Archivos, Borra(f), op'.en # "caida"
  PROVE  Sueltos' \subseteq Sueltos \/ (op'.en = "borra" /\ lista[op'.f].tam = 0)
<1>1. /\ f \in DOMAIN lista /\ mapa' = mapa \ Rango(lista[f].inicial, Techo(lista[f].tam))
      /\ op'.en = "borra" /\ op'.f = f /\ lista' = lista
  BY DEF Borra, Hay, Muere, Caida
<1>2. SUFFICES ASSUME lista[f].tam # 0 PROVE Sueltos' \subseteq Sueltos
  BY <1>1
<1>3. Quieto /\ op.en \notin EnCrea
  BY Vista DEF IDisco, Quieto, Quietos, Neutros, EnCrea
<1>4. VistaCubierto /\ VistaQuieta
  BY <1>3, CubiertoDa, Quieta
<1>5. Extension(f) = Rango(lista[f].inicial, Techo(lista[f].tam))
  <2>1. lista[f].tam \in Nat /\ lista[f].tam > 0
    BY <1>1, <1>2, <1>4 DEF VistaQuieta
  <2> QED
    BY <1>1, <1>4, <2>1, BloquesTipo DEF VistaCubierto
<1>6. Vivos' = DOMAIN lista \ {f} /\ \A g \in DOMAIN lista : Extension(g)' = Extension(g)
  BY <1>1, <1>4 DEF Vivos, VistaQuieta, Extension, Donde, Cuantos
<1>7. ASSUME NEW b \in mapa', b \notin Cubierto'
      PROVE  b \in mapa /\ b \notin Cubierto
  <2>1. b \in mapa /\ b \notin Extension(f)
    BY <1>1, <1>5, <1>7
  <2>2. \A g \in DOMAIN lista \ {f} : b \notin Extension(g)
    BY <1>1, <1>6, <1>7, CubiertoSoloP DEF EnCrea
  <2> QED
    BY <1>3, <1>4, <2>1, <2>2, CubiertoSolo DEF VistaCubierto
<1> QED
  BY <1>7, SueltosSon, SueltosSonP

\* The FCB goes when the bits are clear already.
LEMMA BorraFcbSuelto ==
  ASSUME IDisco, BorraFcb
  PROVE  Sueltos' \subseteq Sueltos
<1>0. PICK f : f = op.f
  OBVIOUS
<1>1. /\ op.en = "borra" /\ mapa' = mapa /\ lista' = Sin(lista, f) /\ op' = Responde
  BY <1>0 DEF BorraFcb
<1>2. /\ DOMAIN lista' = DOMAIN lista \ {f} /\ \A g \in DOMAIN lista' : lista'[g] = lista[g]
      /\ FCBs /\ Vivos = DOMAIN lista \ {f}
  BY <1>0, <1>1, Vista DEF Sin, IDisco, Vivos
<1>3. Quieto' /\ op'.en \notin EnCrea
  BY <1>1, <1>2 DEF Quieto, Quietos, EnCrea, Responde, FCBs, Neutros
<1>4. VistaCubierto'
  BY <1>3, CubiertoDaP
<1>5. \A g \in DOMAIN lista' : Extension(g)' = Extension(g)
  BY <1>1, <1>2, <1>4 DEF VistaCubierto, Extension, Donde, Cuantos, FCBs
<1>6. Cubierto \subseteq Cubierto'
  BY <1>1, <1>2, <1>3, <1>4, <1>5, CubiertoSolo, CubiertoSoloP DEF VistaCubierto, EnCrea
<1> QED
  BY <1>1, <1>6, IgualSuelto

\* A resize in place, a shrink, or the beginning of a growth.
LEMMA TruncaSuelto ==
  ASSUME IDisco, op.en \in Neutros, NEW f \in Archivos, NEW nuevo \in Nat, Trunca(f, nuevo),
         op'.en # "caida"
  PROVE  Sueltos' \subseteq Sueltos
<1> DEFINE i == lista[f].inicial
           n == Bloques(lista[f].tam)
           m == Bloques(nuevo)
           agrega == m - n
           limite == Limite(IF agrega > 0 THEN agrega ELSE 0)
<1>1. ~ Muere
  BY DEF Muere, Caida
<1>2. f \in DOMAIN lista
  BY <1>1 DEF Trunca, Hay
<1>3. Quieto /\ op.en \in Quietos /\ op.en \notin EnCrea \cup {"borra"}
  BY Vista DEF IDisco, Quieto, Quietos, Neutros, EnCrea
<1>4. VistaCubierto /\ VistaQuieta
  BY <1>3, CubiertoDa, Quieta
<1>5. i \in Nat /\ n \in Nat /\ n >= 1 /\ m \in Nat /\ m >= 1 /\ Fin(lista[f]) = i + n - 1
  BY <1>2, <1>4, BloquesTipo DEF VistaQuieta, Fin
<1>6. Vivos = DOMAIN lista /\ Cubierto = UNION {Extension(g) : g \in DOMAIN lista}
  BY NadaSePisa, NadaSePisaP, <1>3, <1>4 DEF VistaCubierto, EnCreacion, EnCrea
<1>7. CASE agrega = 0 /\ Guarda(f, i, nuevo) /\ op' = Responde /\ UNCHANGED <<mapa, roto>>
  <2>1. /\ DOMAIN lista' = DOMAIN lista /\ FCBs' /\ lista'[f].inicial = i /\ lista'[f].tam = nuevo
        /\ \A g \in DOMAIN lista \ {f} : lista'[g] = lista[g]
    BY <1>2, <1>3, <1>5, <1>7 DEF Guarda, Con, FCBs, Quieto
  <2>2. Quieto' /\ op'.en \notin EnCrea \cup {"borra"}
    BY <1>7, <2>1 DEF Quieto, Quietos, Neutros, Responde, EnCrea
  <2>3. VistaCubierto'
    BY <2>2, CubiertoDaP
  <2>4. m = n
    BY <1>5, <1>7
  <2>5. \A g \in DOMAIN lista : Extension(g)' = Extension(g)
    BY <1>4, <2>1, <2>3, <2>4 DEF VistaCubierto
  <2>6. Cubierto \subseteq Cubierto'
    BY NadaSePisa, NadaSePisaP, <1>6, <2>1, <2>2, <2>3, <2>5 DEF VistaCubierto, EnCreacion, EnCrea
  <2> QED
    BY <1>7, <2>6, IgualSuelto
<1>8. CASE /\ agrega < 0 /\ mapa' = mapa \ Rango(Fin(lista[f]) + agrega + 1, - agrega)
           /\ op' = Cambia("tamanio", f, nuevo, limite)
           /\ UNCHANGED <<directorio, lista, roto>>
  <2>1. op'.en = "tamanio" /\ op'.f = f /\ op'.nuevo = nuevo /\ lista' = lista
    BY <1>8 DEF Cambia
  <2>2. Vivos' = DOMAIN lista /\ Cubierto' = UNION {Extension(g)' : g \in DOMAIN lista}
    BY NadaSePisa, NadaSePisaP, <2>1 DEF Vivos, EnCreacion, EnCrea
  <2>3. \A g \in DOMAIN lista \ {f} : Extension(g)' = Extension(g)
    BY <1>4, <2>1 DEF VistaQuieta, Extension, Donde, Cuantos
  <2>4. Extension(f) = Rango(i, n) /\ Extension(f)' = Rango(i, m)
    BY <1>2, <1>4, <1>5, <2>1 DEF VistaQuieta, Extension, Donde, Cuantos
  <2>5. mapa' = mapa \ Rango(i + m, n - m) /\ m < n
    BY <1>5, <1>8
  <2> HIDE DEF i, m, n
  <2>6. ASSUME NEW b \in mapa', b \notin Rango(i, m)
        PROVE  b \in mapa /\ b \notin Rango(i, n)
    BY <1>5, <2>5, <2>6 DEF Rango
  <2>7. ASSUME NEW b \in mapa', b \notin Cubierto'
        PROVE  b \in mapa /\ b \notin Cubierto
    <3>1. \A g \in DOMAIN lista : b \notin Extension(g)'
      BY <2>2, <2>7
    <3>2. b \in mapa /\ b \notin Extension(f)
      BY <1>2, <2>4, <2>6, <2>7, <3>1
    <3>3. \A g \in DOMAIN lista : b \notin Extension(g)
      BY <2>3, <3>1, <3>2
    <3> QED
      BY <1>6, <3>2, <3>3
  <2> QED
    BY <2>7, SueltosSon, SueltosSonP
<1>9. CASE op'.en \in {"agrega", "detras"} /\ UNCHANGED <<mapa, directorio, lista, roto>>
  BY <1>9, NadaSuelto
<1>10. ASSUME NEW d \in Int, NEW sigue, Mueve(f, d, sigue), i + d \in Nat
       PROVE  Sueltos' \subseteq Sueltos
  <2>1. Salta(f, d, sigue)
    BY <1>1, <1>10, MueveSalta
  <2> QED
    BY <1>2, <1>10, <2>1, MueveSuelto
<1>11. ASSUME agrega > 0, LibresDetras(i, agrega - LibresDelante(Fin(lista[f]), agrega)) > 0,
              Mueve(f, - LibresDetras(i, agrega - LibresDelante(Fin(lista[f]), agrega)),
                    Cambia("agrega", f, nuevo, limite))
       PROVE  Sueltos' \subseteq Sueltos
  <2>0. PICK a : a = agrega
    OBVIOUS
  <2> HIDE DEF agrega
  <2>1. a \in Nat
    BY <1>5, <1>11, <2>0 DEF agrega
  <2>2. PICK b : b = Fin(lista[f])
    OBVIOUS
  <2>3. b \in Nat
    BY <1>5, <2>2
  <2>4. PICK v : v = LibresDelante(b, a)
    OBVIOUS
  <2>5. v \in 0 .. a
    BY <2>1, <2>3, <2>4, LibresDelanteDa
  <2>6. PICK w : w = a - v
    OBVIOUS
  <2>7. w \in Nat
    BY <2>1, <2>5, <2>6
  <2>8. PICK u : u = LibresDetras(i, w)
    OBVIOUS
  <2>9. u \in Nat /\ u <= i
    <3> HIDE DEF i
    <3>1. LibresDetras(i, w) \in 0 .. w /\ LibresDetras(i, w) <= i
      BY <1>5, <2>7, LibresDetrasDa
    <3> QED
      BY <2>7, <2>8, <3>1
  <2>10. - u \in Int /\ Mueve(f, - u, Cambia("agrega", f, nuevo, limite))
    BY <1>11, <2>0, <2>2, <2>4, <2>6, <2>8, <2>9
  <2>11. i + (- u) \in Nat
    BY <1>5, <2>9
  <2> QED
    BY <2>10, <2>11, <1>10
<1> QED
  BY <1>1, <1>7, <1>8, <1>9, <1>11 DEF Trunca, Cambia, Acerca

\* The steps of a compaction.
LEMMA CompactaSuelto ==
  ASSUME IDisco, CompactaDetras \/ CompactaDelante, op'.en # "caida"
  PROVE  Sueltos' \subseteq Sueltos
<1>1. ~ Muere /\ op.en \in {"detras", "empuja"} /\ op.quedan # {} /\ Sigue = op
  BY DEF Muere, Caida, CompactaDetras, CompactaDelante, Sigue
<1>2. op.quedan \subseteq DOMAIN lista /\ DOMAIN lista \subseteq Archivos /\ FCBs
  BY <1>1, Vista DEF IDisco, ITipoOp, ITipoDatos
<1>3. ASSUME NEW f \in DOMAIN lista, NEW d \in Int, NEW sigue, Mueve(f, d, sigue),
             lista[f].inicial + d \in Nat
      PROVE  Sueltos' \subseteq Sueltos
  BY <1>1, <1>3, MueveSalta, MueveSuelto
<1>4. CASE CompactaDetras
  <2>1. PICK f : f = Cercano(op.quedan)
    OBVIOUS
  <2>2. f \in DOMAIN lista
    BY <1>1, <1>2, <2>1, CercanoDa
  <2>3. PICK i \in Nat : i = lista[f].inicial
    BY <1>2, <2>2 DEF FCBs
  <2>4. LibresDetras(i, i) \in Nat /\ i + (- LibresDetras(i, i)) \in Nat
    <3>1. LibresDetras(i, i) \in 0 .. i
      BY LibresDetrasDa
    <3> QED
      BY <3>1
  <2>5. \/ Mueve(f, - LibresDetras(i, i), Acerca(op.f, op.nuevo, op.limite, op.quedan \ {f}))
        \/ op'.en = "detras" /\ UNCHANGED <<mapa, lista>>
    BY <1>4, <2>1, <2>3 DEF CompactaDetras, Acerca
  <2>6. - LibresDetras(i, i) \in Int
    BY <2>4
  <2> QED
    BY <1>1, <1>3, <2>2, <2>3, <2>4, <2>5, <2>6, NadaSuelto
<1>5. CASE CompactaDelante
  <2>1. PICK f, d : f = Lejano(op.quedan) /\ d = op.faltan
    OBVIOUS
  <2>2. f \in DOMAIN lista
    BY <1>1, <1>2, <2>1, LejanoDa
  <2>3. d \in Int /\ lista[f].inicial + d \in Nat
    BY <1>1, <1>2, <1>5, <2>1, <2>2 DEF IDisco, ITipoOp, CompactaDelante, FCBs
  <2>4. Mueve(f, d, Empuja(op.f, op.nuevo, op.limite, d, op.quedan \ {f}))
    BY <1>5, <2>1 DEF CompactaDelante
  <2> QED
    BY <1>3, <2>2, <2>3, <2>4
<1> QED
  BY <1>4, <1>5

\* The bits of the blocks that are added are of the file that grows.
LEMMA AgregaSuelto ==
  ASSUME IDisco, Agrega
  PROVE  Sueltos' \subseteq Sueltos
<1>0. PICK f : f = op.f
  OBVIOUS
<1> DEFINE i == lista[f].inicial
           n == Bloques(lista[f].tam)
           m == Bloques(op.nuevo)
<1>1. /\ op.en \in {"agrega", "empuja"} /\ lista' = lista
      /\ mapa' = mapa \cup Rango(Fin(lista[f]) + 1, m - n)
      /\ op'.en = "tamanio" /\ op'.f = f /\ op'.nuevo = op.nuevo
  BY <1>0 DEF Agrega, Cambia
<1>2. VistaQuieta /\ op.en \in Quietos /\ f \in DOMAIN lista /\ m \in Nat /\ m > n
  BY <1>0, <1>1, TruncandoSale
<1>3. i \in Nat /\ n \in Nat /\ Fin(lista[f]) + 1 = i + n
  BY <1>2 DEF VistaQuieta, Fin
<1>4. /\ Vivos = DOMAIN lista /\ Cubierto = UNION {Extension(g) : g \in DOMAIN lista}
      /\ Vivos' = DOMAIN lista /\ Cubierto' = UNION {Extension(g)' : g \in DOMAIN lista}
  BY NadaSePisa, NadaSePisaP, <1>1 DEF Vivos, EnCreacion, EnCrea
<1>5. \A g \in DOMAIN lista \ {f} : Extension(g)' = Extension(g)
  BY <1>1, <1>2 DEF VistaQuieta, Extension, Donde, Cuantos
<1>6. Extension(f) = Rango(i, n) /\ Extension(f)' = Rango(i, m)
  BY <1>1, <1>2 DEF VistaQuieta, Extension, Donde, Cuantos
<1>7. mapa' = mapa \cup Rango(i + n, m - n)
  BY <1>1, <1>3
<1> HIDE DEF i, m, n
<1>8. Rango(i, n) \subseteq Rango(i, m) /\ Rango(i + n, m - n) \subseteq Rango(i, m)
  BY <1>2, <1>3 DEF Rango, n
<1>9. ASSUME NEW b \in mapa', b \notin Cubierto'
      PROVE  b \in mapa /\ b \notin Cubierto
  <2>1. \A g \in DOMAIN lista : b \notin Extension(g)'
    BY <1>4, <1>9
  <2>2. b \notin Rango(i, m)
    BY <1>2, <1>6, <2>1
  <2>3. b \in mapa /\ \A g \in DOMAIN lista : b \notin Extension(g)
    BY <1>5, <1>6, <1>7, <1>8, <1>9, <2>1, <2>2
  <2> QED
    BY <1>4, <2>3
<1> QED
  BY <1>9, SueltosSon, SueltosSonP

\* The new size is the one the bitmap has already.
LEMMA GuardaTamanioSuelto ==
  ASSUME IDisco, GuardaTamanio
  PROVE  Sueltos' \subseteq Sueltos
<1>0. PICK f : f = op.f
  OBVIOUS
<1>1. op.en = "tamanio" /\ lista' = Con(lista, f, lista[f].inicial, op.nuevo) /\ mapa' = mapa
      /\ op' = Responde /\ Sigue = op
  BY <1>0 DEF GuardaTamanio, Guarda, Sigue
<1>2. f \in DOMAIN lista /\ op.nuevo \in Nat /\ FCBs
  BY <1>0, <1>1, Vista DEF IDisco, ITipoOp
<1>3. /\ DOMAIN lista' = DOMAIN lista /\ FCBs'
      /\ lista'[f].inicial = lista[f].inicial /\ lista'[f].tam = op.nuevo
      /\ \A g \in DOMAIN lista \ {f} : lista'[g] = lista[g]
  BY <1>1, <1>2 DEF Con, FCBs
<1>4. Quieto' /\ op'.en \notin EnCrea \cup {"borra"}
  BY <1>1, <1>3 DEF Quieto, Quietos, Responde, Neutros, EnCrea
<1>5. VistaCubierto'
  BY <1>4, CubiertoDaP
<1>6. \A g \in DOMAIN lista : Extension(g)' = Extension(g)
  <2>1. \A g \in DOMAIN lista : Donde(g) = lista'[g].inicial
    BY <1>1, <1>2, <1>3 DEF Donde, FCBs
  <2>2. \A g \in DOMAIN lista : Cuantos(g) = Bloques(lista'[g].tam)
    BY <1>0, <1>1, <1>2, <1>3 DEF Cuantos
  <2> QED
    BY <1>3, <1>5, <2>1, <2>2 DEF VistaCubierto, Extension
<1>7. Vivos = DOMAIN lista /\ Vivos' = DOMAIN lista
  BY <1>1, <1>3, <1>5 DEF Vivos, VistaCubierto
<1>8. Cubierto \subseteq Cubierto'
  BY NadaSePisa, NadaSePisaP, <1>1, <1>4, <1>6, <1>7 DEF EnCreacion, EnCrea
<1> QED
  BY <1>1, <1>8, IgualSuelto

\* What NoPierdeBloques says of a step.
LEMMA PasoSuelto ==
  ASSUME IDisco, IDisco', [Next]_vars, op.en # "caida", op'.en # "caida"
  PROVE  \/ Sueltos' \subseteq Sueltos
         \/ op'.en = "borra" /\ lista[op'.f].tam = 0
         \/ op'.en = "repite"
<1>0. ~ Muere
  BY DEF Muere, Caida
<1>1. CASE UNCHANGED discoVars
  BY <1>1 DEF discoVars, Sueltos, Cubierto, Pisados, EnCreacion, Extension, Donde, Cuantos, Vivos
<1>2. CASE op.en \in Neutros /\ op'.en \in Neutros /\ UNCHANGED <<mapa, lista>>
  BY <1>2, NadaSuelto
<1>3. ASSUME op.en = "reposo", Empieza
      PROVE  Sueltos' \subseteq Sueltos \/ (op'.en = "borra" /\ lista[op'.f].tam = 0)
  <2>1. op.en \in Neutros
    BY <1>3 DEF Neutros
  <2>2. CASE op'.en \in Neutros /\ UNCHANGED <<mapa, lista>>
    BY <2>1, <2>2, NadaSuelto
  <2>3. ASSUME NEW f \in Archivos, Crea(f) \/ Borra(f)
        PROVE  Sueltos' \subseteq Sueltos \/ (op'.en = "borra" /\ lista[op'.f].tam = 0)
    BY <2>1, <2>3, CreaSuelto, BorraSuelto
  <2>4. ASSUME NEW f \in Archivos, NEW t \in Tamanios, Trunca(f, t)
        PROVE  Sueltos' \subseteq Sueltos
    <3>1. t \in Nat
      BY InterfazAssumption
    <3> QED
      BY <2>1, <2>4, <3>1, TruncaSuelto
  <2> QED
    BY <1>0, <1>3, <2>2, <2>3, <2>4
    DEF Empieza, Accede, Transfiere, Restan, Responde, Neutros
<1>4. CASE InterfazRecibe
  <2>1. op.en = "reposo" /\ (Empieza \/ (op' = Responde /\ UNCHANGED <<mapa, lista>>))
    BY <1>4 DEF InterfazRecibe
  <2> QED
    BY <1>2, <1>3, <2>1 DEF Responde, Neutros
<1>5. CASE Pieza \/ FinPiezas
  BY <1>0, <1>2, <1>5 DEF Pieza, FinPiezas, Restan, Responde, Neutros
<1>10. CASE InterfazResponde
  <2>1. CASE op.en = "responde"
    BY <1>2, <1>10, <2>1 DEF InterfazResponde, Reposo, Neutros
  <2> QED
    BY <1>10, <2>1, RepiteSuelto DEF InterfazResponde
<1>6. CASE CompactaCuenta
  <2>1. op.en = "detras" /\ op'.en = "empuja" /\ UNCHANGED <<mapa, lista>>
    BY <1>6 DEF CompactaCuenta, Empuja
  <2> QED
    BY <2>1, NadaSuelto
<1>7. CASE PasoDisco
  BY <1>6, <1>7, CreaFcbSuelto, CreaTamanioSuelto, BorraFcbSuelto, MueveFcbSuelto, CompactaSuelto,
     AgregaSuelto, GuardaTamanioSuelto DEF PasoDisco
<1>8. ~ Detiene /\ ~ Reinicia
  BY <1>0 DEF Detiene, Reinicia, ArrancaDisco
<1>9. CASE PasoIo \/ \E p \in Pids, conoce \in BOOLEAN : Bloquea(p, conoce)
  BY <1>1, <1>9 DEF PasoIo, IoToma, IoRecibe, IoDesconexion, Bloquea
<1> QED
  BY <1>1, <1>4, <1>5, <1>7, <1>8, <1>9, <1>10 DEF Next, PasoInterfaz, vars

\* A set bit without a file never appears but by the deletion of an empty file, the creation of
\* a name that exists or the death of the process (NoPierdeBloques).
THEOREM NadiePierdeBloques == Spec => NoPierdeBloques
<1>1. IDisco /\ IDisco' /\ [Next]_vars =>
        [op.en # "caida" /\ op'.en # "caida"
           => \/ Sueltos' \subseteq Sueltos
              \/ op'.en = "borra" /\ lista[op'.f].tam = 0
              \/ op'.en = "repite"]_vars
  BY PasoSuelto
<1> QED
  BY <1>1, DiscoInvariante, PTL DEF Spec, NoPierdeBloques

=============================================================================
