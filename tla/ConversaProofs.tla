--------------------------- MODULE ConversaProofs ---------------------------
(***************************************************************************)
(* What an interface and its kernel thread say to each other and what is   *)
(* left of an access, for any number of processes and any size of page.    *)
(*                                                                         *)
(* Conversa does not say what is in the connection: ISesion adds that,     *)
(* without an ERROR, it is nothing or one whole BLOQUEO_TERMINADO, and     *)
(* nothing while the kernel thread waits for a process.  That each step of *)
(* an operation stays inside it comes from the types of IDisco.            *)
(*                                                                         *)
(* TypeOK needs, besides IDisco, how each step of an operation is written  *)
(* down (FormaOp), that no permit is for a process that is not in the      *)
(* queue, and that the buffer of every BLOQUEO_TERMINADO is whole, after   *)
(* an ERROR too, when the two ends no longer agree.                        *)
(*                                                                         *)
(* PiezasDelPedido needs where in its file an access is (IDonde), and what *)
(* dividing by TamPagina and by BLOCK_SIZE gives.                          *)
(***************************************************************************)
EXTENDS InterfazProofs, SequenceTheorems

Aviso == Paquete(BLOQUEO_TERMINADO)

Sanos == kernel = "vivo" /\ ~ error
Instrucciones == [pid : Pids, conoce : BOOLEAN]

ISesion ==
  /\ semCola \in Nat /\ hilo \in {"espera", "recibe"} /\ error \in BOOLEAN
  /\ Sanos => /\ cola \in Seq(Instrucciones) /\ alInterfaz \in Seq(Instrucciones)
              /\ alKernel \in {<< >>, Aviso} /\ (hilo = "espera" => alKernel = << >>)

\* A BLOQUEO_TERMINADO is four sends, none of them the wrong one.
LEMMA AvisoDa ==
  /\ Aviso = <<7, 8, 4, 0>> /\ Len(Aviso) = 4 /\ Head(Aviso) = BLOQUEO_TERMINADO
  /\ TrasBuffer(Tail(Aviso)) = << >> /\ << >> \o Aviso = Aviso /\ Aviso # << >>
<1>1. Aviso = <<7, 8, 4, 0>>
  BY DEF Aviso, Paquete, BLOQUEO_TERMINADO
<1>2. Tail(Aviso) = <<8, 4, 0>>
  BY <1>1
<1>3. TrasBuffer(<<8, 4, 0>>) = << >>
  BY DEF TrasBuffer
<1> QED
  BY <1>1, <1>2, <1>3 DEF BLOQUEO_TERMINADO

\* Len of what is on its way back, in packets.
LEMMA Paquetes ==
  /\ Len(<< >>) \div 4 = 0
  /\ Len(Aviso) \div 4 = 1
BY AvisoDa

\* Between packets: how many are on their way back.
LEMMA Vuelta ==
  ASSUME ISesion, Sanos
  PROVE  /\ alKernel = << >> => Len(alKernel) \div 4 = 0
         /\ alKernel # << >> => alKernel = Aviso /\ Len(alKernel) \div 4 = 1 /\ hilo = "recibe"
BY Paquetes DEF ISesion

\* An operation that goes on is still the same operation.
LEMMA OperacionSigue ==
  ASSUME IDisco, PasoDisco
  PROVE  EnCurso /\ (EnCurso' \/ op'.en = "caida")
<1>1. CASE MueveFcb
  <2>1. op.en = "fcb" /\ op'.en \in {"agrega", "detras", "empuja"}
    BY <1>1 DEF MueveFcb, IDisco, ITipoOp
  <2> QED
    BY <2>1 DEF EnCurso
<1>2. CASE \/ CreaFcb \/ CreaInicial \/ CreaTamanio \/ BorraFcb \/ CompactaCuenta \/ Agrega
           \/ GuardaTamanio
  BY <1>2 DEF CreaFcb, CreaInicial, CreaTamanio, Creando, BorraFcb, CompactaCuenta, Agrega,
              GuardaTamanio, EnCurso, Responde, Empuja, Cambia
<1>3. CASE CompactaDetras \/ CompactaDelante
  BY <1>3 DEF CompactaDetras, CompactaDelante, Mueve, Muere, Caida, Acerca, EnCurso
<1> QED
  BY <1>1, <1>2, <1>3 DEF PasoDisco

\* And one begins with whatever the interface receives.
LEMMA OperacionEmpieza ==
  ASSUME Empieza
  PROVE  EnCurso' \/ op'.en = "caida"
<1>1. ASSUME NEW d, NEW t, NEW b, NEW h, Transfiere(d, t, b, h)
      PROVE  EnCurso'
  BY <1>1 DEF Transfiere, Restan, EnCurso
<1>2. Muere => op'.en = "caida"
  BY DEF Muere, Caida
<1>3. op' = Responde => EnCurso'
  BY DEF Responde, EnCurso
<1>4. ASSUME NEW f, NEW d, NEW t, NEW b, Accede(f, d, t, b)
      PROVE  EnCurso' \/ op'.en = "caida"
  BY <1>1, <1>2, <1>4 DEF Accede
<1>5. ASSUME NEW f, Crea(f) \/ Borra(f)
      PROVE  EnCurso' \/ op'.en = "caida"
  BY <1>2, <1>5 DEF Crea, Creando, Borra, EnCurso
<1>6. ASSUME NEW f, NEW t, Trunca(f, t)
      PROVE  EnCurso' \/ op'.en = "caida"
  BY <1>2, <1>3, <1>6 DEF Trunca, Mueve, EnCurso, Cambia, Acerca
<1> QED
  BY <1>1, <1>2, <1>3, <1>4, <1>5, <1>6 DEF Empieza

\* Conversa, in numbers.
Enviados == IF alKernel = << >> THEN 0 ELSE 1
Haciendo == IF EnCurso THEN 1 ELSE 0
Recibiendo == IF hilo = "recibe" THEN 1 ELSE 0
Cuentas ==
  Sanos => /\ semCola + Recibiendo = Len(cola)
           /\ op.en = "caida" \/ Len(alInterfaz) + Haciendo + Enviados = Recibiendo

\* Conversa, said of the counts.
LEMMA CuentasDa == ISesion => (Conversa <=> Cuentas)
<1> SUFFICES ASSUME ISesion, Sanos PROVE Conversa <=> Cuentas
  BY DEF Conversa, Cuentas, Sanos
<1>1. Len(alKernel) \div 4 = Enviados
  BY Vuelta DEF Enviados
<1> QED
  BY <1>1 DEF Conversa, Cuentas, Sanos, Recibiendo, Haciendo

\* A process blocks: one more instruction and one more permit.
LEMMA BloqueaConversa ==
  ASSUME ISesion, Cuentas, NEW p \in Pids, NEW conoce \in BOOLEAN, Bloquea(p, conoce)
  PROVE  ISesion' /\ Cuentas'
<1> USE DEF Bloquea
<1>0. [pid |-> p, conoce |-> conoce] \in Instrucciones
  BY DEF Instrucciones
<1>1. Sanos => cola' \in Seq(Instrucciones) /\ Len(cola') = Len(cola) + 1
  BY <1>0 DEF ISesion
<1>2. Sanos' = Sanos /\ Enviados' = Enviados /\ Recibiendo' = Recibiendo /\ Haciendo' = Haciendo
      /\ op' = op
  BY DEF Sanos, Enviados, Recibiendo, Haciendo, EnCurso, discoVars
<1>3. ISesion'
  BY <1>1, <1>2 DEF ISesion
<1>4. Recibiendo \in Nat /\ (Sanos => Len(cola) \in Nat)
  BY DEF ISesion, Recibiendo
<1>5. Cuentas'
  BY <1>1, <1>2, <1>4 DEF Cuentas, ISesion
<1> QED
  BY <1>3, <1>5

\* The kernel thread takes a permit and sends the instruction.
LEMMA IoTomaConversa ==
  ASSUME ISesion, Cuentas, IoToma
  PROVE  ISesion' /\ Cuentas'
<1> USE DEF IoToma
<1>1. Sanos' = Sanos /\ Enviados' = Enviados /\ Haciendo' = Haciendo /\ op' = op
      /\ Recibiendo = 0 /\ Recibiendo' = 1 /\ Haciendo \in {0, 1}
  BY DEF Sanos, Enviados, Recibiendo, Haciendo, EnCurso, discoVars
<1>2. Sanos => Len(cola) > 0 /\ Head(cola) \in Instrucciones /\ Enviados = 0
               /\ cola \in Seq(Instrucciones) /\ alInterfaz \in Seq(Instrucciones) /\ alKernel = << >>
  BY <1>1 DEF ISesion, Cuentas, Enviados
<1>3. Sanos => alInterfaz' \in Seq(Instrucciones) /\ Len(alInterfaz') = Len(alInterfaz) + 1
               /\ Len(alInterfaz) \in Nat
  BY <1>2
<1>4. ISesion'
  BY <1>1, <1>2, <1>3 DEF ISesion
<1>5. Cuentas'
  BY <1>1, <1>2, <1>3 DEF ISesion, Cuentas
<1> QED
  BY <1>4, <1>5

\* The kernel thread receives: the process leaves the queue of the interface.
LEMMA IoRecibeConversa ==
  ASSUME ISesion, Cuentas, IoRecibe
  PROVE  ISesion' /\ Cuentas'
<1> USE DEF IoRecibe
<1>1. Sanos' = Sanos /\ Haciendo' = Haciendo /\ op' = op /\ alInterfaz' = alInterfaz
      /\ Recibiendo = 1 /\ Recibiendo' = 0 /\ Haciendo \in {0, 1} /\ semCola' = semCola
  BY DEF Sanos, Recibiendo, Haciendo, EnCurso, discoVars
<1>2. Sanos => alKernel = Aviso /\ Enviados = 1 /\ cola \in Seq(Instrucciones) /\ Len(cola) = semCola + 1
               /\ alInterfaz \in Seq(Instrucciones) /\ Len(alInterfaz) \in Nat
  BY <1>1 DEF ISesion, Enviados, Cuentas
<1>3. Sanos => cola' = Tail(cola) /\ alKernel' = << >>
  BY <1>2, AvisoDa
<1>4. Sanos => cola' \in Seq(Instrucciones) /\ Len(cola') = semCola /\ Enviados' = 0
  BY <1>2, <1>3 DEF ISesion, Enviados
<1>5. ISesion'
  BY <1>1, <1>2, <1>3, <1>4 DEF ISesion
<1>6. Cuentas'
  BY <1>1, <1>2, <1>4 DEF ISesion, Cuentas
<1> QED
  BY <1>5, <1>6

\* The interface takes the request.
LEMMA InterfazRecibeConversa ==
  ASSUME ISesion, Cuentas, InterfazRecibe
  PROVE  ISesion' /\ Cuentas'
<1> USE DEF InterfazRecibe
<1>1. CASE Head(alInterfaz).conoce
  <2>1. EnCurso' \/ op'.en = "caida"
    BY <1>1, OperacionEmpieza
  <2>2. Sanos' = Sanos /\ Enviados' = Enviados /\ Recibiendo' = Recibiendo /\ Haciendo = 0
        /\ op.en # "caida" /\ (op'.en = "caida" \/ Haciendo' = 1)
    BY <1>1, <2>1 DEF Sanos, Enviados, Recibiendo, Haciendo, EnCurso
  <2>3. Sanos => alInterfaz' \in Seq(Instrucciones) /\ Len(alInterfaz') = Len(alInterfaz) - 1
                 /\ Len(alInterfaz) \in Nat /\ Enviados \in {0, 1} /\ Recibiendo \in {0, 1}
    BY DEF ISesion, Enviados, Recibiendo
  <2>4. ISesion'
    BY <1>1, <2>2, <2>3 DEF ISesion
  <2>5. Cuentas'
    BY <1>1, <2>2, <2>3 DEF Cuentas
  <2> QED
    BY <2>4, <2>5
<1>2. CASE ~ Head(alInterfaz).conoce
  <2>1. ~ Sanos' /\ error' = TRUE
    BY <1>2 DEF Sanos
  <2> QED
    BY <2>1 DEF ISesion, Cuentas
<1> QED
  BY <1>1, <1>2

\* The interface answers.
LEMMA InterfazRespondeConversa ==
  ASSUME ISesion, Cuentas, InterfazResponde
  PROVE  ISesion' /\ Cuentas'
<1> USE DEF InterfazResponde
<1>1. Sanos' = Sanos /\ Recibiendo' = Recibiendo /\ Haciendo = 1 /\ Haciendo' = 0
      /\ op.en # "caida" /\ op'.en # "caida"
  BY DEF Sanos, Recibiendo, Haciendo, EnCurso, Reposo, Creando
<1>2. Sanos => Len(alInterfaz) \in Nat /\ Enviados \in {0, 1} /\ Recibiendo \in {0, 1}
  BY DEF ISesion, Enviados, Recibiendo
<1>3. Sanos => Enviados = 0 /\ Recibiendo = 1 /\ Len(alInterfaz) = 0
  BY <1>1, <1>2 DEF Cuentas
<1>4. Sanos => alKernel = << >>
  BY <1>3 DEF Enviados
<1>5. Sanos => alKernel' = Aviso /\ Enviados' = 1
  BY <1>4, AvisoDa DEF Enviados, Aviso
<1>6. ISesion'
  BY <1>1, <1>3, <1>5 DEF ISesion, Recibiendo
<1>7. Cuentas'
  BY <1>1, <1>3, <1>5 DEF Cuentas
<1> QED
  BY <1>6, <1>7

IConversa == ISesion /\ Cuentas

\* A step that is not of the session.
LEMMA SesionIgual ==
  ASSUME IConversa, UNCHANGED sesionVars,
         op'.en = "caida" \/ (EnCurso /\ EnCurso') \/ op' = op
  PROVE  IConversa'
<1>1. ISesion'
  BY DEF IConversa, ISesion, Sanos, sesionVars
<1>2. Sanos' = Sanos /\ Enviados' = Enviados /\ Recibiendo' = Recibiendo
  BY DEF Sanos, Enviados, Recibiendo, sesionVars
<1>3. op'.en = "caida" \/ (Haciendo' = Haciendo /\ (op.en = "caida" => op'.en = "caida"))
  BY DEF Haciendo, EnCurso
<1>4. Cuentas'
  BY <1>2, <1>3 DEF IConversa, Cuentas, sesionVars
<1> QED
  BY <1>1, <1>4 DEF IConversa

Arranque == Sesion0 /\ op = Reposo

\* A connection starts with nobody waiting,
LEMMA InicioConversa == Arranque => IConversa
<1> SUFFICES ASSUME Sesion0, op = Reposo PROVE IConversa
  BY DEF Arranque
<1>1. << >> \in Seq(Instrucciones) /\ Len(<< >>) = 0
  OBVIOUS
<1>2. ISesion
  BY <1>1 DEF ISesion, Sesion0
<1>3. Cuentas
  BY <1>1 DEF Cuentas, Sesion0, Haciendo, EnCurso, Reposo, Enviados, Recibiendo
<1> QED
  BY <1>2, <1>3 DEF IConversa

\* after a disconnection too.
LEMMA InicioConversaP == Arranque' => IConversa'
BY InicioConversa, PTL

\* Each step of the system keeps the counts.
LEMMA PasoConversa ==
  ASSUME IDisco, IConversa, [Next]_vars
  PROVE  IConversa'
<1>1. CASE UNCHANGED vars
  BY <1>1, SesionIgual DEF vars, discoVars
<1>2. ASSUME NEW p \in Pids, NEW conoce \in BOOLEAN, Bloquea(p, conoce)
      PROVE  IConversa'
  BY <1>2, BloqueaConversa DEF IConversa
<1>3. CASE IoToma
  BY <1>3, IoTomaConversa DEF IConversa
<1>4. CASE IoRecibe
  BY <1>4, IoRecibeConversa DEF IConversa
<1>5. CASE IoDesconexion
  <2>1. ~ Sanos'
    BY <1>5 DEF IoDesconexion, Sanos
  <2> QED
    BY <1>5, <2>1 DEF IoDesconexion, IConversa, ISesion, Cuentas
<1>6. CASE InterfazRecibe
  BY <1>6, InterfazRecibeConversa DEF IConversa
<1>7. CASE Pieza
  <2>1. EnCurso /\ (EnCurso' \/ op'.en = "caida")
    BY <1>7 DEF Pieza, Restan, EnCurso, Muere, Caida
  <2> QED
    BY <1>7, <2>1, SesionIgual DEF Pieza
<1>8. CASE FinPiezas
  <2>1. EnCurso /\ EnCurso'
    BY <1>8 DEF FinPiezas, Responde, EnCurso
  <2> QED
    BY <1>8, <2>1, SesionIgual DEF FinPiezas
<1>9. CASE InterfazResponde
  BY <1>9, InterfazRespondeConversa DEF IConversa
<1>10. CASE PasoDisco /\ UNCHANGED <<tipo, sesionVars>>
  BY <1>10, OperacionSigue, SesionIgual
<1>11. CASE Detiene
  BY <1>11, SesionIgual DEF Detiene, Muere, Caida
<1>12. CASE Reinicia
  <2>1. Sesion0' /\ op' = Reposo
    BY <1>12 DEF Reinicia, Sesion0, ArrancaDisco
  <2> QED
    BY <2>1, InicioConversaP DEF Arranque
<1> QED
  BY <1>1, <1>2, <1>3, <1>4, <1>5, <1>6, <1>7, <1>8, <1>9, <1>10, <1>11, <1>12
  DEF Next, PasoIo, PasoInterfaz

\* While no interface has answered ERROR, the permits of manejar_io are the processes it has
\* not sent and at most one request, task or answer is under way, for any number of processes.
THEOREM ConversaSiempre == Spec => []Conversa
<1>1. Init => IConversa
  BY InicioConversa DEF Init, DiscoInit, Arranque
<1>2. IDisco /\ IConversa /\ [Next]_vars => IConversa'
  BY PasoConversa
<1>3. IConversa => Conversa
  BY CuentasDa DEF IConversa
<1> QED
  BY <1>1, <1>2, <1>3, DiscoInvariante, PTL DEF Spec

-----------------------------------------------------------------------------
(* The types: of what each step of an operation leaves in op, of the queue  *)
(* and of the words on their way.                                           *)

\* A BLOQUEO_TERMINADO on its way back is whole: its buffer can be skipped.
Enteras(s) == \A k \in 1 .. Len(s) : s[k] = BLOQUEO_TERMINADO => k + 3 <= Len(s) /\ s[k + 1] = 8

\* What a truncation may have to do, and how each step is written down; the values are
\* those of IDisco.
FormaSigue(s) ==
  \/ \E en \in {"agrega", "tamanio"} : \E f, n, l : s = Cambia(en, f, n, l)
  \/ \E f, n, l, q : s = Acerca(f, n, l, q)
  \/ \E f, n, l, falta, q : s = Empuja(f, n, l, falta, q)

FormaOp ==
  \/ op \in {Reposo, Responde, Caida}
  \/ FormaSigue(op)
  \/ \E f, d, s : FormaSigue(s) /\ op = [en |-> "fcb", mueve |-> f, d |-> d, sigue |-> s]
  \/ \E en \in EnCrea, b \in 0 .. BLOCK_COUNT - 1 : \E f : op = Creando(en, f, b)
  \/ \E f : op = [en |-> "borra", f |-> f]
  \/ \E desp \in 0 .. TamPagina - 1, tam \in Tamanios, resta \in Seq(0 .. TamPagina),
        pos \in Nat, desde \in Nat, hay \in Nat : op = Restan(desp, tam, resta, pos, desde, hay)

\* A packet after whole packets.
LEMMA PaqueteEntero ==
  ASSUME NEW s \in Seq(Nat), Enteras(s), NEW cod \in {BLOQUEO_TERMINADO, ERROR}
  PROVE  s \o Paquete(cod) \in Seq(Nat) /\ Enteras(s \o Paquete(cod))
<1> DEFINE n == Len(s)
           p == <<cod, 8, 4, 0>>
           u == s \o p
<1>1. p \in Seq(Nat) /\ Len(p) = 4 /\ p[1] = cod /\ p[2] = 8 /\ p[3] = 4 /\ p[4] = 0
  BY DEF BLOQUEO_TERMINADO, ERROR
<1>2. Paquete(cod) = p
  BY DEF Paquete
<1>3. n \in Nat /\ \A k \in 1 .. n : s[k] = 7 => k + 3 <= n /\ s[k + 1] = 8
  BY DEF Enteras, BLOQUEO_TERMINADO
<1> HIDE DEF p
<1>4. u \in Seq(Nat) /\ Len(u) = n + 4
  <2>1. p \in Seq(Nat) /\ Len(p) = 4
    BY <1>1
  <2>2. u \in Seq(Nat) /\ Len(u) = Len(s) + Len(p)
    BY <2>1, ConcatProperties
  <2> QED BY <2>1, <2>2
<1>5. \A k \in 1 .. n : u[k] = s[k]
  BY <1>1, <1>3
<1>6. u[n + 1] = cod /\ u[n + 2] = 8 /\ u[n + 3] = 4 /\ u[n + 4] = 0
  <2>1. ASSUME NEW j \in 1 .. 4
        PROVE  u[n + j] = p[j]
    <3>1. n + j \in 1 .. Len(s) + Len(p) /\ ~ (n + j <= n) /\ (n + j) - n = j
      BY <1>1, <1>3
    <3>2. p \in Seq(Nat)
      BY <1>1
    <3>3. (s \o p)[n + j] = IF n + j <= Len(s) THEN s[n + j] ELSE p[(n + j) - Len(s)]
      BY <3>1, <3>2, ConcatProperties
    <3> QED BY <3>1, <3>3
  <2>2. 1 \in 1 .. 4 /\ 2 \in 1 .. 4 /\ 3 \in 1 .. 4 /\ 4 \in 1 .. 4
    OBVIOUS
  <2> HIDE DEF n, u
  <2> QED
    BY <1>1, <2>1, <2>2
<1> HIDE DEF u, n
<1>7. ASSUME NEW k \in 1 .. n + 4, u[k] = 7
      PROVE  k + 3 <= n + 4 /\ u[k + 1] = 8
  <2>1. CASE k <= n
    <3>1. k \in 1 .. n /\ s[k] = 7
      BY <1>3, <1>5, <1>7, <2>1
    <3>2. k + 3 <= n /\ s[k + 1] = 8
      BY <1>3, <3>1
    <3>3. k + 1 \in 1 .. n
      BY <1>3, <3>1, <3>2
    <3> QED
      BY <1>3, <1>5, <3>2, <3>3
  <2>2. CASE k > n
    <3>1. k = n + 1 \/ k = n + 2 \/ k = n + 3 \/ k = n + 4
      BY <1>3, <2>2
    <3>2. k = n + 1
      BY <1>6, <1>7, <3>1
    <3>3. k + 1 = n + 2
      BY <1>3, <3>2
    <3> QED
      BY <1>3, <1>6, <3>2, <3>3
  <2> QED
    BY <1>3, <2>1, <2>2
<1>8. Enteras(u)
  BY <1>4, <1>7 DEF Enteras, BLOQUEO_TERMINADO
<1> QED
  BY <1>2, <1>4, <1>8 DEF u

\* What is left after the first words.
LEMMA SufijoEntero ==
  ASSUME NEW s \in Seq(Nat), Enteras(s), NEW n \in Nat, NEW m \in Nat, Len(s) = m + n,
         NEW u \in Seq(Nat), Len(u) = m, \A k \in 1 .. m : u[k] = s[k + n]
  PROVE  Enteras(u)
<1>1. \A k \in 1 .. m + n : s[k] = 7 => k + 3 <= m + n /\ s[k + 1] = 8
  BY DEF Enteras, BLOQUEO_TERMINADO
<1>2. ASSUME NEW k \in 1 .. m, u[k] = 7
      PROVE  k + 3 <= m /\ u[k + 1] = 8
  <2>1. k + n \in 1 .. m + n /\ s[k + n] = 7
    BY <1>2
  <2>2. (k + n) + 3 <= m + n /\ s[(k + n) + 1] = 8
    BY <1>1, <2>1
  <2>3. k + 1 \in 1 .. m /\ (k + 1) + n = (k + n) + 1
    BY <2>2
  <2> QED
    BY <2>2, <2>3
<1> QED
  BY <1>2 DEF Enteras, BLOQUEO_TERMINADO

\* What manejar_io leaves in the connection.
LEMMA RestoEntero ==
  ASSUME NEW s \in Seq(Nat), Enteras(s), s # << >>
  PROVE  /\ Tail(s) \in Seq(Nat) /\ Enteras(Tail(s))
         /\ Head(s) = BLOQUEO_TERMINADO =>
              TrasBuffer(Tail(s)) \in Seq(Nat) /\ Enteras(TrasBuffer(Tail(s)))
<1>1. /\ Tail(s) \in Seq(Nat) /\ Len(Tail(s)) = Len(s) - 1 /\ Len(s) \in Nat \ {0}
      /\ \A k \in 1 .. Len(Tail(s)) : Tail(s)[k] = s[k + 1]
  OBVIOUS
<1>2. Enteras(Tail(s))
  <2>1. PICK m \in Nat : Len(Tail(s)) = m /\ Len(s) = m + 1
    <3>1. PICK n \in Nat \ {0} : Len(s) = n
      BY <1>1, Zenon
    <3>2. n - 1 \in Nat /\ n = (n - 1) + 1 /\ Len(Tail(s)) = n - 1
      BY <1>1, <3>1
    <3> QED BY <3>1, <3>2
  <2> QED BY <1>1, <2>1, SufijoEntero
<1>3. ASSUME Head(s) = BLOQUEO_TERMINADO
      PROVE  TrasBuffer(Tail(s)) \in Seq(Nat) /\ Enteras(TrasBuffer(Tail(s)))
  <2>1. 1 \in 1 .. Len(s) /\ s[1] = BLOQUEO_TERMINADO
    BY <1>1, <1>3
  <2>2. 4 <= Len(s) /\ s[2] = 8
    BY <2>1 DEF Enteras
  <2>3. Tail(s)[1] = 8 /\ Len(Tail(s)) >= 3
    BY <1>1, <2>2
  <2>4. TrasBuffer(Tail(s)) = SubSeq(Tail(s), 4, Len(Tail(s)))
    <3>1. 2 + 8 \div 4 = 4
      OBVIOUS
    <3> QED BY <2>3, <3>1 DEF TrasBuffer
  <2> DEFINE u == SubSeq(Tail(s), 4, Len(Tail(s)))
  <2>m. PICK m \in Nat : Len(Tail(s)) = m + 3 /\ Len(s) = m + 4
    <3>1. PICK n \in Nat \ {0} : Len(s) = n /\ 4 <= n
      BY <1>1, <2>2, Zenon
    <3>2. n - 4 \in Nat /\ n = (n - 4) + 4 /\ Len(Tail(s)) = (n - 4) + 3
      BY <1>1, <3>1
    <3> QED BY <3>1, <3>2
  <2>5. u \in Seq(Nat) /\ Len(u) = m /\ \A k \in 1 .. m : u[k] = Tail(s)[k + 3]
    BY <1>1, <2>m
  <2>6. \A k \in 1 .. m : u[k] = s[k + 4]
    <3> HIDE DEF u
    <3>1. \A k \in 1 .. m : k + 3 \in 1 .. Len(Tail(s)) /\ (k + 3) + 1 = k + 4
      BY <2>m
    <3>2. \A k \in 1 .. m : u[k] = Tail(s)[k + 3]
      BY <2>5
    <3>3. ASSUME NEW k \in 1 .. m
          PROVE  u[k] = s[k + 4]
      <4>1. k + 3 \in 1 .. Len(Tail(s)) /\ (k + 3) + 1 = k + 4
        BY <3>1
      <4>2. Tail(s)[k + 3] = s[(k + 3) + 1]
        BY <1>1, <4>1
      <4> QED BY <3>2, <4>1, <4>2
    <3> QED BY <3>3
  <2>7. Enteras(u)
    <3> HIDE DEF u
    <3> QED BY <2>5, <2>6, <2>m, SufijoEntero
  <2>8. u = TrasBuffer(Tail(s))
    BY <2>4
  <2> HIDE DEF u
  <2> QED
    BY <2>5, <2>7, <2>8
<1> QED
  BY <1>1, <1>2, <1>3

-----------------------------------------------------------------------------
\* The pieces are never larger than a page.
LEMMA PiezasTipo ==
  ASSUME NEW desp \in 0 .. TamPagina - 1, NEW tam \in Nat
  PROVE  Piezas(desp, tam) \in Seq(0 .. TamPagina)
<1> DEFINE primera == IF TamPagina - desp > tam THEN tam ELSE TamPagina - desp
           resto == tam - primera
           llenas == [i \in 1 .. resto \div TamPagina |-> TamPagina]
           ultima == IF resto % TamPagina > 0 THEN <<resto % TamPagina>> ELSE << >>
<1>0. TamPagina \in Nat \ {0}
  BY InterfazAssumption
<1>1. primera \in 0 .. TamPagina /\ resto \in Nat
  BY <1>0
<1>2. resto \div TamPagina \in Nat /\ resto % TamPagina \in 0 .. TamPagina
  <2> HIDE DEF resto
  <2> QED BY <1>0, <1>1
<1>3. llenas \in Seq(0 .. TamPagina)
  <2> DEFINE n == resto \div TamPagina
  <2>1. n \in Nat /\ TamPagina \in 0 .. TamPagina
    BY <1>0, <1>2
  <2>3. llenas = [i \in 1 .. n |-> TamPagina]
    OBVIOUS
  <2> HIDE DEF n, llenas
  <2>2. [i \in 1 .. n |-> TamPagina] \in [1 .. n -> 0 .. TamPagina]
    BY <2>1
  <2> QED BY <2>1, <2>2, <2>3, SeqDef
<1>4. ultima \in Seq(0 .. TamPagina)
  <2> DEFINE x == resto % TamPagina
  <2>1. x \in 0 .. TamPagina
    BY <1>2
  <2>2. ultima = IF x > 0 THEN <<x>> ELSE << >>
    OBVIOUS
  <2> HIDE DEF x, ultima
  <2>3. <<x>> \in Seq(0 .. TamPagina) /\ << >> \in Seq(0 .. TamPagina)
    BY <2>1
  <2> QED BY <2>2, <2>3
<1>5. <<primera>> \in Seq(0 .. TamPagina)
  BY <1>1
<1>6. Piezas(desp, tam) = <<primera>> \o llenas \o ultima
  BY DEF Piezas
<1> HIDE DEF primera, llenas, ultima
<1> QED
  BY <1>3, <1>4, <1>5, <1>6

\* What a truncation has to do is of its type.
LEMMA SigueTipo ==
  ASSUME IDisco, FormaSigue(Sigue)
  PROVE  Sigue \in Truncando \cup Compactando
<1>0. DOMAIN lista \subseteq Archivos
  BY DEF IDisco, ITipoDatos
<1>1. ASSUME NEW en \in {"agrega", "tamanio"}, NEW f, NEW n, NEW l, Sigue = Cambia(en, f, n, l)
      PROVE  Sigue \in Truncando
  <2>1. Sigue.en = en /\ Sigue.f = f /\ Sigue.nuevo = n /\ Sigue.limite = l
    BY <1>1 DEF Cambia
  <2>2. f \in Archivos /\ n \in Nat /\ l \in Nat
    BY <1>0, <2>1 DEF IDisco, ITipoOp
  <2> QED
    BY <1>1, <2>2 DEF Cambia, Truncando
<1>2. ASSUME NEW f, NEW n, NEW l, NEW q, Sigue = Acerca(f, n, l, q)
      PROVE  Sigue \in Compactando
  <2>1. Sigue.en = "detras" /\ Sigue.f = f /\ Sigue.nuevo = n /\ Sigue.limite = l /\ Sigue.quedan = q
    BY <1>2 DEF Acerca
  <2>2. f \in Archivos /\ n \in Nat /\ l \in Nat /\ q \in SUBSET Archivos
    BY <1>0, <2>1 DEF IDisco, ITipoOp
  <2> QED
    BY <1>2, <2>2 DEF Acerca, Compactando
<1>3. ASSUME NEW f, NEW n, NEW l, NEW falta, NEW q, Sigue = Empuja(f, n, l, falta, q)
      PROVE  Sigue \in Compactando
  <2>1. Sigue.en = "empuja" /\ Sigue.f = f /\ Sigue.nuevo = n /\ Sigue.limite = l
        /\ Sigue.quedan = q /\ Sigue.faltan = falta
    BY <1>3 DEF Empuja
  <2>2. f \in Archivos /\ n \in Nat /\ l \in Nat /\ q \in SUBSET Archivos /\ falta \in Int
    BY <1>0, <2>1 DEF IDisco, ITipoOp
  <2> QED
    BY <1>3, <2>2 DEF Empuja, Compactando
<1> QED
  BY <1>1, <1>2, <1>3 DEF FormaSigue

\* And so is every step of an operation.
LEMMA OpTipo ==
  ASSUME IDisco, FormaOp
  PROVE  op \in Pasos
<1>1. CASE op \in {Reposo, Responde, Caida}
  BY <1>1 DEF Pasos
<1>2. CASE FormaSigue(op)
  <2>1. Sigue = op
    BY <1>2 DEF FormaSigue, Sigue, Cambia, Acerca, Empuja
  <2> QED
    BY <1>2, <2>1, SigueTipo DEF Pasos
<1>3. ASSUME NEW f, NEW d, NEW s, FormaSigue(s), op = [en |-> "fcb", mueve |-> f, d |-> d, sigue |-> s]
      PROVE  op \in Pasos
  <2>1. op.en = "fcb" /\ op.mueve = f /\ op.d = d /\ Sigue = s
    BY <1>3 DEF Sigue
  <2>2. f \in DOMAIN lista /\ d \in Int
    BY <2>1 DEF IDisco, ITipoOp
  <2>3. s \in Truncando \cup Compactando
    BY <1>3, <2>1, SigueTipo
  <2> QED
    BY <1>3, <2>2, <2>3 DEF Pasos
<1>4. ASSUME NEW en \in EnCrea, NEW b \in 0 .. BLOCK_COUNT - 1, NEW f, op = Creando(en, f, b)
      PROVE  op \in Pasos
  <2>1. op.en = en /\ op.f = f
    BY <1>4 DEF Creando
  <2>2. f \in Archivos
    BY <2>1 DEF IDisco, ITipoOp
  <2> QED
    BY <1>4, <2>2 DEF Pasos, Creando
<1>5. ASSUME NEW f, op = [en |-> "borra", f |-> f]
      PROVE  op \in Pasos
  <2>1. op.en = "borra" /\ op.f = f
    BY <1>5
  <2>2. f \in DOMAIN lista
    BY <2>1 DEF IDisco, ITipoOp
  <2> QED
    BY <1>5, <2>2 DEF Pasos
<1>6. ASSUME NEW desp \in 0 .. TamPagina - 1, NEW tam \in Tamanios, NEW resta \in Seq(0 .. TamPagina),
             NEW pos \in Nat, NEW desde \in Nat, NEW hay \in Nat,
             op = Restan(desp, tam, resta, pos, desde, hay)
      PROVE  op \in Pasos
  BY <1>6 DEF Pasos, Restan
<1> QED
  BY <1>1, <1>2, <1>3, <1>4, <1>5, <1>6 DEF FormaOp

\* A move is written down with what follows it.
LEMMA MueveForma ==
  ASSUME NEW f, NEW d, NEW s, FormaSigue(s), Mueve(f, d, s)
  PROVE  FormaOp'
<1>1. op' = Caida \/ op' = [en |-> "fcb", mueve |-> f, d |-> d, sigue |-> s]
  BY DEF Mueve, Muere
<1>2. FormaSigue(s)
  OBVIOUS
<1> QED
  BY <1>1, <1>2 DEF FormaOp

\* The parts of a truncation.
LEMMA FormasSigue ==
  /\ \A en \in {"agrega", "tamanio"} : \A f, n, l : FormaSigue(Cambia(en, f, n, l))
  /\ \A f, n, l, q : FormaSigue(Acerca(f, n, l, q))
  /\ \A f, n, l, falta, q : FormaSigue(Empuja(f, n, l, falta, q))
BY DEF FormaSigue

\* Any of them is a step.
LEMMA FormaSigueOp == FormaSigue(op) => FormaOp
BY DEF FormaOp

\* After a step too.
LEMMA FormaSigueOpP == FormaSigue(op') => FormaOp'
BY DEF FormaOp, FormaSigue

\* The death of the process, and the end of an operation.
LEMMA FormaFija == op' \in {Reposo, Responde, Caida} => FormaOp'
BY DEF FormaOp

\* A truncation starts as one of its parts.
LEMMA TruncaForma ==
  ASSUME NEW f, NEW t, Trunca(f, t)
  PROVE  FormaOp'
<1>1. CASE op' \in {Responde, Caida}
  BY <1>1, FormaFija
<1>2. CASE op' \notin {Responde, Caida}
  <2>1. PICK l, q, d : \/ op' = Cambia("tamanio", f, t, l)
                       \/ op' = Cambia("agrega", f, t, l)
                       \/ Mueve(f, d, Cambia("agrega", f, t, l))
                       \/ op' = Acerca(f, t, l, q)
    BY <1>2 DEF Trunca, Muere
  <2> QED
    BY <2>1, FormasSigue, FormaSigueOpP, MueveForma
<1> QED
  BY <1>1, <1>2

\* A creation goes on with the same name and the same block.
LEMMA CreandoForma ==
  ASSUME FormaOp, op.en \in EnCrea, NEW en \in EnCrea, op' = Creando(en, op.f, op.bloque)
  PROVE  FormaOp'
<1>1. op.bloque \in 0 .. BLOCK_COUNT - 1
  BY DEF FormaOp, FormaSigue, Cambia, Acerca, Empuja, Restan, Reposo, Responde, Caida, Creando, EnCrea
<1> QED
  BY <1>1 DEF FormaOp

\* Each step of an operation.
LEMMA PasoForma ==
  ASSUME FormaOp, PasoDisco
  PROVE  FormaOp'
<1>1. CASE CreaFcb \/ CreaInicial \/ CreaTamanio
  <2>1. op.en \in EnCrea /\ (op' = Responde \/ \E en \in EnCrea : op' = Creando(en, op.f, op.bloque))
    BY <1>1 DEF CreaFcb, CreaInicial, CreaTamanio, EnCrea
  <2> QED
    BY <2>1, CreandoForma, FormaFija
<1>2. CASE BorraFcb \/ GuardaTamanio
  BY <1>2, FormaFija DEF BorraFcb, GuardaTamanio
<1>3. CASE MueveFcb
  <2>1. op.en = "fcb" /\ op' = op.sigue
    BY <1>3 DEF MueveFcb
  <2>2. ~ FormaSigue(op)
    BY <2>1 DEF FormaSigue, Cambia, Acerca, Empuja
  <2>3. PICK f, d, s : FormaSigue(s) /\ op = [en |-> "fcb", mueve |-> f, d |-> d, sigue |-> s]
    BY <2>1, <2>2 DEF FormaOp, Restan, Reposo, Responde, Caida, Creando, EnCrea
  <2>4. op.sigue = s
    BY <2>3
  <2> QED
    BY <2>1, <2>3, <2>4, FormaSigueOpP
<1>4. CASE CompactaDetras
  <2>1. PICK f, d, q : LET s == Acerca(op.f, op.nuevo, op.limite, q) IN Mueve(f, d, s) \/ op' = s
    BY <1>4 DEF CompactaDetras
  <2> QED
    BY <2>1, FormasSigue, FormaSigueOpP, MueveForma
<1>5. CASE CompactaCuenta
  <2>1. PICK n, q : op' = Empuja(op.f, op.nuevo, op.limite, n, q)
    BY <1>5 DEF CompactaCuenta
  <2> QED
    BY <2>1, FormasSigue, FormaSigueOpP
<1>6. CASE CompactaDelante
  <2>1. PICK f, q : Mueve(f, op.faltan, Empuja(op.f, op.nuevo, op.limite, op.faltan, q))
    BY <1>6 DEF CompactaDelante
  <2> QED
    BY <2>1, FormasSigue, MueveForma
<1>7. CASE Agrega
  <2>1. op' = Cambia("tamanio", op.f, op.nuevo, op.limite)
    BY <1>7 DEF Agrega
  <2> QED
    BY <2>1, FormasSigue, FormaSigueOpP
<1> QED
  BY <1>1, <1>2, <1>3, <1>4, <1>5, <1>6, <1>7 DEF PasoDisco

\* What an interface begins.
LEMMA EmpiezaForma ==
  ASSUME IDisco, Empieza
  PROVE  FormaOp'
<1>0. TamPagina \in Nat \ {0} /\ Tamanios \subseteq Nat /\ Entradas \subseteq Nat
  BY InterfazAssumption
<1>1. ASSUME NEW desp \in 0 .. TamPagina - 1, NEW tam \in Tamanios, NEW desde \in Nat, NEW hay \in Nat,
             Transfiere(desp, tam, desde, hay)
      PROVE  FormaOp'
  <2>1. Piezas(desp, tam) \in Seq(0 .. TamPagina)
    BY <1>0, PiezasTipo
  <2>2. op' = Restan(desp, tam, Piezas(desp, tam), 0, desde, hay)
    BY <1>1 DEF Transfiere
  <2>3. 0 \in Nat
    OBVIOUS
  <2> QED
    BY <2>1, <2>2, <2>3 DEF FormaOp
<1>2. Muere => FormaOp'
  BY FormaFija DEF Muere
<1>3. ASSUME NEW f, Crea(f)
      PROVE  FormaOp'
  <2> DEFINE libres == (0 .. BLOCK_COUNT - 1) \ mapa
  <2>1. CASE libres # {} /\ op' = Creando("crea_fcb", f, Min(libres))
    <3>1. libres \in SUBSET Nat /\ libres # {}
      BY <2>1, DialFsAssumption
    <3>2. Min(libres) \in libres
      <4> HIDE DEF libres
      <4> QED BY <3>1, MinimoDa
    <3>3. Min(libres) \in 0 .. BLOCK_COUNT - 1
      BY <3>2
    <3> HIDE DEF libres
    <3> QED
      BY <2>1, <3>3 DEF FormaOp, EnCrea
  <2> QED
    BY <1>2, <1>3, <2>1 DEF Crea
<1>4. ASSUME NEW f, Borra(f)
      PROVE  FormaOp'
  BY <1>2, <1>4 DEF Borra, FormaOp
<1>5. ASSUME NEW f, NEW desp \in 0 .. TamPagina - 1, NEW t \in Tamanios, NEW puntero \in {0, 1},
             Accede(f, desp, t, puntero)
      PROVE  FormaOp'
  <2>1. CASE Hay(f) /\ Transfiere(desp, t, BLOCK_SIZE * lista[f].inicial + puntero, t)
    <3>1. lista[f].inicial \in Nat
      BY <2>1 DEF Hay, IDisco, ITipoDatos, FCBs
    <3>2. BLOCK_SIZE * lista[f].inicial + puntero \in Nat /\ t \in Nat
      <4>1. \A x \in Nat : BLOCK_SIZE * x + puntero \in Nat
        BY DialFsAssumption
      <4> QED BY <1>0, <3>1, <4>1
    <3> QED
      BY <1>1, <2>1, <3>2
  <2> QED
    BY <1>2, <1>5, <2>1 DEF Accede
<1>6. CASE tipo = "GENERICA"
  BY <1>6, FormaFija DEF Empieza
<1>7. CASE tipo \in {"STDIN", "STDOUT"}
  <2>1. PICK desp \in 0 .. TamPagina - 1, tam \in Tamanios :
          \E hay \in IF tipo = "STDIN" THEN Entradas ELSE {tam} : Transfiere(desp, tam, 0, hay)
    BY <1>7 DEF Empieza
  <2>2. PICK hay \in IF tipo = "STDIN" THEN Entradas ELSE {tam} : Transfiere(desp, tam, 0, hay)
    BY <2>1
  <2>3. hay \in Nat /\ 0 \in Nat
    BY <1>0, <2>2
  <2> QED
    BY <1>1, <2>2, <2>3
<1>8. CASE tipo = "DIALFS"
  BY <1>3, <1>4, <1>5, <1>8, TruncaForma DEF Empieza
<1> QED
  BY <1>6, <1>7, <1>8 DEF Empieza

\* op stays as it was.
LEMMA FormaIgual == FormaOp /\ op' = op => FormaOp'
BY DEF FormaOp, FormaSigue

\* Besides the types, no permit is for a process that is not in the queue, and what
\* manejar_io will read is whole.
ITiposSesion ==
  /\ tipo \in Tipos /\ cola \in Seq(Instrucciones) /\ semCola \in Nat
  /\ hilo \in {"espera", "recibe"} /\ alInterfaz \in Seq(Instrucciones)
  /\ alKernel \in Seq(Nat) /\ Enteras(alKernel)
  /\ kernel \in {"vivo", "indefinido"} /\ error \in BOOLEAN
  /\ semCola + Recibiendo <= Len(cola)

\* Each step keeps the form of the operation.
LEMMA FormaPaso ==
  ASSUME IDisco, FormaOp, [Next]_vars
  PROVE  FormaOp'
<1>1. CASE op' = op
  BY <1>1, FormaIgual
<1>2. CASE Muere
  BY <1>2, FormaFija DEF Muere
<1>3. CASE InterfazRecibe
  BY <1>3, EmpiezaForma, FormaFija DEF InterfazRecibe
<1>4. CASE Pieza /\ ~ Muere
  <2>1. op.en = "piezas" /\ op.resta # << >>
        /\ op' = Restan(op.desp, op.tam, Tail(op.resta), op.pos + Head(op.resta), op.desde, op.hay)
    BY <1>4 DEF Pieza
  <2>2. PICK desp \in 0 .. TamPagina - 1, tam \in Tamanios, resta \in Seq(0 .. TamPagina),
             pos \in Nat, desde \in Nat, hay \in Nat : op = Restan(desp, tam, resta, pos, desde, hay)
    BY <2>1 DEF FormaOp, FormaSigue, Cambia, Acerca, Empuja, Reposo, Responde, Caida, Creando, EnCrea
  <2>3. op.desp = desp /\ op.tam = tam /\ op.resta = resta /\ op.pos = pos /\ op.desde = desde
        /\ op.hay = hay
    BY <2>2 DEF Restan
  <2>4. Tail(resta) \in Seq(0 .. TamPagina) /\ Head(resta) \in 0 .. TamPagina
    <3>1. resta # << >> /\ resta \in Seq(0 .. TamPagina)
      BY <2>1, <2>2, <2>3
    <3> DEFINE S == 0 .. TamPagina
    <3>2. resta \in Seq(S)
      BY <3>1
    <3> HIDE DEF S
    <3>3. Tail(resta) \in Seq(S) /\ Head(resta) \in S
      BY <3>1, <3>2, HeadTailProperties
    <3> QED
      BY <3>3 DEF S
  <2>5. pos + Head(resta) \in Nat
    BY <2>4
  <2> QED
    BY <2>1, <2>3, <2>4, <2>5 DEF FormaOp
<1>5. CASE FinPiezas \/ InterfazResponde \/ Reinicia
  <2>1. CASE op' \in {Reposo, Responde}
    BY <2>1, FormaFija
  <2>2. CASE op.en = "repite" /\ op' = Creando("repetida", op.f, op.bloque)
    BY <2>2, CreandoForma DEF EnCrea
  <2> QED
    BY <1>5, <2>1, <2>2 DEF FinPiezas, InterfazResponde, Reinicia, ArrancaDisco
<1>6. CASE PasoDisco
  BY <1>6, PasoForma
<1>7. CASE Detiene
  BY <1>2, <1>7 DEF Detiene
<1>8. CASE PasoIo \/ (\E p \in Pids, conoce \in BOOLEAN : Bloquea(p, conoce)) \/ UNCHANGED vars
  BY <1>1, <1>8 DEF PasoIo, IoToma, IoRecibe, IoDesconexion, Bloquea, vars, discoVars
<1> QED
  BY <1>2, <1>3, <1>4, <1>5, <1>6, <1>7, <1>8 DEF Next, PasoInterfaz

\* The session stays as it was.
LEMMA SesionTipoIgual ==
  ASSUME ITiposSesion, UNCHANGED <<tipo, sesionVars>>
  PROVE  ITiposSesion'
BY DEF ITiposSesion, sesionVars, Recibiendo, Enteras

\* A session starts with nothing in the queue or in the connection, every time.
Empezada == Sesion0 /\ tipo \in Tipos

LEMMA InicioTipo == Empezada => ITiposSesion
<1> SUFFICES ASSUME Sesion0, tipo \in Tipos PROVE ITiposSesion
  BY DEF Empezada
<1>1. cola = << >> /\ semCola = 0 /\ hilo = "espera" /\ alInterfaz = << >> /\ alKernel = << >>
      /\ kernel = "vivo" /\ error = FALSE
  BY DEF Sesion0
<1>2. cola \in Seq(Instrucciones) /\ alInterfaz \in Seq(Instrucciones) /\ alKernel \in Seq(Nat)
  BY <1>1
<1>3. Len(cola) = 0 /\ Len(alKernel) = 0
  BY <1>1
<1>4. Enteras(alKernel)
  BY <1>3 DEF Enteras
<1>5. Recibiendo = 0
  BY <1>1 DEF Recibiendo
<1>6. semCola + Recibiendo <= Len(cola) /\ semCola \in Nat
  BY <1>1, <1>3, <1>5
<1> QED
  BY <1>1, <1>2, <1>4, <1>6 DEF ITiposSesion

\* After a disconnection too.
LEMMA InicioTipoP == Empezada' => ITiposSesion'
BY InicioTipo, PTL

\* Each step keeps them.
LEMMA SesionTipoPaso ==
  ASSUME ITiposSesion, [Next]_vars
  PROVE  ITiposSesion'
<1> USE DEF ITiposSesion
<1>0. Recibiendo \in {0, 1} /\ Len(cola) \in Nat
  BY DEF Recibiendo
<1>1. ASSUME NEW p \in Pids, NEW conoce \in BOOLEAN, Bloquea(p, conoce)
      PROVE  ITiposSesion'
  <2>1. cola' = Append(cola, [pid |-> p, conoce |-> conoce]) /\ semCola' = semCola + 1
        /\ UNCHANGED <<tipo, hilo, alInterfaz, alKernel, kernel, error>>
    BY <1>1 DEF Bloquea
  <2>2. [pid |-> p, conoce |-> conoce] \in Instrucciones
    BY DEF Instrucciones
  <2>3. cola' \in Seq(Instrucciones) /\ Len(cola') = Len(cola) + 1
    BY <2>1, <2>2
  <2>4. Recibiendo' = Recibiendo /\ Enteras(alKernel')
    BY <2>1 DEF Recibiendo
  <2>5. semCola' + Recibiendo' <= Len(cola')
    BY <1>0, <2>1, <2>3, <2>4
  <2> QED
    BY <2>1, <2>3, <2>4, <2>5
<1>2. CASE IoToma
  <2>1. semCola' = semCola - 1 /\ semCola > 0 /\ hilo = "espera" /\ hilo' = "recibe"
        /\ alInterfaz' = Append(alInterfaz, Head(cola))
        /\ UNCHANGED <<tipo, cola, alKernel, kernel, error>>
    BY <1>2 DEF IoToma
  <2>2. Recibiendo = 0 /\ Recibiendo' = 1
    BY <2>1 DEF Recibiendo
  <2>3. Len(cola) > 0
    BY <1>0, <2>1, <2>2
  <2>4. Head(cola) \in Instrucciones
    BY <2>3
  <2>5. alInterfaz' \in Seq(Instrucciones) /\ Enteras(alKernel')
    BY <2>1, <2>4
  <2>6. semCola' \in Nat /\ semCola' + Recibiendo' <= Len(cola')
    BY <1>0, <2>1, <2>2
  <2> QED
    BY <2>1, <2>5, <2>6
<1>3. CASE IoRecibe
  <2>1. hilo = "recibe" /\ hilo' = "espera" /\ alKernel # << >>
        /\ UNCHANGED <<tipo, semCola, alInterfaz, kernel, error>>
    BY <1>3 DEF IoRecibe
  <2>2. \/ Head(alKernel) = BLOQUEO_TERMINADO /\ alKernel' = TrasBuffer(Tail(alKernel)) /\ cola' = Tail(cola)
        \/ alKernel' = Tail(alKernel) /\ cola' = cola
    BY <1>3 DEF IoRecibe
  <2>3. Recibiendo = 1 /\ Recibiendo' = 0
    BY <2>1 DEF Recibiendo
  <2>4. Len(cola) > 0
    BY <1>0, <2>3
  <2>5. alKernel' \in Seq(Nat) /\ Enteras(alKernel')
    <3>1. /\ Tail(alKernel) \in Seq(Nat) /\ Enteras(Tail(alKernel))
          /\ Head(alKernel) = BLOQUEO_TERMINADO =>
               TrasBuffer(Tail(alKernel)) \in Seq(Nat) /\ Enteras(TrasBuffer(Tail(alKernel)))
      BY <2>1, RestoEntero
    <3> QED BY <2>2, <3>1, Zenon
  <2>6. Tail(cola) \in Seq(Instrucciones) /\ Len(Tail(cola)) = Len(cola) - 1
    BY <2>4
  <2>7. cola' \in Seq(Instrucciones) /\ (Len(cola') = Len(cola) \/ Len(cola') = Len(cola) - 1)
    <3>1. CASE cola' = cola
      BY <3>1
    <3>2. CASE cola' = Tail(cola)
      BY <2>6, <3>2, Zenon
    <3> QED BY <2>2, <3>1, <3>2
  <2>8. semCola' + Recibiendo' <= Len(cola')
    BY <1>0, <2>1, <2>3, <2>7
  <2> QED
    BY <2>1, <2>5, <2>7, <2>8
<1>4. CASE IoDesconexion
  BY <1>4 DEF IoDesconexion, Recibiendo
<1>5. CASE InterfazRecibe
  <2>1. alInterfaz # << >> /\ alInterfaz' = Tail(alInterfaz) /\ UNCHANGED <<tipo, cola, semCola, hilo, kernel>>
        /\ (\/ UNCHANGED <<alKernel, error>>
            \/ alKernel' = alKernel \o Paquete(ERROR) /\ error' = TRUE)
    BY <1>5 DEF InterfazRecibe
  <2>2. alInterfaz' \in Seq(Instrucciones)
    BY <2>1
  <2>3. alKernel' \in Seq(Nat) /\ Enteras(alKernel')
    BY <2>1, PaqueteEntero
  <2>4. Recibiendo' = Recibiendo /\ error' \in BOOLEAN
    BY <2>1 DEF Recibiendo
  <2> QED
    BY <2>1, <2>2, <2>3, <2>4
<1>6. CASE InterfazResponde
  <2>1. alKernel' = alKernel \o Paquete(BLOQUEO_TERMINADO)
        /\ UNCHANGED <<tipo, cola, semCola, hilo, alInterfaz, kernel, error>>
    BY <1>6 DEF InterfazResponde
  <2>2. alKernel' \in Seq(Nat) /\ Enteras(alKernel') /\ Recibiendo' = Recibiendo
    BY <2>1, PaqueteEntero DEF Recibiendo
  <2> QED
    BY <2>1, <2>2
<1>7. CASE Reinicia
  <2>1. cola' = << >> /\ semCola' = 0 /\ hilo' = "espera" /\ alInterfaz' = << >> /\ alKernel' = << >>
        /\ kernel' = "vivo" /\ error' = FALSE /\ tipo' = tipo
    BY <1>7 DEF Reinicia
  <2> QED
    BY <2>1, InicioTipoP DEF Sesion0, Empezada
<1>8. CASE UNCHANGED <<tipo, sesionVars>>
  BY <1>8, SesionTipoIgual
<1> QED
  BY <1>1, <1>2, <1>3, <1>4, <1>5, <1>6, <1>7, <1>8
  DEF Next, PasoIo, PasoInterfaz, Pieza, FinPiezas, Detiene, vars

\* roto is what it was or becomes TRUE or FALSE.
LEMMA RotoTipo ==
  ASSUME roto \in BOOLEAN, [Next]_vars
  PROVE  roto' \in BOOLEAN
<1>1. CASE roto' = roto
  BY <1>1
<1>2. CASE Muere
  BY <1>2, Zenon DEF Muere
<1>3. CASE Empieza
  <2>1. roto' = roto \/ Muere
    <3>1. ASSUME NEW f, NEW t, Trunca(f, t)
          PROVE  roto' = roto \/ Muere
      <4>1. \A d, s : Mueve(f, d, s) => roto' = roto \/ Muere
        BY DEF Mueve
      <4>2. PICK d, l : roto' = roto \/ Muere \/ Mueve(f, d, Cambia("agrega", f, t, l))
        BY <3>1 DEF Trunca, Guarda
      <4> QED BY <4>1, <4>2
    <3>2. ASSUME NEW f, Crea(f) \/ Borra(f)
          PROVE  roto' = roto \/ Muere
      BY <3>2 DEF Crea, Borra
    <3>3. ASSUME NEW d, NEW t, NEW b, NEW h, Transfiere(d, t, b, h)
          PROVE  roto' = roto
      BY <3>3 DEF Transfiere
    <3>4. ASSUME NEW f, NEW d, NEW t, NEW b, Accede(f, d, t, b)
          PROVE  roto' = roto \/ Muere
      BY <3>3, <3>4 DEF Accede
    <3> QED
      BY <1>3, <3>1, <3>2, <3>3, <3>4 DEF Empieza
  <2> QED BY <1>1, <1>2, <2>1
<1>4. CASE PasoDisco
  BY <1>1, <1>2, <1>4 DEF PasoDisco, CreaFcb, CreaInicial, CreaTamanio, BorraFcb, MueveFcb,
                          CompactaDetras, CompactaCuenta, CompactaDelante, Agrega, GuardaTamanio, Mueve
<1>5. CASE PasoIo \/ InterfazRecibe \/ Pieza \/ FinPiezas \/ InterfazResponde \/ Detiene \/ Reinicia
  BY <1>1, <1>2, <1>3, <1>5
  DEF PasoIo, IoToma, IoRecibe, IoDesconexion, InterfazRecibe, Pieza, FinPiezas, InterfazResponde,
      Detiene, Reinicia, ArrancaDisco, discoVars
<1>6. CASE (\E p \in Pids, conoce \in BOOLEAN : Bloquea(p, conoce)) \/ UNCHANGED vars
  BY <1>1, <1>6 DEF Bloquea, vars, discoVars
<1> QED
  BY <1>4, <1>5, <1>6 DEF Next, PasoInterfaz

\* What makes TypeOK inductive, besides IDisco.
ITipos == FormaOp /\ ITiposSesion /\ roto \in BOOLEAN

\* Every variable keeps its type, for every set of files, size of block, of page and of disk
\* and every number of processes: TypeOK of the runs is this theorem.
THEOREM TipoInterfaz == Spec => []TypeOK
<1>1. Init => ITipos
  <2> SUFFICES ASSUME Init PROVE ITipos
    OBVIOUS
  <2>2. FormaOp /\ roto \in BOOLEAN
    BY DEF Init, DiscoInit, FormaOp
  <2>3. ITiposSesion
    BY InicioTipo DEF Init, Empezada
  <2> QED
    BY <2>2, <2>3 DEF ITipos
<1>2. IDisco /\ ITipos /\ [Next]_vars => ITipos'
  BY FormaPaso, SesionTipoPaso, RotoTipo DEF ITipos
<1>3. IDisco /\ ITipos => TypeOK
  BY OpTipo DEF ITipos, ITiposSesion, IDisco, ITipoDatos, FCBs, TypeOK, Instrucciones
<1> QED
  BY <1>1, <1>2, <1>3, DiscoInvariante, PTL DEF Spec

-----------------------------------------------------------------------------
(* The pieces of an access.  A page is a run of TamPagina bytes: multiples  *)
(* of it, and the one a byte is in.                                         *)

\* The first byte of a page.
Base(k) == k * TamPagina

\* Pages follow one another.
LEMMA BaseDa ==
  /\ TamPagina \in Nat /\ TamPagina > 0
  /\ Base(0) = 0
  /\ \A k \in Nat : Base(k) \in Nat /\ Base(k + 1) = Base(k) + TamPagina
  /\ \A j, k \in Nat : Base(j + k) = Base(j) + Base(k)
BY InterfazAssumption DEF Base

\* And each begins after the ones before it.
LEMMA BaseCrece == \A j, k \in Nat : j <= k => Base(j) <= Base(k)
<1> SUFFICES ASSUME NEW j \in Nat, NEW k \in Nat, j <= k PROVE Base(j) <= Base(k)
  OBVIOUS
<1>1. PICK d \in Nat : k = j + d
  <2>1. k - j \in Nat /\ k = j + (k - j)
    OBVIOUS
  <2> QED BY <2>1
<1>2. Base(j + d) = Base(j) + Base(d) /\ Base(j) \in Nat /\ Base(d) \in Nat
  BY BaseDa
<1>3. Base(j) <= Base(j + d)
  BY <1>2
<1> QED
  BY <1>1, <1>3

\* The page of a byte.
LEMMA PaginaDa ==
  ASSUME NEW b \in Nat
  PROVE  /\ Pagina(b) \in Nat
         /\ Base(Pagina(b)) <= b /\ b < Base(Pagina(b)) + TamPagina
<1> DEFINE T == TamPagina
<1>1. T \in Nat /\ T > 0
  BY BaseDa
<1> HIDE DEF T
<1>2. b \div T \in Nat /\ (b \div T) * T <= b /\ b < (b \div T) * T + T
  BY <1>1
<1> QED
  BY <1>2 DEF T, Pagina, Base

\* It is the only one.
LEMMA PaginaUnica ==
  ASSUME NEW b \in Nat, NEW k \in Nat, Base(k) <= b, b < Base(k) + TamPagina
  PROVE  Pagina(b) = k
<1> DEFINE q == Pagina(b)
<1>1. q \in Nat /\ Base(q) <= b /\ b < Base(q) + TamPagina
  BY PaginaDa
<1> HIDE DEF q
<1>2. ASSUME q < k PROVE FALSE
  <2>1. q + 1 \in Nat /\ q + 1 <= k
    BY <1>1, <1>2
  <2>2. Base(q + 1) <= Base(k) /\ Base(q + 1) = Base(q) + TamPagina
    BY <1>1, <2>1, BaseCrece, BaseDa
  <2> QED
    BY <1>1, <2>2, BaseDa
<1>3. ASSUME k < q PROVE FALSE
  <2>1. k + 1 \in Nat /\ k + 1 <= q
    BY <1>1, <1>3
  <2>2. Base(k + 1) <= Base(q) /\ Base(k + 1) = Base(k) + TamPagina
    BY <1>1, <2>1, BaseCrece, BaseDa
  <2> QED
    BY <1>1, <2>2, BaseDa
<1>4. q = k
  BY <1>1, <1>2, <1>3
<1> QED
  BY <1>4 DEF q

\* Bytes a .. z - 1 are in the n pages from the p-th.
EnPaginas(a, z, p, n) ==
  /\ Base(p) <= a /\ a < Base(p) + TamPagina /\ a < z /\ n > 0
  /\ Base(p + n) >= z /\ z > Base(p + n) - TamPagina

\* Cut where each page ends.
Tramos(a, z, p, n) == [k \in 1 .. n |-> Menor(z, Base(p + k)) - Mayor(a, Base(p + k - 1))]

\* Cortes, said with Base.
LEMMA CortesSon ==
  ASSUME NEW a \in Nat, NEW z \in Nat, NEW p \in Nat, NEW n \in Nat,
         EnPaginas(a, z, p, n)
  PROVE  Cortes(a, z) = Tramos(a, z, p, n)
<1>0. /\ Base(p) <= a /\ a < Base(p) + TamPagina /\ a < z /\ n > 0
      /\ Base(p + n) >= z /\ z > Base(p + n) - TamPagina
  BY DEF EnPaginas
<1>1. Pagina(a) = p
  BY <1>0, PaginaUnica
<1>2. Pagina(z - 1) = p + n - 1
  <2> DEFINE q == p + n - 1
  <2>1. q \in Nat /\ z - 1 \in Nat /\ q + 1 = p + n
    BY <1>0
  <2> HIDE DEF q
  <2>2. Base(q + 1) = Base(q) + TamPagina /\ Base(q) \in Nat /\ TamPagina \in Nat
    BY <2>1, BaseDa
  <2>3. Base(q) <= z - 1 /\ z - 1 < Base(q) + TamPagina
    BY <1>0, <2>1, <2>2
  <2>4. Pagina(z - 1) = q
    BY <2>1, <2>3, PaginaUnica
  <2> QED
    BY <2>4 DEF q
<1>3. (p + n - 1) - p + 1 = n
  OBVIOUS
<1> QED
  BY <1>1, <1>2, <1>3 DEF Cortes, Base, Tramos

\* A function on 1 .. n is a sequence of n elements.
LEMMA Funcion ==
  ASSUME NEW n \in Nat, NEW F \in [1 .. n -> Int]
  PROVE  F \in Seq(Int) /\ Len(F) = n
<1>1. F \in Seq(Int)
  BY SeqDef
<1>2. DOMAIN F = 1 .. Len(F) /\ Len(F) \in Nat /\ DOMAIN F = 1 .. n
  BY <1>1, LenProperties
<1> DEFINE m == Len(F)
<1>3. m \in Nat /\ 1 .. m = 1 .. n
  BY <1>2
<1> HIDE DEF m
<1>4. m = n
  BY <1>3
<1> QED
  BY <1>1, <1>4 DEF m

\* An access crosses from the page of its first byte to the one of its last.
LEMMA Cruza ==
  ASSUME NEW a \in Nat, NEW z \in Nat, a < z
  PROVE  \E p \in Nat, n \in Nat : EnPaginas(a, z, p, n)
<1> DEFINE p == Pagina(a)
           q == Pagina(z - 1)
<1>0. z - 1 \in Nat
  OBVIOUS
<1>1. p \in Nat /\ Base(p) <= a /\ a < Base(p) + TamPagina
  BY PaginaDa
<1>2. q \in Nat /\ Base(q) <= z - 1 /\ z - 1 < Base(q) + TamPagina
  BY <1>0, PaginaDa
<1> HIDE DEF p, q
<1>3. q >= p
  <2>1. SUFFICES ASSUME q < p PROVE FALSE
    BY <1>1, <1>2
  <2>2. q + 1 \in Nat /\ q + 1 <= p
    BY <1>1, <1>2, <2>1
  <2>3. Base(q + 1) <= Base(p) /\ Base(q + 1) = Base(q) + TamPagina
    BY <1>1, <1>2, <2>2, BaseCrece, BaseDa
  <2> QED
    BY <1>1, <1>2, <2>3, BaseDa
<1>4. PICK n \in Nat : n > 0 /\ p + n = q + 1
  <2>1. q + 1 - p \in Nat /\ q + 1 - p > 0 /\ p + (q + 1 - p) = q + 1
    BY <1>1, <1>2, <1>3
  <2> QED BY <2>1
<1>5. Base(p + n) = Base(q) + TamPagina /\ Base(q) \in Nat /\ TamPagina \in Nat
  BY <1>2, <1>4, BaseDa
<1>6. Base(p + n) >= z /\ z > Base(p + n) - TamPagina
  BY <1>2, <1>5
<1> QED
  BY <1>1, <1>4, <1>6 DEF EnPaginas

\* The first piece ends where its page or the access ends; the others are those of what is left.
LEMMA QuitaCorte ==
  ASSUME NEW a \in Nat, NEW z \in Nat, a < z
  PROVE  \E h \in Nat \ {0} :
           /\ Head(Cortes(a, z)) = h /\ a + h <= z /\ Cortes(a, z) # << >>
           /\ Tail(Cortes(a, z)) = IF a + h < z THEN Cortes(a + h, z) ELSE << >>
<1>0. PICK p \in Nat, n \in Nat : EnPaginas(a, z, p, n)
  BY Cruza
<1>1. /\ Base(p) <= a /\ a < Base(p) + TamPagina /\ n > 0
      /\ Base(p + n) >= z /\ z > Base(p + n) - TamPagina
  BY <1>0 DEF EnPaginas
<1> DEFINE F == [k \in 1 .. n |-> Menor(z, Base(p + k)) - Mayor(a, Base(p + k - 1))]
<1>2. Cortes(a, z) = F
  BY <1>0, CortesSon DEF Tramos
<1>3. ASSUME NEW k \in Nat
      PROVE  Base(p + k) \in Nat
  <2>1. p + k \in Nat
    OBVIOUS
  <2> QED BY <2>1, BaseDa
<1>4. TamPagina \in Nat /\ TamPagina > 0 /\ Base(p) \in Nat /\ Base(p + 1) = Base(p) + TamPagina
  BY BaseDa
<1>5. F \in Seq(Int) /\ Len(F) = n
  <2>1. ASSUME NEW k \in 1 .. n
        PROVE  Menor(z, Base(p + k)) - Mayor(a, Base(p + k - 1)) \in Int
    <3>1. k \in Nat /\ k - 1 \in Nat /\ p + k - 1 = p + (k - 1)
      OBVIOUS
    <3>2. Base(p + k) \in Nat /\ Base(p + k - 1) \in Nat
      BY <1>3, <3>1
    <3> QED
      BY <3>2 DEF Menor, Mayor
  <2>2. F \in [1 .. n -> Int]
    BY <2>1
  <2> HIDE DEF F
  <2> QED
    BY <2>2, Funcion
<1>6. F[1] = Menor(z, Base(p + 1)) - a
  <2>1. 1 \in 1 .. n /\ p + 1 - 1 = p
    BY <1>1
  <2>2. Mayor(a, Base(p)) = a
    BY <1>1, <1>4 DEF Mayor
  <2> QED
    BY <2>1, <2>2
<1> DEFINE h == F[1]
<1>7. Head(F) = h /\ F # << >> /\ Tail(F) \in Seq(Int) /\ Len(Tail(F)) = n - 1
      /\ \A k \in 1 .. n - 1 : Tail(F)[k] = F[k + 1]
  <2> HIDE DEF F
  <2> QED
    BY <1>1, <1>5
<1>8. CASE z <= Base(p + 1)
  <2>1. h = z - a
    <3> HIDE DEF F
    <3>1. Menor(z, Base(p + 1)) = z
      BY <1>4, <1>8 DEF Menor
    <3> QED BY <1>6, <3>1
  <2>2. n = 1
    <3>1. SUFFICES ASSUME n >= 2 PROVE FALSE
      BY <1>1
    <3>2. PICK m \in Nat : n = m + 1 /\ m >= 1
      <4>1. n - 1 \in Nat /\ n = (n - 1) + 1 /\ n - 1 >= 1
        BY <3>1
      <4> QED BY <4>1
    <3>3. p + m \in Nat /\ p + 1 <= p + m /\ p + 1 \in Nat /\ p + n = (p + m) + 1
      BY <3>2
    <3>4. Base(p + 1) <= Base(p + m) /\ Base(p + n) = Base(p + m) + TamPagina
      BY <3>3, BaseCrece, BaseDa
    <3>5. Base(p + m) \in Nat /\ Base(p + 1) \in Nat
      BY <1>3, <3>2
    <3> QED
      BY <1>1, <1>4, <1>8, <3>4, <3>5
  <2>3. Tail(F) = << >>
    <3>1. Tail(F) \in Seq(Int) /\ Len(Tail(F)) = 0
      BY <1>7, <2>2
    <3> DEFINE u == Tail(F)
    <3> HIDE DEF u
    <3>2. u \in Seq(Int) /\ Len(u) = 0 => u = << >>
      OBVIOUS
    <3> QED BY <3>1, <3>2 DEF u
  <2>4. h \in Nat \ {0} /\ a + h = z
    BY <2>1
  <2> HIDE DEF F, h
  <2> QED
    BY <1>2, <1>7, <2>3, <2>4
<1>9. CASE z > Base(p + 1)
  <2> DEFINE b == Base(p + 1)
  <2>1. h = b - a /\ b \in Nat /\ b > a /\ b < z
    <3> HIDE DEF F
    <3>1. Menor(z, Base(p + 1)) = Base(p + 1)
      BY <1>4, <1>9 DEF Menor
    <3> QED BY <1>1, <1>4, <1>6, <1>9, <3>1
  <2>2. PICK m \in Nat : n = m + 1 /\ m > 0
    <3>1. n # 1
      BY <1>1, <1>4, <1>9
    <3>2. n - 1 \in Nat /\ n = (n - 1) + 1 /\ n - 1 > 0
      BY <1>1, <3>1
    <3> QED BY <3>2
  <2>3. Cortes(b, z) = [k \in 1 .. m |-> Menor(z, Base(p + 1 + k)) - Mayor(b, Base(p + 1 + k - 1))]
    <3>1. p + 1 \in Nat /\ p + 1 + m = p + n
      BY <2>2
    <3>2. Base(p + 1) <= b /\ b < Base(p + 1) + TamPagina
      <4> DEFINE x == Base(p + 1)
      <4>1. x \in Nat
        BY <1>4
      <4> HIDE DEF x
      <4>2. x <= x /\ x < x + TamPagina
        BY <1>4, <4>1
      <4> QED BY <4>2 DEF x
    <3>3. Base((p + 1) + m) >= z /\ z > Base((p + 1) + m) - TamPagina
      BY <1>1, <3>1
    <3> HIDE DEF b
    <3> QED
      <4> DEFINE c == p + 1
      <4>1. EnPaginas(b, z, c, m)
        BY <2>1, <2>2, <3>2, <3>3 DEF EnPaginas
      <4>2. c \in Nat
        BY <3>1
      <4>3. Cortes(b, z) = Tramos(b, z, c, m)
        <5> HIDE DEF c
        <5> QED BY <2>1, <2>2, <4>1, <4>2, CortesSon
      <4> QED BY <4>3 DEF Tramos
  <2>4. ASSUME NEW k \in 1 .. m
        PROVE  F[k + 1] = Cortes(b, z)[k]
    <3>1. k + 1 \in 1 .. n /\ k \in Nat /\ k >= 1 /\ p + (k + 1) = p + 1 + k /\ p + (k + 1) - 1 = p + k
          /\ p + 1 + k - 1 = p + k
      BY <2>2
    <3>2. p + 1 \in Nat /\ p + k \in Nat /\ p + 1 <= p + k
      BY <3>1
    <3>3. b <= Base(p + k) /\ Base(p + k) \in Nat
      BY <1>3, <3>1, <3>2, BaseCrece
    <3>4. Mayor(a, Base(p + k)) = Base(p + k) /\ Mayor(b, Base(p + k)) = Base(p + k)
      <4> DEFINE x == Base(p + k)
      <4>1. x \in Nat /\ b <= x /\ a < x
        <5> HIDE DEF b
        <5>1. b \in Nat /\ b > a /\ x \in Nat /\ b <= x
          BY <2>1, <3>3
        <5> HIDE DEF x
        <5> QED BY <5>1
      <4> HIDE DEF b, x
      <4>2. Mayor(a, x) = x
        BY <4>1 DEF Mayor
      <4>3. Mayor(b, x) = x
        BY <2>1, <4>1 DEF Mayor
      <4> QED BY <4>2, <4>3 DEF x
    <3>5. F[k + 1] = Menor(z, Base(p + 1 + k)) - Mayor(a, Base(p + k))
      BY <3>1
    <3>6. Cortes(b, z)[k] = Menor(z, Base(p + 1 + k)) - Mayor(b, Base(p + k))
      BY <2>3, <3>1
    <3> QED
      BY <3>4, <3>5, <3>6
  <2>5. \A k \in 1 .. m : Tail(F)[k] = Cortes(b, z)[k]
    <3>1. n - 1 = m
      BY <2>2
    <3> HIDE DEF F
    <3> QED
      BY <1>7, <2>4, <3>1
  <2>6. Tail(F) = Cortes(b, z)
    <3>1. n - 1 = m
      BY <2>2
    <3>2. Tail(F) \in Seq(Int) /\ Len(Tail(F)) = m
      BY <1>7, <3>1
    <3>3. Tail(F) = [k \in 1 .. m |-> Tail(F)[k]]
      <4> DEFINE u == Tail(F)
      <4> HIDE DEF u
      <4>1. u \in Seq(Int) /\ Len(u) = m => u = [k \in 1 .. m |-> u[k]]
        OBVIOUS
      <4> QED BY <3>2, <4>1 DEF u
    <3> DEFINE G == Cortes(b, z)
    <3>4. G = [k \in 1 .. m |-> G[k]]
      BY <2>3
    <3> HIDE DEF F, G
    <3>5. \A k \in 1 .. m : Tail(F)[k] = G[k]
      BY <2>5 DEF G
    <3>6. Tail(F) = G
      BY <3>3, <3>4, <3>5
    <3> QED
      BY <3>6 DEF G
  <2>7. h \in Nat \ {0} /\ a + h = b /\ b < z
    <3> HIDE DEF h, b
    <3> QED BY <2>1
  <2> HIDE DEF F, h, b
  <2>8. Head(F) = h /\ F # << >>
    BY <1>7
  <2>9. a + h <= z /\ a + h < z
    BY <2>1, <2>7
  <2> QED
    BY <1>2, <2>6, <2>7, <2>8, <2>9, Zenon
<1>10. z <= Base(p + 1) \/ z > Base(p + 1)
  BY <1>4
<1> QED
  BY <1>8, <1>9, <1>10, Zenon

\* A first, q times v, and the rest.
Une(x, q, v, y) == <<x>> \o [i \in 1 .. q |-> v] \o y

\* What there is at each place of it.
Unidas(s, x, q, v, y, m) ==
  /\ s \in Seq(Int) /\ Len(s) = 1 + q + m /\ s[1] = x
  /\ \A k \in 1 .. q : s[1 + k] = v
  /\ \A k \in 1 .. m : s[1 + q + k] = y[k]

LEMMA Juntas ==
  ASSUME NEW x \in Int, NEW q \in Nat, NEW v \in Int, NEW y \in Seq(Int), NEW m \in Nat, Len(y) = m
  PROVE  Unidas(Une(x, q, v, y), x, q, v, y, m)
<1> PICK s : s = Une(x, q, v, y)
  OBVIOUS
<1> DEFINE c == <<x>>
           w == [i \in 1 .. q |-> v]
           t == c \o w
<1>1. c \in Seq(Int) /\ Len(c) = 1 /\ c[1] = x
  OBVIOUS
<1>2. w \in Seq(Int) /\ Len(w) = q /\ \A k \in 1 .. q : w[k] = v
  <2>1. w \in [1 .. q -> Int] /\ \A k \in 1 .. q : w[k] = v
    OBVIOUS
  <2> HIDE DEF w
  <2> QED BY <2>1, Funcion
<1>0. s = t \o y
  BY DEF Une
<1> HIDE DEF c, w
<1>3. t \in Seq(Int) /\ Len(t) = 1 + q
      /\ \A k \in 1 .. 1 + q : t[k] = IF k <= 1 THEN c[k] ELSE w[k - 1]
  <2>1. /\ c \o w \in Seq(Int)
        /\ Len(c \o w) = Len(c) + Len(w)
        /\ \A k \in 1 .. Len(c) + Len(w) : (c \o w)[k] = IF k <= Len(c) THEN c[k] ELSE w[k - Len(c)]
    BY <1>1, <1>2, ConcatProperties
  <2> QED BY <1>1, <1>2, <2>1
<1>4. t[1] = x
  <2>1. 1 \in 1 .. 1 + q /\ 1 <= 1
    OBVIOUS
  <2> HIDE DEF t
  <2>2. t[1] = c[1]
    BY <1>3, <2>1
  <2> QED BY <1>1, <2>2
<1>5. \A k \in 1 .. q : t[1 + k] = v
  <2>1. ASSUME NEW k \in 1 .. q
        PROVE  t[1 + k] = v
    <3>1. 1 + k \in 1 .. 1 + q /\ ~ (1 + k <= 1) /\ (1 + k) - 1 = k
      OBVIOUS
    <3> HIDE DEF t
    <3>2. t[1 + k] = w[(1 + k) - 1]
      BY <1>3, <3>1
    <3> QED BY <1>2, <3>1, <3>2
  <2> QED BY <2>1
<1> HIDE DEF t
<1>6. /\ s \in Seq(Int)
      /\ Len(s) = 1 + q + m
      /\ \A k \in 1 .. 1 + q + m : s[k] = IF k <= 1 + q THEN t[k] ELSE y[k - (1 + q)]
  <2>1. /\ t \o y \in Seq(Int)
        /\ Len(t \o y) = Len(t) + Len(y)
        /\ \A k \in 1 .. Len(t) + Len(y) : (t \o y)[k] = IF k <= Len(t) THEN t[k] ELSE y[k - Len(t)]
    BY <1>3, ConcatProperties
  <2>2. Len(t) = 1 + q /\ Len(y) = m
    BY <1>3
  <2> QED BY <1>0, <2>1, <2>2
<1>7. s[1] = x
  <2>1. 1 \in 1 .. 1 + q + m /\ 1 <= 1 + q
    OBVIOUS
  <2> QED BY <1>4, <1>6, <2>1
<1>8. ASSUME NEW k \in 1 .. q
      PROVE  s[1 + k] = v
  <2>1. 1 + k \in 1 .. 1 + q + m /\ 1 + k <= 1 + q
    OBVIOUS
  <2> QED BY <1>5, <1>6, <2>1
<1>9. ASSUME NEW k \in 1 .. m
      PROVE  s[1 + q + k] = y[k]
  <2>1. 1 + q + k \in 1 .. 1 + q + m /\ ~ (1 + q + k <= 1 + q) /\ (1 + q + k) - (1 + q) = k
    OBVIOUS
  <2>2. s[1 + q + k] = y[(1 + q + k) - (1 + q)]
    BY <1>6, <2>1
  <2> QED BY <2>1, <2>2
<1> QED
  BY <1>6, <1>7, <1>8, <1>9 DEF Unidas

\* What obtener_dir_logicas cuts is the access, page by page; nothing is one empty piece.
LEMMA PiezasSon ==
  ASSUME NEW desp \in 0 .. TamPagina - 1, NEW tam \in Nat
  PROVE  /\ tam > 0 => Piezas(desp, tam) = Cortes(desp, desp + tam)
         /\ tam = 0 => Piezas(desp, tam) = <<0>>
<1> DEFINE T == TamPagina
           z == desp + tam
<1>0. T \in Nat /\ T > 0 /\ desp \in Nat /\ desp < T /\ z \in Nat /\ z >= desp
  BY BaseDa
<1>b. Base(0) = 0 /\ Base(1) = T
  BY <1>0 DEF Base
<1>1. CASE tam < T - desp
  <2>1. Piezas(desp, tam) = <<tam>> \o [i \in 1 .. 0 \div T |-> T]
                              \o (IF 0 % T > 0 THEN <<0 % T>> ELSE << >>)
    <3>1. T - desp > tam /\ tam - tam = 0
      BY <1>0, <1>1
    <3> QED BY <3>1 DEF Piezas
  <2>2. 0 \div T = 0 /\ 0 % T = 0
    <3> HIDE DEF T
    <3> QED BY <1>0
  <2>3. Piezas(desp, tam) = <<tam>> \o [i \in 1 .. 0 |-> T] \o << >>
    <3> HIDE DEF T
    <3> QED BY <2>1, <2>2
  <2>4. Piezas(desp, tam) = <<tam>>
    <3> DEFINE w == [i \in 1 .. 0 |-> T]
    <3>1. w = << >>
      OBVIOUS
    <3> HIDE DEF w
    <3>2. <<tam>> \o w \o << >> = <<tam>>
      BY <3>1
    <3> QED BY <2>3, <3>2 DEF w
  <2>5. ASSUME tam > 0
        PROVE  Cortes(desp, z) = <<tam>>
    <3>1. EnPaginas(desp, z, 0, 1)
      BY <1>0, <1>1, <1>b, <2>5 DEF EnPaginas
    <3>2. Cortes(desp, z) = Tramos(desp, z, 0, 1)
      BY <1>0, <3>1, CortesSon
    <3>3. \A k \in 1 .. 1 : Menor(z, Base(0 + k)) - Mayor(desp, Base(0 + k - 1)) = tam
      <4>1. Menor(z, T) = z /\ Mayor(desp, 0) = desp
        BY <1>0, <1>1 DEF Menor, Mayor
      <4>2. \A k \in 1 .. 1 : 0 + k = 1 /\ 0 + k - 1 = 0
        OBVIOUS
      <4> QED BY <1>0, <1>b, <4>1, <4>2
    <3>4. Cortes(desp, z) = [k \in 1 .. 1 |-> tam]
      BY <3>2, <3>3 DEF Tramos
    <3>5. [k \in 1 .. 1 |-> tam] = <<tam>>
      OBVIOUS
    <3> QED BY <3>4, <3>5
  <2> QED
    BY <2>4, <2>5
<1>2. CASE ~ (tam < T - desp)
  <2> DEFINE x == T - desp
             resto == tam - x
             q == resto \div T
             r == resto % T
             y == IF r > 0 THEN <<r>> ELSE << >>
             m == IF r > 0 THEN 1 ELSE 0
             s == <<x>> \o [i \in 1 .. q |-> T] \o y
  <2>1. Piezas(desp, tam) = s
    <3>1. ~ (T - desp > tam)
      BY <1>0, <1>2
    <3> QED BY <3>1 DEF Piezas
  <2>2. x \in Int /\ x > 0 /\ resto \in Nat /\ z = T + resto
    <3> HIDE DEF T
    <3> QED BY <1>0, <1>2
  <2>3. q \in Nat /\ r \in Nat /\ r < T /\ resto = Base(q) + r
    <3> HIDE DEF resto, T
    <3>1. q \in Nat /\ r \in Nat /\ r < T
      BY <1>0, <2>2
    <3>2. resto = q * T + r
      BY <1>0, <2>2
    <3> HIDE DEF q, r
    <3> QED BY <3>1, <3>2 DEF Base, T
  <2>4. y \in Seq(Int) /\ m \in Nat /\ Len(y) = m
    <3> HIDE DEF r
    <3> QED BY <2>3
  <2>5. /\ s \in Seq(Int) /\ Len(s) = 1 + q + m /\ s[1] = x
        /\ \A k \in 1 .. q : s[1 + k] = T
        /\ \A k \in 1 .. m : s[1 + q + k] = y[k]
    <3>1. s = Une(x, q, T, y) /\ T \in Int
      BY <1>0 DEF Une
    <3> HIDE DEF s, x, q, y, m, T
    <3>2. Unidas(Une(x, q, T, y), x, q, T, y, m)
      BY <2>2, <2>3, <2>4, <3>1, Juntas
    <3>3. Unidas(s, x, q, T, y, m)
      BY <3>1, <3>2
    <3> QED BY <3>3 DEF Unidas
  <2> HIDE DEF s, x, q, resto, T
  <2> DEFINE n == 1 + q + m
             F == Tramos(desp, z, 0, n)
  <2>6. (m = 0 /\ r = 0) \/ (m = 1 /\ r > 0 /\ y = <<r>>)
    <3>1. r \in Nat
      BY <2>3
    <3>2. m = (IF r > 0 THEN 1 ELSE 0) /\ y = (IF r > 0 THEN <<r>> ELSE << >>)
      OBVIOUS
    <3> HIDE DEF r, m, y
    <3>3. CASE r > 0
      BY <3>2, <3>3
    <3>4. CASE r = 0
      <4>1. ~ (r > 0)
        BY <3>4
      <4> QED BY <3>2, <3>4, <4>1
    <3> QED BY <3>1, <3>3, <3>4
  <2>7. /\ \A k \in Nat : Base(k) \in Nat
        /\ \A k \in Nat : Base(k + 1) = Base(k) + T
    BY BaseDa DEF T
  <2> HIDE DEF r, y, m
  <2>8. z = Base(1 + q) + r /\ Base(q) \in Nat
    <3>1. Base(q + 1) = Base(q) + T /\ q + 1 = 1 + q /\ Base(q) \in Nat
      BY <2>3, <2>7
    <3> QED BY <1>0, <2>2, <2>3, <3>1
  <2>9. n \in Nat /\ n > 0 /\ EnPaginas(desp, z, 0, n)
    <3>1. n \in Nat /\ n > 0 /\ 0 + n = n
      BY <2>3, <2>6
    <3>2. z > desp
      BY <1>0, <2>2
    <3>3. Base(n) >= z /\ z > Base(n) - T
      <4>1. CASE m = 0 /\ r = 0
        <5>1. n = 1 + q
          BY <2>3, <4>1
        <5>2. Base(1 + q) \in Nat
          BY <2>3, <2>7
        <5> HIDE DEF n, z
        <5> QED BY <1>0, <2>8, <4>1, <5>1, <5>2
      <4>2. CASE m = 1 /\ r > 0
        <5>1. n = (1 + q) + 1 /\ 1 + q \in Nat
          BY <2>3, <4>2
        <5>2. Base((1 + q) + 1) = Base(1 + q) + T /\ Base(1 + q) \in Nat
          BY <2>7, <5>1
        <5> HIDE DEF n, z
        <5> QED BY <1>0, <2>3, <2>8, <4>2, <5>1, <5>2
      <4> QED BY <2>6, <4>1, <4>2
    <3>4. Base(0) <= desp /\ desp < Base(0) + TamPagina
      BY <1>0, <1>b DEF T
    <3> HIDE DEF n
    <3> QED BY <3>1, <3>2, <3>3, <3>4 DEF EnPaginas, T
  <2>10. Cortes(desp, z) = F
    <3> HIDE DEF n, z
    <3> QED BY <1>0, <2>9, CortesSon
  <2>11. ASSUME NEW k \in 1 .. n
         PROVE  s[k] = Menor(z, Base(k)) - Mayor(desp, Base(k - 1))
    <3>1. CASE k = 1
      <4>1. Menor(z, T) = T
        BY <1>0, <2>2 DEF Menor
      <4>2. Mayor(desp, 0) = desp
        BY <1>0 DEF Mayor
      <4> QED BY <1>b, <2>5, <3>1, <4>1, <4>2 DEF x
    <3>2. CASE k \in 2 .. 1 + q
      <4>1. k - 1 \in 1 .. q /\ 1 + (k - 1) = k /\ k - 1 \in Nat /\ (k - 1) + 1 = k /\ 1 <= k - 1
            /\ k \in Nat /\ k <= 1 + q /\ 1 + q \in Nat
        BY <2>3, <3>2
      <4>2. s[k] = T
        BY <2>5, <4>1
      <4>3. Base(k) = Base(k - 1) + T /\ Base(k - 1) \in Nat /\ Base(1) <= Base(k - 1)
            /\ Base(k) <= Base(1 + q) /\ Base(1 + q) \in Nat
        BY <2>7, <4>1, BaseCrece
      <4>4. Mayor(desp, Base(k - 1)) = Base(k - 1)
        BY <1>0, <1>b, <4>3 DEF Mayor
      <4>5. Menor(z, Base(k)) = Base(k)
        <5>1. Base(k) <= z /\ Base(k) \in Nat
          BY <1>0, <2>3, <2>8, <4>3
        <5> HIDE DEF z
        <5> QED BY <1>0, <5>1 DEF Menor
      <4> QED BY <1>0, <4>2, <4>3, <4>4, <4>5
    <3>3. CASE k = q + 2
      <4>1. m = 1 /\ r > 0 /\ y = <<r>>
        BY <2>3, <2>6, <3>3
      <4>2. k = 1 + q + 1 /\ k - 1 = 1 + q /\ 1 \in 1 .. m /\ 1 + q \in Nat /\ (1 + q) + 1 = k
            /\ 1 <= 1 + q
        BY <2>3, <3>3, <4>1
      <4>3. s[k] = r
        BY <2>5, <4>1, <4>2
      <4>4. Base(k) = Base(1 + q) + T /\ Base(1 + q) \in Nat /\ Base(1) <= Base(1 + q)
        BY <2>7, <4>2, BaseCrece
      <4>5. Mayor(desp, Base(k - 1)) = Base(1 + q)
        BY <1>0, <1>b, <4>2, <4>4 DEF Mayor
      <4>6. Menor(z, Base(k)) = z
        <5>1. z < Base(k) /\ Base(k) \in Nat
          BY <1>0, <2>3, <2>8, <4>4
        <5> HIDE DEF z
        <5> QED BY <1>0, <5>1 DEF Menor
      <4>7. z - Base(1 + q) = r
        BY <2>3, <2>8, <4>4
      <4> QED BY <4>3, <4>5, <4>6, <4>7
    <3>4. k = 1 \/ k \in 2 .. 1 + q \/ k = q + 2
      BY <2>3, <2>6
    <3> QED BY <3>1, <3>2, <3>3, <3>4
  <2>12. s = F
    <3>1. s = [k \in 1 .. n |-> s[k]]
      <4>1. s \in Seq(Int) /\ Len(s) = n => s = [k \in 1 .. n |-> s[k]]
        <5> HIDE DEF n
        <5> QED OBVIOUS
      <4> QED BY <2>5, <4>1
    <3>2. F = [k \in 1 .. n |-> Menor(z, Base(k)) - Mayor(desp, Base(k - 1))]
      <4>1. \A k \in 1 .. n : 0 + k = k /\ 0 + k - 1 = k - 1
        BY <2>9
      <4> HIDE DEF n, z
      <4> QED BY <4>1 DEF Tramos
    <3> HIDE DEF n, z, F
    <3> QED BY <2>11, <3>1, <3>2
  <2>13. tam # 0
    BY <1>0, <1>2
  <2> QED
    BY <2>1, <2>10, <2>12, <2>13
<1> QED
  BY <1>1, <1>2

\* A multiple of the size of a block is past those of fewer blocks.
LEMMA BloqueCrece ==
  ASSUME NEW j \in Nat, NEW k \in Nat, j <= k
  PROVE  j * BLOCK_SIZE \in Nat /\ k * BLOCK_SIZE \in Nat /\ j * BLOCK_SIZE <= k * BLOCK_SIZE
<1> DEFINE B == BLOCK_SIZE
<1>1. B \in Nat
  BY DialFsAssumption
<1> HIDE DEF B
<1>2. PICK d \in Nat : k = j + d
  <2>1. k - j \in Nat /\ k = j + (k - j)
    OBVIOUS
  <2> QED BY <2>1
<1>3. d * B \in Nat /\ j * B \in Nat /\ k * B = j * B + d * B
  BY <1>1, <1>2
<1>4. j * B <= k * B /\ k * B \in Nat
  BY <1>3
<1> QED
  BY <1>3, <1>4 DEF B

\* The block of a byte, from the start of the disk.
LEMMA BloqueDa ==
  ASSUME NEW b \in Nat
  PROVE  /\ b \div BLOCK_SIZE \in Nat
         /\ (b \div BLOCK_SIZE) * BLOCK_SIZE <= b
         /\ b < (b \div BLOCK_SIZE) * BLOCK_SIZE + BLOCK_SIZE
<1> DEFINE B == BLOCK_SIZE
<1>1. B \in Nat /\ B > 0
  BY DialFsAssumption
<1> HIDE DEF B
<1>2. b \div B \in Nat /\ (b \div B) * B <= b /\ b < (b \div B) * B + B
  BY <1>1
<1> QED
  BY <1>2 DEF B

\* A byte of a file is in the blocks of the file.
LEMMA ByteEnArchivo ==
  ASSUME NEW ini \in Nat, NEW x \in Nat, NEW t \in Nat, x < t
  PROVE  (BLOCK_SIZE * ini + x) \div BLOCK_SIZE \in Rango(ini, Bloques(t))
<1> DEFINE B == BLOCK_SIZE
           b == B * ini + x
           u == t + B - 1
           q == x \div B
           m == u \div B
           k == b \div B
<1>1. B \in Nat /\ B > 0
  BY DialFsAssumption
<1>2. b \in Nat /\ u \in Nat /\ u = t + B - 1
  <2>1. B * ini \in Nat
    <3> HIDE DEF B
    <3> QED BY <1>1
  <2> HIDE DEF B
  <2> QED BY <1>1, <2>1
<1>3. /\ q \in Nat /\ q * B <= x /\ x < q * B + B
      /\ m \in Nat /\ m * B <= u /\ u < m * B + B
      /\ k \in Nat /\ k * B <= b /\ b < k * B + B
  BY <1>2, BloqueDa
<1>4. \A i, j \in Nat : i <= j => i * B \in Nat /\ j * B \in Nat /\ i * B <= j * B
  BY BloqueCrece
<1>5. b = ini * B + x /\ ini * B \in Nat
  <2>1. B * ini = ini * B /\ ini * B \in Nat
    <3> HIDE DEF B
    <3> QED BY <1>1
  <2> QED BY <2>1
<1>6. Bloques(t) = m
  BY DEF Bloques, Techo
<1>7. \A i \in Nat : (i + 1) * B = i * B + B
  <2> HIDE DEF B
  <2> QED BY <1>1
<1> HIDE DEF B, b, u, q, m, k
<1>8. q < m
  <2>1. SUFFICES ASSUME m <= q PROVE FALSE
    BY <1>3
  <2>2. m * B <= q * B /\ m * B \in Nat /\ q * B \in Nat
    BY <1>3, <1>4, <2>1
  <2> QED
    BY <1>1, <1>2, <1>3, <2>2
<1>9. ini <= k
  <2>1. SUFFICES ASSUME k + 1 <= ini PROVE FALSE
    BY <1>3
  <2>2. (k + 1) * B <= ini * B /\ (k + 1) * B = k * B + B /\ k * B \in Nat
    BY <1>3, <1>4, <1>7, <2>1
  <2> QED
    BY <1>1, <1>2, <1>3, <1>5, <2>2
<1>10. k <= ini + q
  <2>1. SUFFICES ASSUME ini + q + 1 <= k PROVE FALSE
    BY <1>3
  <2>2. (ini + q + 1) * B <= k * B /\ (ini + q + 1) * B \in Nat /\ k * B \in Nat
    BY <1>3, <1>4, <2>1
  <2>3. (ini + q + 1) * B = ini * B + q * B + B /\ q * B \in Nat
    BY <1>1, <1>3
  <2> QED
    BY <1>1, <1>2, <1>3, <1>5, <2>2, <2>3
<1>11. k \in ini .. ini + m - 1
  BY <1>3, <1>8, <1>9, <1>10
<1> QED
  BY <1>6, <1>11 DEF Rango, k, b, B

\* What is left of an access that is being done,
IResta ==
  op.en = "piezas" =>
    /\ op.desp \in Nat /\ op.tam \in Nat /\ op.pos \in Nat
    /\ \/ op.pos < op.tam /\ op.resta = Cortes(op.desp + op.pos, op.desp + op.tam)
       \/ op.pos = op.tam /\ op.resta \in {<< >>, <<0>>}

\* and where it is, if it is one to a file.
IDonde ==
  op.en = "piezas" /\ tipo = "DIALFS" =>
    \E f \in DOMAIN lista, x \in Nat :
      op.desde = BLOCK_SIZE * lista[f].inicial + x /\ x + op.tam <= lista[f].tam

IPiezas == IResta /\ IDonde

\* Nothing changes in what they name.
LEMMA PiezasIgual ==
  ASSUME IPiezas, op' = op, lista' = lista, tipo' = tipo
  PROVE  IPiezas'
BY DEF IPiezas, IResta, IDonde

\* There is no access.
LEMMA PiezasNada == op'.en # "piezas" => IPiezas'
BY DEF IPiezas, IResta, IDonde

\* An access begins, whole.
LEMMA TransfierePiezas ==
  ASSUME NEW desp \in 0 .. TamPagina - 1, NEW tam \in Nat, NEW desde, NEW hay,
         Transfiere(desp, tam, desde, hay)
  PROVE  IResta' /\ op'.desde = desde /\ op'.tam = tam /\ lista' = lista
<1>1. op' = Restan(desp, tam, Piezas(desp, tam), 0, desde, hay) /\ lista' = lista
  BY DEF Transfiere
<1>2. op'.en = "piezas" /\ op'.desp = desp /\ op'.tam = tam /\ op'.pos = 0 /\ op'.desde = desde
      /\ op'.resta = Piezas(desp, tam)
  BY <1>1 DEF Restan
<1>3. desp \in Nat /\ desp + 0 = desp
  BY BaseDa
<1>4. \/ op'.pos < op'.tam /\ op'.resta = Cortes(op'.desp + op'.pos, op'.desp + op'.tam)
      \/ op'.pos = op'.tam /\ op'.resta \in {<< >>, <<0>>}
  <2>1. CASE tam > 0
    <3>1. op'.resta = Cortes(desp, desp + tam)
      BY <1>2, <2>1, PiezasSon
    <3> QED BY <1>2, <1>3, <2>1, <3>1
  <2>2. CASE tam = 0
    <3>1. op'.resta = <<0>>
      BY <1>2, <2>2, PiezasSon
    <3> QED BY <1>2, <2>2, <3>1
  <2> QED BY <2>1, <2>2
<1>5. op'.desp \in Nat /\ op'.tam \in Nat /\ op'.pos \in Nat
  BY <1>2, <1>3
<1>6. IResta'
  BY <1>4, <1>5 DEF IResta
<1> QED
  BY <1>1, <1>2, <1>6

\* What an interface begins.
LEMMA EmpiezaPiezas ==
  ASSUME IDisco, Empieza, tipo' = tipo
  PROVE  IPiezas'
<1>0. Tamanios \subseteq Nat
  BY InterfazAssumption
<1>1. CASE op'.en # "piezas"
  BY <1>1, PiezasNada
<1>2. ASSUME NEW f, Crea(f) \/ Borra(f)
      PROVE  op'.en # "piezas"
  BY <1>2 DEF Crea, Creando, Borra, Muere, Caida
<1>3. ASSUME NEW f, NEW t, Trunca(f, t)
      PROVE  op'.en # "piezas"
  <2>1. \A d, s : Mueve(f, d, s) => op'.en # "piezas"
    BY DEF Mueve, Muere, Caida
  <2>2. PICK d, l, q : \/ op' \in {Responde, Caida, Cambia("tamanio", f, t, l), Cambia("agrega", f, t, l)}
                       \/ op' = Acerca(f, t, l, q)
                       \/ Mueve(f, d, Cambia("agrega", f, t, l))
    BY <1>3 DEF Trunca, Muere
  <2> QED
    BY <2>1, <2>2 DEF Responde, Caida, Cambia, Acerca
<1>4. CASE tipo = "GENERICA"
  BY <1>1, <1>4 DEF Empieza, Responde
<1>5. CASE tipo \in {"STDIN", "STDOUT"}
  <2>1. PICK desp \in 0 .. TamPagina - 1, tam \in Tamanios :
          \E hay \in IF tipo = "STDIN" THEN Entradas ELSE {tam} : Transfiere(desp, tam, 0, hay)
    BY <1>5 DEF Empieza
  <2>2. IResta'
    BY <1>0, <2>1, TransfierePiezas
  <2>3. tipo' # "DIALFS"
    BY <1>5
  <2> QED
    BY <2>2, <2>3 DEF IPiezas, IDonde
<1>6. CASE tipo = "DIALFS"
  <2>1. ASSUME NEW f, NEW desp \in 0 .. TamPagina - 1, NEW t \in Tamanios, NEW x \in {0, 1},
               Accede(f, desp, t, x)
        PROVE  IPiezas'
    <3>1. CASE Muere
      BY <1>1, <3>1 DEF Muere, Caida
    <3>2. CASE Hay(f) /\ x + t <= lista[f].tam
               /\ Transfiere(desp, t, BLOCK_SIZE * lista[f].inicial + x, t)
      <4>1. IResta' /\ op'.desde = BLOCK_SIZE * lista[f].inicial + x /\ op'.tam = t /\ lista' = lista
        BY <1>0, <3>2, TransfierePiezas
      <4>2. f \in DOMAIN lista' /\ x \in Nat
        BY <3>2, <4>1 DEF Hay
      <4>3. op'.desde = BLOCK_SIZE * lista'[f].inicial + x /\ x + op'.tam <= lista'[f].tam
        BY <3>2, <4>1
      <4> QED
        BY <4>1, <4>2, <4>3 DEF IPiezas, IDonde
    <3> QED
      BY <2>1, <3>1, <3>2 DEF Accede
  <2> QED
    BY <1>1, <1>2, <1>3, <1>6, <2>1 DEF Empieza
<1> QED
  BY <1>4, <1>5, <1>6 DEF Empieza

\* A piece less.
LEMMA PiezaPiezas ==
  ASSUME IPiezas, Pieza, ~ Muere
  PROVE  IPiezas'
<1>1. op.en = "piezas" /\ op.resta # << >> /\ lista' = lista /\ tipo' = tipo
      /\ op' = Restan(op.desp, op.tam, Tail(op.resta), op.pos + Head(op.resta), op.desde, op.hay)
  BY DEF Pieza
<1>2. op'.en = "piezas" /\ op'.desp = op.desp /\ op'.tam = op.tam /\ op'.resta = Tail(op.resta)
      /\ op'.pos = op.pos + Head(op.resta) /\ op'.desde = op.desde
  BY <1>1 DEF Restan
<1>3. IDonde'
  BY <1>1, <1>2 DEF IPiezas, IDonde
<1> DEFINE a == op.desp + op.pos
           z == op.desp + op.tam
<1>4. op.desp \in Nat /\ op.tam \in Nat /\ op.pos \in Nat
  BY <1>1 DEF IPiezas, IResta
<1>5. CASE op.pos < op.tam
  <2>1. a \in Nat /\ z \in Nat /\ a < z /\ op.resta = Cortes(a, z)
    BY <1>1, <1>4, <1>5 DEF IPiezas, IResta
  <2>2. PICK h \in Nat \ {0} :
          /\ Head(Cortes(a, z)) = h /\ a + h <= z
          /\ Tail(Cortes(a, z)) = IF a + h < z THEN Cortes(a + h, z) ELSE << >>
    <3> HIDE DEF a, z
    <3> QED BY <2>1, QuitaCorte
  <2>3. op'.pos = op.pos + h
    BY <1>2, <2>1, <2>2
  <2>4. op'.desp + op'.pos = a + h /\ op'.desp + op'.tam = z
    BY <1>2, <1>4, <2>3
  <2>5. CASE a + h < z
    <3>1. op'.resta = Cortes(a + h, z)
      BY <1>2, <2>1, <2>2, <2>5
    <3>2. op'.pos < op'.tam /\ op'.pos \in Nat
      BY <1>2, <1>4, <2>3, <2>5
    <3>3. IResta'
      BY <1>2, <1>4, <2>4, <3>1, <3>2 DEF IResta
    <3> QED BY <1>3, <3>3 DEF IPiezas
  <2>6. CASE ~ (a + h < z)
    <3>1. op'.resta = << >>
      BY <1>2, <2>1, <2>2, <2>6
    <3>2. op'.pos = op'.tam /\ op'.pos \in Nat
      <4>0. a = op.desp + op.pos /\ z = op.desp + op.tam
        OBVIOUS
      <4>1. a + h = z
        <5>1. a \in Nat /\ h \in Nat /\ z \in Nat /\ a + h <= z
          BY <2>1, <2>2
        <5> HIDE DEF a, z
        <5> QED BY <2>6, <5>1
      <4> HIDE DEF a, z
      <4>2. op.pos + h = op.tam
        BY <1>4, <4>0, <4>1
      <4> QED BY <1>2, <1>4, <2>3, <4>2
    <3>3. IResta'
      BY <1>2, <1>4, <3>1, <3>2 DEF IResta
    <3> QED BY <1>3, <3>3 DEF IPiezas
  <2> QED
    BY <2>5, <2>6
<1>6. CASE ~ (op.pos < op.tam)
  <2>1. op.pos = op.tam /\ op.resta = <<0>>
    BY <1>1, <1>6 DEF IPiezas, IResta
  <2>2. Head(<<0>>) = 0 /\ Tail(<<0>>) = << >>
    OBVIOUS
  <2>3. op'.pos = op'.tam /\ op'.resta = << >> /\ op'.pos \in Nat
    BY <1>2, <1>4, <2>1, <2>2
  <2>4. IResta'
    BY <1>2, <1>4, <2>3 DEF IResta
  <2> QED BY <1>3, <2>4 DEF IPiezas
<1> QED
  BY <1>5, <1>6

\* Each step of the system.
LEMMA PasoPiezas ==
  ASSUME IDisco, IPiezas, [Next]_vars
  PROVE  IPiezas'
<1>1. CASE UNCHANGED <<op, lista, tipo>>
  BY <1>1, PiezasIgual
<1>2. CASE op'.en # "piezas"
  BY <1>2, PiezasNada
<1>3. CASE Muere
  BY <1>2, <1>3 DEF Muere, Caida
<1>4. CASE InterfazRecibe
  <2>1. tipo' = tipo
    BY <1>4 DEF InterfazRecibe
  <2>2. CASE Empieza
    BY <2>1, <2>2, EmpiezaPiezas
  <2>3. CASE op' = Responde
    BY <1>2, <2>3 DEF Responde
  <2> QED
    BY <1>4, <2>2, <2>3 DEF InterfazRecibe
<1>5. CASE Pieza
  BY <1>3, <1>5, PiezaPiezas
<1>6. CASE FinPiezas \/ InterfazResponde \/ Reinicia
  BY <1>2, <1>6 DEF FinPiezas, InterfazResponde, Reinicia, ArrancaDisco, Responde, Reposo, Creando
<1>7. CASE PasoDisco
  <2>1. CASE MueveFcb
    <3>1. op'.en \in {"agrega", "detras", "empuja"}
      BY <2>1 DEF MueveFcb, IDisco, ITipoOp
    <3> QED BY <1>2, <3>1
  <2>2. CASE \/ CreaFcb \/ CreaInicial \/ CreaTamanio \/ BorraFcb \/ CompactaCuenta \/ Agrega
             \/ GuardaTamanio
    BY <1>2, <2>2 DEF CreaFcb, CreaInicial, CreaTamanio, Creando, BorraFcb, CompactaCuenta, Agrega,
                      GuardaTamanio, Responde, Empuja, Cambia
  <2>3. CASE CompactaDetras \/ CompactaDelante
    BY <1>2, <2>3 DEF CompactaDetras, CompactaDelante, Mueve, Muere, Caida, Acerca
  <2> QED
    BY <1>7, <2>1, <2>2, <2>3 DEF PasoDisco
<1>8. CASE Detiene
  BY <1>3, <1>8 DEF Detiene
<1>9. CASE PasoIo \/ (\E p \in Pids, conoce \in BOOLEAN : Bloquea(p, conoce)) \/ UNCHANGED vars
  BY <1>1, <1>9 DEF PasoIo, IoToma, IoRecibe, IoDesconexion, Bloquea, vars, discoVars
<1> QED
  BY <1>4, <1>5, <1>6, <1>7, <1>8, <1>9 DEF Next, PasoInterfaz

\* The invariant gives PiezasDelPedido.
LEMMA PiezasDa ==
  ASSUME IDisco, IPiezas
  PROVE  PiezasDelPedido
<1> SUFFICES ASSUME op.en = "piezas" PROVE PiezasDelPedido
  BY DEF PiezasDelPedido
<1>0. op.desp \in Nat /\ op.tam \in Nat /\ op.pos \in Nat
  BY DEF IPiezas, IResta
<1>1. IF op.pos < op.tam THEN op.resta = Cortes(op.desp + op.pos, op.desp + op.tam)
                         ELSE op.pos = op.tam /\ op.resta \in {<< >>, <<0>>}
  BY <1>0 DEF IPiezas, IResta
<1>2. ASSUME op.resta # << >>, tipo = "DIALFS"
      PROVE  \E k \in DOMAIN lista :
               \A i \in 0 .. Head(op.resta) - 1 :
                 (op.desde + op.pos + i) \div BLOCK_SIZE \in Extension(k)
  <2>1. PICK f \in DOMAIN lista, x \in Nat :
          op.desde = BLOCK_SIZE * lista[f].inicial + x /\ x + op.tam <= lista[f].tam
    BY <1>2 DEF IPiezas, IDonde
  <2>2. lista[f].inicial \in Nat /\ lista[f].tam \in Nat
    BY DEF IDisco, ITipoDatos, FCBs
  <2>3. Extension(f) = Rango(lista[f].inicial, Bloques(lista[f].tam))
    <3>1. Donde(f) = lista[f].inicial
      BY <2>2 DEF Donde
    <3>2. Cuantos(f) = Bloques(lista[f].tam)
      BY DEF Cuantos
    <3> QED BY <3>1, <3>2 DEF Extension
  <2>4. Head(op.resta) \in Nat /\ op.pos + Head(op.resta) <= op.tam
    <3>1. CASE op.pos < op.tam
      <4> DEFINE a == op.desp + op.pos
                 z == op.desp + op.tam
      <4>1. a \in Nat /\ z \in Nat /\ a < z /\ op.resta = Cortes(a, z)
        BY <1>0, <1>1, <3>1
      <4>2. PICK h \in Nat \ {0} : Head(Cortes(a, z)) = h /\ a + h <= z
        <5> HIDE DEF a, z
        <5> QED BY <4>1, QuitaCorte
      <4>3. Head(op.resta) = h
        BY <4>1, <4>2
      <4>4. op.pos + h <= op.tam
        BY <1>0, <4>2
      <4> QED BY <4>3, <4>4
    <3>2. CASE ~ (op.pos < op.tam)
      <4>1. op.resta = <<0>> /\ op.pos = op.tam
        BY <1>1, <1>2, <3>2
      <4>2. Head(<<0>>) = 0
        OBVIOUS
      <4> QED BY <1>0, <4>1, <4>2
    <3> QED BY <3>1, <3>2
  <2>5. ASSUME NEW i \in 0 .. Head(op.resta) - 1
        PROVE  (op.desde + op.pos + i) \div BLOCK_SIZE \in Extension(f)
    <3> DEFINE y == x + op.pos + i
    <3>1. y \in Nat /\ y < lista[f].tam
      BY <1>0, <2>1, <2>2, <2>4, <2>5
    <3>2. op.desde + op.pos + i = BLOCK_SIZE * lista[f].inicial + y
      <4> DEFINE b == BLOCK_SIZE * lista[f].inicial
      <4>1. b \in Int
        <5>1. \A j \in Nat : BLOCK_SIZE * j \in Int
          BY DialFsAssumption
        <5> QED BY <2>2, <5>1
      <4>2. op.desde = b + x
        BY <2>1
      <4> HIDE DEF b
      <4>3. op.desde + op.pos + i = b + y
        BY <1>0, <2>4, <4>1, <4>2
      <4> QED BY <4>3 DEF b
    <3> HIDE DEF y
    <3> QED
      BY <2>2, <2>3, <3>1, <3>2, ByteEnArchivo
  <2> QED
    BY <2>5
<1> QED
  BY <1>1, <1>2 DEF PiezasDelPedido

\* The pieces the CPU cuts an access into (obtener_dir_logicas) are, at every moment and for every
\* size of page, what the access still lacks page by page, and those of a file are inside its blocks:
\* PiezasDelPedido of the runs is this theorem.
THEOREM PiezasSiempreDelPedido == Spec => []PiezasDelPedido
<1>1. Init => IPiezas
  BY DEF Init, DiscoInit, Reposo, IPiezas, IResta, IDonde
<1>2. IDisco /\ IPiezas /\ [Next]_vars => IPiezas'
  BY PasoPiezas
<1>3. IDisco /\ IPiezas => PiezasDelPedido
  BY PiezasDa
<1> QED
  BY <1>1, <1>2, <1>3, DiscoInvariante, PTL DEF Spec
=============================================================================
