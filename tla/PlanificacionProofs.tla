------------------------ MODULE PlanificacionProofs ------------------------
(***************************************************************************)
(* Safety of Planificacion by counting, for every set of processes,        *)
(* programs and multiprogramming degree: the semaphores count the queues   *)
(* their threads take from, and a thread between the queue and the         *)
(* semaphore is charged for the difference, so that no thread takes from   *)
(* an empty queue (both algorithms).  Under FIFO the CPU is a turn that one*)
(* thread at a time has, and no ready process is forgotten.                *)
(***************************************************************************)
EXTENDS PlanificacionLugares

Cuenta == Tipos /\ ContReady

LEMMA HilosNombres ==
  "pasaje" \in Hilos /\ "execute" \in Hilos /\ "esperar" \in Hilos /\ "io" \in Hilos
BY DEF Hilos

\* What a step of one thread does to the labels.
LEMMA VaHilos ==
  ASSUME TypeHilos, NEW h \in Hilos, NEW a, NEW b, Va(h, a, b)
  PROVE  /\ hilo[h] = a /\ hilo'[h] = b
         /\ \A k \in Hilos \ {h} : hilo'[k] = hilo[k]
BY DEF TypeHilos, Va

\* A step of thread h that leaves the list, the counter and the side of
\* EntreListaYCont it is on alone.
LEMMA CuentaNeutro ==
  ASSUME Tipos, ContReady, NEW h \in Hilos, NEW a, NEW b, Va(h, a, b),
         UNCHANGED lista_ready, sem'["s_cont_ready"] = sem["s_cont_ready"],
         a \in EntreListaYCont <=> b \in EntreListaYCont
  PROVE  ContReady'
<1>1. TypeHilos
  BY DEF Tipos, TypeOK, TypeKernel
<1>2. \A k \in Hilos : hilo'[k] \in EntreListaYCont <=> hilo[k] \in EntreListaYCont
  BY <1>1, VaHilos
<1>. QED  BY <1>2, HilosNombres DEF ContReady, Debe

\* What a function of the threads adds up to.
Total(f) == f["pasaje"] + f["execute"] + f["esperar"] + f["io"]

\* Only one term of the sum differs after a step of thread h.
LEMMA CuentaPaso ==
  ASSUME NEW u \in [Hilos -> Int], NEW w \in [Hilos -> Int], NEW h \in Hilos,
         \A k \in Hilos \ {h} : w[k] = u[k]
  PROVE  /\ Total(u) \in Int /\ Total(w) \in Int
         /\ Total(w) - w[h] = Total(u) - u[h]
<1>. USE DEF Total
<1>0. Total(u) \in Int /\ Total(w) \in Int
  BY HilosNombres
<1>1. h = "pasaje" \/ h = "execute" \/ h = "esperar" \/ h = "io"
  BY DEF Hilos
<1>2. CASE h = "pasaje"
  BY <1>2, HilosNombres
<1>3. CASE h = "execute"
  BY <1>3, HilosNombres
<1>4. CASE h = "esperar"
  BY <1>4, HilosNombres
<1>5. CASE h = "io"
  BY <1>5, HilosNombres
<1>. QED  BY <1>0, <1>1, <1>2, <1>3, <1>4, <1>5

\* The types ContReady needs, before and after a step.
LEMMA CuentaTipos ==
  ASSUME Tipos, Tipos'
  PROVE  /\ TypeHilos
         /\ lista_ready \in Seq(Pids) /\ lista_ready' \in Seq(Pids)
         /\ sem \in [Semaforos -> Nat] /\ sem' \in [Semaforos -> Nat]
         /\ Len(lista_ready) \in Nat /\ sem["s_cont_ready"] \in Nat
         /\ Len(lista_ready') \in Nat /\ sem'["s_cont_ready"] \in Nat
<1>1. "s_cont_ready" \in Semaforos
  BY DEF Semaforos
<1>2. lista_ready' \in Seq(Pids) /\ sem' \in [Semaforos -> Nat]
  BY Zenon DEF Tipos, TypeOK, TypeKernel, TypeColas, TypeSem
<1>3. TypeHilos /\ lista_ready \in Seq(Pids) /\ sem \in [Semaforos -> Nat]
  BY Zenon DEF Tipos, TypeOK, TypeKernel, TypeColas, TypeSem
<1>. QED  BY <1>1, <1>2, <1>3

\* A step of thread h from a to b moves the sum of what the threads owe, and
\* with it ContReady, by its own term alone.
LEMMA CuentaTotal ==
  ASSUME Tipos, Tipos', ContReady, NEW h \in Hilos, NEW a, NEW b, Va(h, a, b)
  PROVE  \E x \in Int, y \in Int :
           /\ Len(lista_ready) = sem["s_cont_ready"] + x
           /\ y - Debe(b) = x - Debe(a)
           /\ Len(lista_ready') = sem'["s_cont_ready"] + y => ContReady'
<1>1. /\ TypeHilos
      /\ Len(lista_ready) \in Nat /\ sem["s_cont_ready"] \in Nat
      /\ Len(lista_ready') \in Nat /\ sem'["s_cont_ready"] \in Nat
  BY CuentaTipos
<1>2. /\ hilo[h] = a /\ hilo'[h] = b
      /\ \A k \in Hilos \ {h} : hilo'[k] = hilo[k]
  BY <1>1, VaHilos
<1>. DEFINE u == [k \in Hilos |-> Debe(hilo[k])]
            w == [k \in Hilos |-> Debe(hilo'[k])]
<1>3. /\ u \in [Hilos -> Int] /\ w \in [Hilos -> Int]
      /\ \A k \in Hilos \ {h} : w[k] = u[k]
      /\ u[h] = Debe(a) /\ w[h] = Debe(b)
  BY <1>2 DEF Debe
<1>4. Total(u) \in Int /\ Total(w) \in Int /\ Total(w) - w[h] = Total(u) - u[h]
  <2>. HIDE DEF u, w
  <2>. QED  BY <1>3, CuentaPaso
<1>5. Len(lista_ready) = sem["s_cont_ready"] + Total(u)
  BY <1>1, <1>4, HilosNombres DEF ContReady, Debe, Total
<1>6. Len(lista_ready') = sem'["s_cont_ready"] + Total(w) => ContReady'
  BY <1>1, <1>4, HilosNombres DEF ContReady, Debe, Total
<1>. HIDE DEF u, w
<1>. QED  BY <1>3, <1>4, <1>5, <1>6

\* The list, less its counter, less what one thread owes.
Balance(l, c, d) == l - c - d

\* A step of thread h that keeps the balance of the list, the counter and what
\* h owes keeps ContReady: a post or a wait on s_cont_ready, a process listed or
\* removed.
LEMMA CuentaMueve ==
  ASSUME Tipos, Tipos', ContReady, NEW h \in Hilos, NEW a, NEW b, Va(h, a, b),
         Balance(Len(lista_ready'), sem'["s_cont_ready"], Debe(b))
           = Balance(Len(lista_ready), sem["s_cont_ready"], Debe(a))
  PROVE  ContReady'
<1>1. /\ Len(lista_ready) \in Nat /\ sem["s_cont_ready"] \in Nat
      /\ Len(lista_ready') \in Nat /\ sem'["s_cont_ready"] \in Nat
  BY CuentaTipos
<1>2. PICK x \in Int, y \in Int :
           /\ Len(lista_ready) = sem["s_cont_ready"] + x
           /\ y - Debe(b) = x - Debe(a)
           /\ Len(lista_ready') = sem'["s_cont_ready"] + y => ContReady'
  BY CuentaTotal
<1>3. PICK d \in Int, e \in Int : d = Debe(a) /\ e = Debe(b)
  BY DEF Debe
<1>4. PICK l \in Nat, c \in Nat : l = Len(lista_ready) /\ c = sem["s_cont_ready"]
  BY <1>1
<1>5. PICK m \in Nat, n \in Nat : m = Len(lista_ready') /\ n = sem'["s_cont_ready"]
  BY <1>1
<1>6. m - n - e = l - c - d
  BY <1>3, <1>4, <1>5 DEF Balance
<1>7. l = c + x /\ y - e = x - d
  BY <1>2, <1>3, <1>4
<1>8. m = n + y
  BY <1>6, <1>7
<1>. QED  BY <1>2, <1>5, <1>8

-----------------------------------------------------------------------------
(* The kinds of step: one semaphore operation, one process listed, one     *)
(* process removed                                                         *)

\* A semaphore operation on any other semaphore.
LEMMA CuentaOtro ==
  ASSUME Tipos, ContReady, NEW h \in Hilos, NEW a, NEW b,
         NEW s \in Semaforos \ {"s_cont_ready"},
         Postea(h, a, s, b) \/ Espera(h, a, s, b),
         a \in EntreListaYCont <=> b \in EntreListaYCont
  PROVE  ContReady'
<1>1. sem \in [Semaforos -> Nat] /\ "s_cont_ready" \in Semaforos
  BY DEF Tipos, TypeOK, TypeKernel, TypeSem, Semaforos
<1>2. sem'["s_cont_ready"] = sem["s_cont_ready"]
  BY <1>1 DEF Postea, Espera, sem_post, sem_wait
<1>3. Va(h, a, b) /\ UNCHANGED lista_ready
  BY DEF Postea, Espera, colaVars
<1>. QED  BY <1>2, <1>3, CuentaNeutro

LEMMA CuentaPostea ==
  ASSUME Tipos, Tipos', ContReady, NEW h \in Hilos, NEW a \in EntreListaYCont, NEW b,
         b \notin EntreListaYCont, Postea(h, a, "s_cont_ready", b)
  PROVE  ContReady'
<1>1. /\ sem \in [Semaforos -> Nat] /\ "s_cont_ready" \in Semaforos
      /\ Len(lista_ready) \in Nat /\ sem["s_cont_ready"] \in Nat
  BY CuentaTipos DEF Semaforos
<1>2. sem'["s_cont_ready"] = sem["s_cont_ready"] + 1
  BY <1>1 DEF Postea, sem_post
<1>3. Va(h, a, b) /\ lista_ready' = lista_ready
  BY DEF Postea, colaVars
<1>4. Debe(a) = 1 /\ Debe(b) = 0
  BY DEF Debe
<1>5. Balance(Len(lista_ready'), sem'["s_cont_ready"], Debe(b))
        = Balance(Len(lista_ready), sem["s_cont_ready"], Debe(a))
  BY <1>1, <1>2, <1>3, <1>4 DEF Balance
<1>. QED  BY <1>3, <1>5, CuentaMueve

LEMMA CuentaEspera ==
  ASSUME Tipos, Tipos', ContReady, NEW h \in Hilos, NEW a, NEW b \in EntreListaYCont,
         a \notin EntreListaYCont, Espera(h, a, "s_cont_ready", b)
  PROVE  ContReady'
<1>1. /\ sem \in [Semaforos -> Nat] /\ "s_cont_ready" \in Semaforos
      /\ Len(lista_ready) \in Nat /\ sem["s_cont_ready"] \in Nat
  BY CuentaTipos DEF Semaforos
<1>2. sem'["s_cont_ready"] = sem["s_cont_ready"] - 1
  BY <1>1 DEF Espera, sem_wait
<1>3. Va(h, a, b) /\ lista_ready' = lista_ready
  BY DEF Espera, colaVars
<1>4. Debe(a) = 0 /\ Debe(b) = 1
  BY DEF Debe
<1>5. Balance(Len(lista_ready'), sem'["s_cont_ready"], Debe(b))
        = Balance(Len(lista_ready), sem["s_cont_ready"], Debe(a))
  BY <1>1, <1>2, <1>3, <1>4 DEF Balance
<1>. QED  BY <1>3, <1>5, CuentaMueve

LEMMA CuentaLista ==
  ASSUME Tipos, Tipos', ContReady, NEW h \in Hilos, NEW a \in ConProceso,
         NEW b \in EntreListaYCont, a \notin EntreListaYCont, Lista(h, a, b)
  PROVE  ContReady'
<1>1. Va(h, a, b) /\ lista_ready' = Append(lista_ready, mano[h]) /\ sem' = sem
  BY DEF Lista
<1>2. mano[h] \in Pids
  BY <1>1 DEF Va, Tipos, Manos
<1>3. Len(lista_ready') = Len(lista_ready) + 1
  BY <1>1, <1>2, CuentaTipos
<1>4. Debe(a) = 0 /\ Debe(b) = 1
  BY DEF Debe
<1>5. Len(lista_ready) \in Nat /\ sem["s_cont_ready"] \in Nat
  BY CuentaTipos
<1>6. Balance(Len(lista_ready'), sem'["s_cont_ready"], Debe(b))
        = Balance(Len(lista_ready), sem["s_cont_ready"], Debe(a))
  BY <1>1, <1>3, <1>4, <1>5 DEF Balance
<1>. QED  BY <1>1, <1>6, CuentaMueve

LEMMA CuentaSaca ==
  ASSUME Tipos, Tipos', ContReady, NEW a \in EntreListaYCont, NEW i, NEW b,
         b \notin EntreListaYCont, Saca(a, i, b)
  PROVE  ContReady'
<1>1. /\ Va("execute", a, b) /\ i \in DOMAIN lista_ready
      /\ lista_ready' = RemoveAt(lista_ready, i) /\ sem' = sem
  BY DEF Saca
<1>2. /\ lista_ready \in Seq(Pids)
      /\ Len(lista_ready) \in Nat /\ sem["s_cont_ready"] \in Nat
  BY CuentaTipos
<1>3. Len(lista_ready') = Len(lista_ready) - 1
  BY <1>1, <1>2, RemoveAtProps
<1>4. Debe(a) = 1 /\ Debe(b) = 0
  BY DEF Debe
<1>5. Balance(Len(lista_ready'), sem'["s_cont_ready"], Debe(b))
        = Balance(Len(lista_ready), sem["s_cont_ready"], Debe(a))
  BY <1>1, <1>2, <1>3, <1>4 DEF Balance
<1>. QED  BY <1>1, <1>5, HilosNombres, CuentaMueve

-----------------------------------------------------------------------------
(* One lemma per thread                                                    *)

\* A step that leaves every label, the list and the semaphores alone.
LEMMA CuentaAjeno ==
  ASSUME ContReady, UNCHANGED <<hilo, lista_ready>>,
         sem'["s_cont_ready"] = sem["s_cont_ready"]
  PROVE  ContReady'
BY DEF ContReady

LEMMA CuentaPasaje ==
  ASSUME Tipos, Tipos', ContReady, pasaje_a_ready
  PROVE  ContReady'
<1>e. /\ EntreListaYCont \cap EtiquetasPasaje = {"re", "cr"}
      /\ "listar" \in ConProceso /\ "pasaje" \in Hilos
      /\ {"s_pasaje_a_ready", "s_multiprogramacion_actual", "s_ready_execute"}
           \subseteq Semaforos \ {"s_cont_ready"}
  BY DEF EntreListaYCont, EtiquetasPasaje, ConProceso, Hilos, Semaforos
<1>1. CASE \/ Espera("pasaje", "pasaje", "s_pasaje_a_ready", "grado")
           \/ Espera("pasaje", "grado", "s_multiprogramacion_actual", "mirar")
           \/ Postea("pasaje", "re", "s_ready_execute", "cr")
  BY <1>1, <1>e, CuentaOtro DEF EtiquetasPasaje
<1>2. CASE PasajeMira \/ PasajeNew \/ PasajeSusp
  BY <1>2, <1>e, CuentaNeutro DEF PasajeMira, PasajeNew, PasajeSusp, colaVars, EtiquetasPasaje
<1>3. CASE Lista("pasaje", "listar", "re")
  BY <1>3, <1>e, CuentaLista DEF EtiquetasPasaje
<1>4. CASE Postea("pasaje", "cr", "s_cont_ready", "pasaje")
  BY <1>4, <1>e, CuentaPostea DEF EtiquetasPasaje
<1>. QED  BY <1>1, <1>2, <1>3, <1>4 DEF pasaje_a_ready

LEMMA CuentaExecute ==
  ASSUME Tipos, Tipos', ContReady, ready_execute
  PROVE  ContReady'
<1>e. /\ EntreListaYCont \cap EtiquetasExecute
           = {"f_sacar", "s_cpu", "s_marcar", "s_interrumpir", "s_esperar", "s_desmarcar", "s_elegir"}
      /\ "execute" \in Hilos
      /\ {"s_ready_execute", "s_cpu_desocupado", "s_esperar_cpu", "s_pcb_desalojado"}
           \subseteq Semaforos \ {"s_cont_ready"}
  BY DEF EntreListaYCont, EtiquetasExecute, EtiquetasFifo, EtiquetasSrt, Hilos, Semaforos
<1>. USE DEF EtiquetasExecute, EtiquetasFifo, EtiquetasSrt
<1>1. CASE \/ Espera("execute", "f_re", "s_ready_execute", "f_cpu")
           \/ Espera("execute", "f_cpu", "s_cpu_desocupado", "f_cr")
           \/ Postea("execute", "avisar", "s_esperar_cpu", "f_re")
  BY <1>1, <1>e, CuentaOtro
<1>2. CASE \/ Espera("execute", "s_tragar", "s_ready_execute", "s_re")
           \/ Espera("execute", "s_re", "s_ready_execute", "s_cr")
           \/ Espera("execute", "s_esperar", "s_pcb_desalojado", "s_desmarcar")
           \/ Postea("execute", "avisar", "s_esperar_cpu", "s_mirar")
  BY <1>2, <1>e, CuentaOtro
<1>3. CASE \/ Espera("execute", "f_cr", "s_cont_ready", "f_sacar")
           \/ Espera("execute", "s_cr", "s_cont_ready", "s_cpu")
  BY <1>3, <1>e, CuentaEspera
<1>4. CASE Saca("f_sacar", 1, "enviar") \/ SrtElige
  BY <1>4, <1>e, CuentaSaca DEF SrtElige
<1>5. CASE ExecuteEnvia \/ SrtMira \/ SrtOcupa
  BY <1>5, <1>e, CuentaNeutro DEF ExecuteEnvia, SrtMira, SrtSalta, SrtOcupa, colaVars
<1>6. CASE SrtCpu \/ SrtInterrumpe
  BY <1>6, <1>e, CuentaNeutro DEF SrtCpu, SrtSalta, SrtInterrumpe, colaVars
<1>7. CASE \/ SrtHayInterrupcion("s_marcar", TRUE, "s_interrumpir")
           \/ SrtHayInterrupcion("s_desmarcar", FALSE, "s_elegir")
  BY <1>7, <1>e, CuentaNeutro DEF SrtHayInterrupcion, colaVars
<1>8. CASE fifo_ready_execute
  BY <1>8, <1>1, <1>3, <1>4, <1>5 DEF fifo_ready_execute
<1>9. CASE srt_ready_execute
  BY <1>9, <1>2, <1>3, <1>4, <1>5, <1>6, <1>7 DEF srt_ready_execute
<1>. QED  BY <1>8, <1>9 DEF ready_execute

LEMMA CuentaEsperar ==
  ASSUME Tipos, Tipos', ContReady, esperar_cpu
  PROVE  ContReady'
<1>e. /\ EntreListaYCont \cap EtiquetasEsperar = {"i_cr"}
      /\ "i_listar" \in ConProceso /\ "esperar" \in Hilos
      /\ Semaforos \ {"s_cont_ready"} = {"s_pasaje_a_ready", "s_multiprogramacion_actual",
           "s_ready_execute", "s_cpu_desocupado", "s_esperar_cpu", "s_blocked", "s_pcb_desalojado"}
  BY DEF EntreListaYCont, EtiquetasEsperar, Retornos, EtiquetasExit, EtiquetasInterruption,
         EtiquetasBlocked, EtiquetasFin, ConProceso, Hilos, Semaforos
<1>r. Retornos \cap EntreListaYCont = {} /\ Retornos = {"EXIT", "INTERRUPTION", "BLOCKED"}
  BY DEF Retornos, EntreListaYCont
<1>f. {"esperar", "recv", "x_grado", "x_consola", "x_memoria", "i_listar", "i_cr",
       "i_desalojado", "b_listar", "b_hilo", "b_blocked", "fin_cpu", "fin_re",
       "fin_interrupcion"} \subseteq EtiquetasEsperar
  BY DEF EtiquetasEsperar, EtiquetasExit, EtiquetasInterruption, EtiquetasBlocked, EtiquetasFin
<1>1. CASE \/ Espera("esperar", "esperar", "s_esperar_cpu", "recv")
           \/ Postea("esperar", "x_grado", "s_multiprogramacion_actual", "x_memoria")
           \/ Postea("esperar", "i_desalojado", "s_pcb_desalojado", "esperar")
           \/ Postea("esperar", "b_blocked", "s_blocked", "fin_cpu")
           \/ Postea("esperar", "fin_cpu", "s_cpu_desocupado", "fin_re")
           \/ Postea("esperar", "fin_re", "s_ready_execute", "fin_interrupcion")
  BY <1>1, <1>e, <1>f, CuentaOtro
<1>2. CASE EsperarRecibe
  <2>1. Head(retorno)[1] \in Retornos
    BY <1>2, HeadTailProperties DEF EsperarRecibe, Tipos, TypeOK, TypeCanales
  <2>. QED  BY <1>2, <2>1, <1>e, <1>f, <1>r, CuentaNeutro DEF EsperarRecibe, colaVars
<1>3. CASE \/ EsperarLibera("EXIT", "x_consola") \/ EsperarLibera("INTERRUPTION", "i_listar")
           \/ EsperarLibera("BLOCKED", "b_listar")
  BY <1>3, <1>e, <1>f, <1>r, CuentaNeutro DEF EsperarLibera, colaVars
<1>4. CASE ExitConsola \/ ExitMemoria \/ BlockedLista \/ BlockedHilo
  BY <1>4, <1>e, <1>f, CuentaNeutro DEF ExitConsola, ExitMemoria, BlockedLista, BlockedHilo, colaVars
<1>5. CASE Lista("esperar", "i_listar", "i_cr")
  BY <1>5, <1>e, <1>f, CuentaLista
<1>6. CASE Postea("esperar", "i_cr", "s_cont_ready", "i_desalojado")
  BY <1>6, <1>e, <1>f, CuentaPostea
<1>7. CASE FinInterrupcion
  <2>0. sem \in [Semaforos -> Nat] /\ "s_cont_ready" \in Semaforos
    BY <1>e DEF Tipos, TypeOK, TypeKernel, TypeSem, Semaforos
  <2>1. sem'["s_cont_ready"] = sem["s_cont_ready"]
    BY <1>7, <2>0 DEF FinInterrupcion, sem_post
  <2>. QED  BY <1>7, <2>1, <1>e, <1>f, CuentaNeutro DEF FinInterrupcion, colaVars
<1>. QED  BY <1>1, <1>2, <1>3, <1>4, <1>5, <1>6, <1>7 DEF esperar_cpu

LEMMA CuentaIo ==
  ASSUME Tipos, Tipos', ContReady, ejecutar_io
  PROVE  ContReady'
<1>e. /\ EntreListaYCont \cap EtiquetasIo = {"io_re", "io_cr"}
      /\ "listo" \in ConProceso /\ "io" \in Hilos
      /\ {"s_blocked", "s_pasaje_a_ready", "s_ready_execute"} \subseteq Semaforos \ {"s_cont_ready"}
  BY DEF EntreListaYCont, EtiquetasIo, ConProceso, Hilos, Semaforos
<1>. USE DEF EtiquetasIo
<1>1. CASE \/ Espera("io", "blocked", "s_blocked", "tomar")
           \/ Postea("io", "io_pasaje", "s_pasaje_a_ready", "blocked")
           \/ Postea("io", "io_re", "s_ready_execute", "io_cr")
  BY <1>1, <1>e, CuentaOtro
<1>2. CASE IoToma \/ IoTermina \/ IoIteracion
  BY <1>2, <1>e, CuentaNeutro DEF IoToma, IoTermina, IoIteracion, colaVars
<1>3. CASE IoSuspendido \/ IoListo \/ IoEncola
  BY <1>3, <1>e, CuentaNeutro DEF IoSuspendido, IoListo, IoEncola, colaVars
<1>4. CASE Lista("io", "listo", "io_re")
  BY <1>4, <1>e, CuentaLista
<1>5. CASE Postea("io", "io_cr", "s_cont_ready", "blocked")
  BY <1>5, <1>e, CuentaPostea
<1>. QED  BY <1>1, <1>2, <1>3, <1>4, <1>5 DEF ejecutar_io

LEMMA CuentaConsola ==
  ASSUME Tipos, ContReady, NEW p \in Pids, procesar_socket(p)
  PROVE  ContReady'
<1>1. sem \in [Semaforos -> Nat] /\ "s_cont_ready" \in Semaforos
  BY DEF Tipos, TypeOK, TypeKernel, TypeSem, Semaforos
<1>2. CASE ConsolaEncola(p) \/ ConsolaSocket(p) \/ ConsolaIteracion(p)
  BY <1>2, CuentaAjeno DEF ConsolaEncola, ConsolaSocket, ConsolaIteracion, colaVars
<1>3. CASE ConsolaAvisa(p)
  BY <1>1, <1>3, CuentaAjeno DEF ConsolaAvisa, sem_post, colaVars
<1>. QED  BY <1>2, <1>3 DEF procesar_socket

LEMMA CuentaSuspendiendo ==
  ASSUME Tipos, ContReady, NEW v \in suspendiendo, hilo_suspendido(v)
  PROVE  ContReady'
<1>1. sem \in [Semaforos -> Nat] /\ "s_cont_ready" \in Semaforos
  BY DEF Tipos, TypeOK, TypeKernel, TypeSem, Semaforos
<1>2. CASE SuspendiendoArranca(v) \/ SuspendiendoDespierta(v)
  BY <1>2, CuentaAjeno DEF SuspendiendoArranca, SuspendiendoDespierta, colaVars
<1>3. CASE SuspendiendoSuelta(v)
  BY <1>1, <1>3, CuentaAjeno DEF SuspendiendoSuelta, sem_post, colaVars
<1>. QED  BY <1>2, <1>3 DEF hilo_suspendido

LEMMA CuentaNext == Cuenta /\ [Next]_vars => Cuenta'
<1>. SUFFICES ASSUME Tipos, ContReady, [Next]_vars PROVE Cuenta'
  BY DEF Cuenta
<1>1. Tipos'
  BY TiposNext
<1>2. ASSUME Kernel PROVE ContReady'
  <2>1. CASE \E p \in Pids : procesar_socket(p)
    BY <2>1, CuentaConsola
  <2>2. CASE \E v \in suspendiendo : hilo_suspendido(v)
    BY <2>2, CuentaSuspendiendo
  <2>. QED
    BY <1>1, <1>2, <2>1, <2>2, CuentaPasaje, CuentaExecute, CuentaEsperar, CuentaIo
    DEF Kernel, NextKernel
<1>3. ASSUME Cpu \/ MemoriaElimina \/ UNCHANGED vars PROVE ContReady'
  <2>1. UNCHANGED <<hilo, lista_ready, sem>>
    BY <1>3 DEF Cpu, MemoriaElimina, vars, kernelVars, colaVars
  <2>. QED  BY <2>1, CuentaAjeno
<1>4. Kernel \/ Cpu \/ MemoriaElimina \/ UNCHANGED vars
  BY DEF Next
<1>5. ContReady'
  BY <1>2, <1>3, <1>4
<1>. QED  BY <1>1, <1>5 DEF Cuenta

LEMMA CuentaInit == Init => Cuenta
<1>. SUFFICES ASSUME Init PROVE ContReady
  BY TiposInit DEF Cuenta
<1>1. Len(lista_ready) = 0 /\ sem["s_cont_ready"] = 0
  BY DEF Init, InitKernel, Semaforos
<1>2. \A h \in Hilos : hilo[h] \notin EntreListaYCont
  BY AlgoritmoAssumption DEF Init, InitKernel, EntreListaYCont, Hilos
<1>. QED  BY <1>1, <1>2, HilosNombres DEF ContReady, Debe

\* s_cont_ready counts the ready list, whatever the interleaving of the threads
\* that list processes, post, wait and remove, under both algorithms.
THEOREM ContReadyCorrecto == Spec => []ContReady
<1>1. Cuenta => ContReady
  BY DEF Cuenta
<1>. QED  BY <1>1, CuentaInit, CuentaNext, PTL DEF Spec

LEMMA CuentaReady == Cuenta => ReadyNoVacia
<1>. SUFFICES ASSUME Cuenta, hilo["execute"] \in {"f_sacar", "s_elegir"}
              PROVE  lista_ready # << >>
  BY DEF ReadyNoVacia
<1>1. /\ Len(lista_ready) = sem["s_cont_ready"] + Debe(hilo["pasaje"])
           + Debe(hilo["execute"]) + Debe(hilo["esperar"]) + Debe(hilo["io"])
      /\ sem["s_cont_ready"] \in Nat
  BY DEF Cuenta, ContReady, Tipos, TypeOK, TypeKernel, TypeSem, Semaforos
<1>2. Debe(hilo["execute"]) = 1
  BY DEF Debe, EntreListaYCont
<1>3. /\ Debe(hilo["pasaje"]) \in Nat /\ Debe(hilo["esperar"]) \in Nat
      /\ Debe(hilo["io"]) \in Nat
  BY DEF Debe
<1>. QED  BY <1>1, <1>2, <1>3

\* The short-term scheduler never takes a process from an empty ready list,
\* although it waits on the counter long before it locks the list.
THEOREM ReadyNuncaVacia == Spec => []ReadyNoVacia
BY CuentaReady, CuentaInit, CuentaNext, PTL DEF Spec

-----------------------------------------------------------------------------
(* No thread pops an empty queue                                           *)

\* s_blocked counts cola_blocked: it is short of it by the process being served
\* and by the one esperar_cpu has listed and not posted yet.
Bloqueada ==
  Len(cola_blocked) = sem["s_blocked"] + Uno(hilo["io"] \in {"tomar", "dormir"})
                        + Uno(hilo["esperar"] \in {"b_hilo", "b_blocked"})

\* The consoles that have queued their process and not posted yet.
Avisando == {p \in Pids : consola[p] \in {"sockets", "iteracion", "avisar"}}

\* s_pasaje_a_ready counts cola_new and cola_suspended_ready together.
EntreMiraYSaca == {"grado", "mirar", "new", "susp"}
Pendiente ==
  Len(cola_new) + Len(cola_suspended_ready)
    = sem["s_pasaje_a_ready"] + Uno(hilo["pasaje"] \in EntreMiraYSaca)
        + Cardinality(Avisando) + Uno(hilo["io"] = "io_pasaje")

\* The queue pasaje_a_ready has decided to pop has something in it.
Mirada ==
  /\ hilo["pasaje"] = "new" => cola_new # << >>
  /\ hilo["pasaje"] = "susp" => cola_suspended_ready # << >>

Colas == Cuenta /\ Bloqueada /\ Pendiente /\ Mirada

LEMMA ColasTipos ==
  ASSUME Tipos
  PROVE  /\ sem \in [Semaforos -> Nat] /\ hilo \in [Hilos -> Etiquetas]
         /\ sem["s_blocked"] \in Nat /\ sem["s_pasaje_a_ready"] \in Nat
         /\ cola_new \in Seq(Pids) /\ cola_blocked \in Seq(Pids)
         /\ cola_suspended_ready \in Seq(Pids)
         /\ Len(cola_new) \in Nat /\ Len(cola_blocked) \in Nat /\ Len(cola_suspended_ready) \in Nat
         /\ IsFiniteSet(Avisando) /\ Cardinality(Avisando) \in Nat
<1>1. IsFiniteSet(Avisando) /\ Cardinality(Avisando) \in Nat
  BY PidsAssumption, FS_Subset, FS_CardinalityType DEF Avisando
<1>2. /\ sem \in [Semaforos -> Nat] /\ hilo \in [Hilos -> Etiquetas]
      /\ cola_new \in Seq(Pids) /\ cola_blocked \in Seq(Pids)
      /\ cola_suspended_ready \in Seq(Pids)
  BY DEF Tipos, TypeOK, TypeKernel, TypeSem, TypeHilos, TypeColas
<1>. QED  BY <1>1, <1>2, Nombres

\* A step that leaves alone what the three counts are about.
LEMMA ColasAjeno ==
  ASSUME Bloqueada, Pendiente, Mirada,
         UNCHANGED <<cola_blocked, cola_new, cola_suspended_ready, consola>>,
         \A s \in {"s_blocked", "s_pasaje_a_ready"} : sem'[s] = sem[s],
         \A h \in {"pasaje", "io"} : hilo'[h] = hilo[h],
         hilo'["esperar"] \in {"b_hilo", "b_blocked"} <=> hilo["esperar"] \in {"b_hilo", "b_blocked"}
  PROVE  Bloqueada' /\ Pendiente' /\ Mirada'
<1>1. Avisando' = Avisando
  BY DEF Avisando
<1>. QED  BY <1>1 DEF Bloqueada, Pendiente, Mirada, Uno

LEMMA ColasPasaje ==
  ASSUME Tipos, Bloqueada, Pendiente, Mirada, pasaje_a_ready
  PROVE  Bloqueada' /\ Pendiente' /\ Mirada'
<1>0. /\ sem \in [Semaforos -> Nat] /\ hilo \in [Hilos -> Etiquetas] /\ "pasaje" \in Hilos
      /\ sem["s_pasaje_a_ready"] \in Nat /\ Cardinality(Avisando) \in Nat
      /\ cola_new \in Seq(Pids) /\ cola_suspended_ready \in Seq(Pids)
      /\ Len(cola_new) \in Nat /\ Len(cola_suspended_ready) \in Nat
      /\ {"s_blocked", "s_pasaje_a_ready", "s_ready_execute", "s_cont_ready",
          "s_multiprogramacion_actual"} \subseteq Semaforos
      /\ {"io", "esperar"} \subseteq Hilos \ {"pasaje"}
  BY ColasTipos DEF Hilos, Semaforos
<1>1. \A h \in {"io", "esperar"} : hilo'[h] = hilo[h]
  BY <1>0 DEF pasaje_a_ready, Espera, Postea, PasajeMira, PasajeNew, PasajeSusp, Lista, Va
<1>2. UNCHANGED <<cola_blocked, consola>> /\ Avisando' = Avisando
  BY DEF pasaje_a_ready, Espera, Postea, PasajeMira, PasajeNew, PasajeSusp, Lista, colaVars,
     registroVars, Avisando
<1>3. sem'["s_blocked"] = sem["s_blocked"]
  BY <1>0 DEF pasaje_a_ready, Espera, Postea, PasajeMira, PasajeNew, PasajeSusp, Lista,
     sem_post, sem_wait
<1>4. Bloqueada'
  BY <1>1, <1>2, <1>3 DEF Bloqueada
<1>. DEFINE l == Len(cola_new)
            m == Len(cola_suspended_ready)
            s == sem["s_pasaje_a_ready"]
            d == Uno(hilo["pasaje"] \in EntreMiraYSaca)
            c == Cardinality(Avisando)
            i == Uno(hilo["io"] = "io_pasaje")
<1>5. l + m = s + d + c + i
  BY DEF Pendiente
<1>6. l \in Nat /\ m \in Nat /\ s \in Nat /\ d \in {0, 1} /\ c \in Nat /\ i \in {0, 1}
  BY <1>0 DEF Uno
<1>p. l' + m' = s' + d' + c + i => Pendiente'
  <2>1. hilo'["io"] = hilo["io"]
    BY <1>1
  <2>2. Uno(hilo["io"] = "io_pasaje")' = i
    BY <2>1 DEF Uno
  <2>. QED  BY <1>2, <2>2 DEF Pendiente
<1>. HIDE DEF c, i
<1>7. CASE Espera("pasaje", "pasaje", "s_pasaje_a_ready", "grado")
  <2>1. /\ hilo["pasaje"] = "pasaje" /\ hilo'["pasaje"] = "grado"
        /\ sem["s_pasaje_a_ready"] > 0
        /\ sem'["s_pasaje_a_ready"] = sem["s_pasaje_a_ready"] - 1
        /\ cola_new' = cola_new /\ cola_suspended_ready' = cola_suspended_ready
    BY <1>0, <1>7 DEF Espera, Va, sem_wait, colaVars
  <2>. QED  BY <1>4, <1>5, <1>6, <1>p, <2>1 DEF Mirada, Uno, EntreMiraYSaca
<1>8. CASE Espera("pasaje", "grado", "s_multiprogramacion_actual", "mirar")
  <2>1. /\ hilo["pasaje"] = "grado" /\ hilo'["pasaje"] = "mirar"
        /\ sem'["s_pasaje_a_ready"] = sem["s_pasaje_a_ready"]
        /\ cola_new' = cola_new /\ cola_suspended_ready' = cola_suspended_ready
    BY <1>0, <1>8 DEF Espera, Va, sem_wait, colaVars
  <2>. QED  BY <1>4, <1>5, <1>6, <1>p, <2>1 DEF Mirada, Uno, EntreMiraYSaca
<1>9. CASE PasajeMira
  <2>1. /\ hilo["pasaje"] = "mirar"
        /\ hilo'["pasaje"] = IF cola_suspended_ready = << >> THEN "new" ELSE "susp"
        /\ sem'["s_pasaje_a_ready"] = sem["s_pasaje_a_ready"]
        /\ cola_new' = cola_new /\ cola_suspended_ready' = cola_suspended_ready
    BY <1>0, <1>9 DEF PasajeMira, Va, colaVars
  <2>2. l + m > 0
    BY <1>5, <1>6, <2>1 DEF Uno, EntreMiraYSaca
  <2>3. cola_suspended_ready = << >> => cola_new # << >>
    BY <1>0, <2>2
  <2>4. Pendiente'
    BY <1>5, <1>6, <1>p, <2>1 DEF Uno, EntreMiraYSaca
  <2>. QED  BY <1>4, <2>1, <2>3, <2>4 DEF Mirada
<1>10. CASE PasajeNew
  <2>1. /\ hilo["pasaje"] = "new" /\ hilo'["pasaje"] = "listar" /\ cola_new # << >>
        /\ sem'["s_pasaje_a_ready"] = sem["s_pasaje_a_ready"]
        /\ cola_new' = Tail(cola_new) /\ cola_suspended_ready' = cola_suspended_ready
    BY <1>0, <1>10 DEF PasajeNew, Va
  <2>2. Len(cola_new') = Len(cola_new) - 1
    BY <1>0, <2>1, ListaPrimero
  <2>3. d = 1 /\ d' = 0 /\ l' + m' = l + m - 1
    BY <1>6, <2>1, <2>2 DEF Uno, EntreMiraYSaca
  <2>. HIDE DEF d, l, m
  <2>4. Pendiente'
    BY <1>5, <1>6, <1>p, <2>1, <2>3, SMTT(60)
  <2>. QED  BY <1>4, <2>1, <2>4 DEF Mirada
<1>11. CASE PasajeSusp
  <2>1. /\ hilo["pasaje"] = "susp" /\ hilo'["pasaje"] = "listar" /\ cola_suspended_ready # << >>
        /\ sem'["s_pasaje_a_ready"] = sem["s_pasaje_a_ready"]
        /\ cola_new' = cola_new /\ cola_suspended_ready' = Tail(cola_suspended_ready)
    BY <1>0, <1>11 DEF PasajeSusp, Va
  <2>2. Len(cola_suspended_ready') = Len(cola_suspended_ready) - 1
    BY <1>0, <2>1, ListaPrimero
  <2>3. d = 1 /\ d' = 0 /\ l' + m' = l + m - 1
    BY <1>6, <2>1, <2>2 DEF Uno, EntreMiraYSaca
  <2>. HIDE DEF d, l, m
  <2>4. Pendiente'
    BY <1>5, <1>6, <1>p, <2>1, <2>3, SMTT(60)
  <2>. QED  BY <1>4, <2>1, <2>4 DEF Mirada
<1>12. CASE \/ Lista("pasaje", "listar", "re") \/ Postea("pasaje", "re", "s_ready_execute", "cr")
            \/ Postea("pasaje", "cr", "s_cont_ready", "pasaje")
  <2>1. /\ hilo["pasaje"] \in {"listar", "re", "cr"} /\ hilo'["pasaje"] \in {"re", "cr", "pasaje"}
        /\ sem'["s_pasaje_a_ready"] = sem["s_pasaje_a_ready"]
        /\ cola_new' = cola_new /\ cola_suspended_ready' = cola_suspended_ready
    BY <1>0, <1>12 DEF Lista, Postea, Va, sem_post, colaVars
  <2>. QED  BY <1>4, <1>5, <1>6, <1>p, <2>1 DEF Mirada, Uno, EntreMiraYSaca
<1>. QED  BY <1>7, <1>8, <1>9, <1>10, <1>11, <1>12 DEF pasaje_a_ready

LEMMA ColasExecute ==
  ASSUME Tipos, Bloqueada, Pendiente, Mirada, ready_execute
  PROVE  Bloqueada' /\ Pendiente' /\ Mirada'
<1>0. /\ sem \in [Semaforos -> Nat] /\ hilo \in [Hilos -> Etiquetas]
      /\ Semaforos \ {"s_blocked", "s_pasaje_a_ready"} = {"s_multiprogramacion_actual",
           "s_ready_execute", "s_cont_ready", "s_cpu_desocupado", "s_esperar_cpu", "s_pcb_desalojado"}
      /\ {"s_blocked", "s_pasaje_a_ready"} \subseteq Semaforos
      /\ "execute" \in Hilos /\ Hilos \ {"execute"} = {"pasaje", "esperar", "io"}
  BY ColasTipos DEF Hilos, Semaforos
<1>1. UNCHANGED <<cola_blocked, cola_new, cola_suspended_ready, consola>>
  BY DEF ready_execute, fifo_ready_execute, srt_ready_execute, Espera, Postea, Saca, ExecuteEnvia,
     SrtElige, SrtSalta, SrtHayInterrupcion, SrtMira, SrtCpu, SrtInterrumpe, SrtOcupa,
     colaVars, registroVars
<1>2. \A h \in {"pasaje", "esperar", "io"} : hilo'[h] = hilo[h]
  BY <1>0 DEF ready_execute, fifo_ready_execute, srt_ready_execute, Espera, Postea, Saca,
     ExecuteEnvia, SrtElige, SrtSalta, SrtHayInterrupcion, SrtMira, SrtCpu, SrtInterrumpe, SrtOcupa, Va
<1>3. \A s \in {"s_blocked", "s_pasaje_a_ready"} : sem'[s] = sem[s]
  BY <1>0 DEF ready_execute, fifo_ready_execute, srt_ready_execute, Espera, Postea, Saca, sem_post,
     sem_wait, ExecuteEnvia, SrtElige, SrtSalta, SrtHayInterrupcion, SrtMira, SrtCpu, SrtInterrumpe,
     SrtOcupa
<1>. QED  BY <1>1, <1>2, <1>3, ColasAjeno

LEMMA ColasEsperar ==
  ASSUME Tipos, Tipos', Bloqueada, Pendiente, Mirada, esperar_cpu
  PROVE  Bloqueada' /\ Pendiente' /\ Mirada'
<1>0. /\ sem \in [Semaforos -> Nat] /\ hilo \in [Hilos -> Etiquetas]
      /\ sem["s_blocked"] \in Nat /\ cola_blocked \in Seq(Pids) /\ Len(cola_blocked) \in Nat
      /\ Semaforos \ {"s_blocked", "s_pasaje_a_ready"} = {"s_multiprogramacion_actual",
           "s_ready_execute", "s_cont_ready", "s_cpu_desocupado", "s_esperar_cpu", "s_pcb_desalojado"}
      /\ {"s_blocked", "s_pasaje_a_ready"} \subseteq Semaforos
      /\ "esperar" \in Hilos /\ Hilos \ {"esperar"} = {"pasaje", "execute", "io"}
  BY ColasTipos DEF Hilos, Semaforos
<1>1. UNCHANGED <<cola_new, cola_suspended_ready, consola>> /\ sem'["s_pasaje_a_ready"] = sem["s_pasaje_a_ready"]
  BY <1>0 DEF esperar_cpu, Espera, Postea, EsperarRecibe, EsperarLibera, ExitConsola, ExitMemoria,
     Lista, BlockedLista, BlockedHilo, FinInterrupcion, colaVars, registroVars, sem_post, sem_wait
<1>2. \A h \in {"pasaje", "io"} : hilo'[h] = hilo[h]
  BY <1>0 DEF esperar_cpu, Espera, Postea, EsperarRecibe, EsperarLibera, ExitConsola, ExitMemoria,
     Lista, BlockedLista, BlockedHilo, FinInterrupcion, Va
<1>3. Pendiente' /\ Mirada'
  <2>1. Avisando' = Avisando
    BY <1>1 DEF Avisando
  <2>. QED  BY <1>1, <1>2, <2>1 DEF Pendiente, Mirada, Uno
<1>. DEFINE Dentro == {"b_hilo", "b_blocked"}
            l == Len(cola_blocked)
            s == sem["s_blocked"]
            i == Uno(hilo["io"] \in {"tomar", "dormir"})
            e == Uno(hilo["esperar"] \in Dentro)
<1>b. l = s + i + e /\ l \in Nat /\ s \in Nat /\ i \in {0, 1} /\ e \in {0, 1}
  BY <1>0 DEF Bloqueada, Uno
<1>p. l' = s' + i + e' => Bloqueada'
  <2>1. i' = i
    BY <1>2 DEF Uno
  <2>. QED  BY <2>1 DEF Bloqueada
<1>4. ASSUME cola_blocked' = cola_blocked, sem'["s_blocked"] = sem["s_blocked"],
             hilo'["esperar"] \in Dentro <=> hilo["esperar"] \in Dentro
      PROVE  Bloqueada'
  BY <1>2, <1>4 DEF Bloqueada, Uno
<1>5. CASE BlockedLista
  <2>1. /\ hilo["esperar"] = "b_listar" /\ hilo'["esperar"] = "b_hilo"
        /\ cola_blocked' = Append(cola_blocked, mano["esperar"]) /\ sem' = sem
    BY <1>0, <1>5 DEF BlockedLista, Va
  <2>2. mano["esperar"] \in Pids
    BY <1>0, <2>1 DEF Tipos, Manos, ConProceso
  <2>3. Len(cola_blocked') = Len(cola_blocked) + 1
    BY <1>0, <2>1, <2>2, ListaAgrega
  <2>4. e = 0 /\ e' = 1 /\ l' = l + 1 /\ s' = s
    BY <2>1, <2>3 DEF Uno
  <2>. HIDE DEF l, s, i, e
  <2>. QED  BY <1>3, <1>b, <1>p, <2>4
<1>6. CASE Postea("esperar", "b_blocked", "s_blocked", "fin_cpu")
  <2>1. /\ hilo["esperar"] = "b_blocked" /\ hilo'["esperar"] = "fin_cpu"
        /\ cola_blocked' = cola_blocked /\ sem'["s_blocked"] = sem["s_blocked"] + 1
    BY <1>0, <1>6 DEF Postea, Va, sem_post, colaVars
  <2>2. e = 1 /\ e' = 0 /\ l' = l /\ s' = s + 1
    BY <2>1 DEF Uno
  <2>. HIDE DEF l, s, i, e
  <2>. QED  BY <1>3, <1>b, <1>p, <2>2
<1>7. CASE EsperarRecibe
  <2>1. Head(retorno)[1] \in Retornos
    BY <1>7, HeadTailProperties DEF EsperarRecibe, Tipos, TypeOK, TypeCanales
  <2>2. hilo["esperar"] = "recv" /\ hilo'["esperar"] \in Retornos
    BY <1>0, <1>7, <2>1 DEF EsperarRecibe, Va
  <2>3. UNCHANGED <<cola_blocked, sem>>
    BY <1>7 DEF EsperarRecibe, colaVars
  <2>. QED  BY <1>3, <1>4, <2>2, <2>3 DEF Retornos
<1>8. CASE FinInterrupcion
  <2>1. /\ hilo["esperar"] = "fin_interrupcion" /\ hilo'["esperar"] = "esperar"
        /\ cola_blocked' = cola_blocked /\ sem'["s_blocked"] = sem["s_blocked"]
    BY <1>0, <1>8 DEF FinInterrupcion, Va, sem_post, colaVars
  <2>. QED  BY <1>3, <1>4, <2>1
<1>9. CASE \/ Espera("esperar", "esperar", "s_esperar_cpu", "recv")
           \/ Postea("esperar", "x_grado", "s_multiprogramacion_actual", "x_memoria")
           \/ Postea("esperar", "i_cr", "s_cont_ready", "i_desalojado")
           \/ Postea("esperar", "i_desalojado", "s_pcb_desalojado", "esperar")
           \/ Postea("esperar", "fin_cpu", "s_cpu_desocupado", "fin_re")
           \/ Postea("esperar", "fin_re", "s_ready_execute", "fin_interrupcion")
  <2>1. cola_blocked' = cola_blocked /\ sem'["s_blocked"] = sem["s_blocked"]
    BY <1>0, <1>9 DEF Espera, Postea, sem_post, sem_wait, colaVars
  <2>2. /\ hilo["esperar"] \notin Dentro /\ hilo'["esperar"] \notin Dentro
    BY <1>0, <1>9 DEF Espera, Postea, Va
  <2>. QED  BY <1>3, <1>4, <2>1, <2>2
<1>10. CASE \/ EsperarLibera("EXIT", "x_consola") \/ EsperarLibera("INTERRUPTION", "i_listar")
            \/ EsperarLibera("BLOCKED", "b_listar")
            \/ ExitConsola \/ ExitMemoria \/ Lista("esperar", "i_listar", "i_cr") \/ BlockedHilo
  <2>1. cola_blocked' = cola_blocked /\ sem'["s_blocked"] = sem["s_blocked"]
    BY <1>10 DEF EsperarLibera, ExitConsola, ExitMemoria, Lista, BlockedHilo, colaVars
  <2>2. hilo'["esperar"] \in Dentro <=> hilo["esperar"] \in Dentro
    BY <1>0, <1>10 DEF EsperarLibera, ExitConsola, ExitMemoria, Lista, BlockedHilo, Va
  <2>. QED  BY <1>3, <1>4, <2>1, <2>2
<1>. QED  BY <1>3, <1>5, <1>6, <1>7, <1>8, <1>9, <1>10 DEF esperar_cpu

LEMMA ColasIo ==
  ASSUME Tipos, Bloqueada, Pendiente, Mirada, ejecutar_io
  PROVE  Bloqueada' /\ Pendiente' /\ Mirada'
<1>0. /\ sem \in [Semaforos -> Nat] /\ hilo \in [Hilos -> Etiquetas]
      /\ sem["s_blocked"] \in Nat /\ cola_blocked \in Seq(Pids) /\ Len(cola_blocked) \in Nat
      /\ sem["s_pasaje_a_ready"] \in Nat /\ cola_suspended_ready \in Seq(Pids)
      /\ Len(cola_new) \in Nat /\ Len(cola_suspended_ready) \in Nat
      /\ {"s_blocked", "s_pasaje_a_ready", "s_ready_execute", "s_cont_ready"} \subseteq Semaforos
      /\ "io" \in Hilos /\ Hilos \ {"io"} = {"pasaje", "execute", "esperar"}
      /\ Cardinality(Avisando) \in Nat
  BY ColasTipos DEF Hilos, Semaforos
<1>1. cola_new' = cola_new /\ Avisando' = Avisando
  BY DEF ejecutar_io, Espera, Postea, IoToma, IoTermina, IoIteracion, IoSuspendido, IoListo,
     IoEncola, Lista, colaVars, registroVars, Avisando
<1>2. \A h \in {"pasaje", "esperar"} : hilo'[h] = hilo[h]
  BY <1>0 DEF ejecutar_io, Espera, Postea, IoToma, IoTermina, IoIteracion, IoSuspendido, IoListo,
     IoEncola, Lista, Va
<1>. DEFINE l == Len(cola_blocked)
            s == sem["s_blocked"]
            i == Uno(hilo["io"] \in {"tomar", "dormir"})
            e == Uno(hilo["esperar"] \in {"b_hilo", "b_blocked"})
            m == Len(cola_suspended_ready)
            r == sem["s_pasaje_a_ready"]
            j == Uno(hilo["io"] = "io_pasaje")
            n == Len(cola_new)
            d == Uno(hilo["pasaje"] \in EntreMiraYSaca) + Cardinality(Avisando)
<1>3. /\ l = s + i + e /\ l \in Nat /\ s \in Nat /\ i \in {0, 1} /\ e \in {0, 1}
      /\ n + m = r + d + j /\ n \in Nat /\ m \in Nat /\ r \in Nat /\ d \in Nat /\ j \in {0, 1}
  <2>1. l = s + i + e /\ l \in Nat /\ s \in Nat /\ i \in {0, 1} /\ e \in {0, 1}
    BY <1>0 DEF Bloqueada, Uno
  <2>2. n \in Nat /\ m \in Nat /\ r \in Nat /\ d \in Nat /\ j \in {0, 1}
    BY <1>0 DEF Uno
  <2>3. Uno(hilo["pasaje"] \in EntreMiraYSaca) \in Nat
    BY DEF Uno
  <2>4. n + m = r + d + j
    BY <1>0, <2>2, <2>3 DEF Pendiente
  <2>. QED  BY <2>1, <2>2, <2>4
<1>4. l' = s' + i' + e => Bloqueada'
  <2>1. e' = e
    BY <1>2 DEF Uno
  <2>. QED  BY <2>1 DEF Bloqueada
<1>5. r' \in Nat /\ n + m' = r' + d + j' => Pendiente'
  <2>1. /\ Uno(hilo["pasaje"] \in EntreMiraYSaca)' = Uno(hilo["pasaje"] \in EntreMiraYSaca)
        /\ Uno(hilo["pasaje"] \in EntreMiraYSaca) \in Nat /\ n' = n
    BY <1>1, <1>2 DEF Uno
  <2>2. Uno(hilo["io"] = "io_pasaje")' = j'
    OBVIOUS
  <2>3. j' \in Nat
    BY DEF Uno
  <2>. HIDE DEF j
  <2>. QED  BY <1>0, <1>1, <2>1, <2>2, <2>3 DEF Pendiente
<1>6. cola_suspended_ready' = cola_suspended_ready \/ cola_suspended_ready' # << >> => Mirada'
  BY <1>1, <1>2 DEF Mirada
<1>7. CASE Espera("io", "blocked", "s_blocked", "tomar")
  <2>1. i = 0 /\ i' = 1 /\ l' = l /\ s' = s - 1 /\ m' = m /\ r' = r /\ j' = 0 /\ j = 0
    BY <1>0, <1>7 DEF Espera, Va, sem_wait, colaVars, Uno
  <2>2. cola_suspended_ready' = cola_suspended_ready
    BY <1>7 DEF Espera, colaVars
  <2>. HIDE DEF l, s, i, e, m, r, j, n, d
  <2>. QED  BY <1>3, <1>4, <1>5, <1>6, <2>1, <2>2
<1>8. CASE IoToma \/ IoIteracion \/ IoSuspendido \/ IoListo \/ Lista("io", "listo", "io_re")
  <2>1. UNCHANGED <<cola_blocked, sem, cola_suspended_ready>>
    BY <1>8 DEF IoToma, IoIteracion, IoSuspendido, IoListo, Lista, colaVars
  <2>2. i' = i /\ j' = j
    BY <1>0, <1>8 DEF IoToma, IoIteracion, IoSuspendido, IoListo, Lista, Va, Uno
  <2>. QED  BY <1>3, <1>4, <1>5, <1>6, <2>1, <2>2
<1>9. CASE IoTermina
  <2>1. /\ hilo["io"] = "dormir" /\ hilo'["io"] = "iteracion" /\ cola_blocked # << >>
        /\ cola_blocked' = Tail(cola_blocked) /\ UNCHANGED <<sem, cola_suspended_ready>>
    BY <1>0, <1>9 DEF IoTermina, Va
  <2>2. l' = l - 1
    BY <1>0, <2>1, ListaPrimero
  <2>3. i = 1 /\ i' = 0 /\ j = 0 /\ j' = 0 /\ s' = s /\ m' = m /\ r' = r
    BY <2>1 DEF Uno
  <2>. HIDE DEF l, s, i, e, m, r, j, n, d
  <2>. QED  BY <1>3, <1>4, <1>5, <1>6, <2>1, <2>2, <2>3
<1>10. CASE IoEncola
  <2>1. /\ hilo["io"] = "suspendido" /\ hilo'["io"] = "io_pasaje"
        /\ cola_suspended_ready' = Append(cola_suspended_ready, mano["io"])
        /\ UNCHANGED <<sem, cola_blocked>>
    BY <1>0, <1>10 DEF IoEncola, Va
  <2>2. mano["io"] \in Pids
    BY <1>0, <2>1 DEF Tipos, Manos, ConProceso
  <2>3. m' = m + 1 /\ cola_suspended_ready' # << >>
    BY <1>0, <2>1, <2>2, ListaAgrega
  <2>4. i = 0 /\ i' = 0 /\ j = 0 /\ j' = 1 /\ s' = s /\ l' = l /\ r' = r
    BY <2>1 DEF Uno
  <2>. HIDE DEF l, s, i, e, m, r, j, n, d
  <2>. QED  BY <1>3, <1>4, <1>5, <1>6, <2>3, <2>4
<1>11. CASE Postea("io", "io_pasaje", "s_pasaje_a_ready", "blocked")
  <2>1. i = 0 /\ i' = 0 /\ l' = l /\ s' = s /\ m' = m /\ r' = r + 1 /\ j' = 0 /\ j = 1
    BY <1>0, <1>11 DEF Postea, Va, sem_post, colaVars, Uno
  <2>2. cola_suspended_ready' = cola_suspended_ready
    BY <1>11 DEF Postea, colaVars
  <2>. HIDE DEF l, s, i, e, m, r, j, n, d
  <2>. QED  BY <1>3, <1>4, <1>5, <1>6, <2>1, <2>2
<1>12. CASE Postea("io", "io_re", "s_ready_execute", "io_cr") \/ Postea("io", "io_cr", "s_cont_ready", "blocked")
  <2>1. i = 0 /\ i' = 0 /\ l' = l /\ s' = s /\ m' = m /\ r' = r /\ j' = 0 /\ j = 0
    BY <1>0, <1>12 DEF Postea, Va, sem_post, colaVars, Uno
  <2>2. cola_suspended_ready' = cola_suspended_ready
    BY <1>12 DEF Postea, colaVars
  <2>. HIDE DEF l, s, i, e, m, r, j, n, d
  <2>. QED  BY <1>3, <1>4, <1>5, <1>6, <2>1, <2>2
<1>. QED  BY <1>7, <1>8, <1>9, <1>10, <1>11, <1>12 DEF ejecutar_io

\* A console queues its process, registers it and only then posts.
LEMMA ColasConsola ==
  ASSUME Tipos, Bloqueada, Pendiente, Mirada, NEW p \in Pids, procesar_socket(p)
  PROVE  Bloqueada' /\ Pendiente' /\ Mirada'
<1>0. /\ sem \in [Semaforos -> Nat] /\ sem["s_pasaje_a_ready"] \in Nat
      /\ cola_new \in Seq(Pids) /\ Len(cola_new) \in Nat /\ Len(cola_suspended_ready) \in Nat
      /\ "s_pasaje_a_ready" \in Semaforos /\ "s_blocked" \in Semaforos
      /\ IsFiniteSet(Avisando) /\ Cardinality(Avisando) \in Nat
      /\ consola \in [Pids -> EtiquetasConsola]
  BY ColasTipos DEF Semaforos, Tipos, TypeOK, TypeKernel, TypeRegistro
<1>1. UNCHANGED <<hilo, cola_blocked, cola_suspended_ready>> /\ sem'["s_blocked"] = sem["s_blocked"]
  BY <1>0 DEF procesar_socket, ConsolaEncola, ConsolaSocket, ConsolaIteracion, ConsolaAvisa,
     colaVars, sem_post
<1>2. Bloqueada'
  BY <1>1 DEF Bloqueada
<1>. DEFINE n == Len(cola_new)
            m == Len(cola_suspended_ready)
            r == sem["s_pasaje_a_ready"]
            c == Cardinality(Avisando)
            d == Uno(hilo["pasaje"] \in EntreMiraYSaca)
            i == Uno(hilo["io"] = "io_pasaje")
<1>3. /\ n + m = r + d + c + i /\ n \in Nat /\ m \in Nat /\ r \in Nat /\ c \in Nat
      /\ d \in {0, 1} /\ i \in {0, 1}
  BY <1>0 DEF Pendiente, Uno
<1>4. n' + m = r' + d + c' + i => Pendiente'
  BY <1>1 DEF Pendiente
<1>5. CASE ConsolaEncola(p)
  <2>1. /\ consola[p] = "conectada" /\ consola' = [consola EXCEPT ![p] = "sockets"]
        /\ cola_new' = Append(cola_new, p) /\ sem' = sem
    BY <1>5 DEF ConsolaEncola
  <2>2. n' = n + 1 /\ cola_new' # << >>
    BY <1>0, <2>1, ListaAgrega
  <2>3. Avisando' = Avisando \cup {p} /\ p \notin Avisando
    BY <1>0, <2>1 DEF Avisando
  <2>4. c' = c + 1
    BY <1>0, <2>3, FS_AddElement
  <2>5. r' = r
    BY <2>1
  <2>6. Pendiente'
    <3>. HIDE DEF n, m, r, c, d, i
    <3>. QED  BY <1>3, <1>4, <2>2, <2>4, <2>5
  <2>. QED  BY <1>1, <1>2, <2>2, <2>6 DEF Mirada
<1>6. CASE ConsolaSocket(p) \/ ConsolaIteracion(p)
  <2>1. /\ consola[p] \in {"sockets", "iteracion"}
        /\ \E x \in {"iteracion", "avisar"} : consola' = [consola EXCEPT ![p] = x]
        /\ UNCHANGED <<cola_new, sem>>
    BY <1>6 DEF ConsolaSocket, ConsolaIteracion, colaVars
  <2>2. Avisando' = Avisando
    BY <1>0, <2>1 DEF Avisando
  <2>. QED  BY <1>1, <1>2, <1>3, <1>4, <2>1, <2>2 DEF Mirada
<1>7. CASE ConsolaAvisa(p)
  <2>1. /\ consola[p] = "avisar" /\ consola' = [consola EXCEPT ![p] = "fin"]
        /\ cola_new' = cola_new /\ r' = r + 1
    BY <1>0, <1>7 DEF ConsolaAvisa, sem_post, colaVars
  <2>2. Avisando' = Avisando \ {p} /\ p \in Avisando
    BY <1>0, <2>1 DEF Avisando
  <2>3. c' = c - 1
    BY <1>0, <2>2, FS_RemoveElement
  <2>4. n' = n
    BY <2>1
  <2>5. Pendiente'
    <3>. HIDE DEF n, m, r, c, d, i
    <3>. QED  BY <1>3, <1>4, <2>1, <2>3, <2>4
  <2>. QED  BY <1>1, <1>2, <2>1, <2>5 DEF Mirada
<1>. QED  BY <1>5, <1>6, <1>7 DEF procesar_socket

LEMMA ColasInit == Init => Colas
<1>. SUFFICES ASSUME Init PROVE Colas
  OBVIOUS
<1>1. Cuenta /\ Tipos
  BY CuentaInit, TiposInit
<1>2. /\ Len(cola_new) = 0 /\ Len(cola_blocked) = 0 /\ Len(cola_suspended_ready) = 0
      /\ hilo["pasaje"] = "pasaje" /\ hilo["esperar"] = "esperar" /\ hilo["io"] = "blocked"
  BY DEF Init, InitKernel, Hilos
<1>3. sem["s_blocked"] = 0 /\ sem["s_pasaje_a_ready"] = 0
  BY DEF Init, InitKernel, Semaforos
<1>4. Avisando = {}
  BY DEF Init, InitKernel, Avisando
<1>5. Cardinality(Avisando) = 0
  BY <1>4, FS_EmptySet
<1>. QED  BY <1>1, <1>2, <1>3, <1>5 DEF Colas, Bloqueada, Pendiente, Mirada, Uno, EntreMiraYSaca

LEMMA ColasNext == Colas /\ [Next]_vars => Colas'
<1>. SUFFICES ASSUME Tipos, Cuenta, Bloqueada, Pendiente, Mirada, [Next]_vars PROVE Colas'
  BY DEF Colas, Cuenta
<1>1. Tipos' /\ Cuenta'
  BY TiposNext, CuentaNext
<1>2. ASSUME Kernel PROVE Bloqueada' /\ Pendiente' /\ Mirada'
  <2>1. CASE \E p \in Pids : procesar_socket(p)
    BY <2>1, ColasConsola
  <2>2. CASE \E v \in suspendiendo : hilo_suspendido(v)
    <3>1. /\ UNCHANGED <<cola_blocked, cola_new, cola_suspended_ready, consola, hilo>>
          /\ \A s \in {"s_blocked", "s_pasaje_a_ready"} : sem'[s] = sem[s]
      BY <2>2, ColasTipos, Nombres DEF hilo_suspendido, SuspendiendoArranca, SuspendiendoDespierta,
         SuspendiendoSuelta, sem_post, colaVars, registroVars, Semaforos
    <3>. QED  BY <3>1, ColasAjeno
  <2>. QED  BY <1>1, <1>2, <2>1, <2>2, ColasPasaje, ColasExecute, ColasEsperar, ColasIo
            DEF Kernel, NextKernel
<1>3. ASSUME Cpu \/ MemoriaElimina \/ UNCHANGED vars PROVE Bloqueada' /\ Pendiente' /\ Mirada'
  <2>1. UNCHANGED <<cola_blocked, cola_new, cola_suspended_ready, consola, hilo, sem>>
    BY <1>3 DEF Cpu, MemoriaElimina, vars, kernelVars, colaVars, registroVars
  <2>. QED  BY <2>1, ColasAjeno
<1>4. Kernel \/ Cpu \/ MemoriaElimina \/ UNCHANGED vars
  BY DEF Next
<1>. QED  BY <1>1, <1>2, <1>3, <1>4 DEF Colas

\* No thread pops an empty queue: each of the four queues the schedulers take
\* processes from is counted by a semaphore its thread has waited on, and what
\* pasaje_a_ready decides by looking at cola_suspended_ready stays true until it
\* pops, for any number of consoles arriving meanwhile.
THEOREM NoSacaDeVaciaCorrecto == Spec => []NoSacaDeVacia
<1>1. Colas => NoSacaDeVacia
  <2>. SUFFICES ASSUME Cuenta, Bloqueada, Mirada PROVE NoSacaDeVacia
    BY DEF Colas
  <2>1. ReadyNoVacia
    BY CuentaReady
  <2>2. hilo["io"] \in {"tomar", "dormir"} => cola_blocked # << >>
    <3>. SUFFICES ASSUME hilo["io"] \in {"tomar", "dormir"} PROVE Len(cola_blocked) # 0
      OBVIOUS
    <3>1. sem["s_blocked"] \in Nat
      BY ColasTipos DEF Cuenta
    <3>2. Uno(hilo["esperar"] \in {"b_hilo", "b_blocked"}) \in Nat
      BY DEF Uno
    <3>3. Uno(hilo["io"] \in {"tomar", "dormir"}) = 1
      BY DEF Uno
    <3>. QED  BY <3>1, <3>2, <3>3 DEF Bloqueada
  <2>. QED  BY <2>1, <2>2 DEF NoSacaDeVacia, Mirada
<1>. QED  BY <1>1, ColasInit, ColasNext, PTL DEF Spec

-----------------------------------------------------------------------------
(* FIFO: nobody is interrupted                                             *)

\* Under FIFO nobody writes on the interrupt socket, so nothing of the path of
\* an eviction is ever reached.
SinDesalojo ==
  /\ hilo["execute"] \in EtiquetasFifo \cup {"enviar", "avisar"}
  /\ hilo["esperar"] \notin {"INTERRUPTION", "i_listar", "i_cr", "i_desalojado"}
  /\ interrupt = 0 /\ ~cpuHayInterrupcion /\ ~hay_interrupcion
  /\ cpuEstado # "INTERRUPTION"
  /\ \A i \in DOMAIN retorno : retorno[i][1] # "INTERRUPTION"

LEMMA SinDesalojoInit == Algoritmo = "FIFO" /\ Init => SinDesalojo
BY DEF Init, InitKernel, InitCanales, InitCpu, SinDesalojo, EtiquetasFifo, Hilos

LEMMA SinDesalojoEsperar ==
  ASSUME Tipos, SinDesalojo, esperar_cpu, UNCHANGED cpuVars
  PROVE  SinDesalojo'
<1>0. hilo \in [Hilos -> Etiquetas] /\ "esperar" \in Hilos /\ "execute" \in Hilos \ {"esperar"}
      /\ retorno \in Seq(Retornos \X Pids)
  BY ColasTipos DEF Hilos, Tipos, TypeOK, TypeCanales
<1>1. UNCHANGED <<interrupt, hay_interrupcion, cpuHayInterrupcion, cpuEstado>>
      /\ hilo'["execute"] = hilo["execute"]
  BY <1>0 DEF esperar_cpu, Espera, Postea, EsperarRecibe, EsperarLibera, ExitConsola, ExitMemoria,
     Lista, BlockedLista, BlockedHilo, FinInterrupcion, entornoVars, canalVars, banderaVars, cpuVars, Va
<1>2. CASE EsperarRecibe
  <2>1. /\ retorno # << >> /\ hilo'["esperar"] = Head(retorno)[1] /\ retorno' = Tail(retorno)
    BY <1>0, <1>2 DEF EsperarRecibe, Va
  <2>2. 1 \in DOMAIN retorno /\ Head(retorno) = retorno[1] /\ Head(retorno)[1] \in Retornos
    BY <1>0, <2>1
  <2>3. \A i \in DOMAIN Tail(retorno) : i + 1 \in DOMAIN retorno /\ Tail(retorno)[i] = retorno[i + 1]
    BY <1>0, <2>1
  <2>. QED  BY <1>1, <2>1, <2>2, <2>3 DEF SinDesalojo, Retornos
<1>3. CASE ~EsperarRecibe
  <2>1. retorno' = retorno
    BY <1>3 DEF esperar_cpu, Espera, Postea, EsperarLibera, ExitConsola, ExitMemoria,
       Lista, BlockedLista, BlockedHilo, FinInterrupcion, entornoVars, canalVars
  <2>2. hilo'["esperar"] \notin {"INTERRUPTION", "i_listar", "i_cr", "i_desalojado"}
    BY <1>0, <1>3 DEF esperar_cpu, Espera, Postea, EsperarLibera, ExitConsola, ExitMemoria,
       Lista, BlockedLista, BlockedHilo, FinInterrupcion, Va, SinDesalojo
  <2>. QED  BY <1>1, <2>1, <2>2 DEF SinDesalojo
<1>. QED  BY <1>2, <1>3

LEMMA SinDesalojoCpu ==
  ASSUME Tipos, SinDesalojo, Cpu
  PROVE  SinDesalojo'
<1>0. hilo' = hilo /\ hay_interrupcion' = hay_interrupcion /\ retorno \in Seq(Retornos \X Pids)
      /\ cpuEstado \in Retornos \cup {"CONTINUE"}
      /\ (cpuFase = "devolver" => cpuEstado \in Retornos /\ cpuPcb \in Pids)
  BY DEF Cpu, kernelVars, banderaVars, Tipos, TypeOK, TypeCanales, TypeCpu, Manos
<1>1. CASE CpuDevuelve
  <2>1. /\ retorno' = Append(retorno, <<cpuEstado, cpuPcb>>) /\ cpuEstado' = "CONTINUE"
        /\ UNCHANGED <<interrupt, cpuHayInterrupcion>> /\ cpuFase = "devolver"
    BY <1>1 DEF CpuDevuelve
  <2>2. <<cpuEstado, cpuPcb>> \in Retornos \X Pids
    BY <1>0, <2>1
  <2>3. \A i \in DOMAIN retorno' : \/ i \in DOMAIN retorno /\ retorno'[i] = retorno[i]
                                   \/ retorno'[i] = <<cpuEstado, cpuPcb>>
    <3>. DEFINE r == <<cpuEstado, cpuPcb>>
    <3>. HIDE DEF r
    <3>. QED  BY <1>0, <2>1, <2>2 DEF r
  <2>. QED  BY <1>0, <2>1, <2>3 DEF SinDesalojo
<1>2. CASE CpuCiclo
  <2>1. /\ cpuEstado' = CheckInterrupt(Execute(programa[cpuPcb][pc[cpuPcb] + 1]))
        /\ cpuHayInterrupcion' = IF cpuEstado' = "INTERRUPTION" THEN FALSE ELSE cpuHayInterrupcion
        /\ UNCHANGED <<retorno, interrupt>>
    BY <1>2 DEF CpuCiclo, canalVars
  <2>2. cpuEstado' # "INTERRUPTION"
    BY <2>1 DEF CheckInterrupt, Execute, SinDesalojo
  <2>. QED  BY <1>0, <2>1, <2>2 DEF SinDesalojo
<1>3. CASE CpuRecibe \/ CpuFinRafaga
  BY <1>0, <1>3 DEF CpuRecibe, CpuFinRafaga, SinDesalojo, canalVars
<1>4. ~CpuInterrupcion
  BY DEF CpuInterrupcion, SinDesalojo
<1>. QED  BY <1>1, <1>2, <1>3, <1>4 DEF Cpu, NextCpu, CpuMain

LEMMA SinDesalojoNext ==
  ASSUME Algoritmo = "FIFO"
  PROVE  Tipos /\ SinDesalojo /\ [Next]_vars => SinDesalojo'
<1>. SUFFICES ASSUME Tipos, SinDesalojo, [Next]_vars PROVE SinDesalojo'
  OBVIOUS
<1>0. hilo \in [Hilos -> Etiquetas] /\ "execute" \in Hilos /\ "esperar" \in Hilos
  BY ColasTipos, Nombres
<1>1. CASE fifo_ready_execute /\ UNCHANGED cpuVars
  <2>1. UNCHANGED <<interrupt, hay_interrupcion, cpuHayInterrupcion, cpuEstado, retorno>>
    BY <1>1 DEF fifo_ready_execute, Espera, Postea, Saca, ExecuteEnvia, entornoVars, canalVars,
       banderaVars, cpuVars
  <2>2. /\ hilo'["esperar"] = hilo["esperar"]
        /\ hilo'["execute"] \in EtiquetasFifo \cup {"enviar", "avisar"}
    BY <1>0, <1>1 DEF fifo_ready_execute, Espera, Postea, Saca, ExecuteEnvia, Va, EtiquetasFifo
  <2>. QED  BY <2>1, <2>2 DEF SinDesalojo
<1>2. CASE pasaje_a_ready /\ UNCHANGED cpuVars
  <2>1. UNCHANGED <<interrupt, hay_interrupcion, cpuHayInterrupcion, cpuEstado, retorno>>
    BY <1>2 DEF pasaje_a_ready, Espera, Postea, PasajeMira, PasajeNew, PasajeSusp, Lista,
       entornoVars, canalVars, banderaVars, cpuVars
  <2>2. hilo'["esperar"] = hilo["esperar"] /\ hilo'["execute"] = hilo["execute"]
    BY <1>0, <1>2 DEF pasaje_a_ready, Espera, Postea, PasajeMira, PasajeNew, PasajeSusp, Lista, Va
  <2>. QED  BY <2>1, <2>2 DEF SinDesalojo
<1>3. CASE ejecutar_io /\ UNCHANGED cpuVars
  <2>1. UNCHANGED <<interrupt, hay_interrupcion, cpuHayInterrupcion, cpuEstado, retorno>>
    BY <1>3 DEF ejecutar_io, Espera, Postea, IoToma, IoTermina, IoIteracion, IoSuspendido, IoListo,
       IoEncola, Lista, entornoVars, canalVars, banderaVars, cpuVars
  <2>2. hilo'["esperar"] = hilo["esperar"] /\ hilo'["execute"] = hilo["execute"]
    BY <1>0, <1>3 DEF ejecutar_io, Espera, Postea, IoToma, IoTermina, IoIteracion, IoSuspendido,
       IoListo, IoEncola, Lista, Va
  <2>. QED  BY <2>1, <2>2 DEF SinDesalojo
<1>4. CASE \/ (\E p \in Pids : procesar_socket(p)) /\ UNCHANGED cpuVars
           \/ (\E v \in suspendiendo : hilo_suspendido(v)) /\ UNCHANGED cpuVars
  <2>1. UNCHANGED <<hilo, interrupt, hay_interrupcion, cpuHayInterrupcion, cpuEstado, retorno>>
    BY <1>4 DEF procesar_socket, ConsolaEncola, ConsolaSocket, ConsolaIteracion, ConsolaAvisa,
       hilo_suspendido, SuspendiendoArranca, SuspendiendoDespierta, SuspendiendoSuelta,
       entornoVars, canalVars, banderaVars, cpuVars
  <2>. QED  BY <2>1 DEF SinDesalojo
<1>5. CASE MemoriaElimina \/ UNCHANGED vars
  BY <1>5 DEF MemoriaElimina, vars, kernelVars, canalVars, banderaVars, cpuVars, SinDesalojo
<1>. QED  BY <1>1, <1>2, <1>3, <1>4, <1>5, SinDesalojoEsperar, SinDesalojoCpu
          DEF Next, Kernel, NextKernel, ready_execute

-----------------------------------------------------------------------------
(* FIFO: one process in the CPU, no ready process forgotten                *)

\* The places of EnCpu, and the processes in them.
EnLaCpu == {"execute", "dispatch", "cpu", "retorno", "esperar"}
Ocupados == Len(En["execute"]) + Len(En["dispatch"]) + Len(En["cpu"]) + Len(En["retorno"])
              + Len(En["esperar"])

\* Whose turn it is on the CPU: the semaphore's, fifo_ready_execute's once it
\* has waited for it, a process's, or esperar_cpu's until it posts it.
EntreSalidaYCpu == {"x_memoria", "b_hilo", "b_blocked", "fin_cpu"}
Turno ==
  sem["s_cpu_desocupado"] + Uno(hilo["execute"] \in {"f_cr", "f_sacar"}) + Ocupados
    + Uno(hilo["esperar"] \in EntreSalidaYCpu) = 1

\* Every listed process has a post of s_ready_execute of its own, given, taken
\* by the scheduler or about to be given.
Sacando == Uno(hilo["execute"] \in {"f_cpu", "f_cr", "f_sacar"})
DebePasaje == Uno(hilo["pasaje"] = "re")
DebeIo == Uno(hilo["io"] = "io_re")
Avisados == Len(lista_ready) <= sem["s_ready_execute"] + Sacando + DebePasaje + DebeIo

LEMMA OcupadosPaso ==
  ASSUME Unico
  PROVE  /\ Ocupados \in Nat
         /\ Quieto => Ocupados' = Ocupados
         /\ \A p : \A l, m \in Lugares : Traslada(p, l, m) =>
              Ocupados' = Ocupados - Uno(l \in EnLaCpu) + Uno(m \in EnLaCpu)
         /\ \A p : Entra(En, En', p, "new") => Ocupados' = Ocupados
         /\ \A p : Sale(En, En', p, "salida") => Ocupados' = Ocupados
<1>0. EnLaCpu \subseteq Lugares /\ "new" \in Lugares \ EnLaCpu /\ "salida" \in Lugares \ EnLaCpu
  BY DEF EnLaCpu, Lugares
<1>. DEFINE L(l) == Len(En[l])
<1>1. \A l \in EnLaCpu : L(l) \in Nat
  BY <1>0 DEF Unico, Repartida
<1>2. Ocupados = L("execute") + L("dispatch") + L("cpu") + L("retorno") + L("esperar")
  BY DEF Ocupados
<1>3. ASSUME \A k \in EnLaCpu : En'[k] = En[k] PROVE Ocupados' = Ocupados
  BY <1>3 DEF Ocupados, EnLaCpu
<1>4. (Quieto => Ocupados' = Ocupados) /\ (\A p : Entra(En, En', p, "new") => Ocupados' = Ocupados)
      /\ (\A p : Sale(En, En', p, "salida") => Ocupados' = Ocupados)
  BY <1>0, <1>3 DEF Quieto, Entra, Sale
<1>5. ASSUME NEW p, NEW l \in Lugares, NEW m \in Lugares, Traslada(p, l, m)
      PROVE  Ocupados' = Ocupados - Uno(l \in EnLaCpu) + Uno(m \in EnLaCpu)
  <2>1. /\ l # m /\ Len(En'[l]) = Len(En[l]) - 1 /\ Len(En'[m]) = Len(En[m]) + 1
        /\ \A k \in Lugares \ {l, m} : En'[k] = En[k]
    BY <1>5 DEF Traslada, Mueve, Quita, Pone
  <2>2. ASSUME NEW k \in EnLaCpu
        PROVE  Len(En'[k]) = Len(En[k]) - Uno(k = l) + Uno(k = m)
    <3>1. Len(En[k]) \in Nat /\ k \in Lugares
      BY <1>0, <1>1
    <3>2. CASE k = l
      BY <2>1, <3>1, <3>2 DEF Uno
    <3>3. CASE k = m
      <4>1. Uno(k = l) = 0 /\ Uno(k = m) = 1
        BY <2>1, <3>3 DEF Uno
      <4>. QED  BY <2>1, <3>1, <3>3, <4>1
    <3>4. CASE k \notin {l, m}
      <4>1. Uno(k = l) = 0 /\ Uno(k = m) = 0
        BY <3>4 DEF Uno
      <4>. QED  BY <2>1, <3>1, <3>4, <4>1
    <3>. QED  BY <3>2, <3>3, <3>4
  <2>3. Ocupados' = Len(En'["execute"]) + Len(En'["dispatch"]) + Len(En'["cpu"]) + Len(En'["retorno"])
                      + Len(En'["esperar"])
    BY DEF Ocupados
  <2>4. ASSUME NEW k \in Lugares
        PROVE Uno("execute" = k) + Uno("dispatch" = k) + Uno("cpu" = k) + Uno("retorno" = k)
                + Uno("esperar" = k) = Uno(k \in EnLaCpu)
    BY DEF Uno, EnLaCpu
  <2>. DEFINE Ul(k) == Uno(k = l)
              Um(k) == Uno(k = m)
  <2>6. ASSUME NEW k \in EnLaCpu
        PROVE  Len(En'[k]) = L(k) - Ul(k) + Um(k) /\ Ul(k) \in Int /\ Um(k) \in Int /\ L(k) \in Int
    <3>1. L(k) \in Nat
      BY <1>1
    <3>2. Ul(k) \in Int /\ Um(k) \in Int
      BY DEF Uno
    <3>. QED  BY <2>2, <3>1, <3>2
  <2>7. /\ Ul("execute") + Ul("dispatch") + Ul("cpu") + Ul("retorno") + Ul("esperar") = Uno(l \in EnLaCpu)
        /\ Um("execute") + Um("dispatch") + Um("cpu") + Um("retorno") + Um("esperar") = Uno(m \in EnLaCpu)
    BY <2>4
  <2>8. {"execute", "dispatch", "cpu", "retorno", "esperar"} = EnLaCpu
    BY DEF EnLaCpu
  <2>. DEFINE M(k) == Len(En'[k])
  <2>9. Ocupados' = M("execute") + M("dispatch") + M("cpu") + M("retorno") + M("esperar")
    BY <2>3
  <2>10. \A k \in EnLaCpu : M(k) = L(k) - Ul(k) + Um(k) /\ Ul(k) \in Int /\ Um(k) \in Int
                             /\ L(k) \in Int
    BY <2>6
  <2>. HIDE DEF Ul, Um, L, M
  <2>. QED  BY <1>2, <2>7, <2>8, <2>9, <2>10
<1>6. Ocupados \in Nat
  <2>. HIDE DEF L
  <2>. QED  BY <1>1, <1>2 DEF EnLaCpu
<1>. QED  BY <1>4, <1>5, <1>6

\* A step that leaves the turn alone.
LEMMA TurnoAjeno ==
  ASSUME Turno, Ocupados' = Ocupados, sem'["s_cpu_desocupado"] = sem["s_cpu_desocupado"],
         hilo'["execute"] \in {"f_cr", "f_sacar"} <=> hilo["execute"] \in {"f_cr", "f_sacar"},
         hilo'["esperar"] \in EntreSalidaYCpu <=> hilo["esperar"] \in EntreSalidaYCpu
  PROVE  Turno'
BY DEF Turno, Uno

\* A step of a thread passes the turn on: what one of the four loses another gains.
LEMMA TurnoPasa ==
  ASSUME Unico, Turno, sem["s_cpu_desocupado"] \in Nat,
         NEW s \in Int, NEW x \in Int, NEW o \in Int, NEW e \in Int, s + x + o + e = 0,
         sem'["s_cpu_desocupado"] = sem["s_cpu_desocupado"] + s,
         Uno(hilo'["execute"] \in {"f_cr", "f_sacar"}) = Uno(hilo["execute"] \in {"f_cr", "f_sacar"}) + x,
         Ocupados' = Ocupados + o,
         Uno(hilo'["esperar"] \in EntreSalidaYCpu) = Uno(hilo["esperar"] \in EntreSalidaYCpu) + e
  PROVE  Turno'
<1>. DEFINE a == sem["s_cpu_desocupado"]
            b == Uno(hilo["execute"] \in {"f_cr", "f_sacar"})
            c == Ocupados
            d == Uno(hilo["esperar"] \in EntreSalidaYCpu)
<1>1. a \in Nat /\ b \in Nat /\ c \in Nat /\ d \in Nat /\ a + b + c + d = 1
  BY OcupadosPaso DEF Turno, Uno
<1>2. a' = a + s /\ b' = b + x /\ c' = c + o /\ d' = d + e
  OBVIOUS
<1>3. a' + b' + c' + d' = 1 => Turno'
  BY DEF Turno
<1>. HIDE DEF a, b, c, d
<1>. QED  BY <1>1, <1>2, <1>3

LEMMA TurnoExecute ==
  ASSUME Unico, Turno, UNCHANGED cpuVars, fifo_ready_execute
  PROVE  Turno'
<1>0. /\ Tipos /\ hilo \in [Hilos -> Etiquetas] /\ sem \in [Semaforos -> Nat]
      /\ "execute" \in Hilos /\ "esperar" \in Hilos \ {"execute"}
      /\ {"s_ready_execute", "s_cpu_desocupado", "s_cont_ready", "s_esperar_cpu"} \subseteq Semaforos
      /\ {"ready", "execute", "dispatch"} \subseteq Lugares
  BY ColasTipos DEF Unico, Hilos, Semaforos, Lugares
<1>1. hilo'["esperar"] = hilo["esperar"]
  BY <1>0 DEF fifo_ready_execute, Espera, Postea, Saca, ExecuteEnvia, Va
<1>2. CASE \/ Espera("execute", "f_re", "s_ready_execute", "f_cpu")
           \/ Espera("execute", "f_cr", "s_cont_ready", "f_sacar")
           \/ Postea("execute", "avisar", "s_esperar_cpu", "f_re")
  <2>1. Ocupados' = Ocupados
    BY <1>2, LugaresFifo, OcupadosPaso
  <2>2. /\ sem'["s_cpu_desocupado"] = sem["s_cpu_desocupado"]
        /\ hilo'["execute"] \in {"f_cr", "f_sacar"} <=> hilo["execute"] \in {"f_cr", "f_sacar"}
    BY <1>0, <1>2 DEF Espera, Postea, Va, sem_wait, sem_post
  <2>. QED  BY <1>1, <2>1, <2>2, TurnoAjeno
<1>3. CASE Espera("execute", "f_cpu", "s_cpu_desocupado", "f_cr")
  <2>1. Ocupados' = Ocupados + 0
    BY <1>3, LugaresFifo, OcupadosPaso
  <2>2. /\ sem'["s_cpu_desocupado"] = sem["s_cpu_desocupado"] + (-1)
        /\ hilo["execute"] = "f_cpu" /\ hilo'["execute"] = "f_cr"
    BY <1>0, <1>3 DEF Espera, Va, sem_wait
  <2>3. Uno(hilo'["execute"] \in {"f_cr", "f_sacar"}) = Uno(hilo["execute"] \in {"f_cr", "f_sacar"}) + 1
    BY <2>2 DEF Uno
  <2>4. Uno(hilo'["esperar"] \in EntreSalidaYCpu) = Uno(hilo["esperar"] \in EntreSalidaYCpu) + 0
    BY <1>1 DEF Uno
  <2>. QED  BY <1>0, <2>1, <2>2, <2>3, <2>4, TurnoPasa
<1>4. CASE Saca("f_sacar", 1, "enviar")
  <2>1. Ocupados' = Ocupados + 1
    <3>1. Ocupados' = Ocupados - Uno("ready" \in EnLaCpu) + Uno("execute" \in EnLaCpu)
      BY <1>0, <1>4, LugaresFifo, OcupadosPaso
    <3>. QED  BY <3>1, OcupadosPaso DEF Uno, EnLaCpu
  <2>2. /\ sem'["s_cpu_desocupado"] = sem["s_cpu_desocupado"] + 0
        /\ hilo["execute"] = "f_sacar" /\ hilo'["execute"] = "enviar"
    BY <1>0, <1>4 DEF Saca, Va
  <2>3. Uno(hilo'["execute"] \in {"f_cr", "f_sacar"}) = Uno(hilo["execute"] \in {"f_cr", "f_sacar"}) + (-1)
    BY <2>2 DEF Uno
  <2>4. Uno(hilo'["esperar"] \in EntreSalidaYCpu) = Uno(hilo["esperar"] \in EntreSalidaYCpu) + 0
    BY <1>1 DEF Uno
  <2>. QED  BY <1>0, <2>1, <2>2, <2>3, <2>4, TurnoPasa
<1>5. CASE ExecuteEnvia
  <2>1. Ocupados' = Ocupados
    <3>1. Ocupados' = Ocupados - Uno("execute" \in EnLaCpu) + Uno("dispatch" \in EnLaCpu)
      BY <1>0, <1>5, LugaresFifo, OcupadosPaso
    <3>. QED  BY <3>1, OcupadosPaso DEF Uno, EnLaCpu
  <2>2. /\ sem'["s_cpu_desocupado"] = sem["s_cpu_desocupado"]
        /\ hilo'["execute"] \in {"f_cr", "f_sacar"} <=> hilo["execute"] \in {"f_cr", "f_sacar"}
    BY <1>0, <1>5 DEF ExecuteEnvia, Va
  <2>. QED  BY <1>1, <2>1, <2>2, TurnoAjeno
<1>. QED  BY <1>2, <1>3, <1>4, <1>5 DEF fifo_ready_execute

LEMMA TurnoEsperar ==
  ASSUME Unico, SinDesalojo, Turno, UNCHANGED cpuVars, esperar_cpu
  PROVE  Turno'
<1>0. /\ Tipos /\ hilo \in [Hilos -> Etiquetas] /\ sem \in [Semaforos -> Nat]
      /\ "esperar" \in Hilos /\ "execute" \in Hilos \ {"esperar"}
      /\ {"s_ready_execute", "s_cpu_desocupado", "s_cont_ready", "s_esperar_cpu", "s_blocked",
          "s_multiprogramacion_actual", "s_pcb_desalojado"} \subseteq Semaforos
      /\ {"retorno", "esperar", "salida", "ready", "blocked"} \subseteq Lugares
  BY ColasTipos DEF Unico, Hilos, Semaforos, Lugares
<1>1. hilo'["execute"] = hilo["execute"]
  BY <1>0 DEF esperar_cpu, Espera, Postea, EsperarRecibe, EsperarLibera, ExitConsola, ExitMemoria,
     Lista, BlockedLista, BlockedHilo, FinInterrupcion, Va
<1>2. Uno(hilo'["execute"] \in {"f_cr", "f_sacar"}) = Uno(hilo["execute"] \in {"f_cr", "f_sacar"}) + 0
  BY <1>1 DEF Uno
<1>3. CASE \/ Espera("esperar", "esperar", "s_esperar_cpu", "recv")
           \/ EsperarLibera("EXIT", "x_consola") \/ EsperarLibera("BLOCKED", "b_listar")
           \/ Postea("esperar", "b_blocked", "s_blocked", "fin_cpu")
           \/ Postea("esperar", "fin_re", "s_ready_execute", "fin_interrupcion")
           \/ ExitConsola \/ BlockedHilo \/ FinInterrupcion
  <2>1. Ocupados' = Ocupados
    BY <1>3, EsperarQuieto, LugaresEsperar, OcupadosPaso
  <2>2. /\ sem'["s_cpu_desocupado"] = sem["s_cpu_desocupado"]
        /\ hilo'["esperar"] \in EntreSalidaYCpu <=> hilo["esperar"] \in EntreSalidaYCpu
    BY <1>0, <1>3 DEF Espera, Postea, Va, sem_wait, sem_post, EsperarLibera, ExitConsola, BlockedHilo,
       FinInterrupcion, EntreSalidaYCpu
  <2>. QED  BY <1>1, <2>1, <2>2, TurnoAjeno
<1>4. CASE EsperarRecibe
  <2>1. Ocupados' = Ocupados
    <3>1. Ocupados' = Ocupados - Uno("retorno" \in EnLaCpu) + Uno("esperar" \in EnLaCpu)
      BY <1>0, <1>4, RecibeTraslada, OcupadosPaso
    <3>. QED  BY <3>1, OcupadosPaso DEF Uno, EnLaCpu
  <2>2. Head(retorno)[1] \in Retornos
    BY <1>0, <1>4, HeadTailProperties DEF EsperarRecibe, Tipos, TypeOK, TypeCanales
  <2>3. /\ sem'["s_cpu_desocupado"] = sem["s_cpu_desocupado"]
        /\ hilo["esperar"] = "recv" /\ hilo'["esperar"] \in Retornos
    BY <1>0, <1>4, <2>2 DEF EsperarRecibe, Va
  <2>. QED  BY <1>1, <2>1, <2>3, TurnoAjeno DEF EntreSalidaYCpu, Retornos
<1>5. CASE Postea("esperar", "x_grado", "s_multiprogramacion_actual", "x_memoria") \/ BlockedLista
  <2>1. Ocupados' = Ocupados + (-1)
    <3>1. \/ Ocupados' = Ocupados - Uno("esperar" \in EnLaCpu) + Uno("salida" \in EnLaCpu)
          \/ Ocupados' = Ocupados - Uno("esperar" \in EnLaCpu) + Uno("blocked" \in EnLaCpu)
      BY <1>0, <1>5, LugaresEsperar, OcupadosPaso
    <3>. QED  BY <3>1, OcupadosPaso DEF Uno, EnLaCpu
  <2>2. /\ sem'["s_cpu_desocupado"] = sem["s_cpu_desocupado"] + 0
        /\ hilo["esperar"] \in {"x_grado", "b_listar"} /\ hilo'["esperar"] \in {"x_memoria", "b_hilo"}
    BY <1>0, <1>5 DEF Postea, Va, sem_post, BlockedLista
  <2>3. Uno(hilo'["esperar"] \in EntreSalidaYCpu) = Uno(hilo["esperar"] \in EntreSalidaYCpu) + 1
    BY <2>2 DEF Uno, EntreSalidaYCpu
  <2>. QED  BY <1>0, <1>2, <2>1, <2>2, <2>3, TurnoPasa
<1>6. CASE Postea("esperar", "fin_cpu", "s_cpu_desocupado", "fin_re")
  <2>1. Ocupados' = Ocupados + 0
    BY <1>6, EsperarQuieto, OcupadosPaso
  <2>2. /\ sem'["s_cpu_desocupado"] = sem["s_cpu_desocupado"] + 1
        /\ hilo["esperar"] = "fin_cpu" /\ hilo'["esperar"] = "fin_re"
    BY <1>0, <1>6 DEF Postea, Va, sem_post
  <2>3. Uno(hilo'["esperar"] \in EntreSalidaYCpu) = Uno(hilo["esperar"] \in EntreSalidaYCpu) + (-1)
    BY <2>2 DEF Uno, EntreSalidaYCpu
  <2>. QED  BY <1>0, <1>2, <2>1, <2>2, <2>3, TurnoPasa
<1>7. CASE ExitMemoria
  <2>1. Ocupados' = Ocupados
    BY <1>7, LugaresEsperar, OcupadosPaso
  <2>2. /\ sem'["s_cpu_desocupado"] = sem["s_cpu_desocupado"]
        /\ hilo'["esperar"] \in EntreSalidaYCpu <=> hilo["esperar"] \in EntreSalidaYCpu
    BY <1>0, <1>7 DEF ExitMemoria, Va, EntreSalidaYCpu
  <2>. QED  BY <1>1, <2>1, <2>2, TurnoAjeno
<1>8. CASE \/ EsperarLibera("INTERRUPTION", "i_listar") \/ Lista("esperar", "i_listar", "i_cr")
           \/ Postea("esperar", "i_cr", "s_cont_ready", "i_desalojado")
           \/ Postea("esperar", "i_desalojado", "s_pcb_desalojado", "esperar")
  BY <1>8 DEF EsperarLibera, Lista, Postea, Va, SinDesalojo
<1>. QED  BY <1>3, <1>4, <1>5, <1>6, <1>7, <1>8 DEF esperar_cpu

LEMMA TurnoNext ==
  ASSUME Algoritmo = "FIFO"
  PROVE  Unico /\ SinDesalojo /\ Turno /\ [Next]_vars => Turno'
<1>. SUFFICES ASSUME Unico, SinDesalojo, Turno, [Next]_vars PROVE Turno'
  OBVIOUS
<1>0. /\ Tipos /\ hilo \in [Hilos -> Etiquetas] /\ sem \in [Semaforos -> Nat]
      /\ {"pasaje", "io"} \subseteq Hilos /\ {"execute", "esperar"} \subseteq Hilos \ {"pasaje", "io"}
      /\ {"s_ready_execute", "s_cpu_desocupado", "s_cont_ready", "s_pasaje_a_ready", "s_blocked",
          "s_multiprogramacion_actual"} \subseteq Semaforos
      /\ {"new", "pasaje", "ready", "sready", "blocked", "io", "suspendido", "listo"}
           \subseteq Lugares \ EnLaCpu
      /\ {"dispatch", "cpu", "retorno"} \subseteq Lugares \cap EnLaCpu
  BY ColasTipos DEF Unico, Hilos, Semaforos, Lugares, EnLaCpu
<1>t. ASSUME NEW p, NEW l, NEW m, Traslada(p, l, m),
             l \in Lugares /\ m \in Lugares /\ (l \in EnLaCpu <=> m \in EnLaCpu)
      PROVE  Ocupados' = Ocupados
  <2>1. Ocupados' = Ocupados - Uno(l \in EnLaCpu) + Uno(m \in EnLaCpu) /\ Ocupados \in Nat
    BY <1>t, OcupadosPaso
  <2>. QED  BY <1>t, <2>1 DEF Uno
<1>1. CASE pasaje_a_ready /\ UNCHANGED cpuVars
  <2>1. \/ Quieto
        \/ Traslada(Head(cola_new), "new", "pasaje")
        \/ Traslada(Head(cola_suspended_ready), "sready", "pasaje")
        \/ Traslada(mano["pasaje"], "pasaje", "ready")
    BY <1>1, LugaresPasaje DEF pasaje_a_ready
  <2>2. Ocupados' = Ocupados
    BY <1>0, <1>t, <2>1, OcupadosPaso
  <2>3. /\ sem'["s_cpu_desocupado"] = sem["s_cpu_desocupado"]
        /\ hilo'["esperar"] = hilo["esperar"] /\ hilo'["execute"] = hilo["execute"]
    BY <1>0, <1>1 DEF pasaje_a_ready, Espera, Postea, PasajeMira, PasajeNew, PasajeSusp, Lista, Va,
       sem_wait, sem_post
  <2>. QED  BY <2>2, <2>3, TurnoAjeno
<1>2. CASE ejecutar_io /\ UNCHANGED cpuVars
  <2>1. \/ Quieto
        \/ Traslada(mano["io"], "blocked", "io") \/ Traslada(mano["io"], "io", "suspendido")
        \/ Traslada(mano["io"], "io", "listo") \/ Traslada(mano["io"], "suspendido", "sready")
        \/ Traslada(mano["io"], "listo", "ready")
    BY <1>2, LugaresIo DEF ejecutar_io
  <2>2. Ocupados' = Ocupados
    BY <1>0, <1>t, <2>1, OcupadosPaso
  <2>3. /\ sem'["s_cpu_desocupado"] = sem["s_cpu_desocupado"]
        /\ hilo'["esperar"] = hilo["esperar"] /\ hilo'["execute"] = hilo["execute"]
    BY <1>0, <1>2 DEF ejecutar_io, Espera, Postea, IoToma, IoTermina, IoIteracion, IoSuspendido, IoListo,
       IoEncola, Lista, Va, sem_wait, sem_post
  <2>. QED  BY <2>2, <2>3, TurnoAjeno
<1>3. CASE \/ (\E p \in Pids : procesar_socket(p)) /\ UNCHANGED cpuVars
           \/ (\E v \in suspendiendo : hilo_suspendido(v)) /\ UNCHANGED cpuVars
  <2>1. Ocupados' = Ocupados
    BY <1>3, LugaresConsola, LugaresSuspendiendo, OcupadosPaso DEF procesar_socket
  <2>2. hilo' = hilo /\ sem'["s_cpu_desocupado"] = sem["s_cpu_desocupado"]
    BY <1>0, <1>3 DEF procesar_socket, ConsolaEncola, ConsolaSocket, ConsolaIteracion, ConsolaAvisa,
       hilo_suspendido, SuspendiendoArranca, SuspendiendoDespierta, SuspendiendoSuelta, sem_post
  <2>. QED  BY <2>1, <2>2, TurnoAjeno
<1>4. CASE Cpu
  <2>1. Quieto \/ Traslada(Head(dispatch), "dispatch", "cpu") \/ Traslada(cpuPcb, "cpu", "retorno")
    BY <1>4, LugaresCpu DEF Cpu, NextCpu, CpuMain
  <2>2. Ocupados' = Ocupados
    BY <1>0, <1>t, <2>1, OcupadosPaso
  <2>3. hilo' = hilo /\ sem' = sem
    BY <1>4 DEF Cpu, kernelVars
  <2>. QED  BY <2>2, <2>3, TurnoAjeno
<1>5. CASE MemoriaElimina \/ UNCHANGED vars
  <2>1. Quieto
    BY <1>5, LugaresMemoria DEF Quieto, En, Lugares, Enlazado, PidsDe, vars, kernelVars, colaVars,
       canalVars, cpuVars
  <2>2. hilo' = hilo /\ sem' = sem
    BY <1>5 DEF MemoriaElimina, vars, kernelVars
  <2>. QED  BY <2>1, <2>2, OcupadosPaso, TurnoAjeno
<1>. QED  BY <1>1, <1>2, <1>3, <1>4, <1>5, TurnoExecute, TurnoEsperar
          DEF Next, Kernel, NextKernel, ready_execute

LEMMA AvisadosTipos ==
  ASSUME Tipos
  PROVE  /\ Len(lista_ready) \in Nat /\ sem["s_ready_execute"] \in Nat /\ lista_ready \in Seq(Pids)
         /\ Sacando \in Nat /\ DebePasaje \in Nat /\ DebeIo \in Nat
<1>1. sem \in [Semaforos -> Nat] /\ lista_ready \in Seq(Pids)
  BY DEF Tipos, TypeOK, TypeKernel, TypeSem, TypeColas
<1>2. Sacando \in Nat /\ DebePasaje \in Nat /\ DebeIo \in Nat
  BY DEF Sacando, DebePasaje, DebeIo, Uno
<1>. QED  BY <1>1, <1>2, Nombres

LEMMA AvisadosAjeno ==
  ASSUME Avisados, lista_ready' = lista_ready,
         sem'["s_ready_execute"] = sem["s_ready_execute"],
         hilo'["execute"] \in {"f_cpu", "f_cr", "f_sacar"} <=> hilo["execute"] \in {"f_cpu", "f_cr", "f_sacar"},
         hilo'["pasaje"] = "re" <=> hilo["pasaje"] = "re",
         hilo'["io"] = "io_re" <=> hilo["io"] = "io_re"
  PROVE  Avisados'
BY DEF Avisados, Sacando, DebePasaje, DebeIo, Uno

LEMMA AvisadosExecute ==
  ASSUME Tipos, Avisados, fifo_ready_execute
  PROVE  Avisados'
<1>0. /\ hilo \in [Hilos -> Etiquetas] /\ sem \in [Semaforos -> Nat] /\ lista_ready \in Seq(Pids)
      /\ "execute" \in Hilos /\ {"pasaje", "io"} \subseteq Hilos \ {"execute"}
      /\ {"s_ready_execute", "s_cpu_desocupado", "s_cont_ready", "s_esperar_cpu"} \subseteq Semaforos
  BY ColasTipos, AvisadosTipos DEF Hilos, Semaforos
<1>. DEFINE Dentro == {"f_cpu", "f_cr", "f_sacar"}
<1>1. hilo'["pasaje"] = hilo["pasaje"] /\ hilo'["io"] = hilo["io"]
  BY <1>0 DEF fifo_ready_execute, Espera, Postea, Saca, ExecuteEnvia, Va
<1>2. /\ DebePasaje' = DebePasaje
      /\ DebeIo' = DebeIo
  BY <1>1 DEF Uno, Sacando, DebePasaje, DebeIo
<1>3. CASE Espera("execute", "f_re", "s_ready_execute", "f_cpu")
  <2>1. /\ hilo["execute"] = "f_re" /\ hilo'["execute"] = "f_cpu"
        /\ sem'["s_ready_execute"] = sem["s_ready_execute"] - 1 /\ lista_ready' = lista_ready
    BY <1>0, <1>3 DEF Espera, Va, sem_wait, colaVars
  <2>2. Sacando' = Sacando + 1
    BY <2>1 DEF Uno, Sacando, DebePasaje, DebeIo
  <2>3. Len(lista_ready') = Len(lista_ready)
    BY <1>0, <2>1
  <2>. QED  BY <1>2, <2>1, <2>2, <2>3, AvisadosTipos DEF Avisados
<1>4. CASE Saca("f_sacar", 1, "enviar")
  <2>1. /\ hilo["execute"] = "f_sacar" /\ hilo'["execute"] = "enviar" /\ 1 \in DOMAIN lista_ready
        /\ sem'["s_ready_execute"] = sem["s_ready_execute"]  /\ lista_ready' = RemoveAt(lista_ready, 1)
    BY <1>0, <1>4 DEF Saca, Va
  <2>2. Sacando' = Sacando - 1
    BY <2>1 DEF Uno, Sacando, DebePasaje, DebeIo
  <2>3. Len(lista_ready') = Len(lista_ready) - 1
    BY <1>0, <2>1, ListaSaca
  <2>. QED  BY <1>2, <2>1, <2>2, <2>3, AvisadosTipos DEF Avisados
<1>5. CASE \/ Espera("execute", "f_cpu", "s_cpu_desocupado", "f_cr")
           \/ Espera("execute", "f_cr", "s_cont_ready", "f_sacar")
           \/ Postea("execute", "avisar", "s_esperar_cpu", "f_re") \/ ExecuteEnvia
  <2>1. /\ lista_ready' = lista_ready /\ sem'["s_ready_execute"] = sem["s_ready_execute"]
        /\ hilo'["execute"] \in Dentro <=> hilo["execute"] \in Dentro
    BY <1>0, <1>5 DEF Espera, Postea, ExecuteEnvia, Va, sem_wait, sem_post, colaVars
  <2>. QED  BY <1>1, <2>1, AvisadosAjeno
<1>. QED  BY <1>3, <1>4, <1>5 DEF fifo_ready_execute

\* pasaje_a_ready and ejecutar_io list a process and post for it, in that order.
LEMMA AvisadosLista ==
  ASSUME Tipos, Avisados, pasaje_a_ready \/ ejecutar_io
  PROVE  Avisados'
<1>0. /\ hilo \in [Hilos -> Etiquetas] /\ sem \in [Semaforos -> Nat] /\ lista_ready \in Seq(Pids)
      /\ {"pasaje", "io", "execute"} \subseteq Hilos
      /\ {"s_ready_execute", "s_pasaje_a_ready", "s_cont_ready", "s_blocked",
          "s_multiprogramacion_actual"} \subseteq Semaforos
  BY ColasTipos, AvisadosTipos DEF Hilos, Semaforos
<1>. DEFINE Dentro == {"f_cpu", "f_cr", "f_sacar"}
<1>1. hilo'["execute"] = hilo["execute"]
  BY <1>0 DEF pasaje_a_ready, ejecutar_io, Espera, Postea, PasajeMira, PasajeNew, PasajeSusp, Lista,
     IoToma, IoTermina, IoIteracion, IoSuspendido, IoListo, IoEncola, Va
<1>2. Sacando' = Sacando
  BY <1>1 DEF Uno, Sacando, DebePasaje, DebeIo
<1>3. CASE Lista("pasaje", "listar", "re") \/ Lista("io", "listo", "io_re")
  <2>1. PICK h \in {"pasaje", "io"} :
          /\ h = "pasaje" => Lista("pasaje", "listar", "re")
          /\ h = "io" => Lista("io", "listo", "io_re")
    BY <1>3
  <2>2. /\ hilo[h] \in {"listar", "listo"} /\ \A k \in Hilos \ {h} : hilo'[k] = hilo[k]
        /\ hilo'[h] = IF h = "pasaje" THEN "re" ELSE "io_re"
        /\ lista_ready' = Append(lista_ready, mano[h]) /\ sem' = sem
    BY <1>0, <2>1 DEF Lista, Va
  <2>3. mano[h] \in Pids
    BY <1>0, <2>2 DEF Tipos, Manos, ConProceso
  <2>4. Len(lista_ready') = Len(lista_ready) + 1 /\ sem'["s_ready_execute"] = sem["s_ready_execute"]
    BY <1>0, <2>2, <2>3, ListaAgrega
  <2>5. CASE h = "pasaje"
    <3>1. /\ DebePasaje' = DebePasaje + 1
          /\ DebeIo' = DebeIo
      BY <1>0, <2>2, <2>5 DEF Uno, Sacando, DebePasaje, DebeIo
    <3>. QED  BY <1>2, <2>4, <3>1, AvisadosTipos DEF Avisados
  <2>6. CASE h = "io"
    <3>1. /\ DebePasaje' = DebePasaje
          /\ DebeIo' = DebeIo + 1
      BY <1>0, <2>2, <2>6 DEF Uno, Sacando, DebePasaje, DebeIo
    <3>. QED  BY <1>2, <2>4, <3>1, AvisadosTipos DEF Avisados
  <2>. QED  BY <2>5, <2>6
<1>4. CASE Postea("pasaje", "re", "s_ready_execute", "cr") \/ Postea("io", "io_re", "s_ready_execute", "io_cr")
  <2>1. PICK h \in {"pasaje", "io"} :
          /\ h = "pasaje" => Postea("pasaje", "re", "s_ready_execute", "cr")
          /\ h = "io" => Postea("io", "io_re", "s_ready_execute", "io_cr")
    BY <1>4
  <2>2. /\ hilo[h] = (IF h = "pasaje" THEN "re" ELSE "io_re") /\ hilo'[h] \in {"cr", "io_cr"}
        /\ \A k \in Hilos \ {h} : hilo'[k] = hilo[k]
        /\ lista_ready' = lista_ready /\ sem'["s_ready_execute"] = sem["s_ready_execute"] + 1
    BY <1>0, <2>1 DEF Postea, Va, sem_post, colaVars
  <2>3. Len(lista_ready') = Len(lista_ready)
    BY <1>0, <2>2
  <2>5. CASE h = "pasaje"
    <3>1. /\ DebePasaje' = DebePasaje - 1
          /\ DebeIo' = DebeIo
      BY <1>0, <2>2, <2>5 DEF Uno, Sacando, DebePasaje, DebeIo
    <3>. QED  BY <1>2, <2>2, <2>3, <3>1, AvisadosTipos DEF Avisados
  <2>6. CASE h = "io"
    <3>1. /\ DebePasaje' = DebePasaje
          /\ DebeIo' = DebeIo - 1
      BY <1>0, <2>2, <2>6 DEF Uno, Sacando, DebePasaje, DebeIo
    <3>. QED  BY <1>2, <2>2, <2>3, <3>1, AvisadosTipos DEF Avisados
  <2>. QED  BY <2>5, <2>6
<1>5. CASE \/ Espera("pasaje", "pasaje", "s_pasaje_a_ready", "grado")
           \/ Espera("pasaje", "grado", "s_multiprogramacion_actual", "mirar")
           \/ PasajeMira \/ PasajeNew \/ PasajeSusp
           \/ Postea("pasaje", "cr", "s_cont_ready", "pasaje")
  <2>1. /\ lista_ready' = lista_ready /\ sem'["s_ready_execute"] = sem["s_ready_execute"]
        /\ hilo["pasaje"] # "re" /\ hilo'["pasaje"] # "re" /\ hilo'["io"] = hilo["io"]
    BY <1>0, <1>5 DEF Espera, Postea, PasajeMira, PasajeNew, PasajeSusp, Va, sem_wait, sem_post, colaVars
  <2>. QED  BY <1>1, <2>1, AvisadosAjeno
<1>6. CASE \/ Espera("io", "blocked", "s_blocked", "tomar")
           \/ IoToma \/ IoTermina \/ IoIteracion \/ IoSuspendido \/ IoListo \/ IoEncola
           \/ Postea("io", "io_pasaje", "s_pasaje_a_ready", "blocked")
           \/ Postea("io", "io_cr", "s_cont_ready", "blocked")
  <2>1. /\ lista_ready' = lista_ready /\ sem'["s_ready_execute"] = sem["s_ready_execute"]
        /\ hilo["io"] # "io_re" /\ hilo'["io"] # "io_re" /\ hilo'["pasaje"] = hilo["pasaje"]
    BY <1>0, <1>6 DEF Espera, Postea, IoToma, IoTermina, IoIteracion, IoSuspendido, IoListo, IoEncola,
       Va, sem_wait, sem_post, colaVars
  <2>. QED  BY <1>1, <2>1, AvisadosAjeno
<1>. QED  BY <1>3, <1>4, <1>5, <1>6 DEF pasaje_a_ready, ejecutar_io

LEMMA AvisadosEsperar ==
  ASSUME Tipos, SinDesalojo, Avisados, esperar_cpu
  PROVE  Avisados'
<1>0. /\ hilo \in [Hilos -> Etiquetas] /\ sem \in [Semaforos -> Nat]
      /\ "esperar" \in Hilos /\ {"execute", "pasaje", "io"} \subseteq Hilos \ {"esperar"}
      /\ {"s_ready_execute", "s_cpu_desocupado", "s_cont_ready", "s_esperar_cpu", "s_blocked",
          "s_multiprogramacion_actual", "s_pcb_desalojado"} \subseteq Semaforos
  BY ColasTipos, AvisadosTipos DEF Hilos, Semaforos
<1>1. \A h \in {"execute", "pasaje", "io"} : hilo'[h] = hilo[h]
  BY <1>0 DEF esperar_cpu, Espera, Postea, EsperarRecibe, EsperarLibera, ExitConsola, ExitMemoria,
     Lista, BlockedLista, BlockedHilo, FinInterrupcion, Va
<1>2. lista_ready' = lista_ready
  BY DEF esperar_cpu, Espera, Postea, EsperarRecibe, EsperarLibera, ExitConsola, ExitMemoria,
     Lista, BlockedLista, BlockedHilo, FinInterrupcion, colaVars, Va, SinDesalojo
<1>3. CASE Postea("esperar", "fin_re", "s_ready_execute", "fin_interrupcion")
  <2>1. sem'["s_ready_execute"] = sem["s_ready_execute"] + 1
    BY <1>0, <1>3 DEF Postea, sem_post
  <2>2. /\ Len(lista_ready') = Len(lista_ready)
        /\ Sacando' = Sacando
        /\ DebePasaje' = DebePasaje
        /\ DebeIo' = DebeIo
    BY <1>0, <1>1, <1>2 DEF Uno, Sacando, DebePasaje, DebeIo
  <2>. QED  BY <2>1, <2>2, AvisadosTipos DEF Avisados
<1>4. CASE ~Postea("esperar", "fin_re", "s_ready_execute", "fin_interrupcion")
  <2>1. sem'["s_ready_execute"] = sem["s_ready_execute"]
    BY <1>0, <1>4 DEF esperar_cpu, Espera, Postea, EsperarRecibe, EsperarLibera, ExitConsola, ExitMemoria,
       Lista, BlockedLista, BlockedHilo, FinInterrupcion, sem_post, sem_wait
  <2>. QED  BY <1>1, <1>2, <2>1, AvisadosAjeno
<1>. QED  BY <1>3, <1>4

LEMMA AvisadosNext ==
  ASSUME Algoritmo = "FIFO"
  PROVE  Tipos /\ SinDesalojo /\ Avisados /\ [Next]_vars => Avisados'
<1>. SUFFICES ASSUME Tipos, SinDesalojo, Avisados, [Next]_vars PROVE Avisados'
  OBVIOUS
<1>1. CASE \/ \E p \in Pids : procesar_socket(p)
           \/ \E v \in suspendiendo : hilo_suspendido(v)
  <2>1. hilo' = hilo /\ lista_ready' = lista_ready /\ sem'["s_ready_execute"] = sem["s_ready_execute"]
    BY <1>1, ColasTipos, Nombres DEF procesar_socket, ConsolaEncola, ConsolaSocket, ConsolaIteracion,
       ConsolaAvisa, hilo_suspendido, SuspendiendoArranca, SuspendiendoDespierta, SuspendiendoSuelta,
       sem_post, colaVars, Semaforos
  <2>. QED  BY <2>1, AvisadosAjeno
<1>2. CASE Cpu \/ MemoriaElimina \/ UNCHANGED vars
  <2>1. hilo' = hilo /\ lista_ready' = lista_ready /\ sem' = sem
    BY <1>2 DEF Cpu, MemoriaElimina, vars, kernelVars, colaVars
  <2>. QED  BY <2>1, AvisadosAjeno
<1>. QED  BY <1>1, <1>2, AvisadosExecute, AvisadosLista, AvisadosEsperar
          DEF Next, Kernel, NextKernel, ready_execute

Fifo == UnicoSalidas /\ SinDesalojo /\ Turno /\ Avisados

LEMMA FifoInit == Algoritmo = "FIFO" /\ Init => Fifo
<1>. SUFFICES ASSUME Algoritmo = "FIFO", Init PROVE Fifo
  OBVIOUS
<1>1. UnicoSalidas /\ SinDesalojo
  BY UnicoInit, SinDesalojoInit
<1>2. hilo["execute"] = "f_re" /\ hilo["esperar"] = "esperar" /\ hilo["pasaje"] = "pasaje" /\ hilo["io"] = "blocked"
  BY DEF Init, InitKernel, Hilos
<1>3. sem["s_cpu_desocupado"] = 1 /\ sem["s_ready_execute"] = 0 /\ lista_ready = << >>
  BY DEF Init, InitKernel, Semaforos
<1>4. Ocupados = 0
  <2>1. /\ En["execute"] = << >> /\ En["dispatch"] = << >> /\ En["cpu"] = << >>
        /\ En["retorno"] = << >> /\ En["esperar"] = << >>
    BY <1>2 DEF En, Lugares, Enlazado, PidsDe, Init, InitCanales, InitCpu, Retornos
  <2>. QED  BY <2>1 DEF Ocupados, EnLaCpu
<1>. QED  BY <1>1, <1>2, <1>3, <1>4 DEF Fifo, Turno, Avisados, Sacando, DebePasaje, DebeIo, Uno, EntreSalidaYCpu

LEMMA FifoNext ==
  ASSUME Algoritmo = "FIFO"
  PROVE  Fifo /\ [Next]_vars => Fifo'
BY UnicoNext, SinDesalojoNext, TurnoNext, AvisadosNext DEF Fifo, UnicoSalidas, Unico

LEMMA EnCpuOcupados ==
  ASSUME Unico
  PROVE  Len(EnCpu) = Ocupados
<1>1. \A l \in {"execute", "dispatch", "cpu", "retorno", "esperar"} :
        En[l] \in Seq(Pids) /\ Len(En[l]) \in Nat
  BY DEF Unico, Repartida, Lugares
<1>2. EnCpu = ((((En["execute"] \o En["dispatch"]) \o En["cpu"]) \o En["retorno"]) \o En["esperar"])
  BY DEF EnCpu, En, Lugares
<1>. QED  BY <1>1, <1>2, ConcatProperties DEF Ocupados

\* Under FIFO the CPU and its socket have at most one process at a time:
\* s_cpu_desocupado is a mutual exclusion taken by one thread of the kernel and
\* given back by another, and it covers the PCB's whole round trip.
THEOREM CpuExclusivaCorrecta ==
  ASSUME Algoritmo = "FIFO"
  PROVE  Spec => []CpuExclusiva
<1>1. Fifo => CpuExclusiva
  <2>. SUFFICES ASSUME Fifo PROVE Ocupados <= 1
    BY EnCpuOcupados DEF CpuExclusiva, Fifo, UnicoSalidas
  <2>1. Ocupados \in Nat /\ sem["s_cpu_desocupado"] \in Nat
    BY OcupadosPaso, ColasTipos, Nombres DEF Fifo, UnicoSalidas, Unico
  <2>2. /\ Uno(hilo["execute"] \in {"f_cr", "f_sacar"}) \in Nat
        /\ Uno(hilo["esperar"] \in EntreSalidaYCpu) \in Nat
    BY DEF Uno
  <2>. QED  BY <2>1, <2>2 DEF Fifo, Turno
<1>. QED  BY <1>1, FifoInit, FifoNext, PTL DEF Spec

\* Under FIFO no ready process is forgotten: whenever the scheduler waits to be
\* told to dispatch and the CPU is free, the thread that listed the process has
\* yet to post s_ready_execute, whatever was posted and taken before.
THEOREM SinOlvidadosCorrecto ==
  ASSUME Algoritmo = "FIFO"
  PROVE  Spec => []SinListosOlvidados
<1>1. Fifo => SinListosOlvidados
  <2>. SUFFICES ASSUME Fifo, hilo["execute"] \in {"f_re", "s_re"}, sem["s_ready_execute"] = 0,
                       lista_ready # << >>
                PROVE  hilo["pasaje"] = "re" \/ hilo["io"] = "io_re"
    BY DEF SinListosOlvidados
  <2>1. Len(lista_ready) \in Nat /\ Len(lista_ready) # 0
    BY AvisadosTipos DEF Fifo, UnicoSalidas, Unico, Tipos, TypeOK, TypeKernel, TypeColas
  <2>2. Len(lista_ready) <= DebePasaje + DebeIo
    BY DEF Fifo, Avisados, Sacando, DebePasaje, DebeIo, Uno
  <2>. QED  BY <2>1, <2>2 DEF DebePasaje, DebeIo, Uno
<1>. QED  BY <1>1, FifoInit, FifoNext, PTL DEF Spec
=============================================================================
