------------------------ MODULE PlanificacionLugares ------------------------
(***************************************************************************)
(* Two invariants the other proofs about Planificacion start from, for     *)
(* every set of processes, every set of programs, every multiprogramming   *)
(* degree and both algorithms.  Tipos strengthens TypeOK with what types   *)
(* need to be inductive: a thread that is about to use the process in its  *)
(* hand holds one.  Lugares are the places a PCB may be in, every queue,   *)
(* hand and socket: a step of any thread takes at most one PCB from one of *)
(* them to another.                                                        *)
(***************************************************************************)
EXTENDS Planificacion, Listas

\* list_remove takes one element out of a list (so-commons list_remove).
LEMMA RemoveAtProps ==
  ASSUME NEW S, NEW s \in Seq(S), NEW i \in DOMAIN s
  PROVE  RemoveAt(s, i) \in Seq(S) /\ Len(RemoveAt(s, i)) = Len(s) - 1
<1>1. i \in 1 .. Len(s) /\ Len(s) \in Nat
  OBVIOUS
<1>. DEFINE a == SubSeq(s, 1, i-1)
            b == SubSeq(s, i+1, Len(s))
<1>2. a \in Seq(S) /\ Len(a) = i - 1
  BY <1>1, SubSeqProperties
<1>3. b \in Seq(S) /\ Len(b) = Len(s) - i
  BY <1>1, SubSeqProperties
<1>4. a \o b \in Seq(S) /\ Len(a \o b) = Len(a) + Len(b)
  <2>. HIDE DEF a, b
  <2>. QED  BY <1>2, <1>3, ConcatProperties
<1>5. RemoveAt(s, i) = a \o b
  BY DEF RemoveAt
<1>. HIDE DEF a, b
<1>6. RemoveAt(s, i) \in Seq(S)
  BY <1>4, <1>5
<1>7. Len(RemoveAt(s, i)) = (i - 1) + (Len(s) - i)
  BY <1>2, <1>3, <1>4, <1>5
<1>. QED  BY <1>1, <1>6, <1>7

-----------------------------------------------------------------------------
(* Types                                                                   *)

\* The labels at which a scheduler thread has a process in its hands.
ConProceso == {"listar", "s_ocupar", "enviar", "i_listar", "b_listar", "b_hilo",
               "dormir", "iteracion", "clasificar", "suspendido", "listo"}
              \cup Retornos \cup EtiquetasExit

\* A thread at one of them, and a CPU that is not free, really has one.
Manos ==
  /\ \A h \in Hilos : hilo[h] \in ConProceso => mano[h] \in Pids
  /\ cpuFase # "libre" => cpuPcb \in Pids
  /\ cpuFase \in {"fin", "devolver"} => cpuEstado \in Retornos

Tipos == TypeOK /\ Manos

USE DEF Tipos, Manos, TypeOK, TypeCanales, TypeKernel, TypeCpu, TypeSem, TypeColas,
        TypeRegistro, TypeHilos, TypeManos, TypeSuspendiendo, vars, pcbVars,
        canalVars, memVars, colaVars, registroVars, banderaVars, kernelVars,
        cpuVars, entornoVars, Va, Toma, Suelta, sem_post, sem_wait

LEMMA Nombres ==
  /\ "pasaje" \in Hilos /\ "execute" \in Hilos /\ "esperar" \in Hilos /\ "io" \in Hilos
  /\ "s_pasaje_a_ready" \in Semaforos /\ "s_multiprogramacion_actual" \in Semaforos
  /\ "s_ready_execute" \in Semaforos /\ "s_cont_ready" \in Semaforos
  /\ "s_cpu_desocupado" \in Semaforos /\ "s_esperar_cpu" \in Semaforos
  /\ "s_blocked" \in Semaforos /\ "s_pcb_desalojado" \in Semaforos
BY DEF Hilos, Semaforos

LEMMA TiposInit == Init => Tipos
<1>. SUFFICES ASSUME Init PROVE Tipos
  OBVIOUS
<1>. USE DEF Init, InitCanales, InitKernel, InitCpu
<1>1. TypeCanales
  BY EstimacionAssumption
<1>2. TypeSem
  BY GradoAssumption
<1>3. TypeHilos
  BY AlgoritmoAssumption DEF Etiquetas, EtiquetasPasaje, EtiquetasExecute,
     EtiquetasFifo, EtiquetasSrt, EtiquetasEsperar, EtiquetasIo, Hilos
<1>4. TypeColas /\ TypeManos /\ TypeSuspendiendo
  OBVIOUS
<1>7. TypeCpu
  OBVIOUS
<1>5. TypeRegistro
  BY DEF EtiquetasConsola
<1>6. Manos
  BY AlgoritmoAssumption DEF Hilos, ConProceso, Retornos, EtiquetasExit
<1>. QED  BY <1>1, <1>2, <1>3, <1>4, <1>5, <1>6, <1>7

\* A step of a thread that is one semaphore operation keeps the types if it
\* goes to a label of the thread's that needs no process it did not have.
LEMMA SemaforoTipos ==
  ASSUME Tipos, UNCHANGED cpuVars,
         NEW h \in Hilos, NEW a, NEW b \in Etiquetas, NEW s \in Semaforos,
         b \in ConProceso => a \in ConProceso,
         Postea(h, a, s, b) \/ Espera(h, a, s, b)
  PROVE  Tipos'
<1>. USE DEF Postea, Espera
<1>1. TypeSem'
  <2>1. sem \in [Semaforos -> Nat] /\ sem[s] \in Nat
    OBVIOUS
  <2>2. CASE Postea(h, a, s, b)
    BY <2>1, <2>2
  <2>3. CASE Espera(h, a, s, b)
    BY <2>1, <2>3
  <2>. QED  BY <2>2, <2>3
<1>2. TypeHilos'
  OBVIOUS
<1>3. Manos'
  OBVIOUS
<1>. QED  BY <1>1, <1>2, <1>3

LEMMA TiposConsola ==
  ASSUME Tipos, NEW p \in Pids, procesar_socket(p), UNCHANGED cpuVars
  PROVE  Tipos'
<1>. USE DEF EtiquetasConsola
<1>1. CASE ConsolaEncola(p)
  <2>1. TypeColas'
    BY <1>1 DEF ConsolaEncola
  <2>2. TypeRegistro'
    BY <1>1 DEF ConsolaEncola
  <2>. QED  BY <1>1, <2>1, <2>2 DEF ConsolaEncola
<1>2. CASE ConsolaSocket(p)
  BY <1>2 DEF ConsolaSocket
<1>3. CASE ConsolaIteracion(p)
  BY <1>3 DEF ConsolaIteracion
<1>4. CASE ConsolaAvisa(p)
  <2>0. "s_pasaje_a_ready" \in Semaforos
    BY DEF Semaforos
  <2>1. TypeSem'
    BY <1>4, <2>0 DEF ConsolaAvisa
  <2>. QED  BY <1>4, <2>1 DEF ConsolaAvisa
<1>. QED  BY <1>1, <1>2, <1>3, <1>4 DEF procesar_socket

\* The labels and semaphores of the scheduler threads, as facts.
LEMMA Hechos ==
  /\ EtiquetasPasaje \subseteq Etiquetas /\ EtiquetasExecute \subseteq Etiquetas
  /\ EtiquetasEsperar \subseteq Etiquetas /\ EtiquetasIo \subseteq Etiquetas
  /\ EtiquetasPasaje \cap ConProceso = {"listar"}
  /\ "listar" \in ConProceso /\ "re" \in Etiquetas \ ConProceso
  /\ EtiquetasExecute \cap ConProceso = {"s_ocupar", "enviar"}
  /\ EtiquetasIo \cap ConProceso = {"dormir", "iteracion", "clasificar", "suspendido", "listo"}
BY DEF Etiquetas, EtiquetasPasaje, EtiquetasExecute, EtiquetasFifo, EtiquetasSrt,
       EtiquetasIo, ConProceso, Retornos, EtiquetasExit

\* list_add(lista_ready, proceso) by the thread that holds the process.
LEMMA ListaTipos ==
  ASSUME Tipos, UNCHANGED cpuVars, NEW h \in Hilos, NEW a \in ConProceso,
         NEW b \in Etiquetas \ ConProceso, Lista(h, a, b)
  PROVE  Tipos'
<1>. USE DEF Lista
<1>1. TypeColas'
  OBVIOUS
<1>2. TypeHilos' /\ TypeManos'
  OBVIOUS
<1>3. Manos'
  OBVIOUS
<1>. QED  BY <1>1, <1>2, <1>3

LEMMA TiposPasaje ==
  ASSUME Tipos, pasaje_a_ready, UNCHANGED cpuVars
  PROVE  Tipos'
<1>. USE Nombres
<1>e. EtiquetasPasaje \subseteq Etiquetas /\ EtiquetasPasaje \cap ConProceso = {"listar"}
  BY Hechos
<1>s. ASSUME NEW a, NEW b \in EtiquetasPasaje \ {"listar"}, NEW s,
             Espera("pasaje", a, s, b) \/ Postea("pasaje", a, s, b), s \in Semaforos
      PROVE  Tipos'
  <2>. HIDE DEF Tipos
  <2>. QED  BY <1>s, <1>e, SemaforoTipos
<1>. USE <1>e DEF EtiquetasPasaje
<1>1. CASE Espera("pasaje", "pasaje", "s_pasaje_a_ready", "grado")
  BY <1>1, <1>s
<1>2. CASE Espera("pasaje", "grado", "s_multiprogramacion_actual", "mirar")
  BY <1>2, <1>s
<1>3. CASE PasajeMira
  <2>. USE <1>3 DEF PasajeMira
  <2>1. TypeHilos'
    OBVIOUS
  <2>2. Manos'
    OBVIOUS
  <2>. QED  BY <2>1, <2>2
<1>4. CASE PasajeNew
  <2>. USE <1>4 DEF PasajeNew
  <2>1. Head(cola_new) \in Pids /\ TypeColas'
    OBVIOUS
  <2>2. TypeCanales'
    BY <2>1
  <2>3. TypeHilos' /\ TypeManos' /\ Manos'
    BY <2>1
  <2>. QED  BY <2>1, <2>2, <2>3
<1>5. CASE PasajeSusp
  <2>. USE <1>5 DEF PasajeSusp
  <2>1. Head(cola_suspended_ready) \in Pids /\ TypeColas'
    OBVIOUS
  <2>2. TypeHilos' /\ TypeManos' /\ Manos'
    BY <2>1
  <2>. QED  BY <2>1, <2>2
<1>6. CASE Lista("pasaje", "listar", "re")
  <2>. HIDE DEF Tipos
  <2>. QED  BY <1>6, Hechos, ListaTipos
<1>7. CASE Postea("pasaje", "re", "s_ready_execute", "cr")
  BY <1>7, <1>s
<1>8. CASE Postea("pasaje", "cr", "s_cont_ready", "pasaje")
  BY <1>8, <1>s
<1>. QED
  BY <1>1, <1>2, <1>3, <1>4, <1>5, <1>6, <1>7, <1>8 DEF pasaje_a_ready

\* list_remove(lista_ready, i) by the short-term scheduler.
LEMMA SacaTipos ==
  ASSUME Tipos, UNCHANGED cpuVars, NEW a, NEW b \in Etiquetas, NEW i, Saca(a, i, b)
  PROVE  Tipos'
<1>. USE Nombres DEF Saca
<1>1. lista_ready[i] \in Pids
  OBVIOUS
<1>2. TypeColas'
  BY RemoveAtProps
<1>3. TypeHilos' /\ TypeManos'
  BY <1>1
<1>4. Manos'
  BY <1>1
<1>. QED  BY <1>2, <1>3, <1>4

LEMMA EnviaTipos == ASSUME Tipos, UNCHANGED cpuVars, ExecuteEnvia PROVE Tipos'
<1>. USE Nombres DEF ExecuteEnvia
<1>e. "avisar" \in Etiquetas \ ConProceso /\ "enviar" \in ConProceso
  BY DEF Etiquetas, EtiquetasExecute, ConProceso, Retornos, EtiquetasExit
<1>1. mano["execute"] \in Pids
  BY <1>e
<1>2. TypeCanales'
  <2>1. dispatch' \in Seq(Pids)
    BY <1>1
  <2>. QED  BY <2>1
<1>3. TypeSuspendiendo'
  <2>1. ASSUME NEW v \in suspendiendo
        PROVE  [v EXCEPT !.liberado = TRUE] \in Vigilantes
    BY DEF Vigilantes
  <2>. QED  BY <2>1
<1>4. TypeHilos' /\ TypeManos' /\ Manos'
  BY <1>e
<1>. QED  BY <1>2, <1>3, <1>4

\* Steps of the SRT scheduler that touch its label and one flag.
LEMMA SrtTipos ==
  ASSUME Tipos, UNCHANGED cpuVars, NEW a, NEW b \in Etiquetas \ ConProceso,
         \/ SrtSalta(a, b)
         \/ \E valor \in BOOLEAN : SrtHayInterrupcion(a, valor, b)
  PROVE  Tipos'
<1>. USE Nombres DEF SrtSalta, SrtHayInterrupcion
<1>1. TypeRegistro'
  OBVIOUS
<1>2. TypeHilos'
  OBVIOUS
<1>3. Manos'
  OBVIOUS
<1>. QED  BY <1>1, <1>2, <1>3

\* desalojar_cpu sends one INTERRUPTION more.
LEMMA InterrumpeTipos == ASSUME Tipos, SrtInterrumpe PROVE TypeCanales'
<1>. USE DEF SrtInterrumpe
<1>1. interrupt' \in Nat
  OBVIOUS
<1>2. UNCHANGED <<programa, pc, est, dispatch, retorno, memoria, bajas>>
  OBVIOUS
<1>3. TypeCanales
  OBVIOUS
<1>. HIDE DEF Tipos, TypeOK, SrtInterrumpe
<1>. QED  BY <1>1, <1>2, <1>3

LEMMA TiposExecute ==
  ASSUME Tipos, ready_execute, UNCHANGED cpuVars
  PROVE  Tipos'
<1>. USE Nombres
<1>e. /\ EtiquetasExecute \subseteq Etiquetas
      /\ EtiquetasExecute \cap ConProceso = {"s_ocupar", "enviar"}
  BY Hechos
<1>s. ASSUME NEW a, NEW b \in EtiquetasExecute \ {"s_ocupar", "enviar"}, NEW s \in Semaforos,
             Espera("execute", a, s, b) \/ Postea("execute", a, s, b)
      PROVE  Tipos'
  <2>. HIDE DEF Tipos
  <2>. QED  BY <1>s, <1>e, SemaforoTipos
<1>j. ASSUME NEW a, NEW b \in EtiquetasExecute \ {"s_ocupar", "enviar"},
             \/ SrtSalta(a, b)
             \/ \E valor \in BOOLEAN : SrtHayInterrupcion(a, valor, b)
      PROVE  Tipos'
  <2>. HIDE DEF Tipos
  <2>. QED  BY <1>j, <1>e, SrtTipos
<1>c. ASSUME NEW a, NEW b \in EtiquetasExecute, NEW i, Saca(a, i, b)
      PROVE  Tipos'
  <2>. HIDE DEF Tipos
  <2>. QED  BY <1>c, <1>e, SacaTipos
<1>5. CASE SrtInterrumpe
  <2>1. TypeCanales'
    BY <1>5, InterrumpeTipos
  <2>. USE <1>5, <1>e DEF SrtInterrumpe
  <2>0. "s_esperar" \in EtiquetasExecute
    BY DEF EtiquetasExecute, EtiquetasSrt
  <2>1a. "s_esperar" \notin ConProceso
    BY DEF ConProceso, Retornos, EtiquetasExit
  <2>2. "s_esperar" \in Etiquetas \ ConProceso
    BY <2>0, <2>1a
  <2>3. TypeHilos'
    BY <2>2
  <2>4. Manos'
    BY <2>2
  <2>. QED  BY <2>1, <2>3, <2>4
<1>6. CASE SrtOcupa
  <2>. USE <1>6, <1>e DEF SrtOcupa
  <2>1. TypeRegistro'
    OBVIOUS
  <2>2. TypeHilos' /\ Manos'
    BY DEF EtiquetasExecute
  <2>. QED  BY <2>1, <2>2
<1>. HIDE DEF Tipos
<1>. USE DEF EtiquetasExecute, EtiquetasFifo, EtiquetasSrt
<1>7. CASE fifo_ready_execute
  BY <1>7, <1>s, <1>c, EnviaTipos DEF fifo_ready_execute
<1>8. CASE srt_ready_execute
  <2>1. CASE SrtMira
    BY <2>1, <1>j DEF SrtMira
  <2>2. CASE SrtCpu
    BY <2>2, <1>j DEF SrtCpu
  <2>3. CASE SrtElige
    BY <2>3, <1>c DEF SrtElige
  <2>. QED
    BY <1>8, <1>s, <1>j, <1>5, <1>6, <2>1, <2>2, <2>3, EnviaTipos DEF srt_ready_execute
<1>. QED
  BY <1>7, <1>8 DEF ready_execute

LEMMA HechosEsperar ==
  /\ EtiquetasEsperar \subseteq Etiquetas
  /\ EtiquetasEsperar \cap ConProceso
       = Retornos \cup EtiquetasExit \cup {"i_listar", "b_listar", "b_hilo"}
BY DEF Etiquetas, EtiquetasEsperar, EtiquetasExit, EtiquetasInterruption, EtiquetasBlocked,
       EtiquetasFin, ConProceso, Retornos

\* The steps of esperar_cpu that keep the process they hold, or hold none.
LEMMA TiposEsperarSem ==
  ASSUME Tipos, UNCHANGED cpuVars
  PROVE  /\ Espera("esperar", "esperar", "s_esperar_cpu", "recv") => Tipos'
         /\ Postea("esperar", "x_grado", "s_multiprogramacion_actual", "x_memoria") => Tipos'
         /\ Postea("esperar", "i_cr", "s_cont_ready", "i_desalojado") => Tipos'
         /\ Postea("esperar", "i_desalojado", "s_pcb_desalojado", "esperar") => Tipos'
         /\ Postea("esperar", "b_blocked", "s_blocked", "fin_cpu") => Tipos'
         /\ Postea("esperar", "fin_cpu", "s_cpu_desocupado", "fin_re") => Tipos'
         /\ Postea("esperar", "fin_re", "s_ready_execute", "fin_interrupcion") => Tipos'
<1>1. /\ {"recv", "i_desalojado", "esperar", "fin_cpu", "fin_re", "fin_interrupcion"}
           \subseteq EtiquetasEsperar \ ConProceso
      /\ "x_memoria" \in EtiquetasEsperar /\ "x_grado" \in ConProceso
  BY DEF EtiquetasEsperar, EtiquetasExit, EtiquetasInterruption, EtiquetasBlocked,
         EtiquetasFin, ConProceso, Retornos
<1>. HIDE DEF Tipos
<1>. QED  BY <1>1, Nombres, HechosEsperar, SemaforoTipos

LEMMA TiposEsperar ==
  ASSUME Tipos, esperar_cpu, UNCHANGED cpuVars
  PROVE  Tipos'
<1>. USE Nombres
<1>e. /\ Retornos \subseteq ConProceso /\ EtiquetasExit \subseteq ConProceso
      /\ {"i_listar", "b_listar", "b_hilo"} \subseteq ConProceso
      /\ Retornos \subseteq Etiquetas /\ EtiquetasExit \subseteq Etiquetas
      /\ {"i_listar", "b_listar", "b_hilo"} \subseteq Etiquetas
      /\ {"esperar", "i_cr", "fin_cpu", "b_blocked"} \subseteq Etiquetas \ ConProceso
  BY HechosEsperar DEF EtiquetasEsperar, EtiquetasExit, EtiquetasInterruption,
     EtiquetasBlocked, EtiquetasFin, ConProceso, Retornos
<1>2. CASE EsperarRecibe
  <2>. USE <1>2, <1>e DEF EsperarRecibe
  <2>0. Head(retorno) \in Retornos \X Pids /\ retorno' \in Seq(Retornos \X Pids)
    BY HeadTailProperties
  <2>1. Head(retorno)[1] \in Retornos /\ Head(retorno)[2] \in Pids
    BY <2>0
  <2>2. TypeCanales'
    BY <2>0
  <2>3. TypeHilos' /\ TypeManos'
    BY <2>1
  <2>4. Manos'
    BY <2>1
  <2>. QED  BY <2>2, <2>3, <2>4
<1>3. ASSUME NEW cop \in Retornos, NEW b \in Etiquetas, EsperarLibera(cop, b)
      PROVE  Tipos'
  <2>. USE <1>3, <1>e DEF EsperarLibera
  <2>1. TypeRegistro'
    OBVIOUS
  <2>2. TypeHilos'
    OBVIOUS
  <2>3. Manos'
    OBVIOUS
  <2>. QED  BY <2>1, <2>2, <2>3
<1>4. CASE ExitConsola
  <2>. USE <1>4, <1>e DEF ExitConsola
  <2>0. {"x_consola", "x_grado"} \subseteq EtiquetasExit
    BY DEF EtiquetasExit
  <2>1. TypeRegistro'
    OBVIOUS
  <2>2. TypeHilos'
    BY <2>0
  <2>3. Manos'
    BY <2>0
  <2>. QED  BY <2>1, <2>2, <2>3
<1>5. CASE ExitMemoria
  <2>. USE <1>5, <1>e DEF ExitMemoria
  <2>0. mano["esperar"] \in Pids
    BY DEF EtiquetasExit
  <2>1. bajas' \in Seq(Pids)
    BY <2>0
  <2>2. TypeHilos' /\ TypeManos'
    OBVIOUS
  <2>3. Manos'
    OBVIOUS
  <2>. QED  BY <2>1, <2>2, <2>3
<1>6. CASE Lista("esperar", "i_listar", "i_cr")
  <2>. HIDE DEF Tipos
  <2>. QED  BY <1>6, <1>e, ListaTipos
<1>7. CASE BlockedLista
  <2>. USE <1>7, <1>e DEF BlockedLista
  <2>0. mano["esperar"] \in Pids
    OBVIOUS
  <2>1. TypeColas'
    BY <2>0
  <2>2. TypeHilos' /\ Manos'
    BY <2>0
  <2>. QED  BY <2>1, <2>2
<1>8. CASE BlockedHilo
  <2>. USE <1>8, <1>e DEF BlockedHilo
  <2>0. mano["esperar"] \in Pids
    OBVIOUS
  <2>1a. pc[mano["esperar"]] \in Nat /\ "arranque" \in {"arranque", "dormido", "soltar"}
    BY <2>0
  <2>1b. [pid |-> mano["esperar"], nro |-> pc[mano["esperar"]], fase |-> "arranque",
          clave |-> Nadie, iter |-> 0, liberado |-> FALSE] \in Vigilantes
    BY <2>0, <2>1a DEF Vigilantes
  <2>1. TypeSuspendiendo'
    BY <2>1b
  <2>2. TypeHilos' /\ TypeManos' /\ Manos'
    BY <2>0
  <2>. QED  BY <2>1, <2>2
<1>9. CASE FinInterrupcion
  <2>. USE <1>9, <1>e DEF FinInterrupcion
  <2>1a. CASE hay_interrupcion
    <3>0. sem["s_pcb_desalojado"] \in Nat
      OBVIOUS
    <3>1. sem["s_pcb_desalojado"] + 1 \in Nat
      <4>. HIDE DEF Tipos
      <4>. QED  BY <3>0
    <3>2. sem' = [sem EXCEPT !["s_pcb_desalojado"] = sem["s_pcb_desalojado"] + 1]
      BY <2>1a
    <3>. QED  BY <3>1, <3>2
  <2>1b. CASE ~hay_interrupcion
    BY <2>1b
  <2>1. TypeSem'
    BY <2>1a, <2>1b
  <2>2. TypeHilos' /\ Manos'
    OBVIOUS
  <2>. QED  BY <2>1, <2>2
<1>10. CASE \/ EsperarLibera("EXIT", "x_consola") \/ EsperarLibera("INTERRUPTION", "i_listar")
            \/ EsperarLibera("BLOCKED", "b_listar")
  <2>1. {"EXIT", "INTERRUPTION", "BLOCKED"} \subseteq Retornos /\ "x_consola" \in Etiquetas
    BY <1>e DEF Retornos, EtiquetasExit
  <2>. HIDE DEF Tipos
  <2>. QED  BY <1>10, <1>3, <1>e, <2>1
<1>. HIDE DEF Tipos
<1>. QED
  BY <1>2, <1>4, <1>5, <1>6, <1>7, <1>8, <1>9, <1>10, TiposEsperarSem DEF esperar_cpu

LEMMA TiposIo ==
  ASSUME Tipos, ejecutar_io, UNCHANGED cpuVars
  PROVE  Tipos'
<1>. USE Nombres
<1>e. /\ {"dormir", "iteracion", "clasificar", "suspendido", "listo"}
           \subseteq Etiquetas \cap ConProceso
      /\ {"tomar", "blocked", "io_pasaje", "io_re", "io_cr"} \subseteq Etiquetas \ ConProceso
  BY Hechos DEF EtiquetasIo
<1>1. CASE \/ Espera("io", "blocked", "s_blocked", "tomar")
           \/ Postea("io", "io_pasaje", "s_pasaje_a_ready", "blocked")
           \/ Postea("io", "io_re", "s_ready_execute", "io_cr")
           \/ Postea("io", "io_cr", "s_cont_ready", "blocked")
  <2>. HIDE DEF Tipos
  <2>. QED  BY <1>1, <1>e, SemaforoTipos
<1>2. CASE IoToma
  <2>. USE <1>2, <1>e DEF IoToma
  <2>1. Head(cola_blocked) \in Pids
    OBVIOUS
  <2>2. TypeHilos' /\ TypeManos' /\ Manos'
    BY <2>1
  <2>. QED  BY <2>2
<1>3. CASE IoTermina
  <2>. USE <1>3, <1>e DEF IoTermina
  <2>1. TypeColas'
    OBVIOUS
  <2>2. TypeHilos' /\ Manos'
    OBVIOUS
  <2>. QED  BY <2>1, <2>2
<1>4. CASE IoIteracion
  <2>. USE <1>4, <1>e DEF IoIteracion
  <2>0. mano["io"] \in Pids
    OBVIOUS
  <2>1c. iteracion_blocked[mano["io"]] \in Nat
    BY <2>0
  <2>1a. iteracion_blocked[mano["io"]] + 1 \in Nat
    <3>. HIDE <1>4, <1>e DEF IoIteracion, Tipos
    <3>. QED  BY <2>1c
  <2>1b. iteracion_blocked' \in [Pids -> Nat]
    BY <2>0, <2>1a
  <2>1. TypeRegistro'
    BY <2>1b
  <2>2. TypeHilos' /\ Manos'
    OBVIOUS
  <2>. QED  BY <2>1, <2>2
<1>5. CASE IoSuspendido
  <2>. USE <1>5, <1>e DEF IoSuspendido
  <2>1. TypeColas'
    BY RemoveAtProps
  <2>2. TypeHilos' /\ Manos'
    OBVIOUS
  <2>. QED  BY <2>1, <2>2
<1>6. CASE IoListo
  <2>. USE <1>6, <1>e DEF IoListo
  <2>1. TypeHilos' /\ Manos'
    OBVIOUS
  <2>. QED  BY <2>1
<1>7. CASE IoEncola
  <2>. USE <1>7, <1>e DEF IoEncola
  <2>0. mano["io"] \in Pids
    OBVIOUS
  <2>1. TypeColas'
    BY <2>0
  <2>2. TypeHilos' /\ TypeManos' /\ Manos'
    BY <2>0
  <2>. QED  BY <2>1, <2>2
<1>8. CASE Lista("io", "listo", "io_re")
  <2>. HIDE DEF Tipos
  <2>. QED  BY <1>8, <1>e, ListaTipos
<1>. QED
  BY <1>1, <1>2, <1>3, <1>4, <1>5, <1>6, <1>7, <1>8 DEF ejecutar_io

LEMMA TiposSuspendiendo ==
  ASSUME Tipos, UNCHANGED cpuVars, NEW v \in suspendiendo, hilo_suspendido(v)
  PROVE  Tipos'
<1>. USE Nombres DEF CambiaVigilante
<1>v. v \in Vigilantes
  OBVIOUS
<1>1. CASE SuspendiendoArranca(v)
  <2>1. ASSUME NEW k \in Pids \cup {Nadie}
        PROVE  [v EXCEPT !.fase = "dormido", !.clave = k,
                         !.iter = IF k \in Pids THEN iteracion_blocked[k] ELSE 0] \in Vigilantes
    <3>. DEFINE n == IF k \in Pids THEN iteracion_blocked[k] ELSE 0
    <3>1. n \in Nat
      OBVIOUS
    <3>. HIDE DEF n
    <3>2. [v EXCEPT !.fase = "dormido", !.clave = k, !.iter = n] \in Vigilantes
      BY <1>v, <3>1 DEF Vigilantes
    <3>. QED  BY <3>2 DEF n
  <2>2. PidLeido(v) \subseteq Pids \cup {Nadie}
    BY <1>v DEF PidLeido, Vigilantes
  <2>3. TypeSuspendiendo'
    <3>1. PICK k \in PidLeido(v) :
            suspendiendo' = (suspendiendo \ {v}) \cup
              {[v EXCEPT !.fase = "dormido", !.clave = k,
                         !.iter = IF k \in Pids THEN iteracion_blocked[k] ELSE 0]}
      BY <1>1 DEF SuspendiendoArranca
    <3>2. [v EXCEPT !.fase = "dormido", !.clave = k,
                    !.iter = IF k \in Pids THEN iteracion_blocked[k] ELSE 0] \in Vigilantes
      BY <2>1, <2>2
    <3>3. suspendiendo \subseteq Vigilantes
      OBVIOUS
    <3>. HIDE DEF Tipos
    <3>. QED  BY <3>1, <3>2, <3>3
  <2>. QED  BY <1>1, <2>3 DEF SuspendiendoArranca
<1>2. CASE SuspendiendoDespierta(v)
  <2>. USE DEF SuspendiendoDespierta
  <2>1. PICK leido \in PidLeido(v) :
          IF DebeSuspender(v, leido)
          THEN /\ cola_suspended_blocked' = Append(cola_suspended_blocked, leido)
               /\ memoria' = [memoria EXCEPT ![leido] = "tablas"]
               /\ CambiaVigilante(v, {[v EXCEPT !.fase = "soltar"]})
          ELSE /\ CambiaVigilante(v, {})
               /\ UNCHANGED <<cola_suspended_blocked, memoria>>
    BY <1>2
  <2>2. CASE DebeSuspender(v, leido)
    <3>1. leido \in Pids
      BY <2>2 DEF DebeSuspender, ToSet
    <3>2b. cola_suspended_blocked' = Append(cola_suspended_blocked, leido)
      BY <2>1, <2>2
    <3>2a. cola_suspended_blocked' \in Seq(Pids)
      BY <3>1, <3>2b
    <3>2. TypeColas'
      BY <1>2, <3>2a
    <3>3. TypeCanales'
      BY <1>2, <2>1, <2>2, <3>1
    <3>4. [v EXCEPT !.fase = "soltar"] \in Vigilantes
      BY <1>v DEF Vigilantes
    <3>5. TypeSuspendiendo'
      BY <2>1, <2>2, <3>4
    <3>. QED  BY <1>2, <3>2, <3>3, <3>5
  <2>3. CASE ~DebeSuspender(v, leido)
    BY <1>2, <2>1, <2>3
  <2>. QED  BY <2>2, <2>3
<1>3. CASE SuspendiendoSuelta(v)
  <2>1a. "s_multiprogramacion_actual" \in Semaforos /\ sem \in [Semaforos -> Nat]
    OBVIOUS
  <2>1b. sem' = [sem EXCEPT !["s_multiprogramacion_actual"] = @ + 1]
    BY <1>3 DEF SuspendiendoSuelta
  <2>1. TypeSem'
    <3>. HIDE DEF Tipos
    <3>. QED  BY <2>1a, <2>1b
  <2>. QED  BY <1>3, <2>1 DEF SuspendiendoSuelta
<1>. QED  BY <1>1, <1>2, <1>3 DEF hilo_suspendido

LEMMA TiposCpu ==
  ASSUME Tipos, NextCpu, UNCHANGED kernelVars
  PROVE  Tipos'
<1>1. CASE CpuRecibe
  <2>. USE <1>1 DEF CpuRecibe
  <2>1. Head(dispatch) \in Pids /\ dispatch' \in Seq(Pids)
    BY HeadTailProperties
  <2>2. TypeCanales'
    BY <2>1
  <2>3. TypeCpu' /\ Manos'
    BY <2>1
  <2>. QED  BY <2>2, <2>3
<1>2. CASE CpuCiclo
  <2>. USE <1>2 DEF CpuCiclo
  <2>0. cpuPcb \in Pids
    OBVIOUS
  <2>. DEFINE op == programa[cpuPcb][pc[cpuPcb] + 1]
  <2>1. CheckInterrupt(Execute(op)) \in Retornos \cup {"CONTINUE"}
    BY DEF CheckInterrupt, Execute, Retornos
  <2>2. TypeCpu'
    BY <2>0, <2>1
  <2>3. TypeCanales'
    BY <2>0
  <2>4. Manos'
    BY <2>0, <2>1
  <2>. QED  BY <2>2, <2>3, <2>4
<1>3. CASE CpuFinRafaga
  <2>. USE <1>3 DEF CpuFinRafaga
  <2>0. cpuPcb \in Pids
    OBVIOUS
  <2>1. ASSUME NEW e \in Int, NEW real \in Rafagas
        PROVE  CalculoEstimacion(e, real, cpuEstado) \in Int
    <3>1. real \in Int /\ AlfaNum \in Int /\ AlfaDen \in Nat \ {0}
      BY EstimacionAssumption
    <3>2. e * AlfaNum + real * (AlfaDen - AlfaNum) \in Int
      BY <3>1
    <3>. QED  BY <3>1, <3>2 DEF CalculoEstimacion
  <2>2. est' \in [Pids -> Int]
    BY <2>0, <2>1
  <2>3. TypeCanales'
    BY <2>2
  <2>4. TypeCpu' /\ Manos'
    OBVIOUS
  <2>. QED  BY <2>3, <2>4
<1>4. CASE CpuDevuelve
  <2>. USE <1>4 DEF CpuDevuelve
  <2>0. <<cpuEstado, cpuPcb>> \in Retornos \X Pids
    OBVIOUS
  <2>1. retorno' \in Seq(Retornos \X Pids)
    BY <2>0
  <2>2. TypeCanales'
    BY <2>1
  <2>. QED  BY <2>2
<1>5. CASE CpuInterrupcion
  BY <1>5 DEF CpuInterrupcion
<1>. QED  BY <1>1, <1>2, <1>3, <1>4, <1>5 DEF NextCpu, CpuMain

LEMMA TiposMemoria == ASSUME Tipos, MemoriaElimina PROVE Tipos'
<1>. USE DEF MemoriaElimina
<1>1. Head(bajas) \in Pids /\ bajas' \in Seq(Pids)
  BY HeadTailProperties
<1>2. TypeCanales'
  BY <1>1
<1>. QED  BY <1>2

LEMMA TiposNext == Tipos /\ [Next]_vars => Tipos'
<1>. SUFFICES ASSUME Tipos, [Next]_vars PROVE Tipos'
  OBVIOUS
<1>1. CASE Kernel
  <2>. HIDE DEF Tipos
  <2>. QED
    BY <1>1, TiposConsola, TiposPasaje, TiposExecute, TiposEsperar, TiposIo,
       TiposSuspendiendo DEF Kernel, NextKernel
<1>2. CASE Cpu
  <2>. HIDE DEF Tipos
  <2>. QED  BY <1>2, TiposCpu DEF Cpu
<1>3. CASE UNCHANGED vars
  BY <1>3
<1>. QED  BY <1>1, <1>2, <1>3, TiposMemoria DEF Next

\* Every variable keeps its type, in every step of every thread.
THEOREM TipoCorrecto == Spec => []TypeOK
<1>1. Tipos => TypeOK
  OBVIOUS
<1>. QED  BY <1>1, TiposInit, TiposNext, PTL DEF Spec

HIDE DEF Tipos, Manos, TypeOK, TypeCanales, TypeKernel, TypeCpu, TypeSem, TypeColas,
         TypeRegistro, TypeHilos, TypeManos, TypeSuspendiendo, vars, pcbVars,
         canalVars, memVars, colaVars, registroVars, banderaVars, kernelVars,
         cpuVars, entornoVars, Va, Toma, Suelta, sem_post, sem_wait

-----------------------------------------------------------------------------
(* Where each PCB is                                                       *)

Lugares == {"new", "pasaje", "ready", "execute", "dispatch", "cpu", "retorno", "esperar",
            "salida", "blocked", "io", "suspendido", "sready", "listo"}

\* The PCBs in each place; a hand is a place that holds one at most.
En == [l \in Lugares |->
  CASE l = "new" -> cola_new
    [] l = "pasaje" -> Enlazado("pasaje", {"listar"})
    [] l = "ready" -> lista_ready
    [] l = "execute" -> Enlazado("execute", {"s_ocupar", "enviar"})
    [] l = "dispatch" -> dispatch
    [] l = "cpu" -> IF cpuPcb = Nadie THEN << >> ELSE <<cpuPcb>>
    [] l = "retorno" -> PidsDe(retorno)
    [] l = "esperar" -> Enlazado("esperar", Retornos \cup {"x_consola", "x_grado", "i_listar", "b_listar"})
    [] l = "salida" -> Enlazado("esperar", {"x_memoria"})
    [] l = "blocked" -> cola_blocked
    [] l = "io" -> Enlazado("io", {"iteracion", "clasificar"})
    [] l = "suspendido" -> Enlazado("io", {"suspendido"})
    [] l = "sready" -> cola_suspended_ready
    [] l = "listo" -> Enlazado("io", {"listo"})]

LEMMA EnValores ==
  /\ DOMAIN En = Lugares
  /\ En["new"] = cola_new
  /\ En["pasaje"] = Enlazado("pasaje", {"listar"})
  /\ En["ready"] = lista_ready
  /\ En["execute"] = Enlazado("execute", {"s_ocupar", "enviar"})
  /\ En["dispatch"] = dispatch
  /\ En["cpu"] = IF cpuPcb = Nadie THEN << >> ELSE <<cpuPcb>>
  /\ En["retorno"] = PidsDe(retorno)
  /\ En["esperar"] = Enlazado("esperar", Retornos \cup {"x_consola", "x_grado", "i_listar", "b_listar"})
  /\ En["salida"] = Enlazado("esperar", {"x_memoria"})
  /\ En["blocked"] = cola_blocked
  /\ En["io"] = Enlazado("io", {"iteracion", "clasificar"})
  /\ En["suspendido"] = Enlazado("io", {"suspendido"})
  /\ En["sready"] = cola_suspended_ready
  /\ En["listo"] = Enlazado("io", {"listo"})
BY DEF En, Lugares


-----------------------------------------------------------------------------
(* A PCB is in one place at a time                                         *)

\* No PCB is twice in a place or in two places.
Repartida(e) ==
  /\ \A l \in Lugares : e[l] \in Seq(Pids) /\ IsInjective(e[l])
  /\ \A l, m \in Lugares : l # m => ToSet(e[l]) \cap ToSet(e[m]) = {}

\* From e to f, the PCB of p leaves l, or arrives at m, or goes from l to m.
Quita(e, f, p, l) ==
  /\ p \in ToSet(e[l])
  /\ f[l] \in Seq(Pids) /\ IsInjective(f[l]) /\ ToSet(f[l]) = ToSet(e[l]) \ {p}
  /\ Len(f[l]) = Len(e[l]) - 1
Pone(e, f, p, m) ==
  /\ f[m] \in Seq(Pids) /\ IsInjective(f[m]) /\ ToSet(f[m]) = ToSet(e[m]) \cup {p}
  /\ Len(f[m]) = Len(e[m]) + 1
Mueve(e, f, p, l, m) ==
  /\ l # m /\ Quita(e, f, p, l) /\ Pone(e, f, p, m)
  /\ \A k \in Lugares \ {l, m} : f[k] = e[k]
Entra(e, f, p, m) ==
  /\ \A l \in Lugares : p \notin ToSet(e[l])
  /\ Pone(e, f, p, m)
  /\ \A k \in Lugares \ {m} : f[k] = e[k]
Sale(e, f, p, l) ==
  /\ Quita(e, f, p, l)
  /\ \A k \in Lugares \ {l} : f[k] = e[k]

LEMMA RepartidaSigue ==
  ASSUME NEW e, Repartida(e), NEW f, NEW p, NEW l \in Lugares, NEW m \in Lugares,
         Mueve(e, f, p, l, m) \/ Entra(e, f, p, m) \/ Sale(e, f, p, l)
  PROVE  Repartida(f)
<1>1. \A k \in Lugares : f[k] \in Seq(Pids) /\ IsInjective(f[k])
  BY DEF Repartida, Mueve, Entra, Sale, Quita, Pone
<1>2. \A j, k \in Lugares : j # k => ToSet(e[j]) \cap ToSet(e[k]) = {}
  BY DEF Repartida
<1>3. \A j, k \in Lugares : j # k => ToSet(f[j]) \cap ToSet(f[k]) = {}
  <2>1. CASE Mueve(e, f, p, l, m)
    <3>1. /\ ToSet(f[l]) = ToSet(e[l]) \ {p} /\ ToSet(f[m]) = ToSet(e[m]) \cup {p} /\ l # m
          /\ p \in ToSet(e[l]) /\ \A k \in Lugares \ {l, m} : ToSet(f[k]) = ToSet(e[k])
      BY <2>1 DEF Mueve, Quita, Pone
    <3>. QED  BY <1>2, <3>1
  <2>2. CASE Entra(e, f, p, m)
    <3>1. /\ ToSet(f[m]) = ToSet(e[m]) \cup {p} /\ \A k \in Lugares : p \notin ToSet(e[k])
          /\ \A k \in Lugares \ {m} : ToSet(f[k]) = ToSet(e[k])
      BY <2>2 DEF Entra, Pone
    <3>. QED  BY <1>2, <3>1
  <2>3. CASE Sale(e, f, p, l)
    <3>1. /\ ToSet(f[l]) = ToSet(e[l]) \ {p}
          /\ \A k \in Lugares \ {l} : ToSet(f[k]) = ToSet(e[k])
      BY <2>3 DEF Sale, Quita
    <3>. QED  BY <1>2, <3>1
  <2>. QED  BY <2>1, <2>2, <2>3
<1>. QED  BY <1>1, <1>3 DEF Repartida

\* What the commons' operations and the hands do to a place.
LEMMA QuitaDe ==
  ASSUME NEW e, Repartida(e), NEW f, NEW l \in Lugares, NEW p,
         \/ e[l] # << >> /\ p = Head(e[l]) /\ f[l] = Tail(e[l])
         \/ e[l] = <<p>> /\ f[l] = << >>
         \/ \E i \in DOMAIN e[l] : p = e[l][i] /\ f[l] = RemoveAt(e[l], i)
  PROVE  Quita(e, f, p, l)
<1>. e[l] \in Seq(Pids) /\ IsInjective(e[l])
  BY DEF Repartida
<1>1. CASE e[l] # << >> /\ p = Head(e[l]) /\ f[l] = Tail(e[l])
  BY <1>1, ListaPrimero DEF Quita
<1>2. CASE e[l] = <<p>> /\ f[l] = << >>
  BY <1>2, ListaUno, ListaVacia DEF Quita
<1>3. CASE \E i \in DOMAIN e[l] : p = e[l][i] /\ f[l] = RemoveAt(e[l], i)
  BY <1>3, ListaSaca DEF Quita
<1>. QED  BY <1>1, <1>2, <1>3

LEMMA PoneEn ==
  ASSUME NEW e, Repartida(e), NEW f, NEW m \in Lugares, NEW p \in Pids, p \notin ToSet(e[m]),
         f[m] = Append(e[m], p) \/ (e[m] = << >> /\ f[m] = <<p>>)
  PROVE  Pone(e, f, p, m)
<1>. e[m] \in Seq(Pids) /\ IsInjective(e[m])
  BY DEF Repartida
<1>1. CASE f[m] = Append(e[m], p)
  BY <1>1, ListaAgrega DEF Pone
<1>2. CASE e[m] = << >> /\ f[m] = <<p>>
  BY <1>2, ListaUno, ListaVacia DEF Pone
<1>. QED  BY <1>1, <1>2

LEMMA MueveDeA ==
  ASSUME NEW e, Repartida(e), NEW f, NEW l \in Lugares, NEW m \in Lugares \ {l}, NEW p,
         \/ e[l] # << >> /\ p = Head(e[l]) /\ f[l] = Tail(e[l])
         \/ e[l] = <<p>> /\ f[l] = << >>
         \/ \E i \in DOMAIN e[l] : p = e[l][i] /\ f[l] = RemoveAt(e[l], i),
         f[m] = Append(e[m], p) \/ (e[m] = << >> /\ f[m] = <<p>>),
         \A k \in Lugares \ {l, m} : f[k] = e[k]
  PROVE  Mueve(e, f, p, l, m)
<1>1. Quita(e, f, p, l)
  BY QuitaDe
<1>2. p \in Pids /\ p \notin ToSet(e[m])
  <2>1. p \in ToSet(e[l])
    BY <1>1 DEF Quita
  <2>. QED  BY <2>1, ToSetPosiciones DEF Repartida
<1>3. Pone(e, f, p, m)
  BY <1>2, PoneEn
<1>. QED  BY <1>1, <1>3 DEF Mueve

-----------------------------------------------------------------------------
(* What each thread does to the places                                     *)

\* The process ejecutar_io read before its sleep is still the first blocked.
Servido == hilo["io"] = "dormir" => cola_blocked # << >> /\ Head(cola_blocked) = mano["io"]

\* A free CPU holds nobody; a process whose console has not sent its program
\* is nowhere.
Libre == cpuFase = "libre" => cpuPcb = Nadie
SinLlegar ==
  \A p \in Pids : consola[p] = "conectada" => \A l \in Lugares : p \notin ToSet(En[l])

Unico == Tipos /\ Repartida(En) /\ Servido /\ Libre /\ SinLlegar

Traslada(p, l, m) == Mueve(En, En', p, l, m)
Quieto == \A k \in Lugares : En'[k] = En[k]

\* A step of thread h leaves the labels and hands of the others alone.
LEMMA OtrosHilos ==
  ASSUME Tipos, NEW h \in Hilos, NEW a, NEW b, Va(h, a, b),
         mano' = mano \/ \E p : mano' = [mano EXCEPT ![h] = p]
  PROVE  /\ hilo[h] = a /\ hilo'[h] = b
         /\ \A k \in Hilos \ {h} : hilo'[k] = hilo[k] /\ mano'[k] = mano[k]
<1>1. TypeHilos /\ TypeManos
  BY DEF Tipos, TypeOK, TypeKernel
<1>. QED  BY <1>1 DEF Va, TypeHilos, TypeManos

\* A semaphore operation by thread h moves nothing, if h holds the same place
\* before and after it.
LEMMA SemaforoQuieto ==
  ASSUME Tipos, UNCHANGED cpuVars, NEW h \in Hilos, NEW a, NEW b, NEW s,
         Postea(h, a, s, b) \/ Espera(h, a, s, b),
         \A S \in {{"listar"}, {"s_ocupar", "enviar"},
                   Retornos \cup {"x_consola", "x_grado", "i_listar", "b_listar"},
                   {"x_memoria"}, {"iteracion", "clasificar"},
                   {"suspendido"}, {"listo"}} : a \in S <=> b \in S
  PROVE  Quieto
<1>1. /\ hilo[h] = a /\ hilo'[h] = b /\ mano' = mano
      /\ \A k \in Hilos \ {h} : hilo'[k] = hilo[k] /\ mano'[k] = mano[k]
  BY OtrosHilos DEF Postea, Espera
<1>2. ASSUME NEW k \in Hilos,
             NEW S \in {{"listar"}, {"s_ocupar", "enviar"},
                   Retornos \cup {"x_consola", "x_grado", "i_listar", "b_listar"},
                   {"x_memoria"}, {"iteracion", "clasificar"},
                   {"suspendido"}, {"listo"}}
      PROVE  Enlazado(k, S)' = Enlazado(k, S)
  BY <1>1, <1>2 DEF Enlazado
<1>3. UNCHANGED <<colaVars, canalVars, cpuVars>>
  BY DEF Postea, Espera, entornoVars
<1>4. cola_new' = cola_new /\ lista_ready' = lista_ready /\ cola_blocked' = cola_blocked
      /\ cola_suspended_ready' = cola_suspended_ready /\ dispatch' = dispatch
      /\ retorno' = retorno /\ cpuPcb' = cpuPcb
  BY <1>3 DEF colaVars, canalVars, cpuVars
<1>. QED  BY <1>2, <1>4, Nombres DEF Quieto, En, Lugares, PidsDe

LEMMA LugaresPasaje ==
  ASSUME Unico, UNCHANGED cpuVars
  PROVE  /\ Espera("pasaje", "pasaje", "s_pasaje_a_ready", "grado") => Quieto
         /\ Espera("pasaje", "grado", "s_multiprogramacion_actual", "mirar") => Quieto
         /\ PasajeMira => Quieto
         /\ PasajeNew => Traslada(Head(cola_new), "new", "pasaje")
         /\ PasajeSusp => Traslada(Head(cola_suspended_ready), "sready", "pasaje")
         /\ Lista("pasaje", "listar", "re") => Traslada(mano["pasaje"], "pasaje", "ready")
         /\ Postea("pasaje", "re", "s_ready_execute", "cr") => Quieto
         /\ Postea("pasaje", "cr", "s_cont_ready", "pasaje") => Quieto
<1>0. Tipos /\ Repartida(En) /\ "pasaje" \in Hilos
  BY Nombres DEF Unico
<1>1. /\ Espera("pasaje", "pasaje", "s_pasaje_a_ready", "grado") => Quieto
      /\ Espera("pasaje", "grado", "s_multiprogramacion_actual", "mirar") => Quieto
      /\ Postea("pasaje", "re", "s_ready_execute", "cr") => Quieto
      /\ Postea("pasaje", "cr", "s_cont_ready", "pasaje") => Quieto
  BY <1>0, SemaforoQuieto DEF Retornos
<1>2. ASSUME PasajeMira PROVE Quieto
  <2>1. \A k \in Hilos \ {"pasaje"} : hilo'[k] = hilo[k] /\ mano'[k] = mano[k]
    BY <1>0, <1>2, OtrosHilos DEF PasajeMira
  <2>2. hilo["pasaje"] = "mirar" /\ hilo'["pasaje"] \in {"new", "susp"}
    BY <1>0, <1>2, OtrosHilos DEF PasajeMira
  <2>. QED  BY <1>2, <2>1, <2>2, Nombres
       DEF Quieto, En, Lugares, Enlazado, PasajeMira, Hilos, colaVars, entornoVars, canalVars, cpuVars
<1>3. ASSUME PasajeNew PROVE Traslada(Head(cola_new), "new", "pasaje")
  <2>1. /\ hilo["pasaje"] = "new" /\ hilo'["pasaje"] = "listar"
        /\ \A k \in Hilos \ {"pasaje"} : hilo'[k] = hilo[k] /\ mano'[k] = mano[k]
    BY <1>0, <1>3, OtrosHilos DEF PasajeNew, Toma
  <2>2. \A k \in Lugares \ {"new", "pasaje"} : En'[k] = En[k]
    BY <1>3, <2>1, Nombres DEF En, Lugares, Enlazado, PasajeNew, canalVars, cpuVars, Hilos
  <2>3. mano'["pasaje"] = Head(cola_new)
    BY <1>0, <1>3 DEF PasajeNew, Toma, Tipos, TypeOK, TypeKernel, TypeManos
  <2>4. /\ En["new"] = cola_new /\ En'["new"] = Tail(cola_new) /\ cola_new # << >>
        /\ En["pasaje"] = << >> /\ En'["pasaje"] = <<Head(cola_new)>>
    BY <1>3, <2>1, <2>3 DEF En, Lugares, Enlazado, PasajeNew
  <2>5. "new" \in Lugares /\ "pasaje" \in Lugares \ {"new"}
    BY DEF Lugares
  <2>. QED  BY <1>0, <2>2, <2>4, <2>5, MueveDeA DEF Traslada
<1>4. ASSUME PasajeSusp PROVE Traslada(Head(cola_suspended_ready), "sready", "pasaje")
  <2>1. /\ hilo["pasaje"] = "susp" /\ hilo'["pasaje"] = "listar"
        /\ \A k \in Hilos \ {"pasaje"} : hilo'[k] = hilo[k] /\ mano'[k] = mano[k]
    BY <1>0, <1>4, OtrosHilos DEF PasajeSusp, Toma
  <2>2. \A k \in Lugares \ {"sready", "pasaje"} : En'[k] = En[k]
    BY <1>4, <2>1, Nombres
    DEF En, Lugares, Enlazado, PasajeSusp, entornoVars, canalVars, cpuVars, Hilos
  <2>3. mano'["pasaje"] = Head(cola_suspended_ready)
    BY <1>0, <1>4 DEF PasajeSusp, Toma, Tipos, TypeOK, TypeKernel, TypeManos
  <2>4. /\ En["sready"] = cola_suspended_ready /\ En'["sready"] = Tail(cola_suspended_ready)
        /\ cola_suspended_ready # << >>
        /\ En["pasaje"] = << >> /\ En'["pasaje"] = <<Head(cola_suspended_ready)>>
    BY <1>4, <2>1, <2>3 DEF En, Lugares, Enlazado, PasajeSusp
  <2>5. "sready" \in Lugares /\ "pasaje" \in Lugares \ {"sready"}
    BY DEF Lugares
  <2>. QED  BY <1>0, <2>2, <2>4, <2>5, MueveDeA DEF Traslada
<1>5. ASSUME Lista("pasaje", "listar", "re") PROVE Traslada(mano["pasaje"], "pasaje", "ready")
  <2>1. /\ hilo["pasaje"] = "listar" /\ hilo'["pasaje"] = "re"
        /\ \A k \in Hilos \ {"pasaje"} : hilo'[k] = hilo[k] /\ mano'[k] = mano[k]
    BY <1>0, <1>5, OtrosHilos DEF Lista, Suelta
  <2>2. \A k \in Lugares \ {"pasaje", "ready"} : En'[k] = En[k]
    BY <1>5, <2>1, Nombres
    DEF En, Lugares, Enlazado, Lista, entornoVars, canalVars, cpuVars, Hilos
  <2>3. /\ En["ready"] = lista_ready /\ En'["ready"] = Append(lista_ready, mano["pasaje"])
        /\ En["pasaje"] = <<mano["pasaje"]>> /\ En'["pasaje"] = << >>
    BY <1>5, <2>1 DEF En, Lugares, Enlazado, Lista
  <2>4. "pasaje" \in Lugares /\ "ready" \in Lugares \ {"pasaje"}
    BY DEF Lugares
  <2>. QED  BY <1>0, <2>2, <2>3, <2>4, MueveDeA DEF Traslada
<1>. QED  BY <1>1, <1>2, <1>3, <1>4, <1>5

\* list_remove(lista_ready, i) puts the process in the scheduler's hand.
LEMMA SacaTraslada ==
  ASSUME Unico, UNCHANGED cpuVars, NEW a, a \notin {"s_ocupar", "enviar"},
         NEW b \in {"s_ocupar", "enviar"}, NEW i, Saca(a, i, b)
  PROVE  Traslada(lista_ready[i], "ready", "execute")
<1>0. Tipos /\ Repartida(En) /\ "execute" \in Hilos
  BY Nombres DEF Unico
<1>1. /\ hilo["execute"] = a /\ hilo'["execute"] = b
      /\ \A k \in Hilos \ {"execute"} : hilo'[k] = hilo[k] /\ mano'[k] = mano[k]
  BY <1>0, OtrosHilos DEF Saca, Toma
<1>2. \A k \in Lugares \ {"ready", "execute"} : En'[k] = En[k]
  BY <1>1, Nombres DEF En, Lugares, Enlazado, Saca, entornoVars, canalVars, cpuVars, Hilos
<1>3. mano'["execute"] = lista_ready[i]
  BY <1>0 DEF Saca, Toma, Tipos, TypeOK, TypeKernel, TypeManos
<1>4. /\ En["ready"] = lista_ready /\ En'["ready"] = RemoveAt(lista_ready, i)
      /\ i \in DOMAIN lista_ready
      /\ En["execute"] = << >> /\ En'["execute"] = <<lista_ready[i]>>
  BY <1>1, <1>3 DEF En, Lugares, Enlazado, Saca
<1>5. "ready" \in Lugares /\ "execute" \in Lugares \ {"ready"}
  BY DEF Lugares
<1>. QED  BY <1>0, <1>2, <1>4, <1>5, MueveDeA DEF Traslada

LEMMA EnviaTraslada ==
  ASSUME Unico, UNCHANGED cpuVars, ExecuteEnvia
  PROVE  Traslada(mano["execute"], "execute", "dispatch")
<1>0. Tipos /\ Repartida(En) /\ "execute" \in Hilos
  BY Nombres DEF Unico
<1>1. /\ hilo["execute"] = "enviar" /\ hilo'["execute"] = "avisar"
      /\ \A k \in Hilos \ {"execute"} : hilo'[k] = hilo[k] /\ mano'[k] = mano[k]
  BY <1>0, OtrosHilos DEF ExecuteEnvia, Suelta
<1>2. \A k \in Lugares \ {"dispatch", "execute"} : En'[k] = En[k]
  BY <1>1, Nombres DEF En, Lugares, Enlazado, ExecuteEnvia, colaVars, cpuVars, Hilos, PidsDe
<1>3. /\ En["dispatch"] = dispatch /\ En'["dispatch"] = Append(dispatch, mano["execute"])
      /\ En["execute"] = <<mano["execute"]>> /\ En'["execute"] = << >>
  BY <1>1 DEF En, Lugares, Enlazado, ExecuteEnvia
<1>4. "execute" \in Lugares /\ "dispatch" \in Lugares \ {"execute"}
  BY DEF Lugares
<1>. QED  BY <1>0, <1>2, <1>3, <1>4, MueveDeA DEF Traslada

LEMMA LugaresFifo ==
  ASSUME Unico, UNCHANGED cpuVars
  PROVE  /\ Espera("execute", "f_re", "s_ready_execute", "f_cpu") => Quieto
         /\ Espera("execute", "f_cpu", "s_cpu_desocupado", "f_cr") => Quieto
         /\ Espera("execute", "f_cr", "s_cont_ready", "f_sacar") => Quieto
         /\ Saca("f_sacar", 1, "enviar") => Traslada(lista_ready[1], "ready", "execute")
         /\ ExecuteEnvia => Traslada(mano["execute"], "execute", "dispatch")
         /\ Postea("execute", "avisar", "s_esperar_cpu", "f_re") => Quieto
<1>0. Tipos /\ "execute" \in Hilos
  BY Nombres DEF Unico
<1>. QED  BY <1>0, SemaforoQuieto, SacaTraslada, EnviaTraslada DEF Retornos

LEMMA LugaresSrt ==
  ASSUME Unico, UNCHANGED cpuVars
  PROVE  /\ SrtMira \/ SrtCpu \/ SrtInterrumpe \/ SrtOcupa => Quieto
         /\ SrtHayInterrupcion("s_marcar", TRUE, "s_interrumpir") => Quieto
         /\ SrtHayInterrupcion("s_desmarcar", FALSE, "s_elegir") => Quieto
         /\ Espera("execute", "s_tragar", "s_ready_execute", "s_re") => Quieto
         /\ Espera("execute", "s_re", "s_ready_execute", "s_cr") => Quieto
         /\ Espera("execute", "s_cr", "s_cont_ready", "s_cpu") => Quieto
         /\ Espera("execute", "s_esperar", "s_pcb_desalojado", "s_desmarcar") => Quieto
         /\ Postea("execute", "avisar", "s_esperar_cpu", "s_mirar") => Quieto
         /\ SrtElige => \E i \in DOMAIN lista_ready : Traslada(lista_ready[i], "ready", "execute")
<1>0. Tipos /\ "execute" \in Hilos
  BY Nombres DEF Unico
<1>1. ASSUME NEW a, NEW b, Va("execute", a, b), mano' = mano,
             a \in {"s_ocupar", "enviar"} <=> b \in {"s_ocupar", "enviar"},
             UNCHANGED <<colaVars, dispatch, retorno>>
      PROVE  Quieto
  <2>1. /\ hilo["execute"] = a /\ hilo'["execute"] = b
        /\ \A k \in Hilos \ {"execute"} : hilo'[k] = hilo[k] /\ mano'[k] = mano[k]
    BY <1>0, <1>1, OtrosHilos
  <2>. QED  BY <1>1, <2>1, Nombres
       DEF Quieto, En, Lugares, Enlazado, colaVars, cpuVars, PidsDe, Hilos
<1>2. SrtMira \/ SrtCpu \/ SrtInterrumpe \/ SrtOcupa => Quieto
  BY <1>1 DEF SrtMira, SrtCpu, SrtSalta, SrtInterrumpe, SrtOcupa, entornoVars, canalVars
<1>3. /\ SrtHayInterrupcion("s_marcar", TRUE, "s_interrumpir") => Quieto
      /\ SrtHayInterrupcion("s_desmarcar", FALSE, "s_elegir") => Quieto
  BY <1>1 DEF SrtHayInterrupcion, entornoVars, canalVars
<1>4. /\ Espera("execute", "s_tragar", "s_ready_execute", "s_re") => Quieto
      /\ Espera("execute", "s_re", "s_ready_execute", "s_cr") => Quieto
      /\ Espera("execute", "s_cr", "s_cont_ready", "s_cpu") => Quieto
      /\ Espera("execute", "s_esperar", "s_pcb_desalojado", "s_desmarcar") => Quieto
      /\ Postea("execute", "avisar", "s_esperar_cpu", "s_mirar") => Quieto
  BY <1>0, SemaforoQuieto DEF Retornos
<1>5. SrtElige => \E i \in DOMAIN lista_ready : Traslada(lista_ready[i], "ready", "execute")
  BY SacaTraslada DEF SrtElige
<1>. QED  BY <1>2, <1>3, <1>4, <1>5

\* The pids of what the CPU sends back, one message more or less.
LEMMA PidsDeRetorno ==
  ASSUME NEW s \in Seq(Retornos \X Pids)
  PROVE  /\ PidsDe(s) \in Seq(Pids)
         /\ s # << >> => /\ PidsDe(s) # << >> /\ Head(PidsDe(s)) = Head(s)[2]
                         /\ PidsDe(Tail(s)) = Tail(PidsDe(s))
         /\ \A r \in Retornos \X Pids : PidsDe(Append(s, r)) = Append(PidsDe(s), r[2])
<1>1. DOMAIN s = 1 .. Len(s) /\ Len(s) \in Nat /\ \A i \in 1 .. Len(s) : s[i] \in Retornos \X Pids
  OBVIOUS
<1>2. \A i \in 1 .. Len(s) : s[i][2] \in Pids
  BY <1>1
<1>. DEFINE t == PidsDe(s)
<1>3. t \in Seq(Pids) /\ Len(t) = Len(s) /\ \A i \in 1 .. Len(s) : t[i] = s[i][2]
  BY <1>1, <1>2 DEF PidsDe
<1>4. ASSUME s # << >>
      PROVE  /\ t # << >> /\ Head(t) = Head(s)[2] /\ PidsDe(Tail(s)) = Tail(t)
  <2>1. Len(s) > 0 /\ t # << >> /\ Head(t) = t[1] /\ Head(s) = s[1]
    BY <1>1, <1>3, <1>4, EmptySeq
  <2>2. /\ Tail(s) \in Seq(Retornos \X Pids) /\ Len(Tail(s)) = Len(s) - 1
        /\ \A i \in 1 .. Len(Tail(s)) : Tail(s)[i] = s[i + 1]
    BY <1>4, HeadTailProperties
  <2>. HIDE DEF t
  <2>3. /\ Tail(t) \in Seq(Pids) /\ Len(Tail(t)) = Len(s) - 1
        /\ \A i \in 1 .. Len(Tail(t)) : Tail(t)[i] = t[i + 1]
    BY <1>3, <2>1, HeadTailProperties
  <2>4. PidsDe(Tail(s)) = [i \in 1 .. Len(s) - 1 |-> Tail(s)[i][2]]
    BY <2>2 DEF PidsDe
  <2>5. \A i \in 1 .. Len(s) - 1 : Tail(s)[i][2] = Tail(t)[i]
    BY <1>1, <1>3, <2>2, <2>3
  <2>6. PidsDe(Tail(s)) = Tail(t)
    <3>. DEFINE u == Tail(t)
                w == PidsDe(Tail(s))
    <3>1. u \in Seq(Pids) /\ Len(u) = Len(s) - 1
      BY <2>3
    <3>2. w \in Seq(Pids) /\ Len(w) = Len(s) - 1 /\ \A i \in 1 .. Len(s) - 1 : w[i] = Tail(s)[i][2]
      <4>1. Len(s) - 1 \in Nat /\ \A i \in 1 .. Len(s) - 1 : Tail(s)[i][2] \in Pids
        BY <1>1, <1>2, <2>1, <2>2
      <4>. QED  BY <2>4, <4>1
    <3>3. \A i \in 1 .. Len(u) : u[i] = w[i]
      BY <2>5, <3>1, <3>2
    <3>. HIDE DEF u, w
    <3>4. u = w
      BY <3>1, <3>2, <3>3, SeqEqual
    <3>. QED  BY <3>4 DEF u, w
  <2>7. Head(t) = Head(s)[2]
    <3>1. 1 \in 1 .. Len(s)
      BY <1>1, <2>1
    <3>2. t[1] = s[1][2]
      BY <1>3, <3>1
    <3>. QED  BY <2>1, <3>2
  <2>. QED  BY <2>1, <2>6, <2>7
<1>5. ASSUME NEW r \in Retornos \X Pids PROVE PidsDe(Append(s, r)) = Append(t, r[2])
  <2>1. /\ Append(s, r) \in Seq(Retornos \X Pids) /\ Len(Append(s, r)) = Len(s) + 1
        /\ \A i \in 1 .. Len(s) : Append(s, r)[i] = s[i]
        /\ Append(s, r)[Len(s) + 1] = r
    BY AppendProperties
  <2>. HIDE DEF t
  <2>2. /\ Append(t, r[2]) \in Seq(Pids) /\ Len(Append(t, r[2])) = Len(s) + 1
        /\ \A i \in 1 .. Len(s) : Append(t, r[2])[i] = t[i]
        /\ Append(t, r[2])[Len(s) + 1] = r[2]
    BY <1>3, AppendProperties
  <2>3. PidsDe(Append(s, r)) = [i \in 1 .. Len(s) + 1 |-> Append(s, r)[i][2]]
    BY <2>1 DEF PidsDe
  <2>4. Append(t, r[2]) = [i \in 1 .. Len(s) + 1 |-> Append(t, r[2])[i]]
    BY <2>2
  <2>5. \A i \in 1 .. Len(s) + 1 : Append(s, r)[i][2] = Append(t, r[2])[i]
    <3>1. \A i \in 1 .. Len(s) + 1 : i \in 1 .. Len(s) \/ i = Len(s) + 1
      BY <1>1
    <3>. QED  BY <1>3, <2>1, <2>2, <3>1
  <2>. QED  BY <2>3, <2>4, <2>5
<1>. QED  BY <1>3, <1>4, <1>5

LEMMA RecibeTraslada ==
  ASSUME Unico, UNCHANGED cpuVars, EsperarRecibe
  PROVE  Traslada(Head(retorno)[2], "retorno", "esperar")
<1>0. /\ Tipos /\ Repartida(En) /\ "esperar" \in Hilos
      /\ retorno \in Seq(Retornos \X Pids) /\ retorno # << >>
  BY Nombres DEF Unico, EsperarRecibe, Tipos, TypeOK, TypeCanales
<1>1. /\ hilo["esperar"] = "recv" /\ hilo'["esperar"] = Head(retorno)[1]
      /\ \A k \in Hilos \ {"esperar"} : hilo'[k] = hilo[k] /\ mano'[k] = mano[k]
  BY <1>0, OtrosHilos DEF EsperarRecibe, Toma
<1>2. Head(retorno)[1] \in Retornos
  BY <1>0, HeadTailProperties
<1>3. \A k \in Lugares \ {"retorno", "esperar"} : En'[k] = En[k]
  BY <1>1, <1>2, Nombres
  DEF En, Lugares, Enlazado, EsperarRecibe, colaVars, cpuVars, Hilos, Retornos
<1>4. mano'["esperar"] = Head(retorno)[2]
  BY <1>0 DEF EsperarRecibe, Toma, Tipos, TypeOK, TypeKernel, TypeManos
<1>5. /\ En["retorno"] # << >> /\ Head(En["retorno"]) = Head(retorno)[2]
      /\ En'["retorno"] = Tail(En["retorno"])
  BY <1>0, PidsDeRetorno DEF En, Lugares, EsperarRecibe
<1>6. En["esperar"] = << >> /\ En'["esperar"] = <<Head(retorno)[2]>>
  BY <1>1, <1>2, <1>4 DEF En, Lugares, Enlazado, Retornos
<1>7. "retorno" \in Lugares /\ "esperar" \in Lugares \ {"retorno"}
  BY DEF Lugares
<1>. QED  BY <1>0, <1>3, <1>5, <1>6, <1>7, MueveDeA DEF Traslada

\* The semaphore operations of esperar_cpu that keep the process where it is.
LEMMA EsperarQuieto ==
  ASSUME Unico, UNCHANGED cpuVars
  PROVE  /\ Espera("esperar", "esperar", "s_esperar_cpu", "recv") => Quieto
         /\ Postea("esperar", "i_cr", "s_cont_ready", "i_desalojado") => Quieto
         /\ Postea("esperar", "i_desalojado", "s_pcb_desalojado", "esperar") => Quieto
         /\ Postea("esperar", "b_blocked", "s_blocked", "fin_cpu") => Quieto
         /\ Postea("esperar", "fin_cpu", "s_cpu_desocupado", "fin_re") => Quieto
         /\ Postea("esperar", "fin_re", "s_ready_execute", "fin_interrupcion") => Quieto
<1>0. Tipos /\ "esperar" \in Hilos
  BY Nombres DEF Unico
<1>. QED  BY <1>0, SemaforoQuieto DEF Retornos

LEMMA LugaresEsperar ==
  ASSUME Unico, UNCHANGED cpuVars
  PROVE  /\ EsperarLibera("EXIT", "x_consola") \/ EsperarLibera("INTERRUPTION", "i_listar")
              \/ EsperarLibera("BLOCKED", "b_listar") => Quieto
         /\ ExitConsola \/ BlockedHilo \/ FinInterrupcion => Quieto
         /\ Postea("esperar", "x_grado", "s_multiprogramacion_actual", "x_memoria")
              => Traslada(mano["esperar"], "esperar", "salida")
         /\ ExitMemoria => Sale(En, En', mano["esperar"], "salida")
         /\ Lista("esperar", "i_listar", "i_cr") => Traslada(mano["esperar"], "esperar", "ready")
         /\ BlockedLista => Traslada(mano["esperar"], "esperar", "blocked")
<1>0. /\ Tipos /\ Repartida(En) /\ "esperar" \in Hilos
      /\ {"esperar", "salida", "ready", "blocked"} \subseteq Lugares
  BY Nombres DEF Unico, Lugares
<1>1. ASSUME EsperarLibera("EXIT", "x_consola") \/ EsperarLibera("INTERRUPTION", "i_listar")
               \/ EsperarLibera("BLOCKED", "b_listar")
      PROVE  Quieto
  <2>1. /\ mano' = mano /\ \A k \in Hilos \ {"esperar"} : hilo'[k] = hilo[k]
        /\ hilo["esperar"] \in Retornos /\ hilo'["esperar"] \in {"x_consola", "i_listar", "b_listar"}
    BY <1>0, <1>1, OtrosHilos DEF EsperarLibera, Retornos
  <2>2. UNCHANGED <<colaVars, entornoVars>>
    BY <1>1 DEF EsperarLibera
  <2>. QED  BY <2>1, <2>2, Nombres
       DEF Quieto, En, Lugares, Enlazado, colaVars, entornoVars, canalVars, cpuVars, Hilos,
           Retornos, PidsDe
<1>2. ASSUME ExitConsola \/ BlockedHilo \/ FinInterrupcion PROVE Quieto
  <2>1. \A k \in Hilos \ {"esperar"} : hilo'[k] = hilo[k] /\ mano'[k] = mano[k]
    BY <1>0, <1>2, OtrosHilos DEF ExitConsola, BlockedHilo, FinInterrupcion, Suelta
  <2>2. UNCHANGED <<colaVars, entornoVars>>
    BY <1>2 DEF ExitConsola, BlockedHilo, FinInterrupcion
  <2>3. \/ hilo["esperar"] = "x_consola" /\ hilo'["esperar"] = "x_grado" /\ mano' = mano
        \/ hilo["esperar"] = "b_hilo" /\ hilo'["esperar"] = "b_blocked"
        \/ hilo["esperar"] = "fin_interrupcion" /\ hilo'["esperar"] = "esperar"
    BY <1>0, <1>2, OtrosHilos DEF ExitConsola, BlockedHilo, FinInterrupcion, Suelta
  <2>. QED  BY <2>1, <2>2, <2>3, Nombres
       DEF Quieto, En, Lugares, Enlazado, colaVars, entornoVars, canalVars, cpuVars, Hilos,
           Retornos, PidsDe
<1>3. ASSUME Postea("esperar", "x_grado", "s_multiprogramacion_actual", "x_memoria")
      PROVE  Traslada(mano["esperar"], "esperar", "salida")
  <2>1. /\ hilo["esperar"] = "x_grado" /\ hilo'["esperar"] = "x_memoria" /\ mano' = mano
        /\ \A k \in Hilos \ {"esperar"} : hilo'[k] = hilo[k]
    BY <1>0, <1>3, OtrosHilos DEF Postea
  <2>2. \A k \in Lugares \ {"esperar", "salida"} : En'[k] = En[k]
    BY <1>3, <2>1, Nombres DEF En, Lugares, Enlazado, Postea, colaVars, entornoVars, canalVars,
       cpuVars, Hilos, PidsDe
  <2>3. /\ En["esperar"] = <<mano["esperar"]>> /\ En'["esperar"] = << >>
        /\ En["salida"] = << >> /\ En'["salida"] = <<mano["esperar"]>>
    BY <2>1 DEF En, Lugares, Enlazado, Retornos
  <2>. QED  BY <1>0, <2>2, <2>3, MueveDeA DEF Traslada
<1>4. ASSUME ExitMemoria PROVE Sale(En, En', mano["esperar"], "salida")
  <2>1. /\ hilo["esperar"] = "x_memoria" /\ hilo'["esperar"] = "fin_cpu"
        /\ \A k \in Hilos \ {"esperar"} : hilo'[k] = hilo[k] /\ mano'[k] = mano[k]
    BY <1>0, <1>4, OtrosHilos DEF ExitMemoria, Suelta
  <2>2. \A k \in Lugares \ {"salida"} : En'[k] = En[k]
    BY <1>4, <2>1, Nombres DEF En, Lugares, Enlazado, ExitMemoria, colaVars, canalVars,
       cpuVars, Hilos, PidsDe, Retornos
  <2>3. En["salida"] = <<mano["esperar"]>> /\ En'["salida"] = << >>
    BY <2>1 DEF En, Lugares, Enlazado
  <2>. QED  BY <1>0, <2>2, <2>3, QuitaDe DEF Sale
<1>5. ASSUME Lista("esperar", "i_listar", "i_cr")
      PROVE  Traslada(mano["esperar"], "esperar", "ready")
  <2>1. /\ hilo["esperar"] = "i_listar" /\ hilo'["esperar"] = "i_cr"
        /\ \A k \in Hilos \ {"esperar"} : hilo'[k] = hilo[k] /\ mano'[k] = mano[k]
    BY <1>0, <1>5, OtrosHilos DEF Lista, Suelta
  <2>2. \A k \in Lugares \ {"esperar", "ready"} : En'[k] = En[k]
    BY <1>5, <2>1, Nombres DEF En, Lugares, Enlazado, Lista, entornoVars, canalVars, cpuVars,
       Hilos, PidsDe
  <2>3. /\ En["ready"] = lista_ready /\ En'["ready"] = Append(lista_ready, mano["esperar"])
        /\ En["esperar"] = <<mano["esperar"]>> /\ En'["esperar"] = << >>
    BY <1>5, <2>1 DEF En, Lugares, Enlazado, Lista, Retornos
  <2>. QED  BY <1>0, <2>2, <2>3, MueveDeA DEF Traslada
<1>6. ASSUME BlockedLista PROVE Traslada(mano["esperar"], "esperar", "blocked")
  <2>1. /\ hilo["esperar"] = "b_listar" /\ hilo'["esperar"] = "b_hilo" /\ mano' = mano
        /\ \A k \in Hilos \ {"esperar"} : hilo'[k] = hilo[k]
    BY <1>0, <1>6, OtrosHilos DEF BlockedLista
  <2>2. \A k \in Lugares \ {"esperar", "blocked"} : En'[k] = En[k]
    BY <1>6, <2>1, Nombres DEF En, Lugares, Enlazado, BlockedLista, entornoVars, canalVars,
       cpuVars, Hilos, PidsDe
  <2>3. /\ En["blocked"] = cola_blocked /\ En'["blocked"] = Append(cola_blocked, mano["esperar"])
        /\ En["esperar"] = <<mano["esperar"]>> /\ En'["esperar"] = << >>
    BY <1>6, <2>1 DEF En, Lugares, Enlazado, BlockedLista, Retornos
  <2>. QED  BY <1>0, <2>2, <2>3, MueveDeA DEF Traslada
<1>. QED  BY <1>1, <1>2, <1>3, <1>4, <1>5, <1>6

LEMMA LugaresIo ==
  ASSUME Unico, UNCHANGED cpuVars
  PROVE  /\ Espera("io", "blocked", "s_blocked", "tomar") => Quieto
         /\ Postea("io", "io_pasaje", "s_pasaje_a_ready", "blocked") => Quieto
         /\ Postea("io", "io_re", "s_ready_execute", "io_cr") => Quieto
         /\ Postea("io", "io_cr", "s_cont_ready", "blocked") => Quieto
         /\ IoToma \/ IoIteracion => Quieto
         /\ IoTermina => Traslada(mano["io"], "blocked", "io")
         /\ IoSuspendido => Traslada(mano["io"], "io", "suspendido")
         /\ IoListo => Traslada(mano["io"], "io", "listo")
         /\ IoEncola => Traslada(mano["io"], "suspendido", "sready")
         /\ Lista("io", "listo", "io_re") => Traslada(mano["io"], "listo", "ready")
<1>0. /\ Tipos /\ Repartida(En) /\ "io" \in Hilos
      /\ {"io", "suspendido", "listo", "sready", "ready", "blocked"} \subseteq Lugares
  BY Nombres DEF Unico, Lugares
<1>1. /\ Espera("io", "blocked", "s_blocked", "tomar") => Quieto
      /\ Postea("io", "io_pasaje", "s_pasaje_a_ready", "blocked") => Quieto
      /\ Postea("io", "io_re", "s_ready_execute", "io_cr") => Quieto
      /\ Postea("io", "io_cr", "s_cont_ready", "blocked") => Quieto
  BY <1>0, SemaforoQuieto DEF Retornos
<1>2. ASSUME IoToma \/ IoIteracion PROVE Quieto
  <2>1. \A k \in Hilos \ {"io"} : hilo'[k] = hilo[k] /\ mano'[k] = mano[k]
    BY <1>0, <1>2, OtrosHilos DEF IoToma, IoIteracion, Toma
  <2>2. UNCHANGED <<colaVars, entornoVars>>
    BY <1>2 DEF IoToma, IoIteracion
  <2>3. \/ hilo["io"] = "tomar" /\ hilo'["io"] = "dormir"
        \/ hilo["io"] = "iteracion" /\ hilo'["io"] = "clasificar" /\ mano' = mano
    BY <1>0, <1>2, OtrosHilos DEF IoToma, IoIteracion, Toma
  <2>. QED  BY <2>1, <2>2, <2>3, Nombres
       DEF Quieto, En, Lugares, Enlazado, colaVars, entornoVars, canalVars, cpuVars, Hilos, PidsDe
<1>3. ASSUME IoTermina PROVE Traslada(mano["io"], "blocked", "io")
  <2>1. /\ hilo["io"] = "dormir" /\ hilo'["io"] = "iteracion" /\ mano' = mano
        /\ \A k \in Hilos \ {"io"} : hilo'[k] = hilo[k]
    BY <1>0, <1>3, OtrosHilos DEF IoTermina
  <2>2. \A k \in Lugares \ {"blocked", "io"} : En'[k] = En[k]
    BY <1>3, <2>1, Nombres DEF En, Lugares, Enlazado, IoTermina, entornoVars, canalVars,
       cpuVars, Hilos, PidsDe
  <2>3. /\ En["blocked"] = cola_blocked /\ En'["blocked"] = Tail(cola_blocked)
        /\ En["io"] = << >> /\ En'["io"] = <<mano["io"]>>
    BY <1>3, <2>1 DEF En, Lugares, Enlazado, IoTermina
  <2>4. cola_blocked # << >> /\ mano["io"] = Head(cola_blocked)
    BY <2>1 DEF Unico, Servido
  <2>. QED  BY <1>0, <2>2, <2>3, <2>4, MueveDeA DEF Traslada
<1>4. ASSUME IoSuspendido PROVE Traslada(mano["io"], "io", "suspendido")
  <2>1. /\ hilo["io"] = "clasificar" /\ hilo'["io"] = "suspendido" /\ mano' = mano
        /\ \A k \in Hilos \ {"io"} : hilo'[k] = hilo[k]
    BY <1>0, <1>4, OtrosHilos DEF IoSuspendido
  <2>2. \A k \in Lugares \ {"io", "suspendido"} : En'[k] = En[k]
    BY <1>4, <2>1, Nombres DEF En, Lugares, Enlazado, IoSuspendido, entornoVars, canalVars,
       cpuVars, Hilos, PidsDe
  <2>3. /\ En["io"] = <<mano["io"]>> /\ En'["io"] = << >>
        /\ En["suspendido"] = << >> /\ En'["suspendido"] = <<mano["io"]>>
    BY <2>1 DEF En, Lugares, Enlazado
  <2>. QED  BY <1>0, <2>2, <2>3, MueveDeA DEF Traslada
<1>5. ASSUME IoListo PROVE Traslada(mano["io"], "io", "listo")
  <2>1. /\ hilo["io"] = "clasificar" /\ hilo'["io"] = "listo" /\ mano' = mano
        /\ \A k \in Hilos \ {"io"} : hilo'[k] = hilo[k]
    BY <1>0, <1>5, OtrosHilos DEF IoListo
  <2>2. \A k \in Lugares \ {"io", "listo"} : En'[k] = En[k]
    BY <1>5, <2>1, Nombres DEF En, Lugares, Enlazado, IoListo, entornoVars, canalVars,
       cpuVars, colaVars, Hilos, PidsDe
  <2>3. /\ En["io"] = <<mano["io"]>> /\ En'["io"] = << >>
        /\ En["listo"] = << >> /\ En'["listo"] = <<mano["io"]>>
    BY <2>1 DEF En, Lugares, Enlazado
  <2>. QED  BY <1>0, <2>2, <2>3, MueveDeA DEF Traslada
<1>6. ASSUME IoEncola PROVE Traslada(mano["io"], "suspendido", "sready")
  <2>1. /\ hilo["io"] = "suspendido" /\ hilo'["io"] = "io_pasaje"
        /\ \A k \in Hilos \ {"io"} : hilo'[k] = hilo[k] /\ mano'[k] = mano[k]
    BY <1>0, <1>6, OtrosHilos DEF IoEncola, Suelta
  <2>2. \A k \in Lugares \ {"sready", "suspendido"} : En'[k] = En[k]
    BY <1>6, <2>1, Nombres DEF En, Lugares, Enlazado, IoEncola, entornoVars, canalVars,
       cpuVars, Hilos, PidsDe
  <2>3. /\ En["suspendido"] = <<mano["io"]>> /\ En'["suspendido"] = << >>
        /\ En["sready"] = cola_suspended_ready
        /\ En'["sready"] = Append(cola_suspended_ready, mano["io"])
    BY <1>6, <2>1 DEF En, Lugares, Enlazado, IoEncola
  <2>. QED  BY <1>0, <2>2, <2>3, MueveDeA DEF Traslada
<1>7. ASSUME Lista("io", "listo", "io_re") PROVE Traslada(mano["io"], "listo", "ready")
  <2>1. /\ hilo["io"] = "listo" /\ hilo'["io"] = "io_re"
        /\ \A k \in Hilos \ {"io"} : hilo'[k] = hilo[k] /\ mano'[k] = mano[k]
    BY <1>0, <1>7, OtrosHilos DEF Lista, Suelta
  <2>2. \A k \in Lugares \ {"listo", "ready"} : En'[k] = En[k]
    BY <1>7, <2>1, Nombres DEF En, Lugares, Enlazado, Lista, entornoVars, canalVars, cpuVars,
       Hilos, PidsDe
  <2>3. /\ En["ready"] = lista_ready /\ En'["ready"] = Append(lista_ready, mano["io"])
        /\ En["listo"] = <<mano["io"]>> /\ En'["listo"] = << >>
    BY <1>7, <2>1 DEF En, Lugares, Enlazado, Lista
  <2>. QED  BY <1>0, <2>2, <2>3, MueveDeA DEF Traslada
<1>. QED  BY <1>1, <1>2, <1>3, <1>4, <1>5, <1>6, <1>7

LEMMA LugaresConsola ==
  ASSUME Unico, UNCHANGED cpuVars, NEW p \in Pids
  PROVE  /\ ConsolaEncola(p) => Entra(En, En', p, "new")
         /\ ConsolaSocket(p) \/ ConsolaIteracion(p) \/ ConsolaAvisa(p) => Quieto
<1>0. Tipos /\ Repartida(En) /\ "new" \in Lugares
  BY DEF Unico, Lugares
<1>1. ASSUME ConsolaEncola(p) PROVE Entra(En, En', p, "new")
  <2>1. \A k \in Lugares \ {"new"} : En'[k] = En[k]
    BY <1>1 DEF En, Lugares, Enlazado, ConsolaEncola, entornoVars, canalVars, cpuVars, PidsDe
  <2>2. En["new"] = cola_new /\ En'["new"] = Append(cola_new, p)
    BY <1>1 DEF En, Lugares, ConsolaEncola
  <2>3. \A l \in Lugares : p \notin ToSet(En[l])
    BY <1>1 DEF Unico, SinLlegar, ConsolaEncola
  <2>. QED  BY <1>0, <2>1, <2>2, <2>3, PoneEn DEF Entra
<1>2. ConsolaSocket(p) \/ ConsolaIteracion(p) \/ ConsolaAvisa(p) => Quieto
  BY DEF Quieto, En, Lugares, Enlazado, PidsDe, ConsolaSocket, ConsolaIteracion, ConsolaAvisa,
         colaVars, entornoVars, canalVars, cpuVars
<1>. QED  BY <1>1, <1>2

LEMMA LugaresSuspendiendo ==
  ASSUME UNCHANGED cpuVars, NEW v, hilo_suspendido(v)
  PROVE  Quieto
<1>1. UNCHANGED <<cola_new, lista_ready, cola_blocked, cola_suspended_ready, dispatch, retorno,
                  cpuPcb, hilo, mano>>
  BY DEF hilo_suspendido, SuspendiendoArranca, SuspendiendoDespierta, SuspendiendoSuelta,
         colaVars, entornoVars, canalVars, cpuVars
<1>. QED  BY <1>1 DEF Quieto, En, Lugares, Enlazado, PidsDe

LEMMA LugaresMemoria == MemoriaElimina => Quieto
BY DEF Quieto, En, Lugares, Enlazado, PidsDe, MemoriaElimina, kernelVars, colaVars, canalVars,
       cpuVars

LEMMA LugaresCpu ==
  ASSUME Unico, UNCHANGED kernelVars
  PROVE  /\ CpuRecibe => Traslada(Head(dispatch), "dispatch", "cpu")
         /\ CpuDevuelve => Traslada(cpuPcb, "cpu", "retorno")
         /\ CpuCiclo \/ CpuFinRafaga \/ CpuInterrupcion => Quieto
<1>0. /\ Tipos /\ Repartida(En) /\ {"dispatch", "cpu", "retorno"} \subseteq Lugares
  BY DEF Unico, Lugares
<1>1. ASSUME CpuRecibe PROVE Traslada(Head(dispatch), "dispatch", "cpu")
  <2>1. \A k \in Lugares \ {"dispatch", "cpu"} : En'[k] = En[k]
    BY <1>1 DEF En, Lugares, Enlazado, CpuRecibe, kernelVars, colaVars, PidsDe
  <2>2. Head(dispatch) \in Pids /\ Nadie \notin Pids /\ dispatch # << >>
    BY <1>0, <1>1, HeadTailProperties, NadieAssumption DEF Tipos, TypeOK, TypeCanales, CpuRecibe
  <2>3. /\ En["dispatch"] = dispatch /\ En'["dispatch"] = Tail(dispatch)
        /\ En["cpu"] = << >> /\ En'["cpu"] = <<Head(dispatch)>>
    BY <1>1, <2>2 DEF En, Lugares, CpuRecibe, Unico, Libre
  <2>. QED  BY <1>0, <2>1, <2>2, <2>3, MueveDeA DEF Traslada
<1>2. ASSUME CpuDevuelve PROVE Traslada(cpuPcb, "cpu", "retorno")
  <2>1. \A k \in Lugares \ {"cpu", "retorno"} : En'[k] = En[k]
    BY <1>2 DEF En, Lugares, Enlazado, CpuDevuelve, kernelVars, colaVars
  <2>2. /\ cpuPcb \in Pids /\ cpuPcb # Nadie /\ <<cpuEstado, cpuPcb>> \in Retornos \X Pids
        /\ retorno \in Seq(Retornos \X Pids)
    BY <1>0, <1>2, NadieAssumption DEF Tipos, Manos, TypeOK, TypeCanales, CpuDevuelve
  <2>3. En'["retorno"] = Append(En["retorno"], cpuPcb)
    BY <1>2, <2>2, PidsDeRetorno DEF En, Lugares, CpuDevuelve
  <2>4. En["cpu"] = <<cpuPcb>> /\ En'["cpu"] = << >>
    BY <1>2, <2>2 DEF En, Lugares, CpuDevuelve
  <2>. QED  BY <1>0, <2>1, <2>3, <2>4, MueveDeA DEF Traslada
<1>3. CpuCiclo \/ CpuFinRafaga \/ CpuInterrupcion => Quieto
  BY DEF Quieto, En, Lugares, Enlazado, PidsDe, CpuCiclo, CpuFinRafaga, CpuInterrupcion,
         kernelVars, colaVars, canalVars
<1>. QED  BY <1>1, <1>2, <1>3

-----------------------------------------------------------------------------
(* A PCB leaves the places only after its EXIT                             *)

\* The places a process passes through before its EXIT and never after it.
Vivos == Lugares \ {"cpu", "retorno", "esperar", "salida"}

SalidaVivos == \A l \in Vivos : \A p \in ToSet(En[l]) : ~Salio(p)
SalidaCpu ==
  cpuPcb \in Pids => (Salio(cpuPcb) <=> cpuFase \in {"fin", "devolver"} /\ cpuEstado = "EXIT")
SalidaRetorno == \A i \in DOMAIN retorno : Salio(retorno[i][2]) <=> retorno[i][1] = "EXIT"
SalidaEsperar ==
  /\ hilo["esperar"] \in {"EXIT", "x_grado", "x_consola", "x_memoria"} => Salio(mano["esperar"])
  /\ hilo["esperar"] \in {"INTERRUPTION", "BLOCKED", "i_listar", "b_listar"}
       => ~Salio(mano["esperar"])
SinEmpezar == \A p \in Pids : consola[p] = "conectada" => pc[p] = 0

\* No process executes past its EXIT, which its program has.
Recorrido ==
  \A p \in Pids : /\ pc[p] <= Len(programa[p])
                  /\ \A i \in 1 .. pc[p] - 1 : programa[p][i] # "E"
NoPerdido ==
  \A p \in Pids : consola[p] # "conectada" /\ ~Salio(p) => \E l \in Lugares : p \in ToSet(En[l])

Salidas == /\ SalidaVivos /\ SalidaCpu /\ SalidaRetorno /\ SalidaEsperar
           /\ SinEmpezar /\ Recorrido /\ NoPerdido

UnicoSalidas == Unico /\ Salidas

-----------------------------------------------------------------------------
(* The invariant is inductive                                              *)

\* What a step does to the places, whoever takes it.
Avanza ==
  \/ Quieto /\ consola' = consola
  \/ \E p \in Pids : Quieto /\ consola[p] # "conectada" /\ consola' = [consola EXCEPT ![p] = consola'[p]]
                     /\ consola'[p] # "conectada"
  \/ \E p \in Pids : /\ Entra(En, En', p, "new") /\ consola[p] = "conectada"
                     /\ consola' = [consola EXCEPT ![p] = "sockets"]
  \/ \E p : \E l, m \in Lugares :
       /\ Traslada(p, l, m) /\ consola' = consola
       /\ m \in Vivos => l \in Vivos \/ ~Salio(p)
  \/ \E p : Sale(En, En', p, "salida") /\ consola' = consola /\ Salio(p)

LEMMA AvanzaRepartida == ASSUME Unico, Avanza PROVE Repartida(En')
<1>0. Repartida(En) /\ {"new", "salida"} \subseteq Lugares
  BY DEF Unico, Lugares
<1>1. CASE Quieto
  BY <1>0, <1>1 DEF Repartida, Quieto
<1>2. CASE \E p \in Pids : Entra(En, En', p, "new")
  BY <1>0, <1>2, RepartidaSigue
<1>3. CASE \E p : \E l, m \in Lugares : Traslada(p, l, m)
  BY <1>0, <1>3, RepartidaSigue DEF Traslada
<1>4. CASE \E p : Sale(En, En', p, "salida")
  BY <1>0, <1>4, RepartidaSigue
<1>. QED  BY <1>1, <1>2, <1>3, <1>4 DEF Avanza

\* Who is where after the step.
LEMMA AvanzaDonde ==
  ASSUME Unico, Avanza
  PROVE  \A p \in Pids :
           /\ consola'[p] = "conectada" => consola[p] = "conectada"
           /\ \A m \in Lugares : p \in ToSet(En'[m]) =>
                \/ p \in ToSet(En[m])
                \/ consola'[p] # "conectada" /\ \E l \in Lugares : p \in ToSet(En[l])
                                               /\ (m \in Vivos => l \in Vivos \/ ~Salio(p))
                \/ m = "new" /\ consola[p] = "conectada" /\ consola'[p] # "conectada"
           /\ consola'[p] # "conectada" /\ consola[p] = "conectada" => p \in ToSet(En'["new"])
           /\ \A l \in Lugares : p \in ToSet(En[l]) =>
                Salio(p) \/ \E m \in Lugares : p \in ToSet(En'[m])
<1>. SUFFICES ASSUME NEW p \in Pids
     PROVE  /\ consola'[p] = "conectada" => consola[p] = "conectada"
            /\ \A m \in Lugares : p \in ToSet(En'[m]) =>
                \/ p \in ToSet(En[m])
                \/ consola'[p] # "conectada" /\ \E l \in Lugares : p \in ToSet(En[l])
                                               /\ (m \in Vivos => l \in Vivos \/ ~Salio(p))
                \/ m = "new" /\ consola[p] = "conectada" /\ consola'[p] # "conectada"
            /\ consola'[p] # "conectada" /\ consola[p] = "conectada" => p \in ToSet(En'["new"])
            /\ \A l \in Lugares : p \in ToSet(En[l]) =>
                Salio(p) \/ \E m \in Lugares : p \in ToSet(En'[m])
  OBVIOUS
<1>0. /\ consola \in [Pids -> EtiquetasConsola] /\ {"new", "salida"} \subseteq Lugares
      /\ \A l \in Lugares : p \in ToSet(En[l]) => consola[p] # "conectada"
  BY DEF Unico, SinLlegar, Tipos, TypeOK, TypeKernel, TypeRegistro, Lugares
<1>1. CASE Quieto /\ consola' = consola
  BY <1>1 DEF Quieto
<1>2. ASSUME NEW q \in Pids, Quieto, consola[q] # "conectada", consola'[q] # "conectada",
             consola' = [consola EXCEPT ![q] = consola'[q]]
      PROVE  /\ consola'[p] = "conectada" <=> consola[p] = "conectada"
             /\ \A m \in Lugares : En'[m] = En[m]
  BY <1>0, <1>2 DEF Quieto
<1>3. ASSUME NEW q \in Pids, Entra(En, En', q, "new"), consola[q] = "conectada",
             consola' = [consola EXCEPT ![q] = "sockets"]
      PROVE  /\ consola'[p] = "conectada" => consola[p] = "conectada"
             /\ \A m \in Lugares : p \in ToSet(En'[m]) =>
                  p \in ToSet(En[m]) \/ (m = "new" /\ p = q)
             /\ consola'[q] # "conectada" /\ (p # q => consola'[p] = consola[p])
             /\ q \in ToSet(En'["new"])
             /\ \A m \in Lugares : p \in ToSet(En[m]) => p \in ToSet(En'[m])
  BY <1>0, <1>3 DEF Entra, Pone
<1>4. ASSUME NEW q, NEW l \in Lugares, NEW m \in Lugares, Traslada(q, l, m),
             consola' = consola, m \in Vivos => l \in Vivos \/ ~Salio(q)
      PROVE  /\ \A k \in Lugares : p \in ToSet(En'[k]) =>
                 p \in ToSet(En[k]) \/ (k = m /\ p = q /\ p \in ToSet(En[l]))
             /\ \A k \in Lugares : p \in ToSet(En[k]) =>
                 p \in ToSet(En'[k]) \/ p \in ToSet(En'[m])
  BY <1>4 DEF Traslada, Mueve, Quita, Pone
<1>5. ASSUME NEW q, Sale(En, En', q, "salida"), consola' = consola, Salio(q)
      PROVE  /\ \A k \in Lugares : p \in ToSet(En'[k]) => p \in ToSet(En[k])
             /\ \A k \in Lugares : p \in ToSet(En[k]) => p \in ToSet(En'[k]) \/ p = q
  BY <1>0, <1>5 DEF Sale, Quita
<1>6. CASE \E q \in Pids : /\ Quieto /\ consola[q] # "conectada" /\ consola'[q] # "conectada"
                           /\ consola' = [consola EXCEPT ![q] = consola'[q]]
  BY <1>2, <1>6
<1>7. CASE \E q \in Pids : /\ Entra(En, En', q, "new") /\ consola[q] = "conectada"
                           /\ consola' = [consola EXCEPT ![q] = "sockets"]
  <2>1. PICK q \in Pids : /\ Entra(En, En', q, "new") /\ consola[q] = "conectada"
                          /\ consola' = [consola EXCEPT ![q] = "sockets"]
    BY <1>7
  <2>2. CASE p = q
    BY <1>0, <1>3, <2>1, <2>2
  <2>3. CASE p # q
    BY <1>0, <1>3, <2>1, <2>3
  <2>. QED  BY <2>2, <2>3
<1>8. CASE \E q : \E l, m \in Lugares : /\ Traslada(q, l, m) /\ consola' = consola
                                        /\ m \in Vivos => l \in Vivos \/ ~Salio(q)
  BY <1>0, <1>4, <1>8
<1>9. CASE \E q : Sale(En, En', q, "salida") /\ consola' = consola /\ Salio(q)
  BY <1>0, <1>5, <1>9
<1>. QED  BY <1>1, <1>6, <1>7, <1>8, <1>9 DEF Avanza

LEMMA AvanzaSalidas ==
  ASSUME UnicoSalidas, Avanza, UNCHANGED <<programa, pc>>,
         SalidaCpu', SalidaRetorno', SalidaEsperar'
  PROVE  Salidas' /\ SinLlegar'
<1>0. /\ Unico /\ SalidaVivos /\ SalidaCpu /\ SinEmpezar /\ Recorrido /\ NoPerdido
      /\ "new" \in Vivos /\ "new" \in Lugares /\ Vivos \subseteq Lugares
  BY DEF UnicoSalidas, Salidas, Vivos, Lugares
<1>1. \A p : Salio(p)' <=> Salio(p)
  BY DEF Salio
<1>2. \A p \in Pids :
        /\ consola'[p] = "conectada" => consola[p] = "conectada"
        /\ \A m \in Lugares : p \in ToSet(En'[m]) =>
             \/ p \in ToSet(En[m])
             \/ consola'[p] # "conectada" /\ \E l \in Lugares : p \in ToSet(En[l])
                                            /\ (m \in Vivos => l \in Vivos \/ ~Salio(p))
             \/ m = "new" /\ consola[p] = "conectada" /\ consola'[p] # "conectada"
        /\ consola'[p] # "conectada" /\ consola[p] = "conectada" => p \in ToSet(En'["new"])
        /\ \A l \in Lugares : p \in ToSet(En[l]) =>
             Salio(p) \/ \E m \in Lugares : p \in ToSet(En'[m])
  BY <1>0, AvanzaDonde
<1>3. \A m \in Lugares : ToSet(En'[m]) \subseteq Pids
  BY <1>0, AvanzaRepartida, ToSetPosiciones DEF Repartida
<1>4. SalidaVivos'
  <2>. SUFFICES ASSUME NEW m \in Vivos, NEW p \in ToSet(En'[m]) PROVE ~Salio(p)
    BY <1>1 DEF SalidaVivos
  <2>1. p \in Pids /\ m \in Lugares
    BY <1>0, <1>3
  <2>2. consola[p] = "conectada" => ~Salio(p)
    BY <1>0, <2>1 DEF SinEmpezar, Salio
  <2>. QED  BY <1>0, <1>2, <2>1, <2>2 DEF SalidaVivos
<1>6. SinEmpezar' /\ Recorrido'
  BY <1>0, <1>2 DEF SinEmpezar, Recorrido
<1>7. NoPerdido'
  <2>. SUFFICES ASSUME NEW p \in Pids, consola'[p] # "conectada", ~Salio(p)
                PROVE  \E l \in Lugares : p \in ToSet(En'[l])
    BY <1>1 DEF NoPerdido
  <2>1. CASE consola[p] = "conectada"
    BY <1>0, <1>2, <2>1
  <2>2. CASE consola[p] # "conectada"
    BY <1>0, <1>2, <2>2 DEF NoPerdido
  <2>. QED  BY <2>1, <2>2
<1>8. SinLlegar'
  BY <1>0, <1>2 DEF SinLlegar, Unico
<1>. QED  BY <1>4, <1>6, <1>7, <1>8 DEF Salidas

\* What a kernel step has to show; the rest follows.
Bien == /\ Avanza /\ UNCHANGED <<programa, pc>>
        /\ SalidaRetorno' /\ SalidaEsperar' /\ Servido'

LEMMA BienUnico ==
  ASSUME UnicoSalidas, Tipos', Bien, UNCHANGED cpuVars
  PROVE  UnicoSalidas'
<1>1. Unico
  BY DEF UnicoSalidas
<1>2. Repartida(En')
  BY <1>1, AvanzaRepartida DEF Bien
<1>3. Libre' /\ SalidaCpu'
  <2>1. \A p : Salio(p)' <=> Salio(p)
    BY DEF Salio, Bien
  <2>. QED  BY <1>1, <2>1 DEF Unico, UnicoSalidas, Salidas, Libre, SalidaCpu, cpuVars
<1>4. Salidas' /\ SinLlegar'
  BY <1>3, AvanzaSalidas DEF Bien
<1>. QED  BY <1>2, <1>3, <1>4 DEF Bien, UnicoSalidas, Unico

\* The threads that neither receive processes nor serve I/O.
LEMMA BienAjeno ==
  ASSUME UnicoSalidas, Avanza, UNCHANGED <<programa, pc, retorno, cola_blocked>>,
         \A h \in {"esperar", "io"} : hilo'[h] = hilo[h] /\ mano'[h] = mano[h]
  PROVE  Bien
<1>1. \A p : Salio(p)' <=> Salio(p)
  BY DEF Salio
<1>2. SalidaRetorno'
  BY <1>1 DEF UnicoSalidas, Salidas, SalidaRetorno
<1>3. SalidaEsperar'
  BY <1>1 DEF UnicoSalidas, Salidas, SalidaEsperar
<1>4. Servido'
  BY DEF UnicoSalidas, Unico, Servido
<1>. QED  BY <1>2, <1>3, <1>4 DEF Bien

LEMMA BienPasaje ==
  ASSUME UnicoSalidas, pasaje_a_ready, UNCHANGED cpuVars
  PROVE  Bien
<1>0. Unico /\ Tipos /\ "pasaje" \in Hilos /\ {"esperar", "io"} \subseteq Hilos \ {"pasaje"}
      /\ {"new", "pasaje", "ready", "sready"} \subseteq Lugares
      /\ {"new", "pasaje", "ready", "sready"} \subseteq Vivos
  BY DEF UnicoSalidas, Unico, Hilos, Lugares, Vivos
<1>1. \A h \in {"esperar", "io"} : hilo'[h] = hilo[h] /\ mano'[h] = mano[h]
  BY <1>0, OtrosHilos
  DEF pasaje_a_ready, Espera, Postea, PasajeMira, PasajeNew, PasajeSusp, Lista, Toma, Suelta
<1>2. UNCHANGED <<programa, pc, retorno, cola_blocked, consola>>
  BY DEF pasaje_a_ready, Espera, Postea, PasajeMira, PasajeNew, PasajeSusp, Lista, colaVars,
     entornoVars, canalVars, pcbVars, registroVars
<1>3. Avanza
  <2>1. \/ Quieto
        \/ Traslada(Head(cola_new), "new", "pasaje")
        \/ Traslada(Head(cola_suspended_ready), "sready", "pasaje")
        \/ Traslada(mano["pasaje"], "pasaje", "ready")
    BY <1>0, LugaresPasaje DEF pasaje_a_ready
  <2>. QED  BY <1>0, <1>2, <2>1 DEF Avanza
<1>. QED  BY <1>1, <1>2, <1>3, BienAjeno

LEMMA BienExecute ==
  ASSUME UnicoSalidas, ready_execute, UNCHANGED cpuVars
  PROVE  Bien
<1>0. Unico /\ Tipos /\ "execute" \in Hilos /\ {"esperar", "io"} \subseteq Hilos \ {"execute"}
      /\ {"ready", "execute", "dispatch"} \subseteq Lugares
      /\ {"ready", "execute", "dispatch"} \subseteq Vivos
  BY DEF UnicoSalidas, Unico, Hilos, Lugares, Vivos
<1>1. \A h \in {"esperar", "io"} : hilo'[h] = hilo[h] /\ mano'[h] = mano[h]
  BY <1>0, OtrosHilos
  DEF ready_execute, fifo_ready_execute, srt_ready_execute, Espera, Postea, Saca, ExecuteEnvia,
      SrtMira, SrtCpu, SrtSalta, SrtHayInterrupcion, SrtInterrumpe, SrtElige, SrtOcupa, Toma, Suelta
<1>2. UNCHANGED <<programa, pc, retorno, cola_blocked, consola>>
  BY DEF ready_execute, fifo_ready_execute, srt_ready_execute, Espera, Postea, Saca, ExecuteEnvia,
      SrtMira, SrtCpu, SrtSalta, SrtHayInterrupcion, SrtInterrumpe, SrtElige, SrtOcupa, colaVars,
     entornoVars, canalVars, pcbVars, registroVars
<1>3. Avanza
  <2>1. \/ Quieto
        \/ \E p : Traslada(p, "ready", "execute")
        \/ Traslada(mano["execute"], "execute", "dispatch")
    <3>1. CASE fifo_ready_execute
      BY <1>0, <3>1, LugaresFifo DEF fifo_ready_execute
    <3>2. CASE srt_ready_execute
      BY <1>0, <3>2, LugaresSrt, LugaresFifo DEF srt_ready_execute
    <3>. QED  BY <3>1, <3>2 DEF ready_execute
  <2>. QED  BY <1>0, <1>2, <2>1 DEF Avanza
<1>. QED  BY <1>1, <1>2, <1>3, BienAjeno

\* What the other threads' invariants need of a step of esperar_cpu.
LEMMA ServidoEsperar ==
  ASSUME UnicoSalidas, esperar_cpu
  PROVE  Servido'
<1>0. /\ Tipos /\ Servido /\ "esperar" \in Hilos /\ "io" \in Hilos \ {"esperar"}
      /\ cola_blocked \in Seq(Pids)
  BY DEF UnicoSalidas, Unico, Hilos, Tipos, TypeOK, TypeKernel, TypeColas
<1>1. hilo'["io"] = hilo["io"] /\ mano'["io"] = mano["io"]
  BY <1>0, OtrosHilos
  DEF esperar_cpu, Espera, Postea, EsperarRecibe, EsperarLibera, ExitConsola, ExitMemoria, Lista,
      BlockedLista, BlockedHilo, FinInterrupcion, Toma, Suelta
<1>2. CASE BlockedLista
  <2>1. cola_blocked' = Append(cola_blocked, mano["esperar"]) /\ mano["esperar"] \in Pids
    BY <1>0, <1>2 DEF BlockedLista, Va, Tipos, Manos, ConProceso
  <2>. QED  BY <1>0, <1>1, <2>1, ListaAgrega DEF Servido
<1>3. CASE ~BlockedLista
  <2>1. cola_blocked' = cola_blocked
    BY <1>3 DEF esperar_cpu, Espera, Postea, EsperarRecibe, EsperarLibera, ExitConsola,
       ExitMemoria, Lista, BlockedHilo, FinInterrupcion, colaVars
  <2>. QED  BY <1>0, <1>1, <2>1 DEF Servido
<1>. QED  BY <1>2, <1>3

LEMMA AvanzaEsperar ==
  ASSUME UnicoSalidas, esperar_cpu, UNCHANGED cpuVars
  PROVE  Avanza
<1>0. /\ Unico /\ Tipos /\ SalidaEsperar /\ "esperar" \in Hilos
      /\ {"retorno", "esperar", "salida", "ready", "blocked"} \subseteq Lugares
      /\ Vivos \cap {"retorno", "esperar", "salida", "ready", "blocked"} = {"ready", "blocked"}
  BY DEF UnicoSalidas, Salidas, Unico, Hilos, Lugares, Vivos
<1>1. consola' = consola
  BY DEF esperar_cpu, Espera, Postea, EsperarRecibe, EsperarLibera, ExitConsola,
     ExitMemoria, Lista, BlockedLista, BlockedHilo, FinInterrupcion, registroVars
<1>2. CASE EsperarRecibe
  BY <1>0, <1>1, <1>2, RecibeTraslada, SMTT(60) DEF Avanza
<1>3. CASE Postea("esperar", "x_grado", "s_multiprogramacion_actual", "x_memoria")
  <2>1. Traslada(mano["esperar"], "esperar", "salida")
    BY <1>0, <1>3, LugaresEsperar
  <2>. QED  BY <1>0, <1>1, <2>1 DEF Avanza
<1>4. CASE ExitMemoria
  <2>1. Salio(mano["esperar"])
    BY <1>0, <1>4 DEF SalidaEsperar, ExitMemoria, Va
  <2>. QED  BY <1>0, <1>1, <1>4, <2>1, LugaresEsperar DEF Avanza
<1>5. CASE Lista("esperar", "i_listar", "i_cr")
  <2>1. ~Salio(mano["esperar"])
    BY <1>0, <1>5 DEF SalidaEsperar, Lista, Va
  <2>. QED  BY <1>0, <1>1, <1>5, <2>1, LugaresEsperar DEF Avanza
<1>6. CASE BlockedLista
  <2>1. ~Salio(mano["esperar"])
    BY <1>0, <1>6 DEF SalidaEsperar, BlockedLista, Va
  <2>. QED  BY <1>0, <1>1, <1>6, <2>1, LugaresEsperar DEF Avanza
<1>7. CASE Quieto
  BY <1>1, <1>7 DEF Avanza
<1>. QED
  BY <1>0, <1>2, <1>3, <1>4, <1>5, <1>6, <1>7, EsperarQuieto, LugaresEsperar DEF esperar_cpu

LEMMA BienEsperar ==
  ASSUME UnicoSalidas, Tipos', esperar_cpu, UNCHANGED cpuVars
  PROVE  Bien
<1>0. /\ Unico /\ Tipos /\ SalidaEsperar /\ SalidaRetorno /\ "esperar" \in Hilos
      /\ retorno \in Seq(Retornos \X Pids)
  BY DEF UnicoSalidas, Salidas, Unico, Hilos, Tipos, TypeOK, TypeCanales
<1>1. UNCHANGED <<programa, pc>>
  BY DEF esperar_cpu, Espera, Postea, EsperarRecibe, EsperarLibera, ExitConsola, ExitMemoria,
     Lista, BlockedLista, BlockedHilo, FinInterrupcion, entornoVars, pcbVars
<1>2. \A p : Salio(p)' <=> Salio(p)
  BY <1>1 DEF Salio
<1>3. SalidaRetorno' /\ SalidaEsperar'
  <2>1. CASE EsperarRecibe
    <3>1. /\ retorno # << >> /\ retorno' = Tail(retorno)
          /\ hilo'["esperar"] = Head(retorno)[1] /\ mano'["esperar"] = Head(retorno)[2]
      BY <1>0, <2>1, OtrosHilos
      DEF EsperarRecibe, Va, Toma, Tipos, TypeOK, TypeKernel, TypeManos, TypeHilos
    <3>2. Head(retorno) = retorno[1] /\ 1 \in DOMAIN retorno
      BY <1>0, <3>1, EmptySeq
    <3>3. \A i \in DOMAIN Tail(retorno) :
            i + 1 \in DOMAIN retorno /\ Tail(retorno)[i] = retorno[i + 1]
      BY <1>0, <3>1, HeadTailProperties
    <3>4. SalidaRetorno'
      BY <1>0, <1>2, <3>1, <3>3 DEF SalidaRetorno
    <3>5. Head(retorno)[1] \in Retornos
      BY <1>0, <3>1, HeadTailProperties
    <3>. QED  BY <1>0, <1>2, <3>1, <3>2, <3>4, <3>5 DEF SalidaRetorno, SalidaEsperar, Retornos
  <2>2. CASE ~EsperarRecibe
    <3>1. retorno' = retorno
      BY <2>2 DEF esperar_cpu, Espera, Postea, EsperarLibera, ExitConsola, ExitMemoria,
         Lista, BlockedLista, BlockedHilo, FinInterrupcion, entornoVars, canalVars
    <3>2. \/ hilo'["esperar"] \notin {"EXIT", "x_grado", "x_consola", "x_memoria", "INTERRUPTION",
                                     "BLOCKED", "i_listar", "b_listar"}
          \/ /\ hilo["esperar"] \in {"EXIT", "x_grado", "x_consola"} /\ mano' = mano
             /\ hilo'["esperar"] \in {"x_grado", "x_consola", "x_memoria"}
          \/ /\ hilo["esperar"] \in {"INTERRUPTION", "BLOCKED"} /\ mano' = mano
             /\ hilo'["esperar"] \in {"i_listar", "b_listar"}
      BY <1>0, <2>2, OtrosHilos
      DEF esperar_cpu, Espera, Postea, EsperarLibera, ExitConsola, ExitMemoria,
          Lista, BlockedLista, BlockedHilo, FinInterrupcion, Suelta
    <3>. QED  BY <1>0, <1>2, <3>1, <3>2 DEF SalidaRetorno, SalidaEsperar
  <2>. QED  BY <2>1, <2>2
<1>. QED  BY <1>1, <1>3, AvanzaEsperar, ServidoEsperar DEF Bien

LEMMA BienIo ==
  ASSUME UnicoSalidas, ejecutar_io, UNCHANGED cpuVars
  PROVE  Bien
<1>0. /\ Unico /\ Tipos /\ SalidaEsperar /\ SalidaRetorno /\ Servido
      /\ "io" \in Hilos /\ "esperar" \in Hilos \ {"io"}
      /\ {"io", "suspendido", "listo", "sready", "ready", "blocked"} \subseteq Lugares
      /\ {"io", "suspendido", "listo", "sready", "ready", "blocked"} \subseteq Vivos
  BY DEF UnicoSalidas, Salidas, Unico, Hilos, Lugares, Vivos
<1>1. UNCHANGED <<programa, pc, retorno, consola>>
  BY DEF ejecutar_io, Espera, Postea, IoToma, IoTermina, IoIteracion, IoSuspendido, IoListo,
     IoEncola, Lista, entornoVars, pcbVars, canalVars, registroVars
<1>2. hilo'["esperar"] = hilo["esperar"] /\ mano'["esperar"] = mano["esperar"]
  BY <1>0, OtrosHilos DEF ejecutar_io, Espera, Postea, IoToma, IoTermina, IoIteracion,
     IoSuspendido, IoListo, IoEncola, Lista, Toma, Suelta
<1>3. \A p : Salio(p)' <=> Salio(p)
  BY <1>1 DEF Salio
<1>4. SalidaRetorno' /\ SalidaEsperar'
  BY <1>0, <1>1, <1>2, <1>3 DEF SalidaRetorno, SalidaEsperar
<1>5. Servido'
  <2>1. CASE IoToma
    BY <1>0, <2>1 DEF IoToma, Toma, Servido, colaVars, Tipos, TypeOK, TypeKernel, TypeManos
  <2>2. CASE ~IoToma
    <3>1. \E a, b : Va("io", a, b) /\ b # "dormir"
      BY <2>2 DEF ejecutar_io, Espera, Postea, IoTermina, IoIteracion,
         IoSuspendido, IoListo, IoEncola, Lista
    <3>2. hilo'["io"] # "dormir"
      BY <1>0, <3>1 DEF Va, Tipos, TypeOK, TypeKernel, TypeHilos
    <3>. QED  BY <3>2 DEF Servido
  <2>. QED  BY <2>1, <2>2
<1>6. Avanza
  <2>1. \/ Quieto
        \/ Traslada(mano["io"], "blocked", "io") \/ Traslada(mano["io"], "io", "suspendido")
        \/ Traslada(mano["io"], "io", "listo") \/ Traslada(mano["io"], "suspendido", "sready")
        \/ Traslada(mano["io"], "listo", "ready")
    BY <1>0, LugaresIo DEF ejecutar_io
  <2>. QED  BY <1>0, <1>1, <2>1 DEF Avanza
<1>. QED  BY <1>1, <1>4, <1>5, <1>6 DEF Bien

LEMMA BienConsola ==
  ASSUME UnicoSalidas, NEW p \in Pids, procesar_socket(p), UNCHANGED cpuVars
  PROVE  Bien
<1>0. Unico
  BY DEF UnicoSalidas
<1>1. UNCHANGED <<programa, pc, retorno, cola_blocked, hilo, mano>>
  BY DEF procesar_socket, ConsolaEncola, ConsolaSocket, ConsolaIteracion, ConsolaAvisa, colaVars,
     entornoVars, pcbVars, canalVars
<1>2. Avanza
  <2>1. CASE ConsolaEncola(p)
    BY <1>0, <2>1, LugaresConsola DEF Avanza, ConsolaEncola
  <2>2. CASE ConsolaSocket(p) \/ ConsolaIteracion(p) \/ ConsolaAvisa(p)
    <3>1. /\ consola[p] # "conectada" /\ consola'[p] # "conectada"
          /\ consola' = [consola EXCEPT ![p] = consola'[p]]
      BY <1>0, <2>2 DEF ConsolaSocket, ConsolaIteracion, ConsolaAvisa, Unico, Tipos, TypeOK,
         TypeKernel, TypeRegistro
    <3>. QED  BY <1>0, <2>2, <3>1, LugaresConsola DEF Avanza
  <2>. QED  BY <2>1, <2>2 DEF procesar_socket
<1>. QED  BY <1>1, <1>2, BienAjeno

LEMMA BienSuspendiendo ==
  ASSUME UnicoSalidas, NEW v \in suspendiendo, hilo_suspendido(v), UNCHANGED cpuVars
  PROVE  Bien
<1>1. UNCHANGED <<programa, pc, retorno, cola_blocked, hilo, mano, consola>>
  BY DEF hilo_suspendido, SuspendiendoArranca, SuspendiendoDespierta, SuspendiendoSuelta,
     colaVars, entornoVars, pcbVars, canalVars, registroVars
<1>2. Avanza
  BY <1>1, LugaresSuspendiendo DEF Avanza
<1>. QED  BY <1>1, <1>2, BienAjeno

\* The CPU's steps but the instruction cycle.
LEMMA UnicoCpu ==
  ASSUME UnicoSalidas, Tipos', CpuRecibe \/ CpuFinRafaga \/ CpuDevuelve \/ CpuInterrupcion,
         UNCHANGED kernelVars
  PROVE  UnicoSalidas'
<1>0. /\ Unico /\ Tipos /\ Repartida(En) /\ SalidaVivos /\ SalidaCpu /\ SalidaRetorno
      /\ SalidaEsperar /\ Servido /\ Libre
      /\ {"dispatch", "cpu", "retorno"} \subseteq Lugares
      /\ "dispatch" \in Vivos /\ {"cpu", "retorno"} \cap Vivos = {}
      /\ retorno \in Seq(Retornos \X Pids) /\ dispatch \in Seq(Pids)
  BY DEF UnicoSalidas, Salidas, Unico, Lugares, Vivos, Tipos, TypeOK, TypeCanales
<1>1. UNCHANGED <<programa, pc, hilo, mano, cola_blocked, consola>>
  BY DEF CpuRecibe, CpuFinRafaga, CpuDevuelve, CpuInterrupcion, kernelVars, colaVars,
     registroVars, pcbVars
<1>2. \A p : Salio(p)' <=> Salio(p)
  BY <1>1 DEF Salio
<1>3. Avanza
  BY <1>0, <1>1, LugaresCpu DEF Avanza
<1>4. SalidaEsperar' /\ Servido'
  BY <1>0, <1>1, <1>2 DEF SalidaEsperar, Servido
<1>5. SalidaCpu' /\ Libre' /\ SalidaRetorno'
  <2>1. CASE CpuRecibe
    <3>1. /\ Head(dispatch) \in ToSet(dispatch) /\ Head(dispatch) \in Pids /\ En["dispatch"] = dispatch
      BY <1>0, <2>1, ListaPrimero DEF CpuRecibe, En
    <3>2. ~Salio(Head(dispatch))
      BY <1>0, <3>1 DEF SalidaVivos
    <3>. QED  BY <1>0, <1>2, <2>1, <3>2 DEF CpuRecibe, SalidaCpu, Libre, SalidaRetorno
  <2>2. CASE CpuFinRafaga
    BY <1>0, <1>2, <2>2 DEF CpuFinRafaga, SalidaCpu, Libre, SalidaRetorno, canalVars
  <2>3. CASE CpuInterrupcion
    BY <1>0, <1>2, <2>3 DEF CpuInterrupcion, SalidaCpu, Libre, SalidaRetorno
  <2>4. CASE CpuDevuelve
    <3>1. /\ cpuPcb \in Pids /\ <<cpuEstado, cpuPcb>> \in Retornos \X Pids
          /\ Salio(cpuPcb) <=> cpuEstado = "EXIT"
      BY <1>0, <2>4 DEF CpuDevuelve, SalidaCpu, Tipos, Manos
    <3>. DEFINE r == <<cpuEstado, cpuPcb>>
    <3>2. /\ \A i \in DOMAIN retorno : retorno'[i] = retorno[i]
          /\ retorno'[Len(retorno) + 1] = r
          /\ DOMAIN retorno' = DOMAIN retorno \cup {Len(retorno) + 1}
      BY <1>0, <2>4, <3>1, AppendProperties DEF CpuDevuelve
    <3>3. SalidaRetorno'
      BY <1>0, <1>2, <3>1, <3>2 DEF SalidaRetorno
    <3>. QED  BY <1>2, <2>4, <3>3, NadieAssumption DEF CpuDevuelve, SalidaCpu, Libre
  <2>. QED  BY <2>1, <2>2, <2>3, <2>4
<1>6. Salidas' /\ SinLlegar'
  BY <1>1, <1>3, <1>4, <1>5, AvanzaSalidas
<1>7. Repartida(En')
  BY <1>0, <1>3, AvanzaRepartida
<1>. QED  BY <1>4, <1>5, <1>6, <1>7 DEF UnicoSalidas, Unico

\* The last instruction of a program is an EXIT.
LEMMA TerminaEnExit ==
  ASSUME Tipos, NEW p \in Pids
  PROVE  /\ Len(programa[p]) \in Nat \ {0} /\ pc[p] \in Nat
         /\ programa[p][Len(programa[p])] = "E"
<1>1. programa[p] \in Programas /\ pc[p] \in Nat
  BY DEF Tipos, TypeOK, TypeCanales
<1>2. programa[p] \in Seq(Operaciones) /\ programa[p] # << >>
      /\ programa[p][Len(programa[p])] = "E"
  BY <1>1, ProgramasAssumption
<1>3. Len(programa[p]) \in Nat /\ Len(programa[p]) # 0
  BY <1>2, EmptySeq
<1>. QED  BY <1>1, <1>2, <1>3

\* One turn of the instruction cycle executes an instruction of the program.
LEMMA UnicoCiclo ==
  ASSUME UnicoSalidas, Tipos', CpuCiclo, UNCHANGED kernelVars
  PROVE  UnicoSalidas'
<1>. DEFINE q == cpuPcb
            n == pc[cpuPcb]
<1>0. /\ Unico /\ Tipos /\ Repartida(En) /\ SalidaVivos /\ SalidaCpu /\ SalidaRetorno
      /\ SalidaEsperar /\ Servido /\ Libre /\ SinEmpezar /\ Recorrido /\ NoPerdido /\ SinLlegar
      /\ retorno \in Seq(Retornos \X Pids) /\ pc \in [Pids -> Nat]
      /\ Vivos \cup {"cpu", "retorno", "esperar", "salida"} \subseteq Lugares
      /\ {"cpu", "retorno", "esperar", "salida"} \cap Vivos = {}
  BY DEF UnicoSalidas, Salidas, Unico, Lugares, Vivos, Tipos, TypeOK, TypeCanales
<1>1. q \in Pids /\ cpuFase = "ciclo" /\ ~Salio(q) /\ n \in Nat
  BY <1>0 DEF CpuCiclo, Tipos, Manos, SalidaCpu
<1>2. /\ UNCHANGED <<programa, hilo, mano, cola_blocked, consola, retorno>> /\ cpuPcb' = q
      /\ pc' = [pc EXCEPT ![q] = n + 1]
  BY DEF CpuCiclo, kernelVars, colaVars, registroVars, pcbVars, canalVars
<1>3. \A k \in Lugares : En'[k] = En[k]
  BY <1>0, LugaresCpu DEF Quieto
<1>4. q \in ToSet(En["cpu"])
  BY <1>1, NadieAssumption, ListaUno DEF En, Lugares
<1>5. \A l \in Lugares \ {"cpu"} : q \notin ToSet(En[l])
  BY <1>0, <1>4 DEF Repartida
<1>6. /\ pc'[q] = n + 1 /\ \A p \in Pids \ {q} : pc'[p] = pc[p]
      /\ \A p \in Pids \ {q} : Salio(p)' <=> Salio(p)
  BY <1>0, <1>1, <1>2 DEF Salio
<1>7. Salio(q)' <=> programa[q][n + 1] = "E"
  BY <1>1, <1>2, <1>6 DEF Salio
<1>8. n + 1 <= Len(programa[q]) /\ \A i \in 1 .. n : programa[q][i] # "E"
  <2>1. /\ n <= Len(programa[q]) /\ \A i \in 1 .. n - 1 : programa[q][i] # "E"
        /\ Len(programa[q]) \in Nat \ {0} /\ programa[q][Len(programa[q])] = "E"
    BY <1>0, <1>1, TerminaEnExit DEF Recorrido
  <2>2. n # Len(programa[q]) /\ (n > 0 => programa[q][n] # "E")
    BY <1>1, <2>1 DEF Salio
  <2>. QED  BY <1>1, <2>1, <2>2
<1>9. Recorrido'
  <2>. SUFFICES ASSUME NEW p \in Pids
       PROVE  pc'[p] <= Len(programa[p]) /\ \A i \in 1 .. pc'[p] - 1 : programa[p][i] # "E"
    BY <1>2 DEF Recorrido
  <2>1. CASE p = q
    BY <1>1, <1>6, <1>8, <2>1
  <2>2. CASE p # q
    BY <1>0, <1>6, <2>2 DEF Recorrido
  <2>. QED  BY <2>1, <2>2
<1>10. SalidaVivos'
  <2>1. \A l \in Vivos : ToSet(En[l]) \subseteq Pids \ {q}
    BY <1>0, <1>5, ToSetPosiciones DEF Repartida
  <2>. QED  BY <1>0, <1>3, <1>6, <2>1 DEF SalidaVivos
<1>11. SalidaCpu'
  <2>1. programa[q][n + 1] = "E" <=> CheckInterrupt(Execute(programa[q][n + 1])) = "EXIT"
    BY DEF CheckInterrupt, Execute
  <2>. QED  BY <1>2, <1>7, <2>1 DEF SalidaCpu, CpuCiclo
<1>12. SalidaRetorno'
  <2>1. \A i \in DOMAIN retorno : retorno[i][2] \in ToSet(En["retorno"])
    BY DEF En, Lugares, PidsDe, ToSet
  <2>2. \A i \in DOMAIN retorno : retorno[i][2] \in Pids \ {q}
    BY <1>0, <1>5, <2>1, ToSetPosiciones DEF Repartida
  <2>. QED  BY <1>0, <1>2, <1>6, <2>2 DEF SalidaRetorno
<1>13. SalidaEsperar'
  <2>1. CASE hilo["esperar"] \in {"EXIT", "INTERRUPTION", "BLOCKED", "x_consola", "x_grado", "i_listar", "b_listar"}
    <3>1. mano["esperar"] \in ToSet(En["esperar"])
      BY <2>1, ListaUno DEF En, Lugares, Enlazado, Retornos
    <3>2. mano["esperar"] \in Pids \ {q}
      BY <1>0, <1>5, <3>1, ToSetPosiciones DEF Repartida
    <3>. QED  BY <1>0, <1>2, <1>6, <3>2 DEF SalidaEsperar
  <2>2. CASE hilo["esperar"] = "x_memoria"
    <3>1. mano["esperar"] \in ToSet(En["salida"])
      BY <2>2, ListaUno DEF En, Lugares, Enlazado
    <3>2. mano["esperar"] \in Pids \ {q}
      BY <1>0, <1>5, <3>1, ToSetPosiciones DEF Repartida
    <3>. QED  BY <1>0, <1>2, <1>6, <3>2 DEF SalidaEsperar
  <2>. QED  BY <1>2, <2>1, <2>2 DEF SalidaEsperar
<1>14. SinEmpezar' /\ SinLlegar'
  <2>1. consola[q] # "conectada"
    BY <1>0, <1>1, <1>4 DEF SinLlegar
  <2>. QED  BY <1>0, <1>2, <1>3, <1>6, <2>1 DEF SinEmpezar, SinLlegar
<1>15. NoPerdido'
  <2>. SUFFICES ASSUME NEW p \in Pids, consola[p] # "conectada", ~Salio(p)'
                PROVE  \E l \in Lugares : p \in ToSet(En[l])
    BY <1>2, <1>3 DEF NoPerdido
  <2>1. CASE p = q
    BY <1>0, <1>4, <2>1
  <2>2. CASE p # q
    BY <1>0, <1>6, <2>2 DEF NoPerdido
  <2>. QED  BY <2>1, <2>2
<1>16. Repartida(En') /\ Servido' /\ Libre'
  <2>1. cpuFase' # "libre"
    BY DEF CpuCiclo
  <2>. QED  BY <1>0, <1>2, <1>3, <2>1 DEF Repartida, Servido, Libre
<1>. QED
  BY <1>9, <1>10, <1>11, <1>12, <1>13, <1>14, <1>15, <1>16 DEF UnicoSalidas, Unico, Salidas

LEMMA UnicoInit == Init => UnicoSalidas
<1>. SUFFICES ASSUME Init PROVE UnicoSalidas
  OBVIOUS
<1>. USE DEF Init, InitCanales, InitKernel, InitCpu
<1>1. \A l \in Lugares : En[l] = << >>
  BY AlgoritmoAssumption DEF En, Lugares, Enlazado, PidsDe, Hilos, Retornos
<1>2. Repartida(En) /\ SinLlegar
  <2>1. << >> \in Seq(Pids)
    OBVIOUS
  <2>. HIDE DEF Init, InitCanales, InitKernel, InitCpu
  <2>2. \A l \in Lugares : ToSet(En[l]) = {}
    BY <1>1, ListaVacia
  <2>. QED  BY <1>1, <2>1, <2>2, ListaVacia DEF Repartida, SinLlegar
<1>3. Servido /\ Libre
  BY DEF Servido, Libre, Hilos
<1>4. SalidaVivos /\ SalidaCpu /\ SalidaRetorno
  BY <1>1, ListaVacia, NadieAssumption DEF SalidaVivos, Vivos, SalidaCpu, SalidaRetorno
<1>5. SalidaEsperar
  BY DEF SalidaEsperar, Hilos
<1>6. SinEmpezar /\ NoPerdido
  BY DEF SinEmpezar, NoPerdido
<1>7. Recorrido
  <2>1. \A p \in Pids : Len(programa[p]) \in Nat /\ pc[p] = 0
    BY TiposInit, TerminaEnExit
  <2>. QED  BY <2>1 DEF Recorrido
<1>. QED
  BY <1>2, <1>3, <1>4, <1>5, <1>6, <1>7, TiposInit DEF UnicoSalidas, Unico, Salidas

LEMMA UnicoNext == UnicoSalidas /\ [Next]_vars => UnicoSalidas'
<1>. SUFFICES ASSUME UnicoSalidas, [Next]_vars PROVE UnicoSalidas'
  OBVIOUS
<1>0. Tipos'
  BY TiposNext DEF UnicoSalidas, Unico
<1>1. CASE Kernel
  <2>1. Bien /\ UNCHANGED cpuVars
    BY <1>0, <1>1, BienPasaje, BienExecute, BienEsperar, BienIo, BienConsola, BienSuspendiendo
    DEF Kernel, NextKernel
  <2>. QED  BY <1>0, <2>1, BienUnico
<1>2. CASE Cpu
  BY <1>0, <1>2, UnicoCpu, UnicoCiclo DEF Cpu, NextCpu, CpuMain
<1>3. CASE MemoriaElimina \/ UNCHANGED vars
  <2>1. Quieto
    BY <1>3, LugaresMemoria DEF Quieto, En, Lugares, Enlazado, PidsDe, vars, kernelVars, colaVars,
       canalVars, cpuVars
  <2>2. UNCHANGED <<programa, pc, retorno, cola_blocked, hilo, mano, consola, cpuVars>>
    BY <1>3 DEF MemoriaElimina, vars, kernelVars, colaVars, registroVars, pcbVars, canalVars
  <2>3. Bien
    BY <2>1, <2>2, BienAjeno DEF Avanza
  <2>. QED  BY <1>0, <2>2, <2>3, BienUnico
<1>. QED  BY <1>1, <1>2, <1>3 DEF Next

-----------------------------------------------------------------------------
(* Pcbs lists what is in the places                                        *)

\* Two lists of distinct processes with none in common, one after the other.
LEMMA JuntaPids ==
  ASSUME NEW s \in Seq(Pids), NEW t \in Seq(Pids), IsInjective(s), IsInjective(t),
         ToSet(s) \cap ToSet(t) = {}
  PROVE  s \o t \in Seq(Pids) /\ IsInjective(s \o t) /\ ToSet(s \o t) = ToSet(s) \cup ToSet(t)
BY ListaConcatena

\* A thread has one label: its hand is in one place.
LEMMA ManosJuntas ==
  /\ Enlazado("io", {"iteracion", "clasificar", "suspendido", "listo"})
       = IF hilo["io"] \in {"iteracion", "clasificar"} THEN En["io"]
         ELSE IF hilo["io"] = "suspendido" THEN En["suspendido"] ELSE En["listo"]
  /\ hilo["io"] \notin {"iteracion", "clasificar"} => En["io"] = << >>
  /\ hilo["io"] # "suspendido" => En["suspendido"] = << >>
  /\ hilo["io"] # "listo" => En["listo"] = << >>
BY DEF En, Lugares, Enlazado

LEMMA PcbsLugares ==
  ASSUME Unico
  PROVE  /\ EnCpu \in Seq(Pids) /\ IsInjective(EnCpu) /\ IsInjective(Pcbs)
         /\ ToSet(EnCpu) = UNION {ToSet(En[l]) : l \in {"execute", "dispatch", "cpu", "retorno", "esperar"}}
         /\ ToSet(Pcbs) = UNION {ToSet(En[l]) : l \in Lugares}
<1>. DEFINE I == Enlazado("io", {"iteracion", "clasificar", "suspendido", "listo"})
            T(l) == ToSet(En[l])
<1>1. /\ \A l \in Lugares : En[l] \in Seq(Pids) /\ IsInjective(En[l])
      /\ \A l, m \in Lugares : l # m => T(l) \cap T(m) = {}
  BY DEF Unico, Repartida
<1>2. /\ I \in Seq(Pids) /\ IsInjective(I) /\ ToSet(I) = T("io") \cup T("suspendido") \cup T("listo")
      /\ {"io", "suspendido", "listo"} \subseteq Lugares
  BY <1>1, ManosJuntas, ListaVacia DEF Lugares
<1>. HIDE DEF I
<1>. DEFINE c1 == En["execute"] \o En["dispatch"]
            c2 == c1 \o En["cpu"]
            c3 == c2 \o En["retorno"]
            c4 == c3 \o En["esperar"]
<1>3. c1 \in Seq(Pids) /\ IsInjective(c1) /\ ToSet(c1) = T("execute") \cup T("dispatch")
  BY <1>1, JuntaPids DEF Lugares
<1>. HIDE DEF c1
<1>4. c2 \in Seq(Pids) /\ IsInjective(c2) /\ ToSet(c2) = ToSet(c1) \cup T("cpu")
  BY <1>1, <1>3, JuntaPids, SMTT(60) DEF Lugares
<1>. HIDE DEF c2
<1>5. c3 \in Seq(Pids) /\ IsInjective(c3) /\ ToSet(c3) = ToSet(c2) \cup T("retorno")
  BY <1>1, <1>3, <1>4, JuntaPids, SMTT(60) DEF Lugares
<1>. HIDE DEF c3
<1>6. c4 \in Seq(Pids) /\ IsInjective(c4) /\ ToSet(c4) = ToSet(c3) \cup T("esperar")
  BY <1>1, <1>3, <1>4, <1>5, JuntaPids, SMTT(60) DEF Lugares
<1>7. EnCpu = c4
  BY DEF EnCpu, En, Lugares, c4, c3, c2, c1
<1>. HIDE DEF c4
<1>8. ToSet(EnCpu) = UNION {ToSet(En[l]) : l \in {"execute", "dispatch", "cpu", "retorno", "esperar"}}
  BY <1>3, <1>4, <1>5, <1>6, <1>7
<1>. DEFINE d1 == En["new"] \o En["ready"]
            d2 == d1 \o En["blocked"]
            d3 == d2 \o En["sready"]
            d4 == d3 \o c4
            d5 == d4 \o En["salida"]
            d6 == d5 \o En["pasaje"]
            d7 == d6 \o I
<1>9. d1 \in Seq(Pids) /\ IsInjective(d1) /\ ToSet(d1) = T("new") \cup T("ready")
  BY <1>1, JuntaPids DEF Lugares
<1>. HIDE DEF d1
<1>10. d2 \in Seq(Pids) /\ IsInjective(d2) /\ ToSet(d2) = ToSet(d1) \cup T("blocked")
  BY <1>1, <1>9, JuntaPids DEF Lugares
<1>. HIDE DEF d2
<1>11. d3 \in Seq(Pids) /\ IsInjective(d3) /\ ToSet(d3) = ToSet(d2) \cup T("sready")
  <2>1. ToSet(d2) \cap T("sready") = {} /\ "sready" \in Lugares
    BY <1>1, <1>9, <1>10 DEF Lugares
  <2>. QED  BY <1>1, <1>10, <2>1, JuntaPids
<1>. HIDE DEF d3
<1>12. d4 \in Seq(Pids) /\ IsInjective(d4) /\ ToSet(d4) = ToSet(d3) \cup ToSet(c4)
  <2>1. ToSet(d3) \cap ToSet(c4) = {}
    BY <1>1, <1>3, <1>4, <1>5, <1>6, <1>9, <1>10, <1>11, SMTT(60) DEF Lugares
  <2>. QED  BY <1>6, <1>11, <2>1, JuntaPids
<1>. HIDE DEF d4
<1>13. d5 \in Seq(Pids) /\ IsInjective(d5) /\ ToSet(d5) = ToSet(d4) \cup T("salida")
  <2>1. ToSet(d4) \cap T("salida") = {}
    BY <1>1, <1>3, <1>4, <1>5, <1>6, <1>9, <1>10, <1>11, <1>12 DEF Lugares
  <2>. QED  BY <1>1, <1>12, <2>1, JuntaPids DEF Lugares
<1>. HIDE DEF d5
<1>14. d6 \in Seq(Pids) /\ IsInjective(d6) /\ ToSet(d6) = ToSet(d5) \cup T("pasaje")
  <2>1. ToSet(d5) \cap T("pasaje") = {}
    BY <1>1, <1>3, <1>4, <1>5, <1>6, <1>9, <1>10, <1>11, <1>12, <1>13 DEF Lugares
  <2>. QED  BY <1>1, <1>13, <2>1, JuntaPids DEF Lugares
<1>. HIDE DEF d6
<1>15. d7 \in Seq(Pids) /\ IsInjective(d7) /\ ToSet(d7) = ToSet(d6) \cup ToSet(I)
  <2>1. /\ ToSet(d6) \cap T("io") = {} /\ ToSet(d6) \cap T("suspendido") = {}
        /\ ToSet(d6) \cap T("listo") = {}
    <3>1. /\ ToSet(c4) = T("execute") \cup T("dispatch") \cup T("cpu") \cup T("retorno")
                           \cup T("esperar")
          /\ ToSet(d3) = T("new") \cup T("ready") \cup T("blocked") \cup T("sready")
          /\ ToSet(d6) = ToSet(d3) \cup ToSet(c4) \cup T("salida") \cup T("pasaje")
      BY <1>3, <1>4, <1>5, <1>6, <1>9, <1>10, <1>11, <1>12, <1>13, <1>14
    <3>2. \A m \in {"io", "suspendido", "listo"} : ToSet(c4) \cap T(m) = {}
      BY <1>1, <3>1 DEF Lugares
    <3>3. \A m \in {"io", "suspendido", "listo"} : ToSet(d3) \cap T(m) = {}
      BY <1>1, <3>1 DEF Lugares
    <3>4. \A m \in {"io", "suspendido", "listo"} :
            T("salida") \cap T(m) = {} /\ T("pasaje") \cap T(m) = {}
      BY <1>1 DEF Lugares
    <3>. QED  BY <3>1, <3>2, <3>3, <3>4
  <2>2. ToSet(d6) \cap ToSet(I) = {}
    BY <1>2, <2>1
  <2>. QED  BY <1>2, <1>14, <2>2, JuntaPids
<1>16. Pcbs = d7
  BY <1>7 DEF Pcbs, En, Lugares, I, d7, d6, d5, d4, d3, d2, d1
<1>. HIDE DEF d7
<1>17. ToSet(Pcbs) = UNION {ToSet(En[l]) : l \in Lugares}
  BY <1>2, <1>3, <1>4, <1>5, <1>6, <1>9, <1>10, <1>11, <1>12, <1>13, <1>14, <1>15, <1>16 DEF Lugares
<1>. QED  BY <1>6, <1>7, <1>8, <1>15, <1>16, <1>17

-----------------------------------------------------------------------------
(* Theorems                                                                *)

LEMMA UnicoSiempre == Spec => []UnicoSalidas
BY UnicoInit, UnicoNext, PTL DEF Spec

\* No PCB is duplicated on its way from queue to thread to socket, and none is
\* lost before its process has executed EXIT, in any interleaving of the
\* kernel's threads, the CPU and memory, under FIFO and under SRT.
THEOREM PcbUnicoCorrecto == Spec => []PcbUnico
<1>1. UnicoSalidas => PcbUnico
  <2>. SUFFICES ASSUME UnicoSalidas PROVE PcbUnico
    OBVIOUS
  <2>1. IsInjective(Pcbs) /\ ToSet(Pcbs) = UNION {ToSet(En[l]) : l \in Lugares}
    BY PcbsLugares DEF UnicoSalidas
  <2>2. ASSUME NEW p \in Pids, consola[p] # "conectada", ~Salio(p) PROVE p \in ToSet(Pcbs)
    BY <2>1, <2>2 DEF UnicoSalidas, Salidas, NoPerdido
  <2>. QED  BY <2>1, <2>2 DEF PcbUnico
<1>. QED  BY <1>1, UnicoSiempre, PTL

\* ejecutar_io removes the process it served: what it reads as the first of
\* cola_blocked before its sleep still is after it, though the list is unlocked
\* in between and esperar_cpu appends to it.
THEOREM IoRetiraCorrecto == Spec => []IoRetiraAlServido
<1>1. UnicoSalidas => IoRetiraAlServido
  BY DEF UnicoSalidas, Unico, Servido, IoRetiraAlServido
<1>. QED  BY <1>1, UnicoSiempre, PTL

\* The CPU never executes past a process's EXIT, and fetches every instruction
\* from inside the program.
THEOREM RecorridoCorrecto == Spec => []Recorrido
<1>1. UnicoSalidas => Recorrido
  BY DEF UnicoSalidas, Salidas
<1>. QED  BY <1>1, UnicoSiempre, PTL
=============================================================================
