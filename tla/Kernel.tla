------------------------------- MODULE Kernel -------------------------------
(***************************************************************************)
(* The kernel's schedulers (kernel/src/kernel_utils.c): one thread per     *)
(* console (procesar_socket), the long/mid-term scheduler (pasaje_a_ready),*)
(* the short-term scheduler (fifo_ready_execute or srt_ready_execute), the *)
(* thread that receives processes back from the CPU (esperar_cpu), the one *)
(* that serves I/O (ejecutar_io), and one detached thread per I/O request  *)
(* (suspendiendo).  A step is what a thread does between two points where  *)
(* another thread can tell the difference: one semaphore operation, one    *)
(* critical section, one message.                                          *)
(***************************************************************************)
EXTENDS Canales

CONSTANTS
  Algoritmo,      \* ALGORITMO_PLANIFICACION
  Grado,          \* GRADO_MULTIPROGRAMACION
  ArranqueTardio, \* may a suspendiendo thread make its first read only after
                  \* the I/O it watches has finished?
  RegistroTardio  \* may a process leave cola_new before the console's thread
                  \* has put it in sockets and iteracion_blocked?

ASSUME AlgoritmoAssumption == Algoritmo \in {"FIFO", "SRT"}
ASSUME GradoAssumption == Grado \in Nat \ {0}
ASSUME TiemposAssumption == ArranqueTardio \in BOOLEAN /\ RegistroTardio \in BOOLEAN

Semaforos == {"s_pasaje_a_ready", "s_multiprogramacion_actual",
              "s_ready_execute", "s_cont_ready", "s_cpu_desocupado",
              "s_esperar_cpu", "s_blocked", "s_pcb_desalojado"}

Hilos == {"pasaje", "execute", "esperar", "io"}

\* Where each thread can be, one label per step.
EtiquetasPasaje == {"pasaje", "grado", "mirar", "new", "susp", "listar", "re", "cr"}
EtiquetasFifo == {"f_re", "f_cpu", "f_cr", "f_sacar"}
EtiquetasSrt == {"s_mirar", "s_tragar", "s_re", "s_cr", "s_cpu", "s_marcar",
                 "s_interrumpir", "s_esperar", "s_desmarcar", "s_elegir", "s_ocupar"}
EtiquetasExecute == EtiquetasFifo \cup EtiquetasSrt \cup {"enviar", "avisar"}
EtiquetasExit == {"x_grado", "x_consola", "x_memoria"}
EtiquetasInterruption == {"i_listar", "i_cr", "i_desalojado"}
EtiquetasBlocked == {"b_listar", "b_hilo", "b_blocked"}
EtiquetasFin == {"fin_cpu", "fin_re", "fin_interrupcion"}
EtiquetasEsperar == {"esperar", "recv"} \cup Retornos \cup EtiquetasExit
                    \cup EtiquetasInterruption \cup EtiquetasBlocked \cup EtiquetasFin
EtiquetasIo == {"blocked", "tomar", "dormir", "iteracion", "clasificar",
                "suspendido", "io_pasaje", "listo", "io_re", "io_cr"}
EtiquetasConsola == {"conectada", "sockets", "iteracion", "avisar", "fin"}

Etiquetas == EtiquetasPasaje \cup EtiquetasExecute \cup EtiquetasEsperar \cup EtiquetasIo

\* A suspendiendo thread: the process of the PCB it was given and the burst
\* (pc) it was created for, where it is, the key and iteration it read, and
\* whether pcb_destroy has freed that PCB since.
Vigilantes == [pid : Pids, nro : Nat, fase : {"arranque", "dormido", "soltar"},
               clave : Pids \cup {Nadie}, iter : Nat, liberado : BOOLEAN]

VARIABLES
  sem,                     \* the semaphores' values
  cola_new, lista_ready, cola_blocked,
  cola_suspended_blocked, cola_suspended_ready,
  sockets,                 \* pids with an entry in the dictionary sockets
  iteracion_blocked,
  cpu_desocupado, hay_interrupcion,
  consola,                 \* by pid: where its procesar_socket thread is
  avisada,                 \* pids whose console has been sent EXIT
  hilo,                    \* where each scheduler thread is
  mano,                    \* the PCB each scheduler thread holds
  suspendiendo             \* the live suspendiendo threads

colaVars == <<cola_new, lista_ready, cola_blocked, cola_suspended_blocked,
              cola_suspended_ready>>
registroVars == <<sockets, iteracion_blocked, consola, avisada>>
banderaVars == <<cpu_desocupado, hay_interrupcion>>
kernelVars == <<sem, colaVars, registroVars, banderaVars, hilo, mano, suspendiendo>>

\* inicializar_kernel
InitKernel ==
  /\ sem = [s \in Semaforos |->
              CASE s = "s_cpu_desocupado" -> 1
                [] s = "s_multiprogramacion_actual" -> Grado
                [] OTHER -> 0]
  /\ cola_new = << >> /\ lista_ready = << >> /\ cola_blocked = << >>
  /\ cola_suspended_blocked = << >> /\ cola_suspended_ready = << >>
  /\ sockets = {}
  /\ iteracion_blocked = [p \in Pids |-> 0]
  /\ cpu_desocupado = TRUE /\ hay_interrupcion = FALSE
  /\ consola = [p \in Pids |-> "conectada"]
  /\ avisada = {}
  /\ hilo = [h \in Hilos |->
               CASE h = "pasaje" -> "pasaje"
                 [] h = "execute" -> IF Algoritmo = "FIFO" THEN "f_re" ELSE "s_mirar"
                 [] h = "esperar" -> "esperar"
                 [] h = "io" -> "blocked"]
  /\ mano = [h \in Hilos |-> Nadie]
  /\ suspendiendo = {}

TypeSem == sem \in [Semaforos -> Nat]

TypeColas ==
  /\ cola_new \in Seq(Pids) /\ lista_ready \in Seq(Pids)
  /\ cola_blocked \in Seq(Pids) /\ cola_suspended_ready \in Seq(Pids)
  /\ cola_suspended_blocked \in Seq(Pids)

TypeRegistro ==
  /\ sockets \subseteq Pids /\ avisada \subseteq Pids
  /\ iteracion_blocked \in [Pids -> Nat]
  /\ consola \in [Pids -> EtiquetasConsola]
  /\ cpu_desocupado \in BOOLEAN /\ hay_interrupcion \in BOOLEAN

TypeHilos == hilo \in [Hilos -> Etiquetas]

TypeManos == mano \in [Hilos -> Pids \cup {Nadie}]

TypeSuspendiendo == suspendiendo \subseteq Vigilantes

TypeKernel ==
  TypeSem /\ TypeColas /\ TypeRegistro /\ TypeHilos /\ TypeManos /\ TypeSuspendiendo

-----------------------------------------------------------------------------
(* Steps the threads are made of                                           *)

Va(h, a, b) == hilo[h] = a /\ hilo' = [hilo EXCEPT ![h] = b]
Toma(h, p) == mano' = [mano EXCEPT ![h] = p]
Suelta(h) == mano' = [mano EXCEPT ![h] = Nadie]

sem_post(s) == sem' = [sem EXCEPT ![s] = @ + 1]
sem_wait(s) == sem[s] > 0 /\ sem' = [sem EXCEPT ![s] = @ - 1]

entornoVars == <<pcbVars, canalVars, memVars>>

\* A step of a scheduler thread that is a single semaphore operation.
Postea(h, a, s, b) ==
  /\ Va(h, a, b) /\ sem_post(s)
  /\ UNCHANGED <<colaVars, registroVars, banderaVars, mano, suspendiendo, entornoVars>>
Espera(h, a, s, b) ==
  /\ Va(h, a, b) /\ sem_wait(s)
  /\ UNCHANGED <<colaVars, registroVars, banderaVars, mano, suspendiendo, entornoVars>>

-----------------------------------------------------------------------------
(* procesar_socket: a console's program becomes a process                  *)

\* recv_programa, pid_sig, pcb_set, queue_push(cola_new, proceso)
ConsolaEncola(p) ==
  /\ consola[p] = "conectada"
  /\ consola' = [consola EXCEPT ![p] = "sockets"]
  /\ cola_new' = Append(cola_new, p)
  /\ UNCHANGED <<sem, lista_ready, cola_blocked, cola_suspended_blocked,
                 cola_suspended_ready, sockets, iteracion_blocked, avisada,
                 banderaVars, hilo, mano, suspendiendo, entornoVars>>

\* dictionary_put(sockets, key, cliente_socket)
ConsolaSocket(p) ==
  /\ consola[p] = "sockets"
  /\ consola' = [consola EXCEPT ![p] = "iteracion"]
  /\ sockets' = sockets \cup {p}
  /\ UNCHANGED <<sem, colaVars, iteracion_blocked, avisada, banderaVars,
                 hilo, mano, suspendiendo, entornoVars>>

\* dictionary_put(iteracion_blocked, key, 0)
ConsolaIteracion(p) ==
  /\ consola[p] = "iteracion"
  /\ consola' = [consola EXCEPT ![p] = "avisar"]
  /\ iteracion_blocked' = [iteracion_blocked EXCEPT ![p] = 0]
  /\ UNCHANGED <<sem, colaVars, sockets, avisada, banderaVars,
                 hilo, mano, suspendiendo, entornoVars>>

\* sem_post(&s_pasaje_a_ready); return
ConsolaAvisa(p) ==
  /\ consola[p] = "avisar"
  /\ consola' = [consola EXCEPT ![p] = "fin"]
  /\ sem_post("s_pasaje_a_ready")
  /\ UNCHANGED <<colaVars, sockets, iteracion_blocked, avisada, banderaVars,
                 hilo, mano, suspendiendo, entornoVars>>

procesar_socket(p) ==
  ConsolaEncola(p) \/ ConsolaSocket(p) \/ ConsolaIteracion(p) \/ ConsolaAvisa(p)

-----------------------------------------------------------------------------
(* pasaje_a_ready: NEW -> READY and SUSPENDED_READY -> READY               *)

\* queue_is_empty(cola_suspended_ready) decides which queue is popped.
PasajeMira ==
  /\ Va("pasaje", "mirar", IF cola_suspended_ready = << >> THEN "new" ELSE "susp")
  /\ UNCHANGED <<sem, colaVars, registroVars, banderaVars, mano, suspendiendo, entornoVars>>

\* queue_pop(cola_new) and solicitar_tabla_paginas
PasajeNew ==
  /\ Va("pasaje", "new", "listar")
  /\ cola_new # << >>
  /\ RegistroTardio \/ consola[Head(cola_new)] = "fin"
  /\ Toma("pasaje", Head(cola_new))
  /\ cola_new' = Tail(cola_new)
  /\ memoria' = [memoria EXCEPT ![Head(cola_new)] = "tablas"]
  /\ UNCHANGED <<sem, lista_ready, cola_blocked, cola_suspended_blocked,
                 cola_suspended_ready, registroVars, banderaVars, suspendiendo,
                 pcbVars, canalVars, bajas>>

\* Mutated form of PasajeSusp: queue_peek in the place of queue_pop.
PasajeSuspMira ==
  /\ Va("pasaje", "susp", "listar")
  /\ cola_suspended_ready # << >>
  /\ Toma("pasaje", Head(cola_suspended_ready))
  /\ UNCHANGED <<sem, colaVars, registroVars, banderaVars, suspendiendo, entornoVars>>

\* queue_pop(cola_suspended_ready)
PasajeSusp ==
  /\ Va("pasaje", "susp", "listar")
  /\ cola_suspended_ready # << >>
  /\ Toma("pasaje", Head(cola_suspended_ready))
  /\ cola_suspended_ready' = Tail(cola_suspended_ready)
  /\ UNCHANGED <<sem, cola_new, lista_ready, cola_blocked, cola_suspended_blocked,
                 registroVars, banderaVars, suspendiendo, entornoVars>>

\* list_add(lista_ready, proceso), by the thread h that holds the process
Lista(h, a, b) ==
  /\ Va(h, a, b)
  /\ lista_ready' = Append(lista_ready, mano[h])
  /\ Suelta(h)
  /\ UNCHANGED <<sem, cola_new, cola_blocked, cola_suspended_blocked,
                 cola_suspended_ready, registroVars, banderaVars, suspendiendo,
                 entornoVars>>

\* Mutated form of pasaje_a_ready: it does not wait for a slot of the degree.
PasajeSinGrado ==
  \/ Espera("pasaje", "pasaje", "s_pasaje_a_ready", "mirar")
  \/ PasajeMira \/ PasajeNew \/ PasajeSusp
  \/ Lista("pasaje", "listar", "re")
  \/ Postea("pasaje", "re", "s_ready_execute", "cr")
  \/ Postea("pasaje", "cr", "s_cont_ready", "pasaje")

\* Mutated form of pasaje_a_ready: the post of s_ready_execute is missing.
PasajeSinAviso ==
  \/ Espera("pasaje", "pasaje", "s_pasaje_a_ready", "grado")
  \/ Espera("pasaje", "grado", "s_multiprogramacion_actual", "mirar")
  \/ PasajeMira \/ PasajeNew \/ PasajeSusp
  \/ Lista("pasaje", "listar", "cr")
  \/ Postea("pasaje", "cr", "s_cont_ready", "pasaje")

pasaje_a_ready ==
  \/ Espera("pasaje", "pasaje", "s_pasaje_a_ready", "grado")
  \/ Espera("pasaje", "grado", "s_multiprogramacion_actual", "mirar")
  \/ PasajeMira \/ PasajeNew \/ PasajeSusp
  \/ Lista("pasaje", "listar", "re")
  \/ Postea("pasaje", "re", "s_ready_execute", "cr")
  \/ Postea("pasaje", "cr", "s_cont_ready", "pasaje")

-----------------------------------------------------------------------------
(* The short-term scheduler                                                *)

\* Mutated form of Saca: list_get in the place of list_remove.
SacaCopia(a, i, b) ==
  /\ Va("execute", a, b)
  /\ i \in DOMAIN lista_ready
  /\ Toma("execute", lista_ready[i])
  /\ UNCHANGED <<sem, colaVars, registroVars, banderaVars, suspendiendo, entornoVars>>

\* list_remove(lista_ready, i)
Saca(a, i, b) ==
  /\ Va("execute", a, b)
  /\ i \in DOMAIN lista_ready
  /\ Toma("execute", lista_ready[i])
  /\ lista_ready' = RemoveAt(lista_ready, i)
  /\ UNCHANGED <<sem, cola_new, cola_blocked, cola_suspended_blocked,
                 cola_suspended_ready, registroVars, banderaVars, suspendiendo,
                 entornoVars>>

\* send_proceso(conexion_cpu_dispatch, proceso, PROCESO) and pcb_destroy, which
\* frees the PCB under the suspendiendo threads that were given it.
ExecuteEnvia ==
  /\ Va("execute", "enviar", "avisar")
  /\ dispatch' = Append(dispatch, mano["execute"])
  /\ suspendiendo' = {IF v.pid = mano["execute"] THEN [v EXCEPT !.liberado = TRUE] ELSE v
                        : v \in suspendiendo}
  /\ Suelta("execute")
  /\ UNCHANGED <<sem, colaVars, registroVars, banderaVars, pcbVars, retorno,
                 interrupt, memVars>>

\* Mutated form of fifo_ready_execute: it does not wait for the CPU to be free.
FifoSinCpu ==
  \/ Espera("execute", "f_re", "s_ready_execute", "f_cr")
  \/ Espera("execute", "f_cr", "s_cont_ready", "f_sacar")
  \/ Saca("f_sacar", 1, "enviar")
  \/ ExecuteEnvia
  \/ Postea("execute", "avisar", "s_esperar_cpu", "f_re")

fifo_ready_execute ==
  \/ Espera("execute", "f_re", "s_ready_execute", "f_cpu")
  \/ Espera("execute", "f_cpu", "s_cpu_desocupado", "f_cr")
  \/ Espera("execute", "f_cr", "s_cont_ready", "f_sacar")
  \/ Saca("f_sacar", 1, "enviar")
  \/ ExecuteEnvia
  \/ Postea("execute", "avisar", "s_esperar_cpu", "f_re")

\* seleccionar_proceso_srt: the first process of the ready list with the
\* smallest estimate ("en caso de empate es FIFO").
PrimerMinimo(i) ==
  /\ \A j \in DOMAIN lista_ready : est[lista_ready[i]] <= est[lista_ready[j]]
  /\ \A j \in 1 .. i - 1 : est[lista_ready[i]] < est[lista_ready[j]]

SrtElige ==
  \E i \in DOMAIN lista_ready : PrimerMinimo(i) /\ Saca("s_elegir", i, "s_ocupar")

\* A step of the SRT scheduler that touches only its label.
SrtSalta(a, b) ==
  /\ Va("execute", a, b)
  /\ UNCHANGED <<sem, colaVars, registroVars, banderaVars, mano, suspendiendo, entornoVars>>

SrtHayInterrupcion(a, valor, b) ==
  /\ Va("execute", a, b)
  /\ hay_interrupcion' = valor
  /\ UNCHANGED <<sem, colaVars, registroVars, cpu_desocupado, mano, suspendiendo, entornoVars>>

\* sem_getvalue: exactly one pending post is taken for a duplicate.
SrtMira == SrtSalta("s_mirar", IF sem["s_ready_execute"] = 1 THEN "s_tragar" ELSE "s_re")

\* if (!cpu_desocupado)
SrtCpu == SrtSalta("s_cpu", IF cpu_desocupado THEN "s_elegir" ELSE "s_marcar")

\* desalojar_cpu
SrtInterrumpe ==
  /\ Va("execute", "s_interrumpir", "s_esperar")
  /\ interrupt' = interrupt + 1
  /\ UNCHANGED <<sem, colaVars, registroVars, banderaVars, mano, suspendiendo,
                 pcbVars, dispatch, retorno, memVars>>

\* cpu_desocupado = false
SrtOcupa ==
  /\ Va("execute", "s_ocupar", "enviar")
  /\ cpu_desocupado' = FALSE
  /\ UNCHANGED <<sem, colaVars, registroVars, hay_interrupcion, mano, suspendiendo, entornoVars>>

srt_ready_execute ==
  \/ SrtMira
  \/ Espera("execute", "s_tragar", "s_ready_execute", "s_re")
  \/ Espera("execute", "s_re", "s_ready_execute", "s_cr")
  \/ Espera("execute", "s_cr", "s_cont_ready", "s_cpu")
  \/ SrtCpu
  \/ SrtHayInterrupcion("s_marcar", TRUE, "s_interrumpir")
  \/ SrtInterrumpe
  \/ Espera("execute", "s_esperar", "s_pcb_desalojado", "s_desmarcar")
  \/ SrtHayInterrupcion("s_desmarcar", FALSE, "s_elegir")
  \/ SrtElige
  \/ SrtOcupa
  \/ ExecuteEnvia
  \/ Postea("execute", "avisar", "s_esperar_cpu", "s_mirar")

-----------------------------------------------------------------------------
(* esperar_cpu: a process comes back from the CPU                          *)

\* Mutated form of EsperarRecibe: recv_proceso fails and nobody looks.
EsperarRecibeNada ==
  /\ retorno # << >>
  /\ Va("esperar", "recv", Head(retorno)[1])
  /\ retorno' = Tail(retorno)
  /\ UNCHANGED <<sem, colaVars, registroVars, banderaVars, mano, suspendiendo,
                 pcbVars, dispatch, interrupt, memVars>>

\* recv of the op_code and recv_proceso into a new PCB
EsperarRecibe ==
  /\ retorno # << >>
  /\ Va("esperar", "recv", Head(retorno)[1])
  /\ Toma("esperar", Head(retorno)[2])
  /\ retorno' = Tail(retorno)
  /\ UNCHANGED <<sem, colaVars, registroVars, banderaVars, suspendiendo,
                 pcbVars, dispatch, interrupt, memVars>>

\* cpu_desocupado = true, then the branch of the op_code
EsperarLibera(cop, b) ==
  /\ Va("esperar", cop, b)
  /\ cpu_desocupado' = TRUE
  /\ UNCHANGED <<sem, colaVars, registroVars, hay_interrupcion, mano, suspendiendo, entornoVars>>

\* Mutated form of ExitConsola: the send is missing.
ExitSinConsola ==
  /\ Va("esperar", "x_consola", "x_grado")
  /\ UNCHANGED <<sem, colaVars, registroVars, banderaVars, mano, suspendiendo, entornoVars>>

\* Mutated form of ExitConsola: the slot of the degree is not given back.
ExitConsolaSinGrado ==
  /\ Va("esperar", "x_consola", "x_memoria")
  /\ avisada' = avisada \cup ({mano["esperar"]} \cap sockets)
  /\ UNCHANGED <<sem, colaVars, sockets, iteracion_blocked, consola, banderaVars,
                 mano, suspendiendo, entornoVars>>

\* EXIT: dictionary_get(sockets, key); a process not in it yields socket 0, which
\* is no console.  The send to that socket comes after the next step's post, but
\* what it does is decided here, and only the console sees when it is done.
ExitConsola ==
  /\ Va("esperar", "x_consola", "x_grado")
  /\ avisada' = avisada \cup ({mano["esperar"]} \cap sockets)
  /\ UNCHANGED <<sem, colaVars, sockets, iteracion_blocked, consola, banderaVars,
                 mano, suspendiendo, entornoVars>>

\* EXIT: ELIMINAR_ESTRUCTURAS, which has no answer, and pcb_destroy
ExitMemoria ==
  /\ Va("esperar", "x_memoria", "fin_cpu")
  /\ bajas' = Append(bajas, mano["esperar"])
  /\ Suelta("esperar")
  /\ UNCHANGED <<sem, colaVars, registroVars, banderaVars, suspendiendo,
                 pcbVars, canalVars, memoria>>

\* Mutated form of BlockedLista: list_add_in_index(cola_blocked, 0, pcb).
BlockedListaPrimero ==
  /\ Va("esperar", "b_listar", "b_hilo")
  /\ cola_blocked' = <<mano["esperar"]>> \o cola_blocked
  /\ UNCHANGED <<sem, cola_new, lista_ready, cola_suspended_blocked,
                 cola_suspended_ready, registroVars, banderaVars, mano,
                 suspendiendo, entornoVars>>

\* BLOCKED: list_add(cola_blocked, pcb)
BlockedLista ==
  /\ Va("esperar", "b_listar", "b_hilo")
  /\ cola_blocked' = Append(cola_blocked, mano["esperar"])
  /\ UNCHANGED <<sem, cola_new, lista_ready, cola_suspended_blocked,
                 cola_suspended_ready, registroVars, banderaVars, mano,
                 suspendiendo, entornoVars>>

\* BLOCKED: pthread_create of suspendiendo
BlockedHilo ==
  /\ Va("esperar", "b_hilo", "b_blocked")
  /\ suspendiendo' = suspendiendo \cup
       {[pid |-> mano["esperar"], nro |-> pc[mano["esperar"]], fase |-> "arranque",
         clave |-> Nadie, iter |-> 0, liberado |-> FALSE]}
  /\ Suelta("esperar")
  /\ UNCHANGED <<sem, colaVars, registroVars, banderaVars, entornoVars>>

\* "Por si la interrupcion se mando cuando se estaba procesando ..."
FinInterrupcion ==
  /\ Va("esperar", "fin_interrupcion", "esperar")
  /\ IF hay_interrupcion THEN sem_post("s_pcb_desalojado") ELSE UNCHANGED sem
  /\ UNCHANGED <<colaVars, registroVars, banderaVars, mano, suspendiendo, entornoVars>>

esperar_cpu ==
  \/ Espera("esperar", "esperar", "s_esperar_cpu", "recv")
  \/ EsperarRecibe
  \/ EsperarLibera("EXIT", "x_consola")
  \/ ExitConsola
  \/ Postea("esperar", "x_grado", "s_multiprogramacion_actual", "x_memoria")
  \/ ExitMemoria
  \/ EsperarLibera("INTERRUPTION", "i_listar")
  \/ Lista("esperar", "i_listar", "i_cr")
  \/ Postea("esperar", "i_cr", "s_cont_ready", "i_desalojado")
  \/ Postea("esperar", "i_desalojado", "s_pcb_desalojado", "esperar")
  \/ EsperarLibera("BLOCKED", "b_listar")
  \/ BlockedLista
  \/ BlockedHilo
  \/ Postea("esperar", "b_blocked", "s_blocked", "fin_cpu")
  \/ Postea("esperar", "fin_cpu", "s_cpu_desocupado", "fin_re")
  \/ Postea("esperar", "fin_re", "s_ready_execute", "fin_interrupcion")
  \/ FinInterrupcion

-----------------------------------------------------------------------------
(* suspendiendo: BLOCKED -> SUSPENDED_BLOCKED after TIEMPO_MAXIMO_BLOQUEADO *)

CambiaVigilante(v, w) == suspendiendo' = (suspendiendo \ {v}) \cup w

\* pcb->pid through the pointer the thread was given: any value once freed.
PidLeido(v) == IF v.liberado THEN Pids \cup {Nadie} ELSE {v.pid}

\* string_itoa(pcb->pid) and dictionary_get(iteracion_blocked, key): the value
\* of a key that is not there is NULL, 0.
SuspendiendoArranca(v) ==
  /\ v.fase = "arranque"
  /\ \E k \in PidLeido(v) :
       CambiaVigilante(v, {[v EXCEPT !.fase = "dormido", !.clave = k,
                              !.iter = IF k \in Pids THEN iteracion_blocked[k] ELSE 0]})
  /\ UNCHANGED <<sem, colaVars, registroVars, banderaVars, hilo, mano, entornoVars>>

\* Mutated form of DebeSuspender: the iterations are not compared.
DebeSuspenderSiempre(v, leido) == leido \in ToSet(cola_blocked)

\* pcb_find_index and the comparison of iterations: is the process blocked, and
\* on the same I/O the thread was created for?
DebeSuspender(v, leido) ==
  /\ leido \in ToSet(cola_blocked)
  /\ v.iter = IF v.clave \in Pids THEN iteracion_blocked[v.clave] ELSE 0

\* Mutated form of SuspendiendoDespierta: memory is not told to suspend.
SuspendiendoSinMemoria(v) ==
  /\ v.fase = "dormido"
  /\ \E leido \in PidLeido(v) :
       IF DebeSuspender(v, leido)
       THEN /\ cola_suspended_blocked' = Append(cola_suspended_blocked, leido)
            /\ CambiaVigilante(v, {[v EXCEPT !.fase = "soltar"]})
       ELSE CambiaVigilante(v, {}) /\ UNCHANGED cola_suspended_blocked
  /\ UNCHANGED <<sem, cola_new, lista_ready, cola_blocked, cola_suspended_ready,
                 registroVars, banderaVars, hilo, mano, entornoVars>>

\* usleep ends; under mx_cola_blocked and mx_cola_suspended_blocked the thread
\* either leaves or has the process suspended (SUSPENDER_PROCESO and its answer)
\* and listed.
SuspendiendoDespierta(v) ==
  /\ v.fase = "dormido"
  /\ \E leido \in PidLeido(v) :
       IF DebeSuspender(v, leido)
       THEN /\ cola_suspended_blocked' = Append(cola_suspended_blocked, leido)
            /\ memoria' = [memoria EXCEPT ![leido] = "tablas"]
            /\ CambiaVigilante(v, {[v EXCEPT !.fase = "soltar"]})
       ELSE /\ CambiaVigilante(v, {})
            /\ UNCHANGED <<cola_suspended_blocked, memoria>>
  /\ UNCHANGED <<sem, cola_new, lista_ready, cola_blocked, cola_suspended_ready,
                 registroVars, banderaVars, hilo, mano, pcbVars, canalVars, bajas>>

\* sem_post(&s_multiprogramacion_actual); pthread_exit
SuspendiendoSuelta(v) ==
  /\ v.fase = "soltar"
  /\ CambiaVigilante(v, {})
  /\ sem_post("s_multiprogramacion_actual")
  /\ UNCHANGED <<colaVars, registroVars, banderaVars, hilo, mano, entornoVars>>

hilo_suspendido(v) ==
  SuspendiendoArranca(v) \/ SuspendiendoDespierta(v) \/ SuspendiendoSuelta(v)

-----------------------------------------------------------------------------
(* ejecutar_io: the I/O device, one process at a time                      *)

\* list_get(cola_blocked, 0)
IoToma ==
  /\ Va("io", "tomar", "dormir")
  /\ cola_blocked # << >>
  /\ Toma("io", Head(cola_blocked))
  /\ UNCHANGED <<sem, colaVars, registroVars, banderaVars, suspendiendo, entornoVars>>

\* usleep ends and list_remove(cola_blocked, 0)
IoTermina ==
  /\ Va("io", "dormir", "iteracion")
  /\ ArranqueTardio \/ \A v \in suspendiendo : v.pid = mano["io"] => v.fase # "arranque"
  /\ cola_blocked # << >>
  /\ cola_blocked' = Tail(cola_blocked)
  /\ UNCHANGED <<sem, cola_new, lista_ready, cola_suspended_blocked,
                 cola_suspended_ready, registroVars, banderaVars, mano,
                 suspendiendo, entornoVars>>

\* dictionary_put(iteracion_blocked, key, iteracion_actual + 1)
IoIteracion ==
  /\ Va("io", "iteracion", "clasificar")
  /\ iteracion_blocked' = [iteracion_blocked EXCEPT ![mano["io"]] = @ + 1]
  /\ UNCHANGED <<sem, colaVars, sockets, consola, avisada, banderaVars, mano,
                 suspendiendo, entornoVars>>

\* Mutated form of IoSuspendido: the entry found is not removed.
IoSuspendidoQueda ==
  /\ Va("io", "clasificar", "suspendido")
  /\ mano["io"] \in ToSet(cola_suspended_blocked)
  /\ UNCHANGED <<sem, colaVars, registroVars, banderaVars, mano, suspendiendo, entornoVars>>

\* Mutated form of IoSuspendido: the process goes straight to the ready list.
IoSuspendidoAReady ==
  /\ Va("io", "clasificar", "listo")
  /\ \E i \in DOMAIN cola_suspended_blocked :
       /\ cola_suspended_blocked[i] = mano["io"]
       /\ cola_suspended_blocked' = RemoveAt(cola_suspended_blocked, i)
  /\ UNCHANGED <<sem, cola_new, lista_ready, cola_blocked, cola_suspended_ready,
                 registroVars, banderaVars, mano, suspendiendo, entornoVars>>

\* esta_suspendido: looks the process up among the suspended, and removes the
\* first entry it finds
IoSuspendido ==
  /\ Va("io", "clasificar", "suspendido")
  /\ \E i \in DOMAIN cola_suspended_blocked :
       /\ cola_suspended_blocked[i] = mano["io"]
       /\ \A j \in 1 .. i - 1 : cola_suspended_blocked[j] # mano["io"]
       /\ cola_suspended_blocked' = RemoveAt(cola_suspended_blocked, i)
  /\ UNCHANGED <<sem, cola_new, lista_ready, cola_blocked, cola_suspended_ready,
                 registroVars, banderaVars, mano, suspendiendo, entornoVars>>
IoListo ==
  /\ Va("io", "clasificar", "listo")
  /\ mano["io"] \notin ToSet(cola_suspended_blocked)
  /\ UNCHANGED <<sem, colaVars, registroVars, banderaVars, mano, suspendiendo, entornoVars>>

\* queue_push(cola_suspended_ready, proceso)
IoEncola ==
  /\ Va("io", "suspendido", "io_pasaje")
  /\ cola_suspended_ready' = Append(cola_suspended_ready, mano["io"])
  /\ Suelta("io")
  /\ UNCHANGED <<sem, cola_new, lista_ready, cola_blocked, cola_suspended_blocked,
                 registroVars, banderaVars, suspendiendo, entornoVars>>

\* Mutated form of ejecutar_io: the post of s_cont_ready is missing.
IoSinCont ==
  \/ Espera("io", "blocked", "s_blocked", "tomar")
  \/ IoToma \/ IoTermina \/ IoIteracion \/ IoSuspendido \/ IoListo
  \/ IoEncola
  \/ Postea("io", "io_pasaje", "s_pasaje_a_ready", "blocked")
  \/ Lista("io", "listo", "io_re")
  \/ Postea("io", "io_re", "s_ready_execute", "blocked")

\* Mutated form of ejecutar_io: s_pasaje_a_ready is posted before the push.
IoAvisaAntes ==
  \/ Espera("io", "blocked", "s_blocked", "tomar")
  \/ IoToma \/ IoTermina \/ IoIteracion \/ IoSuspendido \/ IoListo
  \/ Postea("io", "suspendido", "s_pasaje_a_ready", "io_pasaje")
  \/ /\ Va("io", "io_pasaje", "blocked")
     /\ cola_suspended_ready' = Append(cola_suspended_ready, mano["io"])
     /\ Suelta("io")
     /\ UNCHANGED <<sem, cola_new, lista_ready, cola_blocked, cola_suspended_blocked,
                    registroVars, banderaVars, suspendiendo, entornoVars>>
  \/ Lista("io", "listo", "io_re")
  \/ Postea("io", "io_re", "s_ready_execute", "io_cr")
  \/ Postea("io", "io_cr", "s_cont_ready", "blocked")

ejecutar_io ==
  \/ Espera("io", "blocked", "s_blocked", "tomar")
  \/ IoToma \/ IoTermina \/ IoIteracion \/ IoSuspendido \/ IoListo
  \/ IoEncola
  \/ Postea("io", "io_pasaje", "s_pasaje_a_ready", "blocked")
  \/ Lista("io", "listo", "io_re")
  \/ Postea("io", "io_re", "s_ready_execute", "io_cr")
  \/ Postea("io", "io_cr", "s_cont_ready", "blocked")

-----------------------------------------------------------------------------
ready_execute == IF Algoritmo = "FIFO" THEN fifo_ready_execute ELSE srt_ready_execute

NextKernel ==
  \/ \E p \in Pids : procesar_socket(p)
  \/ pasaje_a_ready
  \/ ready_execute
  \/ esperar_cpu
  \/ ejecutar_io
  \/ \E v \in suspendiendo : hilo_suspendido(v)
=============================================================================
