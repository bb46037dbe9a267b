------------------------------ MODULE Conexion ------------------------------
(***************************************************************************)
(* conexion_memoria: the one socket on which three kinds of kernel thread  *)
(* -- pasaje_a_ready, esperar_cpu and every suspendiendo -- ask the memory *)
(* process for things, each with three sends and perhaps a recv and with   *)
(* no mutex, and recibir_kernel at its other end.  A connection is a       *)
(* stream: it is modelled in units of 16 bits, the smallest thing sent.    *)
(* The mutexes the threads hold while they wait are explicit; of the       *)
(* schedulers only what decides who asks what and when is kept.            *)
(***************************************************************************)
EXTENDS Naturals, Sequences, FiniteSets, SequencesExt, FiniteSetsExt

CONSTANTS
  Pids,     \* the processes, numbered: a pid is one unit of the stream
  MaxES,    \* bound: I/O requests of a process
  Tamanio   \* the size every process asks for

ASSUME PidsAssumption == Pids \subseteq Nat /\ IsFiniteSet(Pids)
ASSUME CotasAssumption == MaxES \in Nat /\ Tamanio \in Nat

\* op_code (protocol.h), an int: two units, low half first.
CREAR_TABLA == <<6, 0>>
ELIMINAR_ESTRUCTURAS == <<7, 0>>
SUSPENDER_PROCESO == <<8, 0>>
Peticion == {CREAR_TABLA, ELIMINAR_ESTRUCTURAS, SUSPENDER_PROCESO}

\* The threads: one of each of three, and a suspendiendo for each I/O of each
\* process (function, pid, I/O).
Pasaje == <<"pasaje_a_ready", 0, 0>>
Esperar == <<"esperar_cpu", 0, 0>>
Io == <<"ejecutar_io", 0, 0>>
Vigilantes == {"suspendiendo"} \X Pids \X (1 .. MaxES)
Hilos == {Pasaje, Esperar, Io} \cup Vigilantes
Nadie == <<"nadie", 0, 0>>
Mutex == {"mx_cola_blocked", "mx_cola_suspended_blocked"}
SinTabla == << >>

VARIABLES
  ida, vuelta,  \* conexion_memoria, units in flight each way
  mezclado,     \* history: has a request started out of turn?
  lectura,      \* recibir_kernel: what it has received of the current request
  caida,        \* has the memory process died of a null structure?
  tablas,       \* lista_tablas_1er_nivel, by the pid each table was made for
  estructuras,  \* pids with a clock structure and a swap file
  residentes,   \* pids with frames in memory
  proceso,      \* by pid: where the schedulers have it
  tabla,        \* PCB_t.tabla_paginas, two units
  cola_blocked, cola_suspended_blocked,
  iteracion_blocked,
  fase,         \* by thread: where it is
  mano,         \* by thread: the process it works for
  faltan,       \* by thread: the sends left of its request
  mx            \* by mutex: the thread that holds it, or Nadie

redVars == <<ida, vuelta, mezclado>>
memVars == <<lectura, caida, tablas, estructuras, residentes>>
colaVars == <<proceso, tabla, cola_blocked, cola_suspended_blocked, iteracion_blocked>>
hiloVars == <<fase, mano, faltan, mx>>
vars == <<redVars, memVars, colaVars, hiloVars>>

Init ==
  /\ ida = << >> /\ vuelta = << >> /\ mezclado = FALSE /\ lectura = << >> /\ caida = FALSE
  /\ tablas = << >> /\ estructuras = {} /\ residentes = {}
  /\ proceso = [p \in Pids |-> "new"] /\ tabla = [p \in Pids |-> SinTabla]
  /\ cola_blocked = << >> /\ cola_suspended_blocked = << >>
  /\ iteracion_blocked = [p \in Pids |-> 0]
  /\ fase = [h \in Hilos |-> "libre"]
  /\ mano = [h \in Hilos |-> IF h \in Vigilantes THEN h[2] ELSE 0]
  /\ faltan = [h \in Hilos |-> << >>]
  /\ mx = [m \in Mutex |-> Nadie]

Va(h, a, b) == fase[h] = a /\ fase' = [fase EXCEPT ![h] = b]
Pone(p, a, b) == proceso[p] = a /\ proceso' = [proceso EXCEPT ![p] = b]
Libre(m) == mx[m] = Nadie

-----------------------------------------------------------------------------
(* Requests                                                                *)

\* The arguments of the three sends of each request, in the code's order.
PedidoCrear(p) == <<CREAR_TABLA, <<Tamanio>>, <<p>>>>
PedidoSuspender(p) == <<SUSPENDER_PROCESO, <<p>>, <<tabla[p][1]>>>>
\* Mutated form of PedidoEliminar: the pid is sent before the table.
PedidoEliminarCambiado(p) == <<ELIMINAR_ESTRUCTURAS, <<p>>, tabla[p]>>
\* Mutated form of PedidoEliminar: cop, the op_code received, for cop_memoria.
PedidoEliminarCop(p) == <<<<3, 0>>, tabla[p], <<p>>>>
PedidoEliminar(p) == <<ELIMINAR_ESTRUCTURAS, tabla[p], <<p>>>>

\* Is it a request's turn: is no other half sent, and, if it has an answer, does no
\* other await its own?
Turno(conRespuesta) ==
  /\ \A h \in Hilos : faltan[h] = << >>
  /\ conRespuesta => \A h \in Hilos : fase[h] # "espera"

\* No thread looks: a request starts, in turn or not.
Empieza(conRespuesta) ==
  /\ mezclado' = (mezclado \/ ~Turno(conRespuesta))
  /\ UNCHANGED <<ida, vuelta>>

\* One send: all its bytes enter the stream together.
Envia(h) ==
  /\ faltan[h] # << >>
  /\ faltan' = [faltan EXCEPT ![h] = Tail(@)]
  /\ ida' = ida \o Head(faltan[h])
  /\ UNCHANGED <<vuelta, mezclado, memVars, colaVars, fase, mano, mx>>

\* recv of a variable n units long, with what has arrived of it: in the units it
\* does not write, an uninitialised variable keeps anything (basura).
Recibido(s, n, basura) ==
  IF Len(s) >= n THEN {SubSeq(s, 1, n)} ELSE {s \o <<b>> : b \in basura}
Resto(s, n) == SubSeq(s, Min({n, Len(s)}) + 1, Len(s))

-----------------------------------------------------------------------------
(* recibir_kernel (memoria/src/memoria_utils.c)                            *)

\* Mutated form of Ancho: SUSPENDER_PROCESO reads sizeof(uint32_t) of its table.
AnchoLargo ==
  CASE lectura = << >> -> 2
    [] lectura = <<ELIMINAR_ESTRUCTURAS>> -> 2
    [] Len(lectura) = 2 /\ lectura[1] = SUSPENDER_PROCESO -> 2
    [] OTHER -> 1

\* The units the next recv asks for: of the op_code, two; of the fields of a
\* request, one, but for the table of ELIMINAR_ESTRUCTURAS.
Ancho == IF lectura \in {<< >>, <<ELIMINAR_ESTRUCTURAS>>} THEN 2 ELSE 1

\* One recv.  cop is not initialised; the fields are, to a value or to zero.  An
\* unknown op_code is logged, and the loop receives the next one.
MemoriaRecibe ==
  /\ ~caida /\ ida # << >> /\ Len(lectura) < 3
  /\ \E dato \in Recibido(ida, Ancho, IF lectura = << >> THEN {0, 1} ELSE {0}) :
       lectura' = IF lectura = << >> /\ dato \notin Peticion
                  THEN << >> ELSE Append(lectura, dato)
  /\ ida' = Resto(ida, Ancho)
  /\ UNCHANGED <<vuelta, mezclado, caida, tablas, estructuras, residentes, colaVars, hiloVars>>

\* Mutated form of NroTabla: the length of the list after list_add.
NroTablaPasado == Len(tablas) + 1

\* list_add(lista_tablas_1er_nivel, tabla) returns the index it was added at.
NroTabla == Len(tablas)

\* crear_tablas(pid, tamanio), and the answer
MemoriaCrea ==
  /\ ~caida /\ Len(lectura) = 3 /\ lectura[1] = CREAR_TABLA
  /\ tablas' = Append(tablas, lectura[3][1])
  /\ estructuras' = estructuras \cup {lectura[3][1]}
  /\ vuelta' = vuelta \o <<NroTabla, 0>>
  /\ lectura' = << >>
  /\ UNCHANGED <<ida, mezclado, caida, residentes, colaVars, hiloVars>>

\* suspender_proceso(pid, tabla): the clock structure of a pid that has none is
\* NULL, and it is dereferenced.
MemoriaSuspende ==
  /\ ~caida /\ Len(lectura) = 3 /\ lectura[1] = SUSPENDER_PROCESO
  /\ IF lectura[2][1] \in estructuras
     THEN /\ vuelta' = Append(vuelta, 1) /\ lectura' = << >>
          /\ residentes' = residentes \ {lectura[2][1]}
          /\ UNCHANGED caida
     ELSE caida' = TRUE /\ UNCHANGED <<vuelta, lectura, residentes>>
  /\ UNCHANGED <<ida, mezclado, tablas, estructuras, colaVars, hiloVars>>

\* eliminar_estructuras(tabla, pid): the same, and no answer
MemoriaElimina ==
  /\ ~caida /\ Len(lectura) = 3 /\ lectura[1] = ELIMINAR_ESTRUCTURAS
  /\ IF lectura[3][1] \in estructuras
     THEN /\ estructuras' = estructuras \ {lectura[3][1]}
          /\ residentes' = residentes \ {lectura[3][1]}
          /\ lectura' = << >> /\ UNCHANGED caida
     ELSE caida' = TRUE /\ UNCHANGED <<estructuras, residentes, lectura>>
  /\ UNCHANGED <<redVars, tablas, colaVars, hiloVars>>

recibir_kernel == MemoriaRecibe \/ MemoriaCrea \/ MemoriaSuspende \/ MemoriaElimina

-----------------------------------------------------------------------------
(* pasaje_a_ready                                                          *)

SuspReady == {p \in Pids : proceso[p] = "susp_ready"}

\* queue_pop(cola_suspended_ready), which asks memory for nothing
PasajeSusp ==
  /\ fase[Pasaje] = "libre"
  /\ \E p \in SuspReady : Pone(p, "susp_ready", "ready")
  /\ UNCHANGED <<redVars, memVars, tabla, cola_blocked, cola_suspended_blocked,
                 iteracion_blocked, hiloVars>>

\* queue_pop(cola_new), and solicitar_tabla_paginas starts
PasajeNew ==
  /\ SuspReady = {} /\ Empieza(TRUE)
  /\ Va(Pasaje, "libre", "espera")
  /\ \E p \in Pids :
       /\ Pone(p, "new", "creando")
       /\ mano' = [mano EXCEPT ![Pasaje] = p]
       /\ faltan' = [faltan EXCEPT ![Pasaje] = PedidoCrear(p)]
  /\ UNCHANGED <<memVars, tabla, cola_blocked, cola_suspended_blocked,
                 iteracion_blocked, mx>>

\* Mutated form of PasajeRecibe: sizeof(uint16_t) is received.
PasajeRecibeCorto ==
  /\ faltan[Pasaje] = << >> /\ vuelta # << >>
  /\ Va(Pasaje, "espera", "libre")
  /\ Pone(mano[Pasaje], "creando", "ready")
  /\ \E t \in Recibido(vuelta, 1, {0, 1}) : tabla' = [tabla EXCEPT ![mano[Pasaje]] = t]
  /\ vuelta' = Resto(vuelta, 1)
  /\ UNCHANGED <<ida, mezclado, memVars, cola_blocked, cola_suspended_blocked,
                 iteracion_blocked, mano, faltan, mx>>

\* recv of the table's number, into a local that is not initialised
PasajeRecibe ==
  /\ faltan[Pasaje] = << >> /\ vuelta # << >>
  /\ Va(Pasaje, "espera", "libre")
  /\ Pone(mano[Pasaje], "creando", "ready")
  /\ \E t \in Recibido(vuelta, 2, {0, 1}) : tabla' = [tabla EXCEPT ![mano[Pasaje]] = t]
  /\ vuelta' = Resto(vuelta, 2)
  /\ UNCHANGED <<ida, mezclado, memVars, cola_blocked, cola_suspended_blocked,
                 iteracion_blocked, mano, faltan, mx>>

pasaje_a_ready == PasajeSusp \/ PasajeNew \/ PasajeRecibe \/ Envia(Pasaje)

-----------------------------------------------------------------------------
(* The CPU, one process at a time, and esperar_cpu                         *)

\* A burst starts; it may access memory, on the CPU's own connection.
Ejecuta ==
  /\ \A p \in Pids : proceso[p] # "cpu"
  /\ \E p \in Pids : /\ Pone(p, "ready", "cpu")
                      /\ residentes' \in {residentes, residentes \cup {p}}
  /\ UNCHANGED <<redVars, lectura, caida, tablas, estructuras, tabla, cola_blocked,
                 cola_suspended_blocked, iteracion_blocked, hiloVars>>

\* EXIT: ELIMINAR_ESTRUCTURAS
EsperarExit ==
  /\ Empieza(FALSE) /\ Va(Esperar, "libre", "pide")
  /\ \E p \in Pids :
       /\ Pone(p, "cpu", "exit")
       /\ faltan' = [faltan EXCEPT ![Esperar] = PedidoEliminar(p)]
       /\ mano' = [mano EXCEPT ![Esperar] = p]
  /\ UNCHANGED <<memVars, tabla, cola_blocked, cola_suspended_blocked,
                 iteracion_blocked, mx>>

EsperarDestruye ==
  /\ faltan[Esperar] = << >> /\ Va(Esperar, "pide", "libre")
  /\ UNCHANGED <<redVars, memVars, colaVars, mano, faltan, mx>>

\* BLOCKED: list_add(cola_blocked) under its mutex, and a suspendiendo thread
EsperarBlocked ==
  /\ fase[Esperar] = "libre" /\ Libre("mx_cola_blocked")
  /\ \E p \in Pids :
       /\ iteracion_blocked[p] < MaxES
       /\ Pone(p, "cpu", "blocked")
       /\ cola_blocked' = Append(cola_blocked, p)
       /\ fase' = [fase EXCEPT ![<<"suspendiendo", p, iteracion_blocked[p] + 1>>] = "dormido"]
  /\ UNCHANGED <<redVars, memVars, tabla, cola_suspended_blocked,
                 iteracion_blocked, mano, faltan, mx>>

esperar_cpu == EsperarExit \/ EsperarDestruye \/ EsperarBlocked \/ Envia(Esperar)

-----------------------------------------------------------------------------
(* suspendiendo, the thread v of a process's k-th I/O                      *)

\* usleep ends; pthread_mutex_lock(&mx_cola_blocked)
SuspendiendoDespierta(v) ==
  /\ Libre("mx_cola_blocked") /\ Va(v, "dormido", "una")
  /\ mx' = [mx EXCEPT !["mx_cola_blocked"] = v]
  /\ UNCHANGED <<redVars, memVars, colaVars, mano, faltan>>

\* pthread_mutex_lock(&mx_cola_suspended_blocked)
SuspendiendoToma(v) ==
  /\ Libre("mx_cola_suspended_blocked") /\ Va(v, "una", "ambas")
  /\ mx' = [mx EXCEPT !["mx_cola_suspended_blocked"] = v]
  /\ UNCHANGED <<redVars, memVars, colaVars, mano, faltan>>

\* Mutated form of DebeSuspender: pcb_find_index is not looked at.
DebeSuspenderSinBuscar(v) == iteracion_blocked[v[2]] + 1 >= v[3]

\* pcb_find_index and the comparison of iterations: still in its k-th I/O?
DebeSuspender(v) ==
  v[2] \in ToSet(cola_blocked) /\ iteracion_blocked[v[2]] + 1 = v[3]

SuspendiendoPide(v) ==
  /\ DebeSuspender(v) /\ Empieza(TRUE) /\ Va(v, "ambas", "espera")
  /\ faltan' = [faltan EXCEPT ![v] = PedidoSuspender(v[2])]
  /\ UNCHANGED <<memVars, colaVars, mano, mx>>

\* Mutated form of SuspendiendoLista: the answer is not awaited.
SuspendiendoListaSinEsperar(v) ==
  /\ faltan[v] = << >> /\ Va(v, "espera", "fin")
  /\ cola_suspended_blocked' = Append(cola_suspended_blocked, v[2])
  /\ mx' = [m \in Mutex |-> Nadie]
  /\ UNCHANGED <<redVars, memVars, proceso, tabla, cola_blocked, iteracion_blocked,
                 mano, faltan>>

\* recv of the answer; the process is listed and both mutexes are unlocked
SuspendiendoLista(v) ==
  /\ faltan[v] = << >> /\ vuelta # << >> /\ Va(v, "espera", "fin")
  /\ vuelta' = Resto(vuelta, 1)
  /\ cola_suspended_blocked' = Append(cola_suspended_blocked, v[2])
  /\ mx' = [m \in Mutex |-> Nadie]
  /\ UNCHANGED <<ida, mezclado, memVars, proceso, tabla, cola_blocked, iteracion_blocked,
                 mano, faltan>>

\* The I/O has finished: both are unlocked and the thread exits.
SuspendiendoDesiste(v) ==
  /\ ~DebeSuspender(v) /\ Va(v, "ambas", "fin")
  /\ mx' = [m \in Mutex |-> Nadie]
  /\ UNCHANGED <<redVars, memVars, colaVars, mano, faltan>>

suspendiendo(v) ==
  \/ SuspendiendoDespierta(v) \/ SuspendiendoToma(v) \/ SuspendiendoPide(v)
  \/ Envia(v) \/ SuspendiendoLista(v) \/ SuspendiendoDesiste(v)

-----------------------------------------------------------------------------
(* ejecutar_io                                                             *)

\* list_get(cola_blocked, 0), and the I/O
IoToma ==
  /\ cola_blocked # << >> /\ Libre("mx_cola_blocked") /\ Va(Io, "libre", "dormido")
  /\ mano' = [mano EXCEPT ![Io] = Head(cola_blocked)]
  /\ UNCHANGED <<redVars, memVars, colaVars, faltan, mx>>

\* Mutated form of IoTermina: mx_cola_blocked is not locked.
IoTerminaSinMutex ==
  /\ Va(Io, "dormido", "iteracion")
  /\ cola_blocked' = Tail(cola_blocked)
  /\ UNCHANGED <<redVars, memVars, proceso, tabla, cola_suspended_blocked,
                 iteracion_blocked, mano, faltan, mx>>

\* list_remove(cola_blocked, 0)
IoTermina ==
  /\ Libre("mx_cola_blocked") /\ Va(Io, "dormido", "iteracion")
  /\ cola_blocked' = Tail(cola_blocked)
  /\ UNCHANGED <<redVars, memVars, proceso, tabla, cola_suspended_blocked,
                 iteracion_blocked, mano, faltan, mx>>

\* dictionary_put(iteracion_blocked, key, iteracion_actual + 1)
IoIteracion ==
  /\ Va(Io, "iteracion", "clasificar")
  /\ iteracion_blocked' = [iteracion_blocked EXCEPT ![mano[Io]] = @ + 1]
  /\ UNCHANGED <<redVars, memVars, proceso, tabla, cola_blocked,
                 cola_suspended_blocked, mano, faltan, mx>>

\* esta_suspendido takes the first entry of the process out of the suspended, if it
\* finds one; and the queue the process goes to
IoClasifica ==
  /\ Libre("mx_cola_suspended_blocked") /\ Va(Io, "clasificar", "libre")
  /\ \/ /\ Pone(mano[Io], "blocked", "susp_ready")
        /\ \E i \in DOMAIN cola_suspended_blocked :
             /\ cola_suspended_blocked[i] = mano[Io]
             /\ \A j \in 1 .. i - 1 : cola_suspended_blocked[j] # mano[Io]
             /\ cola_suspended_blocked' = RemoveAt(cola_suspended_blocked, i)
     \/ /\ Pone(mano[Io], "blocked", "ready")
        /\ mano[Io] \notin ToSet(cola_suspended_blocked)
        /\ UNCHANGED cola_suspended_blocked
  /\ UNCHANGED <<redVars, memVars, tabla, cola_blocked, iteracion_blocked,
                 mano, faltan, mx>>

ejecutar_io == IoToma \/ IoTermina \/ IoIteracion \/ IoClasifica

-----------------------------------------------------------------------------
Terminado ==
  /\ \A p \in Pids : proceso[p] = "exit"
  /\ \A v \in Vigilantes : fase[v] \in {"libre", "fin"}
  /\ fase[Esperar] = "libre" /\ ida = << >> /\ lectura = << >>

Next ==
  \/ recibir_kernel \/ pasaje_a_ready \/ Ejecuta \/ esperar_cpu \/ ejecutar_io
  \/ \E v \in Vigilantes : suspendiendo(v)
  \/ Terminado /\ UNCHANGED vars

Spec == Init /\ [][Next]_vars

\* Threads and processes keep being scheduled and sleeps end.  That a burst ends
\* at all is Ejecuta's and esperar_cpu's: a process has at most MaxES I/Os.
Equidad ==
  /\ WF_vars(recibir_kernel) /\ WF_vars(pasaje_a_ready) /\ WF_vars(Ejecuta)
  /\ WF_vars(esperar_cpu) /\ WF_vars(ejecutar_io)
  /\ \A v \in Vigilantes : WF_vars(suspendiendo(v))

SpecEquidad == Spec /\ Equidad
-----------------------------------------------------------------------------
(* Properties                                                              *)

\* Every variable keeps its type, whatever is received in the place of what.
TypeOK ==
  /\ ida \in Seq(Nat) /\ vuelta \in Seq(Nat) /\ mezclado \in BOOLEAN
  /\ lectura \in Seq(Seq(Nat)) /\ caida \in BOOLEAN
  /\ tablas \in Seq(Nat) /\ estructuras \subseteq Nat /\ residentes \subseteq Pids
  /\ proceso \in [Pids -> {"new", "creando", "ready", "cpu", "blocked", "susp_ready", "exit"}]
  /\ tabla \in [Pids -> {SinTabla} \cup (Nat \X Nat)]
  /\ cola_blocked \in Seq(Pids) /\ cola_suspended_blocked \in Seq(Pids)
  /\ iteracion_blocked \in [Pids -> 0 .. MaxES]
  /\ fase \in [Hilos -> {"libre", "espera", "pide", "dormido", "una", "ambas",
                         "iteracion", "clasificar", "fin"}]
  /\ mano \in [Hilos -> Pids \cup {0}]
  /\ faltan \in [Hilos -> Seq(Seq(Nat))]
  /\ mx \in [Mutex -> Hilos \cup {Nadie}]

\* Whatever becomes of its request and of the answer, what suspendiendo saw before it
\* asked memory is still so when it lists the process: it is in the I/O the thread
\* watches.  So a process is listed as suspended once, and only during an I/O.
SuspensionVigente ==
  /\ \A v \in Vigilantes : fase[v] = "espera" => DebeSuspender(v)
  /\ IsInjective(cola_suspended_blocked)
  /\ \A p \in ToSet(cola_suspended_blocked) : proceso[p] = "blocked"

\* Until a request starts out of turn, memory is not asked about a process it holds
\* nothing of: the locks that are held while memory answers keep a process from
\* ending before its suspension.
MemoriaEnPie == ~mezclado => ~caida

\* Until then, memory holds the structures of every process from the answer to its
\* creation until its end, however the end of one falls among another's requests.
VivosConEstructuras ==
  ~mezclado => \A p \in Pids : proceso[p] \notin {"new", "creando", "exit"} => p \in estructuras

\* There is something left to send, receive or answer.
PedidoEnCamino == ida # << >> \/ Len(lectura) = 3 \/ \E h \in Hilos : faltan[h] # << >>
AlgoEnCamino == vuelta # << >> \/ PedidoEnCamino

\* All that has come from memory is what a thread asked for: the number of its
\* process's table, or that its process's frames have been freed.
SuRespuesta(h) ==
  IF h = Pasaje THEN \E i \in DOMAIN tablas : tablas[i] = mano[h] /\ vuelta = <<i - 1, 0>>
                ELSE vuelta = <<1>> /\ h[2] \notin residentes

\* Until then, a thread that waits for memory's answer finds its own and nothing else,
\* or a request is on its way.
RespuestaEnCamino ==
  ~mezclado => \A h \in Hilos : fase[h] = "espera" =>
                 SuRespuesta(h) \/ (vuelta = << >> /\ PedidoEnCamino)

\* What suspendiendo's comment says its order of locks is for: whoever has both
\* queues locked while it waits for memory will go on and unlock them.
ColasSeSueltan == (\E v \in Vigilantes : fase[v] = "espera") => AlgoEnCamino

\* Until a request starts out of turn, a process the kernel takes for suspended, and
\* does not count in the multiprogramming degree, holds no frame of memory.
SuspendidoSinMarcos ==
  ~mezclado => \A p \in ToSet(cola_suspended_blocked) \cup SuspReady : p \notin residentes

\* Byte by byte and whatever its threads do in between, the connection gives each
\* process the table memory made for it, and eliminates it once: every step taken
\* until a request starts out of turn is that of an atomic call, or of none.
Llamadas == INSTANCE Peticiones WITH
  tabla <- [p \in Pids |-> IF tabla[p] = SinTabla THEN {}
                            ELSE {tabla[p][1] + 65536 * tabla[p][2]}],
  vivas <- estructuras
ImplementaPeticiones ==
  Llamadas!Init /\ [][~mezclado' => [Llamadas!Next]_(Llamadas!vars)]_vars

\* Every process that is asked for ends with its structures eliminated, unless some
\* request starts out of turn.
TodoSeElimina ==
  <>[](\A p \in Pids : proceso[p] = "exit" /\ p \notin estructuras) \/ <>mezclado
=============================================================================
