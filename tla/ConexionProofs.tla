--------------------------- MODULE ConexionProofs ---------------------------
(***************************************************************************)
(* What Conexion proves, for every number of processes and of I/Os.  The   *)
(* queues, the mutexes and the types are proved of every execution.  As    *)
(* long as no request has started out of turn the invariant also reads the *)
(* connection as the threads and memory mean it: a stream of units is a    *)
(* list of the pieces that were sent, and the pieces memory has received,  *)
(* those in flight and those still to be sent are a list of whole          *)
(* requests.                                                               *)
(***************************************************************************)
EXTENDS Conexion, Listas

\* What is sent: numbers of processes, op_codes, the size and indices of tables.
Unidades == Pids \cup {0, 1, 6, 7, 8, Tamanio} \cup (0 .. Cardinality(Pids))

\* A piece is what one send puts in the stream; a request is three of them.
Trozo == Seq(Unidades) \ {<< >>}
Creaciones == {PedidoCrear(p) : p \in Pids}
Suspensiones == {<<SUSPENDER_PROCESO, <<p>>, <<u>>>> : p \in Pids, u \in Unidades}
Eliminaciones == {<<ELIMINAR_ESTRUCTURAS, <<t, u>>, <<p>>>> : t \in Unidades, u \in Unidades, p \in Pids}
Pedidos == Creaciones \cup Suspensiones \cup Eliminaciones

-----------------------------------------------------------------------------
(* The schedulers' part                                                    *)

\* The I/O a process is in, or the last it was in.  Its number is written to
\* iteracion_blocked before ejecutar_io has done with the process.
Clasificando(p) == fase[Io] = "clasificar" /\ mano[Io] = p
EnCurso(p) == IF proceso[p] = "blocked" /\ ~Clasificando(p)
              THEN iteracion_blocked[p] + 1 ELSE iteracion_blocked[p]

\* Each kind of thread goes through its own phases.
Fases ==
  /\ fase[Pasaje] \in {"libre", "espera"} /\ fase[Esperar] \in {"libre", "pide"}
  /\ fase[Io] \in {"libre", "dormido", "iteracion", "clasificar"}
  /\ \A v \in Vigilantes : fase[v] \in {"libre", "dormido", "una", "ambas", "espera", "fin"}

\* cola_blocked holds the blocked processes, but for the one ejecutar_io has just
\* taken out of it.
Bloqueados ==
  /\ IsInjective(cola_blocked)
  /\ \A p \in ToSet(cola_blocked) : proceso[p] = "blocked"
  /\ fase[Io] = "dormido" => cola_blocked # << >> /\ mano[Io] = Head(cola_blocked)
  /\ fase[Io] \in {"iteracion", "clasificar"} =>
       mano[Io] \in Pids /\ proceso[mano[Io]] = "blocked" /\ mano[Io] \notin ToSet(cola_blocked)
  /\ \A p \in Pids : proceso[p] = "blocked" => EnCurso(p) \in 1 .. MaxES

\* A suspendiendo past usleep has the mutexes, and the one that has asked memory is
\* that of an I/O that has not finished; of the I/Os to come there is none.
Vigilancia ==
  /\ \A v \in Vigilantes :
       /\ fase[v] \in {"una", "ambas", "espera"} => mx["mx_cola_blocked"] = v
       /\ fase[v] \in {"ambas", "espera"} => mx["mx_cola_suspended_blocked"] = v
       /\ fase[v] = "espera" => DebeSuspender(v)
       /\ v[3] > EnCurso(v[2]) => fase[v] = "libre"

\* A process is listed as suspended once, by the thread of the I/O it is in.
Suspendidos ==
  /\ IsInjective(cola_suspended_blocked)
  /\ \A p \in ToSet(cola_suspended_blocked) :
       proceso[p] = "blocked" /\ fase[<<"suspendiendo", p, EnCurso(p)>>] = "fin"

Orden == Fases /\ Bloqueados /\ Vigilancia /\ Suspendidos

-----------------------------------------------------------------------------
(* Memory's part                                                           *)

\* What memory holds of a process, by where the schedulers have it.
Vivos == \A p \in Pids : proceso[p] \notin {"new", "creando", "exit"} => p \in estructuras
SinMarcos == \A p \in ToSet(cola_suspended_blocked) \cup SuspReady : p \notin residentes
Estructurado ==
  /\ Vivos
  /\ SinMarcos
  /\ \A p \in Pids : tabla[p] = SinTabla <=> proceso[p] \in {"new", "creando"}
  /\ \A p \in Pids : proceso[p] = "new" => p \notin ToSet(tablas)
  /\ IsInjective(tablas)

-----------------------------------------------------------------------------
(* The connection                                                          *)

\* The requests m, of which the pieces q are in flight and the pieces f to be sent.
Flujo(m, q, f) ==
  /\ m \in Seq(Pedidos) /\ q \in Seq(Trozo) /\ f \in Seq(Trozo)
  /\ lectura \in Seq(Trozo) /\ Une(q, ida) /\ Une(m, lectura \o (q \o f))
  /\ \A h \in Hilos : faltan[h] # << >> => faltan[h] = f
  /\ \A h, g \in Hilos : faltan[h] # << >> /\ faltan[g] # << >> => h = g
  /\ f # << >> => \E h \in Hilos : faltan[h] # << >>

\* A request was made by who waits for it, or is of a process that has ended and
\* that memory has not eliminated.
Justo(r) ==
  /\ r \in Creaciones =>
       /\ fase[Pasaje] = "espera" /\ vuelta = << >> /\ r[3] = <<mano[Pasaje]>>
       /\ mano[Pasaje] \notin ToSet(tablas)
  /\ r \in Suspensiones =>
       vuelta = << >> /\ \E v \in Vigilantes : fase[v] = "espera" /\ r[2] = <<v[2]>>
  /\ r \in Eliminaciones => \E p \in estructuras : r[3] = <<p>> /\ proceso[p] = "exit"

\* No two of them await an answer both, or eliminate one process.
Distintos(r, s) ==
  /\ r \in Eliminaciones \/ s \in Eliminaciones
  /\ r \in Eliminaciones /\ s \in Eliminaciones => r[3] # s[3]

Justos(m) ==
  /\ \A r \in ToSet(m) : Justo(r)
  /\ \A i, j \in DOMAIN m : i # j => Distintos(m[i], m[j])

\* One thread at most awaits an answer, and it is on its way or its request is.
Espera(m) ==
  /\ \A h, g \in Hilos : fase[h] = "espera" /\ fase[g] = "espera" => h = g
  /\ vuelta # << >> => \E h \in Hilos : fase[h] = "espera"
  /\ fase[Pasaje] = "espera" =>
       /\ mano[Pasaje] \in Pids /\ proceso[mano[Pasaje]] = "creando"
       /\ \/ vuelta = << >> /\ \E r \in ToSet(m) : r \notin Eliminaciones
          \/ /\ mano[Pasaje] \in estructuras
             /\ \E i \in DOMAIN tablas : tablas[i] = mano[Pasaje] /\ vuelta = <<i - 1, 0>>
  /\ \A v \in Vigilantes : fase[v] = "espera" =>
       \/ vuelta = << >> /\ \E r \in ToSet(m) : r \notin Eliminaciones
       \/ vuelta = <<1>> /\ v[2] \notin residentes

-----------------------------------------------------------------------------
(* The threads, and the numbers of I/Os                                    *)

\* The kinds of thread are told apart by their function.
LEMMA HilosDistintos ==
  /\ Pasaje \in Hilos /\ Esperar \in Hilos /\ Io \in Hilos
  /\ Pasaje # Esperar /\ Pasaje # Io /\ Esperar # Io
  /\ Nadie \notin Hilos
  /\ \A v \in Vigilantes :
       /\ v \in Hilos /\ v # Pasaje /\ v # Esperar /\ v # Io /\ v # Nadie
       /\ v[2] \in Pids /\ v[3] \in 1 .. MaxES
       /\ v = <<"suspendiendo", v[2], v[3]>>
  /\ \A h \in Hilos : h \in {Pasaje, Esperar, Io} \/ h \in Vigilantes
  /\ \A p \in Pids, k \in 1 .. MaxES :
       LET v == <<"suspendiendo", p, k>> IN v \in Vigilantes /\ v[2] = p /\ v[3] = k
BY DEF Pasaje, Esperar, Io, Nadie, Vigilantes, Hilos

\* The variables of the schedulers, by thread and by process.
TipoOrden ==
  /\ proceso \in [Pids -> {"new", "creando", "ready", "cpu", "blocked", "susp_ready", "exit"}]
  /\ cola_blocked \in Seq(Pids) /\ cola_suspended_blocked \in Seq(Pids)
  /\ iteracion_blocked \in [Pids -> 0 .. MaxES]
  /\ fase \in [Hilos -> {"libre", "espera", "pide", "dormido", "una", "ambas",
                         "iteracion", "clasificar", "fin"}]
  /\ mano \in [Hilos -> Pids \cup {0}]
  /\ mx \in [Mutex -> Hilos \cup {Nadie}]

\* The schedulers' part is safe from a step that leaves its queues, its mutexes and
\* the threads of the I/Os alone, and moves processes that are not blocked.
LEMMA OrdenAjeno ==
  ASSUME Orden, TipoOrden, TipoOrden',
         UNCHANGED <<cola_blocked, cola_suspended_blocked, iteracion_blocked, mx>>,
         \A p \in Pids :
           proceso'[p] = proceso[p] \/ (proceso[p] # "blocked" /\ proceso'[p] # "blocked"),
         \A h \in Vigilantes \cup {Io} : fase'[h] = fase[h],
         mano'[Io] = mano[Io],
         fase'[Pasaje] \in {"libre", "espera"}, fase'[Esperar] \in {"libre", "pide"}
  PROVE  Orden'
<1>1. \A p \in Pids : EnCurso(p)' = EnCurso(p) /\ (proceso'[p] = "blocked" <=> proceso[p] = "blocked")
  BY DEF EnCurso, Clasificando
<1>2. Fases'
  BY DEF Orden, Fases
<1>3. Bloqueados'
  <2>1. \A p \in ToSet(cola_blocked) : p \in Pids
    BY ToSetPosiciones DEF TipoOrden
  <2>. QED  BY <1>1, <2>1 DEF Orden, Bloqueados
<1>4. Vigilancia'
  BY <1>1, HilosDistintos DEF Orden, Vigilancia, DebeSuspender
<1>5. Suspendidos'
  <2>. SUFFICES ASSUME NEW p \in ToSet(cola_suspended_blocked)
                PROVE  proceso'[p] = "blocked" /\ fase'[<<"suspendiendo", p, EnCurso(p)'>>] = "fin"
    BY DEF Orden, Suspendidos
  <2>1. p \in Pids
    BY ToSetPosiciones DEF TipoOrden
  <2>2. proceso[p] = "blocked" /\ fase[<<"suspendiendo", p, EnCurso(p)>>] = "fin"
    BY DEF Orden, Suspendidos
  <2>3. EnCurso(p) \in 1 .. MaxES
    BY <2>1, <2>2 DEF Orden, Bloqueados
  <2>4. <<"suspendiendo", p, EnCurso(p)>> \in Vigilantes
    BY <2>1, <2>3, HilosDistintos
  <2>. QED  BY <1>1, <2>1, <2>2, <2>4
<1>. QED  BY <1>2, <1>3, <1>4, <1>5 DEF Orden

\* One step of one thread, and of one process.
LEMMA UnHilo ==
  ASSUME TipoOrden, NEW h \in Hilos, NEW a, NEW b, Va(h, a, b)
  PROVE  /\ fase[h] = a /\ fase'[h] = b /\ \A g \in Hilos : g # h => fase'[g] = fase[g]
BY DEF Va, TipoOrden

LEMMA UnProceso ==
  ASSUME TipoOrden, NEW p \in Pids, NEW a, NEW b, Pone(p, a, b)
  PROVE  /\ proceso[p] = a /\ proceso'[p] = b
         /\ \A q \in Pids : q # p => proceso'[q] = proceso[q]
BY DEF Pone, TipoOrden

-----------------------------------------------------------------------------
(* The schedulers' steps keep their types                                  *)

LEMMA TipoMemoria ==
  ASSUME TipoOrden, recibir_kernel \/ UNCHANGED vars
  PROVE  TipoOrden'
<1>1. CASE recibir_kernel
  BY <1>1 DEF TipoOrden, recibir_kernel, MemoriaRecibe, MemoriaCrea, MemoriaSuspende,
              MemoriaElimina, colaVars, hiloVars
<1>2. CASE UNCHANGED vars
  BY <1>2 DEF TipoOrden, vars, colaVars, hiloVars
<1>. QED  BY <1>1, <1>2

LEMMA TipoEnvia ==
  ASSUME TipoOrden, NEW h \in Hilos, Envia(h)
  PROVE  TipoOrden'
BY DEF TipoOrden, Envia, colaVars

LEMMA TipoPasaje ==
  ASSUME TipoOrden, pasaje_a_ready
  PROVE  TipoOrden'
<1>0. Pasaje \in Hilos
  BY HilosDistintos
<1>1. CASE PasajeSusp
  <2>1. PICK p \in Pids : Pone(p, "susp_ready", "ready")
    BY <1>1 DEF PasajeSusp, SuspReady
  <2>. QED  BY <1>1, <2>1 DEF TipoOrden, PasajeSusp, hiloVars, Pone
<1>2. CASE PasajeNew
  <2>1. PICK p \in Pids : Pone(p, "new", "creando") /\ mano' = [mano EXCEPT ![Pasaje] = p]
    BY <1>2 DEF PasajeNew
  <2>. QED  BY <1>0, <1>2, <2>1 DEF TipoOrden, PasajeNew, Pone, Va
<1>3. CASE PasajeRecibe
  BY <1>0, <1>3 DEF TipoOrden, PasajeRecibe, Pone, Va
<1>4. CASE Envia(Pasaje)
  BY <1>0, <1>4, TipoEnvia
<1>. QED  BY <1>1, <1>2, <1>3, <1>4 DEF pasaje_a_ready

LEMMA TipoEsperar ==
  ASSUME TipoOrden, esperar_cpu \/ Ejecuta
  PROVE  TipoOrden'
<1>0. Esperar \in Hilos
  BY HilosDistintos
<1>1. CASE Ejecuta
  <2>1. PICK p \in Pids : Pone(p, "ready", "cpu")
    BY <1>1 DEF Ejecuta
  <2>. QED  BY <1>1, <2>1 DEF TipoOrden, Ejecuta, hiloVars, Pone
<1>2. CASE EsperarExit
  <2>1. PICK p \in Pids : Pone(p, "cpu", "exit") /\ mano' = [mano EXCEPT ![Esperar] = p]
    BY <1>2 DEF EsperarExit
  <2>. QED  BY <1>0, <1>2, <2>1 DEF TipoOrden, EsperarExit, Pone, Va
<1>3. CASE EsperarDestruye
  BY <1>0, <1>3 DEF TipoOrden, EsperarDestruye, colaVars, Va
<1>4. CASE EsperarBlocked
  <2>1. PICK p \in Pids :
          /\ Pone(p, "cpu", "blocked") /\ cola_blocked' = Append(cola_blocked, p)
          /\ fase' = [fase EXCEPT ![<<"suspendiendo", p, iteracion_blocked[p] + 1>>] = "dormido"]
    BY <1>4 DEF EsperarBlocked
  <2>. QED  BY <1>4, <2>1, ListaAgrega DEF TipoOrden, EsperarBlocked, Pone
<1>5. CASE Envia(Esperar)
  BY <1>0, <1>5, TipoEnvia
<1>. QED  BY <1>1, <1>2, <1>3, <1>4, <1>5 DEF esperar_cpu

LEMMA TipoSuspendiendo ==
  ASSUME TipoOrden, NEW v \in Vigilantes, suspendiendo(v)
  PROVE  TipoOrden'
<1>0. v \in Hilos /\ v[2] \in Pids
  BY HilosDistintos
<1>1. CASE SuspendiendoDespierta(v) \/ SuspendiendoToma(v)
  BY <1>0, <1>1 DEF TipoOrden, SuspendiendoDespierta, SuspendiendoToma, colaVars, Va
<1>1a. CASE SuspendiendoPide(v)
  BY <1>0, <1>1a DEF TipoOrden, SuspendiendoPide, colaVars, Va
<1>1b. CASE SuspendiendoDesiste(v)
  BY <1>0, <1>1b DEF TipoOrden, SuspendiendoDesiste, colaVars, Va
<1>2. CASE SuspendiendoLista(v)
  <2>1. cola_suspended_blocked' \in Seq(Pids)
    BY <1>0, <1>2, ListaAgrega DEF TipoOrden, SuspendiendoLista
  <2>. QED  BY <1>0, <1>2, <2>1 DEF TipoOrden, SuspendiendoLista, Va
<1>3. CASE Envia(v)
  BY <1>0, <1>3, TipoEnvia
<1>. QED  BY <1>1, <1>1a, <1>1b, <1>2, <1>3 DEF suspendiendo

\* An I/O that is finishing is one of those a process has.
LEMMA TipoIo ==
  ASSUME TipoOrden, Orden, ejecutar_io
  PROVE  TipoOrden'
<1>0. Io \in Hilos
  BY HilosDistintos
<1>1. CASE IoToma
  <2>1. Head(cola_blocked) \in Pids
    BY <1>1, ListaPrimero DEF TipoOrden, IoToma
  <2>. QED  BY <1>0, <1>1, <2>1 DEF TipoOrden, IoToma, colaVars, Va
<1>2. CASE IoTermina
  <2>1. cola_blocked # << >>
    BY <1>2 DEF IoTermina, Va, Orden, Bloqueados
  <2>2. Tail(cola_blocked) \in Seq(Pids)
    BY <2>1, ListaPrimero DEF TipoOrden
  <2>. QED  BY <1>0, <1>2, <2>2 DEF TipoOrden, IoTermina, Va
<1>3. CASE IoIteracion
  <2>1. fase[Io] = "iteracion" /\ mano[Io] \in Pids /\ proceso[mano[Io]] = "blocked"
    BY <1>3 DEF IoIteracion, Va, Orden, Bloqueados
  <2>2. iteracion_blocked[mano[Io]] + 1 \in 1 .. MaxES
    BY <2>1 DEF EnCurso, Clasificando, Orden, Bloqueados
  <2>. QED  BY <1>0, <1>3, <2>1, <2>2, CotasAssumption DEF TipoOrden, IoIteracion, Va
<1>4. CASE IoClasifica
  <2>1. cola_suspended_blocked' \in Seq(Pids)
    BY <1>4, ListaSaca DEF TipoOrden, IoClasifica
  <2>2. fase' = [fase EXCEPT ![Io] = "libre"]
    BY <1>4 DEF IoClasifica, Va
  <2>3. \E e \in {"ready", "susp_ready"} : proceso' = [proceso EXCEPT ![mano[Io]] = e]
    BY <1>4 DEF IoClasifica, Pone
  <2>. QED  BY <1>0, <1>4, <2>1, <2>2, <2>3 DEF TipoOrden, IoClasifica
<1>. QED  BY <1>1, <1>2, <1>3, <1>4 DEF ejecutar_io

LEMMA TipoOrdenSigue ==
  ASSUME TipoOrden, Orden, [Next]_vars
  PROVE  TipoOrden'
<1>1. CASE UNCHANGED vars
  BY <1>1, TipoMemoria
<1>2. CASE Next
  <2>1. CASE \E v \in Vigilantes : suspendiendo(v)
    BY <2>1, TipoSuspendiendo
  <2>2. CASE Terminado /\ UNCHANGED vars
    BY <2>2, TipoMemoria
  <2>. QED  BY <1>2, <2>1, <2>2, TipoMemoria, TipoPasaje, TipoEsperar, TipoIo DEF Next
<1>. QED  BY <1>1, <1>2

-----------------------------------------------------------------------------
(* The schedulers' steps keep their order                                  *)

LEMMA OrdenMemoria ==
  ASSUME TipoOrden, TipoOrden', Orden, recibir_kernel \/ UNCHANGED vars
  PROVE  Orden'
<1>1. UNCHANGED <<colaVars, fase, mano, mx>>
  BY DEF recibir_kernel, MemoriaRecibe, MemoriaCrea, MemoriaSuspende, MemoriaElimina,
         vars, hiloVars
<1>. QED  BY <1>1, OrdenAjeno DEF colaVars, Orden, Fases

LEMMA OrdenEnvia ==
  ASSUME TipoOrden, TipoOrden', Orden, NEW h \in Hilos, Envia(h)
  PROVE  Orden'
<1>1. UNCHANGED <<colaVars, fase, mano, mx>>
  BY DEF Envia
<1>. QED  BY <1>1, OrdenAjeno DEF colaVars, Orden, Fases

LEMMA OrdenPasaje ==
  ASSUME TipoOrden, TipoOrden', Orden, pasaje_a_ready
  PROVE  Orden'
<1>0. fase[Esperar] \in {"libre", "pide"} /\ fase[Pasaje] \in {"libre", "espera"}
  BY DEF Orden, Fases
<1>1. CASE PasajeSusp
  <2>1. PICK p \in Pids : Pone(p, "susp_ready", "ready")
    BY <1>1 DEF PasajeSusp, SuspReady
  <2>2. \A q \in Pids :
          proceso'[q] = proceso[q] \/ (proceso[q] # "blocked" /\ proceso'[q] # "blocked")
    BY <2>1, UnProceso
  <2>. QED  BY <1>0, <1>1, <2>2, OrdenAjeno DEF PasajeSusp, hiloVars
<1>2. CASE PasajeNew
  <2>1. PICK p \in Pids : Pone(p, "new", "creando") /\ mano' = [mano EXCEPT ![Pasaje] = p]
    BY <1>2 DEF PasajeNew
  <2>2. \A q \in Pids :
          proceso'[q] = proceso[q] \/ (proceso[q] # "blocked" /\ proceso'[q] # "blocked")
    BY <2>1, UnProceso
  <2>3. fase'[Pasaje] = "espera" /\ \A g \in Hilos : g # Pasaje => fase'[g] = fase[g]
    BY <1>2, UnHilo, HilosDistintos DEF PasajeNew
  <2>4. mano'[Io] = mano[Io]
    BY <2>1, HilosDistintos DEF TipoOrden
  <2>. QED  BY <1>0, <1>2, <2>2, <2>3, <2>4, OrdenAjeno, HilosDistintos DEF PasajeNew
<1>3. CASE PasajeRecibe
  <2>2. \A q \in Pids :
          proceso'[q] = proceso[q] \/ (proceso[q] # "blocked" /\ proceso'[q] # "blocked")
    BY <1>3 DEF PasajeRecibe, Pone, TipoOrden
  <2>3. fase'[Pasaje] = "libre" /\ \A g \in Hilos : g # Pasaje => fase'[g] = fase[g]
    BY <1>3, UnHilo, HilosDistintos DEF PasajeRecibe
  <2>. QED  BY <1>0, <1>3, <2>2, <2>3, OrdenAjeno, HilosDistintos DEF PasajeRecibe
<1>4. CASE Envia(Pasaje)
  BY <1>4, OrdenEnvia, HilosDistintos
<1>. QED  BY <1>1, <1>2, <1>3, <1>4 DEF pasaje_a_ready

\* The processes of the two queues.
LEMMA DeColas ==
  ASSUME TipoOrden
  PROVE  /\ \A p \in ToSet(cola_blocked) : p \in Pids
         /\ \A p \in ToSet(cola_suspended_blocked) : p \in Pids
BY ToSetPosiciones DEF TipoOrden

\* The thread of the I/O a blocked process is in.
LEMMA DeEnCurso ==
  ASSUME TipoOrden, Orden, NEW p \in Pids, proceso[p] = "blocked"
  PROVE  LET v == <<"suspendiendo", p, EnCurso(p)>>
         IN v \in Vigilantes /\ v \in Hilos /\ v[2] = p /\ v[3] = EnCurso(p)
<1>1. EnCurso(p) \in 1 .. MaxES
  BY DEF Orden, Bloqueados
<1>. QED  BY <1>1, HilosDistintos

\* A new I/O: its thread was not there yet.
LEMMA OrdenBloquea ==
  ASSUME TipoOrden, TipoOrden', Orden, EsperarBlocked
  PROVE  Orden'
<1>1. PICK p \in Pids :
        /\ iteracion_blocked[p] < MaxES
        /\ Pone(p, "cpu", "blocked") /\ cola_blocked' = Append(cola_blocked, p)
        /\ fase' = [fase EXCEPT ![<<"suspendiendo", p, iteracion_blocked[p] + 1>>] = "dormido"]
  BY DEF EsperarBlocked
<1>2. UNCHANGED <<cola_suspended_blocked, iteracion_blocked, mano, mx>>
  BY DEF EsperarBlocked
<1>3. /\ proceso[p] = "cpu" /\ proceso'[p] = "blocked"
      /\ \A q \in Pids : q # p => proceso'[q] = proceso[q]
  BY <1>1, UnProceso
<1>4. PICK k \in 1 .. MaxES : k = iteracion_blocked[p] + 1
  BY <1>1, CotasAssumption DEF TipoOrden
<1>5. PICK w \in Vigilantes : w = <<"suspendiendo", p, k>> /\ w[2] = p /\ w[3] = k
  BY HilosDistintos
<1>6. /\ fase'[w] = "dormido" /\ \A h \in Hilos : h # w => fase'[h] = fase[h]
      /\ w \in Hilos /\ w # Io /\ w # Pasaje /\ w # Esperar
  BY <1>1, <1>4, <1>5, HilosDistintos DEF TipoOrden
<1>7. fase'[Io] = fase[Io] /\ fase'[Pasaje] = fase[Pasaje] /\ fase'[Esperar] = fase[Esperar]
  BY <1>6, HilosDistintos
<1>8. ~Clasificando(p) /\ \A q \in Pids : Clasificando(q)' <=> Clasificando(q)
  BY <1>2, <1>3, <1>7 DEF Clasificando, Orden, Bloqueados
<1>9. /\ EnCurso(p)' = k /\ EnCurso(p) = k - 1
      /\ \A q \in Pids : q # p => EnCurso(q)' = EnCurso(q)
  <2>1. EnCurso(p)' = k /\ EnCurso(p) = iteracion_blocked[p]
    BY <1>2, <1>3, <1>4, <1>8 DEF EnCurso
  <2>2. \A q \in Pids : q # p => EnCurso(q)' = EnCurso(q)
    BY <1>2, <1>3, <1>8 DEF EnCurso
  <2>. QED  BY <1>4, <2>1, <2>2 DEF TipoOrden
<1>10. fase[w] = "libre"
  BY <1>4, <1>5, <1>9 DEF Orden, Vigilancia
<1>11. /\ p \notin ToSet(cola_blocked) /\ p \notin ToSet(cola_suspended_blocked)
  BY <1>3 DEF Orden, Bloqueados, Suspendidos
<1>12. /\ ToSet(cola_blocked') = ToSet(cola_blocked) \cup {p} /\ IsInjective(cola_blocked')
       /\ cola_blocked # << >> => cola_blocked' # << >> /\ Head(cola_blocked') = Head(cola_blocked)
  <2>1. IsInjective(cola_blocked) /\ cola_blocked \in Seq(Pids)
    BY DEF TipoOrden, Orden, Bloqueados
  <2>2. cola_blocked' = Append(cola_blocked, p)
    BY <1>1
  <2>. QED  BY <1>11, <2>1, <2>2, ListaAgrega
<1>13. Fases'
  BY <1>6, <1>7, HilosDistintos DEF Orden, Fases
<1>14. Bloqueados'
  <2>1. \A q \in ToSet(cola_blocked') : proceso'[q] = "blocked"
    BY <1>3, <1>12, DeColas DEF Orden, Bloqueados
  <2>2. fase'[Io] = "dormido" => cola_blocked' # << >> /\ mano'[Io] = Head(cola_blocked')
    BY <1>2, <1>7, <1>12 DEF Orden, Bloqueados
  <2>3. fase'[Io] \in {"iteracion", "clasificar"} =>
          mano'[Io] \in Pids /\ proceso'[mano'[Io]] = "blocked" /\ mano'[Io] \notin ToSet(cola_blocked')
    BY <1>2, <1>3, <1>7, <1>12 DEF Orden, Bloqueados
  <2>4. \A q \in Pids : proceso'[q] = "blocked" => EnCurso(q)' \in 1 .. MaxES
    BY <1>3, <1>9 DEF Orden, Bloqueados
  <2>. QED  BY <1>12, <2>1, <2>2, <2>3, <2>4 DEF Bloqueados
<1>15. Vigilancia'
  <2>. SUFFICES ASSUME NEW v \in Vigilantes
                PROVE  /\ fase'[v] \in {"una", "ambas", "espera"} => mx'["mx_cola_blocked"] = v
                       /\ fase'[v] \in {"ambas", "espera"} => mx'["mx_cola_suspended_blocked"] = v
                       /\ fase'[v] = "espera" => DebeSuspender(v)'
                       /\ v[3] > EnCurso(v[2])' => fase'[v] = "libre"
    BY DEF Vigilancia
  <2>1. CASE v = w
    <3>1. ~(v[3] > EnCurso(v[2])')
      BY <1>4, <1>5, <1>9, <2>1
    <3>. QED  BY <1>6, <2>1, <3>1
  <2>2. CASE v # w
    <3>1. fase'[v] = fase[v] /\ v[2] \in Pids /\ v[3] \in 1 .. MaxES
      BY <1>6, <2>2, HilosDistintos
    <3>2. fase'[v] = "espera" => DebeSuspender(v)'
      BY <1>2, <1>12, <3>1 DEF DebeSuspender, Orden, Vigilancia
    <3>3. v[3] > EnCurso(v[2])' => v[3] > EnCurso(v[2])
      BY <1>4, <1>9, <3>1
    <3>. QED  BY <1>2, <3>1, <3>2, <3>3 DEF Orden, Vigilancia
  <2>. QED  BY <2>1, <2>2
<1>16. Suspendidos'
  <2>. SUFFICES ASSUME NEW q \in ToSet(cola_suspended_blocked)
                PROVE  proceso'[q] = "blocked" /\ fase'[<<"suspendiendo", q, EnCurso(q)'>>] = "fin"
    BY <1>2 DEF Orden, Suspendidos
  <2>1. q \in Pids /\ q # p /\ proceso[q] = "blocked"
    BY <1>11, DeColas DEF Orden, Suspendidos
  <2>2. PICK v \in Vigilantes : v = <<"suspendiendo", q, EnCurso(q)>> /\ v[2] = q /\ v \in Hilos
    BY <2>1, DeEnCurso
  <2>3. fase[v] = "fin"
    BY <2>2 DEF Orden, Suspendidos
  <2>4. fase'[v] = "fin"
    BY <1>6, <1>10, <2>2, <2>3
  <2>. QED  BY <1>3, <1>9, <2>1, <2>2, <2>4
<1>. QED  BY <1>13, <1>14, <1>15, <1>16 DEF Orden

LEMMA OrdenEsperar ==
  ASSUME TipoOrden, TipoOrden', Orden, esperar_cpu \/ Ejecuta
  PROVE  Orden'
<1>0. fase[Esperar] \in {"libre", "pide"} /\ fase[Pasaje] \in {"libre", "espera"}
  BY DEF Orden, Fases
<1>1. CASE Ejecuta
  <2>1. PICK p \in Pids : Pone(p, "ready", "cpu")
    BY <1>1 DEF Ejecuta
  <2>2. \A q \in Pids :
          proceso'[q] = proceso[q] \/ (proceso[q] # "blocked" /\ proceso'[q] # "blocked")
    BY <2>1, UnProceso
  <2>. QED  BY <1>0, <1>1, <2>2, OrdenAjeno DEF Ejecuta, hiloVars
<1>2. CASE EsperarExit
  <2>1. PICK p \in Pids : Pone(p, "cpu", "exit") /\ mano' = [mano EXCEPT ![Esperar] = p]
    BY <1>2 DEF EsperarExit
  <2>2. \A q \in Pids :
          proceso'[q] = proceso[q] \/ (proceso[q] # "blocked" /\ proceso'[q] # "blocked")
    BY <2>1, UnProceso
  <2>3. fase'[Esperar] = "pide" /\ \A g \in Hilos : g # Esperar => fase'[g] = fase[g]
    BY <1>2, UnHilo, HilosDistintos DEF EsperarExit
  <2>4. mano'[Io] = mano[Io]
    BY <2>1, HilosDistintos DEF TipoOrden
  <2>. QED  BY <1>0, <1>2, <2>2, <2>3, <2>4, OrdenAjeno, HilosDistintos DEF EsperarExit
<1>3. CASE EsperarDestruye
  <2>1. fase'[Esperar] = "libre" /\ \A g \in Hilos : g # Esperar => fase'[g] = fase[g]
    BY <1>3, UnHilo, HilosDistintos DEF EsperarDestruye
  <2>. QED  BY <1>0, <1>3, <2>1, OrdenAjeno, HilosDistintos DEF EsperarDestruye, colaVars
<1>4. CASE EsperarBlocked
  BY <1>4, OrdenBloquea
<1>5. CASE Envia(Esperar)
  BY <1>5, OrdenEnvia, HilosDistintos
<1>. QED  BY <1>1, <1>2, <1>3, <1>4, <1>5 DEF esperar_cpu

-----------------------------------------------------------------------------
(* suspendiendo                                                            *)

\* A step of one suspendiendo that leaves the queues alone; what it must show is
\* only about itself and the mutexes.
LEMMA OrdenVigilante ==
  ASSUME TipoOrden, TipoOrden', Orden, NEW v \in Vigilantes, NEW b,
         UNCHANGED <<proceso, cola_blocked, cola_suspended_blocked, iteracion_blocked, mano>>,
         fase[v] \in {"dormido", "una", "ambas"}, fase'[v] = b,
         b \in {"una", "ambas", "espera", "fin"},
         \A h \in Hilos : h # v => fase'[h] = fase[h],
         \A w \in Vigilantes :
           /\ fase'[w] \in {"una", "ambas", "espera"} => mx'["mx_cola_blocked"] = w
           /\ fase'[w] \in {"ambas", "espera"} => mx'["mx_cola_suspended_blocked"] = w,
         b = "espera" => DebeSuspender(v)
  PROVE  Orden'
<1>0. v \in Hilos /\ v # Io /\ v # Pasaje /\ v # Esperar
  BY HilosDistintos
<1>1. fase'[Io] = fase[Io] /\ fase'[Pasaje] = fase[Pasaje] /\ fase'[Esperar] = fase[Esperar]
  BY <1>0, HilosDistintos
<1>2. \A p \in Pids : EnCurso(p)' = EnCurso(p)
  BY <1>1 DEF EnCurso, Clasificando
<1>3. Fases'
  BY <1>1, HilosDistintos DEF Orden, Fases
<1>4. Bloqueados'
  BY <1>1, <1>2 DEF Orden, Bloqueados
<1>5. Vigilancia'
  <2>. SUFFICES ASSUME NEW w \in Vigilantes
                PROVE  /\ fase'[w] = "espera" => DebeSuspender(w)'
                       /\ w[3] > EnCurso(w[2])' => fase'[w] = "libre"
    BY DEF Vigilancia
  <2>1. DebeSuspender(w)' = DebeSuspender(w) /\ w[2] \in Pids /\ w \in Hilos
    BY HilosDistintos DEF DebeSuspender
  <2>2. w[3] > EnCurso(w[2])' => w # v
    BY <1>2, <2>1 DEF Orden, Vigilancia
  <2>3. CASE w = v
    BY <2>1, <2>2, <2>3
  <2>4. CASE w # v
    BY <1>2, <2>1, <2>4 DEF Orden, Vigilancia
  <2>. QED  BY <2>3, <2>4
<1>6. Suspendidos'
  <2>. SUFFICES ASSUME NEW q \in ToSet(cola_suspended_blocked)
                PROVE  proceso[q] = "blocked" /\ fase'[<<"suspendiendo", q, EnCurso(q)'>>] = "fin"
    BY DEF Orden, Suspendidos
  <2>1. q \in Pids /\ proceso[q] = "blocked"
    BY DeColas DEF Orden, Suspendidos
  <2>2. PICK w \in Vigilantes : w = <<"suspendiendo", q, EnCurso(q)>> /\ w \in Hilos
    BY <2>1, DeEnCurso
  <2>3. fase[w] = "fin"
    BY <2>2 DEF Orden, Suspendidos
  <2>. QED  BY <1>2, <2>1, <2>2, <2>3
<1>. QED  BY <1>3, <1>4, <1>5, <1>6 DEF Orden

\* The thread that takes the first mutex is the only one past usleep.
LEMMA OrdenDespierta ==
  ASSUME TipoOrden, TipoOrden', Orden, NEW v \in Vigilantes, SuspendiendoDespierta(v)
  PROVE  Orden'
<1>1. /\ fase[v] = "dormido" /\ fase'[v] = "una"
      /\ \A h \in Hilos : h # v => fase'[h] = fase[h]
  BY UnHilo, HilosDistintos DEF SuspendiendoDespierta
<1>2. /\ mx["mx_cola_blocked"] = Nadie /\ mx'["mx_cola_blocked"] = v
      /\ mx'["mx_cola_suspended_blocked"] = mx["mx_cola_suspended_blocked"]
  BY DEF SuspendiendoDespierta, Libre, TipoOrden, Mutex
<1>3. \A w \in Vigilantes : w \in Hilos /\ fase[w] \notin {"una", "ambas", "espera"}
  BY <1>2, HilosDistintos DEF Orden, Vigilancia
<1>. QED  BY <1>1, <1>2, <1>3, OrdenVigilante DEF SuspendiendoDespierta, colaVars

LEMMA OrdenToma ==
  ASSUME TipoOrden, TipoOrden', Orden, NEW v \in Vigilantes, SuspendiendoToma(v)
  PROVE  Orden'
<1>1. /\ fase[v] = "una" /\ fase'[v] = "ambas"
      /\ \A h \in Hilos : h # v => fase'[h] = fase[h]
  BY UnHilo, HilosDistintos DEF SuspendiendoToma
<1>2. /\ mx'["mx_cola_suspended_blocked"] = v
      /\ mx'["mx_cola_blocked"] = mx["mx_cola_blocked"]
  BY DEF SuspendiendoToma, TipoOrden, Mutex
<1>3. mx["mx_cola_blocked"] = v
  BY <1>1 DEF Orden, Vigilancia
<1>4. \A w \in Vigilantes : w \in Hilos /\ (w # v => fase[w] \notin {"una", "ambas", "espera"})
  BY <1>3, HilosDistintos DEF Orden, Vigilancia
<1>. QED  BY <1>1, <1>2, <1>3, <1>4, OrdenVigilante DEF SuspendiendoToma, colaVars

LEMMA OrdenPideODesiste ==
  ASSUME TipoOrden, TipoOrden', Orden, NEW v \in Vigilantes,
         SuspendiendoPide(v) \/ SuspendiendoDesiste(v)
  PROVE  Orden'
<1>1. fase[v] = "ambas" /\ \A h \in Hilos : h # v => fase'[h] = fase[h]
  BY UnHilo, HilosDistintos DEF SuspendiendoPide, SuspendiendoDesiste
<1>2. mx["mx_cola_blocked"] = v /\ mx["mx_cola_suspended_blocked"] = v
  BY <1>1 DEF Orden, Vigilancia
<1>3. \A w \in Vigilantes : w \in Hilos /\ (w # v => fase[w] \notin {"una", "ambas", "espera"})
  BY <1>2, HilosDistintos DEF Orden, Vigilancia
<1>4. CASE SuspendiendoPide(v)
  <2>1. fase'[v] = "espera" /\ DebeSuspender(v) /\ UNCHANGED <<colaVars, mano, mx>>
    BY <1>4, UnHilo, HilosDistintos DEF SuspendiendoPide
  <2>. QED  BY <1>1, <1>2, <1>3, <2>1, OrdenVigilante DEF colaVars
<1>5. CASE SuspendiendoDesiste(v)
  <2>1. fase'[v] = "fin" /\ UNCHANGED <<colaVars, mano>>
    BY <1>5, UnHilo, HilosDistintos DEF SuspendiendoDesiste
  <2>. QED  BY <1>1, <1>3, <2>1, OrdenVigilante DEF colaVars
<1>. QED  BY <1>4, <1>5

\* The process is listed by the thread of the I/O it is in, so it was not yet.
LEMMA OrdenLista ==
  ASSUME TipoOrden, TipoOrden', Orden, NEW v \in Vigilantes, SuspendiendoLista(v)
  PROVE  Orden'
<1>0. v \in Hilos /\ v # Io /\ v # Pasaje /\ v # Esperar /\ v[2] \in Pids /\ v[3] \in 1 .. MaxES
      /\ v = <<"suspendiendo", v[2], v[3]>>
  BY HilosDistintos
<1>1. /\ fase[v] = "espera" /\ fase'[v] = "fin"
      /\ \A h \in Hilos : h # v => fase'[h] = fase[h]
  BY <1>0, UnHilo DEF SuspendiendoLista
<1>2. /\ cola_suspended_blocked' = Append(cola_suspended_blocked, v[2])
      /\ UNCHANGED <<proceso, cola_blocked, iteracion_blocked, mano>>
  BY DEF SuspendiendoLista
<1>3. fase'[Io] = fase[Io] /\ fase'[Pasaje] = fase[Pasaje] /\ fase'[Esperar] = fase[Esperar]
  BY <1>0, <1>1, HilosDistintos
<1>4. \A p \in Pids : EnCurso(p)' = EnCurso(p)
  BY <1>2, <1>3 DEF EnCurso, Clasificando
<1>5. v[2] \in ToSet(cola_blocked) /\ proceso[v[2]] = "blocked" /\ EnCurso(v[2]) = v[3]
  <2>1. v[2] \in ToSet(cola_blocked) /\ iteracion_blocked[v[2]] + 1 = v[3]
    BY <1>1 DEF Orden, Vigilancia, DebeSuspender
  <2>2. proceso[v[2]] = "blocked" /\ ~Clasificando(v[2])
    BY <2>1 DEF Orden, Bloqueados, Clasificando
  <2>. QED  BY <2>1, <2>2 DEF EnCurso
<1>6. v[2] \notin ToSet(cola_suspended_blocked)
  BY <1>0, <1>1, <1>5 DEF Orden, Suspendidos
<1>7. /\ ToSet(cola_suspended_blocked') = ToSet(cola_suspended_blocked) \cup {v[2]}
      /\ IsInjective(cola_suspended_blocked')
  <2>1. IsInjective(cola_suspended_blocked) /\ cola_suspended_blocked \in Seq(Pids)
    BY DEF TipoOrden, Orden, Suspendidos
  <2>. QED  BY <1>0, <1>2, <1>6, <2>1, ListaAgrega
<1>8. \A w \in Vigilantes : w \in Hilos /\ (w # v => fase[w] \notin {"una", "ambas", "espera"})
  BY <1>1, HilosDistintos DEF Orden, Vigilancia
<1>9. Fases'
  BY <1>1, <1>3, HilosDistintos DEF Orden, Fases
<1>10. Bloqueados'
  BY <1>2, <1>3, <1>4 DEF Orden, Bloqueados
<1>11. Vigilancia'
  <2>. SUFFICES ASSUME NEW w \in Vigilantes
                PROVE  /\ fase'[w] \notin {"una", "ambas", "espera"}
                       /\ w[3] > EnCurso(w[2])' => fase'[w] = "libre"
    BY DEF Vigilancia
  <2>1. w[2] \in Pids /\ w \in Hilos
    BY HilosDistintos
  <2>2. w[3] > EnCurso(w[2])' => w # v
    BY <1>0, <1>4, <1>5, <2>1
  <2>3. CASE w = v
    BY <1>1, <2>2, <2>3
  <2>4. CASE w # v
    BY <1>1, <1>4, <1>8, <2>1, <2>4 DEF Orden, Vigilancia
  <2>. QED  BY <2>3, <2>4
<1>12. Suspendidos'
  <2>. SUFFICES ASSUME NEW q \in ToSet(cola_suspended_blocked')
                PROVE  proceso[q] = "blocked" /\ fase'[<<"suspendiendo", q, EnCurso(q)'>>] = "fin"
    BY <1>2, <1>7 DEF Suspendidos
  <2>1. CASE q = v[2]
    BY <1>0, <1>1, <1>4, <1>5, <2>1
  <2>2. CASE q # v[2]
    <3>1. q \in ToSet(cola_suspended_blocked) /\ q \in Pids /\ proceso[q] = "blocked"
      BY <1>7, <2>2, DeColas DEF Orden, Suspendidos
    <3>2. PICK w \in Vigilantes : w = <<"suspendiendo", q, EnCurso(q)>> /\ w \in Hilos
      BY <3>1, DeEnCurso
    <3>3. fase[w] = "fin"
      BY <3>1, <3>2 DEF Orden, Suspendidos
    <3>. QED  BY <1>1, <1>4, <3>1, <3>2, <3>3
  <2>. QED  BY <2>1, <2>2
<1>. QED  BY <1>9, <1>10, <1>11, <1>12 DEF Orden

LEMMA OrdenSuspendiendo ==
  ASSUME TipoOrden, TipoOrden', Orden, NEW v \in Vigilantes, suspendiendo(v)
  PROVE  Orden'
BY OrdenDespierta, OrdenToma, OrdenPideODesiste, OrdenLista, OrdenEnvia, HilosDistintos
   DEF suspendiendo

-----------------------------------------------------------------------------
(* ejecutar_io                                                             *)

\* A step of ejecutar_io that moves nobody's I/O leaves every suspendiendo right
\* about its own, if those that wait for memory still find their process.
LEMMA OrdenIo ==
  ASSUME TipoOrden, TipoOrden', Orden, mx' = mx,
         \A h \in Hilos : h # Io => fase'[h] = fase[h],
         fase'[Io] \in {"libre", "dormido", "iteracion", "clasificar"},
         \A p \in Pids : EnCurso(p)' = EnCurso(p),
         \A v \in Vigilantes : fase[v] = "espera" => DebeSuspender(v)'
  PROVE  Fases' /\ Vigilancia'
<1>1. fase'[Pasaje] = fase[Pasaje] /\ fase'[Esperar] = fase[Esperar]
  BY HilosDistintos
<1>2. \A v \in Vigilantes : fase'[v] = fase[v] /\ v[2] \in Pids
  BY HilosDistintos
<1>. QED  BY <1>1, <1>2 DEF Orden, Fases, Vigilancia

\* The same of the processes listed as suspended.
LEMMA OrdenIoSuspendidos ==
  ASSUME TipoOrden, TipoOrden', Orden, IsInjective(cola_suspended_blocked'),
         \A q \in ToSet(cola_suspended_blocked') :
           q \in ToSet(cola_suspended_blocked) /\ proceso'[q] = "blocked",
         \A h \in Hilos : h # Io => fase'[h] = fase[h],
         \A p \in Pids : EnCurso(p)' = EnCurso(p)
  PROVE  Suspendidos'
<1>. SUFFICES ASSUME NEW q \in ToSet(cola_suspended_blocked')
              PROVE  fase'[<<"suspendiendo", q, EnCurso(q)'>>] = "fin"
  BY DEF Suspendidos
<1>1. q \in ToSet(cola_suspended_blocked) /\ q \in Pids /\ proceso[q] = "blocked"
  BY DeColas DEF Orden, Suspendidos
<1>2. PICK w \in Vigilantes : w = <<"suspendiendo", q, EnCurso(q)>> /\ w \in Hilos /\ w # Io
  BY <1>1, DeEnCurso, HilosDistintos
<1>3. fase[w] = "fin"
  BY <1>1, <1>2 DEF Orden, Suspendidos
<1>. QED  BY <1>1, <1>2, <1>3

LEMMA OrdenIoToma ==
  ASSUME TipoOrden, TipoOrden', Orden, IoToma
  PROVE  Orden'
<1>1. /\ fase[Io] = "libre" /\ fase'[Io] = "dormido"
      /\ \A h \in Hilos : h # Io => fase'[h] = fase[h]
  BY UnHilo, HilosDistintos DEF IoToma
<1>2. /\ cola_blocked # << >> /\ UNCHANGED <<colaVars, mx>>
      /\ mano'[Io] = Head(cola_blocked)
  BY HilosDistintos DEF IoToma, TipoOrden
<1>3. \A p \in Pids : EnCurso(p)' = EnCurso(p)
  BY <1>1, <1>2 DEF EnCurso, Clasificando, colaVars
<1>4. Fases' /\ Vigilancia'
  <2>1. \A v \in Vigilantes : fase[v] = "espera" => DebeSuspender(v)'
    BY <1>2 DEF colaVars, Orden, Vigilancia, DebeSuspender
  <2>. QED  BY <1>1, <1>2, <1>3, <2>1, OrdenIo
<1>5. Bloqueados'
  BY <1>1, <1>2, <1>3 DEF Orden, Bloqueados, colaVars
<1>6. Suspendidos'
  BY <1>1, <1>2, <1>3, OrdenIoSuspendidos DEF colaVars, Orden, Suspendidos
<1>. QED  BY <1>4, <1>5, <1>6 DEF Orden

\* list_remove waits for the mutex, so no thread has asked memory for the process.
LEMMA OrdenIoTermina ==
  ASSUME TipoOrden, TipoOrden', Orden, IoTermina
  PROVE  Orden'
<1>1. /\ fase[Io] = "dormido" /\ fase'[Io] = "iteracion"
      /\ \A h \in Hilos : h # Io => fase'[h] = fase[h]
  BY UnHilo, HilosDistintos DEF IoTermina
<1>2. /\ cola_blocked' = Tail(cola_blocked) /\ mx["mx_cola_blocked"] = Nadie
      /\ UNCHANGED <<proceso, cola_suspended_blocked, iteracion_blocked, mano, mx>>
  BY DEF IoTermina, Libre
<1>3. \A p \in Pids : EnCurso(p)' = EnCurso(p)
  BY <1>1, <1>2 DEF EnCurso, Clasificando
<1>4. Fases' /\ Vigilancia'
  <2>1. \A v \in Vigilantes : fase[v] # "espera"
    BY <1>2, HilosDistintos DEF Orden, Vigilancia
  <2>. QED  BY <1>1, <1>2, <1>3, <2>1, OrdenIo
<1>5. Bloqueados'
  <2>1. cola_blocked # << >> /\ mano[Io] = Head(cola_blocked) /\ IsInjective(cola_blocked)
    BY <1>1 DEF Orden, Bloqueados
  <2>2. /\ Head(cola_blocked) \in ToSet(cola_blocked) /\ Head(cola_blocked) \in Pids
        /\ IsInjective(cola_blocked')
        /\ ToSet(cola_blocked') = ToSet(cola_blocked) \ {Head(cola_blocked)}
    BY <1>2, <2>1, ListaPrimero DEF TipoOrden
  <2>. QED  BY <1>1, <1>2, <1>3, <2>1, <2>2 DEF Orden, Bloqueados
<1>6. Suspendidos'
  BY <1>1, <1>2, <1>3, OrdenIoSuspendidos DEF Orden, Suspendidos
<1>. QED  BY <1>4, <1>5, <1>6 DEF Orden

\* The number written is that of the I/O the process was in.
LEMMA OrdenIoIteracion ==
  ASSUME TipoOrden, TipoOrden', Orden, IoIteracion
  PROVE  Orden'
<1>1. /\ fase[Io] = "iteracion" /\ fase'[Io] = "clasificar"
      /\ \A h \in Hilos : h # Io => fase'[h] = fase[h]
  BY UnHilo, HilosDistintos DEF IoIteracion
<1>2. PICK p \in Pids : p = mano[Io]
  BY <1>1 DEF Orden, Bloqueados
<1>3. proceso[p] = "blocked" /\ p \notin ToSet(cola_blocked)
  BY <1>1, <1>2 DEF Orden, Bloqueados
<1>4. /\ UNCHANGED <<proceso, cola_blocked, cola_suspended_blocked, mano, mx>>
      /\ iteracion_blocked'[p] = iteracion_blocked[p] + 1
      /\ \A q \in Pids : q # p => iteracion_blocked'[q] = iteracion_blocked[q]
  BY <1>2 DEF IoIteracion, TipoOrden
<1>5. \A q \in Pids : EnCurso(q)' = EnCurso(q)
  BY <1>1, <1>2, <1>3, <1>4 DEF EnCurso, Clasificando
<1>6. Fases' /\ Vigilancia'
  <2>1. \A v \in Vigilantes : fase[v] = "espera" => DebeSuspender(v)'
    <3>. SUFFICES ASSUME NEW v \in Vigilantes, fase[v] = "espera" PROVE DebeSuspender(v)'
      OBVIOUS
    <3>1. DebeSuspender(v) /\ v[2] \in Pids
      BY HilosDistintos DEF Orden, Vigilancia
    <3>. QED  BY <1>3, <1>4, <3>1 DEF DebeSuspender
  <2>. QED  BY <1>1, <1>4, <1>5, <2>1, OrdenIo
<1>7. Bloqueados'
  BY <1>1, <1>2, <1>3, <1>4, <1>5 DEF Orden, Bloqueados
<1>8. Suspendidos'
  BY <1>1, <1>4, <1>5, OrdenIoSuspendidos DEF Orden, Suspendidos
<1>. QED  BY <1>6, <1>7, <1>8 DEF Orden

\* Either way the process leaves the list of the suspended.
LEMMA DeIoClasifica ==
  ASSUME TipoOrden, Orden, IoClasifica
  PROVE  /\ fase[Io] = "clasificar" /\ fase'[Io] = "libre"
         /\ \A h \in Hilos : h # Io => fase'[h] = fase[h]
         /\ mano[Io] \in Pids /\ proceso[mano[Io]] = "blocked"
         /\ proceso'[mano[Io]] \in {"ready", "susp_ready"}
         /\ proceso'[mano[Io]] = "susp_ready" => mano[Io] \in ToSet(cola_suspended_blocked)
         /\ \A q \in Pids : q # mano[Io] => proceso'[q] = proceso[q]
         /\ IsInjective(cola_suspended_blocked')
         /\ ToSet(cola_suspended_blocked') = ToSet(cola_suspended_blocked) \ {mano[Io]}
<1>1. /\ fase[Io] = "clasificar" /\ fase'[Io] = "libre"
      /\ \A h \in Hilos : h # Io => fase'[h] = fase[h]
  BY UnHilo, HilosDistintos DEF IoClasifica
<1>2. PICK p \in Pids : p = mano[Io]
  BY <1>1 DEF Orden, Bloqueados
<1>3. IsInjective(cola_suspended_blocked) /\ cola_suspended_blocked \in Seq(Pids)
  BY DEF TipoOrden, Orden, Suspendidos
<1>4. CASE /\ Pone(mano[Io], "blocked", "susp_ready")
           /\ \E i \in DOMAIN cola_suspended_blocked :
                /\ cola_suspended_blocked[i] = mano[Io]
                /\ cola_suspended_blocked' = RemoveAt(cola_suspended_blocked, i)
  <2>1. /\ p \in ToSet(cola_suspended_blocked) /\ IsInjective(cola_suspended_blocked')
        /\ ToSet(cola_suspended_blocked') = ToSet(cola_suspended_blocked) \ {p}
    BY <1>2, <1>3, <1>4, ListaSaca
  <2>2. /\ proceso[p] = "blocked" /\ proceso'[p] = "susp_ready"
        /\ \A q \in Pids : q # p => proceso'[q] = proceso[q]
    BY <1>2, <1>4, UnProceso
  <2>. QED  BY <1>1, <1>2, <2>1, <2>2
<1>5. CASE /\ Pone(mano[Io], "blocked", "ready")
           /\ mano[Io] \notin ToSet(cola_suspended_blocked)
           /\ UNCHANGED cola_suspended_blocked
  <2>2. /\ proceso[p] = "blocked" /\ proceso'[p] = "ready"
        /\ \A q \in Pids : q # p => proceso'[q] = proceso[q]
    BY <1>2, <1>5, UnProceso
  <2>. QED  BY <1>1, <1>2, <1>3, <1>5, <2>2
<1>. QED  BY <1>4, <1>5 DEF IoClasifica

LEMMA OrdenIoClasifica ==
  ASSUME TipoOrden, TipoOrden', Orden, IoClasifica
  PROVE  Orden'
<1>1. PICK p \in Pids : p = mano[Io]
  BY DeIoClasifica
<1>2. /\ fase[Io] = "clasificar" /\ fase'[Io] = "libre"
      /\ \A h \in Hilos : h # Io => fase'[h] = fase[h]
      /\ proceso[p] = "blocked" /\ proceso'[p] \in {"ready", "susp_ready"}
      /\ \A q \in Pids : q # p => proceso'[q] = proceso[q]
      /\ IsInjective(cola_suspended_blocked')
      /\ ToSet(cola_suspended_blocked') = ToSet(cola_suspended_blocked) \ {p}
  BY <1>1, DeIoClasifica
<1>3. /\ UNCHANGED <<cola_blocked, iteracion_blocked, mano, mx>>
      /\ p \notin ToSet(cola_blocked)
  BY <1>1, <1>2 DEF IoClasifica, Orden, Bloqueados
<1>4. \A q \in Pids : EnCurso(q)' = EnCurso(q)
  BY <1>1, <1>2, <1>3 DEF EnCurso, Clasificando
<1>5. Fases' /\ Vigilancia'
  <2>1. \A v \in Vigilantes : fase[v] = "espera" => DebeSuspender(v)'
    BY <1>3 DEF Orden, Vigilancia, DebeSuspender
  <2>. QED  BY <1>2, <1>3, <1>4, <2>1, OrdenIo
<1>6. Bloqueados'
  <2>1. \A q \in ToSet(cola_blocked') : proceso'[q] = "blocked"
    BY <1>2, <1>3, DeColas DEF Orden, Bloqueados
  <2>2. \A q \in Pids : proceso'[q] = "blocked" => EnCurso(q)' \in 1 .. MaxES
    BY <1>2, <1>4 DEF Orden, Bloqueados
  <2>. QED  BY <1>2, <1>3, <2>1, <2>2 DEF Orden, Bloqueados
<1>7. Suspendidos'
  <2>1. \A q \in ToSet(cola_suspended_blocked') :
          q \in ToSet(cola_suspended_blocked) /\ proceso'[q] = "blocked"
    BY <1>2, DeColas DEF Orden, Suspendidos
  <2>. QED  BY <1>2, <1>4, <2>1, OrdenIoSuspendidos
<1>. QED  BY <1>5, <1>6, <1>7 DEF Orden

LEMMA OrdenSigue ==
  ASSUME TipoOrden, Orden, [Next]_vars
  PROVE  TipoOrden' /\ Orden'
<1>0. TipoOrden'
  BY TipoOrdenSigue
<1>1. CASE UNCHANGED vars
  BY <1>0, <1>1, OrdenMemoria
<1>2. CASE Next
  <2>1. CASE \E v \in Vigilantes : suspendiendo(v)
    BY <1>0, <2>1, OrdenSuspendiendo
  <2>2. CASE ejecutar_io
    BY <1>0, <2>2, OrdenIoToma, OrdenIoTermina, OrdenIoIteracion, OrdenIoClasifica
       DEF ejecutar_io
  <2>3. CASE Terminado /\ UNCHANGED vars
    BY <1>0, <2>3, OrdenMemoria
  <2>. QED  BY <1>0, <1>2, <2>1, <2>2, <2>3, OrdenMemoria, OrdenPasaje, OrdenEsperar DEF Next
<1>. QED  BY <1>0, <1>1, <1>2

LEMMA OrdenInicial == Init => TipoOrden /\ Orden
<1>. SUFFICES ASSUME Init PROVE TipoOrden /\ Orden
  OBVIOUS
<1>1. TipoOrden
  BY HilosDistintos, CotasAssumption DEF Init, TipoOrden
<1>2. Fases
  BY HilosDistintos DEF Init, Fases
<1>3. Bloqueados
  BY ListaVacia, HilosDistintos DEF Init, Bloqueados
<1>4. Vigilancia
  BY HilosDistintos DEF Init, Vigilancia
<1>5. Suspendidos
  BY ListaVacia DEF Init, Suspendidos
<1>. QED  BY <1>1, <1>2, <1>3, <1>4, <1>5 DEF Orden

-----------------------------------------------------------------------------
(* Requests                                                                *)

\* What a request is made of, and which one it is by its op_code.
LEMMA FormaTrozo ==
  /\ Pids \subseteq Unidades /\ {0, 1, Tamanio} \subseteq Unidades
  /\ CREAR_TABLA \in Trozo /\ ELIMINAR_ESTRUCTURAS \in Trozo /\ SUSPENDER_PROCESO \in Trozo
  /\ CREAR_TABLA # ELIMINAR_ESTRUCTURAS /\ CREAR_TABLA # SUSPENDER_PROCESO
  /\ ELIMINAR_ESTRUCTURAS # SUSPENDER_PROCESO
  /\ Len(CREAR_TABLA) = 2 /\ Len(ELIMINAR_ESTRUCTURAS) = 2 /\ Len(SUSPENDER_PROCESO) = 2
  /\ Trozo \subseteq Seq(Unidades)
  /\ \A u \in Unidades : <<u>> \in Trozo /\ Len(<<u>>) = 1
  /\ \A u, w \in Unidades : <<u, w>> \in Trozo /\ Len(<<u, w>>) = 2
<1>1. {0, 1, 6, 7, 8, Tamanio} \subseteq Unidades /\ Pids \subseteq Unidades
  BY DEF Unidades
<1>. HIDE DEF Unidades
<1>2. \A u \in Unidades : <<u>> \in Trozo /\ Len(<<u>>) = 1
  BY DEF Trozo
<1>3. \A u, w \in Unidades : <<u, w>> \in Trozo /\ Len(<<u, w>>) = 2
  BY DEF Trozo
<1>. QED
  BY <1>1, <1>2, <1>3 DEF CREAR_TABLA, ELIMINAR_ESTRUCTURAS, SUSPENDER_PROCESO, Trozo

LEMMA FormaPedido ==
  ASSUME NEW r \in Pedidos
  PROVE  /\ r \in Seq(Trozo) /\ Len(r) = 3
         /\ r[1] \in Trozo /\ r[2] \in Trozo /\ r[3] \in Trozo
         /\ Len(r[1]) = 2 /\ Len(r[3]) = 1
         /\ r[1] \in Peticion
         /\ Len(r[2]) = IF r[1] = ELIMINAR_ESTRUCTURAS THEN 2 ELSE 1
         /\ r \in Creaciones <=> r[1] = CREAR_TABLA
         /\ r \in Suspensiones <=> r[1] = SUSPENDER_PROCESO
         /\ r \in Eliminaciones <=> r[1] = ELIMINAR_ESTRUCTURAS
         /\ r \in Suspensiones => \E p \in Pids : r[2] = <<p>>
         /\ r \notin Suspensiones => \E p \in Pids : r[3] = <<p>>
<1>0. /\ \A a, b, c \in Trozo : <<a, b, c>> \in Seq(Trozo) /\ Len(<<a, b, c>>) = 3
      /\ \A s \in Creaciones : s[1] = CREAR_TABLA
      /\ \A s \in Suspensiones : s[1] = SUSPENDER_PROCESO
      /\ \A s \in Eliminaciones : s[1] = ELIMINAR_ESTRUCTURAS
  BY DEF Creaciones, PedidoCrear, Suspensiones, Eliminaciones
<1>1. CASE r \in Creaciones
  <2>1. PICK p \in Pids : r = <<CREAR_TABLA, <<Tamanio>>, <<p>>>>
    BY <1>1 DEF Creaciones, PedidoCrear
  <2>. QED  BY <1>0, <1>1, <2>1, FormaTrozo DEF Peticion
<1>2. CASE r \in Suspensiones
  <2>1. PICK p \in Pids, u \in Unidades : r = <<SUSPENDER_PROCESO, <<p>>, <<u>>>>
    BY <1>2 DEF Suspensiones
  <2>. QED  BY <1>0, <1>2, <2>1, FormaTrozo DEF Peticion
<1>3. CASE r \in Eliminaciones
  <2>1. PICK p \in Pids, u \in Unidades, w \in Unidades :
          r = <<ELIMINAR_ESTRUCTURAS, <<u, w>>, <<p>>>>
    BY <1>3 DEF Eliminaciones
  <2>. QED  BY <1>0, <1>3, <2>1, FormaTrozo DEF Peticion
<1>. QED  BY <1>1, <1>2, <1>3 DEF Pedidos

-----------------------------------------------------------------------------
(* The stream, as recv, send and the handlers of requests move it          *)

LEMMA TiposFlujo ==
  /\ Pedidos \subseteq Seq(Trozo) /\ Trozo \subseteq Seq(Unidades)
  /\ \A s \in Seq(Trozo) : s \in Seq(Seq(Unidades))
<1>1. \A s \in Seq(Trozo) : s \in Seq(Seq(Unidades))
  BY FormaTrozo, SeqMonotonic
<1>. QED  BY <1>1, FormaPedido, FormaTrozo

\* A request that is not read whole.
LEMMA FlujoPrimero ==
  ASSUME NEW m, NEW q, NEW f, Flujo(m, q, f), ida \in Seq(Unidades)
  PROVE  /\ lectura \o (q \o f) # << >> => m # << >>
         /\ m # << >> => /\ Head(m) \in Pedidos
                         /\ Len(lectura \o (q \o f)) >= 3
                         /\ \A i \in 1 .. 3 : (lectura \o (q \o f))[i] = Head(m)[i]
         /\ q = << >> <=> ida = << >>
<1>. DEFINE w == lectura \o (q \o f)
<1>0. /\ m \in Seq(Pedidos) /\ q \in Seq(Trozo) /\ f \in Seq(Trozo) /\ lectura \in Seq(Trozo)
      /\ Une(q, ida) /\ Une(m, w)
  BY DEF Flujo
<1>1. w \in Seq(Trozo)
  BY <1>0
<1>. HIDE DEF w
<1>2. w # << >> => m # << >>
  BY <1>0, <1>1, UneNada
<1>3. ASSUME m # << >>
      PROVE  Head(m) \in Pedidos /\ Len(w) >= 3 /\ \A i \in 1 .. 3 : w[i] = Head(m)[i]
  <2>1. Head(m) \in Pedidos
    BY <1>0, <1>3, ListaPrimero
  <2>2. Len(Head(m)) = 3 /\ Head(m) \in Seq(Trozo)
    BY <2>1, FormaPedido
  <2>3. Len(Head(m)) \in 0 .. Len(w) /\ SubSeq(w, 1, Len(Head(m))) = Head(m)
    <3>1. m \in Seq(Pedidos) /\ Une(m, w) /\ Pedidos \subseteq Seq(Trozo)
      BY <1>0, TiposFlujo
    <3>. QED  BY <1>1, <1>3, <3>1, UneSaca
  <2>5. Len(w) \in Nat
    BY <1>1, LenProperties
  <2>6. 3 \in 0 .. Len(w) /\ SubSeq(w, 1, 3) = Head(m)
    BY <2>2, <2>3
  <2>4. \A i \in 1 .. 3 : w[i] = SubSeq(w, 1, 3)[i]
    <3>1. Len(w) \in Nat /\ Len(w) >= 3
      BY <2>5, <2>6
    <3>2. \A i \in 1 .. 3 : w[i] \in Trozo
      BY <1>1, <3>1
    <3>3. \A i \in 1 .. 3 - 1 + 1 : SubSeq(w, 1, 3)[i] = w[1 + i - 1]
      BY <3>2, SubSeqProperties
    <3>4. \A i \in 1 .. 3 : 1 + i - 1 = i
      OBVIOUS
    <3>. QED  BY <3>3, <3>4
  <2>. QED  BY <2>1, <2>4, <2>5, <2>6
<1>4. q = << >> => ida = << >>
  BY <1>0, UneNada
<1>5. ida = << >> => q = << >>
  <2>. SUFFICES ASSUME ida = << >>, q # << >> PROVE FALSE
    OBVIOUS
  <2>1. Head(q) \in Trozo
    BY <1>0, ListaPrimero
  <2>2. Len(Head(q)) \in 0 .. Len(ida) /\ Len(ida) = 0
    BY <1>0, TiposFlujo, UneSaca
  <2>3. Len(Head(q)) \in Nat \ {0}
    BY <2>1, EmptySeq DEF Trozo
  <2>. QED  BY <2>2, <2>3
<1>. QED  BY <1>2, <1>3, <1>4, <1>5 DEF w

\* recv of the next field: as many units as it has, and no part of another.
LEMMA FlujoRecibe ==
  ASSUME NEW m, NEW q, NEW f, Flujo(m, q, f), ida \in Seq(Unidades), MemoriaRecibe
  PROVE  /\ m # << >> /\ ida' \in Seq(Unidades) /\ lectura' \in Seq(Trozo)
         /\ Flujo(m, Tail(q), f)'
<1>. DEFINE w == lectura \o (q \o f)
            x == Head(q)
            n == Len(lectura)
<1>0. /\ m \in Seq(Pedidos) /\ q \in Seq(Trozo) /\ f \in Seq(Trozo) /\ lectura \in Seq(Trozo)
      /\ Une(q, ida) /\ Une(m, w)
  BY DEF Flujo
<1>1. ida # << >> /\ n < 3 /\ n \in 0 .. 2 /\ q # << >>
  <2>1. ida # << >> /\ n < 3
    BY DEF MemoriaRecibe
  <2>2. n \in Nat
    BY <1>0, LenProperties
  <2>3. q # << >>
    BY <2>1, FlujoPrimero
  <2>4. \A k \in Nat : k < 3 => k \in 0 .. 2
    OBVIOUS
  <2>. HIDE DEF n
  <2>. QED  BY <2>1, <2>2, <2>3, <2>4
<1>2. x \in Trozo /\ Tail(q) \in Seq(Trozo)
  BY <1>0, <1>1, ListaPrimero
<1>3. w # << >> /\ \A i \in 1 .. n + 1 : w[i] = IF i <= n THEN lectura[i] ELSE x
  <2>1. q \o f \in Seq(Trozo) /\ Len(q \o f) = Len(q) + Len(f) /\ (q \o f)[1] = x
        /\ Len(q) \in Nat /\ Len(q) >= 1 /\ Len(f) \in Nat /\ n \in Nat
    <3>1. Len(q) \in Nat /\ Len(q) >= 1 /\ Len(f) \in Nat /\ q[1] = x
      BY <1>0, <1>1, EmptySeq
    <3>2. /\ q \o f \in Seq(Trozo) /\ Len(q \o f) = Len(q) + Len(f)
          /\ \A i \in 1 .. Len(q) + Len(f) : (q \o f)[i] = IF i <= Len(q) THEN q[i] ELSE f[i - Len(q)]
      BY <1>0, ConcatProperties
    <3>. QED  BY <1>1, <3>1, <3>2
  <2>2. /\ w \in Seq(Trozo) /\ Len(w) = n + Len(q \o f)
        /\ \A i \in 1 .. n + Len(q \o f) : w[i] = IF i <= n THEN lectura[i] ELSE (q \o f)[i - n]
    BY <1>0, <2>1, ConcatProperties
  <2>3. \A i \in 1 .. n + 1 : i \in 1 .. n + Len(q \o f) /\ (~(i <= n) => i - n = 1)
    BY <2>1
  <2>4. Len(w) # 0
    BY <2>1, <2>2
  <2>. HIDE DEF w, n, x
  <2>5. w # << >>
    BY <2>4, EmptySeq
  <2>. QED  BY <2>1, <2>2, <2>3, <2>5
<1>4. m # << >> /\ Head(m) \in Pedidos /\ \A i \in 1 .. 3 : w[i] = Head(m)[i]
  BY <1>3, FlujoPrimero
<1>. HIDE DEF w
<1>5. x = Head(m)[n + 1] /\ \A i \in 1 .. n : lectura[i] = Head(m)[i]
  BY <1>1, <1>3, <1>4
<1>6. Len(x) = Ancho /\ (lectura = << >> => x \in Peticion)
  <2>1. CASE n = 0
    <3>1. lectura = << >>
      BY <1>0, <2>1, EmptySeq
    <3>. QED  BY <1>4, <1>5, <2>1, <3>1, FormaPedido DEF Ancho
  <2>2. CASE n = 1
    <3>1. lectura = <<Head(m)[1]>>
      BY <1>0, <1>5, <2>2
    <3>2. lectura \in {<< >>, <<ELIMINAR_ESTRUCTURAS>>} <=> Head(m)[1] = ELIMINAR_ESTRUCTURAS
      BY <3>1
    <3>3. x = Head(m)[2] /\ lectura # << >>
      BY <1>5, <2>2, <3>1
    <3>. QED  BY <1>4, <3>2, <3>3, FormaPedido DEF Ancho
  <2>3. CASE n = 2
    <3>1. lectura \notin {<< >>, <<ELIMINAR_ESTRUCTURAS>>}
      BY <2>3
    <3>2. x = Head(m)[3]
      BY <1>5, <2>3
    <3>. QED  BY <1>4, <3>1, <3>2, FormaPedido DEF Ancho
  <2>. QED  BY <1>1, <2>1, <2>2, <2>3
<1>7. /\ Len(x) \in 0 .. Len(ida) /\ SubSeq(ida, 1, Len(x)) = x
      /\ SubSeq(ida, Len(x) + 1, Len(ida)) \in Seq(Unidades)
      /\ Une(Tail(q), SubSeq(ida, Len(x) + 1, Len(ida)))
  BY <1>0, <1>1, TiposFlujo, UneSaca
<1>8. Len(ida) \in Nat /\ Len(ida) >= Ancho /\ Ancho \in Nat
  BY <1>6, <1>7
<1>9. \A S : Recibido(ida, Ancho, S) = {x}
  BY <1>6, <1>7, <1>8 DEF Recibido
<1>10. ida' = SubSeq(ida, Len(x) + 1, Len(ida))
  <2>1. Min({Ancho, Len(ida)}) = Ancho
    BY <1>8 DEF Min
  <2>. QED  BY <1>6, <2>1 DEF MemoriaRecibe, Resto
<1>11. lectura' = Append(lectura, x)
  BY <1>6, <1>9 DEF MemoriaRecibe
<1>12. lectura' \in Seq(Trozo) /\ lectura' \o (Tail(q) \o f) = w
  <2>1. lectura' \in Seq(Trozo)
    BY <1>0, <1>2, <1>11
  <2>2. Append(lectura, Head(q)) \o (Tail(q) \o f) = lectura \o (q \o f)
    <3>1. lectura \in Seq(Trozo) /\ q \in Seq(Trozo) /\ f \in Seq(Trozo) /\ q # << >>
      BY <1>0, <1>1
    <3>. QED  BY <3>1, Recoge, SMTT(60)
  <2>. QED  BY <1>11, <2>1, <2>2 DEF w
<1>13. faltan' = faltan
  BY DEF MemoriaRecibe, hiloVars
<1>. QED  BY <1>0, <1>2, <1>4, <1>7, <1>10, <1>12, <1>13 DEF Flujo

\* The variables of memory and of the connection.
TipoRed ==
  /\ ida \in Seq(Unidades) /\ vuelta \in Seq(Unidades)
  /\ lectura \in Seq(Seq(Unidades)) /\ caida \in BOOLEAN
  /\ tablas \in Seq(Pids) /\ estructuras \subseteq Pids /\ residentes \subseteq Pids
  /\ tabla \in [Pids -> {SinTabla} \cup (Unidades \X Unidades)]
  /\ faltan \in [Hilos -> Seq(Seq(Unidades))]

\* A send: its piece is in flight.
LEMMA FlujoEnvia ==
  ASSUME NEW m, NEW q, NEW f, Flujo(m, q, f), TipoRed, NEW h \in Hilos, Envia(h)
  PROVE  TipoRed' /\ Flujo(m, Append(q, Head(f)), Tail(f))'
<1>0. /\ m \in Seq(Pedidos) /\ q \in Seq(Trozo) /\ f \in Seq(Trozo) /\ lectura \in Seq(Trozo)
      /\ Une(q, ida) /\ Une(m, lectura \o (q \o f))
  BY DEF Flujo
<1>1. faltan[h] = f /\ f # << >> /\ \A g \in Hilos : g # h => faltan[g] = << >>
  BY DEF Flujo, Envia
<1>2. /\ Head(f) \in Trozo /\ Tail(f) \in Seq(Trozo) /\ Append(q, Head(f)) \in Seq(Trozo)
      /\ Head(f) \in Seq(Unidades) /\ Tail(f) \in Seq(Seq(Unidades))
  <2>1. Head(f) \in Trozo /\ Tail(f) \in Seq(Trozo)
    BY <1>0, <1>1, ListaPrimero
  <2>. QED  BY <1>0, <2>1, TiposFlujo
<1>3. /\ faltan'[h] = Tail(f) /\ \A g \in Hilos : g # h => faltan'[g] = << >>
      /\ faltan' \in [Hilos -> Seq(Seq(Unidades))]
  BY <1>1, <1>2 DEF Envia, TipoRed
<1>4. ida' = ida \o Head(f) /\ UNCHANGED <<vuelta, memVars, colaVars>>
  BY <1>1 DEF Envia
<1>5. Une(Append(q, Head(f)), ida')
  <2>1. ida \in Seq(Unidades) /\ Trozo \subseteq Seq(Unidades) /\ Une(q, ida)
    BY <1>0, TiposFlujo DEF TipoRed
  <2>. QED  BY <1>0, <1>2, <1>4, <2>1, UneAgrega
<1>6. Append(q, Head(f)) \o Tail(f) = q \o f
  BY <1>0, <1>1, Manda
<1>7. TipoRed'
  <2>1. ida' \in Seq(Unidades)
    BY <1>2, <1>4 DEF TipoRed
  <2>. QED  BY <1>3, <1>4, <2>1 DEF TipoRed, memVars, colaVars
<1>8. lectura' = lectura
  BY <1>4 DEF memVars
<1>. QED  BY <1>0, <1>2, <1>3, <1>5, <1>6, <1>7, <1>8 DEF Flujo

\* The handler of the request that has been read whole.
LEMMA FlujoSirve ==
  ASSUME NEW m, NEW q, NEW f, Flujo(m, q, f), ida \in Seq(Unidades), Len(lectura) = 3
  PROVE  /\ m # << >> /\ lectura = Head(m) /\ lectura \in Pedidos
         /\ lectura' = << >> /\ UNCHANGED <<ida, faltan>> => Flujo(Tail(m), q, f)'
<1>. DEFINE w == lectura \o (q \o f)
<1>0. /\ m \in Seq(Pedidos) /\ q \in Seq(Trozo) /\ f \in Seq(Trozo) /\ lectura \in Seq(Trozo)
      /\ Une(q, ida) /\ Une(m, w) /\ q \o f \in Seq(Trozo)
  BY DEF Flujo
<1>1. /\ w \in Seq(Trozo) /\ Len(w) = 3 + Len(q \o f) /\ \A i \in 1 .. 3 : w[i] = lectura[i]
  <2>1. Len(q \o f) \in Nat
    BY <1>0, LenProperties
  <2>2. /\ w \in Seq(Trozo) /\ Len(w) = 3 + Len(q \o f)
        /\ \A i \in 1 .. 3 + Len(q \o f) : w[i] = IF i <= 3 THEN lectura[i] ELSE (q \o f)[i - 3]
    <3>1. PICK z \in Seq(Trozo) : z = q \o f
      BY <1>0
    <3>2. /\ lectura \o z \in Seq(Trozo) /\ Len(lectura \o z) = Len(lectura) + Len(z)
          /\ \A i \in 1 .. Len(lectura) + Len(z) :
               (lectura \o z)[i] = IF i <= Len(lectura) THEN lectura[i] ELSE z[i - Len(lectura)]
      BY <1>0, ConcatProperties
    <3>. QED  BY <3>1, <3>2
  <2>3. \A i \in 1 .. 3 : i \in 1 .. 3 + Len(q \o f) /\ i <= 3
    BY <2>1
  <2>. QED  BY <2>2, <2>3
<1>2. w # << >>
  <2>1. Len(q \o f) \in Nat
    BY <1>0, LenProperties
  <2>2. Len(w) # 0
    BY <1>1, <2>1
  <2>. HIDE DEF w
  <2>. QED  BY <2>2
<1>3. m # << >> /\ Head(m) \in Pedidos /\ \A i \in 1 .. 3 : w[i] = Head(m)[i]
  BY <1>2, FlujoPrimero
<1>4. lectura = Head(m)
  <2>1. Head(m) \in Seq(Trozo) /\ Len(Head(m)) = 3
    BY <1>3, FormaPedido
  <2>2. \A i \in 1 .. 3 : lectura[i] = Head(m)[i]
    BY <1>1, <1>3
  <2>. QED  BY <1>0, <2>1, <2>2, SeqEqual
<1>5. Tail(m) \in Seq(Pedidos) /\ Une(Tail(m), q \o f)
  <2>1. Tail(m) \in Seq(Pedidos)
    BY <1>0, <1>3, ListaPrimero
  <2>2. Pedidos \subseteq Seq(Trozo) /\ m \in Seq(Pedidos) /\ Une(m, w) /\ w \in Seq(Trozo)
    BY <1>0, <1>1, TiposFlujo
  <2>. HIDE DEF w
  <2>3. Une(Tail(m), SubSeq(w, Len(Head(m)) + 1, Len(w)))
    BY <1>3, <2>2, UneSaca
  <2>4. SubSeq(w, Len(lectura) + 1, Len(w)) = q \o f
    BY <1>0, Mitades DEF w
  <2>. QED  BY <1>4, <2>1, <2>3, <2>4
<1>6. << >> \in Seq(Trozo) /\ << >> \o (q \o f) = q \o f
  BY <1>0, ConcatEmptySeq
<1>7. ASSUME lectura' = << >>, UNCHANGED <<ida, faltan>> PROVE Flujo(Tail(m), q, f)'
  BY <1>0, <1>5, <1>6, <1>7 DEF Flujo
<1>. QED  BY <1>3, <1>4, <1>7

\* A new request, while nobody is sending.
LEMMA FlujoPide ==
  ASSUME NEW m, NEW q, NEW f, Flujo(m, q, f), TipoRed, NEW h \in Hilos, NEW r \in Pedidos,
         \A g \in Hilos : faltan[g] = << >>,
         faltan' = [faltan EXCEPT ![h] = r], UNCHANGED <<ida, lectura>>
  PROVE  /\ Flujo(Append(m, r), q, r)' /\ faltan' \in [Hilos -> Seq(Seq(Unidades))]
<1>0. /\ m \in Seq(Pedidos) /\ q \in Seq(Trozo) /\ f \in Seq(Trozo) /\ lectura \in Seq(Trozo)
      /\ Une(q, ida) /\ Une(m, lectura \o (q \o f)) /\ f = << >>
  BY DEF Flujo
<1>1. r \in Seq(Trozo) /\ r \in Seq(Seq(Unidades)) /\ Len(r) = 3
  BY FormaPedido, TiposFlujo
<1>2. /\ faltan'[h] = r /\ \A g \in Hilos : g # h => faltan'[g] = << >>
      /\ faltan' \in [Hilos -> Seq(Seq(Unidades))]
  BY <1>1 DEF TipoRed
<1>3. lectura \o (q \o f) = lectura \o q /\ lectura \o q \in Seq(Trozo)
  BY <1>0, ConcatEmptySeq
<1>4. (lectura \o q) \o r = lectura \o (q \o r)
  BY <1>0, <1>1, ConcatAssociative
<1>5. Append(m, r) \in Seq(Pedidos)
  BY <1>0
<1>6. Une(Append(m, r), lectura \o (q \o r))
  <2>1. Pedidos \subseteq Seq(Trozo) /\ Une(m, lectura \o q) /\ lectura \o q \in Seq(Trozo)
        /\ m \in Seq(Pedidos)
    BY <1>0, <1>3, TiposFlujo
  <2>2. Une(Append(m, r), (lectura \o q) \o r)
    BY <2>1, UneAgrega
  <2>. QED  BY <1>4, <2>2
<1>. QED  BY <1>0, <1>1, <1>2, <1>5, <1>6 DEF Flujo

-----------------------------------------------------------------------------
(* The requests left, and one more                                         *)

LEMMA JustosCola ==
  ASSUME NEW m \in Seq(Pedidos), m # << >>, Justos(m)
  PROVE  /\ Head(m) \in Pedidos /\ Justo(Head(m)) /\ ToSet(m) = ToSet(Tail(m)) \cup {Head(m)}
         /\ \A r \in ToSet(Tail(m)) : r \in Pedidos /\ Justo(r) /\ Distintos(Head(m), r)
         /\ \A i, j \in DOMAIN Tail(m) : i # j => Distintos(Tail(m)[i], Tail(m)[j])
<1>1. /\ Head(m) \in ToSet(m) /\ Head(m) \in Pedidos /\ Tail(m) \in Seq(Pedidos)
      /\ ToSet(m) = ToSet(Tail(m)) \cup {Head(m)} /\ ToSet(m) \subseteq Pedidos
  BY ListaPrimero, ToSetPosiciones
<1>2. /\ Len(m) \in Nat /\ Len(m) >= 1 /\ Head(m) = m[1] /\ DOMAIN m = 1 .. Len(m)
      /\ DOMAIN Tail(m) = 1 .. Len(m) - 1 /\ \A i \in 1 .. Len(m) - 1 : Tail(m)[i] = m[i + 1]
  BY EmptySeq, HeadTailProperties, LenProperties
<1>3. \A i \in DOMAIN Tail(m) : i \in Nat /\ i + 1 \in DOMAIN m /\ 1 \in DOMAIN m /\ 1 # i + 1
  BY <1>2
<1>4. \A i, j \in DOMAIN m : i # j => Distintos(m[i], m[j])
  BY DEF Justos
<1>. HIDE DEF Distintos
<1>5. \A i \in DOMAIN Tail(m) : Distintos(Head(m), Tail(m)[i])
  BY <1>2, <1>3, <1>4
<1>6. \A i, j \in DOMAIN Tail(m) : i # j => Distintos(Tail(m)[i], Tail(m)[j])
  <2>. TAKE i, j \in DOMAIN Tail(m)
  <2>. SUFFICES ASSUME i # j PROVE Distintos(Tail(m)[i], Tail(m)[j])
    OBVIOUS
  <2>1. i + 1 \in DOMAIN m /\ j + 1 \in DOMAIN m /\ i + 1 # j + 1
    BY <1>3
  <2>2. Tail(m)[i] = m[i + 1] /\ Tail(m)[j] = m[j + 1]
    BY <1>2
  <2>. QED  BY <1>4, <2>1, <2>2
<1>7. \A r \in ToSet(Tail(m)) : \E i \in DOMAIN Tail(m) : r = Tail(m)[i]
  BY DEF ToSet
<1>. QED  BY <1>1, <1>5, <1>6, <1>7 DEF Justos

LEMMA JustosAgrega ==
  ASSUME NEW m \in Seq(Pedidos), NEW r \in Pedidos,
         \A i, j \in DOMAIN m : i # j => Distintos(m[i], m[j]),
         \A s \in ToSet(m) : Distintos(s, r)
  PROVE  /\ ToSet(Append(m, r)) = ToSet(m) \cup {r}
         /\ \A i, j \in DOMAIN Append(m, r) : i # j => Distintos(Append(m, r)[i], Append(m, r)[j])
<1>. DEFINE n == Append(m, r)
<1>1. ToSet(n) = ToSet(m) \cup {r}
  BY ListaAgrega
<1>2. /\ Len(m) \in Nat /\ DOMAIN m = 1 .. Len(m) /\ DOMAIN n = 1 .. Len(m) + 1
      /\ n[Len(m) + 1] = r /\ \A i \in 1 .. Len(m) : n[i] = m[i] /\ m[i] \in ToSet(m)
  BY AppendProperties, LenProperties, ToSetPosiciones
<1>. HIDE DEF n
<1>3. \A i \in DOMAIN n : i \in DOMAIN m \/ i = Len(m) + 1
  BY <1>2
<1>4. \A s \in ToSet(m) : Distintos(r, s)
  BY DEF Distintos
<1>5. \A i, j \in DOMAIN n : i # j => Distintos(n[i], n[j])
  <2>. TAKE i, j \in DOMAIN n
  <2>. SUFFICES ASSUME i # j PROVE Distintos(n[i], n[j])
    OBVIOUS
  <2>1. CASE i \in DOMAIN m /\ j \in DOMAIN m
    BY <1>2, <2>1
  <2>2. CASE i \in DOMAIN m /\ j = Len(m) + 1
    BY <1>2, <2>2
  <2>3. CASE j \in DOMAIN m /\ i = Len(m) + 1
    BY <1>2, <1>4, <2>3
  <2>. QED  BY <1>3, <2>1, <2>2, <2>3
<1>. QED  BY <1>1, <1>5 DEF n

-----------------------------------------------------------------------------
(* Memory's part: steps that are not about the connection                  *)

\* A thread that waits for its answer works for a blocked process.
LEMMA DeEspera ==
  ASSUME TipoOrden, Orden, NEW v \in Vigilantes, fase[v] = "espera"
  PROVE  v \in Hilos /\ v[2] \in Pids /\ proceso[v[2]] = "blocked"
BY HilosDistintos DEF Orden, Vigilancia, DebeSuspender, Bloqueados

\* A step that asks memory for nothing, and after which what is suspended still has
\* no frames: only a process that was ready is given some.
LEMMA RedAjena ==
  ASSUME TipoOrden, TipoRed, Orden, Estructurado,
         NEW m, NEW q, NEW f, Flujo(m, q, f), Justos(m), Espera(m),
         UNCHANGED <<redVars, lectura, caida, tablas, estructuras, tabla, faltan>>,
         residentes' \subseteq Pids,
         \A p \in residentes' : p \in residentes \/ proceso[p] = "ready",
         \A h \in Hilos : fase'[h] = "espera" <=> fase[h] = "espera",
         mano'[Pasaje] = mano[Pasaje],
         \A p \in Pids : proceso[p] \in {"new", "creando", "exit"}
                         \/ proceso'[p] \in {"new", "creando", "exit"} => proceso'[p] = proceso[p],
         SinMarcos'
  PROVE  TipoRed' /\ Estructurado' /\ Flujo(m, q, f)' /\ Justos(m)' /\ Espera(m)'
<1>1. TipoRed'
  BY DEF TipoRed, redVars
<1>2. Estructurado'
  BY DEF Estructurado, Vivos, TipoOrden
<1>3. Flujo(m, q, f)'
  BY DEF Flujo, redVars
<1>4. Justos(m)'
  <2>1. \A r \in ToSet(m) : Justo(r)'
    <3>. TAKE r \in ToSet(m)
    <3>1. Justo(r)
      BY DEF Justos
    <3>2. estructuras \subseteq Pids
      BY DEF TipoRed
    <3>. QED  BY <3>1, <3>2, HilosDistintos DEF Justo, redVars
  <2>. QED  BY <2>1 DEF Justos
<1>5. Espera(m)'
  <2>1. mano[Pasaje] \in Pids /\ fase[Pasaje] = "espera" => proceso'[mano[Pasaje]] = "creando"
    BY DEF Espera
  <2>2. \A v \in Vigilantes : fase[v] = "espera" /\ v[2] \notin residentes => v[2] \notin residentes'
    BY DeEspera
  <2>. QED  BY <2>1, <2>2, HilosDistintos DEF Espera, redVars
<1>. QED  BY <1>1, <1>2, <1>3, <1>4, <1>5

\* What the inductive invariant says of the connection, with its witnesses.
Red(m, q, f) == TipoRed /\ ~caida /\ Estructurado /\ Flujo(m, q, f) /\ Justos(m) /\ Espera(m)

LEMMA RedAjenaMem ==
  ASSUME TipoOrden, TipoOrden', Orden, NEW m, NEW q, NEW f, Red(m, q, f),
         UNCHANGED <<redVars, lectura, caida, tablas, estructuras, tabla, faltan>>,
         residentes' \subseteq Pids,
         \A p \in residentes' : p \in residentes \/ proceso[p] = "ready",
         \A h \in Hilos : fase'[h] = "espera" <=> fase[h] = "espera",
         mano'[Pasaje] = mano[Pasaje],
         \A p \in Pids : proceso[p] \in {"new", "creando", "exit"}
                         \/ proceso'[p] \in {"new", "creando", "exit"} => proceso'[p] = proceso[p],
         SinMarcos'
  PROVE  Red(m, q, f)'
BY RedAjena DEF Red

-----------------------------------------------------------------------------
(* recibir_kernel                                                          *)

LEMMA RedRecibe ==
  ASSUME NEW m, NEW q, NEW f, Red(m, q, f), MemoriaRecibe
  PROVE  Red(m, Tail(q), f)'
<1>1. ida' \in Seq(Unidades) /\ lectura' \in Seq(Trozo) /\ Flujo(m, Tail(q), f)'
  BY FlujoRecibe DEF Red, TipoRed
<1>2. UNCHANGED <<vuelta, caida, tablas, estructuras, residentes, colaVars, hiloVars>>
  BY DEF MemoriaRecibe
<1>3. lectura' \in Seq(Seq(Unidades))
  BY <1>1, TiposFlujo
<1>4. TipoRed'
  BY <1>1, <1>2, <1>3 DEF Red, TipoRed, colaVars, hiloVars
<1>5. Estructurado'
  BY <1>2 DEF Red, Estructurado, Vivos, SinMarcos, SuspReady, colaVars
<1>6. Justos(m)'
  BY <1>2 DEF Red, Justos, Justo, colaVars, hiloVars
<1>7. Espera(m)'
  BY <1>2 DEF Red, Espera, colaVars, hiloVars
<1>. QED  BY <1>1, <1>2, <1>4, <1>5, <1>6, <1>7 DEF Red

\* The table of a process that had none goes at the end of the list, and there are no
\* more tables than processes.
LEMMA RedCrea ==
  ASSUME TipoOrden, Orden, NEW m, NEW q, NEW f, Red(m, q, f), MemoriaCrea
  PROVE  /\ Red(Tail(m), q, f)'
         /\ \E p \in Pids : /\ p \notin ToSet(tablas) /\ tablas' = Append(tablas, p)
                           /\ estructuras' = estructuras \cup {p}
<1>0. /\ Flujo(m, q, f) /\ Justos(m) /\ Espera(m) /\ TipoRed /\ Estructurado /\ ~caida
      /\ ida \in Seq(Unidades) /\ m \in Seq(Pedidos)
  BY DEF Red, TipoRed, Flujo
<1>1. /\ Len(lectura) = 3 /\ lectura[1] = CREAR_TABLA /\ lectura' = << >>
      /\ vuelta' = vuelta \o <<Len(tablas), 0>>
      /\ tablas' = Append(tablas, lectura[3][1])
      /\ estructuras' = estructuras \cup {lectura[3][1]}
      /\ UNCHANGED <<ida, caida, residentes, colaVars, hiloVars>>
  BY DEF MemoriaCrea, NroTabla
<1>2. m # << >> /\ lectura = Head(m) /\ lectura \in Pedidos /\ Flujo(Tail(m), q, f)'
  BY <1>0, <1>1, FlujoSirve DEF hiloVars
<1>3. lectura \in Creaciones /\ lectura \notin Eliminaciones
  BY <1>1, <1>2, FormaPedido, FormaTrozo
<1>4. /\ Justo(lectura) /\ \A r \in ToSet(Tail(m)) : r \in Pedidos /\ Justo(r) /\ r \in Eliminaciones
      /\ \A i, j \in DOMAIN Tail(m) : i # j => Distintos(Tail(m)[i], Tail(m)[j])
  BY <1>0, <1>2, <1>3, JustosCola DEF Distintos
<1>5. /\ fase[Pasaje] = "espera" /\ vuelta = << >> /\ lectura[3] = <<mano[Pasaje]>>
      /\ mano[Pasaje] \notin ToSet(tablas)
  BY <1>3, <1>4 DEF Justo
<1>6. PICK p \in Pids : p = mano[Pasaje] /\ proceso[p] = "creando"
  BY <1>0, <1>5 DEF Espera
<1>7. /\ p \notin ToSet(tablas) /\ tablas' = Append(tablas, p)
      /\ estructuras' = estructuras \cup {p} /\ vuelta' = <<Len(tablas), 0>>
  <2>1. lectura[3][1] = p
    BY <1>5, <1>6
  <2>2. << >> \o <<Len(tablas), 0>> = <<Len(tablas), 0>>
    OBVIOUS
  <2>. QED  BY <1>1, <1>5, <1>6, <2>1, <2>2
<1>8. /\ tablas \in Seq(Pids) /\ IsInjective(tablas) /\ estructuras \subseteq Pids
  BY <1>0 DEF TipoRed, Estructurado
<1>9. /\ tablas' \in Seq(Pids) /\ IsInjective(tablas') /\ ToSet(tablas') = ToSet(tablas) \cup {p}
      /\ Len(tablas') = Len(tablas) + 1 /\ tablas'[Len(tablas) + 1] = p
  BY <1>7, <1>8, ListaAgrega, AppendProperties
<1>10. Len(tablas) \in 0 .. Cardinality(Pids)
  <2>1. Len(tablas) \in Nat /\ DOMAIN tablas = 1 .. Len(tablas) /\ \A i \in DOMAIN tablas : tablas[i] \in Pids
    BY <1>8, LenProperties
  <2>2. IsFiniteSet(Pids) /\ Cardinality(Pids) \in Nat
    BY PidsAssumption, FS_CardinalityType
  <2>3. IsFiniteSet(1 .. Len(tablas)) /\ Cardinality(1 .. Len(tablas)) = Len(tablas)
    BY <2>1, FS_Interval
  <2>4. tablas \in Injection(1 .. Len(tablas), Pids)
    BY <1>8, <2>1 DEF IsInjective, Injection
  <2>5. Len(tablas) <= Cardinality(Pids)
    BY <2>2, <2>3, <2>4, FS_Injection
  <2>. QED  BY <2>1, <2>2, <2>5
<1>11. vuelta' \in Seq(Unidades)
  <2>1. Len(tablas) \in Unidades /\ 0 \in Unidades
    BY <1>10, FormaTrozo DEF Unidades
  <2>. QED  BY <1>7, <2>1
<1>12. TipoRed'
  <2>1. << >> \in Seq(Seq(Unidades))
    OBVIOUS
  <2>. QED  BY <1>0, <1>1, <1>6, <1>7, <1>9, <1>11, <2>1 DEF TipoRed, colaVars, hiloVars
<1>13. Estructurado'
  <2>1. Vivos' /\ SinMarcos'
    BY <1>0, <1>1, <1>7 DEF Estructurado, Vivos, SinMarcos, SuspReady, colaVars
  <2>. QED  BY <1>0, <1>1, <1>6, <1>9, <2>1 DEF Estructurado, colaVars
<1>14. Justos(Tail(m))'
  <2>1. \A r \in ToSet(Tail(m)) : Justo(r)'
    <3>. TAKE r \in ToSet(Tail(m))
    <3>1. r \in Eliminaciones /\ Justo(r) /\ r \notin Creaciones /\ r \notin Suspensiones
      BY <1>4, FormaPedido, FormaTrozo
    <3>. QED  BY <1>1, <1>7, <3>1 DEF Justo, colaVars
  <2>. QED  BY <1>4, <2>1 DEF Justos
<1>15. Espera(Tail(m))'
  <2>1. \A h \in Hilos : fase[h] = "espera" => h = Pasaje
    BY <1>0, <1>5, HilosDistintos DEF Espera
  <2>2. \A v \in Vigilantes : fase[v] # "espera"
    BY <2>1, HilosDistintos
  <2>3. \E i \in DOMAIN tablas' : tablas'[i] = p /\ vuelta' = <<i - 1, 0>>
    <3>1. Len(tablas) + 1 \in DOMAIN tablas' /\ (Len(tablas) + 1) - 1 = Len(tablas)
      BY <1>9, <1>10, LenProperties
    <3>. QED  BY <1>7, <1>9, <3>1
  <2>. QED  BY <1>1, <1>5, <1>6, <1>7, <2>1, <2>2, <2>3, HilosDistintos DEF Espera, colaVars, hiloVars
<1>. QED  BY <1>0, <1>1, <1>2, <1>7, <1>12, <1>13, <1>14, <1>15 DEF Red

\* The thread that asked holds the mutexes, so its process is still blocked, and
\* memory has its structures.
LEMMA RedSuspende ==
  ASSUME TipoOrden, Orden, NEW m, NEW q, NEW f, Red(m, q, f), MemoriaSuspende
  PROVE  Red(Tail(m), q, f)' /\ UNCHANGED <<tablas, estructuras>>
<1>0. /\ Flujo(m, q, f) /\ Justos(m) /\ Espera(m) /\ TipoRed /\ Estructurado /\ ~caida
      /\ ida \in Seq(Unidades) /\ m \in Seq(Pedidos)
  BY DEF Red, TipoRed, Flujo
<1>1. /\ Len(lectura) = 3 /\ lectura[1] = SUSPENDER_PROCESO
      /\ UNCHANGED <<ida, tablas, estructuras, colaVars, hiloVars>>
  BY DEF MemoriaSuspende
<1>2. /\ m # << >> /\ lectura = Head(m) /\ lectura \in Pedidos
      /\ lectura' = << >> => Flujo(Tail(m), q, f)'
  BY <1>0, <1>1, FlujoSirve DEF hiloVars
<1>3. lectura \in Suspensiones /\ lectura \notin Eliminaciones
  BY <1>1, <1>2, FormaPedido, FormaTrozo
<1>4. /\ Justo(lectura) /\ \A r \in ToSet(Tail(m)) : r \in Pedidos /\ Justo(r) /\ r \in Eliminaciones
      /\ \A i, j \in DOMAIN Tail(m) : i # j => Distintos(Tail(m)[i], Tail(m)[j])
  BY <1>0, <1>2, <1>3, JustosCola DEF Distintos
<1>5. PICK v \in Vigilantes : fase[v] = "espera" /\ lectura[2] = <<v[2]>> /\ vuelta = << >>
  BY <1>3, <1>4 DEF Justo
<1>6. PICK p \in Pids : p = v[2] /\ proceso[p] = "blocked" /\ lectura[2][1] = p
  BY <1>5, DeEspera
<1>7. p \in estructuras
  BY <1>0, <1>6 DEF Estructurado, Vivos
<1>8. /\ vuelta' = <<1>> /\ lectura' = << >> /\ residentes' = residentes \ {p} /\ caida' = caida
  <2>1. Append(<< >>, 1) = <<1>>
    OBVIOUS
  <2>. QED  BY <1>5, <1>6, <1>7, <2>1 DEF MemoriaSuspende
<1>9. TipoRed'
  <2>1. << >> \in Seq(Seq(Unidades)) /\ <<1>> \in Seq(Unidades)
    BY FormaTrozo
  <2>. QED  BY <1>0, <1>1, <1>8, <2>1 DEF TipoRed, colaVars, hiloVars
<1>10. Estructurado'
  BY <1>0, <1>1, <1>8
     DEF Estructurado, Vivos, SinMarcos, SuspReady, colaVars
<1>11. Justos(Tail(m))'
  <2>1. \A r \in ToSet(Tail(m)) : Justo(r)'
    <3>. TAKE r \in ToSet(Tail(m))
    <3>1. r \in Eliminaciones /\ Justo(r) /\ r \notin Creaciones /\ r \notin Suspensiones
      BY <1>4, FormaPedido, FormaTrozo
    <3>. QED  BY <1>1, <3>1 DEF Justo, colaVars
  <2>. QED  BY <1>4, <2>1 DEF Justos
<1>12. Espera(Tail(m))'
  <2>1. \A h \in Hilos : fase[h] = "espera" => h = v
    BY <1>0, <1>5, HilosDistintos DEF Espera
  <2>2. fase[Pasaje] # "espera" /\ v \in Hilos
    BY <2>1, HilosDistintos
  <2>3. \A w \in Vigilantes : fase[w] = "espera" => w[2] = p
    BY <1>6, <2>1, HilosDistintos
  <2>. QED  BY <1>1, <1>5, <1>8, <2>1, <2>2, <2>3 DEF Espera, hiloVars
<1>. QED  BY <1>0, <1>1, <1>2, <1>8, <1>9, <1>10, <1>11, <1>12 DEF Red

\* The process has ended, and no other request is of it.
LEMMA RedElimina ==
  ASSUME TipoOrden, Orden, NEW m, NEW q, NEW f, Red(m, q, f), MemoriaElimina
  PROVE  /\ Red(Tail(m), q, f)' /\ UNCHANGED <<tablas, tabla>>
         /\ \E p \in estructuras : p \in Pids /\ tabla[p] # SinTabla /\ estructuras' = estructuras \ {p}
<1>0. /\ Flujo(m, q, f) /\ Justos(m) /\ Espera(m) /\ TipoRed /\ Estructurado /\ ~caida
      /\ ida \in Seq(Unidades) /\ m \in Seq(Pedidos)
  BY DEF Red, TipoRed, Flujo
<1>1. /\ Len(lectura) = 3 /\ lectura[1] = ELIMINAR_ESTRUCTURAS
      /\ UNCHANGED <<redVars, tablas, colaVars, hiloVars>>
  BY DEF MemoriaElimina
<1>2. /\ m # << >> /\ lectura = Head(m) /\ lectura \in Pedidos
      /\ lectura' = << >> => Flujo(Tail(m), q, f)'
  BY <1>0, <1>1, FlujoSirve DEF hiloVars, redVars
<1>3. lectura \in Eliminaciones
  BY <1>1, <1>2, FormaPedido, FormaTrozo
<1>4. /\ Justo(lectura) /\ ToSet(m) = ToSet(Tail(m)) \cup {lectura}
      /\ \A r \in ToSet(Tail(m)) : r \in Pedidos /\ Justo(r) /\ Distintos(lectura, r)
      /\ \A i, j \in DOMAIN Tail(m) : i # j => Distintos(Tail(m)[i], Tail(m)[j])
  BY <1>0, <1>2, JustosCola
<1>5. PICK p \in estructuras : lectura[3] = <<p>> /\ proceso[p] = "exit" /\ lectura[3][1] = p
  BY <1>3, <1>4 DEF Justo
<1>6. p \in Pids /\ tabla[p] # SinTabla
  BY <1>0, <1>5 DEF TipoRed, Estructurado
<1>7. /\ estructuras' = estructuras \ {p} /\ residentes' = residentes \ {p}
      /\ lectura' = << >> /\ caida' = caida
  BY <1>5 DEF MemoriaElimina
<1>8. TipoRed'
  <2>1. << >> \in Seq(Seq(Unidades))
    OBVIOUS
  <2>. QED  BY <1>0, <1>1, <1>7, <2>1 DEF TipoRed, colaVars, hiloVars, redVars
<1>9. Estructurado'
  BY <1>0, <1>1, <1>5, <1>7
     DEF Estructurado, Vivos, SinMarcos, SuspReady, colaVars
<1>10. Justos(Tail(m))'
  <2>1. \A r \in ToSet(Tail(m)) : Justo(r)'
    <3>. TAKE r \in ToSet(Tail(m))
    <3>1. Justo(r) /\ (r \in Eliminaciones => r[3] # <<p>>)
      BY <1>3, <1>4, <1>5 DEF Distintos
    <3>. QED  BY <1>1, <1>7, <3>1 DEF Justo, colaVars, hiloVars, redVars
  <2>. QED  BY <1>4, <2>1 DEF Justos
<1>11. Espera(Tail(m))'
  <2>1. mano[Pasaje] \in Pids /\ fase[Pasaje] = "espera" => mano[Pasaje] # p
    BY <1>0, <1>5 DEF Espera
  <2>2. \A r \in ToSet(m) : r \notin Eliminaciones => r \in ToSet(Tail(m))
    BY <1>3, <1>4
  <2>. QED  BY <1>0, <1>1, <1>7, <2>1, <2>2 DEF Espera, colaVars, hiloVars, redVars
<1>. QED  BY <1>0, <1>1, <1>2, <1>5, <1>6, <1>7, <1>8, <1>9, <1>10, <1>11 DEF Red, colaVars

-----------------------------------------------------------------------------
(* The threads' requests and their answers                                 *)

LEMMA RedEnvia ==
  ASSUME NEW m, NEW q, NEW f, Red(m, q, f), NEW h \in Hilos, Envia(h)
  PROVE  Red(m, Append(q, Head(f)), Tail(f))'
<1>1. TipoRed' /\ Flujo(m, Append(q, Head(f)), Tail(f))'
  BY FlujoEnvia DEF Red
<1>2. UNCHANGED <<vuelta, memVars, colaVars, fase, mano, mx>>
  BY DEF Envia
<1>3. Estructurado'
  BY <1>2 DEF Red, Estructurado, Vivos, SinMarcos, SuspReady, colaVars, memVars
<1>4. Justos(m)'
  BY <1>2 DEF Red, Justos, Justo, colaVars, memVars
<1>5. Espera(m)'
  BY <1>2 DEF Red, Espera, colaVars, memVars
<1>6. ~caida'
  BY <1>2 DEF Red, memVars
<1>. QED  BY <1>1, <1>3, <1>4, <1>5, <1>6 DEF Red

\* While nobody waits the answers have all been received, and what is left to serve
\* asks for none.
LEMMA RedSinEspera ==
  ASSUME NEW m, NEW q, NEW f, Red(m, q, f), \A h \in Hilos : fase[h] # "espera"
  PROVE  vuelta = << >> /\ \A r \in ToSet(m) : r \in Eliminaciones /\ r \in Pedidos
<1>1. vuelta = << >>
  BY DEF Red, Espera
<1>2. m \in Seq(Pedidos) /\ ToSet(m) \subseteq Pedidos
  BY ToSetPosiciones DEF Red, Flujo
<1>3. \A r \in ToSet(m) : Justo(r)
  BY DEF Red, Justos
<1>4. \A r \in ToSet(m) : r \notin Creaciones /\ r \notin Suspensiones
  BY <1>3, HilosDistintos DEF Justo
<1>. QED  BY <1>1, <1>2, <1>4 DEF Pedidos

LEMMA RedPasajeNew ==
  ASSUME ~mezclado', TipoOrden, TipoOrden', Orden, NEW m, NEW q, NEW f, Red(m, q, f), PasajeNew
  PROVE  /\ \E r \in Pedidos : Red(Append(m, r), q, r)'
         /\ UNCHANGED <<tablas, tabla, estructuras>>
<1>0. /\ Flujo(m, q, f) /\ Justos(m) /\ Espera(m) /\ TipoRed /\ Estructurado /\ ~caida
      /\ ida \in Seq(Unidades) /\ m \in Seq(Pedidos) /\ Pasaje \in Hilos
  BY HilosDistintos DEF Red, TipoRed, Flujo
<1>1. PICK p \in Pids : /\ Pone(p, "new", "creando") /\ mano' = [mano EXCEPT ![Pasaje] = p]
                        /\ faltan' = [faltan EXCEPT ![Pasaje] = PedidoCrear(p)]
  BY DEF PasajeNew
<1>2. /\ \A h \in Hilos : faltan[h] = << >> /\ fase[h] # "espera"
      /\ Va(Pasaje, "libre", "espera")
      /\ UNCHANGED <<ida, vuelta, memVars, tabla, cola_blocked, cola_suspended_blocked>>
  BY DEF PasajeNew, Empieza, Turno
<1>3. PICK r \in Pedidos : r = PedidoCrear(p) /\ r \in Creaciones /\ r[3] = <<p>>
  <2>1. PedidoCrear(p) \in Creaciones
    BY DEF Creaciones
  <2>2. PedidoCrear(p)[3] = <<p>>
    BY DEF PedidoCrear
  <2>. QED  BY <2>1, <2>2 DEF Pedidos
<1>4. r \notin Eliminaciones /\ r \notin Suspensiones
  BY <1>3, FormaPedido, FormaTrozo
<1>5. vuelta = << >> /\ \A s \in ToSet(m) : s \in Eliminaciones /\ s \in Pedidos
  BY <1>2, RedSinEspera
<1>6. /\ fase'[Pasaje] = "espera" /\ \A h \in Hilos : h # Pasaje => fase'[h] = fase[h]
      /\ proceso[p] = "new" /\ proceso'[p] = "creando"
      /\ \A z \in Pids : z # p => proceso'[z] = proceso[z]
      /\ mano'[Pasaje] = p
  BY <1>0, <1>1, <1>2, UnHilo, UnProceso DEF TipoOrden
<1>7. Flujo(Append(m, r), q, r)' /\ faltan' \in [Hilos -> Seq(Seq(Unidades))]
  BY <1>0, <1>1, <1>2, <1>3, FlujoPide DEF redVars, memVars
<1>8. TipoRed'
  BY <1>0, <1>2, <1>7 DEF TipoRed, redVars, memVars
<1>9. Estructurado'
  BY <1>0, <1>2, <1>6
     DEF Estructurado, Vivos, SinMarcos, SuspReady, memVars
<1>10. /\ ToSet(Append(m, r)) = ToSet(m) \cup {r}
       /\ \A i, j \in DOMAIN Append(m, r) : i # j => Distintos(Append(m, r)[i], Append(m, r)[j])
  BY <1>0, <1>4, <1>5, JustosAgrega DEF Justos, Distintos
<1>11. Justos(Append(m, r))'
  <2>1. \A s \in ToSet(m) : Justo(s)'
    <3>. TAKE s \in ToSet(m)
    <3>1. Justo(s) /\ s \notin Creaciones /\ s \notin Suspensiones
      BY <1>0, <1>5, FormaPedido, FormaTrozo DEF Justos
    <3>. QED  BY <1>0, <1>2, <1>6, <3>1 DEF Justo, memVars, TipoRed
  <2>2. Justo(r)'
    <3>1. p \notin ToSet(tablas)
      BY <1>0, <1>6 DEF Estructurado
    <3>. QED  BY <1>2, <1>3, <1>4, <1>5, <1>6, <3>1 DEF Justo, redVars, memVars
  <2>. QED  BY <1>10, <2>1, <2>2 DEF Justos
<1>12. Espera(Append(m, r))'
  <2>1. \A h \in Hilos : fase'[h] = "espera" => h = Pasaje
    BY <1>2, <1>6
  <2>2. \A v \in Vigilantes : fase'[v] # "espera"
    BY <2>1, HilosDistintos
  <2>3. \E s \in ToSet(Append(m, r)) : s \notin Eliminaciones
    BY <1>4, <1>10
  <2>. QED  BY <1>2, <1>5, <1>6, <2>1, <2>2, <2>3 DEF Espera, redVars
<1>. QED  BY <1>0, <1>2, <1>7, <1>8, <1>9, <1>11, <1>12 DEF Red, memVars

LEMMA RedPide ==
  ASSUME ~mezclado', TipoOrden, TipoOrden', Orden, NEW m, NEW q, NEW f, Red(m, q, f),
         NEW v \in Vigilantes, SuspendiendoPide(v)
  PROVE  /\ \E r \in Pedidos : Red(Append(m, r), q, r)'
         /\ UNCHANGED <<tablas, tabla, estructuras>>
<1>0. /\ Flujo(m, q, f) /\ Justos(m) /\ Espera(m) /\ TipoRed /\ Estructurado /\ ~caida
      /\ ida \in Seq(Unidades) /\ m \in Seq(Pedidos)
      /\ v \in Hilos /\ v # Pasaje /\ v[2] \in Pids
  BY HilosDistintos DEF Red, TipoRed, Flujo
<1>2. /\ \A h \in Hilos : faltan[h] = << >> /\ fase[h] # "espera"
      /\ Va(v, "ambas", "espera") /\ DebeSuspender(v)
      /\ faltan' = [faltan EXCEPT ![v] = PedidoSuspender(v[2])]
      /\ UNCHANGED <<ida, vuelta, memVars, colaVars, mano>>
  BY DEF SuspendiendoPide, Empieza, Turno
<1>3. PICK r \in Pedidos : r = PedidoSuspender(v[2]) /\ r \in Suspensiones /\ r[2] = <<v[2]>>
  <2>1. proceso[v[2]] = "blocked"
    BY <1>2 DEF Orden, Bloqueados, DebeSuspender
  <2>2. tabla[v[2]] # SinTabla
    BY <1>0, <2>1 DEF Estructurado
  <2>3. tabla[v[2]] \in Unidades \X Unidades
    BY <1>0, <2>2 DEF TipoRed
  <2>4. PICK a \in Unidades, p \in Pids : a = tabla[v[2]][1] /\ p = v[2]
    BY <1>0, <2>3
  <2>5. PedidoSuspender(v[2]) = <<SUSPENDER_PROCESO, <<p>>, <<a>>>>
    BY <2>4 DEF PedidoSuspender
  <2>6. PedidoSuspender(v[2]) \in Suspensiones
    BY <2>5 DEF Suspensiones
  <2>7. PedidoSuspender(v[2])[2] = <<v[2]>>
    BY DEF PedidoSuspender
  <2>. QED  BY <2>6, <2>7 DEF Pedidos
<1>4. r \notin Eliminaciones /\ r \notin Creaciones
  BY <1>3, FormaPedido, FormaTrozo
<1>5. vuelta = << >> /\ \A s \in ToSet(m) : s \in Eliminaciones /\ s \in Pedidos
  BY <1>2, RedSinEspera
<1>6. fase'[v] = "espera" /\ \A h \in Hilos : h # v => fase'[h] = fase[h]
  BY <1>0, <1>2, UnHilo
<1>7. Flujo(Append(m, r), q, r)' /\ faltan' \in [Hilos -> Seq(Seq(Unidades))]
  BY <1>0, <1>2, <1>3, FlujoPide DEF redVars, memVars
<1>8. TipoRed'
  BY <1>0, <1>2, <1>7 DEF TipoRed, redVars, memVars, colaVars
<1>9. Estructurado'
  BY <1>0, <1>2
     DEF Estructurado, Vivos, SinMarcos, SuspReady, memVars, colaVars
<1>10. /\ ToSet(Append(m, r)) = ToSet(m) \cup {r}
       /\ \A i, j \in DOMAIN Append(m, r) : i # j => Distintos(Append(m, r)[i], Append(m, r)[j])
  BY <1>0, <1>4, <1>5, JustosAgrega DEF Justos, Distintos
<1>11. Justos(Append(m, r))'
  <2>1. \A s \in ToSet(m) : Justo(s)'
    <3>. TAKE s \in ToSet(m)
    <3>1. Justo(s) /\ s \notin Creaciones /\ s \notin Suspensiones
      BY <1>0, <1>5, FormaPedido, FormaTrozo DEF Justos
    <3>. QED  BY <1>2, <3>1 DEF Justo, memVars, colaVars
  <2>2. Justo(r)'
    BY <1>2, <1>3, <1>4, <1>5, <1>6 DEF Justo, redVars
  <2>. QED  BY <1>10, <2>1, <2>2 DEF Justos
<1>12. Espera(Append(m, r))'
  <2>1. \A h \in Hilos : fase'[h] = "espera" => h = v
    BY <1>2, <1>6
  <2>2. fase'[Pasaje] # "espera"
    BY <1>0, <2>1, HilosDistintos
  <2>3. \E s \in ToSet(Append(m, r)) : s \notin Eliminaciones
    BY <1>4, <1>10
  <2>. QED  BY <1>2, <1>5, <1>6, <2>1, <2>2, <2>3 DEF Espera, redVars
<1>. QED  BY <1>0, <1>2, <1>7, <1>8, <1>9, <1>11, <1>12 DEF Red, memVars, colaVars

\* The process that ends was executing, so no request to eliminate it is left.
LEMMA RedExit ==
  ASSUME ~mezclado', TipoOrden, TipoOrden', Orden, NEW m, NEW q, NEW f, Red(m, q, f), EsperarExit
  PROVE  /\ \E r \in Pedidos : Red(Append(m, r), q, r)'
         /\ UNCHANGED <<tablas, tabla, estructuras>>
<1>0. /\ Flujo(m, q, f) /\ Justos(m) /\ Espera(m) /\ TipoRed /\ Estructurado /\ ~caida
      /\ ida \in Seq(Unidades) /\ m \in Seq(Pedidos) /\ Esperar \in Hilos
  BY HilosDistintos DEF Red, TipoRed, Flujo
<1>1. PICK p \in Pids : /\ Pone(p, "cpu", "exit") /\ mano' = [mano EXCEPT ![Esperar] = p]
                        /\ faltan' = [faltan EXCEPT ![Esperar] = PedidoEliminar(p)]
  BY DEF EsperarExit
<1>2. /\ \A h \in Hilos : faltan[h] = << >>
      /\ Va(Esperar, "libre", "pide")
      /\ UNCHANGED <<ida, vuelta, memVars, tabla, cola_blocked, cola_suspended_blocked>>
  BY DEF EsperarExit, Empieza, Turno
<1>3. /\ \A h \in Hilos : fase'[h] = "espera" <=> fase[h] = "espera"
      /\ proceso[p] = "cpu" /\ proceso'[p] = "exit"
      /\ \A z \in Pids : z # p => proceso'[z] = proceso[z]
      /\ mano'[Pasaje] = mano[Pasaje]
  BY <1>0, <1>1, <1>2, UnHilo, UnProceso, HilosDistintos DEF TipoOrden
<1>4. PICK r \in Pedidos : r = PedidoEliminar(p) /\ r \in Eliminaciones /\ r[3] = <<p>>
  <2>1. tabla[p] # SinTabla
    BY <1>0, <1>3 DEF Estructurado
  <2>2. tabla[p] \in Unidades \X Unidades
    BY <1>0, <2>1 DEF TipoRed
  <2>3. PICK a \in Unidades, b \in Unidades : tabla[p] = <<a, b>>
    BY <2>2
  <2>4. PedidoEliminar(p) = <<ELIMINAR_ESTRUCTURAS, <<a, b>>, <<p>>>>
    BY <2>3 DEF PedidoEliminar
  <2>5. PedidoEliminar(p) \in Eliminaciones
    BY <2>4 DEF Eliminaciones
  <2>6. PedidoEliminar(p)[3] = <<p>>
    BY DEF PedidoEliminar
  <2>. QED  BY <2>5, <2>6 DEF Pedidos
<1>5. r \notin Creaciones /\ r \notin Suspensiones /\ p \in estructuras
  BY <1>0, <1>3, <1>4, FormaPedido, FormaTrozo DEF Estructurado, Vivos
<1>6. \A s \in ToSet(m) : Justo(s)
  BY <1>0 DEF Justos
<1>7. Flujo(Append(m, r), q, r)' /\ faltan' \in [Hilos -> Seq(Seq(Unidades))]
  BY <1>0, <1>1, <1>2, <1>4, FlujoPide DEF redVars, memVars
<1>8. TipoRed'
  BY <1>0, <1>2, <1>7 DEF TipoRed, redVars, memVars
<1>9. Estructurado'
  BY <1>0, <1>2, <1>3
     DEF Estructurado, Vivos, SinMarcos, SuspReady, memVars
<1>10. /\ ToSet(Append(m, r)) = ToSet(m) \cup {r}
       /\ \A i, j \in DOMAIN Append(m, r) : i # j => Distintos(Append(m, r)[i], Append(m, r)[j])
  <2>1. \A s \in ToSet(m) : Distintos(s, r)
    <3>. TAKE s \in ToSet(m)
    <3>1. s \in Eliminaciones => \E x \in estructuras : s[3] = <<x>> /\ proceso[x] = "exit"
      BY <1>6 DEF Justo
    <3>. QED  BY <1>3, <1>4, <3>1 DEF Distintos
  <2>. QED  BY <1>0, <2>1, JustosAgrega DEF Justos
<1>11. Justos(Append(m, r))'
  <2>1. \A s \in ToSet(m) : Justo(s)'
    <3>. TAKE s \in ToSet(m)
    <3>1. Justo(s) /\ estructuras \subseteq Pids
      BY <1>0, <1>6 DEF TipoRed
    <3>. QED  BY <1>2, <1>3, <3>1, HilosDistintos DEF Justo, memVars, redVars
  <2>2. Justo(r)'
    BY <1>2, <1>3, <1>4, <1>5 DEF Justo, memVars
  <2>. QED  BY <1>10, <2>1, <2>2 DEF Justos
<1>12. Espera(Append(m, r))'
  <2>1. mano[Pasaje] \in Pids /\ proceso[mano[Pasaje]] = "creando" => proceso'[mano[Pasaje]] = "creando"
    BY <1>3
  <2>. QED  BY <1>0, <1>2, <1>3, <1>10, <2>1, HilosDistintos DEF Espera, redVars, memVars
<1>. QED  BY <1>0, <1>2, <1>7, <1>8, <1>9, <1>11, <1>12 DEF Red, memVars

\* An answer that has come whole is received whole.
LEMMA Respuesta ==
  ASSUME NEW a \in Unidades, NEW b \in Unidades
  PROVE  /\ Recibido(<<a, b>>, 2, {0, 1}) = {<<a, b>>} /\ Resto(<<a, b>>, 2) = << >>
         /\ Resto(<<a>>, 1) = << >>
<1>1. Min({2, 2}) = 2 /\ Min({1, 1}) = 1
  BY DEF Min
<1>2. Len(<<a, b>>) = 2 /\ Len(<<a>>) = 1 /\ SubSeq(<<a, b>>, 1, 2) = <<a, b>>
  <2>1. <<a, b>> \in Seq(Unidades) /\ Len(<<a, b>>) = 2 /\ Len(<<a>>) = 1
    OBVIOUS
  <2>. QED  BY <2>1, SubSeqFull
<1>3. SubSeq(<<a, b>>, 3, 2) = << >> /\ SubSeq(<<a>>, 2, 1) = << >>
  OBVIOUS
<1>. QED  BY <1>1, <1>2, <1>3 DEF Recibido, Resto

\* The process gets the index memory put its table at.
LEMMA RedPasajeRecibe ==
  ASSUME TipoOrden, TipoOrden', Orden, NEW m, NEW q, NEW f, Red(m, q, f), PasajeRecibe
  PROVE  /\ Red(m, q, f)' /\ UNCHANGED <<tablas, estructuras>>
         /\ \E p \in Pids, i \in DOMAIN tablas :
              /\ tabla[p] = SinTabla /\ tablas[i] = p /\ i - 1 \in Unidades
              /\ tabla' = [tabla EXCEPT ![p] = <<i - 1, 0>>]
<1>0. /\ Flujo(m, q, f) /\ Justos(m) /\ Espera(m) /\ TipoRed /\ Estructurado /\ ~caida
      /\ vuelta \in Seq(Unidades) /\ m \in Seq(Pedidos) /\ Pasaje \in Hilos
  BY HilosDistintos DEF Red, TipoRed, Flujo
<1>1. /\ fase[Pasaje] = "espera" /\ fase'[Pasaje] = "libre"
      /\ \A h \in Hilos : h # Pasaje => fase'[h] = fase[h]
  BY <1>0, UnHilo DEF PasajeRecibe
<1>2. /\ vuelta # << >> /\ vuelta' = Resto(vuelta, 2)
      /\ UNCHANGED <<ida, memVars, cola_suspended_blocked, mano, faltan>>
  BY DEF PasajeRecibe
<1>3. PICK p \in Pids, i \in DOMAIN tablas :
        p = mano[Pasaje] /\ p \in estructuras /\ tablas[i] = p /\ vuelta = <<i - 1, 0>>
  BY <1>0, <1>1, <1>2 DEF Espera
<1>4. PICK a \in Unidades : a = i - 1 /\ vuelta = <<a, 0>>
  <2>1. vuelta[1] \in Unidades
    BY <1>0, <1>3
  <2>. QED  BY <1>3, <2>1
<1>5. vuelta' = << >> /\ tabla' = [tabla EXCEPT ![p] = <<a, 0>>]
  <2>1. Recibido(vuelta, 2, {0, 1}) = {<<a, 0>>} /\ Resto(vuelta, 2) = << >>
    BY <1>4, FormaTrozo, Respuesta
  <2>. QED  BY <1>2, <1>3, <2>1 DEF PasajeRecibe
<1>6. /\ proceso[p] = "creando" /\ proceso'[p] = "ready"
      /\ \A z \in Pids : z # p => proceso'[z] = proceso[z]
  BY <1>3, UnProceso DEF PasajeRecibe
<1>7. tabla[p] = SinTabla
  BY <1>0, <1>6 DEF Estructurado
<1>8. /\ tabla' \in [Pids -> {SinTabla} \cup (Unidades \X Unidades)]
      /\ tabla'[p] # SinTabla /\ \A z \in Pids : z # p => tabla'[z] = tabla[z]
  <2>1. <<a, 0>> \in Unidades \X Unidades /\ <<a, 0>> # << >>
    BY FormaTrozo
  <2>2. tabla \in [Pids -> {SinTabla} \cup (Unidades \X Unidades)]
    BY <1>0 DEF TipoRed
  <2>. QED  BY <1>5, <2>1, <2>2 DEF SinTabla
<1>9. TipoRed'
  <2>1. << >> \in Seq(Unidades)
    OBVIOUS
  <2>. QED  BY <1>0, <1>2, <1>5, <1>8, <2>1 DEF TipoRed, memVars
<1>10. Estructurado'
  <2>1. Vivos'
    BY <1>0, <1>2, <1>3, <1>6 DEF Estructurado, Vivos, memVars
  <2>2. SinMarcos'
    BY <1>0, <1>2, <1>6 DEF Estructurado, SinMarcos, SuspReady, memVars
  <2>. QED  BY <1>0, <1>2, <1>6, <1>8, <2>1, <2>2 DEF Estructurado, memVars
<1>11. Flujo(m, q, f)'
  BY <1>0, <1>2 DEF Flujo, memVars
<1>12. Justos(m)'
  <2>1. \A r \in ToSet(m) : Justo(r)'
    <3>. TAKE r \in ToSet(m)
    <3>1. Justo(r) /\ r \notin Creaciones /\ r \notin Suspensiones
      BY <1>0, <1>2 DEF Justos, Justo
    <3>. QED  BY <1>0, <1>2, <1>6, <3>1 DEF Justo, memVars, TipoRed
  <2>. QED  BY <1>0, <2>1 DEF Justos
<1>13. Espera(m)'
  <2>1. \A h \in Hilos : fase'[h] # "espera"
    BY <1>0, <1>1 DEF Espera
  <2>. QED  BY <1>0, <1>5, <2>1, HilosDistintos DEF Espera
<1>14. Red(m, q, f)' /\ UNCHANGED <<tablas, estructuras>>
  BY <1>0, <1>2, <1>9, <1>10, <1>11, <1>12, <1>13 DEF Red, memVars
<1>. QED  BY <1>3, <1>4, <1>5, <1>7, <1>14

\* What is listed as suspended has no frames since memory answered.
LEMMA RedLista ==
  ASSUME TipoOrden, TipoOrden', Orden, NEW m, NEW q, NEW f, Red(m, q, f),
         NEW v \in Vigilantes, SuspendiendoLista(v)
  PROVE  Red(m, q, f)' /\ UNCHANGED <<tablas, tabla, estructuras>>
<1>0. /\ Flujo(m, q, f) /\ Justos(m) /\ Espera(m) /\ TipoRed /\ Estructurado /\ ~caida
      /\ m \in Seq(Pedidos) /\ v \in Hilos /\ v # Pasaje /\ v[2] \in Pids
  BY HilosDistintos DEF Red, TipoRed, Flujo
<1>1. /\ fase[v] = "espera" /\ fase'[v] = "fin"
      /\ \A h \in Hilos : h # v => fase'[h] = fase[h]
  BY <1>0, UnHilo DEF SuspendiendoLista
<1>2. /\ vuelta # << >> /\ vuelta' = Resto(vuelta, 1)
      /\ cola_suspended_blocked' = Append(cola_suspended_blocked, v[2])
      /\ UNCHANGED <<ida, memVars, proceso, tabla, mano, faltan>>
  BY DEF SuspendiendoLista
<1>3. vuelta = <<1>> /\ v[2] \notin residentes
  BY <1>0, <1>1, <1>2 DEF Espera
<1>4. vuelta' = << >>
  BY <1>2, <1>3, FormaTrozo, Respuesta
<1>5. ToSet(cola_suspended_blocked') = ToSet(cola_suspended_blocked) \cup {v[2]}
  <2>1. cola_suspended_blocked \in Seq(Pids)
    BY DEF TipoOrden
  <2>. QED  BY <1>0, <1>2, <2>1, ListaAgrega
<1>6. TipoRed'
  <2>1. << >> \in Seq(Unidades)
    OBVIOUS
  <2>. QED  BY <1>0, <1>2, <1>4, <2>1 DEF TipoRed, memVars
<1>7. Estructurado'
  <2>1. SinMarcos'
    BY <1>0, <1>2, <1>3, <1>5 DEF Estructurado, SinMarcos, SuspReady, memVars
  <2>. QED  BY <1>0, <1>2, <2>1 DEF Estructurado, Vivos, memVars
<1>8. Flujo(m, q, f)'
  BY <1>0, <1>2 DEF Flujo, memVars
<1>9. Justos(m)'
  <2>1. \A r \in ToSet(m) : Justo(r)'
    <3>. TAKE r \in ToSet(m)
    <3>1. Justo(r) /\ r \notin Creaciones /\ r \notin Suspensiones
      BY <1>0, <1>2 DEF Justos, Justo
    <3>. QED  BY <1>2, <3>1 DEF Justo, memVars
  <2>. QED  BY <1>0, <2>1 DEF Justos
<1>10. Espera(m)'
  <2>1. \A h \in Hilos : fase'[h] # "espera"
    BY <1>0, <1>1 DEF Espera
  <2>. QED  BY <1>0, <1>4, <2>1, HilosDistintos DEF Espera
<1>. QED  BY <1>0, <1>2, <1>6, <1>7, <1>8, <1>9, <1>10 DEF Red, memVars

-----------------------------------------------------------------------------
(* Steps that do not use the connection                                    *)

\* pasaje_a_ready
LEMMA RedPasajeSusp ==
  ASSUME TipoOrden, TipoOrden', Orden, NEW m, NEW q, NEW f, Red(m, q, f), PasajeSusp
  PROVE  Red(m, q, f)'
<1>1. PICK p \in Pids : Pone(p, "susp_ready", "ready")
  BY DEF PasajeSusp, SuspReady
<1>2. /\ UNCHANGED <<redVars, memVars, tabla, cola_suspended_blocked, hiloVars>>
      /\ proceso[p] = "susp_ready" /\ proceso'[p] = "ready"
      /\ \A z \in Pids : z # p => proceso'[z] = proceso[z]
  BY <1>1, UnProceso DEF PasajeSusp
<1>3. SinMarcos'
  BY <1>2 DEF Red, Estructurado, SinMarcos, SuspReady, memVars
<1>. QED  BY <1>2, <1>3, RedAjenaMem DEF Red, TipoRed, memVars, hiloVars

\* A ready process is not suspended: it may be given frames.
LEMMA RedEjecuta ==
  ASSUME TipoOrden, TipoOrden', Orden, NEW m, NEW q, NEW f, Red(m, q, f), Ejecuta
  PROVE  Red(m, q, f)'
<1>1. PICK p \in Pids : Pone(p, "ready", "cpu") /\ residentes' \in {residentes, residentes \cup {p}}
  BY DEF Ejecuta
<1>2. /\ UNCHANGED <<redVars, lectura, caida, tablas, estructuras, tabla, cola_suspended_blocked, hiloVars>>
      /\ proceso[p] = "ready" /\ proceso'[p] = "cpu"
      /\ \A z \in Pids : z # p => proceso'[z] = proceso[z]
  BY <1>1, UnProceso DEF Ejecuta
<1>3. SinMarcos'
  <2>1. p \notin ToSet(cola_suspended_blocked)
    BY <1>2 DEF Orden, Suspendidos
  <2>. QED  BY <1>1, <1>2, <2>1 DEF Red, Estructurado, SinMarcos, SuspReady
<1>. QED  BY <1>1, <1>2, <1>3, RedAjenaMem DEF Red, TipoRed, hiloVars

\* esperar_cpu
LEMMA RedEsperar ==
  ASSUME TipoOrden, TipoOrden', Orden, NEW m, NEW q, NEW f, Red(m, q, f),
         EsperarDestruye \/ EsperarBlocked
  PROVE  Red(m, q, f)'
<1>1. CASE EsperarDestruye
  <2>1. /\ UNCHANGED <<redVars, memVars, colaVars, mano, faltan>>
        /\ \A h \in Hilos : fase'[h] = "espera" <=> fase[h] = "espera"
    BY <1>1, UnHilo, HilosDistintos DEF EsperarDestruye
  <2>2. SinMarcos'
    BY <2>1 DEF Red, Estructurado, SinMarcos, SuspReady, memVars, colaVars
  <2>. QED  BY <2>1, <2>2, RedAjenaMem DEF Red, TipoRed, memVars, colaVars
<1>2. CASE EsperarBlocked
  <2>1. PICK p \in Pids :
          /\ iteracion_blocked[p] < MaxES /\ Pone(p, "cpu", "blocked")
          /\ fase' = [fase EXCEPT ![<<"suspendiendo", p, iteracion_blocked[p] + 1>>] = "dormido"]
    BY <1>2 DEF EsperarBlocked
  <2>2. /\ UNCHANGED <<redVars, memVars, tabla, cola_suspended_blocked, iteracion_blocked, mano, faltan>>
        /\ proceso[p] = "cpu" /\ proceso'[p] = "blocked"
        /\ \A z \in Pids : z # p => proceso'[z] = proceso[z]
    BY <1>2, <2>1, UnProceso DEF EsperarBlocked
  <2>3. PICK k \in 1 .. MaxES : k = iteracion_blocked[p] + 1
    BY <2>1, CotasAssumption DEF TipoOrden
  <2>4. PICK w \in Vigilantes : w = <<"suspendiendo", p, k>> /\ w \in Hilos /\ w[2] = p
    BY HilosDistintos
  <2>5. fase[w] # "espera"
    BY <2>2, <2>4, DeEspera
  <2>6. \A h \in Hilos : fase'[h] = "espera" <=> fase[h] = "espera"
    BY <2>1, <2>3, <2>4, <2>5 DEF TipoOrden
  <2>7. SinMarcos'
    BY <2>2 DEF Red, Estructurado, SinMarcos, SuspReady, memVars
  <2>. QED  BY <2>2, <2>6, <2>7, RedAjenaMem DEF Red, TipoRed, memVars
<1>. QED  BY <1>1, <1>2

\* suspendiendo, before it asks and when it gives up
LEMMA RedSuspendiendo ==
  ASSUME TipoOrden, TipoOrden', Orden, NEW m, NEW q, NEW f, Red(m, q, f), NEW v \in Vigilantes,
         SuspendiendoDespierta(v) \/ SuspendiendoToma(v) \/ SuspendiendoDesiste(v)
  PROVE  Red(m, q, f)'
<1>1. /\ UNCHANGED <<redVars, memVars, colaVars, mano, faltan>>
      /\ \A h \in Hilos : fase'[h] = "espera" <=> fase[h] = "espera"
  BY UnHilo, HilosDistintos DEF SuspendiendoDespierta, SuspendiendoToma, SuspendiendoDesiste
<1>2. SinMarcos'
  BY <1>1 DEF Red, Estructurado, SinMarcos, SuspReady, memVars, colaVars
<1>. QED  BY <1>1, <1>2, RedAjenaMem DEF Red, TipoRed, memVars, colaVars

\* ejecutar_io
LEMMA RedIo ==
  ASSUME TipoOrden, TipoOrden', Orden, NEW m, NEW q, NEW f, Red(m, q, f), ejecutar_io
  PROVE  Red(m, q, f)' /\ UNCHANGED <<tablas, tabla, estructuras>>
<1>1. UNCHANGED <<redVars, memVars, tabla, faltan>>
  BY DEF ejecutar_io, IoToma, IoTermina, IoIteracion, IoClasifica, colaVars
<1>2. mano'[Pasaje] = mano[Pasaje]
  BY HilosDistintos DEF ejecutar_io, IoToma, IoTermina, IoIteracion, IoClasifica, TipoOrden
<1>3. \A h \in Hilos : fase'[h] = "espera" <=> fase[h] = "espera"
  BY UnHilo, HilosDistintos DEF ejecutar_io, IoToma, IoTermina, IoIteracion, IoClasifica
<1>4. CASE IoClasifica
  <2>1. PICK p \in Pids : p = mano[Io]
    BY <1>4, DeIoClasifica
  <2>2. /\ proceso[p] = "blocked" /\ proceso'[p] \in {"ready", "susp_ready"}
        /\ proceso'[p] = "susp_ready" => p \in ToSet(cola_suspended_blocked)
        /\ \A z \in Pids : z # p => proceso'[z] = proceso[z]
        /\ ToSet(cola_suspended_blocked') = ToSet(cola_suspended_blocked) \ {p}
    BY <1>4, <2>1, DeIoClasifica
  <2>3. SinMarcos'
    BY <1>1, <2>2 DEF Red, Estructurado, SinMarcos, SuspReady, memVars
  <2>. QED  BY <1>1, <1>2, <1>3, <2>2, <2>3, RedAjenaMem DEF Red, TipoRed, memVars
<1>5. CASE IoToma \/ IoTermina \/ IoIteracion
  <2>1. UNCHANGED <<proceso, cola_suspended_blocked>>
    BY <1>5 DEF IoToma, IoTermina, IoIteracion, colaVars
  <2>2. SinMarcos'
    BY <1>1, <2>1 DEF Red, Estructurado, SinMarcos, SuspReady, memVars
  <2>. QED  BY <1>1, <1>2, <1>3, <2>1, <2>2, RedAjenaMem DEF Red, TipoRed, memVars
<1>. QED  BY <1>4, <1>5 DEF ejecutar_io

LEMMA RedQuieta ==
  ASSUME TipoOrden, TipoOrden', Orden, NEW m, NEW q, NEW f, Red(m, q, f), UNCHANGED vars
  PROVE  Red(m, q, f)'
<1>1. SinMarcos'
  BY DEF Red, Estructurado, SinMarcos, SuspReady, vars, memVars, colaVars
<1>. QED  BY <1>1, RedAjenaMem DEF Red, TipoRed, vars, memVars, colaVars, hiloVars

-----------------------------------------------------------------------------
(* Every step that starts no request out of turn                           *)

\* What a step does to the tables: one call of those Peticiones has, or nothing.
PasoTablas ==
  \/ \E p \in Pids :
       /\ p \notin ToSet(tablas) /\ tablas' = Append(tablas, p)
       /\ estructuras' = estructuras \cup {p} /\ UNCHANGED tabla
  \/ \E p \in Pids, i \in DOMAIN tablas :
       /\ tabla[p] = SinTabla /\ tablas[i] = p /\ tabla' = [tabla EXCEPT ![p] = <<i - 1, 0>>]
       /\ UNCHANGED <<tablas, estructuras>>
  \/ \E p \in estructuras :
       /\ p \in Pids /\ tabla[p] # SinTabla /\ estructuras' = estructuras \ {p}
       /\ UNCHANGED <<tablas, tabla>>
  \/ UNCHANGED <<tablas, tabla, estructuras>>

LEMMA RedEnviaTablas ==
  ASSUME NEW m, NEW q, NEW f, Red(m, q, f), NEW h \in Hilos, Envia(h)
  PROVE  (\E n, r, g : Red(n, r, g)') /\ PasoTablas
BY RedEnvia DEF Envia, PasoTablas, memVars, colaVars

LEMMA RedMemoria ==
  ASSUME TipoOrden, Orden, NEW m, NEW q, NEW f, Red(m, q, f), recibir_kernel
  PROVE  (\E n, r, g : Red(n, r, g)') /\ PasoTablas
<1>1. CASE MemoriaRecibe
  BY <1>1, RedRecibe DEF MemoriaRecibe, PasoTablas, colaVars
<1>2. CASE MemoriaCrea
  BY <1>2, RedCrea DEF MemoriaCrea, PasoTablas, colaVars
<1>3. CASE MemoriaSuspende
  BY <1>3, RedSuspende DEF MemoriaSuspende, PasoTablas, colaVars
<1>4. CASE MemoriaElimina
  BY <1>4, RedElimina DEF PasoTablas
<1>. QED  BY <1>1, <1>2, <1>3, <1>4 DEF recibir_kernel

LEMMA RedPasaje ==
  ASSUME ~mezclado', TipoOrden, TipoOrden', Orden, NEW m, NEW q, NEW f, Red(m, q, f), pasaje_a_ready
  PROVE  (\E n, r, g : Red(n, r, g)') /\ PasoTablas
<1>1. CASE PasajeSusp
  BY <1>1, RedPasajeSusp DEF PasajeSusp, PasoTablas, memVars
<1>2. CASE PasajeNew
  BY <1>2, RedPasajeNew DEF PasoTablas
<1>3. CASE PasajeRecibe
  BY <1>3, RedPasajeRecibe DEF PasoTablas
<1>4. CASE Envia(Pasaje)
  BY <1>4, HilosDistintos, RedEnviaTablas
<1>. QED  BY <1>1, <1>2, <1>3, <1>4 DEF pasaje_a_ready

LEMMA RedCpu ==
  ASSUME ~mezclado', TipoOrden, TipoOrden', Orden, NEW m, NEW q, NEW f, Red(m, q, f),
         Ejecuta \/ esperar_cpu
  PROVE  (\E n, r, g : Red(n, r, g)') /\ PasoTablas
<1>1. CASE Ejecuta
  BY <1>1, RedEjecuta DEF Ejecuta, PasoTablas
<1>2. CASE EsperarExit
  BY <1>2, RedExit DEF PasoTablas
<1>3. CASE EsperarDestruye \/ EsperarBlocked
  BY <1>3, RedEsperar DEF EsperarDestruye, EsperarBlocked, PasoTablas, memVars, colaVars
<1>4. CASE Envia(Esperar)
  BY <1>4, HilosDistintos, RedEnviaTablas
<1>. QED  BY <1>1, <1>2, <1>3, <1>4 DEF esperar_cpu

LEMMA RedVigilante ==
  ASSUME ~mezclado', TipoOrden, TipoOrden', Orden, NEW m, NEW q, NEW f, Red(m, q, f),
         NEW v \in Vigilantes, suspendiendo(v)
  PROVE  (\E n, r, g : Red(n, r, g)') /\ PasoTablas
<1>1. CASE SuspendiendoDespierta(v) \/ SuspendiendoToma(v) \/ SuspendiendoDesiste(v)
  BY <1>1, RedSuspendiendo
     DEF SuspendiendoDespierta, SuspendiendoToma, SuspendiendoDesiste, PasoTablas, memVars, colaVars
<1>2. CASE SuspendiendoPide(v)
  BY <1>2, RedPide DEF PasoTablas
<1>3. CASE SuspendiendoLista(v)
  BY <1>3, RedLista DEF PasoTablas
<1>4. CASE Envia(v)
  BY <1>4, HilosDistintos, RedEnviaTablas
<1>. QED  BY <1>1, <1>2, <1>3, <1>4 DEF suspendiendo

LEMMA RedSigue ==
  ASSUME ~mezclado', TipoOrden, TipoOrden', Orden, NEW m, NEW q, NEW f, Red(m, q, f), [Next]_vars
  PROVE  (\E n, r, g : Red(n, r, g)') /\ PasoTablas
<1>1. CASE UNCHANGED vars
  BY <1>1, RedQuieta DEF PasoTablas, vars, memVars, colaVars
<1>2. CASE ejecutar_io
  BY <1>2, RedIo DEF PasoTablas
<1>3. CASE \E v \in Vigilantes : suspendiendo(v)
  BY <1>3, RedVigilante
<1>. QED  BY <1>1, <1>2, <1>3, RedMemoria, RedPasaje, RedCpu DEF Next

-----------------------------------------------------------------------------
(* The types, whatever is received in the place of what                    *)

\* What a recv fills: one unit at least.
Dato == Seq(Nat) \ {<< >>}

\* The variables of memory and of the connection when requests may be mixed, and
\* that of a process the scheduler has had an answer for.
Amplio ==
  /\ ida \in Seq(Nat) /\ vuelta \in Seq(Nat) /\ mezclado \in BOOLEAN
  /\ lectura \in Seq(Dato) /\ Len(lectura) <= 3 /\ caida \in BOOLEAN
  /\ tablas \in Seq(Nat) /\ estructuras \subseteq Nat /\ residentes \subseteq Pids
  /\ tabla \in [Pids -> {SinTabla} \cup (Nat \X Nat)]
  /\ faltan \in [Hilos -> Seq(Seq(Nat))]
  /\ \A p \in Pids : proceso[p] \notin {"new", "creando"} => tabla[p] # SinTabla

LEMMA TiposJuntos == TipoOrden /\ Amplio => TypeOK
<1>1. Seq(Dato) \subseteq Seq(Seq(Nat))
  BY DEF Dato
<1>. QED  BY <1>1 DEF TypeOK, TipoOrden, Amplio

\* recv gives a variable its whole width, of units of the stream or of what the
\* variable had.
LEMMA RecibidoEntero ==
  ASSUME NEW s \in Seq(Nat), s # << >>, NEW n \in {1, 2}, NEW B \in SUBSET Nat,
         NEW d \in Recibido(s, n, B)
  PROVE  d \in Dato /\ d \in Seq(Nat) /\ d[1] \in Nat /\ (n = 2 => d \in Nat \X Nat)
<1>1. PICK l \in Nat : l = Len(s) /\ l >= 1
  BY EmptySeq
<1>2. d \in Seq(Nat) /\ Len(d) = n
  <2>1. CASE l >= n
    <3>1. d = SubSeq(s, 1, n)
      BY <1>1, <2>1 DEF Recibido
    <3>2. \A i \in 1 .. n : s[i] \in Nat
      BY <1>1, <2>1, ElementOfSeq
    <3>3. 1 \in Int /\ n \in Int /\ 1 <= n
      OBVIOUS
    <3>4. SubSeq(s, 1, n) \in Seq(Nat) /\ Len(SubSeq(s, 1, n)) = n - 1 + 1
      BY <3>2, <3>3, SubSeqProperties
    <3>. QED  BY <3>1, <3>4
  <2>2. CASE l < n
    <3>1. n = 2 /\ l = 1
      BY <1>1, <2>2
    <3>2. ~(Len(s) >= n)
      BY <1>1, <2>2
    <3>3. PICK b \in B : d = s \o <<b>>
      BY <3>2 DEF Recibido
    <3>4. <<b>> \in Seq(Nat) /\ Len(<<b>>) = 1
      OBVIOUS
    <3>5. s \o <<b>> \in Seq(Nat) /\ Len(s \o <<b>>) = Len(s) + Len(<<b>>)
      BY <3>4, ConcatProperties
    <3>. QED  BY <1>1, <3>1, <3>3, <3>4, <3>5
  <2>. QED  BY <1>1, <2>1, <2>2
<1>3. d # << >> /\ d[1] \in Nat
  <2>1. Len(d) # 0 /\ 1 \in 1 .. Len(d)
    BY <1>2
  <2>. QED  BY <1>2, <2>1, ElementOfSeq
<1>4. ASSUME n = 2 PROVE d \in Nat \X Nat
  <2>1. 2 \in 1 .. Len(d)
    BY <1>2, <1>4
  <2>2. d[1] \in Nat /\ d[2] \in Nat
    BY <1>2, <1>3, <2>1, ElementOfSeq
  <2>3. <<d[1], d[2]>> \in Seq(Nat) /\ Len(<<d[1], d[2]>>) = Len(d)
        /\ \A i \in 1 .. Len(d) : d[i] = <<d[1], d[2]>>[i]
    BY <1>2, <1>4, <2>2
  <2>4. d = <<d[1], d[2]>>
    <3>1. PICK e \in Seq(Nat) : e = <<d[1], d[2]>> /\ Len(e) = Len(d) /\ \A i \in 1 .. Len(d) : d[i] = e[i]
      BY <2>3
    <3>. QED  BY <1>2, <3>1, SeqEqual
  <2>. QED  BY <2>2, <2>4
<1>. QED  BY <1>2, <1>3, <1>4 DEF Dato

LEMMA RestoTipo ==
  ASSUME NEW s \in Seq(Nat), NEW n \in {1, 2}
  PROVE  Resto(s, n) \in Seq(Nat)
<1>1. PICK k : k \in 1 .. Len(s) + 1 /\ k = Min({n, Len(s)}) + 1
  <2>1. Len(s) \in Nat
    BY LenProperties
  <2>2. CASE n <= Len(s)
    <3>1. Min({n, Len(s)}) = n
      BY <2>1, <2>2 DEF Min
    <3>. QED  BY <2>1, <2>2, <3>1
  <2>3. CASE ~(n <= Len(s))
    <3>1. Min({n, Len(s)}) = Len(s)
      BY <2>1, <2>3 DEF Min
    <3>. QED  BY <2>1, <3>1
  <2>. QED  BY <2>2, <2>3
<1>2. k \in Int /\ Len(s) \in Int /\ \A i \in k .. Len(s) : i \in 1 .. Len(s)
  <2>1. PICK l \in Nat : l = Len(s)
    BY LenProperties
  <2>2. k \in 1 .. l + 1
    BY <1>1, <2>1
  <2>3. k \in Int /\ \A i \in k .. l : i \in 1 .. l
    BY <2>2
  <2>. QED  BY <2>1, <2>3
<1>3. \A i \in k .. Len(s) : s[i] \in Nat
  BY <1>2, ElementOfSeq
<1>4. SubSeq(s, k, Len(s)) \in Seq(Nat)
  BY <1>2, <1>3, SubSeqProperties
<1>. QED  BY <1>1, <1>4 DEF Resto

\* recibir_kernel: what it serves is three fields of one unit or more.
LEMMA AmplioMemoria ==
  ASSUME Amplio, recibir_kernel
  PROVE  Amplio'
<1>0. << >> \in Seq(Dato) /\ Len(<< >>) = 0
  OBVIOUS
<1>1. CASE MemoriaRecibe
  <2>1. ida \in Seq(Nat) /\ ida # << >> /\ lectura \in Seq(Dato) /\ Len(lectura) < 3
    BY <1>1 DEF Amplio, MemoriaRecibe
  <2>2. Ancho \in {1, 2} /\ {0, 1} \in SUBSET Nat /\ {0} \in SUBSET Nat
    BY DEF Ancho
  <2>3. PICK d : /\ \E B \in SUBSET Nat : d \in Recibido(ida, Ancho, B)
                 /\ lectura' = << >> \/ lectura' = Append(lectura, d)
    <3>1. CASE lectura = << >>
      BY <1>1, <2>2, <3>1 DEF MemoriaRecibe
    <3>2. CASE lectura # << >>
      BY <1>1, <2>2, <3>2 DEF MemoriaRecibe
    <3>. QED  BY <3>1, <3>2
  <2>4. d \in Dato
    BY <2>1, <2>2, <2>3, RecibidoEntero
  <2>5. Append(lectura, d) \in Seq(Dato) /\ Len(Append(lectura, d)) <= 3
    <3>1. Len(lectura) \in Nat /\ Len(Append(lectura, d)) = Len(lectura) + 1
      BY <2>1, <2>4, ListaAgrega
    <3>. QED  BY <2>1, <2>4, <3>1, ListaAgrega
  <2>6. ida' \in Seq(Nat)
    <3>1. ida' = Resto(ida, Ancho)
      BY <1>1 DEF MemoriaRecibe
    <3>2. Resto(ida, Ancho) \in Seq(Nat)
      BY <2>1, <2>2, RestoTipo
    <3>. QED  BY <3>1, <3>2
  <2>7. lectura' \in Seq(Dato) /\ Len(lectura') <= 3
    <3>1. CASE lectura' = << >>
      <4>1. lectura' \in Seq(Dato) /\ Len(lectura') = 0
        BY <1>0, <3>1
      <4>. QED  BY <4>1
    <3>2. CASE lectura' = Append(lectura, d)
      BY <2>5, <3>2
    <3>. QED  BY <2>3, <3>1, <3>2
  <2>8. UNCHANGED <<vuelta, mezclado, caida, tablas, estructuras, residentes, proceso, tabla, faltan>>
    BY <1>1 DEF MemoriaRecibe, colaVars, hiloVars
  <2>. QED  BY <2>6, <2>7, <2>8 DEF Amplio
<1>2. ASSUME Len(lectura) = 3
      PROVE  lectura[2][1] \in Nat /\ lectura[3][1] \in Nat
  <2>1. lectura \in Seq(Dato) /\ 2 \in 1 .. Len(lectura) /\ 3 \in 1 .. Len(lectura)
    BY <1>2 DEF Amplio
  <2>2. lectura[2] \in Dato /\ lectura[3] \in Dato
    BY <2>1, ElementOfSeq
  <2>3. \A d \in Dato : d[1] \in Nat
    <3>. SUFFICES ASSUME NEW d \in Dato PROVE d[1] \in Nat
      OBVIOUS
    <3>1. d \in Seq(Nat) /\ d # << >>
      BY DEF Dato
    <3>2. 1 \in 1 .. Len(d)
      BY <3>1, EmptySeq
    <3>. QED  BY <3>1, <3>2, ElementOfSeq
  <2>. QED  BY <2>2, <2>3
<1>3. CASE MemoriaCrea
  <2>1. PICK p \in Nat : tablas' = Append(tablas, p) /\ estructuras' = estructuras \cup {p}
    BY <1>2, <1>3 DEF MemoriaCrea
  <2>2. tablas' \in Seq(Nat) /\ Len(tablas) \in Nat
    BY <2>1 DEF Amplio
  <2>3. vuelta' \in Seq(Nat)
    <3>1. vuelta' = vuelta \o <<Len(tablas), 0>> /\ vuelta \in Seq(Nat)
      BY <1>3 DEF MemoriaCrea, NroTabla, Amplio
    <3>2. <<Len(tablas), 0>> \in Seq(Nat)
      BY <2>2
    <3>. QED  BY <3>1, <3>2, ConcatProperties
  <2>4. lectura' = << >> /\ UNCHANGED <<ida, mezclado, caida, residentes, proceso, tabla, faltan>>
    BY <1>3 DEF MemoriaCrea, colaVars, hiloVars
  <2>5. lectura' \in Seq(Dato) /\ Len(lectura') <= 3 /\ estructuras' \subseteq Nat
    BY <1>0, <2>1, <2>4 DEF Amplio
  <2>. QED  BY <2>2, <2>3, <2>4, <2>5 DEF Amplio
<1>4. CASE MemoriaSuspende
  <2>1. CASE lectura[2][1] \in estructuras
    <3>1. /\ vuelta' = Append(vuelta, 1) /\ lectura' = << >> /\ UNCHANGED caida
          /\ residentes' = residentes \ {lectura[2][1]}
      BY <1>4, <2>1 DEF MemoriaSuspende
    <3>2. vuelta' \in Seq(Nat)
      BY <3>1 DEF Amplio
    <3>. QED  BY <1>0, <1>4, <3>1, <3>2 DEF Amplio, MemoriaSuspende, colaVars, hiloVars
  <2>2. CASE lectura[2][1] \notin estructuras
    BY <1>4, <2>2 DEF Amplio, MemoriaSuspende, colaVars, hiloVars
  <2>. QED  BY <2>1, <2>2
<1>5. CASE MemoriaElimina
  <2>1. CASE lectura[3][1] \in estructuras
    <3>1. /\ lectura' = << >> /\ UNCHANGED caida /\ residentes' = residentes \ {lectura[3][1]}
          /\ estructuras' = estructuras \ {lectura[3][1]}
      BY <1>5, <2>1 DEF MemoriaElimina
    <3>2. UNCHANGED <<ida, vuelta, mezclado, tablas, proceso, tabla, faltan>>
      BY <1>5 DEF MemoriaElimina, colaVars, hiloVars, redVars
    <3>3. lectura' \in Seq(Dato) /\ Len(lectura') <= 3
      BY <1>0, <3>1
    <3>4. residentes' \subseteq Pids /\ estructuras' \subseteq Nat
      BY <3>1 DEF Amplio
    <3>. QED  BY <3>1, <3>2, <3>3, <3>4 DEF Amplio
  <2>2. CASE lectura[3][1] \notin estructuras
    BY <1>5, <2>2 DEF Amplio, MemoriaElimina, colaVars, hiloVars, redVars
  <2>. QED  BY <2>1, <2>2
<1>. QED  BY <1>1, <1>3, <1>4, <1>5 DEF recibir_kernel

LEMMA AmplioEnvia ==
  ASSUME Amplio, NEW h \in Hilos, Envia(h)
  PROVE  Amplio'
<1>1. faltan[h] \in Seq(Seq(Nat)) /\ faltan[h] # << >>
  BY DEF Amplio, Envia
<1>2. Head(faltan[h]) \in Seq(Nat) /\ Tail(faltan[h]) \in Seq(Seq(Nat))
  BY <1>1, ListaPrimero
<1>3. ida' \in Seq(Nat)
  BY <1>2 DEF Amplio, Envia
<1>4. faltan' \in [Hilos -> Seq(Seq(Nat))]
  BY <1>2 DEF Amplio, Envia
<1>. QED  BY <1>3, <1>4 DEF Amplio, Envia, memVars, colaVars

\* A request is a sequence of three pieces.
LEMMA AmplioPide ==
  ASSUME Amplio, NEW h \in Hilos, NEW a \in Seq(Nat), NEW b \in Seq(Nat), NEW c \in Seq(Nat),
         faltan' = [faltan EXCEPT ![h] = <<a, b, c>>],
         UNCHANGED <<ida, vuelta, memVars, tabla>>, mezclado' \in BOOLEAN,
         \A p \in Pids : proceso[p] \in {"new", "creando"} => proceso'[p] \in {"new", "creando"}
  PROVE  Amplio'
<1>1. <<a, b, c>> \in Seq(Seq(Nat))
  OBVIOUS
<1>2. faltan' \in [Hilos -> Seq(Seq(Nat))]
  BY <1>1 DEF Amplio
<1>. QED  BY <1>2 DEF Amplio, memVars

\* A step of the schedulers alone.
LEMMA AmplioAjeno ==
  ASSUME Amplio, UNCHANGED <<redVars, lectura, caida, tablas, estructuras, tabla, faltan>>,
         residentes' \subseteq Pids,
         \A p \in Pids : proceso[p] \in {"new", "creando"} => proceso'[p] \in {"new", "creando"}
  PROVE  Amplio'
BY DEF Amplio, redVars

LEMMA AmplioPasaje ==
  ASSUME TipoOrden, Amplio, pasaje_a_ready
  PROVE  Amplio'
<1>0. Pasaje \in Hilos
  BY HilosDistintos
<1>1. CASE PasajeSusp
  <2>1. PICK p \in Pids : Pone(p, "susp_ready", "ready")
    BY <1>1 DEF PasajeSusp, SuspReady
  <2>2. \A z \in Pids : proceso[z] \in {"new", "creando"} => proceso'[z] \in {"new", "creando"}
    BY <2>1, UnProceso
  <2>. QED  BY <1>1, <2>2, AmplioAjeno DEF PasajeSusp, memVars, hiloVars, Amplio
<1>2. CASE PasajeNew
  <2>1. PICK p \in Pids : Pone(p, "new", "creando") /\ faltan' = [faltan EXCEPT ![Pasaje] = PedidoCrear(p)]
    BY <1>2 DEF PasajeNew
  <2>2. \A z \in Pids : proceso[z] \in {"new", "creando"} => proceso'[z] \in {"new", "creando"}
    BY <2>1, UnProceso
  <2>3. CREAR_TABLA \in Seq(Nat) /\ <<Tamanio>> \in Seq(Nat) /\ <<p>> \in Seq(Nat)
    BY PidsAssumption, CotasAssumption DEF CREAR_TABLA
  <2>4. mezclado' \in BOOLEAN /\ UNCHANGED <<ida, vuelta, memVars, tabla>>
    BY <1>2 DEF PasajeNew, Empieza, Amplio
  <2>. QED  BY <1>0, <2>1, <2>2, <2>3, <2>4, AmplioPide DEF PedidoCrear
<1>3. CASE PasajeRecibe
  <2>1. PICK t \in Recibido(vuelta, 2, {0, 1}) : tabla' = [tabla EXCEPT ![mano[Pasaje]] = t]
    BY <1>3 DEF PasajeRecibe
  <2>2. vuelta \in Seq(Nat) /\ vuelta # << >> /\ vuelta' = Resto(vuelta, 2) /\ {0, 1} \in SUBSET Nat
    BY <1>3 DEF PasajeRecibe, Amplio
  <2>3. t \in Nat \X Nat /\ t # SinTabla
    BY <2>2, RecibidoEntero DEF SinTabla
  <2>4. vuelta' \in Seq(Nat)
    BY <2>2, RestoTipo
  <2>5. /\ tabla' \in [Pids -> {SinTabla} \cup (Nat \X Nat)]
        /\ \A p \in Pids : tabla'[p] = IF p = mano[Pasaje] THEN t ELSE tabla[p]
    BY <2>1, <2>3 DEF Amplio
  <2>6. \A p \in Pids : p # mano[Pasaje] => proceso'[p] = proceso[p]
    BY <1>3 DEF PasajeRecibe, Pone, TipoOrden
  <2>. QED  BY <1>3, <2>3, <2>4, <2>5, <2>6 DEF Amplio, PasajeRecibe, memVars
<1>4. CASE Envia(Pasaje)
  BY <1>0, <1>4, AmplioEnvia
<1>. QED  BY <1>1, <1>2, <1>3, <1>4 DEF pasaje_a_ready

LEMMA AmplioCpu ==
  ASSUME TipoOrden, Amplio, Ejecuta \/ esperar_cpu
  PROVE  Amplio'
<1>0. Esperar \in Hilos
  BY HilosDistintos
<1>1. CASE Ejecuta
  <2>1. PICK p \in Pids : Pone(p, "ready", "cpu") /\ residentes' \in {residentes, residentes \cup {p}}
    BY <1>1 DEF Ejecuta
  <2>2. \A z \in Pids : proceso[z] \in {"new", "creando"} => proceso'[z] \in {"new", "creando"}
    BY <2>1, UnProceso
  <2>. QED  BY <1>1, <2>1, <2>2, AmplioAjeno DEF Ejecuta, hiloVars, Amplio
<1>2. CASE EsperarExit
  <2>1. PICK p \in Pids : Pone(p, "cpu", "exit") /\ faltan' = [faltan EXCEPT ![Esperar] = PedidoEliminar(p)]
    BY <1>2 DEF EsperarExit
  <2>2. /\ proceso[p] = "cpu"
        /\ \A z \in Pids : proceso[z] \in {"new", "creando"} => proceso'[z] \in {"new", "creando"}
    BY <2>1, UnProceso
  <2>3. tabla[p] \in Nat \X Nat
    BY <2>2 DEF Amplio
  <2>4. ELIMINAR_ESTRUCTURAS \in Seq(Nat) /\ tabla[p] \in Seq(Nat) /\ <<p>> \in Seq(Nat)
    <3>1. PICK a \in Nat, b \in Nat : tabla[p] = <<a, b>>
      BY <2>3
    <3>2. tabla[p] \in Seq(Nat)
      BY <3>1
    <3>. QED  BY <3>2, PidsAssumption DEF ELIMINAR_ESTRUCTURAS
  <2>5. mezclado' \in BOOLEAN /\ UNCHANGED <<ida, vuelta, memVars, tabla>>
    BY <1>2 DEF EsperarExit, Empieza, Amplio
  <2>. QED  BY <1>0, <2>1, <2>2, <2>4, <2>5, AmplioPide DEF PedidoEliminar
<1>3. CASE EsperarDestruye
  BY <1>3, AmplioAjeno DEF EsperarDestruye, memVars, colaVars, Amplio
<1>4. CASE EsperarBlocked
  <2>1. PICK p \in Pids : Pone(p, "cpu", "blocked")
    BY <1>4 DEF EsperarBlocked
  <2>2. \A z \in Pids : proceso[z] \in {"new", "creando"} => proceso'[z] \in {"new", "creando"}
    BY <2>1, UnProceso
  <2>. QED  BY <1>4, <2>2, AmplioAjeno DEF EsperarBlocked, memVars, Amplio
<1>5. CASE Envia(Esperar)
  BY <1>0, <1>5, AmplioEnvia
<1>. QED  BY <1>1, <1>2, <1>3, <1>4, <1>5 DEF esperar_cpu

LEMMA AmplioVigilante ==
  ASSUME TipoOrden, Orden, Amplio, NEW v \in Vigilantes, suspendiendo(v)
  PROVE  Amplio'
<1>0. v \in Hilos /\ v[2] \in Pids
  BY HilosDistintos
<1>1. CASE SuspendiendoDespierta(v) \/ SuspendiendoToma(v) \/ SuspendiendoDesiste(v)
  <2>1. UNCHANGED <<redVars, memVars, colaVars, faltan>>
    BY <1>1 DEF SuspendiendoDespierta, SuspendiendoToma, SuspendiendoDesiste
  <2>. QED  BY <2>1, AmplioAjeno DEF memVars, colaVars, Amplio
<1>2. CASE SuspendiendoPide(v)
  <2>1. proceso[v[2]] = "blocked"
    BY <1>2 DEF SuspendiendoPide, DebeSuspender, Orden, Bloqueados
  <2>2. tabla[v[2]] \in Nat \X Nat
    BY <1>0, <2>1 DEF Amplio
  <2>3. tabla[v[2]][1] \in Nat /\ v[2] \in Nat
    BY <1>0, <2>2, PidsAssumption
  <2>4. SUSPENDER_PROCESO \in Seq(Nat) /\ <<v[2]>> \in Seq(Nat) /\ <<tabla[v[2]][1]>> \in Seq(Nat)
    BY <2>3 DEF SUSPENDER_PROCESO
  <2>5. /\ mezclado' \in BOOLEAN /\ UNCHANGED <<ida, vuelta, memVars, tabla, proceso>>
        /\ faltan' = [faltan EXCEPT ![v] = PedidoSuspender(v[2])]
    BY <1>2 DEF SuspendiendoPide, Empieza, Amplio, colaVars
  <2>. QED  BY <1>0, <2>4, <2>5, AmplioPide DEF PedidoSuspender
<1>3. CASE SuspendiendoLista(v)
  <2>1. vuelta' \in Seq(Nat)
    BY <1>3, RestoTipo DEF SuspendiendoLista, Amplio
  <2>. QED  BY <1>3, <2>1 DEF Amplio, SuspendiendoLista, memVars
<1>4. CASE Envia(v)
  BY <1>0, <1>4, AmplioEnvia
<1>. QED  BY <1>1, <1>2, <1>3, <1>4 DEF suspendiendo

LEMMA AmplioIo ==
  ASSUME TipoOrden, Orden, Amplio, ejecutar_io
  PROVE  Amplio'
<1>1. UNCHANGED <<redVars, memVars, tabla, faltan>>
  BY DEF ejecutar_io, IoToma, IoTermina, IoIteracion, IoClasifica, colaVars
<1>2. \A z \in Pids : proceso[z] \in {"new", "creando"} => proceso'[z] \in {"new", "creando"}
  <2>1. CASE IoClasifica
    BY <2>1, DeIoClasifica
  <2>2. CASE ~IoClasifica
    BY <2>2 DEF ejecutar_io, IoToma, IoTermina, IoIteracion, colaVars
  <2>. QED  BY <2>1, <2>2
<1>. QED  BY <1>1, <1>2, AmplioAjeno DEF memVars, Amplio

LEMMA AmplioSigue ==
  ASSUME TipoOrden, Orden, Amplio, [Next]_vars
  PROVE  Amplio'
<1>1. CASE UNCHANGED vars
  BY <1>1, AmplioAjeno DEF vars, memVars, colaVars, hiloVars, Amplio
<1>2. CASE \E v \in Vigilantes : suspendiendo(v)
  BY <1>2, AmplioVigilante
<1>. QED  BY <1>1, <1>2, AmplioMemoria, AmplioPasaje, AmplioCpu, AmplioIo DEF Next

-----------------------------------------------------------------------------
(* The inductive invariant                                                 *)

IInv ==
  /\ TipoOrden /\ Orden /\ Amplio
  /\ ~mezclado => \E m, q, f : Red(m, q, f)

\* A request that started out of turn is not forgotten.
LEMMA MezcladoQueda ==
  ASSUME [Next]_vars, mezclado
  PROVE  mezclado'
<1>1. CASE UNCHANGED vars \/ recibir_kernel \/ Ejecuta \/ ejecutar_io
  BY <1>1 DEF vars, redVars, recibir_kernel, MemoriaRecibe, MemoriaCrea, MemoriaSuspende,
     MemoriaElimina, Ejecuta, ejecutar_io, IoToma, IoTermina, IoIteracion, IoClasifica
<1>2. CASE pasaje_a_ready \/ esperar_cpu
  BY <1>2 DEF redVars, Empieza, Envia, pasaje_a_ready, PasajeSusp, PasajeNew, PasajeRecibe,
     esperar_cpu, EsperarExit, EsperarDestruye, EsperarBlocked
<1>3. CASE \E v \in Vigilantes : suspendiendo(v)
  BY <1>3 DEF redVars, Empieza, Envia, suspendiendo, SuspendiendoDespierta, SuspendiendoToma,
     SuspendiendoPide, SuspendiendoLista, SuspendiendoDesiste
<1>. QED  BY <1>1, <1>2, <1>3 DEF Next

LEMMA IInvSigue ==
  ASSUME IInv, [Next]_vars
  PROVE  IInv' /\ (~mezclado' => PasoTablas)
<1>1. TipoOrden' /\ Orden' /\ Amplio'
  BY OrdenSigue, AmplioSigue DEF IInv
<1>2. ASSUME ~mezclado'
      PROVE  PasoTablas /\ \E n, r, g : Red(n, r, g)'
  <2>1. PICK m, q, f : Red(m, q, f)
    BY <1>2, MezcladoQueda DEF IInv
  <2>. QED  BY <1>1, <1>2, <2>1, RedSigue DEF IInv
<1>. QED  BY <1>1, <1>2 DEF IInv

LEMMA IInvInicial == Init => IInv
<1>. SUFFICES ASSUME Init PROVE IInv
  OBVIOUS
<1>1. TipoOrden /\ Orden
  BY OrdenInicial
<1>. DEFINE n == << >>
<1>2. ~caida /\ \A h \in Hilos : faltan[h] = << >> /\ fase[h] = "libre"
  BY DEF Init
<1>3. TipoRed
  <2>1. /\ << >> \in Seq(Unidades) /\ << >> \in Seq(Seq(Unidades)) /\ << >> \in Seq(Pids)
    OBVIOUS
  <2>. QED  BY <2>1 DEF Init, TipoRed
<1>4. ToSet(<< >>) = {} /\ IsInjective(<< >>)
  BY ListaVacia
<1>5. Estructurado
  BY <1>4 DEF Init, Estructurado, Vivos, SinMarcos, SuspReady, SinTabla
<1>6. Flujo(n, n, n)
  <2>1. << >> \o (<< >> \o << >>) = << >> /\ << >> \in Seq(Pedidos) /\ << >> \in Seq(Trozo)
    OBVIOUS
  <2>2. Une(<< >>, << >>)
    BY <2>1, UneNada
  <2>. QED  BY <1>2, <2>1, <2>2 DEF Init, Flujo
<1>7. Justos(n)
  BY <1>4 DEF Justos
<1>8. Espera(n)
  BY <1>2, HilosDistintos DEF Init, Espera
<1>9. Amplio
  <2>1. /\ << >> \in Seq(Nat) /\ << >> \in Seq(Dato) /\ << >> \in Seq(Seq(Nat)) /\ Len(<< >>) = 0
    OBVIOUS
  <2>2. \A p \in Pids : proceso[p] = "new" /\ tabla[p] = << >>
    BY DEF Init, SinTabla
  <2>3. tabla \in [Pids -> {SinTabla} \cup (Nat \X Nat)] /\ faltan \in [Hilos -> Seq(Seq(Nat))]
    BY <2>1 DEF Init
  <2>4. /\ ida = << >> /\ vuelta = << >> /\ mezclado = FALSE /\ lectura = << >> /\ caida = FALSE
        /\ tablas = << >> /\ estructuras = {} /\ residentes = {}
    BY DEF Init
  <2>5. Len(lectura) = 0
    BY <2>1, <2>4
  <2>6. lectura \in Seq(Dato) /\ Len(lectura) <= 3
    BY <2>1, <2>4, <2>5
  <2>7. ida \in Seq(Nat) /\ vuelta \in Seq(Nat) /\ tablas \in Seq(Nat)
    BY <2>1, <2>4
  <2>. QED  BY <2>2, <2>3, <2>4, <2>6, <2>7 DEF Amplio
<1>. QED  BY <1>1, <1>2, <1>3, <1>5, <1>6, <1>7, <1>8, <1>9 DEF Red, IInv

-----------------------------------------------------------------------------
(* Theorems                                                                *)

LEMMA IInvSiempre == Spec => []IInv
<1>1. IInv /\ [Next]_vars => IInv'
  BY IInvSigue
<1>. QED  BY <1>1, IInvInicial, PTL DEF Spec

\* Whatever is received in the place of what, the queues hold processes, an I/O has
\* its number, a table its two units and memory's list numbers: every access by one of
\* them is to something there is.
THEOREM TipoCorrecto == Spec => []TypeOK
<1>1. IInv => TypeOK
  BY TiposJuntos DEF IInv
<1>. QED  BY <1>1, IInvSiempre, PTL

\* Between suspendiendo's look at the queues and its listing of the process nothing
\* of what it saw changes, though it waits for memory in between: a process is listed
\* as suspended once, and while it is in an I/O.
THEOREM SuspensionVigenteCorrecta == Spec => []SuspensionVigente
<1>1. IInv => SuspensionVigente
  BY DEF IInv, Orden, Vigilancia, Suspendidos, SuspensionVigente
<1>. QED  BY <1>1, IInvSiempre, PTL

\* Until a request starts out of turn, recibir_kernel does not dereference the clock
\* structure of a process it has none of: what is suspended has not ended, and what
\* ends is eliminated once.
THEOREM MemoriaEnPieCorrecta == Spec => []MemoriaEnPie
<1>1. IInv => MemoriaEnPie
  BY DEF IInv, Red, MemoriaEnPie
<1>. QED  BY <1>1, IInvSiempre, PTL

\* Until a request starts out of turn, memory holds the structures of a process from
\* the answer to its creation until its end.
THEOREM VivosConEstructurasCorrecta == Spec => []VivosConEstructuras
<1>1. IInv => VivosConEstructuras
  BY DEF IInv, Red, Estructurado, Vivos, VivosConEstructuras
<1>. QED  BY <1>1, IInvSiempre, PTL

\* Until a request starts out of turn, what the kernel takes for suspended holds no
\* frame: a suspendiendo lists the process after memory's answer, and nothing executes
\* it before it is ready.
THEOREM SuspendidoSinMarcosCorrecta == Spec => []SuspendidoSinMarcos
<1>1. IInv => SuspendidoSinMarcos
  BY DEF IInv, Red, Estructurado, SinMarcos, SuspendidoSinMarcos
<1>. QED  BY <1>1, IInvSiempre, PTL

\* Until a request starts out of turn, who waits for memory finds its own answer and
\* nothing else, or nothing while its request or a part of it is on the way.
THEOREM RespuestaEnCaminoCorrecta == Spec => []RespuestaEnCamino
<1>1. IInv => RespuestaEnCamino
  <2>. SUFFICES ASSUME IInv, ~mezclado, NEW h \in Hilos, fase[h] = "espera"
                PROVE  SuRespuesta(h) \/ (vuelta = << >> /\ PedidoEnCamino)
    BY DEF RespuestaEnCamino
  <2>1. PICK m, q, f : Red(m, q, f)
    BY DEF IInv
  <2>2. Flujo(m, q, f) /\ Espera(m) /\ ida \in Seq(Unidades) /\ Fases /\ Len(lectura) <= 3
    BY <2>1 DEF IInv, Red, TipoRed, Orden, Amplio
  <2>3. h = Pasaje \/ (h \in Vigilantes /\ h # Pasaje)
    BY <2>2, HilosDistintos DEF Fases
  <2>4. SuRespuesta(h) \/ (vuelta = << >> /\ \E r : r \in ToSet(m))
    BY <2>2, <2>3 DEF Espera, SuRespuesta
  <2>5. CASE ida # << >> \/ \E g \in Hilos : faltan[g] # << >>
    BY <2>4, <2>5 DEF PedidoEnCamino
  <2>6. CASE ida = << >> /\ (\A g \in Hilos : faltan[g] = << >>) /\ \E r : r \in ToSet(m)
    <3>1. q = << >> /\ f = << >> /\ m # << >>
      BY <2>2, <2>6, FlujoPrimero, ListaVacia DEF Flujo
    <3>2. lectura \in Seq(Trozo) /\ Len(lectura \o (q \o f)) >= 3
      BY <2>2, <3>1, FlujoPrimero DEF Flujo
    <3>3. lectura \o (q \o f) = lectura
      BY <3>1, <3>2
    <3>4. Len(lectura) = 3
      BY <2>2, <3>2, <3>3, LenProperties
    <3>. QED  BY <2>4, <3>4 DEF PedidoEnCamino
  <2>. QED  BY <2>4, <2>5, <2>6
<1>. QED  BY <1>1, IInvSiempre, PTL

\* The connection, with its pieces and its threads, implements atomic calls in every
\* step it takes until a request starts out of turn.
THEOREM PeticionesCorrecta == Spec => ImplementaPeticiones
<1>. DEFINE t == [p \in Pids |-> IF tabla[p] = SinTabla THEN {}
                                 ELSE {tabla[p][1] + 65536 * tabla[p][2]}]
<1>1. Init => Llamadas!Init
  <2>. SUFFICES ASSUME Init PROVE Llamadas!Init
    OBVIOUS
  <2>1. tablas = << >> /\ estructuras = {} /\ \A p \in Pids : tabla[p] = SinTabla
    BY DEF Init
  <2>. QED  BY <2>1 DEF Llamadas!Init
<1>2. IInv /\ ~mezclado /\ PasoTablas => [Llamadas!Next]_(Llamadas!vars)
  <2>. SUFFICES ASSUME IInv, ~mezclado, PasoTablas PROVE [Llamadas!Next]_(Llamadas!vars)
    OBVIOUS
  <2>0. /\ tablas \in Seq(Pids) /\ tabla \in [Pids -> {SinTabla} \cup (Unidades \X Unidades)]
    BY DEF IInv, Red, TipoRed
  <2>1. ASSUME NEW p \in Pids, p \notin ToSet(tablas), tablas' = Append(tablas, p),
               estructuras' = estructuras \cup {p}, UNCHANGED tabla
        PROVE  Llamadas!Next
    <3>1. Llamadas!Crear(p)
      BY <2>1 DEF Llamadas!Crear, Llamadas!ToSet, ToSet
    <3>. QED  BY <3>1 DEF Llamadas!Next
  <2>2. ASSUME NEW p \in Pids, NEW i \in DOMAIN tablas, tabla[p] = SinTabla, tablas[i] = p,
               tabla' = [tabla EXCEPT ![p] = <<i - 1, 0>>], UNCHANGED <<tablas, estructuras>>
        PROVE  Llamadas!Next
    <3>1. PICK a \in Int : a = i - 1 /\ a + 65536 * 0 = a
      <4>1. i \in Int
        BY <2>0
      <4>. QED  BY <4>1
    <3>2. tabla' = [tabla EXCEPT ![p] = <<a, 0>>] /\ <<a, 0>> # SinTabla
      BY <2>2, <3>1 DEF SinTabla
    <3>3. t' = [t EXCEPT ![p] = {a}]
      <4>1. tabla'[p] = <<a, 0>> /\ \A z \in Pids : z # p => tabla'[z] = tabla[z]
        BY <2>0, <3>2
      <4>2. t'[p] = {a}
        BY <3>1, <3>2, <4>1
      <4>3. ASSUME NEW z \in Pids, z # p PROVE t'[z] = t[z]
        <5>1. /\ t[z] = IF tabla[z] = SinTabla THEN {} ELSE {tabla[z][1] + 65536 * tabla[z][2]}
              /\ t'[z] = IF tabla'[z] = SinTabla THEN {} ELSE {tabla'[z][1] + 65536 * tabla'[z][2]}
          OBVIOUS
        <5>2. tabla'[z] = tabla[z]
          BY <4>1, <4>3
        <5>. QED  BY <5>1, <5>2
      <4>4. t = [z \in Pids |-> t[z]] /\ t' = [z \in Pids |-> t'[z]]
        OBVIOUS
      <4>. HIDE DEF t
      <4>. QED  BY <4>2, <4>3, <4>4
    <3>4. t[p] = {}
      BY <2>2
    <3>5. t[p] = {} /\ tablas[i] = p /\ t' = [t EXCEPT ![p] = {i - 1}]
      BY <2>2, <3>1, <3>3, <3>4
    <3>6. Llamadas!Entregar(p) <=>
            /\ t[p] = {}
            /\ \E j \in DOMAIN tablas : tablas[j] = p /\ t' = [t EXCEPT ![p] = {j - 1}]
            /\ UNCHANGED <<tablas, estructuras>>
      BY DEF Llamadas!Entregar
    <3>7. Llamadas!Entregar(p)
      <4>. HIDE DEF t
      <4>. QED  BY <2>2, <3>5, <3>6
    <3>. QED  BY <3>7 DEF Llamadas!Next
  <2>3. ASSUME NEW p \in estructuras, p \in Pids, tabla[p] # SinTabla,
               estructuras' = estructuras \ {p}, UNCHANGED <<tablas, tabla>>
        PROVE  Llamadas!Next
    <3>1. Llamadas!Eliminar(p)
      BY <2>3 DEF Llamadas!Eliminar
    <3>. QED  BY <2>3, <3>1 DEF Llamadas!Next
  <2>4. ASSUME UNCHANGED <<tablas, tabla, estructuras>>
        PROVE  UNCHANGED Llamadas!vars
    BY <2>4 DEF Llamadas!vars
  <2>. QED  BY <2>1, <2>2, <2>3, <2>4 DEF PasoTablas
<1>3. IInv /\ [Next]_vars => [~mezclado' => [Llamadas!Next]_(Llamadas!vars)]_vars
  BY <1>2, IInvSigue, MezcladoQueda
<1>. QED  BY <1>1, <1>3, IInvSiempre, PTL DEF Spec, ImplementaPeticiones
=============================================================================
