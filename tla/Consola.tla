------------------------------ MODULE Consola ------------------------------
(***************************************************************************)
(* One console from its file to its answer: consola_main.c and parser.c,   *)
(* the connection, which may deliver a message in pieces, the kernel's     *)
(* thread for it (procesar_socket), and the journey of its PCB to the CPU  *)
(* and back, which is two more messages.  The schedulers in between are    *)
(* Kernel's.                                                               *)
(***************************************************************************)
EXTENDS Protocolo

CONSTANTS
  Archivos,  \* files: [fuente: its lines, palabras: the words of them all, salto: does
             \* it end in "\n"?]
  Tamanios,  \* values of the first argument
  Segmento,  \* the network cuts a message in pieces of at least this many bytes
  Leibles    \* what memory may answer to the READ a COPY begins with

\* A word is an operation's name, <<name, 0>>, or a number, <<"numero", n>>, an int32_t.
Palabras == STRING \X {n \in Nat : n <= 2147483647}
Nombres == {"NO_OP", "I/O", "READ", "COPY", "WRITE", "EXIT"}

ASSUME TamaniosAssumption == Tamanios \subseteq Nat
\* An int, though what is read is a uint32_t.
ASSUME LeiblesAssumption == \A v \in Leibles : v \in Int /\ -2147483647 - 1 <= v /\ v <= 2147483647
\* One send on an empty connection: its header is not cut.
ASSUME SegmentoAssumption == Segmento \in Nat /\ Segmento >= COP + SIZE_T
ASSUME ArchivosAssumption ==
  \A a \in Archivos :
    /\ a.salto \in BOOLEAN
    /\ a.fuente \in Seq(Seq(Palabras)) /\ a.palabras = FlattenSeq(a.fuente)

VARIABLES
  archivo, tamanio,  \* the console's arguments
  resto, eof, auxP,  \* parser: words not read yet, feof, the last operation read
  codigo,            \* the list it builds
  consola,           \* where the console is
  red, llegado,      \* its connection: bytes in flight, and arrived and not received
  hilo, size,        \* procesar_socket: what it receives next, and size_payload
  listado,           \* cola_new: {} or {the PCB}
  devuelto,          \* lista_ready or cola_blocked: {} or {the PCB the CPU has sent back}
  dispatch, retorno, \* conexion_cpu_dispatch each way: PCBs serialised
  cpu,               \* {} or {the CPU's PCB}
  enviado,           \* history: {} or {the PCB the last send_proceso was given}
  respuesta,         \* the EXIT sent to the console
  caido,             \* has the kernel exited? "no", or what made it: "propia" (this
                     \* console), "otra" or "cpu"
  cortado            \* history: a recv got part of what it asked for

parserVars == <<archivo, tamanio, resto, eof, auxP, codigo>>
redVars == <<red, llegado>>
kernelVars == <<hilo, size, listado>>
cpuVars == <<devuelto, dispatch, retorno, cpu, enviado>>
finVars == <<respuesta, caido, cortado>>
vars == <<parserVars, consola, redVars, kernelVars, cpuVars, finVars>>

Init ==
  /\ archivo \in Archivos /\ tamanio \in Tamanios
  /\ resto = archivo.palabras /\ eof = FALSE /\ auxP = <<"", 0>> /\ codigo = << >>
  /\ consola = "parser" /\ red = << >> /\ llegado = << >>
  /\ hilo = "cop" /\ size = 0 /\ listado = {} /\ devuelto = {}
  /\ dispatch = << >> /\ retorno = << >> /\ cpu = {} /\ enviado = {}
  /\ respuesta = FALSE /\ caido = "no" /\ cortado = FALSE

-----------------------------------------------------------------------------
(* parser                                                                  *)

\* tablaIdentificadores; and inst->operacion, the name's first letter
cantParametros(w) ==
  IF w[1] \in {"COPY", "WRITE"} THEN 2 ELSE IF w[1] = "EXIT" THEN 0 ELSE 1
Letra(w) == CASE w[1] = "NO_OP" -> 78 [] w[1] = "I/O" -> 73 [] w[1] = "READ" -> 82
              [] w[1] = "COPY" -> 67 [] w[1] = "WRITE" -> 87 [] w[1] = "EXIT" -> 69

Instruccion(w, a, b) == [operacion |-> Letra(w), arg1 |-> a, arg2 |-> b]

\* fscanf at the end of the file leaves its buffer as it was: the operation is
\* the last one again, a parameter the one before, or zero (string_new is "").
Operacion == IF resto = << >> THEN auxP ELSE Head(resto)
Leidos == LET n == cantParametros(Operacion) IN SubSeq(resto, 2, Min({n + 1, Len(resto)}))
Parametro(j) == IF Leidos = << >> THEN 0 ELSE Leidos[Min({j, Len(Leidos)})][2]

\* What an iteration adds: NO_OP n, n times; any other, once.
Instrucciones ==
  LET w == Operacion
  IN IF w[1] = "NO_OP" THEN [i \in 1 .. Parametro(1) |-> Instruccion(w, -1, -1)]
     ELSE <<Instruccion(w, IF cantParametros(w) >= 1 THEN Parametro(1) ELSE -1,
                           IF cantParametros(w) = 2 THEN Parametro(2) ELSE -1)>>

\* An operation that is not in the table, or a parameter that is no number, exits.
Valida == Operacion[1] \in Nombres /\ \A j \in DOMAIN Leidos : Leidos[j][1] = "numero"

\* One iteration of while(!feof(archivo)).  feof is set by a read that meets the
\* end: one that finds no word, or the last word with nothing after it.
ParserItera ==
  /\ consola = "parser" /\ ~eof
  /\ IF Valida
     THEN LET leidas == 1 + cantParametros(Operacion)
          IN /\ codigo' = codigo \o Instrucciones
             /\ resto' = SubSeq(resto, leidas + 1, Len(resto))
             /\ eof' = (Len(resto) < leidas \/ (Len(resto) = leidas /\ ~archivo.salto))
             /\ auxP' = Operacion
             /\ UNCHANGED consola
     ELSE consola' = "error" /\ UNCHANGED <<resto, eof, auxP, codigo>>
  /\ UNCHANGED <<archivo, tamanio, redVars, kernelVars, cpuVars, finVars>>

-----------------------------------------------------------------------------
(* consola_main                                                            *)

\* send_programa, whose third parameter is a uint16_t
ConsolaEnvia ==
  /\ consola = "parser" /\ eof /\ caido = "no"
  /\ consola' = "espera"
  /\ red' = serializar_programa(codigo, tamanio)
  /\ UNCHANGED <<parserVars, llegado, kernelVars, cpuVars, finVars>>

\* crear_conexion finds nobody and returns 0; the send on it fails
ConsolaNoConecta ==
  /\ consola = "parser" /\ eof /\ caido # "no"
  /\ consola' = "error"
  /\ UNCHANGED <<parserVars, redVars, kernelVars, cpuVars, finVars>>

\* recv of the op_code; resultado was EXIT before it, so it is if the connection
\* is closed instead.
ConsolaRecibe ==
  /\ consola = "espera" /\ (respuesta \/ caido # "no")
  /\ consola' = "exito"
  /\ UNCHANGED <<parserVars, redVars, kernelVars, cpuVars, finVars>>

\* The user kills it.
ConsolaMuere ==
  /\ consola = "espera"
  /\ consola' = "muerta"
  /\ UNCHANGED <<parserVars, redVars, kernelVars, cpuVars, finVars>>

\* TCP delivers what was sent in order, whole or in pieces.
Entrega ==
  /\ red # << >>
  /\ \E n \in (Segmento .. Len(red)) \cup {Len(red)} : llegado' = llegado \o SubSeq(red, 1, n)
                              /\ red' = SubSeq(red, n + 1, Len(red))
  /\ UNCHANGED <<parserVars, consola, kernelVars, cpuVars, finVars>>

-----------------------------------------------------------------------------
(* procesar_socket                                                         *)

\* recv(fd, &x, n, 0) takes what there is, up to n bytes.
Recv(n) ==
  /\ caido = "no" /\ llegado # << >>
  /\ llegado' = SubSeq(llegado, n + 1, Len(llegado))
  /\ cortado' = (cortado \/ Len(llegado) < n)
  /\ UNCHANGED <<parserVars, consola, red, cpuVars, respuesta, caido>>
Recibido(n) == SubSeq(llegado, 1, n)
Completo(n) == Len(llegado) >= n

\* The bytes of cop a short recv leaves alone are what they were: any.  An op_code
\* that is not PROGRAMA is logged and the loop goes on.
SocketCop ==
  /\ hilo = "cop" /\ Recv(COP)
  /\ \/ /\ \A i \in 1 .. Min({COP, Len(llegado)}) : llegado[i] = 0
        /\ hilo' = "size"
     \/ /\ Completo(COP) => Nro(Recibido(COP)) # PROGRAMA
        /\ UNCHANGED hilo
  /\ UNCHANGED <<size, listado>>

\* recv_programa, the size: a short one is a failure, and the loop goes on
SocketSize ==
  /\ hilo = "size" /\ Recv(SIZE_T)
  /\ IF Completo(SIZE_T) THEN hilo' = "carga" /\ size' = Nro(Recibido(SIZE_T))
     ELSE hilo' = "cop" /\ UNCHANGED size
  /\ UNCHANGED listado

\* pcb_set(proceso, pid_actual, tamanio, instrucciones, 0, 0, estimacion_inicial)
Pcb(p) == [pid |-> 1, tamanio |-> p.tamanio, instrucciones |-> p.instrucciones,
           pc |-> 0, tabla_paginas |-> 0, est_rafaga |-> 1000]

\* Mutated form of SocketCarga: the length received is not compared.
SocketCargaSinMirar ==
  /\ hilo = "carga" /\ Recv(size)
  /\ LET recibido == [i \in 1 .. size |-> IF i <= Len(llegado) THEN llegado[i] ELSE 0]
     IN listado' = {Pcb(deserializar_programa(recibido))} /\ hilo' = "return"
  /\ UNCHANGED size

\* Mutated form of SocketCarga: the thread goes back to its loop.
SocketCargaSigue ==
  /\ hilo = "carga" /\ Recv(size)
  /\ IF Completo(size)
     THEN listado' = {Pcb(deserializar_programa(Recibido(size)))} /\ hilo' = "cop"
     ELSE hilo' = "cop" /\ UNCHANGED listado
  /\ UNCHANGED size

\* recv_programa, the payload; the process is created, listed, and the thread ends
SocketCarga ==
  /\ hilo = "carga" /\ Recv(size)
  /\ IF Completo(size)
     THEN listado' = {Pcb(deserializar_programa(Recibido(size)))} /\ hilo' = "return"
     ELSE hilo' = "cop" /\ UNCHANGED listado
  /\ UNCHANGED size

\* The console has closed and everything it sent has been received: recv gives 0,
\* a failure in recv_programa, and exit(-1) in the loop.
SocketCierre ==
  /\ caido = "no" /\ consola \in {"muerta", "exito"} /\ red = << >> /\ llegado = << >>
  /\ \/ hilo = "cop" /\ caido' = "propia" /\ UNCHANGED hilo
     \/ hilo \in {"size", "carga"} /\ hilo' = "cop" /\ UNCHANGED caido
  /\ UNCHANGED <<parserVars, consola, redVars, size, listado, cpuVars, respuesta, cortado>>

procesar_socket == SocketCop \/ SocketSize \/ SocketCarga \/ SocketCierre

\* The thread of another console does the same.
OtraConsolaCierra ==
  /\ caido = "no" /\ caido' = "otra"
  /\ UNCHANGED <<parserVars, consola, redVars, kernelVars, cpuVars, respuesta, cortado>>

-----------------------------------------------------------------------------
(* The PCB goes to the CPU and comes back, once for each burst             *)

\* recv of the op_code; and recv_proceso, after it, of a message that arrives whole
Cop(s) == Nro(SubSeq(s, 1, COP))
Proceso(s) == deserializar_proceso(SubSeq(s, COP + SIZE_T + 1, Len(s)))

\* The table memory answers solicitar_tabla_paginas with.
TABLA == 5

\* send_proceso and pcb_destroy.  A new process gets its table first.
KernelDespacha ==
  /\ caido = "no"
  /\ \E p \in {[q EXCEPT !.tabla_paginas = TABLA] : q \in listado} \cup devuelto :
       dispatch' = serializar_proceso(p, PROCESO) /\ enviado' = {p}
  /\ listado' = {} /\ devuelto' = {}
  /\ UNCHANGED <<parserVars, consola, redVars, hilo, size, retorno, cpu, finVars>>

CpuRecibe ==
  /\ caido = "no" /\ dispatch # << >>
  /\ dispatch' = << >>
  /\ UNCHANGED <<parserVars, consola, redVars, kernelVars, devuelto, retorno, enviado, finVars>>
  /\ cpu' = {Proceso(dispatch)}

\* A short recv in recv_proceso: the CPU exits, and so the kernel, whose next recv
\* gives 0.
CpuCorte ==
  /\ caido = "no" /\ dispatch # << >>
  /\ dispatch' = << >> /\ caido' = "cpu" /\ cortado' = TRUE
  /\ UNCHANGED <<parserVars, consola, redVars, kernelVars, devuelto, retorno, cpu, enviado, respuesta>>

\* execute: I/O and EXIT end the burst; after any other, so may an interruption.
Estado(i) == IF i.operacion = Letra(<<"EXIT", 0>>) THEN EXIT
             ELSE IF i.operacion = Letra(<<"I/O", 0>>) THEN BLOCKED ELSE INTERRUPTION

\* The instructions a burst may end with.
Finales(p) == {j \in p.pc + 1 .. Len(p.instrucciones) :
                 \A i \in p.pc + 1 .. j - 1 : Estado(p.instrucciones[i]) = INTERRUPTION}

\* The COPYs of a burst that ends with instruction j.
Copias(p, j) == {i \in p.pc + 1 .. j : p.instrucciones[i].operacion = Letra(<<"COPY", 0>>)}

\* Its burst.  fetch_operands puts what a COPY reads in the instruction itself, the
\* one of the PCB's list; calculo_estimacion leaves another estimate.
Ejecutado(p, j, leido) ==
  LET l == p.instrucciones
  IN [p EXCEPT !.pc = j, !.est_rafaga = 300,
               !.instrucciones = [i \in DOMAIN l |-> IF i \in DOMAIN leido
                                                     THEN [l[i] EXCEPT !.arg2 = leido[i]] ELSE l[i]]]

\* send_proceso(cliente_socket_dispatch, pcb, estado)
CpuDevuelve ==
  /\ caido = "no"
  /\ \E p \in cpu : \E j \in Finales(p) : \E leido \in [Copias(p, j) -> Leibles] :
       /\ retorno' = serializar_proceso(Ejecutado(p, j, leido), Estado(p.instrucciones[j]))
       /\ enviado' = {Ejecutado(p, j, leido)}
  /\ cpu' = {}
  /\ UNCHANGED <<parserVars, consola, redVars, kernelVars, devuelto, dispatch, finVars>>

\* Mutated form of KernelTermina: the send to the console is missing.
KernelTerminaSinAvisar ==
  /\ caido = "no" /\ retorno # << >> /\ Cop(retorno) = EXIT
  /\ retorno' = << >>
  /\ UNCHANGED <<parserVars, consola, redVars, kernelVars, devuelto, dispatch, cpu, enviado, finVars>>

\* esperar_cpu: the EXIT is sent to the console
KernelTermina ==
  /\ caido = "no" /\ retorno # << >> /\ Cop(retorno) = EXIT
  /\ retorno' = << >> /\ respuesta' = TRUE
  /\ UNCHANGED <<parserVars, consola, redVars, kernelVars, devuelto, dispatch, cpu, enviado, caido,
                 cortado>>

\* esperar_cpu: an evicted process is ready again, one that asks for I/O is blocked
KernelVuelve ==
  /\ caido = "no" /\ retorno # << >> /\ Cop(retorno) \in {INTERRUPTION, BLOCKED}
  /\ retorno' = << >>
  /\ UNCHANGED <<parserVars, consola, redVars, kernelVars, dispatch, cpu, enviado, finVars>>
  /\ devuelto' = {Proceso(retorno)}

\* A short recv in recv_proceso: esperar_cpu's thread ends.
KernelCorte ==
  /\ caido = "no" /\ retorno # << >>
  /\ retorno' = << >> /\ cortado' = TRUE
  /\ UNCHANGED <<parserVars, consola, redVars, kernelVars, devuelto, dispatch, cpu, enviado, respuesta,
                 caido>>

-----------------------------------------------------------------------------
Next ==
  \/ ParserItera \/ ConsolaEnvia \/ ConsolaNoConecta \/ ConsolaRecibe \/ ConsolaMuere
  \/ Entrega \/ procesar_socket \/ OtraConsolaCierra
  \/ KernelDespacha \/ CpuRecibe \/ CpuCorte \/ CpuDevuelve \/ KernelTermina \/ KernelVuelve
  \/ KernelCorte

Spec == Init /\ [][Next]_vars

\* The processes run and the network delivers; nobody need die or be cut short.  A
\* message in a connection is received, whole or not: by the CPU, CpuRecibe or
\* CpuCorte, by the kernel, KernelTermina, KernelVuelve or KernelCorte.
Equidad ==
  /\ WF_vars(ParserItera \/ ConsolaEnvia \/ ConsolaNoConecta \/ ConsolaRecibe)
  /\ WF_vars(Entrega) /\ WF_vars(procesar_socket)
  /\ WF_vars(KernelDespacha) /\ WF_dispatch(caido = "no" /\ dispatch # << >> /\ dispatch' = << >>)
  /\ WF_vars(CpuDevuelve) /\ WF_retorno(caido = "no" /\ retorno # << >> /\ retorno' = << >>)

SpecEquidad == Spec /\ Equidad
-----------------------------------------------------------------------------
(* What a file means                                                       *)

Numeros(linea) == [j \in 1 .. Len(linea) - 1 |-> linea[j + 1][2]]

\* A line is an operation and its parameters, all numbers.
Correcta(linea) ==
  /\ linea[1][1] \in Nombres
  /\ Len(linea) = 1 + cantParametros(linea[1])
  /\ \A j \in 2 .. Len(linea) : linea[j][1] = "numero"

Significado(linea) ==
  LET n == Numeros(linea) \o <<-1, -1>>
  IN IF linea[1][1] = "NO_OP" THEN [j \in 1 .. n[1] |-> Instruccion(linea[1], -1, -1)]
     ELSE <<Instruccion(linea[1], n[1], n[2])>>

\* A program is what is executed of it: its instructions up to its first EXIT.
HastaExit(l) ==
  LET salidas == {j \in DOMAIN l : l[j].operacion = 69}
  IN IF salidas = {} THEN l ELSE SubSeq(l, 1, Min(salidas))

Lista(a) == FlattenSeq([j \in DOMAIN a.fuente |-> Significado(a.fuente[j])])
Programa == HastaExit(Lista(archivo))

\* Files with their operations one to a line, some EXIT, and a last line that is not
\* short of a parameter (the parser would repeat the last operation, or the last
\* parameter); the message's size is below Enorme.
ASSUME FuentesAssumption ==
  \A a \in Archivos :
    /\ \A j \in DOMAIN a.fuente : LET linea == a.fuente[j] IN
         /\ linea # << >> /\ linea[1][1] # "numero"
         /\ \A i \in 2 .. Len(linea) : linea[i][1] \notin Nombres
    /\ \E j \in DOMAIN a.fuente : a.fuente[j][1][1] = "EXIT"
    /\ LET ultima == Last(a.fuente)
       IN ultima[1][1] \in Nombres => Len(ultima) > cantParametros(ultima[1])
    /\ (\A j \in DOMAIN a.fuente : Correcta(a.fuente[j]))
         => SIZE_T + INST * (Len(Lista(a)) + 1) + UINT16 < Enorme

-----------------------------------------------------------------------------
(* Properties                                                              *)

\* The process the kernel lists is the one the file says, with the size asked
\* for if it fits, however its message was cut and wherever the file ends; of a
\* wrong file it lists none.
ListadoFiel ==
  \A p \in listado :
    /\ \A j \in DOMAIN archivo.fuente : Correcta(archivo.fuente[j])
    /\ HastaExit(p.instrucciones) = Programa
    /\ tamanio < 65536 => p.tamanio = tamanio

\* The PCBs at the CPU, on their way back, and back.
Pcbs == cpu \cup devuelto \cup (IF retorno = << >> THEN {} ELSE {Proceso(retorno)})

\* The file's program, but for what its executed COPYs have read.
DelArchivo(p) ==
  LET l == HastaExit(p.instrucciones)
      k == Programa
  IN /\ Len(l) = Len(k)
     /\ \A j \in DOMAIN l :
          /\ l[j].operacion = k[j].operacion /\ l[j].arg1 = k[j].arg1
          /\ \/ l[j].arg2 = k[j].arg2
             \/ j <= p.pc /\ l[j].operacion = Letra(<<"COPY", 0>>) /\ l[j].arg2 \in Leibles

\* Through all its bursts and trips a PCB is received as it was sent, and is the
\* console's: its size, its table, and the file's program, in which only a COPY that
\* has been executed is not what the file says.
PcbFiel ==
  \A p \in Pcbs :
    /\ enviado = {p} /\ DelArchivo(p)
    /\ p.pid = 1 /\ p.tabla_paginas = TABLA /\ p.tamanio = tamanio % 65536

\* A console takes the kernel with it only if it is killed while it waits: one
\* that ends by itself, and closes, does not.
SoloMuertaTumba == caido = "propia" => consola = "muerta"

\* Every console ends.  One that waits for ever has had a recv cut short on its way,
\* and its kernel does not notice: it never exits.
TodaConsolaTermina ==
  <>(consola \in {"exito", "error", "muerta"}) \/ <>[](cortado /\ caido = "no")
=============================================================================
