# Verification of 2022-TP-SO-Octocats

TLA+ specifications, TLC configurations and TLAPS proofs for the simulated operating system of
this repository: a kernel that schedules processes, a CPU that runs them, a memory server with
paging and swap, and the consoles that send programs. Names of definitions are the source's
(Spanish) names; comments and this text are in English. Line numbers are those of the sources
named in `PROJECT.json`.

## 1. Inventory

| Part | Source | State it keeps | Operations | Talks to |
|---|---|---|---|---|
| Console | `consola/src` | the words not read, `feof`, the last operation read, the list `codigo` | `parser`, `send_programa`, wait for the answer | kernel, one socket each |
| Kernel, console threads | `kernel_utils.c:115-190` | `cola_new`, `sockets`, `iteracion_blocked`, `pid_sig` | `procesar_socket` | consoles; `s_pasaje_a_ready` |
| Kernel, long/mid-term scheduler | `:193-235` | `cola_new`, `cola_suspended_ready`, `lista_ready` | `pasaje_a_ready`, `solicitar_tabla_paginas` | memory (CREAR_TABLA) |
| Kernel, short-term scheduler | `:251-266`, `:474-533` | `lista_ready`, `cpu_desocupado`, `hay_interrupcion` | `fifo_ready_execute` or `srt_ready_execute`, `desalojar_cpu` | CPU (dispatch, interrupt) |
| Kernel, return from the CPU | `:268-351` | all queues and flags | `esperar_cpu` | CPU, memory (ELIMINAR_ESTRUCTURAS), consoles |
| Kernel, suspension | `:353-394` | `cola_suspended_blocked` | `suspendiendo`, one thread per I/O request | memory (SUSPENDER_PROCESO) |
| Kernel, I/O device | `:396-451` | `cola_blocked`, `iteracion_blocked` | `ejecutar_io`, `esta_suspendido` | the schedulers, by semaphores |
| CPU, cycle | `cpu_main.c:20-66, 158-202, 358-404` | the PCB it runs, `hay_interrupcion` | instruction cycle, burst estimate, `interrupcion` thread | kernel |
| CPU, MMU | `cpu_main.c:126-149, 204-356` | the TLB | `traducir_direccion`, `ejecutarRead`, `ejecutarWrite` | memory, two or three requests per access |
| Memory, kernel's thread | `memoria_utils.c:138-299` | page tables, bitmap, clock structures, swap files | create, suspend, eliminate | kernel |
| Memory, CPU's thread | `memoria_utils.c:311-703` | the same, and the frames | walk the tables, page fault and replacement, read, write | CPU |
| `conexion_memoria` | `kernel_utils.c:224-235, 297-302, 364-382`, `memoria_utils.c:138-190` | one socket, no mutex | three sends per request; a recv for two of the three kinds | three kinds of kernel thread; memory |
| Shared | `shared/src` | none | serialise PCBs and programs (`protocol.c`), sockets, PCB helpers | all |

**What is hard.** The kernel is at least five threads and one more per I/O request, tied together
by nine semaphores and eleven mutexes; whether a process is ever lost, duplicated, forgotten or
dispatched twice depends on all of them. The suspension is a timeout that races the end of the
I/O it watches and the next I/O of the same process. Under SRT an interruption crosses a burst
that ends by itself. Memory is changed by two threads that share the bitmap and the frames, and
the CPU caches translations memory invalidates without telling it. Messages are byte streams: the
kernel's threads write their requests to memory field by field on one unguarded socket, a `recv`
may get part of what it asks for, and what was not received keeps the value it had. `PROJECT.json`
lists each hazard at its line with the properties that cover it.

**What makes each part correct.** Scheduler: it implements the state diagram its log messages
draw, with one process in the CPU and at most `GRADO_MULTIPROGRAMACION` in memory; PCBs are
neither lost nor duplicated; the semaphores count what they are meant to count; nobody waits for
ever. Memory and MMU: each process has an address space of its own in which a read gives the last
write, frames are neither shared nor leaked, and TLB, tables, clock and swap agree. Replacement:
the victim is the one CLOCK or CLOCK-M defines. `conexion_memoria`: whatever the threads do in
between, each request and its answer are those of an atomic call, memory is never asked about a
process it holds nothing of, and who waits for an answer with queues locked gets one. Console and
protocol: the process listed is the one the file says, a PCB survives its trips, and every console
is answered.

## 2. Modules

| Module | Models | Correspondence |
|---|---|---|
| `Canales` | what the three processes share: PCB fields by pid, the dispatch and interrupt connections, what memory holds for a process | a connection is a FIFO queue; a PCB has one live copy, so its mutable fields are functions of the pid |
| `Kernel` | every scheduler thread of `kernel_utils.c` | `hilo[h]` is a thread's program counter, `mano[h]` the PCB in its local variable. One action per semaphore operation, critical section or message; `Postea`/`Espera` are the steps that only post or wait |
| `Cpu` | `main`, the instruction cycle, `interrupcion` | one action per instruction cycle; the instructions are the four the scheduler tells apart |
| `Planificacion` | the kernel, the CPU and memory's ELIMINAR together; fairness; the properties | `EstadoDe(p)` reads the diagram's state off queues, hands and sockets |
| `Estados` | **abstract**: the life of a process, eight states, ten transitions | refined by `Planificacion` under FIFO and, with the arrow of an eviction (`Algoritmo`), under SRT; used as the kernel in `Paginacion` |
| `Peticiones` | **abstract**: page tables asked of memory by atomic calls: one table per process, its index handed out, eliminated once | refined by `Conexion` |
| `Conexion` | `conexion_memoria`, the threads that use it and `recibir_kernel` | units of 16 bits; one action per send and per recv. `fase[h]`, `mano[h]`, `faltan[h]` are a thread's place, process and unsent fields, `mx` the holder of each mutex `suspendiendo` locks; `lectura` is what `recibir_kernel` has of the request; `mezclado`, a history variable, becomes TRUE when a request starts out of turn |
| `Protocolo` | `protocol.c:1-192`, the messages PROGRAMA and PROCESO | sequences of bytes, little endian, with the offsets `acumulador` goes through |
| `Consola` | `parser.c`, `consola_main.c`, `procesar_socket` with `recv_programa`, and the PCB's trips to the CPU and back | one action per iteration of the parser, per recv of the kernel, per piece the network delivers and per burst of the CPU (one trip there and one back); an executed COPY leaves in the PCB's list what it read |
| `Clock` | `clock_simple`, `clock_modificado` as recursive functions of one search (bits, pointer, lap); reference definitions of the victim | given the bits in list order and the pointer |
| `Memoria` | the memory process: frames, bitmap, two-level tables, swap, clock structures, both threads' operations | one action per request, but suspension, which is two per frame |
| `Mmu` | the CPU's translation and accesses, the TLB with FIFO and LRU | one action per request and answer; `ultima_referencia` is the rank of the last reference, so the entry `list_sort` puts in place `k` is the one of rank `k` |
| `Paginacion` | `Memoria` + `Mmu` + the kernel as `Estados` | each transition with the request that goes with it; `solapado`, a history variable, becomes TRUE when a page fault takes a frame being copied to swap |
| `Espacio` | **abstract**: a flat, private, zeroed address space | refined by `Paginacion` |
| `MCPlanificacion`, `MCConexion`, `MCConsola`, `MCPaginacion`, `MCClock` | pids, files, sizes and programs for TLC; `MCClock` moves the bits | |
| `Listas` | lemmas on sequences | what `list_add`, `list_remove`, `queue_push` and `queue_pop` do to the elements of a list, and what sends and recvs do to the pieces of a stream |
| `PlanificacionLugares`, `PlanificacionProofs`, `PlanificacionGrado` | theorems about `Planificacion` | section 5: places and types; counting; the degree and the diagram |
| `ConexionProofs`, `ConsolaProofs`, `ClockProofs`, `PaginacionProofs` | theorems about `Conexion`, `Consola`, `MCClock` and `Paginacion` | section 5 |

Operators whose comment begins "Mutated form of" are not part of a model: each is a plausible bug
in the definition below it, kept so that the properties can be shown to notice it
(`PROJECT.json`, `mutants`).

### Modelling decisions

- **Step size.** A kernel step is what a thread does between two points where another can tell the
  difference. A flag read under its mutex is a step; two critical sections are two steps even when
  nothing separates them in the text.
- **Undefined behaviour.** `suspendiendo` is given a PCB pointer that `send_proceso` +
  `pcb_destroy` may free first: after that it reads any pid (`PidLeido`). READ's offset is sent in
  two bytes and received in four (`cpu_main.c:215`, `memoria_utils.c:366`), so the other two are
  whatever follows in the CPU's stack: `CpuLee` takes it right or wrong (`entero`). Asked at a wrong
  offset memory answers any datum, which is also what a COPY then writes; `leido` records only reads
  at the offset asked for, so `ImplementaEspacio` speaks of those, and of every write.
- **Two timing constants.** `ArranqueTardio`: may a `suspendiendo` thread make its first read only
  after the I/O it watches has ended? `RegistroTardio`: may a process leave `cola_new` before its
  console's thread has registered it (`kernel_utils.c:166-175`)? Both may happen, the second when a
  post meant for another process wakes `pasaje_a_ready`. The theorems that assume neither (section
  5) hold with both TRUE, those of all that `Srt` checks among them. `Srt` has late threads; with
  late consoles as well it passes too, but its 6,238,671 states, twice as many, take longer than a
  run should, so its configuration leaves them to the theorems. The FIFO runs have both FALSE:
  thread creation and registration are quicker than an I/O or a scheduling round. It is an
  assumption about timing that the code does not enforce, and `GradoConservado`,
  `SuspendidosBloqueados` and the diagram are false without it: a late thread suspends the
  process in its next I/O, or reads a freed PCB, and a late registration sets the count of I/O
  requests back to zero under a process that has made some. With a late registration a process can also reach its
  EXIT before its console's socket is in the dictionary, and that console is never told; the hazard
  is listed, and no property is stated that the code does not keep.
- **`solapado`.** A page fault may look for a frame at any step of a suspension, also between
  `suspender_proceso` freeing one (`memoria_utils.c:269`) and copying it (`:272`). The history
  variable records that a fault has taken the very frame in between. `MarcosRepartidos`,
  `LimpiaEnSwap` and `ImplementaEspacio` say what holds until that happens, which includes every
  suspension a fault crosses without taking that frame; `PaginasSolapa` shows what follows. The
  other properties of paging hold after it too.
- **`mezclado`.** In `Conexion` no thread waits its turn. The history variable becomes TRUE once a
  request starts while another is half sent, or once one that has an answer starts while another
  awaits its own. The properties about memory say what holds until then; `TypeOK` and
  `SuspensionVigente` hold always, and `ConexionMezcla` shows what follows. An ELIMINAR, which has no
  answer, may start between another's sends and its answer without being out of turn. `Kernel` and
  `Paginacion` take each request as one, which `PeticionesCorrecta` says is right until then.
- **What a trip to the CPU does to a PCB.** The CPU stops just past the instruction that ends its
  burst, an EXIT, an I/O or whichever an interruption follows (`Finales`), and the kernel sends the
  process again unless it was an EXIT. An executed COPY has had its second argument replaced, in the
  PCB's own list, by the value read (`cpu_main.c:161-165`), and that list is what is sent back
  (`:48`). What memory answers is any of `Leibles`, each an `int32_t`. `PcbFiel` says the rest of the
  program is the file's, and such an argument one of `Leibles`, the others untouched.
- **`Segmento`.** The network may cut a message into pieces of at least this many bytes; it is at
  least 12, so that the header of the only message on a new connection is not cut. Were it cut,
  `procesar_socket`'s loop would read the rest of it as op_codes, could take the program's length
  for a size, and deserialise past the payload; `ListadoFiel` does not hold then. PCBs are received
  whole or not: a short `recv_proceso` ends `esperar_cpu`'s thread, or makes the CPU exit.
- **Files** (`FuentesAssumption`). A file is lines of words that fit the parser's buffers; a word is
  its operation or its number, without its characters. Lines may be wrong (an unknown operation, a
  parameter missing, too many, or no number), but operations start lines, some line is an EXIT, as
  in the programs of `src/tests`, and the last line is not short. A newline at the end of the
  file makes the parser go round once more with the last operation: the list is then longer than
  the file, after its EXIT. `ListadoFiel` compares up to the first EXIT, which is what is executed;
  of a file without one the repeated operation would be executed, and of a last line without its
  parameter the one read before, or zero, would be taken.
- **`Enorme`** bounds what `Nro` reads of eight bytes: TLC's integers are of 32 bits. No length of
  a program and no field of a PCB reaches it; lengths come from `list_size`, an `int`, so that it
  may be `2^31 - 1`.
- **What a console reports.** `resultado` is EXIT before its recv (`consola_main.c:27`), so a
  console whose kernel exits reports success: `ConsolaRecibe` does, and `TodaConsolaTermina` counts
  it as an end. What it says is that a console that waits for ever is behind a `recv` cut short that
  its kernel did not notice. `tamanio` is cut to 16 bits by `send_programa`; `ListadoFiel` promises the size only
  below 65536, and `PcbFiel` says what the others become.
- **Lists and dictionaries** of the commons library are atomic.
- **Pages hold one datum**; offsets and accesses that cross a page are left out. Programs address
  their own pages only.
- **Time** is left out: a sleep ends at any moment, a burst measures any value of `Rafagas`, and
  estimates are integers rounded down.

## 3. Runs

| Run | Instance | Checks |
|---|---|---|
| `FifoProceso` | FIFO, 2 processes `M I I E`, degree 1 | types, `ContReady`, `GradoConservado`, `SuspendidosBloqueados`, `ResidentesAcotados`; implements `Estados`; `TodoProcesoTermina` under fairness |
| `FifoGrado` | FIFO, 3 processes `M I E`, degree 2 | `GradoConservado`, `SuspendidosBloqueados`, `CpuExclusiva`, `SinListosOlvidados`, `PcbUnico` |
| `Srt` | SRT, 2 processes, `I E` or `N E`, degree 2, late threads | `ContReady`, `NoSacaDeVacia`, `PcbUnico`, `IoRetiraAlServido` |
| `Conexion` | 2 processes, 2 I/O requests each, until a request starts out of turn | types, `SuspensionVigente`, `MemoriaEnPie`, `VivosConEstructuras`, `RespuestaEnCamino`, `SuspendidoSinMarcos`; implements `Peticiones`; `TodoSeElimina` under fairness |
| `Consola` | 5 programs, with and without a final newline, sizes 64 and 65600, pieces of 16 bytes or more, memory answering 7 or 258 | `ListadoFiel`, `PcbFiel`, `SoloMuertaTumba`; `TodaConsolaTermina` under fairness |
| `ReemplazoClock` | 4 frames, both algorithms | `VictimaCorrecta`, `SegundaOportunidad` |
| `PaginasUno` | 1 process of 3 pages in 2 frames, CLOCK-M, LRU TLB of 2 | types, `TlbCoherente`, `RelojCoherente`, `PaginaHallada`, `LimpiaEnSwap`; implements `Espacio` |
| `PaginasDos` | 2 processes of 2 and 1 pages, one frame each, CLOCK, FIFO TLB of 2, page faults during a suspension | `MarcosRepartidos`, `TlbCoherente`; implements `Espacio` |
| `SrtInterrupcion` | as `Srt`, no late threads | **violated**: `InterrupcionAtendida` |
| `SrtTragado` | as `Srt`, no late threads, bursts of 0 | **violated**: `TragaSoloDuplicados` |
| `ConexionMezcla` | as `Conexion`, with what follows a mixing | **violated**: `ColasSeSueltan` |
| `PaginasSolapa` | as `PaginasDos` | **violated**: `MarcoEraLibre` |

**Bounds, and why they are enough.** No counter is capped: every run explores its whole state
space (555,474 states in `PaginasUno`, 3,335,848 in `PaginasDos`), finite because programs end
(scheduler, connection, console) or data are finite (paging); `MaxES` bounds the I/O requests of a
process of `Conexion`, as its program would. `Conexion.cfg` alone has a constraint, `EnTurno`: it
follows a behaviour up to the first state in which requests have mixed and no further, for past
it there are more than twelve million states. Nothing is lost by it: the properties that speak of
what comes later are the two invariants `TypeOK` and `SuspensionVigente`, which are proved without
it, and `TodoSeElimina` holds by its last disjunct of the behaviours it cuts. Two processes give
every pair of threads something to race for; two I/O requests give the suspension of one the next
to confuse it with; degree 1 makes them queue for the slot. Three processes with degree 2 give one
executing, one ready or in I/O, and one suspended or new, at once. Under SRT `<<"N","E">>` is a
process an interruption can catch between instructions and `<<"I","E">>` one that leaves by
itself just then. Three pages in two frames replace, both by eviction of clean and of modified
pages; second-level tables of two entries make the walk use two tables; a TLB of two entries with
three pages has hits, misses and evictions. `PaginasDos` has all the frames in use when both
processes are resident, so a leaked or shared frame shows. Symmetry of the pids is used in
`FifoGrado` and the SRT runs; it would be unsound with liveness, the pids of `Conexion` are numbers
and those of `PaginasDos` have different sizes. In `Conexion` two processes with two requests put a creation, an elimination and a suspension in
flight at once, and let the second I/O of a process meet the suspension of the first. The files of
`MCConsola` have every operation, COPY before, between and after the instructions that end a burst,
instructions after EXIT, an unknown operation and a parameter that is no number; their messages are
long enough to be cut.

**Deadlock** is checked everywhere except under SRT, where the system really stops
(`SrtInterrupcion` is one way), in `ConexionMezcla`, which stops too, and in `Consola`, whose
processes all end and where a PCB cut short leaves a console waiting for ever. Elsewhere
`Terminado`, and the end of `Paginacion`, are self-loops.

**Fairness.** `Planificacion!Equidad` (`TodoProcesoTermina`) and `Conexion!Equidad`
(`TodoSeElimina`): each thread is a POSIX thread created in `inicializar_kernel` or by
`pthread_create`, which the operating system keeps scheduling, and every `usleep` ends: weak
fairness of each thread's steps. Weak is enough for `sem_wait` because every semaphore has one
thread that waits on it. In `Conexion` it is enough for the mutexes because their holders go on, so
a thread that waits for one finds it free for good in the end: a process has at most `MaxES` I/O
requests. The sockets deliver. `Consola!Equidad`: the processes run, the network delivers, and a
PCB sent is received, by the CPU on dispatch and by the kernel on the way back; that a console is
killed, that another one closes, and that a `recv` is cut short are never required. Nothing is assumed of the order.

### What the violated runs show

- `SrtInterrupcion`: `srt_ready_execute` sees the CPU busy, the burst ends by itself and
  `esperar_cpu` looks at `hay_interrupcion` before it is set. The interruption reaches an idle CPU
  and `sem_wait(&s_pcb_desalojado)` never returns, though the comment in `esperar_cpu` says the
  post is there for that case.
- `SrtTragado`: `sem_getvalue == 1` is taken for a duplicate and the post consumed, but it was the
  one that announced the free CPU: a ready process is forgotten.
- `ConexionMezcla`: the three sends of `solicitar_tabla_paginas` fall between those of a
  suspension. Memory takes the suspension's op_code for the pid of the creation; the bytes left over
  start no request, and `suspendiendo` waits in `recv` with `mx_cola_blocked` and
  `mx_cola_suspended_blocked` locked. The comment about its order of locks says it is there against
  deadlock.
- `PaginasSolapa`: the frame a suspension has freed and not yet copied is given to the running
  process, which overwrites it.

## 4. The refinements

`ImplementaDiagrama`: `EstadoDe` maps where the PCB is (queue, hand, socket) to a state. A process
is `exec` from the moment it leaves the ready list until `esperar_cpu` lists it or gives its slot
back; a process in `cola_blocked` is suspended when `cola_suspended_blocked` has its pid. The slot
of the degree is taken before the process is ready and given back after it is not in memory, so
the bound of the diagram follows only because `GradoConservado` does. Under SRT the diagram has one
arrow more, `Desalojo`, from `exec` back to `ready`: an evicted process takes it when `esperar_cpu`
lists it. The races that stop SRT (`SrtInterrupcion`, `SrtTragado`) move no process along an
arrow that is not there. `FifoProceso` checks the diagram on an instance; for SRT it is
proved (section 5, `DiagramaCorrecto`), and `Srt.cfg` with `ArranqueTardio = FALSE` and
`ImplementaDiagrama` added checks it.

`ImplementaEspacio`: page `g` of `p` is the frame the tables say if it is present, the swap file
otherwise, and zero when there is no file. A page fault, a replacement, a suspension or a table
walk must leave it as it was, in every step until a fault takes a frame that is being copied
(`solapado`). `Paginacion` takes the kernel to be `Estados`, which is what
`ImplementaDiagrama` says of it.

`ImplementaPeticiones`: `tabla` is the number the kernel has put in the PCB, its two halves
recombined, and `vivas` the pids memory has structures of; the sends, memory's recvs and the mutexes
are stuttering steps, and the kernel's recv of the number is `Entregar`. Every step
is one of `Peticiones` until a request starts out of turn (`mezclado`); after that a field of one
request may be taken for another's.

## 5. Proofs

Every safety invariant the passing runs check is a theorem, `ListadoFiel` and `PcbFiel` until a
`recv` is cut short, and so are the three refinements. A theorem holds for every value of the constants the named `ASSUME`s of the
modules allow: finitely many processes, `Nadie` not one of them; programs that end in `"E"`
(`ejecutar` of anything past it is not what the console sends); integer estimates; a positive
degree; at least one frame per process and one entry per table and TLB; a process no longer than
its two levels of tables. Some theorems assume more, or state a
property that ends with the first race of its kind:

| Assumption | Theorems | Why it is there |
|---|---|---|
| none | `TipoCorrecto` (scheduler and connection), `SuspensionVigenteCorrecta`, `ContReadyCorrecto`, `ReadyNuncaVacia`, `NoSacaDeVaciaCorrecto`, `PcbUnicoCorrecto`, `IoRetiraCorrecto`, `RecorridoCorrecto`, `SoloMuertaTumbaCorrecta`, `ProgramaLeido`, `ProcesoLeido`, `VictimaCorrectaSiempre`, `SegundaOportunidadSiempre`, `TypeOKSiempre`, `TlbCoherenteSiempre`, `RelojCoherenteSiempre`, `PaginaHalladaSiempre` | FIFO and SRT, late threads and late consoles, mixed requests, a frame taken while it is copied: all included |
| `Algoritmo = "FIFO"` | `CpuExclusivaCorrecta`, `SinOlvidadosCorrecto` | under SRT the second is false (`SrtTragado`) |
| `~RegistroTardio`, `~ArranqueTardio` | `SuspendidosCorrecto`, `GradoCorrecto`, `DiagramaCorrecto`, with FIFO `ResidentesCorrecto` | false otherwise: a thread created for one I/O suspends the process in the next, or a freed PCB |
| `~cortado` in the property | `ListadoFielCorrecta`, `PcbFielCorrecta`; `CorteFiel` covers the step that cuts | after a short `recv` of the payload the thread goes back to its loop and reads the rest as op_codes and sizes. Whether that rest holds bytes that look like another PROGRAMA depends on the file; TLC checks that those of the run's files do not |
| `~mezclado` in the property | `MemoriaEnPieCorrecta`, `VivosConEstructurasCorrecta`, `SuspendidoSinMarcosCorrecta`, `RespuestaEnCaminoCorrecta`, `PeticionesCorrecta` | no mutex is assumed: what ends the promise is the mixing itself, which `ConexionMezcla` exhibits |
| `~solapado` in the property | `MarcosRepartidosSiempre`, `LimpiaEnSwapSiempre`, `ImplementaEspacioSiempre` | page faults may cross a suspension; what ends the promise is one of them taking the frame being copied, which `PaginasSolapa` exhibits |

**Scheduler.** The proofs are layered, each invariant assuming those before it.

- `Tipos` (`PlanificacionLugares`). `TypeOK` is not inductive: `Lista` appends `mano[h]` to a queue
  of pids, so one must know that a thread at those labels holds a process, that the label belongs
  to that thread, and that a thread stays among its own labels.
- `Unico`. The fourteen queues, hands and sockets are the places `En[l]`; `Repartida(En)` says that
  no PCB is in two or twice in one. A step changes nothing (`Quieto`), brings a PCB in, takes one
  out, or takes one from a place to another (`Entra`, `Sale`, `Traslada`); three lemmas say what
  each does, and each action is shown to be one. `IoRetiraAlServido` is the part `Servido`: the
  head of `cola_blocked` is the process being served although `esperar_cpu` appends meanwhile and
  SRT evicts. `Salidas` ties the places to the program counter: a process has executed its EXIT
  exactly from the CPU on, on its way out. It gives `RecorridoCorrecto` and the other half of
  `PcbUnico`, that none is lost.
- `Cuenta`, `Colas` (`PlanificacionProofs`). `ContReady` charges each thread for what it has
  listed and not posted, or waited for and not removed; `Bloqueada` and `Pendiente` do the same for
  `s_blocked` against `cola_blocked` and `s_pasaje_a_ready` against `cola_new` and
  `cola_suspended_ready`; `Mirada` keeps what `pasaje_a_ready` saw until it pops. At the label that
  pops a list its charge is at least one, so the list is not empty.
- `Fifo`. `Turno` is the invariant of a mutual exclusion whose token changes hands: the value of
  `s_cpu_desocupado`, the scheduler once it has waited, the processes in the CPU's places and
  `esperar_cpu` until it posts add up to one. `Avisados` gives each listed process a post of
  `s_ready_execute` given, taken or owed. `SinDesalojo` says that a FIFO kernel stays at FIFO labels.
- `SoloNueva` (`PlanificacionGrado`): without late consoles a process whose console thread is not
  past its registration is nowhere but in `cola_new`, so nothing it has counted is reset.
- `Vigilado`. For each I/O request at most one thread may still find its process blocked in it
  (`Vigente`), it has read its own process's key, its PCB is not freed, and the process is not
  listed as suspended. Inductive only with `Listando`, for the moment between `esperar_cpu`'s
  listing a process and creating the thread.
- `DeGrado`. `Cupos` adds the semaphore, the slot in `pasaje_a_ready`'s hand, the threads about to
  give one back and the processes whose state is `ready`, `exec` or `blocked`. To count threads one
  must tell two of the same process apart: `Rafagueo` numbers them by the burst they follow.
  `Residen` bounds the frames: what is resident has a slot, or is leaving and then is alone.
- `DiagramaCorrecto`: each thread's steps move at most one process along one arrow of `Estados`,
  and the guard of the arrow into memory is `Cupos` read backwards. The arrow back from the CPU is
  `esperar_cpu`'s alone, and only an SRT kernel is at its labels.

**Connection** (`ConexionProofs`). The invariant has two parts. The first, `TipoOrden`, `Orden` and
`Amplio`, holds whatever memory reads of the stream: `Orden` is the schedulers' side (which I/O a
process is in, who holds which mutex, whether a suspension under way is still of the I/O it watches),
of which `SuspensionVigente` is a part, and `Amplio` gives a process a table from its creation on, be
it the right one or not. The second, `Red(m, q, f)`, holds while `~mezclado` and reads the
connection as its users mean it: there are lists of whole requests `m`, of pieces in flight `q` and
of pieces to be sent `f` such that the units on the wire are `q` joined (`Flujo`) and what memory has
read followed by `q` and `f` is `m` joined. A recv then takes exactly one piece, because
`FormaPedido` says how long each field of each request is; that is what fails once requests mix.
`Justos` says each request of `m` was made by who waits for it, or is the elimination of a process
that has ended, at most one of each; `Espera` that who waits has its request in `m` or its answer on
the way; `Estructurado` is memory's side, of which `VivosConEstructuras` and `SuspendidoSinMarcos`
are parts. A step that mixes makes the second part's hypothesis false; every other keeps it. The
refinement `PeticionesCorrecta` follows: only `pasaje`'s recv, memory's serving and their like change
`tabla` or `vivas`, and what they change is what the atomic call would.

**Console** (`ConsolaProofs`). `Retirado`: the thread of a console whose process is listed has
returned, and while the kernel is up a console ends by itself only after its answer. It gives
`SoloMuertaTumbaCorrecta`. The bytes take three layers.

- *Serialisation.* `Bytes`, `Nro` and `FlattenSeq` are recursive functions. That each exists follows
  from `Iterada` (a function given by its first value and each next one), and what it returns from
  `Hasta`, an induction over a set of naturals by its least element. `Bytes` and `Nro` are inverse
  while the number fits; a message is read back field by field from where each field is
  (`Trozo`), which what follows does not move. `ProgramaLeido` and `ProcesoLeido` are the result.
- *Parser.* `Analiza`: the parser is at the beginning of a line, all lines before it correct, read
  and added (`Leido(k)`); or it is about to read a word that is no operation, and exit; or it has
  exited; or it is done with a correct file (`Analizado`), and perhaps the last operation once
  more. A wrong line the iteration does not see is a long one (`IteraMala`), and its first extra
  word makes the next iteration exit; the iteration at the end of the file adds one instruction at
  most, after an EXIT (`SalidaPrimera`).
- *Connection.* `Senda`: what has arrived and what is in flight, joined, is what the thread has
  not received of the console's message, so a whole `recv` takes exactly the field it means
  (`Recibe`), however the network cuts (`EntregaLleva`). `Suyo`: listed, serialised or at the CPU,
  the process is the one of the console's list but for what executed COPYs have written in it
  (`Propia`). `EjecutadoPropia` says a burst keeps that, and `Llegada` that a PCB received is
  the one that was sent. Both hold until `cortado` (`Intacto`); the step that sets it still keeps
  `ListadoFiel` and `PcbFiel`, which is `CorteFiel`. `Fiel` is their conjunction with `Retirado`,
  `Analiza` and `Antes` (before the console sends, nothing is on its connection), and inductive.

**Replacement** (`ClockProofs`). `clock_simple` and `clock_modificado` are recursive functions.
That they are defined at all, and what they return, is shown without an induction principle: the
places a search goes through are a path (`Camino`) whose places up to the first where it stops
are each given the value of the next, and a set of naturals has a least element (`WFMin`, which is
first order). Laps of the pointer are `Pos` and `Distancia`, inverses of each other. CLOCK-M ends in
its first, second, third or fourth lap according to which class of `VictimaClockM` is not empty.

**Paging** (`PaginacionProofs`). `IInv` holds whatever a page fault takes:

- `IMem`, memory by itself: `Tipos`; `Tablas`, every page of a live process has an entry and no two
  the same; `EnLista`, the clock structure of a process lists exactly its present pages, with the
  frames the tables give; `Repartidos`, a busy frame is in one list, once, and conversely. The frame
  `suspender_proceso` has freed and is yet to copy is excepted (`Firme`): it is still in a list
  and may already be another's.
- `TlbBien`, the TLB by itself: its ranks are a permutation, no page is twice in it.
- `TlbDelPcb` and `Ciclo`, the two together: each entry is right about the running process, and
  memory's `pid_actual` is that process whenever the TLB may answer. `pid_actual` changes only
  on a walk of the tables; that it is never stale on a TLB hit needs the TLB to be emptied between
  processes.
- `Nucleo`: who has structures, runs, is suspended, by the kernel's states.

Each of memory's operations is shown to keep `IMem` from a description of what it changes
(`SoloFila`: one entry; `Quieta(p)`: nothing of a process), and a page fault is taken apart into
taking a frame, evicting, and installing. Two invariants more hold until
`solapado`: `Duenos`, that no frame is in the lists of two processes (`UnDueno`), and `Limpios`, that a clean
page's swap copy is right (`Limpia`), from which `LimpiaEnSwap` follows. A fault takes a frame marked free, and the only one marked
free that a list may still hold is the one being copied (`MarcoSinPagina`); so either it takes that
one, and `solapado` becomes TRUE, or a frame nobody has.
`ImplementaEspacioSiempre` then sorts every step into three: no page's content changes and what is
read is what the page holds (`SigueTodo`, `Leyo`); a process's pages are given up (`SeBorra`); a
page gets the datum written and no other changes (`SeEscribe`).

**Model-checked only.** Liveness (`TodoProcesoTermina`, `TodoSeElimina`, `TodaConsolaTermina`): the
prover has neither fairness nor `ENABLED`. `ListadoFiel` and `PcbFiel` after a `recv` has been
cut short, for the files of the run.

## 6. Not modelled

- Lines 193-562 of `protocol.c`, which nobody calls; characters of words and formats of logs.
- Configuration, logging and the set-up of connections. Their loss is modelled only between a
  console and the kernel, and where a short PCB makes the CPU exit.
- A header of PROGRAMA cut by the network (see `Segmento`), and what the kernel does with the
  process it would then list.
- Data races inside the commons library (`dictionary_get` without its mutex, the lists of page
  tables between memory's threads), 16-bit pids wrapping.
- Offsets inside a page: accesses of four bytes that cross into the next frame, addresses past the
  process's size, and past the frames altogether where READ's two-byte offset may lead.
- How many exited processes can hold frames at once while their ELIMINAR requests wait.

## 7. Plan

Done: (1) the scheduler, its channels and the CPU's cycle, the state diagram; (2) types and the
ready counter proved; (3) page replacement; (4) memory, MMU and their composition; (5)
`conexion_memoria` as a stream its threads share; (6) the console, from its file to its answer, and
the serialisation; (7) the safety of every component and the three refinements proved, the diagram
under FIFO and SRT; (8) the console proved from its file to its answer, the serialisation byte by
byte, executed COPYs included; (9) the mixing of requests and the overlap of a suspension and a
page fault recorded by history variables instead of excluded by an assumption.

Next, in order:

1. Action properties that say more than the invariants: a suspension takes the frames of no other
   process; a page fault changes no content; `esperar_cpu` answers each console once.
2. SRT: the eviction hand-shake keeps no count. With the two processes of `Srt`, TLC reaches a state
   with two interruptions in flight, one with two posts in `s_pcb_desalojado` and one with two
   processes sent to the CPU. Which bound does follow, and from what, is open.
3. `GradoConservado` with late threads and late consoles: which weaker bound survives, and the run that shows it.
4. The address arithmetic: offsets, accesses across a page, entries past the process's size.
5. `ListadoFiel` after a short `recv`: which files leave a rest that cannot be read as a message.
