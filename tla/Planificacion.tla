--------------------------- MODULE Planificacion ---------------------------
(***************************************************************************)
(* The scheduling of the whole system: the kernel's threads (Kernel), the  *)
(* CPU's (Cpu), and the memory process's answer to the one request nobody  *)
(* waits for, ELIMINAR_ESTRUCTURAS (memoria/src/memoria_utils.c).          *)
(***************************************************************************)
EXTENDS Kernel, Cpu

vars == <<pcbVars, canalVars, memVars, kernelVars, cpuVars>>

Init == InitCanales /\ InitKernel /\ InitCpu

\* recibir_kernel, ELIMINAR_ESTRUCTURAS: eliminar_estructuras(tabla, pid)
MemoriaElimina ==
  /\ bajas # << >>
  /\ memoria' = [memoria EXCEPT ![Head(bajas)] = "sin"]
  /\ bajas' = Tail(bajas)
  /\ UNCHANGED <<pcbVars, canalVars, kernelVars, cpuVars>>

\* The last instruction a process has executed is its EXIT.
Salio(p) == pc[p] > 0 /\ programa[p][pc[p]] = "E"

\* Every process has run to its EXIT and every thread is back at its wait: the
\* system has nothing left to do.
Terminado ==
  /\ \A p \in Pids : consola[p] = "fin" /\ Salio(p)
  /\ hilo["esperar"] = "esperar" /\ sem["s_esperar_cpu"] = 0
  /\ suspendiendo = {} /\ bajas = << >> /\ cpuFase = "libre" /\ interrupt = 0

Kernel == NextKernel /\ UNCHANGED cpuVars
Cpu == NextCpu /\ UNCHANGED kernelVars

Next == Kernel \/ Cpu \/ MemoriaElimina \/ (Terminado /\ UNCHANGED vars)

Spec == Init /\ [][Next]_vars

\* Every thread of the three processes is a POSIX thread the operating system
\* keeps scheduling, and every sleep ends.
Equidad ==
  /\ \A p \in Pids : WF_vars(procesar_socket(p) /\ UNCHANGED cpuVars)
  /\ WF_vars(pasaje_a_ready /\ UNCHANGED cpuVars)
  /\ WF_vars(ready_execute /\ UNCHANGED cpuVars)
  /\ WF_vars(esperar_cpu /\ UNCHANGED cpuVars)
  /\ WF_vars(ejecutar_io /\ UNCHANGED cpuVars)
  /\ WF_vars(CpuMain /\ UNCHANGED kernelVars)
  /\ WF_vars(CpuInterrupcion /\ UNCHANGED kernelVars)
  /\ WF_vars(MemoriaElimina)
  /\ \A p \in Pids :
       WF_vars(/\ \E v \in suspendiendo : v.pid = p /\ hilo_suspendido(v)
               /\ UNCHANGED cpuVars)

SpecEquidad == Spec /\ Equidad
-----------------------------------------------------------------------------
(* Where a process is                                                      *)

Enlazado(h, etiquetas) == IF hilo[h] \in etiquetas THEN <<mano[h]>> ELSE << >>
PidsDe(s) == [i \in DOMAIN s |-> s[i][2]]

\* The PCBs on their way to, in, or back from the CPU, from the moment they
\* leave the ready list until esperar_cpu has put them somewhere else.
EnCpu ==
  Enlazado("execute", {"s_ocupar", "enviar"}) \o dispatch
  \o (IF cpuPcb = Nadie THEN << >> ELSE <<cpuPcb>>) \o PidsDe(retorno)
  \o Enlazado("esperar", Retornos \cup {"x_consola", "x_grado", "i_listar", "b_listar"})

\* Every live PCB of the kernel and the CPU, one entry per copy.
Pcbs ==
  cola_new \o lista_ready \o cola_blocked \o cola_suspended_ready
  \o EnCpu \o Enlazado("esperar", {"x_memoria"})
  \o Enlazado("pasaje", {"listar"})
  \o Enlazado("io", {"iteracion", "clasificar", "suspendido", "listo"})

\* The process state of the diagram kernel_utils.c logs transitions of.
Listos == ToSet(lista_ready) \cup
  ToSet(Enlazado("pasaje", {"listar"})) \cup ToSet(Enlazado("io", {"listo"}))
Bloqueados == ToSet(cola_blocked) \cup
  ToSet(Enlazado("io", {"iteracion", "clasificar"}))
SuspReady == ToSet(cola_suspended_ready) \cup ToSet(Enlazado("io", {"suspendido"}))

EstadoDe(p) ==
  CASE consola[p] = "conectada" -> "llega"
    [] p \in ToSet(cola_new) -> "new"
    [] p \in Listos -> "ready"
    [] p \in ToSet(EnCpu) -> "exec"
    [] p \in Bloqueados ->
         IF p \in ToSet(cola_suspended_blocked) THEN "susp_blocked" ELSE "blocked"
    [] p \in SuspReady -> "susp_ready"
    [] OTHER -> "exit"

Diagrama == INSTANCE Estados WITH
  estado <- [p \in Pids |-> EstadoDe(p)], Desalojo <- (Algoritmo = "SRT")

-----------------------------------------------------------------------------
(* Properties                                                              *)

\* Every variable keeps its type.
TypeOK == TypeCanales /\ TypeKernel /\ TypeCpu

\* The system, all its threads and semaphores together, lets each process go
\* only through the transitions of the diagram, with at most
\* GRADO_MULTIPROGRAMACION in main memory; under FIFO one in the CPU at a time,
\* under SRT with the eviction of the one that executes.
ImplementaDiagrama == Diagrama!Spec

\* No PCB is lost or duplicated while it goes from queue to thread to socket:
\* a process that has not run its EXIT is in exactly one place, one that has
\* in at most one.
PcbUnico ==
  /\ IsInjective(Pcbs)
  /\ \A p \in Pids : consola[p] # "conectada" /\ ~Salio(p) => p \in ToSet(Pcbs)

\* s_cont_ready counts the ready list: it is short of it by one for each thread
\* that has listed a process and not posted yet, or waited and not removed yet.
EntreListaYCont == {"re", "cr", "io_re", "io_cr", "i_cr", "f_sacar", "s_cpu", "s_marcar",
                    "s_interrumpir", "s_esperar", "s_desmarcar", "s_elegir"}
Debe(l) == IF l \in EntreListaYCont THEN 1 ELSE 0
ContReady ==
  Len(lista_ready) = sem["s_cont_ready"]
    + Debe(hilo["pasaje"]) + Debe(hilo["execute"]) + Debe(hilo["esperar"]) + Debe(hilo["io"])

\* The short-term scheduler never takes a process from an empty ready list.
ReadyNoVacia == hilo["execute"] \in {"f_sacar", "s_elegir"} => lista_ready # << >>

\* No thread takes the first element of an empty queue, which would be NULL:
\* whenever a thread has decided to pop, its queue has something, whatever the
\* other threads did since the post that woke it.
NoSacaDeVacia ==
  /\ ReadyNoVacia
  /\ hilo["pasaje"] = "new" => cola_new # << >>
  /\ hilo["pasaje"] = "susp" => cola_suspended_ready # << >>
  /\ hilo["io"] \in {"tomar", "dormir"} => cola_blocked # << >>

\* The process ejecutar_io removes from cola_blocked after its sleep is the one
\* it read before it, though the queue was unlocked in between.
IoRetiraAlServido == hilo["io"] = "dormir" => Head(cola_blocked) = mano["io"]

\* The CPU and its socket have at most one process at a time.
CpuExclusiva == Len(EnCpu) <= 1

\* No slot of the multiprogramming degree is lost or invented: the semaphore,
\* the slots in threads' hands and the processes in main memory add up.
Uno(b) == IF b THEN 1 ELSE 0
GradoConservado ==
  sem["s_multiprogramacion_actual"]
    + Uno(hilo["pasaje"] \in {"mirar", "new", "susp"})
    + Cardinality({v \in suspendiendo : v.fase = "soltar"})
    + Cardinality({p \in Pids : EstadoDe(p) \in {"ready", "exec", "blocked"}})
  = Grado

\* A process is listed as suspended at most once and only while its I/O lasts,
\* so that no stale entry sends a later I/O of it to suspended-ready.
SuspendidosBloqueados ==
  /\ IsInjective(cola_suspended_blocked)
  /\ ToSet(cola_suspended_blocked) \subseteq Bloqueados

\* The processes that hold frames and are not being eliminated are at most
\* Grado: memory is dimensioned by the degree, although the kernel frees the
\* slot of a process before it asks for its frames to be freed.
ResidentesAcotados ==
  Cardinality({p \in Pids : memoria[p] = "residente"} \ ToSet(bajas)) <= Grado

\* A ready process is not forgotten: while the CPU has no process and the
\* short-term scheduler waits to be told to dispatch, somebody still has to
\* post s_ready_execute.
SinListosOlvidados ==
  /\ hilo["execute"] \in {"f_re", "s_re"} /\ sem["s_ready_execute"] = 0
  /\ lista_ready # << >> /\ EnCpu = << >>
  => \/ hilo["pasaje"] = "re"
     \/ hilo["io"] = "io_re"
     \/ hilo["esperar"] \in {"x_memoria", "b_hilo", "b_blocked",
                             "fin_cpu", "fin_re"}

\* The claim of the comment at srt_ready_execute's sem_getvalue: a post that is
\* swallowed was given while another process was still being sent to execute,
\* so swallowing it forgets nobody.  (Stated of processes that were evicted when
\* the scheduler asked for it, not by an interruption left over: the race of the
\* first arrival with the creation of the thread is left aside.)
TragaSoloDuplicados ==
  /\ \E p \in ToSet(lista_ready) : pc[p] > 0 /\ iteracion_blocked[p] = 0
  /\ hilo["esperar"] = "esperar" /\ sem["s_pcb_desalojado"] = 0
  => SinListosOlvidados

\* The claim of esperar_cpu's last step in EXIT and BLOCKED: an interruption
\* sent while the process was ending its burst by itself is answered too, so
\* the SRT scheduler never waits for an eviction nobody will report.
InterrupcionAtendida ==
  hilo["execute"] = "s_esperar"
    => \/ sem["s_pcb_desalojado"] > 0 \/ sem["s_esperar_cpu"] > 0
       \/ hilo["esperar"] # "esperar"

\* Every program a console has sent runs to its EXIT and the console is told.
TodoProcesoTermina ==
  \A p \in Pids : consola[p] # "conectada" ~> p \in avisada
=============================================================================
