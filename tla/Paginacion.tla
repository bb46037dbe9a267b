----------------------------- MODULE Paginacion -----------------------------
(***************************************************************************)
(* Virtual memory as a whole: the memory process with its two threads      *)
(* (Memoria), the CPU that translates and accesses (Mmu) and, in the place *)
(* of the kernel, the diagram its FIFO scheduler implements (Estados), each *)
(* transition with the request to memory and the dispatch that go with it. *)
(* The kernel's threads are taken to make one request at a time.           *)
(***************************************************************************)
EXTENDS Mmu, FiniteSets

CONSTANT Grado   \* GRADO_MULTIPROGRAMACION

ASSUME PaginacionAssumption == Grado \in Nat \ {0}

VARIABLES
  estado,    \* by pid, its state in the diagram
  suspende,  \* the process memory is suspending, or Nadie
  solapado   \* history: has a page fault taken a frame that suspender_proceso had
             \* freed and not yet copied to swap?

vars == <<memoriaVars, mmuVars, estado, suspende, solapado>>

K == INSTANCE Estados WITH Desalojo <- FALSE

Init == InitMemoria /\ InitMmu /\ K!Init
        /\ suspende = Nadie /\ solapado = FALSE

-----------------------------------------------------------------------------
(* The kernel                                                              *)

\* Transitions memory and the CPU know nothing of.  Until memory has answered
\* SUSPENDER_PROCESO, suspendiendo keeps the mutexes of the blocked lists, which
\* the end of an I/O needs.
Planifica(p) ==
  /\ K!Crea(p) \/ K!Reanuda(p) \/ (suspende = Nadie /\ K!FinIo(p))
  /\ UNCHANGED <<memoriaVars, mmuVars, suspende, solapado>>

\* pasaje_a_ready: NEW -> READY, with CREAR_TABLA
Admite(p) ==
  /\ K!Admite(p) /\ suspende = Nadie
  /\ crear_tablas(p)
  /\ UNCHANGED <<mmuVars, suspende, solapado>>

\* fifo_ready_execute sends it and the CPU receives it
Ejecuta(p) == K!Ejecuta(p) /\ Despacha(p) /\ UNCHANGED <<memoriaVars, suspende, solapado>>

\* The CPU sends it back and esperar_cpu receives it: EXIT or BLOCKED, which
\* needs the mutex of cola_blocked
Vuelve(p) ==
  /\ K!Termina(p) \/ (suspende = Nadie /\ K!Bloquea(p))
  /\ Devuelve(p)
  /\ UNCHANGED <<memoriaVars, suspende, solapado>>

\* ELIMINAR_ESTRUCTURAS has no answer: it is served any time after the EXIT,
\* but not while memory serves another request.
Elimina(p) ==
  /\ estado[p] = "exit" /\ swap[p] # << >> /\ suspende = Nadie
  /\ eliminar_estructuras(p)
  /\ UNCHANGED <<mmuVars, estado, suspende, solapado>>

\* SUSPENDER_PROCESO: sent; a frame at a time; and answered.
SuspenderPide(p) ==
  /\ estado[p] = "blocked" /\ suspende = Nadie
  /\ suspende' = p
  /\ UNCHANGED <<memoriaVars, mmuVars, estado, solapado>>
SuspenderMarco ==
  /\ suspende # Nadie
  /\ suspender_libera(suspende) \/ suspender_copia(suspende)
  /\ UNCHANGED <<mmuVars, estado, suspende, solapado>>
SuspenderFin ==
  /\ suspende # Nadie /\ lista(suspende) = << >>
  /\ K!Suspende(suspende)
  /\ suspende' = Nadie
  /\ UNCHANGED <<memoriaVars, mmuVars, solapado>>

-----------------------------------------------------------------------------
(* The CPU                                                                 *)

\* The frame suspender_proceso has freed and is about to copy to swap.
SeCopia(m) == copiando # Nadie /\ Head(lista(copiando)).nro_marco = m

\* A page walk, which may find it free.
CpuMarcoSolapa ==
  /\ CpuMarco
  /\ solapado' = (solapado \/ \E m \in NrosMarco : SeCopia(m) /\ ocupado'[m])

Cpu ==
  /\ \/ CpuMarcoSolapa
     \/ (CpuCiclo \/ CpuTabla \/ CpuLee \/ CpuEscribe) /\ UNCHANGED solapado
  /\ UNCHANGED <<estado, suspende>>

\* Nothing is left to do.
Terminado == \A p \in Pids : estado[p] = "exit" /\ swap[p] = << >>

Next ==
  \/ \E p \in Pids :
       Planifica(p) \/ Admite(p) \/ Ejecuta(p) \/ Vuelve(p) \/ Elimina(p) \/ SuspenderPide(p)
  \/ SuspenderMarco \/ SuspenderFin
  \/ Cpu
  \/ (Terminado /\ UNCHANGED vars)

Spec == Init /\ [][Next]_vars

-----------------------------------------------------------------------------
(* What a process sees                                                     *)

\* The page's entry of the second-level tables.
Entrada(p, g) ==
  fila(nro_tabla_2do_nivel(p, g \div EntradasPorTabla), g % EntradasPorTabla)

Contenido(p, g) ==
  IF swap[p] = << >> THEN Cero
  ELSE IF Entrada(p, g).presencia THEN memoria[Entrada(p, g).nro_marco] ELSE swap[p][g]

Virtual == INSTANCE Espacio
  WITH espacio <- [p \in Pids |-> [g \in Paginas(p) |-> Contenido(p, g)]]

-----------------------------------------------------------------------------
(* Properties                                                              *)

\* Every variable keeps its type.
TypeOK ==
  TypeMemoria /\ TypeMmu /\ suspende \in Pids \cup {Nadie} /\ solapado \in BOOLEAN

\* The frames, the replacement, the swap file, the two-level tables and the TLB
\* together give each process an address space of its own, in which a read
\* (ejecutarRead) returns what the last write (ejecutarWrite) left, through
\* suspensions and whatever the other processes do: in every step taken until a page
\* fault takes a frame that was being copied, and whatever a READ of which memory took
\* the offset for another has given meanwhile.
ImplementaEspacio ==
  Virtual!Init /\ [][~solapado' => [Virtual!Next]_(Virtual!vars)]_vars

\* What the CPU finds in its TLB is so: each entry names one of the pages of the
\* running process, present and in the frame the entry says, though memory never tells
\* the CPU that it took a page away.
TlbCoherente ==
  pcb # Nadie =>
    \A i \in DOMAIN tlb : tlb[i].pagina # -1 =>
      /\ tlb[i].pagina \in Paginas(pcb)
      /\ Entrada(pcb, tlb[i].pagina).presencia
      /\ Entrada(pcb, tlb[i].pagina).nro_marco = tlb[i].marco

\* The clock structures and the page tables say the same: the pages of a process
\* marked present are, each once, those of its list, with the same frame.
RelojCoherente ==
  \A p \in Pids : swap[p] # << >> =>
    /\ \A g \in Paginas(p) : Entrada(p, g).presencia =>
         \E i \in DOMAIN lista(p) : lista(p)[i].nro_swap = g
                                    /\ lista(p)[i].nro_marco = Entrada(p, g).nro_marco
    /\ \A i \in DOMAIN lista(p) :
         /\ Entrada(p, lista(p)[i].nro_swap).presencia
         /\ \A j \in DOMAIN lista(p) : lista(p)[i].nro_swap = lista(p)[j].nro_swap => i = j

\* Until a page fault takes a frame that was being copied, a frame is marked busy
\* exactly while one process, and only one, has a page in it; the frame being copied to
\* swap is already marked free.
MarcosRepartidos ==
  ~solapado => \A m \in NrosMarco :
    LET duenos == {d \in Pids \X (1 .. MarcosPorProceso) :
                     d[2] \in DOMAIN lista(d[1]) /\ lista(d[1])[d[2]].nro_marco = m}
    IN Cardinality(duenos) = IF ocupado[m] \/ SeCopia(m) THEN 1 ELSE 0

\* What the comment "Buscar el primer marco libre" claims of the frame a page
\* fault takes: nobody has a page in it, so no frame gets a second owner.
MarcoEraLibre ==
  \A m \in NrosMarco :
    Cardinality({p \in Pids : \E i \in DOMAIN lista(p) : lista(p)[i].nro_marco = m}) <= 1

\* read_en_memoria and write_en_memoria find the page they mark: the frame they
\* are given is one of pid_actual's, which memory last heard of in a request
\* that a TLB hit skips.  Otherwise obtener_pagina gives NULL.
PaginaHallada ==
  fase = "acceso" =>
    /\ pid_actual = pcb
    /\ \E i \in DOMAIN lista(pcb) : /\ lista(pcb)[i].nro_marco = nro
                                    /\ lista(pcb)[i].nro_swap = instruccion.pag

\* Until then, the swap file of a process is right about every page that is not
\* modified: a victim or a suspended page that is clean need not be written back.
LimpiaEnSwap ==
  ~solapado => \A p \in Pids : swap[p] # << >> =>
    \A g \in Paginas(p) :
      Entrada(p, g).presencia /\ ~Entrada(p, g).modificado
        => memoria[Entrada(p, g).nro_marco] = swap[p][g]
=============================================================================
