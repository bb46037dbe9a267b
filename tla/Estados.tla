------------------------------ MODULE Estados ------------------------------
(***************************************************************************)
(* What the scheduler promises, without threads, queues or semaphores: the *)
(* life of a process as the transitions kernel_utils.c logs ("[NEW ->      *)
(* READY]", "[BLOCKED -> SUSP_BLOCKED]", ...), with at most Grado in main  *)
(* memory. Without eviction one process has the CPU at a time; with it,    *)
(* an executing process may go back to ready, and the next may be on its   *)
(* way to the CPU before the evicted one has arrived.                      *)
(***************************************************************************)
EXTENDS Naturals, FiniteSets

CONSTANTS Pids, Grado,
  Desalojo  \* whether a process can be evicted from the CPU (ALGORITMO_PLANIFICACION)

VARIABLE estado

Valores == {"llega", "new", "ready", "exec", "blocked", "susp_blocked",
            "susp_ready", "exit"}

EnMemoria == {p \in Pids : estado[p] \in {"ready", "exec", "blocked"}}

Init == estado = [p \in Pids |-> "llega"]

Pasa(p, a, b) == estado[p] = a /\ estado' = [estado EXCEPT ![p] = b]

Crea(p) == Pasa(p, "llega", "new")
\* Long- and mid-term scheduling take a slot of the multiprogramming degree.
Admite(p) == Pasa(p, "new", "ready") /\ Cardinality(EnMemoria) < Grado
Reanuda(p) == Pasa(p, "susp_ready", "ready") /\ Cardinality(EnMemoria) < Grado
\* Short-term scheduling takes the CPU.
Ejecuta(p) == Pasa(p, "ready", "exec") /\ (Desalojo \/ \A q \in Pids : estado[q] # "exec")
Desaloja(p) == Desalojo /\ Pasa(p, "exec", "ready")
Bloquea(p) == Pasa(p, "exec", "blocked")
Termina(p) == Pasa(p, "exec", "exit")
Suspende(p) == Pasa(p, "blocked", "susp_blocked")
FinIo(p) == Pasa(p, "blocked", "ready") \/ Pasa(p, "susp_blocked", "susp_ready")

Next == \E p \in Pids :
  \/ Crea(p) \/ Admite(p) \/ Reanuda(p) \/ Ejecuta(p) \/ Desaloja(p)
  \/ Bloquea(p) \/ Termina(p) \/ Suspende(p) \/ FinIo(p)

Spec == Init /\ [][Next]_estado
=============================================================================
