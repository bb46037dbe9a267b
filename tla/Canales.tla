------------------------------ MODULE Canales ------------------------------
(***************************************************************************)
(* What the processes of the system share: the PCB that travels between    *)
(* kernel and CPU (shared/src/pcb.h), the two sockets it and the           *)
(* interrupts travel on (conexion_cpu_dispatch and conexion_cpu_interrupt, *)
(* opened in inicializar_kernel), and what the memory process holds for    *)
(* each of them, as far as the scheduler decides it.  A PCB has one live copy at a time -- the sender   *)
(* serialises and destroys its own -- so its mutable fields pc and         *)
(* est_rafaga are functions of the pid and a list of PCBs is a list of     *)
(* pids.                                                                   *)
(***************************************************************************)
EXTENDS Integers, Sequences, FiniteSets, SequencesExt

CONSTANTS
  Pids,              \* the processes, one per console
  Nadie,             \* no process: an empty hand, or a pid nobody has
  Programas,         \* the programs a console may send
  EstimacionInicial, \* ESTIMACION_INICIAL of kernel.config
  AlfaNum, AlfaDen,  \* ALFA of kernel.config, as a fraction
  Rafagas            \* the real bursts clock_gettime may measure

\* The operations the scheduler tells apart: "N" is NO_OP, "M" stands for the
\* three that access memory (READ, WRITE, COPY), "I" is I/O and "E" is EXIT.
Operaciones == {"N", "M", "I", "E"}

ASSUME NadieAssumption == Nadie \notin Pids
ASSUME PidsAssumption == IsFiniteSet(Pids)
ASSUME ProgramasAssumption ==
  Programas \subseteq {s \in Seq(Operaciones) : s # << >> /\ s[Len(s)] = "E"}
ASSUME EstimacionAssumption ==
  /\ EstimacionInicial \in Int
  /\ Rafagas \subseteq Nat
  /\ AlfaNum \in Nat /\ AlfaDen \in Nat \ {0} /\ AlfaNum <= AlfaDen

\* The op_codes a process comes back from the CPU with.
Retornos == {"EXIT", "INTERRUPTION", "BLOCKED"}

VARIABLES
  programa,   \* PCB_t.instrucciones, by pid
  pc,         \* PCB_t.pc, by pid: instructions already executed
  est,        \* PCB_t.est_rafaga, by pid
  dispatch,   \* conexion_cpu_dispatch towards the CPU: pids in flight
  retorno,    \* conexion_cpu_dispatch towards the kernel: <<op_code, pid>>
  interrupt,  \* conexion_cpu_interrupt: INTERRUPTION messages in flight
  memoria,    \* by pid: "sin", "tablas" (no frame in use) or "residente"
  bajas       \* conexion_memoria: ELIMINAR_ESTRUCTURAS sent, not yet served

pcbVars == <<programa, pc, est>>
canalVars == <<dispatch, retorno, interrupt>>
memVars == <<memoria, bajas>>

InitCanales ==
  /\ programa \in [Pids -> Programas]
  /\ pc = [p \in Pids |-> 0]
  /\ est = [p \in Pids |-> EstimacionInicial]
  /\ dispatch = << >>
  /\ retorno = << >>
  /\ interrupt = 0
  /\ memoria = [p \in Pids |-> "sin"]
  /\ bajas = << >>

TypeCanales ==
  /\ programa \in [Pids -> Programas]
  /\ pc \in [Pids -> Nat]
  /\ est \in [Pids -> Int]
  /\ dispatch \in Seq(Pids)
  /\ retorno \in Seq(Retornos \X Pids)
  /\ interrupt \in Nat
  /\ memoria \in [Pids -> {"sin", "tablas", "residente"}]
  /\ bajas \in Seq(Pids)
=============================================================================
