-------------------------------- MODULE Cpu --------------------------------
(***************************************************************************)
(* The CPU process (cpu/src/cpu_main.c) as the scheduler sees it: the main *)
(* thread, which takes a PCB off the dispatch socket, runs instruction     *)
(* cycles until one ends the burst and sends the PCB back, and the thread  *)
(* interrupcion, which turns each message of the interrupt socket into a   *)
(* flag.  Address translation and the TLB are outside this module.         *)
(***************************************************************************)
EXTENDS Canales

VARIABLES
  cpuFase,    \* where the main thread is: "libre", "ciclo", "fin", "devolver"
  cpuPcb,     \* the process it holds, or Nadie
  cpuEstado,  \* the op_code its last instruction cycle ended with
  cpuHayInterrupcion  \* hay_interrupcion of cpu_main.c

cpuVars == <<cpuFase, cpuPcb, cpuEstado, cpuHayInterrupcion>>

InitCpu ==
  /\ cpuFase = "libre"
  /\ cpuPcb = Nadie
  /\ cpuEstado = "CONTINUE"
  /\ cpuHayInterrupcion = FALSE

TypeCpu ==
  /\ cpuFase \in {"libre", "ciclo", "fin", "devolver"}
  /\ cpuPcb \in Pids \cup {Nadie}
  /\ cpuEstado \in Retornos \cup {"CONTINUE"}
  /\ cpuHayInterrupcion \in BOOLEAN

\* main: recv + recv_proceso; the burst starts in state CONTINUE.
CpuRecibe ==
  /\ cpuFase = "libre"
  /\ dispatch # << >>
  /\ cpuPcb' = Head(dispatch)
  /\ dispatch' = Tail(dispatch)
  /\ cpuFase' = "ciclo"
  /\ cpuEstado' = "CONTINUE"
  /\ UNCHANGED <<cpuHayInterrupcion, pcbVars, retorno, interrupt, memVars>>

\* execute: I/O ends the burst BLOCKED, EXIT ends it EXIT, the rest continue.
Execute(op) ==
  CASE op = "I" -> "BLOCKED" [] op = "E" -> "EXIT" [] OTHER -> "CONTINUE"

\* check_interrupt, called only after an instruction that continues.
CheckInterrupt(estado) ==
  IF estado = "CONTINUE" /\ cpuHayInterrupcion THEN "INTERRUPTION" ELSE estado

\* One turn of iniciar_ciclo_instruccion: fetch, execute, check_interrupt
\* (which consumes the flag it acts on) and pc++.  An instruction that touches
\* memory leaves the process with at least one frame (traducir_direccion).
CpuCiclo ==
  /\ cpuFase = "ciclo"
  /\ LET op == programa[cpuPcb][pc[cpuPcb] + 1]
         estado == CheckInterrupt(Execute(op))
     IN /\ cpuEstado' = estado
        /\ cpuHayInterrupcion' =
             IF estado = "INTERRUPTION" THEN FALSE ELSE cpuHayInterrupcion
        /\ cpuFase' = IF estado = "CONTINUE" THEN "ciclo" ELSE "fin"
        /\ memoria' = IF op = "M"
                      THEN [memoria EXCEPT ![cpuPcb] = "residente"] ELSE memoria
  /\ pc' = [pc EXCEPT ![cpuPcb] = @ + 1]
  /\ UNCHANGED <<cpuPcb, programa, est, canalVars, bajas>>

\* calculo_estimacion, over integers: doubles are rounded down.
CalculoEstimacion(e, real, estado) ==
  IF estado = "INTERRUPTION"
  THEN e - real
  ELSE (e * AlfaNum + real * (AlfaDen - AlfaNum)) \div AlfaDen

\* End of the burst: the estimate is recomputed from whatever the clock
\* measured and the interrupt flag is cleared.
CpuFinRafaga ==
  /\ cpuFase = "fin"
  /\ \E real \in Rafagas :
       est' = [est EXCEPT ![cpuPcb] = CalculoEstimacion(@, real, cpuEstado)]
  /\ cpuHayInterrupcion' = FALSE
  /\ cpuFase' = "devolver"
  /\ UNCHANGED <<cpuPcb, cpuEstado, programa, pc, canalVars, memVars>>

\* send_proceso(cliente_socket_dispatch, pcb, estado) and pcb_destroy.
CpuDevuelve ==
  /\ cpuFase = "devolver"
  /\ retorno' = Append(retorno, <<cpuEstado, cpuPcb>>)
  /\ cpuPcb' = Nadie
  /\ cpuFase' = "libre"
  /\ cpuEstado' = "CONTINUE"
  /\ UNCHANGED <<cpuHayInterrupcion, pcbVars, dispatch, interrupt, memVars>>

\* Thread interrupcion: one message off the interrupt socket sets the flag.
CpuInterrupcion ==
  /\ interrupt > 0
  /\ interrupt' = interrupt - 1
  /\ cpuHayInterrupcion' = TRUE
  /\ UNCHANGED <<cpuFase, cpuPcb, cpuEstado, pcbVars, dispatch, retorno, memVars>>

CpuMain == CpuRecibe \/ CpuCiclo \/ CpuFinRafaga \/ CpuDevuelve
NextCpu == CpuMain \/ CpuInterrupcion
=============================================================================
