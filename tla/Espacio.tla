------------------------------ MODULE Espacio ------------------------------
(***************************************************************************)
(* What memory and the CPU promise a process together, without frames,     *)
(* tables, swap or TLB: an address space of its own, zeroed when it        *)
(* starts, in which a read gives the last value written.                   *)
(***************************************************************************)
CONSTANTS Pids, Datos, Cero, Paginas(_), Nada

VARIABLES
  espacio,  \* by process and page, what it holds
  leido     \* the last read: process, page and value; or Nada

vars == <<espacio, leido>>

Init ==
  /\ espacio = [p \in Pids |-> [g \in Paginas(p) |-> Cero]]
  /\ leido = Nada

Escribe(p, g, d) == espacio' = [espacio EXCEPT ![p][g] = d] /\ leido' = Nada
Lee(p, g) == leido' = <<p, g, espacio[p][g]>> /\ UNCHANGED espacio
Olvida == leido' = Nada /\ UNCHANGED espacio
\* The process is gone.
Borra(p) ==
  /\ espacio' = [espacio EXCEPT ![p] = [g \in Paginas(p) |-> Cero]]
  /\ UNCHANGED leido

Next ==
  \/ Olvida
  \/ \E p \in Pids : Borra(p)
  \/ \E p \in Pids : \E g \in Paginas(p) : Lee(p, g) \/ \E d \in Datos : Escribe(p, g, d)

Spec == Init /\ [][Next]_vars
=============================================================================
