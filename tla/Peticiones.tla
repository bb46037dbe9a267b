----------------------------- MODULE Peticiones -----------------------------
(***************************************************************************)
(* What the kernel and the memory process promise each other about page    *)
(* tables, with every request an atomic call: memory makes one first-level *)
(* table per process, the process is handed the index of its own, and it   *)
(* is eliminated once, after that.                                         *)
(***************************************************************************)
EXTENDS Naturals, Sequences, SequencesExt

CONSTANT Pids

VARIABLES
  tablas,  \* the first-level tables, in order of creation, by owner
  tabla,   \* by pid: {} or the set of the one table number it was handed
  vivas    \* the processes memory holds structures of

vars == <<tablas, tabla, vivas>>

Init == tablas = << >> /\ tabla = [p \in Pids |-> {}] /\ vivas = {}

Crear(p) ==
  /\ p \notin ToSet(tablas)
  /\ tablas' = Append(tablas, p)
  /\ vivas' = vivas \cup {p}
  /\ UNCHANGED tabla

\* Lists are indexed from zero: table t is element t + 1.
Entregar(p) ==
  /\ tabla[p] = {}
  /\ \E i \in DOMAIN tablas : tablas[i] = p /\ tabla' = [tabla EXCEPT ![p] = {i - 1}]
  /\ UNCHANGED <<tablas, vivas>>

Eliminar(p) ==
  /\ tabla[p] # {} /\ p \in vivas
  /\ vivas' = vivas \ {p}
  /\ UNCHANGED <<tablas, tabla>>

Next == \E p \in Pids : Crear(p) \/ Entregar(p) \/ Eliminar(p)

Spec == Init /\ [][Next]_vars
=============================================================================
