------------------------------ MODULE MCClock ------------------------------
(***************************************************************************)
(* The frames of one process under accesses and replacements, to compare   *)
(* what Clock's algorithms choose with what they promise in every state a  *)
(* process can bring its frames to.                                        *)
(***************************************************************************)
EXTENDS Clock

VARIABLES bits, puntero, algoritmo
mcVars == <<bits, puntero, algoritmo>>

\* Every page has just been loaded (obtener_nro_marco_memoria sets uso).
InitReloj ==
  /\ bits = [p \in Posiciones |-> [uso |-> TRUE, modificado |-> FALSE]]
  /\ puntero = 0
  /\ algoritmo \in {"CLOCK", "CLOCK-M"}

Lee(p) == bits' = [bits EXCEPT ![p].uso = TRUE] /\ UNCHANGED puntero
Escribe(p) ==
  bits' = [bits EXCEPT ![p] = [uso |-> TRUE, modificado |-> TRUE]] /\ UNCHANGED puntero

Elegida == IF algoritmo = "CLOCK" THEN clock_simple(bits, puntero)
           ELSE clock_modificado(bits, puntero)

\* The page brought in takes the victim's place.
Reemplaza ==
  LET r == Elegida
  IN /\ bits' = [r.bits EXCEPT ![r.victima] = [uso |-> TRUE, modificado |-> FALSE]]
     /\ puntero' = r.puntero

NextReloj ==
  /\ Reemplaza \/ \E p \in Posiciones : Lee(p) \/ Escribe(p)
  /\ UNCHANGED algoritmo
SpecReloj == InitReloj /\ [][NextReloj]_mcVars

\* The moving pointer stops where the definition without one says.
VictimaCorrecta ==
  Elegida.victima = IF algoritmo = "CLOCK" THEN VictimaClock(bits, puntero)
                    ELSE VictimaClockM(bits, puntero)

\* Second chance: a replacement takes the use bit away from the pages it must
\* pass over and from no other, and never touches a modified bit.
SegundaOportunidad ==
  Elegida.bits = [p \in Posiciones |->
    [uso |-> bits[p].uso /\ p \notin Despojadas(bits, puntero, algoritmo),
     modificado |-> bits[p].modificado]]
=============================================================================
