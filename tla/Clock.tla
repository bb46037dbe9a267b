------------------------------- MODULE Clock -------------------------------
(***************************************************************************)
(* The page replacement algorithms of memoria_utils.c, clock_simple and    *)
(* clock_modificado, as functions: given the use and modified bits of the  *)
(* frames of a process (estructura_clock.marcos_en_memoria, in its order)  *)
(* and the pointer, the victim and the use bits left.  They only run when  *)
(* the process has all its MarcosPorProceso frames.                        *)
(***************************************************************************)
EXTENDS Naturals

CONSTANT MarcosPorProceso  \* MARCOS_POR_PROCESO of memoria.config

ASSUME MarcosAssumption == MarcosPorProceso \in Nat \ {0}

Posiciones == 0 .. MarcosPorProceso - 1
Bits == [Posiciones -> [uso : BOOLEAN, modificado : BOOLEAN]]

avanzar_puntero(p) == IF p + 1 = MarcosPorProceso THEN 0 ELSE p + 1

\* Mutated form of SinUso: the modified bit goes with the use bit.
SinUsoNiModificado(b, p) == [b EXCEPT ![p] = [uso |-> FALSE, modificado |-> FALSE]]

SinUso(b, p) == [b EXCEPT ![p].uso = FALSE]

\* A search under way: the bits and the pointer, and, of clock_modificado, which
\* of its two laps it is in: 2 is the one that clears, as clock_simple always does.
Busquedas == [bits : Bits, puntero : Posiciones, paso : {1, 2}]

\* The victim (its position) and the bits when it is found.
Hallada(e) ==
  [victima |-> e.puntero, bits |-> e.bits, puntero |-> avanzar_puntero(e.puntero)]

\* clock_simple: skip, and clear, the used pages.
clock_simple(bits, inicio) ==
  LET Busca[e \in Busquedas] ==
        IF ~e.bits[e.puntero].uso THEN Hallada(e)
        ELSE Busca[[bits |-> SinUso(e.bits, e.puntero),
                    puntero |-> avanzar_puntero(e.puntero), paso |-> 2]]
  IN Busca[[bits |-> bits, puntero |-> inicio, paso |-> 2]]

\* The lap of clock_modificado that looks at e's page: does the page suit it?
Sirve(e) == ~e.bits[e.puntero].uso /\ (e.bits[e.puntero].modificado <=> e.paso = 2)

\* The page does not: on to the next one, in the other lap when this one ends.
Pasa(e, inicio) ==
  LET q == avanzar_puntero(e.puntero)
  IN [bits |-> IF e.paso = 2 THEN SinUso(e.bits, e.puntero) ELSE e.bits,
      puntero |-> q, paso |-> IF q = inicio THEN 3 - e.paso ELSE e.paso]

\* Mutated form of clock_modificado: the lap that looks for (0,1) comes first.
clock_modificado_al_reves(bits, inicio) ==
  LET Busca[e \in Busquedas] == IF Sirve(e) THEN Hallada(e) ELSE Busca[Pasa(e, inicio)]
  IN Busca[[bits |-> bits, puntero |-> inicio, paso |-> 2]]

\* clock_modificado: a lap looking for (0,0) that changes nothing, a lap
\* looking for (0,1) that clears the use bits, and again.
clock_modificado(bits, inicio) ==
  LET Busca[e \in Busquedas] == IF Sirve(e) THEN Hallada(e) ELSE Busca[Pasa(e, inicio)]
  IN Busca[[bits |-> bits, puntero |-> inicio, paso |-> 1]]

-----------------------------------------------------------------------------
(* What the algorithms promise, without a pointer that moves               *)

\* How far position p is from the pointer.
Distancia(inicio, p) == (p + MarcosPorProceso - inicio) % MarcosPorProceso

\* The first position, from the pointer on, of a set.
Primera(inicio, S) == CHOOSE p \in S : \A q \in S : Distancia(inicio, p) <= Distancia(inicio, q)

\* CLOCK: the first page not used since the last pass, or the one pointed to.
VictimaClock(bits, inicio) ==
  LET libres == {p \in Posiciones : ~bits[p].uso}
  IN IF libres # {} THEN Primera(inicio, libres) ELSE inicio

\* CLOCK-M: the classes (0,0), (0,1), (1,0), (1,1) of use and modified, in that
\* order of preference, and in each the first from the pointer.
VictimaClockM(bits, inicio) ==
  LET clase(u, m) == {p \in Posiciones : bits[p].uso = u /\ bits[p].modificado = m}
  IN IF clase(FALSE, FALSE) # {} THEN Primera(inicio, clase(FALSE, FALSE))
     ELSE IF clase(FALSE, TRUE) # {} THEN Primera(inicio, clase(FALSE, TRUE))
     ELSE IF clase(TRUE, FALSE) # {} THEN Primera(inicio, clase(TRUE, FALSE))
     ELSE inicio

\* The pages that lose their use bit: those between the pointer and a victim
\* nobody had used, every page if all were used, and none when CLOCK-M finds a
\* (0,0) in its first lap.
Despojadas(bits, inicio, algoritmo) ==
  LET libres == {p \in Posiciones : ~bits[p].uso}
      v == Primera(inicio, libres)
  IN IF libres = {} THEN Posiciones
     ELSE IF algoritmo = "CLOCK-M" /\ \E p \in libres : ~bits[p].modificado THEN {}
     ELSE {p \in Posiciones : Distancia(inicio, p) < Distancia(inicio, v)}
=============================================================================
